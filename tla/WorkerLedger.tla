---------------------------- MODULE WorkerLedger ----------------------------
(***************************************************************************)
(* The external-worker ledger of libexec/apgr_workers and the processes    *)
(* that share it: launchers, detached supervisors, the provider process    *)
(* groups, cancellers and the parent's drain.                              *)
(*                                                                         *)
(* Every ledger operation runs under one file lock: it reads the document, *)
(* demotes jobs whose supervisor is gone, applies itself and replaces the  *)
(* document, so each is one atomic action here, and an operation that      *)
(* raises writes nothing and is no step.  What is NOT atomic is everything *)
(* between two operations, and that is where the interleavings are.        *)
(***************************************************************************)
EXTENDS Naturals, FiniteSets

CONSTANTS
  Jobs,        \* job ids; one per idempotency key
  Launchers,   \* concurrent launch calls
  Request,     \* Request[l]: the [job, kind, task, prev, scope] call l asks for
  Cancellers,  \* concurrent cancel or abandon calls
  Kinds,       \* worker kinds (pools)
  Capacity,    \* Capacity[k]: most active jobs of kind k
  QuotaKinds,  \* kinds whose pool may be paused in this instance
  NoJob,       \* "no previous job"
  PsFlaky,     \* TRUE: ps may time out, so an identity check may fail wrongly
  Crashes      \* TRUE: launchers, supervisors and the drain may die anywhere

ReservedOnly == {"reserved"}
Handoff      == {"starting", "launched"}
Stoppable    == ReservedOnly \cup Handoff \cup {"running"}
Active       == Stoppable \cup {"stopping", "orphaned"}
Terminal     == {"completed", "failed", "cancelled"}

(* The recorded provider group: unknown, known from a result's observation *)
(* only, or recorded with its leader's identity.                           *)
GroupEvidence == {"none", "seen", "full"}

Requests == [job : Jobs, kind : Kinds, task : {Request[l].task : l \in Launchers},
             prev : Jobs \cup {NoJob}, scope : {Request[l].scope : l \in Launchers}]

ASSUME ConstantsAssumption ==
  /\ IsFiniteSet(Jobs)
  /\ NoJob \notin Jobs
  /\ Kinds \subseteq {"gemini", "luna", "sonnet"}
  /\ Request \in [Launchers -> Requests]
  /\ Capacity \in [Kinds -> Nat]
  /\ QuotaKinds \subseteq Kinds
  /\ PsFlaky \in BOOLEAN /\ Crashes \in BOOLEAN

SupLive    == {"starting", "refused", "bound", "spawned", "attached", "settling"}
ProvLive   == {"running", "lingering", "detached"}

VARIABLES
  parent,     \* the parent's status in the ledger
  jobs,       \* the ledger's job records; status "absent" before admission
  paused,     \* pools closed to new reservations
  lpc,        \* where each launch call is
  sup,        \* the supervisor process of each job
  termed,     \* its `cancelled` flag, set by the TERM handler
  verdict,    \* the status and cleanup proof it is about to report
  prov,       \* the provider process group of each job
  cpc,        \* where each cancel call is: [at, job, group, proven]
  drain,      \* the drain: [at, mine, todo, report]
  stopped     \* history: jobs whose stop request was accepted

ledgerVars == <<parent, jobs, paused>>
procVars   == <<sup, termed, verdict, prov>>
vars == <<parent, jobs, paused, lpc, sup, termed, verdict, prov, cpc, drain, stopped>>

JobRecord ==
  [status  : Active \cup Terminal \cup {"absent"},
   req     : Requests \cup {NoJob},
   attempt : 0..2,
   claimed : BOOLEAN,   \* launch_claimed
   pid     : BOOLEAN,   \* supervisor_pid recorded
   bound   : BOOLEAN,   \* supervisor_bound
   group   : GroupEvidence,
   proven  : BOOLEAN,   \* cleanup_proven
   result  : {"none", "unproven", "proven"}]

NoRecord == [status |-> "absent", req |-> NoJob, attempt |-> 0, claimed |-> FALSE,
             pid |-> FALSE, bound |-> FALSE, group |-> "none", proven |-> FALSE,
             result |-> "none"]

LauncherPoints == {"reserve", "claim", "stage", "popen", "record", "reap", "reapkill",
                   "check", "fail", "cancel", "watch", "settle", "done"}
CancelPoints   == {"idle", "begin", "unclaimed", "identify", "poll", "mismatch",
                   "cleanup", "receipt"}
DrainPoints    == {"idle", "term", "kill"}

CancelRecord == [at : CancelPoints, job : Jobs \cup {NoJob}, group : GroupEvidence,
                 proven : BOOLEAN]

IdleCanceller == [at |-> "idle", job |-> NoJob, group |-> "none", proven |-> FALSE]

IdleDrain(report) == [at |-> "idle", mine |-> {}, todo |-> {}, report |-> report]

(* The shape of the ledger document and of every process beside it; the      *)
(* attempt number of a job, a value written from another job's record, stays *)
(* within the two attempts a task has.                                       *)
TypeOK ==
  /\ parent \in {"active", "draining", "closed"}
  /\ jobs \in [Jobs -> JobRecord]
  /\ paused \subseteq Kinds
  /\ lpc \in [Launchers -> LauncherPoints]
  /\ sup \in [Jobs -> SupLive \cup {"none", "exited", "gone"}]
  /\ termed \in [Jobs -> BOOLEAN]
  /\ verdict \in [Jobs -> [status : Terminal, proven : BOOLEAN]]
  /\ prov \in [Jobs -> ProvLive \cup {"none", "gone"}]
  /\ cpc \in [Cancellers -> CancelRecord]
  /\ drain \in [at : DrainPoints, mine : SUBSET Jobs, todo : SUBSET Jobs,
                report : {"none", "clean", "uncertain"}]
  /\ stopped \subseteq Jobs

Init ==
  /\ parent = "active"
  /\ jobs = [j \in Jobs |-> NoRecord]
  /\ paused = {}
  /\ lpc = [l \in Launchers |-> "reserve"]
  /\ sup = [j \in Jobs |-> "none"]
  /\ termed = [j \in Jobs |-> FALSE]
  /\ verdict = [j \in Jobs |-> [status |-> "failed", proven |-> FALSE]]
  /\ prov = [j \in Jobs |-> "none"]
  /\ cpc = [c \in Cancellers |-> IdleCanceller]
  /\ drain = IdleDrain("none")
  /\ stopped = {}

-----------------------------------------------------------------------------
(* The ledger document *)

CleanupProven(r) == r.proven \/ r.result = "proven"

(* Whether a ps identity check of a process that is there succeeds.        *)
Identities(present) == IF ~present THEN {FALSE} ELSE IF PsFlaky THEN BOOLEAN ELSE {TRUE}

(* An exited supervisor keeps its pid, group and ps row until it is waited *)
(* for.                                                                    *)
SupPresent(j) == sup[j] \in SupLive \cup {"exited"}

(* Faulty variant of Reaped: only running jobs are demoted. *)
ReapedRunningOnly ==
  [j \in Jobs |->
     LET r == jobs[j] IN
     IF r.status # "running" \/ ~r.pid \/ sup[j] # "gone" THEN r
     ELSE [r EXCEPT !.status = "orphaned", !.proven = FALSE]]

(* _reap_stale_processes: a dead recorded supervisor leaves its job        *)
(* orphaned, or failed if cleanup had been proven.                         *)
Reaped ==
  [j \in Jobs |->
     LET r == jobs[j] IN
     IF r.status \notin Active \/ ~r.pid \/ sup[j] # "gone" THEN r
     ELSE IF CleanupProven(r) THEN [r EXCEPT !.status = "failed", !.proven = TRUE]
     ELSE [r EXCEPT !.status = "orphaned", !.proven = FALSE]]

(* One locked transaction that leaves record r for job j.                  *)
Commit(j, r) == jobs' = [Reaped EXCEPT ![j] = r]

(* Faulty variants of Updated: a settled job takes a late event, a stop does *)
(* not own the outcome, and a status becomes terminal without proof.         *)
UpdatedLate(r, requested, proven, result) ==
  [r EXCEPT !.status = IF proven THEN requested ELSE "orphaned", !.proven = proven]

UpdatedUnowned(r, requested, proven, result) ==
  IF r.status \in Terminal THEN r
  ELSE [r EXCEPT !.status = IF requested \in Terminal /\ ~proven THEN "orphaned" ELSE requested,
                 !.proven = proven]

UpdatedUngated(r, requested, proven, result) ==
  IF r.status \in Terminal THEN r
  ELSE [r EXCEPT !.status = IF r.status = "stopping" THEN "cancelled" ELSE requested,
                 !.proven = proven]

(* update_gemini_status: a terminal job keeps its status, a stopping one   *)
(* ends cancelled, and no status is terminal without proof.                *)
Updated(r, requested, proven, result) ==
  LET owned == IF r.status = "stopping" /\ requested \notin {"cancelled", "orphaned"}
               THEN IF proven THEN "cancelled" ELSE "orphaned"
               ELSE requested
      gated == IF owned \in Terminal /\ ~proven THEN "orphaned" ELSE owned
  IN  IF r.status \in Terminal THEN r
      ELSE [r EXCEPT !.status = gated, !.proven = proven,
                     !.result = IF result = "none" THEN @ ELSE result]

ActiveOfKind(R, k) == {j \in Jobs : R[j].status \in Active /\ R[j].req.kind = k}

(* Faulty variants of ScopeFree: an orphaned job or a mere reservation no    *)
(* longer occupies its scope.                                                *)
ScopeFreeOfOrphans(R, scope) ==
  \A j \in Jobs : R[j].status \in Active \ {"orphaned"} => R[j].req.scope \cap scope = {}

ScopeFreeOfReserved(R, scope) ==
  \A j \in Jobs : R[j].status \in Active \ ReservedOnly => R[j].req.scope \cap scope = {}

(* Two scopes are sets of leaf paths; they overlap when they share one.    *)
ScopeFree(R, scope) ==
  \A j \in Jobs : R[j].status \in Active => R[j].req.scope \cap scope = {}

(* Faulty variants of Attempt: a predecessor that is merely not running is   *)
(* good enough, and nobody counts the attempts.                             *)
AttemptAfterAny(R, q) ==
  LET lineage == {j \in Jobs : R[j].status # "absent" /\ R[j].req.task = q.task} IN
  IF q.prev = NoJob
  THEN IF lineage = {} THEN 1 ELSE 0
  ELSE IF /\ q.prev # q.job /\ R[q.prev].status \notin Stoppable \cup {"absent"}
          /\ R[q.prev].attempt < 2 /\ Cardinality(lineage) < 2
       THEN R[q.prev].attempt + 1 ELSE 0

AttemptUnbounded(R, q) ==
  IF q.prev = NoJob THEN 1
  ELSE IF R[q.prev].status \in Terminal /\ CleanupProven(R[q.prev])
       THEN R[q.prev].attempt + 1 ELSE 0

(* _recovery_lineage: the attempt this request would be, 0 if refused.     *)
Attempt(R, q) ==
  LET lineage == {j \in Jobs : R[j].status # "absent" /\ R[j].req.task = q.task}
      p == R[q.prev]
  IN  IF q.prev = NoJob
      THEN IF lineage = {} THEN 1 ELSE 0
      ELSE IF /\ q.prev # q.job
              /\ p.status \in Terminal /\ CleanupProven(p)
              /\ p.req.task = q.task
              /\ p.attempt < 2
              /\ Cardinality(lineage) < 2
           THEN p.attempt + 1
           ELSE 0

-----------------------------------------------------------------------------
(* A launch call: adapter.launch_worker_job and the ledger operations it   *)
(* makes.                                                                  *)

JobOf(l)    == Request[l].job
GoTo(l, pt) == lpc' = [lpc EXCEPT ![l] = pt]

(* Faulty variant of Admissible: a full pool takes one more. *)
AdmissibleOverfull(R, q) ==
  /\ parent = "active"
  /\ Attempt(R, q) # 0
  /\ ScopeFree(R, q.scope)
  /\ q.kind \notin paused
  /\ Cardinality(ActiveOfKind(R, q.kind)) <= Capacity[q.kind]

Admissible(R, q) ==
  /\ parent = "active"
  /\ Attempt(R, q) # 0
  /\ ScopeFree(R, q.scope)
  /\ q.kind \notin paused
  /\ Cardinality(ActiveOfKind(R, q.kind)) < Capacity[q.kind]

(* reserve_gemini on a new key: admit the job or raise.                    *)
Reserve(l) ==
  LET q == Request[l] R == Reaped IN
  /\ lpc[l] = "reserve"
  /\ R[q.job].status = "absent"
  /\ Admissible(R, q)
  /\ Commit(q.job, [NoRecord EXCEPT !.status = "reserved", !.req = q,
                                    !.attempt = Attempt(R, q)])
  /\ GoTo(l, "claim")
  /\ UNCHANGED <<parent, paused, procVars, cpc, drain, stopped>>

(* reserve_gemini on a known key: the same content gets the job's snapshot, *)
(* and only a job still reserved is worth claiming.                         *)
ReserveAgain(l) ==
  LET q == Request[l] R == Reaped IN
  /\ lpc[l] = "reserve"
  /\ parent = "active"
  /\ R[q.job].status # "absent"
  /\ R[q.job].req = q
  /\ jobs' = R
  /\ GoTo(l, IF R[q.job].status \in ReservedOnly THEN "claim" ELSE "done")
  /\ UNCHANGED <<parent, paused, procVars, cpc, drain, stopped>>

(* Faulty variant of Claim: a job already claimed may be claimed again. *)
ClaimAgain(l) ==
  LET j == JobOf(l) r == Reaped[j] IN
  /\ lpc[l] = "claim"
  /\ IF r.status \in {"reserved", "starting"}
     THEN /\ Commit(j, [r EXCEPT !.status = "starting", !.claimed = TRUE])
          /\ GoTo(l, "stage")
     ELSE /\ jobs' = Reaped
          /\ GoTo(l, "done")
  /\ UNCHANGED <<parent, paused, procVars, cpc, drain, stopped>>

(* claim_gemini_launch: the right to Popen, given once.                    *)
Claim(l) ==
  LET j == JobOf(l) r == Reaped[j] IN
  /\ lpc[l] = "claim"
  /\ IF r.status = "reserved"
     THEN /\ Commit(j, [r EXCEPT !.status = "starting", !.claimed = TRUE])
          /\ GoTo(l, "stage")
     ELSE /\ jobs' = Reaped
          /\ GoTo(l, "done")
  /\ UNCHANGED <<parent, paused, procVars, cpc, drain, stopped>>

(* The task file is written and set_gemini_task_file accepts any active job. *)
StageTask(l) ==
  LET j == JobOf(l) r == Reaped[j] IN
  /\ lpc[l] = "stage"
  /\ IF r.status \in Active
     THEN jobs' = Reaped /\ GoTo(l, "popen")
     ELSE Commit(j, Updated(r, "cancelled", TRUE, "none")) /\ GoTo(l, "done")
  /\ UNCHANGED <<parent, paused, procVars, cpc, drain, stopped>>

Popen(l) ==
  /\ lpc[l] = "popen"
  /\ sup' = [sup EXCEPT ![JobOf(l)] = "starting"]
  /\ GoTo(l, "record")
  /\ UNCHANGED <<ledgerVars, termed, verdict, prov, cpc, drain, stopped>>

(* Faulty variant of FailLaunch: the error leaves the job as it is. *)
FailLaunchSilently(l) ==
  /\ lpc[l] \in {"stage", "popen"}
  /\ jobs' = Reaped
  /\ GoTo(l, "done")
  /\ UNCHANGED <<parent, paused, procVars, cpc, drain, stopped>>

(* Staging or Popen raised: fail_gemini_launch settles the job.            *)
FailLaunch(l) ==
  LET j == JobOf(l) r == Reaped[j] IN
  /\ lpc[l] \in {"stage", "popen"}
  /\ IF r.pid \/ r.status \in Terminal
     THEN jobs' = Reaped
     ELSE Commit(j, [r EXCEPT !.status = IF @ = "stopping" THEN "cancelled" ELSE "failed",
                              !.proven = TRUE])
  /\ GoTo(l, "done")
  /\ UNCHANGED <<parent, paused, procVars, cpc, drain, stopped>>

(* record_gemini_launch: hand custody over, unless the job was stopped, the *)
(* parent is closing, or another owner or no identity is seen.              *)
RecordLaunch(l) ==
  LET j == JobOf(l) r == Reaped[j] IN
  /\ lpc[l] = "record"
  /\ \E seen \in Identities(SupPresent(j)) :
       LET open == r.status \in Stoppable /\ parent = "active" /\ seen IN
       /\ IF open /\ ~r.pid /\ r.status = "starting" /\ r.claimed
          THEN Commit(j, [r EXCEPT !.status = "launched", !.pid = TRUE, !.bound = FALSE])
          ELSE jobs' = Reaped
       /\ GoTo(l, IF open /\ (r.pid \/ (r.status = "starting" /\ r.claimed))
                  THEN "watch" ELSE "reap")
  /\ UNCHANGED <<parent, paused, procVars, cpc, drain, stopped>>

(* Waiting on the child succeeds once it has exited.                       *)
WaitChild(l) ==
  /\ lpc[l] \in {"reap", "reapkill", "watch"}
  /\ sup[JobOf(l)] = "exited"
  /\ sup' = [sup EXCEPT ![JobOf(l)] = "gone"]
  /\ GoTo(l, IF lpc[l] = "watch" THEN "settle" ELSE "check")
  /\ UNCHANGED <<ledgerVars, termed, verdict, prov, cpc, drain, stopped>>

(* After a refused handoff the snapshot decides whether to settle the job. *)
CheckRefused(l) ==
  LET r == Reaped[JobOf(l)] IN
  /\ lpc[l] = "check"
  /\ jobs' = Reaped
  /\ GoTo(l, IF r.status \notin Handoff \cup {"stopping"} \/ r.pid THEN "done"
             ELSE IF r.status = "stopping" THEN "cancel" ELSE "fail")
  /\ UNCHANGED <<parent, paused, procVars, cpc, drain, stopped>>

SettleRefused(l) ==
  LET j == JobOf(l) IN
  /\ lpc[l] \in {"fail", "cancel"}
  /\ Commit(j, Updated(Reaped[j], IF lpc[l] = "cancel" THEN "cancelled" ELSE "failed",
                       TRUE, "none"))
  /\ GoTo(l, "done")
  /\ UNCHANGED <<parent, paused, procVars, cpc, drain, stopped>>

(* Faulty variant of SettleLaunchExit: the child's exit settles a job whose  *)
(* supervisor had bound, and whose provider may be left.                     *)
SettleLaunchExitBound(l) ==
  LET j == JobOf(l) r == Reaped[j] IN
  /\ lpc[l] = "settle"
  /\ IF r.pid /\ r.status \in {"launched", "stopping", "orphaned"}
     THEN Commit(j, [r EXCEPT !.status = IF @ = "stopping" THEN "cancelled" ELSE "failed",
                              !.proven = TRUE])
     ELSE jobs' = Reaped
  /\ GoTo(l, "done")
  /\ UNCHANGED <<parent, paused, procVars, cpc, drain, stopped>>

(* settle_gemini_launch_exit, by the thread that waited for the child.     *)
SettleLaunchExit(l) ==
  LET j == JobOf(l) r == Reaped[j] IN
  /\ lpc[l] = "settle"
  /\ IF r.pid /\ ~r.bound /\ r.status \in {"launched", "stopping", "orphaned"}
     THEN Commit(j, [r EXCEPT !.status = IF @ = "stopping" THEN "cancelled" ELSE "failed",
                              !.proven = TRUE])
     ELSE jobs' = Reaped
  /\ GoTo(l, "done")
  /\ UNCHANGED <<parent, paused, procVars, cpc, drain, stopped>>

(* The launching process ends, and its waiting thread with it: always      *)
(* possible after the handoff, earlier only by a crash.                    *)
LauncherExit(l) ==
  /\ \/ lpc[l] \in {"watch", "settle"}
     \/ Crashes /\ lpc[l] \notin {"reserve", "done"}
  /\ GoTo(l, "done")
  /\ UNCHANGED <<ledgerVars, procVars, cpc, drain, stopped>>

-----------------------------------------------------------------------------
(* Signals.  The supervisor's handler is installed just before the bind and *)
(* the default action is back once the provider run is over.                *)

Terminate(j) ==
  \/ /\ sup[j] \in {"starting", "bound", "spawned", "attached"}
     /\ termed' = [termed EXCEPT ![j] = TRUE]
     /\ sup' = sup
  \/ /\ sup[j] \in {"starting", "refused", "settling"}
     /\ sup' = [sup EXCEPT ![j] = "exited"]
     /\ termed' = termed
  \/ sup[j] \notin SupLive /\ UNCHANGED <<sup, termed>>

Kill(j) ==
  /\ sup' = IF sup[j] \in SupLive THEN [sup EXCEPT ![j] = "exited"] ELSE sup
  /\ termed' = termed

(* _reap_launch_process lost patience: TERM, and after a second wait KILL.  *)
TermChild(l) ==
  /\ lpc[l] = "reap"
  /\ Terminate(JobOf(l))
  /\ GoTo(l, "reapkill")
  /\ UNCHANGED <<ledgerVars, verdict, prov, cpc, drain, stopped>>

KillChild(l) ==
  /\ lpc[l] = "reapkill"
  /\ sup[JobOf(l)] \in SupLive
  /\ Kill(JobOf(l))
  /\ UNCHANGED <<ledgerVars, lpc, verdict, prov, cpc, drain, stopped>>

-----------------------------------------------------------------------------
(* The supervisor process: supervisor.run_supervisor.                      *)

MoveSup(j, s) == sup' = [sup EXCEPT ![j] = s]

(* The handoff cannot be read or validated.                                *)
SupRejectTask(j) ==
  /\ sup[j] = "starting"
  /\ MoveSup(j, "refused")
  /\ UNCHANGED <<ledgerVars, lpc, termed, verdict, prov, cpc, drain, stopped>>

(* Faulty variant of SupBind: the bind looks at the claim and identity only. *)
SupBindAnyway(j) ==
  LET r == Reaped[j] IN
  /\ sup[j] = "starting"
  /\ \E seen \in Identities(TRUE) :
       IF r.claimed /\ seen
       THEN /\ Commit(j, [r EXCEPT !.status = "running", !.pid = TRUE, !.bound = TRUE])
            /\ MoveSup(j, "bound")
       ELSE /\ jobs' = Reaped
            /\ MoveSup(j, "refused")
  /\ UNCHANGED <<parent, paused, lpc, termed, verdict, prov, cpc, drain, stopped>>

(* bind_gemini_supervisor.                                                 *)
SupBind(j) ==
  LET r == Reaped[j] IN
  /\ sup[j] = "starting"
  /\ \E seen \in Identities(TRUE) :
       IF /\ r.status \in IF r.pid THEN {"launched", "running"} ELSE {"starting"}
          /\ parent = "active" /\ r.claimed /\ seen
       THEN /\ Commit(j, [r EXCEPT !.status = "running", !.pid = TRUE, !.bound = TRUE])
            /\ MoveSup(j, "bound")
       ELSE /\ jobs' = Reaped
            /\ MoveSup(j, "refused")
  /\ UNCHANGED <<parent, paused, lpc, termed, verdict, prov, cpc, drain, stopped>>

(* settle_gemini_supervisor_rejection: only the recorded unbound owner.    *)
SupSettleRejection(j) ==
  LET r == Reaped[j] IN
  /\ sup[j] = "refused"
  /\ \E seen \in Identities(TRUE) :
       IF /\ r.status \in {"launched", "stopping", "orphaned"}
          /\ r.pid /\ ~r.bound /\ r.claimed /\ seen
       THEN Commit(j, [r EXCEPT !.status = IF @ = "stopping" THEN "cancelled" ELSE "failed",
                                !.proven = TRUE])
       ELSE jobs' = Reaped
  /\ MoveSup(j, "exited")
  /\ UNCHANGED <<parent, paused, lpc, termed, verdict, prov, cpc, drain, stopped>>

(* A stop that arrived before Popen starts nothing; so does a failed Popen. *)
SupStartNothing(j) ==
  /\ sup[j] = "bound"
  /\ MoveSup(j, "settling")
  /\ verdict' = [verdict EXCEPT ![j] =
                   [status |-> IF termed[j] THEN "cancelled" ELSE "failed", proven |-> TRUE]]
  /\ UNCHANGED <<ledgerVars, lpc, termed, prov, cpc, drain, stopped>>

SupSpawn(j) ==
  /\ sup[j] = "bound"
  /\ ~termed[j]
  /\ MoveSup(j, "spawned")
  /\ prov' = [prov EXCEPT ![j] = "running"]
  /\ UNCHANGED <<ledgerVars, lpc, termed, verdict, cpc, drain, stopped>>

(* record_provider_custody; a refusal is only kept as an error.            *)
SupRecordCustody(j) ==
  LET r == Reaped[j] IN
  /\ sup[j] = "spawned"
  /\ \E seen \in Identities(TRUE) :
       IF r.status \in Active /\ r.pid /\ r.bound /\ seen
       THEN Commit(j, [r EXCEPT !.group = "full"])
       ELSE jobs' = Reaped
  /\ MoveSup(j, "attached")
  /\ UNCHANGED <<parent, paused, lpc, termed, verdict, prov, cpc, drain, stopped>>

(* What may be left of a provider group after a signal or by itself.  The   *)
(* Gemini wrapper alone can leave a tool session outside its own group.     *)
Remains(j) ==
  CASE prov[j] = "running"   -> {"running", "lingering", "gone"} \cup
                                (IF jobs[j].req.kind = "gemini" THEN {"detached"} ELSE {})
    [] prov[j] = "lingering" -> {"lingering", "gone"} \cup
                                (IF jobs[j].req.kind = "gemini" THEN {"detached"} ELSE {})
    [] prov[j] = "detached"  -> {"detached", "gone"}
    [] OTHER                 -> {prov[j]}

(* The provider leader exited, or a stop was seen and the group was         *)
(* terminated and waited for.  Cleanup is proven only by evidence that the  *)
(* whole group is gone: its own absence and drained pipes, or the wrapper's *)
(* attestation.                                                             *)
SupFinish(j) ==
  /\ sup[j] = "attached"
  /\ \/ ~termed[j] /\ prov[j] # "running" /\ prov' = prov
     \/ termed[j] /\ \E left \in Remains(j) : prov' = [prov EXCEPT ![j] = left]
  /\ \E proven, zero \in BOOLEAN :
       /\ proven => prov'[j] = "gone"
       /\ verdict' = [verdict EXCEPT ![j] =
            [status |-> IF termed[j] THEN "cancelled"
                        ELSE IF zero /\ proven THEN "completed" ELSE "failed",
             proven |-> proven]]
  /\ MoveSup(j, "settling")
  /\ UNCHANGED <<ledgerVars, lpc, termed, cpc, drain, stopped>>

(* The provider reported an exhausted quota: the whole pool is paused.     *)
SupPausePool(j) ==
  LET k == jobs[j].req.kind IN
  /\ sup[j] = "settling"
  /\ prov[j] # "none"
  /\ k \in QuotaKinds \ paused
  /\ parent \in {"active", "draining"}
  /\ paused' = paused \cup {k}
  /\ jobs' = Reaped
  /\ UNCHANGED <<parent, lpc, procVars, cpc, drain, stopped>>

(* The final update_gemini_status, with a result that names the group.     *)
SupReport(j) ==
  LET v == verdict[j]
      u == Updated(Reaped[j], v.status, v.proven, IF v.proven THEN "proven" ELSE "unproven")
  IN
  /\ sup[j] = "settling"
  /\ Commit(j, IF /\ Reaped[j].status \notin Terminal
                  /\ prov[j] # "none" /\ u.group = "none"
               THEN [u EXCEPT !.group = "seen"] ELSE u)
  /\ MoveSup(j, "exited")
  /\ UNCHANGED <<parent, paused, lpc, termed, verdict, prov, cpc, drain, stopped>>

SupCrash(j) ==
  /\ Crashes
  /\ sup[j] \in SupLive
  /\ Kill(j)
  /\ UNCHANGED <<ledgerVars, lpc, verdict, prov, cpc, drain, stopped>>

(* Whoever inherits an exited supervisor waits for it: init, once the       *)
(* launcher that holds the Popen is gone.                                   *)
InitWaits(j) ==
  /\ sup[j] = "exited"
  /\ \A l \in Launchers : JobOf(l) = j => lpc[l] \in {"reserve", "claim", "done"}
  /\ MoveSup(j, "gone")
  /\ UNCHANGED <<ledgerVars, lpc, termed, verdict, prov, cpc, drain, stopped>>

ProviderFades(j) ==
  /\ \E left \in Remains(j) \ {prov[j]} : prov' = [prov EXCEPT ![j] = left]
  /\ UNCHANGED <<ledgerVars, lpc, sup, termed, verdict, cpc, drain, stopped>>

-----------------------------------------------------------------------------
(* A cancel call: adapter.cancel_worker_job, after record_abandonment when  *)
(* the caller abandons the job.                                             *)

CancelAt(c, pt) == cpc' = [cpc EXCEPT ![c].at = pt]

(* Only a Luna job with a known provider group has a cleanup to reconcile. *)
ToCleanup(c, j, r) ==
  cpc' = [cpc EXCEPT ![c] =
            IF r.req.kind = "luna" /\ r.group # "none"
            THEN [at |-> "cleanup", job |-> j, group |-> r.group, proven |-> FALSE]
            ELSE IdleCanceller]

Stopping(r) == IF r.status \in Stoppable THEN [r EXCEPT !.status = "stopping"] ELSE r

StopRequested(j, r) == stopped' = IF r.status \in Stoppable THEN stopped \cup {j} ELSE stopped

(* record_abandonment.  A repeated decision changes nothing: nothing moves  *)
(* a job back out of stopping.                                              *)
Abandon(c, j) ==
  LET r == Reaped[j] IN
  /\ cpc[c].at = "idle"
  /\ r.status # "absent"
  /\ Commit(j, Stopping(r))
  /\ StopRequested(j, r)
  /\ cpc' = [cpc EXCEPT ![c] = [IdleCanceller EXCEPT !.at = "begin", !.job = j]]
  /\ UNCHANGED <<parent, paused, lpc, procVars, drain>>

(* Faulty variant of BeginStop: a claimed job that records no supervisor is  *)
(* taken for an unclaimed one.                                               *)
BeginStopUnclaimed(c, j) ==
  LET r == Reaped[j] s == Stopping(r) IN
  /\ \/ cpc[c].at = "idle"
     \/ cpc[c].at = "begin" /\ cpc[c].job = j
  /\ r.status # "absent"
  /\ Commit(j, s)
  /\ StopRequested(j, r)
  /\ IF s.status = "orphaned" THEN ToCleanup(c, j, s)
     ELSE cpc' = [cpc EXCEPT ![c] =
            IF s.status \in Terminal \/ (s.pid /\ ~s.bound) THEN IdleCanceller
            ELSE [IdleCanceller EXCEPT !.at = IF s.pid THEN "identify" ELSE "unclaimed",
                                       !.job = j]]
  /\ UNCHANGED <<parent, paused, lpc, procVars, drain>>

(* begin_gemini_stop, and where its snapshot sends the call.               *)
BeginStop(c, j) ==
  LET r == Reaped[j] s == Stopping(r) IN
  /\ \/ cpc[c].at = "idle"
     \/ cpc[c].at = "begin" /\ cpc[c].job = j
  /\ r.status # "absent"
  /\ Commit(j, s)
  /\ StopRequested(j, r)
  /\ IF s.status = "orphaned" \/ (s.status = "stopping" /\ ~s.pid /\ s.claimed)
     THEN ToCleanup(c, j, s)
     ELSE cpc' = [cpc EXCEPT ![c] =
            IF s.status \in Terminal \/ (s.pid /\ ~s.bound) THEN IdleCanceller
            ELSE [IdleCanceller EXCEPT !.at = IF s.pid THEN "identify" ELSE "unclaimed",
                                       !.job = j]]
  /\ UNCHANGED <<parent, paused, lpc, procVars, drain>>

(* Nobody claimed the reservation: it is cancelled at once.                *)
CancelUnclaimed(c) ==
  LET j == cpc[c].job IN
  /\ cpc[c].at = "unclaimed"
  /\ Commit(j, Updated(Reaped[j], "cancelled", TRUE, "none"))
  /\ cpc' = [cpc EXCEPT ![c] = IdleCanceller]
  /\ UNCHANGED <<parent, paused, lpc, procVars, drain, stopped>>

(* The supervisor is signalled only under its recorded identity.           *)
SignalSupervisor(c) ==
  LET j == cpc[c].job IN
  /\ cpc[c].at = "identify"
  /\ TRUE \in Identities(SupPresent(j))
  /\ Terminate(j)
  /\ CancelAt(c, "poll")
  /\ UNCHANGED <<ledgerVars, lpc, verdict, prov, drain, stopped>>

IdentityMismatch(c) ==
  /\ cpc[c].at = "identify"
  /\ FALSE \in Identities(SupPresent(cpc[c].job))
  /\ CancelAt(c, "mismatch")
  /\ UNCHANGED <<ledgerVars, lpc, procVars, drain, stopped>>

OrphanUnidentified(c) ==
  LET j == cpc[c].job IN
  /\ cpc[c].at = "mismatch"
  /\ Commit(j, Updated(Reaped[j], "orphaned", FALSE, "none"))
  /\ cpc' = [cpc EXCEPT ![c] = IdleCanceller]
  /\ UNCHANGED <<parent, paused, lpc, procVars, drain, stopped>>

(* The job is polled until it settles or the call gives up.                *)
PollCancelled(c) ==
  LET j == cpc[c].job r == Reaped[j] IN
  /\ cpc[c].at = "poll"
  /\ jobs' = Reaped
  /\ IF r.status = "orphaned" THEN ToCleanup(c, j, r)
     ELSE \/ cpc' = [cpc EXCEPT ![c] = IdleCanceller]
          \/ r.status \notin Terminal /\ cpc' = cpc
  /\ UNCHANGED <<parent, paused, lpc, procVars, drain, stopped>>

GroupPresent(p) == p \in {"running", "lingering"}

(* _settle_provider_cleanup: an absent group needs no signal, an            *)
(* unidentified one gets none, and an identified one is terminated.         *)
CleanGroup(c) ==
  LET j == cpc[c].job
      doubted == cpc[c].group # "full" \/ PsFlaky
  IN
  /\ cpc[c].at = "cleanup"
  /\ \/ (GroupPresent(prov[j]) => doubted) /\ prov' = prov
        /\ cpc' = [cpc EXCEPT ![c].at = "receipt", ![c].proven = ~GroupPresent(prov[j])]
     \/ GroupPresent(prov[j]) /\ cpc[c].group = "full"
        /\ \E left \in Remains(j) :
             /\ prov' = [prov EXCEPT ![j] = left]
             /\ cpc' = [cpc EXCEPT ![c].at = "receipt", ![c].proven = ~GroupPresent(left)]
  /\ UNCHANGED <<ledgerVars, lpc, sup, termed, verdict, drain, stopped>>

(* settle_provider_cleanup: an unproven receipt keeps the slot, a proven    *)
(* one releases it as cancelled and rewrites any result to match.           *)
SettleProvider(c) ==
  LET j == cpc[c].job r == Reaped[j] IN
  /\ cpc[c].at = "receipt"
  /\ Commit(j, IF cpc[c].proven
               THEN [r EXCEPT !.status = "cancelled", !.proven = TRUE,
                              !.result = IF @ = "none" THEN @ ELSE "proven"]
               ELSE [r EXCEPT !.status = IF @ \in Active THEN "orphaned" ELSE @,
                              !.proven = FALSE])
  /\ cpc' = [cpc EXCEPT ![c] = IdleCanceller]
  /\ UNCHANGED <<parent, paused, lpc, procVars, drain, stopped>>

CancellerCrash(c) ==
  /\ Crashes
  /\ cpc[c].at # "idle"
  /\ cpc' = [cpc EXCEPT ![c] = IdleCanceller]
  /\ UNCHANGED <<ledgerVars, lpc, procVars, drain, stopped>>

-----------------------------------------------------------------------------
(* The parent's own operations: drain_and_close, settlement.close_settled, *)
(* the pool switches, and every read, which reaps as it reads.             *)

(* No launcher claimed the reservation, so there is nothing to drain.      *)
Unclaimed(r) == r.status \in {"reserved", "stopping"} /\ ~r.pid /\ ~r.claimed

DrainBegin ==
  LET R == Reaped
      active == {j \in Jobs : R[j].status \in Active}
      mine == {j \in active : ~Unclaimed(R[j])}
  IN
  /\ drain.at = "idle"
  /\ parent' = "draining"
  /\ jobs' = [j \in Jobs |->
       IF j \in mine THEN Stopping(R[j])
       ELSE IF j \in active THEN [R[j] EXCEPT !.status = "cancelled", !.proven = TRUE]
       ELSE R[j]]
  /\ stopped' = stopped \cup {j \in active : R[j].status \in Stoppable}
  /\ drain' = [at |-> "term", mine |-> mine, todo |-> mine, report |-> "none"]
  /\ UNCHANGED <<paused, lpc, procVars, cpc>>

(* The copy made at the beginning is still right: nothing binds in a        *)
(* draining parent.                                                         *)
DrainTerm(j) ==
  /\ drain.at = "term" /\ j \in drain.todo
  /\ drain' = [drain EXCEPT !.todo = @ \ {j}]
  /\ \/ /\ jobs[j].bound /\ TRUE \in Identities(SupPresent(j))
        /\ Terminate(j)
     \/ /\ ~jobs[j].bound \/ FALSE \in Identities(SupPresent(j))
        /\ UNCHANGED <<sup, termed>>
  /\ UNCHANGED <<ledgerVars, lpc, verdict, prov, cpc, stopped>>

(* Everything settled, or the graceful window is over.                     *)
DrainWaitOver ==
  /\ drain.at = "term" /\ drain.todo = {}
  /\ drain' = [drain EXCEPT !.at = "kill", !.todo = drain.mine]
  /\ UNCHANGED <<ledgerVars, lpc, procVars, cpc, stopped>>

DrainKill(j) ==
  LET r == Reaped[j]
      settled == r.status \in Terminal /\ CleanupProven(r)
  IN
  /\ drain.at = "kill" /\ j \in drain.todo
  /\ drain' = [drain EXCEPT !.todo = @ \ {j}]
  /\ jobs' = Reaped
  /\ \/ ~settled /\ r.bound /\ TRUE \in Identities(SupPresent(j)) /\ Kill(j)
     \/ /\ settled \/ ~r.bound \/ FALSE \in Identities(SupPresent(j))
        /\ UNCHANGED <<sup, termed>>
  /\ UNCHANGED <<parent, paused, lpc, verdict, prov, cpc, stopped>>

(* Faulty variants of DrainClose: a job orphaned before the drain is not its *)
(* business, and an uncertain job keeps the parent open.                     *)
DrainCloseOverOrphans ==
  LET R == Reaped
      mine == {j \in Jobs : R[j].status \in Stoppable \cup {"stopping"}}
  IN
  /\ drain.at = "kill" /\ drain.todo = {}
  /\ jobs' = [j \in Jobs |->
       IF j \in mine THEN [R[j] EXCEPT !.status = "orphaned", !.proven = FALSE] ELSE R[j]]
  /\ parent' = "closed"
  /\ drain' = IdleDrain(IF mine = {} THEN "clean" ELSE "uncertain")
  /\ UNCHANGED <<paused, lpc, procVars, cpc, stopped>>

DrainCloseWhenCertain ==
  /\ drain.at = "kill" /\ drain.todo = {}
  /\ \A j \in Jobs : Reaped[j].status \notin Active
  /\ jobs' = Reaped
  /\ parent' = "closed"
  /\ drain' = IdleDrain("clean")
  /\ UNCHANGED <<paused, lpc, procVars, cpc, stopped>>

DrainClose ==
  LET R == Reaped
      active == {j \in Jobs : R[j].status \in Active}
      mine == {j \in active : ~Unclaimed(R[j])}
  IN
  /\ drain.at = "kill" /\ drain.todo = {}
  /\ jobs' = [j \in Jobs |->
       IF j \in mine THEN [R[j] EXCEPT !.status = "orphaned", !.proven = FALSE]
       ELSE IF j \in active THEN [R[j] EXCEPT !.status = "cancelled", !.proven = TRUE]
       ELSE R[j]]
  /\ parent' = "closed"
  /\ drain' = IdleDrain(IF mine = {} THEN "clean" ELSE "uncertain")
  /\ UNCHANGED <<paused, lpc, procVars, cpc, stopped>>

DrainCrash ==
  /\ Crashes
  /\ drain.at # "idle"
  /\ drain' = IdleDrain("none")
  /\ UNCHANGED <<ledgerVars, lpc, procVars, cpc, stopped>>

(* Faulty variant of CloseSettled: a job nobody launched is not asked about. *)
CloseLaunched ==
  /\ parent \in {"active", "draining"}
  /\ \A j \in Jobs : jobs[j].pid => jobs[j].status \in Terminal /\ jobs[j].proven
  /\ parent' = "closed"
  /\ UNCHANGED <<jobs, paused, lpc, procVars, cpc, drain, stopped>>

(* close_settled reads without reaping and refuses any unsettled child.    *)
CloseSettled ==
  /\ parent \in {"active", "draining"}
  /\ \A j \in Jobs : jobs[j].status # "absent" =>
       jobs[j].status \in Terminal /\ jobs[j].proven
  /\ parent' = "closed"
  /\ UNCHANGED <<jobs, paused, lpc, procVars, cpc, drain, stopped>>

PausePool(k) ==
  /\ k \in QuotaKinds \ paused
  /\ parent \in {"active", "draining"}
  /\ paused' = paused \cup {k}
  /\ jobs' = Reaped
  /\ UNCHANGED <<parent, lpc, procVars, cpc, drain, stopped>>

ResumePool(k) ==
  /\ k \in paused
  /\ parent \in {"active", "draining"}
  /\ paused' = paused \ {k}
  /\ jobs' = Reaped
  /\ UNCHANGED <<parent, lpc, procVars, cpc, drain, stopped>>

Observe ==
  /\ jobs' = Reaped
  /\ UNCHANGED <<parent, paused, lpc, procVars, cpc, drain, stopped>>

-----------------------------------------------------------------------------
Launch(l) ==
  \/ Reserve(l) \/ ReserveAgain(l) \/ Claim(l) \/ StageTask(l) \/ Popen(l)
  \/ FailLaunch(l) \/ RecordLaunch(l) \/ WaitChild(l) \/ TermChild(l) \/ KillChild(l)
  \/ CheckRefused(l) \/ SettleRefused(l) \/ SettleLaunchExit(l) \/ LauncherExit(l)

Supervise(j) ==
  \/ SupRejectTask(j) \/ SupBind(j) \/ SupSettleRejection(j) \/ SupStartNothing(j)
  \/ SupSpawn(j) \/ SupRecordCustody(j) \/ SupFinish(j) \/ SupPausePool(j)
  \/ SupReport(j) \/ SupCrash(j) \/ InitWaits(j) \/ ProviderFades(j)

Cancel(c) ==
  \/ \E j \in Jobs : Abandon(c, j) \/ BeginStop(c, j)
  \/ CancelUnclaimed(c) \/ SignalSupervisor(c) \/ IdentityMismatch(c)
  \/ OrphanUnidentified(c) \/ PollCancelled(c) \/ CleanGroup(c) \/ SettleProvider(c)
  \/ CancellerCrash(c)

Parent ==
  \/ DrainBegin \/ DrainWaitOver \/ DrainClose \/ DrainCrash \/ CloseSettled \/ Observe
  \/ \E j \in Jobs : DrainTerm(j) \/ DrainKill(j)
  \/ \E k \in Kinds : PausePool(k) \/ ResumePool(k)

Next ==
  \/ \E l \in Launchers : Launch(l)
  \/ \E j \in Jobs : Supervise(j)
  \/ \E c \in Cancellers : Cancel(c)
  \/ Parent

Spec == Init /\ [][Next]_vars

(* Fairness.  A launch call and a supervisor run to their end unless they    *)
(* crash; a cancel call that began goes on; drain_and_close only waits for   *)
(* bounded windows; the parent keeps polling the jobs it waits for           *)
(* (wait_worker_job).  Nothing is assumed of a provider, of a new cancel, of *)
(* a quota report or of an operator.                                         *)
Fairness ==
  /\ \A l \in Launchers :
       WF_vars(Claim(l) \/ StageTask(l) \/ Popen(l) \/ RecordLaunch(l) \/ WaitChild(l)
               \/ TermChild(l) \/ KillChild(l) \/ CheckRefused(l) \/ SettleRefused(l)
               \/ SettleLaunchExit(l))
  /\ \A j \in Jobs :
       WF_vars(SupBind(j) \/ SupSettleRejection(j) \/ SupStartNothing(j) \/ SupSpawn(j)
               \/ SupRecordCustody(j) \/ SupFinish(j) \/ SupReport(j) \/ InitWaits(j))
  /\ \A c \in Cancellers :
       WF_vars((cpc[c].at = "begin" /\ BeginStop(c, cpc[c].job))
               \/ CancelUnclaimed(c) \/ SignalSupervisor(c) \/ IdentityMismatch(c)
               \/ OrphanUnidentified(c) \/ CleanGroup(c) \/ SettleProvider(c)
               \/ (PollCancelled(c) /\ cpc'[c] # cpc[c]))
  /\ WF_vars(DrainWaitOver \/ DrainClose \/ \E j \in Jobs : DrainTerm(j) \/ DrainKill(j))
  /\ WF_vars(Observe)

LiveSpec == Spec /\ Fairness

-----------------------------------------------------------------------------
(* Properties *)

Live(j)     == prov[j] \in ProvLive
MaySpawn(j) == sup[j] = "bound"
Exists(j)   == jobs[j].status # "absent"

(* Capacity is released only when nothing runs: a job in a terminal status  *)
(* has no live provider process and no supervisor about to start one.       *)
(* Every path that settles a job (launcher, supervisor, canceller, drain,    *)
(* reap) releases on its own evidence.                                       *)
ReleasedMeansGone ==
  \A j \in Jobs : jobs[j].status \in Terminal => ~Live(j) /\ ~MaySpawn(j)

(* What the admission check is for: the provider processes really running   *)
(* never exceed a pool's capacity, whatever the ledger believes.             *)
LiveWithinCapacity ==
  \A k \in Kinds :
    Cardinality({j \in Jobs : Live(j) /\ jobs[j].req.kind = k}) <= Capacity[k]

(* Two providers never run with overlapping mutation scopes.                *)
LiveWritersDisjoint ==
  \A i, j \in Jobs : i # j /\ Live(i) /\ Live(j) =>
    jobs[i].req.scope \cap jobs[j].req.scope = {}

(* A supervisor is started once per job, by the one call that claimed it,   *)
(* however many calls share the idempotency key and whoever crashes.         *)
LaunchedOnce ==
  \A l \in Launchers : lpc[l] \in {"stage", "popen"} =>
    /\ sup[JobOf(l)] = "none"
    /\ \A m \in Launchers \ {l} : JobOf(m) = JobOf(l) =>
         lpc[m] \in {"reserve", "claim", "done"}

(* A task is attempted at most twice, and the second attempt exists only    *)
(* once nothing of the first can still run.                                  *)
SuccessorAfterSettled ==
  \A j \in Jobs : Exists(j) =>
    /\ Cardinality({i \in Jobs : Exists(i) /\ jobs[i].req.task = jobs[j].req.task}) <= 2
    /\ \A i \in Jobs \ {j} : Exists(i) /\ jobs[i].req.task = jobs[j].req.task =>
         \/ jobs[j].req.prev = i /\ jobs[i].status \in Terminal /\ ~Live(i)
         \/ jobs[i].req.prev = j /\ jobs[j].status \in Terminal /\ ~Live(j)

(* A stop request owns the terminal disposition: once accepted, the job is   *)
(* never again on its way to running and never ends completed.               *)
StopOwnsDisposition ==
  \A j \in stopped : jobs[j].status \notin Stoppable \cup {"completed"}

(* No slot is given up on a guess: a job whose cleanup is not proven stays   *)
(* active and occupied.                                                      *)
TerminalIsProven ==
  \A j \in Jobs : jobs[j].status \in Terminal => CleanupProven(jobs[j])

(* A drain that reports no uncertain cleanup leaves nothing running and      *)
(* nothing that could still start.                                           *)
CleanDrainIsTruthful ==
  drain.report = "clean" => \A j \in Jobs : ~Live(j) /\ ~MaySpawn(j)

(* A closed parent has no job in between: each one is settled or orphaned,   *)
(* although calls already past admission go on after the close.              *)
ClosedLeavesNoneBetween ==
  parent = "closed" => \A j \in Jobs : jobs[j].status \in Terminal \cup {"orphaned", "absent"}

(* A settled job never changes its verdict.                                  *)
VerdictIsFinal ==
  [][\A j \in Jobs : jobs[j].status \in Terminal => jobs'[j].status = jobs[j].status]_vars

(* No step of anybody starts a provider once the parent is closed.           *)
NoSpawnAfterClose ==
  [][parent = "closed" => \A j \in Jobs : prov[j] = "none" => prov'[j] = "none"]_vars

(* A stop request is answered: the job ends, or is kept as orphaned.         *)
StopSettles ==
  \A j \in Jobs : jobs[j].status = "stopping" ~> jobs[j].status # "stopping"

(* A reservation does not stay on the doorstep while its launcher lives.     *)
LaunchResolves ==
  \A j \in Jobs : jobs[j].status \in ReservedOnly \cup Handoff ~>
                  jobs[j].status \notin ReservedOnly \cup Handoff

(* A drain closes the parent within its windows, whatever the workers do.    *)
DrainCloses == parent = "draining" ~> parent = "closed"
=============================================================================
