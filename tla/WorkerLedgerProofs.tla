------------------------- MODULE WorkerLedgerProofs -------------------------
(* Proofs about WorkerLedger for every value of its constants: the records of *)
(* the ledger, admission to slots, the refinement of the slots' specification,*)
(* the lineages of requests, and, where no identity check fails wrongly, the  *)
(* outcomes that requests may be settled with.                                *)
EXTENDS WorkerLedgerInv, WorkerLedgerSlots, FiniteSetTheorems, TLAPS

(* Writing a status and a proof leaves a record, whatever the status.       *)
LEMMA SettledRecord ==
  ASSUME NEW r \in JobRecord, NEW s \in Active \cup Terminal, NEW b \in BOOLEAN
  PROVE  LET t == [r EXCEPT !.status = s, !.proven = b]
         IN /\ t \in JobRecord
            /\ t.status = s /\ t.proven = b
            /\ t.req = r.req /\ t.attempt = r.attempt /\ t.claimed = r.claimed
            /\ t.pid = r.pid /\ t.bound = r.bound /\ t.group = r.group
            /\ t.result = r.result
BY DEF JobRecord

(* Reaping leaves a job alone, or demotes an active one whose supervisor is gone.*)
LEMMA ReapedJob ==
  ASSUME TypeOK, NEW j \in Jobs
  PROVE  /\ Reaped[j] \in JobRecord
         /\ \/ Reaped[j] = jobs[j]
            \/ /\ jobs[j].status \in Active /\ jobs[j].pid /\ sup[j] = "gone"
               /\ \/ /\ CleanupProven(jobs[j])
                     /\ Reaped[j] = [jobs[j] EXCEPT !.status = "failed", !.proven = TRUE]
                  \/ /\ ~CleanupProven(jobs[j])
                     /\ Reaped[j] = [jobs[j] EXCEPT !.status = "orphaned", !.proven = FALSE]
<1> DEFINE r == jobs[j]
<1>1. r \in JobRecord
  BY DEF TypeOK
<1>2. /\ [r EXCEPT !.status = "failed", !.proven = TRUE] \in JobRecord
      /\ [r EXCEPT !.status = "orphaned", !.proven = FALSE] \in JobRecord
  BY <1>1, SettledRecord DEF Active, Terminal
<1>3. Reaped[j] = IF r.status \notin Active \/ ~r.pid \/ sup[j] # "gone" THEN r
                  ELSE IF CleanupProven(r) THEN [r EXCEPT !.status = "failed", !.proven = TRUE]
                  ELSE [r EXCEPT !.status = "orphaned", !.proven = FALSE]
  BY DEF Reaped
<1> HIDE DEF r
<1>4. CASE r.status \notin Active \/ ~r.pid \/ sup[j] # "gone"
  BY <1>1, <1>3, <1>4 DEF r
<1>5. CASE ~(r.status \notin Active \/ ~r.pid \/ sup[j] # "gone")
  BY <1>1, <1>2, <1>3, <1>5 DEF r
<1> QED BY <1>4, <1>5

(* Reaping leaves a ledger of job records.                                  *)
LEMMA ReapType == TypeOK => Reaped \in [Jobs -> JobRecord]
BY ReapedJob DEF Reaped

(* A transaction that writes a record leaves a ledger of job records.       *)
LEMMA CommitType ==
  ASSUME TypeOK, NEW j \in Jobs, NEW r \in JobRecord, Commit(j, r)
  PROVE  jobs' \in [Jobs -> JobRecord]
BY ReapType DEF Commit

(* The initial state is well typed.                                         *)
LEMMA TypeInit == Init => TypeOK
BY ConstantsAssumption DEF Init, TypeOK, JobRecord, NoRecord, LauncherPoints, SupLive, ProvLive,
   CancelRecord, CancelPoints, IdleCanceller, IdleDrain, DrainPoints, GroupEvidence, Active, Terminal

(* An admitted request is written as a well-typed record.                   *)
LEMMA ReservedRecord ==
  ASSUME TypeOK, NEW l \in Launchers
  PROVE  /\ JobOf(l) \in Jobs /\ Request[l] \in Requests
         /\ [NoRecord EXCEPT !.status = "reserved", !.req = Request[l],
                             !.attempt = Attempt(Reaped, Request[l])] \in JobRecord
<1> DEFINE q == Request[l] R == Reaped
<1>1. q \in Requests /\ q.job \in Jobs /\ q.prev \in Jobs \cup {NoJob}
  BY ConstantsAssumption DEF Requests
<1>2. Attempt(R, q) \in 0..2
  BY <1>1, ReapType DEF Attempt, JobRecord
<1>3. [NoRecord EXCEPT !.status = "reserved", !.req = q, !.attempt = Attempt(R, q)] \in JobRecord
  BY <1>1, <1>2 DEF JobRecord, NoRecord, Active, Stoppable, ReservedOnly, GroupEvidence
<1> QED BY <1>1, <1>3 DEF JobOf

(* Admission keeps the types: the attempt written is 1 or 2.                *)
LEMMA ReserveType == ASSUME TypeOK, NEW l \in Launchers, Reserve(l) PROVE TypeOK'
<1>1. jobs' \in [Jobs -> JobRecord]
  BY ReservedRecord, CommitType DEF Reserve, JobOf
<1> QED BY <1>1 DEF TypeOK, Reserve, GoTo, LauncherPoints, procVars

(* What update_gemini_status leaves of a record.                            *)
LEMMA UpdatedRecord ==
  \A r \in JobRecord, s \in Terminal \cup {"orphaned"}, b \in BOOLEAN,
     t \in {"none", "unproven", "proven"} :
    /\ Updated(r, s, b, t) \in JobRecord
    /\ Updated(r, s, b, t).req = r.req
    /\ Updated(r, s, b, t).claimed = r.claimed
    /\ Updated(r, s, b, t).pid = r.pid
    /\ Updated(r, s, b, t).bound = r.bound
    /\ Updated(r, s, b, t).group = r.group
    /\ r.status \in Terminal => Updated(r, s, b, t) = r
    /\ r.status \notin Terminal =>
         /\ Updated(r, s, b, t).status \in Terminal \cup {"orphaned"}
         /\ Updated(r, s, b, t).proven = b
         /\ t # "none" => Updated(r, s, b, t).result = t
         /\ Updated(r, s, b, t).status \in Terminal <=> b = TRUE /\ s # "orphaned"
<1> TAKE r \in JobRecord, s \in Terminal \cup {"orphaned"}, b \in BOOLEAN,
         t \in {"none", "unproven", "proven"}
<1>1. CASE r.status \in Terminal
  BY <1>1 DEF Updated
<1>2. CASE r.status \notin Terminal
  <2> DEFINE owned == IF r.status = "stopping" /\ s \notin {"cancelled", "orphaned"}
                      THEN IF b THEN "cancelled" ELSE "orphaned" ELSE s
             gated == IF owned \in Terminal /\ ~b THEN "orphaned" ELSE owned
             res == IF t = "none" THEN r.result ELSE t
  <2>1. Updated(r, s, b, t) = [r EXCEPT !.status = gated, !.proven = b, !.result = res]
    BY <1>2 DEF Updated
  <2>2. gated \in Terminal \cup {"orphaned"} /\ (gated \in Terminal <=> b /\ s # "orphaned")
    BY DEF Terminal
  <2>3. res \in {"none", "unproven", "proven"}
    BY DEF JobRecord
  <2> HIDE DEF owned, gated
  <2> QED BY <1>2, <2>1, <2>2, <2>3 DEF JobRecord, Active
<1> QED BY <1>1, <1>2

(* Asking a job to stop changes its status only.                            *)
LEMMA StoppingRecord ==
  ASSUME NEW r \in JobRecord
  PROVE  LET s == Stopping(r) IN
         /\ s \in JobRecord
         /\ s.req = r.req /\ s.attempt = r.attempt /\ s.claimed = r.claimed
         /\ s.pid = r.pid /\ s.bound = r.bound /\ s.group = r.group
         /\ s.proven = r.proven /\ s.result = r.result
         /\ r.status \notin Stoppable => s = r
         /\ r.status \in Stoppable => s.status = "stopping"
BY DEF JobRecord, Stopping, Active

(***************************************************************************)
(* Type correctness, action by action.                                     *)
(***************************************************************************)
LEMMA LaunchType == ASSUME TypeOK, NEW l \in Launchers, Launch(l) PROVE TypeOK'
<1> USE DEF GoTo, procVars, ledgerVars
<1> DEFINE j == JobOf(l)
<1>0. j \in Jobs /\ Reaped \in [Jobs -> JobRecord] /\ Reaped[j] \in JobRecord
  BY ReapType, ConstantsAssumption DEF JobOf, Requests
<1>1. CASE Reserve(l)
  BY <1>1, ReserveType
<1>2. CASE ReserveAgain(l)
  BY <1>0, <1>2 DEF TypeOK, ReserveAgain, LauncherPoints
<1>3. CASE Claim(l)
  <2>1. [Reaped[j] EXCEPT !.status = "starting", !.claimed = TRUE] \in JobRecord
    BY <1>0 DEF JobRecord, Active, Stoppable, Handoff
  <2>2. jobs' \in [Jobs -> JobRecord]
    BY <1>0, <1>3, <2>1, CommitType DEF Claim
  <2> QED BY <1>3, <2>2 DEF TypeOK, Claim, LauncherPoints
<1>4. CASE StageTask(l)
  <2>1. Reaped[j].status \notin Active => Updated(Reaped[j], "cancelled", TRUE, "none") \in JobRecord
    BY <1>0 DEF Updated, JobRecord, Active, Terminal
  <2>2. jobs' \in [Jobs -> JobRecord]
    BY <1>0, <1>4, <2>1, CommitType DEF StageTask
  <2> QED BY <1>4, <2>2 DEF TypeOK, StageTask, LauncherPoints
<1>5. CASE Popen(l)
  BY <1>0, <1>5 DEF TypeOK, Popen, LauncherPoints, SupLive
<1>6. CASE FailLaunch(l)
  <2>1. [Reaped[j] EXCEPT !.status = IF @ = "stopping" THEN "cancelled" ELSE "failed",
                          !.proven = TRUE] \in JobRecord
    BY <1>0 DEF JobRecord, Terminal
  <2>2. jobs' \in [Jobs -> JobRecord]
    BY <1>0, <1>6, <2>1, CommitType DEF FailLaunch
  <2> QED BY <1>6, <2>2 DEF TypeOK, FailLaunch, LauncherPoints
<1>7. CASE RecordLaunch(l)
  <2>1. [Reaped[j] EXCEPT !.status = "launched", !.pid = TRUE, !.bound = FALSE] \in JobRecord
    BY <1>0 DEF JobRecord, Active, Stoppable, Handoff
  <2>2. jobs' \in [Jobs -> JobRecord]
    BY <1>0, <1>7, <2>1, CommitType DEF RecordLaunch
  <2> QED BY <1>7, <2>2 DEF TypeOK, RecordLaunch, LauncherPoints
<1>8. CASE WaitChild(l)
  BY <1>0, <1>8 DEF TypeOK, WaitChild, LauncherPoints
<1>9. CASE TermChild(l)
  BY <1>0, <1>9 DEF TypeOK, TermChild, Terminate, LauncherPoints
<1>10. CASE KillChild(l)
  BY <1>0, <1>10 DEF TypeOK, KillChild, Kill, LauncherPoints
<1>11. CASE CheckRefused(l)
  BY <1>0, <1>11 DEF TypeOK, CheckRefused, LauncherPoints
<1>12. CASE SettleRefused(l)
  <2>1. Updated(Reaped[j], IF lpc[l] = "cancel" THEN "cancelled" ELSE "failed", TRUE, "none")
          \in JobRecord
    <3> DEFINE s == IF lpc[l] = "cancel" THEN "cancelled" ELSE "failed"
    <3>1. s \in Terminal \cup {"orphaned"}
      BY DEF Terminal
    <3> HIDE DEF s
    <3>2. Updated(Reaped[j], s, TRUE, "none") \in JobRecord
      BY <1>0, <3>1, UpdatedRecord
    <3> QED BY <3>2 DEF s
  <2>2. jobs' \in [Jobs -> JobRecord]
    BY <1>0, <1>12, <2>1, CommitType DEF SettleRefused
  <2> QED BY <1>12, <2>2 DEF TypeOK, SettleRefused, LauncherPoints
<1>13. CASE SettleLaunchExit(l)
  <2>1. [Reaped[j] EXCEPT !.status = IF @ = "stopping" THEN "cancelled" ELSE "failed",
                          !.proven = TRUE] \in JobRecord
    BY <1>0 DEF JobRecord, Terminal
  <2>2. jobs' \in [Jobs -> JobRecord]
    BY <1>0, <1>13, <2>1, CommitType DEF SettleLaunchExit
  <2> QED BY <1>13, <2>2 DEF TypeOK, SettleLaunchExit, LauncherPoints
<1>14. CASE LauncherExit(l)
  BY <1>14 DEF TypeOK, LauncherExit, LauncherPoints
<1> QED BY <1>1, <1>2, <1>3, <1>4, <1>5, <1>6, <1>7, <1>8, <1>9, <1>10, <1>11, <1>12,
           <1>13, <1>14 DEF Launch

(* The supervisor's and the provider's steps keep the types.                *)
LEMMA SuperviseType == ASSUME TypeOK, NEW j \in Jobs, Supervise(j) PROVE TypeOK'
<1> USE DEF MoveSup, procVars, ledgerVars
<1>0. Reaped \in [Jobs -> JobRecord] /\ Reaped[j] \in JobRecord
  BY ReapType
<1>1. CASE SupRejectTask(j)
  BY <1>1 DEF TypeOK, SupRejectTask, SupLive
<1>2. CASE SupBind(j)
  <2>1. [Reaped[j] EXCEPT !.status = "running", !.pid = TRUE, !.bound = TRUE] \in JobRecord
    BY <1>0 DEF JobRecord, Active, Stoppable
  <2>2. jobs' \in [Jobs -> JobRecord]
    BY <1>0, <1>2, <2>1, CommitType DEF SupBind
  <2> QED BY <1>2, <2>2 DEF TypeOK, SupBind, SupLive
<1>3. CASE SupSettleRejection(j)
  <2>1. [Reaped[j] EXCEPT !.status = IF @ = "stopping" THEN "cancelled" ELSE "failed",
                          !.proven = TRUE] \in JobRecord
    BY <1>0 DEF JobRecord, Terminal
  <2>2. jobs' \in [Jobs -> JobRecord]
    BY <1>0, <1>3, <2>1, CommitType DEF SupSettleRejection
  <2> QED BY <1>3, <2>2 DEF TypeOK, SupSettleRejection
<1>4. CASE SupStartNothing(j)
  BY <1>4 DEF TypeOK, SupStartNothing, SupLive, Terminal
<1>5. CASE SupSpawn(j)
  BY <1>5 DEF TypeOK, SupSpawn, SupLive, ProvLive
<1>6. CASE SupRecordCustody(j)
  <2>1. [Reaped[j] EXCEPT !.group = "full"] \in JobRecord
    BY <1>0 DEF JobRecord, GroupEvidence
  <2>2. jobs' \in [Jobs -> JobRecord]
    BY <1>0, <1>6, <2>1, CommitType DEF SupRecordCustody
  <2> QED BY <1>6, <2>2 DEF TypeOK, SupRecordCustody, SupLive
<1>7. CASE SupFinish(j)
  <2>1. prov' \in [Jobs -> ProvLive \cup {"none", "gone"}]
    BY <1>7 DEF TypeOK, SupFinish, Remains, ProvLive
  <2>2. verdict' \in [Jobs -> [status : Terminal, proven : BOOLEAN]]
    BY <1>7 DEF TypeOK, SupFinish, Terminal
  <2> QED BY <1>7, <2>1, <2>2 DEF TypeOK, SupFinish, SupLive
<1>8. CASE SupPausePool(j)
  <2>1. paused' \subseteq Kinds
    <3>1. PICK k \in QuotaKinds : paused' = paused \cup {k}
      BY <1>8 DEF SupPausePool
    <3> QED BY <3>1, ConstantsAssumption DEF TypeOK
  <2>2. jobs' \in [Jobs -> JobRecord]
    BY <1>0, <1>8 DEF SupPausePool
  <2> QED BY <1>8, <2>1, <2>2 DEF TypeOK, SupPausePool
<1>9. CASE SupReport(j)
  <2> DEFINE v == verdict[j]
             u == Updated(Reaped[j], v.status, v.proven, IF v.proven THEN "proven" ELSE "unproven")
  <2>1. v.status \in Terminal /\ v.proven \in BOOLEAN
    BY DEF TypeOK
  <2>2. u \in JobRecord
    BY <1>0, <2>1, UpdatedRecord
  <2>3. u \in JobRecord /\ [u EXCEPT !.group = "seen"] \in JobRecord
    BY <2>2 DEF JobRecord, GroupEvidence
  <2> HIDE DEF u
  <2>4. \E r \in JobRecord : Commit(j, r)
    BY <1>9, <2>3 DEF SupReport, u
  <2>5. jobs' \in [Jobs -> JobRecord]
    BY <2>4, CommitType
  <2> QED BY <1>9, <2>5 DEF TypeOK, SupReport
<1>10. CASE SupCrash(j)
  BY <1>10 DEF TypeOK, SupCrash, Kill
<1>11. CASE InitWaits(j)
  BY <1>11 DEF TypeOK, InitWaits
<1>12. CASE ProviderFades(j)
  BY <1>12 DEF TypeOK, ProviderFades, Remains, ProvLive
<1> QED BY <1>1, <1>2, <1>3, <1>4, <1>5, <1>6, <1>7, <1>8, <1>9, <1>10, <1>11, <1>12
        DEF Supervise

(* A cancel call's steps keep the types.                                    *)
LEMMA CancelType ==
  ASSUME TypeOK, \A c \in Cancellers : cpc[c].at # "idle" => cpc[c].job \in Jobs,
         NEW c \in Cancellers, Cancel(c)
  PROVE  TypeOK'
<1> USE DEF procVars, ledgerVars, IdleCanceller, CancelPoints, GroupEvidence
<1>0. Reaped \in [Jobs -> JobRecord] /\ \A j \in Jobs : Reaped[j] \in JobRecord
  BY ReapType
<1> DEFINE k == cpc[c].job
<1>1. ASSUME NEW j \in Jobs, Abandon(c, j) PROVE TypeOK'
  <2>1. jobs' \in [Jobs -> JobRecord]
    BY <1>0, <1>1, StoppingRecord, CommitType DEF Abandon
  <2> QED BY <1>1, <2>1 DEF TypeOK, Abandon, StopRequested, CancelRecord
<1>2. ASSUME NEW j \in Jobs, BeginStop(c, j) PROVE TypeOK'
  <2>1. jobs' \in [Jobs -> JobRecord] /\ Stopping(Reaped[j]) \in JobRecord
    BY <1>0, <1>2, StoppingRecord, CommitType DEF BeginStop
  <2>2. Stopping(Reaped[j]).group \in GroupEvidence
    BY <2>1 DEF JobRecord
  <2>3. \E rec \in CancelRecord : cpc' = [cpc EXCEPT ![c] = rec]
    <3> DEFINE s == Stopping(Reaped[j])
    <3>1. /\ IdleCanceller \in CancelRecord
          /\ [at |-> "cleanup", job |-> j, group |-> s.group, proven |-> FALSE] \in CancelRecord
          /\ \A pt \in CancelPoints :
               [IdleCanceller EXCEPT !.at = pt, !.job = j] \in CancelRecord
      BY <2>2 DEF CancelRecord
    <3> HIDE DEF s
    <3>2. CASE cpc' = [cpc EXCEPT ![c] =
              IF s.req.kind = "luna" /\ s.group # "none"
              THEN [at |-> "cleanup", job |-> j, group |-> s.group, proven |-> FALSE]
              ELSE IdleCanceller]
      BY <3>1, <3>2
    <3>3. CASE cpc' = [cpc EXCEPT ![c] =
              IF s.status \in Terminal \/ (s.pid /\ ~s.bound) THEN IdleCanceller
              ELSE [IdleCanceller EXCEPT !.at = IF s.pid THEN "identify" ELSE "unclaimed",
                                         !.job = j]]
      BY <3>1, <3>3
    <3> QED BY <1>2, <3>2, <3>3 DEF BeginStop, ToCleanup, s
  <2> QED BY <1>2, <2>1, <2>3 DEF TypeOK, BeginStop, StopRequested
<1>3. CASE CancelUnclaimed(c)
  <2>1. Updated(Reaped[k], "cancelled", TRUE, "none") \in JobRecord /\ k \in Jobs
    BY <1>0, <1>3, UpdatedRecord DEF CancelUnclaimed, Terminal
  <2>2. jobs' \in [Jobs -> JobRecord]
    BY <1>3, <2>1, CommitType DEF CancelUnclaimed
  <2> QED BY <1>3, <2>2 DEF TypeOK, CancelUnclaimed, CancelRecord
<1>4. CASE SignalSupervisor(c)
  <2>1. /\ sup' \in [Jobs -> SupLive \cup {"none", "exited", "gone"}]
        /\ termed' \in [Jobs -> BOOLEAN]
    BY <1>4 DEF TypeOK, SignalSupervisor, Terminate
  <2>2. cpc' \in [Cancellers -> CancelRecord]
    <3>1. [cpc[c] EXCEPT !.at = "poll"] \in CancelRecord
      BY DEF TypeOK, CancelRecord
    <3>2. cpc' = [cpc EXCEPT ![c] = [cpc[c] EXCEPT !.at = "poll"]]
      BY <1>4 DEF SignalSupervisor, CancelAt, TypeOK
    <3> QED BY <3>1, <3>2 DEF TypeOK
  <2> QED BY <1>4, <2>1, <2>2 DEF TypeOK, SignalSupervisor
<1>5. CASE IdentityMismatch(c)
  <2>1. [cpc[c] EXCEPT !.at = "mismatch"] \in CancelRecord
    BY DEF TypeOK, CancelRecord
  <2>2. cpc' = [cpc EXCEPT ![c] = [cpc[c] EXCEPT !.at = "mismatch"]]
    BY <1>5 DEF IdentityMismatch, CancelAt, TypeOK
  <2>3. cpc' \in [Cancellers -> CancelRecord]
    BY <2>1, <2>2 DEF TypeOK
  <2> QED BY <1>5, <2>3 DEF TypeOK, IdentityMismatch
<1>6. CASE OrphanUnidentified(c)
  <2>1. Updated(Reaped[k], "orphaned", FALSE, "none") \in JobRecord /\ k \in Jobs
    BY <1>0, <1>6, UpdatedRecord DEF OrphanUnidentified
  <2>2. jobs' \in [Jobs -> JobRecord]
    BY <1>6, <2>1, CommitType DEF OrphanUnidentified
  <2> QED BY <1>6, <2>2 DEF TypeOK, OrphanUnidentified, CancelRecord
<1>7. CASE PollCancelled(c)
  <2>1. k \in Jobs /\ Reaped[k].group \in GroupEvidence
    BY <1>0, <1>7 DEF PollCancelled, JobRecord
  <2>2. /\ IdleCanceller \in CancelRecord
        /\ [at |-> "cleanup", job |-> k, group |-> Reaped[k].group, proven |-> FALSE]
             \in CancelRecord
    BY <2>1 DEF CancelRecord
  <2>3. cpc' \in [Cancellers -> CancelRecord]
    BY <1>7, <2>2 DEF TypeOK, PollCancelled, ToCleanup
  <2> QED BY <1>0, <1>7, <2>3 DEF TypeOK, PollCancelled
<1>8. CASE CleanGroup(c)
  <2>1. prov' \in [Jobs -> ProvLive \cup {"none", "gone"}]
    BY <1>8 DEF TypeOK, CleanGroup, Remains, ProvLive
  <2>2. \E b \in BOOLEAN : cpc' = [cpc EXCEPT ![c].at = "receipt", ![c].proven = b]
    BY <1>8 DEF CleanGroup, GroupPresent
  <2>3. cpc' \in [Cancellers -> CancelRecord]
    <3>1. PICK b \in BOOLEAN : cpc' = [cpc EXCEPT ![c].at = "receipt", ![c].proven = b]
      BY <2>2
    <3>0. cpc[c] \in CancelRecord
      BY DEF TypeOK
    <3>2. [cpc[c] EXCEPT !.at = "receipt", !.proven = b] \in CancelRecord
      BY <3>0 DEF CancelRecord
    <3>3. cpc' = [cpc EXCEPT ![c] = [cpc[c] EXCEPT !.at = "receipt", !.proven = b]]
      BY <3>1 DEF TypeOK
    <3> QED BY <3>2, <3>3 DEF TypeOK
  <2> QED BY <1>8, <2>1, <2>3 DEF TypeOK, CleanGroup
<1>9. CASE SettleProvider(c)
  <2> DEFINE r == Reaped[k]
  <2>1. k \in Jobs /\ r \in JobRecord
    BY <1>0, <1>9 DEF SettleProvider
  <2>2. /\ [r EXCEPT !.status = "cancelled", !.proven = TRUE,
                     !.result = IF @ = "none" THEN @ ELSE "proven"] \in JobRecord
        /\ [r EXCEPT !.status = IF @ \in Active THEN "orphaned" ELSE @,
                     !.proven = FALSE] \in JobRecord
    BY <2>1 DEF JobRecord, Active, Terminal
  <2>3. jobs' \in [Jobs -> JobRecord]
    BY <1>9, <2>1, <2>2, CommitType DEF SettleProvider
  <2> QED BY <1>9, <2>3 DEF TypeOK, SettleProvider, CancelRecord
<1>10. CASE CancellerCrash(c)
  BY <1>10 DEF TypeOK, CancellerCrash, CancelRecord
<1> QED BY <1>1, <1>2, <1>3, <1>4, <1>5, <1>6, <1>7, <1>8, <1>9, <1>10 DEF Cancel

(* The parent's steps keep the types.                                       *)
LEMMA ParentType == ASSUME TypeOK, Parent PROVE TypeOK'
<1> USE DEF procVars, ledgerVars, IdleDrain, DrainPoints
<1>0. Reaped \in [Jobs -> JobRecord] /\ \A j \in Jobs : Reaped[j] \in JobRecord
  BY ReapType
<1>1. \A j \in Jobs :
        /\ Stopping(Reaped[j]) \in JobRecord
        /\ [Reaped[j] EXCEPT !.status = "cancelled", !.proven = TRUE] \in JobRecord
        /\ [Reaped[j] EXCEPT !.status = "orphaned", !.proven = FALSE] \in JobRecord
  BY <1>0, StoppingRecord, SettledRecord DEF Active, Terminal
<1>2. CASE DrainBegin
  <2>1. jobs' \in [Jobs -> JobRecord]
    BY <1>0, <1>1, <1>2 DEF DrainBegin
  <2> QED BY <1>2, <2>1 DEF TypeOK, DrainBegin
<1>3. ASSUME NEW j \in Jobs, DrainTerm(j) PROVE TypeOK'
  BY <1>3 DEF TypeOK, DrainTerm, Terminate
<1>4. CASE DrainWaitOver
  BY <1>4 DEF TypeOK, DrainWaitOver
<1>5. ASSUME NEW j \in Jobs, DrainKill(j) PROVE TypeOK'
  BY <1>0, <1>5 DEF TypeOK, DrainKill, Kill
<1>6. CASE DrainClose
  <2>1. jobs' \in [Jobs -> JobRecord]
    BY <1>0, <1>1, <1>6 DEF DrainClose
  <2> QED BY <1>6, <2>1 DEF TypeOK, DrainClose
<1>7. CASE DrainCrash
  BY <1>7 DEF TypeOK, DrainCrash
<1>8. CASE CloseSettled
  BY <1>8 DEF TypeOK, CloseSettled
<1>9. CASE Observe
  BY <1>0, <1>9 DEF TypeOK, Observe
<1>10. ASSUME NEW k \in Kinds, PausePool(k) \/ ResumePool(k) PROVE TypeOK'
  BY <1>0, <1>10, ConstantsAssumption DEF TypeOK, PausePool, ResumePool
<1> QED BY <1>2, <1>3, <1>4, <1>5, <1>6, <1>7, <1>8, <1>9, <1>10 DEF Parent

(***************************************************************************)
(* The inductive invariant.  JobInv collects what LedgerInv says of one     *)
(* job; a step is checked against the job it touches, and two lemmas carry  *)
(* every other job, launcher and cancel call over it.                       *)
(***************************************************************************)
JobInv(j) ==
  /\ RecordInv(j)
  /\ ProviderInv(j)
  /\ jobs[j].status \in Terminal => ~Live(j) /\ ~MaySpawn(j)

SameCustody(t, r) ==
  /\ t.req = r.req /\ t.claimed = r.claimed /\ t.pid = r.pid /\ t.bound = r.bound
  /\ t.group = r.group

(* Reaping only demotes: under the invariant it never finds proven cleanup. *)
LEMMA ReapedKeeps ==
  ASSUME TypeOK, NEW j \in Jobs, JobInv(j)
  PROVE  /\ Reaped[j] \in JobRecord
         /\ SameCustody(Reaped[j], jobs[j])
         /\ Reaped[j].attempt = jobs[j].attempt
         /\ Reaped[j].status \in Active => ~CleanupProven(Reaped[j])
         /\ \/ Reaped[j] = jobs[j]
            \/ /\ jobs[j].status \in Active /\ jobs[j].pid /\ sup[j] = "gone"
               /\ Reaped[j].status = "orphaned"
<1>1. jobs[j] \in JobRecord /\ (jobs[j].status \in Active => ~CleanupProven(jobs[j]))
  BY DEF TypeOK, JobInv, RecordInv
<1>2. CASE Reaped[j] = jobs[j]
  BY <1>1, <1>2 DEF SameCustody
<1>3. CASE Reaped[j] # jobs[j]
  <2>1. /\ jobs[j].status \in Active /\ jobs[j].pid /\ sup[j] = "gone"
        /\ ~CleanupProven(jobs[j])
        /\ Reaped[j] = [jobs[j] EXCEPT !.status = "orphaned", !.proven = FALSE]
    BY <1>1, <1>3, ReapedJob
  <2>2. /\ Reaped[j] \in JobRecord /\ Reaped[j].status = "orphaned" /\ ~Reaped[j].proven
        /\ Reaped[j].result = jobs[j].result /\ Reaped[j].attempt = jobs[j].attempt
        /\ SameCustody(Reaped[j], jobs[j])
    <3>1. Reaped[j] \in JobRecord
      BY ReapedJob
    <3> QED BY <1>1, <2>1, <3>1 DEF JobRecord, SameCustody
  <2> QED BY <2>1, <2>2 DEF CleanupProven
<1> QED BY <1>2, <1>3

(* A step that rewrites a job's status and proof, and may end its supervisor. *)
LEMMA SettledJob ==
  ASSUME TypeOK, NEW j \in Jobs, JobInv(j), jobs[j].status # "absent",
         SameCustody(jobs'[j], jobs[j]),
         jobs'[j].status # "absent",
         jobs'[j].status = "reserved" => jobs[j].status = "reserved",
         jobs[j].status \in Terminal => jobs'[j].status \in Terminal,
         jobs[j].status = "orphaned" => jobs'[j].status \in Terminal \cup {"orphaned"},
         jobs'[j].status \in Active => ~CleanupProven(jobs'[j]),
         jobs'[j].status \in Terminal => ~Live(j) /\ ~MaySpawn(j),
         prov'[j] = prov[j], verdict'[j] = verdict[j],
         sup'[j] = sup[j] \/ (sup[j] \in SupLive /\ sup'[j] = "exited")
  PROVE  JobInv(j)' /\ Advances(j)
<1>1. RecordInv(j)'
  BY DEF JobInv, RecordInv, SameCustody, Active, Stoppable, ReservedOnly, SupLive
<1>2. ProviderInv(j)'
  BY DEF JobInv, ProviderInv, SameCustody, Live, SupLive
<1>3. (jobs[j].status \in Terminal => ~Live(j) /\ ~MaySpawn(j))'
  BY DEF Live, MaySpawn, SupLive
<1>4. Advances(j)
  BY DEF Advances, SameCustody, SupLive
<1> QED BY <1>1, <1>2, <1>3, <1>4 DEF JobInv

(* A job nobody touches, beyond reaping, keeps its invariant and advances.  *)
LEMMA IdleJob ==
  ASSUME TypeOK, NEW j \in Jobs, JobInv(j),
         jobs'[j] = jobs[j] \/ jobs'[j] = Reaped[j],
         prov'[j] = prov[j], verdict'[j] = verdict[j], sup'[j] = sup[j]
  PROVE  JobInv(j)' /\ Advances(j)
<1>1. CASE jobs'[j] = jobs[j]
  <2>1. JobInv(j)'
    BY <1>1 DEF JobInv, RecordInv, ProviderInv, Live, MaySpawn
  <2> QED BY <1>1, <2>1 DEF Advances
<1>2. CASE jobs'[j] # jobs[j]
  <2>1. /\ Reaped[j] \in JobRecord /\ SameCustody(Reaped[j], jobs[j])
        /\ ~CleanupProven(Reaped[j]) /\ Reaped[j].status = "orphaned"
        /\ jobs[j].status \in Active
    BY <1>2, ReapedKeeps DEF Active
  <2>2. /\ jobs[j].status # "absent" /\ jobs[j].status \notin Terminal
        /\ Reaped[j].status \notin Terminal /\ jobs'[j] = Reaped[j]
    BY <1>2, <2>1 DEF Active, Terminal, Stoppable, ReservedOnly, Handoff
  <2>3. /\ SameCustody(jobs'[j], jobs[j]) /\ jobs'[j].status = "orphaned"
        /\ ~CleanupProven(jobs'[j]) /\ jobs'[j].status \notin Terminal
    BY <2>1, <2>2
  <2> QED BY <2>2, <2>3, SettledJob
<1> QED BY <1>1, <1>2

(* A transaction on one job does no harm to another.                        *)
LEMMA OtherJob ==
  ASSUME TypeOK, NEW i \in Jobs, NEW j \in Jobs, i # j, JobInv(i),
         NEW r \in JobRecord, Commit(j, r),
         prov'[i] = prov[i], verdict'[i] = verdict[i], sup'[i] = sup[i]
  PROVE  JobInv(i)' /\ Advances(i)
BY IdleJob, ReapType DEF Commit

(* A launch call that does not move keeps what it knows of its job.         *)
LEMMA OtherLauncher ==
  ASSUME TypeOK, NEW l \in Launchers, LauncherInv(l), JobInv(JobOf(l)), Advances(JobOf(l)),
         lpc'[l] = lpc[l],
         lpc[l] \in BeforePopen => sup'[JobOf(l)] = "none",
         \A m \in Launchers : lpc'[m] \in Owning =>
           lpc[m] \in Owning \/ jobs[JobOf(m)].status = "reserved"
  PROVE  LauncherInv(l)'
<1> DEFINE j == JobOf(l)
<1>0. JobOf(l)' = JobOf(l) /\ \A m \in Launchers : JobOf(m)' = JobOf(m)
  BY DEF JobOf
<1>1. lpc[l] \in Owning => jobs[j].status # "reserved"
  BY DEF LauncherInv, JobInv, RecordInv
<1>2. (lpc[l] \in Owning => \A m \in Launchers \ {l} : JobOf(m) = j => lpc[m] \notin Owning)'
  BY <1>0, <1>1 DEF LauncherInv
<1>3. /\ (lpc[l] = "claim" => jobs[j].status # "absent")'
      /\ (lpc[l] \in Owning => jobs[j].claimed)'
      /\ (lpc[l] \in AfterPopen => sup[j] # "none")'
      /\ (lpc[l] \in AfterWait => sup[j] = "gone")'
  BY <1>0 DEF LauncherInv, Advances
<1>4. (lpc[l] \in {"fail", "cancel"} => ~jobs[j].pid)'
  BY <1>0 DEF LauncherInv, Advances, AfterWait
<1> QED BY <1>0, <1>2, <1>3, <1>4 DEF LauncherInv

(* A cancel call that does not move keeps what it read.                     *)
LEMMA OtherCancel ==
  ASSUME TypeOK, NEW c \in Cancellers, CancelInv(c), cpc'[c] = cpc[c],
         \A j \in Jobs : Advances(j)
  PROVE  CancelInv(c)'
BY DEF CancelInv, Advances

(* How the groups of statuses relate.                                       *)
LEMMA StatusSets ==
  /\ Active \cap Terminal = {}
  /\ Stoppable \subseteq Active /\ ReservedOnly \subseteq Stoppable
  /\ Handoff \subseteq Stoppable
  /\ "absent" \notin Active /\ "absent" \notin Terminal
  /\ "reserved" \in Active /\ "reserved" \in Stoppable /\ "reserved" \notin Terminal
  /\ "orphaned" \in Active /\ "orphaned" \notin Terminal /\ "orphaned" \notin Stoppable
  /\ "stopping" \in Active /\ "stopping" \notin Terminal /\ "stopping" \notin Stoppable
  /\ Terminal = {"completed", "failed", "cancelled"}
BY DEF Active, Terminal, Stoppable, ReservedOnly, Handoff

(* What the parent knows survives any step that leaves parent and report.   *)
LEMMA OtherParent ==
  ASSUME TypeOK, \A j \in Jobs : Advances(j), ReportInv, ClosedLeavesNoneBetween,
         jobs' \in [Jobs -> JobRecord],
         parent' = parent, drain'.report \in {drain.report, "none"}
  PROVE  ReportInv' /\ ClosedLeavesNoneBetween'
<1>1. parent = "closed" =>
        \A j \in Jobs : jobs'[j].status \in Terminal \cup {"orphaned", "absent"}
  BY DEF Advances, ClosedLeavesNoneBetween
<1>2. \A j \in Jobs : jobs[j].status \notin Active /\ parent = "closed" =>
                      jobs'[j].status \notin Active
  <2> TAKE j \in Jobs
  <2>1. jobs[j].status \in Active \cup Terminal \cup {"absent"}
    BY DEF TypeOK, JobRecord
  <2>2. jobs[j].status \in Terminal => jobs'[j].status \in Terminal
    BY DEF Advances
  <2>3. parent = "closed" /\ jobs[j].status = "absent" => jobs'[j].status = "absent"
    BY DEF Advances
  <2> QED BY <2>1, <2>2, <2>3, StatusSets
<1>3. ReportInv'
  BY <1>2 DEF ReportInv
<1> QED BY <1>1, <1>3 DEF ClosedLeavesNoneBetween

(* A step that touches one job only has to be checked on that job.          *)
LEMMA OneJobStep ==
  ASSUME TypeOK, NEW j \in Jobs, \A i \in Jobs : JobInv(i),
         JobInv(j)' /\ Advances(j),
         \A i \in Jobs \ {j} : /\ jobs'[i] = jobs[i] \/ jobs'[i] = Reaped[i]
                               /\ prov'[i] = prov[i] /\ verdict'[i] = verdict[i]
                               /\ sup'[i] = sup[i]
  PROVE  \A i \in Jobs : JobInv(i)' /\ Advances(i)
BY IdleJob

(* What a committed status and proof leave, and the two forms in which the   *)
(* settling operations write them.                                          *)
LEMMA CommittedJob ==
  ASSUME TypeOK, NEW j \in Jobs, NEW r \in JobRecord, Commit(j, r)
  PROVE  /\ jobs'[j] = r
         /\ \A i \in Jobs \ {j} : jobs'[i] = Reaped[i]
BY ReapType DEF Commit

(* Settling a record with proof leaves it terminal and proven.              *)
LEMMA EndedRecord ==
  ASSUME NEW r \in JobRecord, NEW s \in Terminal
  PROVE  LET t == [r EXCEPT !.status = s, !.proven = TRUE] IN
         /\ t \in JobRecord /\ SameCustody(t, r) /\ t.status \in Terminal
         /\ CleanupProven(t)
BY DEF JobRecord, SameCustody, CleanupProven

(* A proven terminal update leaves a record terminal, whatever it was.      *)
LEMMA EndedUpdate ==
  ASSUME NEW r \in JobRecord, NEW s \in Terminal
  PROVE  /\ Updated(r, s, TRUE, "none") \in JobRecord
         /\ SameCustody(Updated(r, s, TRUE, "none"), r)
         /\ Updated(r, s, TRUE, "none").status \in Terminal
<1>1. CASE r.status \in Terminal
  BY <1>1 DEF Updated, SameCustody
<1>2. CASE r.status \notin Terminal
  <2>1. PICK e \in Terminal :
          Updated(r, s, TRUE, "none") = [r EXCEPT !.status = e, !.proven = TRUE, !.result = r.result]
    BY <1>2 DEF Updated, Terminal
  <2>2. [r EXCEPT !.status = e, !.proven = TRUE, !.result = r.result]
          = [r EXCEPT !.status = e, !.proven = TRUE]
    BY DEF JobRecord
  <2> QED BY <2>1, <2>2, EndedRecord
<1> QED BY <1>1, <1>2

(* A settling transaction on a job nothing can run for any more.            *)
LEMMA EndJob ==
  ASSUME TypeOK, NEW j \in Jobs, JobInv(j), jobs[j].status # "absent",
         SameCustody(jobs'[j], jobs[j]), jobs'[j].status \in Terminal,
         ~Live(j) /\ ~MaySpawn(j),
         prov'[j] = prov[j], verdict'[j] = verdict[j],
         sup'[j] = sup[j] \/ (sup[j] \in SupLive /\ sup'[j] = "exited")
  PROVE  JobInv(j)' /\ Advances(j)
BY SettledJob, StatusSets

(***************************************************************************)
(* The launch call.                                                        *)
(***************************************************************************)
LaunchKeeps(l) ==
  /\ \A i \in Jobs : JobInv(i)' /\ Advances(i)
  /\ LauncherInv(l)'
  /\ \A m \in Launchers \ {l} : lpc'[m] = lpc[m]
  /\ lpc'[l] \in Owning => lpc[l] \in Owning \/ jobs[JobOf(l)].status = "reserved"
  /\ \A i \in Jobs : sup[i] = "none" => \/ sup'[i] = "none"
                                        \/ i = JobOf(l) /\ lpc[l] = "popen"

(* No step of an owner to another owning point lets a second owner in.      *)
LEMMA OwnerMoves ==
  ASSUME TypeOK, NEW l \in Launchers, LauncherInv(l), NEW pt \in LauncherPoints, GoTo(l, pt)
  PROVE  /\ lpc'[l] = pt
         /\ \A m \in Launchers \ {l} : lpc'[m] = lpc[m]
         /\ JobOf(l)' = JobOf(l) /\ \A m \in Launchers : JobOf(m)' = JobOf(m)
         /\ lpc[l] \in Owning => \A m \in Launchers \ {l} :
              JobOf(m)' = JobOf(l)' => lpc'[m] \notin Owning
BY DEF TypeOK, GoTo, LauncherInv, JobOf

(* The launch call's ledger operations keep the invariant.                  *)
LEMMA LaunchLedgerKeeps ==
  ASSUME TypeOK, \A i \in Jobs : JobInv(i), \A m \in Launchers : LauncherInv(m),
         NEW l \in Launchers,
         \/ Reserve(l) \/ ReserveAgain(l) \/ Claim(l) \/ StageTask(l) \/ FailLaunch(l)
         \/ RecordLaunch(l) \/ CheckRefused(l) \/ SettleRefused(l) \/ SettleLaunchExit(l)
  PROVE  LaunchKeeps(l)
<1> USE DEF procVars, ledgerVars
<1> DEFINE j == JobOf(l)
           R == Reaped[j]
<1>0. j \in Jobs /\ R \in JobRecord /\ JobInv(j)
  BY ReapType, ConstantsAssumption DEF JobOf, Requests
<1>1. /\ SameCustody(R, jobs[j])
      /\ R.status \in Active => ~CleanupProven(R)
      /\ R = jobs[j] \/ (/\ jobs[j].status \in Active /\ jobs[j].pid /\ sup[j] = "gone"
                         /\ R.status = "orphaned")
  BY <1>0, ReapedKeeps
<1>q. prov' = prov /\ verdict' = verdict /\ sup' = sup
  BY DEF Reserve, ReserveAgain, Claim, StageTask, FailLaunch, RecordLaunch, CheckRefused,
         SettleRefused, SettleLaunchExit
<1>r. /\ R.status \in Terminal <=> jobs[j].status \in Terminal
      /\ R.status = "absent" <=> jobs[j].status = "absent"
      /\ \A s \in Stoppable \cup {"stopping"} : R.status = s => R = jobs[j]
  BY <1>1, StatusSets
<1>2. CASE Reserve(l)
  <2> DEFINE t == [NoRecord EXCEPT !.status = "reserved", !.req = Request[l],
                                   !.attempt = Attempt(Reaped, Request[l])]
  <2>1. t \in JobRecord /\ Request[l] \in Requests /\ Request[l].job = j
    BY ReservedRecord DEF JobOf
  <2>2. Commit(j, t) /\ parent = "active" /\ jobs[j].status = "absent" /\ GoTo(l, "claim")
    BY <1>2, <1>r, <2>1 DEF Reserve, Admissible
  <2>3. jobs'[j] = t /\ \A i \in Jobs \ {j} : jobs'[i] = Reaped[i]
    BY <1>0, <2>1, <2>2, CommittedJob
  <2>4. /\ t.status = "reserved" /\ t.req = Request[l] /\ ~t.claimed /\ ~t.pid /\ ~t.bound
        /\ t.group = "none" /\ ~CleanupProven(t)
    BY DEF NoRecord, CleanupProven
  <2>5. sup[j] = "none" /\ prov[j] = "none"
    BY <1>0, <2>2 DEF JobInv, RecordInv
  <2> HIDE DEF t
  <2>6. JobInv(j)' /\ Advances(j)
    <3>1. RecordInv(j)'
      BY <1>q, <2>1, <2>3, <2>4, <2>5 DEF RecordInv
    <3>2. ProviderInv(j)'
      BY <1>q, <2>3, <2>4, <2>5 DEF ProviderInv
    <3>3. jobs'[j].status \notin Terminal
      BY <2>3, <2>4, StatusSets
    <3>4. jobs[j].status \notin Terminal /\ ~jobs[j].claimed /\ ~jobs[j].pid
      BY <1>0, <2>2, <2>5, StatusSets DEF JobInv, RecordInv
    <3>5. Admitted(j)
      BY <1>2 DEF Admitted
    <3>6. Advances(j)
      BY <1>q, <2>2, <2>3, <2>4, <2>5, <3>4, <3>5 DEF Advances
    <3> QED BY <3>1, <3>2, <3>3, <3>6 DEF JobInv
  <2>7. \A i \in Jobs : JobInv(i)' /\ Advances(i)
    BY <1>0, <1>q, <2>3, <2>6, OneJobStep
  <2>8. LauncherInv(l)'
    BY <1>0, <2>2, <2>3, <2>4, OwnerMoves DEF LauncherInv, LauncherPoints, Owning, BeforePopen,
       AfterPopen, AfterWait
  <2> QED BY <1>q, <2>2, <2>7, <2>8, OwnerMoves DEF LaunchKeeps, LauncherPoints, Owning,
             BeforePopen, AfterPopen
<1>3. CASE ReserveAgain(l)
  <2>1. jobs' = Reaped /\ jobs[j].status # "absent"
    BY <1>3, <1>r DEF ReserveAgain, JobOf
  <2>2. PICK pt \in {"claim", "done"} : GoTo(l, pt)
    BY <1>3 DEF ReserveAgain
  <2>3. \A i \in Jobs : JobInv(i)' /\ Advances(i)
    BY <1>q, <2>1, IdleJob
  <2>4. jobs'[j].status # "absent"
    BY <1>0, <2>1, <2>3 DEF Advances
  <2>5. LauncherInv(l)'
    BY <2>2, <2>4, OwnerMoves DEF LauncherInv, LauncherPoints, Owning, BeforePopen,
       AfterPopen, AfterWait
  <2> QED BY <1>q, <2>2, <2>3, <2>5, OwnerMoves DEF LaunchKeeps, LauncherPoints, Owning,
             BeforePopen, AfterPopen
<1>4. CASE Claim(l)
  <2>1. CASE R.status = "reserved"
    <3> DEFINE t == [R EXCEPT !.status = "starting", !.claimed = TRUE]
    <3>1. t \in JobRecord /\ Commit(j, t) /\ GoTo(l, "stage")
      BY <1>0, <1>4, <2>1 DEF Claim, JobRecord, Active, Stoppable, Handoff
    <3>2. jobs'[j] = t /\ \A i \in Jobs \ {j} : jobs'[i] = Reaped[i]
      BY <1>0, <3>1, CommittedJob
    <3>3. R = jobs[j] /\ jobs[j].status = "reserved"
      BY <1>r, <2>1, StatusSets
    <3>4. /\ t.status = "starting" /\ t.claimed /\ t.req = jobs[j].req /\ t.pid = jobs[j].pid
          /\ t.bound = jobs[j].bound /\ t.group = jobs[j].group
          /\ CleanupProven(t) <=> CleanupProven(jobs[j])
      BY <1>0, <3>3 DEF JobRecord, CleanupProven
    <3>5. sup[j] = "none" /\ prov[j] = "none" /\ ~jobs[j].claimed
      BY <1>0, <3>3 DEF JobInv, RecordInv
    <3> HIDE DEF t
    <3>6. JobInv(j)' /\ Advances(j)
      BY <1>0, <1>q, <3>2, <3>3, <3>4, <3>5, StatusSets
         DEF JobInv, RecordInv, ProviderInv, Advances, Live, MaySpawn, ProvLive
    <3>7. \A i \in Jobs : JobInv(i)' /\ Advances(i)
      BY <1>0, <1>q, <3>2, <3>6, OneJobStep
    <3>8. \A m \in Launchers \ {l} : JobOf(m) = j => lpc[m] \notin Owning
      BY <3>5 DEF LauncherInv
    <3>9. LauncherInv(l)'
      BY <1>q, <3>1, <3>2, <3>4, <3>5, <3>8, OwnerMoves
         DEF LauncherInv, LauncherPoints, Owning, BeforePopen, AfterPopen, AfterWait
    <3> QED BY <1>q, <3>1, <3>3, <3>7, <3>9, OwnerMoves DEF LaunchKeeps, LauncherPoints
  <2>2. CASE R.status # "reserved"
    <3>1. jobs' = Reaped /\ GoTo(l, "done")
      BY <1>4, <2>2 DEF Claim
    <3>2. \A i \in Jobs : JobInv(i)' /\ Advances(i)
      BY <1>q, <3>1, IdleJob
    <3>3. LauncherInv(l)'
      BY <3>1, OwnerMoves DEF LauncherInv, LauncherPoints, Owning, BeforePopen,
         AfterPopen, AfterWait
    <3> QED BY <1>q, <3>1, <3>2, <3>3, OwnerMoves DEF LaunchKeeps, LauncherPoints, Owning,
               BeforePopen, AfterPopen
  <2> QED BY <2>1, <2>2
<1>5. CASE StageTask(l)
  <2>1. jobs[j].claimed /\ jobs[j].status # "absent" /\ sup[j] = "none"
    BY <1>0, <1>5 DEF StageTask, LauncherInv, BeforePopen, Owning, JobInv, RecordInv
  <2>2. R = jobs[j]
    BY <1>1, <2>1
  <2>3. Updated(R, "cancelled", TRUE, "none") = R \/ R.status \in Active
    <3>1. R.status \in Active \cup Terminal
      BY <1>0, <2>1, <2>2 DEF JobRecord
    <3>2. R.status \in Terminal => Updated(R, "cancelled", TRUE, "none") = R
      BY DEF Updated
    <3> QED BY <3>1, <3>2
  <2>4. /\ jobs'[j] = jobs[j] /\ \A i \in Jobs \ {j} : jobs'[i] = Reaped[i]
        /\ \E pt \in {"popen", "done"} : GoTo(l, pt)
    BY <1>0, <1>5, <2>2, <2>3, CommittedJob DEF StageTask
  <2>5. \A i \in Jobs : JobInv(i)' /\ Advances(i)
    BY <1>q, <2>4, IdleJob
  <2>6. LauncherInv(l)'
    BY <1>5, <1>q, <2>1, <2>4, OwnerMoves
       DEF StageTask, LauncherInv, LauncherPoints, Owning, BeforePopen, AfterPopen, AfterWait
  <2> QED BY <1>5, <1>q, <2>4, <2>5, <2>6, OwnerMoves
          DEF LaunchKeeps, StageTask, LauncherPoints, Owning, BeforePopen
<1>6. CASE FailLaunch(l)
  <2>1. jobs[j].claimed /\ jobs[j].status # "absent" /\ sup[j] = "none" /\ ~jobs[j].pid
        /\ prov[j] = "none"
    BY <1>0, <1>6 DEF FailLaunch, LauncherInv, BeforePopen, Owning, JobInv, RecordInv
  <2>2. R = jobs[j] /\ GoTo(l, "done")
    BY <1>1, <1>6, <2>1 DEF FailLaunch
  <2>3. \A i \in Jobs \ {j} : jobs'[i] = Reaped[i]
    BY <1>0, <1>6, ReapType DEF FailLaunch, Commit
  <2>4. JobInv(j)' /\ Advances(j)
    <3>1. CASE jobs' = Reaped
      BY <1>0, <1>q, <3>1, IdleJob
    <3>2. CASE Commit(j, [R EXCEPT !.status = IF @ = "stopping" THEN "cancelled" ELSE "failed",
                                   !.proven = TRUE])
      <4>1. PICK s \in Terminal : Commit(j, [R EXCEPT !.status = s, !.proven = TRUE])
        BY <3>2 DEF Terminal
      <4>2. jobs'[j].status \in Terminal /\ SameCustody(jobs'[j], R)
        BY <1>0, <4>1, EndedRecord, CommittedJob
      <4> QED BY <1>0, <1>q, <2>1, <2>2, <4>2, EndJob DEF Live, MaySpawn, ProvLive
    <3> QED BY <1>6, <3>1, <3>2 DEF FailLaunch
  <2>5. \A i \in Jobs : JobInv(i)' /\ Advances(i)
    BY <1>0, <1>q, <2>3, <2>4, OneJobStep
  <2>6. LauncherInv(l)'
    BY <2>2, OwnerMoves DEF LauncherInv, LauncherPoints, Owning, BeforePopen, AfterPopen,
       AfterWait
  <2> QED BY <1>q, <2>2, <2>5, <2>6, OwnerMoves
          DEF LaunchKeeps, LauncherPoints, Owning, BeforePopen, AfterPopen
<1>7. CASE RecordLaunch(l)
  <2>1. /\ jobs[j].claimed /\ jobs[j].status # "absent" /\ sup[j] # "none"
        /\ lpc[l] \in Owning
    BY <1>0, <1>7 DEF RecordLaunch, LauncherInv, AfterPopen, Owning, JobInv, RecordInv
  <2>2. PICK pt \in {"watch", "reap"} : GoTo(l, pt)
    BY <1>7 DEF RecordLaunch
  <2>3. \A i \in Jobs : JobInv(i)' /\ Advances(i)
    <3>1. CASE jobs' = Reaped
      BY <1>q, <3>1, IdleJob
    <3>2. CASE jobs' # Reaped
      <4> DEFINE t == [R EXCEPT !.status = "launched", !.pid = TRUE, !.bound = FALSE]
      <4>1. /\ Commit(j, t) /\ ~R.pid /\ R.status = "starting" /\ SupPresent(j)
        BY <1>7, <3>2 DEF RecordLaunch, Identities
      <4>2. R = jobs[j] /\ "starting" \in Stoppable
        BY <1>r, <4>1 DEF Stoppable, Handoff
      <4>3. t \in JobRecord
        BY <1>0 DEF JobRecord, Active, Stoppable, Handoff
      <4>4. jobs'[j] = t /\ \A i \in Jobs \ {j} : jobs'[i] = Reaped[i]
        BY <1>0, <4>1, <4>3, CommittedJob
      <4>5. /\ t.status = "launched" /\ t.pid /\ ~t.bound /\ t.claimed = jobs[j].claimed
            /\ t.req = jobs[j].req /\ t.group = jobs[j].group
            /\ CleanupProven(t) <=> CleanupProven(jobs[j])
        BY <1>0, <4>2 DEF JobRecord, CleanupProven
      <4>6. "launched" \in Active /\ "launched" \notin Terminal /\ "starting" \in Active
            /\ "starting" \notin Terminal /\ sup[j] # "gone"
        BY <4>1 DEF Active, Stoppable, Handoff, Terminal, SupPresent, SupLive
      <4> HIDE DEF t
      <4>7. /\ ~jobs[j].bound /\ ~jobs[j].pid /\ jobs[j].status = "starting"
            /\ ~CleanupProven(jobs[j])
        BY <1>0, <4>1, <4>2, <4>6 DEF JobInv, RecordInv
      <4>8. JobInv(j)'
        BY <1>0, <1>q, <2>1, <4>4, <4>5, <4>6, <4>7
           DEF JobInv, RecordInv, ProviderInv, Live, MaySpawn
      <4>9. Advances(j)
        BY <1>q, <2>1, <4>4, <4>5, <4>6, <4>7 DEF Advances
      <4> QED BY <1>0, <1>q, <4>4, <4>8, <4>9, OneJobStep
    <3> QED BY <3>1, <3>2
  <2>4. LauncherInv(l)'
    BY <1>0, <1>q, <2>1, <2>2, <2>3, OwnerMoves
       DEF LauncherInv, LauncherPoints, Owning, BeforePopen, AfterPopen, AfterWait, Advances
  <2> QED BY <1>q, <2>1, <2>2, <2>3, <2>4, OwnerMoves DEF LaunchKeeps, LauncherPoints
<1>8. CASE CheckRefused(l)
  <2>1. /\ jobs[j].claimed /\ sup[j] = "gone" /\ lpc[l] \in Owning
    BY <1>8 DEF CheckRefused, LauncherInv, AfterPopen, Owning, AfterWait
  <2>2. jobs' = Reaped /\ \E pt \in {"done", "cancel", "fail"} : GoTo(l, pt)
    BY <1>8 DEF CheckRefused
  <2>3. \A i \in Jobs : JobInv(i)' /\ Advances(i)
    BY <1>q, <2>2, IdleJob
  <2>4. lpc'[l] # "done" => ~jobs'[j].pid
    BY <1>8, <2>2, OwnerMoves DEF CheckRefused, LauncherPoints
  <2>5. LauncherInv(l)'
    BY <1>0, <1>q, <2>1, <2>2, <2>3, <2>4, OwnerMoves
       DEF LauncherInv, LauncherPoints, Owning, BeforePopen, AfterPopen, AfterWait, Advances
  <2> QED BY <1>q, <2>1, <2>2, <2>3, <2>5, OwnerMoves DEF LaunchKeeps, LauncherPoints
<1>9. CASE SettleRefused(l)
  <2>1. /\ jobs[j].claimed /\ sup[j] = "gone" /\ ~jobs[j].pid /\ lpc[l] \in Owning
        /\ jobs[j].status # "absent" /\ prov[j] = "none"
    BY <1>0, <1>9
       DEF SettleRefused, LauncherInv, AfterPopen, Owning, AfterWait, JobInv, RecordInv
  <2>2. R = jobs[j] /\ GoTo(l, "done")
    BY <1>1, <1>9, <2>1 DEF SettleRefused
  <2>3. PICK s \in Terminal : Commit(j, Updated(R, s, TRUE, "none"))
    BY <1>9 DEF SettleRefused, Terminal
  <2>4. /\ Updated(R, s, TRUE, "none") \in JobRecord
        /\ SameCustody(Updated(R, s, TRUE, "none"), R)
        /\ Updated(R, s, TRUE, "none").status \in Terminal
    BY <1>0, EndedUpdate
  <2>5. /\ jobs'[j].status \in Terminal /\ SameCustody(jobs'[j], jobs[j])
        /\ \A i \in Jobs \ {j} : jobs'[i] = Reaped[i]
    BY <1>0, <2>2, <2>3, <2>4, CommittedJob
  <2>6. JobInv(j)' /\ Advances(j)
    BY <1>0, <1>q, <2>1, <2>5, EndJob DEF Live, MaySpawn, ProvLive
  <2>7. \A i \in Jobs : JobInv(i)' /\ Advances(i)
    BY <1>0, <1>q, <2>5, <2>6, OneJobStep
  <2>8. LauncherInv(l)'
    BY <2>2, OwnerMoves DEF LauncherInv, LauncherPoints, Owning, BeforePopen, AfterPopen,
       AfterWait
  <2> QED BY <1>q, <2>2, <2>7, <2>8, OwnerMoves
          DEF LaunchKeeps, LauncherPoints, Owning, BeforePopen, AfterPopen
<1>10. CASE SettleLaunchExit(l)
  <2>1. /\ jobs[j].claimed /\ sup[j] = "gone" /\ jobs[j].status # "absent"
    BY <1>0, <1>10
       DEF SettleLaunchExit, LauncherInv, AfterPopen, Owning, AfterWait, JobInv, RecordInv
  <2>2. GoTo(l, "done")
    BY <1>10 DEF SettleLaunchExit
  <2>3. \A i \in Jobs : JobInv(i)' /\ Advances(i)
    <3>1. CASE jobs' = Reaped
      BY <1>q, <3>1, IdleJob
    <3>2. CASE jobs' # Reaped
      <4>1. PICK s \in Terminal : Commit(j, [R EXCEPT !.status = s, !.proven = TRUE])
        BY <1>10, <3>2 DEF SettleLaunchExit, Terminal
      <4>2. ~jobs[j].bound
        BY <1>1, <1>10, <3>2 DEF SettleLaunchExit, SameCustody
      <4>3. /\ jobs'[j].status \in Terminal /\ SameCustody(jobs'[j], jobs[j])
            /\ \A i \in Jobs \ {j} : jobs'[i] = Reaped[i]
        <5>1. /\ jobs'[j].status \in Terminal /\ SameCustody(jobs'[j], R)
              /\ \A i \in Jobs \ {j} : jobs'[i] = Reaped[i]
          BY <1>0, <4>1, EndedRecord, CommittedJob
        <5> QED BY <1>1, <5>1 DEF SameCustody
      <4>4. ~Live(j) /\ ~MaySpawn(j)
        BY <1>0, <2>1, <4>2 DEF JobInv, RecordInv, Live, MaySpawn, ProvLive
      <4>5. JobInv(j)' /\ Advances(j)
        BY <1>0, <1>q, <2>1, <4>3, <4>4, EndJob
      <4> QED BY <1>0, <1>q, <4>3, <4>5, OneJobStep
    <3> QED BY <3>1, <3>2
  <2>4. LauncherInv(l)'
    BY <2>2, OwnerMoves DEF LauncherInv, LauncherPoints, Owning, BeforePopen, AfterPopen,
       AfterWait
  <2> QED BY <1>q, <2>2, <2>3, <2>4, OwnerMoves
          DEF LaunchKeeps, LauncherPoints, Owning, BeforePopen, AfterPopen
<1> QED BY <1>2, <1>3, <1>4, <1>5, <1>6, <1>7, <1>8, <1>9, <1>10

(* A supervisor that ends takes nothing with it.                            *)
LEMMA SupEnds ==
  ASSUME TypeOK, NEW j \in Jobs, JobInv(j), jobs'[j] = jobs[j], prov'[j] = prov[j],
         verdict'[j] = verdict[j], sup[j] # "none", sup'[j] \in {"exited", "gone"},
         sup[j] = "gone" => sup'[j] = "gone"
  PROVE  JobInv(j)' /\ Advances(j)
<1>1. JobInv(j)'
  BY DEF JobInv, RecordInv, ProviderInv, Live, MaySpawn
<1>2. Advances(j)
  BY DEF Advances
<1> QED BY <1>1, <1>2

(* A signal to a supervisor ends it or sets its flag, and harms no job.     *)
LEMMA SignalKeeps ==
  ASSUME TypeOK, NEW j \in Jobs, \A i \in Jobs : JobInv(i), Terminate(j) \/ Kill(j),
         jobs' = jobs \/ jobs' = Reaped, prov' = prov, verdict' = verdict
  PROVE  /\ \A i \in Jobs : JobInv(i)' /\ Advances(i)
         /\ \A i \in Jobs : sup[i] = "none" => sup'[i] = "none"
<1>1. \A i \in Jobs : sup'[i] = sup[i] \/ (i = j /\ sup[i] \in SupLive /\ sup'[i] = "exited")
  BY DEF TypeOK, Terminate, Kill, SupLive
<1>2. \A i \in Jobs : sup[i] = "none" => sup'[i] = "none"
  BY <1>1 DEF SupLive
<1>3. ASSUME NEW i \in Jobs PROVE JobInv(i)' /\ Advances(i)
  <2>1. CASE sup'[i] = sup[i]
    BY <2>1, IdleJob
  <2>2. CASE sup[i] \in SupLive /\ sup'[i] = "exited"
    <3>1. Reaped[i] = jobs[i]
      BY <2>2, ReapedJob DEF SupLive
    <3> QED BY <2>2, <3>1, SupEnds DEF SupLive
  <2> QED BY <1>1, <2>1, <2>2
<1> QED BY <1>2, <1>3

(* The launch call's steps on the supervisor process keep the invariant.    *)
LEMMA LaunchProcessKeeps ==
  ASSUME TypeOK, \A i \in Jobs : JobInv(i), \A m \in Launchers : LauncherInv(m),
         NEW l \in Launchers,
         Popen(l) \/ WaitChild(l) \/ TermChild(l) \/ KillChild(l) \/ LauncherExit(l)
  PROVE  LaunchKeeps(l)
<1> USE DEF procVars, ledgerVars
<1> DEFINE j == JobOf(l)
<1>0. j \in Jobs /\ JobInv(j) /\ LauncherInv(l)
  BY ConstantsAssumption DEF JobOf, Requests
<1>1. CASE Popen(l)
  <2>1. /\ jobs' = jobs /\ prov' = prov /\ verdict' = verdict /\ lpc[l] = "popen"
        /\ GoTo(l, "record") /\ sup' = [sup EXCEPT ![j] = "starting"]
    BY <1>1 DEF Popen
  <2>2. sup[j] = "none" /\ jobs[j].claimed
    BY <1>0, <2>1 DEF LauncherInv, BeforePopen, Owning
  <2>3. /\ sup'[j] = "starting" /\ \A i \in Jobs \ {j} : sup'[i] = sup[i]
    BY <1>0, <2>1 DEF TypeOK
  <2>4. JobInv(j)' /\ Advances(j)
    BY <1>0, <2>1, <2>2, <2>3 DEF JobInv, RecordInv, ProviderInv, Live, MaySpawn, Advances
  <2>5. \A i \in Jobs : JobInv(i)' /\ Advances(i)
    BY <1>0, <2>1, <2>3, <2>4, OneJobStep
  <2>6. LauncherInv(l)'
    BY <1>0, <2>1, <2>2, <2>3, OwnerMoves
       DEF LauncherInv, LauncherPoints, Owning, BeforePopen, AfterPopen, AfterWait
  <2> QED BY <2>1, <2>3, <2>5, <2>6, OwnerMoves
          DEF LaunchKeeps, LauncherPoints, Owning, BeforePopen
<1>2. CASE WaitChild(l)
  <2>1. /\ jobs' = jobs /\ prov' = prov /\ verdict' = verdict /\ lpc[l] \in AfterPopen
        /\ sup[j] = "exited" /\ sup' = [sup EXCEPT ![j] = "gone"]
    BY <1>2 DEF WaitChild, AfterPopen
  <2>2. PICK pt \in {"settle", "check"} : GoTo(l, pt)
    BY <1>2 DEF WaitChild
  <2>3. /\ sup'[j] = "gone" /\ \A i \in Jobs \ {j} : sup'[i] = sup[i]
    BY <1>0, <2>1 DEF TypeOK
  <2>4. JobInv(j)' /\ Advances(j)
    BY <1>0, <2>1, <2>3, SupEnds
  <2>5. \A i \in Jobs : JobInv(i)' /\ Advances(i)
    BY <1>0, <2>1, <2>3, <2>4, OneJobStep
  <2>6. LauncherInv(l)'
    BY <1>0, <2>1, <2>2, <2>3, OwnerMoves
       DEF LauncherInv, LauncherPoints, Owning, BeforePopen, AfterPopen, AfterWait
  <2>7. lpc[l] \in Owning /\ \A i \in Jobs : sup[i] = "none" => sup'[i] = "none"
    BY <2>1, <2>3 DEF Owning
  <2> QED BY <2>2, <2>5, <2>6, <2>7, OwnerMoves DEF LaunchKeeps, LauncherPoints
<1>3. CASE TermChild(l) \/ KillChild(l)
  <2>1. /\ jobs' = jobs /\ prov' = prov /\ verdict' = verdict /\ (Terminate(j) \/ Kill(j))
        /\ lpc[l] \in {"reap", "reapkill"} /\ GoTo(l, "reapkill")
    BY <1>3 DEF TermChild, KillChild, GoTo, TypeOK
  <2>2. /\ \A i \in Jobs : JobInv(i)' /\ Advances(i)
        /\ \A i \in Jobs : sup[i] = "none" => sup'[i] = "none"
    BY <1>0, <2>1, SignalKeeps
  <2>3. LauncherInv(l)'
    BY <1>0, <2>1, <2>2, OwnerMoves
       DEF LauncherInv, LauncherPoints, Owning, BeforePopen, AfterPopen, AfterWait, Advances
  <2> QED BY <2>1, <2>2, <2>3, OwnerMoves DEF LaunchKeeps, LauncherPoints, Owning, AfterPopen
<1>4. CASE LauncherExit(l)
  <2>1. /\ jobs' = jobs /\ prov' = prov /\ verdict' = verdict /\ sup' = sup /\ GoTo(l, "done")
    BY <1>4 DEF LauncherExit
  <2>2. \A i \in Jobs : JobInv(i)' /\ Advances(i)
    BY <2>1, IdleJob
  <2>3. LauncherInv(l)'
    BY <2>1, OwnerMoves DEF LauncherInv, LauncherPoints, Owning, BeforePopen, AfterPopen,
       AfterWait
  <2> QED BY <2>1, <2>2, <2>3, OwnerMoves
          DEF LaunchKeeps, LauncherPoints, Owning, BeforePopen, AfterPopen
<1> QED BY <1>1, <1>2, <1>3, <1>4

(* LedgerInv without its parts about single jobs, for the steps below.      *)
LEMMA InvParts ==
  LedgerInv <=> /\ TypeOK
                /\ \A j \in Jobs : JobInv(j)
                /\ \A l \in Launchers : LauncherInv(l)
                /\ \A c \in Cancellers : CancelInv(c)
                /\ ReportInv
                /\ ClosedLeavesNoneBetween
BY DEF LedgerInv, JobInv, ReleasedMeansGone

(* Every step of a launch call keeps the invariant and advances every job.  *)
LEMMA LaunchStep ==
  ASSUME LedgerInv, NEW l \in Launchers, Launch(l)
  PROVE  LedgerInv' /\ \A j \in Jobs : Advances(j)
<1>1. LaunchKeeps(l)
  BY InvParts, LaunchLedgerKeeps, LaunchProcessKeeps DEF Launch
<1>2. TypeOK /\ TypeOK'
  BY InvParts, LaunchType
<1>3. cpc' = cpc /\ parent' = parent /\ drain' = drain
  BY DEF Launch, Reserve, ReserveAgain, Claim, StageTask, Popen, FailLaunch, RecordLaunch,
     WaitChild, TermChild, KillChild, CheckRefused, SettleRefused, SettleLaunchExit,
     LauncherExit, procVars, ledgerVars
<1>4. \A i \in Jobs : JobInv(i)' /\ Advances(i)
  BY <1>1 DEF LaunchKeeps
<1>5. ASSUME NEW m \in Launchers PROVE LauncherInv(m)'
  <2>1. CASE m = l
    BY <1>1, <2>1 DEF LaunchKeeps
  <2>2. CASE m # l
    <3>1. lpc'[m] = lpc[m] /\ JobOf(m) \in Jobs /\ LauncherInv(m) /\ LauncherInv(l)
      BY <1>1, <2>2, InvParts, ConstantsAssumption DEF LaunchKeeps, JobOf, Requests
    <3>2. \A n \in Launchers : lpc'[n] \in Owning =>
            lpc[n] \in Owning \/ jobs[JobOf(n)].status = "reserved"
      BY <1>1 DEF LaunchKeeps
    <3>3. lpc[m] \in BeforePopen => sup'[JobOf(m)] = "none"
      BY <1>1, <2>2, <3>1 DEF LaunchKeeps, LauncherInv, BeforePopen, Owning
    <3> QED BY <1>2, <1>4, <3>1, <3>2, <3>3, InvParts, OtherLauncher
  <2> QED BY <2>1, <2>2
<1>6. \A c \in Cancellers : CancelInv(c)'
  BY <1>2, <1>3, <1>4, InvParts, OtherCancel
<1>7. ReportInv' /\ ClosedLeavesNoneBetween'
  BY <1>2, <1>3, <1>4, InvParts, OtherParent DEF TypeOK
<1>8. LedgerInv'
  BY <1>2, <1>4, <1>5, <1>6, <1>7 DEF LedgerInv, JobInv, ReleasedMeansGone
<1> QED BY <1>4, <1>8

(* Steps of others leave every launch call with what it knows.              *)
LEMMA QuietLaunchers ==
  ASSUME LedgerInv, \A i \in Jobs : JobInv(i)' /\ Advances(i), lpc' = lpc,
         \A i \in Jobs : sup[i] = "none" => sup'[i] = "none"
  PROVE  \A l \in Launchers : LauncherInv(l)'
<1> TAKE l \in Launchers
<1>1. JobOf(l) \in Jobs /\ LauncherInv(l) /\ TypeOK /\ JobInv(JobOf(l))
  BY InvParts, ConstantsAssumption DEF JobOf, Requests
<1>2. lpc[l] \in BeforePopen => sup'[JobOf(l)] = "none"
  BY <1>1 DEF LauncherInv
<1> QED BY <1>1, <1>2, OtherLauncher

(***************************************************************************)
(* The supervisor and its provider.                                        *)
(***************************************************************************)
LEMMA WhatRemains ==
  ASSUME TypeOK, NEW j \in Jobs, NEW p \in Remains(j)
  PROVE  /\ prov[j] = "none" <=> p = "none"
         /\ prov[j] = "gone" => p = "gone"
         /\ p \in ProvLive => prov[j] \in ProvLive
         /\ p = "detached" => prov[j] = "detached" \/ jobs[j].req.kind = "gemini"
         /\ p \in ProvLive \cup {"none", "gone"}
BY DEF TypeOK, Remains, ProvLive

SuperviseKeeps ==
  /\ \A i \in Jobs : JobInv(i)' /\ Advances(i)
  /\ \A i \in Jobs : sup[i] = "none" => sup'[i] = "none"

(* The supervisor's ledger operations keep the invariant.                   *)
LEMMA SupLedgerKeeps ==
  ASSUME TypeOK, \A i \in Jobs : JobInv(i), NEW j \in Jobs,
         \/ SupBind(j) \/ SupSettleRejection(j) \/ SupRecordCustody(j) \/ SupPausePool(j)
         \/ SupReport(j)
  PROVE  SuperviseKeeps
<1> USE DEF procVars, ledgerVars
<1> DEFINE R == Reaped[j]
<1>0. R \in JobRecord /\ JobInv(j) /\ prov' = prov /\ verdict' = verdict
  BY ReapType DEF SupBind, SupSettleRejection, SupRecordCustody, SupPausePool, SupReport
<1>1. /\ SameCustody(R, jobs[j])
      /\ R.status \in Active => ~CleanupProven(R)
      /\ R = jobs[j] \/ (/\ jobs[j].status \in Active /\ jobs[j].pid /\ sup[j] = "gone"
                         /\ R.status = "orphaned")
  BY <1>0, ReapedKeeps
<1>2. /\ \A i \in Jobs \ {j} : sup'[i] = sup[i]
      /\ sup[j] # "none" => sup'[j] # "none"
  BY DEF SupBind, SupSettleRejection, SupRecordCustody, SupPausePool, SupReport, MoveSup, TypeOK
<1>3. sup[j] # "none" /\ sup[j] # "gone" /\ jobs[j].claimed /\ jobs[j].status # "absent"
      /\ R = jobs[j] /\ sup[j] \in SupLive
  BY <1>0, <1>1 DEF SupBind, SupSettleRejection, SupRecordCustody, SupPausePool, SupReport,
     JobInv, RecordInv, SupLive
<1>4. CASE SupBind(j)
  <2>1. CASE jobs' = Reaped /\ sup' = [sup EXCEPT ![j] = "refused"]
    <3>1. sup[j] = "starting" /\ sup'[j] = "refused" /\ jobs'[j] = jobs[j]
      BY <1>3, <1>4, <2>1 DEF SupBind, TypeOK
    <3>2. JobInv(j)' /\ Advances(j)
      BY <1>0, <1>3, <3>1 DEF JobInv, RecordInv, ProviderInv, Live, MaySpawn, Advances
    <3> QED BY <1>0, <1>2, <1>3, <2>1, <3>2, OneJobStep DEF SuperviseKeeps
  <2>2. CASE ~(jobs' = Reaped /\ sup' = [sup EXCEPT ![j] = "refused"])
    <3> DEFINE t == [R EXCEPT !.status = "running", !.pid = TRUE, !.bound = TRUE]
    <3>1. /\ Commit(j, t) /\ sup'[j] = "bound" /\ sup[j] = "starting"
          /\ R.status \in {"launched", "running", "starting"}
      BY <1>4, <2>2 DEF SupBind, MoveSup, TypeOK
    <3>2. t \in JobRecord
      BY <1>0 DEF JobRecord, Active, Stoppable
    <3>3. jobs'[j] = t /\ \A i \in Jobs \ {j} : jobs'[i] = Reaped[i]
      BY <3>1, <3>2, CommittedJob
    <3>4. /\ t.status = "running" /\ t.pid /\ t.bound /\ t.claimed = jobs[j].claimed
          /\ t.req = jobs[j].req /\ t.group = jobs[j].group
          /\ CleanupProven(t) <=> CleanupProven(jobs[j])
      BY <1>0, <1>3 DEF JobRecord, CleanupProven
    <3>5. /\ "running" \in Active /\ "running" \notin Terminal
          /\ jobs[j].status \in Active /\ jobs[j].status \notin Terminal
          /\ jobs[j].status # "orphaned"
      BY <1>3, <3>1 DEF Active, Stoppable, Handoff, Terminal
    <3> HIDE DEF t
    <3>6. JobInv(j)'
      BY <1>0, <1>3, <3>1, <3>3, <3>4, <3>5 DEF JobInv, RecordInv, ProviderInv, Live, MaySpawn
    <3>7. Advances(j)
      BY <1>0, <1>3, <3>1, <3>3, <3>4, <3>5 DEF Advances
    <3> QED BY <1>0, <1>2, <1>3, <3>3, <3>6, <3>7, OneJobStep DEF SuperviseKeeps
  <2> QED BY <2>1, <2>2
<1>5. CASE SupSettleRejection(j)
  <2>1. sup[j] = "refused" /\ sup'[j] = "exited"
    BY <1>5 DEF SupSettleRejection, MoveSup, TypeOK
  <2>2. ~Live(j) /\ ~MaySpawn(j)
    BY <1>0, <2>1 DEF JobInv, RecordInv, Live, MaySpawn, ProvLive
  <2>3. CASE jobs' = Reaped
    <3>1. JobInv(j)' /\ Advances(j)
      BY <1>0, <1>3, <2>1, <2>3, SupEnds
    <3> QED BY <1>0, <1>2, <1>3, <2>3, <3>1, OneJobStep DEF SuperviseKeeps
  <2>4. CASE jobs' # Reaped
    <3>1. PICK s \in Terminal : Commit(j, [R EXCEPT !.status = s, !.proven = TRUE])
      BY <1>5, <2>4 DEF SupSettleRejection, Terminal
    <3>2. /\ jobs'[j].status \in Terminal /\ SameCustody(jobs'[j], R)
          /\ \A i \in Jobs \ {j} : jobs'[i] = Reaped[i]
      BY <1>0, <3>1, EndedRecord, CommittedJob
    <3>3. JobInv(j)' /\ Advances(j)
      BY <1>0, <1>3, <2>1, <2>2, <3>2, EndJob DEF SupLive
    <3> QED BY <1>0, <1>2, <1>3, <3>2, <3>3, OneJobStep DEF SuperviseKeeps
  <2> QED BY <2>3, <2>4
<1>6. CASE SupRecordCustody(j)
  <2>1. sup[j] = "spawned" /\ sup'[j] = "attached"
    BY <1>6 DEF SupRecordCustody, MoveSup, TypeOK
  <2>2. /\ \A i \in Jobs \ {j} : jobs'[i] = Reaped[i]
        /\ jobs'[j] = jobs[j] \/ jobs'[j] = [jobs[j] EXCEPT !.group = "full"]
    <3>1. [R EXCEPT !.group = "full"] \in JobRecord
      BY <1>0 DEF JobRecord, GroupEvidence
    <3> QED BY <1>3, <1>6, <3>1, CommittedJob DEF SupRecordCustody
  <2>3. /\ jobs'[j].status = jobs[j].status /\ jobs'[j].claimed = jobs[j].claimed
        /\ jobs'[j].pid = jobs[j].pid /\ jobs'[j].bound = jobs[j].bound
        /\ jobs'[j].req = jobs[j].req
        /\ CleanupProven(jobs'[j]) <=> CleanupProven(jobs[j])
    BY <1>0, <1>3, <2>2 DEF JobRecord, CleanupProven
  <2>4. JobInv(j)' /\ Advances(j)
    <3>1. RecordInv(j)'
      BY <1>0, <1>3, <2>1, <2>3 DEF JobInv, RecordInv
    <3>2. ProviderInv(j)' /\ (jobs[j].status \in Terminal => ~Live(j) /\ ~MaySpawn(j))'
      BY <1>0, <1>3, <2>1, <2>3 DEF JobInv, ProviderInv, Live, MaySpawn
    <3>3. Advances(j)
      BY <1>0, <1>3, <2>1, <2>3 DEF Advances
    <3> QED BY <3>1, <3>2, <3>3 DEF JobInv
  <2> QED BY <1>0, <1>2, <1>3, <2>2, <2>4, OneJobStep DEF SuperviseKeeps
<1>7. CASE SupPausePool(j)
  <2>1. jobs' = Reaped /\ sup' = sup
    BY <1>7 DEF SupPausePool
  <2> QED BY <1>0, <2>1, IdleJob DEF SuperviseKeeps
<1>8. CASE SupReport(j)
  <2> DEFINE s == verdict[j].status
             b == verdict[j].proven
             t == IF b THEN "proven" ELSE "unproven"
             u == Updated(R, s, b, t)
  <2>1. /\ sup[j] = "settling" /\ sup'[j] = "exited" /\ s \in Terminal
        /\ s \in Terminal \cup {"orphaned"} /\ s # "orphaned"
        /\ b \in BOOLEAN /\ t \in {"none", "unproven", "proven"} /\ t # "none"
    BY <1>8, StatusSets DEF SupReport, MoveSup, TypeOK
  <2> HIDE DEF s, b, t
  <2>2. /\ u \in JobRecord
        /\ u.req = R.req /\ u.claimed = R.claimed /\ u.pid = R.pid /\ u.bound = R.bound
        /\ u.group = R.group
        /\ R.status \in Terminal => u = R
        /\ R.status \notin Terminal =>
             /\ u.status \in Terminal \cup {"orphaned"}
             /\ u.proven = b
             /\ u.result = t
             /\ u.status \in Terminal <=> b = TRUE
    <3>1. R \in JobRecord
      BY <1>0
    <3> HIDE DEF R
    <3>2. /\ Updated(R, s, b, t) \in JobRecord
          /\ Updated(R, s, b, t).req = R.req /\ Updated(R, s, b, t).claimed = R.claimed
          /\ Updated(R, s, b, t).pid = R.pid /\ Updated(R, s, b, t).bound = R.bound
          /\ Updated(R, s, b, t).group = R.group
          /\ R.status \in Terminal => Updated(R, s, b, t) = R
      BY <2>1, <3>1, UpdatedRecord
    <3>3. ASSUME R.status \notin Terminal
          PROVE  /\ Updated(R, s, b, t).status \in Terminal \cup {"orphaned"}
                 /\ Updated(R, s, b, t).proven = b
                 /\ Updated(R, s, b, t).result = t
                 /\ Updated(R, s, b, t).status \in Terminal <=> b = TRUE
      <4>1. /\ Updated(R, s, b, t).status \in Terminal \cup {"orphaned"}
            /\ Updated(R, s, b, t).status \in Terminal <=> b = TRUE /\ s # "orphaned"
        BY <2>1, <3>1, <3>3, UpdatedRecord
      <4>2. Updated(R, s, b, t).proven = b
        BY <2>1, <3>1, <3>3, UpdatedRecord
      <4>3. t # "none" => Updated(R, s, b, t).result = t
        BY <2>1, <3>1, <3>3, UpdatedRecord
      <4> QED BY <2>1, <4>1, <4>2, <4>3
    <3>4. u = Updated(R, s, b, t)
      OBVIOUS
    <3> HIDE DEF u
    <3> QED BY <3>2, <3>3, <3>4
  <2> DEFINE w == [u EXCEPT !.group = "seen"]
  <2>3. /\ w \in JobRecord /\ w.req = u.req /\ w.claimed = u.claimed /\ w.pid = u.pid
        /\ w.bound = u.bound /\ w.status = u.status /\ w.proven = u.proven
        /\ w.result = u.result
    BY <2>2 DEF JobRecord, GroupEvidence
  <2> HIDE DEF u, w
  <2>4. /\ \A i \in Jobs \ {j} : jobs'[i] = Reaped[i]
        /\ jobs'[j] = u \/ (jobs'[j] = w /\ prov[j] # "none")
    BY <1>8, <2>2, <2>3, CommittedJob DEF SupReport, u, w, t, s, b
  <2>5. /\ jobs'[j].req = jobs[j].req /\ jobs'[j].claimed = jobs[j].claimed
        /\ jobs'[j].pid = jobs[j].pid /\ jobs'[j].bound = jobs[j].bound
        /\ jobs'[j].group # "none" => jobs[j].group # "none" \/ prov[j] # "none"
        /\ jobs[j].status \in Terminal => jobs'[j].status \in Terminal
        /\ jobs[j].status \notin Terminal =>
             /\ jobs'[j].status \in Terminal \cup {"orphaned"}
             /\ jobs'[j].proven = b /\ jobs'[j].result = t
             /\ jobs'[j].status \in Terminal <=> b = TRUE
    <3> HIDE DEF R, t, b
    <3>1. /\ jobs'[j].req = u.req /\ jobs'[j].claimed = u.claimed
          /\ jobs'[j].pid = u.pid /\ jobs'[j].bound = u.bound
          /\ jobs'[j].status = u.status /\ jobs'[j].proven = u.proven
          /\ jobs'[j].result = u.result
          /\ jobs'[j].group # "none" => u.group # "none" \/ prov[j] # "none"
      BY <2>3, <2>4
    <3>2. SameCustody(R, jobs[j]) /\ R.status = jobs[j].status
      BY <1>1, <1>3
    <3>3. /\ u.req = jobs[j].req /\ u.claimed = jobs[j].claimed /\ u.pid = jobs[j].pid
          /\ u.bound = jobs[j].bound /\ u.group = jobs[j].group
      BY <2>2, <3>2 DEF SameCustody
    <3>4. jobs[j].status \in Terminal => u.status \in Terminal
      BY <2>2, <3>2
    <3>5. jobs[j].status \notin Terminal =>
             /\ u.status \in Terminal \cup {"orphaned"}
             /\ u.proven = b /\ u.result = t
             /\ u.status \in Terminal <=> b = TRUE
      BY <2>2, <3>2
    <3> QED BY <3>1, <3>3, <3>4, <3>5
  <2>6. b = TRUE => ~Live(j)
    BY <1>0, <2>1 DEF JobInv, ProviderInv, b
  <2>7. jobs'[j].status \in Active => ~CleanupProven(jobs'[j])
    BY <2>1, <2>5, StatusSets DEF CleanupProven, t
  <2>8. jobs'[j].status \notin {"absent", "reserved"}
    BY <1>3, <2>5, StatusSets DEF Terminal
  <2>9. JobInv(j)'
    BY <1>0, <1>3, <2>1, <2>5, <2>6, <2>7, <2>8
       DEF JobInv, RecordInv, ProviderInv, Live, MaySpawn
  <2>10. Advances(j)
    BY <1>0, <1>3, <2>1, <2>5, <2>8 DEF Advances
  <2> QED BY <1>0, <1>2, <1>3, <2>4, <2>9, <2>10, OneJobStep DEF SuperviseKeeps
<1> QED BY <1>4, <1>5, <1>6, <1>7, <1>8

(* The supervisor's own steps and the provider's keep the invariant.        *)
LEMMA SupProcessKeeps ==
  ASSUME TypeOK, \A i \in Jobs : JobInv(i), NEW j \in Jobs,
         \/ SupRejectTask(j) \/ SupStartNothing(j) \/ SupSpawn(j) \/ SupFinish(j)
         \/ SupCrash(j) \/ InitWaits(j) \/ ProviderFades(j)
  PROVE  SuperviseKeeps
<1> USE DEF procVars, ledgerVars
<1>0. JobInv(j) /\ jobs' = jobs
  BY DEF SupRejectTask, SupStartNothing, SupSpawn, SupFinish, SupCrash, InitWaits, ProviderFades
<1>1. CASE SupRejectTask(j)
  <2>1. /\ sup[j] = "starting" /\ sup'[j] = "refused" /\ \A i \in Jobs \ {j} : sup'[i] = sup[i]
        /\ prov' = prov /\ verdict' = verdict
    BY <1>1 DEF SupRejectTask, MoveSup, TypeOK
  <2>2. JobInv(j)' /\ Advances(j)
    BY <1>0, <2>1 DEF JobInv, RecordInv, ProviderInv, Live, MaySpawn, Advances
  <2> QED BY <1>0, <2>1, <2>2, OneJobStep DEF SuperviseKeeps
<1>2. CASE SupStartNothing(j)
  <2>1. /\ sup[j] = "bound" /\ sup'[j] = "settling" /\ \A i \in Jobs \ {j} : sup'[i] = sup[i]
        /\ prov' = prov /\ \A i \in Jobs \ {j} : verdict'[i] = verdict[i]
    BY <1>2 DEF SupStartNothing, MoveSup, TypeOK
  <2>2. JobInv(j)' /\ Advances(j)
    BY <1>0, <2>1 DEF JobInv, RecordInv, ProviderInv, Live, MaySpawn, ProvLive, Advances
  <2> QED BY <1>0, <2>1, <2>2, OneJobStep DEF SuperviseKeeps
<1>3. CASE SupSpawn(j)
  <2>1. /\ sup[j] = "bound" /\ sup'[j] = "spawned" /\ \A i \in Jobs \ {j} : sup'[i] = sup[i]
        /\ prov'[j] = "running" /\ \A i \in Jobs \ {j} : prov'[i] = prov[i]
        /\ verdict' = verdict
    BY <1>3 DEF SupSpawn, MoveSup, TypeOK
  <2>2. JobInv(j)' /\ Advances(j)
    BY <1>0, <2>1 DEF JobInv, RecordInv, ProviderInv, Live, MaySpawn, Advances
  <2> QED BY <1>0, <2>1, <2>2, OneJobStep DEF SuperviseKeeps
<1>4. CASE SupFinish(j)
  <2>1. /\ sup[j] = "attached" /\ sup'[j] = "settling"
        /\ \A i \in Jobs \ {j} : sup'[i] = sup[i] /\ prov'[i] = prov[i] /\ verdict'[i] = verdict[i]
        /\ verdict'[j].proven => prov'[j] = "gone"
    BY <1>4 DEF SupFinish, MoveSup, TypeOK
  <2>2. prov'[j] = prov[j] \/ prov'[j] \in Remains(j)
    BY <1>4 DEF SupFinish, TypeOK
  <2>3. /\ prov[j] = "none" <=> prov'[j] = "none"
        /\ prov[j] = "gone" => prov'[j] = "gone"
        /\ prov'[j] \in ProvLive => prov[j] \in ProvLive
        /\ prov'[j] = "detached" => jobs[j].req.kind = "gemini"
    BY <1>0, <2>2, WhatRemains DEF JobInv, ProviderInv
  <2>4. JobInv(j)'
    BY <1>0, <2>1, <2>3 DEF JobInv, RecordInv, ProviderInv, Live, MaySpawn, ProvLive
  <2>5. Advances(j)
    BY <1>0, <2>1, <2>3 DEF Advances
  <2> QED BY <1>0, <2>1, <2>4, <2>5, OneJobStep DEF SuperviseKeeps
<1>5. CASE SupCrash(j)
  <2>1. Kill(j) /\ prov' = prov /\ verdict' = verdict
    BY <1>5 DEF SupCrash
  <2> QED BY <1>0, <2>1, SignalKeeps DEF SuperviseKeeps
<1>6. CASE InitWaits(j)
  <2>1. /\ sup[j] = "exited" /\ sup'[j] = "gone" /\ \A i \in Jobs \ {j} : sup'[i] = sup[i]
        /\ prov' = prov /\ verdict' = verdict
    BY <1>6 DEF InitWaits, MoveSup, TypeOK
  <2>2. JobInv(j)' /\ Advances(j)
    BY <1>0, <2>1, SupEnds
  <2> QED BY <1>0, <2>1, <2>2, OneJobStep DEF SuperviseKeeps
<1>7. CASE ProviderFades(j)
  <2>1. /\ sup' = sup /\ verdict' = verdict /\ \A i \in Jobs \ {j} : prov'[i] = prov[i]
        /\ prov'[j] \in Remains(j)
    BY <1>7 DEF ProviderFades, TypeOK
  <2>2. /\ prov[j] = "none" <=> prov'[j] = "none"
        /\ prov[j] = "gone" => prov'[j] = "gone"
        /\ prov'[j] \in ProvLive => prov[j] \in ProvLive
        /\ prov'[j] = "detached" => jobs[j].req.kind = "gemini"
    BY <1>0, <2>1, WhatRemains DEF JobInv, ProviderInv
  <2>3. JobInv(j)' /\ Advances(j)
    BY <1>0, <2>1, <2>2 DEF JobInv, RecordInv, ProviderInv, Live, MaySpawn, Advances
  <2> QED BY <1>0, <2>1, <2>3, OneJobStep DEF SuperviseKeeps
<1> QED BY <1>1, <1>2, <1>3, <1>4, <1>5, <1>6, <1>7

(* Every step of a supervisor or provider keeps the invariant.              *)
LEMMA SuperviseStep ==
  ASSUME LedgerInv, NEW j \in Jobs, Supervise(j)
  PROVE  LedgerInv' /\ \A i \in Jobs : Advances(i)
<1>1. SuperviseKeeps
  BY InvParts, SupLedgerKeeps, SupProcessKeeps DEF Supervise
<1>2. TypeOK /\ TypeOK'
  BY InvParts, SuperviseType
<1>3. cpc' = cpc /\ parent' = parent /\ drain' = drain /\ lpc' = lpc
  BY DEF Supervise, SupRejectTask, SupBind, SupSettleRejection, SupStartNothing, SupSpawn,
     SupRecordCustody, SupFinish, SupPausePool, SupReport, SupCrash, InitWaits,
     ProviderFades, procVars, ledgerVars
<1>4. \A i \in Jobs : JobInv(i)' /\ Advances(i)
  BY <1>1 DEF SuperviseKeeps
<1>5. \A l \in Launchers : LauncherInv(l)'
  BY <1>1, <1>3, <1>4, QuietLaunchers DEF SuperviseKeeps
<1>6. \A c \in Cancellers : CancelInv(c)'
  BY <1>2, <1>3, <1>4, InvParts, OtherCancel
<1>7. ReportInv' /\ ClosedLeavesNoneBetween'
  BY <1>2, <1>3, <1>4, InvParts, OtherParent DEF TypeOK
<1>8. LedgerInv'
  BY <1>2, <1>4, <1>5, <1>6, <1>7 DEF LedgerInv, JobInv, ReleasedMeansGone
<1> QED BY <1>4, <1>8

(***************************************************************************)
(* The cancel call.                                                        *)
(***************************************************************************)
LEMMA StoppedJob ==
  ASSUME TypeOK, NEW j \in Jobs, JobInv(j), jobs[j].status # "absent",
         jobs'[j] = Stopping(Reaped[j]),
         prov'[j] = prov[j], verdict'[j] = verdict[j], sup'[j] = sup[j]
  PROVE  /\ JobInv(j)' /\ Advances(j)
         /\ SameCustody(jobs'[j], jobs[j])
         /\ jobs'[j].status \in Terminal \cup {"stopping", "orphaned"}
         /\ jobs'[j].group \in GroupEvidence
<1> DEFINE R == Reaped[j]
<1>1. /\ R \in JobRecord /\ SameCustody(R, jobs[j])
      /\ R.status \in Active => ~CleanupProven(R)
      /\ R = jobs[j] \/ (jobs[j].status \in Active /\ R.status = "orphaned")
  BY ReapedKeeps
<1> HIDE DEF R
<1>2. /\ jobs'[j] \in JobRecord /\ SameCustody(jobs'[j], jobs[j])
      /\ jobs'[j].proven = R.proven /\ jobs'[j].result = R.result
      /\ R.status \notin Stoppable => jobs'[j] = R
      /\ R.status \in Stoppable => jobs'[j].status = "stopping"
  BY <1>1, StoppingRecord DEF SameCustody, R
<1>3. R.status \in Stoppable \cup {"stopping", "orphaned"} \cup Terminal
  BY <1>1, StatusSets DEF JobRecord, Active
<1>4. /\ jobs'[j].status \in Terminal \cup {"stopping", "orphaned"}
      /\ jobs'[j].status \in Active => ~CleanupProven(jobs'[j])
      /\ jobs[j].status \in Terminal <=> jobs'[j].status \in Terminal
      /\ jobs[j].status = "orphaned" => jobs'[j].status = "orphaned"
      /\ jobs'[j].status # "absent" /\ jobs'[j].status # "reserved"
  BY <1>1, <1>2, <1>3, StatusSets DEF CleanupProven
<1>5. jobs'[j].status \in Terminal => ~Live(j) /\ ~MaySpawn(j)
  BY <1>4 DEF JobInv
<1>6. JobInv(j)' /\ Advances(j)
  BY <1>2, <1>4, <1>5, SettledJob
<1> QED BY <1>2, <1>4, <1>6 DEF JobRecord

(* An update to orphaned never ends a job and never proves anything.        *)
LEMMA OrphanUpdate ==
  ASSUME NEW r \in JobRecord, r.status # "absent"
  PROVE  /\ Updated(r, "orphaned", FALSE, "none") \in JobRecord
         /\ SameCustody(Updated(r, "orphaned", FALSE, "none"), r)
         /\ r.status \in Terminal => Updated(r, "orphaned", FALSE, "none") = r
         /\ r.status \notin Terminal =>
              /\ Updated(r, "orphaned", FALSE, "none").status = "orphaned"
              /\ Updated(r, "orphaned", FALSE, "none").proven = FALSE
              /\ Updated(r, "orphaned", FALSE, "none").result = r.result
<1>1. CASE r.status \in Terminal
  BY <1>1 DEF Updated, SameCustody
<1>2. CASE r.status \notin Terminal
  <2>1. Updated(r, "orphaned", FALSE, "none")
          = [r EXCEPT !.status = "orphaned", !.proven = FALSE, !.result = r.result]
    BY <1>2, StatusSets DEF Updated
  <2>2. "orphaned" \in Active
    BY StatusSets
  <2> QED BY <1>2, <2>1, <2>2 DEF JobRecord, SameCustody
<1> QED BY <1>1, <1>2

CancelKeeps(c) ==
  /\ \A i \in Jobs : JobInv(i)' /\ Advances(i)
  /\ \A i \in Jobs : sup[i] = "none" => sup'[i] = "none"
  /\ CancelInv(c)'
  /\ \A d \in Cancellers \ {c} : cpc'[d] = cpc[d]

(* A stop request keeps the invariant, wherever its snapshot sends the call.*)
LEMMA StopKeeps ==
  ASSUME TypeOK, \A i \in Jobs : JobInv(i), NEW c \in Cancellers, NEW j \in Jobs,
         Abandon(c, j) \/ BeginStop(c, j)
  PROVE  CancelKeeps(c)
<1> USE DEF procVars, ledgerVars
<1> DEFINE s == Stopping(Reaped[j])
<1>1. /\ Commit(j, s) /\ Reaped[j].status # "absent"
      /\ prov' = prov /\ verdict' = verdict /\ sup' = sup
  BY DEF Abandon, BeginStop
<1>2. s \in JobRecord /\ jobs[j].status # "absent" /\ Reaped[j] \in JobRecord
  BY <1>1, ReapedKeeps, StoppingRecord, StatusSets
<1>3. jobs'[j] = s /\ \A i \in Jobs \ {j} : jobs'[i] = Reaped[i]
  BY <1>1, <1>2, CommittedJob
<1>4. /\ JobInv(j)' /\ Advances(j)
      /\ SameCustody(s, jobs[j])
      /\ s.status \in Terminal \cup {"stopping", "orphaned"}
      /\ s.group \in GroupEvidence
  BY <1>1, <1>2, <1>3, StoppedJob
<1>5. \A i \in Jobs : JobInv(i)' /\ Advances(i)
  BY <1>1, <1>3, <1>4, OneJobStep
<1>6. s.status # "absent" /\ s.status # "reserved"
  BY <1>4, StatusSets
<1>7. s.group # "none" => prov[j] # "none"
  BY <1>4 DEF JobInv, ProviderInv, SameCustody
<1> HIDE DEF s
<1>8. CASE Abandon(c, j)
  <2>1. cpc'[c].job = j /\ cpc'[c].at = "begin" /\ \A d \in Cancellers \ {c} : cpc'[d] = cpc[d]
    BY <1>8 DEF Abandon, TypeOK, IdleCanceller
  <2>2. CancelInv(c)'
    BY <1>3, <1>6, <2>1 DEF CancelInv
  <2> QED BY <1>1, <1>5, <2>1, <2>2 DEF CancelKeeps
<1>9. CASE BeginStop(c, j)
  <2>1. \A d \in Cancellers \ {c} : cpc'[d] = cpc[d]
    BY <1>9 DEF BeginStop, ToCleanup, TypeOK
  <2>2. \/ cpc'[c].at = "idle"
        \/ /\ cpc'[c].at = "cleanup" /\ cpc'[c].job = j
           /\ s.req.kind = "luna" /\ s.group # "none"
        \/ cpc'[c].at = "identify" /\ cpc'[c].job = j
        \/ /\ cpc'[c].at = "unclaimed" /\ cpc'[c].job = j
           /\ s.status # "orphaned" /\ s.status \notin Terminal
           /\ ~(s.status = "stopping" /\ ~s.pid /\ s.claimed) /\ ~s.pid
    <3>1. CASE s.status = "orphaned" \/ (s.status = "stopping" /\ ~s.pid /\ s.claimed)
      BY <1>9, <3>1 DEF BeginStop, ToCleanup, TypeOK, IdleCanceller, s
    <3>2. CASE ~(s.status = "orphaned" \/ (s.status = "stopping" /\ ~s.pid /\ s.claimed))
      <4>1. cpc' = [cpc EXCEPT ![c] =
              IF s.status \in Terminal \/ (s.pid /\ ~s.bound) THEN IdleCanceller
              ELSE [IdleCanceller EXCEPT !.at = IF s.pid THEN "identify" ELSE "unclaimed",
                                         !.job = j]]
        BY <1>9, <3>2 DEF BeginStop, s
      <4> QED BY <3>2, <4>1 DEF TypeOK, IdleCanceller
    <3> QED BY <3>1, <3>2
  <2>3. CancelInv(c)'
    BY <1>1, <1>3, <1>4, <1>6, <1>7, <2>2 DEF CancelInv
  <2> QED BY <1>1, <1>5, <2>1, <2>3 DEF CancelKeeps
<1> QED BY <1>8, <1>9

(* The later ledger operations of a cancel call keep the invariant.         *)
LEMMA CancelLedgerKeeps ==
  ASSUME TypeOK, \A i \in Jobs : JobInv(i), NEW c \in Cancellers, CancelInv(c),
         NEW j \in Jobs, j = cpc[c].job,
         \/ CancelUnclaimed(c) \/ OrphanUnidentified(c) \/ PollCancelled(c)
         \/ SettleProvider(c)
  PROVE  CancelKeeps(c)
<1> USE DEF procVars, ledgerVars
<1> DEFINE R == Reaped[j]
<1>0. /\ cpc[c].at # "idle" /\ j \in Jobs /\ jobs[j].status # "absent" /\ JobInv(j)
      /\ prov' = prov /\ verdict' = verdict /\ sup' = sup
  BY DEF CancelUnclaimed, OrphanUnidentified, PollCancelled, SettleProvider, CancelInv
<1>1. /\ R \in JobRecord /\ SameCustody(R, jobs[j])
      /\ R.status \in Active => ~CleanupProven(R)
      /\ R = jobs[j] \/ (/\ jobs[j].status \in Active /\ jobs[j].pid /\ sup[j] = "gone"
                         /\ R.status = "orphaned")
  BY <1>0, ReapedKeeps
<1>2. /\ R.status # "absent" /\ R.status \in Active \cup Terminal
      /\ R.status \in Terminal <=> jobs[j].status \in Terminal
      /\ jobs[j].status = "orphaned" => R.status = "orphaned"
      /\ R.status = "reserved" => jobs[j].status = "reserved"
  BY <1>0, <1>1, StatusSets DEF JobRecord
<1>3. \A d \in Cancellers \ {c} : cpc'[d] = cpc[d]
  BY DEF CancelUnclaimed, OrphanUnidentified, PollCancelled, SettleProvider, ToCleanup, TypeOK
<1>4. cpc' = [cpc EXCEPT ![c] = IdleCanceller] => CancelInv(c)'
  BY DEF TypeOK, CancelInv, IdleCanceller
<1> HIDE DEF R
<1>5. CASE CancelUnclaimed(c)
  <2>1. ~Live(j) /\ ~MaySpawn(j)
    BY <1>0, <1>5
       DEF CancelUnclaimed, CancelInv, JobInv, RecordInv, Live, MaySpawn, ProvLive
  <2>2. "cancelled" \in Terminal /\ Commit(j, Updated(R, "cancelled", TRUE, "none"))
    BY <1>5 DEF CancelUnclaimed, Terminal, R
  <2>3. /\ Updated(R, "cancelled", TRUE, "none") \in JobRecord
        /\ SameCustody(Updated(R, "cancelled", TRUE, "none"), R)
        /\ Updated(R, "cancelled", TRUE, "none").status \in Terminal
    BY <1>1, <2>2, EndedUpdate
  <2>4. /\ jobs'[j].status \in Terminal /\ SameCustody(jobs'[j], R)
        /\ \A i \in Jobs \ {j} : jobs'[i] = Reaped[i]
    BY <1>0, <2>2, <2>3, CommittedJob
  <2>5. SameCustody(jobs'[j], jobs[j])
    BY <1>1, <2>4 DEF SameCustody
  <2>6. JobInv(j)' /\ Advances(j)
    BY <1>0, <2>1, <2>4, <2>5, EndJob
  <2>7. \A i \in Jobs : JobInv(i)' /\ Advances(i)
    BY <1>0, <2>4, <2>6, OneJobStep
  <2> QED BY <1>0, <1>3, <1>4, <1>5, <2>7 DEF CancelKeeps, CancelUnclaimed
<1>6. CASE OrphanUnidentified(c)
  <2> DEFINE u == Updated(R, "orphaned", FALSE, "none")
  <2>1. /\ u \in JobRecord /\ SameCustody(u, R)
        /\ R.status \in Terminal => u = R
        /\ R.status \notin Terminal =>
             u.status = "orphaned" /\ u.proven = FALSE /\ u.result = R.result
    BY <1>1, <1>2, OrphanUpdate
  <2> HIDE DEF u
  <2>2. jobs'[j] = u /\ \A i \in Jobs \ {j} : jobs'[i] = Reaped[i]
    BY <1>0, <1>6, <2>1, CommittedJob DEF OrphanUnidentified, R, u
  <2>3. R.status \notin Terminal => ~CleanupProven(u)
    BY <1>1, <1>2, <2>1 DEF CleanupProven
  <2>4. /\ jobs'[j].status \in Terminal \cup {"orphaned"}
        /\ jobs[j].status \in Terminal <=> jobs'[j].status \in Terminal
        /\ jobs'[j].status \in Active => ~CleanupProven(jobs'[j])
        /\ jobs'[j].status # "absent" /\ jobs'[j].status # "reserved"
    BY <1>2, <2>1, <2>2, <2>3, StatusSets
  <2>5. SameCustody(jobs'[j], jobs[j])
    BY <1>1, <2>1, <2>2 DEF SameCustody
  <2>6. jobs'[j].status \in Terminal => ~Live(j) /\ ~MaySpawn(j)
    BY <1>0, <2>4 DEF JobInv
  <2>7. JobInv(j)' /\ Advances(j)
    BY <1>0, <2>4, <2>5, <2>6, SettledJob
  <2>8. \A i \in Jobs : JobInv(i)' /\ Advances(i)
    BY <1>0, <2>2, <2>7, OneJobStep
  <2> QED BY <1>0, <1>3, <1>4, <1>6, <2>8 DEF CancelKeeps, OrphanUnidentified
<1>7. CASE PollCancelled(c)
  <2>1. jobs' = Reaped
    BY <1>7 DEF PollCancelled
  <2>2. \A i \in Jobs : JobInv(i)' /\ Advances(i)
    BY <1>0, <2>1, IdleJob
  <2>3. R.group # "none" => prov[j] # "none"
    BY <1>0, <1>1 DEF JobInv, ProviderInv, SameCustody
  <2>4. \/ cpc' = [cpc EXCEPT ![c] = IdleCanceller]
        \/ cpc'[c] = cpc[c] /\ cpc[c].at = "poll"
        \/ /\ cpc'[c].at = "cleanup" /\ cpc'[c].job = j
           /\ R.req.kind = "luna" /\ R.group # "none"
    BY <1>7 DEF PollCancelled, ToCleanup, TypeOK, R
  <2>5. CancelInv(c)'
    BY <1>0, <1>2, <1>4, <2>1, <2>3, <2>4 DEF CancelInv, R
  <2> QED BY <1>0, <1>3, <2>2, <2>5 DEF CancelKeeps
<1>8. CASE SettleProvider(c)
  <2> DEFINE p == [R EXCEPT !.status = "cancelled", !.proven = TRUE,
                            !.result = IF @ = "none" THEN @ ELSE "proven"]
             o == [R EXCEPT !.status = IF @ \in Active THEN "orphaned" ELSE @,
                            !.proven = FALSE]
             t == IF cpc[c].proven THEN p ELSE o
  <2>1. /\ p \in JobRecord /\ SameCustody(p, R) /\ p.status \in Terminal
        /\ p.status \notin Active
    BY <1>1 DEF JobRecord, SameCustody, Active, Terminal, Stoppable, ReservedOnly, Handoff
  <2>2. /\ o \in JobRecord /\ SameCustody(o, R)
        /\ R.status \in Active => o.status = "orphaned"
        /\ R.status \notin Active => o.status = R.status
        /\ o.proven = FALSE /\ o.result = R.result
    BY <1>1 DEF JobRecord, SameCustody, Active
  <2> HIDE DEF p, o
  <2>3. t \in JobRecord /\ SameCustody(t, R)
    BY <2>1, <2>2
  <2>4. cpc[c].proven => ~Live(j) /\ ~MaySpawn(j)
    BY <1>0, <1>8 DEF SettleProvider, CancelInv, JobInv, ProviderInv, Live, MaySpawn, ProvLive
  <2>5. /\ t.status \in Terminal \cup {"orphaned"}
        /\ t.status \in Active => ~CleanupProven(t)
        /\ jobs[j].status \in Terminal => t.status \in Terminal
        /\ t.status \in Terminal => ~Live(j) /\ ~MaySpawn(j)
    BY <1>0, <1>1, <1>2, <2>1, <2>2, <2>4, StatusSets DEF CleanupProven, JobInv
  <2>6. jobs'[j] = t /\ \A i \in Jobs \ {j} : jobs'[i] = Reaped[i]
    <3>1. Commit(j, t)
      BY <1>8 DEF SettleProvider, R, p, o
    <3> HIDE DEF t
    <3> QED BY <1>0, <2>3, <3>1, CommittedJob
  <2> HIDE DEF t
  <2>7. SameCustody(jobs'[j], jobs[j])
    BY <1>1, <2>3, <2>6 DEF SameCustody
  <2>8. jobs'[j].status # "absent" /\ jobs'[j].status # "reserved"
    BY <2>5, <2>6, StatusSets
  <2>9. JobInv(j)' /\ Advances(j)
    BY <1>0, <2>5, <2>6, <2>7, <2>8, SettledJob
  <2>10. \A i \in Jobs : JobInv(i)' /\ Advances(i)
    BY <1>0, <2>6, <2>9, OneJobStep
  <2> QED BY <1>0, <1>3, <1>4, <1>8, <2>10 DEF CancelKeeps, SettleProvider
<1> QED BY <1>5, <1>6, <1>7, <1>8

(* The signals and checks of a cancel call keep the invariant.              *)
LEMMA CancelProcessKeeps ==
  ASSUME TypeOK, \A i \in Jobs : JobInv(i), NEW c \in Cancellers, CancelInv(c),
         NEW j \in Jobs, j = cpc[c].job,
         SignalSupervisor(c) \/ IdentityMismatch(c) \/ CleanGroup(c) \/ CancellerCrash(c)
  PROVE  CancelKeeps(c)
<1> USE DEF procVars, ledgerVars
<1>0. /\ cpc[c].at # "idle" /\ j \in Jobs /\ JobInv(j) /\ jobs' = jobs
      /\ jobs[j].status # "absent" /\ verdict' = verdict
  BY DEF SignalSupervisor, IdentityMismatch, CleanGroup, CancellerCrash, CancelInv
<1>1. \A d \in Cancellers \ {c} : cpc'[d] = cpc[d]
  BY DEF SignalSupervisor, IdentityMismatch, CleanGroup, CancellerCrash, CancelAt, TypeOK
<1>2. CASE SignalSupervisor(c)
  <2>1. Terminate(j) /\ prov' = prov /\ cpc'[c].at = "poll" /\ cpc'[c].job = j
    BY <1>2 DEF SignalSupervisor, CancelAt, TypeOK, CancelRecord
  <2>2. /\ \A i \in Jobs : JobInv(i)' /\ Advances(i)
        /\ \A i \in Jobs : sup[i] = "none" => sup'[i] = "none"
    BY <1>0, <2>1, SignalKeeps
  <2>3. CancelInv(c)'
    BY <1>0, <2>1 DEF CancelInv
  <2> QED BY <1>1, <2>2, <2>3 DEF CancelKeeps
<1>3. CASE IdentityMismatch(c)
  <2>1. prov' = prov /\ sup' = sup /\ cpc'[c].at = "mismatch" /\ cpc'[c].job = j
    BY <1>3 DEF IdentityMismatch, CancelAt, TypeOK, CancelRecord
  <2>2. \A i \in Jobs : JobInv(i)' /\ Advances(i)
    BY <1>0, <2>1, IdleJob
  <2>3. CancelInv(c)'
    BY <1>0, <2>1 DEF CancelInv
  <2> QED BY <1>1, <2>1, <2>2, <2>3 DEF CancelKeeps
<1>4. CASE CleanGroup(c)
  <2>1. /\ sup' = sup /\ \A i \in Jobs \ {j} : prov'[i] = prov[i]
        /\ prov'[j] = prov[j] \/ prov'[j] \in Remains(j)
    BY <1>4 DEF CleanGroup, TypeOK
  <2>2. /\ prov[j] # "none" /\ jobs[j].req.kind = "luna"
    BY <1>0, <1>4 DEF CleanGroup, CancelInv
  <2>3. /\ prov[j] = "none" <=> prov'[j] = "none"
        /\ prov[j] = "gone" => prov'[j] = "gone"
        /\ prov'[j] \in ProvLive => prov[j] \in ProvLive
        /\ prov'[j] # "detached"
        /\ prov'[j] \in ProvLive \cup {"none", "gone"}
    BY <1>0, <2>1, <2>2, WhatRemains DEF JobInv, ProviderInv, TypeOK
  <2>4. JobInv(j)' /\ Advances(j)
    BY <1>0, <2>1, <2>2, <2>3 DEF JobInv, RecordInv, ProviderInv, Live, MaySpawn, Advances
  <2>5. \A i \in Jobs : JobInv(i)' /\ Advances(i)
    BY <1>0, <2>1, <2>4, OneJobStep
  <2>6. cpc'[c].at = "receipt" /\ cpc'[c].job = j
    <3>1. \E b \in BOOLEAN : cpc' = [cpc EXCEPT ![c].at = "receipt", ![c].proven = b]
      BY <1>4 DEF CleanGroup, GroupPresent
    <3>2. cpc[c] \in CancelRecord /\ cpc \in [Cancellers -> CancelRecord]
      BY DEF TypeOK
    <3> QED BY <3>1, <3>2 DEF CancelRecord
  <2>7. cpc'[c].proven = ~GroupPresent(prov'[j])
    <3>1. cpc' = [cpc EXCEPT ![c].at = "receipt", ![c].proven = ~GroupPresent(prov'[j])]
      BY <1>0, <1>4 DEF CleanGroup, TypeOK
    <3>2. cpc[c] \in CancelRecord /\ cpc \in [Cancellers -> CancelRecord]
      BY DEF TypeOK
    <3> QED BY <3>1, <3>2 DEF CancelRecord
  <2>8. cpc'[c].proven => prov'[j] = "gone"
    BY <2>2, <2>3, <2>7 DEF GroupPresent, ProvLive
  <2>9. CancelInv(c)'
    BY <1>0, <2>2, <2>3, <2>6, <2>8 DEF CancelInv
  <2> QED BY <1>1, <2>1, <2>5, <2>9 DEF CancelKeeps
<1>5. CASE CancellerCrash(c)
  <2>1. prov' = prov /\ sup' = sup /\ cpc'[c].at = "idle"
    BY <1>5 DEF CancellerCrash, TypeOK, IdleCanceller
  <2>2. \A i \in Jobs : JobInv(i)' /\ Advances(i)
    BY <1>0, <2>1, IdleJob
  <2>3. CancelInv(c)'
    BY <2>1 DEF CancelInv
  <2> QED BY <1>1, <2>1, <2>2, <2>3 DEF CancelKeeps
<1> QED BY <1>2, <1>3, <1>4, <1>5

(* Every step of a cancel call keeps the invariant and advances every job.  *)
LEMMA CancelStep ==
  ASSUME LedgerInv, NEW c \in Cancellers, Cancel(c)
  PROVE  LedgerInv' /\ \A i \in Jobs : Advances(i)
<1>0. TypeOK /\ (\A i \in Jobs : JobInv(i)) /\ CancelInv(c)
  BY InvParts
<1>1. CancelKeeps(c)
  <2>1. CASE \E j \in Jobs : Abandon(c, j) \/ BeginStop(c, j)
    BY <1>0, <2>1, StopKeeps
  <2>2. CASE \/ CancelUnclaimed(c) \/ SignalSupervisor(c) \/ IdentityMismatch(c)
             \/ OrphanUnidentified(c) \/ PollCancelled(c) \/ CleanGroup(c)
             \/ SettleProvider(c) \/ CancellerCrash(c)
    <3>1. PICK j \in Jobs : j = cpc[c].job
      BY <1>0, <2>2
         DEF CancelUnclaimed, SignalSupervisor, IdentityMismatch, OrphanUnidentified,
             PollCancelled, CleanGroup, SettleProvider, CancellerCrash, CancelInv
    <3> QED BY <1>0, <2>2, <3>1, CancelLedgerKeeps, CancelProcessKeeps
  <2> QED BY <2>1, <2>2 DEF Cancel
<1>2. TypeOK /\ TypeOK'
  <2>1. \A d \in Cancellers : cpc[d].at # "idle" => cpc[d].job \in Jobs
    BY InvParts DEF CancelInv
  <2> QED BY <1>0, <2>1, CancelType
<1>3. parent' = parent /\ drain' = drain /\ lpc' = lpc
  BY DEF Cancel, Abandon, BeginStop, CancelUnclaimed, SignalSupervisor, IdentityMismatch,
     OrphanUnidentified, PollCancelled, CleanGroup, SettleProvider, CancellerCrash,
     procVars, ledgerVars
<1>4. \A i \in Jobs : JobInv(i)' /\ Advances(i)
  BY <1>1 DEF CancelKeeps
<1>5. \A l \in Launchers : LauncherInv(l)'
  BY <1>1, <1>3, <1>4, QuietLaunchers DEF CancelKeeps
<1>6. \A d \in Cancellers : CancelInv(d)'
  BY <1>1, <1>2, <1>4, InvParts, OtherCancel DEF CancelKeeps
<1>7. ReportInv' /\ ClosedLeavesNoneBetween'
  BY <1>2, <1>3, <1>4, InvParts, OtherParent DEF TypeOK
<1>8. LedgerInv'
  BY <1>2, <1>4, <1>5, <1>6, <1>7 DEF LedgerInv, JobInv, ReleasedMeansGone
<1> QED BY <1>4, <1>8

(***************************************************************************)
(* The parent.                                                             *)
(***************************************************************************)
ParentKeeps ==
  /\ \A i \in Jobs : JobInv(i)' /\ Advances(i)
  /\ \A i \in Jobs : sup[i] = "none" => sup'[i] = "none"
  /\ ReportInv' /\ ClosedLeavesNoneBetween'

(* A reservation nobody claimed has no process behind it.                   *)
LEMMA UnclaimedEnds ==
  ASSUME TypeOK, NEW j \in Jobs, JobInv(j), Reaped[j].status \in Active, Unclaimed(Reaped[j]),
         jobs'[j] = [Reaped[j] EXCEPT !.status = "cancelled", !.proven = TRUE],
         prov'[j] = prov[j], verdict'[j] = verdict[j], sup'[j] = sup[j]
  PROVE  /\ JobInv(j)' /\ Advances(j)
         /\ jobs'[j].status \in Terminal
<1>1. /\ Reaped[j] \in JobRecord /\ SameCustody(Reaped[j], jobs[j])
      /\ jobs[j].status # "absent"
  BY ReapedKeeps, StatusSets
<1>2. ~Live(j) /\ ~MaySpawn(j)
  BY <1>1 DEF Unclaimed, SameCustody, JobInv, RecordInv, Live, MaySpawn, ProvLive
<1>3. jobs'[j].status \in Terminal /\ SameCustody(jobs'[j], Reaped[j])
  BY <1>1, EndedRecord DEF Terminal
<1>4. SameCustody(jobs'[j], jobs[j])
  BY <1>1, <1>3 DEF SameCustody
<1> QED BY <1>1, <1>2, <1>3, <1>4, EndJob

(* Beginning a drain settles only what nobody claimed.                      *)
LEMMA DrainBeginKeeps ==
  ASSUME TypeOK, \A i \in Jobs : JobInv(i), DrainBegin
  PROVE  ParentKeeps
<1> USE DEF procVars
<1>1. /\ prov' = prov /\ verdict' = verdict /\ sup' = sup
      /\ parent' = "draining" /\ drain'.report = "none"
  BY DEF DrainBegin
<1>2. ASSUME NEW i \in Jobs PROVE JobInv(i)' /\ Advances(i)
  <2>1. jobs'[i] = IF Reaped[i].status \notin Active THEN Reaped[i]
                   ELSE IF Unclaimed(Reaped[i])
                        THEN [Reaped[i] EXCEPT !.status = "cancelled", !.proven = TRUE]
                        ELSE Stopping(Reaped[i])
    BY DEF DrainBegin
  <2>2. CASE Reaped[i].status \notin Active
    BY <1>1, <2>1, <2>2, IdleJob
  <2>3. CASE Reaped[i].status \in Active /\ Unclaimed(Reaped[i])
    BY <1>1, <2>1, <2>3, UnclaimedEnds
  <2>4. CASE Reaped[i].status \in Active /\ ~Unclaimed(Reaped[i])
    <3>1. jobs[i].status # "absent"
      BY <2>4, ReapedKeeps, StatusSets
    <3> QED BY <1>1, <2>1, <2>4, <3>1, StoppedJob
  <2> QED BY <2>2, <2>3, <2>4
<1> QED BY <1>1, <1>2 DEF ParentKeeps, ReportInv, ClosedLeavesNoneBetween

(* Closing after a drain leaves every job settled or orphaned.              *)
LEMMA DrainCloseKeeps ==
  ASSUME TypeOK, \A i \in Jobs : JobInv(i), DrainClose
  PROVE  ParentKeeps
<1> USE DEF procVars
<1>1. /\ prov' = prov /\ verdict' = verdict /\ sup' = sup /\ parent' = "closed"
  BY DEF DrainClose
<1>2. ASSUME NEW i \in Jobs
      PROVE  /\ JobInv(i)' /\ Advances(i)
             /\ jobs'[i].status \in Terminal \cup {"orphaned", "absent"}
             /\ jobs'[i].status \in Active =>
                  Reaped[i].status \in Active /\ ~Unclaimed(Reaped[i])
  <2> DEFINE R == Reaped[i]
  <2>1. jobs'[i] = IF R.status \notin Active THEN R
                   ELSE IF Unclaimed(R) THEN [R EXCEPT !.status = "cancelled", !.proven = TRUE]
                        ELSE [R EXCEPT !.status = "orphaned", !.proven = FALSE]
    BY DEF DrainClose
  <2>2. /\ R \in JobRecord /\ SameCustody(R, jobs[i])
        /\ R.status \in Active => ~CleanupProven(R)
        /\ R = jobs[i] \/ (jobs[i].status \in Active /\ R.status = "orphaned")
    BY ReapedKeeps
  <2>3. CASE R.status \notin Active
    <3>1. JobInv(i)' /\ Advances(i)
      BY <1>1, <2>1, <2>3, IdleJob
    <3> QED BY <2>1, <2>2, <2>3, <3>1 DEF JobRecord
  <2>4. CASE R.status \in Active /\ Unclaimed(R)
    <3>1. JobInv(i)' /\ Advances(i) /\ jobs'[i].status \in Terminal
      BY <1>1, <2>1, <2>4, UnclaimedEnds
    <3> QED BY <3>1, StatusSets
  <2>5. CASE R.status \in Active /\ ~Unclaimed(R)
    <3> HIDE DEF R
    <3>1. /\ jobs'[i] = [R EXCEPT !.status = "orphaned", !.proven = FALSE]
          /\ "orphaned" \in Active \cup Terminal
      BY <2>1, <2>5, StatusSets
    <3>2. /\ jobs'[i].status = "orphaned" /\ jobs'[i].proven = FALSE
          /\ jobs'[i].result = R.result /\ SameCustody(jobs'[i], R)
      BY <2>2, <3>1 DEF JobRecord, SameCustody
    <3>3. SameCustody(jobs'[i], jobs[i])
      BY <2>2, <3>2 DEF SameCustody
    <3>4. /\ jobs[i].status # "absent" /\ jobs[i].status \notin Terminal
          /\ ~CleanupProven(jobs'[i])
      BY <2>2, <2>5, <3>2, StatusSets DEF CleanupProven
    <3>5. JobInv(i)' /\ Advances(i)
      BY <1>1, <3>2, <3>3, <3>4, StatusSets, SettledJob
    <3> QED BY <2>5, <3>2, <3>5 DEF R
  <2> QED BY <2>3, <2>4, <2>5
<1>3. drain'.report = "clean" => \A i \in Jobs : Reaped[i].status \in Active => Unclaimed(Reaped[i])
  BY DEF DrainClose, IdleDrain
<1>4. ReportInv' /\ ClosedLeavesNoneBetween'
  BY <1>1, <1>2, <1>3 DEF ReportInv, ClosedLeavesNoneBetween
<1> QED BY <1>1, <1>2, <1>4 DEF ParentKeeps

(* Every step of the parent keeps the invariant and advances every job.     *)
LEMMA ParentStep ==
  ASSUME LedgerInv, Parent
  PROVE  LedgerInv' /\ \A i \in Jobs : Advances(i)
<1> USE DEF procVars, ledgerVars
<1>0. TypeOK /\ (\A i \in Jobs : JobInv(i)) /\ ReportInv /\ ClosedLeavesNoneBetween
  BY InvParts
<1>1. TypeOK' /\ cpc' = cpc /\ lpc' = lpc
  BY <1>0, ParentType DEF Parent, DrainBegin, DrainTerm, DrainWaitOver, DrainKill, DrainClose,
     DrainCrash, CloseSettled, Observe, PausePool, ResumePool
<1>2. ParentKeeps
  <2>1. ASSUME jobs' = jobs \/ jobs' = Reaped, prov' = prov, verdict' = verdict, sup' = sup,
               parent' = parent, drain'.report \in {drain.report, "none"}
        PROVE  ParentKeeps
    <3>1. \A i \in Jobs : JobInv(i)' /\ Advances(i)
      BY <1>0, <2>1, IdleJob
    <3>2. ReportInv' /\ ClosedLeavesNoneBetween'
      BY <1>0, <1>1, <2>1, <3>1, OtherParent DEF TypeOK
    <3> QED BY <2>1, <3>1, <3>2 DEF ParentKeeps
  <2>2. ASSUME NEW j \in Jobs, Terminate(j) \/ Kill(j), jobs' = jobs \/ jobs' = Reaped,
               prov' = prov, verdict' = verdict, parent' = parent, drain'.report = drain.report
        PROVE  ParentKeeps
    <3>1. /\ \A i \in Jobs : JobInv(i)' /\ Advances(i)
          /\ \A i \in Jobs : sup[i] = "none" => sup'[i] = "none"
      BY <1>0, <2>2, SignalKeeps
    <3>2. ReportInv' /\ ClosedLeavesNoneBetween'
      BY <1>0, <1>1, <2>2, <3>1, OtherParent DEF TypeOK
    <3> QED BY <3>1, <3>2 DEF ParentKeeps
  <2>3. CASE DrainBegin
    BY <1>0, <2>3, DrainBeginKeeps
  <2>4. ASSUME NEW j \in Jobs, DrainTerm(j) PROVE ParentKeeps
    <3>1. drain'.report = drain.report
      BY <1>0, <2>4 DEF DrainTerm, TypeOK
    <3> QED BY <2>1, <2>2, <2>4, <3>1 DEF DrainTerm
  <2>5. CASE DrainWaitOver
    BY <1>0, <2>1, <2>5 DEF DrainWaitOver, TypeOK
  <2>6. ASSUME NEW j \in Jobs, DrainKill(j) PROVE ParentKeeps
    <3>1. drain'.report = drain.report
      BY <1>0, <2>6 DEF DrainKill, TypeOK
    <3> QED BY <2>1, <2>2, <2>6, <3>1 DEF DrainKill
  <2>7. CASE DrainClose
    BY <1>0, <2>7, DrainCloseKeeps
  <2>8. CASE DrainCrash
    BY <2>1, <2>8 DEF DrainCrash, IdleDrain
  <2>9. CASE CloseSettled
    <3>1. \A i \in Jobs : JobInv(i)' /\ Advances(i)
      BY <1>0, <2>9, IdleJob DEF CloseSettled
    <3>2. ReportInv' /\ ClosedLeavesNoneBetween'
      BY <1>0, <2>9 DEF CloseSettled, ReportInv, ClosedLeavesNoneBetween
    <3> QED BY <2>9, <3>1, <3>2 DEF ParentKeeps, CloseSettled
  <2>10. CASE Observe
    BY <2>1, <2>10 DEF Observe
  <2>11. ASSUME NEW k \in Kinds, PausePool(k) \/ ResumePool(k) PROVE ParentKeeps
    BY <2>1, <2>11 DEF PausePool, ResumePool
  <2> QED BY <2>3, <2>4, <2>5, <2>6, <2>7, <2>8, <2>9, <2>10, <2>11 DEF Parent
<1>3. \A i \in Jobs : JobInv(i)' /\ Advances(i)
  BY <1>2 DEF ParentKeeps
<1>4. \A l \in Launchers : LauncherInv(l)'
  BY <1>1, <1>2, <1>3, QuietLaunchers DEF ParentKeeps
<1>5. \A c \in Cancellers : CancelInv(c)'
  BY <1>0, <1>1, <1>3, InvParts, OtherCancel
<1>6. LedgerInv'
  BY <1>1, <1>2, <1>3, <1>4, <1>5
     DEF LedgerInv, JobInv, ReleasedMeansGone, ParentKeeps
<1> QED BY <1>3, <1>6

(***************************************************************************)
(* Initial states, stuttering, and every step together.                    *)
(***************************************************************************)
LEMMA InvInit == Init => LedgerInv
<1> SUFFICES ASSUME Init PROVE LedgerInv
  OBVIOUS
<1>1. TypeOK
  BY TypeInit
<1>2. \A j \in Jobs : JobInv(j)
  BY StatusSets DEF Init, JobInv, RecordInv, ProviderInv, NoRecord, CleanupProven, Live, ProvLive
<1>3. \A l \in Launchers : LauncherInv(l)
  BY DEF Init, LauncherInv, BeforePopen, AfterPopen, AfterWait, Owning
<1>4. \A c \in Cancellers : CancelInv(c)
  BY DEF Init, CancelInv, IdleCanceller
<1>5. ReportInv /\ ClosedLeavesNoneBetween
  BY DEF Init, ReportInv, ClosedLeavesNoneBetween, IdleDrain
<1> QED BY <1>1, <1>2, <1>3, <1>4, <1>5, InvParts

(* The invariant is inductive, and under it every step advances every job.  *)
LEMMA NextKeeps == LedgerInv /\ Next => LedgerInv' /\ \A j \in Jobs : Advances(j)
BY LaunchStep, SuperviseStep, CancelStep, ParentStep DEF Next

(* The invariant does not depend on anything outside the variables.         *)
LEMMA StutterKeeps == LedgerInv /\ UNCHANGED vars => LedgerInv'
BY DEF vars, LedgerInv, TypeOK, RecordInv, ProviderInv, LauncherInv, CancelInv, ReportInv,
       ReleasedMeansGone, ClosedLeavesNoneBetween, Live, MaySpawn, JobOf

(* The strengthened invariant: for any jobs, launch calls, cancel calls,     *)
(* capacities and any outcome of the identity checks, crashes included.      *)
THEOREM LedgerInvariant == Spec => []LedgerInv
<1>1. Init => LedgerInv
  BY InvInit
<1>2. LedgerInv /\ [Next]_vars => LedgerInv'
  BY NextKeeps, StutterKeeps
<1> QED BY <1>1, <1>2, PTL DEF Spec

(* Every reachable state is well typed.                                     *)
THEOREM TypeCorrect == Spec => []TypeOK
<1>1. LedgerInv => TypeOK
  BY DEF LedgerInv
<1> QED BY <1>1, LedgerInvariant, PTL

(* A slot is released only once nothing runs or can start for it, whoever    *)
(* of the launcher, supervisor, canceller and drain releases it.             *)
THEOREM SlotsReleasedWhenGone == Spec => []ReleasedMeansGone
<1>1. LedgerInv => ReleasedMeansGone
  BY DEF LedgerInv
<1> QED BY <1>1, LedgerInvariant, PTL

(* A job's supervisor is started at most once, by the call that claimed it.  *)
THEOREM OneLaunchPerJob == Spec => []LaunchedOnce
<1>1. LedgerInv => LaunchedOnce
  <2> SUFFICES ASSUME LedgerInv, NEW l \in Launchers, lpc[l] \in BeforePopen
               PROVE  /\ sup[JobOf(l)] = "none"
                      /\ \A m \in Launchers \ {l} : JobOf(m) = JobOf(l) =>
                           lpc[m] \in {"reserve", "claim", "done"}
    BY DEF LaunchedOnce, BeforePopen
  <2>1. LauncherInv(l) /\ lpc \in [Launchers -> LauncherPoints]
    BY DEF LedgerInv, TypeOK
  <2>2. \A p \in LauncherPoints : p \notin Owning => p \in {"reserve", "claim", "done"}
    BY DEF LauncherPoints, Owning, BeforePopen, AfterPopen
  <2> QED BY <2>1, <2>2 DEF LauncherInv, Owning
<1> QED BY <1>1, LedgerInvariant, PTL

(* A provider that runs belongs to a job the ledger still counts.           *)
LEMMA LiveIsActive ==
  ASSUME LedgerInv, NEW j \in Jobs, Live(j)
  PROVE  jobs[j].status \in Active
<1>1. RecordInv(j) /\ jobs[j] \in JobRecord
  BY DEF LedgerInv, TypeOK
<1>2. jobs[j].status # "absent"
  BY <1>1 DEF RecordInv, Live, ProvLive
<1>3. jobs[j].status \notin Terminal
  BY DEF LedgerInv, ReleasedMeansGone
<1> QED BY <1>1, <1>2, <1>3 DEF JobRecord

(* A drain reported clean leaves nothing running and nothing to start, even  *)
(* with launch calls, supervisors and cancel calls still going on.           *)
THEOREM CleanDrainTruth == Spec => []CleanDrainIsTruthful
<1>1. LedgerInv => CleanDrainIsTruthful
  <2> SUFFICES ASSUME LedgerInv, drain.report = "clean", NEW j \in Jobs
               PROVE  ~Live(j) /\ ~MaySpawn(j)
    BY DEF CleanDrainIsTruthful
  <2>1. jobs[j].status \notin Active
    BY DEF LedgerInv, ReportInv
  <2>2. RecordInv(j) /\ jobs[j] \in JobRecord
    BY DEF LedgerInv, TypeOK
  <2>3. MaySpawn(j) => jobs[j].status \in Terminal
    BY <2>1, <2>2 DEF RecordInv, MaySpawn, JobRecord
  <2> QED BY <2>1, <2>3, LiveIsActive DEF LedgerInv, ReleasedMeansGone
<1> QED BY <1>1, LedgerInvariant, PTL

(* Once the parent is closed every job is settled, orphaned or was never     *)
(* admitted, whatever calls go on.                                          *)
THEOREM ClosedParentSettled == Spec => []ClosedLeavesNoneBetween
<1>1. LedgerInv => ClosedLeavesNoneBetween
  BY DEF LedgerInv
<1> QED BY <1>1, LedgerInvariant, PTL

(* No step of anybody moves a job back.                                     *)
THEOREM JobsAdvance == Spec => JobsOnlyAdvance
<1>1. LedgerInv /\ [Next]_vars => [\A j \in Jobs : Advances(j)]_vars
  BY NextKeeps
<1> QED BY <1>1, LedgerInvariant, PTL DEF Spec, JobsOnlyAdvance

(***************************************************************************)
(* Admission: the capacity and scope checks made once by reserve_gemini     *)
(* hold of the active jobs ever after.                                      *)
(***************************************************************************)
LEMMA ReapShrinks ==
  ASSUME LedgerInv, NEW j \in Jobs
  PROVE  /\ Reaped[j].req = jobs[j].req
         /\ Reaped[j].status \in Active => jobs[j].status \in Active
BY InvParts, ReapedKeeps, StatusSets DEF SameCustody

(* Apart from a reservation, no step makes a job active.                    *)
LEMMA OnlyReserveAdmits ==
  ASSUME LedgerInv, Next, NEW j \in Jobs, jobs'[j].status \in Active
  PROVE  \/ jobs[j].status \in Active /\ jobs'[j].req = jobs[j].req
         \/ Admitted(j)
<1>1. jobs[j].status \in Active \cup Terminal \cup {"absent"}
  BY DEF LedgerInv, TypeOK, JobRecord
<1> QED BY <1>1, NextKeeps, StatusSets DEF Advances

(* A subset of a pool's active jobs is bounded as the active jobs are.      *)
LEMMA FewerActive ==
  ASSUME NEW k \in Kinds, NEW A \in SUBSET ActiveOfKind(jobs, k),
         Cardinality(ActiveOfKind(jobs, k)) <= Capacity[k]
  PROVE  Cardinality(A) <= Capacity[k]
<1>1. IsFiniteSet(ActiveOfKind(jobs, k))
  BY ConstantsAssumption, FS_Subset DEF ActiveOfKind
<1>2. /\ Cardinality(A) \in Nat /\ Cardinality(ActiveOfKind(jobs, k)) \in Nat
      /\ Cardinality(A) <= Cardinality(ActiveOfKind(jobs, k))
  BY <1>1, FS_Subset, FS_CardinalityType
<1> QED BY <1>2, ConstantsAssumption

(* Adding one element adds at most one to the cardinality.                  *)
LEMMA OneMore ==
  ASSUME NEW S, IsFiniteSet(S), NEW x
  PROVE  /\ IsFiniteSet(S \cup {x})
         /\ Cardinality(S \cup {x}) <= Cardinality(S) + 1
         /\ Cardinality(S) \in Nat
<1>1. Cardinality(S) \in Nat
  BY FS_CardinalityType
<1>2. CASE x \in S
  <2>1. S \cup {x} = S
    BY <1>2
  <2> DEFINE n == Cardinality(S)
  <2>2. n \in Nat => n <= n + 1
    OBVIOUS
  <2> QED BY <1>1, <2>1, <2>2, Zenon
<1>3. CASE x \notin S
  <2>1. IsFiniteSet(S \cup {x}) /\ Cardinality(S \cup {x}) = Cardinality(S) + 1
    BY <1>3, FS_AddElement
  <2> QED BY <1>1, <2>1
<1> QED BY <1>2, <1>3

(* The admission checks keep the pools bounded and the scopes apart.        *)
LEMMA ReserveAdmission ==
  ASSUME LedgerInv, AdmissionInv, NEW l \in Launchers, Reserve(l)
  PROVE  AdmissionInv'
<1> DEFINE q == Request[l]
           j == JobOf(l)
<1>1. j \in Jobs /\ q \in Requests /\ q.job = j /\ TypeOK
  BY ReservedRecord DEF LedgerInv, JobOf
<1>2. /\ jobs'[j].req = q /\ \A i \in Jobs \ {j} : jobs'[i] = Reaped[i]
      /\ ScopeFree(Reaped, q.scope)
      /\ Cardinality(ActiveOfKind(Reaped, q.kind)) < Capacity[q.kind]
  <2>1. Commit(j, [NoRecord EXCEPT !.status = "reserved", !.req = q,
                                   !.attempt = Attempt(Reaped, q)])
    BY <1>1 DEF Reserve
  <2>2. jobs'[j] = [NoRecord EXCEPT !.status = "reserved", !.req = q,
                                    !.attempt = Attempt(Reaped, q)]
        /\ \A i \in Jobs \ {j} : jobs'[i] = Reaped[i]
    BY <1>1, <2>1, ReservedRecord, CommittedJob
  <2>3. jobs'[j].req = q
    BY <2>2 DEF NoRecord
  <2> QED BY <2>2, <2>3 DEF Reserve, Admissible
<1>3. ASSUME NEW k \in Kinds PROVE Cardinality(ActiveOfKind(jobs, k)') <= Capacity[k]
  <2>1. ActiveOfKind(Reaped, k) \subseteq ActiveOfKind(jobs, k)
    BY ReapShrinks DEF ActiveOfKind
  <2>2. CASE k # q.kind
    <3>1. ActiveOfKind(jobs, k)' \subseteq ActiveOfKind(jobs, k)
      BY <1>2, <2>1, <2>2 DEF ActiveOfKind
    <3> QED BY <3>1, FewerActive DEF AdmissionInv
  <2>3. CASE k = q.kind
    <3> DEFINE A == ActiveOfKind(Reaped, k) \cup {j}
    <3>1. ActiveOfKind(jobs, k)' \subseteq A
      BY <1>2 DEF ActiveOfKind
    <3>2. IsFiniteSet(ActiveOfKind(Reaped, k))
      BY ConstantsAssumption, FS_Subset DEF ActiveOfKind
    <3>3. /\ IsFiniteSet(A)
          /\ Cardinality(A) <= Cardinality(ActiveOfKind(Reaped, k)) + 1
          /\ Cardinality(ActiveOfKind(Reaped, k)) \in Nat
      BY <3>2, OneMore
    <3>4. /\ Cardinality(ActiveOfKind(jobs, k)') <= Cardinality(A)
          /\ Cardinality(ActiveOfKind(jobs, k)') \in Nat /\ Cardinality(A) \in Nat
      BY <3>1, <3>3, FS_Subset, FS_CardinalityType
    <3> QED BY <1>2, <2>3, <3>3, <3>4, ConstantsAssumption
  <2> QED BY <2>2, <2>3
<1>4. ASSUME NEW i \in Jobs, NEW m \in Jobs, i # m, jobs'[i].status \in Active,
             jobs'[m].status \in Active
      PROVE  jobs'[i].req.scope \cap jobs'[m].req.scope = {}
  <2>1. \A n \in Jobs \ {j} : jobs'[n].status \in Active =>
          /\ jobs[n].status \in Active /\ jobs'[n].req = jobs[n].req
          /\ jobs'[n].req.scope \cap q.scope = {}
    BY <1>2, ReapShrinks DEF ScopeFree
  <2>2. CASE i # j /\ m # j
    BY <1>4, <2>1, <2>2 DEF AdmissionInv
  <2>3. CASE i = j \/ m = j
    BY <1>2, <1>4, <2>1, <2>3
  <2> QED BY <2>2, <2>3
<1> QED BY <1>3, <1>4 DEF AdmissionInv

(* Every other step only takes jobs out of the active set.                  *)
LEMMA AdmissionStep ==
  ASSUME LedgerInv, AdmissionInv, [Next]_vars
  PROVE  AdmissionInv'
<1>1. CASE \E l \in Launchers : Reserve(l)
  BY <1>1, ReserveAdmission
<1>2. CASE ~\E l \in Launchers : Reserve(l)
  <2>1. ASSUME NEW j \in Jobs, jobs'[j].status \in Active
        PROVE  jobs[j].status \in Active /\ jobs'[j].req = jobs[j].req
    <3>1. CASE Next
      BY <1>2, <2>1, <3>1, OnlyReserveAdmits DEF Admitted
    <3>2. CASE UNCHANGED vars
      BY <2>1, <3>2 DEF vars
    <3> QED BY <3>1, <3>2
  <2>2. \A k \in Kinds : ActiveOfKind(jobs, k)' \subseteq ActiveOfKind(jobs, k)
    BY <2>1 DEF ActiveOfKind
  <2>3. \A k \in Kinds : Cardinality(ActiveOfKind(jobs, k)') <= Capacity[k]
    BY <2>2, FewerActive DEF AdmissionInv
  <2> QED BY <2>1, <2>3 DEF AdmissionInv
<1> QED BY <1>1, <1>2

(* The pool capacities and the disjoint scopes hold of the active jobs in    *)
(* every state, not only when a job is admitted.                            *)
THEOREM AdmissionInvariant == Spec => []AdmissionInv
<1>1. Init => AdmissionInv
  <2> SUFFICES ASSUME Init PROVE AdmissionInv
    OBVIOUS
  <2>1. \A j \in Jobs : jobs[j].status \notin Active
    BY StatusSets DEF Init, NoRecord
  <2>2. \A k \in Kinds : ActiveOfKind(jobs, k) = {}
    BY <2>1 DEF ActiveOfKind
  <2> QED BY <2>1, <2>2, FS_EmptySet, ConstantsAssumption DEF AdmissionInv
<1>2. LedgerInv /\ AdmissionInv /\ [Next]_vars => AdmissionInv'
  BY AdmissionStep
<1> QED BY <1>1, <1>2, LedgerInvariant, PTL DEF Spec

(* The provider processes really running never exceed a pool's capacity:    *)
(* ReleasedMeansGone ties the processes to the slots, AdmissionInv the slots *)
(* to the capacity.                                                         *)
THEOREM PoolCapacityRespected == Spec => []LiveWithinCapacity
<1>1. LedgerInv /\ AdmissionInv => LiveWithinCapacity
  <2> SUFFICES ASSUME LedgerInv, AdmissionInv, NEW k \in Kinds
               PROVE  Cardinality({j \in Jobs : Live(j) /\ jobs[j].req.kind = k}) <= Capacity[k]
    BY DEF LiveWithinCapacity
  <2>1. {j \in Jobs : Live(j) /\ jobs[j].req.kind = k} \subseteq ActiveOfKind(jobs, k)
    BY LiveIsActive DEF ActiveOfKind
  <2> QED BY <2>1, FewerActive DEF AdmissionInv
<1> QED BY <1>1, LedgerInvariant, AdmissionInvariant, PTL

(* Two running providers never share a mutation scope.                      *)
THEOREM WritersNeverOverlap == Spec => []LiveWritersDisjoint
<1>1. LedgerInv /\ AdmissionInv => LiveWritersDisjoint
  BY LiveIsActive DEF LiveWritersDisjoint, AdmissionInv
<1> QED BY <1>1, LedgerInvariant, AdmissionInvariant, PTL

(***************************************************************************)
(* WorkerLedger implements WorkerSlots: a reservation is an Acquire, a      *)
(* provider's start and end are StartWork and StopWork, and everything else *)
(* releases the jobs it settles.                                            *)
(***************************************************************************)

Scopes == {Request[l].scope : l \in Launchers}

(* The instance's cardinality is the ledger's.                              *)
LEMMA SlotsCardinality == \A A : Slots!Cardinality(A) = Cardinality(A)
BY DEF Slots!Cardinality, Cardinality

(* How a job's status and its lease correspond.                             *)
LEMMA LeaseStates ==
  ASSUME LedgerInv, NEW j \in Jobs
  PROVE  /\ jobs[j].status = "absent" => LeaseOf(j) = Slots!Unleased
         /\ jobs[j].status \in Active => /\ LeaseOf(j) \in Slots!Leases
                                         /\ LeaseOf(j).state = "held"
                                         /\ LeaseOf(j).kind = jobs[j].req.kind
                                         /\ LeaseOf(j).scope = jobs[j].req.scope
         /\ jobs[j].status \in Terminal => LeaseOf(j).state = "released"
         /\ jobs[j].status \in Active \cup Terminal \cup {"absent"}
         /\ LeaseOf(j).state = "held" <=> jobs[j].status \in Active
<1>1. jobs[j] \in JobRecord /\ (jobs[j].status # "absent" => jobs[j].req \in Requests)
  BY DEF LedgerInv, TypeOK, RecordInv
<1> QED BY <1>1, StatusSets DEF LeaseOf, LeaseState, Slots!Unleased, Slots!Leases, JobRecord, Requests

(* Which steps touch a provider group, and that they leave the ledger alone. *)
LEMMA ProviderSteps ==
  ASSUME LedgerInv, Next, prov' # prov
  PROVE  /\ jobs' = jobs
         /\ \E j \in Jobs : /\ \A i \in Jobs \ {j} : prov'[i] = prov[i]
                            /\ \/ sup[j] = "bound" /\ prov'[j] = "running"
                               \/ prov'[j] = prov[j] \/ prov'[j] \in Remains(j)
<1> USE DEF procVars, ledgerVars
<1>0. TypeOK
  BY DEF LedgerInv
<1>1. ASSUME NEW j \in Jobs, SupSpawn(j) \/ SupFinish(j) \/ ProviderFades(j)
      PROVE  /\ jobs' = jobs
             /\ \A i \in Jobs \ {j} : prov'[i] = prov[i]
             /\ \/ sup[j] = "bound" /\ prov'[j] = "running"
                \/ prov'[j] = prov[j] \/ prov'[j] \in Remains(j)
  BY <1>0, <1>1 DEF SupSpawn, SupFinish, ProviderFades, TypeOK
<1>2. ASSUME NEW c \in Cancellers, NEW j \in Jobs, j = cpc[c].job, CleanGroup(c)
      PROVE  /\ jobs' = jobs
             /\ \A i \in Jobs \ {j} : prov'[i] = prov[i]
             /\ prov'[j] = prov[j] \/ prov'[j] \in Remains(j)
  BY <1>0, <1>2 DEF CleanGroup, TypeOK
<1>3. \A c \in Cancellers : CleanGroup(c) => cpc[c].job \in Jobs
  BY DEF CleanGroup, LedgerInv, CancelInv
<1>4. \/ \E j \in Jobs : SupSpawn(j) \/ SupFinish(j) \/ ProviderFades(j)
      \/ \E c \in Cancellers : CleanGroup(c)
  <2>1. ASSUME NEW l \in Launchers, Launch(l) PROVE FALSE
    BY <2>1 DEF Launch, Reserve, ReserveAgain, Claim, StageTask, Popen, FailLaunch,
       RecordLaunch, WaitChild, TermChild, KillChild, CheckRefused, SettleRefused,
       SettleLaunchExit, LauncherExit
  <2>2. ASSUME NEW j \in Jobs, Supervise(j) PROVE SupSpawn(j) \/ SupFinish(j) \/ ProviderFades(j)
    BY <2>2 DEF Supervise, SupRejectTask, SupBind, SupSettleRejection, SupStartNothing,
       SupRecordCustody, SupPausePool, SupReport, SupCrash, InitWaits
  <2>3. ASSUME NEW c \in Cancellers, Cancel(c) PROVE CleanGroup(c)
    BY <2>3 DEF Cancel, Abandon, BeginStop, CancelUnclaimed, SignalSupervisor,
       IdentityMismatch, OrphanUnidentified, PollCancelled, SettleProvider, CancellerCrash
  <2>4. CASE Parent
    BY <2>4 DEF Parent, DrainBegin, DrainTerm, DrainWaitOver, DrainKill, DrainClose,
       DrainCrash, CloseSettled, Observe, PausePool, ResumePool
  <2> QED BY <2>1, <2>2, <2>3, <2>4 DEF Next
<1> QED BY <1>1, <1>2, <1>3, <1>4

(* A step that moves a provider starts or stops work on a held slot.        *)
LEMMA WorkStep ==
  ASSUME LedgerInv, Next, prov' # prov
  PROVE  [Slots!SlotsNext]_<<[j \in Jobs |-> LeaseOf(j)], [j \in Jobs |-> WorkOf(j)]>>
<1> DEFINE lease == [j \in Jobs |-> LeaseOf(j)]
           work == [j \in Jobs |-> WorkOf(j)]
<1>0. TypeOK
  BY DEF LedgerInv
<1>1. jobs' = jobs
  BY ProviderSteps
<1>2. PICK j \in Jobs : /\ \A i \in Jobs \ {j} : prov'[i] = prov[i]
                        /\ \/ sup[j] = "bound" /\ prov'[j] = "running"
                           \/ prov'[j] = prov[j] \/ prov'[j] \in Remains(j)
  BY ProviderSteps
<1>3. lease' = lease /\ \A i \in Jobs \ {j} : WorkOf(i)' = WorkOf(i)
  BY <1>1, <1>2 DEF LeaseOf, WorkOf
<1>4. CASE sup[j] = "bound" /\ prov'[j] = "running"
  <2>1. prov[j] = "none" /\ jobs[j].status # "absent" /\ jobs[j].status \notin Terminal
    BY <1>4 DEF LedgerInv, RecordInv, ProviderInv, ReleasedMeansGone, MaySpawn
  <2>2. LeaseOf(j).state = "held"
    BY <2>1, LeaseStates
  <2>3. WorkOf(j) = "none" /\ WorkOf(j)' = "live"
    BY <1>4, <2>1 DEF WorkOf, ProvLive
  <2>4. Slots!StartWork(j)
    BY <1>3, <2>2, <2>3 DEF Slots!StartWork
  <2> QED BY <2>4 DEF Slots!SlotsNext
<1>5. CASE prov'[j] = prov[j] \/ prov'[j] \in Remains(j)
  <2>1. /\ prov[j] = "none" <=> prov'[j] = "none"
        /\ prov[j] = "gone" => prov'[j] = "gone"
        /\ prov[j] \in ProvLive \cup {"none", "gone"}
        /\ prov'[j] \in ProvLive \cup {"none", "gone"}
    BY <1>0, <1>5, WhatRemains DEF TypeOK
  <2>2. WorkOf(j)' = WorkOf(j) \/ (WorkOf(j) = "live" /\ WorkOf(j)' = "over")
    BY <2>1 DEF WorkOf, ProvLive
  <2>3. CASE WorkOf(j)' = WorkOf(j)
    <3>1. work' = work
      BY <1>3, <2>3
    <3> QED BY <1>3, <3>1
  <2>4. CASE WorkOf(j) = "live" /\ WorkOf(j)' = "over"
    <3>1. Slots!StopWork(j)
      BY <1>3, <2>4 DEF Slots!StopWork
    <3> QED BY <3>1 DEF Slots!SlotsNext
  <2> QED BY <2>2, <2>3, <2>4
<1> QED BY <1>2, <1>4, <1>5

(* A reservation acquires a free lease that fits its pool and scope.        *)
LEMMA LeaseAcquired ==
  ASSUME LedgerInv, LedgerInv', NEW l \in Launchers, Reserve(l)
  PROVE  Slots!SlotsNext
<1> DEFINE lease == [i \in Jobs |-> LeaseOf(i)]
           work == [i \in Jobs |-> WorkOf(i)]
           q == Request[l]
           j == q.job
<1>0. TypeOK /\ (\A i \in Jobs : JobInv(i)) /\ j \in Jobs /\ q \in Requests
      /\ q.kind \in Kinds /\ q.scope \in Scopes
  BY InvParts, ConstantsAssumption DEF Requests, Scopes
<1>1. /\ jobs'[j].req = q /\ jobs'[j].status = "reserved"
      /\ \A i \in Jobs \ {j} : jobs'[i] = Reaped[i]
      /\ Reaped[j].status = "absent"
      /\ ScopeFree(Reaped, q.scope)
      /\ Cardinality(ActiveOfKind(Reaped, q.kind)) < Capacity[q.kind]
      /\ prov' = prov
  <2> DEFINE t == [NoRecord EXCEPT !.status = "reserved", !.req = q,
                                   !.attempt = Attempt(Reaped, q)]
  <2>1. Commit(j, t) /\ t \in JobRecord
    BY <1>0, ReservedRecord DEF Reserve
  <2>2. t.req = q /\ t.status = "reserved"
    BY DEF NoRecord
  <2> HIDE DEF t
  <2>3. jobs'[j] = t /\ \A i \in Jobs \ {j} : jobs'[i] = Reaped[i]
    BY <1>0, <2>1, CommittedJob
  <2> QED BY <2>2, <2>3 DEF Reserve, Admissible, procVars
<1>2. \A i \in Jobs : Reaped[i].status \in Active <=> jobs[i].status \in Active
  BY <1>0, ReapedKeeps, StatusSets
<1>3. \A i \in Jobs : Reaped[i].req = jobs[i].req
  BY <1>0, ReapedKeeps DEF SameCustody
<1>4. jobs[j].status = "absent"
  BY <1>0, <1>1, ReapedKeeps, StatusSets
<1>5. ASSUME NEW i \in Jobs \ {j} PROVE LeaseOf(i)' = LeaseOf(i)
  <2>1. \/ Reaped[i].status = jobs[i].status
        \/ Reaped[i].status \in Active /\ jobs[i].status \in Active
    BY <1>0, ReapedKeeps, StatusSets
  <2>2. jobs'[i].req = jobs[i].req
    BY <1>1, <1>3
  <2> QED BY <1>1, <2>1, <2>2, StatusSets DEF LeaseOf, LeaseState
<1>6. LeaseOf(j) = Slots!Unleased
      /\ LeaseOf(j)' = [state |-> "held", kind |-> q.kind, scope |-> q.scope]
  <2>1. LeaseOf(j) = Slots!Unleased
    BY <1>0, <1>4, LeaseStates
  <2>2. jobs'[j].status = "reserved" /\ jobs'[j].req = q
    BY <1>1
  <2>3. LeaseOf(j)' = [state |-> "held", kind |-> q.kind, scope |-> q.scope]
    BY <2>2, StatusSets DEF LeaseOf, LeaseState
  <2> QED BY <2>1, <2>3
<1>7. Slots!Held(q.kind) = ActiveOfKind(Reaped, q.kind)
  <2>1. \A i \in Jobs : LeaseOf(i).state = "held" /\ LeaseOf(i).kind = q.kind
                          <=> Reaped[i].status \in Active /\ Reaped[i].req.kind = q.kind
    BY <1>0, <1>2, <1>3, LeaseStates
  <2> QED BY <2>1 DEF Slots!Held, ActiveOfKind
<1>8. \A i \in Jobs : LeaseOf(i).state = "held" => LeaseOf(i).scope \cap q.scope = {}
  BY <1>1, <1>2, <1>3, LeaseStates DEF ScopeFree
<1>9. work' = work
  BY <1>1 DEF WorkOf
<1>10. lease' = [lease EXCEPT ![j] = [state |-> "held", kind |-> q.kind, scope |-> q.scope]]
  BY <1>0, <1>5, <1>6
<1>11. Slots!Acquire(j, q.kind, q.scope)
  BY <1>0, <1>1, <1>6, <1>7, <1>8, <1>9, <1>10, SlotsCardinality DEF Slots!Acquire
<1> QED BY <1>0, <1>11 DEF Slots!SlotsNext, Scopes

(* Any other step at most releases leases whose work is over.               *)
LEMMA LeaseReleased ==
  ASSUME LedgerInv, LedgerInv', \A j \in Jobs : Advances(j),
         ~\E l \in Launchers : Reserve(l), prov' = prov
  PROVE  Slots!SlotsNext
<1> DEFINE lease == [j \in Jobs |-> LeaseOf(j)]
           work == [j \in Jobs |-> WorkOf(j)]
           S == {j \in Jobs : jobs[j].status \in Active /\ jobs'[j].status \in Terminal}
<1>1. \A j \in Jobs : /\ jobs[j].status \in Active \cup Terminal \cup {"absent"}
                      /\ jobs'[j].status \in Active \cup Terminal \cup {"absent"}
  BY DEF LedgerInv, TypeOK, JobRecord
<1>2. ASSUME NEW j \in S
      PROVE  /\ lease[j].state = "held" /\ work[j] # "live"
             /\ LeaseOf(j)' = [LeaseOf(j) EXCEPT !.state = "released"]
  <2>1. jobs[j].status # "absent" /\ jobs'[j].status # "absent" /\ jobs'[j].req = jobs[j].req
        /\ jobs'[j].status \notin Active
    BY StatusSets DEF Advances
  <2>2. ~Live(j)
    BY DEF LedgerInv, ReleasedMeansGone, Live
  <2>3. /\ LeaseOf(j) = [state |-> "held", kind |-> jobs[j].req.kind,
                         scope |-> jobs[j].req.scope]
        /\ LeaseOf(j)' = [state |-> "released", kind |-> jobs[j].req.kind,
                          scope |-> jobs[j].req.scope]
    BY <2>1 DEF LeaseOf, LeaseState
  <2>4. lease[j].state = "held" /\ work[j] # "live"
    BY <2>2, <2>3 DEF WorkOf, Live, ProvLive
  <2> QED BY <2>3, <2>4
<1>3. ASSUME NEW j \in Jobs \ S PROVE LeaseOf(j)' = LeaseOf(j)
  <2>1. CASE jobs[j].status = "absent"
    BY <2>1 DEF Advances, Admitted, LeaseOf
  <2>2. CASE jobs[j].status # "absent"
    <3>1. jobs'[j].status # "absent" /\ jobs'[j].req = jobs[j].req
          /\ LeaseState(jobs'[j].status) = LeaseState(jobs[j].status)
      BY <1>1, <2>2, StatusSets DEF Advances, LeaseState
    <3> QED BY <2>2, <3>1 DEF LeaseOf
  <2> QED BY <2>1, <2>2
<1>4. work' = work
  BY DEF WorkOf
<1>5. lease' = [j \in Jobs |-> IF j \in S THEN [lease[j] EXCEPT !.state = "released"]
                               ELSE lease[j]]
  BY <1>2, <1>3
<1>6. Slots!Release(S)
  BY <1>2, <1>4, <1>5 DEF Slots!Release
<1> QED BY <1>6 DEF Slots!SlotsNext

(* The ledger keeps its promise.                                            *)
THEOREM LedgerImplementsSlots == Spec => ImplementsSlots
<1>1. Init => Slots!SlotsInit
  <2> SUFFICES ASSUME Init PROVE Slots!SlotsInit
    OBVIOUS
  <2>1. \A j \in Jobs : jobs[j].status = "absent" /\ prov[j] = "none"
    BY DEF Init, NoRecord
  <2>2. \A j \in Jobs : LeaseOf(j) = Slots!Unleased /\ WorkOf(j) = "none"
    <3> TAKE j \in Jobs
    <3>1. LeaseOf(j) = Slots!Unleased
      BY <2>1 DEF LeaseOf, Slots!Unleased
    <3>2. WorkOf(j) = "none"
      BY <2>1 DEF WorkOf, ProvLive
    <3> QED BY <3>1, <3>2
  <2> QED BY <2>2 DEF Slots!SlotsInit
<1>2. LedgerInv /\ [Next]_vars =>
        [Slots!SlotsNext]_<<[j \in Jobs |-> LeaseOf(j)], [j \in Jobs |-> WorkOf(j)]>>
  <2> SUFFICES ASSUME LedgerInv, [Next]_vars
      PROVE [Slots!SlotsNext]_<<[j \in Jobs |-> LeaseOf(j)], [j \in Jobs |-> WorkOf(j)]>>
    OBVIOUS
  <2>1. CASE UNCHANGED vars
    BY <2>1 DEF vars, LeaseOf, WorkOf
  <2>2. CASE Next
    <3>1. LedgerInv' /\ \A j \in Jobs : Advances(j)
      BY <2>2, NextKeeps
    <3>2. CASE prov' # prov
      BY <2>2, <3>2, WorkStep
    <3>3. CASE \E l \in Launchers : Reserve(l)
      BY <3>1, <3>3, LeaseAcquired
    <3>4. CASE prov' = prov /\ ~\E l \in Launchers : Reserve(l)
      BY <3>1, <3>4, LeaseReleased
    <3> QED BY <3>2, <3>3, <3>4
  <2> QED BY <2>1, <2>2
<1> QED BY <1>1, <1>2, LedgerInvariant, PTL DEF Spec, ImplementsSlots, Slots!SlotsSpec

(***************************************************************************)
(* Lineages: the checks of _recovery_lineage at admission hold ever after.  *)
(***************************************************************************)

(* A reservation of a task finds nothing of it, or its settled predecessor.  *)
LEMMA ReservedLineage ==
  ASSUME LedgerInv, NEW q \in Requests, Attempt(Reaped, q) # 0, ~Exists(q.job)
  PROVE  IF q.prev = NoJob THEN Lineage(q.task) = {}
         ELSE /\ q.prev \in Jobs \ {q.job} /\ Lineage(q.task) = {q.prev}
              /\ Reaped[q.prev].status \in Terminal
<1> DEFINE lineage == {j \in Jobs : Reaped[j].status # "absent" /\ Reaped[j].req.task = q.task}
           p == Reaped[q.prev]
<1>1. lineage = Lineage(q.task)
  <2>1. \A j \in Jobs : /\ Reaped[j].req = jobs[j].req
                        /\ Reaped[j].status # "absent" <=> jobs[j].status # "absent"
    BY InvParts, ReapedKeeps, StatusSets DEF SameCustody
  <2> QED BY <2>1 DEF Lineage, Exists
<1>2. Attempt(Reaped, q) =
        IF q.prev = NoJob THEN IF lineage = {} THEN 1 ELSE 0
        ELSE IF /\ q.prev # q.job /\ p.status \in Terminal /\ CleanupProven(p)
                /\ p.req.task = q.task /\ p.attempt < 2 /\ Cardinality(lineage) < 2
             THEN p.attempt + 1 ELSE 0
  BY DEF Attempt
<1>3. CASE q.prev = NoJob
  BY <1>1, <1>2, <1>3
<1>4. CASE q.prev # NoJob
  <2>1. /\ q.prev \in Jobs \ {q.job} /\ p.status \in Terminal /\ p.req.task = q.task
        /\ Cardinality(lineage) < 2
    BY <1>2, <1>4 DEF Requests
  <2>2. q.prev \in lineage /\ IsFiniteSet(lineage)
    BY <2>1, ConstantsAssumption, FS_Subset, StatusSets
  <2>3. ASSUME NEW i \in lineage PROVE i = q.prev
    <3> SUFFICES ASSUME i # q.prev PROVE FALSE
      OBVIOUS
    <3>1. {i, q.prev} \subseteq lineage
      BY <2>2
    <3>2. Cardinality({i, q.prev}) = 2
      <4>1. IsFiniteSet({q.prev}) /\ Cardinality({q.prev}) = 1 /\ i \notin {q.prev}
        BY FS_Singleton
      <4>2. Cardinality({q.prev} \cup {i}) = Cardinality({q.prev}) + 1
        BY <4>1, FS_AddElement
      <4>3. {q.prev} \cup {i} = {i, q.prev}
        OBVIOUS
      <4> QED BY <4>1, <4>2, <4>3
    <3>3. Cardinality({i, q.prev}) <= Cardinality(lineage) /\ Cardinality(lineage) \in Nat
      BY <2>2, <3>1, FS_Subset, FS_CardinalityType
    <3> QED BY <2>1, <3>2, <3>3
  <2>4. lineage = {q.prev}
    BY <2>2, <2>3
  <2> QED BY <1>1, <1>4, <2>1, <2>4
<1> QED BY <1>3, <1>4

(* A set of at most one job and one more has at most two.                    *)
LEMMA AtMostTwo ==
  ASSUME NEW x, NEW y, NEW A \in SUBSET {x, y}
  PROVE  Cardinality(A) <= 2
<1>1. IsFiniteSet({x}) /\ Cardinality({x}) = 1
  BY FS_Singleton
<1>2. {x} \cup {y} = {x, y}
  OBVIOUS
<1>3. IsFiniteSet({x, y}) /\ Cardinality({x, y}) <= 2
  <2>1. IsFiniteSet({x} \cup {y}) /\ Cardinality({x} \cup {y}) <= Cardinality({x}) + 1
    BY <1>1, OneMore
  <2>2. Cardinality({x} \cup {y}) <= 2
    BY <1>1, <2>1
  <2> QED BY <1>2, <2>1, <2>2, Zenon
<1>4. Cardinality(A) <= Cardinality({x, y}) /\ Cardinality(A) \in Nat /\ Cardinality({x, y}) \in Nat
  BY <1>3, FS_Subset, FS_CardinalityType
<1> QED BY <1>3, <1>4

(* The admission of a job leaves every lineage in order.                     *)
LEMMA ReserveLineage ==
  ASSUME LedgerInv, LineageInv, NEW l \in Launchers, Reserve(l)
  PROVE  LineageInv'
<1> DEFINE q == Request[l]
           j == JobOf(l)
<1>1. j \in Jobs /\ q \in Requests /\ q.job = j /\ TypeOK
  BY ReservedRecord DEF LedgerInv, JobOf
<1>2. /\ jobs'[j].req = q /\ jobs'[j].status = "reserved"
      /\ \A i \in Jobs \ {j} : jobs'[i] = Reaped[i]
      /\ Attempt(Reaped, q) # 0
  <2>1. Commit(j, [NoRecord EXCEPT !.status = "reserved", !.req = q,
                                   !.attempt = Attempt(Reaped, q)])
    BY <1>1 DEF Reserve
  <2>2. jobs'[j] = [NoRecord EXCEPT !.status = "reserved", !.req = q,
                                    !.attempt = Attempt(Reaped, q)]
        /\ \A i \in Jobs \ {j} : jobs'[i] = Reaped[i]
    BY <1>1, <2>1, ReservedRecord, CommittedJob
  <2>3. jobs'[j].req = q /\ jobs'[j].status = "reserved"
    BY <2>2 DEF NoRecord
  <2> QED BY <2>2, <2>3 DEF Reserve, Admissible
<1>3. ~Exists(j)
  BY <1>1, InvParts, ReapedKeeps, StatusSets DEF Reserve, Exists
<1>4. \A i \in Jobs \ {j} :
        /\ jobs'[i].req = jobs[i].req /\ (Exists(i)' <=> Exists(i))
        /\ jobs[i].status \in Terminal => jobs'[i].status \in Terminal
        /\ Reaped[i].status \in Terminal => jobs'[i].status \in Terminal
  BY <1>2, InvParts, ReapedKeeps, StatusSets DEF SameCustody, Exists
<1>5. Lineage(q.task)' = Lineage(q.task) \cup {j}
  BY <1>1, <1>2, <1>3, <1>4 DEF Lineage, Exists
<1>6. \A t : t # q.task => Lineage(t)' = Lineage(t)
  BY <1>1, <1>2, <1>3, <1>4 DEF Lineage, Exists
<1>7. IF q.prev = NoJob THEN Lineage(q.task) = {}
      ELSE /\ q.prev \in Jobs \ {j} /\ Lineage(q.task) = {q.prev}
           /\ jobs'[q.prev].status \in Terminal
  BY <1>1, <1>2, <1>3, <1>4, ReservedLineage
<1>8. ASSUME NEW k \in Jobs, Exists(k)',
             NEW t, t = jobs'[k].req.task
      PROVE  /\ Cardinality(Lineage(t)') <= 2
             /\ \A i \in Lineage(t)' \ {k} :
                  \/ jobs'[k].req.prev = i /\ jobs'[i].status \in Terminal
                  \/ jobs'[i].req.prev = k /\ jobs'[k].status \in Terminal
  <2>1. CASE t = q.task
    <3>1. Lineage(t)' \subseteq {j, q.prev}
      BY <1>5, <1>7, <2>1
    <3>2. k \in Lineage(t)'
      BY <1>8 DEF Lineage
    <3>3. Cardinality(Lineage(t)') <= 2
      BY <3>1, AtMostTwo
    <3>4. ASSUME NEW i \in Lineage(t)' \ {k}
          PROVE  \/ jobs'[k].req.prev = i /\ jobs'[i].status \in Terminal
                 \/ jobs'[i].req.prev = k /\ jobs'[k].status \in Terminal
      <4>1. {i, k} = {j, q.prev} /\ q.prev # NoJob /\ j # q.prev
        <5>1. i # k /\ i \in {j, q.prev} /\ k \in {j, q.prev}
          BY <3>1, <3>2, <3>4
        <5>2. q.prev # NoJob
          BY <1>5, <1>7, <2>1, <3>2, <3>4
        <5> QED BY <5>1, <5>2
      <4>2. jobs'[q.prev].status \in Terminal /\ jobs'[j].req.prev = q.prev
        BY <1>2, <1>7, <4>1
      <4> QED BY <4>1, <4>2
    <3> QED BY <3>3, <3>4
  <2>2. CASE t # q.task
    <3>1. k # j /\ Exists(k) /\ jobs[k].req.task = t /\ Lineage(t)' = Lineage(t) /\ j \notin Lineage(t)
      BY <1>2, <1>3, <1>4, <1>6, <1>8, <2>2 DEF Lineage
    <3>2. /\ Cardinality(Lineage(t)) <= 2
          /\ \A i \in Lineage(t) \ {k} :
               \/ jobs[k].req.prev = i /\ jobs[i].status \in Terminal
               \/ jobs[i].req.prev = k /\ jobs[k].status \in Terminal
      BY <3>1 DEF LineageInv
    <3> QED BY <1>4, <3>1, <3>2 DEF Lineage
  <2> QED BY <2>1, <2>2
<1> QED BY <1>8 DEF LineageInv

(* Every other step leaves the lineages and settles jobs for good.           *)
LEMMA LineageStep ==
  ASSUME LedgerInv, LineageInv, [Next]_vars
  PROVE  LineageInv'
<1>1. CASE \E l \in Launchers : Reserve(l)
  BY <1>1, ReserveLineage
<1>2. CASE ~\E l \in Launchers : Reserve(l)
  <2>1. ASSUME NEW i \in Jobs
        PROVE  /\ Exists(i)' <=> Exists(i)
               /\ Exists(i) => jobs'[i].req = jobs[i].req
               /\ jobs[i].status \in Terminal => jobs'[i].status \in Terminal
    <3>1. CASE Next
      BY <1>2, <3>1, NextKeeps DEF Advances, Admitted, Exists
    <3>2. CASE UNCHANGED vars
      BY <3>2 DEF vars, Exists
    <3> QED BY <3>1, <3>2
  <2>2. \A t : Lineage(t)' = Lineage(t)
    BY <2>1 DEF Lineage
  <2>3. ASSUME NEW k \in Jobs, Exists(k)', NEW t, t = jobs'[k].req.task
        PROVE  /\ Cardinality(Lineage(t)') <= 2
               /\ \A i \in Lineage(t)' \ {k} :
                    \/ jobs'[k].req.prev = i /\ jobs'[i].status \in Terminal
                    \/ jobs'[i].req.prev = k /\ jobs'[k].status \in Terminal
    <3>1. Exists(k) /\ jobs[k].req.task = t /\ Lineage(t)' = Lineage(t)
      BY <2>1, <2>2, <2>3
    <3>2. /\ Cardinality(Lineage(t)) <= 2
          /\ \A i \in Lineage(t) \ {k} :
               \/ jobs[k].req.prev = i /\ jobs[i].status \in Terminal
               \/ jobs[i].req.prev = k /\ jobs[k].status \in Terminal
      BY <3>1 DEF LineageInv
    <3>3. \A i \in Lineage(t) : i \in Jobs /\ Exists(i)
      BY DEF Lineage
    <3> QED BY <2>1, <3>1, <3>2, <3>3
  <2> QED BY <2>3 DEF LineageInv
<1> QED BY <1>1, <1>2

(* Of two attempts at a task the first is settled and nothing of it runs;    *)
(* there is no third.                                                       *)
THEOREM SuccessorsFollowSettled == Spec => []SuccessorAfterSettled
<1>1. Init => LineageInv
  BY DEF Init, LineageInv, Exists, NoRecord
<1>2. LedgerInv /\ LineageInv /\ [Next]_vars => LineageInv'
  BY LineageStep
<1>3. LedgerInv /\ LineageInv => SuccessorAfterSettled
  BY DEF LedgerInv, LineageInv, Lineage, SuccessorAfterSettled, ReleasedMeansGone
<1> QED BY <1>1, <1>2, <1>3, LedgerInvariant, PTL DEF Spec

(***************************************************************************)
(* Outcomes: what a step decides about a job where identity checks do not   *)
(* fail wrongly.                                                            *)
(***************************************************************************)

(* A cancel call writes the receipt of the job's provider cleanup.           *)
Reconciles(j) ==
  \E c \in Cancellers : SettleProvider(c) /\ cpc[c].at = "receipt" /\ cpc[c].job = j

(* Whom a step gives up has no supervisor at work; a stopped job settles as  *)
(* failed or cancelled, an orphaned one as cancelled by its receipt or, if   *)
(* no provider was started, by its own launch; a settled one stays.          *)
Decides(j) ==
  LET r == jobs[j] s == jobs'[j] IN
  /\ s.status = "orphaned" => sup'[j] \notin Working
  /\ r.status = "orphaned" =>
       \/ s.status = "orphaned"
       \/ s.status \in {"failed", "cancelled"} /\ prov[j] = "none"
       \/ s.status = "cancelled" /\ Reconciles(j)
  /\ sup'[j] \in Working => sup[j] \in Working \/ parent = "active"
  /\ r.status \in Terminal => s.status = r.status
  /\ r.status = "stopping" => s.status \in {"stopping", "orphaned", "failed", "cancelled"}
  /\ s.status \in Terminal /\ (r.status \in Terminal => CleanupProven(r)) =>
       CleanupProven(s) \/ (r.status # "orphaned" /\ Reconciles(j))

Calm(j) == sup'[j] \in Working => sup[j] \in Working

(* A job that keeps its status, or is reaped.                               *)
LEMMA QuietDecides ==
  ASSUME LedgerInv, OutcomeInv, NEW j \in Jobs, Calm(j),
         jobs'[j].status \in {jobs[j].status, Reaped[j].status},
         jobs'[j].status \in Terminal => jobs'[j] \in {jobs[j], Reaped[j]}
  PROVE  Decides(j)
<1>1. \/ Reaped[j] = jobs[j]
      \/ jobs[j].status \in Active /\ sup[j] = "gone" /\ Reaped[j].status = "orphaned"
  BY InvParts, ReapedKeeps
<1>2. jobs[j].status = "orphaned" => sup[j] \notin Working
  BY DEF OutcomeInv
<1>3. "gone" \notin Working
  BY DEF Working
<1>4. CASE Reaped[j] = jobs[j]
  BY <1>2, <1>4, StatusSets DEF Decides, Calm
<1>5. CASE jobs[j].status \in Active /\ sup[j] = "gone" /\ Reaped[j].status = "orphaned"
  BY <1>2, <1>3, <1>5, StatusSets DEF Decides, Calm
<1> QED BY <1>1, <1>4, <1>5

(* A job that moves on towards running, or is asked to stop.                *)
LEMMA OnwardDecides ==
  ASSUME NEW j \in Jobs, jobs[j].status \in Stoppable \cup {"absent"},
         jobs'[j].status \in Stoppable \cup {"stopping"}, Calm(j) \/ parent = "active"
  PROVE  Decides(j)
BY StatusSets DEF Decides, Calm

(* A job without a provider that is settled with proof.                     *)
LEMMA SettledDecides ==
  ASSUME NEW j \in Jobs, Calm(j), jobs[j].status \notin Terminal,
         jobs'[j].status \in {"failed", "cancelled"}, CleanupProven(jobs'[j]), prov[j] = "none"
  PROVE  Decides(j)
BY StatusSets DEF Decides, Calm

(* A step on one job, and a step that reads the ledger.                     *)
LEMMA OneDecides ==
  ASSUME LedgerInv, OutcomeInv, NEW j \in Jobs, Decides(j),
         \A i \in Jobs \ {j} : jobs'[i] \in {jobs[i], Reaped[i]} /\ Calm(i)
  PROVE  \A i \in Jobs : Decides(i)
BY QuietDecides

LEMMA AllQuiet ==
  ASSUME LedgerInv, OutcomeInv, jobs' = jobs \/ jobs' = Reaped, \A i \in Jobs : Calm(i)
  PROVE  \A i \in Jobs : Decides(i)
BY QuietDecides

(* A signal puts no supervisor to work.                                     *)
LEMMA SignalCalm ==
  ASSUME TypeOK, NEW j \in Jobs, Terminate(j) \/ Kill(j)
  PROVE  \A i \in Jobs : Calm(i)
BY DEF TypeOK, Terminate, Kill, Calm, Working

(* A proven update that does not complete a job settles it, or finds it so.  *)
LEMMA ProvenUpdate ==
  ASSUME NEW r \in JobRecord, NEW s \in {"failed", "cancelled"}
  PROVE  LET u == Updated(r, s, TRUE, "none") IN
         /\ r.status \in Terminal => u = r
         /\ r.status \notin Terminal => u.status \in {"failed", "cancelled"} /\ u.proven
<1>1. CASE r.status \in Terminal
  BY <1>1 DEF Updated
<1>2. CASE r.status \notin Terminal
  <2>1. PICK e \in {"failed", "cancelled"} :
          Updated(r, s, TRUE, "none") = [r EXCEPT !.status = e, !.proven = TRUE, !.result = r.result]
    BY <1>2 DEF Updated, Terminal
  <2> QED BY <1>2, <2>1 DEF JobRecord
<1> QED BY <1>1, <1>2

(* The two ways in which an unstarted job is settled.                       *)
LEMMA NeverStarted ==
  ASSUME LedgerInv, OutcomeInv, NEW j \in Jobs, Calm(j), prov[j] = "none",
         jobs[j].status # "absent",
         \/ \E s \in {"failed", "cancelled"} : jobs'[j] = Updated(Reaped[j], s, TRUE, "none")
         \/ /\ jobs[j].status \notin Terminal
            /\ \E s \in {"failed", "cancelled"} :
                 jobs'[j] = [Reaped[j] EXCEPT !.status = s, !.proven = TRUE]
  PROVE  Decides(j)
<1>1. /\ Reaped[j] \in JobRecord
      /\ \/ Reaped[j] = jobs[j]
         \/ jobs[j].status \in Active /\ Reaped[j].status = "orphaned"
  BY InvParts, ReapedKeeps
<1>2. jobs[j].status \in Terminal <=> Reaped[j].status \in Terminal
  BY <1>1, StatusSets
<1>3. CASE \E s \in {"failed", "cancelled"} : jobs'[j] = Updated(Reaped[j], s, TRUE, "none")
  <2>1. CASE Reaped[j].status \in Terminal
    BY <1>1, <1>3, <2>1, ProvenUpdate, QuietDecides
  <2>2. CASE Reaped[j].status \notin Terminal
    BY <1>1, <1>2, <1>3, <2>2, ProvenUpdate, SettledDecides DEF CleanupProven
  <2> QED BY <2>1, <2>2
<1>4. CASE /\ jobs[j].status \notin Terminal
           /\ \E s \in {"failed", "cancelled"} :
                jobs'[j] = [Reaped[j] EXCEPT !.status = s, !.proven = TRUE]
  <2>1. jobs'[j].status \in {"failed", "cancelled"} /\ jobs'[j].proven
    BY <1>1, <1>4 DEF JobRecord
  <2> QED BY <1>4, <2>1, SettledDecides DEF CleanupProven
<1> QED BY <1>3, <1>4

(* A launch call settles only jobs whose provider was never started.         *)
LEMMA LaunchDecides ==
  ASSUME LedgerInv, OutcomeInv, NEW l \in Launchers, Launch(l)
  PROVE  \A i \in Jobs : Decides(i)
<1> USE DEF procVars, ledgerVars
<1> DEFINE j == JobOf(l)
           R == Reaped[j]
<1>0. /\ TypeOK /\ j \in Jobs /\ R \in JobRecord /\ JobInv(j) /\ LauncherInv(l)
      /\ SameCustody(R, jobs[j])
      /\ R = jobs[j] \/ (jobs[j].status \in Active /\ R.status = "orphaned")
  BY InvParts, ReapedKeeps, ConstantsAssumption DEF JobOf, Requests
<1>1. \A r \in JobRecord : Commit(j, r) => jobs'[j] = r /\ \A i \in Jobs \ {j} : jobs'[i] = Reaped[i]
  BY <1>0, CommittedJob
<1>2. sup' = sup => \A i \in Jobs : Calm(i)
  BY DEF Calm
<1>3. ~jobs[j].bound => prov[j] = "none"
  BY <1>0 DEF JobInv, RecordInv
<1>4. ~jobs[j].pid => ~jobs[j].bound
  BY <1>0 DEF JobInv, RecordInv
<1>5. CASE Reserve(l)
  <2>1. PICK r \in JobRecord : Commit(j, r) /\ r.status = "reserved" /\ R.status = "absent"
    BY <1>0, <1>5, ReservedRecord DEF Reserve, JobOf, NoRecord
  <2>2. jobs[j].status = "absent" /\ jobs'[j].status = "reserved" /\ sup' = sup
    BY <1>0, <1>1, <1>5, <2>1, StatusSets DEF Reserve
  <2> QED BY <1>0, <1>1, <1>2, <2>1, <2>2, OnwardDecides, OneDecides, StatusSets
<1>6. CASE ReserveAgain(l) \/ CheckRefused(l) \/ LauncherExit(l)
  <2>1. (jobs' = jobs \/ jobs' = Reaped) /\ sup' = sup
    BY <1>6 DEF ReserveAgain, CheckRefused, LauncherExit
  <2> QED BY <1>2, <2>1, AllQuiet
<1>7. CASE Claim(l)
  <2>1. sup' = sup
    BY <1>7 DEF Claim
  <2>2. CASE R.status = "reserved"
    <3>1. Commit(j, [R EXCEPT !.status = "starting", !.claimed = TRUE])
      BY <1>7, <2>2 DEF Claim
    <3>0. LET t == [R EXCEPT !.status = "starting", !.claimed = TRUE]
          IN  t \in JobRecord /\ t.status = "starting"
      BY <1>0 DEF JobRecord, Active, Stoppable, Handoff
    <3>2. PICK r \in JobRecord : Commit(j, r) /\ r.status = "starting"
      BY <3>0, <3>1
    <3>3. jobs[j].status \in Stoppable /\ jobs'[j].status \in Stoppable
      BY <1>0, <1>1, <2>2, <3>2, StatusSets DEF Handoff
    <3> QED BY <1>0, <1>1, <1>2, <2>1, <3>2, <3>3, OnwardDecides, OneDecides
  <2>3. CASE R.status # "reserved"
    BY <1>2, <1>7, <2>1, <2>3, AllQuiet DEF Claim
  <2> QED BY <2>2, <2>3
<1>8. CASE StageTask(l)
  <2>1. sup' = sup
    BY <1>8 DEF StageTask
  <2>2. CASE R.status \in Active
    BY <1>2, <1>8, <2>1, <2>2, AllQuiet DEF StageTask
  <2>3. CASE R.status \notin Active
    <3>1. R.status \in Terminal
      BY <1>0, <1>8, <2>3, StatusSets
         DEF StageTask, LauncherInv, Owning, BeforePopen, JobInv, RecordInv, JobRecord
    <3>2. Commit(j, R)
      BY <1>0, <1>8, <2>3, <3>1, ProvenUpdate DEF StageTask
    <3>3. jobs'[j] = R
      BY <1>0, <1>1, <3>2
    <3>4. Decides(j)
      BY <1>0, <1>2, <2>1, <3>3, QuietDecides
    <3> QED BY <1>0, <1>1, <1>2, <2>1, <3>2, <3>4, OneDecides
  <2> QED BY <2>2, <2>3
<1>9. CASE Popen(l)
  <2>1. jobs' = jobs /\ \A i \in Jobs : Calm(i)
    BY <1>0, <1>9 DEF Popen, TypeOK, Calm, Working
  <2> QED BY <2>1, AllQuiet
<1>10. CASE FailLaunch(l)
  <2>1. sup' = sup
    BY <1>10 DEF FailLaunch
  <2>2. CASE R.pid \/ R.status \in Terminal
    BY <1>2, <1>10, <2>1, <2>2, AllQuiet DEF FailLaunch
  <2>3. CASE ~(R.pid \/ R.status \in Terminal)
    <3>1. PICK s \in {"failed", "cancelled"} : Commit(j, [R EXCEPT !.status = s, !.proven = TRUE])
      BY <1>10, <2>3 DEF FailLaunch
    <3>2. [R EXCEPT !.status = s, !.proven = TRUE] \in JobRecord
      BY <1>0, EndedRecord, StatusSets
    <3>3. prov[j] = "none" /\ jobs[j].status \notin Terminal /\ jobs[j].status # "absent"
      BY <1>0, <1>3, <1>4, <1>10, <2>3, StatusSets
         DEF SameCustody, FailLaunch, LauncherInv, Owning, BeforePopen, JobInv, RecordInv
    <3>4. Decides(j)
      BY <1>0, <1>1, <1>2, <2>1, <3>1, <3>2, <3>3, NeverStarted
    <3> QED BY <1>0, <1>1, <1>2, <2>1, <3>1, <3>2, <3>4, OneDecides
  <2> QED BY <2>2, <2>3
<1>11. CASE RecordLaunch(l)
  <2>1. sup' = sup
    BY <1>11 DEF RecordLaunch
  <2>2. CASE jobs' = Reaped
    BY <1>2, <2>1, <2>2, AllQuiet
  <2>3. CASE jobs' # Reaped
    <3>1. /\ Commit(j, [R EXCEPT !.status = "launched", !.pid = TRUE, !.bound = FALSE])
          /\ R.status = "starting"
      BY <1>11, <2>3 DEF RecordLaunch
    <3>0. LET t == [R EXCEPT !.status = "launched", !.pid = TRUE, !.bound = FALSE]
          IN  t \in JobRecord /\ t.status = "launched"
      BY <1>0 DEF JobRecord, Active, Stoppable, Handoff
    <3>2. PICK r \in JobRecord : Commit(j, r) /\ r.status = "launched"
      BY <3>0, <3>1
    <3>3. jobs[j].status \in Stoppable /\ jobs'[j].status \in Stoppable
      BY <1>0, <1>1, <3>1, <3>2, StatusSets DEF Handoff
    <3> QED BY <1>0, <1>1, <1>2, <2>1, <3>2, <3>3, OnwardDecides, OneDecides
  <2> QED BY <2>2, <2>3
<1>12. CASE WaitChild(l) \/ TermChild(l) \/ KillChild(l)
  <2>1. jobs' = jobs /\ \A i \in Jobs : Calm(i)
    <3>1. CASE WaitChild(l)
      BY <1>0, <3>1 DEF WaitChild, TypeOK, Calm, Working
    <3>2. CASE TermChild(l) \/ KillChild(l)
      BY <1>0, <3>2, SignalCalm DEF TermChild, KillChild
    <3> QED BY <1>12, <3>1, <3>2
  <2> QED BY <2>1, AllQuiet
<1>13. CASE SettleRefused(l)
  <2>1. PICK s \in {"failed", "cancelled"} : Commit(j, Updated(R, s, TRUE, "none"))
    BY <1>13 DEF SettleRefused
  <2>2. Updated(R, s, TRUE, "none") \in JobRecord
    BY <1>0, EndedUpdate, StatusSets
  <2>3. prov[j] = "none" /\ sup' = sup /\ jobs[j].status # "absent"
    BY <1>0, <1>3, <1>4, <1>13
       DEF SettleRefused, LauncherInv, Owning, AfterPopen, JobInv, RecordInv
  <2>4. Decides(j)
    BY <1>0, <1>1, <1>2, <2>1, <2>2, <2>3, NeverStarted
  <2> QED BY <1>0, <1>1, <1>2, <2>1, <2>2, <2>3, <2>4, OneDecides
<1>14. CASE SettleLaunchExit(l)
  <2>1. sup' = sup
    BY <1>14 DEF SettleLaunchExit
  <2>2. CASE jobs' = Reaped
    BY <1>2, <2>1, <2>2, AllQuiet
  <2>3. CASE jobs' # Reaped
    <3>1. /\ R.pid /\ ~R.bound /\ R.status \in {"launched", "stopping", "orphaned"}
          /\ \E s \in {"failed", "cancelled"} : Commit(j, [R EXCEPT !.status = s, !.proven = TRUE])
      BY <1>14, <2>3 DEF SettleLaunchExit
    <3>2. PICK s \in {"failed", "cancelled"} : Commit(j, [R EXCEPT !.status = s, !.proven = TRUE])
      BY <3>1
    <3>3. [R EXCEPT !.status = s, !.proven = TRUE] \in JobRecord
      BY <1>0, EndedRecord, StatusSets
    <3>4. prov[j] = "none" /\ jobs[j].status \notin Terminal /\ jobs[j].status # "absent"
      BY <1>0, <1>3, <3>1, StatusSets DEF SameCustody, Terminal
    <3>5. Decides(j)
      BY <1>0, <1>1, <1>2, <2>1, <3>2, <3>3, <3>4, NeverStarted
    <3> QED BY <1>0, <1>1, <1>2, <2>1, <3>2, <3>3, <3>5, OneDecides
  <2> QED BY <2>2, <2>3
<1> QED BY <1>5, <1>6, <1>7, <1>8, <1>9, <1>10, <1>11, <1>12, <1>13, <1>14 DEF Launch

(* A supervisor binds only while the parent is active, settles only its own  *)
(* unstarted job, and reports only a job that nobody gave up.                *)
LEMMA SuperviseDecides ==
  ASSUME LedgerInv, OutcomeInv, NEW j \in Jobs, Supervise(j)
  PROVE  \A i \in Jobs : Decides(i)
<1> USE DEF procVars, ledgerVars, MoveSup
<1> DEFINE R == Reaped[j]
<1>0. /\ TypeOK /\ R \in JobRecord /\ JobInv(j)
      /\ SameCustody(R, jobs[j])
      /\ R = jobs[j] \/ (/\ jobs[j].status \in Active /\ sup[j] = "gone"
                         /\ R.status = "orphaned")
  BY InvParts, ReapedKeeps
<1>1. \A r \in JobRecord : Commit(j, r) => jobs'[j] = r /\ \A i \in Jobs \ {j} : jobs'[i] = Reaped[i]
  BY <1>0, CommittedJob
<1>2. (\A i \in Jobs \ {j} : sup'[i] = sup[i]) => \A i \in Jobs \ {j} : Calm(i)
  BY DEF Calm
<1>3. CASE SupBind(j)
  <2>1. /\ \A i \in Jobs \ {j} : sup'[i] = sup[i]
        /\ sup'[j] = "refused" \/ parent = "active"
    BY <1>0, <1>3 DEF SupBind, TypeOK
  <2>2. CASE jobs' = Reaped /\ sup'[j] = "refused"
    BY <1>2, <2>1, <2>2, AllQuiet DEF Calm, Working
  <2>3. CASE ~(jobs' = Reaped /\ sup'[j] = "refused")
    <3>1. /\ Commit(j, [R EXCEPT !.status = "running", !.pid = TRUE, !.bound = TRUE])
          /\ R.status \in {"starting", "launched", "running"} /\ parent = "active"
      BY <1>0, <1>3, <2>3 DEF SupBind, TypeOK
    <3>2. LET t == [R EXCEPT !.status = "running", !.pid = TRUE, !.bound = TRUE]
          IN  t \in JobRecord /\ t.status = "running"
      BY <1>0 DEF JobRecord, Active, Stoppable
    <3>3. PICK r \in JobRecord : Commit(j, r) /\ r.status = "running"
      BY <3>1, <3>2
    <3>4. jobs[j].status \in Stoppable /\ jobs'[j].status \in Stoppable
      BY <1>0, <1>1, <3>1, <3>3 DEF Stoppable, Handoff
    <3> QED BY <1>0, <1>1, <1>2, <2>1, <3>1, <3>3, <3>4, OnwardDecides, OneDecides
  <2> QED BY <2>2, <2>3
<1>4. CASE SupSettleRejection(j)
  <2>1. Calm(j) /\ \A i \in Jobs \ {j} : Calm(i)
    BY <1>0, <1>2, <1>4 DEF SupSettleRejection, TypeOK, Calm, Working
  <2>2. CASE jobs' = Reaped
    BY <2>1, <2>2, AllQuiet
  <2>3. CASE jobs' # Reaped
    <3>1. /\ ~R.bound /\ R.status \in {"launched", "stopping", "orphaned"}
          /\ \E s \in {"failed", "cancelled"} : Commit(j, [R EXCEPT !.status = s, !.proven = TRUE])
      BY <1>4, <2>3 DEF SupSettleRejection
    <3>2. PICK s \in {"failed", "cancelled"} : Commit(j, [R EXCEPT !.status = s, !.proven = TRUE])
      BY <3>1
    <3>3. [R EXCEPT !.status = s, !.proven = TRUE] \in JobRecord
      BY <1>0, EndedRecord, StatusSets
    <3>4. prov[j] = "none" /\ jobs[j].status \notin Terminal /\ jobs[j].status # "absent"
      BY <1>0, <3>1, StatusSets DEF SameCustody, Terminal, JobInv, RecordInv
    <3>5. Decides(j)
      BY <1>0, <1>1, <2>1, <3>2, <3>3, <3>4, NeverStarted
    <3> QED BY <1>0, <1>1, <2>1, <3>2, <3>3, <3>5, OneDecides
  <2> QED BY <2>2, <2>3
<1>5. CASE SupReport(j)
  <2> DEFINE b == verdict[j].proven
             s == verdict[j].status
             u == Updated(R, s, b, IF b THEN "proven" ELSE "unproven")
             w == [u EXCEPT !.group = "seen"]
  <2>1. b \in BOOLEAN /\ s \in Terminal
    BY <1>0 DEF TypeOK
  <2>2. /\ sup[j] = "settling" /\ R = jobs[j]
        /\ jobs[j].status # "orphaned"
        /\ Calm(j) /\ \A i \in Jobs \ {j} : Calm(i)
    BY <1>0, <1>2, <1>5 DEF SupReport, TypeOK, Calm, Working, OutcomeInv
  <2>3. /\ u \in JobRecord
        /\ R.status \in Terminal => u = R
        /\ R.status \notin Terminal =>
             /\ u.status \in Terminal \cup {"orphaned"} /\ u.proven = b
             /\ u.status \in Terminal => b = TRUE
    <3> DEFINE e == IF b THEN "proven" ELSE "unproven"
    <3>1. R \in JobRecord /\ e \in {"none", "unproven", "proven"}
          /\ s \in Terminal \cup {"orphaned"}
      BY <1>0, <2>1
    <3>2. u = Updated(R, s, b, e)
      OBVIOUS
    <3> HIDE DEF R, u, s, b, e
    <3>3. Updated(R, s, b, e) \in JobRecord
      BY <2>1, <3>1, UpdatedRecord
    <3>4. R.status \in Terminal => Updated(R, s, b, e) = R
      BY <2>1, <3>1, UpdatedRecord
    <3>5. ASSUME R.status \notin Terminal
          PROVE  /\ Updated(R, s, b, e).status \in Terminal \cup {"orphaned"}
                 /\ Updated(R, s, b, e).proven = b
                 /\ Updated(R, s, b, e).status \in Terminal => b = TRUE
      <4>1. Updated(R, s, b, e).status \in Terminal \cup {"orphaned"}
        BY <2>1, <3>1, <3>5, UpdatedRecord
      <4>2. Updated(R, s, b, e).proven = b
        BY <2>1, <3>1, <3>5, UpdatedRecord
      <4>3. Updated(R, s, b, e).status \in Terminal => b = TRUE
        BY <2>1, <3>1, <3>5 DEF Updated, JobRecord, Terminal
      <4> QED BY <4>1, <4>2, <4>3
    <3> QED BY <3>2, <3>3, <3>4, <3>5
  <2>4. R.status = "stopping" => u.status \in {"cancelled", "orphaned"}
    BY <1>0, <2>1 DEF Updated, JobRecord, Terminal
  <2> HIDE DEF u, s, b
  <2>5. w \in JobRecord /\ w.status = u.status /\ w.proven = u.proven
    BY <2>3 DEF JobRecord, GroupEvidence
  <2> HIDE DEF w
  <2>6. PICK t \in {u, w} : Commit(j, t) /\ (R.status \in Terminal => t = R)
    BY <1>5, <2>3 DEF SupReport, u, w, s, b
  <2>7. jobs'[j] = t /\ \A i \in Jobs \ {j} : jobs'[i] = Reaped[i]
    BY <1>1, <2>3, <2>5, <2>6
  <2>8. CASE R.status \in Terminal
    <3>1. Decides(j)
      BY <2>2, <2>6, <2>7, <2>8, QuietDecides
    <3> QED BY <2>2, <2>7, <3>1, OneDecides
  <2>9. CASE R.status \notin Terminal
    <3>1. /\ t.status \in Terminal \cup {"orphaned"}
          /\ R.status = "stopping" => t.status \in {"cancelled", "orphaned"}
          /\ t.status \in Terminal => CleanupProven(t)
      BY <2>3, <2>4, <2>5, <2>6, <2>9 DEF CleanupProven
    <3>2. sup'[j] \notin Working
      BY <1>0, <1>5 DEF SupReport, TypeOK, Working
    <3>3. Decides(j)
      BY <2>2, <2>7, <2>9, <3>1, <3>2 DEF Decides
    <3> QED BY <2>2, <2>7, <3>3, OneDecides
  <2> QED BY <2>8, <2>9
<1>6. CASE SupRecordCustody(j)
  <2>1. /\ sup[j] = "spawned" /\ R = jobs[j]
        /\ Calm(j) /\ \A i \in Jobs \ {j} : Calm(i)
    BY <1>0, <1>2, <1>6 DEF SupRecordCustody, TypeOK, Calm, Working
  <2>2. CASE jobs' = Reaped
    BY <2>1, <2>2, AllQuiet
  <2>3. CASE jobs' # Reaped
    <3>1. Commit(j, [R EXCEPT !.group = "full"]) /\ R.status \in Active
      BY <1>6, <2>3 DEF SupRecordCustody
    <3>2. LET t == [R EXCEPT !.group = "full"] IN t \in JobRecord /\ t.status = R.status
      BY <1>0 DEF JobRecord, GroupEvidence
    <3>3. PICK r \in JobRecord : Commit(j, r) /\ r.status = R.status
      BY <3>1, <3>2
    <3>4. Decides(j)
      BY <1>1, <2>1, <3>1, <3>3, QuietDecides, StatusSets
    <3> QED BY <1>1, <2>1, <3>3, <3>4, OneDecides
  <2> QED BY <2>2, <2>3
<1>7. CASE SupPausePool(j)
  BY <1>7, AllQuiet DEF SupPausePool, Calm
<1>8. CASE SupRejectTask(j) \/ SupStartNothing(j) \/ SupSpawn(j) \/ SupFinish(j) \/ SupCrash(j)
           \/ InitWaits(j) \/ ProviderFades(j)
  <2>1. jobs' = jobs
    BY <1>8 DEF SupRejectTask, SupStartNothing, SupSpawn, SupFinish, SupCrash, InitWaits, ProviderFades
  <2>2. \A i \in Jobs : Calm(i)
    <3>1. CASE SupRejectTask(j) \/ SupStartNothing(j) \/ SupSpawn(j)
      BY <1>0, <3>1 DEF SupRejectTask, SupStartNothing, SupSpawn, TypeOK, Calm, Working
    <3>2. CASE SupFinish(j) \/ InitWaits(j)
      BY <1>0, <3>2 DEF SupFinish, InitWaits, TypeOK, Calm, Working
    <3>3. CASE SupCrash(j) \/ ProviderFades(j)
      BY <1>0, <3>3, SignalCalm DEF SupCrash, ProviderFades, Calm
    <3> QED BY <1>8, <3>1, <3>2, <3>3
  <2> QED BY <2>1, <2>2, AllQuiet
<1> QED BY <1>3, <1>4, <1>5, <1>6, <1>7, <1>8 DEF Supervise

(* A cancel call stops whom it asked, settles a reservation nobody claimed,  *)
(* gives up whom it found gone, and reconciles only what was given up.       *)
LEMMA CancelDecides ==
  ASSUME LedgerInv, OutcomeInv, NEW c \in Cancellers, Cancel(c)
  PROVE  \A i \in Jobs : Decides(i)
<1> USE DEF procVars, ledgerVars
<1>0. /\ TypeOK /\ CancelInv(c) /\ GivenUpInv(c) /\ \A i \in Jobs : JobInv(i)
  BY InvParts DEF OutcomeInv
<1>1. sup' = sup => \A i \in Jobs : Calm(i)
  BY DEF Calm
<1>2. ASSUME NEW j \in Jobs, NEW r \in JobRecord, Commit(j, r)
      PROVE  jobs'[j] = r /\ \A i \in Jobs \ {j} : jobs'[i] = Reaped[i]
  BY <1>0, <1>2, CommittedJob
<1>3. ASSUME NEW j \in Jobs, Abandon(c, j) \/ BeginStop(c, j)
      PROVE  \A i \in Jobs : Decides(i)
  <2> DEFINE R == Reaped[j]
  <2>1. /\ Commit(j, Stopping(R)) /\ sup' = sup
        /\ R \in JobRecord /\ Stopping(R) \in JobRecord
        /\ R = jobs[j] \/ (jobs[j].status \in Active /\ R.status = "orphaned")
    BY <1>0, <1>3, ReapedKeeps, StoppingRecord DEF Abandon, BeginStop
  <2>2. jobs'[j] = Stopping(R) /\ \A i \in Jobs \ {j} : jobs'[i] = Reaped[i]
    BY <1>2, <2>1
  <2>3. CASE R.status \in Stoppable
    <3>1. jobs[j].status \in Stoppable /\ jobs'[j].status = "stopping"
      BY <2>1, <2>2, <2>3, StoppingRecord, StatusSets
    <3> QED BY <1>1, <2>1, <2>2, <3>1, OnwardDecides, OneDecides
  <2>4. CASE R.status \notin Stoppable
    <3>1. jobs'[j] = R
      BY <2>1, <2>2, <2>4, StoppingRecord
    <3>2. Decides(j)
      BY <1>1, <2>1, <3>1, QuietDecides
    <3> QED BY <1>1, <2>1, <2>2, <3>2, OneDecides
  <2> QED BY <2>3, <2>4
<1>4. CASE CancelUnclaimed(c)
  <2>1. PICK j \in Jobs : j = cpc[c].job
    BY <1>0, <1>4 DEF CancelUnclaimed, CancelInv
  <2>2. /\ Commit(j, Updated(Reaped[j], "cancelled", TRUE, "none")) /\ sup' = sup
        /\ Updated(Reaped[j], "cancelled", TRUE, "none") \in JobRecord
    BY <1>0, <1>4, <2>1, ReapedKeeps, EndedUpdate, StatusSets DEF CancelUnclaimed
  <2>3. prov[j] = "none" /\ jobs[j].status # "absent"
    BY <1>0, <1>4, <2>1 DEF CancelUnclaimed, CancelInv, JobInv, RecordInv
  <2>4. Decides(j)
    BY <1>1, <1>2, <2>2, <2>3, NeverStarted
  <2> QED BY <1>1, <1>2, <2>2, <2>4, OneDecides
<1>5. CASE OrphanUnidentified(c)
  <2>1. PICK j \in Jobs : j = cpc[c].job
    BY <1>0, <1>5 DEF OrphanUnidentified, CancelInv
  <2> DEFINE u == Updated(Reaped[j], "orphaned", FALSE, "none")
  <2>2. /\ Reaped[j] \in JobRecord /\ jobs[j].status # "absent" /\ sup[j] = "gone"
        /\ Reaped[j] = jobs[j] \/ (jobs[j].status \in Active /\ Reaped[j].status = "orphaned")
    BY <1>0, <1>5, <2>1, ReapedKeeps DEF OrphanUnidentified, CancelInv, GivenUpInv
  <2>3. /\ Commit(j, u) /\ sup' = sup /\ u \in JobRecord
        /\ Reaped[j].status \in Terminal => u = Reaped[j]
        /\ Reaped[j].status \notin Terminal => u.status = "orphaned"
    BY <1>5, <2>1, <2>2, OrphanUpdate, StatusSets DEF OrphanUnidentified
  <2>4. jobs'[j] = u
    BY <1>2, <2>3
  <2> HIDE DEF u
  <2>5. CASE Reaped[j].status \in Terminal
    <3>1. Decides(j)
      BY <1>1, <2>3, <2>4, <2>5, QuietDecides
    <3> QED BY <1>1, <1>2, <2>3, <3>1, OneDecides
  <2>6. CASE Reaped[j].status \notin Terminal
    <3>1. jobs'[j].status = "orphaned" /\ jobs[j].status \notin Terminal /\ sup'[j] \notin Working
      BY <2>2, <2>3, <2>4, <2>6, StatusSets DEF Working
    <3>2. Decides(j)
      BY <3>1, StatusSets DEF Decides
    <3> QED BY <1>1, <1>2, <2>3, <3>2, OneDecides
  <2> QED BY <2>5, <2>6
<1>6. CASE SettleProvider(c)
  <2>1. PICK j \in Jobs : j = cpc[c].job
    BY <1>0, <1>6 DEF SettleProvider, CancelInv
  <2> DEFINE R == Reaped[j]
             p == [R EXCEPT !.status = "cancelled", !.proven = TRUE,
                            !.result = IF @ = "none" THEN @ ELSE "proven"]
             o == [R EXCEPT !.status = IF @ \in Active THEN "orphaned" ELSE @,
                            !.proven = FALSE]
             t == IF cpc[c].proven THEN p ELSE o
  <2>2. /\ R \in JobRecord /\ jobs[j].status \in {"orphaned", "cancelled"}
        /\ R = jobs[j] \/ R.status = "orphaned"
        /\ Reconciles(j) /\ sup' = sup
    BY <1>0, <1>6, <2>1, ReapedKeeps DEF SettleProvider, GivenUpInv, Reconciles
  <2>3. R.status = jobs[j].status
    BY <1>0, <2>2, ReapedKeeps, StatusSets
  <2>4. p \in JobRecord /\ p.status = "cancelled" /\ CleanupProven(p)
    BY <2>2 DEF JobRecord, Terminal, CleanupProven
  <2>5. o \in JobRecord /\ o.status = R.status
    <3>1. R.status \in Active => R.status = "orphaned"
      BY <2>2, <2>3, StatusSets
    <3>2. o = [R EXCEPT !.status = R.status, !.proven = FALSE]
      BY <3>1
    <3>3. R.status \in Active \cup Terminal
      BY <2>2 DEF JobRecord, Active, Terminal
    <3> QED BY <2>2, <3>2, <3>3 DEF JobRecord
  <2> HIDE DEF p, o
  <2>6. Commit(j, t) /\ t \in JobRecord
    BY <1>6, <2>1, <2>4, <2>5 DEF SettleProvider, p, o
  <2> HIDE DEF t
  <2>7. jobs'[j] = t
    BY <1>2, <2>6
  <2>8. /\ jobs'[j].status = "cancelled" \/ jobs'[j].status = jobs[j].status
        /\ jobs[j].status = "orphaned" /\ jobs'[j].status = "cancelled" => CleanupProven(jobs'[j])
    BY <2>2, <2>3, <2>4, <2>5, <2>7 DEF t
  <2>9. jobs[j].status = "orphaned" => sup[j] \notin Working
    BY DEF OutcomeInv
  <2>10. Decides(j)
    BY <2>2, <2>8, <2>9, StatusSets DEF Decides
  <2> QED BY <1>1, <1>2, <2>2, <2>6, <2>10, OneDecides
<1>7. CASE SignalSupervisor(c)
  <2>1. jobs' = jobs /\ \A i \in Jobs : Calm(i)
    BY <1>0, <1>7, SignalCalm DEF SignalSupervisor, CancelInv
  <2> QED BY <2>1, AllQuiet
<1>8. CASE IdentityMismatch(c) \/ PollCancelled(c) \/ CleanGroup(c) \/ CancellerCrash(c)
  BY <1>1, <1>8, AllQuiet DEF IdentityMismatch, PollCancelled, CleanGroup, CancellerCrash
<1> QED BY <1>3, <1>4, <1>5, <1>6, <1>7, <1>8 DEF Cancel

(* The drain stops whom it finds and gives up only whom it has killed.       *)
LEMMA ParentDecides ==
  ASSUME LedgerInv, OutcomeInv, Parent
  PROVE  \A i \in Jobs : Decides(i)
<1> USE DEF procVars, ledgerVars
<1>0. TypeOK /\ \A i \in Jobs : JobInv(i)
  BY InvParts
<1>1. sup' = sup => \A i \in Jobs : Calm(i)
  BY DEF Calm
<1>2. \A i \in Jobs :
        /\ Reaped[i] \in JobRecord /\ SameCustody(Reaped[i], jobs[i])
        /\ Reaped[i] = jobs[i] \/ (jobs[i].status \in Active /\ Reaped[i].status = "orphaned")
  BY <1>0, ReapedKeeps
<1>3. ASSUME NEW i \in Jobs, Reaped[i].status \in Active, Unclaimed(Reaped[i]), Calm(i),
             jobs'[i] = [Reaped[i] EXCEPT !.status = "cancelled", !.proven = TRUE]
      PROVE  Decides(i)
  <2>1. prov[i] = "none" /\ jobs[i].status \notin Terminal /\ jobs[i].status # "absent"
    BY <1>0, <1>2, <1>3, StatusSets DEF Unclaimed, SameCustody, JobInv, RecordInv
  <2> QED BY <1>3, <2>1, NeverStarted
<1>4. CASE DrainBegin
  <2> TAKE i \in Jobs
  <2> DEFINE R == Reaped[i]
  <2>1. /\ Calm(i)
        /\ jobs'[i] = IF R.status \notin Active THEN R
                      ELSE IF Unclaimed(R) THEN [R EXCEPT !.status = "cancelled", !.proven = TRUE]
                      ELSE Stopping(R)
    BY <1>1, <1>4 DEF DrainBegin
  <2>2. CASE R.status \notin Active
    BY <2>1, <2>2, QuietDecides
  <2>3. CASE R.status \in Active /\ Unclaimed(R)
    BY <1>3, <2>1, <2>3
  <2>4. CASE R.status \in Stoppable /\ ~Unclaimed(R)
    <3>1. jobs[i].status \in Stoppable /\ jobs'[i].status = "stopping"
      BY <1>2, <2>1, <2>4, StoppingRecord, StatusSets
    <3> QED BY <2>1, <3>1, OnwardDecides
  <2>5. CASE R.status \in Active \ Stoppable /\ ~Unclaimed(R)
    <3>1. jobs'[i] = R
      BY <1>2, <2>1, <2>5, StoppingRecord
    <3> QED BY <2>1, <3>1, QuietDecides
  <2> QED BY <2>2, <2>3, <2>4, <2>5
<1>5. CASE DrainClose
  <2> TAKE i \in Jobs
  <2> DEFINE R == Reaped[i]
  <2>1. /\ Calm(i) /\ sup'[i] = sup[i]
        /\ jobs'[i] = IF R.status \notin Active THEN R
                      ELSE IF Unclaimed(R) THEN [R EXCEPT !.status = "cancelled", !.proven = TRUE]
                      ELSE [R EXCEPT !.status = "orphaned", !.proven = FALSE]
    BY <1>1, <1>5 DEF DrainClose
  <2>2. CASE R.status \notin Active
    BY <2>1, <2>2, QuietDecides
  <2>3. CASE R.status \in Active /\ Unclaimed(R)
    BY <1>3, <2>1, <2>3
  <2>4. CASE R.status \in Active /\ ~Unclaimed(R)
    <3>1. jobs'[i].status = "orphaned" /\ jobs[i].status \notin Terminal
      <4>1. jobs'[i] = [R EXCEPT !.status = "orphaned", !.proven = FALSE]
        BY <2>1, <2>4
      <4>2. R \in JobRecord /\ "orphaned" \in Active \cup Terminal
        BY <1>2, StatusSets
      <4>3. jobs'[i].status = "orphaned"
        BY <4>1, <4>2 DEF JobRecord
      <4> QED BY <1>2, <2>4, <4>3, StatusSets
    <3>2. jobs[i].status \in Active
      BY <1>2, <2>4
    <3>3. sup[i] \notin Working
      BY <1>5, <3>2 DEF DrainClose, OutcomeInv, DrainInv, AtWork
    <3> QED BY <2>1, <3>1, <3>3, StatusSets DEF Decides
  <2> QED BY <2>2, <2>3, <2>4
<1>6. ASSUME NEW j \in Jobs, DrainTerm(j) \/ DrainKill(j) PROVE \A i \in Jobs : Decides(i)
  <2>1. (jobs' = jobs \/ jobs' = Reaped) /\ \A i \in Jobs : Calm(i)
    BY <1>0, <1>1, <1>6, SignalCalm DEF DrainTerm, DrainKill
  <2> QED BY <2>1, AllQuiet
<1>7. CASE \/ DrainWaitOver \/ DrainCrash \/ CloseSettled \/ Observe
           \/ \E k \in Kinds : PausePool(k) \/ ResumePool(k)
  BY <1>1, <1>7, AllQuiet DEF DrainWaitOver, DrainCrash, CloseSettled, Observe, PausePool, ResumePool
<1> QED BY <1>4, <1>5, <1>6, <1>7 DEF Parent

(* What any step decides, for every job.                                    *)
LEMMA NextDecides ==
  ASSUME LedgerInv, OutcomeInv, [Next]_vars
  PROVE  \A i \in Jobs : Decides(i)
<1>1. CASE Next
  BY <1>1, LaunchDecides, SuperviseDecides, CancelDecides, ParentDecides DEF Next
<1>2. CASE UNCHANGED vars
  BY <1>2, AllQuiet DEF vars, Calm
<1> QED BY <1>1, <1>2

(* A cancel call that does not move still holds what it gave up.            *)
LEMMA OtherGivenUp ==
  ASSUME LedgerInv, NEW c \in Cancellers, GivenUpInv(c), cpc'[c] = cpc[c],
         \A j \in Jobs : Advances(j) /\ Decides(j)
  PROVE  GivenUpInv(c)'
<1> DEFINE j == cpc[c].job
<1>1. cpc[c].at # "idle" => j \in Jobs
  BY InvParts DEF CancelInv
<1>2. (cpc[c].at = "identify" => jobs[j].pid)' /\ (cpc[c].at = "mismatch" => sup[j] = "gone")'
  BY <1>1 DEF GivenUpInv, Advances
<1>3. (cpc[c].at \in {"cleanup", "receipt"} => jobs[j].status \in {"orphaned", "cancelled"})'
  <2> SUFFICES ASSUME cpc[c].at \in {"cleanup", "receipt"}
               PROVE  jobs'[j].status \in {"orphaned", "cancelled"}
    OBVIOUS
  <2>1. /\ j \in Jobs /\ prov[j] # "none" /\ jobs[j].status \in {"orphaned", "cancelled"}
    BY <1>1, InvParts DEF CancelInv, GivenUpInv
  <2> QED BY <2>1, StatusSets DEF Decides
<1> QED BY <1>2, <1>3 DEF GivenUpInv

(* Whom a cancel call gives up is gone, and whom it reconciles is orphaned.  *)
LEMMA CancelGivesUp ==
  ASSUME ~PsFlaky, LedgerInv, OutcomeInv, NEW c \in Cancellers, Cancel(c),
         \A j \in Jobs : Advances(j) /\ Decides(j)
  PROVE  /\ \A d \in Cancellers : GivenUpInv(d)'
         /\ cpc'[c].at \in {"cleanup", "receipt"} =>
              \/ jobs'[cpc'[c].job].status = "orphaned"
              \/ cpc[c].at = "cleanup" /\ cpc'[c].job = cpc[c].job /\ jobs' = jobs
<1> USE DEF procVars, ledgerVars
<1>0. /\ TypeOK /\ CancelInv(c) /\ GivenUpInv(c) /\ \A i \in Jobs : JobInv(i)
  BY InvParts DEF OutcomeInv
<1>1. ASSUME NEW j \in Jobs, NEW r \in JobRecord, Commit(j, r)
      PROVE  jobs'[j] = r
  BY <1>0, <1>1, CommittedJob
<1> DEFINE Goal == /\ GivenUpInv(c)' /\ \A d \in Cancellers \ {c} : cpc'[d] = cpc[d]
                   /\ cpc'[c].at \in {"cleanup", "receipt"} =>
                        \/ jobs'[cpc'[c].job].status = "orphaned"
                        \/ cpc[c].at = "cleanup" /\ cpc'[c].job = cpc[c].job /\ jobs' = jobs
<1>2. ASSUME NEW j \in Jobs, Abandon(c, j) PROVE Goal
  BY <1>0, <1>2 DEF Abandon, TypeOK, IdleCanceller, GivenUpInv
<1>3. ASSUME NEW j \in Jobs, BeginStop(c, j) PROVE Goal
  <2> DEFINE s == Stopping(Reaped[j])
  <2>1. /\ Commit(j, s) /\ prov' = prov /\ s \in JobRecord
        /\ SameCustody(s, jobs[j])
    BY <1>0, <1>3, ReapedKeeps, StoppingRecord DEF BeginStop, SameCustody
  <2>2. jobs'[j] = s
    BY <1>1, <2>1
  <2>3. \A d \in Cancellers \ {c} : cpc'[d] = cpc[d]
    BY <1>0, <1>3 DEF BeginStop, ToCleanup, TypeOK
  <2>4. s.group # "none" => s.pid
    BY <1>0, <2>1 DEF JobInv, RecordInv, ProviderInv, SameCustody
  <2>5. \/ cpc'[c].at \in {"idle", "unclaimed"}
        \/ /\ cpc'[c].at = "cleanup" /\ cpc'[c].job = j /\ s.group # "none"
           /\ s.status = "orphaned" \/ ~s.pid
        \/ cpc'[c].at = "identify" /\ cpc'[c].job = j /\ s.pid
    <3>1. CASE s.status = "orphaned" \/ (s.status = "stopping" /\ ~s.pid /\ s.claimed)
      <4>1. cpc' = [cpc EXCEPT ![c] =
              IF s.req.kind = "luna" /\ s.group # "none"
              THEN [at |-> "cleanup", job |-> j, group |-> s.group, proven |-> FALSE]
              ELSE IdleCanceller]
        BY <1>3, <3>1 DEF BeginStop, ToCleanup
      <4> HIDE DEF s
      <4> QED BY <1>0, <3>1, <4>1 DEF TypeOK, IdleCanceller
    <3>2. CASE ~(s.status = "orphaned" \/ (s.status = "stopping" /\ ~s.pid /\ s.claimed))
      <4>1. cpc' = [cpc EXCEPT ![c] =
              IF s.status \in Terminal \/ (s.pid /\ ~s.bound) THEN IdleCanceller
              ELSE [IdleCanceller EXCEPT !.at = IF s.pid THEN "identify" ELSE "unclaimed",
                                         !.job = j]]
        BY <1>3, <3>2 DEF BeginStop
      <4> HIDE DEF s
      <4> QED BY <1>0, <4>1 DEF TypeOK, IdleCanceller
    <3> QED BY <3>1, <3>2
  <2> HIDE DEF s
  <2>6. GivenUpInv(c)'
    BY <2>2, <2>4, <2>5 DEF GivenUpInv
  <2> QED BY <2>2, <2>3, <2>4, <2>5, <2>6
<1>4. ASSUME CancelUnclaimed(c) \/ OrphanUnidentified(c) \/ SettleProvider(c) \/ CancellerCrash(c)
      PROVE  Goal
  <2>1. cpc' = [cpc EXCEPT ![c] = IdleCanceller]
    BY <1>4 DEF CancelUnclaimed, OrphanUnidentified, SettleProvider, CancellerCrash
  <2>2. cpc'[c].at = "idle" /\ \A d \in Cancellers \ {c} : cpc'[d] = cpc[d]
    BY <1>0, <2>1 DEF TypeOK, IdleCanceller
  <2>3. GivenUpInv(c)'
    BY <2>2 DEF GivenUpInv
  <2> QED BY <2>2, <2>3
<1>5. ASSUME SignalSupervisor(c) PROVE Goal
  <2>1. cpc'[c].at = "poll" /\ \A d \in Cancellers \ {c} : cpc'[d] = cpc[d]
    BY <1>0, <1>5 DEF SignalSupervisor, CancelAt, TypeOK, CancelRecord
  <2>2. GivenUpInv(c)'
    BY <2>1 DEF GivenUpInv
  <2> QED BY <2>1, <2>2
<1>6. ASSUME IdentityMismatch(c) PROVE Goal
  <2> DEFINE j == cpc[c].job
  <2>1. /\ cpc'[c].at = "mismatch" /\ cpc'[c].job = j /\ sup' = sup
        /\ \A d \in Cancellers \ {c} : cpc'[d] = cpc[d]
    BY <1>0, <1>6 DEF IdentityMismatch, CancelAt, TypeOK, CancelRecord
  <2>2. j \in Jobs /\ jobs[j].pid /\ ~SupPresent(j)
    BY <1>0, <1>6 DEF IdentityMismatch, CancelInv, GivenUpInv, Identities
  <2>3. sup[j] = "gone"
    BY <1>0, <2>2 DEF JobInv, RecordInv, TypeOK, SupPresent
  <2>4. GivenUpInv(c)'
    BY <2>1, <2>3 DEF GivenUpInv
  <2> QED BY <2>1, <2>4
<1>7. ASSUME PollCancelled(c) PROVE Goal
  <2> DEFINE j == cpc[c].job
  <2>1. j \in Jobs /\ jobs' = Reaped /\ \A d \in Cancellers \ {c} : cpc'[d] = cpc[d]
    BY <1>0, <1>7 DEF PollCancelled, CancelInv, ToCleanup, TypeOK
  <2>2. \/ cpc'[c].at = "idle"
        \/ cpc'[c].at = "poll"
        \/ cpc'[c].at = "cleanup" /\ cpc'[c].job = j /\ Reaped[j].status = "orphaned"
    BY <1>0, <1>7 DEF PollCancelled, ToCleanup, TypeOK, IdleCanceller
  <2>3. GivenUpInv(c)'
    BY <2>1, <2>2 DEF GivenUpInv
  <2> QED BY <2>1, <2>2, <2>3
<1>8. ASSUME CleanGroup(c) PROVE Goal
  <2>1. \E b \in BOOLEAN : cpc' = [cpc EXCEPT ![c].at = "receipt", ![c].proven = b]
    BY <1>8 DEF CleanGroup, GroupPresent
  <2>2. cpc[c] \in CancelRecord /\ cpc \in [Cancellers -> CancelRecord]
    BY <1>0 DEF TypeOK
  <2>3. /\ cpc'[c].at = "receipt" /\ cpc'[c].job = cpc[c].job
        /\ \A d \in Cancellers \ {c} : cpc'[d] = cpc[d]
    BY <2>1, <2>2 DEF CancelRecord
  <2>4. cpc[c].at = "cleanup" /\ jobs' = jobs
    BY <1>8 DEF CleanGroup
  <2>5. GivenUpInv(c)'
    BY <1>0, <2>3, <2>4 DEF GivenUpInv
  <2> QED BY <2>3, <2>4, <2>5
<1> HIDE DEF Goal
<1>9. Goal
  BY <1>2, <1>3, <1>4, <1>5, <1>6, <1>7, <1>8 DEF Cancel
<1>10. \A d \in Cancellers \ {c} : GivenUpInv(d)'
  BY <1>9, OtherGivenUp DEF OutcomeInv, Goal
<1> QED BY <1>9, <1>10 DEF Goal

(* Once the parent is not active, no job's supervisor goes to work.          *)
LEMMA NoneGoesToWork ==
  ASSUME LedgerInv, parent # "active", NEW j \in Jobs, Advances(j), Decides(j), AtWork(j)'
  PROVE  AtWork(j)
<1>1. jobs'[j].status \in Active /\ sup'[j] \in Working
  BY DEF AtWork
<1>2. sup[j] \in Working
  BY <1>1 DEF Decides
<1>3. jobs[j].status # "absent"
  BY <1>2 DEF LedgerInv, RecordInv, Working
<1>4. jobs[j].status \notin Terminal
  BY <1>1, StatusSets DEF Advances
<1> QED BY <1>2, <1>3, <1>4 DEF AtWork, LedgerInv, TypeOK, JobRecord

(* A drain knows everyone at work, and is not through before it killed them. *)
LEMMA DrainStep ==
  ASSUME ~PsFlaky, LedgerInv, LedgerInv', OutcomeInv, Next,
         \A j \in Jobs : Advances(j) /\ Decides(j)
  PROVE  DrainInv'
<1> USE DEF procVars, ledgerVars
<1>0. TypeOK /\ \A i \in Jobs : JobInv(i)
  BY InvParts
<1>1. ASSUME drain' = drain, parent' \in {parent, "closed"}
      PROVE  DrainInv'
  <2> SUFFICES ASSUME drain.at # "idle"
               PROVE  /\ parent' # "active"
                      /\ \A j \in Jobs : AtWork(j)' =>
                           j \in drain.mine /\ (drain.at = "kill" => j \in drain.todo)
    BY <1>1 DEF DrainInv
  <2>1. parent # "active"
    BY DEF OutcomeInv, DrainInv
  <2>2. \A j \in Jobs : AtWork(j)' => AtWork(j)
    BY <2>1, NoneGoesToWork
  <2> QED BY <1>1, <2>1, <2>2 DEF OutcomeInv, DrainInv
<1>2. CASE DrainBegin
  <2>1. /\ parent' = "draining" /\ drain'.at = "term"
        /\ drain'.mine = {j \in Jobs : Reaped[j].status \in Active /\ ~Unclaimed(Reaped[j])}
    BY <1>2 DEF DrainBegin
  <2>2. ASSUME NEW j \in Jobs, AtWork(j)' PROVE j \in drain'.mine
    <3>1. jobs'[j].status \in Active
      BY <2>2 DEF AtWork
    <3>2. jobs'[j] = IF Reaped[j].status \notin Active THEN Reaped[j]
                     ELSE IF Unclaimed(Reaped[j])
                          THEN [Reaped[j] EXCEPT !.status = "cancelled", !.proven = TRUE]
                          ELSE Stopping(Reaped[j])
      BY <1>2 DEF DrainBegin
    <3>3. LET t == [Reaped[j] EXCEPT !.status = "cancelled", !.proven = TRUE]
          IN  t.status \notin Active
      <4>1. Reaped[j] \in JobRecord
        BY <1>0, ReapedKeeps
      <4> QED BY <4>1, StatusSets DEF JobRecord
    <3> QED BY <2>1, <3>1, <3>2, <3>3
  <2> QED BY <2>1, <2>2 DEF DrainInv
<1>3. ASSUME NEW j \in Jobs, DrainTerm(j) PROVE DrainInv'
  <2>1. /\ drain.at = "term" /\ drain'.at = "term" /\ drain'.mine = drain.mine
        /\ parent' = parent
    BY <1>0, <1>3 DEF DrainTerm, TypeOK
  <2>2. parent # "active" /\ \A i \in Jobs : AtWork(i)' => AtWork(i)
    BY <2>1, NoneGoesToWork DEF OutcomeInv, DrainInv
  <2> QED BY <2>1, <2>2 DEF OutcomeInv, DrainInv
<1>4. CASE DrainWaitOver
  <2>1. /\ drain.at = "term" /\ drain'.mine = drain.mine /\ drain'.todo = drain.mine
        /\ parent' = parent
    BY <1>0, <1>4 DEF DrainWaitOver, TypeOK
  <2>2. parent # "active" /\ \A i \in Jobs : AtWork(i)' => AtWork(i)
    BY <2>1, NoneGoesToWork DEF OutcomeInv, DrainInv
  <2> QED BY <2>1, <2>2 DEF OutcomeInv, DrainInv
<1>5. ASSUME NEW j \in Jobs, DrainKill(j) PROVE DrainInv'
  <2>1. /\ drain.at = "kill" /\ drain'.at = "kill" /\ drain'.mine = drain.mine
        /\ drain'.todo = drain.todo \ {j} /\ parent' = parent /\ jobs' = Reaped
    BY <1>0, <1>5 DEF DrainKill, TypeOK
  <2>2. parent # "active" /\ \A i \in Jobs : AtWork(i)' => AtWork(i)
    BY <2>1, NoneGoesToWork DEF OutcomeInv, DrainInv
  <2>3. ~AtWork(j)'
    <3>1. CASE Kill(j)
      BY <1>0, <3>1 DEF Kill, AtWork, Working, SupLive, TypeOK
    <3>2. CASE Reaped[j].status \in Terminal
      BY <2>1, <3>2, StatusSets DEF AtWork
    <3>3. CASE sup' = sup /\ ~Reaped[j].bound
      <4>1. ~jobs[j].bound
        BY <1>0, <3>3, ReapedKeeps DEF SameCustody
      <4> QED BY <1>0, <3>3, <4>1 DEF JobInv, RecordInv, AtWork, Working
    <3>4. CASE sup' = sup /\ FALSE \in Identities(SupPresent(j))
      BY <3>4 DEF Identities, SupPresent, AtWork, Working, SupLive
    <3> QED BY <1>5, <3>1, <3>2, <3>3, <3>4 DEF DrainKill
  <2> QED BY <2>1, <2>2, <2>3 DEF OutcomeInv, DrainInv
<1>6. CASE DrainClose \/ DrainCrash
  <2>1. PICK report \in {"clean", "uncertain", "none"} : drain' = IdleDrain(report)
    BY <1>6 DEF DrainClose, DrainCrash
  <2> QED BY <2>1 DEF IdleDrain, DrainInv
<1>7. CASE \/ CloseSettled \/ Observe
           \/ \E k \in Kinds : PausePool(k) \/ ResumePool(k)
  BY <1>1, <1>7 DEF CloseSettled, Observe, PausePool, ResumePool
<1>8. ASSUME NEW l \in Launchers, Launch(l) PROVE DrainInv'
  <2>1. drain' = drain /\ parent' = parent
    BY <1>8 DEF Launch, Reserve, ReserveAgain, Claim, StageTask, Popen, FailLaunch,
       RecordLaunch, WaitChild, TermChild, KillChild, CheckRefused, SettleRefused,
       SettleLaunchExit, LauncherExit
  <2> QED BY <1>1, <2>1
<1>9. ASSUME NEW j \in Jobs, Supervise(j) PROVE DrainInv'
  <2>1. drain' = drain /\ parent' = parent
    BY <1>9 DEF Supervise, SupRejectTask, SupBind, SupSettleRejection, SupStartNothing, SupSpawn,
       SupRecordCustody, SupFinish, SupPausePool, SupReport, SupCrash, InitWaits, ProviderFades
  <2> QED BY <1>1, <2>1
<1>10. ASSUME NEW c \in Cancellers, Cancel(c) PROVE DrainInv'
  <2>1. drain' = drain /\ parent' = parent
    BY <1>10 DEF Cancel, Abandon, BeginStop, CancelUnclaimed, SignalSupervisor, IdentityMismatch,
       OrphanUnidentified, PollCancelled, CleanGroup, SettleProvider, CancellerCrash
  <2> QED BY <1>1, <2>1
<1> QED BY <1>2, <1>3, <1>4, <1>5, <1>6, <1>7, <1>8, <1>9, <1>10 DEF Next, Parent

(* A stop is accepted only of a job that is then stopping or cancelled.      *)
LEMMA NewlyStopped ==
  ASSUME LedgerInv, Next, NEW j \in stopped' \ stopped
  PROVE  j \in Jobs /\ jobs'[j].status \in {"stopping", "cancelled"}
<1> USE DEF procVars, ledgerVars
<1>0. TypeOK /\ \A i \in Jobs : JobInv(i)
  BY InvParts
<1>1. ASSUME NEW c \in Cancellers, NEW i \in Jobs, Abandon(c, i) \/ BeginStop(c, i)
      PROVE  j \in Jobs /\ jobs'[j].status \in {"stopping", "cancelled"}
  <2>1. Commit(i, Stopping(Reaped[i])) /\ j = i /\ Reaped[i].status \in Stoppable
    BY <1>1 DEF Abandon, BeginStop, StopRequested
  <2>2. /\ Stopping(Reaped[i]) \in JobRecord
        /\ Stopping(Reaped[i]).status = "stopping"
    BY <1>0, <2>1, ReapedKeeps, StoppingRecord
  <2> QED BY <1>0, <2>1, <2>2, CommittedJob
<1>2. CASE DrainBegin
  <2>1. j \in Jobs /\ Reaped[j].status \in Stoppable
    BY <1>2 DEF DrainBegin
  <2>2. jobs'[j] = IF Unclaimed(Reaped[j])
                   THEN [Reaped[j] EXCEPT !.status = "cancelled", !.proven = TRUE]
                   ELSE Stopping(Reaped[j])
    BY <1>2, <2>1, StatusSets DEF DrainBegin
  <2>3. Reaped[j] \in JobRecord /\ Stopping(Reaped[j]).status = "stopping"
    BY <1>0, <2>1, ReapedKeeps, StoppingRecord
  <2>4. LET t == [Reaped[j] EXCEPT !.status = "cancelled", !.proven = TRUE]
        IN  t.status = "cancelled"
    BY <2>3 DEF JobRecord
  <2> QED BY <2>1, <2>2, <2>3, <2>4
<1>3. ASSUME NEW l \in Launchers, Launch(l) PROVE stopped' = stopped
  BY <1>3 DEF Launch, Reserve, ReserveAgain, Claim, StageTask, Popen, FailLaunch,
     RecordLaunch, WaitChild, TermChild, KillChild, CheckRefused, SettleRefused,
     SettleLaunchExit, LauncherExit
<1>4. ASSUME NEW i \in Jobs, Supervise(i) PROVE stopped' = stopped
  BY <1>4 DEF Supervise, SupRejectTask, SupBind, SupSettleRejection, SupStartNothing, SupSpawn,
     SupRecordCustody, SupFinish, SupPausePool, SupReport, SupCrash, InitWaits, ProviderFades
<1>5. ASSUME NEW c \in Cancellers, Cancel(c), ~\E i \in Jobs : Abandon(c, i) \/ BeginStop(c, i)
      PROVE  stopped' = stopped
  BY <1>5 DEF Cancel, CancelUnclaimed, SignalSupervisor, IdentityMismatch,
     OrphanUnidentified, PollCancelled, CleanGroup, SettleProvider, CancellerCrash
<1>6. ASSUME Parent, ~DrainBegin PROVE stopped' = stopped
  BY <1>6 DEF Parent, DrainTerm, DrainWaitOver, DrainKill, DrainClose, DrainCrash, CloseSettled,
     Observe, PausePool, ResumePool
<1> QED BY <1>1, <1>2, <1>3, <1>4, <1>5, <1>6 DEF Next

(* Only a cancel call's own steps move it.                                   *)
LEMMA OnlyCancelsMove == ASSUME Next, ~\E c \in Cancellers : Cancel(c) PROVE cpc' = cpc
<1> USE DEF procVars, ledgerVars
<1>1. ASSUME NEW l \in Launchers, Launch(l) PROVE cpc' = cpc
  BY <1>1 DEF Launch, Reserve, ReserveAgain, Claim, StageTask, Popen, FailLaunch,
     RecordLaunch, WaitChild, TermChild, KillChild, CheckRefused, SettleRefused,
     SettleLaunchExit, LauncherExit
<1>2. ASSUME NEW i \in Jobs, Supervise(i) PROVE cpc' = cpc
  BY <1>2 DEF Supervise, SupRejectTask, SupBind, SupSettleRejection, SupStartNothing, SupSpawn,
     SupRecordCustody, SupFinish, SupPausePool, SupReport, SupCrash, InitWaits, ProviderFades
<1>3. Parent => cpc' = cpc
  BY DEF Parent, DrainBegin, DrainTerm, DrainWaitOver, DrainKill, DrainClose, DrainCrash,
     CloseSettled, Observe, PausePool, ResumePool
<1> QED BY <1>1, <1>2, <1>3 DEF Next

(* Every step keeps the invariant of outcomes.                              *)
LEMMA OutcomeStep == ~PsFlaky /\ LedgerInv /\ OutcomeInv /\ [Next]_vars => OutcomeInv'
<1> SUFFICES ASSUME ~PsFlaky, LedgerInv, OutcomeInv, [Next]_vars PROVE OutcomeInv'
  OBVIOUS
<1>1. CASE UNCHANGED vars
  <2>1. /\ \A j \in Jobs : jobs'[j] = jobs[j] /\ sup'[j] = sup[j] /\ AtWork(j)' = AtWork(j)
        /\ \A c \in Cancellers : GivenUpInv(c)' = GivenUpInv(c)
        /\ drain' = drain /\ parent' = parent /\ stopped' = stopped
    BY <1>1 DEF vars, AtWork, GivenUpInv
  <2> QED BY <2>1 DEF OutcomeInv, DrainInv, LedgerInv, TypeOK
<1>2. CASE Next
  <2>1. LedgerInv' /\ \A j \in Jobs : Advances(j) /\ Decides(j)
    BY <1>2, NextKeeps, NextDecides
  <2>2. \A j \in Jobs : jobs'[j].status = "orphaned" => sup'[j] \notin Working
    BY <2>1 DEF Decides
  <2>3. \A c \in Cancellers : GivenUpInv(c)'
    <3>1. CASE \E c \in Cancellers : Cancel(c)
      BY <2>1, <3>1, CancelGivesUp
    <3>2. CASE cpc' = cpc
      BY <2>1, <3>2, OtherGivenUp DEF OutcomeInv
    <3> QED BY <1>2, <3>1, <3>2, OnlyCancelsMove
  <2>4. DrainInv'
    BY <1>2, <2>1, DrainStep
  <2>5. ASSUME NEW j \in stopped'
        PROVE  jobs'[j].status \in {"stopping", "orphaned", "failed", "cancelled"}
    <3>1. CASE j \in stopped
      <4>1. j \in Jobs /\ jobs[j].status \in {"stopping", "orphaned", "failed", "cancelled"}
        BY <3>1 DEF OutcomeInv, LedgerInv, TypeOK
      <4>2. Decides(j)
        BY <2>1, <4>1
      <4> QED BY <4>1, <4>2, StatusSets DEF Decides
    <3>2. CASE j \notin stopped
      BY <1>2, <3>2, NewlyStopped
    <3> QED BY <3>1, <3>2
  <2> QED BY <2>2, <2>3, <2>4, <2>5 DEF OutcomeInv
<1> QED BY <1>1, <1>2

(* Where identity checks do not fail wrongly, nobody gives up a job whose     *)
(* supervisor is at work, whoever stops, drains or dies.                     *)
THEOREM OutcomeInvariant == ASSUME ~PsFlaky PROVE Spec => []OutcomeInv
<1>1. Init => OutcomeInv
  BY DEF Init, OutcomeInv, GivenUpInv, DrainInv, IdleCanceller, IdleDrain, NoRecord
<1>2. LedgerInv /\ OutcomeInv /\ [Next]_vars => OutcomeInv'
  BY OutcomeStep
<1> QED BY <1>1, <1>2, LedgerInvariant, PTL DEF Spec

(* A job whose stop was accepted is never again on its way to running, and   *)
(* never completed.                                                         *)
THEOREM StopsOwnTheOutcome == ASSUME ~PsFlaky PROVE Spec => []StopOwnsDisposition
<1>1. OutcomeInv => StopOwnsDisposition
  BY DEF OutcomeInv, StopOwnsDisposition, Stoppable, ReservedOnly, Handoff
<1> QED BY <1>1, OutcomeInvariant, PTL

(* No step of anybody changes the verdict on a settled job.                  *)
THEOREM VerdictsAreFinal == ASSUME ~PsFlaky PROVE Spec => VerdictIsFinal
<1>1. LedgerInv /\ OutcomeInv /\ [Next]_vars =>
        [\A j \in Jobs : jobs[j].status \in Terminal => jobs'[j].status = jobs[j].status]_vars
  BY NextDecides DEF Decides
<1> QED BY <1>1, LedgerInvariant, OutcomeInvariant, PTL DEF Spec, VerdictIsFinal

(* Nobody starts a provider once the parent is closed.                       *)
THEOREM NothingSpawnsAfterClose == ASSUME ~PsFlaky PROVE Spec => NoSpawnAfterClose
<1>1. ASSUME LedgerInv, OutcomeInv, Next, parent = "closed", NEW j \in Jobs, prov[j] = "none",
             prov'[j] # "none"
      PROVE  FALSE
  <2>1. TypeOK /\ JobInv(j) /\ ClosedLeavesNoneBetween
    BY <1>1, InvParts
  <2>2. sup[j] # "bound"
    <3>1. jobs[j].status \in Terminal => sup[j] # "bound"
      BY <2>1 DEF JobInv, MaySpawn
    <3>2. jobs[j].status = "orphaned" => sup[j] # "bound"
      BY <1>1 DEF OutcomeInv, Working
    <3>3. jobs[j].status = "absent" => sup[j] # "bound"
      BY <2>1 DEF JobInv, RecordInv
    <3> QED BY <1>1, <2>1, <3>1, <3>2, <3>3 DEF ClosedLeavesNoneBetween
  <2>3. prov'[j] \in Remains(j)
    BY <1>1, <2>2, ProviderSteps
  <2> QED BY <1>1, <2>1, <2>3, WhatRemains
<1>2. LedgerInv /\ OutcomeInv /\ [Next]_vars =>
        [parent = "closed" => \A j \in Jobs : prov[j] = "none" => prov'[j] = "none"]_vars
  BY <1>1
<1> QED BY <1>2, LedgerInvariant, OutcomeInvariant, PTL DEF Spec, NoSpawnAfterClose

(* With one cancel call at a time, what is being reconciled stays orphaned,  *)
(* and what is settled is proven.                                           *)
LEMMA ReceiptStep ==
  ASSUME ~PsFlaky, \A c \in Cancellers : \A d \in Cancellers : c = d,
         LedgerInv, OutcomeInv, ReceiptInv, [Next]_vars
  PROVE  ReceiptInv'
<1>1. CASE UNCHANGED vars
  BY <1>1 DEF vars, ReceiptInv, TerminalIsProven
<1>2. CASE Next
  <2>1. LedgerInv' /\ \A j \in Jobs : Advances(j) /\ Decides(j)
    BY <1>2, NextKeeps, NextDecides
  <2>2. ASSUME NEW j \in Jobs, jobs'[j].status \in Terminal PROVE CleanupProven(jobs'[j])
    <3>1. jobs[j].status \in Terminal => CleanupProven(jobs[j])
      BY DEF ReceiptInv, TerminalIsProven
    <3>2. Reconciles(j) => jobs[j].status = "orphaned"
      BY DEF Reconciles, ReceiptInv
    <3> QED BY <2>1, <2>2, <3>1, <3>2 DEF Decides
  <2>3. ASSUME NEW c \in Cancellers, cpc'[c].at \in {"cleanup", "receipt"}
        PROVE  jobs'[cpc'[c].job].status = "orphaned"
    <3>1. CASE Cancel(c)
      BY <2>1, <2>3, <3>1, CancelGivesUp DEF ReceiptInv
    <3>2. CASE cpc' = cpc /\ ~Cancel(c)
      <4> DEFINE j == cpc[c].job
      <4>1. j \in Jobs /\ prov[j] # "none" /\ jobs[j].status = "orphaned"
        BY <2>3, <3>2, InvParts DEF CancelInv, ReceiptInv
      <4>2. ~Reconciles(j)
        BY <3>2 DEF Reconciles, Cancel
      <4> QED BY <2>1, <3>2, <4>1, <4>2 DEF Decides
    <3>3. Cancel(c) \/ cpc' = cpc
      BY <1>2, OnlyCancelsMove
    <3> QED BY <3>1, <3>2, <3>3
  <2> QED BY <2>2, <2>3 DEF ReceiptInv, TerminalIsProven
<1> QED BY <1>1, <1>2

(* No slot is given up on a guess: with sound identity checks and one cancel *)
(* call at a time, a job is settled only with its cleanup proven.            *)
THEOREM SettledIsProven ==
  ASSUME ~PsFlaky, \A c \in Cancellers : \A d \in Cancellers : c = d
  PROVE  Spec => []TerminalIsProven
<1>1. Init => ReceiptInv
  BY StatusSets DEF Init, ReceiptInv, TerminalIsProven, IdleCanceller, NoRecord
<1>2. LedgerInv /\ OutcomeInv /\ ReceiptInv /\ [Next]_vars => ReceiptInv'
  BY ReceiptStep
<1>3. ReceiptInv => TerminalIsProven
  BY DEF ReceiptInv
<1> QED BY <1>1, <1>2, <1>3, LedgerInvariant, OutcomeInvariant, PTL DEF Spec
=============================================================================
