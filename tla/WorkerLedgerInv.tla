--------------------------- MODULE WorkerLedgerInv ---------------------------
(***************************************************************************)
(* The inductive invariant of WorkerLedger: what the ledger's record of a   *)
(* job, its launcher, its supervisor, its provider group and the cancel     *)
(* calls in flight know about each other.  The safety properties of         *)
(* WorkerLedger follow from it; none of them is inductive alone, because    *)
(* every settling step trusts evidence gathered by an earlier step.         *)
(***************************************************************************)
EXTENDS WorkerLedger

BeforePopen == {"stage", "popen"}
AfterPopen  == {"record", "reap", "reapkill", "check", "fail", "cancel", "watch", "settle"}
AfterWait   == {"check", "fail", "cancel", "settle"}
Owning      == BeforePopen \cup AfterPopen

(* A job's record never runs ahead of its processes: no supervisor without   *)
(* a claim, no provider without a bind, no proof while it is active.         *)
RecordInv(j) ==
  LET r == jobs[j] IN
  /\ r.status # "absent" => r.req \in Requests
  /\ r.status \in {"absent", "reserved"} => ~r.claimed
  /\ ~r.claimed => sup[j] = "none"
  /\ sup[j] = "none" => ~r.pid
  /\ r.bound => r.pid
  /\ sup[j] \in {"none", "starting", "refused"} => ~r.bound
  /\ ~r.bound => /\ prov[j] = "none"
                 /\ sup[j] \notin {"bound", "spawned", "attached", "settling"}
  /\ r.status \in Active => ~CleanupProven(r)

(* The provider group is started after the bind and known after the start.  *)
ProviderInv(j) ==
  /\ sup[j] = "bound" => prov[j] = "none"
  /\ sup[j] \in {"spawned", "attached"} => prov[j] # "none"
  /\ jobs[j].group # "none" => prov[j] # "none"
  /\ prov[j] = "detached" => jobs[j].req.kind = "gemini"
  /\ sup[j] = "settling" /\ verdict[j].proven => ~Live(j)

(* A job is owned by one launch call, from its claim to the call's end.     *)
LauncherInv(l) ==
  LET j == JobOf(l) IN
  /\ lpc[l] = "claim" => jobs[j].status # "absent"
  /\ lpc[l] \in Owning => /\ jobs[j].claimed
                          /\ \A m \in Launchers \ {l} :
                               JobOf(m) = j => lpc[m] \notin Owning
  /\ lpc[l] \in BeforePopen => sup[j] = "none"
  /\ lpc[l] \in AfterPopen => sup[j] # "none"
  /\ lpc[l] \in AfterWait => sup[j] = "gone"
  /\ lpc[l] \in {"fail", "cancel"} => ~jobs[j].pid

(* What a cancel call read stays true until it acts on it.                  *)
CancelInv(c) ==
  LET k == cpc[c] IN
  k.at # "idle" =>
    /\ k.job \in Jobs
    /\ jobs[k.job].status # "absent"
    /\ k.at = "unclaimed" => /\ ~jobs[k.job].claimed
                             /\ jobs[k.job].status # "reserved"
    /\ k.at \in {"cleanup", "receipt"} => /\ jobs[k.job].req.kind = "luna"
                                          /\ prov[k.job] # "none"
    /\ k.at = "receipt" /\ k.proven => prov[k.job] = "gone"

(* A clean drain left no active job, and nobody is admitted any more.       *)
ReportInv ==
  drain.report = "clean" =>
    parent = "closed" /\ \A j \in Jobs : jobs[j].status \notin Active

(* The inductive invariant: at any moment, record, launcher, supervisor,     *)
(* provider, cancel calls and drain report agree about every job.            *)
LedgerInv ==
  /\ TypeOK
  /\ \A j \in Jobs : RecordInv(j) /\ ProviderInv(j)
  /\ \A l \in Launchers : LauncherInv(l)
  /\ \A c \in Cancellers : CancelInv(c)
  /\ ReportInv
  /\ ReleasedMeansGone
  /\ ClosedLeavesNoneBetween

Admitted(j) == \E l \in Launchers : JobOf(l) = j /\ Reserve(l)

(* Whatever step of whoever happens, a job only moves on: it is admitted     *)
(* only by a reservation while its parent is active, claimed only from that  *)
(* reservation, keeps its request and custody, never comes back from a       *)
(* settled or orphaned state, and its processes end for good.                *)
Advances(j) ==
  LET r == jobs[j] s == jobs'[j] IN
  /\ r.status = "absent" => \/ s.status = "absent"
                            \/ s.status = "reserved" /\ parent = "active" /\ Admitted(j)
  /\ r.status # "absent" => s.status # "absent" /\ s.req = r.req
  /\ s.status = "reserved" => r.status \in {"absent", "reserved"}
  /\ r.status \in Terminal => s.status \in Terminal
  /\ r.status = "orphaned" => s.status \in Terminal \cup {"orphaned"}
  /\ r.claimed => s.claimed
  /\ s.claimed => r.claimed \/ r.status = "reserved"
  /\ r.pid => s.pid
  /\ s.pid /\ ~r.pid => sup[j] # "gone"
  /\ prov[j] # "none" => prov'[j] # "none"
  /\ prov[j] = "gone" => prov'[j] = "gone"
  /\ sup[j] # "none" => sup'[j] # "none"
  /\ sup[j] = "gone" => sup'[j] = "gone"

JobsOnlyAdvance == [][\A j \in Jobs : Advances(j)]_vars

(* The admission checks hold of the active jobs, not only at admission.     *)
AdmissionInv ==
  /\ \A k \in Kinds : Cardinality(ActiveOfKind(jobs, k)) <= Capacity[k]
  /\ \A i, j \in Jobs : i # j /\ jobs[i].status \in Active /\ jobs[j].status \in Active =>
       jobs[i].req.scope \cap jobs[j].req.scope = {}

(* Of two jobs of a task one is the other's settled predecessor, and there   *)
(* is no third.                                                             *)
Lineage(t) == {i \in Jobs : Exists(i) /\ jobs[i].req.task = t}

LineageInv ==
  \A j \in Jobs : Exists(j) =>
    /\ Cardinality(Lineage(jobs[j].req.task)) <= 2
    /\ \A i \in Lineage(jobs[j].req.task) \ {j} :
         \/ jobs[j].req.prev = i /\ jobs[i].status \in Terminal
         \/ jobs[i].req.prev = j /\ jobs[j].status \in Terminal

(* Where identity checks do not fail wrongly, nobody gives up a job whose     *)
(* supervisor is still at work: a cancel call reconciles only what no        *)
(* supervisor will report, and the drain stops whatever it orphans.          *)
Working == {"bound", "spawned", "attached", "settling"}

AtWork(j) == jobs[j].status \in Active /\ sup[j] \in Working

GivenUpInv(c) ==
  LET k == cpc[c] IN
  /\ k.at = "identify" => jobs[k.job].pid
  /\ k.at = "mismatch" => sup[k.job] = "gone"
  /\ k.at \in {"cleanup", "receipt"} => jobs[k.job].status \in {"orphaned", "cancelled"}

DrainInv ==
  drain.at # "idle" =>
    /\ parent # "active"
    /\ \A j \in Jobs : AtWork(j) => j \in drain.mine /\ (drain.at = "kill" => j \in drain.todo)

OutcomeInv ==
  /\ \A j \in Jobs : jobs[j].status = "orphaned" => sup[j] \notin Working
  /\ \A c \in Cancellers : GivenUpInv(c)
  /\ DrainInv
  /\ \A j \in stopped : jobs[j].status \in {"stopping", "orphaned", "failed", "cancelled"}

(* Where, besides, one cancel call goes on at a time, a job that is being    *)
(* reconciled is still orphaned, and what is settled is proven.              *)
ReceiptInv ==
  /\ \A c \in Cancellers : cpc[c].at \in {"cleanup", "receipt"} => jobs[cpc[c].job].status = "orphaned"
  /\ TerminalIsProven
=============================================================================
