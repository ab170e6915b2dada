------------------------- MODULE WorkerLedgerSlots --------------------------
(***************************************************************************)
(* The worker ledger keeps the promise of WorkerSlots: an active job holds  *)
(* a slot, a terminal one has released it, and its work is the provider     *)
(* process group, wherever its signals, crashes and evidence come from.     *)
(***************************************************************************)
EXTENDS WorkerLedger

LeaseState(status) ==
  IF status \in Active THEN "held" ELSE IF status \in Terminal THEN "released" ELSE "free"

LeaseOf(j) ==
  IF jobs[j].status = "absent" THEN [state |-> "free", kind |-> "no kind", scope |-> {}]
  ELSE [state |-> LeaseState(jobs[j].status), kind |-> jobs[j].req.kind,
        scope |-> jobs[j].req.scope]

WorkOf(j) ==
  CASE prov[j] = "none"       -> "none"
    [] prov[j] \in ProvLive   -> "live"
    [] OTHER                  -> "over"

Slots == INSTANCE WorkerSlots WITH
  NoKind <- "no kind",
  Scopes <- {Request[l].scope : l \in Launchers},
  lease  <- [j \in Jobs |-> LeaseOf(j)],
  work   <- [j \in Jobs |-> WorkOf(j)]

(* Every step of every process is a step of the promise, or none of its      *)
(* business.                                                                 *)
ImplementsSlots == Slots!SlotsSpec
=============================================================================
