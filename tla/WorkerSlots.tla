----------------------------- MODULE WorkerSlots -----------------------------
(***************************************************************************)
(* What the worker ledger promises, without saying how: a job holds one     *)
(* slot of its pool and one mutation scope from admission until release;    *)
(* its work starts at most once, only while the slot is held; and a slot is *)
(* released, for good, only when its work is over.  The promise itself has  *)
(* no processes, no pids and no lock.                                       *)
(***************************************************************************)
EXTENDS Naturals, FiniteSets

CONSTANTS Jobs, Kinds, Capacity, Scopes, NoKind

(* What the theorems about the promise need of the constants. *)
SlotsAssumption ==
  /\ IsFiniteSet(Jobs)
  /\ NoKind \notin Kinds
  /\ Capacity \in [Kinds -> Nat]

VARIABLES
  lease,  \* lease[j]: the job's slot, with the pool and scope it occupies
  work    \* work[j]: "none" before it starts, then "live", then "over"

Leases == [state : {"held", "released"}, kind : Kinds, scope : Scopes]
Unleased == [state |-> "free", kind |-> NoKind, scope |-> {}]

(* A lease is the free one or names its pool and scope; in particular, only  *)
(* a lease that was held is ever released.                                   *)
SlotsTypeOK ==
  /\ lease \in [Jobs -> Leases \cup {Unleased}]
  /\ work \in [Jobs -> {"none", "live", "over"}]

SlotsInit ==
  /\ lease = [j \in Jobs |-> Unleased]
  /\ work = [j \in Jobs |-> "none"]

Held(k) == {j \in Jobs : lease[j].state = "held" /\ lease[j].kind = k}

Acquire(j, k, s) ==
  /\ lease[j] = Unleased
  /\ Cardinality(Held(k)) < Capacity[k]
  /\ \A i \in Jobs : lease[i].state = "held" => lease[i].scope \cap s = {}
  /\ lease' = [lease EXCEPT ![j] = [state |-> "held", kind |-> k, scope |-> s]]
  /\ work' = work

StartWork(j) ==
  /\ lease[j].state = "held"
  /\ work[j] = "none"
  /\ work' = [work EXCEPT ![j] = "live"]
  /\ lease' = lease

StopWork(j) ==
  /\ work[j] = "live"
  /\ work' = [work EXCEPT ![j] = "over"]
  /\ lease' = lease

(* One transaction may release several jobs. *)
Release(S) ==
  /\ \A j \in S : lease[j].state = "held" /\ work[j] # "live"
  /\ lease' = [j \in Jobs |-> IF j \in S THEN [lease[j] EXCEPT !.state = "released"]
                              ELSE lease[j]]
  /\ work' = work

SlotsNext ==
  \/ \E S \in SUBSET Jobs : Release(S)
  \/ \E j \in Jobs : \/ StartWork(j) \/ StopWork(j)
                     \/ \E k \in Kinds, s \in Scopes : Acquire(j, k, s)

SlotsSpec == SlotsInit /\ [][SlotsNext]_<<lease, work>>

-----------------------------------------------------------------------------
Working(k) == {j \in Jobs : work[j] = "live" /\ lease[j].kind = k}

(* Work in progress always holds its slot: no release overtakes it.          *)
WorkIsHeld == \A j \in Jobs : work[j] = "live" => lease[j].state = "held"

(* The work in progress of a pool never exceeds the pool's capacity.         *)
WorkWithinCapacity == \A k \in Kinds : Cardinality(Working(k)) <= Capacity[k]

(* Two jobs never work on overlapping scopes at the same time.               *)
WorkScopesDisjoint ==
  \A i, j \in Jobs : i # j /\ work[i] = "live" /\ work[j] = "live" =>
    lease[i].scope \cap lease[j].scope = {}
=============================================================================
