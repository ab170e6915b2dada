------------------------- MODULE WorkerSlotsProofs --------------------------
(* The promise of WorkerSlots, proved for any jobs, pools and scopes. *)
EXTENDS WorkerSlots, FiniteSetTheorems, TLAPS

(* A held lease names a pool, and the pools and scopes of held leases keep   *)
(* the admission checks.                                                    *)
HeldOK ==
  /\ \A k \in Kinds : Cardinality(Held(k)) <= Capacity[k]
  /\ \A i, j \in Jobs : i # j /\ lease[i].state = "held" /\ lease[j].state = "held" =>
       lease[i].scope \cap lease[j].scope = {}

SlotsInv == SlotsTypeOK /\ WorkIsHeld /\ HeldOK

(* A subset of a pool's held leases is bounded as the held leases are.      *)
LEMMA HeldBound ==
  ASSUME SlotsAssumption, NEW k \in Kinds, NEW A \in SUBSET Held(k), Cardinality(Held(k)) <= Capacity[k]
  PROVE  Cardinality(A) <= Capacity[k]
<1>1. IsFiniteSet(Held(k))
  BY FS_Subset DEF SlotsAssumption, Held
<1>2. /\ Cardinality(A) \in Nat /\ Cardinality(Held(k)) \in Nat
      /\ Cardinality(A) <= Cardinality(Held(k))
  BY <1>1, FS_Subset, FS_CardinalityType
<1> QED BY <1>2 DEF SlotsAssumption

(* Nothing is held at first.                                                *)
LEMMA SlotsInitInv ==
  ASSUME SlotsAssumption, SlotsInit
  PROVE  SlotsInv
<1>1. \A k \in Kinds : Held(k) = {}
  BY DEF SlotsInit, Held, Unleased
<1>2. SlotsTypeOK /\ WorkIsHeld
  BY DEF SlotsInit, SlotsTypeOK, WorkIsHeld
<1>3. \A k \in Kinds : Cardinality(Held(k)) <= Capacity[k]
  BY <1>1, FS_EmptySet DEF SlotsAssumption
<1>4. \A i \in Jobs : lease[i].state # "held"
  BY DEF SlotsInit, Unleased
<1> QED BY <1>2, <1>3, <1>4 DEF SlotsInv, HeldOK

(* Acquiring a lease keeps the pools bounded and the scopes apart.          *)
LEMMA AcquireInv ==
  ASSUME SlotsAssumption, SlotsInv, NEW j \in Jobs, NEW k \in Kinds, NEW s \in Scopes, Acquire(j, k, s)
  PROVE  SlotsInv'
<1> DEFINE t == [state |-> "held", kind |-> k, scope |-> s]
<1>1. /\ lease'[j] = t /\ \A i \in Jobs \ {j} : lease'[i] = lease[i]
      /\ t \in Leases /\ lease[j].state = "free" /\ work' = work
  BY DEF SlotsInv, SlotsTypeOK, Acquire, Leases, Unleased
<1>2. SlotsTypeOK'
  BY <1>1 DEF SlotsInv, SlotsTypeOK, Acquire
<1>3. WorkIsHeld'
  BY <1>1 DEF SlotsInv, WorkIsHeld
<1>4. ASSUME NEW p \in Kinds PROVE Cardinality(Held(p)') <= Capacity[p]
  <2>1. CASE p # k
    <3>1. Held(p)' \subseteq Held(p)
      BY <1>1, <2>1 DEF Held
    <3> QED BY <3>1, HeldBound DEF SlotsInv, HeldOK
  <2>2. CASE p = k
    <3>1. Held(p)' = Held(p) \cup {j} /\ j \notin Held(p)
      BY <1>1, <2>2 DEF Held
    <3>2. IsFiniteSet(Held(p))
      BY FS_Subset DEF SlotsAssumption, Held
    <3>3. Cardinality(Held(p)') = Cardinality(Held(p)) + 1 /\ Cardinality(Held(p)) \in Nat
      BY <3>1, <3>2, FS_AddElement, FS_CardinalityType
    <3> QED BY <2>2, <3>3 DEF Acquire, SlotsAssumption
  <2> QED BY <2>1, <2>2
<1>5. \A i, m \in Jobs : i # m /\ lease'[i].state = "held" /\ lease'[m].state = "held" =>
        lease'[i].scope \cap lease'[m].scope = {}
  <2>1. \A i \in Jobs \ {j} : lease'[i].state = "held" => lease'[i].scope \cap s = {}
    BY <1>1 DEF Acquire
  <2> QED BY <1>1, <2>1 DEF SlotsInv, HeldOK
<1> QED BY <1>2, <1>3, <1>4, <1>5 DEF SlotsInv, HeldOK

(* Work starts and stops under a held lease.                                *)
LEMMA WorkInv ==
  ASSUME SlotsAssumption, SlotsInv, NEW j \in Jobs, StartWork(j) \/ StopWork(j)
  PROVE  SlotsInv'
<1>1. SlotsTypeOK' /\ WorkIsHeld'
  BY DEF SlotsInv, SlotsTypeOK, WorkIsHeld, StartWork, StopWork
<1>2. HeldOK'
  BY DEF SlotsInv, HeldOK, Held, StartWork, StopWork
<1> QED BY <1>1, <1>2 DEF SlotsInv

(* Releasing leases leaves the held ones bounded and apart.                 *)
LEMMA ReleaseInv ==
  ASSUME SlotsAssumption, SlotsInv, NEW S \in SUBSET Jobs, Release(S)
  PROVE  SlotsInv'
<1>1. /\ work' = work
      /\ \A i \in S : /\ lease'[i] = [lease[i] EXCEPT !.state = "released"]
                      /\ lease[i] \in Leases /\ work[i] # "live"
      /\ \A i \in Jobs \ S : lease'[i] = lease[i]
  BY DEF Release, SlotsInv, SlotsTypeOK, Unleased
<1>2. \A i \in S : lease'[i] \in Leases /\ lease'[i].state = "released"
  BY <1>1 DEF Leases
<1>3. SlotsTypeOK'
  BY <1>1, <1>2 DEF SlotsInv, SlotsTypeOK, Release
<1>4. WorkIsHeld'
  BY <1>1 DEF SlotsInv, WorkIsHeld
<1>5. \A i \in Jobs : lease'[i].state = "held" => lease'[i] = lease[i]
  BY <1>1, <1>2
<1>6. \A k \in Kinds : Held(k)' \subseteq Held(k)
  BY <1>5 DEF Held
<1>7. HeldOK'
  BY <1>5, <1>6, HeldBound DEF SlotsInv, HeldOK
<1> QED BY <1>3, <1>4, <1>7 DEF SlotsInv

(* The strengthened invariant of the abstract promise.                      *)
LEMMA SlotsInvariant ==
  ASSUME SlotsAssumption
  PROVE  SlotsSpec => []SlotsInv
<1>0. SlotsInit => SlotsInv
  BY SlotsInitInv
<1>1. SlotsInv /\ [SlotsNext]_<<lease, work>> => SlotsInv'
  <2>1. CASE UNCHANGED <<lease, work>>
    BY <2>1 DEF SlotsInv, SlotsTypeOK, WorkIsHeld, HeldOK, Held
  <2> QED BY <2>1, AcquireInv, WorkInv, ReleaseInv DEF SlotsNext
<1> QED BY <1>0, <1>1, PTL DEF SlotsSpec

(* Work in progress always holds its slot.                                  *)
THEOREM WorkAlwaysHeld ==
  ASSUME SlotsAssumption
  PROVE  SlotsSpec => []WorkIsHeld
<1>1. SlotsInv => WorkIsHeld
  BY DEF SlotsInv
<1> QED BY <1>1, SlotsInvariant, PTL

(* The promise bounds the running work of a pool by its capacity.           *)
THEOREM WorkBounded ==
  ASSUME SlotsAssumption
  PROVE  SlotsSpec => []WorkWithinCapacity
<1>1. SlotsInv => WorkWithinCapacity
  <2> SUFFICES ASSUME SlotsAssumption, SlotsInv, NEW k \in Kinds PROVE Cardinality(Working(k)) <= Capacity[k]
    BY DEF WorkWithinCapacity
  <2>1. Working(k) \subseteq Held(k)
    BY DEF Working, Held, SlotsInv, WorkIsHeld
  <2> QED BY <2>1, HeldBound DEF SlotsInv, HeldOK
<1> QED BY <1>1, SlotsInvariant, PTL

(* The promise keeps the scopes of running work apart.                      *)
THEOREM WorkKeptApart ==
  ASSUME SlotsAssumption
  PROVE  SlotsSpec => []WorkScopesDisjoint
<1>1. SlotsInv => WorkScopesDisjoint
  BY DEF SlotsInv, WorkIsHeld, HeldOK, WorkScopesDisjoint
<1> QED BY <1>1, SlotsInvariant, PTL
=============================================================================
