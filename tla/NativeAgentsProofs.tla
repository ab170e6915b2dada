------------------------- MODULE NativeAgentsProofs -------------------------
(* For any number of agents, workers, paths and slots: the hooks and the drain
   keep the promise of WorkerSlots, and a clean close is true. *)
EXTENDS NativeAgents, FiniteSetTheorems, TLAPS

(* An agent that runs, or that nothing would stop from starting, has a record
   that is not closed. *)
AgentInv(a) ==
  /\ agent[a] = "live" => native[a] \in ActiveNative
  /\ runtime = "up" /\ hook[a] = "allow" /\ agent[a] = "none" => native[a] \in ActiveNative
  /\ runtime = "gone" => agent[a] # "live"

WorkerInv(w) == work[w] = "live" => job[w] = "held"

DrainInv ==
  /\ \A d \in Drainers : drain[d] = "observed" => runtime = "gone"
  /\ clean => /\ parent # "active"
              /\ \A a \in Agents : native[a] \notin ActiveNative
              /\ \A w \in Workers : job[w] # "held"

NativeInv ==
  /\ NativeTypeOK
  /\ \A a \in Agents : AgentInv(a)
  /\ \A w \in Workers : WorkerInv(w)
  /\ DrainInv

-----------------------------------------------------------------------------
(* The parts of the next-state relation, by whom they concern. *)
AgentStep(a) ==
  \/ HookReads(a) \/ Deny(a) \/ HookAgain(a) \/ AlreadyAdmitted(a)
  \/ \E answer \in {"allow", "deny"} : Reserve(a, answer)
  \/ AgentStarts(a) \/ AgentEnds(a) \/ AgentFails(a) \/ CloseNative(a) \/ LeftBehind(a)
  \/ \E response \in Responses(a) : PostTool(a, response)

WorkerStep(w) == ReserveWorker(w) \/ WorkerStarts(w) \/ WorkerEnds(w) \/ WorkerSettles(w)

LEMMA NextCases ==
  ASSUME NativeNext
  PROVE  \/ \E a \in Agents : AgentStep(a)
         \/ \E w \in Workers : WorkerStep(w)
         \/ RuntimeEnds \/ PausePool \/ CloseSettled
         \/ \E d \in Drainers, evidence \in {"observed", "unobserved"} : DrainBegins(d, evidence)
         \/ \E d \in Drainers : DrainCloses(d)
BY DEF NativeNext, AgentStep, WorkerStep

LEMMA DrainedAgent ==
  ASSUME NativeTypeOK, NEW a \in Agents, NEW e
  PROVE  /\ Drained(e)[a] = IF native[a] \in ActiveNative
                            THEN IF e = "observed" THEN "closed" ELSE "uncertain"
                            ELSE native[a]
         /\ Drained(e)[a] \in {"absent", "closed"} \cup ActiveNative
BY DEF Drained, NativeTypeOK, ActiveNative

-----------------------------------------------------------------------------
LEMMA InvInit == NativeInit => NativeInv
<1> SUFFICES ASSUME NativeInit PROVE NativeInv
  OBVIOUS
<1>1. NativeTypeOK
  BY DEF NativeInit, NativeTypeOK
<1>2. (\A a \in Agents : AgentInv(a)) /\ (\A w \in Workers : WorkerInv(w))
  BY DEF NativeInit, AgentInv, WorkerInv
<1>3. DrainInv
  BY DEF NativeInit, DrainInv
<1> QED BY <1>1, <1>2, <1>3 DEF NativeInv

LEMMA TypeStep == ASSUME NativeTypeOK, NativeNext PROVE NativeTypeOK'
<1>1. ASSUME NEW a \in Agents, AgentStep(a) PROVE NativeTypeOK'
  <2>1. CASE HookReads(a) BY <2>1 DEF HookReads, NativeTypeOK
  <2>2. CASE Deny(a) BY <2>2 DEF Deny, NativeTypeOK
  <2>3. CASE HookAgain(a) BY <2>3 DEF HookAgain, NativeTypeOK
  <2>4. CASE AlreadyAdmitted(a) BY <2>4 DEF AlreadyAdmitted, NativeTypeOK
  <2>5. ASSUME NEW answer \in {"allow", "deny"}, Reserve(a, answer) PROVE NativeTypeOK'
    BY <2>5 DEF Reserve, NativeTypeOK, ActiveNative
  <2>6. CASE AgentStarts(a) BY <2>6 DEF AgentStarts, NativeTypeOK
  <2>7. CASE AgentEnds(a) BY <2>7 DEF AgentEnds, NativeTypeOK
  <2>8. CASE AgentFails(a) BY <2>8 DEF AgentFails, NativeTypeOK
  <2>9. CASE CloseNative(a) BY <2>9 DEF CloseNative, NativeTypeOK
  <2>10. CASE LeftBehind(a) BY <2>10 DEF LeftBehind, NativeTypeOK
  <2>11. ASSUME NEW response \in Responses(a), PostTool(a, response) PROVE NativeTypeOK'
    BY <2>11 DEF PostTool, NativeTypeOK
  <2> QED BY <1>1, <2>1, <2>2, <2>3, <2>4, <2>5, <2>6, <2>7, <2>8, <2>9, <2>10, <2>11 DEF AgentStep
<1>2. ASSUME NEW w \in Workers, WorkerStep(w) PROVE NativeTypeOK'
  BY <1>2 DEF WorkerStep, ReserveWorker, WorkerStarts, WorkerEnds, WorkerSettles, NativeTypeOK
<1>3. CASE RuntimeEnds BY <1>3 DEF RuntimeEnds, NativeTypeOK
<1>4. CASE PausePool BY <1>4 DEF PausePool, NativeTypeOK
<1>5. CASE CloseSettled BY <1>5 DEF CloseSettled, NativeTypeOK
<1>6. ASSUME NEW d \in Drainers, NEW evidence \in {"observed", "unobserved"},
             DrainBegins(d, evidence)
      PROVE  NativeTypeOK'
  BY <1>6 DEF DrainBegins, NativeTypeOK
<1>7. ASSUME NEW d \in Drainers, DrainCloses(d) PROVE NativeTypeOK'
  <2>1. native' \in [Agents -> {"absent", "closed"} \cup ActiveNative]
    BY <1>7, DrainedAgent DEF DrainCloses, Drained
  <2> QED BY <1>7, <2>1 DEF DrainCloses, NativeTypeOK
<1> QED BY NextCases, <1>1, <1>2, <1>3, <1>4, <1>5, <1>6, <1>7

(* A step about one agent leaves the other agents' part alone. *)
LEMMA AgentStepInv ==
  ASSUME NativeInv, NEW a \in Agents, AgentStep(a)
  PROVE  (\A b \in Agents : AgentInv(b)') /\ (\A w \in Workers : WorkerInv(w)') /\ DrainInv'
<1> USE DEF NativeInv, NativeTypeOK, AgentInv, WorkerInv, DrainInv
<1>1. CASE HookReads(a) BY <1>1 DEF HookReads
<1>2. CASE Deny(a) BY <1>2 DEF Deny
<1>3. CASE HookAgain(a) BY <1>3 DEF HookAgain
<1>4. CASE AlreadyAdmitted(a) BY <1>4 DEF AlreadyAdmitted
<1>5. ASSUME NEW answer \in {"allow", "deny"}, Reserve(a, answer)
      PROVE  (\A b \in Agents : AgentInv(b)') /\ (\A w \in Workers : WorkerInv(w)') /\ DrainInv'
  BY <1>5 DEF Reserve, Admissible, ActiveNative
<1>6. CASE AgentStarts(a) BY <1>6 DEF AgentStarts
<1>7. CASE AgentEnds(a) BY <1>7 DEF AgentEnds
<1>8. CASE AgentFails(a) BY <1>8 DEF AgentFails
<1>9. CASE CloseNative(a) BY <1>9 DEF CloseNative, CallOver, ActiveNative
<1>10. CASE LeftBehind(a) BY <1>10 DEF LeftBehind
<1>11. ASSUME NEW response \in Responses(a), PostTool(a, response)
       PROVE  (\A b \in Agents : AgentInv(b)') /\ (\A w \in Workers : WorkerInv(w)') /\ DrainInv'
  BY <1>11 DEF PostTool, Responses, Terminal, CallOver, ActiveNative
<1> QED BY <1>1, <1>2, <1>3, <1>4, <1>5, <1>6, <1>7, <1>8, <1>9, <1>10, <1>11 DEF AgentStep

LEMMA InvStep == ASSUME NativeInv, NativeNext PROVE NativeInv'
<1>0. NativeTypeOK'
  BY TypeStep DEF NativeInv
<1> SUFFICES (\A b \in Agents : AgentInv(b)') /\ (\A w \in Workers : WorkerInv(w)') /\ DrainInv'
  BY <1>0 DEF NativeInv
<1> USE DEF NativeInv, NativeTypeOK, AgentInv, WorkerInv, DrainInv
<1>1. ASSUME NEW w \in Workers, WorkerStep(w)
      PROVE  (\A b \in Agents : AgentInv(b)') /\ (\A v \in Workers : WorkerInv(v)') /\ DrainInv'
  <2>1. CASE ReserveWorker(w) BY <2>1 DEF ReserveWorker
  <2>2. CASE WorkerStarts(w) BY <2>2 DEF WorkerStarts
  <2>3. CASE WorkerEnds(w) BY <2>3 DEF WorkerEnds
  <2>4. CASE WorkerSettles(w) BY <2>4 DEF WorkerSettles
  <2> QED BY <1>1, <2>1, <2>2, <2>3, <2>4 DEF WorkerStep
<1>2. CASE RuntimeEnds BY <1>2 DEF RuntimeEnds
<1>3. CASE PausePool BY <1>3 DEF PausePool
<1>4. CASE CloseSettled
  BY <1>4 DEF CloseSettled, ActiveAgents, HeldWorkers
<1>5. ASSUME NEW d \in Drainers, NEW evidence \in {"observed", "unobserved"},
             DrainBegins(d, evidence)
      PROVE  (\A b \in Agents : AgentInv(b)') /\ (\A w \in Workers : WorkerInv(w)') /\ DrainInv'
  BY <1>5 DEF DrainBegins
<1>6. ASSUME NEW d \in Drainers, DrainCloses(d)
      PROVE  (\A b \in Agents : AgentInv(b)') /\ (\A w \in Workers : WorkerInv(w)') /\ DrainInv'
  <2>1. \A a \in Agents : native'[a] = IF native[a] \in ActiveNative
                                       THEN IF drain[d] = "observed" THEN "closed" ELSE "uncertain"
                                       ELSE native[a]
    BY <1>6, DrainedAgent DEF DrainCloses
  <2>2. drain[d] = "observed" => runtime = "gone"
    OBVIOUS
  <2>3. ASSUME NEW a \in Agents PROVE AgentInv(a)'
    BY <1>6, <2>1, <2>2 DEF DrainCloses, ActiveNative
  <2>4. DrainInv'
    BY <1>6, <2>1 DEF DrainCloses, ActiveNative, ActiveAgents, HeldWorkers
  <2> QED BY <1>6, <2>3, <2>4 DEF DrainCloses
<1> QED BY NextCases, AgentStepInv, <1>1, <1>2, <1>3, <1>4, <1>5, <1>6

(* The inductive invariant: hooks in any order, an observed drain only after
   the runtime. *)
THEOREM NativeInvariant == NativeSpec => []NativeInv
<1>1. NativeInv /\ UNCHANGED nativeVars => NativeInv'
  BY DEF nativeVars, NativeInv, NativeTypeOK, AgentInv, WorkerInv, DrainInv
<1>2. NativeInv /\ [NativeNext]_nativeVars => NativeInv'
  BY <1>1, InvStep
<1> QED BY InvInit, <1>2, PTL DEF NativeSpec

(* Every variable keeps its type. *)
THEOREM NativeTypeCorrect == NativeSpec => []NativeTypeOK
<1>1. NativeInv => NativeTypeOK
  BY DEF NativeInv
<1> QED BY NativeInvariant, <1>1, PTL

(* A parent closed without uncertainty has left nothing that runs, holds a slot
   or can start. *)
THEOREM CleanCloses == NativeSpec => []CleanCloseIsTrue
<1>1. NativeInv => CleanCloseIsTrue
  BY DEF NativeInv, NativeTypeOK, AgentInv, WorkerInv, DrainInv, CleanCloseIsTrue, Leaves,
         LeafWork, ActiveAgents, HeldWorkers
<1> QED BY NativeInvariant, <1>1, PTL

-----------------------------------------------------------------------------
(* The refinement. *)

SlotsVars == <<[x \in Leaves |-> LeaseOf(x)], [x \in Leaves |-> LeafWork(x)]>>

LEMMA SlotsCardinality == \A A : Slots!Cardinality(A) = Cardinality(A)
BY DEF Slots!Cardinality, Cardinality

(* How a record and its lease correspond. *)
LEMMA AgentLease ==
  ASSUME NativeInv, NEW a \in Agents
  PROVE  /\ native[a] = "absent" => LeaseOf(a) = Slots!Unleased
         /\ native[a] \in ActiveNative =>
              LeaseOf(a) = [state |-> "held", kind |-> "native", scope |-> Scope[a]]
         /\ native[a] = "closed" =>
              LeaseOf(a) = [state |-> "released", kind |-> "native", scope |-> Scope[a]]
         /\ LeaseOf(a).state = "held" <=> native[a] \in ActiveNative
BY DEF NativeInv, NativeTypeOK, LeaseOf, Slots!Unleased, ActiveNative

LEMMA WorkerLease ==
  ASSUME NativeInv, NEW w \in Workers
  PROVE  /\ job[w] = "free" => LeaseOf(w) = Slots!Unleased
         /\ job[w] # "free" =>
              LeaseOf(w) = [state |-> job[w], kind |-> "external", scope |-> Scope[w]]
         /\ LeaseOf(w).state = "held" <=> job[w] = "held"
         /\ LeafWork(w) = work[w]
BY NativeAssumption DEF NativeInv, NativeTypeOK, LeaseOf, LeafWork, Slots!Unleased

LEMMA HeldLeaves ==
  ASSUME NativeInv
  PROVE  /\ Slots!Held("native") = ActiveAgents
         /\ Slots!Held("external") = HeldWorkers
<1>1. ASSUME NEW x \in Leaves
      PROVE  /\ LeaseOf(x).state = "held" /\ LeaseOf(x).kind = "native" <=> x \in ActiveAgents
             /\ LeaseOf(x).state = "held" /\ LeaseOf(x).kind = "external" <=> x \in HeldWorkers
  <2>1. CASE x \in Agents
    BY <2>1, AgentLease, NativeAssumption DEF ActiveAgents, HeldWorkers
  <2>2. CASE x \in Workers
    BY <2>2, WorkerLease, NativeAssumption DEF ActiveAgents, HeldWorkers, NativeInv, NativeTypeOK
  <2> QED BY <2>1, <2>2 DEF Leaves
<1>2. ActiveAgents \subseteq Leaves /\ HeldWorkers \subseteq Leaves
  BY DEF ActiveAgents, HeldWorkers, Leaves
<1> QED BY <1>1, <1>2 DEF Slots!Held

LEMMA HeldScopes ==
  ASSUME NativeInv, NEW x \in Leaves, ScopeFree(x), LeaseOf(x) = Slots!Unleased
  PROVE  \A y \in Leaves : LeaseOf(y).state = "held" => LeaseOf(y).scope \cap Scope[x] = {}
<1> SUFFICES ASSUME NEW y \in Leaves, LeaseOf(y).state = "held"
             PROVE  LeaseOf(y).scope \cap Scope[x] = {}
  OBVIOUS
<1>1. y \in ActiveAgents \cup HeldWorkers /\ LeaseOf(y).scope = Scope[y]
  <2>1. CASE y \in Agents
    BY <2>1, AgentLease DEF ActiveAgents
  <2>2. CASE y \in Workers
    BY <2>2, WorkerLease DEF HeldWorkers, NativeInv, NativeTypeOK
  <2> QED BY <2>1, <2>2 DEF Leaves
<1>2. y # x
  <2>1. Slots!Unleased.state = "free"
    BY DEF Slots!Unleased
  <2> QED BY <2>1
<1> QED BY <1>1, <1>2 DEF ScopeFree

(* A leaf whose lease and work alone change, one of them at a time. *)
LEMMA Acquires ==
  ASSUME NativeInv, NEW x \in Leaves, NEW k \in {"native", "external"},
         LeaseOf(x) = Slots!Unleased, ScopeFree(x),
         Cardinality(Slots!Held(k)) < IF k = "native" THEN Cap ELSE WorkerCap,
         LeaseOf(x)' = [state |-> "held", kind |-> k, scope |-> Scope[x]],
         \A y \in Leaves \ {x} : LeaseOf(y)' = LeaseOf(y),
         \A y \in Leaves : LeafWork(y)' = LeafWork(y)
  PROVE  Slots!SlotsNext
<1>1. Scope[x] \in SUBSET Paths
  BY NativeAssumption DEF Leaves
<1>2. Slots!Acquire(x, k, Scope[x])
  BY HeldScopes, SlotsCardinality DEF Slots!Acquire
<1> QED BY <1>1, <1>2 DEF Slots!SlotsNext

LEMMA Releases ==
  ASSUME NativeInv, NEW S \in SUBSET Leaves,
         \A x \in S : /\ LeaseOf(x).state = "held" /\ LeafWork(x) # "live"
                      /\ LeaseOf(x)' = [LeaseOf(x) EXCEPT !.state = "released"],
         \A x \in Leaves \ S : LeaseOf(x)' = LeaseOf(x),
         \A x \in Leaves : LeafWork(x)' = LeafWork(x)
  PROVE  Slots!SlotsNext
<1>1. Slots!Release(S)
  BY DEF Slots!Release
<1> QED BY <1>1 DEF Slots!SlotsNext

LEMMA Works ==
  ASSUME NativeInv, NEW x \in Leaves, LeaseOf(x).state = "held",
         \/ LeafWork(x) = "none" /\ LeafWork(x)' = "live"
         \/ LeafWork(x) = "live" /\ LeafWork(x)' = "over",
         \A y \in Leaves \ {x} : LeafWork(y)' = LeafWork(y),
         \A y \in Leaves : LeaseOf(y)' = LeaseOf(y)
  PROVE  Slots!SlotsNext
<1>1. Slots!StartWork(x) \/ Slots!StopWork(x)
  BY DEF Slots!StartWork, Slots!StopWork
<1> QED BY <1>1 DEF Slots!SlotsNext

LEMMA Stutters ==
  ASSUME \A x \in Leaves : LeaseOf(x)' = LeaseOf(x) /\ LeafWork(x)' = LeafWork(x)
  PROVE  UNCHANGED SlotsVars
BY DEF SlotsVars

LEMMA NothingMoves ==
  ASSUME UNCHANGED <<native, agent, job, work>>
  PROVE  UNCHANGED SlotsVars
BY DEF SlotsVars, LeaseOf, LeafWork

-----------------------------------------------------------------------------
(* A record that is closed, by whichever event, releases its lease. *)
LEMMA RecordCloses ==
  ASSUME NativeInv, NEW a \in Agents, CallOver(a), native[a] \in ActiveNative,
         native' = [native EXCEPT ![a] = "closed"], UNCHANGED <<agent, job, work>>
  PROVE  Slots!SlotsNext
<1>1. LeaseOf(a)' = [LeaseOf(a) EXCEPT !.state = "released"]
  <2>1. LeaseOf(a) = [state |-> "held", kind |-> "native", scope |-> Scope[a]]
    BY AgentLease
  <2>2. native'[a] = "closed"
    BY DEF NativeInv, NativeTypeOK
  <2>3. LeaseOf(a)' = [state |-> "released", kind |-> "native", scope |-> Scope[a]]
    BY <2>2 DEF LeaseOf
  <2> QED BY <2>1, <2>3
<1>2. \A x \in Leaves \ {a} : LeaseOf(x)' = LeaseOf(x)
  BY DEF LeaseOf, NativeInv, NativeTypeOK
<1>3. \A x \in Leaves : LeafWork(x)' = LeafWork(x)
  BY DEF LeafWork
<1>4. LeaseOf(a).state = "held" /\ LeafWork(a) # "live"
  BY AgentLease DEF LeafWork, CallOver
<1>5. {a} \in SUBSET Leaves
  BY DEF Leaves
<1> QED BY <1>1, <1>2, <1>3, <1>4, <1>5, Releases

LEMMA AgentRefines ==
  ASSUME NativeInv, NEW a \in Agents, AgentStep(a)
  PROVE  [Slots!SlotsNext]_SlotsVars
<1>0. a \in Leaves
  BY DEF Leaves
<1>1. CASE HookReads(a) \/ Deny(a) \/ HookAgain(a) \/ AlreadyAdmitted(a) \/ LeftBehind(a)
  BY <1>1, NothingMoves DEF HookReads, Deny, HookAgain, AlreadyAdmitted, LeftBehind
<1>2. ASSUME NEW answer \in {"allow", "deny"}, Reserve(a, answer)
      PROVE  Slots!SlotsNext
  <2>1. LeaseOf(a) = Slots!Unleased
    BY <1>2, AgentLease DEF Reserve, Admissible
  <2>2. LeaseOf(a)' = [state |-> "held", kind |-> "native", scope |-> Scope[a]]
    BY <1>2 DEF Reserve, LeaseOf, NativeInv, NativeTypeOK
  <2>3. \A y \in Leaves \ {a} : LeaseOf(y)' = LeaseOf(y)
    BY <1>2 DEF Reserve, LeaseOf, NativeInv, NativeTypeOK
  <2>4. \A y \in Leaves : LeafWork(y)' = LeafWork(y)
    BY <1>2 DEF Reserve, LeafWork
  <2>5. ScopeFree(a) /\ Cardinality(Slots!Held("native")) < Cap
    BY <1>2, HeldLeaves DEF Reserve, Admissible
  <2> QED BY <1>0, <2>1, <2>2, <2>3, <2>4, <2>5, Acquires
<1>3. CASE AgentStarts(a)
  <2>1. native[a] \in ActiveNative
    BY <1>3 DEF AgentStarts, NativeInv, AgentInv
  <2>2. LeafWork(a) = "none" /\ LeafWork(a)' = "live"
    BY <1>3 DEF AgentStarts, LeafWork, NativeInv, NativeTypeOK
  <2>3. \A y \in Leaves \ {a} : LeafWork(y)' = LeafWork(y)
    BY <1>3 DEF AgentStarts, LeafWork, NativeInv, NativeTypeOK
  <2>4. \A y \in Leaves : LeaseOf(y)' = LeaseOf(y)
    BY <1>3 DEF AgentStarts, LeaseOf
  <2> QED BY <1>0, <2>1, <2>2, <2>3, <2>4, AgentLease, Works
<1>4. CASE AgentEnds(a)
  <2>1. native[a] \in ActiveNative
    BY <1>4 DEF AgentEnds, NativeInv, AgentInv
  <2>2. LeafWork(a) = "live" /\ LeafWork(a)' = "over"
    BY <1>4 DEF AgentEnds, LeafWork, NativeInv, NativeTypeOK
  <2>3. \A y \in Leaves \ {a} : LeafWork(y)' = LeafWork(y)
    BY <1>4 DEF AgentEnds, LeafWork, NativeInv, NativeTypeOK
  <2>4. \A y \in Leaves : LeaseOf(y)' = LeaseOf(y)
    BY <1>4 DEF AgentEnds, LeaseOf
  <2> QED BY <1>0, <2>1, <2>2, <2>3, <2>4, AgentLease, Works
<1>5. CASE AgentFails(a)
  <2>1. \A y \in Leaves : LeafWork(y)' = LeafWork(y)
    BY <1>5 DEF AgentFails, LeafWork, NativeInv, NativeTypeOK
  <2>2. \A y \in Leaves : LeaseOf(y)' = LeaseOf(y)
    BY <1>5 DEF AgentFails, LeaseOf
  <2> QED BY <2>1, <2>2, Stutters
<1>6. CASE CloseNative(a)
  BY <1>6, RecordCloses DEF CloseNative
<1>7. ASSUME NEW response \in Responses(a), PostTool(a, response)
      PROVE  [Slots!SlotsNext]_SlotsVars
  <2>1. CASE response \in Terminal
    <3>1. CallOver(a)
      BY <2>1 DEF Responses, Terminal
    <3> QED BY <1>7, <2>1, <3>1, RecordCloses DEF PostTool
  <2>2. CASE response \notin Terminal
    <3>1. native' = native
      BY <1>7, <2>2 DEF PostTool, NativeInv, NativeTypeOK
    <3> QED BY <1>7, <3>1, NothingMoves DEF PostTool
  <2> QED BY <2>1, <2>2
<1> QED BY <1>1, <1>2, <1>3, <1>4, <1>5, <1>6, <1>7 DEF AgentStep

LEMMA WorkerRefines ==
  ASSUME NativeInv, NEW w \in Workers, WorkerStep(w)
  PROVE  Slots!SlotsNext
<1>0. w \in Leaves /\ w \notin Agents
  BY NativeAssumption DEF Leaves
<1>1. CASE ReserveWorker(w)
  <2>1. LeaseOf(w) = Slots!Unleased
    BY <1>1, WorkerLease DEF ReserveWorker
  <2>2. LeaseOf(w)' = [state |-> "held", kind |-> "external", scope |-> Scope[w]]
    BY <1>0, <1>1 DEF ReserveWorker, LeaseOf, NativeInv, NativeTypeOK
  <2>3. \A y \in Leaves \ {w} : LeaseOf(y)' = LeaseOf(y)
    BY <1>1 DEF ReserveWorker, LeaseOf, NativeInv, NativeTypeOK
  <2>4. \A y \in Leaves : LeafWork(y)' = LeafWork(y)
    BY <1>1 DEF ReserveWorker, LeafWork
  <2>5. ScopeFree(w) /\ Cardinality(Slots!Held("external")) < WorkerCap
    BY <1>1, HeldLeaves DEF ReserveWorker
  <2> QED BY <1>0, <2>1, <2>2, <2>3, <2>4, <2>5, Acquires
<1>2. CASE WorkerStarts(w)
  <2>1. LeaseOf(w).state = "held"
    BY <1>2, WorkerLease DEF WorkerStarts
  <2>2. LeafWork(w) = "none" /\ LeafWork(w)' = "live"
    BY <1>0, <1>2 DEF WorkerStarts, LeafWork, NativeInv, NativeTypeOK
  <2>3. \A y \in Leaves \ {w} : LeafWork(y)' = LeafWork(y)
    BY <1>2 DEF WorkerStarts, LeafWork, NativeInv, NativeTypeOK
  <2>4. \A y \in Leaves : LeaseOf(y)' = LeaseOf(y)
    BY <1>2 DEF WorkerStarts, LeaseOf
  <2> QED BY <1>0, <2>1, <2>2, <2>3, <2>4, Works
<1>3. CASE WorkerEnds(w)
  <2>1. LeaseOf(w).state = "held"
    BY <1>3, WorkerLease DEF WorkerEnds, NativeInv, WorkerInv
  <2>2. LeafWork(w) = "live" /\ LeafWork(w)' = "over"
    BY <1>0, <1>3 DEF WorkerEnds, LeafWork, NativeInv, NativeTypeOK
  <2>3. \A y \in Leaves \ {w} : LeafWork(y)' = LeafWork(y)
    BY <1>3 DEF WorkerEnds, LeafWork, NativeInv, NativeTypeOK
  <2>4. \A y \in Leaves : LeaseOf(y)' = LeaseOf(y)
    BY <1>3 DEF WorkerEnds, LeaseOf
  <2> QED BY <1>0, <2>1, <2>2, <2>3, <2>4, Works
<1>4. CASE WorkerSettles(w)
  <2>1. LeaseOf(w).state = "held" /\ LeafWork(w) # "live"
    BY <1>4, WorkerLease DEF WorkerSettles
  <2>2. LeaseOf(w)' = [LeaseOf(w) EXCEPT !.state = "released"]
    BY <1>0, <1>4 DEF WorkerSettles, LeaseOf, NativeInv, NativeTypeOK
  <2>3. \A y \in Leaves \ {w} : LeaseOf(y)' = LeaseOf(y)
    BY <1>4 DEF WorkerSettles, LeaseOf, NativeInv, NativeTypeOK
  <2>4. \A y \in Leaves : LeafWork(y)' = LeafWork(y)
    BY <1>4 DEF WorkerSettles, LeafWork
  <2>5. {w} \in SUBSET Leaves
    BY <1>0
  <2> QED BY <2>1, <2>2, <2>3, <2>4, <2>5, Releases
<1> QED BY <1>1, <1>2, <1>3, <1>4 DEF WorkerStep

(* A drain that saw the runtime's end releases every record; another one keeps
   every lease. *)
LEMMA DrainRefines ==
  ASSUME NativeInv, NEW d \in Drainers, DrainCloses(d)
  PROVE  [Slots!SlotsNext]_SlotsVars
<1>1. \A a \in Agents : native'[a] = IF native[a] \in ActiveNative
                                     THEN IF drain[d] = "observed" THEN "closed" ELSE "uncertain"
                                     ELSE native[a]
  BY DrainedAgent DEF DrainCloses, NativeInv
<1>2. \A x \in Leaves : LeafWork(x)' = LeafWork(x)
  BY DEF DrainCloses, LeafWork
<1>3. ASSUME NEW x \in Leaves \ ActiveAgents PROVE LeaseOf(x)' = LeaseOf(x)
  <2>1. x \in Agents => native'[x] = native[x]
    BY <1>1 DEF ActiveAgents
  <2> QED BY <2>1 DEF DrainCloses, LeaseOf
<1>4. CASE drain[d] = "observed"
  <2>1. ASSUME NEW x \in ActiveAgents
        PROVE  /\ LeaseOf(x).state = "held" /\ LeafWork(x) # "live"
               /\ LeaseOf(x)' = [LeaseOf(x) EXCEPT !.state = "released"]
    <3>1. x \in Agents /\ native[x] \in ActiveNative /\ native'[x] = "closed"
      BY <1>1, <1>4 DEF ActiveAgents
    <3>2. agent[x] # "live"
      BY <1>4, <3>1 DEF NativeInv, AgentInv, DrainInv
    <3>3. LeaseOf(x) = [state |-> "held", kind |-> "native", scope |-> Scope[x]]
      BY <3>1, AgentLease
    <3>4. LeaseOf(x)' = [state |-> "released", kind |-> "native", scope |-> Scope[x]]
      BY <3>1 DEF LeaseOf
    <3> QED BY <3>1, <3>2, <3>3, <3>4 DEF LeafWork
  <2>2. ActiveAgents \in SUBSET Leaves
    BY DEF ActiveAgents, Leaves
  <2> QED BY <1>2, <1>3, <2>1, <2>2, Releases
<1>5. CASE drain[d] # "observed"
  <2>1. ASSUME NEW x \in ActiveAgents PROVE LeaseOf(x)' = LeaseOf(x)
    BY <1>1, <1>5 DEF ActiveAgents, ActiveNative, LeaseOf
  <2> QED BY <1>2, <1>3, <2>1, Stutters
<1> QED BY <1>4, <1>5

LEMMA SlotsInitially == NativeInit => Slots!SlotsInit
<1> SUFFICES ASSUME NativeInit PROVE Slots!SlotsInit
  OBVIOUS
<1>1. \A x \in Leaves : LeaseOf(x) = Slots!Unleased /\ LeafWork(x) = "none"
  BY DEF NativeInit, Leaves, LeaseOf, LeafWork, Slots!Unleased
<1> QED BY <1>1 DEF Slots!SlotsInit

(* Late, repeated and lost hooks, refused calls, both kinds of drain: native
   and external leaves together keep the promise of WorkerSlots. *)
THEOREM NativeRefines == NativeSpec => NativeKeepsSlots
<1>1. NativeInv /\ [NativeNext]_nativeVars => [Slots!SlotsNext]_SlotsVars
  <2> SUFFICES ASSUME NativeInv, [NativeNext]_nativeVars PROVE [Slots!SlotsNext]_SlotsVars
    OBVIOUS
  <2>1. CASE UNCHANGED nativeVars
    BY <2>1, NothingMoves DEF nativeVars
  <2>2. CASE RuntimeEnds \/ PausePool \/ CloseSettled
    BY <2>2, NothingMoves DEF RuntimeEnds, PausePool, CloseSettled
  <2>3. ASSUME NEW d \in Drainers, NEW evidence \in {"observed", "unobserved"},
               DrainBegins(d, evidence)
        PROVE  UNCHANGED SlotsVars
    BY <2>3, NothingMoves DEF DrainBegins
  <2> QED BY <2>1, <2>2, <2>3, NextCases, AgentRefines, WorkerRefines, DrainRefines
<1> QED BY SlotsInitially, NativeInvariant, <1>1, PTL
      DEF NativeSpec, NativeKeepsSlots, Slots!SlotsSpec, SlotsVars
=============================================================================
