-------------------------- MODULE MCGenerationsNative --------------------------
(* Instances of ControllerGenerations and of NativeAgents for TLC. The two    *)
(* share no variable: a behaviour is one of the first, with no hook of        *)
(* NativeAgents called, or one of the second, with no process of              *)
(* ControllerGenerations started.                                             *)
EXTENDS ControllerGenerations, NativeAgents, TLC

CONSTANTS a1, a2, a3, w1

(* ControllerGenerations: process ids and commits are interchangeable, and    *)
(* steps fail only where no process id is used twice.                         *)
Sym == Permutations(Pids) \cup Permutations(Commits)
GenerationsBound == faults = 0 \/ \A p \in Pids : life[p] <= 1

(* NativeAgents: three agents for two slots, the last of which overlaps the   *)
(* second and asks once both have, or the first two and an external worker    *)
(* that overlaps the first.                                                   *)
Writes == (a1 :> {"p"}) @@ (a2 :> {"q"}) @@ (a3 :> {"q"}) @@ (w1 :> {"p"})

NativeBound ==
  /\ found \subseteq {a1}
  /\ hook[a3] # "none" =>
       /\ job[w1] = "free" /\ hook[a1] # "none" /\ hook[a2] # "none"
       /\ drain["operator"] = "idle"
  /\ Cardinality({a \in Agents : hook[a] = "bound"}) <= 1

Bounded == GenerationsBound /\ NativeBound

BothInit        == Init /\ NativeInit
GenerationsOnly == NativeInit /\ Next /\ UNCHANGED nativeVars
NativeOnly      == Init /\ NativeNext /\ UNCHANGED vars
BothSpec        == BothInit /\ [][GenerationsOnly \/ NativeOnly]_<<vars, nativeVars>>
=============================================================================
