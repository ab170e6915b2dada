---------------------------- MODULE NativeAgents ----------------------------
(* Native agents of a Claude parent and the external workers beside them.

   A native agent runs inside the parent's own process, so no supervisor owns
   it.  The ledger knows of it only through hooks: one before the tool call,
   which reserves a record under the call's identity, and one after it, which
   may arrive late, twice or never, and may say nothing about the agent's end.
   What is still unaccounted for at the drain is released only by a drain that
   has observed the end of the parent's process. *)
EXTENDS Naturals, FiniteSets

CONSTANTS
  Agents,      \* identities of foreground Agent calls, never used twice
  Workers,     \* external jobs of the same parent
  Paths,       \* what a mutation scope may name
  Scope,       \* the paths each of them may write
  Cap,         \* slots of the native pool
  WorkerCap    \* slots of the external pool

ASSUME NativeAssumption ==
  /\ IsFiniteSet(Agents) /\ IsFiniteSet(Workers) /\ Agents \cap Workers = {}
  /\ Scope \in [Agents \cup Workers -> SUBSET Paths]
  /\ Cap \in Nat /\ WorkerCap \in Nat

VARIABLES
  parent,   \* the ledger's status
  native,   \* the status of each native record
  found,    \* records an earlier version left with a result but not released
  paused,   \* whether the native pool is paused
  hook,     \* where the hook before each call is, and what it answered
  agent,    \* the agent in the runtime
  runtime,  \* the parent's own process
  job,      \* each external job's hold on its slot and scope
  work,     \* the external job's provider
  drain,    \* the dispatcher's and an operator's drain
  clean     \* whether the last drain to close the parent reported no uncertainty

nativeVars == <<parent, native, found, paused, hook, agent, runtime, job, work,
                drain, clean>>

Drainers == {"dispatcher", "operator"}
ActiveNative == {"reserved", "active", "uncertain"}

NativeTypeOK ==
  /\ parent \in {"active", "draining", "closed"}
  /\ native \in [Agents -> {"absent", "closed"} \cup ActiveNative]
  /\ found \in SUBSET Agents
  /\ paused \in BOOLEAN
  /\ hook \in [Agents -> {"none", "bound", "allow", "deny"}]
  /\ agent \in [Agents -> {"none", "live", "over", "never"}]
  /\ runtime \in {"up", "gone"}
  /\ job \in [Workers -> {"free", "held", "released"}]
  /\ work \in [Workers -> {"none", "live", "over"}]
  /\ drain \in [Drainers -> {"idle", "observed", "unobserved", "done"}]
  /\ clean \in BOOLEAN

NativeInit ==
  /\ parent = "active"
  /\ native = [a \in Agents |-> "absent"]
  /\ found = {} /\ paused = FALSE
  /\ hook = [a \in Agents |-> "none"] /\ agent = [a \in Agents |-> "none"]
  /\ runtime = "up"
  /\ job = [w \in Workers |-> "free"] /\ work = [w \in Workers |-> "none"]
  /\ drain = [d \in Drainers |-> "idle"]
  /\ clean = FALSE

--------------------------------------------------------------------------
(* Admission. *)

ActiveAgents == {a \in Agents : native[a] \in ActiveNative}
HeldWorkers == {w \in Workers : job[w] = "held"}

(* Faulty variant: a native writer is compared with native writers only. *)
ScopeFreeOfNatives(x) ==
  \A y \in ActiveAgents : y # x => Scope[x] \cap Scope[y] = {}

(* No other active record, native or external, overlaps the scope. *)
ScopeFree(x) ==
  \A y \in ActiveAgents \cup HeldWorkers : y # x => Scope[x] \cap Scope[y] = {}

(* The hook reads the binding before it takes the lock. *)
HookReads(a) ==
  /\ runtime = "up" /\ hook[a] = "none"
  /\ hook' = [hook EXCEPT ![a] = IF parent = "active" THEN "bound" ELSE "deny"]
  /\ UNCHANGED <<parent, native, found, paused, agent, runtime, job, work, drain, clean>>

Admissible(a) ==
  /\ parent = "active" /\ ~paused /\ ScopeFree(a)
  /\ native[a] = "absent" /\ Cardinality(ActiveAgents) < Cap

(* One transaction.  The answer to a call whose reservation was written can
   still be a refusal, when the hook's time is up. *)
Reserve(a, answer) ==
  /\ hook[a] = "bound" /\ Admissible(a)
  /\ native' = [native EXCEPT ![a] = "reserved"]
  /\ hook' = [hook EXCEPT ![a] = answer]
  /\ UNCHANGED <<parent, found, paused, agent, runtime, job, work, drain, clean>>

Deny(a) ==
  /\ hook[a] = "bound"
  /\ hook' = [hook EXCEPT ![a] = "deny"]
  /\ UNCHANGED <<parent, native, found, paused, agent, runtime, job, work, drain, clean>>

(* The hook of the same call again: an active record stands for itself, a
   closed one is refused. *)
HookAgain(a) ==
  /\ runtime = "up" /\ hook[a] \in {"allow", "deny"} /\ agent[a] # "live"
  /\ hook' = [hook EXCEPT ![a] = "bound"]
  /\ UNCHANGED <<parent, native, found, paused, agent, runtime, job, work, drain, clean>>

AlreadyAdmitted(a) ==
  /\ hook[a] = "bound" /\ parent = "active" /\ ~paused /\ ScopeFree(a)
  /\ native[a] \in ActiveNative
  /\ hook' = [hook EXCEPT ![a] = "allow"]
  /\ UNCHANGED <<parent, native, found, paused, agent, runtime, job, work, drain, clean>>

--------------------------------------------------------------------------
(* The runtime. *)

AgentStarts(a) ==
  /\ runtime = "up" /\ hook[a] = "allow" /\ agent[a] = "none"
  /\ agent' = [agent EXCEPT ![a] = "live"]
  /\ UNCHANGED <<parent, native, found, paused, hook, runtime, job, work, drain, clean>>

(* An agent returns, or ends with the process it runs in. *)
AgentEnds(a) ==
  /\ agent[a] = "live"
  /\ agent' = [agent EXCEPT ![a] = "over"]
  /\ UNCHANGED <<parent, native, found, paused, hook, runtime, job, work, drain, clean>>

(* A call that was let through fails before its agent has started. *)
AgentFails(a) ==
  /\ runtime = "up" /\ hook[a] = "allow" /\ agent[a] = "none"
  /\ agent' = [agent EXCEPT ![a] = "never"]
  /\ UNCHANGED <<parent, native, found, paused, hook, runtime, job, work, drain, clean>>

RuntimeEnds ==
  /\ runtime = "up" /\ \A a \in Agents : agent[a] # "live"
  /\ runtime' = "gone"
  /\ UNCHANGED <<parent, native, found, paused, hook, agent, job, work, drain, clean>>

--------------------------------------------------------------------------
(* What the hook after the call makes of its response. *)

CallOver(a) == agent[a] \in {"over", "never"}

(* What a response may say.  Only that of a foreground call that is over says
   that it completed or failed; one of an interrupted or detached call says
   nothing about its agent, and any response can come late and again. *)
Responses(a) ==
  {"interrupted", "detached"} \cup IF CallOver(a) THEN {"completed", "failed", "quota"} ELSE {}

Terminal == {"completed", "failed", "quota"}

(* A record an earlier version left behind failed for want of quota. *)
Pauses(a, response) == response = "quota" \/ (a \in found /\ response = "failed")

(* One transaction pauses the pool, keeps the evidence and closes the record.
   A record an earlier version left behind is closed by any terminal response. *)
PostTool(a, response) ==
  /\ parent = "active" /\ native[a] \in ActiveNative /\ response \in Responses(a)
  /\ native' = [native EXCEPT ![a] = IF response \in Terminal THEN "closed" ELSE @]
  /\ found' = IF response \in Terminal THEN found \ {a} ELSE found
  /\ paused' = (paused \/ Pauses(a, response))
  /\ UNCHANGED <<parent, hook, agent, runtime, job, work, drain, clean>>

(* An earlier version of this hook wrote the result in one transaction and
   closed the record in another, and died in between. *)
LeftBehind(a) ==
  /\ parent = "active" /\ native[a] \in ActiveNative /\ CallOver(a)
  /\ found' = found \cup {a}
  /\ UNCHANGED <<parent, native, paused, hook, agent, runtime, job, work, drain, clean>>

(* An operator pauses the pool, or closes a thread verified to be over. *)
PausePool ==
  /\ parent \in {"active", "draining"} /\ ~paused
  /\ paused' = TRUE
  /\ UNCHANGED <<parent, native, found, hook, agent, runtime, job, work, drain, clean>>

CloseNative(a) ==
  /\ native[a] \in ActiveNative /\ CallOver(a)
  /\ native' = [native EXCEPT ![a] = "closed"]
  /\ UNCHANGED <<parent, found, paused, hook, agent, runtime, job, work, drain, clean>>

--------------------------------------------------------------------------
(* The external workers of the same ledger, as far as they matter here. *)

ReserveWorker(w) ==
  /\ parent = "active" /\ job[w] = "free" /\ ScopeFree(w)
  /\ Cardinality(HeldWorkers) < WorkerCap
  /\ job' = [job EXCEPT ![w] = "held"]
  /\ UNCHANGED <<parent, native, found, paused, hook, agent, runtime, work, drain, clean>>

WorkerStarts(w) ==
  /\ job[w] = "held" /\ work[w] = "none"
  /\ work' = [work EXCEPT ![w] = "live"]
  /\ UNCHANGED <<parent, native, found, paused, hook, agent, runtime, job, drain, clean>>

WorkerEnds(w) ==
  /\ work[w] = "live"
  /\ work' = [work EXCEPT ![w] = "over"]
  /\ UNCHANGED <<parent, native, found, paused, hook, agent, runtime, job, drain, clean>>

(* Terminal with proven cleanup. *)
WorkerSettles(w) ==
  /\ job[w] = "held" /\ work[w] # "live"
  /\ job' = [job EXCEPT ![w] = "released"]
  /\ UNCHANGED <<parent, native, found, paused, hook, agent, runtime, work, drain, clean>>

--------------------------------------------------------------------------
(* The drain. *)

(* The dispatcher, when its provider call returned, knows that the parent's
   process is gone; after an exception, and for an operator's command, nothing
   is known. *)
DrainBegins(d, evidence) ==
  /\ drain[d] = "idle"
  /\ evidence = "observed" => d = "dispatcher" /\ runtime = "gone"
  /\ drain' = [drain EXCEPT ![d] = evidence]
  /\ parent' = "draining"
  /\ UNCHANGED <<native, found, paused, hook, agent, runtime, job, work, clean>>

(* Faulty variant: the drain closes every record, whatever it has observed. *)
DrainedAlways(evidence) ==
  [a \in Agents |-> IF native[a] \in ActiveNative THEN "closed" ELSE native[a]]

Drained(evidence) ==
  [a \in Agents |->
    IF native[a] \in ActiveNative
    THEN IF evidence = "observed" THEN "closed" ELSE "uncertain"
    ELSE native[a]]

DrainCloses(d) ==
  /\ drain[d] \in {"observed", "unobserved"}
  /\ native' = Drained(drain[d])
  /\ clean' = (HeldWorkers = {} /\ (drain[d] = "observed" \/ ActiveAgents = {}))
  /\ parent' = "closed"
  /\ drain' = [drain EXCEPT ![d] = "done"]
  /\ UNCHANGED <<found, paused, hook, agent, runtime, job, work>>

(* A recovering command closes a parent whose children are all settled. *)
CloseSettled ==
  /\ parent \in {"active", "draining"} /\ HeldWorkers = {} /\ ActiveAgents = {}
  /\ runtime = "gone"
  /\ parent' = "closed" /\ clean' = TRUE
  /\ UNCHANGED <<native, found, paused, hook, agent, runtime, job, work, drain>>

--------------------------------------------------------------------------
NativeNext ==
  \/ \E a \in Agents :
       \/ HookReads(a) \/ Deny(a) \/ HookAgain(a) \/ AlreadyAdmitted(a)
       \/ \E answer \in {"allow", "deny"} : Reserve(a, answer)
       \/ AgentStarts(a) \/ AgentEnds(a) \/ AgentFails(a) \/ CloseNative(a) \/ LeftBehind(a)
       \/ \E response \in Responses(a) : PostTool(a, response)
  \/ RuntimeEnds \/ PausePool \/ CloseSettled
  \/ \E w \in Workers :
       ReserveWorker(w) \/ WorkerStarts(w) \/ WorkerEnds(w) \/ WorkerSettles(w)
  \/ \E d \in Drainers, evidence \in {"observed", "unobserved"} : DrainBegins(d, evidence)
  \/ \E d \in Drainers : DrainCloses(d)

NativeSpec == NativeInit /\ [][NativeNext]_nativeVars

--------------------------------------------------------------------------
(* The promise of WorkerSlots, kept by both kinds of leaves together. *)

LeaseOf(x) ==
  IF x \in Agents
  THEN IF native[x] = "absent" THEN [state |-> "free", kind |-> "no kind", scope |-> {}]
       ELSE [state |-> IF native[x] = "closed" THEN "released" ELSE "held",
             kind |-> "native", scope |-> Scope[x]]
  ELSE IF job[x] = "free" THEN [state |-> "free", kind |-> "no kind", scope |-> {}]
       ELSE [state |-> job[x], kind |-> "external", scope |-> Scope[x]]

Leaves == Agents \cup Workers

LeafWork(x) ==
  IF x \in Agents THEN IF agent[x] = "never" THEN "none" ELSE agent[x] ELSE work[x]

Slots == INSTANCE WorkerSlots WITH
  Jobs <- Leaves, Kinds <- {"native", "external"},
  Capacity <- [k \in {"native", "external"} |-> IF k = "native" THEN Cap ELSE WorkerCap],
  Scopes <- SUBSET Paths, NoKind <- "no kind",
  lease <- [x \in Leaves |-> LeaseOf(x)],
  work <- [x \in Leaves |-> LeafWork(x)]

(* However hooks are delayed, repeated or lost, and whoever drains: a leaf,
   native or external, runs only while it holds its slot and its scope against
   all others, at most once, and gives them up only when it is over. *)
NativeKeepsSlots == Slots!SlotsSpec

(* A parent that was closed without uncertainty has left nothing behind:
   nothing holds a slot, nothing runs and nothing can still start. *)
CleanCloseIsTrue ==
  parent = "closed" /\ clean =>
    /\ ActiveAgents \cup HeldWorkers = {}
    /\ \A x \in Leaves : LeafWork(x) # "live"
    /\ \A a \in Agents : ~(runtime = "up" /\ hook[a] = "allow" /\ agent[a] = "none")
=============================================================================
