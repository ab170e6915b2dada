------------------------------ MODULE PhaseTurns ------------------------------
(* The turns of a phase run of the second request schema: the five bindings   *)
(* of the default topology are performed in order, each by an endpoint that   *)
(* is routed when its turn comes. A turn that meets its provider's quota is   *)
(* routed again if it left no trace; a read-only turn is held against a       *)
(* mutation policy; the run ends with the claim whether its final worktree is *)
(* the one the work review saw. The operator may edit the worktree at any     *)
(* time. What a provider writes or says is abstract.                          *)
EXTENDS Integers, Sequences, FiniteSets

CONSTANTS
  Endpoints,   \* the capability catalog
  Providers,
  ProviderOf,  \* the provider of each endpoint
  Capable,     \* the endpoints that satisfy what each turn requires
  Bannered,    \* the providers whose quota message is recognized: codex
  MaxMade      \* bound: changes to the worktree in a run

Plan == 1
PlanReview == 2
Work == 3
WorkReview == 4
Closeout == 5
Turns    == Plan..Closeout
ReadOnly == {Plan, PlanReview, WorkReview}

ASSUME TurnsAssumption ==
  /\ ProviderOf \in [Endpoints -> Providers] /\ Bannered \subseteq Providers
  /\ Capable \in [Turns -> SUBSET Endpoints]
  /\ \A t \in Turns : IsFiniteSet(Capable[t])
  /\ MaxMade \in Nat

(* The policies "warn" and "allow" differ in what is displayed, the           *)
(* dispositions "accept" and "amend" in what the next turn is asked.          *)
Tolerances == {"block", "allow"}
Verdicts == {"accept", "reject"}
Unseen   == -1

VARIABLES
  tolerance,  \* the worktree part of the review mutation policy
  excluded,   \* providers excluded by what was observed at dispatch
  exhausted,  \* providers with a stored observation of an exhausted quota
  turn, step, \* the binding whose turn it is, and how far it is
  made,       \* every change of the worktree: the turn and the attempt, 0 for
              \* the operator; its length stands for the worktree's tree
  attempts,   \* invocation_attempts of each binding
  duty,       \* the semantic responsibilities of each binding
  seen,       \* the tree observed before and after the attempt, and its exit
  verdict,    \* the outcomes of the two reviews
  cand,       \* the trees the final claim is derived from
  drift,      \* whether a read-only turn was seen to change the worktree
  completion, \* the completion receipt
  status,     \* the run's row: its outcome if it failed
  claim,      \* the final tree, if the run says that it was reviewed
  blind       \* attempts whose tree could not be read afterwards (history)

Nothing == [before |-> Unseen, after |-> Unseen, exit |-> "none"]

turnVars == <<tolerance, excluded, exhausted, turn, step, made, attempts, duty, seen,
              verdict, cand, drift, completion, status, claim, blind>>

TurnsInit ==
  /\ tolerance \in Tolerances
  /\ excluded \in SUBSET Providers /\ exhausted \in SUBSET excluded
  /\ turn = Plan /\ step = "route" /\ made = <<>>
  /\ attempts = [t \in Turns |-> <<>>] /\ duty = [t \in Turns |-> "pending"]
  /\ seen = Nothing
  /\ verdict = [plan |-> "accept", work |-> "accept"]
  /\ cand = [produced |-> Unseen, expected |-> Unseen, observed |-> Unseen,
             entry |-> Unseen, terminal |-> Unseen]
  /\ drift = FALSE /\ completion = "none" /\ status = "running" /\ claim = Unseen
  /\ blind = {}

Tree       == Len(made)
Number     == Len(attempts[turn])
Provider(t, n) == ProviderOf[attempts[t][n].endpoint]
Actor      == Provider(turn, Number)

Marked(s)  == [attempts EXCEPT ![turn][Number].status = s]
Duty(s)    == duty' = [duty EXCEPT ![turn] = s]
Staged(e)  == [endpoint |-> e, status |-> "staged"]
Ends(s)    == status' = s /\ step' = "ended" /\ seen' = Nothing

Progress == <<attempts, duty, step, status>>
Findings == <<verdict, cand, drift, completion, claim>>
Routing  == <<tolerance, excluded, exhausted>>

(* Who reviews whom.                                                          *)
Reviews == {<<PlanReview, Plan>>, <<WorkReview, Work>>}

(* Faulty variant: the binding's first route decides, rerouted or not.        *)
IndependentOfFirst(e) ==
  \A r \in Reviews : turn = r[1] => ProviderOf[e] # Provider(r[2], 1)

(* A reviewer is not of the provider whose work it reviews: the latest route  *)
(* of the planner's or producer's binding decides.                            *)
Independent(e) ==
  \A r \in Reviews : turn = r[1] => ProviderOf[e] # Provider(r[2], Len(attempts[r[2]]))

(* The routes of this turn, some providers being excluded. Which of them the  *)
(* affinities rank first is left open.                                        *)
Routes(out) == {e \in Capable[turn] : ProviderOf[e] \notin out /\ Independent(e)}

(* A binding's first attempt goes by what was observed at dispatch.           *)
FirstRoute ==
  /\ status = "running" /\ step = "route"
  /\ \E e \in Routes(excluded) :
       attempts' = [attempts EXCEPT ![turn] = Append(@, Staged(e))]
  /\ step' = "staged"
  /\ UNCHANGED <<Routing, Findings, turn, made, duty, seen, status, blind>>

(* Any endpoint may fail its worker qualification when it is asked.           *)
NoRoute ==
  /\ status = "running" /\ step = "route"
  /\ Ends("no_route")
  /\ UNCHANGED <<Routing, Findings, turn, made, attempts, duty, blind>>

(* The trees a turn starts from are read before anything is launched.         *)
ReadTrees ==
  /\ status = "running" /\ step = "staged" /\ step' = "ready"
  /\ seen' = [Nothing EXCEPT !.before = Tree]
  /\ cand' = IF turn = Closeout /\ cand.entry = Unseen THEN [cand EXCEPT !.entry = Tree] ELSE cand
  /\ UNCHANGED <<Routing, turn, made, attempts, duty, verdict, drift, completion, status, claim, blind>>

(* An exception before the launch: a tree that cannot be read, a worker that  *)
(* is unavailable, a prompt or a session that cannot be prepared.             *)
PreLaunchFails ==
  /\ status = "running" /\ step \in {"staged", "ready"}
  /\ attempts' = Marked("failed_pre_launch") /\ Duty("failed") /\ Ends("failed_pre_launch")
  /\ UNCHANGED <<Routing, Findings, turn, made, blind>>

Launch ==
  /\ status = "running" /\ step = "ready" /\ step' = "running"
  /\ attempts' = Marked("running") /\ Duty("running")
  /\ UNCHANGED <<Routing, Findings, turn, made, seen, status, blind>>

Change(n) ==
  /\ Tree < MaxMade /\ made' = Append(made, [turn |-> turn, number |-> n])
  /\ UNCHANGED <<Routing, Findings, Progress, turn, seen, blind>>

(* A provider may write whatever the turn's posture is.                       *)
ProviderWrites == status = "running" /\ step = "running" /\ Change(Number)
OperatorEdits  == status = "running" /\ Change(0)

(* "quota" is an exit whose only trace is the recognized message; any other   *)
(* failing exit is "error", be it one with the message and other output.      *)
Exits == {"ok", "error"} \cup (IF Actor \in Bannered THEN {"quota"} ELSE {})

Return ==
  /\ status = "running" /\ step = "running" /\ step' = "returned"
  /\ \E x \in Exits : seen' = [seen EXCEPT !.exit = x]
  /\ UNCHANGED <<Routing, Findings, turn, made, attempts, duty, status, blind>>

(* The attempt and its responsibilities fail, and the run with them.          *)
Fail == attempts' = Marked("failed") /\ Duty("failed") /\ Ends("failed")

(* The runner itself raises: a launch error, a timeout, a broken pipe.        *)
RunnerRaises ==
  /\ status = "running" /\ step = "running" /\ Fail
  /\ UNCHANGED <<Routing, Findings, turn, made, blind>>

(* A mutating turn whose tree cannot be read afterwards is taken to have      *)
(* changed nothing.                                                           *)
After(readable) == IF readable THEN Tree ELSE seen.before

ObserveMutating ==
  /\ status = "running" /\ step = "returned" /\ turn \notin ReadOnly /\ step' = "observed"
  /\ \E readable \in BOOLEAN :
       /\ seen' = [seen EXCEPT !.after = After(readable)]
       /\ blind' = IF readable THEN blind ELSE blind \cup {<<turn, Number>>}
  /\ UNCHANGED <<Routing, Findings, turn, made, attempts, duty, status>>

(* Faulty variant: a tree that cannot be read is taken for an unchanged one.  *)
BlockedIfRead(readable, quiet) ==
  ~quiet \/ (readable /\ Tree # seen.before /\ tolerance = "block")

(* A read-only turn is blocked when its tree, the index or HEAD cannot be     *)
(* read, when the index or HEAD moved, or when the worktree moved and the     *)
(* policy is "block": also if the operator moved it.                          *)
Blocked(readable, quiet) ==
  ~readable \/ ~quiet \/ (Tree # seen.before /\ tolerance = "block")

ObserveReadOnly ==
  /\ status = "running" /\ step = "returned" /\ turn \in ReadOnly
  /\ \E readable, quiet \in BOOLEAN :
       /\ drift' = (drift \/ (readable /\ Tree # seen.before))
       /\ IF Blocked(readable, quiet)
          THEN Fail
          ELSE /\ step' = "observed" /\ seen' = [seen EXCEPT !.after = After(readable)]
               /\ UNCHANGED <<attempts, duty, status>>
  /\ UNCHANGED <<Routing, turn, made, verdict, cand, completion, claim, blind>>

(* Neither the observation's file nor its row could be written: the           *)
(* responsibilities keep the status they have.                                *)
SinksFail ==
  /\ status = "running" /\ step = "observed" /\ turn \in ReadOnly /\ seen.exit = "ok"
  /\ attempts' = Marked("failed") /\ Ends("failed")
  /\ UNCHANGED <<Routing, Findings, turn, made, duty, blind>>

(* Faulty variant: the recognized message alone makes a turn retryable.       *)
RetryableByBanner == seen.exit = "quota"

Substantive == seen.after # seen.before
Retryable   == ~Substantive /\ seen.exit = "quota"
Stored      == exhausted \cup (IF Retryable THEN {Actor} ELSE {})

Ceiling == LET n == Cardinality(Capable[turn]) IN IF n > 3 THEN 3 ELSE IF n = 0 THEN 1 ELSE n

(* handle_turn_failure and orchestrate_dynamic_retry: the next attempt is     *)
(* routed by fresh observations, which hold at least what is stored.          *)
Reroute ==
  /\ status = "running" /\ step = "observed" /\ seen.exit # "ok" /\ Retryable
  /\ Number < Ceiling
  /\ exhausted' = Stored
  /\ \E e \in Routes(Stored) :
       attempts' = [Marked("failed") EXCEPT ![turn] = Append(@, Staged(e))]
  /\ Duty("retry_pending") /\ step' = "staged"
  /\ UNCHANGED <<tolerance, excluded, Findings, turn, made, seen, status, blind>>

(* Not retryable, the ceiling reached, or no route by the fresh observations. *)
GiveUp ==
  /\ status = "running" /\ step = "observed" /\ seen.exit # "ok"
  /\ exhausted' = Stored /\ Fail
  /\ UNCHANGED <<tolerance, excluded, Findings, turn, made, blind>>

Succeeded(t) == status = "running" /\ step = "observed" /\ turn = t /\ seen.exit = "ok"

(* The attempt and its responsibilities are completed; the next turn begins,  *)
(* and what this one observed is read no more.                                *)
Complete ==
  /\ attempts' = Marked("completed") /\ Duty("completed") /\ UNCHANGED status /\ seen' = Nothing
  /\ IF turn = Closeout THEN step' = "last" /\ UNCHANGED turn ELSE step' = "route" /\ turn' = turn + 1

PlanDone ==
  /\ Succeeded(Plan) /\ Complete
  /\ UNCHANGED <<Routing, Findings, made, blind>>

PlanReviewed ==
  /\ Succeeded(PlanReview) /\ Complete
  /\ \E v \in Verdicts : verdict' = [verdict EXCEPT !.plan = v]
  /\ UNCHANGED <<Routing, made, cand, drift, completion, claim, blind>>

(* The producer's binding also holds the disposition of the plan review: it   *)
(* is taken when the producer has returned.                                   *)
WorkDone ==
  /\ Succeeded(Work)
  /\ IF verdict.plan = "reject"
     THEN Fail /\ UNCHANGED <<turn, cand>>
     ELSE Complete /\ cand' = [cand EXCEPT !.produced = seen.after]
  /\ UNCHANGED <<Routing, made, verdict, drift, completion, claim, blind>>

WorkReviewed ==
  /\ Succeeded(WorkReview) /\ Complete
  /\ \E v \in Verdicts : verdict' = [verdict EXCEPT !.work = v]
  /\ cand' = [cand EXCEPT !.expected = seen.before, !.observed = seen.after]
  /\ UNCHANGED <<Routing, made, drift, completion, claim, blind>>

(* The result cannot be parsed, not even after the one repair of a closeout   *)
(* result, or the closeout says that it did not complete.                     *)
ResultRefused ==
  /\ \E t \in {PlanReview, WorkReview, Closeout} : Succeeded(t)
  /\ Fail
  /\ UNCHANGED <<Routing, Findings, turn, made, blind>>

(* The receipt is stored before the attempt is completed; a rejected work     *)
(* review then fails the closeout.                                            *)
StoreReceipt ==
  /\ Succeeded(Closeout)
  /\ cand' = [cand EXCEPT !.terminal = seen.after]
  /\ completion' = IF verdict.work = "reject" THEN "rejected" ELSE "completed"
  /\ IF verdict.work = "reject"
     THEN Fail
     ELSE step' = "received" /\ UNCHANGED <<attempts, duty, seen, status>>
  /\ UNCHANGED <<Routing, turn, made, verdict, drift, claim, blind>>

CloseoutDone ==
  /\ status = "running" /\ step = "received" /\ Complete
  /\ UNCHANGED <<Routing, Findings, made, blind>>

(* Faulty variant: the final tree is not compared.                            *)
FreshAtReview ==
  /\ verdict.work # "reject"
  /\ cand.entry = cand.terminal
  /\ cand.produced = cand.expected /\ cand.expected = cand.observed

(* derive_final_candidate_freshness. The receipt it asks for is the verdict   *)
(* of the work review.                                                        *)
Fresh ==
  /\ verdict.work # "reject"
  /\ cand.entry = cand.terminal
  /\ cand.produced = Tree /\ cand.expected = Tree /\ cand.observed = Tree

EndTurns ==
  /\ status = "running" /\ step = "last" /\ step' = "finalize"
  /\ claim' = IF Fresh THEN Tree ELSE Unseen
  /\ UNCHANGED <<Routing, turn, made, attempts, duty, seen, verdict, cand, drift, completion, status, blind>>

(* Finalization binds the final tree or fails.                                *)
FinishRun ==
  /\ status = "running" /\ step = "finalize"
  /\ \E s \in {"completed", "failed"} : Ends(s)
  /\ UNCHANGED <<Routing, Findings, turn, made, attempts, duty, blind>>

(* The operator interrupts, or reading the final tree fails. An interruption  *)
(* between two statements outside the turn's handler leaves a staged attempt; *)
(* one during finalization ends the process like a kill, after which every    *)
(* row stays as it is.                                                        *)
Interrupt ==
  /\ status = "running" /\ Ends("interrupted")
  /\ \/ step \in {"route", "staged", "last"} /\ UNCHANGED <<attempts, duty>>
     \/ step \in {"staged", "ready"} /\ attempts' = Marked("failed_pre_launch") /\ Duty("failed")
     \/ step \in {"running", "returned", "observed", "received"} /\ attempts' = Marked("failed") /\ Duty("failed")
  /\ UNCHANGED <<Routing, Findings, turn, made, blind>>

TurnsNext ==
  \/ FirstRoute \/ NoRoute \/ ReadTrees \/ PreLaunchFails \/ Launch
  \/ ProviderWrites \/ OperatorEdits \/ Return \/ RunnerRaises
  \/ ObserveMutating \/ ObserveReadOnly \/ SinksFail \/ Reroute \/ GiveUp
  \/ PlanDone \/ PlanReviewed \/ WorkDone \/ WorkReviewed \/ ResultRefused
  \/ StoreReceipt \/ CloseoutDone \/ EndTurns \/ FinishRun \/ Interrupt

TurnsSpec == TurnsInit /\ [][TurnsNext]_turnVars

Attempt == [endpoint : Endpoints,
            status : {"staged", "running", "failed", "failed_pre_launch", "completed"}]

Duties  == {"pending", "running", "retry_pending", "failed", "completed"}
Reading == Nat \cup {Unseen}
Observation == [before : Reading, after : Reading, exit : {"none", "ok", "quota", "error"}]
CandidateTrees == [produced : Reading, expected : Reading, observed : Reading,
                   entry : Reading, terminal : Reading]

TurnsTypeOK ==
  /\ tolerance \in Tolerances
  /\ excluded \subseteq Providers /\ exhausted \subseteq Providers
  /\ turn \in Turns
  /\ step \in {"route", "staged", "ready", "running", "returned", "observed", "received",
              "last", "finalize", "ended"}
  /\ made \in Seq([turn : Turns, number : Nat]) /\ Tree <= MaxMade
  /\ attempts \in [Turns -> Seq(Attempt)]
  /\ duty \in [Turns -> Duties]
  /\ seen \in Observation
  /\ verdict \in [plan : Verdicts, work : Verdicts]
  /\ cand \in CandidateTrees
  /\ drift \in BOOLEAN /\ completion \in {"none", "completed", "rejected"}
  /\ status \in {"running", "no_route", "failed_pre_launch", "interrupted", "failed", "completed"}
  /\ claim \in Reading
  /\ blind \subseteq Turns \X Nat

(* The attempts of a turn that a provider was started for, and those that     *)
(* changed the worktree.                                                      *)
Launched(t) == {n \in DOMAIN attempts[t] : attempts[t][n].status \notin {"staged", "failed_pre_launch"}}
Wrote(t)    == {n \in DOMAIN attempts[t] : \E k \in DOMAIN made : made[k] = [turn |-> t, number |-> n]}

(* No provider reviews its own: the provider of a reviewer is not that of an  *)
(* attempt which completed what is reviewed, nor of one which wrote to the    *)
(* worktree on the way, retries included. Excepted are attempts whose tree    *)
(* could not be read afterwards (resolve_dynamic_route).                      *)
IndependentReview ==
  \A r \in Reviews : \A n \in Launched(r[1]), m \in DOMAIN attempts[r[2]] :
    \/ attempts[r[2]][m].status = "completed"
    \/ m \in Wrote(r[2]) /\ <<r[2], m>> \notin blind
    => Provider(r[1], n) # Provider(r[2], m)

(* A turn is tried again only over what its first attempt found: an attempt   *)
(* that was followed by another changed nothing, unless its tree could not be *)
(* read afterwards, and no provider is asked twice (is_substantive_failure,   *)
(* orchestrate_dynamic_retry).                                                *)
RetryIsClean ==
  \A t \in Turns : \A n, m \in DOMAIN attempts[t] : n < m =>
    /\ n \notin Wrote(t) \/ <<t, n>> \in blind
    /\ Provider(t, n) # Provider(t, m)

(* A run that is completed performed every binding, by its last attempt, has  *)
(* a completion receipt and no rejected review; what its read-only turns      *)
(* wrote was tolerated and is marked as drift. A run that ended in any way    *)
(* leaves no attempt running (_execute_v2_turns, its exception handler).      *)
EndedRunIsSettled ==
  /\ status = "completed" =>
       /\ \A t \in Turns : duty[t] = "completed" /\ attempts[t] # <<>> /\ \A n \in DOMAIN attempts[t] :
            attempts[t][n].status = IF n = Len(attempts[t]) THEN "completed" ELSE "failed"
       /\ completion = "completed" /\ verdict.plan # "reject" /\ verdict.work # "reject"
       /\ \A k \in DOMAIN made : made[k].turn \in ReadOnly /\ made[k].number # 0 =>
            drift /\ tolerance # "block"
  /\ status # "running" => \A t \in Turns : \A n \in DOMAIN attempts[t] :
       attempts[t][n].status # "running"

(* The final tree is claimed to be reviewed only if every change it holds was *)
(* made before the reviewer was asked, and the reviewer did not reject it     *)
(* (derive_final_candidate_freshness).                                        *)
ReviewedIsFinal ==
  claim # Unseen => verdict.work # "reject" /\ \A k \in 1..claim : made[k].turn <= Work

(* A rejected plan is not carried out: "cannot proceed to implementation"     *)
(* (v2_turns.py:920).                                                         *)
NoWorkOnRejectedPlan == verdict.plan = "reject" => Launched(Work) = {}
=============================================================================
