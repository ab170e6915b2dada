-------------------------- MODULE PhaseTurnsProofs --------------------------
(* Proofs about PhaseTurns for every catalog of endpoints and providers.     *)
EXTENDS PhaseTurns, TLAPS

(* Where a turn is. *)
Begun == {"staged", "ready", "running", "returned", "observed", "received"}
Asked == {"running", "returned", "observed", "received"}
Over  == {"last", "finalize"}

(* The attempts of past turns exist, those of later turns do not; an attempt  *)
(* that was followed by another failed, and one that runs is the current one. *)
AttemptsOK ==
  /\ step = "ended" <=> status # "running"
  /\ step \in Begun => attempts[turn] # <<>>
  /\ step = "route" => attempts[turn] = <<>>
  /\ step \in Over => turn = Closeout /\ attempts[turn] # <<>>
  /\ step = "received" => turn = Closeout
  /\ \A t \in Turns : (t < turn => attempts[t] # <<>>) /\ (t > turn => attempts[t] = <<>>)
  /\ \A t \in Turns : \A n \in DOMAIN attempts[t] :
       /\ n < Len(attempts[t]) => attempts[t][n].status = "failed"
       /\ attempts[t][n].status = "running" => t = turn /\ n = Number /\ step \in Asked

(* A change that a turn made is of one of its attempts, of one that was       *)
(* launched, and lies between the two readings of its tree.                   *)
WritesOK ==
  /\ \A k \in DOMAIN made : made[k].turn <= turn /\ made[k].number <= Len(attempts[made[k].turn])
  /\ seen.before <= Tree /\ seen.after <= Tree
  /\ step \in {"staged", "ready"} => Number \notin Wrote(turn)
  /\ step \in {"ready"} \cup Asked => seen.before # Unseen
  /\ step \in Asked => \A k \in 1..seen.before : made[k] # [turn |-> turn, number |-> Number]
  /\ step \in {"observed", "received"} =>
       /\ seen.after # Unseen
       /\ <<turn, Number>> \in blind \/
            \A k \in DOMAIN made : made[k] = [turn |-> turn, number |-> Number] => k <= seen.after
  /\ \A b \in blind : b[1] \notin ReadOnly

(* The providers a turn met at their quota are excluded for good.             *)
RoutesOK ==
  /\ \A t \in Turns : \A n \in DOMAIN attempts[t] : n < Len(attempts[t]) =>
       Provider(t, n) \in exhausted /\ (n \notin Wrote(t) \/ <<t, n>> \in blind)
  /\ \A t \in Turns : \A n, m \in DOMAIN attempts[t] : n < m => Provider(t, n) # Provider(t, m)
  /\ \A r \in Reviews : \A n \in DOMAIN attempts[r[1]] :
       Provider(r[1], n) # Provider(r[2], Len(attempts[r[2]]))

(* What the turns behind a run have settled.                                  *)
DoneOK ==
  /\ \A t \in Turns : t < turn \/ step \in Over \/ status = "completed" =>
       duty[t] = "completed" /\ attempts[t] # <<>> /\ attempts[t][Len(attempts[t])].status = "completed"
  /\ step \in {"received"} \cup Over \/ status = "completed" => completion = "completed" /\ verdict.work # "reject"
  /\ turn > Work \/ step \in Over \/ status = "completed" => verdict.plan # "reject"
  /\ \A k \in DOMAIN made : made[k].turn \in ReadOnly /\ made[k].number # 0 =>
       \/ drift /\ tolerance # "block"
       \/ made[k].turn = turn /\ step \in Asked \ {"observed", "received"}
       \/ status \notin {"running", "completed"}

(* The final claim is about the tree the producer left.                       *)
ClaimOK ==
  /\ cand.produced <= Tree /\ \A k \in 1..cand.produced : made[k].turn <= Work
  /\ claim # Unseen => step \in {"finalize", "ended"} /\ verdict.work # "reject" /\ claim = cand.produced

TurnsInv == TurnsTypeOK /\ AttemptsOK /\ WritesOK /\ RoutesOK /\ DoneOK /\ ClaimOK

Statuses == {"staged", "running", "failed", "failed_pre_launch", "completed"}

(* The invariant holds at first.                                              *)
LEMMA TurnsInitInv == TurnsInit => TurnsInv
<1> SUFFICES ASSUME TurnsInit PROVE TurnsInv
  OBVIOUS
<1> USE TurnsAssumption DEF TurnsInit
<1>1. TurnsTypeOK
  <2>1. made \in Seq([turn : Turns, number : Nat]) /\ Tree <= MaxMade
    BY DEF Tree
  <2>2. attempts \in [Turns -> Seq(Attempt)] /\ duty \in [Turns -> Duties]
    BY DEF Duties
  <2>3. seen \in Observation
    BY DEF Nothing, Observation, Reading
  <2>4. cand \in CandidateTrees
    BY DEF CandidateTrees, Reading
  <2>5. turn \in Turns /\ verdict \in [plan : Verdicts, work : Verdicts] /\ claim \in Reading
    BY DEF Turns, Plan, Closeout, Verdicts, Reading
  <2> QED BY <2>1, <2>2, <2>3, <2>4, <2>5 DEF TurnsTypeOK
<1>2. AttemptsOK
  BY DEF AttemptsOK, Begun, Asked, Over, Turns, Plan, Closeout, Number
<1>3. WritesOK
  BY DEF WritesOK, Asked, Nothing, Unseen, Tree, Number
<1>4. RoutesOK
  BY DEF RoutesOK, Reviews, Turns, Plan, PlanReview, Work, WorkReview, Closeout
<1>5. DoneOK
  BY DEF DoneOK, Over, Turns, Plan, Work, Closeout
<1>6. ClaimOK
  BY DEF ClaimOK, Unseen, Tree
<1> QED BY <1>1, <1>2, <1>3, <1>4, <1>5, <1>6 DEF TurnsInv

(* Marking the current attempt changes its status and nothing else.           *)
LEMMA MarkedFacts ==
  ASSUME TurnsTypeOK, attempts[turn] # <<>>, NEW s \in Statuses
  PROVE  /\ Marked(s) \in [Turns -> Seq(Attempt)]
         /\ \A t \in Turns : Len(Marked(s)[t]) = Len(attempts[t])
         /\ \A t \in Turns : \A n \in 1..Len(attempts[t]) :
              /\ Marked(s)[t][n].endpoint = attempts[t][n].endpoint
              /\ Marked(s)[t][n].status = IF t = turn /\ n = Number THEN s ELSE attempts[t][n].status
<1>1. attempts[turn] \in Seq(Attempt) /\ turn \in Turns /\ attempts \in [Turns -> Seq(Attempt)]
  BY DEF TurnsTypeOK
<1>2. Number \in 1..Len(attempts[turn]) /\ Number \in Nat
  BY <1>1 DEF Number
<1> DEFINE new == [attempts[turn][Number] EXCEPT !.status = s]
           row == [attempts[turn] EXCEPT ![Number] = new]
<1>3. attempts[turn][Number] \in Attempt
  BY <1>1, <1>2
<1>4. new \in Attempt /\ new.endpoint = attempts[turn][Number].endpoint /\ new.status = s
  BY <1>3 DEF Attempt, Statuses
<1>5. row \in Seq(Attempt) /\ Len(row) = Len(attempts[turn])
      /\ \A n \in 1..Len(attempts[turn]) : row[n] = IF n = Number THEN new ELSE attempts[turn][n]
  <2> HIDE DEF new
  <2> QED BY <1>1, <1>2, <1>4
<1>6. Marked(s) = [attempts EXCEPT ![turn] = row]
  BY <1>1, <1>2 DEF Marked
<1> HIDE DEF row, new
<1> QED BY <1>1, <1>2, <1>4, <1>5, <1>6

(* The current turn gets another attempt.                                     *)
LEMMA AppendedFacts ==
  ASSUME NEW old \in [Turns -> Seq(Attempt)], NEW u \in Turns, NEW e \in Endpoints
  PROVE  LET new == [old EXCEPT ![u] = Append(@, Staged(e))]
         IN /\ new \in [Turns -> Seq(Attempt)]
            /\ \A t \in Turns : Len(new[t]) = IF t = u THEN Len(old[u]) + 1 ELSE Len(old[t])
            /\ \A t \in Turns : \A n \in 1..Len(old[t]) : new[t][n] = old[t][n]
            /\ new[u][Len(old[u]) + 1] = Staged(e)
<1>1. Staged(e) \in Attempt
  BY DEF Staged, Attempt
<1>2. old[u] \in Seq(Attempt)
  OBVIOUS
<1> DEFINE row == Append(old[u], Staged(e))
<1>3. row \in Seq(Attempt) /\ Len(row) = Len(old[u]) + 1 /\ row[Len(old[u]) + 1] = Staged(e)
      /\ \A n \in 1..Len(old[u]) : row[n] = old[u][n]
  <2> HIDE DEF Staged
  <2> QED BY <1>1, <1>2
<1> HIDE DEF row
<1>4. [old EXCEPT ![u] = Append(@, Staged(e))] = [old EXCEPT ![u] = row]
  BY DEF row
<1> QED BY <1>3, <1>4

(* Fields of the records change within their types.                           *)
LEMMA FieldFacts ==
  ASSUME TurnsTypeOK
  PROVE  /\ \A a \in Reading : /\ [seen EXCEPT !.after = a] \in Observation
                               /\ [Nothing EXCEPT !.before = a] \in Observation
                               /\ [cand EXCEPT !.entry = a] \in CandidateTrees
                               /\ [cand EXCEPT !.produced = a] \in CandidateTrees
                               /\ [cand EXCEPT !.terminal = a] \in CandidateTrees
         /\ \A a, b \in Reading : [cand EXCEPT !.expected = a, !.observed = b] \in CandidateTrees
         /\ \A x \in {"none", "ok", "quota", "error"} : [seen EXCEPT !.exit = x] \in Observation
         /\ \A v \in Verdicts : /\ [verdict EXCEPT !.plan = v] \in [plan : Verdicts, work : Verdicts]
                                /\ [verdict EXCEPT !.work = v] \in [plan : Verdicts, work : Verdicts]
         /\ \A s \in Duties : [duty EXCEPT ![turn] = s] \in [Turns -> Duties]
         /\ Nothing \in Observation
<1>1. Nothing \in Observation
  BY DEF Nothing, Observation, Reading
<1>2. \A a \in Reading : [seen EXCEPT !.after = a] \in Observation /\ [Nothing EXCEPT !.before = a] \in Observation
  BY <1>1 DEF TurnsTypeOK, Observation
<1>3. \A x \in {"none", "ok", "quota", "error"} : [seen EXCEPT !.exit = x] \in Observation
  BY DEF TurnsTypeOK, Observation
<1>4. \A a \in Reading : /\ [cand EXCEPT !.entry = a] \in CandidateTrees
                         /\ [cand EXCEPT !.produced = a] \in CandidateTrees
                         /\ [cand EXCEPT !.terminal = a] \in CandidateTrees
  BY DEF TurnsTypeOK, CandidateTrees
<1>5. \A a, b \in Reading : [cand EXCEPT !.expected = a, !.observed = b] \in CandidateTrees
  BY DEF TurnsTypeOK, CandidateTrees
<1>6. \A v \in Verdicts : /\ [verdict EXCEPT !.plan = v] \in [plan : Verdicts, work : Verdicts]
                          /\ [verdict EXCEPT !.work = v] \in [plan : Verdicts, work : Verdicts]
  BY DEF TurnsTypeOK
<1>7. \A s \in Duties : [duty EXCEPT ![turn] = s] \in [Turns -> Duties]
  BY DEF TurnsTypeOK
<1> QED BY <1>1, <1>2, <1>3, <1>4, <1>5, <1>6, <1>7

(* Types are kept by every step.                                              *)
LEMMA TurnsTypeStep ==
  ASSUME TurnsInv, [TurnsNext]_turnVars
  PROVE  TurnsTypeOK'
<1>a. TurnsTypeOK /\ (step \in Begun => attempts[turn] # <<>>)
  BY DEF TurnsInv, AttemptsOK
<1>m. step \in Begun => \A s \in Statuses : Marked(s) \in [Turns -> Seq(Attempt)]
  BY <1>a, MarkedFacts
<1>t. /\ Tree \in Nat /\ Tree \in Reading /\ Unseen \in Reading /\ Number \in Nat
      /\ seen.before \in Reading /\ seen.after \in Reading
      /\ turn \in Turns /\ (turn # Closeout => turn + 1 \in Turns)
      /\ {<<turn, Number>>} \subseteq Turns \X Nat
  BY <1>a DEF TurnsTypeOK, Observation, Tree, Number, Reading, Turns, Plan, Closeout
<1>k. /\ \A a \in Reading : /\ [seen EXCEPT !.after = a] \in Observation
                            /\ [Nothing EXCEPT !.before = a] \in Observation
                            /\ [cand EXCEPT !.entry = a] \in CandidateTrees
                            /\ [cand EXCEPT !.produced = a] \in CandidateTrees
                            /\ [cand EXCEPT !.terminal = a] \in CandidateTrees
      /\ \A a, b \in Reading : [cand EXCEPT !.expected = a, !.observed = b] \in CandidateTrees
      /\ \A x \in {"none", "ok", "quota", "error"} : [seen EXCEPT !.exit = x] \in Observation
      /\ \A v \in Verdicts : /\ [verdict EXCEPT !.plan = v] \in [plan : Verdicts, work : Verdicts]
                             /\ [verdict EXCEPT !.work = v] \in [plan : Verdicts, work : Verdicts]
      /\ \A s \in Duties : [duty EXCEPT ![turn] = s] \in [Turns -> Duties]
      /\ Nothing \in Observation
  BY <1>a, FieldFacts
<1>c. UNCHANGED turnVars => TurnsTypeOK'
  BY <1>a DEF turnVars, TurnsTypeOK, Tree
<1>1. FirstRoute => TurnsTypeOK'
  <2> SUFFICES ASSUME FirstRoute PROVE TurnsTypeOK'
    OBVIOUS
  <2>1. PICK e \in Endpoints : attempts' = [attempts EXCEPT ![turn] = Append(@, Staged(e))]
    BY <1>a, TurnsAssumption DEF FirstRoute, Routes, TurnsTypeOK
  <2>2. attempts' \in [Turns -> Seq(Attempt)]
    BY <1>a, <2>1, AppendedFacts DEF TurnsTypeOK
  <2> QED BY <1>a, <2>2 DEF FirstRoute, TurnsTypeOK, Routing, Findings, Tree
<1>2. NoRoute => TurnsTypeOK'
  BY <1>a, <1>m, <1>t, <1>k DEF NoRoute, TurnsTypeOK, Tree, Routing, Findings, Ends
<1>3. ReadTrees => TurnsTypeOK'
  BY <1>a, <1>m, <1>t, <1>k DEF ReadTrees, TurnsTypeOK, Tree, Routing, Findings
<1>4. PreLaunchFails => TurnsTypeOK'
  BY <1>a, <1>m, <1>t, <1>k DEF PreLaunchFails, TurnsTypeOK, Tree, Routing, Findings, Ends, Duty, Begun, Statuses, Duties
<1>5. Launch => TurnsTypeOK'
  BY <1>a, <1>m, <1>t, <1>k DEF Launch, TurnsTypeOK, Tree, Routing, Findings, Duty, Begun, Statuses, Duties
<1>6. ProviderWrites => TurnsTypeOK'
  <2> SUFFICES ASSUME ProviderWrites PROVE TurnsTypeOK'
    OBVIOUS
  <2>1. PICK i \in Nat : Tree < MaxMade /\ made' = Append(made, [turn |-> turn, number |-> i])
    BY <1>t DEF ProviderWrites, Change
  <2>2. made' \in Seq([turn : Turns, number : Nat]) /\ Len(made') <= MaxMade
    BY <1>a, <2>1, TurnsAssumption DEF TurnsTypeOK, Tree
  <2> QED BY <1>a, <2>2 DEF ProviderWrites, Change, TurnsTypeOK, Routing, Progress, Findings, Tree
<1>7. OperatorEdits => TurnsTypeOK'
  <2> SUFFICES ASSUME OperatorEdits PROVE TurnsTypeOK'
    OBVIOUS
  <2>1. PICK i \in Nat : Tree < MaxMade /\ made' = Append(made, [turn |-> turn, number |-> i])
    BY <1>t DEF OperatorEdits, Change
  <2>2. made' \in Seq([turn : Turns, number : Nat]) /\ Len(made') <= MaxMade
    BY <1>a, <2>1, TurnsAssumption DEF TurnsTypeOK, Tree
  <2> QED BY <1>a, <2>2 DEF OperatorEdits, Change, TurnsTypeOK, Routing, Progress, Findings, Tree
<1>8. Return => TurnsTypeOK'
  BY <1>a, <1>m, <1>t, <1>k DEF Return, TurnsTypeOK, Tree, Routing, Findings, Exits
<1>9. RunnerRaises => TurnsTypeOK'
  BY <1>a, <1>m, <1>t, <1>k DEF RunnerRaises, TurnsTypeOK, Tree, Routing, Findings, Fail, Ends, Duty, Begun, Statuses, Duties
<1>10. ObserveMutating => TurnsTypeOK'
  BY <1>a, <1>m, <1>t, <1>k DEF ObserveMutating, TurnsTypeOK, Tree, Routing, Findings, After
<1>11. ObserveReadOnly => TurnsTypeOK'
  <2> SUFFICES ASSUME ObserveReadOnly PROVE TurnsTypeOK'
    OBVIOUS
  <2>1. drift' \in BOOLEAN
    BY DEF ObserveReadOnly
  <2>2. attempts' \in [Turns -> Seq(Attempt)] /\ duty' \in [Turns -> Duties]
    BY <1>a, <1>m, <1>k DEF ObserveReadOnly, TurnsTypeOK, Fail, Duty, Begun, Statuses, Duties
  <2>3. seen' \in Observation
    BY <1>t, <1>k DEF ObserveReadOnly, After, Fail, Ends
  <2>4. /\ step' \in {"ended", "observed"}
        /\ status' \in {"failed", status}
    BY DEF ObserveReadOnly, Fail, Ends
  <2> QED BY <1>a, <2>1, <2>2, <2>3, <2>4 DEF ObserveReadOnly, TurnsTypeOK, Routing, Tree
<1>12. SinksFail => TurnsTypeOK'
  BY <1>a, <1>m, <1>t, <1>k DEF SinksFail, TurnsTypeOK, Tree, Routing, Findings, Ends, Begun, Statuses
<1>x. step \in Begun => Stored \subseteq Providers
  <2> SUFFICES ASSUME step \in Begun PROVE Stored \subseteq Providers
    OBVIOUS
  <2>1. attempts[turn] \in Seq(Attempt) /\ attempts[turn] # <<>>
    BY <1>a DEF TurnsTypeOK
  <2>2. attempts[turn][Number] \in Attempt
    BY <2>1 DEF Number
  <2>3. Actor \in Providers
    BY <2>2, TurnsAssumption DEF Actor, Provider, Attempt
  <2> QED BY <1>a, <2>3 DEF Stored, TurnsTypeOK
<1>13. Reroute => TurnsTypeOK'
  <2> SUFFICES ASSUME Reroute PROVE TurnsTypeOK'
    OBVIOUS
  <2>1. PICK e \in Endpoints : attempts' = [Marked("failed") EXCEPT ![turn] = Append(@, Staged(e))]
    BY <1>a, TurnsAssumption DEF Reroute, Routes, TurnsTypeOK
  <2>2. attempts' \in [Turns -> Seq(Attempt)]
    <3>1. Marked("failed") \in [Turns -> Seq(Attempt)]
      BY <1>m DEF Reroute, Begun, Statuses
    <3> QED BY <1>t, <2>1, <3>1, AppendedFacts
  <2>3. exhausted' \subseteq Providers
    BY <1>x DEF Reroute, Begun
  <2> QED BY <1>a, <1>k, <2>2, <2>3 DEF Reroute, TurnsTypeOK, Findings, Duty, Duties, Tree
<1>14. GiveUp => TurnsTypeOK'
  BY <1>a, <1>m, <1>k, <1>x DEF GiveUp, Fail, Ends, Duty, Duties, Begun, Statuses, TurnsTypeOK, Findings, Tree
<1>15. PlanDone => TurnsTypeOK'
  BY <1>a, <1>m, <1>t, <1>k DEF PlanDone, TurnsTypeOK, Tree, Routing, Findings, Succeeded, Complete, Duty, Begun, Statuses, Duties
<1>16. PlanReviewed => TurnsTypeOK'
  BY <1>a, <1>m, <1>t, <1>k DEF PlanReviewed, TurnsTypeOK, Tree, Routing, Succeeded, Complete, Duty, Begun, Statuses, Duties
<1>17. WorkDone => TurnsTypeOK'
  <2> SUFFICES ASSUME WorkDone PROVE TurnsTypeOK'
    OBVIOUS
  <2>1. cand' \in CandidateTrees
    BY <1>a, <1>t, <1>k DEF WorkDone, TurnsTypeOK
  <2>2. /\ attempts' \in [Turns -> Seq(Attempt)] /\ duty' \in [Turns -> Duties]
        /\ seen' \in Observation /\ turn' \in Turns
        /\ step' \in {"ended", "route", "last"} /\ status' \in {"failed", status}
    BY <1>a, <1>m, <1>t, <1>k DEF WorkDone, Succeeded, Complete, Fail, Ends, Duty, Begun, Statuses, Duties
  <2> QED BY <1>a, <2>1, <2>2 DEF WorkDone, TurnsTypeOK, Routing, Tree
<1>18. WorkReviewed => TurnsTypeOK'
  <2> SUFFICES ASSUME WorkReviewed PROVE TurnsTypeOK'
    OBVIOUS
  <2>1. cand' \in CandidateTrees /\ verdict' \in [plan : Verdicts, work : Verdicts]
    BY <1>a, <1>t, <1>k DEF WorkReviewed
  <2>2. /\ attempts' \in [Turns -> Seq(Attempt)] /\ duty' \in [Turns -> Duties]
        /\ seen' \in Observation /\ turn' \in Turns /\ step' \in {"route", "last"} /\ status' = status
    BY <1>a, <1>m, <1>t, <1>k DEF WorkReviewed, Succeeded, Complete, Duty, Begun, Statuses, Duties
  <2> QED BY <1>a, <2>1, <2>2 DEF WorkReviewed, TurnsTypeOK, Routing, Tree
<1>19. ResultRefused => TurnsTypeOK'
  BY <1>a, <1>m, <1>t, <1>k DEF ResultRefused, TurnsTypeOK, Tree, Routing, Findings, Fail, Ends, Succeeded, Duty, Begun, Statuses, Duties
<1>20. StoreReceipt => TurnsTypeOK'
  <2> SUFFICES ASSUME StoreReceipt PROVE TurnsTypeOK'
    OBVIOUS
  <2>1. cand' \in CandidateTrees
    BY <1>a, <1>t, <1>k DEF StoreReceipt
  <2>2. /\ attempts' \in [Turns -> Seq(Attempt)] /\ duty' \in [Turns -> Duties]
        /\ seen' \in Observation /\ step' \in {"ended", "received"} /\ status' \in {"failed", status}
        /\ completion' \in {"completed", "rejected"}
    BY <1>a, <1>m, <1>k DEF StoreReceipt, TurnsTypeOK, Succeeded, Fail, Ends, Duty, Begun, Statuses, Duties
  <2> QED BY <1>a, <2>1, <2>2 DEF StoreReceipt, TurnsTypeOK, Routing, Tree
<1>21. CloseoutDone => TurnsTypeOK'
  BY <1>a, <1>m, <1>t, <1>k DEF CloseoutDone, TurnsTypeOK, Tree, Routing, Findings, Succeeded, Complete, Duty, Begun, Statuses, Duties
<1>22. EndTurns => TurnsTypeOK'
  BY <1>a, <1>m, <1>t, <1>k DEF EndTurns, TurnsTypeOK, Tree, Routing
<1>23. FinishRun => TurnsTypeOK'
  BY <1>a, <1>m, <1>t, <1>k DEF FinishRun, TurnsTypeOK, Tree, Routing, Findings, Ends
<1>24. Interrupt => TurnsTypeOK'
  BY <1>a, <1>m, <1>t, <1>k DEF Interrupt, TurnsTypeOK, Tree, Routing, Findings, Ends, Duty, Begun, Statuses, Duties
<1> QED BY <1>c, <1>1, <1>2, <1>3, <1>4, <1>5, <1>6, <1>7, <1>8, <1>9, <1>10, <1>11, <1>12, <1>13, <1>14, <1>15, <1>16, <1>17, <1>18, <1>19, <1>20, <1>21, <1>22, <1>23, <1>24 DEF TurnsNext

(* The attempts stay, but for the status of the current one.                  *)
SameRoutes ==
  /\ \A t \in Turns : Len(attempts'[t]) = Len(attempts[t])
  /\ \A t \in Turns : \A n \in 1..Len(attempts[t]) :
       /\ attempts'[t][n].endpoint = attempts[t][n].endpoint
       /\ (t = turn /\ n = Number) \/ attempts'[t][n].status = attempts[t][n].status

(* Every turn's attempts are a sequence, the empty one if it has none.        *)
LEMMA Lengths ==
  ASSUME TurnsTypeOK
  PROVE  /\ \A t \in Turns : /\ Len(attempts[t]) \in Nat /\ DOMAIN attempts[t] = 1..Len(attempts[t])
                             /\ attempts[t] = <<>> <=> Len(attempts[t]) = 0
         /\ turn \in Turns /\ turn \in Nat /\ Number = Len(attempts[turn]) /\ Tree \in Nat
         /\ DOMAIN made = 1..Tree
         /\ \A k \in 1..Tree : made[k].turn \in Turns /\ made[k].number \in Nat
         /\ seen.before \in Reading /\ seen.after \in Reading /\ cand.produced \in Reading
<1>1. \A t \in Turns : attempts[t] \in Seq(Attempt)
  BY DEF TurnsTypeOK
<1>2. \A t \in Turns : /\ Len(attempts[t]) \in Nat /\ DOMAIN attempts[t] = 1..Len(attempts[t])
                       /\ attempts[t] = <<>> <=> Len(attempts[t]) = 0
  BY <1>1
<1>3. turn \in Turns /\ turn \in Nat /\ Number = Len(attempts[turn])
  BY DEF TurnsTypeOK, Turns, Plan, Closeout, Number
<1>4. made \in Seq([turn : Turns, number : Nat])
  BY DEF TurnsTypeOK
<1>5. Tree \in Nat /\ DOMAIN made = 1..Tree /\ \A k \in 1..Tree : made[k] \in [turn : Turns, number : Nat]
  <2> DEFINE T == [turn : Turns, number : Nat]
  <2>1. made \in Seq(T)
    BY <1>4
  <2> HIDE DEF T
  <2>2. Tree \in Nat /\ DOMAIN made = 1..Tree /\ \A k \in 1..Tree : made[k] \in T
    BY <2>1 DEF Tree
  <2> QED BY <2>2 DEF T
<1>6. seen.before \in Reading /\ seen.after \in Reading /\ cand.produced \in Reading
  BY DEF TurnsTypeOK, Observation, CandidateTrees
<1> QED BY <1>2, <1>3, <1>5, <1>6

(* Marking the current attempt, or nothing, keeps the routes.                 *)
LEMMA MarkingKeeps ==
  ASSUME TurnsTypeOK, attempts[turn] # <<>>, NEW s \in Statuses, attempts' = Marked(s)
  PROVE  SameRoutes /\ attempts'[turn][Number].status = s
<1>1. Number \in 1..Len(attempts[turn]) /\ turn \in Turns
  BY Lengths
<1> QED BY <1>1, MarkedFacts DEF SameRoutes

(* A step that leaves the attempts alone keeps the routes.                    *)
LEMMA NothingKeeps == attempts' = attempts => SameRoutes
BY DEF SameRoutes

(* The routes of a run stay good while no route is added to them.             *)
LEMMA RoutesKept ==
  ASSUME TurnsTypeOK, TurnsTypeOK', AttemptsOK, RoutesOK, SameRoutes, made' = made,
         blind \subseteq blind', exhausted \subseteq exhausted'
  PROVE  RoutesOK'
<1>1. \A t \in Turns : DOMAIN attempts'[t] = DOMAIN attempts[t] /\ DOMAIN attempts[t] = 1..Len(attempts[t])
                       /\ Len(attempts'[t]) = Len(attempts[t])
  <2>1. \A t \in Turns : attempts[t] \in Seq(Attempt) /\ attempts'[t] \in Seq(Attempt)
    BY DEF TurnsTypeOK
  <2> QED BY <2>1 DEF SameRoutes
<1>2. \A t \in Turns : \A n \in DOMAIN attempts[t] : Provider(t, n)' = Provider(t, n)
  BY <1>1 DEF SameRoutes, Provider
<1>3. \A t \in Turns : Wrote(t)' = Wrote(t)
  BY <1>1 DEF Wrote
<1>4. \A t \in Turns : \A n \in DOMAIN attempts'[t] : n < Len(attempts'[t]) =>
        Provider(t, n)' \in exhausted' /\ (n \notin Wrote(t)' \/ <<t, n>> \in blind')
  BY <1>1, <1>2, <1>3 DEF RoutesOK
<1>5. \A t \in Turns : \A n, m \in DOMAIN attempts'[t] : n < m => Provider(t, n)' # Provider(t, m)'
  BY <1>1, <1>2 DEF RoutesOK
<1>6. \A r \in Reviews : \A n \in DOMAIN attempts'[r[1]] :
        Provider(r[1], n)' # Provider(r[2], Len(attempts[r[2]]))'
  <2> SUFFICES ASSUME NEW r \in Reviews, NEW n \in DOMAIN attempts'[r[1]]
               PROVE  Provider(r[1], n)' # Provider(r[2], Len(attempts[r[2]]))'
    OBVIOUS
  <2>1. r[1] \in Turns /\ r[2] \in Turns /\ r[2] < r[1]
    BY DEF Reviews, Turns, Plan, PlanReview, Work, WorkReview, Closeout
  <2>2. n \in DOMAIN attempts[r[1]] /\ attempts[r[1]] # <<>>
    BY <1>1, <2>1
  <2>3. r[1] <= turn
    BY <2>1, <2>2, Lengths DEF AttemptsOK, Turns
  <2>4. attempts[r[2]] # <<>>
    BY <2>1, <2>3, Lengths DEF AttemptsOK, Turns, Plan, Closeout
  <2>5. Len(attempts[r[2]]) \in DOMAIN attempts[r[2]]
    BY <2>1, <2>4, Lengths
  <2>6. Provider(r[1], n) # Provider(r[2], Len(attempts[r[2]]))
    BY <2>2 DEF RoutesOK
  <2>7. Provider(r[2], Len(attempts[r[2]]))' = Provider(r[2], Len(attempts[r[2]]))
    BY <1>1, <1>2, <2>1, <2>5 DEF Provider
  <2> QED BY <1>2, <2>1, <2>2, <2>6, <2>7
<1> QED BY <1>4, <1>5, <1>6 DEF RoutesOK

(* A run that ends without success keeps everything it knows.                 *)
LEMMA EndingStep ==
  ASSUME TurnsInv, TurnsTypeOK', SameRoutes, status = "running",
         status' \notin {"running", "completed"}, step' = "ended", seen' = Nothing,
         exhausted \subseteq exhausted', \A t \in Turns \ {turn} : duty'[t] = duty[t],
         UNCHANGED <<turn, made, blind, verdict, claim>>, cand'.produced = cand.produced,
         step \in Begun => attempts'[turn][Number].status # "running",
         step \notin Begun => attempts' = attempts
  PROVE  AttemptsOK' /\ WritesOK' /\ RoutesOK' /\ DoneOK' /\ ClaimOK'
<1>1. TurnsTypeOK /\ AttemptsOK /\ WritesOK /\ RoutesOK /\ DoneOK /\ ClaimOK
  BY DEF TurnsInv
<1>2. /\ \A t \in Turns : DOMAIN attempts'[t] = DOMAIN attempts[t] /\ DOMAIN attempts[t] = 1..Len(attempts[t])
                          /\ Len(attempts'[t]) = Len(attempts[t]) /\ (attempts'[t] = <<>> <=> attempts[t] = <<>>)
      /\ Number' = Number /\ Tree' = Tree
  <2>1. \A t \in Turns : attempts[t] \in Seq(Attempt) /\ attempts'[t] \in Seq(Attempt)
    BY <1>1 DEF TurnsTypeOK
  <2> QED BY <1>1, <2>1, Lengths DEF SameRoutes, Number, Tree
<1>3. AttemptsOK'
  <2>1. step' \notin Begun /\ step' \notin Over /\ step' \notin {"route", "received"}
    BY DEF Begun, Over
  <2>2. \A t \in Turns : (t < turn' => attempts'[t] # <<>>) /\ (t > turn' => attempts'[t] = <<>>)
    BY <1>1, <1>2 DEF AttemptsOK
  <2>3. ASSUME NEW t \in Turns, NEW n \in DOMAIN attempts'[t]
        PROVE  /\ n < Len(attempts'[t]) => attempts'[t][n].status = "failed"
               /\ attempts'[t][n].status # "running"
    <3>1. n \in 1..Len(attempts[t]) /\ (t = turn => Len(attempts[t]) = Number)
      BY <1>2 DEF Number
    <3>2. ~(t = turn /\ n = Number) => attempts'[t][n].status = attempts[t][n].status
      BY <3>1 DEF SameRoutes
    <3>3. attempts'[t][n].status # "running"
      BY <1>1, <1>2, <3>1, <3>2 DEF AttemptsOK, Asked, Begun
    <3> QED BY <1>1, <1>2, <3>1, <3>2, <3>3 DEF AttemptsOK
  <2> QED BY <2>1, <2>2, <2>3 DEF AttemptsOK
<1>4. WritesOK'
  <2>1. \A k \in DOMAIN made' : made'[k].turn <= turn' /\ made'[k].number <= Len(attempts'[made'[k].turn])
    BY <1>1, <1>2, Lengths DEF WritesOK
  <2>2. seen'.before <= Tree' /\ seen'.after <= Tree'
    BY <1>1, <1>2, Lengths DEF Nothing, Unseen
  <2> QED BY <1>1, <2>1, <2>2 DEF WritesOK, Asked
<1>5. RoutesOK'
  BY <1>1, RoutesKept
<1>6. DoneOK'
  <2>1. ASSUME NEW t \in Turns, t < turn
        PROVE  duty'[t] = "completed" /\ attempts'[t] # <<>> /\ attempts'[t][Len(attempts'[t])].status = "completed"
    <3>1. duty[t] = "completed" /\ attempts[t] # <<>> /\ attempts[t][Len(attempts[t])].status = "completed"
      BY <1>1, <2>1 DEF DoneOK
    <3>2. t # turn /\ Len(attempts[t]) \in 1..Len(attempts[t])
      BY <1>1, <2>1, <3>1, Lengths
    <3> QED BY <1>2, <3>1, <3>2 DEF SameRoutes
  <2>2. turn' > Work => verdict'.plan # "reject"
    BY <1>1 DEF DoneOK
  <2> QED BY <2>1, <2>2 DEF DoneOK, Over
<1>7. ClaimOK'
  BY <1>1, <1>2, Lengths DEF ClaimOK
<1> QED BY <1>3, <1>4, <1>5, <1>6, <1>7

(* What is the same of the attempts after a step that adds none.              *)
LEMMA KeptLengths ==
  ASSUME TurnsTypeOK, TurnsTypeOK', SameRoutes, made' = made
  PROVE  /\ \A t \in Turns : /\ DOMAIN attempts'[t] = DOMAIN attempts[t] /\ DOMAIN attempts[t] = 1..Len(attempts[t])
                             /\ Len(attempts'[t]) = Len(attempts[t]) /\ (attempts'[t] = <<>> <=> attempts[t] = <<>>)
         /\ Tree' = Tree
<1>1. \A t \in Turns : attempts[t] \in Seq(Attempt) /\ attempts'[t] \in Seq(Attempt)
  BY DEF TurnsTypeOK
<1> QED BY <1>1 DEF SameRoutes, Tree

(* Within a turn the attempts, the routes and the claim stay good.            *)
LEMMA WithinStep ==
  ASSUME TurnsInv, TurnsTypeOK', SameRoutes, status = "running",
         UNCHANGED <<turn, made, verdict, claim, status, exhausted>>, cand'.produced = cand.produced,
         blind \subseteq blind', step \in Begun, step' \in Begun, step' = "received" => turn = Closeout,
         attempts'[turn][Number].status = "running" => step' \in Asked
  PROVE  AttemptsOK' /\ RoutesOK' /\ ClaimOK'
<1>1. TurnsTypeOK /\ AttemptsOK /\ RoutesOK /\ ClaimOK
  BY DEF TurnsInv
<1>2. /\ \A t \in Turns : DOMAIN attempts'[t] = DOMAIN attempts[t] /\ DOMAIN attempts[t] = 1..Len(attempts[t])
                          /\ Len(attempts'[t]) = Len(attempts[t]) /\ (attempts'[t] = <<>> <=> attempts[t] = <<>>)
      /\ Number' = Number /\ Tree' = Tree
  BY <1>1, KeptLengths, Lengths DEF Number
<1>3. AttemptsOK'
  <2>1. step' \notin Over /\ step' \notin {"route", "ended"} /\ attempts'[turn] # <<>> /\ turn \in Turns
    BY <1>1, <1>2, Lengths DEF Begun, Over, AttemptsOK
  <2>2. \A t \in Turns : (t < turn' => attempts'[t] # <<>>) /\ (t > turn' => attempts'[t] = <<>>)
    BY <1>1, <1>2 DEF AttemptsOK
  <2>3. ASSUME NEW t \in Turns, NEW n \in DOMAIN attempts'[t]
        PROVE  /\ n < Len(attempts'[t]) => attempts'[t][n].status = "failed"
               /\ attempts'[t][n].status = "running" => t = turn' /\ n = Number' /\ step' \in Asked
    <3>1. n \in 1..Len(attempts[t]) /\ (t = turn => Len(attempts[t]) = Number) /\ n \in DOMAIN attempts[t]
      BY <1>2 DEF Number
    <3>2. ~(t = turn /\ n = Number) => attempts'[t][n].status = attempts[t][n].status
      BY <3>1 DEF SameRoutes
    <3>3. attempts'[t][n].status = "running" => t = turn /\ n = Number
      BY <1>1, <3>1, <3>2 DEF AttemptsOK
    <3> QED BY <1>1, <1>2, <3>1, <3>2, <3>3 DEF AttemptsOK
  <2> QED BY <1>2, <2>1, <2>2, <2>3 DEF AttemptsOK
<1>4. RoutesOK'
  BY <1>1, RoutesKept
<1>5. ClaimOK'
  BY <1>1, <1>2, Lengths DEF ClaimOK, Begun
<1> QED BY <1>3, <1>4, <1>5

(* Within a turn what past turns settled stays settled.                       *)
LEMMA WithinDone ==
  ASSUME TurnsInv, TurnsTypeOK', SameRoutes, status = "running",
         UNCHANGED <<turn, made, verdict, status, tolerance>>, \A t \in Turns \ {turn} : duty'[t] = duty[t],
         step \in Begun, step' \in Begun, drift => drift',
         step' = "received" => completion' = "completed" /\ verdict.work # "reject",
         \A k \in DOMAIN made : made[k].turn = turn /\ turn \in ReadOnly /\ made[k].number # 0 =>
           \/ drift' /\ tolerance # "block"
           \/ step' \in Asked \ {"observed", "received"}
           \/ step \in {"observed", "received"}
  PROVE  DoneOK'
<1>1. TurnsTypeOK /\ DoneOK
  BY DEF TurnsInv
<1>2. \A t \in Turns : DOMAIN attempts'[t] = DOMAIN attempts[t] /\ DOMAIN attempts[t] = 1..Len(attempts[t])
                       /\ Len(attempts'[t]) = Len(attempts[t]) /\ (attempts'[t] = <<>> <=> attempts[t] = <<>>)
  BY <1>1, KeptLengths
<1>3. ASSUME NEW t \in Turns, t < turn
      PROVE  duty'[t] = "completed" /\ attempts'[t] # <<>> /\ attempts'[t][Len(attempts'[t])].status = "completed"
  <2>1. duty[t] = "completed" /\ attempts[t] # <<>> /\ attempts[t][Len(attempts[t])].status = "completed"
    BY <1>1, <1>3 DEF DoneOK
  <2>2. t # turn /\ Len(attempts[t]) \in 1..Len(attempts[t])
    BY <1>1, <1>3, <2>1, Lengths
  <2> QED BY <1>2, <2>1, <2>2 DEF SameRoutes
<1>4. step' \notin Over /\ status' # "completed"
  BY DEF Begun, Over
<1>5. turn' > Work => verdict'.plan # "reject"
  BY <1>1 DEF DoneOK
<1>6. ASSUME NEW k \in DOMAIN made', made'[k].turn \in ReadOnly, made'[k].number # 0
      PROVE  (drift' /\ tolerance' # "block") \/ (made'[k].turn = turn' /\ step' \in Asked \ {"observed", "received"})
  <2>1. \/ drift /\ tolerance # "block"
        \/ made[k].turn = turn /\ step \in Asked \ {"observed", "received"}
    BY <1>1, <1>6 DEF DoneOK
  <2> QED BY <1>6, <2>1
<1> QED BY <1>3, <1>4, <1>5, <1>6 DEF DoneOK

(* The worktree changes.                                                      *)
LEMMA ChangeStep ==
  ASSUME TurnsInv, TurnsTypeOK', status = "running", NEW n \in Nat, Change(n),
         n = 0 \/ (n = Number /\ step = "running")
  PROVE  AttemptsOK' /\ WritesOK' /\ RoutesOK' /\ DoneOK' /\ ClaimOK'
<1>1. TurnsTypeOK /\ AttemptsOK /\ WritesOK /\ RoutesOK /\ DoneOK /\ ClaimOK
  BY DEF TurnsInv
<1> DEFINE new == [turn |-> turn, number |-> n]
<1>2. /\ UNCHANGED <<tolerance, excluded, exhausted, turn, step, attempts, duty, seen, verdict, cand, drift,
                     completion, status, claim, blind>>
      /\ made' = Append(made, new)
  BY DEF Change, Routing, Findings, Progress
<1>3. /\ Tree' = Tree + 1 /\ DOMAIN made' = 1..(Tree + 1) /\ made'[Tree + 1] = new
      /\ \A k \in 1..Tree : made'[k] = made[k]
      /\ Tree \in Nat /\ DOMAIN made = 1..Tree
  <2>1. Tree \in Nat /\ DOMAIN made = 1..Tree
    BY <1>1, Lengths
  <2>2. made \in Seq([turn : Turns, number : Nat]) /\ new \in [turn : Turns, number : Nat]
    BY <1>1, Lengths DEF TurnsTypeOK
  <2> DEFINE T == [turn : Turns, number : Nat]
  <2>3. made \in Seq(T) /\ new \in T
    BY <2>2
  <2> HIDE DEF T, new
  <2> QED BY <1>2, <2>1, <2>3 DEF Tree
<1>4. new.turn = turn /\ new.number = n /\ Number \in Nat /\ Number = Len(attempts[turn]) /\ turn \in Turns
      /\ (\A t \in Turns : DOMAIN attempts[t] = 1..Len(attempts[t]) /\ Len(attempts[t]) \in Nat)
      /\ seen.before \in Reading /\ seen.after \in Reading /\ cand.produced \in Reading
      /\ (attempts[turn] # <<>> => Number # 0)
  BY <1>1, Lengths
<1> HIDE DEF new
<1>5. ASSUME NEW k \in DOMAIN made' PROVE (k \in DOMAIN made /\ made'[k] = made[k]) \/ made'[k] = new
  <2>1. k \in 1..(Tree + 1)
    BY <1>3, <1>5
  <2>2. k \in 1..Tree \/ k = Tree + 1
    BY <1>3, <2>1
  <2> QED BY <1>3, <2>2
<1>6. \A t \in Turns : \A i \in DOMAIN attempts[t] : i \in Wrote(t)' => i \in Wrote(t) \/ (t = turn /\ i = n)
  <2> SUFFICES ASSUME NEW t \in Turns, NEW i \in DOMAIN attempts[t], i \in Wrote(t)'
               PROVE  i \in Wrote(t) \/ (t = turn /\ i = n)
    OBVIOUS
  <2>1. PICK k \in DOMAIN made' : made'[k] = [turn |-> t, number |-> i]
    BY DEF Wrote
  <2>2. CASE k \in DOMAIN made /\ made'[k] = made[k]
    BY <2>1, <2>2 DEF Wrote
  <2>3. CASE made'[k] = new
    <3>1. new.turn = t /\ new.number = i
      BY <2>1, <2>3
    <3> QED BY <1>4, <3>1
  <2> QED BY <1>5, <2>2, <2>3
<1>7. AttemptsOK'
  BY <1>1, <1>2 DEF AttemptsOK, Number
<1>8. WritesOK'
  <2>1. \A k \in DOMAIN made' : made'[k].turn <= turn' /\ made'[k].number <= Len(attempts'[made'[k].turn])
    <3> SUFFICES ASSUME NEW k \in DOMAIN made'
                 PROVE  made'[k].turn <= turn /\ made'[k].number <= Len(attempts[made'[k].turn])
      BY <1>2
    <3>1. CASE k \in DOMAIN made /\ made'[k] = made[k]
      BY <1>1, <3>1 DEF WritesOK
    <3>2. CASE made'[k] = new
      BY <1>4, <3>2 DEF Turns, Plan, Closeout
    <3> QED BY <1>5, <3>1, <3>2
  <2>2. seen'.before <= Tree' /\ seen'.after <= Tree'
    BY <1>1, <1>2, <1>3, <1>4 DEF WritesOK, Reading, Unseen
  <2>3. step' \in {"staged", "ready"} => (Number \notin Wrote(turn))'
    <3> SUFFICES ASSUME step \in {"staged", "ready"} PROVE (Number \notin Wrote(turn))'
      BY <1>2
    <3>1. n = 0 /\ attempts[turn] # <<>> /\ Number \notin Wrote(turn)
      BY <1>1 DEF AttemptsOK, Begun, WritesOK
    <3>2. Number # 0 /\ Number \in DOMAIN attempts[turn]
      BY <1>4, <3>1
    <3>3. PICK u \in Turns : u = turn
      BY <1>4
    <3>4. PICK i \in DOMAIN attempts[u] : i = Number
      BY <3>2, <3>3
    <3>5. i \notin Wrote(u)'
      BY <1>4, <1>6, <3>1, <3>2, <3>3, <3>4
    <3> QED BY <1>2, <3>3, <3>4, <3>5 DEF Wrote, Number
  <2>4. step' \in {"ready"} \cup Asked => seen'.before # Unseen
    BY <1>1, <1>2 DEF WritesOK
  <2>5. step' \in Asked => \A k \in 1..seen'.before : made'[k] # [turn |-> turn', number |-> Number']
    <3> SUFFICES ASSUME step \in Asked, NEW k \in 1..seen.before
                 PROVE  made'[k] # [turn |-> turn, number |-> Number]
      BY <1>2 DEF Number
    <3>1. k \in 1..Tree
      BY <1>1, <1>3, <1>4 DEF WritesOK, Reading, Unseen
    <3> QED BY <1>1, <1>3, <3>1 DEF WritesOK
  <2>6. step' \in {"observed", "received"} =>
           /\ seen'.after # Unseen
           /\ <<turn', Number'>> \in blind' \/
                \A k \in DOMAIN made' : made'[k] = [turn |-> turn', number |-> Number'] => k <= seen'.after
    <3> SUFFICES ASSUME step \in {"observed", "received"}, <<turn, Number>> \notin blind, NEW k \in DOMAIN made',
                        made'[k] = [turn |-> turn, number |-> Number]
                 PROVE  k <= seen.after
      BY <1>1, <1>2 DEF WritesOK, Number
    <3>1. CASE k \in DOMAIN made /\ made'[k] = made[k]
      BY <1>1, <3>1 DEF WritesOK
    <3>2. CASE made'[k] = new
      <4>1. n = 0 /\ Number # 0
        BY <1>1, <1>4 DEF AttemptsOK, Begun
      <4>2. new.number = Number
        BY <3>2
      <4> QED BY <1>4, <4>1, <4>2
    <3> QED BY <1>5, <3>1, <3>2
  <2>7. \A b \in blind' : b[1] \notin ReadOnly
    BY <1>1, <1>2 DEF WritesOK
  <2> QED BY <2>1, <2>2, <2>3, <2>4, <2>5, <2>6, <2>7 DEF WritesOK
<1>9. RoutesOK'
  <2>1. \A t \in Turns : \A i \in DOMAIN attempts[t] : i < Len(attempts[t]) => i \notin Wrote(t)' \/ <<t, i>> \in blind
    <3> SUFFICES ASSUME NEW t \in Turns, NEW i \in DOMAIN attempts[t], i < Len(attempts[t])
                 PROVE  i \notin Wrote(t)' \/ <<t, i>> \in blind
      OBVIOUS
    <3>1. i \notin Wrote(t) \/ <<t, i>> \in blind
      BY <1>1 DEF RoutesOK
    <3>2. ~(t = turn /\ i = n)
      BY <1>4
    <3> QED BY <1>6, <3>1, <3>2
  <2>2. \A t \in Turns : \A i \in DOMAIN attempts[t] : i < Len(attempts[t]) => Provider(t, i) \in exhausted
    BY <1>1 DEF RoutesOK
  <2>3. \A t \in Turns, i \in Nat : Provider(t, i)' = Provider(t, i)
    BY <1>2 DEF Provider
  <2>4. \A t \in Turns : \A i, m \in DOMAIN attempts[t] : i < m => Provider(t, i) # Provider(t, m)
    BY <1>1 DEF RoutesOK
  <2>5. \A r \in Reviews : \A i \in DOMAIN attempts[r[1]] : Provider(r[1], i) # Provider(r[2], Len(attempts[r[2]]))
    BY <1>1 DEF RoutesOK
  <2>6. attempts' = attempts /\ exhausted' = exhausted /\ blind' = blind
    BY <1>2
  <2>7. (\A t \in Turns : \A i \in DOMAIN attempts[t] : i < Len(attempts[t]) =>
            Provider(t, i) \in exhausted /\ (i \notin Wrote(t) \/ <<t, i>> \in blind))'
    BY <2>1, <2>2, <2>6 DEF Provider
  <2>8. (\A t \in Turns : \A i, m \in DOMAIN attempts[t] : i < m => Provider(t, i) # Provider(t, m))'
    BY <2>4, <2>6 DEF Provider
  <2>9. (\A r \in Reviews : \A i \in DOMAIN attempts[r[1]] :
            Provider(r[1], i) # Provider(r[2], Len(attempts[r[2]])))'
    BY <2>5, <2>6 DEF Provider
  <2> QED BY <2>7, <2>8, <2>9 DEF RoutesOK
<1>10. DoneOK'
  <2>1. \A k \in DOMAIN made' : made'[k].turn \in ReadOnly /\ made'[k].number # 0 =>
          \/ drift' /\ tolerance' # "block"
          \/ made'[k].turn = turn' /\ step' \in Asked \ {"observed", "received"}
          \/ status' \notin {"running", "completed"}
    <3> SUFFICES ASSUME NEW k \in DOMAIN made', made'[k].turn \in ReadOnly, made'[k].number # 0
                 PROVE  \/ drift /\ tolerance # "block"
                        \/ made'[k].turn = turn /\ step \in Asked \ {"observed", "received"}
      BY <1>2
    <3>1. CASE k \in DOMAIN made /\ made'[k] = made[k]
      BY <1>1, <3>1 DEF DoneOK
    <3>2. CASE made'[k] = new
      BY <1>4, <3>2 DEF Asked
    <3> QED BY <1>5, <3>1, <3>2
  <2> QED BY <1>1, <1>2, <2>1 DEF DoneOK
<1>11. ClaimOK'
  BY <1>1, <1>2, <1>3, <1>4 DEF ClaimOK, Reading, Unseen
<1> QED BY <1>7, <1>8, <1>9, <1>10, <1>11

(* The current turn, all of whose attempts failed, gets another one.          *)
Extended(e) ==
  /\ \A t \in Turns : Len(attempts'[t]) = IF t = turn THEN Len(attempts[t]) + 1 ELSE Len(attempts[t])
  /\ \A t \in Turns : \A n \in 1..Len(attempts[t]) :
       /\ attempts'[t][n].endpoint = attempts[t][n].endpoint
       /\ attempts'[t][n].status = IF t = turn THEN "failed" ELSE attempts[t][n].status
  /\ attempts'[turn][Number + 1] = Staged(e)

(* A turn is routed, for the first time or again.                             *)
LEMMA RouteStep ==
  ASSUME TurnsInv, TurnsTypeOK', status = "running", step \in {"route", "observed"}, step' = "staged",
         NEW e \in Endpoints, Extended(e), Independent(e),
         UNCHANGED <<tolerance, turn, made, seen, verdict, cand, drift, completion, status, claim, blind>>,
         exhausted \subseteq exhausted', \A t \in Turns \ {turn} : duty'[t] = duty[t],
         \A n \in 1..Number : /\ Provider(turn, n) \in exhausted' /\ ProviderOf[e] \notin exhausted'
                              /\ n \notin Wrote(turn) \/ <<turn, n>> \in blind
  PROVE  AttemptsOK' /\ WritesOK' /\ RoutesOK' /\ DoneOK' /\ ClaimOK'
<1>1. TurnsTypeOK /\ AttemptsOK /\ WritesOK /\ RoutesOK /\ DoneOK /\ ClaimOK
  BY DEF TurnsInv
<1>2. turn \in Turns /\ turn \in Nat /\ Number = Len(attempts[turn]) /\ Number \in Nat
      /\ \A t \in Turns : /\ Len(attempts[t]) \in Nat /\ DOMAIN attempts[t] = 1..Len(attempts[t])
                          /\ attempts[t] = <<>> <=> Len(attempts[t]) = 0
  BY <1>1, Lengths
<1>3. /\ \A t \in Turns : /\ DOMAIN attempts'[t] = 1..Len(attempts'[t])
                          /\ attempts'[t] = <<>> <=> Len(attempts'[t]) = 0
      /\ Number' = Number + 1 /\ Tree' = Tree
  <2>1. \A t \in Turns : attempts'[t] \in Seq(Attempt)
    BY DEF TurnsTypeOK
  <2> QED BY <1>2, <2>1 DEF Extended, Number, Tree
<1>4. \A t \in Turns : Len(attempts'[t]) = IF t = turn THEN Len(attempts[t]) + 1 ELSE Len(attempts[t])
  BY DEF Extended
<1>5. attempts'[turn][Number + 1].endpoint = e /\ attempts'[turn][Number + 1].status = "staged"
  BY DEF Extended, Staged
<1>6. ASSUME NEW t \in Turns, NEW n \in DOMAIN attempts'[t]
      PROVE  \/ n \in DOMAIN attempts[t]
             \/ t = turn /\ n = Number + 1
  <2>1. n \in 1..Len(attempts'[t]) /\ Len(attempts[t]) \in Nat /\ DOMAIN attempts[t] = 1..Len(attempts[t])
    BY <1>2, <1>3, <1>6
  <2>2. CASE t = turn
    <3>1. Len(attempts'[t]) = Number + 1
      BY <1>2, <1>4, <2>2
    <3> QED BY <1>2, <2>1, <2>2, <3>1
  <2>3. CASE t # turn
    BY <1>4, <2>1, <2>3
  <2> QED BY <2>2, <2>3
<1>7. \A t \in Turns : \A n \in DOMAIN attempts[t] : Provider(t, n)' = Provider(t, n)
  <2> TAKE t \in Turns
  <2> TAKE n \in DOMAIN attempts[t]
  <2>1. n \in 1..Len(attempts[t])
    BY <1>2
  <2>2. attempts'[t][n].endpoint = attempts[t][n].endpoint
    BY <2>1 DEF Extended
  <2> QED BY <2>2 DEF Provider
<1>8. PICK u \in Turns : u = turn
  BY <1>2
<1>9. PICK new \in Nat : new = Number + 1
  BY <1>2
<1>10. Provider(u, new)' = ProviderOf[e]
  BY <1>5, <1>8, <1>9 DEF Provider
<1>11. AttemptsOK'
  <2>1. \A t \in Turns : (t < turn' => attempts'[t] # <<>>) /\ (t > turn' => attempts'[t] = <<>>)
    BY <1>1, <1>2, <1>3, <1>4 DEF AttemptsOK
  <2>2. ASSUME NEW t \in Turns, NEW n \in DOMAIN attempts'[t]
        PROVE  /\ n < Len(attempts'[t]) => attempts'[t][n].status = "failed"
               /\ attempts'[t][n].status # "running"
    <3>1. CASE t = turn /\ n = Number + 1
      BY <1>2, <1>4, <1>5, <3>1
    <3>2. CASE t = turn /\ n \in DOMAIN attempts[t]
      BY <1>2, <3>2 DEF Extended
    <3>3. CASE t # turn
      <4>1. n \in DOMAIN attempts[t] /\ Len(attempts'[t]) = Len(attempts[t]) /\ attempts'[t][n].status = attempts[t][n].status
        BY <1>2, <1>4, <1>6, <3>3 DEF Extended
      <4> QED BY <1>1, <3>3, <4>1 DEF AttemptsOK
    <3> QED BY <1>6, <3>1, <3>2, <3>3
  <2>3. attempts'[turn] # <<>>
    BY <1>2, <1>3, <1>4
  <2> QED BY <2>1, <2>2, <2>3 DEF AttemptsOK, Begun, Over
<1>12. WritesOK'
  <2>1. \A k \in DOMAIN made' : made'[k].turn <= turn' /\ made'[k].number <= Len(attempts'[made'[k].turn])
    <3> SUFFICES ASSUME NEW k \in DOMAIN made
                 PROVE  made[k].turn <= turn /\ made[k].number <= Len(attempts'[made[k].turn])
      OBVIOUS
    <3>1. made[k].turn <= turn /\ made[k].number <= Len(attempts[made[k].turn]) /\ made[k].turn \in Turns /\ made[k].number \in Nat
      BY <1>1, Lengths DEF WritesOK
    <3> QED BY <1>2, <1>4, <3>1
  <2>2. new \notin Wrote(u)'
    <3>1. ASSUME NEW k \in DOMAIN made PROVE made[k] # [turn |-> u, number |-> new]
      <4>1. made[k].number <= Len(attempts[made[k].turn])
        BY <1>1 DEF WritesOK
      <4> QED BY <1>2, <1>8, <1>9, <4>1
    <3> QED BY <3>1 DEF Wrote
  <2>3. (Number \notin Wrote(turn))'
    <3>1. Number' = new /\ turn' = u
      BY <1>3, <1>8, <1>9
    <3> QED BY <2>2, <3>1 DEF Wrote
  <2> QED BY <1>1, <1>3, <2>1, <2>3 DEF WritesOK, Asked
<1>13. RoutesOK'
  <2>1. ASSUME NEW t \in Turns, NEW n \in DOMAIN attempts'[t], n < Len(attempts'[t])
        PROVE  Provider(t, n)' \in exhausted' /\ (n \notin Wrote(t)' \/ <<t, n>> \in blind')
    <3>1. n \in DOMAIN attempts[t] /\ Provider(t, n)' = Provider(t, n)
      BY <1>2, <1>4, <1>6, <1>7, <2>1
    <3>2. Provider(t, n) \in exhausted' /\ (n \notin Wrote(t) \/ <<t, n>> \in blind)
      <4>1. CASE t = turn
        BY <1>2, <3>1, <4>1
      <4>2. CASE t # turn
        BY <1>1, <1>4, <2>1, <3>1, <4>2 DEF RoutesOK
      <4> QED BY <4>1, <4>2
    <3>3. n \in Wrote(t)' => n \in Wrote(t)
      BY <3>1 DEF Wrote
    <3> QED BY <3>1, <3>2, <3>3
  <2>2. ASSUME NEW t \in Turns, NEW n \in DOMAIN attempts'[t], NEW m \in DOMAIN attempts'[t], n < m
        PROVE  Provider(t, n)' # Provider(t, m)'
    <3>1. n \in DOMAIN attempts[t] /\ Provider(t, n)' = Provider(t, n)
      <4>1. n < Len(attempts'[t])
        BY <1>3, <1>4, <1>2, <2>2
      <4> QED BY <1>2, <1>4, <1>6, <1>7, <2>2, <4>1
    <3>2. CASE m \in DOMAIN attempts[t]
      BY <1>1, <1>7, <2>2, <3>1, <3>2 DEF RoutesOK
    <3>3. CASE t = turn /\ m = Number + 1
      <4>1. Provider(t, m)' = ProviderOf[e]
        BY <1>8, <1>9, <1>10, <3>3
      <4>2. Provider(t, n) \in exhausted' /\ ProviderOf[e] \notin exhausted'
        BY <1>2, <3>1, <3>3
      <4> QED BY <3>1, <4>1, <4>2
    <3> QED BY <1>6, <3>2, <3>3
  <2>3. ASSUME NEW r \in Reviews, NEW n \in DOMAIN attempts'[r[1]]
        PROVE  Provider(r[1], n)' # Provider(r[2], Len(attempts[r[2]]))'
    <3>1. r[1] \in Turns /\ r[2] \in Turns /\ r[2] < r[1]
      BY DEF Reviews, Turns, Plan, PlanReview, Work, WorkReview, Closeout
    <3>2. attempts'[r[1]] # <<>>
      BY <1>3, <3>1
    <3>3. r[1] <= turn
      BY <1>2, <1>11, <3>1, <3>2 DEF AttemptsOK, Turns
    <3>4. r[2] < turn /\ attempts[r[2]] # <<>>
      BY <1>1, <1>2, <3>1, <3>3 DEF AttemptsOK, Turns, Plan, Closeout
    <3>5. Provider(r[2], Len(attempts[r[2]]))' = Provider(r[2], Len(attempts[r[2]]))
      <4>1. PICK b \in Turns : b = r[2]
        BY <3>1
      <4>2. Len(attempts[b]) \in 1..Len(attempts[b]) /\ Len(attempts'[b]) = Len(attempts[b])
        BY <1>2, <1>4, <3>4, <4>1
      <4>3. attempts'[b][Len(attempts[b])].endpoint = attempts[b][Len(attempts[b])].endpoint
        BY <4>2 DEF Extended
      <4> QED BY <4>1, <4>2, <4>3 DEF Provider
    <3>6. CASE n \in DOMAIN attempts[r[1]]
      <4>1. Provider(r[1], n)' = Provider(r[1], n)
        <5>1. PICK a \in Turns : a = r[1]
          BY <3>1
        <5>2. Provider(a, n)' = Provider(a, n)
          BY <1>7, <3>6, <5>1
        <5> QED BY <5>1, <5>2
      <4>2. Provider(r[1], n) # Provider(r[2], Len(attempts[r[2]]))
        BY <1>1, <3>6 DEF RoutesOK
      <4> QED BY <3>5, <4>1, <4>2
    <3>7. CASE r[1] = turn /\ n = Number + 1
      <4>1. Provider(r[1], n)' = ProviderOf[e]
        BY <1>8, <1>9, <1>10, <3>7
      <4>2. ProviderOf[e] # Provider(r[2], Len(attempts[r[2]]))
        BY <3>7 DEF Independent
      <4> QED BY <3>5, <4>1, <4>2
    <3> QED BY <1>6, <3>1, <3>6, <3>7
  <2> QED BY <2>1, <2>2, <2>3 DEF RoutesOK
<1>14. DoneOK'
  <2>1. ASSUME NEW t \in Turns, t < turn
        PROVE  duty'[t] = "completed" /\ attempts'[t] # <<>> /\ attempts'[t][Len(attempts'[t])].status = "completed"
    <3>1. duty[t] = "completed" /\ attempts[t] # <<>> /\ attempts[t][Len(attempts[t])].status = "completed"
      BY <1>1, <2>1 DEF DoneOK
    <3>2. t # turn /\ Len(attempts[t]) \in 1..Len(attempts[t])
      BY <1>2, <2>1, <3>1
    <3>3. Len(attempts'[t]) = Len(attempts[t]) /\ attempts'[t] # <<>>
      BY <1>2, <1>3, <1>4, <3>1, <3>2
    <3> QED BY <3>1, <3>2, <3>3 DEF Extended
  <2> QED BY <1>1, <2>1 DEF DoneOK, Over, Asked
<1>15. ClaimOK'
  BY <1>1, <1>3 DEF ClaimOK
<1> QED BY <1>11, <1>12, <1>13, <1>14, <1>15

(* A turn is done: the next one begins, or the run goes on to its end.        *)
LEMMA CompleteStep ==
  ASSUME TurnsInv, TurnsTypeOK', status = "running", SameRoutes, attempts'[turn][Number].status = "completed",
         duty' = [duty EXCEPT ![turn] = "completed"], seen' = Nothing,
         UNCHANGED <<tolerance, exhausted, made, drift, completion, status, claim, blind>>,
         \/ step = "received" /\ step' = "last" /\ turn' = turn /\ UNCHANGED <<verdict, cand>>
         \/ /\ step = "observed" /\ turn # Closeout /\ step' = "route" /\ turn' = turn + 1
            /\ cand'.produced = IF turn = Work THEN seen.after ELSE cand.produced
            /\ turn >= Work => verdict'.plan = verdict.plan /\ verdict'.plan # "reject"
  PROVE  AttemptsOK' /\ WritesOK' /\ RoutesOK' /\ DoneOK' /\ ClaimOK'
<1>1. TurnsTypeOK /\ AttemptsOK /\ WritesOK /\ RoutesOK /\ DoneOK /\ ClaimOK
  BY DEF TurnsInv
<1>2. turn \in Turns /\ turn \in Nat /\ Number = Len(attempts[turn]) /\ Number \in Nat
      /\ attempts[turn] # <<>> /\ Number \in DOMAIN attempts[turn]
      /\ \A t \in Turns : /\ Len(attempts[t]) \in Nat /\ DOMAIN attempts[t] = 1..Len(attempts[t])
                          /\ attempts[t] = <<>> <=> Len(attempts[t]) = 0
  BY <1>1, Lengths DEF AttemptsOK, Begun
<1>3. /\ \A t \in Turns : /\ DOMAIN attempts'[t] = DOMAIN attempts[t] /\ Len(attempts'[t]) = Len(attempts[t])
                          /\ (attempts'[t] = <<>> <=> attempts[t] = <<>>)
      /\ Tree' = Tree
  BY <1>1, KeptLengths
<1>4. turn' \in Turns /\ turn <= turn' /\ turn' <= turn + 1 /\ (turn' = turn => step' = "last" /\ turn = Closeout)
  BY <1>1, <1>2 DEF TurnsTypeOK, AttemptsOK
<1>5. AttemptsOK'
  <2>1. \A t \in Turns : (t < turn' => attempts'[t] # <<>>) /\ (t > turn' => attempts'[t] = <<>>)
    BY <1>1, <1>2, <1>3, <1>4 DEF AttemptsOK, Turns, Plan, Closeout
  <2>2. step' = "route" => attempts'[turn'] = <<>>
    BY <1>1, <1>2, <1>3, <1>4 DEF AttemptsOK
  <2>3. ASSUME NEW t \in Turns, NEW n \in DOMAIN attempts'[t]
        PROVE  /\ n < Len(attempts'[t]) => attempts'[t][n].status = "failed"
               /\ attempts'[t][n].status # "running"
    <3>1. n \in 1..Len(attempts[t]) /\ n \in DOMAIN attempts[t] /\ (t = turn => Len(attempts[t]) = Number)
      BY <1>2, <1>3
    <3>2. ~(t = turn /\ n = Number) => attempts'[t][n].status = attempts[t][n].status
      BY <3>1 DEF SameRoutes
    <3>3. attempts'[t][n].status # "running"
      BY <1>1, <3>1, <3>2 DEF AttemptsOK
    <3>4. n < Len(attempts'[t]) => attempts[t][n].status = "failed" /\ ~(t = turn /\ n = Number)
      BY <1>1, <1>3, <3>1 DEF AttemptsOK
    <3> QED BY <3>2, <3>3, <3>4
  <2>4. step' \in Over => turn' = Closeout /\ attempts'[turn'] # <<>>
    BY <1>2, <1>3, <1>4 DEF Over
  <2> QED BY <2>1, <2>2, <2>3, <2>4 DEF AttemptsOK, Begun
<1>6. WritesOK'
  <2>1. \A k \in DOMAIN made' : made'[k].turn <= turn' /\ made'[k].number <= Len(attempts'[made'[k].turn])
    <3> SUFFICES ASSUME NEW k \in DOMAIN made
                 PROVE  made[k].turn <= turn' /\ made[k].number <= Len(attempts'[made[k].turn])
      OBVIOUS
    <3>1. PICK t \in Turns : t = made[k].turn
      BY <1>1, Lengths
    <3>2. t <= turn /\ made[k].number <= Len(attempts[t])
      BY <1>1, <3>1 DEF WritesOK
    <3>3. t <= turn'
      BY <1>2, <1>4, <3>2 DEF Turns, Plan, Closeout
    <3> QED BY <1>3, <3>1, <3>2, <3>3
  <2>2. seen'.before <= Tree' /\ seen'.after <= Tree'
    BY <1>1, <1>3, Lengths DEF Nothing, Unseen
  <2> QED BY <1>1, <2>1, <2>2 DEF WritesOK, Asked
<1>7. RoutesOK'
  BY <1>1, RoutesKept
<1>8. DoneOK'
  <2>1. ASSUME NEW t \in Turns, t <= turn
        PROVE  duty'[t] = "completed" /\ attempts'[t] # <<>> /\ attempts'[t][Len(attempts'[t])].status = "completed"
    <3>1. CASE t = turn
      BY <1>1, <1>2, <1>3, <3>1 DEF TurnsTypeOK
    <3>2. CASE t # turn
      <4>1. duty[t] = "completed" /\ attempts[t] # <<>> /\ attempts[t][Len(attempts[t])].status = "completed"
        BY <1>1, <1>2, <2>1, <3>2 DEF DoneOK, Turns
      <4>2. Len(attempts[t]) \in 1..Len(attempts[t])
        BY <1>2, <4>1
      <4>3. attempts'[t][Len(attempts[t])].status = attempts[t][Len(attempts[t])].status
        BY <3>2, <4>2 DEF SameRoutes
      <4>4. duty'[t] = duty[t]
        BY <1>1, <3>2 DEF TurnsTypeOK
      <4>5. attempts'[t] # <<>> /\ Len(attempts'[t]) = Len(attempts[t])
        BY <1>3, <4>1
      <4> QED BY <4>1, <4>3, <4>4, <4>5
    <3> QED BY <3>1, <3>2
  <2>2. \A t \in Turns : t < turn' \/ step' \in Over \/ status' = "completed" => t <= turn
    BY <1>2, <1>4 DEF Over, Turns, Plan, Closeout
  <2>3. step' \in {"received"} \cup Over \/ status' = "completed" => completion' = "completed" /\ verdict'.work # "reject"
    BY <1>1 DEF DoneOK, Over
  <2>4. turn' > Work \/ step' \in Over \/ status' = "completed" => verdict'.plan # "reject"
    BY <1>1, <1>2, <1>4 DEF DoneOK, Over, Work, Closeout
  <2>5. \A k \in DOMAIN made' : made'[k].turn \in ReadOnly /\ made'[k].number # 0 => drift' /\ tolerance' # "block"
    BY <1>1 DEF DoneOK, Asked
  <2> QED BY <2>1, <2>2, <2>3, <2>4, <2>5 DEF DoneOK
<1>9. ClaimOK'
  <2>1. claim' = Unseen
    BY <1>1 DEF ClaimOK
  <2>2. cand'.produced <= Tree' /\ \A k \in 1..cand'.produced : made'[k].turn <= Work
    <3>1. CASE cand'.produced = cand.produced
      BY <1>1, <1>3, <3>1 DEF ClaimOK
    <3>2. CASE turn = Work /\ cand'.produced = seen.after
      <4>1. seen.after <= Tree /\ seen.after \in Reading /\ \A k \in 1..Tree : made[k].turn <= turn
        BY <1>1, Lengths DEF WritesOK
      <4> QED BY <1>1, <1>3, <3>2, <4>1, Lengths DEF Reading, Unseen
    <3> QED BY <3>1, <3>2
  <2> QED BY <2>1, <2>2 DEF ClaimOK
<1> QED BY <1>5, <1>6, <1>7, <1>8, <1>9

(* The invariant is kept by every step.                                       *)
LEMMA TurnsStep ==
  ASSUME TurnsInv, [TurnsNext]_turnVars
  PROVE  TurnsInv'
<1>a. TurnsTypeOK /\ AttemptsOK /\ WritesOK /\ RoutesOK /\ DoneOK /\ ClaimOK
  BY DEF TurnsInv
<1>t. TurnsTypeOK'
  BY TurnsTypeStep
<1>m. ASSUME step \in Begun, NEW s \in Statuses, attempts' = Marked(s)
      PROVE  SameRoutes /\ attempts'[turn][Number].status = s
  BY <1>a, <1>m, MarkingKeeps DEF AttemptsOK
<1>d. \A s : Duty(s) => \A t \in Turns \ {turn} : duty'[t] = duty[t]
  BY <1>a DEF Duty, TurnsTypeOK
<1>c. ASSUME UNCHANGED turnVars PROVE TurnsInv'
  BY <1>c DEF turnVars, TurnsInv, TurnsTypeOK, AttemptsOK, WritesOK, RoutesOK, DoneOK, ClaimOK, Tree, Number, Wrote, Provider
<1>f. ASSUME step \in Begun, NEW s \in {"failed", "failed_pre_launch"}, attempts' = Marked(s)
      PROVE  SameRoutes /\ attempts'[turn][Number].status # "running"
  BY <1>f, <1>m DEF Statuses
<1>1. ASSUME NoRoute PROVE TurnsInv'
  <2>1. SameRoutes /\ step \notin Begun /\ attempts' = attempts
    BY <1>1, NothingKeeps DEF NoRoute, Ends, Begun
  <2>2. /\ status = "running" /\ status' \notin {"running", "completed"} /\ step' = "ended" /\ seen' = Nothing
        /\ exhausted \subseteq exhausted' /\ UNCHANGED <<turn, made, blind, verdict, claim>> /\ cand'.produced = cand.produced
        /\ \A t \in Turns \ {turn} : duty'[t] = duty[t]
    BY <1>a, <1>d, <1>1 DEF NoRoute, Ends, Ends, Routing, Findings
  <2> QED BY <1>t, <2>1, <2>2, EndingStep DEF TurnsInv
<1>2. ASSUME PreLaunchFails PROVE TurnsInv'
  <2>1. SameRoutes /\ step \in Begun /\ attempts'[turn][Number].status # "running"
    BY <1>2, <1>f DEF PreLaunchFails, Ends, Begun
  <2>2. /\ status = "running" /\ status' \notin {"running", "completed"} /\ step' = "ended" /\ seen' = Nothing
        /\ exhausted \subseteq exhausted' /\ UNCHANGED <<turn, made, blind, verdict, claim>> /\ cand'.produced = cand.produced
        /\ \A t \in Turns \ {turn} : duty'[t] = duty[t]
    BY <1>a, <1>d, <1>2 DEF PreLaunchFails, Ends, Ends, Routing, Findings
  <2> QED BY <1>t, <2>1, <2>2, EndingStep DEF TurnsInv
<1>3. ASSUME RunnerRaises PROVE TurnsInv'
  <2>1. SameRoutes /\ step \in Begun /\ attempts'[turn][Number].status # "running"
    BY <1>3, <1>f DEF RunnerRaises, Fail, Begun
  <2>2. /\ status = "running" /\ status' \notin {"running", "completed"} /\ step' = "ended" /\ seen' = Nothing
        /\ exhausted \subseteq exhausted' /\ UNCHANGED <<turn, made, blind, verdict, claim>> /\ cand'.produced = cand.produced
        /\ \A t \in Turns \ {turn} : duty'[t] = duty[t]
    BY <1>a, <1>d, <1>3 DEF RunnerRaises, Fail, Ends, Routing, Findings
  <2> QED BY <1>t, <2>1, <2>2, EndingStep DEF TurnsInv
<1>4. ASSUME ObserveReadOnly, step' = "ended" PROVE TurnsInv'
  <2>1. SameRoutes /\ step \in Begun /\ attempts'[turn][Number].status # "running"
    BY <1>4, <1>f DEF ObserveReadOnly, Fail, Begun
  <2>2. /\ status = "running" /\ status' \notin {"running", "completed"} /\ step' = "ended" /\ seen' = Nothing
        /\ exhausted \subseteq exhausted' /\ UNCHANGED <<turn, made, blind, verdict, claim>> /\ cand'.produced = cand.produced
        /\ \A t \in Turns \ {turn} : duty'[t] = duty[t]
    BY <1>a, <1>d, <1>4 DEF ObserveReadOnly, Fail, Ends, Routing, Findings
  <2> QED BY <1>t, <2>1, <2>2, EndingStep DEF TurnsInv
<1>5. ASSUME SinksFail PROVE TurnsInv'
  <2>1. SameRoutes /\ step \in Begun /\ attempts'[turn][Number].status # "running"
    BY <1>5, <1>f DEF SinksFail, Ends, Begun
  <2>2. /\ status = "running" /\ status' \notin {"running", "completed"} /\ step' = "ended" /\ seen' = Nothing
        /\ exhausted \subseteq exhausted' /\ UNCHANGED <<turn, made, blind, verdict, claim>> /\ cand'.produced = cand.produced
        /\ \A t \in Turns \ {turn} : duty'[t] = duty[t]
    BY <1>a, <1>d, <1>5 DEF SinksFail, Ends, Ends, Routing, Findings
  <2> QED BY <1>t, <2>1, <2>2, EndingStep DEF TurnsInv
<1>6. ASSUME GiveUp PROVE TurnsInv'
  <2>1. SameRoutes /\ step \in Begun /\ attempts'[turn][Number].status # "running"
    BY <1>6, <1>f DEF GiveUp, Fail, Stored, Begun
  <2>2. /\ status = "running" /\ status' \notin {"running", "completed"} /\ step' = "ended" /\ seen' = Nothing
        /\ exhausted \subseteq exhausted' /\ UNCHANGED <<turn, made, blind, verdict, claim>> /\ cand'.produced = cand.produced
        /\ \A t \in Turns \ {turn} : duty'[t] = duty[t]
    BY <1>a, <1>d, <1>6 DEF GiveUp, Fail, Stored, Ends, Routing, Findings
  <2> QED BY <1>t, <2>1, <2>2, EndingStep DEF TurnsInv
<1>7. ASSUME WorkDone, verdict.plan = "reject" PROVE TurnsInv'
  <2>1. SameRoutes /\ step \in Begun /\ attempts'[turn][Number].status # "running"
    BY <1>7, <1>f DEF WorkDone, Succeeded, Fail, Begun
  <2>2. /\ status = "running" /\ status' \notin {"running", "completed"} /\ step' = "ended" /\ seen' = Nothing
        /\ exhausted \subseteq exhausted' /\ UNCHANGED <<turn, made, blind, verdict, claim>> /\ cand'.produced = cand.produced
        /\ \A t \in Turns \ {turn} : duty'[t] = duty[t]
    BY <1>a, <1>d, <1>7 DEF WorkDone, Succeeded, Fail, Ends, Routing, Findings
  <2> QED BY <1>t, <2>1, <2>2, EndingStep DEF TurnsInv
<1>8. ASSUME ResultRefused PROVE TurnsInv'
  <2>1. SameRoutes /\ step \in Begun /\ attempts'[turn][Number].status # "running"
    BY <1>8, <1>f DEF ResultRefused, Succeeded, Fail, Begun
  <2>2. /\ status = "running" /\ status' \notin {"running", "completed"} /\ step' = "ended" /\ seen' = Nothing
        /\ exhausted \subseteq exhausted' /\ UNCHANGED <<turn, made, blind, verdict, claim>> /\ cand'.produced = cand.produced
        /\ \A t \in Turns \ {turn} : duty'[t] = duty[t]
    BY <1>a, <1>d, <1>8 DEF ResultRefused, Succeeded, Fail, Ends, Routing, Findings
  <2> QED BY <1>t, <2>1, <2>2, EndingStep DEF TurnsInv
<1>9. ASSUME StoreReceipt, verdict.work = "reject" PROVE TurnsInv'
  <2>1. SameRoutes /\ step \in Begun /\ attempts'[turn][Number].status # "running"
    BY <1>9, <1>f DEF StoreReceipt, Succeeded, Fail, TurnsTypeOK, CandidateTrees, Begun
  <2>2. /\ status = "running" /\ status' \notin {"running", "completed"} /\ step' = "ended" /\ seen' = Nothing
        /\ exhausted \subseteq exhausted' /\ UNCHANGED <<turn, made, blind, verdict, claim>> /\ cand'.produced = cand.produced
        /\ \A t \in Turns \ {turn} : duty'[t] = duty[t]
    BY <1>a, <1>d, <1>9 DEF StoreReceipt, Succeeded, Fail, TurnsTypeOK, CandidateTrees, Ends, Routing, Findings
  <2> QED BY <1>t, <2>1, <2>2, EndingStep DEF TurnsInv
<1>10. ASSUME FinishRun, status' # "completed" PROVE TurnsInv'
  <2>1. SameRoutes /\ step \notin Begun /\ attempts' = attempts
    BY <1>10, NothingKeeps DEF FinishRun, Ends, Begun
  <2>2. /\ status = "running" /\ status' \notin {"running", "completed"} /\ step' = "ended" /\ seen' = Nothing
        /\ exhausted \subseteq exhausted' /\ UNCHANGED <<turn, made, blind, verdict, claim>> /\ cand'.produced = cand.produced
        /\ \A t \in Turns \ {turn} : duty'[t] = duty[t]
    BY <1>a, <1>d, <1>10 DEF FinishRun, Ends, Ends, Routing, Findings
  <2> QED BY <1>t, <2>1, <2>2, EndingStep DEF TurnsInv
<1>11. ASSUME Interrupt PROVE TurnsInv'
  <2>1. \/ attempts' = attempts /\ duty' = duty /\ step \in {"route", "staged", "last"}
        \/ step \in Begun /\ Duty("failed") /\ \E s \in {"failed", "failed_pre_launch"} : attempts' = Marked(s)
    BY <1>11 DEF Interrupt, Begun
  <2>2. SameRoutes
    BY <1>f, <2>1, NothingKeeps
  <2>3. /\ step \in Begun => attempts'[turn][Number].status # "running"
        /\ step \notin Begun => attempts' = attempts
    <3>1. CASE step = "staged" /\ attempts' = attempts
      <4>1. Number \in DOMAIN attempts[turn] /\ turn \in Turns
        BY <1>a, <3>1, Lengths DEF AttemptsOK, Begun
      <4> QED BY <1>a, <3>1, <4>1 DEF AttemptsOK, Asked, Begun
    <3>2. CASE step \in {"route", "last"} /\ attempts' = attempts
      BY <3>2 DEF Begun
    <3>3. CASE step \in Begun /\ \E s \in {"failed", "failed_pre_launch"} : attempts' = Marked(s)
      BY <1>f, <3>3
    <3> QED BY <2>1, <3>1, <3>2, <3>3
  <2>4. /\ status = "running" /\ status' \notin {"running", "completed"} /\ step' = "ended" /\ seen' = Nothing
        /\ exhausted \subseteq exhausted' /\ UNCHANGED <<turn, made, blind, verdict, claim>> /\ cand'.produced = cand.produced
    BY <1>11 DEF Interrupt, Ends, Routing, Findings
  <2>5. \A t \in Turns \ {turn} : duty'[t] = duty[t]
    BY <1>d, <2>1
  <2> QED BY <1>t, <2>2, <2>3, <2>4, <2>5, EndingStep DEF TurnsInv
<1>12. ASSUME FirstRoute PROVE TurnsInv'
  <2>1. PICK e \in Endpoints : attempts' = [attempts EXCEPT ![turn] = Append(@, Staged(e))] /\ Independent(e)
    BY <1>a, <1>12, TurnsAssumption DEF FirstRoute, Routes, TurnsTypeOK
  <2>2. attempts[turn] = <<>> /\ Number = 0 /\ turn \in Turns /\ attempts \in [Turns -> Seq(Attempt)]
    BY <1>a, <1>12, Lengths DEF FirstRoute, AttemptsOK, TurnsTypeOK
  <2>3. Extended(e)
    BY <1>a, <2>1, <2>2, AppendedFacts, Lengths DEF Extended
  <2>4. /\ status = "running" /\ step = "route" /\ step' = "staged" /\ exhausted \subseteq exhausted' /\ duty' = duty
        /\ UNCHANGED <<tolerance, turn, made, seen, verdict, cand, drift, completion, status, claim, blind>>
    BY <1>12 DEF FirstRoute, Routing, Findings
  <2> QED BY <1>t, <2>1, <2>2, <2>3, <2>4, RouteStep DEF TurnsInv
<1>13. ASSUME Reroute PROVE TurnsInv'
  <2>1. PICK e \in Endpoints : /\ attempts' = [Marked("failed") EXCEPT ![turn] = Append(@, Staged(e))]
                               /\ Independent(e) /\ ProviderOf[e] \notin Stored
    BY <1>a, <1>13, TurnsAssumption DEF Reroute, Routes, TurnsTypeOK
  <2>2. attempts[turn] # <<>> /\ turn \in Turns /\ Number \in 1..Len(attempts[turn])
        /\ Number = Len(attempts[turn])
        /\ (\A t \in Turns : DOMAIN attempts[t] = 1..Len(attempts[t]) /\ Len(attempts[t]) \in Nat)
    BY <1>a, <1>13, Lengths DEF Reroute, AttemptsOK, Begun
  <2>3. /\ Marked("failed") \in [Turns -> Seq(Attempt)]
        /\ \A t \in Turns : Len(Marked("failed")[t]) = Len(attempts[t])
        /\ \A t \in Turns : \A n \in 1..Len(attempts[t]) :
             /\ Marked("failed")[t][n].endpoint = attempts[t][n].endpoint
             /\ Marked("failed")[t][n].status = IF t = turn /\ n = Number THEN "failed" ELSE attempts[t][n].status
    BY <1>a, <2>2, MarkedFacts DEF Statuses
  <2>4. /\ \A t \in Turns : Len(attempts'[t]) = IF t = turn THEN Len(Marked("failed")[turn]) + 1 ELSE Len(Marked("failed")[t])
        /\ \A t \in Turns : \A n \in 1..Len(Marked("failed")[t]) : attempts'[t][n] = Marked("failed")[t][n]
        /\ attempts'[turn][Len(Marked("failed")[turn]) + 1] = Staged(e)
    BY <2>1, <2>2, <2>3, AppendedFacts
  <2>5. Extended(e)
    <3>1. \A n \in 1..Len(attempts[turn]) : n # Number => attempts[turn][n].status = "failed"
      BY <1>a, <2>2 DEF AttemptsOK
    <3>2. \A t \in Turns : \A n \in 1..Len(attempts[t]) :
            /\ attempts'[t][n].endpoint = attempts[t][n].endpoint
            /\ attempts'[t][n].status = IF t = turn THEN "failed" ELSE attempts[t][n].status
      BY <2>3, <2>4, <3>1
    <3>3. attempts'[turn][Number + 1] = Staged(e)
      BY <2>2, <2>3, <2>4
    <3> QED BY <2>2, <2>3, <2>4, <3>2, <3>3 DEF Extended
  <2>6. /\ status = "running" /\ step = "observed" /\ step' = "staged" /\ exhausted' = Stored /\ Retryable
        /\ UNCHANGED <<tolerance, turn, made, seen, verdict, cand, drift, completion, status, claim, blind>>
        /\ \A t \in Turns \ {turn} : duty'[t] = duty[t]
    BY <1>d, <1>13 DEF Reroute, Findings
  <2>7. Number \notin Wrote(turn) \/ <<turn, Number>> \in blind
    <3> SUFFICES ASSUME <<turn, Number>> \notin blind, NEW k \in DOMAIN made, made[k] = [turn |-> turn, number |-> Number]
                 PROVE  FALSE
      BY DEF Wrote
    <3>1. k <= seen.after /\ seen.after = seen.before
      BY <1>a, <2>6 DEF WritesOK, Retryable, Substantive
    <3>2. k \in 1..seen.before
      BY <1>a, <3>1, Lengths DEF Reading, Unseen
    <3> QED BY <1>a, <2>6, <3>2 DEF WritesOK, Asked
  <2>8. Actor \in exhausted' /\ exhausted \subseteq exhausted'
    BY <2>6 DEF Stored
  <2>9. \A n \in 1..Number : /\ Provider(turn, n) \in exhausted' /\ ProviderOf[e] \notin exhausted'
                             /\ n \notin Wrote(turn) \/ <<turn, n>> \in blind
    <3> SUFFICES ASSUME NEW n \in 1..Number
                 PROVE  Provider(turn, n) \in exhausted' /\ (n \notin Wrote(turn) \/ <<turn, n>> \in blind)
      BY <2>1, <2>6
    <3>1. CASE n = Number
      BY <2>7, <2>8, <3>1 DEF Actor
    <3>2. CASE n # Number
      <4>1. n \in DOMAIN attempts[turn] /\ n < Len(attempts[turn])
        BY <2>2, <3>2
      <4> QED BY <1>a, <2>2, <2>8, <4>1 DEF RoutesOK
    <3> QED BY <3>1, <3>2
  <2> QED BY <1>t, <2>1, <2>5, <2>6, <2>8, <2>9, RouteStep DEF TurnsInv
<1>14. ASSUME ProviderWrites PROVE TurnsInv'
  BY <1>a, <1>t, <1>14, ChangeStep, Lengths DEF ProviderWrites, TurnsInv
<1>15. ASSUME OperatorEdits PROVE TurnsInv'
  BY <1>a, <1>t, <1>15, ChangeStep DEF OperatorEdits, TurnsInv
<1>16. ASSUME PlanDone PROVE TurnsInv'
  <2>1. step \in Begun /\ attempts' = Marked("completed")
    BY <1>16 DEF PlanDone, Succeeded, Complete, Begun
  <2>2. SameRoutes /\ attempts'[turn][Number].status = "completed"
    BY <1>m, <2>1 DEF Statuses
  <2>3. /\ status = "running" /\ duty' = [duty EXCEPT ![turn] = "completed"] /\ seen' = Nothing
        /\ UNCHANGED <<tolerance, exhausted, made, drift, completion, status, claim, blind>>
    BY <1>16 DEF PlanDone, Succeeded, Complete, Duty, Routing, Findings
  <2>4. /\ step = "observed" /\ turn # Closeout /\ step' = "route" /\ turn' = turn + 1
        /\ cand'.produced = IF turn = Work THEN seen.after ELSE cand.produced
    BY <1>a, <1>16 DEF PlanDone, Succeeded, Complete, Findings, TurnsTypeOK, CandidateTrees, Plan, PlanReview, Work, WorkReview, Closeout
  <2>5. turn >= Work => verdict'.plan = verdict.plan /\ verdict'.plan # "reject"
    BY <1>a, <1>16 DEF PlanDone, Succeeded, Findings, TurnsTypeOK, DoneOK, Plan, PlanReview, Work, WorkReview
  <2> QED BY <1>t, <2>2, <2>3, <2>4, <2>5, CompleteStep DEF TurnsInv
<1>17. ASSUME PlanReviewed PROVE TurnsInv'
  <2>1. step \in Begun /\ attempts' = Marked("completed")
    BY <1>17 DEF PlanReviewed, Succeeded, Complete, Begun
  <2>2. SameRoutes /\ attempts'[turn][Number].status = "completed"
    BY <1>m, <2>1 DEF Statuses
  <2>3. /\ status = "running" /\ duty' = [duty EXCEPT ![turn] = "completed"] /\ seen' = Nothing
        /\ UNCHANGED <<tolerance, exhausted, made, drift, completion, status, claim, blind>>
    BY <1>17 DEF PlanReviewed, Succeeded, Complete, Duty, Routing, Findings
  <2>4. /\ step = "observed" /\ turn # Closeout /\ step' = "route" /\ turn' = turn + 1
        /\ cand'.produced = IF turn = Work THEN seen.after ELSE cand.produced
    BY <1>a, <1>17 DEF PlanReviewed, Succeeded, Complete, Findings, TurnsTypeOK, CandidateTrees, Plan, PlanReview, Work, WorkReview, Closeout
  <2>5. turn >= Work => verdict'.plan = verdict.plan /\ verdict'.plan # "reject"
    BY <1>a, <1>17 DEF PlanReviewed, Succeeded, Findings, TurnsTypeOK, DoneOK, Plan, PlanReview, Work, WorkReview
  <2> QED BY <1>t, <2>2, <2>3, <2>4, <2>5, CompleteStep DEF TurnsInv
<1>18. ASSUME WorkDone, verdict.plan # "reject" PROVE TurnsInv'
  <2>1. step \in Begun /\ attempts' = Marked("completed")
    BY <1>18 DEF WorkDone, Succeeded, Complete, Begun
  <2>2. SameRoutes /\ attempts'[turn][Number].status = "completed"
    BY <1>m, <2>1 DEF Statuses
  <2>3. /\ status = "running" /\ duty' = [duty EXCEPT ![turn] = "completed"] /\ seen' = Nothing
        /\ UNCHANGED <<tolerance, exhausted, made, drift, completion, status, claim, blind>>
    BY <1>18 DEF WorkDone, Succeeded, Complete, Duty, Routing, Findings
  <2>4. /\ step = "observed" /\ turn # Closeout /\ step' = "route" /\ turn' = turn + 1
        /\ cand'.produced = IF turn = Work THEN seen.after ELSE cand.produced
    BY <1>a, <1>18 DEF WorkDone, Succeeded, Complete, Findings, TurnsTypeOK, CandidateTrees, Plan, PlanReview, Work, WorkReview, Closeout
  <2>5. turn >= Work => verdict'.plan = verdict.plan /\ verdict'.plan # "reject"
    BY <1>a, <1>18 DEF WorkDone, Succeeded, Findings, TurnsTypeOK, DoneOK, Plan, PlanReview, Work, WorkReview
  <2> QED BY <1>t, <2>2, <2>3, <2>4, <2>5, CompleteStep DEF TurnsInv
<1>19. ASSUME WorkReviewed PROVE TurnsInv'
  <2>1. step \in Begun /\ attempts' = Marked("completed")
    BY <1>19 DEF WorkReviewed, Succeeded, Complete, Begun
  <2>2. SameRoutes /\ attempts'[turn][Number].status = "completed"
    BY <1>m, <2>1 DEF Statuses
  <2>3. /\ status = "running" /\ duty' = [duty EXCEPT ![turn] = "completed"] /\ seen' = Nothing
        /\ UNCHANGED <<tolerance, exhausted, made, drift, completion, status, claim, blind>>
    BY <1>19 DEF WorkReviewed, Succeeded, Complete, Duty, Routing, Findings
  <2>4. /\ step = "observed" /\ turn # Closeout /\ step' = "route" /\ turn' = turn + 1
        /\ cand'.produced = IF turn = Work THEN seen.after ELSE cand.produced
    BY <1>a, <1>19 DEF WorkReviewed, Succeeded, Complete, Findings, TurnsTypeOK, CandidateTrees, Plan, PlanReview, Work, WorkReview, Closeout
  <2>5. turn >= Work => verdict'.plan = verdict.plan /\ verdict'.plan # "reject"
    BY <1>a, <1>19 DEF WorkReviewed, Succeeded, Findings, TurnsTypeOK, DoneOK, Plan, PlanReview, Work, WorkReview
  <2> QED BY <1>t, <2>2, <2>3, <2>4, <2>5, CompleteStep DEF TurnsInv
<1>20. ASSUME CloseoutDone PROVE TurnsInv'
  <2>1. step \in Begun /\ attempts' = Marked("completed")
    BY <1>20 DEF CloseoutDone, Succeeded, Complete, Begun
  <2>2. SameRoutes /\ attempts'[turn][Number].status = "completed"
    BY <1>m, <2>1 DEF Statuses
  <2>3. /\ status = "running" /\ duty' = [duty EXCEPT ![turn] = "completed"] /\ seen' = Nothing
        /\ UNCHANGED <<tolerance, exhausted, made, drift, completion, status, claim, blind>>
    BY <1>20 DEF CloseoutDone, Succeeded, Complete, Duty, Routing, Findings
  <2>4. step = "received" /\ step' = "last" /\ turn' = turn /\ UNCHANGED <<verdict, cand>>
    BY <1>a, <1>20 DEF CloseoutDone, Complete, Findings, AttemptsOK
  <2> QED BY <1>t, <2>2, <2>3, <2>4, CompleteStep DEF TurnsInv
<1>21. ASSUME ReadTrees PROVE TurnsInv'
  <2>1. step \in Begun /\ SameRoutes /\ attempts' = attempts
    BY <1>21, NothingKeeps DEF ReadTrees, Nothing, Begun
  <2>2. attempts'[turn][Number].status = "running" => step' \in Asked
    <3>1. Number \in DOMAIN attempts[turn] /\ turn \in Turns
      BY <1>a, <2>1, Lengths DEF AttemptsOK
    <3> QED BY <1>a, <1>21, <2>1, <3>1 DEF ReadTrees, Nothing, AttemptsOK, Asked
  <2>3. /\ status = "running" /\ UNCHANGED <<turn, made, verdict, claim, status, exhausted, tolerance>>
        /\ cand'.produced = cand.produced /\ blind \subseteq blind'
        /\ step' \in Begun /\ (step' = "received" => turn = Closeout)
    BY <1>a, <1>21 DEF ReadTrees, Nothing, Routing, Findings, Begun, TurnsTypeOK, CandidateTrees
  <2>4. AttemptsOK' /\ RoutesOK' /\ ClaimOK'
    BY <1>t, <2>1, <2>2, <2>3, WithinStep
  <2>9. Len(attempts'[turn]) = Len(attempts[turn]) /\ Number' = Number /\ Tree' = Tree
        /\ (\A t \in Turns : Len(attempts'[t]) = Len(attempts[t])) /\ turn \in Turns /\ Tree \in Nat
        /\ seen.before \in Reading /\ seen.after \in Reading
    BY <1>a, <1>t, <2>1, <2>3, KeptLengths, Lengths DEF Number
  <2>10. /\ \A k \in DOMAIN made' : made'[k].turn <= turn' /\ made'[k].number <= Len(attempts'[made'[k].turn])
        /\ \A k \in DOMAIN made : made[k].turn \in Turns
    BY <1>a, <2>3, <2>9, Lengths DEF WritesOK
  <2>5. WritesOK'
    <3>1. seen'.before = Tree /\ seen'.after = Unseen /\ step' = "ready" /\ step = "staged" /\ blind' = blind
      BY <1>21 DEF ReadTrees, Nothing
    <3>2. (Number \notin Wrote(turn))'
      BY <1>a, <2>3, <2>1, <3>1 DEF WritesOK, Wrote, Number
    <3> QED BY <1>a, <2>3, <2>9, <2>10, <3>1, <3>2 DEF WritesOK, Asked, Unseen
  <2>6. DoneOK'
    <3>1. /\ \A t \in Turns \ {turn} : duty'[t] = duty[t]
          /\ drift' = drift
      BY <1>d, <1>21 DEF ReadTrees, Findings
    <3>2. \A k \in DOMAIN made : made[k].turn = turn /\ turn \in ReadOnly /\ made[k].number # 0 =>
            \/ drift' /\ tolerance # "block"
            \/ step' \in Asked \ {"observed", "received"}
            \/ step \in {"observed", "received"}
      BY <1>a, <1>21, <3>1 DEF ReadTrees, DoneOK, Asked
    <3>3. step' = "received" => completion' = "completed" /\ verdict.work # "reject"
      BY <1>21 DEF ReadTrees
    <3> QED BY <1>t, <2>1, <2>3, <3>1, <3>2, <3>3, WithinDone
  <2> QED BY <1>t, <2>4, <2>5, <2>6 DEF TurnsInv
<1>22. ASSUME Launch PROVE TurnsInv'
  <2>1. step \in Begun /\ SameRoutes /\ step' = "running"
    BY <1>22, <1>m DEF Launch, Begun, Statuses
  <2>2. attempts'[turn][Number].status = "running" => step' \in Asked
    BY <2>1 DEF Asked
  <2>3. /\ status = "running" /\ UNCHANGED <<turn, made, verdict, claim, status, exhausted, tolerance>>
        /\ cand'.produced = cand.produced /\ blind \subseteq blind'
        /\ step' \in Begun /\ (step' = "received" => turn = Closeout)
    BY <1>a, <1>22 DEF Launch, Routing, Findings, Begun, TurnsTypeOK, CandidateTrees
  <2>4. AttemptsOK' /\ RoutesOK' /\ ClaimOK'
    BY <1>t, <2>1, <2>2, <2>3, WithinStep
  <2>9. Len(attempts'[turn]) = Len(attempts[turn]) /\ Number' = Number /\ Tree' = Tree
        /\ (\A t \in Turns : Len(attempts'[t]) = Len(attempts[t])) /\ turn \in Turns /\ Tree \in Nat
        /\ seen.before \in Reading /\ seen.after \in Reading
    BY <1>a, <1>t, <2>1, <2>3, KeptLengths, Lengths DEF Number
  <2>10. /\ \A k \in DOMAIN made' : made'[k].turn <= turn' /\ made'[k].number <= Len(attempts'[made'[k].turn])
        /\ \A k \in DOMAIN made : made[k].turn \in Turns
    BY <1>a, <2>3, <2>9, Lengths DEF WritesOK
  <2>5. WritesOK'
    <3>1. seen' = seen /\ step' = "running" /\ step = "ready" /\ blind' = blind
      BY <1>22 DEF Launch
    <3>2. Number \in DOMAIN attempts[turn]
      BY <1>a, <2>1, Lengths DEF AttemptsOK
    <3>3. \A k \in DOMAIN made : made[k] # [turn |-> turn, number |-> Number]
      BY <1>a, <3>1, <3>2 DEF WritesOK, Wrote
    <3>4. \A k \in 1..seen.before : k \in DOMAIN made
      BY <1>a, <2>9, Lengths DEF WritesOK, Reading, Unseen
    <3> QED BY <1>a, <2>3, <2>9, <2>10, <3>1, <3>3, <3>4 DEF WritesOK, Asked
  <2>6. DoneOK'
    <3>1. /\ \A t \in Turns \ {turn} : duty'[t] = duty[t]
          /\ drift' = drift
      BY <1>d, <1>22 DEF Launch, Findings
    <3>2. \A k \in DOMAIN made : made[k].turn = turn /\ turn \in ReadOnly /\ made[k].number # 0 =>
            \/ drift' /\ tolerance # "block"
            \/ step' \in Asked \ {"observed", "received"}
            \/ step \in {"observed", "received"}
      BY <1>a, <1>22, <3>1 DEF Launch, DoneOK, Asked
    <3>3. step' = "received" => completion' = "completed" /\ verdict.work # "reject"
      BY <1>22 DEF Launch
    <3> QED BY <1>t, <2>1, <2>3, <3>1, <3>2, <3>3, WithinDone
  <2> QED BY <1>t, <2>4, <2>5, <2>6 DEF TurnsInv
<1>23. ASSUME Return PROVE TurnsInv'
  <2>1. step \in Begun /\ SameRoutes /\ attempts' = attempts
    BY <1>23, NothingKeeps DEF Return, TurnsTypeOK, Observation, Begun
  <2>2. attempts'[turn][Number].status = "running" => step' \in Asked
    <3>1. Number \in DOMAIN attempts[turn] /\ turn \in Turns
      BY <1>a, <2>1, Lengths DEF AttemptsOK
    <3> QED BY <1>a, <1>23, <2>1, <3>1 DEF Return, TurnsTypeOK, Observation, AttemptsOK, Asked
  <2>3. /\ status = "running" /\ UNCHANGED <<turn, made, verdict, claim, status, exhausted, tolerance>>
        /\ cand'.produced = cand.produced /\ blind \subseteq blind'
        /\ step' \in Begun /\ (step' = "received" => turn = Closeout)
    BY <1>a, <1>23 DEF Return, TurnsTypeOK, Observation, Routing, Findings, Begun, TurnsTypeOK, CandidateTrees
  <2>4. AttemptsOK' /\ RoutesOK' /\ ClaimOK'
    BY <1>t, <2>1, <2>2, <2>3, WithinStep
  <2>9. Len(attempts'[turn]) = Len(attempts[turn]) /\ Number' = Number /\ Tree' = Tree
        /\ (\A t \in Turns : Len(attempts'[t]) = Len(attempts[t])) /\ turn \in Turns /\ Tree \in Nat
        /\ seen.before \in Reading /\ seen.after \in Reading
    BY <1>a, <1>t, <2>1, <2>3, KeptLengths, Lengths DEF Number
  <2>10. /\ \A k \in DOMAIN made' : made'[k].turn <= turn' /\ made'[k].number <= Len(attempts'[made'[k].turn])
        /\ \A k \in DOMAIN made : made[k].turn \in Turns
    BY <1>a, <2>3, <2>9, Lengths DEF WritesOK
  <2>5. WritesOK'
    <3>1. seen'.before = seen.before /\ seen'.after = seen.after /\ step' = "returned" /\ step = "running" /\ blind' = blind
      BY <1>a, <1>23 DEF Return, TurnsTypeOK, Observation
    <3> QED BY <1>a, <2>3, <2>9, <2>10, <3>1 DEF WritesOK, Asked
  <2>6. DoneOK'
    <3>1. /\ \A t \in Turns \ {turn} : duty'[t] = duty[t]
          /\ drift' = drift
      BY <1>d, <1>23 DEF Return, Findings
    <3>2. \A k \in DOMAIN made : made[k].turn = turn /\ turn \in ReadOnly /\ made[k].number # 0 =>
            \/ drift' /\ tolerance # "block"
            \/ step' \in Asked \ {"observed", "received"}
            \/ step \in {"observed", "received"}
      BY <1>23 DEF Return, Asked
    <3>3. step' = "received" => completion' = "completed" /\ verdict.work # "reject"
      BY <1>23 DEF Return
    <3> QED BY <1>t, <2>1, <2>3, <3>1, <3>2, <3>3, WithinDone
  <2> QED BY <1>t, <2>4, <2>5, <2>6 DEF TurnsInv
<1>24. ASSUME ObserveMutating PROVE TurnsInv'
  <2>1. step \in Begun /\ SameRoutes /\ attempts' = attempts
    BY <1>24, NothingKeeps DEF ObserveMutating, Begun
  <2>2. attempts'[turn][Number].status = "running" => step' \in Asked
    <3>1. Number \in DOMAIN attempts[turn] /\ turn \in Turns
      BY <1>a, <2>1, Lengths DEF AttemptsOK
    <3> QED BY <1>a, <1>24, <2>1, <3>1 DEF ObserveMutating, AttemptsOK, Asked
  <2>3. /\ status = "running" /\ UNCHANGED <<turn, made, verdict, claim, status, exhausted, tolerance>>
        /\ cand'.produced = cand.produced /\ blind \subseteq blind'
        /\ step' \in Begun /\ (step' = "received" => turn = Closeout)
    BY <1>a, <1>24 DEF ObserveMutating, Routing, Findings, Begun, TurnsTypeOK, CandidateTrees
  <2>4. AttemptsOK' /\ RoutesOK' /\ ClaimOK'
    BY <1>t, <2>1, <2>2, <2>3, WithinStep
  <2>9. Len(attempts'[turn]) = Len(attempts[turn]) /\ Number' = Number /\ Tree' = Tree
        /\ (\A t \in Turns : Len(attempts'[t]) = Len(attempts[t])) /\ turn \in Turns /\ Tree \in Nat
        /\ seen.before \in Reading /\ seen.after \in Reading
    BY <1>a, <1>t, <2>1, <2>3, KeptLengths, Lengths DEF Number
  <2>10. /\ \A k \in DOMAIN made' : made'[k].turn <= turn' /\ made'[k].number <= Len(attempts'[made'[k].turn])
        /\ \A k \in DOMAIN made : made[k].turn \in Turns
    BY <1>a, <2>3, <2>9, Lengths DEF WritesOK
  <2>5. WritesOK'
    <3>1. /\ step' = "observed" /\ step = "returned" /\ turn \notin ReadOnly /\ seen'.before = seen.before
          /\ \/ seen'.after = Tree /\ blind' = blind
             \/ seen'.after = seen.before /\ blind' = blind \cup {<<turn, Number>>}
      BY <1>a, <1>24 DEF ObserveMutating, After, TurnsTypeOK, Observation
    <3>2. seen.before <= Tree /\ seen.before # Unseen /\ \A k \in 1..seen.before : made[k] # [turn |-> turn, number |-> Number]
      BY <1>a, <3>1 DEF WritesOK, Asked
    <3>3. \A k \in DOMAIN made : k <= Tree
      BY <1>a, Lengths
    <3>4. seen'.after <= Tree /\ seen'.after # Unseen
      BY <2>9, <3>1, <3>2 DEF Unseen
    <3>5. \A b \in blind' : b[1] \notin ReadOnly
      BY <1>a, <3>1 DEF WritesOK
    <3>6. <<turn, Number>> \in blind' \/
            \A k \in DOMAIN made : made[k] = [turn |-> turn, number |-> Number] => k <= seen'.after
      BY <3>1, <3>3
    <3> QED BY <2>3, <2>9, <2>10, <3>1, <3>2, <3>4, <3>5, <3>6 DEF WritesOK
  <2>6. DoneOK'
    <3>1. /\ \A t \in Turns \ {turn} : duty'[t] = duty[t]
          /\ drift' = drift
      BY <1>d, <1>24 DEF ObserveMutating, Findings
    <3>2. \A k \in DOMAIN made : made[k].turn = turn /\ turn \in ReadOnly /\ made[k].number # 0 =>
            \/ drift' /\ tolerance # "block"
            \/ step' \in Asked \ {"observed", "received"}
            \/ step \in {"observed", "received"}
      BY <1>24 DEF ObserveMutating
    <3>3. step' = "received" => completion' = "completed" /\ verdict.work # "reject"
      BY <1>24 DEF ObserveMutating
    <3> QED BY <1>t, <2>1, <2>3, <3>1, <3>2, <3>3, WithinDone
  <2> QED BY <1>t, <2>4, <2>5, <2>6 DEF TurnsInv
<1>25. ASSUME ObserveReadOnly, step' # "ended" PROVE TurnsInv'
  <2>1. step \in Begun /\ SameRoutes /\ attempts' = attempts
    BY <1>25, NothingKeeps DEF ObserveReadOnly, Fail, Ends, Begun
  <2>2. attempts'[turn][Number].status = "running" => step' \in Asked
    <3>1. Number \in DOMAIN attempts[turn] /\ turn \in Turns
      BY <1>a, <2>1, Lengths DEF AttemptsOK
    <3> QED BY <1>a, <1>25, <2>1, <3>1 DEF ObserveReadOnly, Fail, Ends, AttemptsOK, Asked
  <2>3. /\ status = "running" /\ UNCHANGED <<turn, made, verdict, claim, status, exhausted, tolerance>>
        /\ cand'.produced = cand.produced /\ blind \subseteq blind'
        /\ step' \in Begun /\ (step' = "received" => turn = Closeout)
    BY <1>a, <1>25 DEF ObserveReadOnly, Fail, Ends, Routing, Findings, Begun, TurnsTypeOK, CandidateTrees
  <2>4. AttemptsOK' /\ RoutesOK' /\ ClaimOK'
    BY <1>t, <2>1, <2>2, <2>3, WithinStep
  <2>9. Len(attempts'[turn]) = Len(attempts[turn]) /\ Number' = Number /\ Tree' = Tree
        /\ (\A t \in Turns : Len(attempts'[t]) = Len(attempts[t])) /\ turn \in Turns /\ Tree \in Nat
        /\ seen.before \in Reading /\ seen.after \in Reading
    BY <1>a, <1>t, <2>1, <2>3, KeptLengths, Lengths DEF Number
  <2>10. /\ \A k \in DOMAIN made' : made'[k].turn <= turn' /\ made'[k].number <= Len(attempts'[made'[k].turn])
        /\ \A k \in DOMAIN made : made[k].turn \in Turns
    BY <1>a, <2>3, <2>9, Lengths DEF WritesOK
  <2>11. /\ step' = "observed" /\ step = "returned" /\ turn \in ReadOnly /\ seen'.before = seen.before
        /\ seen'.after = Tree /\ blind' = blind /\ UNCHANGED <<duty, completion>>
        /\ (Tree = seen.before \/ tolerance # "block") /\ drift' = (drift \/ Tree # seen.before)
    BY <1>a, <1>25 DEF ObserveReadOnly, After, Blocked, Fail, Ends, TurnsTypeOK, Observation
  <2>12. seen.before <= Tree /\ seen.before # Unseen /\ \A k \in 1..seen.before : made[k] # [turn |-> turn, number |-> Number]
    BY <1>a, <2>11 DEF WritesOK, Asked
  <2>5. WritesOK'
    <3>1. \A k \in DOMAIN made : k <= Tree
      BY <1>a, Lengths
    <3>2. seen'.after <= Tree /\ seen'.after # Unseen
      BY <2>9, <2>11 DEF Unseen
    <3>3. \A b \in blind' : b[1] \notin ReadOnly
      BY <1>a, <2>11 DEF WritesOK
    <3> QED BY <2>3, <2>9, <2>10, <2>11, <2>12, <3>1, <3>2, <3>3 DEF WritesOK
  <2>6. DoneOK'
    <3>1. ASSUME NEW k \in DOMAIN made, made[k].turn = turn, made[k].number # 0
          PROVE  drift' /\ tolerance # "block"
      <4>1. k \in 1..Tree /\ made[k] \in [turn : Turns, number : Nat] /\ made[k].number \in 1..Len(attempts[turn])
        <5>1. made \in Seq([turn : Turns, number : Nat])
          BY <1>a DEF TurnsTypeOK
        <5>2. k \in 1..Tree /\ made[k] \in [turn : Turns, number : Nat]
          <6> DEFINE T == [turn : Turns, number : Nat]
          <6>1. made \in Seq(T) /\ k \in DOMAIN made
            BY <5>1
          <6> HIDE DEF T
          <6>2. made[k] \in T
            BY <6>1
          <6>3. k \in 1..Tree
            BY <1>a, <6>1, Lengths
          <6> QED BY <6>2, <6>3 DEF T
        <5>3. made[k].number <= Len(attempts[turn])
          BY <1>a, <3>1 DEF WritesOK
        <5> QED BY <1>a, <3>1, <5>2, <5>3, Lengths
      <4>2. made[k] = [turn |-> turn, number |-> made[k].number]
        BY <3>1, <4>1
      <4>3. made[k].number \in Wrote(turn) /\ made[k].number \in DOMAIN attempts[turn] /\ <<turn, made[k].number>> \notin blind
        <5>1. made[k].number \in DOMAIN attempts[turn]
          BY <1>a, <4>1, Lengths
        <5>2. <<turn, made[k].number>> \notin blind
          BY <1>a, <2>11 DEF WritesOK
        <5> QED BY <4>2, <5>1, <5>2 DEF Wrote
      <4>4. made[k].number = Number
        <5>1. ~(made[k].number < Len(attempts[turn]))
          BY <1>a, <2>9, <4>3 DEF RoutesOK
        <5> QED BY <1>a, <4>1, <5>1, Lengths
      <4>5. k \notin 1..seen.before
        BY <2>12, <4>2, <4>4
      <4>6. Tree # seen.before
        BY <4>1, <4>5
      <4> QED BY <2>11, <4>6
    <3> QED BY <1>t, <2>1, <2>3, <2>11, <3>1, WithinDone
  <2> QED BY <1>t, <2>4, <2>5, <2>6 DEF TurnsInv
<1>26. ASSUME StoreReceipt, verdict.work # "reject" PROVE TurnsInv'
  <2>1. step \in Begun /\ SameRoutes /\ attempts' = attempts
    BY <1>26, NothingKeeps DEF StoreReceipt, Succeeded, Fail, Begun
  <2>2. attempts'[turn][Number].status = "running" => step' \in Asked
    <3>1. Number \in DOMAIN attempts[turn] /\ turn \in Turns
      BY <1>a, <2>1, Lengths DEF AttemptsOK
    <3> QED BY <1>a, <1>26, <2>1, <3>1 DEF StoreReceipt, Succeeded, Fail, AttemptsOK, Asked
  <2>3. /\ status = "running" /\ UNCHANGED <<turn, made, verdict, claim, status, exhausted, tolerance>>
        /\ cand'.produced = cand.produced /\ blind \subseteq blind'
        /\ step' \in Begun /\ (step' = "received" => turn = Closeout)
    BY <1>a, <1>26 DEF StoreReceipt, Succeeded, Fail, Routing, Findings, Begun, TurnsTypeOK, CandidateTrees
  <2>4. AttemptsOK' /\ RoutesOK' /\ ClaimOK'
    BY <1>t, <2>1, <2>2, <2>3, WithinStep
  <2>9. Len(attempts'[turn]) = Len(attempts[turn]) /\ Number' = Number /\ Tree' = Tree
        /\ (\A t \in Turns : Len(attempts'[t]) = Len(attempts[t])) /\ turn \in Turns /\ Tree \in Nat
        /\ seen.before \in Reading /\ seen.after \in Reading
    BY <1>a, <1>t, <2>1, <2>3, KeptLengths, Lengths DEF Number
  <2>10. /\ \A k \in DOMAIN made' : made'[k].turn <= turn' /\ made'[k].number <= Len(attempts'[made'[k].turn])
        /\ \A k \in DOMAIN made : made[k].turn \in Turns
    BY <1>a, <2>3, <2>9, Lengths DEF WritesOK
  <2>5. WritesOK'
    <3>1. step' = "received" /\ step = "observed" /\ seen' = seen /\ blind' = blind
      BY <1>26 DEF StoreReceipt, Succeeded
    <3> QED BY <1>a, <2>3, <2>9, <2>10, <3>1 DEF WritesOK, Asked
  <2>6. DoneOK'
    <3>1. step = "observed" /\ completion' = "completed" /\ UNCHANGED <<duty, drift>>
      BY <1>26 DEF StoreReceipt, Succeeded
    <3> QED BY <1>t, <1>26, <2>1, <2>3, <3>1, WithinDone
  <2> QED BY <1>t, <2>4, <2>5, <2>6 DEF TurnsInv
<1>27. ASSUME EndTurns PROVE TurnsInv'
  <2>1. /\ status = "running" /\ step = "last" /\ step' = "finalize"
        /\ UNCHANGED <<tolerance, excluded, exhausted, turn, made, attempts, duty, seen, verdict, cand, drift, completion, status, blind>>
        /\ claim' # Unseen => Fresh /\ claim' = Tree
    BY <1>27 DEF EndTurns, Routing
  <2>2. AttemptsOK'
    BY <1>a, <2>1 DEF AttemptsOK, Begun, Asked, Over, Number
  <2>3. WritesOK'
    BY <1>a, <2>1 DEF WritesOK, Asked, Number, Tree
  <2>4. RoutesOK'
    BY <1>a, <2>1 DEF RoutesOK, Provider, Wrote
  <2>5. DoneOK'
    BY <1>a, <2>1 DEF DoneOK, Over, Asked
  <2>6. ClaimOK'
    BY <1>a, <2>1 DEF ClaimOK, Fresh, Tree
  <2> QED BY <1>t, <2>2, <2>3, <2>4, <2>5, <2>6 DEF TurnsInv
<1>28. ASSUME FinishRun, status' = "completed" PROVE TurnsInv'
  <2>1. /\ status = "running" /\ step = "finalize" /\ step' = "ended" /\ seen' = Nothing
        /\ UNCHANGED <<tolerance, exhausted, turn, made, attempts, duty, verdict, cand, drift, completion, claim, blind>>
    BY <1>28 DEF FinishRun, Ends, Routing, Findings
  <2>2. AttemptsOK'
    BY <1>a, <1>28, <2>1 DEF AttemptsOK, Begun, Asked, Over, Number
  <2>3. WritesOK'
    <3>1. seen'.before <= Tree /\ seen'.after <= Tree
      BY <1>a, <2>1, Lengths DEF Nothing, Unseen
    <3> QED BY <1>a, <2>1, <3>1 DEF WritesOK, Asked, Tree
  <2>4. RoutesOK'
    BY <1>a, <2>1 DEF RoutesOK, Provider, Wrote
  <2>5. DoneOK'
    BY <1>a, <2>1 DEF DoneOK, Over, Asked
  <2>6. ClaimOK'
    BY <1>a, <2>1 DEF ClaimOK, Tree
  <2> QED BY <1>t, <2>2, <2>3, <2>4, <2>5, <2>6 DEF TurnsInv
<1> QED BY <1>c, <1>1, <1>2, <1>3, <1>4, <1>5, <1>6, <1>7, <1>8, <1>9, <1>10, <1>11, <1>12, <1>13, <1>14, <1>15, <1>16, <1>17, <1>18, <1>19, <1>20, <1>21, <1>22, <1>23, <1>24, <1>25, <1>26, <1>27, <1>28 DEF TurnsNext

(* The invariant holds in every run.                                          *)
THEOREM TurnsInvariant == TurnsSpec => []TurnsInv
BY TurnsInitInv, TurnsStep, PTL DEF TurnsSpec

(* Every variable of the turns of a run keeps its type.                       *)
THEOREM TurnsTypeCorrect == TurnsSpec => []TurnsTypeOK
<1>1. TurnsInv => TurnsTypeOK
  BY DEF TurnsInv
<1> QED BY <1>1, TurnsInvariant, PTL

(* No provider reviews its own work, for every catalog: of the attempts which *)
(* a reviewer's route does not take into account, those the binding was       *)
(* routed away from, none left a trace (resolve_dynamic_route).               *)
THEOREM ReviewersIndependent == TurnsSpec => []IndependentReview
<1>1. ASSUME TurnsInv PROVE IndependentReview
  <2> SUFFICES ASSUME NEW r \in Reviews, NEW n \in Launched(r[1]), NEW m \in DOMAIN attempts[r[2]],
                      \/ attempts[r[2]][m].status = "completed"
                      \/ m \in Wrote(r[2]) /\ <<r[2], m>> \notin blind
               PROVE  Provider(r[1], n) # Provider(r[2], m)
    BY DEF IndependentReview
  <2>1. TurnsTypeOK /\ AttemptsOK /\ RoutesOK
    BY <1>1 DEF TurnsInv
  <2>2. r[2] \in Turns /\ n \in DOMAIN attempts[r[1]]
    BY DEF Launched, Reviews, Turns, Plan, PlanReview, Work, WorkReview, Closeout
  <2>3. PICK t \in Turns : t = r[2]
    BY <2>2
  <2>4. ~(m < Len(attempts[t]))
    BY <2>1, <2>3 DEF AttemptsOK, RoutesOK
  <2>5. m = Len(attempts[t])
    BY <2>1, <2>3, <2>4, Lengths
  <2> QED BY <2>1, <2>2, <2>3, <2>5 DEF RoutesOK
<1> QED BY <1>1, TurnsInvariant, PTL

(* A turn is tried again only over what its first attempt found, and never by *)
(* a provider that met its quota, for every catalog (orchestrate_dynamic_     *)
(* retry).                                                                    *)
THEOREM RetriesAreClean == TurnsSpec => []RetryIsClean
<1>1. ASSUME TurnsInv PROVE RetryIsClean
  <2>1. TurnsTypeOK /\ RoutesOK
    BY <1>1 DEF TurnsInv
  <2> SUFFICES ASSUME NEW t \in Turns, NEW n \in DOMAIN attempts[t], NEW m \in DOMAIN attempts[t], n < m
               PROVE  (n \notin Wrote(t) \/ <<t, n>> \in blind) /\ Provider(t, n) # Provider(t, m)
    BY DEF RetryIsClean
  <2>2. n < Len(attempts[t])
    BY <2>1, Lengths
  <2> QED BY <2>1, <2>2 DEF RoutesOK
<1> QED BY <1>1, TurnsInvariant, PTL

(* A completed run performed every binding and was rejected by no review; a   *)
(* run that ended leaves no attempt running (_execute_v2_turns).              *)
THEOREM EndedRunsSettled == TurnsSpec => []EndedRunIsSettled
<1>1. ASSUME TurnsInv PROVE EndedRunIsSettled
  <2>1. TurnsTypeOK /\ AttemptsOK /\ DoneOK
    BY <1>1 DEF TurnsInv
  <2>2. ASSUME status = "completed", NEW t \in Turns
        PROVE  duty[t] = "completed" /\ attempts[t] # <<>> /\ \A n \in DOMAIN attempts[t] :
                 attempts[t][n].status = IF n = Len(attempts[t]) THEN "completed" ELSE "failed"
    <3>1. duty[t] = "completed" /\ attempts[t] # <<>> /\ attempts[t][Len(attempts[t])].status = "completed"
      BY <2>1, <2>2 DEF DoneOK
    <3>2. ASSUME NEW n \in DOMAIN attempts[t], n # Len(attempts[t]) PROVE attempts[t][n].status = "failed"
      <4>1. n < Len(attempts[t])
        BY <2>1, <3>2, Lengths
      <4> QED BY <2>1, <4>1 DEF AttemptsOK
    <3> QED BY <3>1, <3>2
  <2>3. status # "running" => step = "ended"
    BY <2>1 DEF AttemptsOK
  <2>4. ASSUME status = "completed"
        PROVE  /\ completion = "completed" /\ verdict.plan # "reject" /\ verdict.work # "reject"
               /\ \A k \in DOMAIN made : made[k].turn \in ReadOnly /\ made[k].number # 0 => drift /\ tolerance # "block"
    BY <2>1, <2>3, <2>4 DEF DoneOK, Asked
  <2>5. status # "running" => \A t \in Turns : \A n \in DOMAIN attempts[t] : attempts[t][n].status # "running"
    BY <2>1, <2>3 DEF AttemptsOK, Asked
  <2> QED BY <2>2, <2>4, <2>5 DEF EndedRunIsSettled
<1> QED BY <1>1, TurnsInvariant, PTL

(* The final tree is claimed to be reviewed only if every change it holds was *)
(* made before the reviewer was asked (derive_final_candidate_freshness).     *)
THEOREM ReviewedTreeIsFinal == TurnsSpec => []ReviewedIsFinal
<1>1. ASSUME TurnsInv PROVE ReviewedIsFinal
  BY <1>1 DEF TurnsInv, ClaimOK, ReviewedIsFinal
<1> QED BY <1>1, TurnsInvariant, PTL
=============================================================================
