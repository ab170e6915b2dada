------------------------------ MODULE MCPhaseRun ------------------------------
(* Instances of ProviderLaunch, of PhaseTurns and of Publication for TLC: how *)
(* a phase run starts its providers, how its turns go on, and how it ends.    *)
(* The three share no variable: a behaviour is one of one of them, the other  *)
(* two not having begun.                                                      *)
EXTENDS ProviderLaunch, PhaseTurns, Publication, TLC

CONSTANTS r1, r2, r3, codex, claude, antigravity

(* Runs that resume are alike.                                                *)
Resuming == Permutations(Runs \ {First})

(* Bounds. ProviderLaunch: two stages and one resumption, or one stage and a  *)
(* second resumption, followed up to its first step; the first stage has a    *)
(* worker ledger. MaxWork and MaxAdvance bound Publication.                   *)
LaunchBound == cur <= 2 \/ (last = 1 /\ pc \in {"open", "dead"})

(* PhaseTurns: one endpoint per provider, not every one fit for every turn.   *)
(* No provider is excluded at dispatch, one turn is routed again, one tree    *)
(* cannot be read, and of the changes at most one is the operator's.          *)
OwnProvider == [e \in Endpoints |-> e]
Fit == [t \in Turns |-> IF t \in {Work, WorkReview} THEN Endpoints ELSE {codex, claude}]

TurnsBound ==
  /\ excluded = {}
  /\ Cardinality({t \in Turns : Len(attempts[t]) > 1}) <= 1
  /\ Cardinality(blind) <= 1
  /\ Cardinality({k \in DOMAIN made : made[k].number = 0}) <= 1

Bounded == LaunchBound /\ TurnsBound

(* Which of the three a behaviour is of.                                      *)
NoLaunch == last = 1 /\ cur = 0
NoTurns  == TurnsInit /\ tolerance = "block" /\ excluded = {}
NoEnding == (\A r \in Runs : at[r] = "idle") /\ effort = [work |-> MaxWork, advance |-> MaxAdvance]

AnyInit    == LaunchInit /\ TurnsInit /\ PublicationInit
LaunchOnly == NoTurns /\ NoEnding /\ LaunchNext /\ UNCHANGED <<turnVars, publicationVars>>
TurnsOnly  == NoLaunch /\ NoEnding /\ TurnsNext /\ UNCHANGED <<launchVars, publicationVars>>
EndingOnly == NoLaunch /\ NoTurns /\ PublicationNext /\ UNCHANGED <<launchVars, turnVars>>
AnySpec    == AnyInit /\ [][LaunchOnly \/ TurnsOnly \/ EndingOnly]_<<launchVars, turnVars, publicationVars>>

TurnsAlone  == AnyInit /\ [][TurnsOnly]_<<launchVars, turnVars, publicationVars>>
EndingAlone == AnyInit /\ [][EndingOnly]_<<launchVars, turnVars, publicationVars>>

(* The variables of the three modules keep their types.                       *)
TypesOK == LaunchTypeOK /\ TurnsTypeOK /\ PublicationTypeOK
=============================================================================
