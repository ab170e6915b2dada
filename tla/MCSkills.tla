------------------------------- MODULE MCSkills -------------------------------
(* Instances of SkillsTransaction and of SkillOwners for TLC. The two share   *)
(* no variable: a behaviour is one of a transaction, with no run of SkillOwners*)
(* beginning, or one of the two owners, with no transaction beginning.        *)
EXTENDS SkillsTransaction, SkillOwners

CONSTANTS x1, x2, t1

Two == {1, 2}

Apply(i) == [op |-> "apply", inv |-> i]
Inventories == {i \in [Names -> Targets \cup {NoTarget}] : \E n \in Names : i[n] # NoTarget}
Uninstall   == [op |-> "uninstall", inv |-> [n \in Names |-> NoTarget]]

(* Every inventory may be applied; an uninstall asks for none. *)
AnyRequest == {Apply(i) : i \in Inventories} \cup {Uninstall}

(* Bounds. One run, with two failing steps and a kill, or with one failing    *)
(* step and a change by the user; or two runs over one skill directory, with  *)
(* a kill.                                                                    *)
Single    == pc[x2] = "start" /\ req[x2] = Uninstall
OneTarget ==
  /\ \A n \in Names : dest[n] = NoEntry \/ dest[n].target = t1
  /\ \A n \in Names : Recorded(state, n) \in {t1, NoTarget}
  /\ \A x \in Txns, n \in Names : req[x].inv[n] \in {t1, NoTarget}
Bounded ==
  /\ \A x \in Txns : pc[x] = "start" => cur[x] = 1
  /\ \/ Single /\ users = 0
     \/ Single /\ crashes = 0 /\ faults < 2
     \/ OneTarget /\ faults = 0 /\ users = 0

(* Which of the two a behaviour is of.                                        *)
Idle      == at = [r \in Runs |-> "start"] /\ ~globalState /\ ~userState /\ ~lockFile
NoLinks   == root = NoTxn /\ state = NoState /\ \A x \in Txns : req[x] = Uninstall
Unopened  == \A x \in Txns : pc[x] = "start"

BothInit  == Init /\ OwnersInit /\ (Idle \/ NoLinks)
LinksNext == Idle /\ Next /\ UNCHANGED ownersVars
ApartNext == NoLinks /\ Unopened /\ OwnersNext /\ UNCHANGED vars
BothSpec  == BothInit /\ [][LinksNext \/ ApartNext]_<<vars, ownersVars>>
=============================================================================
