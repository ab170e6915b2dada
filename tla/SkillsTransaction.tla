--------------------------- MODULE SkillsTransaction ---------------------------
(* The transaction of install-global-skills: one command links the skills of  *)
(* its sources into a destination directory, records what it owns in a state  *)
(* file written last, and undoes its links when anything before that commit   *)
(* fails. Transactions share the destination, its lock directory and its      *)
(* state file; a user may change entries at any moment; any step may raise;   *)
(* any process may be killed.                                                 *)
EXTENDS Integers, FiniteSets

CONSTANTS
  Txns,          \* runs of the command, each an apply or an uninstall
  Names,         \* skill names; their order is the order of the inventory
  Targets,       \* skill directories of the sources
  Requests,      \* what a run may be asked: [op, inv]
  NoTarget, NoTxn, NoState, User, Initial, NoEntry,
  MaxFaults,     \* bound: steps that raise
  MaxCrashes,    \* bound: processes killed
  MaxUser        \* bound: changes by the user

ASSUME SkillsAssumption ==
  /\ Names \subseteq Nat /\ IsFiniteSet(Names)
  /\ NoTarget \notin Targets /\ NoTxn \notin Txns
  /\ User \notin Txns /\ Initial \notin Txns /\ User # Initial
  /\ NoTxn \notin {User, Initial}
  /\ NoEntry \notin [by : Txns \cup {User, Initial}, target : Targets]
  /\ NoState \notin [by : Txns \cup {Initial}, links : [Names -> Targets \cup {NoTarget}],
                     made : Txns \cup {Initial, NoTxn}]
  /\ Requests \subseteq [op : {"apply", "uninstall"}, inv : [Names -> Targets \cup {NoTarget}]]
  /\ MaxFaults \in Nat /\ MaxCrashes \in Nat /\ MaxUser \in Nat

VARIABLES
  dest,          \* the entry at each name: who made it (its identity) and its target
  root,          \* who made the destination directory, NoTxn when it is absent
  state,         \* the ownership state file
  lock,          \* the lock directory: the run whose token it holds
  pc, req,       \* where each run is, what it was asked
  plan,          \* the action it planned for each name
  loaded,        \* the state file it planned with
  stage,         \* how far the change of each name is
  cur,           \* the name it is working on
  bak, sbak,     \* its backup of each entry, of the state file
  made,          \* it created the destination
  committed, failed, warned,   \* committed; its rollback failed somewhere; a backup was kept
  found,         \* history: the destination it planned for under the lock
  out,           \* how it ended
  faults, crashes, users

disk   == <<dest, root, state, lock>>
local  == <<plan, loaded, stage, cur, bak, sbak, made, committed, failed, warned,
            found, out>>
budget == <<faults, crashes, users>>
vars   == <<disk, pc, req, local, budget>>

Entry      == [by : Txns \cup {User, Initial}, target : Targets]
StateFile  == [by : Txns \cup {Initial}, links : [Names -> Targets \cup {NoTarget}],
               made : Txns \cup {Initial, NoTxn}]
Kinds      == {"create", "replace", "remove", "keep", "none", "refuse"}
Stages     == {"none", "planned", "quarantined", "installed", "undone", "cleaned"}
Phases     == {"start", "create", "lock", "locked", "stage", "move", "install", "link", "verify",
               "commit", "w_move", "w_read", "w_link", "w_verify", "w_clean", "cleanup", "unlock",
               "abort", "rollback", "unlink", "unroot", "done", "dead"}
Outcomes   == {"running", "ok", "refused", "failed", "incomplete", "escaped"}

NoEntries  == [n \in Names |-> NoEntry]
Recorded(s, n) == IF s = NoState THEN NoTarget ELSE s.links[n]

------------------------------------------------------------------------------
(* What a run would do with a name, given the destination and the state file. *)
Kind(n, s, inv) ==
  IF /\ dest[n] # NoEntry /\ dest[n].target # Recorded(s, n)
     /\ inv[n] # NoTarget \/ Recorded(s, n) # NoTarget  THEN "refuse"
  ELSE IF inv[n] # NoTarget /\ dest[n] = NoEntry         THEN "create"
  ELSE IF inv[n] # NoTarget /\ inv[n] = Recorded(s, n)   THEN "keep"
  ELSE IF inv[n] # NoTarget                              THEN "replace"
  ELSE IF Recorded(s, n) # NoTarget /\ dest[n] # NoEntry THEN "remove"
  ELSE "none"

PlanApply(s, inv)  == [n \in Names |-> Kind(n, s, inv)]
PlanUninstall(s)   == [n \in Names |-> IF Recorded(s, n) = NoTarget THEN "none" ELSE "remove"]
Refused(p)         == \E n \in Names : p[n] = "refuse"
StateChanged(s, inv) == s = NoState \/ \E n \in Names : Recorded(s, n) # inv[n]

(* Faulty variant: the plan made before the lock is carried out.               *)
SamePlanUnchecked(x) == plan[x] \in [Names -> Kinds]

(* The plan made under the lock is the one made before it.                    *)
SamePlan(x) ==
  /\ PlanApply(state, req[x].inv) = plan[x]
  /\ \A n \in Names : plan[x][n] \in {"replace", "remove"} =>
                        Recorded(state, n) = Recorded(loaded[x], n)
  /\ StateChanged(state, req[x].inv) = StateChanged(loaded[x], req[x].inv)

Applies(x) == req[x].op = "apply"

(* Links come first, removals of stale links after them, each in name order.  *)
Before(p, n, k) ==
  \/ p[n] # "remove" /\ p[k] = "remove"
  \/ (p[n] = "remove") = (p[k] = "remove") /\ n < k
(* Faulty variant: stale links stay.                                           *)
TodoKeepingStale(x) == {n \in Names : plan[x][n] \in {"create", "replace"} /\ stage[x][n] = "none"}
(* Faulty variant: an old link is put back only where a new one was in place.  *)
UndoInstalled(x) == {n \in Names : stage[x][n] \in {"planned", "installed"}}

(* The names whose change is still to be staged, or to be undone.             *)
Todo(x)  == {n \in Names : plan[x][n] \in {"create", "replace", "remove"} /\ stage[x][n] = "none"}
Undo(x)  == {n \in Names : stage[x][n] \in {"planned", "quarantined", "installed"}}
IsFirst(x, n) == n \in Todo(x) /\ \A k \in Todo(x) : k = n \/ Before(plan[x], n, k)
IsLast(x, n)  == n \in Undo(x) /\ \A k \in Undo(x) : k = n \/ Before(plan[x], k, n)

(* Faulty variant: the state records that the destination was created, not as  *)
(* which directory.                                                           *)
NewStateFlag(x) == [by |-> x, links |-> req[x].inv, made |-> made[x]]

NewState(x) ==
  [by |-> x, links |-> req[x].inv,
   made |-> IF loaded[x] # NoState THEN loaded[x].made ELSE IF made[x] THEN x ELSE NoTxn]

Empty ==
  /\ dest = NoEntries /\ state = NoState /\ lock = NoTxn
  /\ \A x \in Txns : bak[x] = NoEntries /\ sbak[x] = NoState

------------------------------------------------------------------------------
Goto(x, p) == pc' = [pc EXCEPT ![x] = p]
Raises     == faults < MaxFaults /\ faults' = faults + 1 /\ UNCHANGED <<crashes, users>>
Succeeds   == UNCHANGED budget

(* The destination as it may be found: the user's entries, and the links a    *)
(* state file of an earlier run records, some of them removed or replaced.    *)
Init ==
  /\ state \in {NoState} \cup {s \in StateFile : s.by = Initial /\ s.made \notin Txns
                                /\ \E n \in Names : s.links[n] # NoTarget}
  /\ root \in {NoTxn, User, Initial}
  /\ root = Initial <=> state # NoState /\ state.made = Initial
  /\ dest \in [Names -> {NoEntry} \cup {e \in Entry : e.by = User}
                                  \cup {e \in Entry : e.by = Initial}]
  /\ \A n \in Names : dest[n] # NoEntry /\ dest[n].by = Initial => dest[n].target = Recorded(state, n)
  /\ root = NoTxn => dest = NoEntries /\ state = NoState
  /\ lock = NoTxn
  /\ pc = [x \in Txns |-> "start"]
  /\ req \in [Txns -> Requests]
  /\ plan = [x \in Txns |-> [n \in Names |-> "none"]]
  /\ loaded = [x \in Txns |-> NoState]
  /\ stage = [x \in Txns |-> [n \in Names |-> "none"]]
  /\ cur \in [Txns -> Names]
  /\ bak = [x \in Txns |-> NoEntries]
  /\ sbak = [x \in Txns |-> NoState]
  /\ made = [x \in Txns |-> FALSE]
  /\ committed = [x \in Txns |-> FALSE]
  /\ failed = [x \in Txns |-> FALSE]
  /\ warned = [x \in Txns |-> FALSE]
  /\ found = [x \in Txns |-> dest]
  /\ out = [x \in Txns |-> "running"]
  /\ faults = 0 /\ crashes = 0 /\ users = 0

------------------------------------------------------------------------------
(* Before the lock.                                                           *)

(* The first plan: refused while another run holds the lock, when an entry is *)
(* not the state's own, or when there is nothing to uninstall.                *)
Preflight(x) ==
  /\ pc[x] = "start"
  /\ LET p == IF Applies(x) THEN PlanApply(state, req[x].inv) ELSE PlanUninstall(state)
     IN IF lock # NoTxn \/ Refused(p) \/ (~Applies(x) /\ state = NoState)
        THEN /\ out' = [out EXCEPT ![x] = "refused"] /\ Goto(x, "done")
             /\ UNCHANGED <<plan, loaded>>
        ELSE /\ plan' = [plan EXCEPT ![x] = p] /\ loaded' = [loaded EXCEPT ![x] = state]
             /\ Goto(x, IF Applies(x) THEN "create" ELSE "lock")
             /\ UNCHANGED out
  /\ Succeeds
  /\ UNCHANGED <<disk, req, stage, cur, bak, sbak, made, committed, failed, warned, found>>

(* The destination is created when absent; a creation that fails removes its  *)
(* own directory again.                                                       *)
CreateDestination(x) ==
  /\ pc[x] = "create"
  /\ \/ /\ root' = IF root = NoTxn THEN x ELSE root
        /\ made' = [made EXCEPT ![x] = root = NoTxn]
        /\ Goto(x, "lock") /\ Succeeds
     \/ Goto(x, "rollback") /\ Raises /\ UNCHANGED <<root, made>>
  /\ UNCHANGED <<dest, state, lock, req, plan, loaded, stage, cur, bak, sbak, committed, failed,
                 warned, found, out>>

LockFree == lock = NoTxn

(* The lock is a directory with the holder's token in it. When the token      *)
(* cannot be written the directory stays.                                     *)
DestinationLock(x) ==
  /\ pc[x] = "lock"
  /\ \/ LockFree /\ root # NoTxn /\ lock' = x /\ Goto(x, "locked") /\ Succeeds
     \/ (~LockFree \/ root = NoTxn) /\ UNCHANGED lock /\ Goto(x, "rollback") /\ Succeeds
     \/ LockFree /\ root # NoTxn /\ lock' = x /\ Goto(x, "rollback") /\ Raises
  /\ UNCHANGED <<dest, root, state, req, local>>

------------------------------------------------------------------------------
(* Under the lock.                                                            *)

(* The plan is made again and has to be the one made before the lock.         *)
LockedPlan(x) ==
  /\ pc[x] = "locked"
  /\ \/ /\ IF Applies(x) THEN SamePlan(x) ELSE state = loaded[x]
        /\ loaded' = [loaded EXCEPT ![x] = state]
        /\ found' = [found EXCEPT ![x] = dest]
        /\ Goto(x, "stage") /\ Succeeds
     \/ /\ IF Applies(x) THEN ~SamePlan(x) ELSE state # loaded[x]
        /\ UNCHANGED <<loaded, found>>
        /\ Goto(x, "abort") /\ Succeeds
     \/ UNCHANGED <<loaded, found>> /\ Goto(x, "abort") /\ Raises
  /\ UNCHANGED <<disk, req, plan, stage, cur, bak, sbak, made, committed, failed, warned, out>>

(* A creation is journalled before it is made; an old link is first linked to *)
(* its backup name, if it still is the one planned for.                       *)
StageCreate(x) ==
  /\ pc[x] = "stage"
  /\ \E n \in Names :
       /\ IsFirst(x, n) /\ plan[x][n] = "create"
       /\ stage' = [stage EXCEPT ![x][n] = "planned"]
       /\ cur' = [cur EXCEPT ![x] = n]
       /\ \/ Goto(x, "install") /\ Succeeds
          \/ Goto(x, "abort") /\ Raises
  /\ UNCHANGED <<disk, req, plan, loaded, bak, sbak, made, committed, failed, warned, found, out>>

(* Faulty variant: whatever stands at the name is taken.                       *)
StillPlannedAny(x, n) == dest[n] # NoEntry /\ plan[x][n] # "create"
StillPlanned(x, n) == dest[n] # NoEntry /\ dest[n].target = Recorded(loaded[x], n)

StageOld(x) ==
  /\ pc[x] = "stage"
  /\ \E n \in Names :
       /\ IsFirst(x, n) /\ plan[x][n] # "create"
       /\ cur' = [cur EXCEPT ![x] = n]
       /\ \/ /\ StillPlanned(x, n)
             /\ bak' = [bak EXCEPT ![x][n] = dest[n]]
             /\ Goto(x, "move") /\ Succeeds
          \/ ~StillPlanned(x, n) /\ UNCHANGED bak /\ Goto(x, "abort") /\ Succeeds
          \/ UNCHANGED bak /\ Goto(x, "abort") /\ Raises
  /\ UNCHANGED <<disk, req, plan, loaded, stage, sbak, made, committed, failed, warned, found, out>>

(* The old link leaves its name if it still is the one that was backed up,    *)
(* and only then is the change journalled. Otherwise the backup goes, after   *)
(* putting back a link that has disappeared in between.                       *)
Quarantine(x) ==
  /\ pc[x] = "move"
  /\ LET n == cur[x] IN
     \/ /\ dest[n] = bak[x][n]
        /\ dest' = [dest EXCEPT ![n] = NoEntry]
        /\ stage' = [stage EXCEPT ![x][n] = "quarantined"]
        /\ Goto(x, IF plan[x][n] = "replace" THEN "install" ELSE "stage") /\ Succeeds
        /\ UNCHANGED bak
     \/ /\ dest[n] # bak[x][n] \/ faults < MaxFaults
        /\ dest' = [dest EXCEPT ![n] = IF @ = NoEntry THEN bak[x][n] ELSE @]
        /\ bak' = [bak EXCEPT ![x][n] = NoEntry]
        /\ Goto(x, "abort") /\ UNCHANGED stage
        /\ IF dest[n] # bak[x][n] THEN Succeeds ELSE Raises
  /\ UNCHANGED <<root, state, lock, req, plan, loaded, cur, sbak, made, committed, failed, warned,
                 found, out>>

(* The new link is made beside its name, then linked to it if the name is     *)
(* free, then verified; only then is it journalled as installed.              *)
InstallTemporary(x) ==
  /\ pc[x] = "install"
  /\ \/ Goto(x, "link") /\ Succeeds
     \/ Goto(x, "abort") /\ Raises
  /\ UNCHANGED <<disk, req, local>>

InstallLink(x) ==
  /\ pc[x] = "link"
  /\ LET n == cur[x] IN
     \/ /\ dest[n] = NoEntry
        /\ dest' = [dest EXCEPT ![n] = [by |-> x, target |-> req[x].inv[n]]]
        /\ Goto(x, "verify") /\ Succeeds
     \/ dest[n] # NoEntry /\ Goto(x, "abort") /\ Succeeds /\ UNCHANGED dest
     \/ Goto(x, "abort") /\ Raises /\ UNCHANGED dest
  /\ UNCHANGED <<root, state, lock, req, local>>

(* Faulty variant: the entry at the name is taken for the run's own.           *)
MineAny(x, n) == dest[n] # NoEntry /\ plan[x][n] # "none"
(* The entry at the name is the link this run made.                           *)
Mine(x, n) == dest[n] # NoEntry /\ dest[n].by = x

InstallVerify(x) ==
  /\ pc[x] = "verify"
  /\ LET n == cur[x] IN
     \/ /\ Mine(x, n)
        /\ stage' = [stage EXCEPT ![x][n] = "installed"]
        /\ Goto(x, "stage") /\ Succeeds /\ UNCHANGED dest
     \/ ~Mine(x, n) /\ Goto(x, "abort") /\ Succeeds /\ UNCHANGED <<dest, stage>>
     \/ /\ Mine(x, n)
        /\ dest' = [dest EXCEPT ![n] = NoEntry]
        /\ Goto(x, "abort") /\ Raises /\ UNCHANGED stage
  /\ UNCHANGED <<root, state, lock, req, plan, loaded, cur, bak, sbak, made, committed, failed,
                 warned, found, out>>

------------------------------------------------------------------------------
(* The state file.                                                            *)

Changed(x) == \/ \E n \in Names : plan[x][n] \in {"create", "replace", "remove"}
              \/ StateChanged(loaded[x], req[x].inv)

(* Faulty variant: the backups are removed before the state file is written.   *)
AfterStagingCleanup(x) == IF loaded[x] = NoState THEN "w_link" ELSE "cleanup"
AfterStaging(x) == IF loaded[x] = NoState THEN "w_link" ELSE "w_move"

(* With every change staged an apply that changed nothing has committed; any  *)
(* other run first takes the old state file aside, when there is one.         *)
BeginCommit(x) ==
  /\ pc[x] = "stage" /\ Todo(x) = {}
  /\ \/ /\ Applies(x) /\ ~Changed(x)
        /\ committed' = [committed EXCEPT ![x] = TRUE] /\ Goto(x, "cleanup") /\ Succeeds
     \/ /\ ~(Applies(x) /\ ~Changed(x))
        /\ Goto(x, AfterStaging(x)) /\ Succeeds
        /\ UNCHANGED committed
     \/ ~(Applies(x) /\ ~Changed(x)) /\ Goto(x, "abort") /\ Raises /\ UNCHANGED committed
  /\ UNCHANGED <<disk, req, plan, loaded, stage, cur, bak, sbak, made, failed, warned, found, out>>

(* Faulty variant: the old state file is removed.                              *)
AsideNothing(x) == [sbak EXCEPT ![x] = NoState]
Aside(x) == [sbak EXCEPT ![x] = state]

MoveState(x) ==
  /\ pc[x] = "w_move"
  /\ \/ /\ state = loaded[x]
        /\ state' = NoState /\ sbak' = Aside(x)
        /\ Goto(x, "w_read") /\ Succeeds
     \/ Goto(x, "abort") /\ Raises /\ UNCHANGED <<state, sbak>>
  /\ UNCHANGED <<dest, root, lock, req, plan, loaded, stage, cur, bak, made, committed, failed,
                 warned, found, out>>

(* The displaced state file is read again. Removing the state file is what    *)
(* commits an uninstall; a failing read puts the file back there, and leaves  *)
(* it in its backup in an apply.                                              *)
ReadState(x) ==
  /\ pc[x] = "w_read"
  /\ \/ /\ Applies(x) /\ Goto(x, "w_link") /\ Succeeds
        /\ UNCHANGED <<state, sbak, committed>>
     \/ /\ ~Applies(x) /\ Goto(x, "cleanup") /\ Succeeds
        /\ committed' = [committed EXCEPT ![x] = TRUE]
        /\ UNCHANGED <<state, sbak>>
     \/ /\ Applies(x) /\ Goto(x, "abort") /\ Raises
        /\ UNCHANGED <<state, sbak, committed>>
     \/ /\ ~Applies(x) /\ Goto(x, "abort") /\ Raises
        /\ state' = sbak[x] /\ sbak' = [sbak EXCEPT ![x] = NoState]
        /\ UNCHANGED committed
  /\ UNCHANGED <<dest, root, lock, req, plan, loaded, stage, cur, bak, made, failed, warned, found,
                 out>>

(* The old state file returns when the new one cannot be installed.           *)
PutStateBack(x) ==
  /\ state' = sbak[x] /\ sbak' = [sbak EXCEPT ![x] = NoState]
  /\ Goto(x, "abort") /\ Raises /\ UNCHANGED committed

WriteState(x) ==
  /\ pc[x] = "w_link" /\ state = NoState
  /\ \/ /\ state' = NewState(x) /\ Goto(x, "w_verify") /\ Succeeds
        /\ UNCHANGED <<sbak, committed>>
     \/ PutStateBack(x)
  /\ UNCHANGED <<dest, root, lock, req, plan, loaded, stage, cur, bak, made, failed, warned, found,
                 out>>

(* The new state file is verified; with that the apply has committed.         *)
VerifyState(x) ==
  /\ pc[x] = "w_verify"
  /\ \/ /\ committed' = [committed EXCEPT ![x] = TRUE] /\ Goto(x, "w_clean") /\ Succeeds
        /\ UNCHANGED <<state, sbak>>
     \/ PutStateBack(x)
  /\ UNCHANGED <<dest, root, lock, req, plan, loaded, stage, cur, bak, made, failed, warned, found,
                 out>>

------------------------------------------------------------------------------
(* After the commit: a backup that cannot be removed is a warning.            *)

CleanState(x) ==
  /\ pc[x] = "w_clean"
  /\ \/ sbak' = [sbak EXCEPT ![x] = NoState] /\ UNCHANGED warned /\ Succeeds
     \/ /\ sbak[x] # NoState /\ Raises
        /\ warned' = [warned EXCEPT ![x] = TRUE] /\ UNCHANGED sbak
  /\ Goto(x, IF Applies(x) THEN "cleanup" ELSE "unlock")
  /\ UNCHANGED <<disk, req, plan, loaded, stage, cur, bak, made, committed, failed, found, out>>

CleanChange(x) ==
  /\ pc[x] = "cleanup"
  /\ \E n \in Names :
       /\ bak[x][n] # NoEntry /\ stage[x][n] # "cleaned"
       /\ stage' = [stage EXCEPT ![x][n] = "cleaned"]
       /\ \/ bak' = [bak EXCEPT ![x][n] = NoEntry] /\ UNCHANGED warned /\ Succeeds
          \/ warned' = [warned EXCEPT ![x] = TRUE] /\ UNCHANGED bak /\ Raises
  /\ UNCHANGED <<disk, pc, req, plan, loaded, cur, sbak, made, committed, failed, found, out>>

CleanedUp(x) ==
  /\ pc[x] = "cleanup"
  /\ \A n \in Names : bak[x][n] # NoEntry => stage[x][n] = "cleaned"
  /\ Goto(x, IF Applies(x) THEN "unlock" ELSE "w_clean")
  /\ Succeeds
  /\ UNCHANGED <<disk, req, local>>

Unlock(x) ==
  /\ pc[x] = "unlock"
  /\ \/ lock' = NoTxn /\ Succeeds
     \/ UNCHANGED lock /\ Raises
  /\ IF Applies(x)
     THEN Goto(x, "done") /\ out' = [out EXCEPT ![x] = "ok"]
     ELSE Goto(x, "unroot") /\ UNCHANGED out
  /\ UNCHANGED <<dest, root, state, req, plan, loaded, stage, cur, bak, sbak, made, committed,
                 failed, warned, found>>

------------------------------------------------------------------------------
(* Failure before the commit. The exception leaves the lock's context first.  *)

LeaveLock(x) ==
  /\ pc[x] = "abort"
  /\ \/ lock' = NoTxn /\ Succeeds
     \/ UNCHANGED lock /\ Raises
  /\ Goto(x, "rollback")
  /\ UNCHANGED <<dest, root, state, req, local>>

Undone(x, n, to) == stage' = [stage EXCEPT ![x][n] = to]
Fails(x)         == failed' = [failed EXCEPT ![x] = TRUE]

(* The changes are undone from the last to the first. A link not yet in place *)
(* needs nothing; one that is in place is removed if it still is the run's    *)
(* own; a replaced link is put back after that.                               *)
SkipPlanned(x) ==
  /\ pc[x] = "rollback"
  /\ \E n \in Names :
       IsLast(x, n) /\ stage[x][n] = "planned" /\ Undone(x, n, "undone")
  /\ Succeeds
  /\ UNCHANGED <<disk, pc, req, plan, loaded, cur, bak, sbak, made, committed, failed, warned,
                 found, out>>

RemoveNew(x) ==
  /\ pc[x] = "rollback"
  /\ \E n \in Names :
       /\ IsLast(x, n) /\ stage[x][n] = "installed"
       /\ \/ /\ dest[n] = NoEntry
             /\ Undone(x, n, IF plan[x][n] = "replace" THEN "quarantined" ELSE "undone")
             /\ Succeeds /\ UNCHANGED <<pc, cur, failed>>
          \/ /\ dest[n] # NoEntry /\ ~Mine(x, n)
             /\ Undone(x, n, "undone") /\ Fails(x) /\ Succeeds /\ UNCHANGED <<pc, cur>>
          \/ /\ Mine(x, n)
             /\ Goto(x, "unlink") /\ cur' = [cur EXCEPT ![x] = n]
             /\ Succeeds /\ UNCHANGED <<stage, failed>>
          \/ Undone(x, n, "undone") /\ Fails(x) /\ Raises /\ UNCHANGED <<pc, cur>>
  /\ UNCHANGED <<disk, req, plan, loaded, bak, sbak, made, committed, warned, found, out>>

(* A link that changed after it was looked at ends the whole rollback: that   *)
(* error is not among those the rollback collects.                            *)
UnlinkNew(x) ==
  /\ pc[x] = "unlink"
  /\ LET n == cur[x] IN
     \/ /\ Mine(x, n)
        /\ dest' = [dest EXCEPT ![n] = NoEntry]
        /\ Undone(x, n, IF plan[x][n] = "replace" THEN "quarantined" ELSE "undone")
        /\ Goto(x, "rollback") /\ Succeeds /\ UNCHANGED <<failed, out>>
     \/ /\ Mine(x, n)
        /\ dest' = [dest EXCEPT ![n] = NoEntry]
        /\ Undone(x, n, "undone") /\ Fails(x)
        /\ Goto(x, "rollback") /\ Raises /\ UNCHANGED out
     \/ /\ ~Mine(x, n)
        /\ out' = [out EXCEPT ![x] = "escaped"]
        /\ Goto(x, "done") /\ Succeeds /\ UNCHANGED <<dest, stage, failed>>
  /\ UNCHANGED <<root, state, lock, req, plan, loaded, cur, bak, sbak, made, committed, warned, found>>

Restore(x) ==
  /\ pc[x] = "rollback"
  /\ \E n \in Names :
       /\ IsLast(x, n) /\ stage[x][n] = "quarantined"
       /\ Undone(x, n, "undone")
       /\ \/ /\ dest[n] = NoEntry
             /\ dest' = [dest EXCEPT ![n] = bak[x][n]]
             /\ bak' = [bak EXCEPT ![x][n] = NoEntry]
             /\ Succeeds /\ UNCHANGED failed
          \/ dest[n] # NoEntry /\ Fails(x) /\ Succeeds /\ UNCHANGED <<dest, bak>>
          \/ Fails(x) /\ Raises /\ UNCHANGED <<dest, bak>>
  /\ UNCHANGED <<root, state, lock, pc, req, plan, loaded, cur, sbak, made, committed, warned, found,
                 out>>

RolledBack(x) ==
  /\ pc[x] = "rollback" /\ Undo(x) = {}
  /\ Goto(x, "unroot") /\ Succeeds
  /\ UNCHANGED <<disk, req, local>>

(* The directories the run created go again, and an uninstall removes those   *)
(* its state file recorded: only while they are the same and empty.           *)
RemoveContainers(x) ==
  /\ pc[x] = "unroot"
  /\ LET ours == IF committed[x] THEN loaded[x].made # NoTxn /\ root = loaded[x].made
                 ELSE made[x] /\ root = x
         incomplete == ~committed[x] /\ (failed[x] \/ (made[x] /\ root # NoTxn /\ ~(ours /\ Empty)))
     IN /\ root' = IF ours /\ Empty THEN NoTxn ELSE root
        /\ out' = [out EXCEPT ![x] = IF committed[x] THEN "ok"
                                     ELSE IF incomplete THEN "incomplete" ELSE "failed"]
  /\ Goto(x, "done") /\ Succeeds
  /\ UNCHANGED <<dest, state, lock, req, plan, loaded, stage, cur, bak, sbak, made, committed,
                 failed, warned, found>>

------------------------------------------------------------------------------
(* The user and the operating system.                                         *)

UserRemoves(n) ==
  /\ users < MaxUser /\ users' = users + 1
  /\ dest[n] # NoEntry
  /\ dest' = [dest EXCEPT ![n] = NoEntry]
  /\ UNCHANGED <<root, state, lock, pc, req, local, faults, crashes>>

UserPuts(n, t) ==
  /\ users < MaxUser /\ users' = users + 1
  /\ root # NoTxn /\ dest[n] # [by |-> User, target |-> t]
  /\ dest' = [dest EXCEPT ![n] = [by |-> User, target |-> t]]
  /\ UNCHANGED <<root, state, lock, pc, req, local, faults, crashes>>

Crash(x) ==
  /\ pc[x] \notin {"start", "done", "dead"}
  /\ crashes < MaxCrashes /\ crashes' = crashes + 1
  /\ Goto(x, "dead")
  /\ UNCHANGED <<disk, req, local, faults, users>>

Step(x) ==
  \/ Preflight(x) \/ CreateDestination(x) \/ DestinationLock(x) \/ LockedPlan(x)
  \/ StageCreate(x) \/ StageOld(x) \/ Quarantine(x)
  \/ InstallTemporary(x) \/ InstallLink(x) \/ InstallVerify(x)
  \/ BeginCommit(x) \/ MoveState(x) \/ ReadState(x) \/ WriteState(x) \/ VerifyState(x)
  \/ CleanState(x) \/ CleanChange(x) \/ CleanedUp(x) \/ Unlock(x)
  \/ LeaveLock(x) \/ SkipPlanned(x) \/ RemoveNew(x) \/ UnlinkNew(x) \/ Restore(x)
  \/ RolledBack(x) \/ RemoveContainers(x)

Next ==
  \/ \E x \in Txns : Step(x)
  \/ \E n \in Names : UserRemoves(n)
  \/ \E n \in Names, t \in Targets : UserPuts(n, t)
  \/ \E x \in Txns : Crash(x)

Spec     == Init /\ [][Next]_vars
FairSpec == Spec /\ \A x \in Txns : WF_vars(Step(x))

------------------------------------------------------------------------------
(* Properties.                                                                *)

(* Every variable keeps its type (the records of global_skills_transaction    *)
(* and of global_skills_state).                                               *)
SkillsTypeOK ==
  /\ dest \in [Names -> Entry \cup {NoEntry}]
  /\ root \in Txns \cup {User, Initial, NoTxn}
  /\ state \in StateFile \cup {NoState}
  /\ lock \in Txns \cup {NoTxn}
  /\ pc \in [Txns -> Phases]
  /\ req \in [Txns -> Requests]
  /\ plan \in [Txns -> [Names -> Kinds]]
  /\ loaded \in [Txns -> StateFile \cup {NoState}]
  /\ stage \in [Txns -> [Names -> Stages]]
  /\ cur \in [Txns -> Names]
  /\ bak \in [Txns -> [Names -> Entry \cup {NoEntry}]]
  /\ sbak \in [Txns -> StateFile \cup {NoState}]
  /\ made \in [Txns -> BOOLEAN] /\ committed \in [Txns -> BOOLEAN]
  /\ failed \in [Txns -> BOOLEAN] /\ warned \in [Txns -> BOOLEAN]
  /\ found \in [Txns -> [Names -> Entry \cup {NoEntry}]]
  /\ out \in [Txns -> Outcomes]
  /\ faults \in 0..MaxFaults /\ crashes \in 0..MaxCrashes /\ users \in 0..MaxUser

(* A run stages, commits and cleans up under the lock only (destination_lock),*)
(* so at most one does, whatever raises or is killed: the lock is the first   *)
(* thing taken and a leaked one stays with its run.                           *)
LockedPhases == {"locked", "stage", "move", "install", "link", "verify", "commit", "w_move",
                 "w_read", "w_link", "w_verify", "w_clean", "cleanup", "unlock", "abort"}
StagingIsLocked == \A x \in Txns : pc[x] \in LockedPhases => lock = x

(* An old link that a run has taken from its name is in that run's backup     *)
(* until the commit or until it was put back, and it is the link the state    *)
(* file records (quarantine, restore): no failure loses it.                   *)
OldLinksKept ==
  \A x \in Txns, n \in Names :
    /\ stage[x][n] \in {"quarantined", "installed"} /\ plan[x][n] # "create"
    => bak[x][n] # NoEntry /\ bak[x][n].target = Recorded(loaded[x], n)

(* One run, and no user beside it.                                            *)
Alone(x) == users = 0 /\ \A y \in Txns \ {x} : pc[y] = "start"

(* Alone, until the commit every link a run found is at its name or in a      *)
(* backup, and the state file it planned with is in place or in its backup,   *)
(* at every step, also after a kill (quarantine, write_state,                 *)
(* quarantine_uninstall_state).                                               *)
Recoverable ==
  \A x \in Txns : Alone(x) /\ ~committed[x] /\ pc[x] # "start" =>
    /\ \A n \in Names : found[x][n] = NoEntry \/ dest[n] = found[x][n] \/ bak[x][n] = found[x][n]
    /\ loaded[x] = NoState \/ state = loaded[x] \/ sbak[x] = loaded[x]

(* Alone, a run that ends by failing, its rollback not reported as            *)
(* incomplete, leaves the destination as it found it (rollback).              *)
LinksRestored ==
  \A x \in Txns : Alone(x) /\ pc[x] = "done" /\ out[x] = "failed" => dest = found[x]

(* No run is under way, none was killed or ended incomplete. The state file   *)
(* and the destination agree when every link a run made is recorded and every *)
(* link a run recorded is in place.                                           *)
Quiet == \A x \in Txns : pc[x] \in {"start", "done"} /\ out[x] \notin {"incomplete", "escaped"}
Agree ==
  /\ \A n \in Names : dest[n] # NoEntry /\ dest[n].by # User => dest[n].target = Recorded(state, n)
  /\ state # NoState /\ state.by \in Txns =>
       \A n \in Names : state.links[n] # NoTarget =>
         dest[n] # NoEntry /\ dest[n].target = state.links[n]

(* Once no run is under way, state file and destination agree, unless a state *)
(* file was left in its backup: when a run was alone, and in any interleaving *)
(* of runs that only commit or refuse, as the lock and the second plan make   *)
(* them one after the other (validate_apply, apply, rollback).                *)
NeverStaged(x) == \A n \in Names : stage[x][n] = "none"

StateMatchesLinks ==
  /\ Quiet
  /\ \/ \E x \in Txns : Alone(x)
     \/ users = 0 /\ \A x \in Txns : committed[x] \/ NeverStaged(x)
  => Agree \/ \E x \in Txns : sbak[x] # NoState

(* The same of any runs, those included that fail and undo their links: the   *)
(* lock serializes them.                                                      *)
RunsAgree == Quiet /\ users = 0 => Agree \/ \E x \in Txns : sbak[x] # NoState

(* A run displaces an entry of the user only if it is the link the state file *)
(* records at that name: nothing else of the user's is removed or replaced.   *)
UserEntriesKept ==
  [][\A x \in Txns, n \in Names :
       /\ Step(x) /\ dest[n] # NoEntry /\ dest[n].by = User /\ dest'[n] # dest[n]
       => dest[n].target = Recorded(loaded[x], n)]_vars
=============================================================================
