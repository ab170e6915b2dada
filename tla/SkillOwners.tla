------------------------------ MODULE SkillOwners ------------------------------
(* Two commands may own the skill links of a directory, never both:           *)
(* install-global-skills, with a lock directory and a state file in the       *)
(* directory, and apg-user-skills, with a lock file and a state file in the   *)
(* user's state directory. Each takes its own lock and then looks at the      *)
(* other's; neither waits.                                                    *)
EXTENDS FiniteSets

CONSTANTS
  Installers,    \* runs of install-global-skills on the directory
  Managers,      \* runs of apg-user-skills on the directory
  NoRun

ASSUME OwnersAssumption ==
  Installers \cap Managers = {} /\ NoRun \notin Installers \cup Managers

VARIABLES
  lockDir,       \* .install-global-skills.lock: the run that made it
  globalState,   \* .install-global-skills-state.json is there
  lockFile,      \* user-skills-v1.lock exists
  shared,        \* runs with a shared lock on it
  exclusive,     \* the run with the exclusive lock on it
  userState,     \* user-skills-v1.json is there and names the directory
  at             \* where each run is

ownersVars == <<lockDir, globalState, lockFile, shared, exclusive, userState, at>>

Runs   == Installers \cup Managers
Places == {"start", "guard", "act", "left", "rollback", "opened", "check", "done", "dead"}

Go(r, p) == at' = [at EXCEPT ![r] = p]

OwnersInit ==
  /\ lockDir = NoRun /\ shared = {} /\ exclusive = NoRun
  /\ globalState \in BOOLEAN /\ userState \in BOOLEAN /\ ~(globalState /\ userState)
  /\ lockFile \in BOOLEAN /\ (userState => lockFile)
  /\ at = [r \in Runs |-> "start"]

------------------------------------------------------------------------------
(* install-global-skills.                                                     *)

(* The lock directory stays behind when its owner token cannot be written.    *)
TakeLockDir(g) ==
  /\ at[g] = "start"
  /\ \/ lockDir = NoRun /\ lockDir' = g /\ at' \in {[at EXCEPT ![g] = p] : p \in {"guard", "done"}}
     \/ lockDir # NoRun /\ UNCHANGED lockDir /\ Go(g, "done")
  /\ UNCHANGED <<globalState, lockFile, shared, exclusive, userState>>

(* Faulty variant: the state file of the other command is not read.           *)
GuardPassesLocked == lockFile => exclusive = NoRun

(* Without a lock file of the other command there is nothing to lock; with    *)
(* one, a shared lock keeps the other command out while links change, and its *)
(* state file is read under that lock.                                        *)
GuardPasses == lockFile => exclusive = NoRun /\ ~userState

UserSkillsGuard(g) ==
  /\ at[g] = "guard"
  /\ \/ GuardPasses /\ Go(g, "act") /\ shared' = IF lockFile THEN shared \cup {g} ELSE shared
     \/ ~GuardPasses /\ Go(g, "left") /\ UNCHANGED shared
  /\ UNCHANGED <<lockDir, globalState, lockFile, exclusive, userState>>

(* An apply takes the old state file aside and writes the new one, an         *)
(* uninstall removes it, a failure leaves either.                             *)
ChangeLinks(g) ==
  /\ at[g] = "act" /\ globalState' = ~globalState
  /\ UNCHANGED <<lockDir, lockFile, shared, exclusive, userState, at>>

LeaveGuard(g) ==
  /\ at[g] = "act" /\ shared' = shared \ {g} /\ Go(g, "left")
  /\ UNCHANGED <<lockDir, globalState, lockFile, exclusive, userState>>

(* A lock directory that cannot be read or removed stays. A run that failed   *)
(* undoes its changes after this.                                             *)
RemoveLockDir(g) ==
  /\ at[g] = "left" /\ lockDir' \in {NoRun, lockDir}
  /\ at' \in {[at EXCEPT ![g] = p] : p \in {"rollback", "done"}}
  /\ UNCHANGED <<globalState, lockFile, shared, exclusive, userState>>

Rollback(g) ==
  /\ at[g] = "rollback" /\ Go(g, "done")
  /\ UNCHANGED <<lockDir, globalState, lockFile, shared, exclusive, userState>>

------------------------------------------------------------------------------
(* apg-user-skills.                                                           *)

OpenLock(u) ==
  /\ at[u] = "start" /\ lockFile' = TRUE /\ Go(u, "opened")
  /\ UNCHANGED <<lockDir, globalState, shared, exclusive, userState>>

StateLock(u) ==
  /\ at[u] = "opened"
  /\ \/ exclusive = NoRun /\ shared = {} /\ exclusive' = u /\ Go(u, "check")
     \/ ~(exclusive = NoRun /\ shared = {}) /\ UNCHANGED exclusive /\ Go(u, "done")
  /\ UNCHANGED <<lockDir, globalState, lockFile, shared, userState>>

(* Faulty variant: only the state file of the other command is looked for.     *)
NoGlobalState == ~globalState
NoGlobalOwner == lockDir = NoRun /\ ~globalState

RejectGlobalOwner(u) ==
  /\ at[u] = "check"
  /\ \/ NoGlobalOwner /\ Go(u, "act") /\ UNCHANGED exclusive
     \/ ~NoGlobalOwner /\ Go(u, "done") /\ exclusive' = NoRun
  /\ UNCHANGED <<lockDir, globalState, lockFile, shared, userState>>

(* Install, adopt, update and roll back write the state file, uninstall       *)
(* removes it, a failure leaves either.                                       *)
Manage(u) ==
  /\ at[u] = "act" /\ userState' = ~userState
  /\ UNCHANGED <<lockDir, globalState, lockFile, shared, exclusive, at>>

CloseLock(u) ==
  /\ at[u] = "act" /\ exclusive' = NoRun /\ Go(u, "done")
  /\ UNCHANGED <<lockDir, globalState, lockFile, shared, userState>>

(* The locks on the file die with their process; the lock directory and what  *)
(* was written stay.                                                          *)
OwnerKilled(r) ==
  /\ at[r] \notin {"start", "done", "dead"} /\ Go(r, "dead")
  /\ shared' = shared \ {r} /\ exclusive' = IF exclusive = r THEN NoRun ELSE exclusive
  /\ UNCHANGED <<lockDir, globalState, lockFile, userState>>

OwnersNext ==
  \/ \E g \in Installers : \/ TakeLockDir(g) \/ UserSkillsGuard(g) \/ ChangeLinks(g)
                           \/ LeaveGuard(g) \/ RemoveLockDir(g) \/ Rollback(g)
  \/ \E u \in Managers : \/ OpenLock(u) \/ StateLock(u) \/ RejectGlobalOwner(u)
                         \/ Manage(u) \/ CloseLock(u)
  \/ \E r \in Runs : OwnerKilled(r)

OwnersSpec == OwnersInit /\ [][OwnersNext]_ownersVars

------------------------------------------------------------------------------
(* Properties.                                                                *)

(* Every variable keeps its type.                                             *)
OwnersTypeOK ==
  /\ lockDir \in Installers \cup {NoRun} /\ exclusive \in Managers \cup {NoRun}
  /\ shared \subseteq Installers
  /\ globalState \in BOOLEAN /\ userState \in BOOLEAN /\ lockFile \in BOOLEAN
  /\ at \in [Runs -> Places]

(* The directory never has two owners on record: the refusals of              *)
(* apg_user_skills_guard and of reject_global_skills_owner hold against every *)
(* interleaving and every crash.                                              *)
OneOwner == ~(globalState /\ userState)

(* No two runs, of either command, stage and commit changes of the            *)
(* directory's links at once (destination_lock, the guard, state_lock).       *)
ActAlone == \A r, s \in Runs : at[r] = "act" /\ at[s] = "act" => r = s
=============================================================================
