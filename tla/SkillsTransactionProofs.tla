------------------------ MODULE SkillsTransactionProofs ------------------------
(* What SkillsTransaction guarantees for any number of runs, names, faults,   *)
(* crashes and changes by the user; what it guarantees besides of runs that   *)
(* nobody disturbs, whose destination and state file are where their journals *)
(* say; and what SkillOwners guarantees for any number of runs of either      *)
(* command.                                                                   *)
EXTENDS SkillsTransaction, SkillOwners, TLAPS

OldLink(x, n) == bak[x][n] # NoEntry /\ bak[x][n].target = Recorded(loaded[x], n)

(* A run plans to link only what its inventory has.                           *)
PlanOK ==
  \A x \in Txns, n \in Names :
    plan[x][n] \in {"create", "replace"} => req[x].inv[n] \in Targets

(* What the journal of a run says about the name it is working on.            *)
JournalOK ==
  \A x \in Txns :
    /\ pc[x] \in {"start", "create", "lock", "locked"} =>
         \A n \in Names : stage[x][n] = "none"
    /\ pc[x] = "move" => /\ stage[x][cur[x]] = "none" /\ OldLink(x, cur[x])
                         /\ plan[x][cur[x]] # "create"
    /\ pc[x] \in {"install", "link", "verify"} =>
         \/ plan[x][cur[x]] = "create"
         \/ plan[x][cur[x]] = "replace" /\ OldLink(x, cur[x])
    /\ pc[x] = "unlink" => stage[x][cur[x]] = "installed"

SkillsInv == SkillsTypeOK /\ PlanOK /\ StagingIsLocked /\ JournalOK /\ OldLinksKept

LEMMA RecordedType ==
  ASSUME NEW s \in StateFile \cup {NoState}, NEW n \in Names
  PROVE  Recorded(s, n) \in Targets \cup {NoTarget}
BY DEF Recorded, StateFile

LEMMA RequestType ==
  ASSUME SkillsTypeOK, NEW x \in Txns
  PROVE  /\ req[x] \in Requests /\ req[x].op \in {"apply", "uninstall"}
         /\ req[x].inv \in [Names -> Targets \cup {NoTarget}]
BY SkillsAssumption DEF SkillsTypeOK

LEMMA KindType ==
  ASSUME NEW s, NEW inv, NEW n
  PROVE  /\ Kind(n, s, inv) \in Kinds
         /\ Kind(n, s, inv) \in {"create", "replace"} => inv[n] # NoTarget
BY DEF Kind, Kinds

LEMMA InitInv == Init => SkillsInv
<1> SUFFICES ASSUME Init PROVE SkillsInv
  OBVIOUS
<1>1. SkillsTypeOK
  BY SkillsAssumption DEF Init, SkillsTypeOK, NoEntries, Kinds, Stages, Phases, Outcomes, Entry
<1>2. PlanOK /\ StagingIsLocked /\ JournalOK /\ OldLinksKept
  BY DEF Init, PlanOK, StagingIsLocked, JournalOK, OldLinksKept, LockedPhases
<1> QED BY <1>1, <1>2 DEF SkillsInv

(* The type invariant in parts.                                               *)
DiskOK == /\ dest \in [Names -> Entry \cup {NoEntry}]
          /\ root \in Txns \cup {User, Initial, NoTxn}
          /\ state \in StateFile \cup {NoState}
          /\ lock \in Txns \cup {NoTxn}
ProgressOK == /\ pc \in [Txns -> Phases] /\ out \in [Txns -> Outcomes]
              /\ made \in [Txns -> BOOLEAN] /\ committed \in [Txns -> BOOLEAN]
              /\ failed \in [Txns -> BOOLEAN] /\ warned \in [Txns -> BOOLEAN]
WorkOK == /\ req \in [Txns -> Requests] /\ plan \in [Txns -> [Names -> Kinds]]
          /\ stage \in [Txns -> [Names -> Stages]] /\ cur \in [Txns -> Names]
KeptOK == /\ loaded \in [Txns -> StateFile \cup {NoState}]
          /\ bak \in [Txns -> [Names -> Entry \cup {NoEntry}]]
          /\ sbak \in [Txns -> StateFile \cup {NoState}]
          /\ found \in [Txns -> [Names -> Entry \cup {NoEntry}]]
BudgetOK == faults \in 0..MaxFaults /\ crashes \in 0..MaxCrashes /\ users \in 0..MaxUser

LEMMA TypeParts ==
  SkillsTypeOK <=> DiskOK /\ ProgressOK /\ WorkOK /\ KeptOK /\ BudgetOK
BY DEF SkillsTypeOK, DiskOK, ProgressOK, WorkOK, KeptOK, BudgetOK

LEMMA TypePartsNext ==
  SkillsTypeOK' <=> DiskOK' /\ ProgressOK' /\ WorkOK' /\ KeptOK' /\ BudgetOK'
BY DEF SkillsTypeOK, DiskOK, ProgressOK, WorkOK, KeptOK, BudgetOK

(* Changing one value of one run's map keeps the map's type.                  *)
LEMMA SetIn ==
  ASSUME NEW S, NEW f \in [Txns -> [Names -> S]], NEW x \in Txns, NEW n \in Names, NEW v \in S
  PROVE  /\ [f EXCEPT ![x][n] = v] \in [Txns -> [Names -> S]]
         /\ [f EXCEPT ![x][n] = v][x][n] = v
         /\ \A k \in Names : k # n => [f EXCEPT ![x][n] = v][x][k] = f[x][k]
         /\ \A y \in Txns : y # x => [f EXCEPT ![x][n] = v][y] = f[y]
OBVIOUS

LEMMA PlanType ==
  ASSUME SkillsTypeOK, NEW x \in Txns
  PROVE  /\ PlanApply(state, req[x].inv) \in [Names -> Kinds]
         /\ PlanUninstall(state) \in [Names -> Kinds]
         /\ \A n \in Names : /\ PlanApply(state, req[x].inv)[n] \in {"create", "replace"} =>
                                  req[x].inv[n] \in Targets
                             /\ PlanUninstall(state)[n] \notin {"create", "replace"}
<1>1. \A n \in Names : req[x].inv[n] \in Targets \cup {NoTarget}
  BY RequestType
<1>2. PlanApply(state, req[x].inv) \in [Names -> Kinds]
  BY KindType DEF PlanApply
<1>3. PlanUninstall(state) \in [Names -> Kinds]
  BY DEF PlanUninstall, Kinds
<1>4. \A n \in Names : PlanApply(state, req[x].inv)[n] \in {"create", "replace"} =>
                         req[x].inv[n] \in Targets
  BY <1>1, KindType DEF PlanApply
<1>5. \A n \in Names : PlanUninstall(state)[n] \notin {"create", "replace"}
  BY DEF PlanUninstall
<1> QED BY <1>2, <1>3, <1>4, <1>5

LEMMA PreflightInv ==
  ASSUME SkillsInv, NEW x \in Txns, Preflight(x)
  PROVE  SkillsInv'
<1> USE DEF Preflight, Goto, Raises, Succeeds, disk, local, budget
<1>1. DiskOK /\ ProgressOK /\ WorkOK /\ KeptOK /\ BudgetOK
  BY TypeParts DEF SkillsInv
<1>2. DiskOK'
  BY <1>1 DEF DiskOK, KeptOK
<1>3. ProgressOK'
  BY <1>1 DEF ProgressOK, Phases, Outcomes
<1>4. WorkOK'
  <2>1. plan' \in [Txns -> [Names -> Kinds]]
    BY <1>1, PlanType DEF SkillsInv, WorkOK
  <2> QED BY <1>1, <2>1 DEF WorkOK
<1>5. KeptOK'
  BY <1>1 DEF KeptOK, DiskOK, WorkOK
<1>6. BudgetOK'
  BY <1>1, SkillsAssumption DEF BudgetOK
<1>7. SkillsTypeOK'
  BY <1>2, <1>3, <1>4, <1>5, <1>6, TypePartsNext
<1>8. PlanOK' /\ StagingIsLocked'
  <2>1. PlanOK'
    BY <1>1, PlanType DEF SkillsInv, WorkOK, PlanOK
  <2>2. StagingIsLocked'
    BY <1>1 DEF SkillsInv, ProgressOK, StagingIsLocked, LockedPhases
  <2> QED BY <2>1, <2>2
<1>9. JournalOK'
  BY <1>1 DEF SkillsInv, ProgressOK, WorkOK, KeptOK, DiskOK, JournalOK, OldLinksKept, OldLink, PlanApply, PlanUninstall, Applies
<1>10. OldLinksKept'
  <2>1. \A n \in Names : stage[x][n] = "none"
    BY DEF SkillsInv, JournalOK
  <2>2. \A y \in Txns : y # x => loaded'[y] = loaded[y] /\ plan'[y] = plan[y]
    BY <1>1 DEF KeptOK, WorkOK
  <2>3. stage' = stage /\ bak' = bak
    OBVIOUS
  <2> QED BY <2>1, <2>2, <2>3 DEF SkillsInv, OldLinksKept
<1> QED BY <1>7, <1>8, <1>9, <1>10 DEF SkillsInv

LEMMA CreateDestinationInv ==
  ASSUME SkillsInv, NEW x \in Txns, CreateDestination(x)
  PROVE  SkillsInv'
<1> USE DEF CreateDestination, Goto, Raises, Succeeds, disk, local, budget
<1>1. DiskOK /\ ProgressOK /\ WorkOK /\ KeptOK /\ BudgetOK
  BY TypeParts DEF SkillsInv
<1>2. DiskOK'
  BY <1>1 DEF DiskOK, KeptOK
<1>3. ProgressOK'
  BY <1>1 DEF ProgressOK, Phases, Outcomes
<1>4. WorkOK'
  BY <1>1 DEF WorkOK, Stages
<1>5. KeptOK'
  BY <1>1 DEF KeptOK, DiskOK, WorkOK
<1>6. BudgetOK'
  BY <1>1, SkillsAssumption DEF BudgetOK
<1>7. SkillsTypeOK'
  BY <1>2, <1>3, <1>4, <1>5, <1>6, TypePartsNext
<1>8. PlanOK' /\ StagingIsLocked'
  BY <1>1 DEF SkillsInv, ProgressOK, WorkOK, PlanOK, StagingIsLocked, LockedPhases
<1>9. JournalOK'
  BY <1>1 DEF SkillsInv, ProgressOK, WorkOK, KeptOK, DiskOK, JournalOK, OldLinksKept, OldLink
<1>10. OldLinksKept'
  BY <1>1 DEF SkillsInv, ProgressOK, WorkOK, KeptOK, DiskOK, JournalOK, OldLinksKept, OldLink
<1> QED BY <1>7, <1>8, <1>9, <1>10 DEF SkillsInv

LEMMA DestinationLockInv ==
  ASSUME SkillsInv, NEW x \in Txns, DestinationLock(x)
  PROVE  SkillsInv'
<1> USE DEF DestinationLock, Goto, Raises, Succeeds, disk, local, budget, LockFree
<1>1. DiskOK /\ ProgressOK /\ WorkOK /\ KeptOK /\ BudgetOK
  BY TypeParts DEF SkillsInv
<1>2. DiskOK'
  BY <1>1 DEF DiskOK, KeptOK
<1>3. ProgressOK'
  BY <1>1 DEF ProgressOK, Phases, Outcomes
<1>4. WorkOK'
  BY <1>1 DEF WorkOK, Stages
<1>5. KeptOK'
  BY <1>1 DEF KeptOK, DiskOK, WorkOK
<1>6. BudgetOK'
  BY <1>1, SkillsAssumption DEF BudgetOK
<1>7. SkillsTypeOK'
  BY <1>2, <1>3, <1>4, <1>5, <1>6, TypePartsNext
<1>8. PlanOK' /\ StagingIsLocked'
  <2>1. PlanOK'
    BY DEF SkillsInv, PlanOK
  <2>2. StagingIsLocked'
    <3>1. CASE LockFree
      <4>1. \A y \in Txns : pc[y] \notin LockedPhases
        BY <3>1, SkillsAssumption DEF SkillsInv, StagingIsLocked
      <4>2. \A y \in Txns : y # x => pc'[y] = pc[y]
        BY <1>1 DEF ProgressOK
      <4>3. pc'[x] \in LockedPhases => lock' = x
        BY <1>1, <3>1 DEF ProgressOK, LockedPhases
      <4> QED BY <4>1, <4>2, <4>3 DEF StagingIsLocked
    <3>2. CASE ~LockFree
      BY <1>1, <3>2 DEF SkillsInv, ProgressOK, StagingIsLocked, LockedPhases
    <3> QED BY <3>1, <3>2
  <2> QED BY <2>1, <2>2
<1>9. JournalOK'
  BY <1>1 DEF SkillsInv, ProgressOK, WorkOK, KeptOK, DiskOK, JournalOK, OldLinksKept, OldLink, LockFree
<1>10. OldLinksKept'
  BY <1>1 DEF SkillsInv, ProgressOK, WorkOK, KeptOK, DiskOK, JournalOK, OldLinksKept, OldLink, LockFree
<1> QED BY <1>7, <1>8, <1>9, <1>10 DEF SkillsInv

LEMMA LockedPlanInv ==
  ASSUME SkillsInv, NEW x \in Txns, LockedPlan(x)
  PROVE  SkillsInv'
<1> USE DEF LockedPlan, Goto, Raises, Succeeds, disk, local, budget
<1>1. DiskOK /\ ProgressOK /\ WorkOK /\ KeptOK /\ BudgetOK
  BY TypeParts DEF SkillsInv
<1>2. DiskOK'
  BY <1>1 DEF DiskOK, KeptOK
<1>3. ProgressOK'
  BY <1>1 DEF ProgressOK, Phases, Outcomes
<1>4. WorkOK'
  BY <1>1 DEF WorkOK, Stages
<1>5. KeptOK'
  <2>1. loaded' \in [Txns -> StateFile \cup {NoState}]
    BY <1>1 DEF KeptOK, DiskOK
  <2>2. found' \in [Txns -> [Names -> Entry \cup {NoEntry}]]
    BY <1>1 DEF KeptOK, DiskOK
  <2> QED BY <1>1, <2>1, <2>2 DEF KeptOK
<1>6. BudgetOK'
  BY <1>1, SkillsAssumption DEF BudgetOK
<1>7. SkillsTypeOK'
  BY <1>2, <1>3, <1>4, <1>5, <1>6, TypePartsNext
<1>8. PlanOK' /\ StagingIsLocked'
  BY <1>1 DEF SkillsInv, ProgressOK, WorkOK, PlanOK, StagingIsLocked, LockedPhases
<1>9. JournalOK'
  BY <1>1 DEF SkillsInv, ProgressOK, WorkOK, KeptOK, DiskOK, JournalOK, OldLinksKept, OldLink
<1>10. OldLinksKept'
  <2>1. \A n \in Names : stage[x][n] = "none"
    BY DEF SkillsInv, JournalOK
  <2>2. \A y \in Txns : y # x => loaded'[y] = loaded[y] /\ plan'[y] = plan[y]
    BY <1>1 DEF KeptOK, WorkOK
  <2>3. stage' = stage /\ bak' = bak
    OBVIOUS
  <2> QED BY <2>1, <2>2, <2>3 DEF SkillsInv, OldLinksKept
<1> QED BY <1>7, <1>8, <1>9, <1>10 DEF SkillsInv

LEMMA StageCreateInv ==
  ASSUME SkillsInv, NEW x \in Txns, StageCreate(x)
  PROVE  SkillsInv'
<1> USE DEF StageCreate, Goto, Raises, Succeeds, disk, local, budget
<1>1. DiskOK /\ ProgressOK /\ WorkOK /\ KeptOK /\ BudgetOK
  BY TypeParts DEF SkillsInv
<1>2. DiskOK'
  BY <1>1 DEF DiskOK, KeptOK
<1>3. ProgressOK'
  BY <1>1 DEF ProgressOK, Phases, Outcomes
<1>4. WorkOK'
  BY <1>1 DEF WorkOK, Stages
<1>5. KeptOK'
  BY <1>1 DEF KeptOK, DiskOK, WorkOK
<1>6. BudgetOK'
  BY <1>1, SkillsAssumption DEF BudgetOK
<1>7. SkillsTypeOK'
  BY <1>2, <1>3, <1>4, <1>5, <1>6, TypePartsNext
<1>8. PlanOK' /\ StagingIsLocked'
  BY <1>1 DEF SkillsInv, ProgressOK, WorkOK, PlanOK, StagingIsLocked, LockedPhases
<1>9. JournalOK'
  BY <1>1 DEF SkillsInv, ProgressOK, WorkOK, KeptOK, DiskOK, JournalOK, OldLinksKept, OldLink, IsFirst, Todo
<1>10. OldLinksKept'
  BY <1>1 DEF SkillsInv, ProgressOK, WorkOK, KeptOK, DiskOK, JournalOK, OldLinksKept, OldLink, IsFirst, Todo
<1> QED BY <1>7, <1>8, <1>9, <1>10 DEF SkillsInv

LEMMA StageOldInv ==
  ASSUME SkillsInv, NEW x \in Txns, StageOld(x)
  PROVE  SkillsInv'
<1> USE DEF StageOld, Goto, Raises, Succeeds, disk, local, budget
<1>1. DiskOK /\ ProgressOK /\ WorkOK /\ KeptOK /\ BudgetOK
  BY TypeParts DEF SkillsInv
<1>2. DiskOK'
  BY <1>1 DEF DiskOK, KeptOK
<1>3. ProgressOK'
  BY <1>1 DEF ProgressOK, Phases, Outcomes
<1>4. WorkOK'
  BY <1>1 DEF WorkOK, Stages
<1>5. KeptOK'
  <2>1. \A n \in Names : [bak EXCEPT ![x][n] = dest[n]] \in [Txns -> [Names -> Entry \cup {NoEntry}]]
    BY <1>1, SetIn DEF KeptOK, DiskOK
  <2>2. bak' \in [Txns -> [Names -> Entry \cup {NoEntry}]]
    BY <1>1, <2>1 DEF KeptOK
  <2> QED BY <1>1, <2>2 DEF KeptOK
<1>6. BudgetOK'
  BY <1>1, SkillsAssumption DEF BudgetOK
<1>7. SkillsTypeOK'
  BY <1>2, <1>3, <1>4, <1>5, <1>6, TypePartsNext
<1>8. PlanOK' /\ StagingIsLocked'
  BY <1>1 DEF SkillsInv, ProgressOK, WorkOK, PlanOK, StagingIsLocked, LockedPhases
<1>9. JournalOK'
  BY <1>1 DEF SkillsInv, ProgressOK, WorkOK, KeptOK, DiskOK, JournalOK, OldLinksKept, OldLink, IsFirst, Todo, StillPlanned
<1>10. OldLinksKept'
  BY <1>1 DEF SkillsInv, ProgressOK, WorkOK, KeptOK, DiskOK, JournalOK, OldLinksKept, OldLink, IsFirst, Todo, StillPlanned
<1> QED BY <1>7, <1>8, <1>9, <1>10 DEF SkillsInv

LEMMA QuarantineInv ==
  ASSUME SkillsInv, NEW x \in Txns, Quarantine(x)
  PROVE  SkillsInv'
<1> USE DEF Quarantine, Goto, Raises, Succeeds, disk, local, budget
<1>1. DiskOK /\ ProgressOK /\ WorkOK /\ KeptOK /\ BudgetOK
  BY TypeParts DEF SkillsInv
<1>2. DiskOK'
  BY <1>1 DEF DiskOK, KeptOK
<1>3. ProgressOK'
  BY <1>1 DEF ProgressOK, Phases, Outcomes
<1>4. WorkOK'
  <2>1. [stage EXCEPT ![x][cur[x]] = "quarantined"] \in [Txns -> [Names -> Stages]]
    BY <1>1, SetIn DEF WorkOK, Stages
  <2> QED BY <1>1, <2>1 DEF WorkOK
<1>5. KeptOK'
  <2>1. [bak EXCEPT ![x][cur[x]] = NoEntry] \in [Txns -> [Names -> Entry \cup {NoEntry}]]
    BY <1>1, SetIn DEF KeptOK, WorkOK
  <2> QED BY <1>1, <2>1 DEF KeptOK
<1>6. BudgetOK'
  BY <1>1, SkillsAssumption DEF BudgetOK
<1>7. SkillsTypeOK'
  BY <1>2, <1>3, <1>4, <1>5, <1>6, TypePartsNext
<1>8. PlanOK' /\ StagingIsLocked'
  BY <1>1 DEF SkillsInv, ProgressOK, WorkOK, PlanOK, StagingIsLocked, LockedPhases
<1>9. JournalOK'
  BY <1>1 DEF SkillsInv, ProgressOK, WorkOK, KeptOK, DiskOK, JournalOK, OldLinksKept, OldLink
<1>10. OldLinksKept'
  <2> DEFINE n == cur[x]
  <2>1. n \in Names /\ stage[x][n] = "none" /\ OldLink(x, n)
    BY <1>1 DEF SkillsInv, JournalOK, WorkOK
  <2>2. CASE bak' = bak /\ stage' = [stage EXCEPT ![x][n] = "quarantined"]
    BY <1>1, <2>1, <2>2 DEF SkillsInv, OldLinksKept, OldLink, WorkOK
  <2>3. CASE bak' = [bak EXCEPT ![x][n] = NoEntry] /\ stage' = stage
    BY <1>1, <2>1, <2>3 DEF SkillsInv, OldLinksKept, OldLink, KeptOK
  <2> QED BY <2>2, <2>3
<1> QED BY <1>7, <1>8, <1>9, <1>10 DEF SkillsInv

LEMMA InstallTemporaryInv ==
  ASSUME SkillsInv, NEW x \in Txns, InstallTemporary(x)
  PROVE  SkillsInv'
<1> USE DEF InstallTemporary, Goto, Raises, Succeeds, disk, local, budget
<1>1. DiskOK /\ ProgressOK /\ WorkOK /\ KeptOK /\ BudgetOK
  BY TypeParts DEF SkillsInv
<1>2. DiskOK'
  BY <1>1 DEF DiskOK, KeptOK
<1>3. ProgressOK'
  BY <1>1 DEF ProgressOK, Phases, Outcomes
<1>4. WorkOK'
  BY <1>1 DEF WorkOK, Stages
<1>5. KeptOK'
  BY <1>1 DEF KeptOK, DiskOK, WorkOK
<1>6. BudgetOK'
  BY <1>1, SkillsAssumption DEF BudgetOK
<1>7. SkillsTypeOK'
  BY <1>2, <1>3, <1>4, <1>5, <1>6, TypePartsNext
<1>8. PlanOK' /\ StagingIsLocked'
  BY <1>1 DEF SkillsInv, ProgressOK, WorkOK, PlanOK, StagingIsLocked, LockedPhases
<1>9. JournalOK'
  BY <1>1 DEF SkillsInv, ProgressOK, WorkOK, KeptOK, DiskOK, JournalOK, OldLinksKept, OldLink
<1>10. OldLinksKept'
  BY <1>1 DEF SkillsInv, ProgressOK, WorkOK, KeptOK, DiskOK, JournalOK, OldLinksKept, OldLink
<1> QED BY <1>7, <1>8, <1>9, <1>10 DEF SkillsInv

LEMMA InstallLinkInv ==
  ASSUME SkillsInv, NEW x \in Txns, InstallLink(x)
  PROVE  SkillsInv'
<1> USE DEF InstallLink, Goto, Raises, Succeeds, disk, local, budget
<1>1. DiskOK /\ ProgressOK /\ WorkOK /\ KeptOK /\ BudgetOK
  BY TypeParts DEF SkillsInv
<1>2. DiskOK'
  <2>1. cur[x] \in Names /\ req[x].inv[cur[x]] \in Targets
    BY <1>1 DEF SkillsInv, PlanOK, JournalOK, WorkOK
  <2>2. [by |-> x, target |-> req[x].inv[cur[x]]] \in Entry
    BY <2>1 DEF Entry
  <2> QED BY <1>1, <2>1, <2>2 DEF DiskOK
<1>3. ProgressOK'
  BY <1>1 DEF ProgressOK, Phases, Outcomes
<1>4. WorkOK'
  BY <1>1 DEF WorkOK, Stages
<1>5. KeptOK'
  BY <1>1 DEF KeptOK, DiskOK, WorkOK
<1>6. BudgetOK'
  BY <1>1, SkillsAssumption DEF BudgetOK
<1>7. SkillsTypeOK'
  BY <1>2, <1>3, <1>4, <1>5, <1>6, TypePartsNext
<1>8. PlanOK' /\ StagingIsLocked'
  BY <1>1 DEF SkillsInv, ProgressOK, WorkOK, PlanOK, StagingIsLocked, LockedPhases
<1>9. JournalOK'
  BY <1>1 DEF SkillsInv, ProgressOK, WorkOK, KeptOK, DiskOK, JournalOK, OldLinksKept, OldLink
<1>10. OldLinksKept'
  BY <1>1 DEF SkillsInv, ProgressOK, WorkOK, KeptOK, DiskOK, JournalOK, OldLinksKept, OldLink
<1> QED BY <1>7, <1>8, <1>9, <1>10 DEF SkillsInv

LEMMA InstallVerifyInv ==
  ASSUME SkillsInv, NEW x \in Txns, InstallVerify(x)
  PROVE  SkillsInv'
<1> USE DEF InstallVerify, Goto, Raises, Succeeds, disk, local, budget, Mine
<1>1. DiskOK /\ ProgressOK /\ WorkOK /\ KeptOK /\ BudgetOK
  BY TypeParts DEF SkillsInv
<1>2. DiskOK'
  BY <1>1 DEF DiskOK, KeptOK
<1>3. ProgressOK'
  BY <1>1 DEF ProgressOK, Phases, Outcomes
<1>4. WorkOK'
  <2>1. [stage EXCEPT ![x][cur[x]] = "installed"] \in [Txns -> [Names -> Stages]]
    BY <1>1, SetIn DEF WorkOK, Stages
  <2> QED BY <1>1, <2>1 DEF WorkOK
<1>5. KeptOK'
  BY <1>1 DEF KeptOK, DiskOK, WorkOK
<1>6. BudgetOK'
  BY <1>1, SkillsAssumption DEF BudgetOK
<1>7. SkillsTypeOK'
  BY <1>2, <1>3, <1>4, <1>5, <1>6, TypePartsNext
<1>8. PlanOK' /\ StagingIsLocked'
  BY <1>1 DEF SkillsInv, ProgressOK, WorkOK, PlanOK, StagingIsLocked, LockedPhases
<1>9. JournalOK'
  BY <1>1 DEF SkillsInv, ProgressOK, WorkOK, KeptOK, DiskOK, JournalOK, OldLinksKept, OldLink, Mine
<1>10. OldLinksKept'
  <2> DEFINE n == cur[x]
  <2>1. n \in Names /\ (plan[x][n] = "create" \/ OldLink(x, n))
    BY <1>1 DEF SkillsInv, JournalOK, OldLinksKept, OldLink, WorkOK
  <2>2. ASSUME NEW v \in {"installed"}, stage' = [stage EXCEPT ![x][n] = v]
        PROVE  OldLinksKept'
    BY <1>1, <2>1, <2>2 DEF SkillsInv, OldLinksKept, OldLink, WorkOK
  <2>3. CASE stage' = stage
    BY <2>3 DEF SkillsInv, OldLinksKept
  <2> QED BY <2>2, <2>3
<1> QED BY <1>7, <1>8, <1>9, <1>10 DEF SkillsInv

LEMMA BeginCommitInv ==
  ASSUME SkillsInv, NEW x \in Txns, BeginCommit(x)
  PROVE  SkillsInv'
<1> USE DEF BeginCommit, Goto, Raises, Succeeds, disk, local, budget, AfterStaging
<1>1. DiskOK /\ ProgressOK /\ WorkOK /\ KeptOK /\ BudgetOK
  BY TypeParts DEF SkillsInv
<1>2. DiskOK'
  BY <1>1 DEF DiskOK, KeptOK
<1>3. ProgressOK'
  BY <1>1 DEF ProgressOK, Phases, Outcomes
<1>4. WorkOK'
  BY <1>1 DEF WorkOK, Stages
<1>5. KeptOK'
  BY <1>1 DEF KeptOK, DiskOK, WorkOK
<1>6. BudgetOK'
  BY <1>1, SkillsAssumption DEF BudgetOK
<1>7. SkillsTypeOK'
  BY <1>2, <1>3, <1>4, <1>5, <1>6, TypePartsNext
<1>8. PlanOK' /\ StagingIsLocked'
  BY <1>1 DEF SkillsInv, ProgressOK, WorkOK, PlanOK, StagingIsLocked, LockedPhases
<1>9. JournalOK'
  BY <1>1 DEF SkillsInv, ProgressOK, WorkOK, KeptOK, DiskOK, JournalOK, OldLinksKept, OldLink, AfterStaging
<1>10. OldLinksKept'
  BY <1>1 DEF SkillsInv, ProgressOK, WorkOK, KeptOK, DiskOK, JournalOK, OldLinksKept, OldLink, AfterStaging
<1> QED BY <1>7, <1>8, <1>9, <1>10 DEF SkillsInv

LEMMA MoveStateInv ==
  ASSUME SkillsInv, NEW x \in Txns, MoveState(x)
  PROVE  SkillsInv'
<1> USE DEF MoveState, Goto, Raises, Succeeds, disk, local, budget, Aside
<1>1. DiskOK /\ ProgressOK /\ WorkOK /\ KeptOK /\ BudgetOK
  BY TypeParts DEF SkillsInv
<1>2. DiskOK'
  BY <1>1 DEF DiskOK, KeptOK
<1>3. ProgressOK'
  BY <1>1 DEF ProgressOK, Phases, Outcomes
<1>4. WorkOK'
  BY <1>1 DEF WorkOK, Stages
<1>5. KeptOK'
  BY <1>1 DEF KeptOK, DiskOK, WorkOK
<1>6. BudgetOK'
  BY <1>1, SkillsAssumption DEF BudgetOK
<1>7. SkillsTypeOK'
  BY <1>2, <1>3, <1>4, <1>5, <1>6, TypePartsNext
<1>8. PlanOK' /\ StagingIsLocked'
  BY <1>1 DEF SkillsInv, ProgressOK, WorkOK, PlanOK, StagingIsLocked, LockedPhases
<1>9. JournalOK'
  BY <1>1 DEF SkillsInv, ProgressOK, WorkOK, KeptOK, DiskOK, JournalOK, OldLinksKept, OldLink, Aside
<1>10. OldLinksKept'
  BY <1>1 DEF SkillsInv, ProgressOK, WorkOK, KeptOK, DiskOK, JournalOK, OldLinksKept, OldLink, Aside
<1> QED BY <1>7, <1>8, <1>9, <1>10 DEF SkillsInv

LEMMA ReadStateInv ==
  ASSUME SkillsInv, NEW x \in Txns, ReadState(x)
  PROVE  SkillsInv'
<1> USE DEF ReadState, Goto, Raises, Succeeds, disk, local, budget
<1>1. DiskOK /\ ProgressOK /\ WorkOK /\ KeptOK /\ BudgetOK
  BY TypeParts DEF SkillsInv
<1>2. DiskOK'
  BY <1>1 DEF DiskOK, KeptOK
<1>3. ProgressOK'
  BY <1>1 DEF ProgressOK, Phases, Outcomes
<1>4. WorkOK'
  BY <1>1 DEF WorkOK, Stages
<1>5. KeptOK'
  BY <1>1 DEF KeptOK, DiskOK, WorkOK
<1>6. BudgetOK'
  BY <1>1, SkillsAssumption DEF BudgetOK
<1>7. SkillsTypeOK'
  BY <1>2, <1>3, <1>4, <1>5, <1>6, TypePartsNext
<1>8. PlanOK' /\ StagingIsLocked'
  BY <1>1 DEF SkillsInv, ProgressOK, WorkOK, PlanOK, StagingIsLocked, LockedPhases
<1>9. JournalOK'
  BY <1>1 DEF SkillsInv, ProgressOK, WorkOK, KeptOK, DiskOK, JournalOK, OldLinksKept, OldLink
<1>10. OldLinksKept'
  BY <1>1 DEF SkillsInv, ProgressOK, WorkOK, KeptOK, DiskOK, JournalOK, OldLinksKept, OldLink
<1> QED BY <1>7, <1>8, <1>9, <1>10 DEF SkillsInv

LEMMA WriteStateInv ==
  ASSUME SkillsInv, NEW x \in Txns, WriteState(x)
  PROVE  SkillsInv'
<1> USE DEF WriteState, Goto, Raises, Succeeds, disk, local, budget, PutStateBack
<1>1. DiskOK /\ ProgressOK /\ WorkOK /\ KeptOK /\ BudgetOK
  BY TypeParts DEF SkillsInv
<1>2. DiskOK'
  <2>1. NewState(x) \in StateFile
    BY <1>1, RequestType, TypeParts, SkillsAssumption DEF NewState, StateFile, KeptOK, ProgressOK
  <2> QED BY <1>1, <2>1 DEF DiskOK, KeptOK
<1>3. ProgressOK'
  BY <1>1 DEF ProgressOK, Phases, Outcomes
<1>4. WorkOK'
  BY <1>1 DEF WorkOK, Stages
<1>5. KeptOK'
  BY <1>1 DEF KeptOK, DiskOK, WorkOK
<1>6. BudgetOK'
  BY <1>1, SkillsAssumption DEF BudgetOK
<1>7. SkillsTypeOK'
  BY <1>2, <1>3, <1>4, <1>5, <1>6, TypePartsNext
<1>8. PlanOK' /\ StagingIsLocked'
  BY <1>1 DEF SkillsInv, ProgressOK, WorkOK, PlanOK, StagingIsLocked, LockedPhases
<1>9. JournalOK'
  BY <1>1 DEF SkillsInv, ProgressOK, WorkOK, KeptOK, DiskOK, JournalOK, OldLinksKept, OldLink, PutStateBack
<1>10. OldLinksKept'
  BY <1>1 DEF SkillsInv, ProgressOK, WorkOK, KeptOK, DiskOK, JournalOK, OldLinksKept, OldLink, PutStateBack
<1> QED BY <1>7, <1>8, <1>9, <1>10 DEF SkillsInv

LEMMA VerifyStateInv ==
  ASSUME SkillsInv, NEW x \in Txns, VerifyState(x)
  PROVE  SkillsInv'
<1> USE DEF VerifyState, Goto, Raises, Succeeds, disk, local, budget, PutStateBack
<1>1. DiskOK /\ ProgressOK /\ WorkOK /\ KeptOK /\ BudgetOK
  BY TypeParts DEF SkillsInv
<1>2. DiskOK'
  BY <1>1 DEF DiskOK, KeptOK
<1>3. ProgressOK'
  BY <1>1 DEF ProgressOK, Phases, Outcomes
<1>4. WorkOK'
  BY <1>1 DEF WorkOK, Stages
<1>5. KeptOK'
  BY <1>1 DEF KeptOK, DiskOK, WorkOK
<1>6. BudgetOK'
  BY <1>1, SkillsAssumption DEF BudgetOK
<1>7. SkillsTypeOK'
  BY <1>2, <1>3, <1>4, <1>5, <1>6, TypePartsNext
<1>8. PlanOK' /\ StagingIsLocked'
  BY <1>1 DEF SkillsInv, ProgressOK, WorkOK, PlanOK, StagingIsLocked, LockedPhases
<1>9. JournalOK'
  BY <1>1 DEF SkillsInv, ProgressOK, WorkOK, KeptOK, DiskOK, JournalOK, OldLinksKept, OldLink, PutStateBack
<1>10. OldLinksKept'
  BY <1>1 DEF SkillsInv, ProgressOK, WorkOK, KeptOK, DiskOK, JournalOK, OldLinksKept, OldLink, PutStateBack
<1> QED BY <1>7, <1>8, <1>9, <1>10 DEF SkillsInv

LEMMA CleanStateInv ==
  ASSUME SkillsInv, NEW x \in Txns, CleanState(x)
  PROVE  SkillsInv'
<1> USE DEF CleanState, Goto, Raises, Succeeds, disk, local, budget
<1>1. DiskOK /\ ProgressOK /\ WorkOK /\ KeptOK /\ BudgetOK
  BY TypeParts DEF SkillsInv
<1>2. DiskOK'
  BY <1>1 DEF DiskOK, KeptOK
<1>3. ProgressOK'
  BY <1>1 DEF ProgressOK, Phases, Outcomes
<1>4. WorkOK'
  BY <1>1 DEF WorkOK, Stages
<1>5. KeptOK'
  BY <1>1 DEF KeptOK, DiskOK, WorkOK
<1>6. BudgetOK'
  BY <1>1, SkillsAssumption DEF BudgetOK
<1>7. SkillsTypeOK'
  BY <1>2, <1>3, <1>4, <1>5, <1>6, TypePartsNext
<1>8. PlanOK' /\ StagingIsLocked'
  BY <1>1 DEF SkillsInv, ProgressOK, WorkOK, PlanOK, StagingIsLocked, LockedPhases
<1>9. JournalOK'
  BY <1>1 DEF SkillsInv, ProgressOK, WorkOK, KeptOK, DiskOK, JournalOK, OldLinksKept, OldLink
<1>10. OldLinksKept'
  BY <1>1 DEF SkillsInv, ProgressOK, WorkOK, KeptOK, DiskOK, JournalOK, OldLinksKept, OldLink
<1> QED BY <1>7, <1>8, <1>9, <1>10 DEF SkillsInv

LEMMA CleanChangeInv ==
  ASSUME SkillsInv, NEW x \in Txns, CleanChange(x)
  PROVE  SkillsInv'
<1> USE DEF CleanChange, Goto, Raises, Succeeds, disk, local, budget
<1>1. DiskOK /\ ProgressOK /\ WorkOK /\ KeptOK /\ BudgetOK
  BY TypeParts DEF SkillsInv
<1>2. DiskOK'
  BY <1>1 DEF DiskOK, KeptOK
<1>3. ProgressOK'
  BY <1>1 DEF ProgressOK, Phases, Outcomes
<1>4. WorkOK'
  BY <1>1 DEF WorkOK, Stages
<1>5. KeptOK'
  <2>1. \A n \in Names : [bak EXCEPT ![x][n] = NoEntry] \in [Txns -> [Names -> Entry \cup {NoEntry}]]
    BY <1>1, SetIn DEF KeptOK
  <2> QED BY <1>1, <2>1 DEF KeptOK
<1>6. BudgetOK'
  BY <1>1, SkillsAssumption DEF BudgetOK
<1>7. SkillsTypeOK'
  BY <1>2, <1>3, <1>4, <1>5, <1>6, TypePartsNext
<1>8. PlanOK' /\ StagingIsLocked'
  BY <1>1 DEF SkillsInv, ProgressOK, WorkOK, PlanOK, StagingIsLocked, LockedPhases
<1>9. JournalOK'
  BY <1>1 DEF SkillsInv, ProgressOK, WorkOK, KeptOK, DiskOK, JournalOK, OldLinksKept, OldLink
<1>10. OldLinksKept'
  BY <1>1 DEF SkillsInv, ProgressOK, WorkOK, KeptOK, DiskOK, JournalOK, OldLinksKept, OldLink
<1> QED BY <1>7, <1>8, <1>9, <1>10 DEF SkillsInv

LEMMA CleanedUpInv ==
  ASSUME SkillsInv, NEW x \in Txns, CleanedUp(x)
  PROVE  SkillsInv'
<1> USE DEF CleanedUp, Goto, Raises, Succeeds, disk, local, budget
<1>1. DiskOK /\ ProgressOK /\ WorkOK /\ KeptOK /\ BudgetOK
  BY TypeParts DEF SkillsInv
<1>2. DiskOK'
  BY <1>1 DEF DiskOK, KeptOK
<1>3. ProgressOK'
  BY <1>1 DEF ProgressOK, Phases, Outcomes
<1>4. WorkOK'
  BY <1>1 DEF WorkOK, Stages
<1>5. KeptOK'
  BY <1>1 DEF KeptOK, DiskOK, WorkOK
<1>6. BudgetOK'
  BY <1>1, SkillsAssumption DEF BudgetOK
<1>7. SkillsTypeOK'
  BY <1>2, <1>3, <1>4, <1>5, <1>6, TypePartsNext
<1>8. PlanOK' /\ StagingIsLocked'
  BY <1>1 DEF SkillsInv, ProgressOK, WorkOK, PlanOK, StagingIsLocked, LockedPhases
<1>9. JournalOK'
  BY <1>1 DEF SkillsInv, ProgressOK, WorkOK, KeptOK, DiskOK, JournalOK, OldLinksKept, OldLink
<1>10. OldLinksKept'
  BY <1>1 DEF SkillsInv, ProgressOK, WorkOK, KeptOK, DiskOK, JournalOK, OldLinksKept, OldLink
<1> QED BY <1>7, <1>8, <1>9, <1>10 DEF SkillsInv

LEMMA UnlockInv ==
  ASSUME SkillsInv, NEW x \in Txns, Unlock(x)
  PROVE  SkillsInv'
<1> USE DEF Unlock, Goto, Raises, Succeeds, disk, local, budget
<1>1. DiskOK /\ ProgressOK /\ WorkOK /\ KeptOK /\ BudgetOK
  BY TypeParts DEF SkillsInv
<1>2. DiskOK'
  BY <1>1 DEF DiskOK, KeptOK
<1>3. ProgressOK'
  BY <1>1 DEF ProgressOK, Phases, Outcomes
<1>4. WorkOK'
  BY <1>1 DEF WorkOK, Stages
<1>5. KeptOK'
  BY <1>1 DEF KeptOK, DiskOK, WorkOK
<1>6. BudgetOK'
  BY <1>1, SkillsAssumption DEF BudgetOK
<1>7. SkillsTypeOK'
  BY <1>2, <1>3, <1>4, <1>5, <1>6, TypePartsNext
<1>8. PlanOK' /\ StagingIsLocked'
  <2>1. PlanOK'
    BY <1>1 DEF SkillsInv, ProgressOK, WorkOK, PlanOK
  <2>2. pc'[x] \notin LockedPhases
    BY <1>1 DEF ProgressOK, LockedPhases
  <2>3. \A y \in Txns \ {x} : pc'[y] = pc[y]
    BY <1>1 DEF ProgressOK
  <2>4. \A y \in Txns \ {x} : pc[y] \notin LockedPhases
    BY DEF SkillsInv, StagingIsLocked, LockedPhases
  <2>5. StagingIsLocked'
    BY <2>2, <2>3, <2>4 DEF StagingIsLocked
  <2> QED BY <2>1, <2>5
<1>9. JournalOK'
  BY <1>1 DEF SkillsInv, ProgressOK, WorkOK, KeptOK, DiskOK, JournalOK, OldLinksKept, OldLink
<1>10. OldLinksKept'
  BY <1>1 DEF SkillsInv, ProgressOK, WorkOK, KeptOK, DiskOK, JournalOK, OldLinksKept, OldLink
<1> QED BY <1>7, <1>8, <1>9, <1>10 DEF SkillsInv

LEMMA LeaveLockInv ==
  ASSUME SkillsInv, NEW x \in Txns, LeaveLock(x)
  PROVE  SkillsInv'
<1> USE DEF LeaveLock, Goto, Raises, Succeeds, disk, local, budget
<1>1. DiskOK /\ ProgressOK /\ WorkOK /\ KeptOK /\ BudgetOK
  BY TypeParts DEF SkillsInv
<1>2. DiskOK'
  BY <1>1 DEF DiskOK, KeptOK
<1>3. ProgressOK'
  BY <1>1 DEF ProgressOK, Phases, Outcomes
<1>4. WorkOK'
  BY <1>1 DEF WorkOK, Stages
<1>5. KeptOK'
  BY <1>1 DEF KeptOK, DiskOK, WorkOK
<1>6. BudgetOK'
  BY <1>1, SkillsAssumption DEF BudgetOK
<1>7. SkillsTypeOK'
  BY <1>2, <1>3, <1>4, <1>5, <1>6, TypePartsNext
<1>8. PlanOK' /\ StagingIsLocked'
  BY <1>1 DEF SkillsInv, ProgressOK, WorkOK, PlanOK, StagingIsLocked, LockedPhases
<1>9. JournalOK'
  BY <1>1 DEF SkillsInv, ProgressOK, WorkOK, KeptOK, DiskOK, JournalOK, OldLinksKept, OldLink
<1>10. OldLinksKept'
  BY <1>1 DEF SkillsInv, ProgressOK, WorkOK, KeptOK, DiskOK, JournalOK, OldLinksKept, OldLink
<1> QED BY <1>7, <1>8, <1>9, <1>10 DEF SkillsInv

LEMMA SkipPlannedInv ==
  ASSUME SkillsInv, NEW x \in Txns, SkipPlanned(x)
  PROVE  SkillsInv'
<1> USE DEF SkipPlanned, Goto, Raises, Succeeds, disk, local, budget, Undone
<1>1. DiskOK /\ ProgressOK /\ WorkOK /\ KeptOK /\ BudgetOK
  BY TypeParts DEF SkillsInv
<1>2. DiskOK'
  BY <1>1 DEF DiskOK, KeptOK
<1>3. ProgressOK'
  BY <1>1 DEF ProgressOK, Phases, Outcomes
<1>4. WorkOK'
  BY <1>1 DEF WorkOK, Stages
<1>5. KeptOK'
  BY <1>1 DEF KeptOK, DiskOK, WorkOK
<1>6. BudgetOK'
  BY <1>1, SkillsAssumption DEF BudgetOK
<1>7. SkillsTypeOK'
  BY <1>2, <1>3, <1>4, <1>5, <1>6, TypePartsNext
<1>8. PlanOK' /\ StagingIsLocked'
  BY <1>1 DEF SkillsInv, ProgressOK, WorkOK, PlanOK, StagingIsLocked, LockedPhases
<1>9. JournalOK'
  BY <1>1 DEF SkillsInv, ProgressOK, WorkOK, KeptOK, DiskOK, JournalOK, OldLinksKept, OldLink, Undone, IsLast, Undo
<1>10. OldLinksKept'
  BY <1>1 DEF SkillsInv, ProgressOK, WorkOK, KeptOK, DiskOK, JournalOK, OldLinksKept, OldLink, Undone, IsLast, Undo
<1> QED BY <1>7, <1>8, <1>9, <1>10 DEF SkillsInv

LEMMA RemoveNewInv ==
  ASSUME SkillsInv, NEW x \in Txns, RemoveNew(x)
  PROVE  SkillsInv'
<1> USE DEF RemoveNew, Goto, Raises, Succeeds, disk, local, budget, Undone, Fails
<1>1. DiskOK /\ ProgressOK /\ WorkOK /\ KeptOK /\ BudgetOK
  BY TypeParts DEF SkillsInv
<1>2. DiskOK'
  BY <1>1 DEF DiskOK, KeptOK
<1>3. ProgressOK'
  BY <1>1 DEF ProgressOK, Phases, Outcomes
<1>4. WorkOK'
  <2>1. PICK n \in Names : \/ stage' = stage
                            \/ \E v \in {"quarantined", "undone"} :
                                 stage' = [stage EXCEPT ![x][n] = v]
    OBVIOUS
  <2>2. \A v \in Stages : [stage EXCEPT ![x][n] = v] \in [Txns -> [Names -> Stages]]
    BY <1>1, SetIn DEF WorkOK
  <2>3. stage' \in [Txns -> [Names -> Stages]]
    <3>1. CASE stage' = stage
      BY <1>1, <3>1 DEF WorkOK
    <3>2. ASSUME NEW v \in {"quarantined", "undone"}, stage' = [stage EXCEPT ![x][n] = v]
          PROVE  stage' \in [Txns -> [Names -> Stages]]
      <4>1. v \in Stages
        BY DEF Stages
      <4> QED BY <2>2, <3>2, <4>1
    <3> QED BY <2>1, <3>1, <3>2
  <2>4. cur' \in [Txns -> Names]
    BY <1>1 DEF WorkOK
  <2> QED BY <1>1, <2>3, <2>4 DEF WorkOK
<1>5. KeptOK'
  BY <1>1 DEF KeptOK, DiskOK, WorkOK
<1>6. BudgetOK'
  BY <1>1, SkillsAssumption DEF BudgetOK
<1>7. SkillsTypeOK'
  BY <1>2, <1>3, <1>4, <1>5, <1>6, TypePartsNext
<1>8. PlanOK' /\ StagingIsLocked'
  BY <1>1 DEF SkillsInv, ProgressOK, WorkOK, PlanOK, StagingIsLocked, LockedPhases
<1>9. JournalOK'
  BY <1>1 DEF SkillsInv, ProgressOK, WorkOK, KeptOK, DiskOK, JournalOK, OldLinksKept, OldLink, Undone, Fails, IsLast, Undo
<1>10. OldLinksKept'
  <2>1. PICK n \in Names : /\ stage[x][n] = "installed"
                           /\ \/ stage' = stage
                              \/ \E v \in {"quarantined", "undone"} :
                                   stage' = [stage EXCEPT ![x][n] = v]
    BY DEF IsLast
  <2>2. plan[x][n] = "create" \/ OldLink(x, n)
    BY <2>1 DEF SkillsInv, OldLinksKept, OldLink
  <2>3. ASSUME NEW v \in {"quarantined", "undone"}, stage' = [stage EXCEPT ![x][n] = v]
        PROVE  OldLinksKept'
    BY <1>1, <2>2, <2>3 DEF SkillsInv, OldLinksKept, OldLink, WorkOK
  <2>4. CASE stage' = stage
    BY <2>4 DEF SkillsInv, OldLinksKept
  <2> QED BY <2>1, <2>3, <2>4
<1> QED BY <1>7, <1>8, <1>9, <1>10 DEF SkillsInv

LEMMA UnlinkNewInv ==
  ASSUME SkillsInv, NEW x \in Txns, UnlinkNew(x)
  PROVE  SkillsInv'
<1> USE DEF UnlinkNew, Goto, Raises, Succeeds, disk, local, budget, Undone, Fails
<1>1. DiskOK /\ ProgressOK /\ WorkOK /\ KeptOK /\ BudgetOK
  BY TypeParts DEF SkillsInv
<1>2. DiskOK'
  BY <1>1 DEF DiskOK, KeptOK
<1>3. ProgressOK'
  BY <1>1 DEF ProgressOK, Phases, Outcomes
<1>4. WorkOK'
  <2>1. \A v \in Stages : [stage EXCEPT ![x][cur[x]] = v] \in [Txns -> [Names -> Stages]]
    BY <1>1, SetIn DEF WorkOK
  <2> QED BY <1>1, <2>1 DEF WorkOK, Stages
<1>5. KeptOK'
  BY <1>1 DEF KeptOK, DiskOK, WorkOK
<1>6. BudgetOK'
  BY <1>1, SkillsAssumption DEF BudgetOK
<1>7. SkillsTypeOK'
  BY <1>2, <1>3, <1>4, <1>5, <1>6, TypePartsNext
<1>8. PlanOK' /\ StagingIsLocked'
  BY <1>1 DEF SkillsInv, ProgressOK, WorkOK, PlanOK, StagingIsLocked, LockedPhases
<1>9. JournalOK'
  BY <1>1 DEF SkillsInv, ProgressOK, WorkOK, KeptOK, DiskOK, JournalOK, OldLinksKept, OldLink, Undone, Fails, Mine
<1>10. OldLinksKept'
  <2> DEFINE n == cur[x]
  <2>1. n \in Names /\ (plan[x][n] = "create" \/ OldLink(x, n))
    BY <1>1 DEF SkillsInv, JournalOK, OldLinksKept, OldLink, WorkOK
  <2>2. ASSUME NEW v \in {"quarantined", "undone"}, stage' = [stage EXCEPT ![x][n] = v]
        PROVE  OldLinksKept'
    BY <1>1, <2>1, <2>2 DEF SkillsInv, OldLinksKept, OldLink, WorkOK
  <2>3. CASE stage' = stage
    BY <2>3 DEF SkillsInv, OldLinksKept
  <2> QED BY <2>2, <2>3
<1> QED BY <1>7, <1>8, <1>9, <1>10 DEF SkillsInv

LEMMA RestoreInv ==
  ASSUME SkillsInv, NEW x \in Txns, Restore(x)
  PROVE  SkillsInv'
<1> USE DEF Restore, Goto, Raises, Succeeds, disk, local, budget, Undone, Fails
<1>1. DiskOK /\ ProgressOK /\ WorkOK /\ KeptOK /\ BudgetOK
  BY TypeParts DEF SkillsInv
<1>2. DiskOK'
  BY <1>1 DEF DiskOK, KeptOK
<1>3. ProgressOK'
  BY <1>1 DEF ProgressOK, Phases, Outcomes
<1>4. WorkOK'
  BY <1>1 DEF WorkOK, Stages
<1>5. KeptOK'
  <2>1. \A n \in Names : [bak EXCEPT ![x][n] = NoEntry] \in [Txns -> [Names -> Entry \cup {NoEntry}]]
    BY <1>1, SetIn DEF KeptOK
  <2> QED BY <1>1, <2>1 DEF KeptOK
<1>6. BudgetOK'
  BY <1>1, SkillsAssumption DEF BudgetOK
<1>7. SkillsTypeOK'
  BY <1>2, <1>3, <1>4, <1>5, <1>6, TypePartsNext
<1>8. PlanOK' /\ StagingIsLocked'
  BY <1>1 DEF SkillsInv, ProgressOK, WorkOK, PlanOK, StagingIsLocked, LockedPhases
<1>9. JournalOK'
  BY <1>1 DEF SkillsInv, ProgressOK, WorkOK, KeptOK, DiskOK, JournalOK, OldLinksKept, OldLink, Undone, Fails, IsLast, Undo
<1>10. OldLinksKept'
  BY <1>1 DEF SkillsInv, ProgressOK, WorkOK, KeptOK, DiskOK, JournalOK, OldLinksKept, OldLink, Undone, Fails, IsLast, Undo
<1> QED BY <1>7, <1>8, <1>9, <1>10 DEF SkillsInv

LEMMA RolledBackInv ==
  ASSUME SkillsInv, NEW x \in Txns, RolledBack(x)
  PROVE  SkillsInv'
<1> USE DEF RolledBack, Goto, Raises, Succeeds, disk, local, budget
<1>1. DiskOK /\ ProgressOK /\ WorkOK /\ KeptOK /\ BudgetOK
  BY TypeParts DEF SkillsInv
<1>2. DiskOK'
  BY <1>1 DEF DiskOK, KeptOK
<1>3. ProgressOK'
  BY <1>1 DEF ProgressOK, Phases, Outcomes
<1>4. WorkOK'
  BY <1>1 DEF WorkOK, Stages
<1>5. KeptOK'
  BY <1>1 DEF KeptOK, DiskOK, WorkOK
<1>6. BudgetOK'
  BY <1>1, SkillsAssumption DEF BudgetOK
<1>7. SkillsTypeOK'
  BY <1>2, <1>3, <1>4, <1>5, <1>6, TypePartsNext
<1>8. PlanOK' /\ StagingIsLocked'
  BY <1>1 DEF SkillsInv, ProgressOK, WorkOK, PlanOK, StagingIsLocked, LockedPhases
<1>9. JournalOK'
  BY <1>1 DEF SkillsInv, ProgressOK, WorkOK, KeptOK, DiskOK, JournalOK, OldLinksKept, OldLink
<1>10. OldLinksKept'
  BY <1>1 DEF SkillsInv, ProgressOK, WorkOK, KeptOK, DiskOK, JournalOK, OldLinksKept, OldLink
<1> QED BY <1>7, <1>8, <1>9, <1>10 DEF SkillsInv

LEMMA RemoveContainersInv ==
  ASSUME SkillsInv, NEW x \in Txns, RemoveContainers(x)
  PROVE  SkillsInv'
<1> USE DEF RemoveContainers, Goto, Raises, Succeeds, disk, local, budget
<1>1. DiskOK /\ ProgressOK /\ WorkOK /\ KeptOK /\ BudgetOK
  BY TypeParts DEF SkillsInv
<1>2. DiskOK'
  BY <1>1 DEF DiskOK, KeptOK
<1>3. ProgressOK'
  BY <1>1 DEF ProgressOK, Phases, Outcomes
<1>4. WorkOK'
  BY <1>1 DEF WorkOK, Stages
<1>5. KeptOK'
  BY <1>1 DEF KeptOK, DiskOK, WorkOK
<1>6. BudgetOK'
  BY <1>1, SkillsAssumption DEF BudgetOK
<1>7. SkillsTypeOK'
  BY <1>2, <1>3, <1>4, <1>5, <1>6, TypePartsNext
<1>8. PlanOK' /\ StagingIsLocked'
  BY <1>1 DEF SkillsInv, ProgressOK, WorkOK, PlanOK, StagingIsLocked, LockedPhases
<1>9. JournalOK'
  BY <1>1 DEF SkillsInv, ProgressOK, WorkOK, KeptOK, DiskOK, JournalOK, OldLinksKept, OldLink
<1>10. OldLinksKept'
  BY <1>1 DEF SkillsInv, ProgressOK, WorkOK, KeptOK, DiskOK, JournalOK, OldLinksKept, OldLink
<1> QED BY <1>7, <1>8, <1>9, <1>10 DEF SkillsInv

LEMMA CrashInv ==
  ASSUME SkillsInv, NEW x \in Txns, Crash(x)
  PROVE  SkillsInv'
<1> USE DEF Crash, Goto, Raises, Succeeds, disk, local, budget
<1>1. DiskOK /\ ProgressOK /\ WorkOK /\ KeptOK /\ BudgetOK
  BY TypeParts DEF SkillsInv
<1>2. DiskOK'
  BY <1>1 DEF DiskOK, KeptOK
<1>3. ProgressOK'
  BY <1>1 DEF ProgressOK, Phases, Outcomes
<1>4. WorkOK'
  BY <1>1 DEF WorkOK, Stages
<1>5. KeptOK'
  BY <1>1 DEF KeptOK, DiskOK, WorkOK
<1>6. BudgetOK'
  BY <1>1, SkillsAssumption DEF BudgetOK
<1>7. SkillsTypeOK'
  BY <1>2, <1>3, <1>4, <1>5, <1>6, TypePartsNext
<1>8. PlanOK' /\ StagingIsLocked'
  BY <1>1 DEF SkillsInv, ProgressOK, WorkOK, PlanOK, StagingIsLocked, LockedPhases
<1>9. JournalOK'
  BY <1>1 DEF SkillsInv, ProgressOK, WorkOK, KeptOK, DiskOK, JournalOK, OldLinksKept, OldLink
<1>10. OldLinksKept'
  BY <1>1 DEF SkillsInv, ProgressOK, WorkOK, KeptOK, DiskOK, JournalOK, OldLinksKept, OldLink
<1> QED BY <1>7, <1>8, <1>9, <1>10 DEF SkillsInv

LEMMA UserInv ==
  ASSUME SkillsInv, NEW n \in Names,
         UserRemoves(n) \/ \E t \in Targets : UserPuts(n, t)
  PROVE  SkillsInv'
<1> USE DEF UserRemoves, UserPuts, local, budget
<1>1. DiskOK /\ ProgressOK /\ WorkOK /\ KeptOK /\ BudgetOK
  BY TypeParts DEF SkillsInv
<1>2. DiskOK'
  BY <1>1 DEF DiskOK, Entry
<1>0. /\ users < MaxUser /\ users' = users + 1
      /\ UNCHANGED <<root, state, lock, pc, req, local, faults, crashes>>
  OBVIOUS
<1>3. BudgetOK'
  BY <1>0, <1>1, SkillsAssumption DEF BudgetOK
<1>4. SkillsTypeOK'
  BY <1>0, <1>1, <1>2, <1>3, TypePartsNext DEF ProgressOK, WorkOK, KeptOK
<1>5. PlanOK' /\ StagingIsLocked' /\ JournalOK' /\ OldLinksKept'
  BY <1>0 DEF SkillsInv, PlanOK, StagingIsLocked, JournalOK, OldLinksKept, OldLink
<1> QED BY <1>4, <1>5 DEF SkillsInv

LEMMA NextInv == SkillsInv /\ [Next]_vars => SkillsInv'
<1> SUFFICES ASSUME SkillsInv, [Next]_vars PROVE SkillsInv'
  OBVIOUS
<1>1. ASSUME NEW x \in Txns, Step(x) PROVE SkillsInv'
  BY <1>1, PreflightInv, CreateDestinationInv, DestinationLockInv, LockedPlanInv, 
     StageCreateInv, StageOldInv, QuarantineInv, InstallTemporaryInv, 
     InstallLinkInv, InstallVerifyInv, BeginCommitInv, MoveStateInv, ReadStateInv, 
     WriteStateInv, VerifyStateInv, CleanStateInv, CleanChangeInv, CleanedUpInv, 
     UnlockInv, LeaveLockInv, SkipPlannedInv, RemoveNewInv, UnlinkNewInv, 
     RestoreInv, RolledBackInv, RemoveContainersInv
  DEF Step
<1>2. ASSUME NEW x \in Txns, Crash(x) PROVE SkillsInv'
  BY <1>2, CrashInv
<1>3. CASE \E n \in Names : UserRemoves(n) \/ \E t \in Targets : UserPuts(n, t)
  BY <1>3, UserInv
<1>4. CASE UNCHANGED vars
  BY <1>4 DEF vars, disk, local, budget, SkillsInv, SkillsTypeOK, PlanOK, StagingIsLocked,
              LockedPhases, JournalOK, OldLinksKept, OldLink
<1> QED BY <1>1, <1>2, <1>3, <1>4 DEF Next

LEMMA SkillsInvariant == Spec => []SkillsInv
BY InitInv, NextInv, PTL DEF Spec

(* The records of the transaction keep their types.                           *)
THEOREM SkillsTypeCorrect == Spec => []SkillsTypeOK
BY SkillsInvariant, PTL DEF SkillsInv

(* One run at most stages, commits and cleans up, and it holds the lock.      *)
THEOREM StagingLocked == Spec => []StagingIsLocked
BY SkillsInvariant, PTL DEF SkillsInv

(* Whatever raises, is killed or changed by the user: an old link that was    *)
(* quarantined is in its run's backup until it is put back or committed away. *)
THEOREM NoOldLinkLost == Spec => []OldLinksKept
BY SkillsInvariant, PTL DEF SkillsInv

(* Only three operations empty a name that a user's entry may stand at, and   *)
(* each has looked at what it removes.                                        *)
LEMMA UserEntriesStep ==
  ASSUME SkillsInv, NEW x \in Txns, NEW n \in Names, Step(x),
         dest[n] # NoEntry, dest[n].by = User, dest'[n] # dest[n]
  PROVE  dest[n].target = Recorded(loaded[x], n)
<1>1. DiskOK /\ WorkOK
  BY TypeParts DEF SkillsInv
<1>2. CASE Quarantine(x)
  <2>1. OldLink(x, cur[x])
    BY <1>2 DEF SkillsInv, JournalOK, Quarantine
  <2>2. n = cur[x] /\ dest[n] = bak[x][n]
    BY <1>1, <1>2 DEF Quarantine, DiskOK, WorkOK
  <2> QED BY <2>1, <2>2 DEF OldLink
<1>3. CASE InstallVerify(x) \/ UnlinkNew(x)
  BY <1>1, <1>3, SkillsAssumption DEF InstallVerify, UnlinkNew, Mine, DiskOK, WorkOK
<1>4. CASE InstallLink(x) \/ Restore(x)
  BY <1>1, <1>4 DEF InstallLink, Restore, DiskOK, WorkOK
<1> QED
  <2>1. dest' # dest
    OBVIOUS
  <2> QED BY <1>2, <1>3, <1>4, <2>1
     DEF Step, Preflight, CreateDestination, DestinationLock, LockedPlan, StageCreate, StageOld,
         InstallTemporary, BeginCommit, MoveState, ReadState, WriteState, VerifyState, CleanState,
         CleanChange, CleanedUp, Unlock, LeaveLock, SkipPlanned, RemoveNew, RolledBack,
         RemoveContainers, disk

(* No run removes or replaces an entry of the user other than a link its own  *)
(* state file records at that name with that target.                          *)
THEOREM UserEntriesSafe == Spec => UserEntriesKept
<1>1. SkillsInv /\ [Next]_vars =>
        [\A x \in Txns, n \in Names :
           /\ Step(x) /\ dest[n] # NoEntry /\ dest[n].by = User /\ dest'[n] # dest[n]
           => dest[n].target = Recorded(loaded[x], n)]_vars
  BY UserEntriesStep
<1> QED BY <1>1, SkillsInvariant, PTL DEF Spec, UserEntriesKept
------------------------------------------------------------------------------
(* What a run does to the disk when nobody interferes.                        *)

NewLink(x, n)  == [by |-> x, target |-> req[x].inv[n]]
InFlight(x, n) == stage[x][n] = "planned" \/ (stage[x][n] = "quarantined" /\ plan[x][n] = "replace")
BeforeLock     == {"create", "lock", "locked"}
Linking        == {"install", "link", "verify"}
Writing        == {"w_move", "w_read", "w_link", "w_verify"}
AfterCommit    == {"w_clean", "cleanup", "unlock"}
Inside         == {"stage", "move"} \cup Linking \cup Writing \cup AfterCommit
Ending         == {"abort", "rollback", "unlink", "unroot", "done", "dead"}

(* The path of a run, whoever else is there. It plans no refused name; an     *)
(* uninstall carries out its first plan; nothing is staged, backed up or      *)
(* decided before the lock.                                                   *)
PathPlan(x) ==
  /\ \A n \in Names : plan[x][n] # "refuse"
  /\ pc[x] \in BeforeLock \cup {"start"} =>
       bak[x] = NoEntries /\ sbak[x] = NoState /\ ~committed[x] /\ out[x] = "running"
  /\ pc[x] = "start" => loaded[x] = NoState
  /\ pc[x] # "start" /\ out[x] # "refused" /\ ~Applies(x) =>
       plan[x] = PlanUninstall(loaded[x]) /\ loaded[x] # NoState
  /\ out[x] = "refused" =>
       /\ pc[x] = "done" /\ NeverStaged(x) /\ bak[x] = NoEntries
       /\ sbak[x] = NoState /\ loaded[x] = NoState /\ ~committed[x]

(* At most the change it is linking is between its stages, and every change   *)
(* is staged before the state file is written.                                *)
PathStage(x) ==
  /\ \A n \in Names : stage[x][n] = "planned" => plan[x][n] = "create"
  /\ \A n \in Names : stage[x][n] = "none" /\ bak[x][n] # NoEntry =>
                         pc[x] \in {"move", "dead"} /\ cur[x] = n
  /\ pc[x] \in {"stage", "move"} \cup Writing \cup AfterCommit =>
       \A n \in Names : ~InFlight(x, n)
  /\ pc[x] = "move" => plan[x][cur[x]] \in {"replace", "remove"}
  /\ pc[x] \in Linking => \A n \in Names : InFlight(x, n) <=> n = cur[x]
  /\ pc[x] \in Inside => \A n \in Names : stage[x][n] # "undone"
  /\ committed[x] => \A n \in Names : ~InFlight(x, n) /\ stage[x][n] # "undone"
  /\ ~committed[x] => \A n \in Names : stage[x][n] # "cleaned"
  /\ pc[x] \in Writing \/ committed[x] => Todo(x) = {}

(* Where it commits, and how it ends.                                         *)
PathEnd(x) ==
  /\ pc[x] \in AfterCommit => committed[x]
  /\ committed[x] => pc[x] \in AfterCommit \cup {"unroot", "done", "dead"}
  /\ pc[x] = "unroot" /\ ~committed[x] => Undo(x) = {}
  /\ pc[x] = "done" =>
       \/ out[x] \in {"refused", "incomplete", "escaped"}
       \/ out[x] = "ok" /\ committed[x]
       \/ out[x] = "failed" /\ ~committed[x] /\ ~failed[x] /\ Undo(x) = {}
  /\ pc[x] # "done" => out[x] = "running"
  /\ pc[x] # "commit"
  /\ pc[x] \in BeforeLock \cup {"stage", "move"} \cup Linking => sbak[x] = NoState
  /\ pc[x] \in {"w_link", "w_verify"} => Applies(x)

PathInv == \A x \in Txns : PathPlan(x) /\ PathStage(x) /\ PathEnd(x)

(* The plan is the one for what was found.                                    *)
PlanSound(x) ==
  \A n \in Names :
    LET f == found[x][n]  r == Recorded(loaded[x], n)  i == req[x].inv[n]  p == plan[x][n] IN
    /\ Applies(x) =>
         /\ p \in {"create", "replace", "keep"} <=> i # NoTarget
         /\ p = "create" => f = NoEntry
         /\ p = "replace" => f # NoEntry
         /\ p = "keep" => f # NoEntry /\ f.target = i
         /\ p = "none" => f = NoEntry \/ r = NoTarget
    /\ ~Applies(x) => p \in {"remove", "none"} /\ (p = "none" => r = NoTarget)

(* What was found agreed: destination and state file.                         *)
AgreeOf(d, s) ==
  /\ \A n \in Names : d[n] # NoEntry /\ d[n].by # User => d[n].target = Recorded(s, n)
  /\ s # NoState /\ s.by \in Txns =>
       \A n \in Names : s.links[n] # NoTarget => d[n] # NoEntry /\ d[n].target = s.links[n]

(* Each name is as far as the journal says: untouched, emptied with the old   *)
(* link in the backup, linked, or put back; only the link being verified is   *)
(* ahead of the journal.                                                      *)
Emptied(x, n) ==
  \/ dest[n] = NoEntry
  \/ /\ dest[n] = NewLink(x, n) /\ plan[x][n] # "remove"
     /\ pc[x] \in {"verify", "dead"} /\ cur[x] = n
NameSound(x, n) ==
  LET f == found[x][n]  b == bak[x][n]  p == plan[x][n]  s == stage[x][n] IN
  /\ s = "none" => dest[n] = f /\ (b = NoEntry \/ b = f)
  /\ s = "planned" => p = "create" /\ f = NoEntry /\ b = NoEntry /\ Emptied(x, n)
  /\ s = "quarantined" => p \in {"replace", "remove"} /\ f # NoEntry /\ b = f /\ Emptied(x, n)
  /\ s = "installed" =>
       /\ dest[n] = NewLink(x, n) /\ b = f
       /\ (p = "create" /\ f = NoEntry) \/ (p = "replace" /\ f # NoEntry)
  /\ s = "undone" => dest[n] = f \/ (failed[x] /\ (f = NoEntry \/ b = f))
  /\ s = "cleaned" =>
       \/ p = "replace" /\ dest[n] = NewLink(x, n)
       \/ p = "remove" /\ dest[n] = NoEntry

(* The state file is where the step of the run has left it.                   *)
StateSound(x) ==
  LET l == loaded[x]  put == state = l /\ sbak[x] = NoState
      aside == state = NoState /\ sbak[x] = l IN
  /\ ~committed[x] =>
       /\ pc[x] \in BeforeLock \cup {"stage", "move", "w_move"} \cup Linking => put
       /\ pc[x] \in {"w_read", "w_link"} => aside
       /\ pc[x] = "w_verify" => state = NewState(x) /\ sbak[x] = l
       /\ pc[x] \in Ending \ {"dead"} => put \/ aside
       /\ pc[x] = "dead" => l = NoState \/ state = l \/ sbak[x] = l
  /\ committed[x] =>
       IF Applies(x) THEN state = NewState(x) \/ (state = l /\ ~Changed(x)) ELSE state = NoState

Sound(x) ==
  /\ PlanSound(x) /\ AgreeOf(found[x], loaded[x])
  /\ \A n \in Names : NameSound(x, n)
  /\ StateSound(x)

(* A run that is alone is sound from its plan on; until then nothing changed. *)
Untouched(x) == dest = found[x] /\ AgreeOf(dest, state)
AloneInv ==
  \A x \in Txns : Alone(x) =>
    IF pc[x] = "start" \/ out[x] = "refused" THEN Untouched(x) ELSE Sound(x)

(* Runs that commit or never stage: what they find and leave agrees.          *)
Serial ==
  /\ users = 0
  /\ \A x \in Txns :
       /\ pc[x] # "dead" /\ out[x] \notin {"incomplete", "escaped"}
       /\ committed[x] \/ NeverStaged(x) \/ pc[x] \in Inside
       /\ sbak[x] = NoState \/ pc[x] \in Writing \cup AfterCommit
SerialInv ==
  Serial => IF \E x \in Txns : pc[x] \in Inside
            THEN \A x \in Txns : pc[x] \in Inside => Sound(x)
            ELSE AgreeOf(dest, state)

(* What a step leaves alone.                                                  *)
PlanKept(x) ==
  /\ req' = req /\ plan'[x] = plan[x] /\ loaded'[x] = loaded[x] /\ found'[x] = found[x]
  /\ made'[x] = made[x]
RunKept(x) ==
  /\ PlanKept(x)
  /\ pc'[x] = pc[x] /\ stage'[x] = stage[x] /\ cur'[x] = cur[x] /\ bak'[x] = bak[x]
  /\ sbak'[x] = sbak[x] /\ committed'[x] = committed[x] /\ failed'[x] = failed[x]
  /\ out'[x] = out[x]

Path(x) == PathPlan(x) /\ PathStage(x) /\ PathEnd(x)

(* A step of one run, or its end, changes nothing of another run.             *)
LEMMA OtherRuns ==
  ASSUME SkillsTypeOK, NEW x \in Txns, NEW y \in Txns, y # x, Step(x) \/ Crash(x)
  PROVE  RunKept(y)
<1> USE DEF RunKept, PlanKept, Goto, Raises, Succeeds, Undone, Fails, PutStateBack, Aside,
        disk, local, budget
<1>1. /\ pc \in [Txns -> Phases] /\ plan \in [Txns -> [Names -> Kinds]]
      /\ loaded \in [Txns -> StateFile \cup {NoState}]
      /\ stage \in [Txns -> [Names -> Stages]] /\ cur \in [Txns -> Names]
      /\ bak \in [Txns -> [Names -> Entry \cup {NoEntry}]]
      /\ sbak \in [Txns -> StateFile \cup {NoState}]
      /\ made \in [Txns -> BOOLEAN] /\ committed \in [Txns -> BOOLEAN]
      /\ failed \in [Txns -> BOOLEAN]
      /\ found \in [Txns -> [Names -> Entry \cup {NoEntry}]]
      /\ out \in [Txns -> Outcomes]
  BY DEF SkillsTypeOK
<1>2. CASE Preflight(x)
  BY <1>1, <1>2 DEF Preflight
<1>3. CASE CreateDestination(x)
  BY <1>1, <1>3 DEF CreateDestination
<1>4. CASE DestinationLock(x)
  BY <1>1, <1>4 DEF DestinationLock
<1>5. CASE LockedPlan(x)
  BY <1>1, <1>5 DEF LockedPlan
<1>6. CASE StageCreate(x)
  BY <1>1, <1>6 DEF StageCreate
<1>7. CASE StageOld(x)
  BY <1>1, <1>7 DEF StageOld
<1>8. CASE Quarantine(x)
  BY <1>1, <1>8 DEF Quarantine
<1>9. CASE InstallTemporary(x)
  BY <1>1, <1>9 DEF InstallTemporary
<1>10. CASE InstallLink(x)
  BY <1>1, <1>10 DEF InstallLink
<1>11. CASE InstallVerify(x)
  BY <1>1, <1>11 DEF InstallVerify
<1>12. CASE BeginCommit(x)
  BY <1>1, <1>12 DEF BeginCommit
<1>13. CASE MoveState(x)
  BY <1>1, <1>13 DEF MoveState
<1>14. CASE ReadState(x)
  BY <1>1, <1>14 DEF ReadState
<1>15. CASE WriteState(x)
  BY <1>1, <1>15 DEF WriteState
<1>16. CASE VerifyState(x)
  BY <1>1, <1>16 DEF VerifyState
<1>17. CASE CleanState(x)
  BY <1>1, <1>17 DEF CleanState
<1>18. CASE CleanChange(x)
  BY <1>1, <1>18 DEF CleanChange
<1>19. CASE CleanedUp(x)
  BY <1>1, <1>19 DEF CleanedUp
<1>20. CASE Unlock(x)
  BY <1>1, <1>20 DEF Unlock
<1>21. CASE LeaveLock(x)
  BY <1>1, <1>21 DEF LeaveLock
<1>22. CASE SkipPlanned(x)
  BY <1>1, <1>22 DEF SkipPlanned
<1>23. CASE RemoveNew(x)
  BY <1>1, <1>23 DEF RemoveNew
<1>24. CASE UnlinkNew(x)
  BY <1>1, <1>24 DEF UnlinkNew
<1>25. CASE Restore(x)
  BY <1>1, <1>25 DEF Restore
<1>26. CASE RolledBack(x)
  BY <1>1, <1>26 DEF RolledBack
<1>27. CASE RemoveContainers(x)
  BY <1>1, <1>27 DEF RemoveContainers
<1>28. CASE Crash(x)
  BY <1>1, <1>28 DEF Crash
<1> QED BY <1>2, <1>3, <1>4, <1>5, <1>6, <1>7, <1>8, <1>9, <1>10, <1>11, <1>12, <1>13,
   <1>14, <1>15, <1>16, <1>17, <1>18, <1>19, <1>20, <1>21, <1>22, <1>23, <1>24, <1>25,
   <1>26, <1>27, <1>28    DEF Step

(* What depends on a run alone stays with it.                                 *)
LEMMA PathFrame ==
  ASSUME NEW x \in Txns, Path(x), RunKept(x)
  PROVE  Path(x)'
BY DEF Path, PathPlan, PathStage, PathEnd, RunKept, PlanKept, Applies, PlanUninstall, Recorded,
       NeverStaged, InFlight, Todo, Undo

(* The plan, the new links and the new state file depend on a run alone.     *)
LEMMA PlanFrame ==
  ASSUME NEW x \in Txns, PlanKept(x)
  PROVE  /\ PlanSound(x) => PlanSound(x)'
         /\ AgreeOf(found[x], loaded[x]) => AgreeOf(found[x], loaded[x])'
         /\ NewState(x)' = NewState(x) /\ Changed(x)' = Changed(x) /\ Applies(x)' = Applies(x)
         /\ \A n \in Names : NewLink(x, n)' = NewLink(x, n)
BY DEF PlanKept, PlanSound, AgreeOf, NewState, Changed, StateChanged, Applies, NewLink, Recorded

(* A name that a step does not touch is as far as before.                    *)
LEMMA NameFrame ==
  ASSUME NEW x \in Txns, NEW n \in Names, PlanKept(x), NameSound(x, n),
         dest'[n] = dest[n], bak'[x][n] = bak[x][n], stage'[x][n] = stage[x][n],
         failed[x] => failed'[x],
         pc[x] \in {"verify", "dead"} /\ cur[x] = n =>
           pc'[x] \in {"verify", "dead"} /\ cur'[x] = n
  PROVE  NameSound(x, n)'
BY PlanFrame DEF PlanKept, NameSound, Emptied

(* The state file stays while a run moves between steps that leave it.        *)
LEMMA StateFrame ==
  ASSUME NEW x \in Txns, PlanKept(x), StateSound(x), state' = state, sbak'[x] = sbak[x],
         committed'[x] = committed[x],
         ~committed[x] =>
           \/ pc'[x] = pc[x]
           \/ pc'[x] = "dead" /\ pc[x] \in BeforeLock \cup {"stage", "move"} \cup Linking
                                           \cup Writing \cup Ending
           \/ /\ pc[x] \in BeforeLock \cup {"stage", "move", "w_move"} \cup Linking
              /\ pc'[x] \in BeforeLock \cup {"stage", "move", "w_move"} \cup Linking
                             \cup (Ending \ {"dead"})
           \/ pc[x] \in {"w_read", "w_link"} /\ pc'[x] \in {"w_link"} \cup (Ending \ {"dead"})
           \/ pc[x] \in Ending \ {"dead"} /\ pc'[x] \in Ending \ {"dead"}
  PROVE  StateSound(x)'
<1>1. PlanKept(x) /\ NewState(x)' = NewState(x) /\ Changed(x)' = Changed(x) /\ Applies(x)' = Applies(x)
  BY PlanFrame
<1>2. CASE committed[x]
  BY <1>1, <1>2 DEF PlanKept, StateSound
<1>3. CASE ~committed[x]
  <2> USE DEF BeforeLock, Linking, Ending
  <2>1. state' = state /\ sbak'[x] = sbak[x] /\ loaded'[x] = loaded[x] /\ ~committed'[x]
    BY <1>1, <1>3 DEF PlanKept
  <2>2. CASE pc'[x] = pc[x]
    BY <1>1, <1>3, <2>1, <2>2 DEF StateSound
  <2>3. CASE pc'[x] = "dead" /\ pc'[x] # pc[x]
    <3>1. loaded[x] = NoState \/ state = loaded[x] \/ sbak[x] = loaded[x]
      BY <1>3, <2>2, <2>3 DEF StateSound, Writing
    <3> QED BY <2>1, <2>3, <3>1 DEF StateSound
  <2>4. CASE pc[x] \in BeforeLock \cup {"stage", "move", "w_move"} \cup Linking /\ pc'[x] # "dead"
    <3>1. state = loaded[x] /\ sbak[x] = NoState
      BY <1>3, <2>4 DEF StateSound
    <3>2. pc'[x] \notin {"w_read", "w_link", "w_verify", "dead"} \/ pc'[x] = pc[x]
      BY <1>3, <2>4
    <3> QED BY <2>1, <2>4, <3>1, <3>2 DEF StateSound
  <2>5. CASE pc[x] \in {"w_read", "w_link"} /\ pc'[x] \notin {pc[x], "dead"}
    <3>1. state = NoState /\ sbak[x] = loaded[x]
      BY <1>3, <2>5 DEF StateSound
    <3> QED BY <1>3, <2>1, <2>5, <3>1 DEF StateSound
  <2>6. CASE pc[x] \in Ending \ {"dead"} /\ pc'[x] \notin {pc[x], "dead"}
    BY <1>3, <2>1, <2>6 DEF StateSound
  <2> QED BY <1>3, <2>2, <2>3, <2>4, <2>5, <2>6
<1> QED BY <1>2, <1>3

(* A run stays sound while others change neither it nor the disk.            *)
LEMMA SoundFrame ==
  ASSUME NEW x \in Txns, RunKept(x), Sound(x), dest' = dest, state' = state
  PROVE  Sound(x)'
<1>1. PlanSound(x)' /\ AgreeOf(found[x], loaded[x])'
  BY PlanFrame DEF RunKept, Sound
<1>2. StateSound(x)'
  BY StateFrame DEF RunKept, Sound
<1>3. \A n \in Names : NameSound(x, n)'
  BY NameFrame DEF RunKept, Sound
<1> QED BY <1>1, <1>2, <1>3 DEF Sound

(* A run that only moves to another place.                                    *)
OnlyMoves(x) ==
  /\ PlanKept(x) /\ dest' = dest /\ state' = state
  /\ stage'[x] = stage[x] /\ cur'[x] = cur[x] /\ bak'[x] = bak[x] /\ sbak'[x] = sbak[x]
  /\ committed'[x] = committed[x] /\ failed'[x] = failed[x]

(* A run that moves on without touching anything stays sound.                *)
LEMMA MoveSound ==
  ASSUME NEW x \in Txns, PathEnd(x), OnlyMoves(x), Sound(x),
         pc[x] \in Phases \ {"start", "verify", "dead", "w_verify"},
         pc[x] \in BeforeLock \cup {"stage", "move", "w_move"} \cup Linking =>
           pc'[x] \in BeforeLock \cup {"stage", "move", "w_move"} \cup Linking \cup (Ending \ {"dead"}),
         pc[x] \in {"w_read", "w_link"} => pc'[x] \in {"w_link"} \cup (Ending \ {"dead"}),
         pc[x] \in Ending => pc'[x] \in Ending \ {"dead"}
  PROVE  Sound(x)'
<1> USE DEF OnlyMoves
<1>1. PlanSound(x)' /\ AgreeOf(found[x], loaded[x])'
  BY PlanFrame DEF Sound
<1>2. StateSound(x)'
  <2>1. ~committed[x] => pc[x] \in BeforeLock \cup {"stage", "move"} \cup Linking
                                  \cup (Writing \ {"w_verify"}) \cup (Ending \ {"dead"})
    BY DEF PathEnd, Phases, BeforeLock, Linking, Writing, Ending, AfterCommit
  <2>2. ~committed[x] =>
           \/ /\ pc[x] \in BeforeLock \cup {"stage", "move", "w_move"} \cup Linking
              /\ pc'[x] \in BeforeLock \cup {"stage", "move", "w_move"} \cup Linking
                             \cup (Ending \ {"dead"})
           \/ pc[x] \in {"w_read", "w_link"} /\ pc'[x] \in {"w_link"} \cup (Ending \ {"dead"})
           \/ pc[x] \in Ending \ {"dead"} /\ pc'[x] \in Ending \ {"dead"}
    BY <2>1 DEF Writing, Ending
  <2> QED BY <2>2, StateFrame DEF Sound
<1>3. \A n \in Names : NameSound(x, n)'
  BY NameFrame DEF Sound
<1> QED BY <1>1, <1>2, <1>3 DEF Sound

(* One lemma per operation: the run stays on its path, and sound.            *)
LEMMA CreateDestinationStep ==
  ASSUME SkillsInv, PathInv, NEW x \in Txns, CreateDestination(x)
  PROVE  Path(x)' /\ (Sound(x) => Sound(x)')
<1>1. ProgressOK /\ Path(x) /\ pc[x] = "create" /\ \A n \in Names : stage[x][n] = "none"
  BY TypeParts DEF SkillsInv, PathInv, Path, CreateDestination, JournalOK
<1>2. pc'[x] \in {"lock", "rollback"}
  BY <1>1 DEF CreateDestination, Goto, ProgressOK
<1>3. /\ dest' = dest /\ state' = state /\ req' = req /\ plan' = plan /\ loaded' = loaded
      /\ stage' = stage /\ cur' = cur /\ bak' = bak /\ sbak' = sbak
      /\ committed' = committed /\ failed' = failed /\ found' = found /\ out' = out
  BY DEF CreateDestination
<1>4. Path(x)'
  BY <1>1, <1>2, <1>3
  DEF Path, PathPlan, PathStage, PathEnd, BeforeLock, Linking, Writing, AfterCommit, Inside,
      Applies, PlanUninstall, Recorded, NeverStaged, InFlight, Todo, Undo
<1>5. ASSUME Sound(x) PROVE Sound(x)'
  <2>1. PlanSound(x)' /\ AgreeOf(found[x], loaded[x])'
    BY <1>3, <1>5 DEF Sound, PlanSound, AgreeOf, Applies, Recorded
  <2>2. StateSound(x)'
    BY <1>1, <1>2, <1>3, <1>5
    DEF Sound, StateSound, Path, PathPlan, BeforeLock, Linking, Ending
  <2>3. \A n \in Names : NameSound(x, n)'
    BY <1>1, <1>3, <1>5 DEF Sound, NameSound
  <2> QED BY <2>1, <2>2, <2>3 DEF Sound
<1> QED BY <1>4, <1>5

LEMMA DestinationLockStep ==
  ASSUME SkillsInv, PathInv, NEW x \in Txns, DestinationLock(x)
  PROVE  Path(x)' /\ (Sound(x) => Sound(x)')
<1>1. ProgressOK /\ Path(x) /\ pc[x] = "lock" /\ \A n \in Names : stage[x][n] = "none"
  BY TypeParts DEF SkillsInv, PathInv, Path, DestinationLock, JournalOK
<1>2. pc'[x] \in {"locked", "rollback"}
  BY <1>1 DEF DestinationLock, Goto, ProgressOK
<1>3. OnlyMoves(x) /\ out'[x] = out[x]
  BY DEF DestinationLock, OnlyMoves, PlanKept, local
<1>4. Path(x)'
  BY <1>1, <1>2, <1>3
  DEF OnlyMoves, PlanKept, Path, PathPlan, PathStage, PathEnd, BeforeLock, Linking, Writing,
      AfterCommit, Inside, Applies, PlanUninstall, Recorded, NeverStaged, InFlight, Todo, Undo
<1>5. Sound(x) => Sound(x)'
  BY <1>1, <1>2, <1>3, MoveSound DEF Path, BeforeLock, Linking, Ending, Phases
<1> QED BY <1>4, <1>5

LEMMA InstallTemporaryStep ==
  ASSUME SkillsInv, PathInv, NEW x \in Txns, InstallTemporary(x)
  PROVE  Path(x)' /\ (Sound(x) => Sound(x)')
<1>1. ProgressOK /\ Path(x) /\ pc[x] = "install"
  BY TypeParts DEF SkillsInv, PathInv, Path, InstallTemporary
<1>2. pc'[x] \in {"link", "abort"}
  BY <1>1 DEF InstallTemporary, Goto, ProgressOK
<1>3. OnlyMoves(x) /\ out'[x] = out[x]
  BY DEF InstallTemporary, OnlyMoves, PlanKept, local, disk
<1>4. Path(x)'
  BY <1>1, <1>2, <1>3
  DEF OnlyMoves, PlanKept, Path, PathPlan, PathStage, PathEnd, BeforeLock, Linking, Writing,
      AfterCommit, Inside, Applies, PlanUninstall, Recorded, NeverStaged, InFlight, Todo, Undo
<1>5. Sound(x) => Sound(x)'
  BY <1>1, <1>2, <1>3, MoveSound DEF Path, BeforeLock, Linking, Ending, Phases
<1> QED BY <1>4, <1>5

LEMMA LeaveLockStep ==
  ASSUME SkillsInv, PathInv, NEW x \in Txns, LeaveLock(x)
  PROVE  Path(x)' /\ (Sound(x) => Sound(x)')
<1>1. ProgressOK /\ Path(x) /\ pc[x] = "abort"
  BY TypeParts DEF SkillsInv, PathInv, Path, LeaveLock
<1>2. pc'[x] = "rollback"
  BY <1>1 DEF LeaveLock, Goto, ProgressOK
<1>3. OnlyMoves(x) /\ out'[x] = out[x]
  BY DEF LeaveLock, OnlyMoves, PlanKept, local
<1>4. Path(x)'
  BY <1>1, <1>2, <1>3
  DEF OnlyMoves, PlanKept, Path, PathPlan, PathStage, PathEnd, BeforeLock, Linking, Writing,
      AfterCommit, Inside, Applies, PlanUninstall, Recorded, NeverStaged, InFlight, Todo, Undo
<1>5. Sound(x) => Sound(x)'
  BY <1>1, <1>2, <1>3, MoveSound DEF Path, BeforeLock, Linking, Ending, Phases
<1> QED BY <1>4, <1>5

LEMMA RolledBackStep ==
  ASSUME SkillsInv, PathInv, NEW x \in Txns, RolledBack(x)
  PROVE  Path(x)' /\ (Sound(x) => Sound(x)')
<1>1. ProgressOK /\ Path(x) /\ pc[x] = "rollback" /\ Undo(x) = {}
  BY TypeParts DEF SkillsInv, PathInv, Path, RolledBack
<1>2. pc'[x] = "unroot"
  BY <1>1 DEF RolledBack, Goto, ProgressOK
<1>3. OnlyMoves(x) /\ out'[x] = out[x]
  BY DEF RolledBack, OnlyMoves, PlanKept, local, disk
<1>4. Path(x)'
  BY <1>1, <1>2, <1>3
  DEF OnlyMoves, PlanKept, Path, PathPlan, PathStage, PathEnd, BeforeLock, Linking, Writing,
      AfterCommit, Inside, Applies, PlanUninstall, Recorded, NeverStaged, InFlight, Todo, Undo
<1>5. Sound(x) => Sound(x)'
  BY <1>1, <1>2, <1>3, MoveSound DEF Path, BeforeLock, Linking, Ending, Phases
<1> QED BY <1>4, <1>5

LEMMA CleanedUpStep ==
  ASSUME SkillsInv, PathInv, NEW x \in Txns, CleanedUp(x)
  PROVE  Path(x)' /\ (Sound(x) => Sound(x)')
<1>1. ProgressOK /\ Path(x) /\ pc[x] = "cleanup"
  BY TypeParts DEF SkillsInv, PathInv, Path, CleanedUp
<1>2. pc'[x] \in {"unlock", "w_clean"}
  BY <1>1 DEF CleanedUp, Goto, ProgressOK
<1>3. OnlyMoves(x) /\ out'[x] = out[x]
  BY DEF CleanedUp, OnlyMoves, PlanKept, local, disk
<1>4. Path(x)'
  BY <1>1, <1>2, <1>3
  DEF OnlyMoves, PlanKept, Path, PathPlan, PathStage, PathEnd, BeforeLock, Linking, Writing,
      AfterCommit, Inside, Applies, PlanUninstall, Recorded, NeverStaged, InFlight, Todo, Undo
<1>5. Sound(x) => Sound(x)'
  BY <1>1, <1>2, <1>3, MoveSound DEF Path, BeforeLock, Linking, Ending, Phases
<1> QED BY <1>4, <1>5

LEMMA UnlockStep ==
  ASSUME SkillsInv, PathInv, NEW x \in Txns, Unlock(x)
  PROVE  Path(x)' /\ (Sound(x) => Sound(x)')
<1>1. ProgressOK /\ Path(x) /\ pc[x] = "unlock"
  BY TypeParts DEF SkillsInv, PathInv, Path, Unlock
<1>2. \/ pc'[x] = "done" /\ out'[x] = "ok"
      \/ pc'[x] = "unroot" /\ out'[x] = out[x]
  BY <1>1 DEF Unlock, Goto, ProgressOK
<1>3. OnlyMoves(x)
  BY DEF Unlock, OnlyMoves, PlanKept
<1>4. Path(x)'
  BY <1>1, <1>2, <1>3
  DEF OnlyMoves, PlanKept, Path, PathPlan, PathStage, PathEnd, BeforeLock, Linking, Writing,
      AfterCommit, Inside, Applies, PlanUninstall, Recorded, NeverStaged, InFlight, Todo, Undo
<1>5. Sound(x) => Sound(x)'
  BY <1>1, <1>2, <1>3, MoveSound DEF Path, BeforeLock, Linking, Ending, Phases
<1> QED BY <1>4, <1>5

LEMMA RemoveContainersStep ==
  ASSUME SkillsInv, PathInv, NEW x \in Txns, RemoveContainers(x)
  PROVE  Path(x)' /\ (Sound(x) => Sound(x)')
<1>1. ProgressOK /\ Path(x) /\ pc[x] = "unroot"
  BY TypeParts DEF SkillsInv, PathInv, Path, RemoveContainers
<1>2. /\ pc'[x] = "done"
      /\ out'[x] \in {"ok", "incomplete", "failed"}
      /\ out'[x] = "ok" <=> committed[x]
      /\ out'[x] = "failed" => ~failed[x]
  BY <1>1 DEF RemoveContainers, Goto, ProgressOK
<1>3. OnlyMoves(x)
  BY DEF RemoveContainers, OnlyMoves, PlanKept
<1>4. Path(x)'
  BY <1>1, <1>2, <1>3
  DEF OnlyMoves, PlanKept, Path, PathPlan, PathStage, PathEnd, BeforeLock, Linking, Writing,
      AfterCommit, Inside, Applies, PlanUninstall, Recorded, NeverStaged, InFlight, Todo, Undo
<1>5. Sound(x) => Sound(x)'
  BY <1>1, <1>2, <1>3, MoveSound DEF Path, BeforeLock, Linking, Ending, Phases
<1> QED BY <1>4, <1>5

LEMMA CrashStep ==
  ASSUME SkillsInv, PathInv, NEW x \in Txns, Crash(x)
  PROVE  Path(x)' /\ (Sound(x) => Sound(x)')
<1>1. ProgressOK /\ Path(x) /\ pc[x] \notin {"start", "done", "dead"}
  BY TypeParts DEF SkillsInv, PathInv, Path, Crash
<1>2. pc'[x] = "dead"
  BY <1>1 DEF Crash, Goto, ProgressOK
<1>3. OnlyMoves(x) /\ out'[x] = out[x]
  BY DEF Crash, OnlyMoves, PlanKept, local, disk
<1>4. Path(x)'
  BY <1>1, <1>2, <1>3
  DEF OnlyMoves, PlanKept, Path, PathPlan, PathStage, PathEnd, BeforeLock, Linking, Writing,
      AfterCommit, Inside, Applies, PlanUninstall, Recorded, NeverStaged, InFlight, Todo, Undo
<1>5. ASSUME Sound(x) PROVE Sound(x)'
  <2>1. PlanSound(x)' /\ AgreeOf(found[x], loaded[x])'
    BY <1>3, <1>5, PlanFrame DEF OnlyMoves, Sound
  <2>2. StateSound(x)'
    <3>1. ~committed[x] => pc[x] \in BeforeLock \cup {"stage", "move"} \cup Linking
                                      \cup Writing \cup Ending
      BY <1>1 DEF Path, PathEnd, ProgressOK, Phases, BeforeLock, Linking, Writing, Ending,
                  AfterCommit
    <3> QED BY <1>2, <1>3, <1>5, <3>1, StateFrame DEF OnlyMoves, Sound
  <2>3. \A n \in Names : NameSound(x, n)'
    BY <1>2, <1>3, <1>5, NameFrame DEF OnlyMoves, Sound
  <2> QED BY <2>1, <2>2, <2>3 DEF Sound
<1> QED BY <1>4, <1>5

(* Under the lock: the plan is made again for what is found.                  *)
LEMMA PlanFits ==
  ASSUME SkillsTypeOK, NEW x \in Txns, NEW inv \in [Names -> Targets \cup {NoTarget}], NEW n \in Names,
         NEW p, p = Kind(n, state, inv), p # "refuse"
  PROVE  /\ p \in {"create", "replace", "keep"} <=> inv[n] # NoTarget
         /\ p = "create" => dest[n] = NoEntry
         /\ p = "replace" => dest[n] # NoEntry
         /\ p = "keep" => dest[n] # NoEntry /\ dest[n].target = inv[n]
         /\ p = "none" => dest[n] = NoEntry \/ Recorded(state, n) = NoTarget
BY DEF Kind

(* A run that passes the second plan is sound wherever things agreed.        *)
LEMMA LockedPlanStep ==
  ASSUME SkillsInv, PathInv, NEW x \in Txns, LockedPlan(x)
  PROVE  /\ Path(x)' /\ (Sound(x) => Sound(x)')
         /\ pc'[x] \in Inside /\ AgreeOf(dest, state) => Sound(x)'
<1>1. /\ ProgressOK /\ KeptOK /\ DiskOK /\ WorkOK /\ Path(x)
      /\ pc[x] = "locked" /\ \A n \in Names : stage[x][n] = "none"
  BY TypeParts DEF SkillsInv, PathInv, Path, LockedPlan, JournalOK
<1>2. \/ /\ pc'[x] = "stage" /\ loaded'[x] = state /\ found'[x] = dest
         /\ IF Applies(x) THEN SamePlan(x) ELSE state = loaded[x]
      \/ pc'[x] = "abort" /\ loaded'[x] = loaded[x] /\ found'[x] = found[x]
  BY <1>1 DEF LockedPlan, Goto, ProgressOK, KeptOK
<1>3. /\ dest' = dest /\ state' = state /\ req' = req /\ plan' = plan
      /\ stage' = stage /\ cur' = cur /\ bak' = bak /\ sbak' = sbak /\ made' = made
      /\ committed' = committed /\ failed' = failed /\ out' = out
  BY DEF LockedPlan, disk
<1>4. Path(x)'
  <2>1. ~Applies(x) => loaded'[x] = loaded[x]
    BY <1>2
  <2>2. PathPlan(x)'
    BY <1>1, <1>2, <1>3, <2>1
    DEF Path, PathPlan, BeforeLock, Applies, PlanUninstall, Recorded, NeverStaged
  <2>3. PathStage(x)' /\ PathEnd(x)'
    BY <1>1, <1>2, <1>3
    DEF Path, PathPlan, PathStage, PathEnd, BeforeLock, Linking, Writing, AfterCommit, Inside,
        NeverStaged, InFlight, Todo, Undo
  <2> QED BY <2>2, <2>3 DEF Path
<1>5. ASSUME pc'[x] = "stage", AgreeOf(dest, state) PROVE Sound(x)'
  <2>1. loaded'[x] = state /\ found'[x] = dest
    BY <1>2, <1>5
  <2>2. PlanSound(x)'
    <3>1. CASE Applies(x)
      <4>1. \A n \in Names : plan[x][n] = Kind(n, state, req[x].inv) /\ plan[x][n] # "refuse"
        BY <1>1, <1>2, <1>5, <3>1 DEF SamePlan, PlanApply, Path, PathPlan
      <4>2. req[x].inv \in [Names -> Targets \cup {NoTarget}]
        BY RequestType DEF SkillsInv
      <4> QED BY <1>3, <2>1, <3>1, <4>1, <4>2, PlanFits DEF SkillsInv, PlanSound, Applies
    <3>2. CASE ~Applies(x)
      <4>1. plan[x] = PlanUninstall(state)
        BY <1>1, <1>2, <1>5, <3>2 DEF Path, PathPlan
      <4> QED BY <1>3, <2>1, <3>2, <4>1 DEF PlanSound, Applies, PlanUninstall
    <3> QED BY <3>1, <3>2
  <2>3. AgreeOf(found[x], loaded[x])'
    BY <1>5, <2>1 DEF AgreeOf, Recorded
  <2>4. StateSound(x)'
    BY <1>1, <1>3, <1>5, <2>1 DEF StateSound, Path, PathPlan, BeforeLock, Ending
  <2>5. \A n \in Names : NameSound(x, n)'
    BY <1>1, <1>3, <2>1 DEF NameSound, Path, PathPlan, BeforeLock, NoEntries
  <2> QED BY <2>2, <2>3, <2>4, <2>5 DEF Sound
<1>6. ASSUME pc'[x] = "abort", Sound(x) PROVE Sound(x)'
  <2>1. OnlyMoves(x)
    BY <1>2, <1>3, <1>6 DEF OnlyMoves, PlanKept
  <2> QED BY <1>1, <1>6, <2>1, MoveSound DEF Path, BeforeLock, Linking, Ending, Phases
<1>7. Sound(x) => AgreeOf(dest, state)
  <2>1. ASSUME Sound(x) PROVE dest = found[x] /\ state = loaded[x]
    <3>1. state = loaded[x]
      BY <1>1, <2>1 DEF Sound, StateSound, Path, PathPlan, BeforeLock
    <3>2. \A n \in Names : dest[n] = found[x][n]
      BY <1>1, <2>1 DEF Sound, NameSound
    <3> QED BY <1>1, <3>1, <3>2 DEF DiskOK, KeptOK
  <2> QED BY <2>1 DEF Sound
<1>8. pc'[x] \in Inside <=> pc'[x] = "stage"
  BY <1>2 DEF Inside, Linking, Writing, AfterCommit
<1> QED BY <1>2, <1>4, <1>5, <1>6, <1>7, <1>8

(* With everything staged the run commits or turns to the state file.        *)
LEMMA BeginCommitStep ==
  ASSUME SkillsInv, PathInv, NEW x \in Txns, BeginCommit(x)
  PROVE  Path(x)' /\ (Sound(x) => Sound(x)')
<1>1. /\ ProgressOK /\ Path(x) /\ pc[x] = "stage" /\ Todo(x) = {}
      /\ ~committed[x]
  BY TypeParts DEF SkillsInv, PathInv, Path, BeginCommit, PathEnd, AfterCommit
<1>2. \/ /\ Applies(x) /\ ~Changed(x) /\ committed'[x] = TRUE /\ pc'[x] = "cleanup"
      \/ pc'[x] = AfterStaging(x) /\ committed'[x] = committed[x]
      \/ pc'[x] = "abort" /\ committed'[x] = committed[x]
  BY <1>1 DEF BeginCommit, Goto, ProgressOK
<1>3. /\ PlanKept(x) /\ dest' = dest /\ state' = state
      /\ stage' = stage /\ cur' = cur /\ bak' = bak /\ sbak' = sbak
      /\ failed' = failed /\ out' = out
  BY DEF BeginCommit, PlanKept, disk
<1>4. pc'[x] \in {"cleanup", "w_link", "w_move", "abort"}
  BY <1>2 DEF AfterStaging
<1>5. Path(x)'
  <2>1. PathPlan(x)'
    BY <1>1, <1>3, <1>4
    DEF PlanKept, Path, PathPlan, BeforeLock, Applies, PlanUninstall, Recorded, NeverStaged
  <2>2. PathStage(x)'
    BY <1>1, <1>2, <1>3, <1>4
    DEF PlanKept, Path, PathStage, Linking, Writing, AfterCommit, Inside, InFlight, Todo
  <2>3. PathEnd(x)'
    <3>1. pc'[x] = "w_link" => Applies(x)
      BY <1>1, <1>2 DEF AfterStaging, Path, PathPlan, PathEnd
    <3> QED BY <1>1, <1>2, <1>3, <1>4, <3>1
            DEF PlanKept, Path, PathEnd, BeforeLock, Linking, AfterCommit, Applies, AfterStaging
  <2> QED BY <2>1, <2>2, <2>3 DEF Path
<1>6. ASSUME Sound(x) PROVE Sound(x)'
  <2>1. PlanSound(x)' /\ AgreeOf(found[x], loaded[x])'
    BY <1>3, <1>6, PlanFrame DEF Sound
  <2>2. StateSound(x)'
    <3>1. state = loaded[x] /\ sbak[x] = NoState
      BY <1>1, <1>6 DEF Sound, StateSound
    <3>2. Changed(x)' = Changed(x) /\ Applies(x)' = Applies(x)
      BY <1>3, PlanFrame
    <3>3. CASE pc'[x] = "cleanup"
      <4>1. Applies(x) /\ ~Changed(x) /\ committed'[x] = TRUE
        BY <1>2, <3>3 DEF AfterStaging
      <4> QED BY <1>3, <3>1, <3>2, <4>1 DEF StateSound, PlanKept
    <3>4. CASE pc'[x] # "cleanup"
      <4>1. committed'[x] = committed[x] /\ (pc'[x] = "w_link" => loaded[x] = NoState)
        BY <1>2, <3>4 DEF AfterStaging
      <4> QED BY <1>1, <1>3, <1>4, <3>1, <3>4, <4>1
              DEF StateSound, PlanKept, BeforeLock, Linking, Ending
    <3> QED BY <3>3, <3>4
  <2>3. \A n \in Names : NameSound(x, n)'
    BY <1>1, <1>3, <1>6, NameFrame DEF Sound
  <2> QED BY <2>1, <2>2, <2>3 DEF Sound
<1> QED BY <1>5, <1>6

(* The state file: where it is, and where the run goes with it.               *)
StateStep(x) == MoveState(x) \/ ReadState(x) \/ WriteState(x) \/ VerifyState(x)

(* The four steps of the state file.                                         *)
LEMMA StateStepStep ==
  ASSUME SkillsInv, PathInv, NEW x \in Txns, StateStep(x)
  PROVE  Path(x)' /\ (Sound(x) => Sound(x)')
<1> USE DEF StateStep
<1>1. /\ ProgressOK /\ KeptOK /\ Path(x) /\ pc[x] \in Writing /\ ~committed[x]
  BY TypeParts
  DEF SkillsInv, PathInv, Path, MoveState, ReadState, WriteState, VerifyState, Writing, PathEnd,
      AfterCommit
<1>2. /\ PlanKept(x) /\ dest' = dest /\ stage' = stage /\ cur' = cur /\ bak' = bak
      /\ failed' = failed /\ out' = out
  BY DEF MoveState, ReadState, WriteState, VerifyState, PlanKept
<1>3. \/ /\ pc[x] = "w_move" /\ pc'[x] = "w_read"
         /\ state' = NoState /\ sbak'[x] = state /\ committed'[x] = committed[x]
      \/ /\ pc[x] = "w_move" /\ pc'[x] = "abort"
         /\ state' = state /\ sbak'[x] = sbak[x] /\ committed'[x] = committed[x]
      \/ /\ pc[x] = "w_read" /\ pc'[x] \in {"w_link", "abort"} /\ (pc'[x] = "w_link" => Applies(x))
         /\ state' = state /\ sbak'[x] = sbak[x] /\ committed'[x] = committed[x]
      \/ /\ pc[x] = "w_read" /\ pc'[x] = "cleanup" /\ ~Applies(x)
         /\ state' = state /\ sbak'[x] = sbak[x] /\ committed'[x] = TRUE
      \/ /\ pc[x] \in Writing /\ pc[x] # "w_move" /\ pc'[x] = "abort"
         /\ state' = sbak[x] /\ sbak'[x] = NoState /\ committed'[x] = committed[x]
      \/ /\ pc[x] = "w_link" /\ pc'[x] = "w_verify"
         /\ state' = NewState(x) /\ sbak'[x] = sbak[x] /\ committed'[x] = committed[x]
      \/ /\ pc[x] = "w_verify" /\ pc'[x] = "w_clean"
         /\ state' = state /\ sbak'[x] = sbak[x] /\ committed'[x] = TRUE
  <2>1. CASE MoveState(x)
    BY <1>1, <2>1 DEF MoveState, Goto, Aside, ProgressOK, KeptOK
  <2>2. CASE ReadState(x)
    BY <1>1, <2>2 DEF ReadState, Goto, ProgressOK, KeptOK, Writing
  <2>3. CASE WriteState(x)
    BY <1>1, <2>3 DEF WriteState, PutStateBack, Goto, ProgressOK, KeptOK, Writing
  <2>4. CASE VerifyState(x)
    BY <1>1, <2>4 DEF VerifyState, PutStateBack, Goto, ProgressOK, KeptOK, Writing
  <2> QED BY <2>1, <2>2, <2>3, <2>4
<1>4. Path(x)'
  <2>1. PathPlan(x)'
    BY <1>1, <1>2, <1>3
    DEF PlanKept, Path, PathPlan, BeforeLock, Writing, Applies, PlanUninstall, Recorded, NeverStaged
  <2>2. PathStage(x)'
    BY <1>1, <1>2, <1>3
    DEF PlanKept, Path, PathStage, Linking, Writing, AfterCommit, Inside, InFlight, Todo
  <2>3. PathEnd(x)'
    BY <1>1, <1>2, <1>3 DEF PlanKept, Path, PathEnd, BeforeLock, Linking, AfterCommit, Undo, Writing, Applies
  <2> QED BY <2>1, <2>2, <2>3 DEF Path
<1>5. ASSUME Sound(x) PROVE Sound(x)'
  <2>1. PlanSound(x)' /\ AgreeOf(found[x], loaded[x])'
    BY <1>2, <1>5, PlanFrame DEF Sound
  <2>2. StateSound(x)'
    <3>1. /\ pc[x] = "w_move" => state = loaded[x] /\ sbak[x] = NoState
          /\ pc[x] \in {"w_read", "w_link"} => state = NoState /\ sbak[x] = loaded[x]
          /\ pc[x] = "w_verify" => state = NewState(x) /\ sbak[x] = loaded[x]
      BY <1>1, <1>5 DEF Sound, StateSound
    <3>2. /\ loaded'[x] = loaded[x] /\ NewState(x)' = NewState(x) /\ Changed(x)' = Changed(x)
          /\ Applies(x)' = Applies(x)
      BY <1>2, PlanFrame DEF PlanKept
    <3>3. pc[x] = "w_verify" => Applies(x)
      BY <1>1 DEF Path, PathEnd
    <3> QED BY <1>1, <1>3, <3>1, <3>2, <3>3 DEF StateSound, Writing, BeforeLock, Linking, Ending
  <2>3. \A n \in Names : NameSound(x, n)'
    BY <1>1, <1>2, <1>5, NameFrame DEF Sound, Writing
  <2> QED BY <2>1, <2>2, <2>3 DEF Sound
<1> QED BY <1>4, <1>5

(* After the commit the backup of the state file goes.                       *)
LEMMA CleanStateStep ==
  ASSUME SkillsInv, PathInv, NEW x \in Txns, CleanState(x)
  PROVE  Path(x)' /\ (Sound(x) => Sound(x)')
<1>1. ProgressOK /\ KeptOK /\ Path(x) /\ pc[x] = "w_clean" /\ committed[x]
  BY TypeParts DEF SkillsInv, PathInv, Path, CleanState, PathEnd, AfterCommit
<1>2. /\ PlanKept(x) /\ dest' = dest /\ state' = state /\ stage' = stage /\ cur' = cur
      /\ bak' = bak /\ failed' = failed /\ out' = out /\ committed' = committed
  BY DEF CleanState, PlanKept, disk
<1>3. pc'[x] \in {"cleanup", "unlock"}
  BY <1>1 DEF CleanState, Goto, ProgressOK
<1>4. Path(x)'
  BY <1>1, <1>2, <1>3
  DEF PlanKept, Path, PathPlan, PathStage, PathEnd, BeforeLock, Linking, Writing,
      AfterCommit, Inside, Applies, PlanUninstall, Recorded, NeverStaged, InFlight, Todo, Undo
<1>5. ASSUME Sound(x) PROVE Sound(x)'
  <2>1. PlanSound(x)' /\ AgreeOf(found[x], loaded[x])'
    BY <1>2, <1>5, PlanFrame DEF Sound
  <2>2. StateSound(x)'
    <3>1. /\ loaded'[x] = loaded[x] /\ NewState(x)' = NewState(x) /\ Changed(x)' = Changed(x)
          /\ Applies(x)' = Applies(x)
      BY <1>2, PlanFrame DEF PlanKept
    <3> QED BY <1>1, <1>2, <1>5, <3>1 DEF Sound, StateSound
  <2>3. \A n \in Names : NameSound(x, n)'
    BY <1>1, <1>2, <1>5, NameFrame DEF Sound
  <2> QED BY <2>1, <2>2, <2>3 DEF Sound
<1> QED BY <1>4, <1>5

(* A step that changes one name only.                                         *)
AtName(x, n) ==
  /\ PlanKept(x) /\ state' = state /\ sbak'[x] = sbak[x] /\ committed'[x] = committed[x]
  /\ failed[x] => failed'[x]
  /\ \A k \in Names : k # n => /\ dest'[k] = dest[k] /\ bak'[x][k] = bak[x][k]
                               /\ stage'[x][k] = stage[x][k]

(* A step at one name leaves the run sound if it leaves that name so.        *)
LEMMA NameStepSound ==
  ASSUME NEW x \in Txns, NEW n \in Names, AtName(x, n), Sound(x), NameSound(x, n)',
         pc[x] # "dead", pc[x] = "verify" => cur[x] = n,
         \/ pc'[x] = pc[x]
         \/ /\ pc[x] \in {"stage", "move"} \cup Linking
            /\ pc'[x] \in {"stage", "abort", "move"} \cup Linking
         \/ pc[x] \in {"rollback", "unlink"} /\ pc'[x] \in {"rollback", "unlink", "done"}
  PROVE  Sound(x)'
<1> USE DEF AtName
<1>1. PlanSound(x)' /\ AgreeOf(found[x], loaded[x])'
  BY PlanFrame DEF Sound
<1>2. StateSound(x)'
  <2>1. \/ pc'[x] = pc[x]
        \/ /\ pc[x] \in BeforeLock \cup {"stage", "move", "w_move"} \cup Linking
           /\ pc'[x] \in BeforeLock \cup {"stage", "move", "w_move"} \cup Linking
                          \cup (Ending \ {"dead"})
        \/ pc[x] \in Ending \ {"dead"} /\ pc'[x] \in Ending \ {"dead"}
    BY DEF Ending, BeforeLock
  <2> QED BY <2>1, StateFrame DEF Sound
<1>3. \A k \in Names : k # n => NameSound(x, k)'
  BY NameFrame DEF Sound
<1> QED BY <1>1, <1>2, <1>3 DEF Sound

(* Staging: a creation is journalled, an old link backed up and taken away.  *)
LEMMA StageCreateStep ==
  ASSUME SkillsInv, PathInv, NEW x \in Txns, StageCreate(x)
  PROVE  Path(x)' /\ (Sound(x) => Sound(x)')
<1>1. /\ ProgressOK /\ WorkOK /\ KeptOK /\ Path(x) /\ pc[x] = "stage" /\ ~committed[x]
  BY TypeParts DEF SkillsInv, PathInv, Path, StageCreate, PathEnd, AfterCommit
<1>2. PICK n \in Names :
        /\ IsFirst(x, n) /\ plan[x][n] = "create"
        /\ stage' = [stage EXCEPT ![x][n] = "planned"] /\ cur' = [cur EXCEPT ![x] = n]
        /\ \/ Goto(x, "install") /\ Succeeds
           \/ Goto(x, "abort") /\ Raises
  BY DEF StageCreate
<1>3. stage[x][n] = "none"
  BY <1>2 DEF IsFirst, Todo
<1>4. /\ stage'[x][n] = "planned" /\ (\A k \in Names : k # n => stage'[x][k] = stage[x][k])
      /\ cur'[x] = n /\ pc'[x] \in {"install", "abort"}
  BY <1>1, <1>2 DEF Goto, ProgressOK, WorkOK
<1>5. /\ PlanKept(x) /\ dest' = dest /\ state' = state /\ sbak' = sbak /\ bak' = bak
      /\ failed' = failed /\ out' = out /\ committed' = committed
  BY DEF StageCreate, PlanKept, disk
<1>6. Path(x)'
  <2>1. PathPlan(x)'
    BY <1>1, <1>4, <1>5
    DEF PlanKept, Path, PathPlan, PathEnd, BeforeLock, Applies, PlanUninstall, Recorded
  <2>2. PathStage(x)'
    BY <1>1, <1>2, <1>4, <1>5
    DEF PlanKept, Path, PathStage, Linking, Writing, AfterCommit, Inside, InFlight
  <2>3. PathEnd(x)'
    BY <1>1, <1>4, <1>5 DEF PlanKept, Path, PathEnd, BeforeLock, Linking, AfterCommit
  <2> QED BY <2>1, <2>2, <2>3 DEF Path
<1>7. ASSUME Sound(x) PROVE Sound(x)'
  <2>1. AtName(x, n)
    BY <1>4, <1>5 DEF AtName
  <2>2. dest[n] = NoEntry /\ found[x][n] = NoEntry /\ bak[x][n] = NoEntry
    BY <1>1, <1>2, <1>3, <1>7 DEF Sound, NameSound, PlanSound, Applies, Path, PathPlan
  <2>3. NameSound(x, n)'
    BY <1>2, <1>4, <1>5, <2>2 DEF NameSound, Emptied, PlanKept
  <2> QED BY <1>1, <1>4, <1>7, <2>1, <2>3, NameStepSound DEF Linking
<1> QED BY <1>6, <1>7

LEMMA StageOldStep ==
  ASSUME SkillsInv, PathInv, NEW x \in Txns, StageOld(x)
  PROVE  Path(x)' /\ (Sound(x) => Sound(x)')
<1>1. /\ ProgressOK /\ WorkOK /\ KeptOK /\ Path(x) /\ pc[x] = "stage" /\ ~committed[x]
  BY TypeParts DEF SkillsInv, PathInv, Path, StageOld, PathEnd, AfterCommit
<1>2. PICK n \in Names :
        /\ IsFirst(x, n) /\ plan[x][n] # "create" /\ cur' = [cur EXCEPT ![x] = n]
        /\ \/ /\ StillPlanned(x, n) /\ bak' = [bak EXCEPT ![x][n] = dest[n]]
              /\ Goto(x, "move")
           \/ bak' = bak /\ Goto(x, "abort")
  BY DEF StageOld
<1>3. stage[x][n] = "none" /\ plan[x][n] \in {"replace", "remove"}
  BY <1>2 DEF IsFirst, Todo
<1>4. /\ \/ bak'[x][n] = dest[n] /\ pc'[x] = "move"
         \/ bak'[x][n] = bak[x][n] /\ pc'[x] = "abort"
      /\ \A k \in Names : k # n => bak'[x][k] = bak[x][k]
      /\ cur'[x] = n
  BY <1>1, <1>2 DEF Goto, ProgressOK, WorkOK, KeptOK
<1>5. /\ PlanKept(x) /\ dest' = dest /\ state' = state /\ sbak' = sbak /\ stage' = stage
      /\ failed' = failed /\ out' = out /\ committed' = committed
  BY DEF StageOld, PlanKept, disk
<1>6. Path(x)'
  <2>1. PathPlan(x)'
    BY <1>1, <1>4, <1>5
    DEF PlanKept, Path, PathPlan, PathEnd, BeforeLock, Applies, PlanUninstall, Recorded
  <2>2. PathStage(x)'
    BY <1>1, <1>3, <1>4, <1>5
    DEF PlanKept, Path, PathStage, Linking, Writing, AfterCommit, Inside, InFlight
  <2>3. PathEnd(x)'
    BY <1>1, <1>4, <1>5 DEF PlanKept, Path, PathEnd, BeforeLock, Linking, AfterCommit
  <2> QED BY <2>1, <2>2, <2>3 DEF Path
<1>7. ASSUME Sound(x) PROVE Sound(x)'
  <2>1. AtName(x, n)
    BY <1>4, <1>5 DEF AtName
  <2>2. NameSound(x, n)'
    BY <1>3, <1>4, <1>5, <1>7 DEF Sound, NameSound, PlanKept
  <2> QED BY <1>1, <1>4, <1>7, <2>1, <2>2, NameStepSound DEF Linking
<1> QED BY <1>6, <1>7

LEMMA QuarantineStep ==
  ASSUME SkillsInv, PathInv, NEW x \in Txns, Quarantine(x)
  PROVE  Path(x)' /\ (Sound(x) => Sound(x)')
<1>0. ProgressOK /\ WorkOK /\ KeptOK /\ DiskOK /\ Path(x) /\ pc[x] = "move" /\ ~committed[x]
  BY TypeParts DEF SkillsInv, PathInv, Path, Quarantine, PathEnd, AfterCommit
<1> PICK n \in Names : n = cur[x]
  BY <1>0 DEF WorkOK
<1>1. /\ ProgressOK /\ WorkOK /\ KeptOK /\ DiskOK /\ Path(x) /\ pc[x] = "move" /\ ~committed[x]
      /\ stage[x][n] = "none" /\ bak[x][n] # NoEntry
      /\ plan[x][n] \in {"replace", "remove"}
  BY <1>0 DEF SkillsInv, JournalOK, OldLink, Path, PathStage
<1>2. \/ /\ dest[n] = bak[x][n] /\ dest'[n] = NoEntry /\ stage'[x][n] = "quarantined"
         /\ pc'[x] = (IF plan[x][n] = "replace" THEN "install" ELSE "stage")
         /\ bak'[x][n] = bak[x][n]
      \/ /\ dest'[n] = (IF dest[n] = NoEntry THEN bak[x][n] ELSE dest[n])
         /\ bak'[x][n] = NoEntry /\ stage'[x][n] = stage[x][n] /\ pc'[x] = "abort"
  BY <1>1 DEF Quarantine, Goto, ProgressOK, WorkOK, KeptOK, DiskOK
<1>3. \A k \in Names : k # n => /\ dest'[k] = dest[k] /\ bak'[x][k] = bak[x][k]
                                /\ stage'[x][k] = stage[x][k]
  BY <1>1 DEF Quarantine, WorkOK, KeptOK, DiskOK
<1>4. /\ PlanKept(x) /\ state' = state /\ sbak' = sbak /\ cur' = cur
      /\ failed' = failed /\ out' = out /\ committed' = committed
  BY DEF Quarantine, PlanKept
<1>5. Path(x)'
  <2>1. PathPlan(x)'
    BY <1>1, <1>2, <1>4
    DEF PlanKept, Path, PathPlan, PathEnd, BeforeLock, Applies, PlanUninstall, Recorded
  <2>2. PathStage(x)'
    BY <1>1, <1>2, <1>3, <1>4
    DEF PlanKept, Path, PathStage, Linking, Writing, AfterCommit, Inside, InFlight
  <2>3. PathEnd(x)'
    BY <1>1, <1>2, <1>4 DEF PlanKept, Path, PathEnd, BeforeLock, Linking, AfterCommit
  <2> QED BY <2>1, <2>2, <2>3 DEF Path
<1>6. ASSUME Sound(x) PROVE Sound(x)'
  <2>1. AtName(x, n)
    BY <1>3, <1>4 DEF AtName
  <2>2. dest[n] = found[x][n] /\ bak[x][n] = found[x][n]
    BY <1>1, <1>6 DEF Sound, NameSound
  <2>3. NameSound(x, n)'
    BY <1>1, <1>2, <1>4, <2>2 DEF NameSound, Emptied, PlanKept
  <2>4. pc'[x] \in {"stage", "abort", "install"}
    BY <1>2
  <2> QED BY <1>1, <1>6, <2>1, <2>3, <2>4, NameStepSound DEF Linking
<1> QED BY <1>5, <1>6

(* The name a run is linking.                                                 *)
LEMMA LinkingName ==
  ASSUME NEW x \in Txns, SkillsInv, Path(x), pc[x] \in Linking, NEW n \in Names, n = cur[x]
  PROVE  /\ ~committed[x]
         /\ \/ plan[x][n] = "create" /\ stage[x][n] = "planned"
            \/ plan[x][n] = "replace" /\ stage[x][n] = "quarantined"
         /\ Sound(x) => Emptied(x, n)
<1>1. plan[x][n] \in {"create", "replace"} /\ InFlight(x, n)
                /\ (stage[x][n] = "planned" => plan[x][n] = "create")
  BY DEF SkillsInv, JournalOK, Path, PathStage, Linking
<1>2. ~committed[x]
  BY DEF Path, PathEnd, Linking, AfterCommit
<1>3. Sound(x) => Emptied(x, n)
  BY <1>1 DEF Sound, NameSound, InFlight
<1> QED BY <1>1, <1>2, <1>3 DEF InFlight

(* The new link, and its verification.                                       *)
LEMMA InstallLinkStep ==
  ASSUME SkillsInv, PathInv, NEW x \in Txns, InstallLink(x)
  PROVE  Path(x)' /\ (Sound(x) => Sound(x)')
<1>0. ProgressOK /\ WorkOK /\ DiskOK /\ Path(x) /\ pc[x] = "link"
  BY TypeParts DEF SkillsInv, PathInv, Path, InstallLink
<1> PICK n \in Names : n = cur[x]
  BY <1>0 DEF WorkOK
<1>1. /\ ~committed[x] /\ (Sound(x) => Emptied(x, n))
      /\ \/ plan[x][n] = "create" /\ stage[x][n] = "planned"
         \/ plan[x][n] = "replace" /\ stage[x][n] = "quarantined"
  BY <1>0, LinkingName DEF Linking
<1>2. \/ dest[n] = NoEntry /\ dest'[n] = NewLink(x, n) /\ pc'[x] = "verify"
      \/ dest'[n] = dest[n] /\ pc'[x] = "abort"
  BY <1>0 DEF InstallLink, Goto, ProgressOK, DiskOK, NewLink
<1>3. \A k \in Names : k # n => dest'[k] = dest[k]
  BY <1>0 DEF InstallLink, DiskOK
<1>4. /\ PlanKept(x) /\ state' = state /\ sbak' = sbak /\ cur' = cur /\ stage' = stage
      /\ bak' = bak /\ failed' = failed /\ out' = out /\ committed' = committed
  BY DEF InstallLink, PlanKept, local
<1>5. Path(x)'
  <2>1. PathPlan(x)'
    BY <1>0, <1>2, <1>4
    DEF PlanKept, Path, PathPlan, PathEnd, BeforeLock, Applies, PlanUninstall, Recorded
  <2>2. PathStage(x)'
    BY <1>0, <1>1, <1>2, <1>4
    DEF PlanKept, Path, PathStage, Linking, Writing, AfterCommit, Inside, InFlight
  <2>3. PathEnd(x)'
    BY <1>0, <1>1, <1>2, <1>4 DEF PlanKept, Path, PathEnd, BeforeLock, Linking, AfterCommit
  <2> QED BY <2>1, <2>2, <2>3 DEF Path
<1>6. ASSUME Sound(x) PROVE Sound(x)'
  <2>1. AtName(x, n)
    BY <1>3, <1>4 DEF AtName
  <2>2. Emptied(x, n)'
    BY <1>0, <1>1, <1>2, <1>4, <1>6, PlanFrame DEF Emptied, PlanKept
  <2>3. NameSound(x, n)'
    BY <1>1, <1>4, <1>6, <2>2 DEF Sound, NameSound, PlanKept
  <2> QED BY <1>0, <1>2, <1>6, <2>1, <2>3, NameStepSound DEF Linking
<1> QED BY <1>5, <1>6

LEMMA InstallVerifyStep ==
  ASSUME SkillsInv, PathInv, NEW x \in Txns, InstallVerify(x)
  PROVE  Path(x)' /\ (Sound(x) => Sound(x)')
<1>0. ProgressOK /\ WorkOK /\ DiskOK /\ Path(x) /\ pc[x] = "verify"
  BY TypeParts DEF SkillsInv, PathInv, Path, InstallVerify
<1> PICK n \in Names : n = cur[x]
  BY <1>0 DEF WorkOK
<1>1. /\ ~committed[x] /\ (Sound(x) => Emptied(x, n))
      /\ \/ plan[x][n] = "create" /\ stage[x][n] = "planned"
         \/ plan[x][n] = "replace" /\ stage[x][n] = "quarantined"
  BY <1>0, LinkingName DEF Linking
<1>2. \/ dest[n] # NoEntry /\ dest'[n] = dest[n] /\ stage'[x][n] = "installed" /\ pc'[x] = "stage"
      \/ ~Mine(x, n) /\ dest'[n] = dest[n] /\ stage'[x][n] = stage[x][n] /\ pc'[x] = "abort"
      \/ dest'[n] = NoEntry /\ stage'[x][n] = stage[x][n] /\ pc'[x] = "abort"
  BY <1>0 DEF InstallVerify, Goto, ProgressOK, DiskOK, WorkOK, Mine
<1>3. \A k \in Names : k # n => dest'[k] = dest[k] /\ stage'[x][k] = stage[x][k]
  BY <1>0 DEF InstallVerify, DiskOK, WorkOK
<1>4. /\ PlanKept(x) /\ state' = state /\ sbak' = sbak /\ cur' = cur
      /\ bak' = bak /\ failed' = failed /\ out' = out /\ committed' = committed
  BY DEF InstallVerify, PlanKept
<1>5. Path(x)'
  <2>1. PathPlan(x)'
    BY <1>0, <1>2, <1>4
    DEF PlanKept, Path, PathPlan, PathEnd, BeforeLock, Applies, PlanUninstall, Recorded
  <2>2. PathStage(x)'
    BY <1>0, <1>1, <1>2, <1>3, <1>4
    DEF PlanKept, Path, PathStage, Linking, Writing, AfterCommit, Inside, InFlight
  <2>3. PathEnd(x)'
    BY <1>0, <1>1, <1>2, <1>4 DEF PlanKept, Path, PathEnd, BeforeLock, Linking, AfterCommit
  <2> QED BY <2>1, <2>2, <2>3 DEF Path
<1>6. ASSUME Sound(x) PROVE Sound(x)'
  <2>1. AtName(x, n)
    BY <1>3, <1>4 DEF AtName
  <2>2. dest[n] = NoEntry \/ (dest[n] = NewLink(x, n) /\ Mine(x, n))
    BY <1>1, <1>6 DEF Emptied, Mine, NewLink
  <2>3. NameSound(x, n)'
    <3>1. CASE stage'[x][n] = "installed"
      <4>1. dest'[n] = NewLink(x, n)' /\ bak[x][n] = found[x][n]
        BY <1>1, <1>2, <1>4, <1>6, <2>2, <3>1, PlanFrame DEF Sound, NameSound
      <4>2. \/ plan[x][n] = "create" /\ found[x][n] = NoEntry
            \/ plan[x][n] = "replace" /\ found[x][n] # NoEntry
        BY <1>1, <1>6 DEF Sound, NameSound
      <4> QED BY <1>4, <3>1, <4>1, <4>2 DEF NameSound, PlanKept
    <3>2. CASE stage'[x][n] # "installed"
      <4>1. dest'[n] = NoEntry /\ stage'[x][n] = stage[x][n]
        BY <1>2, <2>2, <3>2
      <4> QED BY <1>1, <1>4, <1>6, <4>1 DEF Sound, NameSound, Emptied, PlanKept
    <3> QED BY <3>1, <3>2
  <2> QED BY <1>0, <1>2, <1>6, <2>1, <2>3, NameStepSound DEF Linking
<1> QED BY <1>5, <1>6

(* Clean-up and rollback, one name at a time.                                *)
LEMMA CleanChangeStep ==
  ASSUME SkillsInv, PathInv, NEW x \in Txns, CleanChange(x)
  PROVE  Path(x)' /\ (Sound(x) => Sound(x)')
<1>0. ProgressOK /\ WorkOK /\ DiskOK /\ KeptOK /\ Path(x) /\ pc[x] = "cleanup"
  BY TypeParts DEF SkillsInv, PathInv, Path, CleanChange
<1>1. committed[x]
  BY <1>0 DEF Path, PathEnd, AfterCommit
<1>2. PICK n \in Names :
        /\ bak[x][n] # NoEntry /\ stage[x][n] # "cleaned"
        /\ stage' = [stage EXCEPT ![x][n] = "cleaned"]
        /\ bak' = [bak EXCEPT ![x][n] = NoEntry] \/ bak' = bak
  BY DEF CleanChange
<1>3. /\ stage'[x][n] = "cleaned"
      /\ \A k \in Names : k # n => stage'[x][k] = stage[x][k] /\ bak'[x][k] = bak[x][k]
  BY <1>0, <1>2 DEF WorkOK, KeptOK
<1>4. /\ PlanKept(x) /\ dest' = dest /\ state' = state /\ sbak' = sbak /\ cur' = cur /\ pc' = pc
      /\ failed' = failed /\ out' = out /\ committed' = committed
  BY DEF CleanChange, PlanKept, disk
<1>5. \/ stage[x][n] = "installed"
      \/ stage[x][n] = "quarantined" /\ plan[x][n] # "replace"
  <2>1. stage[x][n] \notin {"none", "undone", "cleaned", "planned"} /\ ~InFlight(x, n)
    BY <1>0, <1>1, <1>2 DEF Path, PathStage, InFlight
  <2> QED BY <1>0, <2>1 DEF WorkOK, Stages, InFlight
<1>6. Path(x)'
  <2>1. PathPlan(x)'
    BY <1>0, <1>1, <1>4
    DEF PlanKept, Path, PathPlan, PathEnd, BeforeLock, Applies, PlanUninstall, Recorded
  <2>2. PathStage(x)'
    BY <1>0, <1>1, <1>3, <1>4, <1>5
    DEF PlanKept, Path, PathStage, Linking, Writing, AfterCommit, Inside, InFlight, Todo
  <2>3. PathEnd(x)'
    BY <1>0, <1>1, <1>3, <1>4, <1>5 DEF PlanKept, Path, PathEnd, BeforeLock, Linking, AfterCommit, Undo
  <2> QED BY <2>1, <2>2, <2>3 DEF Path
<1>7. ASSUME Sound(x) PROVE Sound(x)'
  <2>1. AtName(x, n)
    BY <1>3, <1>4 DEF AtName
  <2>2. \/ plan[x][n] = "replace" /\ dest[n] = NewLink(x, n)
        \/ plan[x][n] = "remove" /\ dest[n] = NoEntry
    BY <1>0, <1>2, <1>5, <1>7 DEF Sound, NameSound, Emptied
  <2>3. NewLink(x, n)' = NewLink(x, n)
    BY <1>4, PlanFrame
  <2>4. NameSound(x, n)'
    BY <1>3, <1>4, <2>2, <2>3 DEF NameSound, PlanKept
  <2> QED BY <1>0, <1>4, <1>7, <2>1, <2>4, NameStepSound
<1> QED BY <1>6, <1>7

LEMMA SkipPlannedStep ==
  ASSUME SkillsInv, PathInv, NEW x \in Txns, SkipPlanned(x)
  PROVE  Path(x)' /\ (Sound(x) => Sound(x)')
<1>0. ProgressOK /\ WorkOK /\ DiskOK /\ KeptOK /\ Path(x) /\ pc[x] = "rollback"
  BY TypeParts DEF SkillsInv, PathInv, Path, SkipPlanned
<1>1. ~committed[x]
  BY <1>0 DEF Path, PathEnd, AfterCommit
<1>2. PICK n \in Names :
        stage[x][n] = "planned" /\ stage' = [stage EXCEPT ![x][n] = "undone"]
  BY DEF SkipPlanned, Undone
<1>3. /\ stage'[x][n] = "undone" /\ \A k \in Names : k # n => stage'[x][k] = stage[x][k]
  BY <1>0, <1>2 DEF WorkOK
<1>4. /\ PlanKept(x) /\ dest' = dest /\ state' = state /\ sbak' = sbak /\ bak' = bak
      /\ cur' = cur /\ pc' = pc
      /\ failed' = failed /\ out' = out /\ committed' = committed
  BY DEF SkipPlanned, PlanKept, disk
<1>5. stage[x][n] # "none" /\ stage[x][n] # "undone"
  BY <1>2
<1>6. Path(x)'
  <2>1. PathPlan(x)'
    BY <1>0, <1>1, <1>4
    DEF PlanKept, Path, PathPlan, PathEnd, BeforeLock, Applies, PlanUninstall, Recorded
  <2>2. PathStage(x)'
    BY <1>0, <1>1, <1>3, <1>4, <1>5
    DEF PlanKept, Path, PathStage, Linking, Writing, AfterCommit, Inside, InFlight, Todo
  <2>3. PathEnd(x)'
    BY <1>0, <1>1, <1>3, <1>4, <1>5 DEF PlanKept, Path, PathEnd, BeforeLock, Linking, AfterCommit, Undo
  <2> QED BY <2>1, <2>2, <2>3 DEF Path
<1>7. ASSUME Sound(x) PROVE Sound(x)'
  <2>1. AtName(x, n)
    BY <1>3, <1>4 DEF AtName
  <2>2. dest[n] = found[x][n]
    BY <1>0, <1>2, <1>7 DEF Sound, NameSound, Emptied
  <2>3. NameSound(x, n)'
    BY <1>3, <1>4, <2>2 DEF NameSound, PlanKept
  <2> QED BY <1>0, <1>4, <1>7, <2>1, <2>3, NameStepSound
<1> QED BY <1>6, <1>7

LEMMA RemoveNewStep ==
  ASSUME SkillsInv, PathInv, NEW x \in Txns, RemoveNew(x)
  PROVE  Path(x)' /\ (Sound(x) => Sound(x)')
<1>0. ProgressOK /\ WorkOK /\ DiskOK /\ KeptOK /\ Path(x) /\ pc[x] = "rollback"
  BY TypeParts DEF SkillsInv, PathInv, Path, RemoveNew
<1>1. ~committed[x]
  BY <1>0 DEF Path, PathEnd, AfterCommit
<1>2. PICK n \in Names :
        /\ stage[x][n] = "installed"
        /\ \/ /\ dest[n] = NoEntry
              /\ Undone(x, n, IF plan[x][n] = "replace" THEN "quarantined" ELSE "undone")
              /\ UNCHANGED <<pc, cur, failed>>
           \/ Undone(x, n, "undone") /\ Fails(x) /\ UNCHANGED <<pc, cur>>
           \/ /\ Goto(x, "unlink") /\ cur' = [cur EXCEPT ![x] = n]
              /\ UNCHANGED <<stage, failed>>
  BY DEF RemoveNew
<1>3. /\ \A k \in Names : k # n => stage'[x][k] = stage[x][k]
      /\ failed[x] => failed'[x]
      /\ \/ /\ dest[n] = NoEntry
            /\ stage'[x][n] = (IF plan[x][n] = "replace" THEN "quarantined" ELSE "undone")
         \/ stage'[x][n] = "undone" /\ failed'[x]
         \/ stage'[x][n] = "installed"
  BY <1>0, <1>2 DEF WorkOK, ProgressOK, Undone, Fails
<1>4. /\ PlanKept(x) /\ dest' = dest /\ state' = state /\ sbak' = sbak /\ bak' = bak
      /\ out' = out /\ committed' = committed
  BY DEF RemoveNew, PlanKept, disk
<1>5. pc'[x] \in {"rollback", "unlink"}
  BY <1>0, <1>2 DEF Goto, ProgressOK
<1>6. Path(x)'
  <2>1. PathPlan(x)'
    BY <1>0, <1>1, <1>4, <1>5
    DEF PlanKept, Path, PathPlan, PathEnd, BeforeLock, Applies, PlanUninstall, Recorded
  <2>2. PathStage(x)'
    BY <1>0, <1>1, <1>2, <1>3, <1>4, <1>5
    DEF PlanKept, Path, PathStage, Linking, Writing, AfterCommit, Inside, InFlight, Todo
  <2>3. PathEnd(x)'
    BY <1>0, <1>1, <1>4, <1>5 DEF PlanKept, Path, PathEnd, BeforeLock, Linking, AfterCommit, Undo
  <2> QED BY <2>1, <2>2, <2>3 DEF Path
<1>7. ASSUME Sound(x) PROVE Sound(x)'
  <2>1. AtName(x, n)
    BY <1>3, <1>4 DEF AtName
  <2>2. /\ dest[n] = NewLink(x, n) /\ bak[x][n] = found[x][n]
        /\ \/ plan[x][n] = "create" /\ found[x][n] = NoEntry
           \/ plan[x][n] = "replace" /\ found[x][n] # NoEntry
    BY <1>2, <1>7 DEF Sound, NameSound
  <2>3. NewLink(x, n)' = NewLink(x, n)
    BY <1>4, PlanFrame
  <2>4. NameSound(x, n)'
    BY <1>3, <1>4, <2>2, <2>3 DEF NameSound, Emptied, PlanKept
  <2> QED BY <1>0, <1>5, <1>7, <2>1, <2>4, NameStepSound
<1> QED BY <1>6, <1>7

LEMMA UnlinkNewStep ==
  ASSUME SkillsInv, PathInv, NEW x \in Txns, UnlinkNew(x)
  PROVE  Path(x)' /\ (Sound(x) => Sound(x)')
<1>0. ProgressOK /\ WorkOK /\ DiskOK /\ KeptOK /\ Path(x) /\ pc[x] = "unlink"
  BY TypeParts DEF SkillsInv, PathInv, Path, UnlinkNew
<1>1. ~committed[x] /\ stage[x][cur[x]] = "installed"
  BY <1>0 DEF SkillsInv, JournalOK, Path, PathEnd, AfterCommit
<1>2. PICK n \in Names : n = cur[x] /\ stage[x][n] = "installed"
  BY <1>0, <1>1 DEF WorkOK
<1>3. /\ \A k \in Names : k # n => stage'[x][k] = stage[x][k] /\ dest'[k] = dest[k]
      /\ failed[x] => failed'[x]
      /\ \/ /\ dest'[n] = NoEntry /\ pc'[x] = "rollback" /\ out' = out
            /\ stage'[x][n] = (IF plan[x][n] = "replace" THEN "quarantined" ELSE "undone")
         \/ stage'[x][n] = "undone" /\ failed'[x] /\ pc'[x] = "rollback" /\ out' = out
         \/ /\ stage'[x][n] = "installed" /\ dest'[n] = dest[n]
            /\ pc'[x] = "done" /\ out'[x] = "escaped"
  BY <1>0, <1>2 DEF UnlinkNew, WorkOK, ProgressOK, DiskOK, Undone, Fails, Goto
<1>4. /\ PlanKept(x) /\ state' = state /\ sbak' = sbak /\ bak' = bak /\ cur' = cur
      /\ committed' = committed
  BY DEF UnlinkNew, PlanKept
<1>5. pc'[x] \in {"rollback", "done"}
  BY <1>3
<1>6. Path(x)'
  <2>1. PathPlan(x)'
    BY <1>0, <1>1, <1>3, <1>4
    DEF PlanKept, Path, PathPlan, PathEnd, BeforeLock, Applies, PlanUninstall, Recorded
  <2>2. PathStage(x)'
    BY <1>0, <1>1, <1>2, <1>3, <1>4, <1>5
    DEF PlanKept, Path, PathStage, Linking, Writing, AfterCommit, Inside, InFlight, Todo
  <2>3. PathEnd(x)'
    BY <1>0, <1>1, <1>3, <1>4 DEF PlanKept, Path, PathEnd, BeforeLock, Linking, AfterCommit, Undo
  <2> QED BY <2>1, <2>2, <2>3 DEF Path
<1>7. ASSUME Sound(x) PROVE Sound(x)'
  <2>1. AtName(x, n)
    BY <1>3, <1>4 DEF AtName
  <2>2. /\ dest[n] = NewLink(x, n) /\ bak[x][n] = found[x][n]
        /\ \/ plan[x][n] = "create" /\ found[x][n] = NoEntry
           \/ plan[x][n] = "replace" /\ found[x][n] # NoEntry
    BY <1>2, <1>7 DEF Sound, NameSound
  <2>3. NewLink(x, n)' = NewLink(x, n)
    BY <1>4, PlanFrame
  <2>4. NameSound(x, n)'
    BY <1>3, <1>4, <2>2, <2>3 DEF NameSound, Emptied, PlanKept
  <2> QED BY <1>0, <1>5, <1>7, <2>1, <2>4, NameStepSound
<1> QED BY <1>6, <1>7

LEMMA RestoreStep ==
  ASSUME SkillsInv, PathInv, NEW x \in Txns, Restore(x)
  PROVE  Path(x)' /\ (Sound(x) => Sound(x)')
<1>0. ProgressOK /\ WorkOK /\ DiskOK /\ KeptOK /\ Path(x) /\ pc[x] = "rollback"
  BY TypeParts DEF SkillsInv, PathInv, Path, Restore
<1>1. ~committed[x]
  BY <1>0 DEF Path, PathEnd, AfterCommit
<1>2. PICK n \in Names :
        /\ stage[x][n] = "quarantined" /\ Undone(x, n, "undone")
        /\ \/ /\ dest' = [dest EXCEPT ![n] = bak[x][n]]
              /\ bak' = [bak EXCEPT ![x][n] = NoEntry] /\ failed' = failed
           \/ Fails(x) /\ UNCHANGED <<dest, bak>>
  BY DEF Restore
<1>3. /\ \A k \in Names : k # n => /\ stage'[x][k] = stage[x][k] /\ dest'[k] = dest[k]
                                   /\ bak'[x][k] = bak[x][k]
      /\ failed[x] => failed'[x]
      /\ stage'[x][n] = "undone"
      /\ \/ dest'[n] = bak[x][n]
         \/ failed'[x] /\ bak'[x][n] = bak[x][n]
  BY <1>0, <1>2 DEF WorkOK, ProgressOK, DiskOK, KeptOK, Undone, Fails
<1>4. /\ PlanKept(x) /\ state' = state /\ sbak' = sbak /\ pc' = pc /\ cur' = cur
      /\ out' = out /\ committed' = committed
  BY DEF Restore, PlanKept
<1>5. stage[x][n] # "none"
  BY <1>2
<1>6. Path(x)'
  <2>1. PathPlan(x)'
    BY <1>0, <1>1, <1>4
    DEF PlanKept, Path, PathPlan, PathEnd, BeforeLock, Applies, PlanUninstall, Recorded
  <2>2. PathStage(x)'
    BY <1>0, <1>1, <1>2, <1>3, <1>4, <1>5
    DEF PlanKept, Path, PathStage, Linking, Writing, AfterCommit, Inside, InFlight, Todo
  <2>3. PathEnd(x)'
    BY <1>0, <1>1, <1>4 DEF PlanKept, Path, PathEnd, BeforeLock, Linking, AfterCommit, Undo
  <2> QED BY <2>1, <2>2, <2>3 DEF Path
<1>7. ASSUME Sound(x) PROVE Sound(x)'
  <2>1. AtName(x, n)
    BY <1>3, <1>4 DEF AtName
  <2>2. bak[x][n] = found[x][n]
    BY <1>2, <1>7 DEF Sound, NameSound
  <2>3. NameSound(x, n)'
    BY <1>3, <1>4, <2>2 DEF NameSound, PlanKept
  <2> QED BY <1>0, <1>4, <1>7, <2>1, <2>3, NameStepSound
<1> QED BY <1>6, <1>7

(* The first plan starts the path; a lone run is sound from here on.         *)
LEMMA PreflightStep ==
  ASSUME SkillsInv, PathInv, NEW x \in Txns, Preflight(x)
  PROVE  /\ Path(x)'
         /\ Untouched(x) => IF out'[x] = "refused" THEN Untouched(x)' ELSE Sound(x)'
<1>1. /\ ProgressOK /\ KeptOK /\ DiskOK /\ WorkOK /\ Path(x)
      /\ pc[x] = "start" /\ (\A n \in Names : stage[x][n] = "none")
  BY TypeParts DEF SkillsInv, PathInv, Path, Preflight, JournalOK
<1>2. /\ bak[x] = NoEntries /\ sbak[x] = NoState /\ ~committed[x] /\ out[x] = "running"
      /\ loaded[x] = NoState /\ \A n \in Names : plan[x][n] # "refuse"
  BY <1>1 DEF Path, PathPlan
<1>3. \/ /\ out'[x] = "refused" /\ pc'[x] = "done" /\ plan'[x] = plan[x] /\ loaded'[x] = loaded[x]
      \/ /\ out'[x] = out[x] /\ pc'[x] = (IF Applies(x) THEN "create" ELSE "lock")
         /\ plan'[x] = (IF Applies(x) THEN PlanApply(state, req[x].inv) ELSE PlanUninstall(state))
         /\ ~Refused(plan'[x]) /\ (Applies(x) \/ state # NoState) /\ loaded'[x] = state
  BY <1>1 DEF Preflight, Goto, ProgressOK, KeptOK, WorkOK
<1>4. /\ dest' = dest /\ state' = state /\ req' = req /\ stage' = stage /\ cur' = cur /\ bak' = bak
      /\ sbak' = sbak /\ committed' = committed /\ failed' = failed /\ found' = found
  BY DEF Preflight, disk
<1>5. Path(x)'
  <2>1. PathPlan(x)'
    <3>1. CASE out'[x] = "refused"
      BY <1>1, <1>2, <1>3, <1>4, <3>1 DEF PathPlan, BeforeLock, NeverStaged
    <3>2. CASE out'[x] # "refused"
      BY <1>1, <1>2, <1>3, <1>4, <3>2
      DEF PathPlan, BeforeLock, Refused, Applies, PlanUninstall, Recorded
    <3> QED BY <3>1, <3>2
  <2>2. pc'[x] \in {"done", "create", "lock"}
    BY <1>3
  <2>3. PathStage(x)'
    BY <1>1, <1>2, <1>4, <2>2
    DEF PathStage, Inside, Linking, Writing, AfterCommit, NoEntries
  <2>4. PathEnd(x)'
    BY <1>1, <1>2, <1>3, <1>4 DEF PathEnd, AfterCommit
  <2> QED BY <2>1, <2>3, <2>4 DEF Path
<1>6. ASSUME Untouched(x), out'[x] = "refused" PROVE Untouched(x)'
  BY <1>4, <1>6 DEF Untouched, AgreeOf, Recorded
<1>7. ASSUME Untouched(x), out'[x] # "refused" PROVE Sound(x)'
  <2>1. loaded'[x] = state /\ found'[x] = dest
    BY <1>3, <1>4, <1>7 DEF Untouched
  <2>2. PlanSound(x)'
    <3>1. CASE Applies(x)
      <4>1. \A n \in Names : plan'[x][n] = Kind(n, state, req[x].inv) /\ plan'[x][n] # "refuse"
        BY <1>3, <1>7, <3>1 DEF PlanApply, Refused
      <4>2. req[x].inv \in [Names -> Targets \cup {NoTarget}]
        BY RequestType DEF SkillsInv
      <4> QED BY <1>4, <2>1, <3>1, <4>1, <4>2, PlanFits DEF SkillsInv, PlanSound, Applies
    <3>2. CASE ~Applies(x)
      <4>1. plan'[x] = PlanUninstall(state)
        BY <1>3, <1>7, <3>2
      <4> QED BY <1>4, <2>1, <3>2, <4>1 DEF PlanSound, Applies, PlanUninstall
    <3> QED BY <3>1, <3>2
  <2>3. AgreeOf(found[x], loaded[x])'
    BY <1>7, <2>1 DEF Untouched, AgreeOf, Recorded
  <2>4. StateSound(x)'
    BY <1>2, <1>3, <1>4, <1>7, <2>1 DEF StateSound, BeforeLock, Ending
  <2>5. \A n \in Names : NameSound(x, n)'
    BY <1>1, <1>2, <1>4, <2>1 DEF NameSound, NoEntries
  <2> QED BY <2>2, <2>3, <2>4, <2>5 DEF Sound
<1> QED BY <1>5, <1>6, <1>7

(* Every step of a run but its first keeps it on its path and sound.          *)
LEMMA RunStep ==
  ASSUME SkillsInv, PathInv, NEW x \in Txns, Step(x) \/ Crash(x)
  PROVE  /\ Path(x)'
         /\ ~Preflight(x) /\ Sound(x) => Sound(x)'
<1>1. CASE Preflight(x)
  BY <1>1, PreflightStep
<1>2. CASE ~Preflight(x)
  BY <1>2, CreateDestinationStep, DestinationLockStep, LockedPlanStep, StageCreateStep,
     StageOldStep, QuarantineStep, InstallTemporaryStep, InstallLinkStep, InstallVerifyStep,
     BeginCommitStep, StateStepStep, CleanStateStep, CleanChangeStep, CleanedUpStep, UnlockStep,
     LeaveLockStep, SkipPlannedStep, RemoveNewStep, UnlinkNewStep, RestoreStep, RolledBackStep,
     RemoveContainersStep, CrashStep
  DEF Step, StateStep
<1> QED BY <1>1, <1>2

(* The path of every run is an invariant by itself.                          *)
LEMMA PathInitially == Init => PathInv
<1> SUFFICES ASSUME Init, NEW x \in Txns PROVE PathPlan(x) /\ PathStage(x) /\ PathEnd(x)
  BY DEF PathInv
<1> QED BY DEF Init, PathPlan, PathStage, PathEnd, BeforeLock, Inside, Linking, Writing, AfterCommit,
               NeverStaged, NoEntries

(* A change by the user, and no change at all.                                *)
LEMMA UserStep ==
  ASSUME NEW n \in Names, UserRemoves(n) \/ \E t \in Targets : UserPuts(n, t)
  PROVE  /\ users' = users + 1 /\ \A x \in Txns : RunKept(x)
BY DEF UserRemoves, UserPuts, RunKept, PlanKept, local

LEMMA IdleStep ==
  ASSUME UNCHANGED vars
  PROVE  /\ users' = users /\ dest' = dest /\ state' = state /\ \A x \in Txns : RunKept(x)
BY DEF vars, disk, local, budget, RunKept, PlanKept

LEMMA PathNext == SkillsInv /\ PathInv /\ [Next]_vars => PathInv'
<1> SUFFICES ASSUME SkillsInv, PathInv, [Next]_vars, NEW y \in Txns PROVE Path(y)'
  BY DEF PathInv, Path
<1>0. Path(y)
  BY DEF PathInv, Path
<1>1. ASSUME NEW x \in Txns, Step(x) \/ Crash(x) PROVE Path(y)'
  <2>1. CASE y = x
    BY <1>1, <2>1, RunStep
  <2>2. CASE y # x
    BY <1>0, <1>1, <2>2, OtherRuns, PathFrame DEF SkillsInv
  <2> QED BY <2>1, <2>2
<1>2. CASE \E n \in Names : UserRemoves(n) \/ \E t \in Targets : UserPuts(n, t)
  BY <1>0, <1>2, UserStep, PathFrame
<1>3. CASE UNCHANGED vars
  BY <1>0, <1>3, IdleStep, PathFrame
<1> QED BY <1>1, <1>2, <1>3 DEF Next

(* A step of a run, and what it needs of the places of the run.               *)
LEMMA StepPlaces ==
  ASSUME SkillsTypeOK, NEW x \in Txns, Step(x) \/ Crash(x)
  PROVE  /\ pc'[x] # "start" /\ pc[x] \notin {"done", "dead"} /\ users' = users
         /\ pc[x] = "start" => Preflight(x)
         /\ out[x] # "refused" => out'[x] # "refused" \/ Preflight(x)
         /\ pc[x] \in Inside => pc'[x] \notin BeforeLock
<1>0. ProgressOK
  BY TypeParts
<1> USE <1>0 DEF ProgressOK, Goto, Raises, Succeeds, PutStateBack, AfterStaging, budget, local,
            BeforeLock, Inside, Linking, Writing, AfterCommit
<1>2. CASE Preflight(x)
  BY <1>2 DEF Preflight
<1>3. CASE CreateDestination(x)
  BY <1>3 DEF CreateDestination
<1>4. CASE DestinationLock(x)
  BY <1>4 DEF DestinationLock
<1>5. CASE LockedPlan(x)
  BY <1>5 DEF LockedPlan
<1>6. CASE StageCreate(x)
  BY <1>6 DEF StageCreate
<1>7. CASE StageOld(x)
  BY <1>7 DEF StageOld
<1>8. CASE Quarantine(x)
  BY <1>8 DEF Quarantine
<1>9. CASE InstallTemporary(x)
  BY <1>9 DEF InstallTemporary
<1>10. CASE InstallLink(x)
  BY <1>10 DEF InstallLink
<1>11. CASE InstallVerify(x)
  BY <1>11 DEF InstallVerify
<1>12. CASE BeginCommit(x)
  BY <1>12 DEF BeginCommit
<1>13. CASE MoveState(x)
  BY <1>13 DEF MoveState
<1>14. CASE ReadState(x)
  BY <1>14 DEF ReadState
<1>15. CASE WriteState(x)
  BY <1>15 DEF WriteState
<1>16. CASE VerifyState(x)
  BY <1>16 DEF VerifyState
<1>17. CASE CleanState(x)
  BY <1>17 DEF CleanState
<1>18. CASE CleanChange(x)
  BY <1>18 DEF CleanChange
<1>19. CASE CleanedUp(x)
  BY <1>19 DEF CleanedUp
<1>20. CASE Unlock(x)
  BY <1>20 DEF Unlock
<1>21. CASE LeaveLock(x)
  BY <1>21 DEF LeaveLock
<1>22. CASE SkipPlanned(x)
  BY <1>22 DEF SkipPlanned
<1>23. CASE RemoveNew(x)
  BY <1>23 DEF RemoveNew
<1>24. CASE UnlinkNew(x)
  BY <1>24 DEF UnlinkNew
<1>25. CASE Restore(x)
  BY <1>25 DEF Restore
<1>26. CASE RolledBack(x)
  BY <1>26 DEF RolledBack
<1>27. CASE RemoveContainers(x)
  BY <1>27 DEF RemoveContainers
<1>28. CASE Crash(x)
  BY <1>28 DEF Crash
<1> QED BY <1>2, <1>3, <1>4, <1>5, <1>6, <1>7, <1>8, <1>9, <1>10, <1>11, <1>12, <1>13,
   <1>14, <1>15, <1>16, <1>17, <1>18, <1>19, <1>20, <1>21, <1>22, <1>23, <1>24, <1>25,
   <1>26, <1>27, <1>28    DEF Step

(* A run that is alone now was alone before.                                  *)
LEMMA AloneBefore ==
  ASSUME SkillsTypeOK, [Next]_vars, NEW y \in Txns, Alone(y)'
  PROVE  /\ Alone(y)
         /\ \/ Step(y) \/ Crash(y)
            \/ RunKept(y) /\ dest' = dest /\ state' = state
<1>0. users \in Nat
  BY SkillsAssumption DEF SkillsTypeOK
<1>1. ASSUME NEW x \in Txns, Step(x) \/ Crash(x) PROVE x = y /\ Alone(y)
  <2>1. users' = users /\ pc'[x] # "start"
    BY <1>1, StepPlaces
  <2>2. x = y
    BY <2>1 DEF Alone
  <2>3. \A z \in Txns \ {y} : pc'[z] = pc[z]
    BY <1>1, <2>2, OtherRuns DEF RunKept
  <2> QED BY <2>1, <2>2, <2>3 DEF Alone
<1>2. CASE \E n \in Names : UserRemoves(n) \/ \E t \in Targets : UserPuts(n, t)
  BY <1>0, <1>2, UserStep DEF Alone
<1>3. CASE UNCHANGED vars
  BY <1>3, IdleStep DEF Alone, RunKept
<1> QED BY <1>1, <1>2, <1>3 DEF Next

(* A lone run, from the initial state on.                                    *)
LEMMA AloneInitially == Init => AloneInv
<1> SUFFICES ASSUME Init, NEW x \in Txns PROVE pc[x] = "start" /\ Untouched(x)
  BY DEF AloneInv
<1>1. dest = found[x] /\ pc[x] = "start"
  BY DEF Init
<1>2. state # NoState => state.by \notin Txns
  BY SkillsAssumption DEF Init
<1>3. ASSUME NEW n \in Names, dest[n] # NoEntry, dest[n].by # User
      PROVE  dest[n].target = Recorded(state, n)
  BY <1>3 DEF Init
<1> QED BY <1>1, <1>2, <1>3 DEF Untouched, AgreeOf

LEMMA AloneNext == SkillsInv /\ PathInv /\ AloneInv /\ [Next]_vars => AloneInv'
<1> SUFFICES ASSUME SkillsInv, PathInv, AloneInv, [Next]_vars, NEW x \in Txns, Alone(x)'
             PROVE  IF pc'[x] = "start" \/ out'[x] = "refused" THEN Untouched(x)' ELSE Sound(x)'
  BY DEF AloneInv
<1>1. Alone(x) /\ (Step(x) \/ Crash(x) \/ (RunKept(x) /\ dest' = dest /\ state' = state))
  BY AloneBefore DEF SkillsInv
<1>2. IF pc[x] = "start" \/ out[x] = "refused" THEN Untouched(x) ELSE Sound(x)
  BY <1>1 DEF AloneInv
<1>3. Path(x)
  BY DEF PathInv, Path
<1>4. CASE Step(x) \/ Crash(x)
  <2>1. /\ pc'[x] # "start" /\ pc[x] \notin {"done", "dead"} /\ (pc[x] = "start" => Preflight(x))
        /\ (out[x] # "refused" => out'[x] # "refused" \/ Preflight(x))
    BY <1>4, StepPlaces DEF SkillsInv
  <2>2. out[x] # "refused"
    BY <1>3, <2>1 DEF Path, PathPlan
  <2>3. CASE Preflight(x)
    <3>1. pc[x] = "start"
      BY <2>3 DEF Preflight
    <3> QED BY <1>2, <2>1, <2>3, <3>1, PreflightStep
  <2>4. CASE ~Preflight(x)
    BY <1>2, <1>4, <2>1, <2>2, <2>4, RunStep
  <2> QED BY <2>3, <2>4
<1>5. CASE RunKept(x) /\ dest' = dest /\ state' = state
  <2>1. Untouched(x) => Untouched(x)'
    BY <1>5 DEF Untouched, RunKept, PlanKept, AgreeOf, Recorded
  <2>2. Sound(x) => Sound(x)'
    BY <1>5, SoundFrame
  <2> QED BY <1>2, <1>5, <2>1, <2>2 DEF RunKept
<1> QED BY <1>1, <1>4, <1>5

(* A committed run leaves what its state file records, and one that undid     *)
(* everything what it found.                                                  *)
LEMMA CommittedAgrees ==
  ASSUME SkillsInv, NEW x \in Txns, Path(x), Sound(x), committed[x]
  PROVE  AgreeOf(dest, state)
<1> DEFINE l == loaded[x]
           f == found[x]
           p == plan[x]
           i == req[x].inv
           s == stage[x]
<1>0. /\ WorkOK /\ KeptOK /\ pc[x] \in AfterCommit \cup {"unroot", "done", "dead"}
      /\ i \in [Names -> Targets \cup {NoTarget}]
      /\ \A n \in Names : Recorded(l, n) \in Targets \cup {NoTarget}
  BY TypeParts, RequestType, RecordedType DEF SkillsInv, KeptOK, Path, PathEnd
<1>1. \A n \in Names : /\ s[n] \notin {"planned", "undone"} /\ ~InFlight(x, n)
                       /\ s[n] = "none" => p[n] \in {"none", "keep"}
  <2>1. TAKE n \in Names
  <2>2. s[n] # "undone" /\ ~InFlight(x, n) /\ Todo(x) = {}
    BY DEF Path, PathStage
  <2>3. s[n] = "none" => p[n] \notin {"create", "replace", "remove"}
    BY <2>2 DEF Todo
  <2>4. p[n] \in Kinds \ {"refuse"}
    BY <1>0 DEF WorkOK, Path, PathPlan
  <2> QED BY <2>2, <2>3, <2>4 DEF InFlight, Kinds
<1>2. \A n \in Names :
        \/ s[n] = "none" /\ p[n] \in {"none", "keep"} /\ dest[n] = f[n]
        \/ p[n] = "remove" /\ dest[n] = NoEntry
        \/ p[n] \in {"create", "replace"} /\ dest[n] = NewLink(x, n)
  <2>1. TAKE n \in Names
  <2>2. s[n] \in {"none", "quarantined", "installed", "cleaned"}
    BY <1>0, <1>1 DEF WorkOK, Stages
  <2>3. pc[x] # "verify"
    BY <1>0 DEF AfterCommit
  <2>4. NameSound(x, n)
    BY DEF Sound
  <2> QED BY <1>1, <2>2, <2>3, <2>4 DEF NameSound, Emptied, InFlight
<1>3. ASSUME NEW n \in Names, dest[n] = f[n], f[n] # NoEntry, f[n].by # User
      PROVE  f[n].target = Recorded(l, n)
  BY <1>3 DEF Sound, AgreeOf
<1>4. CASE ~Applies(x)
  <2>1. state = NoState
    BY <1>4 DEF Sound, StateSound
  <2>2. ASSUME NEW n \in Names, dest[n] # NoEntry, dest[n].by # User PROVE FALSE
    <3>1. s[n] = "none" /\ p[n] = "none" /\ dest[n] = f[n] /\ Recorded(l, n) = NoTarget
      BY <1>2, <1>4, <2>2 DEF Sound, PlanSound
    <3>2. f[n].target \in Targets
      BY <1>0, <2>2, <3>1 DEF KeptOK, Entry
    <3> QED BY <1>3, <2>2, <3>1, <3>2, SkillsAssumption
  <2> QED BY <2>1, <2>2 DEF AgreeOf
<1>5. CASE Applies(x) /\ state = NewState(x)
  <2>1. \A n \in Names : Recorded(state, n) = i[n]
    <3>1. state # NoState
      <4>1. NewState(x) \in StateFile
        <5>1. l \in StateFile \cup {NoState} /\ made[x] \in BOOLEAN
          BY <1>0 DEF KeptOK, SkillsInv, SkillsTypeOK
        <5> QED BY <1>0, <5>1 DEF NewState, StateFile
      <4>2. NoState \notin StateFile
        BY SkillsAssumption DEF StateFile
      <4> QED BY <1>5, <4>1, <4>2
    <3> QED BY <1>5, <3>1 DEF NewState, Recorded
  <2>2. ASSUME NEW n \in Names, dest[n] # NoEntry, dest[n].by # User
        PROVE  dest[n].target = Recorded(state, n)
    <3>1. CASE s[n] = "none" /\ p[n] = "none" /\ dest[n] = f[n]
      <4>1. Recorded(l, n) = NoTarget
        BY <1>5, <2>2, <3>1 DEF Sound, PlanSound
      <4>2. f[n].target \in Targets
        BY <1>0, <2>2, <3>1 DEF KeptOK, Entry
      <4> QED BY <1>3, <2>2, <3>1, <4>1, <4>2, SkillsAssumption
    <3>2. CASE p[n] = "keep" /\ dest[n] = f[n]
      BY <1>5, <2>1, <3>2 DEF Sound, PlanSound
    <3>3. CASE dest[n] = NewLink(x, n)
      BY <2>1, <3>3 DEF NewLink
    <3> QED BY <1>2, <2>2, <3>1, <3>2, <3>3
  <2>3. ASSUME NEW n \in Names, i[n] # NoTarget
        PROVE  dest[n] # NoEntry /\ dest[n].target = i[n]
    <3>1. p[n] \in {"create", "replace", "keep"}
      BY <1>5, <2>3 DEF Sound, PlanSound
    <3>2. CASE p[n] = "keep"
      <4>1. dest[n] = f[n]
        BY <1>2, <3>2
      <4> QED BY <1>5, <3>2, <4>1 DEF Sound, PlanSound
    <3>3. CASE p[n] # "keep"
      <4>1. dest[n] = NewLink(x, n)
        BY <1>2, <3>1, <3>3
      <4>2. NewLink(x, n) \in Entry
        BY <1>0, <2>3 DEF NewLink, Entry
      <4>3. NoEntry \notin Entry
        BY SkillsAssumption DEF Entry
      <4> QED BY <4>1, <4>2, <4>3 DEF NewLink
    <3> QED BY <3>2, <3>3
  <2>4. state.links = i
    BY <1>5 DEF NewState
  <2> QED BY <2>2, <2>3, <2>4 DEF AgreeOf
<1>6. CASE Applies(x) /\ state = l /\ ~Changed(x)
  <2>1. \A n \in Names : dest[n] = f[n]
    BY <1>2, <1>6 DEF Changed
  <2>2. AgreeOf(f, l)
    BY DEF Sound
  <2> QED BY <1>6, <2>1, <2>2 DEF AgreeOf
<1> QED BY <1>4, <1>5, <1>6 DEF Sound, StateSound

(* An undone run has restored the destination, and mostly the state file.    *)
LEMMA UndoneRestores ==
  ASSUME SkillsInv, NEW x \in Txns, Path(x), Sound(x), ~committed[x],
         pc[x] \in Ending \ {"dead"},
         \A n \in Names : stage[x][n] \in {"none", "undone"},
         ~failed[x] \/ NeverStaged(x)
  PROVE  /\ dest = found[x]
         /\ AgreeOf(dest, state) \/ sbak[x] # NoState
<1>0. KeptOK /\ DiskOK
  BY TypeParts DEF SkillsInv
<1>1. \A n \in Names : dest[n] = found[x][n]
  BY DEF Sound, NameSound, NeverStaged
<1>2. dest = found[x]
  BY <1>0, <1>1 DEF KeptOK, DiskOK
<1>3. state = loaded[x] \/ sbak[x] # NoState
  BY DEF Sound, StateSound
<1>4. AgreeOf(dest, state) \/ sbak[x] # NoState
  BY <1>2, <1>3 DEF Sound
<1> QED BY <1>2, <1>4

(* Outside the lock, a run that committed, or staged nothing, left things     *)
(* agreeing, unless it left the state file in its backup.                     *)
Leaves(x) ==
  /\ SkillsInv /\ Path(x) /\ Sound(x) /\ pc[x] \notin Inside \cup BeforeLock \cup {"start", "dead"}
  /\ committed[x] \/ NeverStaged(x)
  /\ sbak[x] = NoState \/ pc[x] \in Writing \cup AfterCommit
  => AgreeOf(dest, state)

LEMMA LeavesAgreeing == \A x \in Txns : Leaves(x)
<1> SUFFICES ASSUME NEW x \in Txns, SkillsInv, Path(x), Sound(x),
                    pc[x] \notin Inside \cup BeforeLock \cup {"start", "dead"},
                    committed[x] \/ NeverStaged(x),
                    sbak[x] = NoState \/ pc[x] \in Writing \cup AfterCommit
             PROVE  AgreeOf(dest, state)
  BY DEF Leaves
<1>1. CASE committed[x]
  BY <1>1, CommittedAgrees
<1>2. CASE ~committed[x]
  <2>1. pc[x] \in Phases
    BY TypeParts DEF SkillsInv, ProgressOK
  <2>2. pc[x] \in Ending \ {"dead"}
    BY <2>1 DEF Phases, Inside, BeforeLock, Linking, Writing, AfterCommit, Ending, Path, PathEnd
  <2>3. sbak[x] = NoState
    BY DEF Inside
  <2>4. \A n \in Names : stage[x][n] \in {"none", "undone"}
    BY <1>2 DEF NeverStaged
  <2> QED BY <1>2, <2>2, <2>3, <2>4, UndoneRestores
<1> QED BY <1>1, <1>2

(* The same after the step.                                                  *)
LEMMA LeavesAgreeingNext == \A x \in Txns : Leaves(x)'
<1>1. (\A x \in Txns : Leaves(x))'
  BY LeavesAgreeing, PTL
<1> QED BY <1>1

(* The places of a step, once more: where the disk changes, and how a run     *)
(* gets in and out of the places in which it changes it.                      *)
(* Two runs are never inside together, and outside nothing is changed.       *)
LEMMA InsideHoldsLock ==
  ASSUME StagingIsLocked, NEW x \in Txns, NEW y \in Txns, x # y,
         pc[x] \in Inside \cup {"locked"}, pc[y] \in Inside \cup {"locked"}
  PROVE  FALSE
BY DEF StagingIsLocked, LockedPhases, Inside, Linking, Writing, AfterCommit

LEMMA SerialPlaces ==
  ASSUME SkillsInv, PathInv, NEW x \in Txns, Step(x), pc[x] \notin Inside,
         committed[x] \/ NeverStaged(x)
  PROVE  /\ dest' = dest /\ state' = state
         /\ pc'[x] \in Inside => LockedPlan(x) /\ pc[x] = "locked"
<1>0. ProgressOK /\ Path(x)
  BY TypeParts DEF SkillsInv, PathInv, Path
<1> USE <1>0 DEF ProgressOK, Goto, Raises, Succeeds, budget, local, disk, Inside, Linking, Writing,
                 AfterCommit
<1>1. ~UnlinkNew(x) /\ ~Restore(x)
  <2>1. committed[x] => pc[x] \notin {"rollback", "unlink"}
    BY DEF Path, PathEnd
  <2>2. Restore(x) => pc[x] = "rollback" /\ \E n \in Names : stage[x][n] = "quarantined"
    BY DEF Restore
  <2>3. UnlinkNew(x) => pc[x] = "unlink" /\ stage[x][cur[x]] = "installed" /\ cur[x] \in Names
    BY TypeParts DEF UnlinkNew, SkillsInv, JournalOK, WorkOK
  <2> QED BY <2>1, <2>2, <2>3 DEF NeverStaged
<1>2. CASE LockedPlan(x)
  BY <1>2 DEF LockedPlan
<1>3. CASE Preflight(x)
  BY <1>3 DEF Preflight
<1>4. CASE CreateDestination(x) \/ DestinationLock(x)
  BY <1>4 DEF CreateDestination, DestinationLock
<1>5. CASE LeaveLock(x) \/ SkipPlanned(x) \/ RemoveNew(x)
  BY <1>5 DEF LeaveLock, SkipPlanned, RemoveNew
<1>6. CASE RolledBack(x) \/ RemoveContainers(x)
  BY <1>6 DEF RolledBack, RemoveContainers
<1> QED BY <1>1, <1>2, <1>3, <1>4, <1>5, <1>6
   DEF Step, StageCreate, StageOld, Quarantine, InstallTemporary, InstallLink, InstallVerify,
       BeginCommit, MoveState, ReadState, WriteState, VerifyState, CleanState, CleanChange,
       CleanedUp, Unlock

(* A step into a serial state comes from one.                                *)
LEMMA SerialBefore ==
  ASSUME SkillsInv, PathInv, NEW x \in Txns, Step(x),
         committed'[x] \/ NeverStaged(x)' \/ pc'[x] \in Inside,
         sbak'[x] = NoState \/ pc'[x] \in Writing \cup AfterCommit
  PROVE  /\ pc[x] # "dead" /\ out[x] \notin {"incomplete", "escaped"}
         /\ committed[x] \/ NeverStaged(x) \/ pc[x] \in Inside
         /\ sbak[x] = NoState \/ pc[x] \in Writing \cup AfterCommit
<1>0. /\ ProgressOK /\ WorkOK /\ Path(x) /\ pc[x] \notin {"done", "dead"}
  BY TypeParts, StepPlaces DEF SkillsInv, PathInv, Path
<1>1. out[x] = "running"
  BY <1>0 DEF Path, PathEnd
<1>2. CASE pc[x] \in BeforeLock \cup {"start"}
  BY <1>1, <1>2 DEF SkillsInv, JournalOK, BeforeLock, NeverStaged, Path, PathPlan, PathInv
<1>3. CASE pc[x] \in Inside
  BY <1>0, <1>1, <1>3 DEF Inside, Path, PathEnd
<1>4. CASE pc[x] \in {"abort", "rollback", "unlink", "unroot"}
  <2>1. LeaveLock(x) \/ SkipPlanned(x) \/ RemoveNew(x) \/ UnlinkNew(x) \/ Restore(x)
          \/ RolledBack(x) \/ RemoveContainers(x)
    BY <1>4
    DEF Step, Preflight, CreateDestination, DestinationLock, LockedPlan, StageCreate, StageOld,
        Quarantine, InstallTemporary, InstallLink, InstallVerify, BeginCommit, MoveState, ReadState,
        WriteState, VerifyState, CleanState, CleanChange, CleanedUp, Unlock
  <2>2. committed' = committed /\ sbak' = sbak
    BY <2>1 DEF LeaveLock, SkipPlanned, RemoveNew, UnlinkNew, Restore, RolledBack,
                RemoveContainers, local
  <2>3. pc'[x] \notin Inside
    BY <1>0, <1>4, <2>1
    DEF LeaveLock, SkipPlanned, RemoveNew, UnlinkNew, Restore, RolledBack, RemoveContainers, Goto,
        ProgressOK, Inside, Linking, Writing, AfterCommit
  <2>4. ~committed[x] => NeverStaged(x)
    <3>1. SUFFICES ASSUME ~committed[x], NEW n \in Names PROVE stage[x][n] = "none"
      BY DEF NeverStaged
    <3>2. \A k \in Names : stage'[x][k] = "none"
      BY <2>2, <2>3, <3>1 DEF NeverStaged
    <3>3. CASE LeaveLock(x) \/ RolledBack(x) \/ RemoveContainers(x)
      BY <3>2, <3>3 DEF LeaveLock, RolledBack, RemoveContainers, local
    <3>4. CASE SkipPlanned(x) \/ RemoveNew(x) \/ Restore(x)
      BY <1>0, <3>2, <3>4 DEF SkipPlanned, RemoveNew, Restore, Undone, WorkOK
    <3>5. CASE UnlinkNew(x)
      BY <1>0, <3>2, <3>5 DEF UnlinkNew, Undone, WorkOK
    <3> QED BY <2>1, <3>3, <3>4, <3>5
  <2>5. sbak[x] = NoState \/ pc[x] \in Writing \cup AfterCommit
    BY <2>2, <2>3 DEF Inside
  <2> QED BY <1>0, <1>1, <2>4, <2>5
<1> QED BY <1>0, <1>2, <1>3, <1>4 DEF ProgressOK, Phases, BeforeLock, Inside, Linking, Writing,
                                        AfterCommit, Path, PathEnd

(* Runs in turn: initially, and in every step.                               *)
LEMMA SerialInitially == Init => SerialInv
<1> SUFFICES ASSUME Init PROVE AgreeOf(dest, state) /\ ~\E x \in Txns : pc[x] \in Inside
  BY DEF SerialInv
<1>1. ~\E x \in Txns : pc[x] \in Inside
  BY DEF Init, Inside, Linking, Writing, AfterCommit
<1>2. state # NoState => state.by \notin Txns
  BY SkillsAssumption DEF Init
<1>3. ASSUME NEW n \in Names, dest[n] # NoEntry, dest[n].by # User
      PROVE  dest[n].target = Recorded(state, n)
  BY <1>3 DEF Init
<1> QED BY <1>1, <1>2, <1>3 DEF AgreeOf

(* One step of one of the runs.                                               *)
LEMMA SerialStep ==
  ASSUME SkillsInv, SkillsInv', PathInv, PathInv', SerialInv, NEW x \in Txns, Step(x), Serial'
  PROVE  IF \E y \in Txns : pc'[y] \in Inside
         THEN \A y \in Txns : pc'[y] \in Inside => Sound(y)'
         ELSE AgreeOf(dest, state)'
<1>0. \A y \in Txns : y # x => RunKept(y)
  BY OtherRuns DEF SkillsInv
<1>1. Serial
  <2>1. users = 0
    BY StepPlaces DEF SkillsInv, Serial
  <2>2. /\ pc[x] # "dead" /\ out[x] \notin {"incomplete", "escaped"}
        /\ committed[x] \/ NeverStaged(x) \/ pc[x] \in Inside
        /\ sbak[x] = NoState \/ pc[x] \in Writing \cup AfterCommit
    BY SerialBefore DEF Serial
  <2>3. ASSUME NEW y \in Txns, y # x
        PROVE  /\ pc[y] # "dead" /\ out[y] \notin {"incomplete", "escaped"}
               /\ committed[y] \/ NeverStaged(y) \/ pc[y] \in Inside
               /\ sbak[y] = NoState \/ pc[y] \in Writing \cup AfterCommit
    BY <1>0, <2>3 DEF Serial, RunKept, NeverStaged
  <2> QED BY <2>1, <2>2, <2>3 DEF Serial
<1>2. /\ \A y \in Txns : pc[y] \in Inside => Sound(y)
      /\ (\A y \in Txns : pc[y] \notin Inside) => AgreeOf(dest, state)
  BY <1>1 DEF SerialInv
<1>3. /\ Path(x) /\ Path(x)'
      /\ committed[x] \/ NeverStaged(x) \/ pc[x] \in Inside
      /\ committed'[x] \/ NeverStaged(x)' \/ pc'[x] \in Inside
      /\ sbak'[x] = NoState \/ pc'[x] \in Writing \cup AfterCommit
      /\ pc'[x] # "dead"
  BY <1>1 DEF PathInv, Path, Serial
<1>5. CASE pc[x] \in Inside
  <2>1. ~Preflight(x) /\ Sound(x)'
    BY <1>2, <1>5, RunStep DEF Preflight, Inside, Linking, Writing, AfterCommit
  <2>2. \A y \in Txns : y # x => pc'[y] \notin Inside
    BY <1>0, <1>5, InsideHoldsLock DEF SkillsInv, RunKept
  <2>3. CASE pc'[x] \in Inside
    BY <2>1, <2>2, <2>3
  <2>4. CASE pc'[x] \notin Inside
    <3>1. pc'[x] \notin BeforeLock \cup {"start"}
      BY <1>5, StepPlaces DEF SkillsInv
    <3>2. Leaves(x)'
      BY LeavesAgreeingNext
    <3> QED BY <1>3, <2>1, <2>2, <2>4, <3>1, <3>2 DEF Leaves, SkillsInv
  <2> QED BY <2>3, <2>4
<1>6. CASE pc[x] \notin Inside
  <2>1. dest' = dest /\ state' = state
    BY <1>3, <1>6, SerialPlaces
  <2>2. CASE pc'[x] \in Inside
    <3>1. LockedPlan(x) /\ pc[x] = "locked"
      BY <1>3, <1>6, <2>2, SerialPlaces
    <3>2. \A y \in Txns : y # x => pc[y] \notin Inside
      BY <3>1, InsideHoldsLock DEF SkillsInv
    <3>3. Sound(x)'
      BY <1>2, <1>6, <2>2, <3>1, <3>2, LockedPlanStep
    <3> QED BY <1>0, <2>2, <3>2, <3>3 DEF RunKept
  <2>3. CASE pc'[x] \notin Inside
    <3>1. ASSUME NEW y \in Txns, pc'[y] \in Inside PROVE Sound(y)'
      <4>1. y # x /\ RunKept(y) /\ pc[y] \in Inside
        BY <1>0, <2>3, <3>1 DEF RunKept
      <4> QED BY <1>2, <2>1, <4>1, SoundFrame
    <3>2. (\A y \in Txns : pc'[y] \notin Inside) => AgreeOf(dest, state)'
      <4>1. (\A y \in Txns : pc'[y] \notin Inside) => \A y \in Txns : pc[y] \notin Inside
        BY <1>0, <1>6 DEF RunKept
      <4>2. AgreeOf(dest, state) => AgreeOf(dest, state)'
        BY <2>1 DEF AgreeOf, Recorded
      <4> QED BY <1>2, <4>1, <4>2
    <3> QED BY <3>1, <3>2
  <2> QED BY <2>2, <2>3
<1> QED BY <1>5, <1>6

(* The same with kills, the user and idle steps, which serial states exclude.*)
LEMMA SerialNext ==
  SkillsInv /\ SkillsInv' /\ PathInv /\ PathInv' /\ SerialInv /\ [Next]_vars => SerialInv'
<1> SUFFICES ASSUME SkillsInv, SkillsInv', PathInv, PathInv', SerialInv, [Next]_vars, Serial'
             PROVE  IF \E y \in Txns : pc'[y] \in Inside
                    THEN \A y \in Txns : pc'[y] \in Inside => Sound(y)'
                    ELSE AgreeOf(dest, state)'
  BY DEF SerialInv
<1>1. ASSUME NEW x \in Txns, Crash(x) PROVE FALSE
  <2>1. pc'[x] = "dead"
    BY <1>1, TypeParts DEF Crash, Goto, SkillsInv, ProgressOK
  <2> QED BY <2>1 DEF Serial
<1>2. ASSUME \E n \in Names : UserRemoves(n) \/ \E t \in Targets : UserPuts(n, t) PROVE FALSE
  <2>1. users' = users + 1 /\ users \in Nat
    BY <1>2, UserStep, SkillsAssumption DEF SkillsInv, SkillsTypeOK
  <2> QED BY <2>1 DEF Serial
<1>3. CASE UNCHANGED vars
  <2>1. users' = users /\ dest' = dest /\ state' = state /\ \A x \in Txns : RunKept(x)
    BY <1>3, IdleStep
  <2>2. Serial
    BY <2>1 DEF Serial, RunKept, NeverStaged
  <2>3. \A x \in Txns : Sound(x) => Sound(x)'
    BY <2>1, SoundFrame
  <2>4. AgreeOf(dest, state) => AgreeOf(dest, state)'
    BY <2>1 DEF AgreeOf, Recorded
  <2>5. \A x \in Txns : pc'[x] = pc[x]
    BY <2>1 DEF RunKept
  <2> QED BY <2>2, <2>3, <2>4, <2>5 DEF SerialInv
<1>4. ASSUME NEW x \in Txns, Step(x)
      PROVE  IF \E y \in Txns : pc'[y] \in Inside
             THEN \A y \in Txns : pc'[y] \in Inside => Sound(y)'
             ELSE AgreeOf(dest, state)'
  BY <1>4, SerialStep
<1> QED BY <1>1, <1>2, <1>3, <1>4 DEF Next

(* The three layers of the argument together. *)
DiskInv == PathInv /\ AloneInv /\ SerialInv

(* Whatever other runs, users and crashes do, a run stays on its path; one    *)
(* that is alone, or that takes its turn with runs that commit or stage       *)
(* nothing, leaves each name and the state file where its journal says.       *)
THEOREM DiskInvariant == Spec => []DiskInv
<1>1. Init => DiskInv
  BY PathInitially, AloneInitially, SerialInitially DEF DiskInv
<1>2. SkillsInv /\ SkillsInv' /\ DiskInv /\ [Next]_vars => DiskInv'
  BY PathNext, AloneNext, SerialNext DEF DiskInv
<1> QED BY <1>1, <1>2, SkillsInvariant, PTL DEF Spec

(* What the invariant says of the three properties.                          *)
LEMMA SoundIsRecoverable == SkillsInv /\ DiskInv => Recoverable
<1> SUFFICES ASSUME SkillsInv, DiskInv, NEW x \in Txns, Alone(x), ~committed[x], pc[x] # "start"
             PROVE  /\ \A n \in Names : \/ found[x][n] = NoEntry \/ dest[n] = found[x][n]
                                        \/ bak[x][n] = found[x][n]
                    /\ loaded[x] = NoState \/ state = loaded[x] \/ sbak[x] = loaded[x]
  BY DEF Recoverable
<1>1. Path(x) /\ WorkOK /\ ProgressOK
  BY TypeParts DEF SkillsInv, DiskInv, PathInv, Path
<1>2. CASE out[x] = "refused"
  BY <1>1, <1>2 DEF DiskInv, AloneInv, Untouched, Path, PathPlan
<1>3. CASE out[x] # "refused"
  <2>1. Sound(x)
    BY <1>3 DEF DiskInv, AloneInv
  <2>2. ASSUME NEW n \in Names
        PROVE  found[x][n] = NoEntry \/ dest[n] = found[x][n] \/ bak[x][n] = found[x][n]
    <3>1. stage[x][n] \in Stages \ {"cleaned"}
      BY <1>1 DEF WorkOK, Path, PathStage
    <3> QED BY <2>1, <3>1 DEF Sound, NameSound, Stages
  <2>3. loaded[x] = NoState \/ state = loaded[x] \/ sbak[x] = loaded[x]
    <3>1. pc[x] \in BeforeLock \cup {"stage", "move"} \cup Linking \cup Writing \cup Ending
      BY <1>1 DEF ProgressOK, Phases, Path, PathEnd, BeforeLock, Linking, Writing, AfterCommit, Ending
    <3> QED BY <2>1, <3>1 DEF Sound, StateSound, Writing
  <2> QED BY <2>2, <2>3
<1> QED BY <1>2, <1>3

(* A run that is alone never loses a link it found, nor the state file it     *)
(* planned with, whatever raises and wherever it is killed.                   *)
THEOREM NothingIsLost == Spec => []Recoverable
BY SkillsInvariant, DiskInvariant, SoundIsRecoverable, PTL

(* A run that ended by failing, and says so, has nothing left to undo.        *)
EndedClean(x) ==
  /\ ~committed[x] /\ ~failed[x] /\ pc[x] = "done"
  /\ \A n \in Names : stage[x][n] \in {"none", "undone"}

LEMMA SoundIsRestored == SkillsInv /\ DiskInv => LinksRestored
<1> SUFFICES ASSUME SkillsInv, DiskInv, NEW x \in Txns, Alone(x), pc[x] = "done", out[x] = "failed"
             PROVE  dest = found[x]
  BY DEF LinksRestored
<1>1. Path(x) /\ Sound(x)
  BY DEF DiskInv, PathInv, Path, AloneInv
<1>2. EndedClean(x)
  BY <1>1, TypeParts
  DEF SkillsInv, EndedClean, Path, PathEnd, PathStage, Undo, WorkOK, Stages
<1> QED BY <1>1, <1>2, UndoneRestores DEF EndedClean, Ending

(* A run that is alone and fails without reporting an incomplete rollback     *)
(* leaves the destination as it found it.                                     *)
THEOREM FailureRestores == Spec => []LinksRestored
BY SkillsInvariant, DiskInvariant, SoundIsRestored, PTL

(* A quiet state is one of a lone run, or a serial one with nobody inside.   *)
LEMMA QuietAgrees == SkillsInv /\ DiskInv => StateMatchesLinks
<1> SUFFICES ASSUME SkillsInv, DiskInv, Quiet, \A x \in Txns : sbak[x] = NoState,
                    \/ \E x \in Txns : Alone(x)
                    \/ users = 0 /\ \A x \in Txns : committed[x] \/ NeverStaged(x)
             PROVE  AgreeOf(dest, state)
  BY DEF StateMatchesLinks, Agree, AgreeOf
<1>1. CASE \E x \in Txns : Alone(x)
  <2> PICK x \in Txns : Alone(x)
    BY <1>1
  <2>1. CASE pc[x] = "start" \/ out[x] = "refused"
    BY <2>1 DEF DiskInv, AloneInv, Untouched
  <2>2. CASE pc[x] # "start" /\ out[x] # "refused"
    <3>1. Path(x) /\ Sound(x) /\ pc[x] = "done" /\ out[x] \notin {"incomplete", "escaped"}
      BY <2>2 DEF DiskInv, PathInv, Path, AloneInv, Quiet
    <3>2. CASE committed[x]
      BY <3>1, <3>2, CommittedAgrees
    <3>3. CASE ~committed[x]
      <4>1. EndedClean(x)
        BY <2>2, <3>1, <3>3, TypeParts
        DEF SkillsInv, EndedClean, Path, PathEnd, PathStage, Undo, WorkOK, Stages
      <4> QED BY <3>1, <4>1, UndoneRestores DEF EndedClean, Ending
    <3> QED BY <3>2, <3>3
  <2> QED BY <2>1, <2>2
<1>2. CASE users = 0 /\ \A x \in Txns : committed[x] \/ NeverStaged(x)
  <2>1. Serial
    BY <1>2 DEF Serial, Quiet
  <2>2. \A x \in Txns : pc[x] \notin Inside
    BY DEF Quiet, Inside, Linking, Writing, AfterCommit
  <2> QED BY <2>1, <2>2 DEF DiskInv, SerialInv
<1> QED BY <1>1, <1>2

(* State file and links agree once a lone run has ended, and after any number *)
(* of runs that interleave and each commit, refuse, or fail before staging.   *)
THEOREM StateFileTrue == Spec => []StateMatchesLinks
BY SkillsInvariant, DiskInvariant, QuietAgrees, PTL

------------------------------------------------------------------------------
(* SkillOwners: one owner per directory.                                      *)

(* What the two locks and the two looks at the other command establish.       *)
LockDirHeld   == \A g \in Installers : at[g] \in {"guard", "act", "left"} => lockDir = g
ExclusiveHeld == \A u \in Managers : at[u] \in {"check", "act"} => exclusive = u /\ lockFile
FileBacksState == userState => lockFile
OtherAbsent   ==
  /\ \A g \in Installers : at[g] = "act" => ~userState
  /\ \A u \in Managers : at[u] = "act" => ~globalState
Apart         == \A g \in Installers, u \in Managers : ~(at[g] = "act" /\ at[u] = "act")
OpenedFile    == \A u \in Managers : at[u] = "opened" => lockFile
OwnersInv ==
  /\ OwnersTypeOK /\ LockDirHeld /\ ExclusiveHeld /\ FileBacksState /\ OtherAbsent
  /\ Apart /\ OpenedFile /\ OneOwner

LEMMA OwnersInitially == OwnersInit => OwnersInv
  BY OwnersAssumption
  DEF OwnersInit, OwnersInv, OwnersTypeOK, LockDirHeld, ExclusiveHeld, FileBacksState, OtherAbsent,
      Apart, OpenedFile, OneOwner, Runs, Places

LEMMA InstallerStep ==
  ASSUME OwnersInv, NEW g \in Installers,
         \/ TakeLockDir(g) \/ UserSkillsGuard(g) \/ ChangeLinks(g)
         \/ LeaveGuard(g) \/ RemoveLockDir(g) \/ Rollback(g)
  PROVE  OwnersInv'
<1> USE OwnersAssumption DEF OwnersInv, OwnersTypeOK, LockDirHeld, ExclusiveHeld, FileBacksState,
        OtherAbsent, Apart, OpenedFile, OneOwner, Runs, Places, Go
<1>1. CASE TakeLockDir(g)
  <2>1. PICK p \in {"guard", "done"} : at' = [at EXCEPT ![g] = p]
    BY <1>1 DEF TakeLockDir
  <2> QED BY <1>1, <2>1 DEF TakeLockDir
<1>2. CASE UserSkillsGuard(g)
  BY <1>2 DEF UserSkillsGuard, GuardPasses
<1>3. CASE ChangeLinks(g)
  BY <1>3 DEF ChangeLinks
<1>4. CASE LeaveGuard(g)
  BY <1>4 DEF LeaveGuard
<1>5. CASE RemoveLockDir(g)
  <2>1. PICK p \in {"rollback", "done"} : at' = [at EXCEPT ![g] = p]
    BY <1>5 DEF RemoveLockDir
  <2> QED BY <1>5, <2>1 DEF RemoveLockDir
<1>6. CASE Rollback(g)
  BY <1>6 DEF Rollback
<1> QED BY <1>1, <1>2, <1>3, <1>4, <1>5, <1>6

LEMMA ManagerStep ==
  ASSUME OwnersInv, NEW u \in Managers,
         OpenLock(u) \/ StateLock(u) \/ RejectGlobalOwner(u) \/ Manage(u) \/ CloseLock(u)
  PROVE  OwnersInv'
<1> USE OwnersAssumption DEF OwnersInv, OwnersTypeOK, LockDirHeld, ExclusiveHeld, FileBacksState,
        OtherAbsent, Apart, OpenedFile, OneOwner, Runs, Places, Go
<1>1. CASE OpenLock(u)
  BY <1>1 DEF OpenLock
<1>2. CASE StateLock(u)
  BY <1>2 DEF StateLock
<1>3. CASE RejectGlobalOwner(u)
  BY <1>3 DEF RejectGlobalOwner, NoGlobalOwner
<1>4. CASE Manage(u)
  BY <1>4 DEF Manage
<1>5. CASE CloseLock(u)
  BY <1>5 DEF CloseLock
<1> QED BY <1>1, <1>2, <1>3, <1>4, <1>5

LEMMA KilledStep ==
  ASSUME OwnersInv, NEW r \in Runs, OwnerKilled(r)
  PROVE  OwnersInv'
  BY OwnersAssumption
  DEF OwnerKilled, OwnersInv, OwnersTypeOK, LockDirHeld, ExclusiveHeld, FileBacksState,
      OtherAbsent, Apart, OpenedFile, OneOwner, Runs, Places, Go

(* The invariant holds in every reachable state.                              *)
THEOREM OwnersInvariant == OwnersSpec => []OwnersInv
<1>1. OwnersInv /\ [OwnersNext]_ownersVars => OwnersInv'
  <2> SUFFICES ASSUME OwnersInv, [OwnersNext]_ownersVars PROVE OwnersInv'
    OBVIOUS
  <2>1. CASE OwnersNext
    BY <2>1, InstallerStep, ManagerStep, KilledStep DEF OwnersNext
  <2>2. CASE UNCHANGED ownersVars
    BY <2>2 DEF ownersVars, OwnersInv, OwnersTypeOK, LockDirHeld, ExclusiveHeld, FileBacksState,
                OtherAbsent, Apart, OpenedFile, OneOwner
  <2> QED BY <2>1, <2>2
<1> QED BY <1>1, OwnersInitially, PTL DEF OwnersSpec

(* install-global-skills and apg-user-skills never both have a directory on   *)
(* record as theirs, with any number of runs of each and whatever is killed.  *)
THEOREM OneOwnerAlways == OwnersSpec => []OneOwner
  BY OwnersInvariant, PTL DEF OwnersInv

LEMMA AloneFromInv == OwnersInv => ActAlone
  BY OwnersAssumption
  DEF OwnersInv, OwnersTypeOK, LockDirHeld, ExclusiveHeld, Apart, ActAlone, Runs

(* At most one run of either command stages and commits changes at a time.    *)
THEOREM OneRunActs == OwnersSpec => []ActAlone
  BY OwnersInvariant, AloneFromInv, PTL
================================================================================
