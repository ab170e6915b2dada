------------------------ MODULE ProviderLaunchProofs ------------------------
(* For any number of runs and stages: every variable keeps its type, no run is
   resumed while one of its providers or workers may still run, and a run that
   was stopped anywhere inside its stages can be recovered. *)
EXTENDS ProviderLaunch, TLAPS

(* A provider, or a gate whose byte is on its way. *)
Hot(r, s) == proc[r][s] = "provider" \/ (proc[r][s] = "waiting" /\ pipe[r][s] = "sent")

(* A run that was not created yet has nothing. *)
RunInv(r) ==
  r > cur =>
    /\ src[r] = 0 /\ ~sealed[r]
    /\ \A s \in Stages : /\ proc[r][s] = "none" /\ pipe[r][s] = "none"
                         /\ ledger[r][s] = "none" /\ worker[r][s] = "none"

(* The byte is sent to a gate whose record is past "awaiting", and nothing
   becomes a provider without it; a running job's ledger is not closed, and its
   receipt says that it may be running. *)
GateInv(r, s) ==
  /\ pipe[r][s] = "sent" =>
       /\ proc[r][s] \in {"waiting", "provider", "gone"}
       /\ evidence[r][s] \in {"authorized", "confirmed", "exec_failed", "returned"}
  /\ proc[r][s] = "provider" => pipe[r][s] = "sent"

LedgerInv(r, s) ==
  /\ worker[r][s] = "running" =>
       ledger[r][s] \in {"open", "draining"} /\ receipt[r][s] \in {"armed", "uncertain"}
  /\ ledger[r][s] = "open" /\ pipe[r][s] # "none" => receipt[r][s] = "armed"

Unspawned == {"open", "registered", "receipt", "armed", "prepared", "recorded"}
Armed == {"receipt", "armed", "prepared", "recorded", "spawned", "refused", "authorized", "proceeding"}
Drained == {"draining", "closed", "drained", "transported", "finalize", "reporting", "sealing"}
Collected == {"collected", "drain", "draining", "closed", "drained", "reporting", "sealing"}

(* What a live dispatcher knows of its stage. *)
StageInv ==
  pc \notin Unheld =>
    /\ cur \in RunIds /\ mem.stage <= last /\ ~sealed[cur]
    /\ \A s \in Stages : s > mem.stage =>
         proc[cur][s] = "none" /\ pipe[cur][s] = "none" /\ ledger[cur][s] = "none"
    /\ pc = "open" => ledger[cur][mem.stage] = "none"
    /\ pc \in Unspawned => pipe[cur][mem.stage] = "none"
    /\ pc \in Armed /\ ledger[cur][mem.stage] = "open" => receipt[cur][mem.stage] = "armed"
    /\ pc = "refused" => pipe[cur][mem.stage] = "closed"
    /\ pc = "authorized" => /\ proc[cur][mem.stage] \in {"waiting", "gone"}
                            /\ evidence[cur][mem.stage] = "authorized"
    /\ pc \in Drained => ledger[cur][mem.stage] # "open"
    /\ pc = "reporting" => mem.outcome # "ok"
    /\ pc = "sealing" => result[cur] = mem.outcome

(* What may run while a dispatcher lives is its own, and from the collection on
   it knows that it could not prove the end. *)
HotInv ==
  pc \notin Unheld =>
    \A s \in Stages : Hot(cur, s) =>
      /\ s = mem.stage
      /\ pc \in {"proceeding", "running"} \cup Collected
      /\ pc \in Collected => mem.outcome = "unproven"

SealedInv(q) ==
  sealed[q] =>
    \A s \in Stages : Hot(q, s) => result[q] = "unproven" /\ ledger[q][s] # "open"

RecoveryInv ==
  recovery.step # "idle" =>
    LET q == recovery.run IN
    /\ q \in 1..cur /\ ControllerEnded(q) /\ ~sealed[q]
    /\ \A s \in Stages : ~Hot(q, s)

SourceInv(r) ==
  src[r] # 0 =>
    /\ src[r] \in 1..cur /\ sealed[src[r]]
    /\ \A s \in Stages : worker[src[r]][s] # "running"

LaunchInv ==
  /\ LaunchTypeOK
  /\ \A r \in RunIds : RunInv(r) /\ SealedInv(r) /\ SourceInv(r)
  /\ \A r \in RunIds, s \in Stages : GateInv(r, s) /\ LedgerInv(r, s)
  /\ StageInv /\ HotInv /\ RecoveryInv

-----------------------------------------------------------------------------
LEMMA AttemptUpdate ==
  ASSUME NEW S, NEW f \in [RunIds -> [Stages -> S]], NEW r \in RunIds, NEW s \in Stages, NEW v \in S
  PROVE  [f EXCEPT ![r][s] = v] \in [RunIds -> [Stages -> S]]
OBVIOUS

LEMMA StageNumbers == Stages \subseteq 0..MaxStages /\ 0 \in 0..MaxStages /\ 1 \in Stages
BY LaunchAssumption DEF Stages

LEMMA RunUpdate ==
  ASSUME NEW S, NEW f \in [RunIds -> S], NEW r \in RunIds, NEW v \in S
  PROVE  [f EXCEPT ![r] = v] \in [RunIds -> S]
OBVIOUS

LEMMA AccountFields ==
  ASSUME NEW a \in Accounts, NEW n \in 0..MaxStages, NEW k \in 0..MaxStages
  PROVE  /\ [a EXCEPT !.marker = n] \in Accounts
         /\ [a EXCEPT !.transported = n, !.marker = k] \in Accounts
         /\ \A S \in SUBSET Stages : [a EXCEPT !.launches = S, !.invoked = n, !.marker = k] \in Accounts
         /\ \A b \in BOOLEAN : [a EXCEPT !.completed = n, !.finalizing = b] \in Accounts
BY DEF Accounts

LEMMA Withdrawal == \A e \in Phases : Withdrawn(e) \in Phases
BY DEF Withdrawn, Phases

LEMMA InvParts ==
  ASSUME LaunchInv
  PROVE  /\ LaunchTypeOK /\ StageInv /\ HotInv /\ RecoveryInv
         /\ \A r \in RunIds : RunInv(r) /\ SealedInv(r) /\ SourceInv(r)
         /\ \A r \in RunIds, s \in Stages : GateInv(r, s) /\ LedgerInv(r, s)
BY DEF LaunchInv

(* A step of the dispatcher touches nothing of another run. *)
OwnRun ==
  /\ pc \notin Unheld
  /\ UNCHANGED <<last, cur, src, worker, digest, recovery>>
  /\ \A r \in RunIds \ {cur} :
       /\ proc'[r] = proc[r] /\ pipe'[r] = pipe[r] /\ ledger'[r] = ledger[r]
       /\ receipt'[r] = receipt[r] /\ evidence'[r] = evidence[r]
       /\ result'[r] = result[r] /\ sealed'[r] = sealed[r]

LEMMA OtherRuns ==
  ASSUME LaunchInv, OwnRun
  PROVE  /\ \A r \in RunIds : RunInv(r)' /\ SourceInv(r)'
         /\ \A r \in RunIds \ {cur} : SealedInv(r)'
         /\ \A r \in RunIds \ {cur}, s \in Stages : GateInv(r, s)' /\ LedgerInv(r, s)'
         /\ RecoveryInv'
<1>0. cur \in Nat /\ cur \in RunIds /\ ~sealed[cur] /\ RunIds = 1..MaxRuns /\ MaxRuns \in Nat
  BY InvParts, LaunchAssumption DEF LaunchTypeOK, StageInv, OwnRun, RunIds
<1>1. ASSUME NEW r \in RunIds PROVE RunInv(r)'
  BY <1>0, InvParts DEF OwnRun, RunInv
<1>2. ASSUME NEW r \in RunIds PROVE SourceInv(r)'
  BY <1>0, InvParts DEF OwnRun, SourceInv
<1>3. ASSUME NEW r \in RunIds \ {cur} PROVE SealedInv(r)'
  BY <1>0, InvParts DEF OwnRun, SealedInv, Hot
<1>4. ASSUME NEW r \in RunIds \ {cur}, NEW s \in Stages PROVE GateInv(r, s)' /\ LedgerInv(r, s)'
  BY <1>0, InvParts DEF OwnRun, GateInv, LedgerInv
<1>5. RecoveryInv'
  BY <1>0, InvParts DEF OwnRun, RecoveryInv, ControllerEnded, Hot
<1> QED BY <1>1, <1>2, <1>3, <1>4, <1>5

LEMMA OwnRunInv ==
  ASSUME LaunchInv, OwnRun, LaunchTypeOK', StageInv', HotInv', sealed' = sealed \/ SealedInv(cur)',
         \A s \in Stages : GateInv(cur, s)' /\ LedgerInv(cur, s)'
  PROVE  LaunchInv'
<1>0. cur' = cur
  BY DEF OwnRun
<1>1. RunIds' = RunIds /\ Stages' = Stages
  BY DEF RunIds, Stages
<1>2. ASSUME NEW r \in RunIds PROVE SealedInv(r)'
  <2>1. CASE r = cur
    BY <1>0, <2>1, InvParts DEF SealedInv, Hot, OwnRun, StageInv
  <2>2. CASE r # cur
    BY <2>2, OtherRuns
  <2> QED BY <2>1, <2>2
<1>3. ASSUME NEW r \in RunIds, NEW s \in Stages PROVE GateInv(r, s)' /\ LedgerInv(r, s)'
  <2>1. CASE r = cur
    BY <1>0, <2>1 DEF GateInv, LedgerInv
  <2>2. CASE r # cur
    BY <2>2, OtherRuns
  <2> QED BY <2>1, <2>2
<1> QED BY OtherRuns, <1>1, <1>2, <1>3 DEF LaunchInv

LEMMA RegisterInv ==
  ASSUME LaunchInv, Register
  PROVE  LaunchInv'
<1>0. LaunchTypeOK /\ cur \in RunIds /\ mem.stage \in Stages
  BY InvParts DEF Register, StageInv, LaunchTypeOK, Memories, Unheld
<1>1. LaunchTypeOK'
  BY <1>0 DEF Register, LaunchTypeOK, Unheld
<1>2. OwnRun
  BY <1>0 DEF Register, OwnRun, LaunchTypeOK, Unheld
<1>3. ASSUME NEW s \in Stages PROVE GateInv(cur, s)'
  BY <1>0, InvParts DEF Register, GateInv
<1>4. ASSUME NEW s \in Stages PROVE LedgerInv(cur, s)'
  BY <1>0, InvParts DEF Register, LedgerInv, StageInv, LaunchTypeOK, Unheld, Unspawned, Armed, Drained, Certain
<1>s. \A s \in Stages : s > mem'.stage =>
        proc'[cur][s] = "none" /\ pipe'[cur][s] = "none" /\ ledger'[cur][s] = "none"
  BY <1>0, InvParts DEF Register, StageInv, LaunchTypeOK, Memories, Unheld, Stages
<1>5. StageInv'
  BY <1>0, <1>s, InvParts DEF Register, StageInv, LaunchTypeOK, Memories, Unheld, Unspawned, Armed, Drained, Certain, HotInv, Hot
<1>6. HotInv'
  BY <1>0, InvParts DEF Register, StageInv, HotInv, Hot, LaunchTypeOK, Memories, Unheld, Collected, Certain
<1>7. sealed' = sealed
  BY DEF Register
<1> QED BY <1>1, <1>2, <1>3, <1>4, <1>5, <1>6, <1>7, OwnRunInv

LEMMA ArmReceiptInv ==
  ASSUME LaunchInv, ArmReceipt
  PROVE  LaunchInv'
<1>0. LaunchTypeOK /\ cur \in RunIds /\ mem.stage \in Stages
  BY InvParts DEF ArmReceipt, StageInv, LaunchTypeOK, Memories, Unheld
<1>1. LaunchTypeOK'
  BY <1>0 DEF ArmReceipt, LaunchTypeOK, Unheld
<1>2. OwnRun
  BY <1>0 DEF ArmReceipt, OwnRun, LaunchTypeOK, Unheld
<1>3. ASSUME NEW s \in Stages PROVE GateInv(cur, s)'
  BY <1>0, InvParts DEF ArmReceipt, GateInv
<1>4. ASSUME NEW s \in Stages PROVE LedgerInv(cur, s)'
  BY <1>0, InvParts DEF ArmReceipt, LedgerInv, StageInv, LaunchTypeOK, Unheld, Unspawned, Armed, Drained, Certain
<1>5. StageInv'
  BY <1>0, InvParts DEF ArmReceipt, StageInv, LaunchTypeOK, Memories, Unheld, Unspawned, Armed, Drained, Certain, HotInv, Hot
<1>6. HotInv'
  BY <1>0, InvParts DEF ArmReceipt, StageInv, HotInv, Hot, LaunchTypeOK, Memories, Unheld, Collected, Certain
<1>7. sealed' = sealed
  BY DEF ArmReceipt
<1> QED BY <1>1, <1>2, <1>3, <1>4, <1>5, <1>6, <1>7, OwnRunInv

LEMMA ArmMarkerInv ==
  ASSUME LaunchInv, ArmMarker
  PROVE  LaunchInv'
<1>0. LaunchTypeOK /\ cur \in RunIds /\ mem.stage \in Stages
  BY InvParts DEF ArmMarker, StageInv, LaunchTypeOK, Memories, Unheld
<1>1. LaunchTypeOK'
  <2>1. mem' \in Memories
    BY <1>0, StageNumbers DEF ArmMarker, LaunchTypeOK, Memories
  <2>a. [state[cur] EXCEPT !.marker = mem.stage] \in Accounts
    BY <1>0, StageNumbers, AccountFields DEF LaunchTypeOK, Memories
  <2>s. state' = [state EXCEPT ![cur] = [state[cur] EXCEPT !.marker = mem.stage]]
    BY <1>0 DEF ArmMarker, LaunchTypeOK
  <2>2. state' \in [RunIds -> Accounts]
    BY <1>0, <2>a, <2>s, RunUpdate DEF LaunchTypeOK
  <2> QED BY <1>0, <2>1, <2>2 DEF ArmMarker, LaunchTypeOK, Unheld
<1>2. OwnRun
  BY <1>0 DEF ArmMarker, OwnRun, LaunchTypeOK, Unheld
<1>3. ASSUME NEW s \in Stages PROVE GateInv(cur, s)'
  BY <1>0, InvParts DEF ArmMarker, GateInv
<1>4. ASSUME NEW s \in Stages PROVE LedgerInv(cur, s)'
  BY <1>0, InvParts DEF ArmMarker, LedgerInv
<1>s. \A s \in Stages : s > mem'.stage =>
        proc'[cur][s] = "none" /\ pipe'[cur][s] = "none" /\ ledger'[cur][s] = "none"
  BY <1>0, InvParts DEF ArmMarker, StageInv, LaunchTypeOK, Memories, Unheld, Stages
<1>5. StageInv'
  BY <1>0, <1>s, InvParts DEF ArmMarker, StageInv, LaunchTypeOK, Memories, Unheld, Unspawned, Armed, Drained, Certain, HotInv, Hot
<1>6. HotInv'
  BY <1>0, InvParts DEF ArmMarker, StageInv, HotInv, Hot, LaunchTypeOK, Memories, Unheld, Collected, Certain
<1>7. sealed' = sealed
  BY DEF ArmMarker
<1> QED BY <1>1, <1>2, <1>3, <1>4, <1>5, <1>6, <1>7, OwnRunInv

LEMMA PrepareInv ==
  ASSUME LaunchInv, Prepare
  PROVE  LaunchInv'
<1>0. LaunchTypeOK /\ cur \in RunIds /\ mem.stage \in Stages
  BY InvParts DEF Prepare, StageInv, LaunchTypeOK, Memories, Unheld
<1>1. LaunchTypeOK'
  <2>3. evidence' \in [RunIds -> [Stages -> Phases]]
    BY <1>0, AttemptUpdate DEF Prepare, LaunchTypeOK, Phases
  <2> QED BY <1>0, <2>3 DEF Prepare, LaunchTypeOK, Unheld
<1>2. OwnRun
  BY <1>0 DEF Prepare, OwnRun, LaunchTypeOK, Unheld
<1>3. ASSUME NEW s \in Stages PROVE GateInv(cur, s)'
  BY <1>0, InvParts DEF Prepare, GateInv, StageInv, HotInv, Hot, LaunchTypeOK, Unheld, Unspawned
<1>4. ASSUME NEW s \in Stages PROVE LedgerInv(cur, s)'
  BY <1>0, InvParts DEF Prepare, LedgerInv
<1>5. StageInv'
  BY <1>0, InvParts DEF Prepare, StageInv, LaunchTypeOK, Memories, Unheld, Unspawned, Armed, Drained, Certain, HotInv, Hot
<1>6. HotInv'
  BY <1>0, InvParts DEF Prepare, StageInv, HotInv, Hot, LaunchTypeOK, Memories, Unheld, Collected, Certain
<1>7. sealed' = sealed
  BY DEF Prepare
<1> QED BY <1>1, <1>2, <1>3, <1>4, <1>5, <1>6, <1>7, OwnRunInv

LEMMA RecordLaunchInv ==
  ASSUME LaunchInv, RecordLaunch
  PROVE  LaunchInv'
<1>0. LaunchTypeOK /\ cur \in RunIds /\ mem.stage \in Stages
  BY InvParts DEF RecordLaunch, StageInv, LaunchTypeOK, Memories, Unheld
<1>1. LaunchTypeOK'
  <2>l. state[cur].launches \cup {mem.stage} \in SUBSET Stages
    BY <1>0 DEF LaunchTypeOK, Accounts
  <2>a. [state[cur] EXCEPT !.launches = state[cur].launches \cup {mem.stage}, !.invoked = mem.stage, !.marker = mem.marker] \in Accounts
    BY <1>0, StageNumbers, AccountFields, <2>l DEF LaunchTypeOK, Memories
  <2>s. state' = [state EXCEPT ![cur] = [state[cur] EXCEPT !.launches = state[cur].launches \cup {mem.stage}, !.invoked = mem.stage, !.marker = mem.marker]]
    BY <1>0 DEF RecordLaunch, LaunchTypeOK
  <2>2. state' \in [RunIds -> Accounts]
    BY <1>0, <2>a, <2>s, RunUpdate DEF LaunchTypeOK
  <2> QED BY <1>0, <2>2 DEF RecordLaunch, LaunchTypeOK, Unheld
<1>2. OwnRun
  BY <1>0 DEF RecordLaunch, OwnRun, LaunchTypeOK, Unheld
<1>3. ASSUME NEW s \in Stages PROVE GateInv(cur, s)'
  BY <1>0, InvParts DEF RecordLaunch, GateInv
<1>4. ASSUME NEW s \in Stages PROVE LedgerInv(cur, s)'
  BY <1>0, InvParts DEF RecordLaunch, LedgerInv
<1>5. StageInv'
  BY <1>0, InvParts DEF RecordLaunch, StageInv, LaunchTypeOK, Memories, Unheld, Unspawned, Armed, Drained, Certain, HotInv, Hot
<1>6. HotInv'
  BY <1>0, InvParts DEF RecordLaunch, StageInv, HotInv, Hot, LaunchTypeOK, Memories, Unheld, Collected, Certain
<1>7. sealed' = sealed
  BY DEF RecordLaunch
<1> QED BY <1>1, <1>2, <1>3, <1>4, <1>5, <1>6, <1>7, OwnRunInv

LEMMA SpawnGateInv ==
  ASSUME LaunchInv, SpawnGate
  PROVE  LaunchInv'
<1>0. LaunchTypeOK /\ cur \in RunIds /\ mem.stage \in Stages
  BY InvParts DEF SpawnGate, StageInv, LaunchTypeOK, Memories, Unheld
<1>1. LaunchTypeOK'
  <2>4. proc' \in [RunIds -> [Stages -> Quiet \cup {"gate", "waiting", "provider"}]]
    BY <1>0, AttemptUpdate DEF SpawnGate, LaunchTypeOK, Quiet
  <2>5. pipe' \in [RunIds -> [Stages -> {"none", "open", "sent", "closed"}]]
    BY <1>0, AttemptUpdate DEF SpawnGate, LaunchTypeOK
  <2> QED BY <1>0, <2>4, <2>5 DEF SpawnGate, LaunchTypeOK, Unheld
<1>2. OwnRun
  BY <1>0 DEF SpawnGate, OwnRun, LaunchTypeOK, Unheld
<1>3. ASSUME NEW s \in Stages PROVE GateInv(cur, s)'
  BY <1>0, InvParts DEF SpawnGate, GateInv, StageInv, HotInv, Hot, LaunchTypeOK, Unheld, Unspawned
<1>4. ASSUME NEW s \in Stages PROVE LedgerInv(cur, s)'
  BY <1>0, InvParts DEF SpawnGate, LedgerInv, StageInv, LaunchTypeOK, Unheld, Unspawned, Armed, Drained, Certain
<1>s. \A s \in Stages : s > mem'.stage =>
        proc'[cur][s] = "none" /\ pipe'[cur][s] = "none" /\ ledger'[cur][s] = "none"
  BY <1>0, InvParts DEF SpawnGate, StageInv, LaunchTypeOK, Memories, Unheld, Stages
<1>5. StageInv'
  BY <1>0, <1>s, InvParts DEF SpawnGate, StageInv, LaunchTypeOK, Memories, Unheld, Unspawned, Armed, Drained, Certain, HotInv, Hot
<1>6. HotInv'
  BY <1>0, InvParts DEF SpawnGate, StageInv, HotInv, Hot, LaunchTypeOK, Memories, Unheld, Collected, Certain
<1>7. sealed' = sealed
  BY DEF SpawnGate
<1> QED BY <1>1, <1>2, <1>3, <1>4, <1>5, <1>6, <1>7, OwnRunInv

LEMMA SpawnFailsInv ==
  ASSUME LaunchInv, SpawnFails
  PROVE  LaunchInv'
<1>0. LaunchTypeOK /\ cur \in RunIds /\ mem.stage \in Stages
  BY InvParts DEF SpawnFails, StageInv, LaunchTypeOK, Memories, Unheld
<1>1. LaunchTypeOK'
  <2>1. mem' \in Memories
    BY <1>0, InvParts, StageNumbers DEF SpawnFails, LaunchTypeOK, Memories, NoMemory
  <2>3. evidence' \in [RunIds -> [Stages -> Phases]]
    BY <1>0, AttemptUpdate DEF SpawnFails, LaunchTypeOK, Phases
  <2> QED BY <1>0, <2>1, <2>3 DEF SpawnFails, LaunchTypeOK, Unheld
<1>2. OwnRun
  BY <1>0 DEF SpawnFails, OwnRun, LaunchTypeOK, Unheld
<1>3. ASSUME NEW s \in Stages PROVE GateInv(cur, s)'
  BY <1>0, InvParts DEF SpawnFails, GateInv, StageInv, HotInv, Hot, LaunchTypeOK, Unheld, Unspawned
<1>4. ASSUME NEW s \in Stages PROVE LedgerInv(cur, s)'
  BY <1>0, InvParts DEF SpawnFails, LedgerInv
<1>s. \A s \in Stages : s > mem'.stage =>
        proc'[cur][s] = "none" /\ pipe'[cur][s] = "none" /\ ledger'[cur][s] = "none"
  BY <1>0, InvParts DEF SpawnFails, StageInv, LaunchTypeOK, Memories, Unheld, Stages
<1>5. StageInv'
  BY <1>0, <1>s, InvParts DEF SpawnFails, StageInv, LaunchTypeOK, Memories, Unheld, Unspawned, Armed, Drained, Certain, HotInv, Hot
<1>6. HotInv'
  BY <1>0, InvParts DEF SpawnFails, StageInv, HotInv, Hot, LaunchTypeOK, Memories, Unheld, Collected, Certain
<1>7. sealed' = sealed
  BY DEF SpawnFails
<1> QED BY <1>1, <1>2, <1>3, <1>4, <1>5, <1>6, <1>7, OwnRunInv

LEMMA AuthorizeInv ==
  ASSUME LaunchInv, Authorize
  PROVE  LaunchInv'
<1>0. LaunchTypeOK /\ cur \in RunIds /\ mem.stage \in Stages
  BY InvParts DEF Authorize, StageInv, LaunchTypeOK, Memories, Unheld
<1>1. LaunchTypeOK'
  <2>3. evidence' \in [RunIds -> [Stages -> Phases]]
    BY <1>0, AttemptUpdate DEF Authorize, LaunchTypeOK, Phases
  <2> QED BY <1>0, <2>3 DEF Authorize, LaunchTypeOK, Unheld
<1>2. OwnRun
  BY <1>0 DEF Authorize, OwnRun, LaunchTypeOK, Unheld
<1>3. ASSUME NEW s \in Stages PROVE GateInv(cur, s)'
  BY <1>0, InvParts DEF Authorize, GateInv, StageInv, HotInv, Hot, LaunchTypeOK, Unheld, Unspawned
<1>4. ASSUME NEW s \in Stages PROVE LedgerInv(cur, s)'
  BY <1>0, InvParts DEF Authorize, LedgerInv
<1>5. StageInv'
  BY <1>0, InvParts DEF Authorize, StageInv, LaunchTypeOK, Memories, Unheld, Unspawned, Armed, Drained, Certain, HotInv, Hot
<1>6. HotInv'
  BY <1>0, InvParts DEF Authorize, StageInv, HotInv, Hot, LaunchTypeOK, Memories, Unheld, Collected, Certain
<1>7. sealed' = sealed
  BY DEF Authorize
<1> QED BY <1>1, <1>2, <1>3, <1>4, <1>5, <1>6, <1>7, OwnRunInv

LEMMA GateRefusedInv ==
  ASSUME LaunchInv, GateRefused
  PROVE  LaunchInv'
<1>0. LaunchTypeOK /\ cur \in RunIds /\ mem.stage \in Stages
  BY InvParts DEF GateRefused, StageInv, LaunchTypeOK, Memories, Unheld
<1>1. LaunchTypeOK'
  <2>1. mem' \in Memories
    BY <1>0, InvParts, StageNumbers DEF GateRefused, LaunchTypeOK, Memories, NoMemory
  <2>4. proc' \in [RunIds -> [Stages -> Quiet \cup {"gate", "waiting", "provider"}]]
    BY <1>0, AttemptUpdate DEF GateRefused, LaunchTypeOK, Quiet
  <2>5. pipe' \in [RunIds -> [Stages -> {"none", "open", "sent", "closed"}]]
    BY <1>0, AttemptUpdate DEF GateRefused, LaunchTypeOK
  <2> QED BY <1>0, <2>1, <2>4, <2>5 DEF GateRefused, LaunchTypeOK, Unheld
<1>2. OwnRun
  BY <1>0 DEF GateRefused, OwnRun, LaunchTypeOK, Unheld
<1>3. ASSUME NEW s \in Stages PROVE GateInv(cur, s)'
  BY <1>0, InvParts DEF GateRefused, GateInv, StageInv, HotInv, Hot, LaunchTypeOK, Unheld, Unspawned
<1>4. ASSUME NEW s \in Stages PROVE LedgerInv(cur, s)'
  BY <1>0, InvParts DEF GateRefused, LedgerInv, StageInv, LaunchTypeOK, Unheld, Unspawned, Armed, Drained, Certain
<1>s. \A s \in Stages : s > mem'.stage =>
        proc'[cur][s] = "none" /\ pipe'[cur][s] = "none" /\ ledger'[cur][s] = "none"
  BY <1>0, InvParts DEF GateRefused, StageInv, LaunchTypeOK, Memories, Unheld, Stages
<1>5. StageInv'
  BY <1>0, <1>s, InvParts DEF GateRefused, StageInv, LaunchTypeOK, Memories, Unheld, Unspawned, Armed, Drained, Certain, HotInv, Hot
<1>6. HotInv'
  BY <1>0, InvParts DEF GateRefused, StageInv, HotInv, Hot, LaunchTypeOK, Memories, Unheld, Collected, Certain
<1>7. sealed' = sealed
  BY DEF GateRefused
<1> QED BY <1>1, <1>2, <1>3, <1>4, <1>5, <1>6, <1>7, OwnRunInv

LEMMA WithdrawInv ==
  ASSUME LaunchInv, Withdraw
  PROVE  LaunchInv'
<1>0. LaunchTypeOK /\ cur \in RunIds /\ mem.stage \in Stages
  BY InvParts DEF Withdraw, StageInv, LaunchTypeOK, Memories, Unheld
<1>1. LaunchTypeOK'
  <2>e. evidence[cur][mem.stage] \in Phases
    BY <1>0 DEF LaunchTypeOK
  <2>3. evidence' \in [RunIds -> [Stages -> Phases]]
    BY <1>0, <2>e, AttemptUpdate, Withdrawal DEF Withdraw, LaunchTypeOK
  <2> QED BY <1>0, <2>3 DEF Withdraw, LaunchTypeOK, Unheld
<1>2. OwnRun
  BY <1>0 DEF Withdraw, OwnRun, LaunchTypeOK, Unheld
<1>3. ASSUME NEW s \in Stages PROVE GateInv(cur, s)'
  BY <1>0, InvParts DEF Withdraw, GateInv, StageInv, HotInv, Hot, LaunchTypeOK, Unheld, Unspawned
<1>4. ASSUME NEW s \in Stages PROVE LedgerInv(cur, s)'
  BY <1>0, InvParts DEF Withdraw, LedgerInv
<1>5. StageInv'
  BY <1>0, InvParts DEF Withdraw, StageInv, LaunchTypeOK, Memories, Unheld, Unspawned, Armed, Drained, Certain, HotInv, Hot
<1>6. HotInv'
  BY <1>0, InvParts DEF Withdraw, StageInv, HotInv, Hot, LaunchTypeOK, Memories, Unheld, Collected, Certain
<1>7. sealed' = sealed
  BY DEF Withdraw
<1> QED BY <1>1, <1>2, <1>3, <1>4, <1>5, <1>6, <1>7, OwnRunInv

LEMMA ProceedInv ==
  ASSUME LaunchInv, Proceed
  PROVE  LaunchInv'
<1>0. LaunchTypeOK /\ cur \in RunIds /\ mem.stage \in Stages
  BY InvParts DEF Proceed, StageInv, LaunchTypeOK, Memories, Unheld
<1>1. LaunchTypeOK'
  <2>5. pipe' \in [RunIds -> [Stages -> {"none", "open", "sent", "closed"}]]
    BY <1>0, AttemptUpdate DEF Proceed, LaunchTypeOK
  <2> QED BY <1>0, <2>5 DEF Proceed, LaunchTypeOK, Unheld
<1>2. OwnRun
  BY <1>0 DEF Proceed, OwnRun, LaunchTypeOK, Unheld
<1>3. ASSUME NEW s \in Stages PROVE GateInv(cur, s)'
  BY <1>0, InvParts DEF Proceed, GateInv, StageInv, HotInv, Hot, LaunchTypeOK, Unheld, Unspawned
<1>4. ASSUME NEW s \in Stages PROVE LedgerInv(cur, s)'
  BY <1>0, InvParts DEF Proceed, LedgerInv, StageInv, LaunchTypeOK, Unheld, Unspawned, Armed, Drained, Certain
<1>s. \A s \in Stages : s > mem'.stage =>
        proc'[cur][s] = "none" /\ pipe'[cur][s] = "none" /\ ledger'[cur][s] = "none"
  BY <1>0, InvParts DEF Proceed, StageInv, LaunchTypeOK, Memories, Unheld, Stages
<1>5. StageInv'
  BY <1>0, <1>s, InvParts DEF Proceed, StageInv, LaunchTypeOK, Memories, Unheld, Unspawned, Armed, Drained, Certain, HotInv, Hot
<1>6. HotInv'
  BY <1>0, InvParts DEF Proceed, StageInv, HotInv, Hot, LaunchTypeOK, Memories, Unheld, Collected, Certain
<1>7. sealed' = sealed
  BY DEF Proceed
<1> QED BY <1>1, <1>2, <1>3, <1>4, <1>5, <1>6, <1>7, OwnRunInv

LEMMA AuthorizedFailsInv ==
  ASSUME LaunchInv, AuthorizedFails
  PROVE  LaunchInv'
<1>0. LaunchTypeOK /\ cur \in RunIds /\ mem.stage \in Stages
  BY InvParts DEF AuthorizedFails, StageInv, LaunchTypeOK, Memories, Unheld
<1>1. LaunchTypeOK'
  <2>1. mem' \in Memories
    BY <1>0, InvParts, StageNumbers DEF AuthorizedFails, LaunchTypeOK, Memories, NoMemory
  <2>4. proc' \in [RunIds -> [Stages -> Quiet \cup {"gate", "waiting", "provider"}]]
    BY <1>0, AttemptUpdate DEF AuthorizedFails, LaunchTypeOK, Quiet
  <2>5. pipe' \in [RunIds -> [Stages -> {"none", "open", "sent", "closed"}]]
    BY <1>0, AttemptUpdate DEF AuthorizedFails, LaunchTypeOK
  <2> QED BY <1>0, <2>1, <2>4, <2>5 DEF AuthorizedFails, LaunchTypeOK, Unheld
<1>2. OwnRun
  BY <1>0 DEF AuthorizedFails, OwnRun, LaunchTypeOK, Unheld
<1>3. ASSUME NEW s \in Stages PROVE GateInv(cur, s)'
  BY <1>0, InvParts DEF AuthorizedFails, GateInv, StageInv, HotInv, Hot, LaunchTypeOK, Unheld, Unspawned
<1>4. ASSUME NEW s \in Stages PROVE LedgerInv(cur, s)'
  BY <1>0, InvParts DEF AuthorizedFails, LedgerInv, StageInv, LaunchTypeOK, Unheld, Unspawned, Armed, Drained, Certain
<1>s. \A s \in Stages : s > mem'.stage =>
        proc'[cur][s] = "none" /\ pipe'[cur][s] = "none" /\ ledger'[cur][s] = "none"
  BY <1>0, InvParts DEF AuthorizedFails, StageInv, LaunchTypeOK, Memories, Unheld, Stages
<1>5. StageInv'
  BY <1>0, <1>s, InvParts DEF AuthorizedFails, StageInv, LaunchTypeOK, Memories, Unheld, Unspawned, Armed, Drained, Certain, HotInv, Hot
<1>6. HotInv'
  BY <1>0, InvParts DEF AuthorizedFails, StageInv, HotInv, Hot, LaunchTypeOK, Memories, Unheld, Collected, Certain
<1>7. sealed' = sealed
  BY DEF AuthorizedFails
<1> QED BY <1>1, <1>2, <1>3, <1>4, <1>5, <1>6, <1>7, OwnRunInv

LEMMA ConfirmInv ==
  ASSUME LaunchInv, Confirm
  PROVE  LaunchInv'
<1>0. LaunchTypeOK /\ cur \in RunIds /\ mem.stage \in Stages
  BY InvParts DEF Confirm, StageInv, LaunchTypeOK, Memories, Unheld
<1>1. LaunchTypeOK'
  <2>3. evidence' \in [RunIds -> [Stages -> Phases]]
    BY <1>0, AttemptUpdate DEF Confirm, LaunchTypeOK, Phases
  <2> QED BY <1>0, <2>3 DEF Confirm, LaunchTypeOK, Unheld
<1>2. OwnRun
  BY <1>0 DEF Confirm, OwnRun, LaunchTypeOK, Unheld
<1>3. ASSUME NEW s \in Stages PROVE GateInv(cur, s)'
  BY <1>0, InvParts DEF Confirm, GateInv, StageInv, HotInv, Hot, LaunchTypeOK, Unheld, Unspawned
<1>4. ASSUME NEW s \in Stages PROVE LedgerInv(cur, s)'
  BY <1>0, InvParts DEF Confirm, LedgerInv
<1>5. StageInv'
  BY <1>0, InvParts DEF Confirm, StageInv, LaunchTypeOK, Memories, Unheld, Unspawned, Armed, Drained, Certain, HotInv, Hot
<1>6. HotInv'
  BY <1>0, InvParts DEF Confirm, StageInv, HotInv, Hot, LaunchTypeOK, Memories, Unheld, Collected, Certain
<1>7. sealed' = sealed
  BY DEF Confirm
<1> QED BY <1>1, <1>2, <1>3, <1>4, <1>5, <1>6, <1>7, OwnRunInv

LEMMA ExecFailedInv ==
  ASSUME LaunchInv, ExecFailed
  PROVE  LaunchInv'
<1>0. LaunchTypeOK /\ cur \in RunIds /\ mem.stage \in Stages
  BY InvParts DEF ExecFailed, StageInv, LaunchTypeOK, Memories, Unheld
<1>1. LaunchTypeOK'
  <2>1. mem' \in Memories
    BY <1>0, InvParts, StageNumbers DEF ExecFailed, LaunchTypeOK, Memories, NoMemory
  <2>3. evidence' \in [RunIds -> [Stages -> Phases]]
    BY <1>0, AttemptUpdate DEF ExecFailed, LaunchTypeOK, Phases
  <2> QED BY <1>0, <2>1, <2>3 DEF ExecFailed, LaunchTypeOK, Unheld
<1>2. OwnRun
  BY <1>0 DEF ExecFailed, OwnRun, LaunchTypeOK, Unheld
<1>3. ASSUME NEW s \in Stages PROVE GateInv(cur, s)'
  BY <1>0, InvParts DEF ExecFailed, GateInv, StageInv, HotInv, Hot, LaunchTypeOK, Unheld, Unspawned
<1>4. ASSUME NEW s \in Stages PROVE LedgerInv(cur, s)'
  BY <1>0, InvParts DEF ExecFailed, LedgerInv
<1>s. \A s \in Stages : s > mem'.stage =>
        proc'[cur][s] = "none" /\ pipe'[cur][s] = "none" /\ ledger'[cur][s] = "none"
  BY <1>0, InvParts DEF ExecFailed, StageInv, LaunchTypeOK, Memories, Unheld, Stages
<1>5. StageInv'
  BY <1>0, <1>s, InvParts DEF ExecFailed, StageInv, LaunchTypeOK, Memories, Unheld, Unspawned, Armed, Drained, Certain, HotInv, Hot
<1>6. HotInv'
  BY <1>0, InvParts DEF ExecFailed, StageInv, HotInv, Hot, LaunchTypeOK, Memories, Unheld, Collected, Certain
<1>7. sealed' = sealed
  BY DEF ExecFailed
<1> QED BY <1>1, <1>2, <1>3, <1>4, <1>5, <1>6, <1>7, OwnRunInv

LEMMA RecordTerminalInv ==
  ASSUME LaunchInv, RecordTerminal
  PROVE  LaunchInv'
<1>0. LaunchTypeOK /\ cur \in RunIds /\ mem.stage \in Stages
  BY InvParts DEF RecordTerminal, StageInv, LaunchTypeOK, Memories, Unheld
<1>1. LaunchTypeOK'
  <2>3. evidence' \in [RunIds -> [Stages -> Phases]]
    BY <1>0, AttemptUpdate DEF RecordTerminal, LaunchTypeOK, Phases
  <2> QED BY <1>0, <2>3 DEF RecordTerminal, LaunchTypeOK, Unheld
<1>2. OwnRun
  BY <1>0 DEF RecordTerminal, OwnRun, LaunchTypeOK, Unheld
<1>3. ASSUME NEW s \in Stages PROVE GateInv(cur, s)'
  BY <1>0, InvParts DEF RecordTerminal, GateInv, StageInv, HotInv, Hot, LaunchTypeOK, Unheld, Unspawned
<1>4. ASSUME NEW s \in Stages PROVE LedgerInv(cur, s)'
  BY <1>0, InvParts DEF RecordTerminal, LedgerInv
<1>5. StageInv'
  BY <1>0, InvParts DEF RecordTerminal, StageInv, LaunchTypeOK, Memories, Unheld, Unspawned, Armed, Drained, Certain, HotInv, Hot
<1>6. HotInv'
  BY <1>0, InvParts DEF RecordTerminal, StageInv, HotInv, Hot, LaunchTypeOK, Memories, Unheld, Collected, Certain
<1>7. sealed' = sealed
  BY DEF RecordTerminal
<1> QED BY <1>1, <1>2, <1>3, <1>4, <1>5, <1>6, <1>7, OwnRunInv

LEMMA RaiseInv ==
  ASSUME LaunchInv, Raise
  PROVE  LaunchInv'
<1>0. LaunchTypeOK /\ cur \in RunIds /\ mem.stage \in Stages
  BY InvParts DEF Raise, StageInv, LaunchTypeOK, Memories, Unheld
<1>1. LaunchTypeOK'
  <2>1. mem' \in Memories
    BY <1>0, InvParts, StageNumbers DEF Raise, LaunchTypeOK, Memories, NoMemory
  <2> QED BY <1>0, <2>1 DEF Raise, LaunchTypeOK, Unheld
<1>2. OwnRun
  BY <1>0 DEF Raise, OwnRun, LaunchTypeOK, Unheld
<1>3. ASSUME NEW s \in Stages PROVE GateInv(cur, s)'
  BY <1>0, InvParts DEF Raise, GateInv
<1>4. ASSUME NEW s \in Stages PROVE LedgerInv(cur, s)'
  BY <1>0, InvParts DEF Raise, LedgerInv
<1>s. \A s \in Stages : s > mem'.stage =>
        proc'[cur][s] = "none" /\ pipe'[cur][s] = "none" /\ ledger'[cur][s] = "none"
  BY <1>0, InvParts DEF Raise, StageInv, LaunchTypeOK, Memories, Unheld, Stages
<1>5. StageInv'
  BY <1>0, <1>s, InvParts DEF Raise, StageInv, LaunchTypeOK, Memories, Unheld, Unspawned, Armed, Drained, Certain, HotInv, Hot
<1>6. HotInv'
  BY <1>0, InvParts DEF Raise, StageInv, HotInv, Hot, LaunchTypeOK, Memories, Unheld, Collected, Certain
<1>7. sealed' = sealed
  BY DEF Raise
<1> QED BY <1>1, <1>2, <1>3, <1>4, <1>5, <1>6, <1>7, OwnRunInv

LEMMA CloseAdmissionInv ==
  ASSUME LaunchInv, CloseAdmission
  PROVE  LaunchInv'
<1>0. LaunchTypeOK /\ cur \in RunIds /\ mem.stage \in Stages
  BY InvParts DEF CloseAdmission, StageInv, LaunchTypeOK, Memories, Unheld
<1>1. LaunchTypeOK'
  <2>1. mem' \in Memories
    BY <1>0, StageNumbers DEF CloseAdmission, LaunchTypeOK, Memories
  <2> QED BY <1>0, <2>1 DEF CloseAdmission, LaunchTypeOK, Unheld
<1>2. OwnRun
  BY <1>0 DEF CloseAdmission, OwnRun, LaunchTypeOK, Unheld
<1>3. ASSUME NEW s \in Stages PROVE GateInv(cur, s)'
  BY <1>0, InvParts DEF CloseAdmission, GateInv
<1>4. ASSUME NEW s \in Stages PROVE LedgerInv(cur, s)'
  BY <1>0, InvParts DEF CloseAdmission, LedgerInv, StageInv, LaunchTypeOK, Unheld, Unspawned, Armed, Drained, Certain
<1>s. \A s \in Stages : s > mem'.stage =>
        proc'[cur][s] = "none" /\ pipe'[cur][s] = "none" /\ ledger'[cur][s] = "none"
  BY <1>0, InvParts DEF CloseAdmission, StageInv, LaunchTypeOK, Memories, Unheld, Stages
<1>5. StageInv'
  BY <1>0, <1>s, InvParts DEF CloseAdmission, StageInv, LaunchTypeOK, Memories, Unheld, Unspawned, Armed, Drained, Certain, HotInv, Hot
<1>6. HotInv'
  BY <1>0, InvParts DEF CloseAdmission, StageInv, HotInv, Hot, LaunchTypeOK, Memories, Unheld, Collected, Certain
<1>7. sealed' = sealed
  BY DEF CloseAdmission
<1> QED BY <1>1, <1>2, <1>3, <1>4, <1>5, <1>6, <1>7, OwnRunInv

LEMMA NothingToDrainInv ==
  ASSUME LaunchInv, NothingToDrain
  PROVE  LaunchInv'
<1>0. LaunchTypeOK /\ cur \in RunIds /\ mem.stage \in Stages
  BY InvParts DEF NothingToDrain, StageInv, LaunchTypeOK, Memories, Unheld
<1>1. LaunchTypeOK'
  BY <1>0 DEF NothingToDrain, LaunchTypeOK, Unheld
<1>2. OwnRun
  BY <1>0 DEF NothingToDrain, OwnRun, LaunchTypeOK, Unheld
<1>3. ASSUME NEW s \in Stages PROVE GateInv(cur, s)'
  BY <1>0, InvParts DEF NothingToDrain, GateInv
<1>4. ASSUME NEW s \in Stages PROVE LedgerInv(cur, s)'
  BY <1>0, InvParts DEF NothingToDrain, LedgerInv
<1>5. StageInv'
  BY <1>0, InvParts DEF NothingToDrain, StageInv, LaunchTypeOK, Memories, Unheld, Unspawned, Armed, Drained, Certain, HotInv, Hot
<1>6. HotInv'
  BY <1>0, InvParts DEF NothingToDrain, StageInv, HotInv, Hot, LaunchTypeOK, Memories, Unheld, Collected, Certain
<1>7. sealed' = sealed
  BY DEF NothingToDrain
<1> QED BY <1>1, <1>2, <1>3, <1>4, <1>5, <1>6, <1>7, OwnRunInv

LEMMA EndDrainInv ==
  ASSUME LaunchInv, EndDrain
  PROVE  LaunchInv'
<1>0. LaunchTypeOK /\ cur \in RunIds /\ mem.stage \in Stages
  BY InvParts DEF EndDrain, StageInv, LaunchTypeOK, Memories, Unheld
<1>1. LaunchTypeOK'
  BY <1>0 DEF EndDrain, LaunchTypeOK, Unheld
<1>2. OwnRun
  BY <1>0 DEF EndDrain, OwnRun, LaunchTypeOK, Unheld
<1>3. ASSUME NEW s \in Stages PROVE GateInv(cur, s)'
  BY <1>0, InvParts DEF EndDrain, GateInv
<1>4. ASSUME NEW s \in Stages PROVE LedgerInv(cur, s)'
  BY <1>0, InvParts DEF EndDrain, LedgerInv, StageInv, LaunchTypeOK, Unheld, Unspawned, Armed, Drained, Certain
<1>s. \A s \in Stages : s > mem'.stage =>
        proc'[cur][s] = "none" /\ pipe'[cur][s] = "none" /\ ledger'[cur][s] = "none"
  BY <1>0, InvParts DEF EndDrain, StageInv, LaunchTypeOK, Memories, Unheld, Stages
<1>5. StageInv'
  BY <1>0, <1>s, InvParts DEF EndDrain, StageInv, LaunchTypeOK, Memories, Unheld, Unspawned, Armed, Drained, Certain, HotInv, Hot
<1>6. HotInv'
  BY <1>0, InvParts DEF EndDrain, StageInv, HotInv, Hot, LaunchTypeOK, Memories, Unheld, Collected, Certain
<1>7. sealed' = sealed
  BY DEF EndDrain
<1> QED BY <1>1, <1>2, <1>3, <1>4, <1>5, <1>6, <1>7, OwnRunInv

LEMMA TransportInv ==
  ASSUME LaunchInv, Transport
  PROVE  LaunchInv'
<1>0. LaunchTypeOK /\ cur \in RunIds /\ mem.stage \in Stages
  BY InvParts DEF Transport, StageInv, LaunchTypeOK, Memories, Unheld
<1>1. LaunchTypeOK'
  <2>a. [state[cur] EXCEPT !.transported = mem.stage, !.marker = mem.marker] \in Accounts
    BY <1>0, StageNumbers, AccountFields DEF LaunchTypeOK, Memories
  <2>s. state' = [state EXCEPT ![cur] = [state[cur] EXCEPT !.transported = mem.stage, !.marker = mem.marker]]
    BY <1>0 DEF Transport, LaunchTypeOK
  <2>2. state' \in [RunIds -> Accounts]
    BY <1>0, <2>a, <2>s, RunUpdate DEF LaunchTypeOK
  <2> QED BY <1>0, <2>2 DEF Transport, LaunchTypeOK, Unheld
<1>2. OwnRun
  BY <1>0 DEF Transport, OwnRun, LaunchTypeOK, Unheld
<1>3. ASSUME NEW s \in Stages PROVE GateInv(cur, s)'
  BY <1>0, InvParts DEF Transport, GateInv
<1>4. ASSUME NEW s \in Stages PROVE LedgerInv(cur, s)'
  BY <1>0, InvParts DEF Transport, LedgerInv
<1>5. StageInv'
  BY <1>0, InvParts DEF Transport, StageInv, LaunchTypeOK, Memories, Unheld, Unspawned, Armed, Drained, Certain, HotInv, Hot
<1>6. HotInv'
  BY <1>0, InvParts DEF Transport, StageInv, HotInv, Hot, LaunchTypeOK, Memories, Unheld, Collected, Certain
<1>7. sealed' = sealed
  BY DEF Transport
<1> QED BY <1>1, <1>2, <1>3, <1>4, <1>5, <1>6, <1>7, OwnRunInv

LEMMA CompleteStageInv ==
  ASSUME LaunchInv, CompleteStage
  PROVE  LaunchInv'
<1>0. LaunchTypeOK /\ cur \in RunIds /\ mem.stage \in Stages
  BY InvParts DEF CompleteStage, StageInv, LaunchTypeOK, Memories, Unheld
<1>1. LaunchTypeOK'
  <2>m. mem.stage # last => mem.stage + 1 \in Stages
    BY <1>0, InvParts, LaunchAssumption DEF CompleteStage, StageInv, LaunchTypeOK, Unheld, Stages
  <2>1. mem' \in Memories
    BY <1>0, <2>m DEF CompleteStage, LaunchTypeOK, Memories
  <2>l. (mem.stage = last /\ src[cur] = 0) \in BOOLEAN
    OBVIOUS
  <2>a. [state[cur] EXCEPT !.completed = mem.stage, !.finalizing = (mem.stage = last /\ src[cur] = 0)] \in Accounts
    BY <1>0, StageNumbers, AccountFields, <2>l DEF LaunchTypeOK, Memories
  <2>s. state' = [state EXCEPT ![cur] = [state[cur] EXCEPT !.completed = mem.stage, !.finalizing = (mem.stage = last /\ src[cur] = 0)]]
    BY <1>0 DEF CompleteStage, LaunchTypeOK
  <2>2. state' \in [RunIds -> Accounts]
    BY <1>0, <2>a, <2>s, RunUpdate DEF LaunchTypeOK
  <2> QED BY <1>0, <2>1, <2>2 DEF CompleteStage, LaunchTypeOK, Unheld
<1>2. OwnRun
  BY <1>0 DEF CompleteStage, OwnRun, LaunchTypeOK, Unheld
<1>3. ASSUME NEW s \in Stages PROVE GateInv(cur, s)'
  BY <1>0, InvParts DEF CompleteStage, GateInv
<1>4. ASSUME NEW s \in Stages PROVE LedgerInv(cur, s)'
  BY <1>0, InvParts DEF CompleteStage, LedgerInv
<1>s. \A s \in Stages : s > mem'.stage =>
        proc'[cur][s] = "none" /\ pipe'[cur][s] = "none" /\ ledger'[cur][s] = "none"
  BY <1>0, InvParts DEF CompleteStage, StageInv, LaunchTypeOK, Memories, Unheld, Stages
<1>5. StageInv'
  <2>1. /\ cur' \in RunIds /\ mem'.stage <= last' /\ ~sealed'[cur'] /\ mem.stage \in Nat /\ last \in Nat
    BY <1>0, InvParts DEF CompleteStage, StageInv, LaunchTypeOK, Memories, Unheld, Stages
  <2>2. CASE mem.stage = last
    BY <1>0, <1>s, <2>1, <2>2, InvParts DEF CompleteStage, StageInv, LaunchTypeOK, Memories, Unheld,
       Unspawned, Armed, Drained
  <2>3. CASE mem.stage # last
    <3>1. mem'.stage \in Stages /\ mem'.stage > mem.stage
      BY <1>0, <1>1, <2>1, <2>3 DEF CompleteStage, LaunchTypeOK, Memories
    <3>2. ledger'[cur][mem'.stage] = "none" /\ pipe'[cur][mem'.stage] = "none"
      BY <1>0, <3>1, InvParts DEF CompleteStage, StageInv, Unheld
    <3> QED BY <1>0, <1>s, <2>1, <2>3, <3>2 DEF CompleteStage, StageInv, Unheld, Unspawned, Armed, Drained
  <2> QED BY <2>2, <2>3
<1>6. HotInv'
  BY <1>0, InvParts DEF CompleteStage, HotInv, Unheld, Collected, Hot
<1>7. sealed' = sealed
  BY DEF CompleteStage
<1> QED BY <1>1, <1>2, <1>3, <1>4, <1>5, <1>6, <1>7, OwnRunInv

LEMMA FailStageInv ==
  ASSUME LaunchInv, FailStage
  PROVE  LaunchInv'
<1>0. LaunchTypeOK /\ cur \in RunIds /\ mem.stage \in Stages
  BY InvParts DEF FailStage, StageInv, LaunchTypeOK, Memories, Unheld
<1>1. LaunchTypeOK'
  <2>1. mem' \in Memories
    BY <1>0, InvParts, StageNumbers DEF FailStage, LaunchTypeOK, Memories, NoMemory
  <2> QED BY <1>0, <2>1 DEF FailStage, LaunchTypeOK, Unheld
<1>2. OwnRun
  BY <1>0 DEF FailStage, OwnRun, LaunchTypeOK, Unheld
<1>3. ASSUME NEW s \in Stages PROVE GateInv(cur, s)'
  BY <1>0, InvParts DEF FailStage, GateInv
<1>4. ASSUME NEW s \in Stages PROVE LedgerInv(cur, s)'
  BY <1>0, InvParts DEF FailStage, LedgerInv
<1>s. \A s \in Stages : s > mem'.stage =>
        proc'[cur][s] = "none" /\ pipe'[cur][s] = "none" /\ ledger'[cur][s] = "none"
  BY <1>0, InvParts DEF FailStage, StageInv, LaunchTypeOK, Memories, Unheld, Stages
<1>5. StageInv'
  <2>1. pc \in {"drained", "transported"} /\ pc' = "reporting"
        /\ mem'.stage = mem.stage /\ mem'.outcome # "ok"
    BY <1>0 DEF FailStage, LaunchTypeOK, Memories
  <2>2. mem.stage <= last /\ ~sealed[cur] /\ ledger[cur][mem.stage] # "open"
    BY <2>1, InvParts DEF StageInv, Drained, Unheld
  <2>3. UNCHANGED <<cur, last, sealed, ledger, pipe, proc, receipt, evidence, result>>
    BY DEF FailStage
  <2> QED BY <1>0, <1>s, <2>1, <2>2, <2>3 DEF StageInv, Unheld, Unspawned, Armed, Drained
<1>6. HotInv'
  BY <1>0, InvParts DEF FailStage, StageInv, HotInv, Hot, LaunchTypeOK, Memories, Unheld, Collected, Certain
<1>7. sealed' = sealed
  BY DEF FailStage
<1> QED BY <1>1, <1>2, <1>3, <1>4, <1>5, <1>6, <1>7, OwnRunInv

LEMMA WriteResultInv ==
  ASSUME LaunchInv, WriteResult
  PROVE  LaunchInv'
<1>0. LaunchTypeOK /\ cur \in RunIds /\ mem.stage \in Stages
  BY InvParts DEF WriteResult, StageInv, LaunchTypeOK, Memories, Unheld
<1>1. LaunchTypeOK'
  <2>6. mem.outcome \in {"blocked", "unproven", "fresh", "completed"}
    BY <1>0, InvParts DEF WriteResult, LaunchTypeOK, StageInv, Unheld, Memories
  <2> QED BY <1>0, <2>6 DEF WriteResult, LaunchTypeOK, Unheld
<1>2. OwnRun
  BY <1>0 DEF WriteResult, OwnRun, LaunchTypeOK, Unheld
<1>3. ASSUME NEW s \in Stages PROVE GateInv(cur, s)'
  BY <1>0, InvParts DEF WriteResult, GateInv
<1>4. ASSUME NEW s \in Stages PROVE LedgerInv(cur, s)'
  BY <1>0, InvParts DEF WriteResult, LedgerInv
<1>5. StageInv'
  BY <1>0, InvParts DEF WriteResult, StageInv, LaunchTypeOK, Memories, Unheld, Unspawned, Armed, Drained, Certain, HotInv, Hot
<1>6. HotInv'
  BY <1>0, InvParts DEF WriteResult, StageInv, HotInv, Hot, LaunchTypeOK, Memories, Unheld, Collected, Certain
<1>7. sealed' = sealed
  BY DEF WriteResult
<1> QED BY <1>1, <1>2, <1>3, <1>4, <1>5, <1>6, <1>7, OwnRunInv

LEMMA SealInv ==
  ASSUME LaunchInv, Seal
  PROVE  LaunchInv'
<1>0. LaunchTypeOK /\ cur \in RunIds /\ mem.stage \in Stages
  BY InvParts DEF Seal, StageInv, LaunchTypeOK, Memories, Unheld
<1>1. LaunchTypeOK'
  <2>1. mem' \in Memories
    BY <1>0, InvParts, StageNumbers DEF Seal, LaunchTypeOK, Memories, NoMemory
  <2>a. [state[cur] EXCEPT !.marker = mem.marker] \in Accounts
    BY <1>0, StageNumbers, AccountFields DEF LaunchTypeOK, Memories
  <2>s. state' = [state EXCEPT ![cur] = [state[cur] EXCEPT !.marker = mem.marker]]
    BY <1>0 DEF Seal, LaunchTypeOK
  <2>2. state' \in [RunIds -> Accounts]
    BY <1>0, <2>a, <2>s, RunUpdate DEF LaunchTypeOK
  <2> QED BY <1>0, <2>1, <2>2 DEF Seal, LaunchTypeOK, Unheld
<1>2. OwnRun
  BY <1>0 DEF Seal, OwnRun, LaunchTypeOK, Unheld
<1>3. ASSUME NEW s \in Stages PROVE GateInv(cur, s)'
  BY <1>0, InvParts DEF Seal, GateInv
<1>4. ASSUME NEW s \in Stages PROVE LedgerInv(cur, s)'
  BY <1>0, InvParts DEF Seal, LedgerInv
<1>5. StageInv'
  BY DEF Seal, StageInv, Unheld
<1>6. HotInv'
  BY DEF Seal, HotInv, Unheld
<1>7. SealedInv(cur)'
  BY <1>0, InvParts DEF Seal, StageInv, SealedInv, HotInv, Hot, LaunchTypeOK, Unheld, Drained, Collected
<1> QED BY <1>1, <1>2, <1>3, <1>4, <1>5, <1>6, <1>7, OwnRunInv

LEMMA CrashInv ==
  ASSUME LaunchInv, Crash
  PROVE  LaunchInv'
<1>0. LaunchTypeOK /\ cur \in RunIds /\ mem.stage \in Stages
  BY InvParts DEF Crash, StageInv, LaunchTypeOK, Memories, Unheld
<1>1. LaunchTypeOK'
  <2>1. mem' \in Memories
    BY <1>0, InvParts, StageNumbers DEF Crash, LaunchTypeOK, Memories, NoMemory
  <2>5. pipe' \in [RunIds -> [Stages -> {"none", "open", "sent", "closed"}]]
    BY <1>0 DEF Crash, LaunchTypeOK
  <2> QED BY <1>0, <2>1, <2>5 DEF Crash, LaunchTypeOK, Unheld
<1>2. OwnRun
  BY <1>0 DEF Crash, OwnRun, LaunchTypeOK, Unheld
<1>3. ASSUME NEW s \in Stages PROVE GateInv(cur, s)'
  BY <1>0, InvParts DEF Crash, GateInv, StageInv, HotInv, Hot, LaunchTypeOK, Unheld, Unspawned
<1>4. ASSUME NEW s \in Stages PROVE LedgerInv(cur, s)'
  BY <1>0, InvParts DEF Crash, LedgerInv, StageInv, LaunchTypeOK, Unheld, Unspawned, Armed, Drained, Certain
<1>5. StageInv'
  BY DEF Crash, StageInv, Unheld
<1>6. HotInv'
  BY DEF Crash, HotInv, Unheld
<1>7. sealed' = sealed
  BY DEF Crash
<1> QED BY <1>1, <1>2, <1>3, <1>4, <1>5, <1>6, <1>7, OwnRunInv

LEMMA DrainReceiptInv ==
  ASSUME LaunchInv, NEW o \in {"blocked", "fresh"}, DrainReceipt(o)
  PROVE  LaunchInv'
<1>0. LaunchTypeOK /\ cur \in RunIds /\ mem.stage \in Stages
  BY InvParts DEF DrainReceipt, StageInv, LaunchTypeOK, Memories, Unheld
<1>1. LaunchTypeOK'
  <2>1. mem' \in Memories
    BY <1>0, StageNumbers DEF DrainReceipt, LaunchTypeOK, Memories
  <2> QED BY <1>0, <2>1 DEF DrainReceipt, LaunchTypeOK, Unheld
<1>2. OwnRun
  BY <1>0 DEF DrainReceipt, OwnRun, LaunchTypeOK, Unheld
<1>3. ASSUME NEW s \in Stages PROVE GateInv(cur, s)'
  BY <1>0, InvParts DEF DrainReceipt, GateInv
<1>4. ASSUME NEW s \in Stages PROVE LedgerInv(cur, s)'
  BY <1>0, InvParts DEF DrainReceipt, LedgerInv, StageInv, LaunchTypeOK, Unheld, Unspawned, Armed, Drained, Certain
<1>s. \A s \in Stages : s > mem'.stage =>
        proc'[cur][s] = "none" /\ pipe'[cur][s] = "none" /\ ledger'[cur][s] = "none"
  BY <1>0, InvParts DEF DrainReceipt, StageInv, LaunchTypeOK, Memories, Unheld, Stages
<1>5. StageInv'
  BY <1>0, <1>s, InvParts DEF DrainReceipt, StageInv, LaunchTypeOK, Memories, Unheld, Unspawned, Armed, Drained, Certain, HotInv, Hot
<1>6. HotInv'
  BY <1>0, InvParts DEF DrainReceipt, StageInv, HotInv, Hot, LaunchTypeOK, Memories, Unheld, Collected, Certain
<1>7. sealed' = sealed
  BY DEF DrainReceipt
<1> QED BY <1>1, <1>2, <1>3, <1>4, <1>5, <1>6, <1>7, OwnRunInv

LEMMA CollectInv ==
  ASSUME LaunchInv, NEW o \in {"ok", "blocked", "unproven"}, Collect(o)
  PROVE  LaunchInv'
<1>0. LaunchTypeOK /\ cur \in RunIds /\ mem.stage \in Stages
  BY InvParts DEF Collect, StageInv, LaunchTypeOK, Memories, Unheld
<1>1. LaunchTypeOK'
  <2>1. mem' \in Memories
    BY <1>0, InvParts, StageNumbers DEF Collect, LaunchTypeOK, Memories, NoMemory
  <2>4. proc' \in [RunIds -> [Stages -> Quiet \cup {"gate", "waiting", "provider"}]]
    BY <1>0, AttemptUpdate DEF Collect, LaunchTypeOK, Quiet
  <2> QED BY <1>0, <2>1, <2>4 DEF Collect, LaunchTypeOK, Unheld
<1>2. OwnRun
  BY <1>0 DEF Collect, OwnRun, LaunchTypeOK, Unheld
<1>3. ASSUME NEW s \in Stages PROVE GateInv(cur, s)'
  BY <1>0, InvParts DEF Collect, GateInv, StageInv, HotInv, Hot, LaunchTypeOK, Unheld, Unspawned
<1>4. ASSUME NEW s \in Stages PROVE LedgerInv(cur, s)'
  BY <1>0, InvParts DEF Collect, LedgerInv
<1>s. \A s \in Stages : s > mem'.stage =>
        proc'[cur][s] = "none" /\ pipe'[cur][s] = "none" /\ ledger'[cur][s] = "none"
  BY <1>0, InvParts DEF Collect, StageInv, LaunchTypeOK, Memories, Unheld, Stages
<1>5. StageInv'
  BY <1>0, <1>s, InvParts DEF Collect, StageInv, LaunchTypeOK, Memories, Unheld, Unspawned, Armed, Drained, Certain, HotInv, Hot
<1>6. HotInv'
  BY <1>0, InvParts DEF Collect, StageInv, HotInv, Hot, LaunchTypeOK, Memories, Unheld, Collected, Certain
<1>7. sealed' = sealed
  BY DEF Collect
<1> QED BY <1>1, <1>2, <1>3, <1>4, <1>5, <1>6, <1>7, OwnRunInv

LEMMA FinalizedInv ==
  ASSUME LaunchInv, NEW o \in {"blocked", "completed"}, Finalized(o)
  PROVE  LaunchInv'
<1>0. LaunchTypeOK /\ cur \in RunIds /\ mem.stage \in Stages
  BY InvParts DEF Finalized, StageInv, LaunchTypeOK, Memories, Unheld
<1>1. LaunchTypeOK'
  <2>1. mem' \in Memories
    BY <1>0, InvParts, StageNumbers DEF Finalized, LaunchTypeOK, Memories, NoMemory
  <2> QED BY <1>0, <2>1 DEF Finalized, LaunchTypeOK, Unheld
<1>2. OwnRun
  BY <1>0 DEF Finalized, OwnRun, LaunchTypeOK, Unheld
<1>3. ASSUME NEW s \in Stages PROVE GateInv(cur, s)'
  BY <1>0, InvParts DEF Finalized, GateInv
<1>4. ASSUME NEW s \in Stages PROVE LedgerInv(cur, s)'
  BY <1>0, InvParts DEF Finalized, LedgerInv
<1>s. \A s \in Stages : s > mem'.stage =>
        proc'[cur][s] = "none" /\ pipe'[cur][s] = "none" /\ ledger'[cur][s] = "none"
  BY <1>0, InvParts DEF Finalized, StageInv, LaunchTypeOK, Memories, Unheld, Stages
<1>5. StageInv'
  BY <1>0, <1>s, InvParts DEF Finalized, StageInv, LaunchTypeOK, Memories, Unheld, Unspawned, Armed, Drained, Certain, HotInv, Hot
<1>6. HotInv'
  BY <1>0, InvParts DEF Finalized, StageInv, HotInv, Hot, LaunchTypeOK, Memories, Unheld, Collected, Certain
<1>7. sealed' = sealed
  BY DEF Finalized
<1> QED BY <1>1, <1>2, <1>3, <1>4, <1>5, <1>6, <1>7, OwnRunInv

-----------------------------------------------------------------------------
(* What the processes of any run do by themselves. *)
ProcessOf(r, s) ==
  \/ GateAwaits(r, s) \/ GateEnds(r, s) \/ GateExecs(r, s)
  \/ ProviderEnds(r, s) \/ WorkerStarts(r, s) \/ WorkerSettles(r, s)

LEMMA ProcessInv ==
  ASSUME LaunchInv, NEW r \in 1..cur, NEW s \in 1..last, ProcessOf(r, s)
  PROVE  LaunchInv'
<1>0. LaunchTypeOK /\ r \in RunIds /\ s \in Stages /\ r <= cur /\ cur \in Nat /\ r \in Nat
  <2>1. LaunchTypeOK
    BY InvParts
  <2>2. cur \in 0..MaxRuns /\ last \in Stages
    BY <2>1 DEF LaunchTypeOK
  <2> QED BY <2>1, <2>2, LaunchAssumption DEF RunIds, Stages
<1>1. LaunchTypeOK'
  <2>1. proc' \in [RunIds -> [Stages -> Quiet \cup {"gate", "waiting", "provider"}]]
    <3>1. \/ proc' = proc
          \/ \E v \in {"waiting", "gone", "provider"} : proc' = [proc EXCEPT ![r][s] = v]
      BY DEF ProcessOf, GateAwaits, GateEnds, GateExecs, ProviderEnds, WorkerStarts, WorkerSettles
    <3>2. {"waiting", "gone", "provider"} \subseteq Quiet \cup {"gate", "waiting", "provider"}
      BY DEF Quiet
    <3>3. proc \in [RunIds -> [Stages -> Quiet \cup {"gate", "waiting", "provider"}]]
      BY <1>0 DEF LaunchTypeOK
    <3>4. ASSUME NEW v \in {"waiting", "gone", "provider"}, proc' = [proc EXCEPT ![r][s] = v]
          PROVE  proc' \in [RunIds -> [Stages -> Quiet \cup {"gate", "waiting", "provider"}]]
      <4>1. v \in Quiet \cup {"gate", "waiting", "provider"}
        BY <3>2
      <4> HIDE <3>1, <3>2
      <4> QED BY <1>0, <3>3, <3>4, <4>1, AttemptUpdate
    <3> QED BY <3>1, <3>3, <3>4
  <2>2. evidence' \in [RunIds -> [Stages -> Phases]]
    <3>1. evidence' = evidence \/ evidence' = [evidence EXCEPT ![r][s] = "awaiting"]
      BY DEF ProcessOf, GateAwaits, GateEnds, GateExecs, ProviderEnds, WorkerStarts, WorkerSettles
    <3>2. "awaiting" \in Phases /\ evidence \in [RunIds -> [Stages -> Phases]]
      BY <1>0 DEF LaunchTypeOK, Phases
    <3> QED BY <1>0, <3>1, <3>2, AttemptUpdate
  <2>3. worker' \in [RunIds -> [Stages -> {"none", "running", "settled"}]]
    <3>1. \/ worker' = worker
          \/ \E v \in {"running", "settled"} : worker' = [worker EXCEPT ![r][s] = v]
      BY DEF ProcessOf, GateAwaits, GateEnds, GateExecs, ProviderEnds, WorkerStarts, WorkerSettles
    <3>2. worker \in [RunIds -> [Stages -> {"none", "running", "settled"}]]
      BY <1>0 DEF LaunchTypeOK
    <3> QED BY <1>0, <3>1, <3>2, AttemptUpdate
  <2> QED BY <1>0, <2>1, <2>2, <2>3
       DEF ProcessOf, GateAwaits, GateEnds, GateExecs, ProviderEnds, WorkerStarts, WorkerSettles,
           LaunchTypeOK
<1>2. /\ UNCHANGED <<last, cur, src, pc, mem, state, result, sealed, pipe, ledger, receipt, digest, recovery>>
      /\ \A q \in RunIds, t \in Stages : q # r \/ t # s =>
           proc'[q][t] = proc[q][t] /\ evidence'[q][t] = evidence[q][t] /\ worker'[q][t] = worker[q][t]
      /\ \/ worker'[r][s] = worker[r][s] \/ worker'[r][s] = "settled"
         \/ worker'[r][s] = "running" /\ proc[r][s] = "provider" /\ ledger[r][s] = "open"
      /\ \/ proc'[r][s] = proc[r][s] \/ proc'[r][s] = "gone"
         \/ proc'[r][s] = "waiting" /\ proc[r][s] = "gate"
         \/ proc'[r][s] = "provider" /\ proc[r][s] = "waiting" /\ pipe[r][s] = "sent"
      /\ \/ evidence'[r][s] = evidence[r][s]
         \/ evidence[r][s] = "prepared" /\ proc[r][s] = "gate"
      /\ proc[r][s] # "none"  \/ worker[r][s] = "running"
  BY <1>0 DEF ProcessOf, GateAwaits, GateEnds, GateExecs, ProviderEnds, WorkerStarts, WorkerSettles,
           LaunchTypeOK
<1> HIDE DEF ProcessOf
<1>3. \A q \in RunIds, t \in Stages : Hot(q, t)' => Hot(q, t)
  <2> SUFFICES ASSUME NEW q \in RunIds, NEW t \in Stages, Hot(q, t)' PROVE Hot(q, t)
    OBVIOUS
  <2>1. CASE q # r \/ t # s
    BY <1>2, <2>1 DEF Hot
  <2>2. CASE q = r /\ t = s
    <3>1. GateInv(r, s)
      BY <1>0, InvParts
    <3> QED BY <1>2, <2>2, <3>1 DEF Hot, GateInv
  <2> QED BY <2>1, <2>2
<1>4. ASSUME NEW q \in RunIds PROVE RunInv(q)' /\ SealedInv(q)'
  <2>1. RunInv(q) /\ SealedInv(q)
    BY InvParts
  <2>2. q > cur => q # r
    BY <1>0
  <2> QED BY <1>2, <1>3, <2>1, <2>2 DEF RunInv, SealedInv
<1>5. ASSUME NEW q \in RunIds, NEW t \in Stages PROVE GateInv(q, t)' /\ LedgerInv(q, t)'
  <2>1. GateInv(q, t) /\ LedgerInv(q, t)
    BY InvParts
  <2>2. CASE q # r \/ t # s
    BY <1>2, <2>1, <2>2 DEF GateInv, LedgerInv
  <2>3. CASE q = r /\ t = s
    BY <1>2, <2>1, <2>3 DEF GateInv, LedgerInv
  <2> QED BY <2>2, <2>3
<1>6. ASSUME NEW q \in RunIds PROVE SourceInv(q)'
  <2>1. SourceInv(q) /\ (src[q] # 0 => src[q] \in RunIds /\ SealedInv(src[q]))
    BY <1>0, InvParts, LaunchAssumption DEF LaunchTypeOK, SourceInv, RunIds
  <2>2. SUFFICES ASSUME src[q] # 0, NEW t \in Stages PROVE worker'[src[q]][t] # "running"
    BY <1>2, <2>1 DEF SourceInv
  <2> QED BY <1>2, <2>1, <2>2 DEF SourceInv, SealedInv, Hot
<1>7. StageInv'
  <2>1. ASSUME pc \notin Unheld, NEW t \in Stages, t > mem.stage PROVE proc'[cur][t] = "none"
    <3>1. cur \in RunIds /\ proc[cur][t] = "none" /\ ledger[cur][t] = "none" /\ LedgerInv(cur, t)
      BY <2>1, InvParts DEF StageInv
    <3> QED BY <1>2, <3>1 DEF LedgerInv
  <2>2. ASSUME pc = "authorized"
        PROVE  /\ proc'[cur][mem.stage] \in {"waiting", "gone"}
               /\ evidence'[cur][mem.stage] = "authorized"
    <3>1. /\ cur \in RunIds /\ mem.stage \in Stages
          /\ proc[cur][mem.stage] \in {"waiting", "gone"} /\ evidence[cur][mem.stage] = "authorized"
          /\ ~Hot(cur, mem.stage)
      BY <2>2, InvParts DEF StageInv, HotInv, Unheld, Collected, LaunchTypeOK, Memories
    <3> QED BY <1>2, <3>1 DEF Hot
  <2> QED BY <1>2, <2>1, <2>2, InvParts DEF StageInv
<1>8. HotInv'
  BY <1>2, <1>3, InvParts DEF HotInv, StageInv
<1>9. RecoveryInv'
  <2>1. recovery.step # "idle" => recovery.run \in RunIds
    BY <1>0, InvParts, LaunchAssumption DEF RecoveryInv, LaunchTypeOK, RunIds
  <2> QED BY <1>2, <1>3, <2>1, InvParts DEF RecoveryInv, ControllerEnded
<1> QED BY <1>1, <1>4, <1>5, <1>6, <1>7, <1>8, <1>9 DEF LaunchInv, RunIds, Stages

-----------------------------------------------------------------------------
(* A run whose processes are proven to be over has none that can start. *)
LEMMA QualifiedIsCold ==
  ASSUME LaunchInv, NEW q \in 1..cur, Qualified(q)
  PROVE  \A s \in Stages : ~Hot(q, s)
<1> SUFFICES ASSUME NEW s \in Stages, Hot(q, s) PROVE FALSE
  OBVIOUS
<1>1. q \in RunIds
  BY InvParts, LaunchAssumption DEF LaunchTypeOK, RunIds
<1>2. GateInv(q, s)
  BY <1>1, InvParts
<1>3. evidence[q][s] \in ProcessPhases
  BY <1>2 DEF Hot, GateInv, ProcessPhases
<1> QED BY <1>3 DEF Qualified, ProvenEnded, Quiet, Hot

LEMMA BeginRecoveryInv ==
  ASSUME LaunchInv, NEW q \in 1..cur, BeginRecovery(q)
  PROVE  LaunchInv'
<1>0. LaunchTypeOK /\ q \in RunIds
  BY InvParts, LaunchAssumption DEF LaunchTypeOK, RunIds
<1>1. LaunchTypeOK'
  <2>1. evidence[q] \in [Stages -> Phases] /\ q \in 0..MaxRuns
    BY <1>0, LaunchAssumption DEF LaunchTypeOK, RunIds
  <2> QED BY <1>0, <2>1 DEF BeginRecovery, LaunchTypeOK
<1>2. RecoveryInv'
  BY <1>0, QualifiedIsCold DEF BeginRecovery, RecoveryInv, NeedsRecovery, Qualified, ControllerEnded, Hot
<1>3. \A r \in RunIds : RunInv(r)' /\ SealedInv(r)' /\ SourceInv(r)'
  BY InvParts DEF BeginRecovery, RunInv, SealedInv, SourceInv, Hot
<1>4. \A r \in RunIds, s \in Stages : GateInv(r, s)' /\ LedgerInv(r, s)'
  BY InvParts DEF BeginRecovery, GateInv, LedgerInv
<1>5. StageInv' /\ HotInv'
  BY InvParts DEF BeginRecovery, StageInv, HotInv, Hot
<1> QED BY <1>1, <1>2, <1>3, <1>4, <1>5 DEF LaunchInv, RunIds, Stages

LEMMA CloseParentInv ==
  ASSUME LaunchInv, NEW s \in Stages, CloseParent(s)
  PROVE  LaunchInv'
<1> DEFINE q == recovery.run
<1>0. LaunchTypeOK /\ q \in RunIds /\ ControllerEnded(q) /\ ~sealed[q]
  BY InvParts, LaunchAssumption DEF CloseParent, RecoveryInv, LaunchTypeOK, RunIds
<1>1. LaunchTypeOK'
  BY <1>0, AttemptUpdate DEF CloseParent, LaunchTypeOK
<1>2. \A r \in RunIds, t \in Stages :
        ledger'[r][t] = IF r = q /\ t = s THEN "closed" ELSE ledger[r][t]
  BY <1>0 DEF CloseParent, LaunchTypeOK
<1>3. worker[q][s] # "running" /\ ledger[q][s] # "none"
  BY DEF CloseParent
<1>4. UNCHANGED <<last, cur, src, pc, mem, state, result, sealed, evidence, proc, pipe, worker, receipt,
                  digest, recovery>>
  BY DEF CloseParent
<1>5. q \in 1..cur
  BY InvParts DEF CloseParent, RecoveryInv
<1>6. ASSUME NEW r \in RunIds PROVE RunInv(r)'
  <2>1. r > cur => r # q
    BY <1>0, <1>5 DEF LaunchTypeOK
  <2> QED BY <1>2, <1>4, <2>1, InvParts DEF RunInv
<1>7. \A r \in RunIds : SealedInv(r)' /\ SourceInv(r)'
  BY <1>2, <1>4, InvParts DEF SealedInv, SourceInv, Hot
<1>8. \A r \in RunIds, t \in Stages : GateInv(r, t)' /\ LedgerInv(r, t)'
  BY <1>2, <1>3, <1>4, InvParts DEF GateInv, LedgerInv
<1>9. StageInv' /\ HotInv'
  <2>1. pc \notin Unheld => q # cur
    BY <1>0 DEF ControllerEnded
  <2>2. pc \notin Unheld => \A t \in Stages : ledger'[cur][t] = ledger[cur][t]
    BY <1>2, <2>1, InvParts DEF StageInv
  <2>3. mem.stage \in Stages
    BY <1>0 DEF LaunchTypeOK, Memories
  <2> QED BY <1>4, <2>2, <2>3, InvParts DEF StageInv, HotInv, Hot
<1>10. RecoveryInv'
  BY <1>4, InvParts DEF RecoveryInv, ControllerEnded, Hot
<1> QED BY <1>1, <1>6, <1>7, <1>8, <1>9, <1>10 DEF LaunchInv, RunIds, Stages

(* The other steps of a recovery write only the receipt, the result and the
   state of the run it recovers. *)
LEMMA RecoveryWritesInv ==
  ASSUME LaunchInv, RecoverReceipt \/ RecoverResult \/ RecoverState \/ RecoveryEnds
  PROVE  LaunchInv'
<1> DEFINE q == recovery.run
<1>0. LaunchTypeOK
  BY InvParts
<1>1. recovery.step # "idle" => q \in RunIds /\ q \in 1..cur /\ ControllerEnded(q) /\ ~sealed[q]
                                 /\ \A s \in Stages : ~Hot(q, s)
  BY <1>0, InvParts, LaunchAssumption DEF RecoveryInv, LaunchTypeOK, RunIds
<1>2. UNCHANGED <<last, cur, src, pc, mem, state, evidence, proc, pipe, ledger, worker, receipt>>
  BY DEF RecoverReceipt, RecoverResult, RecoverState, RecoveryEnds
<1>3. /\ \A r \in RunIds : r # q => result'[r] = result[r] /\ sealed'[r] = sealed[r]
      /\ recovery.step = "idle" => result' = result /\ sealed' = sealed
  BY <1>0 DEF RecoverReceipt, RecoverResult, RecoverState, RecoveryEnds, LaunchTypeOK
<1>4. LaunchTypeOK'
  <2>1. recovery.view \in {<<>>} \cup [Stages -> Phases]
    BY <1>0 DEF LaunchTypeOK
  <2>2. CASE RecoverReceipt
    <3>1. digest' \in [RunIds -> {<<>>} \cup [Stages -> Phases]]
      BY <1>0, <1>1, <2>1, <2>2, RunUpdate DEF RecoverReceipt, LaunchTypeOK
    <3>2. recovery' \in [run : 0..MaxRuns, step : {"idle", "parents", "receipt", "result"},
                         view : {<<>>} \cup [Stages -> Phases]]
      BY <1>0, <2>2 DEF RecoverReceipt, LaunchTypeOK
    <3> QED BY <1>0, <2>2, <3>1, <3>2 DEF RecoverReceipt, LaunchTypeOK
  <2>3. CASE RecoverResult
    BY <1>0, <1>1, <2>3 DEF RecoverResult, LaunchTypeOK
  <2>4. Idle \in [run : 0..MaxRuns, step : {"idle", "parents", "receipt", "result"},
                  view : {<<>>} \cup [Stages -> Phases]]
    BY LaunchAssumption DEF Idle
  <2>5. CASE RecoverState
    BY <1>0, <2>4, <2>5 DEF RecoverState, LaunchTypeOK
  <2>6. CASE RecoveryEnds
    BY <1>0, <2>4, <2>6 DEF RecoveryEnds, LaunchTypeOK
  <2> QED BY <2>2, <2>3, <2>5, <2>6
<1>5. ASSUME NEW r \in RunIds PROVE RunInv(r)' /\ SourceInv(r)' /\ SealedInv(r)'
  <2>1. RunInv(r)'
    <3>1. r > cur => r # q \/ recovery.step = "idle"
      BY <1>0, <1>1 DEF LaunchTypeOK
    <3> QED BY <1>2, <1>3, <3>1, InvParts DEF RunInv
  <2>2. SourceInv(r)'
    <3>1. src[r] # 0 => src[r] \in RunIds /\ sealed[src[r]]
      BY <1>0, InvParts, LaunchAssumption DEF SourceInv, LaunchTypeOK, RunIds
    <3>2. src[r] # 0 => sealed'[src[r]]
      BY <1>1, <1>3, <3>1
    <3> QED BY <1>2, <3>2, InvParts DEF SourceInv
  <2>3. SealedInv(r)'
    BY <1>1, <1>2, <1>3, InvParts DEF SealedInv, Hot
  <2> QED BY <2>1, <2>2, <2>3
<1>6. \A r \in RunIds, s \in Stages : GateInv(r, s)' /\ LedgerInv(r, s)'
  BY <1>2, InvParts DEF GateInv, LedgerInv
<1>7. StageInv' /\ HotInv'
  <2>1. pc \notin Unheld => cur \in RunIds /\ result'[cur] = result[cur] /\ sealed'[cur] = sealed[cur]
    BY <1>1, <1>3, InvParts DEF StageInv, ControllerEnded
  <2> QED BY <1>2, <2>1, InvParts DEF StageInv, HotInv, Hot
<1>8. RecoveryInv'
  <2>1. CASE RecoverReceipt \/ RecoverResult
    <3>1. recovery'.run = q /\ sealed' = sealed /\ recovery.step # "idle"
      BY <1>0, <2>1 DEF RecoverReceipt, RecoverResult, LaunchTypeOK
    <3> QED BY <1>1, <1>2, <3>1 DEF RecoveryInv, ControllerEnded, Hot
  <2>2. CASE RecoverState \/ RecoveryEnds
    BY <2>2 DEF RecoverState, RecoveryEnds, RecoveryInv, Idle
  <2> QED BY <2>1, <2>2
<1> QED BY <1>4, <1>5, <1>6, <1>7, <1>8 DEF LaunchInv, RunIds, Stages

-----------------------------------------------------------------------------
(* A run that may be resumed has no running worker. *)
LEMMA ResumableHasNoWorker ==
  ASSUME LaunchInv, NEW q \in RunIds, Resumable(q), NEW s \in Stages
  PROVE  worker[q][s] # "running"
<1>1. LedgerInv(q, s) /\ s # 0
  BY InvParts, LaunchAssumption DEF Stages
<1>2. CASE state[q].marker = 0
  BY <1>1, <1>2 DEF Resumable, Retained, LedgerInv
<1>3. CASE state[q].marker # 0
  BY <1>1, <1>3 DEF Resumable, AllClosed, LedgerInv
<1> QED BY <1>2, <1>3

LEMMA StartRunInv ==
  ASSUME LaunchInv, NEW q \in 0..cur, NEW k \in 0..last, StartRun(q, k)
  PROVE  LaunchInv'
<1> DEFINE n == cur + 1
<1>0. /\ LaunchTypeOK /\ cur \in Nat /\ MaxRuns \in Nat /\ last \in Nat /\ last <= MaxStages /\ MaxStages \in Nat
      /\ n \in RunIds /\ q \in 0..MaxRuns /\ k \in 0..MaxStages /\ k <= last
  <2>1. cur \in 0..MaxRuns /\ last \in Stages /\ LaunchTypeOK
    BY InvParts DEF LaunchTypeOK
  <2>2. cur \in Nat /\ MaxRuns \in Nat /\ last \in Nat /\ last <= MaxStages /\ MaxStages \in Nat
    BY <2>1, LaunchAssumption DEF Stages
  <2>3. cur < MaxRuns
    BY DEF StartRun
  <2> QED BY <2>1, <2>2, <2>3 DEF RunIds
<1>1. /\ q # 0 => q \in RunIds /\ q \in 1..cur /\ sealed[q] /\ Resumable(q)
      /\ recovery.step = "idle" /\ pc \in Unheld /\ cur' = n
      /\ \A r \in RunIds : src'[r] = IF r = n THEN q ELSE src[r]
  BY <1>0 DEF StartRun, Idle, Resumable, LaunchTypeOK, RunIds
<1>2. UNCHANGED <<last, result, sealed, evidence, proc, pipe, ledger, worker, receipt, digest, recovery>>
  BY DEF StartRun
<1>3. mem'.stage \in Stages /\ mem'.stage <= last /\ mem' \in Memories
  BY <1>0 DEF StartRun, Memories, Stages, LaunchTypeOK
<1>4. LaunchTypeOK'
  <2>1. Inherited(k) \in Accounts
    BY <1>0 DEF Inherited, Accounts
  <2>2. state' \in [RunIds -> Accounts]
    BY <1>0, <2>1, RunUpdate DEF StartRun, LaunchTypeOK
  <2>3. cur' \in 0..MaxRuns /\ src' \in [RunIds -> 0..MaxRuns]
    BY <1>0, RunUpdate DEF StartRun, LaunchTypeOK, RunIds
  <2>4. pc' \in {"finalize", "open"}
    BY DEF StartRun
  <2> QED BY <1>0, <1>2, <1>3, <2>2, <2>3, <2>4 DEF LaunchTypeOK
<1>5. ASSUME NEW r \in RunIds PROVE RunInv(r)' /\ SealedInv(r)'
  BY <1>0, <1>1, <1>2, InvParts DEF RunInv, SealedInv, Hot, RunIds
<1>6. ASSUME NEW r \in RunIds PROVE SourceInv(r)'
  <2>1. CASE r = n
    BY <1>0, <1>1, <1>2, <2>1, ResumableHasNoWorker DEF SourceInv
  <2>2. CASE r # n
    BY <1>0, <1>1, <1>2, <2>2, InvParts DEF SourceInv
  <2> QED BY <2>1, <2>2
<1>7. \A r \in RunIds, s \in Stages : GateInv(r, s)' /\ LedgerInv(r, s)'
  BY <1>2, InvParts DEF GateInv, LedgerInv
<1>8. /\ ~sealed[n]
      /\ \A s \in Stages : proc[n][s] = "none" /\ pipe[n][s] = "none" /\ ledger[n][s] = "none"
  BY <1>0, InvParts DEF RunInv
<1>9. StageInv'
  <2>1. pc' \in {"open", "finalize"}
    BY DEF StartRun
  <2> QED BY <1>0, <1>1, <1>2, <1>3, <1>8, <2>1 DEF StageInv, Unspawned, Armed
<1>10. HotInv'
  BY <1>1, <1>2, <1>8 DEF HotInv, Hot
<1>11. RecoveryInv'
  BY <1>1, <1>2 DEF RecoveryInv
<1> QED BY <1>4, <1>5, <1>6, <1>7, <1>9, <1>10, <1>11 DEF LaunchInv, RunIds, Stages

-----------------------------------------------------------------------------
LEMMA InitInv == LaunchInit => LaunchInv
<1> SUFFICES ASSUME LaunchInit PROVE LaunchInv
  OBVIOUS
<1>1. LaunchTypeOK
  <2>1. Inherited(0) \in Accounts /\ NoMemory \in Memories
    BY StageNumbers DEF Inherited, Accounts, NoMemory, Memories
  <2>2. cur \in 0..MaxRuns /\ src \in [RunIds -> 0..MaxRuns]
    BY LaunchAssumption DEF LaunchInit
  <2>3. /\ evidence \in [RunIds -> [Stages -> Phases]]
        /\ proc \in [RunIds -> [Stages -> Quiet \cup {"gate", "waiting", "provider"}]]
        /\ pipe \in [RunIds -> [Stages -> {"none", "open", "sent", "closed"}]]
    BY DEF LaunchInit, Blank, Phases, Quiet
  <2>4. /\ ledger \in [RunIds -> [Stages -> {"none", "open", "draining", "closed"}]]
        /\ worker \in [RunIds -> [Stages -> {"none", "running", "settled"}]]
        /\ receipt \in [RunIds -> [Stages -> {"none", "armed", "settled", "uncertain"}]]
    BY DEF LaunchInit, Blank
  <2>5. /\ digest \in [RunIds -> {<<>>} \cup [Stages -> Phases]]
        /\ recovery \in [run : 0..MaxRuns, step : {"idle", "parents", "receipt", "result"},
                         view : {<<>>} \cup [Stages -> Phases]]
    BY LaunchAssumption DEF LaunchInit, Idle
  <2> QED BY <2>1, <2>2, <2>3, <2>4, <2>5 DEF LaunchInit, LaunchTypeOK, Unheld
<1>2. \A r \in RunIds : RunInv(r) /\ SealedInv(r) /\ SourceInv(r)
  BY DEF LaunchInit, RunInv, SealedInv, SourceInv, Blank
<1>3. \A r \in RunIds, s \in Stages : GateInv(r, s) /\ LedgerInv(r, s)
  BY DEF LaunchInit, GateInv, LedgerInv, Blank
<1>4. StageInv /\ HotInv /\ RecoveryInv
  BY DEF LaunchInit, StageInv, HotInv, RecoveryInv, Idle, Unheld
<1> QED BY <1>1, <1>2, <1>3, <1>4 DEF LaunchInv

LEMMA StageStepInv == ASSUME LaunchInv, StageStep PROVE LaunchInv'
BY RegisterInv, ArmReceiptInv, ArmMarkerInv, PrepareInv, RecordLaunchInv, SpawnGateInv, SpawnFailsInv,
   AuthorizeInv, GateRefusedInv, WithdrawInv, ProceedInv, AuthorizedFailsInv, ConfirmInv, ExecFailedInv,
   RecordTerminalInv, RaiseInv, CloseAdmissionInv, NothingToDrainInv, EndDrainInv, DrainReceiptInv
   DEF StageStep

LEMMA StutterInv == ASSUME LaunchInv, UNCHANGED launchVars PROVE LaunchInv'
<1>0. UNCHANGED <<last, cur, src, pc, mem, state, result, sealed, evidence, proc, pipe, ledger, worker,
                  receipt, digest, recovery>>
  BY DEF launchVars
<1>1. LaunchTypeOK'
  BY <1>0, InvParts DEF LaunchTypeOK
<1>2. \A r \in RunIds : RunInv(r)' /\ SealedInv(r)' /\ SourceInv(r)'
  BY <1>0, InvParts DEF RunInv, SealedInv, SourceInv, Hot
<1>3. \A r \in RunIds, s \in Stages : GateInv(r, s)' /\ LedgerInv(r, s)'
  BY <1>0, InvParts DEF GateInv, LedgerInv
<1>4. StageInv' /\ HotInv' /\ RecoveryInv'
  BY <1>0, InvParts DEF StageInv, HotInv, RecoveryInv, ControllerEnded, Hot
<1> QED BY <1>1, <1>2, <1>3, <1>4 DEF LaunchInv, RunIds, Stages

(* The inductive invariant: a byte is sent only over a durable authorization,
   and what a sealed run left running is what it reported. *)
THEOREM LaunchInvariant == LaunchSpec => []LaunchInv
<1>1. ASSUME LaunchInv, [LaunchNext]_launchVars PROVE LaunchInv'
  <2>1. CASE ProcessStep
    BY <1>1, <2>1, ProcessInv DEF ProcessStep, ProcessOf
  <2>2. CASE RecoveryStep
    BY <1>1, <2>2, BeginRecoveryInv, CloseParentInv, RecoveryWritesInv DEF RecoveryStep
  <2>3. CASE StageStep
    BY <1>1, <2>3, StageStepInv
  <2>4. CASE \E q \in 0..cur, k \in 0..last : StartRun(q, k)
    BY <1>1, <2>4, StartRunInv
  <2>5. CASE UNCHANGED launchVars
    BY <1>1, <2>5, StutterInv
  <2> QED BY <1>1, <2>1, <2>2, <2>3, <2>4, <2>5, CollectInv, TransportInv, CompleteStageInv, FailStageInv,
             WriteResultInv, SealInv, CrashInv, FinalizedInv DEF LaunchNext
<1> QED BY InitInv, <1>1, PTL DEF LaunchSpec

(* Every variable keeps its type. *)
THEOREM LaunchTypeCorrect == LaunchSpec => []LaunchTypeOK
<1>1. LaunchInv => LaunchTypeOK
  BY DEF LaunchInv
<1> QED BY LaunchInvariant, <1>1, PTL

(* However dispatchers and recoveries are killed and gates and workers delayed,
   a run that was resumed has no worker that runs, and a provider only when it
   said that it could not prove its end. *)
THEOREM SourcesAreQuiet == LaunchSpec => []SourceQuiet
<1>1. ASSUME LaunchInv PROVE SourceQuiet
  <2> SUFFICES ASSUME NEW r \in 1..cur, src[r] # 0
               PROVE  /\ result[src[r]] = "unproven" \/ ~Startable(src[r])
                      /\ \A s \in Stages : worker[src[r]][s] # "running"
    BY DEF SourceQuiet
  <2>1. r \in RunIds /\ 1..cur \subseteq RunIds
    BY <1>1, InvParts, LaunchAssumption DEF LaunchTypeOK, RunIds
  <2>2. SourceInv(r)
    BY <1>1, <2>1, InvParts
  <2>3. SealedInv(src[r])
    BY <1>1, <2>1, <2>2, InvParts DEF SourceInv
  <2> QED BY <2>2, <2>3 DEF SourceInv, SealedInv, Startable, Hot
<1> QED BY LaunchInvariant, <1>1, PTL

-----------------------------------------------------------------------------
(* What the files of run r say of its stages, whatever became of its
   dispatcher: a launch record is named by the state before its process is
   started, and the stage that was invoked is the next one to complete, or the
   last one completed. *)
RecordInv(r) ==
  /\ r > cur => \A s \in Stages : evidence[r][s] = "none"
  /\ \A s \in state[r].launches : evidence[r][s] # "none"
  /\ \A s \in Stages : evidence[r][s] \notin {"none", "prepared"} \/ proc[r][s] # "none"
                         => s \in state[r].launches
  /\ state[r].invoked \in {state[r].completed, state[r].completed + 1}
  /\ state[r].invoked > state[r].completed => state[r].invoked \in state[r].launches
  /\ state[r].finalizing => state[r].completed = last
  /\ result[r] = "recovered" => digest[r] # <<>>

Preparing == {"open", "registered", "receipt", "armed", "prepared"}
Recorded == {"recorded", "spawned", "refused", "authorized", "proceeding", "running",
             "collected", "transported"}
Draining == {"drain", "draining", "closed", "drained"}

(* What a live dispatcher knows of the accounting of its stage. *)
AccountInv ==
  pc \in Preparing \cup Recorded \cup Draining =>
    LET a == state[cur] IN
    /\ mem.stage = a.completed + 1
    /\ pc \in Preparing => a.invoked = a.completed
    /\ pc \in Recorded \/ (pc \in Draining /\ mem.outcome = "ok") => a.invoked = mem.stage
    /\ pc = "prepared" => evidence[cur][mem.stage] # "none"

(* A recovery's receipt is bound to the launch records it read. *)
BindingInv ==
  /\ recovery.step = "parents" => recovery.view # <<>>
  /\ recovery.step \in {"receipt", "result"} => digest[recovery.run] # <<>>

RecordsInv ==
  /\ \A r \in RunIds : RecordInv(r)
  /\ AccountInv /\ BindingInv

LEMMA RecordParts ==
  ASSUME RecordsInv
  PROVE  /\ \A r \in RunIds : RecordInv(r)
         /\ AccountInv /\ BindingInv
BY DEF RecordsInv

(* The records a step leaves as they are, but for attempts that are named by
   the state already and for one that is prepared. *)
Kept ==
  /\ UNCHANGED <<last, cur, digest>>
  /\ \A r \in RunIds :
       /\ state'[r].launches = state[r].launches
       /\ state'[r].invoked = state[r].invoked
       /\ state'[r].completed = state[r].completed
       /\ state'[r].finalizing = state[r].finalizing
       /\ result'[r] = result[r] \/ result'[r] # "recovered"
       /\ \A s \in Stages :
            /\ \/ evidence'[r][s] = evidence[r][s]
               \/ s \in state[r].launches /\ evidence'[r][s] # "none"
               \/ r <= cur /\ evidence'[r][s] = "prepared"
            /\ proc'[r][s] = proc[r][s] \/ s \in state[r].launches

LEMMA KeptRecords ==
  ASSUME LaunchTypeOK, RecordsInv, Kept, NEW r \in RunIds
  PROVE  RecordInv(r)'
<1>0. /\ RecordInv(r) /\ r \in Nat /\ cur \in Nat
      /\ cur' = cur /\ last' = last /\ digest' = digest
      /\ state[r].launches \subseteq Stages
  BY RecordParts, LaunchAssumption DEF LaunchTypeOK, RunIds, Accounts, Kept
<1>1. /\ state'[r].launches = state[r].launches /\ state'[r].invoked = state[r].invoked
      /\ state'[r].completed = state[r].completed /\ state'[r].finalizing = state[r].finalizing
      /\ result'[r] = result[r] \/ result'[r] # "recovered"
  BY DEF Kept
<1>2. \A s \in Stages :
        /\ \/ evidence'[r][s] = evidence[r][s]
           \/ s \in state[r].launches /\ evidence'[r][s] # "none"
           \/ r <= cur /\ evidence'[r][s] = "prepared"
        /\ proc'[r][s] = proc[r][s] \/ s \in state[r].launches
  BY DEF Kept
<1>3. r > cur' => \A s \in Stages : evidence'[r][s] = "none"
  BY <1>0, <1>2 DEF RecordInv
<1>4. \A s \in state[r].launches : evidence'[r][s] # "none"
  BY <1>0, <1>2 DEF RecordInv
<1>5. \A s \in Stages : evidence'[r][s] \notin {"none", "prepared"} \/ proc'[r][s] # "none"
                           => s \in state[r].launches
  BY <1>0, <1>2 DEF RecordInv
<1> QED BY <1>0, <1>1, <1>3, <1>4, <1>5 DEF RecordInv, Stages

LEMMA OwnStage ==
  ASSUME LaunchInv, pc \notin Unheld
  PROVE  /\ LaunchTypeOK /\ cur \in RunIds /\ cur \in Nat /\ mem.stage \in Stages /\ mem.stage \in Nat
         /\ state[cur] \in Accounts /\ state[cur].invoked \in Nat /\ state[cur].completed \in Nat
<1>1. LaunchTypeOK /\ cur \in RunIds
  BY InvParts DEF StageInv
<1>2. /\ cur \in Nat /\ mem.stage \in Stages
      /\ state[cur] \in Accounts
  BY <1>1, LaunchAssumption DEF LaunchTypeOK, Memories, RunIds
<1> QED BY <1>1, <1>2, LaunchAssumption DEF Accounts, Stages

(* The stage a gate is started for is named by the state. *)
LEMMA StageIsNamed ==
  ASSUME LaunchInv, RecordsInv, pc \in Recorded \ {"transported"}
  PROVE  mem.stage \in state[cur].launches
<1>1. pc \notin Unheld
  BY DEF Recorded, Unheld
<1>2. state[cur].invoked = mem.stage /\ mem.stage = state[cur].completed + 1
  BY RecordParts DEF AccountInv
<1>3. RecordInv(cur) /\ state[cur].completed \in Nat
  BY <1>1, OwnStage, RecordParts
<1> QED BY <1>2, <1>3 DEF RecordInv

LEMMA SameBinding == ASSUME BindingInv, UNCHANGED <<digest, recovery>> PROVE BindingInv'
BY DEF BindingInv

LEMMA RegisterRecords ==
  ASSUME LaunchInv, RecordsInv, Register
  PROVE  RecordsInv'
<1>0. pc \notin Unheld
  BY DEF Register, Unheld
<1>1. Kept
  BY <1>0, OwnStage, RecordParts DEF Register, Kept, LaunchTypeOK, Memories, Accounts, RecordInv
<1>2. AccountInv'
  BY <1>0, OwnStage, RecordParts DEF Register, AccountInv, LaunchTypeOK, Memories, Accounts, Preparing, Recorded, Draining, Certain
<1>3. BindingInv'
  BY RecordParts, SameBinding DEF Register
<1> QED BY <1>0, <1>1, <1>2, <1>3, OwnStage, KeptRecords DEF RecordsInv, RunIds

LEMMA ArmReceiptRecords ==
  ASSUME LaunchInv, RecordsInv, ArmReceipt
  PROVE  RecordsInv'
<1>0. pc \notin Unheld
  BY DEF ArmReceipt, Unheld
<1>1. Kept
  BY <1>0, OwnStage, RecordParts DEF ArmReceipt, Kept, LaunchTypeOK, Memories, Accounts, RecordInv
<1>2. AccountInv'
  BY <1>0, OwnStage, RecordParts DEF ArmReceipt, AccountInv, LaunchTypeOK, Memories, Accounts, Preparing, Recorded, Draining, Certain
<1>3. BindingInv'
  BY RecordParts, SameBinding DEF ArmReceipt
<1> QED BY <1>0, <1>1, <1>2, <1>3, OwnStage, KeptRecords DEF RecordsInv, RunIds

LEMMA ArmMarkerRecords ==
  ASSUME LaunchInv, RecordsInv, ArmMarker
  PROVE  RecordsInv'
<1>0. pc \notin Unheld
  BY DEF ArmMarker, Unheld
<1>1. Kept
  BY <1>0, OwnStage, RecordParts DEF ArmMarker, Kept, LaunchTypeOK, Memories, Accounts, RecordInv
<1>2. AccountInv'
  BY <1>0, OwnStage, RecordParts DEF ArmMarker, AccountInv, LaunchTypeOK, Memories, Accounts, Preparing, Recorded, Draining, Certain
<1>3. BindingInv'
  BY RecordParts, SameBinding DEF ArmMarker
<1> QED BY <1>0, <1>1, <1>2, <1>3, OwnStage, KeptRecords DEF RecordsInv, RunIds

LEMMA PrepareRecords ==
  ASSUME LaunchInv, RecordsInv, Prepare
  PROVE  RecordsInv'
<1>0. pc \notin Unheld
  BY DEF Prepare, Unheld
<1>1. Kept
  BY <1>0, OwnStage, RecordParts DEF Prepare, Kept, LaunchTypeOK, Memories, Accounts, RecordInv
<1>2. AccountInv'
  BY <1>0, OwnStage, RecordParts DEF Prepare, AccountInv, LaunchTypeOK, Memories, Accounts, Preparing, Recorded, Draining, Certain
<1>3. BindingInv'
  BY RecordParts, SameBinding DEF Prepare
<1> QED BY <1>0, <1>1, <1>2, <1>3, OwnStage, KeptRecords DEF RecordsInv, RunIds

LEMMA SpawnGateRecords ==
  ASSUME LaunchInv, RecordsInv, SpawnGate
  PROVE  RecordsInv'
<1>0. pc \notin Unheld
  BY DEF SpawnGate, Unheld
<1>1. Kept
  BY <1>0, OwnStage, RecordParts, StageIsNamed DEF SpawnGate, Kept, LaunchTypeOK, Memories, Accounts, RecordInv, Recorded
<1>2. AccountInv'
  BY <1>0, OwnStage, RecordParts DEF SpawnGate, AccountInv, LaunchTypeOK, Memories, Accounts, Preparing, Recorded, Draining, Certain
<1>3. BindingInv'
  BY RecordParts, SameBinding DEF SpawnGate
<1> QED BY <1>0, <1>1, <1>2, <1>3, OwnStage, KeptRecords DEF RecordsInv, RunIds

LEMMA SpawnFailsRecords ==
  ASSUME LaunchInv, RecordsInv, SpawnFails
  PROVE  RecordsInv'
<1>0. pc \notin Unheld
  BY DEF SpawnFails, Unheld
<1>1. Kept
  BY <1>0, OwnStage, RecordParts, StageIsNamed DEF SpawnFails, Kept, LaunchTypeOK, Memories, Accounts, RecordInv, Recorded
<1>2. AccountInv'
  BY <1>0, OwnStage, RecordParts DEF SpawnFails, AccountInv, LaunchTypeOK, Memories, Accounts, Preparing, Recorded, Draining, Certain
<1>3. BindingInv'
  BY RecordParts, SameBinding DEF SpawnFails
<1> QED BY <1>0, <1>1, <1>2, <1>3, OwnStage, KeptRecords DEF RecordsInv, RunIds

LEMMA AuthorizeRecords ==
  ASSUME LaunchInv, RecordsInv, Authorize
  PROVE  RecordsInv'
<1>0. pc \notin Unheld
  BY DEF Authorize, Unheld
<1>1. Kept
  BY <1>0, OwnStage, RecordParts, StageIsNamed DEF Authorize, Kept, LaunchTypeOK, Memories, Accounts, RecordInv, Recorded
<1>2. AccountInv'
  BY <1>0, OwnStage, RecordParts DEF Authorize, AccountInv, LaunchTypeOK, Memories, Accounts, Preparing, Recorded, Draining, Certain
<1>3. BindingInv'
  BY RecordParts, SameBinding DEF Authorize
<1> QED BY <1>0, <1>1, <1>2, <1>3, OwnStage, KeptRecords DEF RecordsInv, RunIds

LEMMA GateRefusedRecords ==
  ASSUME LaunchInv, RecordsInv, GateRefused
  PROVE  RecordsInv'
<1>0. pc \notin Unheld
  BY DEF GateRefused, Unheld
<1>1. Kept
  BY <1>0, OwnStage, RecordParts, StageIsNamed DEF GateRefused, Kept, LaunchTypeOK, Memories, Accounts, RecordInv, Recorded
<1>2. AccountInv'
  BY <1>0, OwnStage, RecordParts DEF GateRefused, AccountInv, LaunchTypeOK, Memories, Accounts, Preparing, Recorded, Draining, Certain
<1>3. BindingInv'
  BY RecordParts, SameBinding DEF GateRefused
<1> QED BY <1>0, <1>1, <1>2, <1>3, OwnStage, KeptRecords DEF RecordsInv, RunIds

LEMMA WithdrawRecords ==
  ASSUME LaunchInv, RecordsInv, Withdraw
  PROVE  RecordsInv'
<1>0. pc \notin Unheld
  BY DEF Withdraw, Unheld
<1>1. Kept
  BY <1>0, OwnStage, RecordParts, StageIsNamed DEF Withdraw, Kept, LaunchTypeOK, Memories, Accounts, RecordInv, Recorded, Withdrawn
<1>2. AccountInv'
  BY <1>0, OwnStage, RecordParts DEF Withdraw, AccountInv, LaunchTypeOK, Memories, Accounts, Preparing, Recorded, Draining, Certain
<1>3. BindingInv'
  BY RecordParts, SameBinding DEF Withdraw
<1> QED BY <1>0, <1>1, <1>2, <1>3, OwnStage, KeptRecords DEF RecordsInv, RunIds

LEMMA ProceedRecords ==
  ASSUME LaunchInv, RecordsInv, Proceed
  PROVE  RecordsInv'
<1>0. pc \notin Unheld
  BY DEF Proceed, Unheld
<1>1. Kept
  BY <1>0, OwnStage, RecordParts, StageIsNamed DEF Proceed, Kept, LaunchTypeOK, Memories, Accounts, RecordInv, Recorded
<1>2. AccountInv'
  BY <1>0, OwnStage, RecordParts DEF Proceed, AccountInv, LaunchTypeOK, Memories, Accounts, Preparing, Recorded, Draining, Certain
<1>3. BindingInv'
  BY RecordParts, SameBinding DEF Proceed
<1> QED BY <1>0, <1>1, <1>2, <1>3, OwnStage, KeptRecords DEF RecordsInv, RunIds

LEMMA AuthorizedFailsRecords ==
  ASSUME LaunchInv, RecordsInv, AuthorizedFails
  PROVE  RecordsInv'
<1>0. pc \notin Unheld
  BY DEF AuthorizedFails, Unheld
<1>1. Kept
  BY <1>0, OwnStage, RecordParts, StageIsNamed DEF AuthorizedFails, Kept, LaunchTypeOK, Memories, Accounts, RecordInv, Recorded
<1>2. AccountInv'
  BY <1>0, OwnStage, RecordParts DEF AuthorizedFails, AccountInv, LaunchTypeOK, Memories, Accounts, Preparing, Recorded, Draining, Certain
<1>3. BindingInv'
  BY RecordParts, SameBinding DEF AuthorizedFails
<1> QED BY <1>0, <1>1, <1>2, <1>3, OwnStage, KeptRecords DEF RecordsInv, RunIds

LEMMA ConfirmRecords ==
  ASSUME LaunchInv, RecordsInv, Confirm
  PROVE  RecordsInv'
<1>0. pc \notin Unheld
  BY DEF Confirm, Unheld
<1>1. Kept
  BY <1>0, OwnStage, RecordParts, StageIsNamed DEF Confirm, Kept, LaunchTypeOK, Memories, Accounts, RecordInv, Recorded
<1>2. AccountInv'
  BY <1>0, OwnStage, RecordParts DEF Confirm, AccountInv, LaunchTypeOK, Memories, Accounts, Preparing, Recorded, Draining, Certain
<1>3. BindingInv'
  BY RecordParts, SameBinding DEF Confirm
<1> QED BY <1>0, <1>1, <1>2, <1>3, OwnStage, KeptRecords DEF RecordsInv, RunIds

LEMMA ExecFailedRecords ==
  ASSUME LaunchInv, RecordsInv, ExecFailed
  PROVE  RecordsInv'
<1>0. pc \notin Unheld
  BY DEF ExecFailed, Unheld
<1>1. Kept
  BY <1>0, OwnStage, RecordParts, StageIsNamed DEF ExecFailed, Kept, LaunchTypeOK, Memories, Accounts, RecordInv, Recorded
<1>2. AccountInv'
  BY <1>0, OwnStage, RecordParts DEF ExecFailed, AccountInv, LaunchTypeOK, Memories, Accounts, Preparing, Recorded, Draining, Certain
<1>3. BindingInv'
  BY RecordParts, SameBinding DEF ExecFailed
<1> QED BY <1>0, <1>1, <1>2, <1>3, OwnStage, KeptRecords DEF RecordsInv, RunIds

LEMMA RecordTerminalRecords ==
  ASSUME LaunchInv, RecordsInv, RecordTerminal
  PROVE  RecordsInv'
<1>0. pc \notin Unheld
  BY DEF RecordTerminal, Unheld
<1>1. Kept
  BY <1>0, OwnStage, RecordParts, StageIsNamed DEF RecordTerminal, Kept, LaunchTypeOK, Memories, Accounts, RecordInv, Recorded
<1>2. AccountInv'
  BY <1>0, OwnStage, RecordParts DEF RecordTerminal, AccountInv, LaunchTypeOK, Memories, Accounts, Preparing, Recorded, Draining, Certain
<1>3. BindingInv'
  BY RecordParts, SameBinding DEF RecordTerminal
<1> QED BY <1>0, <1>1, <1>2, <1>3, OwnStage, KeptRecords DEF RecordsInv, RunIds

LEMMA RaiseRecords ==
  ASSUME LaunchInv, RecordsInv, Raise
  PROVE  RecordsInv'
<1>0. pc \notin Unheld
  BY DEF Raise, Unheld
<1>1. Kept
  BY <1>0, OwnStage, RecordParts DEF Raise, Kept, LaunchTypeOK, Memories, Accounts, RecordInv
<1>2. AccountInv'
  BY <1>0, OwnStage, RecordParts DEF Raise, AccountInv, LaunchTypeOK, Memories, Accounts, Preparing, Recorded, Draining, Certain
<1>3. BindingInv'
  BY RecordParts, SameBinding DEF Raise
<1> QED BY <1>0, <1>1, <1>2, <1>3, OwnStage, KeptRecords DEF RecordsInv, RunIds

LEMMA CloseAdmissionRecords ==
  ASSUME LaunchInv, RecordsInv, CloseAdmission
  PROVE  RecordsInv'
<1>0. pc \notin Unheld
  BY DEF CloseAdmission, Unheld
<1>1. Kept
  BY <1>0, OwnStage, RecordParts DEF CloseAdmission, Kept, LaunchTypeOK, Memories, Accounts, RecordInv
<1>2. AccountInv'
  BY <1>0, OwnStage, RecordParts DEF CloseAdmission, AccountInv, LaunchTypeOK, Memories, Accounts, Preparing, Recorded, Draining, Certain
<1>3. BindingInv'
  BY RecordParts, SameBinding DEF CloseAdmission
<1> QED BY <1>0, <1>1, <1>2, <1>3, OwnStage, KeptRecords DEF RecordsInv, RunIds

LEMMA NothingToDrainRecords ==
  ASSUME LaunchInv, RecordsInv, NothingToDrain
  PROVE  RecordsInv'
<1>0. pc \notin Unheld
  BY DEF NothingToDrain, Unheld
<1>1. Kept
  BY <1>0, OwnStage, RecordParts DEF NothingToDrain, Kept, LaunchTypeOK, Memories, Accounts, RecordInv
<1>2. AccountInv'
  BY <1>0, OwnStage, RecordParts DEF NothingToDrain, AccountInv, LaunchTypeOK, Memories, Accounts, Preparing, Recorded, Draining, Certain
<1>3. BindingInv'
  BY RecordParts, SameBinding DEF NothingToDrain
<1> QED BY <1>0, <1>1, <1>2, <1>3, OwnStage, KeptRecords DEF RecordsInv, RunIds

LEMMA EndDrainRecords ==
  ASSUME LaunchInv, RecordsInv, EndDrain
  PROVE  RecordsInv'
<1>0. pc \notin Unheld
  BY DEF EndDrain, Unheld
<1>1. Kept
  BY <1>0, OwnStage, RecordParts DEF EndDrain, Kept, LaunchTypeOK, Memories, Accounts, RecordInv
<1>2. AccountInv'
  BY <1>0, OwnStage, RecordParts DEF EndDrain, AccountInv, LaunchTypeOK, Memories, Accounts, Preparing, Recorded, Draining, Certain
<1>3. BindingInv'
  BY RecordParts, SameBinding DEF EndDrain
<1> QED BY <1>0, <1>1, <1>2, <1>3, OwnStage, KeptRecords DEF RecordsInv, RunIds

LEMMA TransportRecords ==
  ASSUME LaunchInv, RecordsInv, Transport
  PROVE  RecordsInv'
<1>0. pc \notin Unheld
  BY DEF Transport, Unheld
<1>1. Kept
  BY <1>0, OwnStage, RecordParts DEF Transport, Kept, LaunchTypeOK, Memories, Accounts, RecordInv
<1>2. AccountInv'
  BY <1>0, OwnStage, RecordParts DEF Transport, AccountInv, LaunchTypeOK, Memories, Accounts, Preparing, Recorded, Draining, Certain
<1>3. BindingInv'
  BY RecordParts, SameBinding DEF Transport
<1> QED BY <1>0, <1>1, <1>2, <1>3, OwnStage, KeptRecords DEF RecordsInv, RunIds

LEMMA FailStageRecords ==
  ASSUME LaunchInv, RecordsInv, FailStage
  PROVE  RecordsInv'
<1>0. pc \notin Unheld
  BY DEF FailStage, Unheld
<1>1. Kept
  BY <1>0, OwnStage, RecordParts DEF FailStage, Kept, LaunchTypeOK, Memories, Accounts, RecordInv
<1>2. AccountInv'
  BY <1>0, OwnStage, RecordParts DEF FailStage, AccountInv, LaunchTypeOK, Memories, Accounts, Preparing, Recorded, Draining, Certain
<1>3. BindingInv'
  BY RecordParts, SameBinding DEF FailStage
<1> QED BY <1>0, <1>1, <1>2, <1>3, OwnStage, KeptRecords DEF RecordsInv, RunIds

LEMMA WriteResultRecords ==
  ASSUME LaunchInv, RecordsInv, WriteResult
  PROVE  RecordsInv'
<1>0. pc \notin Unheld
  BY DEF WriteResult, Unheld
<1>1. Kept
  BY <1>0, OwnStage, RecordParts DEF WriteResult, Kept, LaunchTypeOK, Memories, Accounts, RecordInv
<1>2. AccountInv'
  BY <1>0, OwnStage, RecordParts DEF WriteResult, AccountInv, LaunchTypeOK, Memories, Accounts, Preparing, Recorded, Draining, Certain
<1>3. BindingInv'
  BY RecordParts, SameBinding DEF WriteResult
<1> QED BY <1>0, <1>1, <1>2, <1>3, OwnStage, KeptRecords DEF RecordsInv, RunIds

LEMMA SealRecords ==
  ASSUME LaunchInv, RecordsInv, Seal
  PROVE  RecordsInv'
<1>0. pc \notin Unheld
  BY DEF Seal, Unheld
<1>1. Kept
  BY <1>0, OwnStage, RecordParts DEF Seal, Kept, LaunchTypeOK, Memories, Accounts, RecordInv
<1>2. AccountInv'
  BY <1>0, OwnStage, RecordParts DEF Seal, AccountInv, LaunchTypeOK, Memories, Accounts, Preparing, Recorded, Draining, Certain
<1>3. BindingInv'
  BY RecordParts, SameBinding DEF Seal
<1> QED BY <1>0, <1>1, <1>2, <1>3, OwnStage, KeptRecords DEF RecordsInv, RunIds

LEMMA CrashRecords ==
  ASSUME LaunchInv, RecordsInv, Crash
  PROVE  RecordsInv'
<1>0. pc \notin Unheld
  BY DEF Crash, Unheld
<1>1. Kept
  BY <1>0, OwnStage, RecordParts DEF Crash, Kept, LaunchTypeOK, Memories, Accounts, RecordInv
<1>2. AccountInv'
  BY <1>0, OwnStage, RecordParts DEF Crash, AccountInv, LaunchTypeOK, Memories, Accounts, Preparing, Recorded, Draining, Certain
<1>3. BindingInv'
  BY RecordParts, SameBinding DEF Crash
<1> QED BY <1>0, <1>1, <1>2, <1>3, OwnStage, KeptRecords DEF RecordsInv, RunIds

LEMMA DrainReceiptRecords ==
  ASSUME LaunchInv, RecordsInv, NEW o \in {"blocked", "fresh"}, DrainReceipt(o)
  PROVE  RecordsInv'
<1>0. pc \notin Unheld
  BY DEF DrainReceipt, Unheld
<1>1. Kept
  BY <1>0, OwnStage, RecordParts DEF DrainReceipt, Kept, LaunchTypeOK, Memories, Accounts, RecordInv
<1>2. AccountInv'
  BY <1>0, OwnStage, RecordParts DEF DrainReceipt, AccountInv, LaunchTypeOK, Memories, Accounts, Preparing, Recorded, Draining, Certain
<1>3. BindingInv'
  BY RecordParts, SameBinding DEF DrainReceipt
<1> QED BY <1>0, <1>1, <1>2, <1>3, OwnStage, KeptRecords DEF RecordsInv, RunIds

LEMMA CollectRecords ==
  ASSUME LaunchInv, RecordsInv, NEW o \in {"ok", "blocked", "unproven"}, Collect(o)
  PROVE  RecordsInv'
<1>0. pc \notin Unheld
  BY DEF Collect, Unheld
<1>1. Kept
  BY <1>0, OwnStage, RecordParts, StageIsNamed DEF Collect, Kept, LaunchTypeOK, Memories, Accounts, RecordInv, Recorded
<1>2. AccountInv'
  BY <1>0, OwnStage, RecordParts DEF Collect, AccountInv, LaunchTypeOK, Memories, Accounts, Preparing, Recorded, Draining, Certain
<1>3. BindingInv'
  BY RecordParts, SameBinding DEF Collect
<1> QED BY <1>0, <1>1, <1>2, <1>3, OwnStage, KeptRecords DEF RecordsInv, RunIds

LEMMA FinalizedRecords ==
  ASSUME LaunchInv, RecordsInv, NEW o \in {"blocked", "completed"}, Finalized(o)
  PROVE  RecordsInv'
<1>0. pc \notin Unheld
  BY DEF Finalized, Unheld
<1>1. Kept
  BY <1>0, OwnStage, RecordParts DEF Finalized, Kept, LaunchTypeOK, Memories, Accounts, RecordInv
<1>2. AccountInv'
  BY <1>0, OwnStage, RecordParts DEF Finalized, AccountInv, LaunchTypeOK, Memories, Accounts, Preparing, Recorded, Draining, Certain
<1>3. BindingInv'
  BY RecordParts, SameBinding DEF Finalized
<1> QED BY <1>0, <1>1, <1>2, <1>3, OwnStage, KeptRecords DEF RecordsInv, RunIds

LEMMA RecordLaunchRecords ==
  ASSUME LaunchInv, RecordsInv, RecordLaunch
  PROVE  RecordsInv'
<1>0. pc \notin Unheld /\ pc = "prepared"
  BY DEF RecordLaunch, Unheld
<1>1. /\ state'[cur].launches = state[cur].launches \cup {mem.stage} /\ state'[cur].invoked = mem.stage
      /\ state'[cur].completed = state[cur].completed /\ state'[cur].finalizing = state[cur].finalizing
      /\ \A r \in RunIds : r # cur => state'[r] = state[r]
  BY <1>0, OwnStage DEF RecordLaunch, LaunchTypeOK, Accounts
<1>2. UNCHANGED <<last, cur, result, evidence, proc, digest>>
  BY DEF RecordLaunch
<1>3. mem.stage = state[cur].completed + 1 /\ evidence[cur][mem.stage] # "none"
  BY <1>0, RecordParts DEF AccountInv, Preparing
<1>4. RecordInv(cur)'
  BY <1>0, <1>1, <1>2, <1>3, OwnStage, RecordParts DEF RecordInv
<1>5. ASSUME NEW r \in RunIds PROVE RecordInv(r)'
  <2>1. CASE r = cur
    BY <1>2, <1>4, <2>1 DEF RecordInv
  <2>2. CASE r # cur
    BY <1>1, <1>2, <2>2, RecordParts DEF RecordInv
  <2> QED BY <2>1, <2>2
<1>6. AccountInv'
  BY <1>0, <1>1, <1>3, OwnStage DEF RecordLaunch, AccountInv, Preparing, Draining
<1>7. BindingInv'
  BY RecordParts, SameBinding DEF RecordLaunch
<1> QED BY <1>5, <1>6, <1>7 DEF RecordsInv, RunIds

LEMMA CompleteStageRecords ==
  ASSUME LaunchInv, RecordsInv, CompleteStage
  PROVE  RecordsInv'
<1>0. pc \notin Unheld /\ pc = "transported"
  BY DEF CompleteStage, Unheld
<1>1. /\ state'[cur].launches = state[cur].launches /\ state'[cur].invoked = state[cur].invoked
      /\ state'[cur].completed = mem.stage
      /\ \A r \in RunIds : r # cur => state'[r] = state[r]
  BY <1>0, OwnStage DEF CompleteStage, LaunchTypeOK, Accounts
<1>f. state'[cur].finalizing => mem.stage = last
  BY <1>0, OwnStage DEF CompleteStage, LaunchTypeOK, Accounts
<1>2. UNCHANGED <<last, cur, result, evidence, proc, digest>>
  BY DEF CompleteStage
<1>3. state[cur].invoked = mem.stage
  BY <1>0, RecordParts DEF AccountInv, Recorded
<1>4. RecordInv(cur)'
  BY <1>0, <1>1, <1>f, <1>2, <1>3, OwnStage, RecordParts DEF RecordInv
<1>5. ASSUME NEW r \in RunIds PROVE RecordInv(r)'
  <2>1. CASE r = cur
    BY <1>2, <1>4, <2>1 DEF RecordInv
  <2>2. CASE r # cur
    BY <1>1, <1>2, <2>2, RecordParts DEF RecordInv
  <2> QED BY <2>1, <2>2
<1>6. AccountInv'
  <2>1. pc' = "open" => mem'.stage = mem.stage + 1
    BY <1>0, OwnStage DEF CompleteStage, LaunchTypeOK, Memories
  <2>2. pc' \in {"open", "finalize"}
    BY DEF CompleteStage
  <2> QED BY <1>1, <1>2, <1>3, <2>1, <2>2 DEF AccountInv, Preparing, Recorded, Draining
<1>7. BindingInv'
  BY RecordParts, SameBinding DEF CompleteStage
<1> QED BY <1>5, <1>6, <1>7 DEF RecordsInv, RunIds

(* A process writes a record and moves on only when the state names it. *)
LEMMA ProcessRecords ==
  ASSUME LaunchInv, RecordsInv, NEW r \in RunIds, NEW s \in Stages, ProcessOf(r, s)
  PROVE  RecordsInv'
<1>0. LaunchTypeOK
  BY InvParts
<1>1. UNCHANGED <<last, cur, src, pc, mem, state, result, digest, recovery>>
  BY DEF ProcessOf, GateAwaits, GateEnds, GateExecs, ProviderEnds, WorkerStarts, WorkerSettles
<1>2. proc[r][s] # "none" => s \in state[r].launches
  BY RecordParts DEF RecordInv
<1>3. \A q \in RunIds, t \in Stages :
        /\ proc'[q][t] = proc[q][t] \/ (q = r /\ t = s /\ proc[r][s] # "none")
        /\ evidence'[q][t] = evidence[q][t]
             \/ (q = r /\ t = s /\ proc[r][s] # "none" /\ evidence'[q][t] # "none")
  BY <1>0 DEF ProcessOf, GateAwaits, GateEnds, GateExecs, ProviderEnds, WorkerStarts, WorkerSettles, LaunchTypeOK
<1>4. Kept
  BY <1>1, <1>2, <1>3 DEF Kept
<1>5. AccountInv'
  <2>1. pc \in Preparing \cup Recorded \cup Draining => pc \notin Unheld
    BY DEF Preparing, Recorded, Draining, Unheld
  <2>2. pc = "prepared" => evidence'[cur][mem.stage] # "none"
    BY <1>3, <2>1, OwnStage, RecordParts DEF AccountInv, Preparing
  <2> QED BY <1>1, <2>2, RecordParts DEF AccountInv
<1>6. BindingInv'
  BY <1>1, RecordParts, SameBinding
<1> QED BY <1>0, <1>4, <1>5, <1>6, KeptRecords DEF RecordsInv, RunIds

LEMMA ViewIsNotEmpty ==
  ASSUME NEW v \in [Stages -> Phases]
  PROVE  v # <<>>
<1>1. DOMAIN v = Stages /\ 1 \in Stages
  BY StageNumbers
<1>2. 1 \notin DOMAIN <<>>
  OBVIOUS
<1> QED BY <1>1, <1>2

(* A recovery changes nothing a record says; it binds its receipt before it
   writes a result. *)
LEMMA RecoveryRecords ==
  ASSUME LaunchInv, RecordsInv, RecoveryStep
  PROVE  RecordsInv'
<1>0. LaunchTypeOK /\ RecoveryInv /\ BindingInv
  BY InvParts, RecordParts
<1>1. UNCHANGED <<last, cur, pc, mem, state, evidence, proc>>
  BY DEF RecoveryStep, BeginRecovery, CloseParent, RecoverReceipt, RecoverResult, RecoverState, RecoveryEnds
<1>2. AccountInv'
  BY <1>1, RecordParts DEF AccountInv
<1>r. recovery.step # "idle" => recovery.run \in RunIds
  BY <1>0, LaunchAssumption DEF RecoveryInv, LaunchTypeOK, RunIds
<1>3. ASSUME NEW r \in RunIds PROVE result'[r] = "recovered" => digest'[r] # <<>>
  <2>1. result[r] = "recovered" => digest[r] # <<>>
    BY RecordParts DEF RecordInv
  <2>2. CASE RecoverReceipt
    BY <1>0, <1>r, <2>1, <2>2 DEF RecoverReceipt, BindingInv, LaunchTypeOK
  <2>3. CASE RecoverResult
    BY <1>0, <1>r, <2>1, <2>3 DEF RecoverResult, BindingInv, LaunchTypeOK
  <2>4. CASE ~RecoverReceipt /\ ~RecoverResult
    BY <2>1, <2>4 DEF RecoveryStep, BeginRecovery, CloseParent, RecoverState, RecoveryEnds
  <2> QED BY <2>2, <2>3, <2>4
<1>4. ASSUME NEW r \in RunIds PROVE RecordInv(r)'
  BY <1>1, <1>3, RecordParts DEF RecordInv, Stages
<1>5. BindingInv'
  <2>1. CASE \E q \in 1..cur : BeginRecovery(q)
    <3>1. PICK q \in 1..cur : BeginRecovery(q)
      BY <2>1
    <3>2. evidence[q] \in [Stages -> Phases]
      BY <1>0, LaunchAssumption DEF LaunchTypeOK, RunIds
    <3>3. recovery'.step = "parents" /\ recovery'.view = evidence[q]
      BY <3>1 DEF BeginRecovery
    <3> QED BY <3>2, <3>3, ViewIsNotEmpty DEF BindingInv
  <2>2. CASE \E s \in Stages : CloseParent(s)
    BY <1>0, <2>2 DEF CloseParent, BindingInv
  <2>3. CASE RecoverReceipt
    <3>1. recovery'.step = "receipt" /\ recovery'.run = recovery.run /\ digest'[recovery.run] = recovery.view
      BY <1>0, <1>r, <2>3 DEF RecoverReceipt, LaunchTypeOK
    <3> QED BY <1>0, <2>3, <3>1 DEF RecoverReceipt, BindingInv
  <2>4. CASE RecoverResult
    <3>1. recovery'.step = "result" /\ recovery'.run = recovery.run /\ digest' = digest
      BY <1>0, <2>4 DEF RecoverResult, LaunchTypeOK
    <3> QED BY <1>0, <2>4, <3>1 DEF RecoverResult, BindingInv
  <2>5. CASE RecoverState \/ RecoveryEnds
    BY <2>5 DEF RecoverState, RecoveryEnds, Idle, BindingInv
  <2> QED BY <2>1, <2>2, <2>3, <2>4, <2>5 DEF RecoveryStep
<1> QED BY <1>2, <1>4, <1>5 DEF RecordsInv, RunIds

LEMMA StartRunRecords ==
  ASSUME LaunchInv, RecordsInv, NEW q \in 0..cur, NEW k \in 0..last, StartRun(q, k)
  PROVE  RecordsInv'
<1>0. /\ LaunchTypeOK /\ cur \in Nat /\ cur + 1 \in RunIds /\ last \in Nat /\ k \in Nat /\ k <= last
      /\ \A r \in RunIds : r \in Nat
  <2>1. LaunchTypeOK /\ cur < MaxRuns /\ cur \in Nat /\ last \in Nat
    BY InvParts, LaunchAssumption DEF StartRun, LaunchTypeOK, Stages
  <2> QED BY <2>1, LaunchAssumption DEF RunIds
<1>n. PICK n \in RunIds : n = cur + 1
  BY <1>0
<1>1. /\ cur' = n /\ state'[n] = Inherited(k)
      /\ \A r \in RunIds : r # n => state'[r] = state[r]
  BY <1>0, <1>n DEF StartRun, LaunchTypeOK
<1>2. UNCHANGED <<last, result, evidence, proc, digest, recovery>>
  BY DEF StartRun
<1>3. \A s \in Stages : evidence[n][s] = "none" /\ proc[n][s] = "none"
  BY <1>0, <1>n, InvParts, RecordParts DEF RecordInv, RunInv
<1>4. RecordInv(n)'
  <2>1. /\ state'[n].launches = {} /\ state'[n].invoked = k /\ state'[n].completed = k
        /\ ~state'[n].finalizing
    BY <1>1 DEF Inherited
  <2>2. result[n] = "recovered" => digest[n] # <<>>
    BY <1>0, RecordParts DEF RecordInv
  <2> QED BY <1>0, <1>1, <1>2, <1>3, <2>1, <2>2 DEF RecordInv
<1>5. ASSUME NEW r \in RunIds PROVE RecordInv(r)'
  <2>1. CASE r = n
    BY <1>4, <2>1 DEF RecordInv
  <2>2. CASE r # n
    BY <1>0, <1>n, <1>1, <1>2, <2>2, RecordParts DEF RecordInv
  <2> QED BY <2>1, <2>2
<1>6. AccountInv'
  <2>1. /\ pc' \in {"open", "finalize"}
        /\ pc' = "open" => mem'.stage = k + 1
    BY DEF StartRun
  <2>2. state'[cur'].completed = k /\ state'[cur'].invoked = k
    BY <1>1 DEF Inherited
  <2> QED BY <2>1, <2>2 DEF AccountInv, Preparing, Recorded, Draining
<1>7. BindingInv'
  BY <1>2, RecordParts, SameBinding
<1> QED BY <1>5, <1>6, <1>7 DEF RecordsInv, RunIds

LEMMA InitRecords == LaunchInit => RecordsInv
<1> SUFFICES ASSUME LaunchInit PROVE RecordsInv
  OBVIOUS
<1>1. ASSUME NEW r \in RunIds PROVE RecordInv(r)
  <2>1. state[r] = Inherited(0) /\ result[r] = "none"
        /\ \A s \in Stages : evidence[r][s] = "none" /\ proc[r][s] = "none"
    BY DEF LaunchInit, Blank
  <2> QED BY <2>1 DEF RecordInv, Inherited
<1>2. AccountInv /\ BindingInv
  BY DEF LaunchInit, AccountInv, BindingInv, Idle, Preparing, Recorded, Draining
<1> QED BY <1>1, <1>2 DEF RecordsInv

LEMMA StutterRecords == ASSUME RecordsInv, UNCHANGED launchVars PROVE RecordsInv'
<1>0. UNCHANGED <<last, cur, pc, mem, state, result, evidence, proc, digest, recovery>>
  BY DEF launchVars
<1>1. \A r \in RunIds : RecordInv(r)'
  BY <1>0, RecordParts DEF RecordInv, Stages
<1>2. AccountInv' /\ BindingInv'
  BY <1>0, RecordParts DEF AccountInv, BindingInv
<1> QED BY <1>1, <1>2 DEF RecordsInv, RunIds

LEMMA StageStepRecords == ASSUME LaunchInv, RecordsInv, StageStep PROVE RecordsInv'
BY RegisterRecords, ArmReceiptRecords, ArmMarkerRecords, PrepareRecords, RecordLaunchRecords,
   SpawnGateRecords, SpawnFailsRecords, AuthorizeRecords, GateRefusedRecords, WithdrawRecords,
   ProceedRecords, AuthorizedFailsRecords, ConfirmRecords, ExecFailedRecords, RecordTerminalRecords,
   RaiseRecords, CloseAdmissionRecords, NothingToDrainRecords, EndDrainRecords, DrainReceiptRecords
   DEF StageStep

(* The files a run leaves agree with each other wherever its dispatcher is
   killed: what is written first never says more than what is written next. *)
THEOREM RecordsInvariant == LaunchSpec => []RecordsInv
<1>1. ASSUME LaunchInv, RecordsInv, [LaunchNext]_launchVars PROVE RecordsInv'
  <2>1. CASE ProcessStep
    <3>1. 1..cur \subseteq RunIds /\ 1..last \subseteq Stages
      BY <1>1, InvParts, LaunchAssumption DEF LaunchTypeOK, RunIds, Stages
    <3> QED BY <1>1, <2>1, <3>1, ProcessRecords DEF ProcessStep, ProcessOf
  <2>2. CASE RecoveryStep
    BY <1>1, <2>2, RecoveryRecords
  <2>3. CASE StageStep
    BY <1>1, <2>3, StageStepRecords
  <2>4. CASE \E q \in 0..cur, k \in 0..last : StartRun(q, k)
    BY <1>1, <2>4, StartRunRecords
  <2>5. CASE UNCHANGED launchVars
    BY <1>1, <2>5, StutterRecords
  <2> QED BY <1>1, <2>1, <2>2, <2>3, <2>4, <2>5, CollectRecords, TransportRecords, CompleteStageRecords,
             FailStageRecords, WriteResultRecords, SealRecords, CrashRecords, FinalizedRecords DEF LaunchNext
<1> QED BY LaunchInvariant, InitRecords, <1>1, PTL DEF LaunchSpec

(* Wherever a dispatcher was killed inside the stages of its run, the run can be
   recovered once its processes and workers have ended, but for the two windows
   the property names. *)
THEOREM StoppedRunsRecover == LaunchSpec => []StoppedRunRecovers
<1>1. ASSUME LaunchInv, RecordsInv PROVE StoppedRunRecovers
  <2> SUFFICES ASSUME NEW q \in 1..cur, ControllerEnded(q), result[q] \in {"none", "recovered"}, ~sealed[q],
                      state[q].completed < last,
                      \A s \in Stages : proc[q][s] \in Quiet /\ worker[q][s] # "running",
                      ~Unnamed(q)
               PROVE  NeedsRecovery(q) /\ Qualified(q)
    BY DEF StoppedRunRecovers
  <2>1. q \in RunIds /\ LaunchTypeOK
    BY <1>1, InvParts, LaunchAssumption DEF LaunchTypeOK, RunIds
  <2>2. RecordInv(q) /\ state[q] \in Accounts /\ last \in Nat
    BY <1>1, <2>1, RecordParts, LaunchAssumption DEF LaunchTypeOK, Stages
  <2>3. NeedsRecovery(q)
    BY <2>2 DEF NeedsRecovery, RecordInv
  <2>4. Interrupted(q)
    BY <2>2 DEF Interrupted, RecordInv, Accounts
  <2>5. ProvenEnded(q)
    BY <2>2 DEF ProvenEnded, RecordInv
  <2>6. Settled(q) /\ Retained(q)
    BY DEF Settled, Unnamed
  <2> QED BY <2>3, <2>4, <2>5, <2>6 DEF Qualified
<1> QED BY LaunchInvariant, RecordsInvariant, <1>1, PTL
=============================================================================
