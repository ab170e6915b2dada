-------------------------- MODULE ProviderLaunch --------------------------
(* How one phase run starts its providers and what a later run may rely on.

   A dispatcher takes the stages of a lifecycle in order.  For each it
   registers a worker ledger and takes custody of it, writes a launch record
   ("prepared"), names the record in state.json, and starts a gate: a small
   process that writes its own identity into the record ("awaiting") and waits
   for one byte.  The dispatcher makes "authorized" durable before it sends the
   byte; only then does the gate become the provider.  Afterwards the ledger is
   drained, a receipt written and the stage accounted for.

   The dispatcher can be killed between any two of these writes; gates,
   providers and workers go on by themselves.  A later command recovers a run
   that left no result, from its files alone, and starts the next run. *)
EXTENDS Naturals

CONSTANTS
  MaxRuns,        \* bound: runs of the phase, the first and those that resume
  MaxStages,      \* stages of the longest lifecycle
  WorkerStages    \* the stages whose provider is given a worker ledger

ASSUME LaunchAssumption ==
  MaxRuns \in Nat /\ MaxStages \in Nat \ {0} /\ WorkerStages \subseteq 1..MaxStages

VARIABLES
  last,       \* how many stages the lifecycle of this phase has
  cur,        \* the number of runs created so far; only the latest can be live
  src,        \* the run each run resumed, 0 for the first
  pc,         \* where the latest run's dispatcher is
  mem,        \* what that dispatcher holds in memory
  state,      \* state.json of each run
  result,     \* result.json of each run
  sealed,     \* whether state.json was written after result.json
  evidence,   \* the launch record of each attempt
  proc,       \* the process started for each attempt
  pipe,       \* the dispatcher's end of that process's proceed pipe
  ledger,     \* the worker ledger of each attempt
  worker,     \* a worker job admitted by that ledger
  receipt,    \* the drain receipt of each attempt
  digest,     \* the launch records an interrupted-recovery receipt is bound to
  recovery    \* the recovery in progress

launchVars == <<last, cur, src, pc, mem, state, result, sealed, evidence, proc,
                pipe, ledger, worker, receipt, digest, recovery>>

RunIds == 1..MaxRuns
Stages == 1..MaxStages

Phases == {"none", "prepared", "not_started", "awaiting", "withdrawn",
           "authorized", "confirmed", "exec_failed", "returned"}

(* Faulty variant: an authorized gate is not taken for a process. *)
ProcessPhasesStarted == {"awaiting", "withdrawn", "confirmed", "exec_failed", "returned"}

(* The phases whose record carries the facts of a process. *)
ProcessPhases == {"awaiting", "withdrawn", "authorized", "confirmed",
                  "exec_failed", "returned"}

Quiet == {"none", "gone"}
Unheld == {"dead", "ended"}

(* What a dispatcher remembers, and what state.json accounts for. *)
Memories == [stage : Stages, marker : 0..MaxStages,
             outcome : {"ok", "blocked", "unproven", "fresh", "completed"}]
Accounts == [invoked : 0..MaxStages, transported : 0..MaxStages, completed : 0..MaxStages,
             launches : SUBSET Stages, marker : 0..MaxStages, finalizing : BOOLEAN]

LaunchTypeOK ==
  /\ last \in Stages /\ cur \in 0..MaxRuns
  /\ src \in [RunIds -> 0..MaxRuns]
  /\ pc \in Unheld \cup {"open", "registered", "receipt", "armed", "prepared",
       "recorded", "spawned", "refused", "authorized", "proceeding", "running",
       "collected", "drain", "draining", "closed", "drained", "transported",
       "finalize", "reporting", "sealing"}
  /\ mem \in Memories /\ state \in [RunIds -> Accounts]
  /\ result \in [RunIds -> {"none", "blocked", "unproven", "fresh", "completed", "recovered"}]
  /\ sealed \in [RunIds -> BOOLEAN]
  /\ evidence \in [RunIds -> [Stages -> Phases]]
  /\ proc \in [RunIds -> [Stages -> Quiet \cup {"gate", "waiting", "provider"}]]
  /\ pipe \in [RunIds -> [Stages -> {"none", "open", "sent", "closed"}]]
  /\ ledger \in [RunIds -> [Stages -> {"none", "open", "draining", "closed"}]]
  /\ worker \in [RunIds -> [Stages -> {"none", "running", "settled"}]]
  /\ receipt \in [RunIds -> [Stages -> {"none", "armed", "settled", "uncertain"}]]
  /\ digest \in [RunIds -> {<<>>} \cup [Stages -> Phases]]
  /\ recovery \in [run : 0..MaxRuns, step : {"idle", "parents", "receipt", "result"},
                   view : {<<>>} \cup [Stages -> Phases]]

Idle == [run |-> 0, step |-> "idle", view |-> <<>>]
NoMemory == [stage |-> 1, marker |-> 0, outcome |-> "ok"]
Blank(x) == [r \in RunIds |-> [s \in Stages |-> x]]

(* The accounting a run starts with: the k stages it inherits. *)
Inherited(k) == [invoked |-> k, transported |-> k, completed |-> k, launches |-> {},
                 marker |-> 0, finalizing |-> FALSE]

LaunchInit ==
  /\ last \in Stages
  /\ cur = 0
  /\ src = [r \in RunIds |-> 0]
  /\ pc = "ended"
  /\ mem = NoMemory
  /\ state = [r \in RunIds |-> Inherited(0)]
  /\ result = [r \in RunIds |-> "none"]
  /\ sealed = [r \in RunIds |-> FALSE]
  /\ evidence = Blank("none") /\ proc = Blank("none") /\ pipe = Blank("none")
  /\ ledger = Blank("none") /\ worker = Blank("none") /\ receipt = Blank("none")
  /\ digest = [r \in RunIds |-> <<>>]
  /\ recovery = Idle

--------------------------------------------------------------------------
(* Custody of the stage's ledger.  The receipt comes first and the marker in
   state.json second; a stage without workers has neither. *)

Register ==
  /\ pc = "open" /\ mem.stage \in WorkerStages
  /\ pc' = "registered"
  /\ ledger' = [ledger EXCEPT ![cur][mem.stage] = "open"]
  /\ UNCHANGED <<last, cur, src, mem, state, result, sealed, evidence, proc, pipe,
                 worker, receipt, digest, recovery>>

ArmReceipt ==
  /\ pc = "registered"
  /\ pc' = "receipt"
  /\ receipt' = [receipt EXCEPT ![cur][mem.stage] = "armed"]
  /\ UNCHANGED <<last, cur, src, mem, state, result, sealed, evidence, proc, pipe,
                 ledger, worker, digest, recovery>>

ArmMarker ==
  /\ pc = "receipt"
  /\ pc' = "armed"
  /\ mem' = [mem EXCEPT !.marker = mem.stage]
  /\ state' = [state EXCEPT ![cur].marker = mem.stage]
  /\ UNCHANGED <<last, cur, src, result, sealed, evidence, proc, pipe, ledger,
                 worker, receipt, digest, recovery>>

--------------------------------------------------------------------------
(* The launch record and the gate. *)

Prepare ==
  /\ pc = IF mem.stage \in WorkerStages THEN "armed" ELSE "open"
  /\ evidence[cur][mem.stage] = "none"
  /\ pc' = "prepared"
  /\ evidence' = [evidence EXCEPT ![cur][mem.stage] = "prepared"]
  /\ UNCHANGED <<last, cur, src, mem, state, result, sealed, proc, pipe, ledger,
                 worker, receipt, digest, recovery>>

(* One write of state.json names the launch record and the invoked stage. *)
RecordLaunch ==
  /\ pc = "prepared"
  /\ pc' = "recorded"
  /\ state' = [state EXCEPT ![cur].launches = @ \cup {mem.stage},
                            ![cur].invoked = mem.stage,
                            ![cur].marker = mem.marker]
  /\ UNCHANGED <<last, cur, src, mem, result, sealed, evidence, proc, pipe, ledger,
                 worker, receipt, digest, recovery>>

SpawnGate ==
  /\ pc = "recorded"
  /\ pc' = "spawned"
  /\ proc' = [proc EXCEPT ![cur][mem.stage] = "gate"]
  /\ pipe' = [pipe EXCEPT ![cur][mem.stage] = "open"]
  /\ UNCHANGED <<last, cur, src, mem, state, result, sealed, evidence, ledger,
                 worker, receipt, digest, recovery>>

(* No process could be started; the record says so when it can be written. *)
SpawnFails ==
  /\ pc = "recorded"
  /\ pc' = "drain"
  /\ mem' = [mem EXCEPT !.outcome = "blocked"]
  /\ \E e \in {"prepared", "not_started"} :
       evidence' = [evidence EXCEPT ![cur][mem.stage] = e]
  /\ UNCHANGED <<last, cur, src, state, result, sealed, proc, pipe, ledger, worker,
                 receipt, digest, recovery>>

(* The gate's process: its facts become durable before it reports ready. *)
GateAwaits(r, s) ==
  /\ proc[r][s] = "gate" /\ evidence[r][s] = "prepared"
  /\ proc' = [proc EXCEPT ![r][s] = "waiting"]
  /\ evidence' = [evidence EXCEPT ![r][s] = "awaiting"]
  /\ UNCHANGED <<last, cur, src, pc, mem, state, result, sealed, pipe, ledger, worker,
                 receipt, digest, recovery>>

(* End of file on the pipe, an exec that fails, or any other end of a gate. *)
GateEnds(r, s) ==
  /\ proc[r][s] \in {"gate", "waiting"}
  /\ proc' = [proc EXCEPT ![r][s] = "gone"]
  /\ UNCHANGED <<last, cur, src, pc, mem, state, result, sealed, evidence, pipe,
                 ledger, worker, receipt, digest, recovery>>

(* The byte is read even if the dispatcher that sent it is dead by now. *)
GateExecs(r, s) ==
  /\ proc[r][s] = "waiting" /\ pipe[r][s] = "sent"
  /\ proc' = [proc EXCEPT ![r][s] = "provider"]
  /\ UNCHANGED <<last, cur, src, pc, mem, state, result, sealed, evidence, pipe,
                 ledger, worker, receipt, digest, recovery>>

Authorize ==
  /\ pc = "spawned"
  /\ proc[cur][mem.stage] = "waiting" /\ evidence[cur][mem.stage] = "awaiting"
  /\ pc' = "authorized"
  /\ evidence' = [evidence EXCEPT ![cur][mem.stage] = "authorized"]
  /\ UNCHANGED <<last, cur, src, mem, state, result, sealed, proc, pipe, ledger,
                 worker, receipt, digest, recovery>>

(* The gate did not answer in time, exited, or named another process. *)
GateRefused ==
  /\ pc = "spawned"
  /\ pc' = "refused"
  /\ mem' = [mem EXCEPT !.outcome = "blocked"]
  /\ proc' = [proc EXCEPT ![cur][mem.stage] = "gone"]
  /\ pipe' = [pipe EXCEPT ![cur][mem.stage] = "closed"]
  /\ UNCHANGED <<last, cur, src, state, result, sealed, evidence, ledger, worker,
                 receipt, digest, recovery>>

Withdrawn(e) ==
  CASE e = "awaiting" -> "withdrawn"
    [] e = "prepared" -> "not_started"
    [] OTHER -> e

(* Best effort: the record of a reaped gate, from the phase the file is in. *)
Withdraw ==
  /\ pc = "refused"
  /\ pc' = "drain"
  /\ \E e \in {evidence[cur][mem.stage], Withdrawn(evidence[cur][mem.stage])} :
       evidence' = [evidence EXCEPT ![cur][mem.stage] = e]
  /\ UNCHANGED <<last, cur, src, mem, state, result, sealed, proc, pipe, ledger,
                 worker, receipt, digest, recovery>>

Proceed ==
  /\ pc = "authorized"
  /\ pc' = "proceeding"
  /\ pipe' = [pipe EXCEPT ![cur][mem.stage] = "sent"]
  /\ UNCHANGED <<last, cur, src, mem, state, result, sealed, evidence, proc, ledger,
                 worker, receipt, digest, recovery>>

(* A failure after the authorization: the process is ended, the record is not
   withdrawn. *)
AuthorizedFails ==
  /\ pc \in {"authorized", "proceeding"}
  /\ pc' = "drain"
  /\ mem' = [mem EXCEPT !.outcome = "blocked"]
  /\ proc' = [proc EXCEPT ![cur][mem.stage] = "gone"]
  /\ pipe' = [pipe EXCEPT ![cur][mem.stage] = "closed"]
  /\ UNCHANGED <<last, cur, src, state, result, sealed, evidence, ledger, worker,
                 receipt, digest, recovery>>

(* The ready pipe reached its end: the gate became the provider, or is gone. *)
Confirm ==
  /\ pc = "proceeding" /\ proc[cur][mem.stage] # "waiting"
  /\ pc' = "running"
  /\ evidence' = [evidence EXCEPT ![cur][mem.stage] = "confirmed"]
  /\ UNCHANGED <<last, cur, src, mem, state, result, sealed, proc, pipe, ledger,
                 worker, receipt, digest, recovery>>

ExecFailed ==
  /\ pc = "proceeding" /\ proc[cur][mem.stage] = "gone"
  /\ pc' = "drain"
  /\ mem' = [mem EXCEPT !.outcome = "blocked"]
  /\ evidence' = [evidence EXCEPT ![cur][mem.stage] = "exec_failed"]
  /\ UNCHANGED <<last, cur, src, state, result, sealed, proc, pipe, ledger, worker,
                 receipt, digest, recovery>>

--------------------------------------------------------------------------
(* The provider, and a worker it asks its ledger for. *)

ProviderEnds(r, s) ==
  /\ proc[r][s] = "provider"
  /\ proc' = [proc EXCEPT ![r][s] = "gone"]
  /\ UNCHANGED <<last, cur, src, pc, mem, state, result, sealed, evidence, pipe,
                 ledger, worker, receipt, digest, recovery>>

WorkerStarts(r, s) ==
  /\ proc[r][s] = "provider" /\ ledger[r][s] = "open" /\ worker[r][s] = "none"
  /\ worker' = [worker EXCEPT ![r][s] = "running"]
  /\ UNCHANGED <<last, cur, src, pc, mem, state, result, sealed, evidence, proc, pipe,
                 ledger, receipt, digest, recovery>>

(* Its job becomes terminal with proven cleanup: by its own supervisor, or
   cancelled by the drain. *)
WorkerSettles(r, s) ==
  /\ worker[r][s] = "running"
  /\ worker' = [worker EXCEPT ![r][s] = "settled"]
  /\ UNCHANGED <<last, cur, src, pc, mem, state, result, sealed, evidence, proc, pipe,
                 ledger, receipt, digest, recovery>>

(* The provider returned, or was ended by the dispatcher, and its process group
   is proven absent; or that proof fails and something may survive. *)
Collect(o) ==
  /\ pc = "running"
  /\ pc' = "collected"
  /\ mem' = [mem EXCEPT !.outcome = o]
  /\ proc' = IF o = "unproven" THEN proc ELSE [proc EXCEPT ![cur][mem.stage] = "gone"]
  /\ UNCHANGED <<last, cur, src, state, result, sealed, evidence, pipe, ledger, worker,
                 receipt, digest, recovery>>

RecordTerminal ==
  /\ pc = "collected"
  /\ pc' = "drain"
  /\ \E e \in {"confirmed", IF proc[cur][mem.stage] = "gone" THEN "returned" ELSE "confirmed"} :
       evidence' = [evidence EXCEPT ![cur][mem.stage] = e]
  /\ UNCHANGED <<last, cur, src, mem, state, result, sealed, proc, pipe, ledger,
                 worker, receipt, digest, recovery>>

--------------------------------------------------------------------------
(* The drain of the stage's ledger, on every way out of the stage. *)

(* An exception before anything was spawned. *)
Raise ==
  /\ pc \in {"open", "registered", "receipt", "armed", "prepared", "recorded"}
  /\ pc' = "drain"
  /\ mem' = [mem EXCEPT !.outcome = "blocked"]
  /\ UNCHANGED <<last, cur, src, state, result, sealed, evidence, proc, pipe, ledger,
                 worker, receipt, digest, recovery>>

CloseAdmission ==
  /\ pc = "drain" /\ ledger[cur][mem.stage] = "open"
  /\ pc' = "draining"
  /\ mem' = [mem EXCEPT !.marker = mem.stage]
  /\ ledger' = [ledger EXCEPT ![cur][mem.stage] = "draining"]
  /\ receipt' = [receipt EXCEPT ![cur][mem.stage] = "armed"]
  /\ UNCHANGED <<last, cur, src, state, result, sealed, evidence, proc, pipe, worker,
                 digest, recovery>>

NothingToDrain ==
  /\ pc = "drain" /\ ledger[cur][mem.stage] = "none"
  /\ pc' = "drained"
  /\ UNCHANGED <<last, cur, src, mem, state, result, sealed, evidence, proc, pipe,
                 ledger, worker, receipt, digest, recovery>>

(* Closed when every job is terminal, left draining when the time is up. *)
EndDrain ==
  /\ pc = "draining"
  /\ pc' = "closed"
  /\ ledger' = [ledger EXCEPT ![cur][mem.stage] =
                  IF worker[cur][mem.stage] = "running" THEN "draining" ELSE "closed"]
  /\ UNCHANGED <<last, cur, src, mem, state, result, sealed, evidence, proc, pipe,
                 worker, receipt, digest, recovery>>

Certain == ledger[cur][mem.stage] = "closed"

(* The receipt; a certain one releases the marker, in memory only.  A stage
   that went well fails on an uncertain one. *)
DrainReceipt(o) ==
  /\ pc = "closed"
  /\ pc' = "drained"
  /\ receipt' = [receipt EXCEPT ![cur][mem.stage] = IF Certain THEN "settled" ELSE "uncertain"]
  /\ mem' = [mem EXCEPT !.marker = IF Certain THEN 0 ELSE @,
                        !.outcome = IF Certain \/ @ # "ok" THEN @ ELSE o]
  /\ UNCHANGED <<last, cur, src, state, result, sealed, evidence, proc, pipe, ledger,
                 worker, digest, recovery>>

--------------------------------------------------------------------------
(* Accounting for the stage, and the end of the run. *)

Transport ==
  /\ pc = "drained" /\ mem.outcome = "ok"
  /\ pc' = "transported"
  /\ state' = [state EXCEPT ![cur].transported = mem.stage, ![cur].marker = mem.marker]
  /\ UNCHANGED <<last, cur, src, mem, result, sealed, evidence, proc, pipe, ledger,
                 worker, receipt, digest, recovery>>

(* Faulty variant: the next stage is opened without asking whether there is one. *)
CompleteStageNext ==
  /\ pc = "transported"
  /\ pc' = "open"
  /\ mem' = [mem EXCEPT !.stage = @ + 1]
  /\ state' = [state EXCEPT ![cur].completed = mem.stage,
                            ![cur].finalizing = mem.stage = last /\ src[cur] = 0]
  /\ UNCHANGED <<last, cur, src, result, sealed, evidence, proc, pipe, ledger, worker,
                 receipt, digest, recovery>>

(* The stage's answer was accepted.  A first run says in the same write that it
   is about to finalize; a resumed run does not. *)
CompleteStage ==
  /\ pc = "transported"
  /\ pc' = IF mem.stage = last THEN "finalize" ELSE "open"
  /\ mem' = [mem EXCEPT !.stage = IF @ = last THEN @ ELSE @ + 1]
  /\ state' = [state EXCEPT ![cur].completed = mem.stage,
                            ![cur].finalizing = mem.stage = last /\ src[cur] = 0]
  /\ UNCHANGED <<last, cur, src, result, sealed, evidence, proc, pipe, ledger, worker,
                 receipt, digest, recovery>>

(* The stage failed, or its answer was not accepted. *)
FailStage ==
  /\ \/ pc = "drained" /\ mem.outcome # "ok" /\ mem' = mem
     \/ pc = "transported" /\ mem' = [mem EXCEPT !.outcome = "blocked"]
  /\ pc' = "reporting"
  /\ UNCHANGED <<last, cur, src, state, result, sealed, evidence, proc, pipe, ledger,
                 worker, receipt, digest, recovery>>

Finalized(o) ==
  /\ pc = "finalize"
  /\ pc' = "reporting"
  /\ mem' = [mem EXCEPT !.outcome = o]
  /\ UNCHANGED <<last, cur, src, state, result, sealed, evidence, proc, pipe, ledger,
                 worker, receipt, digest, recovery>>

(* result.json first, then state.json. *)
WriteResult ==
  /\ pc = "reporting"
  /\ pc' = "sealing"
  /\ result' = [result EXCEPT ![cur] = mem.outcome]
  /\ UNCHANGED <<last, cur, src, mem, state, sealed, evidence, proc, pipe, ledger,
                 worker, receipt, digest, recovery>>

Seal ==
  /\ pc = "sealing"
  /\ pc' = "ended"
  /\ sealed' = [sealed EXCEPT ![cur] = TRUE]
  /\ state' = [state EXCEPT ![cur].marker = mem.marker]
  /\ mem' = NoMemory
  /\ UNCHANGED <<last, cur, src, result, evidence, proc, pipe, ledger, worker,
                 receipt, digest, recovery>>

(* The dispatcher dies anywhere; its end of the pipe closes. *)
Crash ==
  /\ pc \notin Unheld
  /\ pc' = "dead"
  /\ pipe' = [pipe EXCEPT ![cur] =
                [s \in Stages |-> IF @[s] = "open" THEN "closed" ELSE @[s]]]
  /\ mem' = NoMemory
  /\ UNCHANGED <<last, cur, src, state, result, sealed, evidence, proc, ledger,
                 worker, receipt, digest, recovery>>

--------------------------------------------------------------------------
(* Recovery of a run that left no result, by the command that resumes it. *)

ControllerEnded(q) == q # cur \/ pc \in Unheld

NeedsRecovery(q) == ~sealed[q] /\ (result[q] = "none" \/ digest[q] # <<>>)

(* Faulty variant: a run always stops inside a stage, never between two. *)
InterruptedInStage(q) ==
  /\ ~sealed[q] /\ ~state[q].finalizing
  /\ state[q].completed < last
  /\ state[q].invoked = state[q].completed + 1

(* The shape of a run that stopped in the middle of its stages. *)
Interrupted(q) ==
  /\ ~sealed[q] /\ ~state[q].finalizing
  /\ state[q].completed < last
  /\ state[q].invoked \in {state[q].completed, state[q].completed + 1}

(* Every launch record named by the state is there, an unnamed one is not past
   "prepared", and no process a record names is still there. *)
ProvenEnded(q) ==
  /\ \A s \in state[q].launches : evidence[q][s] # "none"
  /\ (state[q].invoked > state[q].completed /\ src[q] = 0)
       => state[q].invoked \in state[q].launches
  /\ \A s \in Stages : evidence[q][s] \notin {"none", "prepared"} => s \in state[q].launches
  /\ \A s \in Stages : evidence[q][s] \in ProcessPhases => proc[q][s] \in Quiet

(* Every receipt proves a certain drain, but for the one the marker names. *)
Retained(q) ==
  \A s \in Stages : receipt[q][s] \in {"armed", "uncertain"} => s = state[q].marker

(* With a marker, every ledger of the run has only terminal jobs. *)
Settled(q) ==
  state[q].marker # 0 =>
    \A s \in Stages : ledger[q][s] # "none" => worker[q][s] # "running"

AllClosed(q) ==
  state[q].marker # 0 => \A s \in Stages : ledger[q][s] \in {"none", "closed"}

Qualified(q) ==
  /\ ControllerEnded(q) /\ Interrupted(q)
  /\ ProvenEnded(q) /\ Settled(q) /\ Retained(q)

BeginRecovery(q) ==
  /\ recovery = Idle
  /\ NeedsRecovery(q) /\ Qualified(q)
  /\ recovery' = [run |-> q, step |-> "parents", view |-> evidence[q]]
  /\ UNCHANGED <<last, cur, src, pc, mem, state, result, sealed, evidence, proc, pipe,
                 ledger, worker, receipt, digest>>

(* Parents that never closed are closed one after the other. *)
CloseParent(s) ==
  LET q == recovery.run IN
  /\ recovery.step = "parents"
  /\ state[q].marker # 0 /\ ledger[q][s] \in {"open", "draining"} /\ worker[q][s] # "running"
  /\ ledger' = [ledger EXCEPT ![q][s] = "closed"]
  /\ UNCHANGED <<last, cur, src, pc, mem, state, result, sealed, evidence, proc, pipe,
                 worker, receipt, digest, recovery>>

(* A receipt of an earlier attempt must agree with this one. *)
RecoverReceipt ==
  LET q == recovery.run IN
  /\ recovery.step = "parents" /\ AllClosed(q)
  /\ digest[q] \in {<<>>, recovery.view}
  /\ digest' = [digest EXCEPT ![q] = recovery.view]
  /\ recovery' = [recovery EXCEPT !.step = "receipt"]
  /\ UNCHANGED <<last, cur, src, pc, mem, state, result, sealed, evidence, proc, pipe,
                 ledger, worker, receipt>>

RecoverResult ==
  /\ recovery.step = "receipt"
  /\ result' = [result EXCEPT ![recovery.run] = "recovered"]
  /\ recovery' = [recovery EXCEPT !.step = "result"]
  /\ UNCHANGED <<last, cur, src, pc, mem, state, sealed, evidence, proc, pipe, ledger,
                 worker, receipt, digest>>

RecoverState ==
  /\ recovery.step = "result"
  /\ sealed' = [sealed EXCEPT ![recovery.run] = TRUE]
  /\ recovery' = Idle
  /\ UNCHANGED <<last, cur, src, pc, mem, state, result, evidence, proc, pipe, ledger,
                 worker, receipt, digest>>

(* The recovering command dies, or refuses over a receipt that disagrees. *)
RecoveryEnds ==
  /\ recovery # Idle
  /\ recovery' = Idle
  /\ UNCHANGED <<last, cur, src, pc, mem, state, result, sealed, evidence, proc, pipe,
                 ledger, worker, receipt, digest>>

--------------------------------------------------------------------------
(* A run begins: the first, or one that resumes q after its first k stages. *)

Resumable(q) ==
  /\ sealed[q] /\ result[q] # "fresh"
  /\ AllClosed(q) /\ Retained(q)

StartRun(q, k) ==
  /\ cur < MaxRuns /\ pc \in Unheld /\ recovery = Idle
  /\ IF cur = 0 THEN q = 0 /\ k = 0 ELSE q \in 1..cur /\ Resumable(q)
  /\ q # 0 => \/ k <= state[q].completed
              \/ k = last /\ state[q].transported = last
  /\ cur' = cur + 1
  /\ src' = [src EXCEPT ![cur + 1] = q]
  /\ pc' = IF k = last THEN "finalize" ELSE "open"
  /\ mem' = [stage |-> IF k = last THEN last ELSE k + 1, marker |-> 0, outcome |-> "ok"]
  /\ state' = [state EXCEPT ![cur + 1] = Inherited(k)]
  /\ UNCHANGED <<last, result, sealed, evidence, proc, pipe, ledger, worker, receipt,
                 digest, recovery>>

--------------------------------------------------------------------------

(* What a dispatcher does to its own stage, up to the end of its drain. *)
StageStep ==
  \/ Register \/ ArmReceipt \/ ArmMarker \/ Prepare \/ RecordLaunch
  \/ SpawnGate \/ SpawnFails \/ Authorize \/ GateRefused \/ Withdraw
  \/ Proceed \/ AuthorizedFails \/ Confirm \/ ExecFailed \/ RecordTerminal
  \/ Raise \/ CloseAdmission \/ NothingToDrain \/ EndDrain
  \/ \E o \in {"blocked", "fresh"} : DrainReceipt(o)

(* What the processes it started do by themselves. *)
ProcessStep ==
  \E r \in 1..cur, s \in 1..last :
    \/ GateAwaits(r, s) \/ GateEnds(r, s) \/ GateExecs(r, s)
    \/ ProviderEnds(r, s) \/ WorkerStarts(r, s) \/ WorkerSettles(r, s)

RecoveryStep ==
  \/ \E q \in 1..cur : BeginRecovery(q)
  \/ \E s \in Stages : CloseParent(s)
  \/ RecoverReceipt \/ RecoverResult \/ RecoverState \/ RecoveryEnds

LaunchNext ==
  \/ StageStep \/ ProcessStep \/ RecoveryStep
  \/ \E o \in {"ok", "blocked", "unproven"} : Collect(o)
  \/ Transport \/ CompleteStage \/ FailStage \/ WriteResult \/ Seal \/ Crash
  \/ \E o \in {"blocked", "completed"} : Finalized(o)
  \/ \E q \in 0..cur, k \in 0..last : StartRun(q, k)

LaunchSpec == LaunchInit /\ [][LaunchNext]_launchVars

--------------------------------------------------------------------------
(* Properties. *)

(* A process of run q that is a provider or can still become one. *)
Startable(q) ==
  \E s \in Stages : proc[q][s] = "provider" \/ (proc[q][s] = "waiting" /\ pipe[q][s] = "sent")

(* A run that another one resumed has no provider, none that could still
   start, and no worker: unless it reported that it could not prove the end
   of its provider's processes, the case the code leaves to the operator. *)
SourceQuiet ==
  \A r \in 1..cur : src[r] # 0 =>
    LET q == src[r] IN
    /\ result[q] = "unproven" \/ ~Startable(q)
    /\ \A s \in Stages : worker[q][s] # "running"

(* The two windows in which an interrupted run is left that no recovery
   accepts: a receipt written without its marker, and a gate that wrote its
   record after the receipt of an earlier recovery was bound to it. *)
Unnamed(q) == ~Retained(q)
LateGate(q) == digest[q] \notin {<<>>, evidence[q]}

(* Otherwise a run stopped in the middle of its stages can be recovered as soon
   as its processes have ended, wherever its dispatcher was killed. *)
StoppedRunRecovers ==
  \A q \in 1..cur :
    /\ ControllerEnded(q) /\ result[q] \in {"none", "recovered"} /\ ~sealed[q]
    /\ state[q].completed < last
    /\ \A s \in Stages : proc[q][s] \in Quiet /\ worker[q][s] # "running"
    /\ ~Unnamed(q) /\ ~LateGate(q)
    => NeedsRecovery(q) /\ Qualified(q)
=============================================================================
