# TLA+ models of the grimoire's control programs

This directory models the programs under `libexec/` that keep state several
processes share, or that must survive being killed between two writes: the
ledger of worker agents, the start, the turns and the end of a phase run, the
controller generations, and the transaction that installs skill links. Paths
are relative to `libexec/`; `ledger.py` and its siblings are in
`apgr_workers/`, the dispatcher's files in `agent_phase/`.

1. [Inventory](#1-inventory) - what the system consists of
2. [Modules](#2-modules) - which module models which part
3. [The models and the code](#3-the-models-and-the-code) - state and actions
4. [Runs](#4-runs) - what is model-checked, with which bounds
5. [Fairness](#5-fairness)
6. [Proofs](#6-proofs) - what is proved, from what, and how
7. [Disagreements](#7-disagreements-with-comments-and-documents)
8. [Abstractions and assumptions](#8-abstractions-and-assumptions)
9. [Not modelled](#9-not-modelled)

## 1. Inventory

| component | state it keeps | operations | hard behaviour | what makes it correct |
|---|---|---|---|---|
| worker ledger, external jobs (`ledger.py`) | one JSON document per parent, under a file lock: parent status, job records, pool pauses | reserve, claim, record launch, bind, record custody, update, begin stop, abandon, cleanup receipts, reap, pause, resume, drain and close | every operation is atomic, every protocol consists of several of them, run by four kinds of process | a slot, a scope and a task attempt are released only when nothing of the job runs |
| worker adapter (`adapter.py`) | none of its own; the `Popen` of the supervisor | launch, wait, cancel | acts on snapshots; its own death at any point; signals under an identity check that can time out | one supervisor per job; no release on a guess |
| worker supervisor (`supervisor.py`) | its cancelled flag, the provider's group | bind, spawn, custody, wait or terminate, report | a signal at any point, the handler not installed yet or no longer; its own death | reports only the cleanup it has evidence for |
| native agents (`ledger.py`, `native_capacity.py`, `claude_native.py`) | reservations in the same document | hook before and after an agent call, pause, close, drain | hooks that never fire, fire late or twice; an end that is never reported | a leaf runs only while it holds a slot and a scope; uncertainty is kept, not guessed away |
| parent settlement and custody (`settlement.py`, `parent_custody.py`) | - | drain, close when everything is settled | a close against a running launch | a closed parent leaves nothing in between |
| start of a phase run (`dispatch.py`, `provider_launch.py`, `worker_custody.py`, `interrupted_recovery.py`, `resume.py`) | `state.json`, `result.json`, one launch record and one receipt per stage; gate processes | register, arm, prepare, spawn a gate, authorize, proceed, collect, drain, report; recover, resume | a kill between any two writes while gates, providers and workers go on | no run starts over one whose processes may still run, and a stopped run can be picked up again |
| turns of a phase run (`v2_dispatch.py`, `v2_turns.py`, `v2_reroute.py`, `dynamic_router.py`, `review_drift.py`) | rows of the run, its attempts, responsibilities, observations of providers, the completion receipt; a worktree everybody may change | route, launch, observe, reroute, plan, review, produce, review, close | a failing provider that has already written; stale observations; unreadable trees; a review of a tree that moved on | work is never redone over its own output; a reviewer is independent; what is called reviewed was reviewed |
| end of a phase run (`finalization.py`, `gitstate.py`, `publication.py`, `candidate.py`) | the run's state file; the Git repository and its upstream | read, decide, stage, commit, verify, push, retry | nothing locks the repository: the operator and others change it at any moment; lost answers | only the candidate is ever reported committed or published |
| controller generations (`controller_generation*.py`) | copies, manifests, records, leases in a store | materialize, lease, activate, note, finish, inspect, collect, retire | publication in three files; leases rewritten without the store's lock; recycled pids | nobody runs code that was collected |
| global skills transaction (`global_skills_*.py`) | links, backups, an ownership state file, a lock directory | apply, uninstall, roll back | a failure or a kill after any change; a user who changes entries | all or nothing, and what is neither is reported |
| user skills (`apg_user_skills.py`) | its own state and lock file | install, adopt, update, roll back, uninstall | a second program that may own the same directory | one owner per directory |
| routing, profiles, tests, releases, Go and Python front ends | files | sequential, one-shot | external services | mostly local |

Interactions. The dispatcher runs from a leased generation. For each stage it
registers a worker ledger, starts a gate that becomes the provider, and drains
the ledger. The provider's agents reach the ledger through hooks; its workers
are launched through the adapter, which starts one supervisor per job, which
starts one provider group. They talk to each other only through files, a byte
on a pipe, exit codes and SIGTERM. The candidate the last stage leaves in the
worktree is bound to a commit by finalization. `PROJECT.json` lists every
component with its status, and every hazard with its line.

## 2. Modules

| module | what it is |
|---|---|
| `WorkerLedger` | the ledger document, launch calls, supervisors, provider groups, cancel calls and the parent: one action per ledger operation or per step between two operations |
| `WorkerLedgerInv` | its inductive invariants (`LedgerInv`, `AdmissionInv`, `LineageInv`, `OutcomeInv`, `ReceiptInv`) and the action property `JobsOnlyAdvance` |
| `WorkerSlots` | abstract: what a ledger promises. Leases and work, four operations |
| `WorkerLedgerSlots` | the refinement mapping from `WorkerLedger` to `WorkerSlots` |
| `NativeAgents` | native agents and the hooks of a Claude parent, beside the external workers of one ledger; refines `WorkerSlots` too |
| `ProviderLaunch` | how a phase run starts its providers, how a killed one is recovered and resumed |
| `PhaseTurns` | the five turns of a run of the second request schema: routing, retries, mutation policy, reviews, receipt, freshness |
| `Publication` | how a phase run ends: commit, verification, push and its retries in a repository everybody may change |
| `ControllerGenerations` | the store of controller copies: dispatchers, their children, administration |
| `SkillsTransaction` | one or more runs of `install-global-skills` over a skill directory |
| `SkillOwners` | `install-global-skills` and `apg-user-skills` over one directory |
| `*Proofs` | the TLAPS proofs about the module they are named after (`SkillsTransactionProofs` holds those about `SkillOwners` as well, `WorkerLedgerProofs` those about `WorkerLedgerSlots`) |
| `MC*` | the instances for TLC |

Operators whose comment calls them a *faulty variant* are mutations: each
stands beside the definition it replaces, is used by no specification, and
documents, for one property, a plausible mistake that the property detects.

`MCSkills` and `MCGenerationsNative` check two specifications that share no variable
in one state space, and `MCPhaseRun` checks three: a behaviour takes steps of one
of them, while the others stay in an initial state.

## 3. The models and the code

`PROJECT.json`'s `map` names, for each definition, the lines it stands for. What
follows is the correspondence of the state, and what is not obvious.

### The worker ledger (`WorkerLedger`)

A job is *active* from its reservation until it is settled: `reserved`,
`starting`, `launched`, `running`, `stopping`, `orphaned`. While active it
occupies a slot of its pool and its mutation scope. It is settled as
`completed`, `failed` or `cancelled`. The lock makes each ledger operation one
step. All the difficulty is between two operations: what a process read is
acted upon later, in any order with the others, and each may die there.

| variable | in the code |
|---|---|
| `parent` | `data["status"]`: active, draining, closed |
| `jobs[j]` | the record in `data["gemini_jobs"]` (which holds the jobs of all external kinds) |
| `.status .claimed .pid .bound .proven` | `status`, `launch_claimed`, `supervisor_pid` set, `supervisor_bound`, `cleanup_proven` |
| `.group` | what is known of the provider group: nothing, an observation in the result, or pid, pgid and identity (`record_provider_custody`) |
| `.result` | no result yet, or a result with or without a cleanup proof |
| `.req`, `.attempt` | kind, task lineage, predecessor and scope of the request; `recovery_attempt` |
| `paused` | `data["pool_state"][kind]["paused"]` |
| `lpc[l]` | the point a call of `launch_worker_job` has reached (with `watch` and `settle` for its waiting thread) |
| `sup[j]` | the supervisor process, from not started to gone |
| `termed[j]` | its `cancelled[0]` flag |
| `verdict[j]` | `status` and `cleanup_proven` between their computation and the report |
| `prov[j]` | the provider group: running; its leader gone but members left; only a tool session outside the group left (Gemini); gone |
| `cpc[c]` | the point a call of `cancel_worker_job` has reached, and what it read |
| `drain` | the point of `drain_and_close`, the jobs it works on, its last report |
| `stopped` | history: jobs whose stop request was accepted |

`_locked` demotes stale jobs before *every* operation, so every ledger action
starts from `Reaped`, not from `jobs`. `CloseSettled` is the exception, as in
`settlement.py`.

### Native agents (`NativeAgents`)

`native[a]` is the status of the native record, `hook[a]` the point the hook
before the call has reached and what it answered, `agent[a]` the agent inside
the parent's process (`runtime`), `found` the records an earlier version left
with a result but unreleased, `job` and `work` the external workers of the same
ledger, reduced to what admission sees of them. The hook reads the parent's
status before it takes the lock (`HookReads`, `Reserve`); a reservation that was
written may still be answered with a refusal when the hook's time is up. The
response of a call may come late, again or never, and says that the agent is
over only for a foreground call that is. A drain knows that the parent's
process has ended (`observed`) or does not.

### The start of a phase run (`ProviderLaunch`)

`pc` is the point the latest run's dispatcher has reached, `mem` what it holds in
memory. Per run: `state` (the fields of `state.json` that account for stages,
named launch records, the custody marker), `result` and `sealed` (`result.json`,
and whether `state.json` was written after it), `digest` (the launch records a
recovery receipt is bound to). Per run and stage: `evidence` (the phase in the
launch record), `proc` and `pipe` (the gate process and the dispatcher's end of
its pipe), `ledger`, `worker`, `receipt`. `recovery` is a recovery under way. The
gate is a process of its own: it writes its identity (`GateAwaits`), waits for
the byte, and becomes the provider (`GateExecs`) or ends. `Crash` kills the
dispatcher at any point, `RecoveryEnds` the recovering command.

### The turns of a phase run (`PhaseTurns`)

A binding of the default topology is a turn: plan, plan review, work, work
review, closeout. `turn` and `step` are where `execute_v2_turns` is, `status` the run's
row, `attempts[t]` the rows of `invocation_attempts` of a binding with their
endpoints, `duty[t]` its semantic responsibilities, `verdict` the two
dispositions, `completion` the receipt. `seen` is what the current attempt
observed: the tree before and after it, and how it exited. `cand` collects the
trees that `derive_final_candidate_freshness` compares, `claim` is what the run then
says of its final tree, `drift` is `subject_drift_observed`. `excluded` are the
providers the observations taken at dispatch rule out, `exhausted` those with a
stored quota observation. `made` lists every change of the worktree with its
author; a tree is identified by how many changes it has. `blind` is history: the
attempts whose tree could not be read afterwards.

The order of the code is kept where it matters: the trees are read before the
launch, the mutation policy is applied before the exit code is looked at, the
plan's disposition is taken after the producer returned (`WorkDone`), the receipt
is stored before the attempt is completed (`StoreReceipt`, `CloseoutDone`), and the
final tree is read after the last turn (`EndTurns`). `Interrupt` and `RunnerRaises` are
the exception handler, which treats an attempt that was launched differently
from one that was not. A kill needs no action: it ends the behaviour, and every
row stays as it is.

### The end of a phase run (`Publication`)

`log`, `tip`, `branch`, `work`, `index`, `remote` are the repository; `run[r]` is what
the run's state file records (policy, entry HEAD, branch and tree, terminal
candidate, owned paths and their base, commit) and `at[r]` where it is. One
action per read or write of the repository: `ReadTree`, `Decide`, `Reuse`, `Stage`,
`CommitPaths`, `ReadBack`, `Verify`, `PushTarget`, `PushCommit`, `PostQuery`, and the
failures of each. Between them the operator edits, stages, unstages, commits or
switches branches, and others push. `Resume` is the preflight of a finalize-only
resume and the state it starts with. A run that is blocked with overlapping
dirt is left to a manager.

### Controller generations (`ControllerGenerations`)

Each commit has a copy in three files (`payload`, `manifest`, `record`), each
process id a lease file and perhaps a temporary one. `pc` is the dispatcher's
point, `life` counts the processes that had the id, `kids` the children that run
a dispatcher's code. `apc` and the variables after it are the administration: it
lists, reads and classifies leases, then deletes file by file. `cut` is history:
copies whose deletion was interrupted. `lock` covers materialization, leasing,
activation and administration, but not the dispatcher's later notes, as in the
code.

### Skill links (`SkillsTransaction`, `SkillOwners`)

`dest[n]` is the entry at a name, with who made it; `root` the directory; `state` the
ownership state file; `lock` the lock directory. Per run: the plan, the journal
(`stage`), the backups (`bak`, `sbak`), and `found`, a history of what it found. One
action per file operation that may fail: every step may raise, every process
may be killed, a user may change entries at any moment. `SkillOwners` keeps only
the two locks, the two state files and the order in which each program looks at
the other's.

## 4. Runs

| run | instance | checks |
|---|---|---|
| `lifecycle` | one Luna job, or one Gemini job called twice with one key; one canceller; quota pauses, failing identity checks, crashes | `LedgerInv`, `ReleasedMeansGone`, `CleanDrainIsTruthful`, `ClosedLeavesNoneBetween`, `LaunchedOnce` |
| `capacity` | two Gemini jobs, capacity one, quota pauses, crashes | `LiveWithinCapacity`, `ImplementsSlots` |
| `writers` | two writers over overlapping scopes; or a task that only reads, its recovery attempt and a third attempt, two slots per pool, so that only the lineage keeps them apart; failing identity checks, crashes | `LiveWritersDisjoint`, `SuccessorAfterSettled` |
| `steady` | one Luna job, one canceller, nothing in the environment fails, fairness | `StopOwnsDisposition`, `TerminalIsProven`, `VerdictIsFinal`, `NoSpawnAfterClose`, `StopSettles`, `LaunchResolves`, `DrainCloses` |
| `stop_resurrected` | one job, identity checks fail | `StopOwnsDisposition`: violated |
| `unproven_terminal` | one job, two cancellers | `TerminalIsProven`: violated |
| `generations_native` | `ControllerGenerations`: two pids over two commits, each reused once or with two failing file operations; one kill; children that outlive their dispatcher. `NativeAgents`: two native agents and an external worker, or three native agents, for two slots; repeated, late, lost and cut hooks; two drains | `GenerationsTypeOK`, `CodeStays`, `LeaseIsOwn`, `RecordNamesCopy`; `CleanCloseIsTrue`, `NativeKeepsSlots` |
| `skills` | `SkillsTransaction`: one run over two names with two faults and a kill, or a fault and a user; or two runs and a kill. `SkillOwners`: two runs of each program, each killed anywhere | `SkillsTypeOK`, `Recoverable`, `LinksRestored`, `StateMatchesLinks`, `OldLinksKept`, `UserEntriesKept`; `OneOwner`, `ActAlone` |
| `skills_rollback` | two runs that may fail, no faults but their own refusals | `RunsAgree`: violated |
| `phase_run` | `ProviderLaunch`: two stages and a resumption, or one stage and two. `PhaseTurns`: three endpoints of three providers, two of which may plan, review plans and close and all of which may produce and review work; one turn routed again, one unreadable tree, two changes of the worktree, at most one by the operator. `Publication`: a run and two that retry it, one change by the operator, one by others | `TypesOK` (of the three modules); `SourceQuiet`, `StoppedRunRecovers`; `IndependentReview`, `RetryIsClean`, `EndedRunIsSettled`, `ReviewedIsFinal`; `ReportedIsCandidate`, `PublishedIsThere`, `BlockedPushResumes` |
| `rejected_plan` | `PhaseTurns`, the same | `NoWorkOnRejectedPlan`: violated |
| `publication_chain` | `Publication`, a retry of a retry | `EmptyMeansClean`: violated |

Deadlock is checked in the runs of `WorkerLedger`: the parent may always read. The
other systems stop when their bounded runs have ended, and their cfgs say so.

Bounds, and why they are enough:

- *One job* is enough for everything about one job's record and processes,
  because jobs meet only at admission: `LedgerInv` has no conjunct over two
  jobs. Two jobs and a capacity of one make jobs compete, three make a recovery
  chain one longer than is allowed. `OneJob` and `OneGroup` (state constraints of
  `lifecycle` and `writers`) choose which calls one behaviour contains; jobs,
  calls and attempts are finite, while cancellers and drains start over any
  number of times.
- *One canceller* may cancel again and again, and dies in between. Two matter
  where a receipt is withheld: `unproven_terminal`. *Luna and Gemini*: Luna jobs
  alone have the orphan reconciliation (`adapter.py:190-215`), Gemini jobs alone
  the detached tool session; Sonnet jobs have neither and are a second pool.
- *Native agents*: two compete for two slots with a worker whose scope one of
  them shares; the third asks when both slots are taken. `Bounded` keeps at most
  one hook between its two steps and one record an earlier version left behind.
- *Generations*: `Keep = 1`, where the code keeps at least three of the newest
  copies: with two commits a larger number would never collect anything.
  `MaxLives` (a pid is reused once), `MaxFaults` and `MaxCrashes` are explored in
  turns (`Bounded`): faults only where no pid is used twice.
- *Skills*: two names make one change follow another and a rollback have an
  order. `MaxFaults = 2` is a failure and another one in its rollback. `Bounded`
  combines them as the table says; two runs use one target.
- *Phase run*: a third run is followed up to its first step, which is where a
  resume over a resume decides (`Bounded`). The first stage has a worker ledger,
  the second has none. `MaxWork` and `MaxAdvance` are 1: one change at any moment
  of any of three runs. Runs that resume are symmetric.
- *Turns*: two endpoints of different providers are the least with which a turn
  can be routed at all after a planner, three the least with which a reviewer has
  a choice. One turn is routed again (`TurnsBound`), which is all that one provider
  with a recognized quota message allows per binding. Two changes let one be made
  by a turn and another by the operator or a later turn. `JobsOnlyAdvance` of the
  ledger is a theorem and no property of a run.

Four properties of `steady` need a calm environment. `StopOwnsDisposition`,
`VerdictIsFinal` and `NoSpawnAfterClose` hold when identity checks do not fail
wrongly, `TerminalIsProven` when, besides, one cancel call goes on at a time: these
are the hypotheses of their theorems (section 6), they are what the code's
comments presuppose, and nothing else is needed, crashes included. Without them
they fail: section 7 has the two cases that contradict what the code says of
itself; the others follow from the same causes. In the same way `StoppedRunRecovers` excludes two named windows,
`Unnamed` and `LateGate`, and `StateMatchesLinks` the state file left in its backup:
these are disagreements of section 7, and run and proof show that there are no
others. `ReportedIsCandidate` and `BlockedPushResumes` speak of the run of a phase and
of its direct retries (`FirstHand`): section 7 says what a retry of a retry may
take for the phase's work. The second also requires that the worktree is still
the one the blocked run noted when it failed.

## 5. Fairness

Only `steady` assumes fairness (`LiveSpec`). Weak fairness for the steps of a launch
call, of a supervisor and of a cancel call that has begun: they are sequential
programs whose calls return. Weak fairness of the drain: all its waits have
deadlines. Weak fairness of `Observe`: `wait_worker_job` polls every job it waits
for and every poll reaps. Nothing is assumed of the provider (which may run for
ever), of crashes, new cancels, quota reports, operators, or of a waiting
thread's exit. The instance has no crashes: a launcher that dies between the
claim and `Popen` does leave its job `starting` until the drain, so
`LaunchResolves` is claimed only for a launcher that lives.

The phase run, the generations and the skills have no liveness property: each of
their runs can be stopped for good at any point, and what the code promises is
what the next command finds. `StoppedRunRecovers` and `BlockedPushResumes` state
that promise as an invariant (the recovery is enabled).

## 6. Proofs

All proofs are for arbitrary constants: any finite sets of jobs, callers,
agents, runs, pids, names, any capacities, requests, bounds. The named
assumptions in the modules say what is assumed of the constants (types,
finiteness, markers that are no values); TLC evaluates them in every run. Every
invariant was checked by TLC before it was proved. The layout is the same
everywhere: an inductive invariant, one lemma per action (or per group of
actions that change the same things), and the temporal step at the end.

| theorem | states | argument |
|---|---|---|
| `LedgerInvariant` | `LedgerInv` | below |
| `TypeCorrect`, `SlotsReleasedWhenGone`, `OneLaunchPerJob`, `CleanDrainTruth`, `ClosedParentSettled`, `JobsAdvance` | `TypeOK`, `ReleasedMeansGone`, `LaunchedOnce`, `CleanDrainIsTruthful`, `ClosedLeavesNoneBetween`, `JobsOnlyAdvance` | from `LedgerInv` |
| `SuccessorsFollowSettled` | `SuccessorAfterSettled` | a lineage has at most two jobs, and of two one names the other, which is settled (`LineageInv`): an admission adds at most one to a settled one, and what is settled stays so |
| `OutcomeInvariant`, `StopsOwnTheOutcome`, `VerdictsAreFinal`, `NothingSpawnsAfterClose`, `SettledIsProven` | `StopOwnsDisposition`, `VerdictIsFinal`, `NoSpawnAfterClose`, `TerminalIsProven` | below |
| `AdmissionInvariant`, `PoolCapacityRespected`, `WritersNeverOverlap` | `AdmissionInv`, `LiveWithinCapacity`, `LiveWritersDisjoint` | the checks hold of the active jobs at every time, because all other steps only take jobs out of that set; by `LedgerInv` a live provider's job is active |
| `WorkAlwaysHeld`, `WorkBounded`, `WorkKeptApart` | of the promise alone: work is held, within capacity, with disjoint scopes | induction over four operations |
| `LedgerImplementsSlots` | `ImplementsSlots` | a reservation is `Acquire`, a spawn `StartWork`, an end `StopWork`, every other step a `Release` of the jobs it settles, or a stutter; `Release` is allowed by `ReleasedMeansGone` |
| `NativeInvariant`, `NativeTypeCorrect`, `CleanCloses`, `NativeRefines` | `NativeTypeOK`, `CleanCloseIsTrue`, `NativeKeepsSlots` | an agent that runs, or that nothing would stop from starting, has a record that is not closed; an observed drain has seen the process end |
| `LaunchInvariant`, `LaunchTypeCorrect`, `SourcesAreQuiet` | `LaunchTypeOK`, `SourceQuiet` | below |
| `RecordsInvariant`, `StoppedRunsRecover` | `StoppedRunRecovers` | below |
| `PublicationInvariant`, `PublicationTypeCorrect`, `PublishedCommitsStay` | `PublicationTypeOK`, `PublishedIsThere` | what each place says of a run's record (`RunsSound`), sources have an entry tree (`SourcesOK`), and a commit's history contains that of all its ancestors (`HistoryOK`), so the upstream only ever grows |
| `CandidateInvariant`, `ReportsAreTheCandidate`, `BlockedPushesResume` | `ReportedIsCandidate`, `BlockedPushResumes` | below |
| `EmptyIsCleanFirstHand` | `EmptyMeansClean` of the run of the phase and its direct retries | below |
| `TypesStayOK` | `TypesOK` | a behaviour of one of the three modules of a phase run is one of each: the others stutter in an initial state |
| `GenerationsTypeCorrect`, `CodeAlwaysStays`, `LeaseAlwaysOwn` | `GenerationsTypeOK`, `CodeStays`, `LeaseIsOwn` | below |
| `RecordsNameCopies` | `RecordNamesCopy` | a record is written after its copy is complete and while the lock is held; a deletion that is cut short between the two is remembered (`cut`) |
| `SkillsTypeCorrect`, `StagingLocked`, `NoOldLinkLost`, `UserEntriesSafe` | `SkillsTypeOK`, `StagingIsLocked`, `OldLinksKept`, `UserEntriesKept` | the journal: a run about to move or to link has the old link, as recorded, in its backup (`JournalOK`), and it stages only under its own lock |
| `DiskInvariant`, `NothingIsLost`, `FailureRestores`, `StateFileTrue` | `Recoverable`, `LinksRestored`, `StateMatchesLinks` | below |
| `TurnsInvariant`, `TurnsTypeCorrect`, `ReviewersIndependent`, `RetriesAreClean`, `EndedRunsSettled`, `ReviewedTreeIsFinal` | `IndependentReview`, `RetryIsClean`, `EndedRunIsSettled`, `ReviewedIsFinal` | below |
| `OwnersInvariant`, `OneOwnerAlways`, `OneRunActs` | `OneOwner`, `ActAlone` | each program acts only while its lock keeps the other out or after it saw the other absent under it (`OwnersInv`) |

**`LedgerInv`.** None of the ledger's safety properties is inductive: a step that
settles a job does so on evidence an earlier step gathered. `LedgerInv` says what
the evidence means at any later time. `RecordInv`: without a claim there is no
supervisor, without a supervisor no pid, without a bind no provider; an active
job's cleanup is never proven (so reaping always orphans, and its "failed" branch
is dead code). `ProviderInv`: a bound supervisor has not spawned yet; a verdict
that claims proof is true and stays true. `LauncherInv`: from its claim to its end
one call owns the job; before `Popen` there is no supervisor, after the wait it is
gone. `CancelInv`: a call about to cancel an unclaimed job still sees it
unclaimed; a proven receipt means that the provider is gone. `ReportInv`: a clean
drain left no active job and nobody is admitted since. The proof uses the action
property `Advances`, proved in the same induction: a job moves only forward,
which is what makes a fact read earlier remain true.

**`OutcomeInv`.** Who may give a job up? The drain, and a cancel call that found the
supervisor gone. Where an identity check of a present process does not fail, the
second only happens when no supervisor will report (`GivenUpInv`), and what the
drain orphans while its supervisor is at work it stops before it ends
(`DrainInv`). So an orphaned job has no supervisor at work, nobody revives it
(`StopOwnsDisposition`), and no second verdict follows a first (`VerdictIsFinal`).
`ReceiptInv` adds that the one cancel call that reconciles a job still finds it
orphaned. The hypotheses are exactly what the two violated runs break:
`stop_resurrected` has failing identity checks, `unproven_terminal` two calls.

**`LaunchInv`.** `GateInv`: the byte is only in the pipe of a gate whose record is
past "awaiting", and nothing becomes a provider without it. `LedgerInv` (of that
module): a running worker's ledger is not closed and its receipt says so.
`StageInv` and `HotInv`: what a live dispatcher knows of its stage, and that what
may run while it lives is its own; from the collection on it knows whether it
could prove the end. `SealedInv`: a sealed run has nothing hot unless it reported
that it could not prove it. `RecoveryInv` and `SourceInv` carry this over to the
runs that are being recovered or were resumed; `SourceQuiet` follows.

**`RecordsInv`.** That a stopped run can be picked up again is a statement about files
written one after the other, of which a kill leaves any prefix. `RecordInv` relates
them for every run, dead or alive: `state.json` names only launch records that
exist, a record past "prepared" and a process belong to a stage it names, the
invoked stage is the last one completed or the next, "finalizing" is only said
after the last, and a recovered result has its receipt. `AccountInv` is what the
live dispatcher adds: its stage is the next to complete, and from the launch
record on it is the invoked one. `BindingInv`: a recovery writes no result before
it bound its receipt. What recovery asks for follows, but for the two windows.

**`CandidateInv`.** `FirstOK`: the run of the phase settles the candidate once, when
its providers end; its paths are the candidate's and its base the tree it began
with. `RetryOK`: a direct retry inherits exactly that. `ReadOK`: a run that read the
tree found the candidate's content at the candidate's paths, whatever else the
operator did; `VerifiedOK`: from the verification on, its commit differs from its
parent in the candidate alone, and commits do not change. `BlockedOK` and `SourceOK`
say what a blocked run noted and that the source of a retry has ended, so nobody
else writes its record.

**`EmptyInv`.** How far the false outcome of `publication_chain` reaches. `EntryOK`:
preflight (`Materialized`) lets a direct retry begin with the HEAD the run of the
phase began with, with the commit that run recorded, or with a HEAD that lacks the
candidate. In the first and the last case its delta is not empty, in the second it
takes the recorded commit up again. So a run that ends with an empty delta although
the phase changed something is a retry of a retry.

**`GenInv`.** `Dispatching`: the store's lock is held wherever a copy or a lease is
worked on; what is being written is not there yet; a dispatcher that has not
ended, and every child, has its lease. `Administering`: while the administration
reads, every lease in use is still to be read, is being looked at, or spares its
copy, and what it deletes is used by nobody. Reused pids are covered because a
lease names the process by its start (`life`), and `LivesPassed` orders them.

**`DiskInv`.** Three layers, because other runs and users may do anything. `PathInv` holds
of every run, whoever else is there: at most the change being linked is between
its stages, everything is staged before the state file is written, and where a
run ends says how. `AloneInv`: if nobody else acted, each name is where the plan and
the stage of its change say (`NameSound`: old link in place, in the backup, replaced
by the new one, or put back), and the state file likewise (`StateSound`), at every
point of the forward path, of a rollback with failing steps, and of a kill.
`SerialInv` carries the same through any number of runs that interleave as long as
each that staged something commits: between them links and state agree, which is
what the next one's plan needs. A refused or failed run leaves what it found,
because what it undid is what its journal lists.

**`TurnsInv`.** `AttemptsOK`: past turns have attempts, later ones none, and an attempt
that another followed has failed. `WritesOK`: a change carries an attempt that exists,
and those of the attempt at work lie between the two readings of its tree, unless the
second failed. `RoutesOK`: a rerouted attempt's provider is excluded for good and left
no trace, and a reviewer's provider differs from that of the latest route it reviews;
so what the comparison with the latest route ignores never wrote. `DoneOK`: what past
turns settled, and that each change of a read-only turn is marked and tolerated as soon
as its tree is read again. `ClaimOK`: the tree the producer left holds no later change,
and the claim is that tree. Every step is of one of six kinds (it ends the run, stays
within the turn, changes the worktree, adds a route, completes the turn, ends the
turns), and the invariant is proved for each kind once.

**Only model-checked.** Liveness (`StopSettles`, `LaunchResolves`, `DrainCloses`):
fairness and ENABLED are beyond the prover. Every safety property of a passing run
is a theorem. Of those, two groups carry hypotheses: the four of a calm
environment, which the assumptions of their theorems state as conditions on the
constants (`~PsFlaky`, and at most one canceller for `TerminalIsProven`), and the
properties that exclude a window or a retry of a retry in their own statement.
Without those conditions `StopOwnsDisposition` and `TerminalIsProven` are false, as
two of the violated runs show; what the other three refute (`RunsAgree`,
`EmptyMeansClean`, `NoWorkOnRejectedPlan`) is false of the code and has no proof;
`EmptyIsCleanFirstHand` is the part of `EmptyMeansClean` that is true.

## 7. Disagreements with comments and documents

Shown by a run:

- `stop_resurrected`. The comment at `ledger.py:1885-1887` says that a stop
  request owns the terminal disposition. The guard protects only the status
  `stopping`. If the canceller's identity check times out, the job becomes
  `orphaned` without having been signalled, its supervisor goes on, and a normal
  end makes it `completed`.
- `unproven_terminal`. `settle_provider_cleanup` (docstring, `ledger.py:1652-1653`:
  an ambiguous receipt "remains orphaned and occupied") stores
  `cleanup_proven = False` in a job of any status. Of two cancel calls that
  reconcile the same orphaned job, the one with the weaker evidence may come
  second: the job is `cancelled`, not occupied and not proven. From then on
  `close_settled` refuses the parent and a successor is refused.
- `skills_rollback`. `apply` rolls back after the `with destination_lock` block was
  left (`global_skills_transaction.py:801`), while ADR 0033:66 says that the lock
  serializes. A second run plans and commits in between; both end, and a link is
  left that the state does not own.
- `publication_chain`. A clean worktree without a commit message is to complete as
  `finalized_empty_delta` (status note 00197:34). A finalize-only resume that was
  blocked before it recorded its ownership, and is itself resumed, gives its own
  entry tree as the base (`resume.py:354`): the manifest is empty and the run ends
  as complete with the candidate uncommitted. `EmptyIsCleanFirstHand` proves that
  neither the first run nor a direct retry of it can end so.
- `rejected_plan`. `v2_turns.py:920` says of a rejected plan "cannot proceed to
  implementation", and a test is named `test_v2_plan_rejection_blocks_mutating_work`
  (`src/test/dispatcher/test_agent_phase_v2_full_execution.py:286` of the repository).
  In the default topology the disposition belongs to the producer's own turn and
  is taken after the producer returned: it was launched, told to implement the
  plan, and may have written. The test's runner writes nothing and sees only the
  failed attempt.

Met while modelling, without a run of their own:

- *Skills.* `global_skills_state.py:529`: a failure between two steps leaves the
  state file in its backup (`docs/user-scoped-skill-integration.md:232-233`).
  `global_skills_transaction.py:390`: a `StateError` escapes the rollback, which
  then ends early (ADR 0033:51-52). `apg_user_skills.py:582-583`: a `chmod` that
  fails after `os.replace` reports a failure of what was done.
- *Generations.* `controller_generation.py:279`: a dispatcher killed while it
  rewrites its lease leaves a temporary entry that blocks every later inspection
  (docstring at 273).
- *Custody.* `worker_custody.py:57-62`: a kill between the receipt and its marker
  leaves a run that recovery and resume refuse for ever (comment at 54-56).
  `interrupted_recovery.py:386-393`: a gate that writes its record after the first
  recovery bound its receipt makes the retried recovery refuse (docstring:
  idempotently). `StoppedRunRecovers` names both windows.
- *Resume.* A run that reported unproven cleanup can be resumed without any proof
  that the provider which survived has ended. `resume.py:249` raises `ValueError`
  for the stage "finalize". Nothing keeps two dispatchers from running at once.
  A run killed during its finalization can never be resumed
  (`interrupted_recovery.py:133`).
- *Turns.* A mutating turn that wrote, met its quota and whose tree cannot be read
  afterwards is taken to have changed nothing (`v2_turns.py:608-620`,
  `v2_reroute.py:150`) and is tried again over what it wrote, by a provider that is
  not kept from being reviewed by the first one; ADR 0067:16 calls a failure after
  a modification "strictly terminal". `RetryIsClean` and `IndependentReview` except
  exactly these attempts (`blind`). The first route of every later binding uses the
  observations taken at dispatch, not a fresh snapshot (`v2_turns.py:254-263`; ADR
  0064:102), so a provider whose quota an earlier binding found exhausted is asked
  again. The receipt says "completed" before finalization has begun
  (`v2_turns.py:1074-1084`); a run that then fails keeps it. If both sinks of an
  observation fail, the attempt fails but its responsibilities stay "running"
  (`v2_turns.py:758-775`). Only one provider's quota message is recognized, so a
  binding has at most two attempts and the ceiling of three is never reached.
- *Native agents.* `resume_pool` refuses native Sonnet (`ledger.py:1348-1375`)
  although the command line offers it (`cli.py:326-333`). A reservation whose hook
  was cut off and answered with a refusal keeps its slot until the parent's end.
- *Finalization.* A run that was blocked when it read the tree, and is itself a retry,
  notes as the phase's whatever differs from its own entry tree. If the operator
  changed something else meanwhile, a further retry commits that as the phase's
  (`failure_boundary.py:225-251`, `resume.py:351-354`; the cause of
  `publication_chain`). A retry of a retry that reused the commit and whose push
  failed is always refused (docstring of `_reuse_completed_commit`); resuming the
  original run works. A branch mismatch sets `state["commit"]` to none
  (`finalization.py:470`, `507`) and a resume of that resume reports an empty delta
  for a commit that was not pushed. A branch switched between the branch check and
  `git commit` (`gitstate.py:797-832`) puts the commit on another branch. A hook that
  refuses the commit leaves the paths staged, so later resumes refuse. A
  `rev-parse` that fails after the commit leaves it unrecorded. A push followed by
  somebody else's cannot be reported as published.

## 8. Abstractions and assumptions

Worker ledger:

- A job id stands for its idempotency key. A request that conflicts, is invalid
  or is refused for lack of room raises and writes nothing: no step, and the
  call may be made again. A mutation scope is the set of leaf paths it covers, so
  overlap is intersection; a read-only job has the empty scope. A task is its
  lineage id; recovery decisions and reasons are data.
- Capacities are those of a triple pool, one per kind (`native_capacity.py:127-138`);
  the dual pool is the same with two kinds, the aggregate pool is not modelled.
- Pids and process groups are not recycled here (they are in
  `ControllerGenerations`), TERM is delivered at once, and the supervisor's group
  is the supervisor. Deadlines are nondeterministic. The cleanup attestation of
  the Gemini wrapper and the group's absence (others) are taken as true evidence.
  `ps` failing (`PsFlaky`) is the only way an identity check of a present process
  fails.
- `drain_and_close` works on copies of the records it marked; the model reads the
  record instead: nothing binds while draining, so the two agree on what the
  drain uses. Left out: `record_task_outcome`, the contents of pause evidence,
  results and receipts, a corrupted ledger file, and the lock itself.

Native agents: the runtime executes a tool call at most once, and an operator
closes a native thread only after verifying that it has ended, as the command
requires.

Provider launch: the operator runs one command at a time; a resume may choose
any sealed source; a stage has one worker; the relaunch of a review within a
stage is the next stage; SIGKILL of the dispatcher's own gate is effective.

Turns: the default topology in the dynamic mode with a runner, first attempts of
a new run. The ranking of eligible routes by affinity is open. "warn" and "allow"
are one tolerance, "accept" and "amend" one verdict: they differ in what is
displayed or asked. A tree's content never recurs, so a change that is undone
between two readings is not modelled: `made` tells trees apart by the changes
that led to them. Time is fixed at the dispatch, as in the code, so nothing
stored expires within a run. HEAD and index are whether they moved. Repair of a
closeout result is part of its outcome. A tree that cannot be read after the last
turn is an `Interrupt`.

Publication: the index check and the reading of the tree are one step, as are
the reading of HEAD and of the branch. Deletions, modes and renames, path
dispositions and adoption, commits the provider made itself and the resolution
of ownership challenges are left out: an overlap with entry dirt goes to a
manager and is never resumed. A missing commit message is a Git failure. Reviews
and stages are `Produce`. The operator neither fetches nor resets, others do not
force-push, and the capture of a failure does not fail.

Generations: Git plumbing, digests and path checks are whether a copy is whole.
Skills: parsing and validation are whether inventory and state agree; nested
containers are one directory.

## 9. Not modelled

- *Dispatcher persistence* (`persistence.py`): SQLite records that report what the
  files of a run already decide; each call commits by itself.
- *Ownership, adoption, archives*: sequential validation of record files. Nothing
  runs concurrently and each check is a comparison of digests.
- *Result repair, transport, artifacts* (`result_repair.py`, `result_artifacts.py`,
  `transport.py`): parsing of a provider's answer and one bounded second request;
  the outcome enters the models as a nondeterministic result.
- *Policy, command line, MCP server and inspection* of the workers: parsing and
  rendering around the operations that are modelled.
- *Routing tables, ranking, static presets and profiles*: configuration and scores.
  The rules of eligibility are in `PhaseTurns`.
- *The unmerged topology, dry runs and resumed attempt numbers* of the turns.
- *Change-size gate, skill library check, distribution and release scripts* (about a
  third of the lines): one-shot sequential scripts that read the tree or call
  external services. They have no state a model checker would explore.
- *Go front end and libraries*: parsing, budgets and rendering;
  `internal/atomicfile` is one write, sync and rename whose intermediate states no
  other process reads.
- *Skills, guides, fixtures*: content.
