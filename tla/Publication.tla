------------------------------ MODULE Publication ------------------------------
(* The end of a phase run: finalize_repository binds the candidate that the   *)
(* terminal stage left in the worktree to one commit and, by policy, pushes   *)
(* it. Nothing locks the repository: the operator edits, stages, commits and  *)
(* switches branches, others push, and a blocked finalization is retried by   *)
(* new runs that resume it. Contents are abstract; git is external and is     *)
(* modelled by what its commands do.                                          *)
EXTENDS Integers, Sequences, FiniteSets

CONSTANTS
  Runs,        \* phase runs
  First,       \* the run that performs the phase; the others resume runs
  NoRun,
  Paths,       \* paths of the repository
  PhasePaths,  \* paths the phase may write
  Edits,       \* contents the operator may write
  Branches,
  Upstream,    \* the branch that is checked out first and has an upstream
  MaxWork,     \* bound: what the operator does
  MaxAdvance,  \* bound: what others push
  Chained      \* a resume may itself be resumed

Contents == {"base", "cand", "other"} \cup Edits
Trees    == [Paths -> Contents]
NoTree   == <<>>
NoCommit == 0

ASSUME PublicationAssumption ==
  /\ First \in Runs /\ NoRun \notin Runs /\ Upstream \in Branches
  /\ PhasePaths \subseteq Paths /\ Paths # {} /\ IsFiniteSet(Paths)
  /\ Edits \cap {"base", "cand", "other"} = {}
  /\ MaxWork \in Nat /\ MaxAdvance \in Nat /\ Chained \in BOOLEAN

Policies == <<"checkpoint", "commit-local", "publish">>

VARIABLES
  log,      \* every commit: its parent, its tree, and all it descends from
  tip,      \* the commit each branch names
  branch,   \* the branch that is checked out
  work,     \* the worktree
  index,    \* the index
  remote,   \* the commit the upstream branch names
  run,      \* what each run's state file records
  at,       \* where each run is
  effort    \* what the operator and others may still do

publicationVars == <<log, tip, branch, work, index, remote, run, at, effort>>

Repo == <<log, tip, branch, work, index, remote>>

Active == {"work", "read", "decide", "reuse", "stage", "commit", "readback",
           "verify", "target", "push", "answered", "unanswered", "failing"}
Ended  == {"manager", "checkpoint", "empty", "committed", "published", "blocked"}
Places == {"idle", "dead"} \cup Active \cup Ended

Changed(a, b) == {p \in Paths : a[p] # b[p]}
CurrentHead   == tip[branch]
HeadTree      == log[CurrentHead].tree
Past(c)       == log[c].past
Dirty         == Changed(work, index) \cup Changed(index, HeadTree)

Unrecorded == [src |-> NoRun, policy |-> 1, head |-> NoCommit, branch |-> Upstream,
          tree |-> NoTree, terminal |-> NoTree, final |-> NoTree, paths |-> {},
          own |-> NoTree, noted |-> <<>>, commit |-> NoCommit,
          reused |-> FALSE, verified |-> FALSE]

PublicationInit ==
  /\ log = <<[parent |-> NoCommit, tree |-> [p \in Paths |-> "base"], past |-> {1}]>>
  /\ tip = [b \in Branches |-> 1] /\ branch = Upstream /\ remote = 1
  /\ work = [p \in Paths |-> "base"] /\ index = work
  /\ run = [r \in Runs |-> Unrecorded] /\ at = [r \in Runs |-> "idle"]
  /\ effort = [work |-> MaxWork, advance |-> MaxAdvance]

Go(r, p)    == at' = [at EXCEPT ![r] = p]
Goto(r, p)  == Go(r, p) /\ UNCHANGED <<Repo, run, effort>>
Resumed(r)  == run[r].src # NoRun
EntryDirt(r) == Changed(run[r].tree, log[run[r].head].tree)

(* A commit of the paths S from the worktree, on top of c.                    *)
Committed(c, S, from) ==
  [parent |-> c, past |-> Past(c) \cup {Len(log) + 1},
   tree |-> [p \in Paths |-> IF p \in S THEN from[p] ELSE log[c].tree[p]]]

------------------------------------------------------------------------------
(* The phase, up to its terminal result.                                      *)

Enter(r) ==
  /\ r = First /\ at[r] = "idle" /\ index = HeadTree
  /\ \E k \in DOMAIN Policies :
       run' = [run EXCEPT ![r] = [@ EXCEPT !.policy = k, !.head = CurrentHead, !.branch = branch,
                                            !.tree = work]]
  /\ Go(r, "work") /\ UNCHANGED <<Repo, effort>>

(* The providers of the phase write their paths; the terminal candidate is    *)
(* the worktree they leave.                                                   *)
Produce(r) ==
  /\ at[r] = "work"
  /\ \E S \in SUBSET PhasePaths : work' = [p \in Paths |-> IF p \in S THEN "cand" ELSE work[p]]
  /\ run' = [run EXCEPT ![r] = [@ EXCEPT !.terminal = work',
       !.noted = [base |-> run[r].tree, tree |-> work', mechanical |-> TRUE,
                  paths |-> Changed(run[r].tree, work') \ EntryDirt(r)]]]
  /\ Go(r, "read")
  /\ UNCHANGED <<log, tip, branch, index, remote, effort>>

------------------------------------------------------------------------------
(* finalize_repository, one action per read or write of the repository.       *)

(* Paths of the phase that were dirty when it began: a manager decides.       *)
Overlap(r) ==
  IF Resumed(r) THEN {} ELSE Changed(run[r].tree, run[r].terminal) \cap EntryDirt(r)

(* Faulty variant: only an inherited record says what ownership is relative to.*)
OwnBaseInherited(r) == run[r].own

(* What the ownership record of a run is relative to.                         *)
OwnBase(r) ==
  IF run[r].own # NoTree THEN run[r].own
  ELSE IF Resumed(r) THEN run[run[r].src].tree ELSE run[r].tree

(* Only a first run must find the terminal candidate unchanged; a retry must  *)
(* find its inherited paths unchanged and nothing else changed since it began.*)
Sealed(r) ==
  IF Resumed(r) THEN /\ \A p \in run[r].paths : work[p] = run[r].terminal[p]
                     /\ Changed(run[r].tree, work) \subseteq run[r].paths
  ELSE work = run[r].terminal

ReadTree(r) ==
  /\ at[r] = "read"
  /\ index = log[run[r].head].tree /\ Sealed(r)
  /\ LET owned == IF Resumed(r) THEN run[r].paths ELSE Changed(run[r].tree, work)
     IN  run' = [run EXCEPT ![r] = [@ EXCEPT
           !.final = work, !.paths = owned, !.own = OwnBase(r),
           !.noted = [base |-> OwnBase(r), tree |-> work, paths |-> owned,
                     mechanical |-> run[r].noted.mechanical]]]
  /\ Go(r, "decide") /\ UNCHANGED <<Repo, effort>>

ReadTreeFails(r) ==
  /\ at[r] = "read" /\ ~(index = log[run[r].head].tree /\ Sealed(r)) /\ Goto(r, "failing")

Delta(r) == {p \in run[r].paths : log[run[r].head].tree[p] # run[r].final[p]}

(* HEAD and the operator's dirt are as the run found them.                    *)
Untouched(r) ==
  /\ CurrentHead = run[r].head /\ Dirty = EntryDirt(r)
  /\ \A p \in EntryDirt(r) : work[p] = run[r].tree[p]

Replay(r) == Resumed(r) /\ run[r].commit = CurrentHead

(* Where the policy, the recorded commit and the delta lead.                  *)
Course(r) ==
  IF Overlap(r) # {} THEN "manager"
  ELSE IF run[r].policy = 1 THEN IF CurrentHead = run[r].head THEN "checkpoint" ELSE "failing"
  ELSE IF Replay(r) THEN "reuse"
  ELSE IF Delta(r) = {} THEN IF Untouched(r) THEN "empty" ELSE "failing"
  ELSE IF CurrentHead = run[r].head THEN "stage"
  ELSE "failing"

(* Outcomes without a commit drop the one an earlier run recorded.             *)
Decide(r) ==
  /\ at[r] = "decide" /\ branch = run[r].branch /\ Go(r, Course(r))
  /\ run' = IF Course(r) \in Ended THEN [run EXCEPT ![r].commit = NoCommit] ELSE run
  /\ UNCHANGED <<Repo, effort>>

(* Another branch is checked out, or a git operation is in progress.          *)
DecideAttention(r) ==
  /\ at[r] = "decide" /\ Go(r, "failing") /\ run' = [run EXCEPT ![r].commit = NoCommit]
  /\ UNCHANGED <<Repo, effort>>

(* Where a run with a verified commit goes on.                                *)
Onward(r) == IF run[r].policy = 2 THEN "committed" ELSE "target"

Verified(r, reused) ==
  /\ run' = [run EXCEPT ![r] = [@ EXCEPT !.verified = TRUE, !.reused = reused]]
  /\ Go(r, Onward(r)) /\ UNCHANGED <<Repo, effort>>

(* Faulty variant: the paths of the commit are compared, not its contents.     *)
ExactPaths(c, parent, S, final) ==
  c # parent /\ log[c].parent = parent /\ Changed(log[parent].tree, log[c].tree) = S

(* The commit c makes exactly the change of the paths S to the final tree.    *)
Exact(c, parent, S, final) ==
  /\ c # parent /\ log[c].parent = parent
  /\ Changed(log[parent].tree, log[c].tree) = S
  /\ \A p \in S : log[c].tree[p] = final[p]

(* _reuse_completed_commit: a retry trusts the recorded commit only if it is  *)
(* still HEAD and is what the source's candidate makes of the source's HEAD.  *)
Reusable(r) ==
  /\ run[r].commit = CurrentHead /\ Untouched(r)
  /\ Exact(CurrentHead, run[run[r].src].head, run[r].paths, run[r].final)

Reuse(r) == at[r] = "reuse" /\ Reusable(r) /\ Verified(r, TRUE)

ReuseFails(r) == at[r] = "reuse" /\ ~Reusable(r) /\ Goto(r, "failing")

(* commit: the branch is looked at once more, then the paths are staged.      *)
Stage(r) ==
  /\ at[r] = "stage" /\ branch = run[r].branch
  /\ index' = [p \in Paths |-> IF p \in Delta(r) THEN work[p] ELSE index[p]]
  /\ Go(r, "commit") /\ UNCHANGED <<log, tip, branch, work, remote, run, effort>>

(* git commit --only takes the paths from the worktree as it is now, on the   *)
(* branch that is checked out now. A hook may refuse; what is staged stays.   *)
CommitPaths(r) ==
  /\ at[r] = "commit" /\ \E p \in Delta(r) : work[p] # HeadTree[p]
  /\ log' = Append(log, Committed(CurrentHead, Delta(r), work))
  /\ tip' = [tip EXCEPT ![branch] = Len(log) + 1]
  /\ index' = [p \in Paths |-> IF p \in Delta(r) THEN work[p] ELSE index[p]]
  /\ Go(r, "readback") /\ UNCHANGED <<branch, work, remote, run, effort>>

ReadBack(r) ==
  /\ at[r] = "readback" /\ run' = [run EXCEPT ![r].commit = CurrentHead]
  /\ Go(r, "verify") /\ UNCHANGED <<Repo, effort>>

(* verify_commit: parent, paths and contents of what was committed; the       *)
(* phase's paths are clean, and the operator's dirt is what it was.           *)
CommitIsExact(r) ==
  /\ Exact(run[r].commit, run[r].head, Delta(r), run[r].final)
  /\ Dirty = EntryDirt(r) \ Delta(r)
  /\ \A p \in EntryDirt(r) \ Delta(r) : work[p] = run[r].tree[p]

Verify(r) == at[r] = "verify" /\ CommitIsExact(r) /\ Verified(r, FALSE)

VerifyFails(r) == at[r] = "verify" /\ ~CommitIsExact(r) /\ Goto(r, "failing")

(* Faulty variant: a retry takes its commit's push for done.                   *)
AlreadyThereIfReused(r) == run[r].reused

(* push_target, and remote_head of a retry: its push may already have landed. *)
AlreadyThere(r) == run[r].reused /\ remote = run[r].commit

PushTarget(r) ==
  /\ at[r] = "target" /\ branch = run[r].branch /\ branch = Upstream
  /\ Goto(r, IF AlreadyThere(r) THEN "published" ELSE "push")

(* A push is never forced. Its answer may be lost, or it may not arrive.      *)
PushCommit(r) ==
  /\ at[r] = "push" /\ remote \in Past(run[r].commit) /\ remote' = run[r].commit
  /\ Go(r, "answered") \/ Go(r, "unanswered")
  /\ UNCHANGED <<log, tip, branch, work, index, run, effort>>

PushRejected(r) == at[r] = "push" /\ Goto(r, "unanswered")

(* The upstream is queried after every push: only a push that succeeded and   *)
(* is still what the upstream names counts.                                   *)
LandedAndStayed(r) == at[r] = "answered" /\ remote = run[r].commit

PostQuery(r) ==
  /\ at[r] \in {"answered", "unanswered"}
  /\ Goto(r, IF LandedAndStayed(r) THEN "published" ELSE "failing")

(* A git command or a check outside this model fails: a missing message, an   *)
(* unusable upstream, a hook.                                                 *)
GitFails(r) ==
  /\ at[r] \in {"read", "decide", "reuse", "stage", "commit", "readback", "verify",
               "target", "push", "answered"}
  /\ Goto(r, "failing")

(* capture_mutating_boundary notes the worktree of a blocked run.              *)
CaptureFailure(r) ==
  /\ at[r] = "failing" /\ Go(r, "blocked")
  /\ run' = [run EXCEPT ![r].noted =
       [base |-> OwnBase(r), tree |-> work, mechanical |-> TRUE,
        paths |-> run[r].paths \cup (Changed(run[r].tree, work) \ EntryDirt(r))]]
  /\ UNCHANGED <<Repo, effort>>

(* A run that is killed here never becomes the source of another.             *)
Killed(r) == at[r] \in Active /\ Goto(r, "dead")

------------------------------------------------------------------------------
(* Retrying: a new run resumes an ended one at its finalization.              *)

(* _inherited_candidate_manifest: the source's own note of its paths counts   *)
(* only if it is about the terminal candidate; otherwise the trees tell.      *)
ManifestBase(s) == IF run[s].own # NoTree THEN run[s].own ELSE run[s].tree
NoteCounts(s)   == run[s].noted.tree = run[s].terminal
Manifest(s) ==
  IF NoteCounts(s) /\ (run[s].own # NoTree \/ run[s].noted.mechanical)
  THEN run[s].noted.paths ELSE Changed(ManifestBase(s), run[s].terminal)

HoldsCandidate(tree, s) == \A p \in Manifest(s) : tree[p] = run[s].terminal[p]

(* Faulty variant: the source's own commit counts as one it did not make.      *)
MaterializedByAny(s) ==
  Manifest(s) # {} /\ CurrentHead # run[s].head /\ HoldsCandidate(HeadTree, s)

(* The candidate is in a HEAD that the source neither began with nor recorded.*)
Materialized(s) ==
  /\ Manifest(s) # {} /\ CurrentHead # run[s].head /\ run[s].commit # CurrentHead
  /\ HoldsCandidate(HeadTree, s)

(* preflight.                                                                 *)
Accepts(s) ==
  /\ index = HeadTree /\ branch = run[s].branch
  /\ NoteCounts(s) => run[s].noted.base = ManifestBase(s) /\ run[s].noted.paths = Manifest(s)
  /\ HoldsCandidate(work, s) /\ ~Materialized(s)

Resume(r, s) ==
  /\ r # First /\ at[r] = "idle" /\ at[s] \in Ended \ {"manager"}
  /\ Overlap(s) = {} /\ (Resumed(s) => Chained) /\ Accepts(s)
  /\ \E k \in run[s].policy .. Len(Policies) :
       run' = [run EXCEPT ![r] = [src |-> s, policy |-> k, head |-> CurrentHead, branch |-> branch,
         tree |-> work, terminal |-> run[s].terminal, final |-> NoTree,
         paths |-> Manifest(s), own |-> run[s].own, commit |-> run[s].commit,
         noted |-> [base |-> ManifestBase(s), tree |-> run[s].terminal,
                    mechanical |-> FALSE, paths |-> Manifest(s)],
         reused |-> FALSE, verified |-> FALSE]]
  /\ Go(r, "read") /\ UNCHANGED <<Repo, effort>>

------------------------------------------------------------------------------
(* The operator, and others who push to the upstream.                         *)

Spend(what) == effort[what] > 0 /\ effort' = [effort EXCEPT ![what] = @ - 1]

Edit(p) ==
  /\ Spend("work") /\ \E e \in Edits \ {work[p]} : work' = [work EXCEPT ![p] = e]
  /\ UNCHANGED <<log, tip, branch, index, remote, run, at>>

StageOwn(p) ==
  /\ Spend("work") /\ index[p] # work[p] /\ index' = [index EXCEPT ![p] = work[p]]
  /\ UNCHANGED <<log, tip, branch, work, remote, run, at>>

Unstage(p) ==
  /\ Spend("work") /\ index[p] # HeadTree[p] /\ index' = [index EXCEPT ![p] = HeadTree[p]]
  /\ UNCHANGED <<log, tip, branch, work, remote, run, at>>

CommitOwn(p) ==
  /\ Spend("work") /\ work[p] # HeadTree[p]
  /\ log' = Append(log, Committed(CurrentHead, {p}, work))
  /\ tip' = [tip EXCEPT ![branch] = Len(log) + 1] /\ index' = [index EXCEPT ![p] = work[p]]
  /\ UNCHANGED <<branch, work, remote, run, at>>

(* git switch takes dirty paths along and refuses if the branches differ there.*)
Switch(b) ==
  /\ Spend("work") /\ b # branch
  /\ LET there == log[tip[b]].tree
     IN  /\ \A p \in Dirty : HeadTree[p] = there[p]
         /\ work'  = [p \in Paths |-> IF p \in Dirty THEN work[p] ELSE there[p]]
         /\ index' = [p \in Paths |-> IF p \in Dirty THEN index[p] ELSE there[p]]
  /\ branch' = b /\ UNCHANGED <<log, tip, remote, run, at>>

Advance(p) ==
  /\ Spend("advance")
  /\ log' = Append(log, Committed(remote, {p}, [q \in Paths |-> "other"])) /\ remote' = Len(log) + 1
  /\ UNCHANGED <<tip, branch, work, index, run, at>>

Finalize(r) ==
  \/ Enter(r) \/ Produce(r) \/ ReadTree(r) \/ ReadTreeFails(r) \/ Decide(r) \/ DecideAttention(r)
  \/ Reuse(r) \/ ReuseFails(r) \/ Stage(r) \/ CommitPaths(r) \/ ReadBack(r)
  \/ Verify(r) \/ VerifyFails(r) \/ PushTarget(r) \/ PushCommit(r) \/ PushRejected(r)
  \/ PostQuery(r) \/ GitFails(r) \/ CaptureFailure(r) \/ Killed(r)

Operate(p) == Edit(p) \/ StageOwn(p) \/ Unstage(p) \/ CommitOwn(p) \/ Advance(p)

PublicationNext ==
  \/ \E r \in Runs : Finalize(r)
  \/ \E r, s \in Runs : Resume(r, s)
  \/ \E p \in Paths : Operate(p)
  \/ \E b \in Branches : Switch(b)

PublicationSpec == PublicationInit /\ [][PublicationNext]_publicationVars

------------------------------------------------------------------------------
(* Properties.                                                                *)

Commits  == DOMAIN log
MaybeTree == Trees \cup {NoTree}
Notes    == [base : Trees, tree : Trees, paths : SUBSET Paths, mechanical : BOOLEAN]
States   ==
  [src : Runs \cup {NoRun}, policy : DOMAIN Policies, head : Commits \cup {NoCommit},
   branch : Branches, tree : MaybeTree, terminal : MaybeTree, final : MaybeTree,
   paths : SUBSET Paths, own : MaybeTree, noted : Notes \cup {NoTree},
   commit : Commits \cup {NoCommit}, reused : BOOLEAN, verified : BOOLEAN]

(* Every variable keeps its type; every branch, the upstream and every record *)
(* of a run name commits that exist.                                          *)
PublicationTypeOK ==
  /\ log \in Seq([parent : Nat, tree : Trees, past : SUBSET Nat])
  /\ tip \in [Branches -> Commits] /\ branch \in Branches /\ remote \in Commits
  /\ work \in Trees /\ index \in Trees
  /\ run \in [Runs -> States] /\ at \in [Runs -> Places]
  /\ effort \in [{"work", "advance"} -> Nat]

(* What the phase changed, whatever its retries take it for.                  *)
Candidate == IF run[First].terminal = NoTree THEN {}
             ELSE Changed(run[First].tree, run[First].terminal)

(* The run that performed the phase, or a direct retry of it. What a retry of *)
(* a retry inherits is the note of a blocked retry, and that counts whatever  *)
(* the operator changed since the retry began as the phase's.                 *)
FirstHand(r) == run[r].src \in {NoRun, First}

(* Such a run, if it reports its work committed or published, has on top of   *)
(* the HEAD that it or its source began with exactly the candidate the phase  *)
(* ended with: nothing of what anybody wrote meanwhile, and nothing left out  *)
(* (verify_commit, verify_recorded_commit), whatever happens in between.      *)
ReportedIsCandidate == \A r \in Runs : FirstHand(r) /\ at[r] \in {"committed", "published"} =>
  LET c    == run[r].commit
      from == IF run[r].reused THEN run[run[r].src].head ELSE run[r].head
  IN  /\ log[c].parent = from
      /\ \A p \in Paths : log[c].tree[p] = IF p \in Candidate THEN run[First].terminal[p]
                                           ELSE log[from].tree[p]

(* A commit that a run reports as published is in the upstream's history, and *)
(* stays there: with lost answers, rejected pushes, retries that find their   *)
(* push landed, and others who push in between (push_verified,                *)
(* publish_or_reuse).                                                         *)
PublishedIsThere == \A r \in Runs :
  at[r] = "published" => run[r].policy = 3 /\ run[r].commit \in Past(remote)

(* A run that made and verified a commit of all its paths and could not push  *)
(* it can be retried: as long as the repository is as it left and noted it,   *)
(* preflight accepts it and the retry recognises the commit.                  *)
BlockedPushResumes == \A s \in Runs :
  /\ FirstHand(s) /\ at[s] = "blocked" /\ run[s].noted.tree = work
  /\ run[s].verified /\ ~run[s].reused /\ Delta(s) = run[s].paths
  /\ CurrentHead = run[s].commit /\ branch = run[s].branch /\ index = HeadTree
  /\ \A p \in Paths : work[p] = IF p \in Candidate THEN run[First].terminal[p] ELSE HeadTree[p]
  => /\ Accepts(s)
     /\ Exact(CurrentHead, run[s].head, Manifest(s), run[s].terminal)

(* finalized_empty_delta is the outcome of clean worktrees: no run ends with  *)
(* it while its phase did change something.                                   *)
EmptyMeansClean == \A r \in Runs : at[r] = "empty" => Candidate = {}
=============================================================================
