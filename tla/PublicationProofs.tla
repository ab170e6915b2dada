--------------------------- MODULE PublicationProofs ---------------------------
(* What Publication guarantees for any runs, paths, branches and bounds, and, *)
(* at the end, that the three modules of a phase run keep their types in the  *)
(* specification that checks them together.                                   *)
EXTENDS MCPhaseRun, ProviderLaunchProofs, PhaseTurnsProofs, TLAPS

Trying  == {"reuse", "stage", "commit", "readback", "verify"}
Pushing == {"target", "push", "answered", "unanswered", "published"}

(* What the place p of a run says about its record.                           *)
Sound(rec, p) ==
  /\ p # "idle" => rec.tree \in Trees /\ rec.head \in Commits
  /\ p \notin {"idle", "work", "dead"} => rec.terminal \in Trees /\ rec.noted \in Notes
  /\ p \in {"decide"} \cup Trying => rec.final \in Trees
  /\ p \in Trying => rec.policy # 1
  /\ p \in {"verify"} \cup Pushing => rec.commit \in Commits
  /\ p \in Pushing => rec.policy = 3
  /\ p = "published" => rec.commit \in Past(remote)

RunsSound   == \A r \in Runs : Sound(run[r], at[r])
SourcesOK   == \A r \in Runs : run[r].src \in Runs => run[run[r].src].tree \in Trees

(* A commit descends from itself, and from all that its ancestors descend from.*)
HistoryOK ==
  \A c \in Commits : /\ c \in Past(c) /\ Past(c) \subseteq Commits
                     /\ \A d \in Past(c) : Past(d) \subseteq Past(c)

PublicationInv == PublicationTypeOK /\ RunsSound /\ SourcesOK /\ HistoryOK

Record == [parent : Nat, tree : Trees, past : SUBSET Nat]

LEMMA InitialInv == PublicationInit => PublicationInv
<1> SUFFICES ASSUME PublicationInit PROVE PublicationInv
  OBVIOUS
<1> DEFINE base == [p \in Paths |-> "base"]
<1>1. base \in Trees
  BY DEF Trees, Contents
<1>2. log = <<[parent |-> 0, tree |-> base, past |-> {1}]>>
  BY DEF PublicationInit, NoCommit
<1>3. log \in Seq(Record) /\ Commits = {1} /\ Past(1) = {1}
  BY <1>1, <1>2 DEF Record, Commits, Past
<1>4. Unrecorded \in States
  BY <1>3, PublicationAssumption
  DEF Unrecorded, States, MaybeTree, NoCommit, NoTree, Policies
<1>5. PublicationTypeOK
  BY <1>1, <1>3, <1>4, PublicationAssumption
  DEF PublicationInit, PublicationTypeOK, Record, Places
<1>6. RunsSound /\ SourcesOK
  BY PublicationAssumption
  DEF PublicationInit, RunsSound, SourcesOK, Sound, Unrecorded, Trying, Pushing
<1>7. HistoryOK
  BY <1>3 DEF HistoryOK
<1> QED BY <1>5, <1>6, <1>7 DEF PublicationInv

------------------------------------------------------------------------------
(* A step of a run: it changes its own record and place, the worktree, the    *)
(* index, and moves the upstream only forward.                                *)
LEMMA RunMoves ==
  ASSUME PublicationInv, NEW r \in Runs, NEW p \in Places, p # "idle",
         run' \in [Runs -> States], \A q \in Runs \ {r} : run'[q] = run[q],
         at' = [at EXCEPT ![r] = p], Sound(run[r], p)',
         run'[r].src \in Runs => run[run'[r].src].tree \in Trees \/ run'[r].src = r,
         log' = log, tip' = tip, branch' = branch, effort' = effort,
         work' \in Trees, index' \in Trees,
         remote' \in Commits, Past(remote) \subseteq Past(remote')
  PROVE  PublicationInv'
<1>1. Commits' = Commits /\ States' = States /\ (\A c : Past(c)' = Past(c))
  BY DEF Commits, States, Past
<1>2. PublicationTypeOK'
  BY <1>1 DEF PublicationInv, PublicationTypeOK
<1>3. RunsSound'
  <2> SUFFICES ASSUME NEW q \in Runs PROVE Sound(run[q], at[q])'
    BY DEF RunsSound
  <2>1. CASE q = r
    BY <2>1 DEF PublicationInv, PublicationTypeOK
  <2>2. CASE q # r
    <3>1. run'[q] = run[q] /\ at'[q] = at[q] /\ Sound(run[q], at[q])
      BY <2>2 DEF PublicationInv, PublicationTypeOK, RunsSound
    <3> QED BY <3>1, <1>1 DEF Sound, Past
  <2> QED BY <2>1, <2>2
<1>4. SourcesOK'
  <2>1. run'[r].tree \in Trees
    BY DEF Sound
  <2> QED BY <2>1 DEF PublicationInv, SourcesOK
<1>5. HistoryOK'
  BY <1>1 DEF PublicationInv, HistoryOK, Past, Commits
<1> QED BY <1>2, <1>3, <1>4, <1>5 DEF PublicationInv

(* A step that changes the place of a run and nothing else.                   *)
LEMMA RunGoes ==
  ASSUME PublicationInv, NEW r \in Runs, NEW p \in Places, p # "idle", Goto(r, p),
         Sound(run[r], p)
  PROVE  PublicationInv'
<1>1. /\ run \in [Runs -> States] /\ run' = run /\ at' = [at EXCEPT ![r] = p]
      /\ States' = States
  BY DEF PublicationInv, PublicationTypeOK, Goto, Go, Repo, States, Commits
<1>2. Sound(run[r], p)'
  BY <1>1 DEF Goto, Repo, Sound, Commits, Past
<1>3. /\ log' = log /\ tip' = tip /\ branch' = branch /\ effort' = effort
      /\ work' \in Trees /\ index' \in Trees /\ remote' \in Commits
      /\ Past(remote) \subseteq Past(remote')
  BY DEF PublicationInv, PublicationTypeOK, Goto, Repo
<1>4. run'[r].src \in Runs => run[run'[r].src].tree \in Trees
  BY <1>1 DEF PublicationInv, SourcesOK
<1> QED BY <1>1, <1>2, <1>3, <1>4, RunMoves

------------------------------------------------------------------------------
(* The history grows by one commit.                                           *)
LEMMA HistoryGrows ==
  ASSUME PublicationInv, NEW c \in Commits, NEW S \in SUBSET Paths, NEW from \in Trees,
         NEW n, n = Len(log) + 1, log' = Append(log, Committed(c, S, from))
  PROVE  /\ log' \in Seq(Record) /\ Commits \subseteq Commits' /\ n \in Commits'
         /\ \A d \in Commits : log'[d] = log[d]
         /\ \A d \in Commits : Past(d)' = Past(d)
         /\ Past(n)' = Past(c) \cup {n}
         /\ HistoryOK'
<1> DEFINE new == Committed(c, S, from)
<1>1. log \in Seq(Record) /\ c \in 1..Len(log) /\ Commits = 1..Len(log) /\ Len(log) \in Nat
  BY DEF PublicationInv, PublicationTypeOK, Record, Commits
<1>2. log[c] \in Record
  BY <1>1
<1>3. new \in Record
  <2>1. [p \in Paths |-> IF p \in S THEN from[p] ELSE log[c].tree[p]] \in Trees
    BY <1>2 DEF Record, Trees
  <2>2. Past(c) \cup {n} \in SUBSET Nat
    BY <1>1, <1>2 DEF Record, Past
  <2> QED BY <1>1, <2>1, <2>2 DEF Committed, Record
<1>4. /\ log' \in Seq(Record) /\ Len(log') = n /\ log'[n] = new
      /\ \A d \in 1..Len(log) : log'[d] = log[d]
  <2>1. log' = Append(log, new)
    OBVIOUS
  <2> HIDE DEF new
  <2> QED BY <1>1, <1>3, <2>1
<1>5. Commits' = 1..n /\ (\A d \in Commits : Past(d)' = Past(d))
  BY <1>1, <1>4 DEF Commits, Past
<1>6. Past(n)' = Past(c) \cup {n}
  BY <1>1, <1>4 DEF Past, Committed
<1>7. HistoryOK'
  <2> SUFFICES ASSUME NEW d \in 1..n
               PROVE  /\ d \in Past(d)' /\ Past(d)' \subseteq 1..n
                      /\ \A e \in Past(d)' : Past(e)' \subseteq Past(d)'
    BY <1>5 DEF HistoryOK
  <2>1. CASE d \in 1..Len(log)
    <3>1. d \in Past(d) /\ Past(d) \subseteq Commits /\ \A e \in Past(d) : Past(e) \subseteq Past(d)
      BY <2>1, <1>1 DEF PublicationInv, HistoryOK
    <3> QED BY <3>1, <2>1, <1>1, <1>5
  <2>2. CASE d = n
    <3>1. Past(c) \subseteq Commits /\ \A e \in Past(c) : Past(e) \subseteq Past(c)
      BY DEF PublicationInv, HistoryOK
    <3> QED BY <3>1, <2>2, <1>1, <1>5, <1>6
  <2>3. d \in 1..Len(log) \/ d = n
    BY <1>1
  <2> QED BY <2>1, <2>2, <2>3
<1> QED BY <1>1, <1>4, <1>5, <1>6, <1>7

(* A step of the repository: runs keep their records, commits are only added, *)
(* and the upstream moves only forward.                                       *)
LEMMA RepositoryMoves ==
  ASSUME PublicationInv, run' = run, at' = at,
         log' \in Seq(Record), Commits \subseteq Commits',
         \A d \in Commits : Past(d)' = Past(d), HistoryOK',
         tip' \in [Branches -> Commits'], branch' \in Branches, remote' \in Commits',
         Past(remote) \subseteq Past(remote)', work' \in Trees, index' \in Trees,
         effort' \in [{"work", "advance"} -> Nat]
  PROVE  PublicationInv'
<1>1. run \in [Runs -> States]
  BY DEF PublicationInv, PublicationTypeOK
<1>2. States \subseteq States'
  BY DEF States
<1>3. PublicationTypeOK'
  BY <1>1, <1>2 DEF PublicationInv, PublicationTypeOK, Record
<1>4. RunsSound'
  BY DEF PublicationInv, RunsSound, Sound
<1>5. SourcesOK'
  BY DEF PublicationInv, SourcesOK
<1> QED BY <1>3, <1>4, <1>5 DEF PublicationInv

------------------------------------------------------------------------------
(* What a run and the repository have to work with.                           *)
LEMMA Given ==
  ASSUME PublicationInv, NEW r \in Runs
  PROVE  /\ run[r] \in States /\ Sound(run[r], at[r]) /\ at[r] \in Places
         /\ CurrentHead \in Commits /\ HeadTree \in Trees /\ remote \in Commits
         /\ work \in Trees /\ index \in Trees
         /\ run[r].src \in Runs => run[run[r].src].tree \in Trees
<1>1. CurrentHead \in Commits
  BY DEF PublicationInv, PublicationTypeOK, CurrentHead
<1>2. log[CurrentHead] \in Record
  <2>1. log \in Seq(Record)
    BY DEF PublicationInv, PublicationTypeOK, Record
  <2> QED BY <1>1, <2>1 DEF Commits
<1>3. HeadTree \in Trees
  BY <1>2 DEF HeadTree, Record
<1> QED BY <1>1, <1>3 DEF PublicationInv, PublicationTypeOK, RunsSound, SourcesOK

LEMMA OwnBaseIsTree ==
  ASSUME PublicationInv, NEW r \in Runs, at[r] # "idle"
  PROVE  OwnBase(r) \in Trees
<1>1. run[r].own \in Trees \cup {NoTree} /\ run[r].src \in Runs \cup {NoRun} /\ run[r].tree \in Trees
  BY Given DEF States, MaybeTree, Sound
<1>2. run[r].src \in Runs => run[run[r].src].tree \in Trees
  BY Given
<1> QED BY <1>1, <1>2 DEF OwnBase, Resumed

(* Steps that only move on.                                                   *)
LEMMA FailingKeeps ==
  ASSUME PublicationInv, NEW r \in Runs, Goto(r, "failing"), at[r] \in Active \ {"work"}
  PROVE  PublicationInv'
<1>1. Sound(run[r], "failing")
  BY Given DEF Sound, Active, Trying, Pushing
<1> QED BY <1>1, RunGoes DEF Places, Active

LEMMA KilledKeeps ==
  ASSUME PublicationInv, NEW r \in Runs, Killed(r)
  PROVE  PublicationInv'
<1>1. Sound(run[r], "dead") /\ Goto(r, "dead")
  BY Given DEF Killed, Sound, Active, Trying, Pushing
<1> QED BY <1>1, RunGoes DEF Places

(* Where the upstream is the commit, the commit is in its history.            *)
LEMMA ArrivedIsPublished ==
  ASSUME PublicationInv, NEW r \in Runs, at[r] \in Pushing, remote = run[r].commit
  PROVE  Sound(run[r], "published")
<1>1. run[r].commit \in Commits /\ run[r].policy = 3
  BY Given DEF Sound
<1>2. run[r].commit \in Past(remote)
  BY <1>1 DEF PublicationInv, HistoryOK
<1> QED BY <1>1, <1>2, Given DEF Sound, Trying, Pushing

LEMMA PushTargetKeeps ==
  ASSUME PublicationInv, NEW r \in Runs, PushTarget(r)
  PROVE  PublicationInv'
<1>1. CASE AlreadyThere(r)
  <2>1. Sound(run[r], "published") /\ Goto(r, "published")
    BY <1>1, ArrivedIsPublished DEF AlreadyThere, PushTarget, Pushing
  <2> QED BY <2>1, RunGoes DEF Places, Ended
<1>2. CASE ~AlreadyThere(r)
  <2>1. Sound(run[r], "push") /\ Goto(r, "push")
    BY <1>2, Given DEF PushTarget, Sound, Trying, Pushing
  <2> QED BY <2>1, RunGoes DEF Places, Active
<1> QED BY <1>1, <1>2

LEMMA PushRejectedKeeps ==
  ASSUME PublicationInv, NEW r \in Runs, PushRejected(r)
  PROVE  PublicationInv'
<1>1. Sound(run[r], "unanswered") /\ Goto(r, "unanswered")
  BY Given DEF PushRejected, Sound, Trying, Pushing
<1> QED BY <1>1, RunGoes DEF Places, Active

LEMMA PostQueryKeeps ==
  ASSUME PublicationInv, NEW r \in Runs, PostQuery(r)
  PROVE  PublicationInv'
<1>1. CASE LandedAndStayed(r)
  <2>1. Sound(run[r], "published") /\ Goto(r, "published")
    BY <1>1, ArrivedIsPublished DEF LandedAndStayed, PostQuery, Pushing
  <2> QED BY <2>1, RunGoes DEF Places, Ended
<1>2. CASE ~LandedAndStayed(r)
  BY <1>2, FailingKeeps DEF PostQuery, Active
<1> QED BY <1>1, <1>2

------------------------------------------------------------------------------
(* Steps that write the record of a run.                                      *)
LEMMA Recording ==
  ASSUME PublicationInv, NEW r \in Runs, NEW rec \in States, NEW p \in Places, p # "idle",
         run' = [run EXCEPT ![r] = rec], Go(r, p), log' = log,
         Sound(rec, p)', rec.src \in Runs => run[rec.src].tree \in Trees \/ rec.src = r,
         UNCHANGED <<tip, branch, remote, effort>>, work' \in Trees, index' \in Trees
  PROVE  PublicationInv'
<1>1. run \in [Runs -> States] /\ remote \in Commits
  BY DEF PublicationInv, PublicationTypeOK
<1>2. /\ run' \in [Runs -> States] /\ (\A q \in Runs \ {r} : run'[q] = run[q]) /\ run'[r] = rec
      /\ at' = [at EXCEPT ![r] = p]
  BY <1>1 DEF Go
<1>3. Sound(run[r], p)'
  BY <1>2
<1> QED BY <1>1, <1>2, <1>3, RunMoves

LEMMA EnterKeeps ==
  ASSUME PublicationInv, NEW r \in Runs, Enter(r)
  PROVE  PublicationInv'
<1>1. PICK k \in DOMAIN Policies :
        run' = [run EXCEPT ![r] = [@ EXCEPT !.policy = k, !.head = CurrentHead, !.branch = branch,
                                            !.tree = work]]
  BY DEF Enter
<1>2. PICK rec : rec = [run[r] EXCEPT !.policy = k, !.head = CurrentHead, !.branch = branch,
                                      !.tree = work]
  OBVIOUS
<1>3. branch \in Branches /\ run \in [Runs -> States]
  BY DEF PublicationInv, PublicationTypeOK
<1>4. rec \in States /\ rec.src = run[r].src /\ rec.tree \in Trees /\ rec.head \in Commits
  <2>1. run[r] \in States /\ work \in Trees /\ CurrentHead \in Commits
    BY <1>3, Given
  <2>2. rec \in States
    BY <1>2, <1>3, <2>1 DEF States, MaybeTree
  <2>3. rec.src = run[r].src /\ rec.tree = work /\ rec.head = CurrentHead
    BY <1>2, <2>1 DEF States
  <2> QED BY <2>1, <2>2, <2>3
<1>5. Sound(rec, "work")'
  BY <1>4 DEF Enter, Repo, Sound, Trying, Pushing, Commits
<1>6. run' = [run EXCEPT ![r] = rec]
  BY <1>1, <1>2, <1>3
<1>7. /\ log' = log /\ Go(r, "work") /\ UNCHANGED <<tip, branch, remote, effort>>
      /\ work' \in Trees /\ index' \in Trees
  BY Given DEF Enter, Repo
<1> QED BY <1>4, <1>5, <1>6, <1>7, Given, Recording DEF Places, Active

LEMMA ProduceKeeps ==
  ASSUME PublicationInv, NEW r \in Runs, Produce(r)
  PROVE  PublicationInv'
<1>1. PICK S \in SUBSET PhasePaths :
        work' = [q \in Paths |-> IF q \in S THEN "cand" ELSE work[q]]
  BY DEF Produce
<1>2. work' \in Trees
  BY <1>1, Given DEF Trees, Contents
<1>3. PICK note : note = [base |-> run[r].tree, tree |-> work', mechanical |-> TRUE,
                          paths |-> Changed(run[r].tree, work') \ EntryDirt(r)]
  OBVIOUS
<1>4. PICK rec : rec = [run[r] EXCEPT !.terminal = work', !.noted = note]
  OBVIOUS
<1>5. run[r] \in States /\ run[r].tree \in Trees /\ run[r].head \in Commits /\ at[r] = "work"
  BY Given DEF Produce, Sound
<1>6. note \in Notes
  BY <1>2, <1>3, <1>5 DEF Notes, Changed
<1>7. rec \in States /\ rec.src = run[r].src
  BY <1>2, <1>4, <1>5, <1>6 DEF States, MaybeTree
<1>8. Sound(rec, "read")'
  BY <1>2, <1>4, <1>5, <1>6 DEF Produce, Sound, Trying, Pushing, Commits, States
<1>9. run' = [run EXCEPT ![r] = rec]
  BY <1>3, <1>4 DEF Produce
<1>10. Go(r, "read") /\ log' = log /\ UNCHANGED <<tip, branch, remote, effort>> /\ index' \in Trees
  BY Given DEF Produce
<1> QED BY <1>2, <1>7, <1>8, <1>9, <1>10, Given, Recording DEF Places, Active

LEMMA ReadTreeKeeps ==
  ASSUME PublicationInv, NEW r \in Runs, ReadTree(r)
  PROVE  PublicationInv'
<1>1. PICK owned : owned = IF Resumed(r) THEN run[r].paths ELSE Changed(run[r].tree, work)
  OBVIOUS
<1>2. PICK note : note = [base |-> OwnBase(r), tree |-> work, paths |-> owned,
                          mechanical |-> run[r].noted.mechanical]
  OBVIOUS
<1>3. PICK rec : rec = [run[r] EXCEPT !.final = work, !.paths = owned, !.own = OwnBase(r),
                                      !.noted = note]
  OBVIOUS
<1>4. /\ run[r] \in States /\ run[r].tree \in Trees /\ run[r].head \in Commits
      /\ run[r].terminal \in Trees /\ run[r].noted \in Notes /\ at[r] = "read"
  BY Given DEF ReadTree, Sound
<1>5. OwnBase(r) \in Trees
  BY <1>4, OwnBaseIsTree
<1>6. owned \subseteq Paths
  BY <1>1, <1>4 DEF States, Changed
<1>7. note \in Notes
  BY <1>2, <1>4, <1>5, <1>6, Given DEF Notes
<1>8. rec \in States /\ rec.src = run[r].src
  BY <1>3, <1>4, <1>5, <1>6, <1>7, Given DEF States, MaybeTree
<1>9. Sound(rec, "decide")'
  BY <1>3, <1>4, <1>7, Given DEF ReadTree, Repo, Sound, Trying, Pushing, Commits, States
<1>10. run' = [run EXCEPT ![r] = rec]
  BY <1>1, <1>2, <1>3 DEF ReadTree
<1>11. /\ log' = log /\ Go(r, "decide") /\ UNCHANGED <<tip, branch, remote, effort>>
       /\ work' \in Trees /\ index' \in Trees
  BY Given DEF ReadTree, Repo
<1> QED BY <1>8, <1>9, <1>10, <1>11, Given, Recording DEF Places, Active

LEMMA DecideKeeps ==
  ASSUME PublicationInv, NEW r \in Runs, Decide(r)
  PROVE  PublicationInv'
<1>1. PICK p : p = Course(r)
  OBVIOUS
<1>2. /\ p \in {"manager", "checkpoint", "failing", "reuse", "empty", "stage"}
      /\ p \in {"reuse", "stage"} => run[r].policy # 1
  <2>1. CASE Overlap(r) # {}
    BY <1>1, <2>1 DEF Course
  <2>2. CASE Overlap(r) = {} /\ run[r].policy = 1
    BY <1>1, <2>2 DEF Course
  <2>3. CASE Overlap(r) = {} /\ run[r].policy # 1 /\ Replay(r)
    BY <1>1, <2>3 DEF Course
  <2>4. CASE Overlap(r) = {} /\ run[r].policy # 1 /\ ~Replay(r) /\ Delta(r) = {}
    BY <1>1, <2>4 DEF Course
  <2>5. CASE Overlap(r) = {} /\ run[r].policy # 1 /\ ~Replay(r) /\ Delta(r) # {}
    BY <1>1, <2>5 DEF Course
  <2> QED BY <2>1, <2>2, <2>3, <2>4, <2>5
<1>3. p \in Places /\ p # "idle"
  BY <1>2 DEF Places, Active, Ended
<1>4. /\ run[r] \in States /\ run \in [Runs -> States] /\ at[r] = "decide" /\ run[r].tree \in Trees
      /\ run[r].head \in Commits /\ run[r].terminal \in Trees /\ run[r].noted \in Notes
      /\ run[r].final \in Trees
  BY Given DEF Decide, Sound, PublicationInv, PublicationTypeOK
<1>5. PICK rec : rec = IF p \in Ended THEN [run[r] EXCEPT !.commit = NoCommit] ELSE run[r]
  OBVIOUS
<1>6. /\ rec \in States /\ rec.src = run[r].src /\ rec.tree = run[r].tree /\ rec.head = run[r].head
      /\ rec.terminal = run[r].terminal /\ rec.noted = run[r].noted /\ rec.final = run[r].final
      /\ rec.policy = run[r].policy
  BY <1>4, <1>5 DEF States
<1>7. run' = [run EXCEPT ![r] = rec]
  BY <1>1, <1>4, <1>5 DEF Decide
<1>8. Go(r, p) /\ log' = log /\ UNCHANGED <<tip, branch, remote, effort>> /\ work' \in Trees /\ index' \in Trees
  BY <1>1, Given DEF Decide, Repo
<1>9. Sound(rec, p)'
  BY <1>2, <1>4, <1>6, <1>8 DEF Sound, Trying, Pushing, Commits
<1> QED BY <1>3, <1>6, <1>7, <1>8, <1>9, Given, Recording

LEMMA AttentionKeeps ==
  ASSUME PublicationInv, NEW r \in Runs, DecideAttention(r)
  PROVE  PublicationInv'
<1>1. /\ run[r] \in States /\ run \in [Runs -> States] /\ run[r].tree \in Trees
      /\ run[r].head \in Commits /\ run[r].terminal \in Trees /\ run[r].noted \in Notes
  BY Given DEF DecideAttention, Sound, PublicationInv, PublicationTypeOK
<1>2. PICK rec : rec = [run[r] EXCEPT !.commit = NoCommit]
  OBVIOUS
<1>3. /\ rec \in States /\ rec.src = run[r].src /\ rec.tree = run[r].tree /\ rec.head = run[r].head
      /\ rec.terminal = run[r].terminal /\ rec.noted = run[r].noted
  BY <1>1, <1>2 DEF States
<1>4. run' = [run EXCEPT ![r] = rec]
  BY <1>1, <1>2 DEF DecideAttention
<1>5. /\ Go(r, "failing") /\ log' = log /\ UNCHANGED <<tip, branch, remote, effort>>
      /\ work' \in Trees /\ index' \in Trees
  BY Given DEF DecideAttention, Repo
<1>6. Sound(rec, "failing")'
  BY <1>1, <1>3, <1>5 DEF Sound, Trying, Pushing, Commits
<1> QED BY <1>3, <1>4, <1>5, <1>6, Given, Recording DEF Places, Active

(* A verified commit goes on to the upstream, or ends a local run.            *)
LEMMA VerifiedKeeps ==
  ASSUME PublicationInv, NEW r \in Runs, NEW reused \in BOOLEAN, Verified(r, reused),
         at[r] \in Trying, run[r].commit \in Commits
  PROVE  PublicationInv'
<1>1. PICK p : p = Onward(r)
  OBVIOUS
<1>2. /\ run[r] \in States /\ run \in [Runs -> States] /\ run[r].tree \in Trees
      /\ run[r].head \in Commits /\ run[r].terminal \in Trees /\ run[r].noted \in Notes
      /\ run[r].policy # 1
  BY Given DEF Sound, PublicationInv, PublicationTypeOK, Trying
<1>3. run[r].policy \in {2, 3}
  BY <1>2 DEF States, Policies
<1>4. p \in {"committed", "target"} /\ (p = "target" => run[r].policy = 3)
  BY <1>1, <1>3 DEF Onward
<1>5. PICK rec : rec = [run[r] EXCEPT !.verified = TRUE, !.reused = reused]
  OBVIOUS
<1>6. /\ rec \in States /\ rec.src = run[r].src /\ rec.tree = run[r].tree /\ rec.head = run[r].head
      /\ rec.terminal = run[r].terminal /\ rec.noted = run[r].noted /\ rec.commit = run[r].commit
      /\ rec.policy = run[r].policy
  BY <1>2, <1>5 DEF States
<1>7. run' = [run EXCEPT ![r] = rec]
  BY <1>2, <1>5 DEF Verified
<1>8. Go(r, p) /\ log' = log /\ UNCHANGED <<tip, branch, remote, effort>> /\ work' \in Trees /\ index' \in Trees
  BY <1>1, Given DEF Verified, Repo
<1>9. Sound(rec, p)'
  BY <1>2, <1>4, <1>6, <1>8 DEF Sound, Trying, Pushing, Commits
<1> QED BY <1>4, <1>6, <1>7, <1>8, <1>9, Given, Recording DEF Places, Active, Ended

LEMMA ReuseKeeps ==
  ASSUME PublicationInv, NEW r \in Runs, Reuse(r)
  PROVE  PublicationInv'
  BY VerifiedKeeps, Given DEF Reuse, Reusable, Trying

LEMMA VerifyKeeps ==
  ASSUME PublicationInv, NEW r \in Runs, Verify(r)
  PROVE  PublicationInv'
<1>1. run[r].commit \in Commits
  BY Given DEF Verify, Sound
<1> QED BY <1>1, VerifiedKeeps DEF Verify, Trying

LEMMA ReadBackKeeps ==
  ASSUME PublicationInv, NEW r \in Runs, ReadBack(r)
  PROVE  PublicationInv'
<1>1. /\ run[r] \in States /\ run \in [Runs -> States] /\ run[r].tree \in Trees
      /\ run[r].head \in Commits /\ run[r].terminal \in Trees /\ run[r].noted \in Notes
      /\ run[r].final \in Trees /\ run[r].policy # 1
  BY Given DEF ReadBack, Sound, PublicationInv, PublicationTypeOK, Trying
<1>2. PICK rec : rec = [run[r] EXCEPT !.commit = CurrentHead]
  OBVIOUS
<1>3. /\ rec \in States /\ rec.src = run[r].src /\ rec.tree = run[r].tree /\ rec.head = run[r].head
      /\ rec.terminal = run[r].terminal /\ rec.noted = run[r].noted /\ rec.final = run[r].final
      /\ rec.policy = run[r].policy /\ rec.commit \in Commits
  BY <1>1, <1>2, Given DEF States
<1>4. run' = [run EXCEPT ![r] = rec]
  BY <1>1, <1>2 DEF ReadBack
<1>5. /\ Go(r, "verify") /\ log' = log /\ UNCHANGED <<tip, branch, remote, effort>>
      /\ work' \in Trees /\ index' \in Trees
  BY Given DEF ReadBack, Repo
<1>6. Sound(rec, "verify")'
  BY <1>1, <1>3, <1>5 DEF Sound, Trying, Pushing, Commits
<1> QED BY <1>3, <1>4, <1>5, <1>6, Given, Recording DEF Places, Active

LEMMA CaptureKeeps ==
  ASSUME PublicationInv, NEW r \in Runs, CaptureFailure(r)
  PROVE  PublicationInv'
<1>1. /\ run[r] \in States /\ run \in [Runs -> States] /\ run[r].tree \in Trees
      /\ run[r].head \in Commits /\ run[r].terminal \in Trees /\ at[r] # "idle"
  BY Given DEF CaptureFailure, Sound, PublicationInv, PublicationTypeOK
<1>2. PICK note : note = [base |-> OwnBase(r), tree |-> work, mechanical |-> TRUE,
                          paths |-> run[r].paths \cup (Changed(run[r].tree, work) \ EntryDirt(r))]
  OBVIOUS
<1>3. note \in Notes
  BY <1>1, <1>2, Given, OwnBaseIsTree DEF Notes, Changed, States
<1>4. PICK rec : rec = [run[r] EXCEPT !.noted = note]
  OBVIOUS
<1>5. /\ rec \in States /\ rec.src = run[r].src /\ rec.tree = run[r].tree /\ rec.head = run[r].head
      /\ rec.terminal = run[r].terminal /\ rec.noted = note
  BY <1>1, <1>3, <1>4 DEF States
<1>6. run' = [run EXCEPT ![r] = rec]
  BY <1>1, <1>2, <1>4 DEF CaptureFailure
<1>7. /\ Go(r, "blocked") /\ log' = log /\ UNCHANGED <<tip, branch, remote, effort>>
      /\ work' \in Trees /\ index' \in Trees
  BY Given DEF CaptureFailure, Repo
<1>8. Sound(rec, "blocked")'
  BY <1>1, <1>3, <1>5, <1>7 DEF Sound, Trying, Pushing, Commits
<1> QED BY <1>5, <1>6, <1>7, <1>8, Given, Recording DEF Places, Ended

LEMMA StageKeeps ==
  ASSUME PublicationInv, NEW r \in Runs, Stage(r)
  PROVE  PublicationInv'
<1>1. /\ run[r] \in States /\ run \in [Runs -> States] /\ Sound(run[r], "commit")
      /\ run[r].src \in Runs => run[run[r].src].tree \in Trees
  BY Given DEF Stage, Sound, Trying, Pushing, PublicationInv, PublicationTypeOK
<1>2. index' \in Trees
  BY Given DEF Stage, Trees
<1>3. PICK rec : rec = run[r]
  OBVIOUS
<1>4. rec \in States /\ run' = [run EXCEPT ![r] = rec] /\ log' = log /\ Go(r, "commit")
      /\ UNCHANGED <<tip, branch, remote, effort>> /\ work' \in Trees
  BY <1>1, <1>3, Given DEF Stage
<1>5. Sound(rec, "commit")'
  BY <1>1, <1>3, <1>4 DEF Sound, Trying, Pushing, Commits
<1> QED BY <1>1, <1>2, <1>3, <1>4, <1>5, Recording DEF Places, Active

LEMMA PushCommitKeeps ==
  ASSUME PublicationInv, NEW r \in Runs, PushCommit(r)
  PROVE  PublicationInv'
<1>1. PICK p \in {"answered", "unanswered"} : Go(r, p)
  BY DEF PushCommit
<1>2. /\ run \in [Runs -> States] /\ Sound(run[r], at[r]) /\ at[r] = "push"
      /\ run[r].src \in Runs => run[run[r].src].tree \in Trees
  BY Given DEF PushCommit, PublicationInv, PublicationTypeOK
<1>3. run[r].commit \in Commits
  BY <1>2 DEF Sound, Pushing
<1>4. Past(remote) \subseteq Past(run[r].commit)
  BY <1>3 DEF PushCommit, PublicationInv, HistoryOK
<1>5. /\ run' = run /\ log' = log /\ UNCHANGED <<tip, branch, effort, work, index>>
      /\ remote' = run[r].commit
  BY DEF PushCommit
<1>6. Sound(run[r], p)'
  BY <1>1, <1>2, <1>3, <1>5 DEF Sound, Trying, Pushing, Commits
<1>7. p \in Places /\ p # "idle" /\ at' = [at EXCEPT ![r] = p] /\ work' \in Trees /\ index' \in Trees
  BY <1>1, <1>5, Given DEF Places, Active, Go
<1> QED BY <1>2, <1>3, <1>4, <1>5, <1>6, <1>7, RunMoves

LEMMA ManifestInPaths ==
  ASSUME PublicationInv, NEW s \in Runs, run[s].noted \in Notes
  PROVE  Manifest(s) \subseteq Paths /\ (run[s].tree \in Trees => ManifestBase(s) \in Trees)
<1>1. run[s] \in States
  BY Given
<1> QED BY <1>1 DEF Manifest, ManifestBase, Changed, Notes, States, MaybeTree

LEMMA ResumeKeeps ==
  ASSUME PublicationInv, NEW r \in Runs, NEW s \in Runs, Resume(r, s)
  PROVE  PublicationInv'
<1>1. /\ run[s] \in States /\ run \in [Runs -> States] /\ run[s].tree \in Trees
      /\ run[s].terminal \in Trees /\ run[s].noted \in Notes /\ at[r] = "idle"
  BY Given DEF Resume, Sound, Ended, PublicationInv, PublicationTypeOK
<1>2. Manifest(s) \subseteq Paths /\ ManifestBase(s) \in Trees
  BY <1>1, ManifestInPaths
<1>3. PICK note : note = [base |-> ManifestBase(s), tree |-> run[s].terminal,
                          mechanical |-> FALSE, paths |-> Manifest(s)]
  OBVIOUS
<1>4. note \in Notes
  BY <1>1, <1>2, <1>3 DEF Notes
<1>5. PICK k \in DOMAIN Policies :
       run' = [run EXCEPT ![r] = [src |-> s, policy |-> k, head |-> CurrentHead, branch |-> branch,
         tree |-> work, terminal |-> run[s].terminal, final |-> NoTree,
         paths |-> Manifest(s), own |-> run[s].own, commit |-> run[s].commit,
         noted |-> note, reused |-> FALSE, verified |-> FALSE]]
  <2>1. run[s].policy \in 1..3 /\ Len(Policies) = 3 /\ DOMAIN Policies = 1..3
    BY <1>1 DEF States, Policies
  <2>2. PICK k \in run[s].policy..Len(Policies) :
         run' = [run EXCEPT ![r] = [src |-> s, policy |-> k, head |-> CurrentHead, branch |-> branch,
           tree |-> work, terminal |-> run[s].terminal, final |-> NoTree,
           paths |-> Manifest(s), own |-> run[s].own, commit |-> run[s].commit,
           noted |-> [base |-> ManifestBase(s), tree |-> run[s].terminal,
                      mechanical |-> FALSE, paths |-> Manifest(s)],
           reused |-> FALSE, verified |-> FALSE]]
    BY DEF Resume
  <2>3. k \in DOMAIN Policies
    BY <2>1
  <2> QED BY <1>3, <2>2, <2>3
<1>6. PICK rec : rec = [src |-> s, policy |-> k, head |-> CurrentHead, branch |-> branch,
         tree |-> work, terminal |-> run[s].terminal, final |-> NoTree,
         paths |-> Manifest(s), own |-> run[s].own, commit |-> run[s].commit,
         noted |-> note, reused |-> FALSE, verified |-> FALSE]
  OBVIOUS
<1>7. branch \in Branches /\ work \in Trees /\ CurrentHead \in Commits
  BY Given DEF PublicationInv, PublicationTypeOK
<1>8. rec \in States
  BY <1>1, <1>2, <1>4, <1>5, <1>6, <1>7 DEF States, MaybeTree
<1>9. /\ rec.src = s /\ rec.tree \in Trees /\ rec.head \in Commits /\ rec.terminal \in Trees
      /\ rec.noted \in Notes
  BY <1>1, <1>4, <1>6, <1>7
<1>10. run' = [run EXCEPT ![r] = rec]
  BY <1>5, <1>6
<1>11. /\ Go(r, "read") /\ log' = log /\ UNCHANGED <<tip, branch, remote, effort>>
       /\ work' \in Trees /\ index' \in Trees
  BY Given DEF Resume, Repo
<1>12. Sound(rec, "read")'
  BY <1>9, <1>11 DEF Sound, Trying, Pushing, Commits
<1> QED BY <1>1, <1>8, <1>9, <1>10, <1>11, <1>12, Recording DEF Places, Active

------------------------------------------------------------------------------
(* Steps that add a commit, and steps of the operator.                        *)
LEMMA CommitPathsKeeps ==
  ASSUME PublicationInv, NEW r \in Runs, CommitPaths(r)
  PROVE  PublicationInv'
<1>1. PICK c \in Commits : c = CurrentHead
  BY Given
<1>2. PICK n : n = Len(log) + 1
  OBVIOUS
<1>3. PICK S \in SUBSET Paths : S = Delta(r)
  <2>1. run[r].paths \subseteq Paths
    BY Given DEF States
  <2> QED BY <2>1 DEF Delta
<1>4. PICK from \in Trees : from = work
  BY Given
<1>5. log' = Append(log, Committed(c, S, from))
  BY <1>1, <1>3, <1>4 DEF CommitPaths
<1>6. /\ log' \in Seq(Record) /\ Commits \subseteq Commits' /\ n \in Commits'
      /\ (\A d \in Commits : Past(d)' = Past(d)) /\ HistoryOK'
  BY <1>2, <1>5, HistoryGrows
<1>7. /\ tip \in [Branches -> Commits] /\ branch \in Branches /\ remote \in Commits
      /\ at \in [Runs -> Places] /\ effort \in [{"work", "advance"} -> Nat]
  BY DEF PublicationInv, PublicationTypeOK
<1>8. /\ tip' = [tip EXCEPT ![branch] = n] /\ run' = run /\ remote' = remote /\ branch' = branch
      /\ work' = work /\ effort' = effort /\ at' = [at EXCEPT ![r] = "readback"] /\ at[r] = "commit"
  BY <1>2 DEF CommitPaths, Go
<1>9. index' \in Trees
  BY Given DEF CommitPaths, Trees
<1>10. tip' \in [Branches -> Commits'] /\ Past(remote)' = Past(remote)
  BY <1>6, <1>7, <1>8
<1>11. RunsSound'
  <2> SUFFICES ASSUME NEW q \in Runs PROVE Sound(run[q], at[q])'
    BY DEF RunsSound
  <2>1. Sound(run[q], at[q]) /\ run'[q] = run[q] /\ at'[q] = IF q = r THEN "readback" ELSE at[q]
    BY <1>7, <1>8, Given
  <2> QED BY <2>1, <1>6, <1>8, <1>10 DEF Sound, Trying, Pushing
<1>12. SourcesOK'
  BY <1>8 DEF PublicationInv, SourcesOK
<1>13. PublicationTypeOK'
  <2>1. States \subseteq States'
    BY <1>6 DEF States
  <2>2. run' \in [Runs -> States']
    BY <2>1, <1>8 DEF PublicationInv, PublicationTypeOK
  <2>3. at' \in [Runs -> Places] /\ work' \in Trees
    BY <1>7, <1>8, Given DEF Places, Active
  <2>4. branch' \in Branches /\ remote' \in Commits' /\ effort' \in [{"work", "advance"} -> Nat]
    BY <1>6, <1>7, <1>8
  <2> QED BY <1>6, <1>9, <1>10, <2>2, <2>3, <2>4 DEF PublicationTypeOK, Record
<1> QED BY <1>6, <1>11, <1>12, <1>13 DEF PublicationInv

LEMMA SpendKeeps ==
  ASSUME PublicationInv, NEW w \in {"work", "advance"}, Spend(w)
  PROVE  effort' \in [{"work", "advance"} -> Nat]
  BY DEF PublicationInv, PublicationTypeOK, Spend

(* Steps that change the worktree, the index or the branch only.              *)
LEMMA OperatorMoves ==
  ASSUME PublicationInv, UNCHANGED <<log, tip, remote, run, at>>, branch' \in Branches,
         work' \in Trees, index' \in Trees, effort' \in [{"work", "advance"} -> Nat]
  PROVE  PublicationInv'
<1>1. log' \in Seq(Record) /\ Commits' = Commits /\ (\A d \in Commits : Past(d)' = Past(d)) /\ HistoryOK'
  BY DEF PublicationInv, PublicationTypeOK, Record, Commits, Past, HistoryOK
<1>2. /\ tip' \in [Branches -> Commits'] /\ remote' \in Commits' /\ Past(remote) \subseteq Past(remote)'
  BY <1>1 DEF PublicationInv, PublicationTypeOK
<1> QED BY <1>1, <1>2, RepositoryMoves

LEMMA EditKeeps ==
  ASSUME PublicationInv, NEW p \in Paths, Edit(p) \/ StageOwn(p) \/ Unstage(p)
  PROVE  PublicationInv'
<1>1. effort' \in [{"work", "advance"} -> Nat]
  BY SpendKeeps DEF Edit, StageOwn, Unstage
<1>2. branch' \in Branches /\ UNCHANGED <<log, tip, remote, run, at>>
  BY DEF Edit, StageOwn, Unstage, PublicationInv, PublicationTypeOK
<1>3. CASE Edit(p)
  <2>1. PICK e \in Edits : work' = [work EXCEPT ![p] = e]
    BY <1>3 DEF Edit
  <2>2. work' \in Trees
    BY <2>1, Given DEF Trees, Contents, PublicationInv, PublicationTypeOK
  <2>3. index' \in Trees
    BY <1>3 DEF Edit, PublicationInv, PublicationTypeOK
  <2> QED BY <1>1, <1>2, <2>2, <2>3, OperatorMoves
<1>4. CASE StageOwn(p)
  <2>1. work' \in Trees /\ index' \in Trees
    BY <1>4 DEF StageOwn, Trees, PublicationInv, PublicationTypeOK
  <2> QED BY <1>1, <1>2, <2>1, OperatorMoves
<1>5. CASE Unstage(p)
  <2>1. HeadTree \in Trees
    BY Given, PublicationAssumption
  <2>2. work' \in Trees /\ index' \in Trees
    BY <1>5, <2>1 DEF Unstage, Trees, PublicationInv, PublicationTypeOK
  <2> QED BY <1>1, <1>2, <2>2, OperatorMoves
<1> QED BY <1>3, <1>4, <1>5

LEMMA CommitOwnKeeps ==
  ASSUME PublicationInv, NEW p \in Paths, CommitOwn(p)
  PROVE  PublicationInv'
<1>1. PICK c \in Commits : c = CurrentHead
  BY Given, PublicationAssumption
<1>2. PICK n : n = Len(log) + 1
  OBVIOUS
<1>3. PICK from \in Trees : from = work
  BY DEF PublicationInv, PublicationTypeOK
<1>4. log' = Append(log, Committed(c, {p}, from))
  BY <1>1, <1>3 DEF CommitOwn
<1>5. /\ log' \in Seq(Record) /\ Commits \subseteq Commits' /\ n \in Commits'
      /\ (\A d \in Commits : Past(d)' = Past(d)) /\ HistoryOK'
  BY <1>2, <1>4, HistoryGrows
<1>6. /\ tip \in [Branches -> Commits] /\ branch \in Branches /\ remote \in Commits
  BY DEF PublicationInv, PublicationTypeOK
<1>7. /\ tip' = [tip EXCEPT ![branch] = n] /\ run' = run /\ remote' = remote /\ branch' = branch
      /\ work' = work /\ at' = at
  BY <1>2 DEF CommitOwn
<1>8. work' \in Trees /\ index' \in Trees
  BY <1>7 DEF CommitOwn, Trees, PublicationInv, PublicationTypeOK
<1>9. tip' \in [Branches -> Commits'] /\ Past(remote) \subseteq Past(remote)' /\ remote' \in Commits'
  BY <1>5, <1>6, <1>7
<1>10. effort' \in [{"work", "advance"} -> Nat]
  BY SpendKeeps DEF CommitOwn
<1> QED BY <1>5, <1>6, <1>7, <1>8, <1>9, <1>10, RepositoryMoves

LEMMA AdvanceKeeps ==
  ASSUME PublicationInv, NEW p \in Paths, Advance(p)
  PROVE  PublicationInv'
<1>1. PICK c \in Commits : c = remote
  BY DEF PublicationInv, PublicationTypeOK
<1>2. PICK n : n = Len(log) + 1
  OBVIOUS
<1>3. PICK from \in Trees : from = [q \in Paths |-> "other"]
  BY DEF Trees, Contents
<1>4. log' = Append(log, Committed(c, {p}, from))
  BY <1>1, <1>3 DEF Advance
<1>5. /\ log' \in Seq(Record) /\ Commits \subseteq Commits' /\ n \in Commits'
      /\ (\A d \in Commits : Past(d)' = Past(d)) /\ HistoryOK' /\ Past(n)' = Past(c) \cup {n}
  BY <1>2, <1>4, HistoryGrows
<1>6. tip \in [Branches -> Commits] /\ branch \in Branches /\ work \in Trees /\ index \in Trees
  BY DEF PublicationInv, PublicationTypeOK
<1>7. UNCHANGED <<tip, branch, work, index, run, at>> /\ remote' = n
  BY <1>2 DEF Advance
<1>8. /\ tip' \in [Branches -> Commits'] /\ remote' \in Commits' /\ branch' \in Branches
      /\ work' \in Trees /\ index' \in Trees
  BY <1>5, <1>6, <1>7
<1>9. Past(remote) \subseteq Past(remote)'
  <2>1. Past(remote)' = Past(n)'
    BY <1>7 DEF Past
  <2> QED BY <1>1, <1>5, <2>1
<1>10. effort' \in [{"work", "advance"} -> Nat]
  BY SpendKeeps DEF Advance
<1> QED BY <1>5, <1>7, <1>8, <1>9, <1>10, RepositoryMoves

LEMMA SwitchKeeps ==
  ASSUME PublicationInv, NEW b \in Branches, Switch(b)
  PROVE  PublicationInv'
<1>1. tip[b] \in Commits /\ log \in Seq(Record)
  BY DEF PublicationInv, PublicationTypeOK, Record
<1>2. PICK there : there = log[tip[b]].tree
  OBVIOUS
<1>3. there \in Trees
  <2>1. log[tip[b]] \in Record
    BY <1>1 DEF Commits
  <2> QED BY <1>2, <2>1 DEF Record
<1>4. work' \in Trees /\ index' \in Trees
  <2>1. /\ work'  = [p \in Paths |-> IF p \in Dirty THEN work[p] ELSE there[p]]
        /\ index' = [p \in Paths |-> IF p \in Dirty THEN index[p] ELSE there[p]]
    BY <1>2 DEF Switch
  <2> QED BY <1>3, <2>1 DEF Trees, PublicationInv, PublicationTypeOK
<1>5. UNCHANGED <<log, tip, remote, run, at>> /\ branch' \in Branches
  BY DEF Switch
<1>6. effort' \in [{"work", "advance"} -> Nat]
  BY SpendKeeps DEF Switch
<1> QED BY <1>4, <1>5, <1>6, OperatorMoves

------------------------------------------------------------------------------
LEMMA FinalizeKeeps ==
  ASSUME PublicationInv, NEW r \in Runs, Finalize(r)
  PROVE  PublicationInv'
<1>1. CASE ReadTreeFails(r) \/ ReuseFails(r) \/ VerifyFails(r) \/ GitFails(r)
  BY <1>1, FailingKeeps DEF ReadTreeFails, ReuseFails, VerifyFails, GitFails, Active
<1>2. CASE Enter(r) \/ Produce(r) \/ ReadTree(r) \/ Decide(r) \/ DecideAttention(r)
  BY <1>2, EnterKeeps, ProduceKeeps, ReadTreeKeeps, DecideKeeps, AttentionKeeps
<1>3. CASE Reuse(r) \/ Stage(r) \/ CommitPaths(r) \/ ReadBack(r) \/ Verify(r)
  BY <1>3, ReuseKeeps, StageKeeps, CommitPathsKeeps, ReadBackKeeps, VerifyKeeps
<1>4. CASE PushTarget(r) \/ PushCommit(r) \/ PushRejected(r) \/ PostQuery(r)
  BY <1>4, PushTargetKeeps, PushCommitKeeps, PushRejectedKeeps, PostQueryKeeps
<1>5. CASE CaptureFailure(r) \/ Killed(r)
  BY <1>5, CaptureKeeps, KilledKeeps
<1> QED BY <1>1, <1>2, <1>3, <1>4, <1>5 DEF Finalize

(* The invariant holds in every reachable state.                              *)
THEOREM PublicationInvariant == PublicationSpec => []PublicationInv
<1>1. PublicationInv /\ [PublicationNext]_publicationVars => PublicationInv'
  <2> SUFFICES ASSUME PublicationInv, [PublicationNext]_publicationVars PROVE PublicationInv'
    OBVIOUS
  <2>1. CASE \E r \in Runs : Finalize(r)
    BY <2>1, FinalizeKeeps
  <2>2. CASE \E r, s \in Runs : Resume(r, s)
    BY <2>2, ResumeKeeps
  <2>3. CASE \E p \in Paths : Operate(p)
    BY <2>3, EditKeeps, CommitOwnKeeps, AdvanceKeeps DEF Operate
  <2>4. CASE \E b \in Branches : Switch(b)
    BY <2>4, SwitchKeeps
  <2>5. CASE UNCHANGED publicationVars
    <3>1. /\ UNCHANGED <<log, tip, remote, run, at>> /\ branch' \in Branches
          /\ work' \in Trees /\ index' \in Trees /\ effort' \in [{"work", "advance"} -> Nat]
      BY <2>5 DEF publicationVars, PublicationInv, PublicationTypeOK
    <3> QED BY <3>1, OperatorMoves
  <2> QED BY <2>1, <2>2, <2>3, <2>4, <2>5 DEF PublicationNext
<1> QED BY <1>1, InitialInv, PTL DEF PublicationSpec

(* Every variable keeps its type, for any runs, paths, branches and bounds.   *)
THEOREM PublicationTypeCorrect == PublicationSpec => []PublicationTypeOK
  BY PublicationInvariant, PTL DEF PublicationInv

(* A commit that a run reports as published is in the upstream's history then *)
(* and ever after, whatever answers are lost and whoever else pushes.         *)
THEOREM PublishedCommitsStay == PublicationSpec => []PublishedIsThere
<1>1. PublicationInv => PublishedIsThere
  BY DEF PublicationInv, RunsSound, Sound, Pushing, PublishedIsThere
<1> QED BY <1>1, PublicationInvariant, PTL

------------------------------------------------------------------------------
(* What is reported is the candidate: what each run knows of it. The run that *)
(* performed the phase settles the candidate when its providers end; whatever *)
(* it notes as the phase's, while the worktree is the terminal one, is that.  *)
Terminal == run[First].terminal
Base     == run[First].tree

FirstOK ==
  /\ run[First].src = NoRun
  /\ at[First] \in {"idle", "work"} =>
       run[First].terminal = NoTree /\ run[First].noted = NoTree /\ run[First].own = NoTree
  /\ run[First].paths \in {{}, Candidate}
  /\ run[First].own \in {NoTree, Base}
  /\ at[First] \notin {"idle", "work", "dead"} =>
       (Overlap(First) = {} /\ run[First].noted.tree = Terminal =>
          run[First].noted.paths = Candidate)

(* A direct retry inherits the candidate of a run that has ended.             *)
RetryOK(r) ==
  run[r].src = First =>
    run[r].terminal = Terminal /\ run[r].paths = Candidate /\ run[r].own \in {NoTree, Base}

(* A run that read the tree found the candidate in it, and owns it.           *)
ReadOK(r) ==
  run[r].final # NoTree /\ FirstHand(r) =>
    /\ run[r].paths = Candidate /\ run[r].own = Base /\ run[r].own # NoTree
    /\ \A p \in Candidate : run[r].final[p] = Terminal[p]

(* Only a verified commit goes on, and it stays what was verified.            *)
VerifiedOK(r) ==
  /\ at[r] = "reuse" => Resumed(r)
  /\ at[r] \in Pushing \cup {"committed"} => run[r].verified
  /\ at[r] \in {"idle", "work", "read"} => run[r].final = NoTree
  /\ run[r].verified =>
       /\ at[r] \in Pushing \cup {"committed", "failing", "blocked", "dead"}
       /\ run[r].final \in Trees /\ run[r].commit \in Commits /\ run[r].head \in Commits
       /\ IF run[r].reused
          THEN /\ run[r].src \in Runs /\ run[run[r].src].head \in Commits
               /\ Exact(run[r].commit, run[run[r].src].head, run[r].paths, run[r].final)
          ELSE Exact(run[r].commit, run[r].head, Delta(r), run[r].final)

(* What a blocked run notes, and that the source of a run has ended.          *)
BlockedOK(r) ==
  at[r] = "blocked" =>
    /\ run[r].noted.base = OwnBase(r)
    /\ run[r].noted.paths = run[r].paths \cup (Changed(run[r].tree, run[r].noted.tree) \ EntryDirt(r))
SourceOK(r) ==
  IF run[r].src = NoRun THEN r = First \/ at[r] = "idle"
  ELSE at[run[r].src] \in Ended /\ at[r] \notin {"idle", "work"}

RunOK(r) == RetryOK(r) /\ ReadOK(r) /\ VerifiedOK(r) /\ BlockedOK(r) /\ SourceOK(r)
CandidateInv == FirstOK /\ \A r \in Runs : RunOK(r)

(* Commits are only added.                                                    *)
Grows == Commits \subseteq Commits' /\ \A d \in Commits : log'[d] = log[d]

(* A step of the run r, or, with no such run, of the repository.              *)
Alone(r) == Grows /\ \A q \in Runs \ {r} : run'[q] = run[q] /\ at'[q] = at[q]

LEMMA NoTreeIsNoTree == NoTree \notin Trees
  BY PublicationAssumption DEF NoTree, Trees

(* What a run knows stays true while its record and its source's stay.        *)
LEMMA StaysOK ==
  ASSUME PublicationInv, CandidateInv, NEW q \in Runs, Grows,
         run'[q] = run[q], at'[q] = at[q],
         run[q].src \in Runs => run'[run[q].src] = run[run[q].src] /\ at'[run[q].src] = at[run[q].src],
         run'[First] = run[First] \/ (q # First /\ run[q].src # First)
  PROVE  RunOK(q)'
<1> DEFINE s == run[q].src
<1>1. RunOK(q) /\ run[q] \in States /\ Sound(run[q], at[q]) /\ s \in Runs \cup {NoRun}
  BY Given DEF CandidateInv, States
<1>2. run'[First] = run[First] => Terminal' = Terminal /\ Base' = Base /\ Candidate' = Candidate
  BY DEF Terminal, Base, Candidate, Changed
<1>3. RetryOK(q)'
  BY <1>1, <1>2 DEF RunOK, RetryOK
<1>4. ReadOK(q)'
  <2>1. CASE run'[First] = run[First]
    BY <1>1, <1>2, <2>1 DEF RunOK, ReadOK, FirstHand
  <2>2. CASE q # First /\ s # First
    BY <1>1, <2>2 DEF RunOK, ReadOK, FirstHand, SourceOK, VerifiedOK
  <2> QED BY <2>1, <2>2
<1>5. \A c, d \in Commits : log'[c] = log[c] /\ log'[d] = log[d] /\ c \in Commits'
  BY DEF Grows
<1>6. run[q].head \in Commits => Delta(q)' = Delta(q) /\ EntryDirt(q)' = EntryDirt(q)
  BY <1>5 DEF Delta, EntryDirt, Changed
<1>7. \A c, d \in Commits : \A S, f : Exact(c, d, S, f) => Exact(c, d, S, f)'
  BY <1>5 DEF Exact, Changed
<1>8. VerifiedOK(q)'
  <2>1. VerifiedOK(q)
    BY <1>1 DEF RunOK
  <2>2. /\ at[q] = "reuse" => Resumed(q)'
        /\ at[q] \in Pushing \cup {"committed"} => run[q].verified
        /\ at[q] \in {"idle", "work", "read"} => run[q].final = NoTree
    BY <2>1 DEF VerifiedOK, Resumed
  <2>3. ASSUME run[q].verified
        PROVE  /\ at[q] \in Pushing \cup {"committed", "failing", "blocked", "dead"}
               /\ run[q].final \in Trees /\ run[q].commit \in Commits /\ run[q].head \in Commits
               /\ IF run[q].reused
                  THEN /\ s \in Runs /\ run[s].head \in Commits
                       /\ Exact(run[q].commit, run[s].head, run[q].paths, run[q].final)
                  ELSE Exact(run[q].commit, run[q].head, Delta(q), run[q].final)
    BY <2>1, <2>3 DEF VerifiedOK
  <2>4. ASSUME run[q].verified, run[q].reused
        PROVE  Exact(run[q].commit, run[s].head, run[q].paths, run[q].final)'
    BY <2>3, <2>4, <1>7
  <2>5. ASSUME run[q].verified, ~run[q].reused
        PROVE  Exact(run[q].commit, run[q].head, Delta(q), run[q].final)'
    BY <2>3, <2>5, <1>6, <1>7
  <2> QED BY <2>2, <2>3, <2>4, <2>5, <1>5 DEF VerifiedOK
<1>9. BlockedOK(q)'
  BY <1>1, <1>6 DEF RunOK, BlockedOK, OwnBase, Resumed, Sound, Changed
<1>10. SourceOK(q)'
  BY <1>1 DEF RunOK, SourceOK
<1> QED BY <1>3, <1>4, <1>8, <1>9, <1>10 DEF RunOK

(* The run that acts has not ended, so that it is no other's source.          *)
LEMMA OthersOK ==
  ASSUME PublicationInv, CandidateInv, NEW r \in Runs, Alone(r), at[r] \notin Ended,
         NEW q \in Runs \ {r}
  PROVE  RunOK(q)'
<1>1. SourceOK(q) /\ run[q].src \in Runs \cup {NoRun} /\ First \in Runs
  BY Given, PublicationAssumption DEF CandidateInv, RunOK, States
<1>2. run[q].src \in Runs => run[q].src # r
  BY <1>1, PublicationAssumption DEF SourceOK
<1>3. (q # First /\ run[q].src # First) \/ run'[First] = run[First]
  BY <1>1, <1>2 DEF Alone
<1> QED BY <1>2, <1>3, StaysOK DEF Alone

(* The run of the phase keeps what it settled while others act.               *)
LEMMA FirstStays ==
  ASSUME PublicationInv, CandidateInv, Grows, run'[First] = run[First], at'[First] = at[First]
  PROVE  FirstOK'
<1>1. FirstOK /\ Sound(run[First], at[First])
  BY Given, PublicationAssumption DEF CandidateInv
<1>2. Terminal' = Terminal /\ Base' = Base /\ Candidate' = Candidate
  BY DEF Terminal, Base, Candidate, Changed
<1>3. at[First] # "idle" => Overlap(First)' = Overlap(First)
  <2>1. at[First] # "idle" => EntryDirt(First)' = EntryDirt(First)
    BY <1>1 DEF Sound, EntryDirt, Changed, Grows
  <2> QED BY <2>1 DEF Overlap, Resumed, Changed
<1> QED BY <1>1, <1>2, <1>3 DEF FirstOK

(* A step of the repository disturbs nothing that a run knows.                *)
LEMMA RepositoryStays ==
  ASSUME PublicationInv, CandidateInv, Grows, run' = run, at' = at
  PROVE  CandidateInv'
<1>1. FirstOK'
  BY FirstStays
<1>2. \A q \in Runs : RunOK(q)'
  BY StaysOK
<1> QED BY <1>1, <1>2 DEF CandidateInv

(* A step of a run that keeps its record, but for the commit that it names.   *)
LEMMA MovesOK ==
  ASSUME PublicationInv, CandidateInv, NEW r \in Runs, NEW p \in Places, Alone(r),
         at[r] \in Active, at' = [at EXCEPT ![r] = p],
         p \notin {"idle", "work", "read", "blocked"},
         /\ run'[r].src = run[r].src /\ run'[r].head = run[r].head /\ run'[r].tree = run[r].tree
         /\ run'[r].terminal = run[r].terminal /\ run'[r].final = run[r].final
         /\ run'[r].paths = run[r].paths /\ run'[r].own = run[r].own
         /\ run'[r].noted = run[r].noted /\ run'[r].reused = run[r].reused
         /\ run'[r].verified = run[r].verified,
         p = "reuse" => Resumed(r), p \in Pushing \cup {"committed"} => run[r].verified,
         run[r].verified =>
           run'[r].commit = run[r].commit /\ p \in Pushing \cup {"committed", "failing", "dead"},
         at[r] = "work" => p = "dead"
  PROVE  CandidateInv'
<1> DEFINE s == run[r].src
<1>1. /\ RunOK(r) /\ FirstOK /\ run[r] \in States /\ Sound(run[r], at[r]) /\ s \in Runs \cup {NoRun}
      /\ at'[r] = p /\ Grows
  BY Given DEF CandidateInv, States, Alone, PublicationInv, PublicationTypeOK
<1>2. s \in Runs => s # r /\ run'[s] = run[s] /\ at'[s] = at[s]
  BY <1>1, PublicationAssumption DEF RunOK, SourceOK, Alone, Active, Ended
<1>3. Terminal' = Terminal /\ Base' = Base /\ Candidate' = Candidate
  <2>1. run'[First].terminal = run[First].terminal /\ run'[First].tree = run[First].tree
    BY PublicationAssumption DEF Alone
  <2> QED BY <2>1 DEF Terminal, Base, Candidate, Changed
<1>4. \A c \in Commits : log'[c] = log[c] /\ c \in Commits'
  BY <1>1 DEF Grows
<1>5. run[r].head \in Commits => Delta(r)' = Delta(r) /\ EntryDirt(r)' = EntryDirt(r)
  BY <1>4 DEF Delta, EntryDirt, Changed
<1>6. run[r].head \in Commits
  BY <1>1 DEF Sound, Active
<1>7. FirstOK'
  <2>1. CASE r # First
    BY <2>1, <1>1, FirstStays, PublicationAssumption DEF Alone
  <2>2. CASE r = First
    <3>1. Overlap(First)' = Overlap(First)
      BY <2>2, <1>5, <1>6 DEF Overlap, Resumed, Changed
    <3> QED BY <2>2, <3>1, <1>1, <1>3 DEF FirstOK, Active
  <2> QED BY <2>1, <2>2
<1>8. RetryOK(r)' /\ ReadOK(r)' /\ BlockedOK(r)'
  BY <1>1, <1>3 DEF RunOK, RetryOK, ReadOK, BlockedOK, FirstHand
<1>9. SourceOK(r)'
  BY <1>1, <1>2 DEF RunOK, SourceOK, Active
<1>10. VerifiedOK(r)'
  <2>1. VerifiedOK(r)
    BY <1>1 DEF RunOK
  <2>2. /\ p = "reuse" => Resumed(r)'
        /\ p \notin {"idle", "work", "read"}
    BY DEF Resumed
  <2>3. ASSUME run[r].verified
        PROVE  /\ run[r].final \in Trees /\ run[r].commit \in Commits /\ run[r].head \in Commits
               /\ IF run[r].reused
                  THEN /\ s \in Runs /\ run[s].head \in Commits
                       /\ Exact(run[r].commit, run[s].head, run[r].paths, run[r].final)
                  ELSE Exact(run[r].commit, run[r].head, Delta(r), run[r].final)
    BY <2>1, <2>3 DEF VerifiedOK
  <2>4. \A c, d \in Commits : \A S, f : Exact(c, d, S, f) => Exact(c, d, S, f)'
    BY <1>4 DEF Exact, Changed
  <2>5. ASSUME run[r].verified, run[r].reused
        PROVE  /\ s \in Runs /\ run'[s].head \in Commits'
               /\ Exact(run[r].commit, run[s].head, run[r].paths, run[r].final)'
    BY <2>3, <2>4, <2>5, <1>2, <1>4
  <2>6. ASSUME run[r].verified, ~run[r].reused
        PROVE  Exact(run[r].commit, run[r].head, Delta(r), run[r].final)'
    BY <2>3, <2>4, <2>6, <1>5
  <2> QED BY <2>2, <2>3, <2>5, <2>6, <1>1, <1>4 DEF VerifiedOK
<1>11. \A q \in Runs \ {r} : RunOK(q)'
  BY OthersOK DEF Active, Ended
<1> QED BY <1>7, <1>8, <1>9, <1>10, <1>11 DEF CandidateInv, RunOK

(* A step that changes the place of a run and nothing else.                   *)
LEMMA GoesOK ==
  ASSUME PublicationInv, CandidateInv, NEW r \in Runs, NEW p \in Places, Grows,
         at[r] \in Active, run' = run, at' = [at EXCEPT ![r] = p],
         p \notin {"idle", "work", "read", "blocked"},
         p = "reuse" => Resumed(r), p \in Pushing \cup {"committed"} => run[r].verified,
         run[r].verified => p \in Pushing \cup {"committed", "failing", "dead"},
         at[r] = "work" => p = "dead"
  PROVE  CandidateInv'
<1>1. Alone(r)
  BY DEF Alone, PublicationInv, PublicationTypeOK
<1> QED BY <1>1, MovesOK

(* The steps that only move on, or that note a commit that is not verified.   *)
LEMMA FailingOK ==
  ASSUME PublicationInv, CandidateInv, NEW r \in Runs, Goto(r, "failing"),
         at[r] \in Active \ {"work"}
  PROVE  CandidateInv'
<1>1. Grows /\ run' = run /\ at' = [at EXCEPT ![r] = "failing"]
  BY DEF Goto, Go, Repo, Grows, Commits
<1> QED BY <1>1, GoesOK DEF Places, Active, Pushing

LEMMA KilledOK ==
  ASSUME PublicationInv, CandidateInv, NEW r \in Runs, Killed(r)
  PROVE  CandidateInv'
<1>1. Grows /\ run' = run /\ at' = [at EXCEPT ![r] = "dead"]
  BY DEF Killed, Goto, Go, Repo, Grows, Commits
<1> QED BY <1>1, GoesOK DEF Killed, Places, Pushing

(* From the push on, the commit of a run is verified.                         *)
LEMMA PushingOK ==
  ASSUME PublicationInv, CandidateInv, NEW r \in Runs, Grows, run' = run,
         at[r] \in Pushing \ {"published"},
         NEW p \in Pushing \cup {"failing"}, at' = [at EXCEPT ![r] = p]
  PROVE  CandidateInv'
<1>1. run[r].verified
  BY DEF CandidateInv, RunOK, VerifiedOK
<1>2. p \in Places /\ p \notin {"idle", "work", "read", "blocked", "reuse"}
  BY DEF Pushing, Places, Active, Ended
<1>3. at[r] \in Active /\ at[r] # "work"
  BY DEF Pushing, Active
<1> QED BY <1>1, <1>2, <1>3, GoesOK

LEMMA StageOK ==
  ASSUME PublicationInv, CandidateInv, NEW r \in Runs, Stage(r) \/ CommitPaths(r)
  PROVE  CandidateInv'
<1>1. PICK p \in {"commit", "readback"} : at' = [at EXCEPT ![r] = p]
  BY DEF Stage, CommitPaths, Go
<1>2. at[r] \in Active \ {"work"} /\ run' = run /\ ~run[r].verified
  BY DEF Stage, CommitPaths, Active, CandidateInv, RunOK, VerifiedOK, Pushing
<1>3. Grows
  <2>1. CASE Stage(r)
    BY <2>1 DEF Stage, Grows, Commits
  <2>2. CASE CommitPaths(r)
    <3>1. CurrentHead \in Commits /\ work \in Trees /\ Delta(r) \in SUBSET Paths
      BY Given DEF Delta, States
    <3>2. log' = Append(log, Committed(CurrentHead, Delta(r), work))
      BY <2>2 DEF CommitPaths
    <3>3. PICK c \in Commits, S \in SUBSET Paths, from \in Trees :
            log' = Append(log, Committed(c, S, from))
      BY <3>1, <3>2
    <3> QED BY <3>3, HistoryGrows DEF Grows
  <2> QED BY <2>1, <2>2
<1>4. p \in Places /\ p \notin {"idle", "work", "read", "blocked", "reuse", "committed"} \cup Pushing
  BY DEF Places, Active, Pushing
<1> QED BY <1>1, <1>2, <1>3, <1>4, GoesOK

LEMMA PushOK ==
  ASSUME PublicationInv, CandidateInv, NEW r \in Runs,
         PushTarget(r) \/ PushCommit(r) \/ PushRejected(r) \/ PostQuery(r)
  PROVE  CandidateInv'
<1>1. /\ run' = run /\ log' = log /\ at[r] \in Pushing \ {"published"}
      /\ \E p \in Pushing \cup {"failing"} : at' = [at EXCEPT ![r] = p]
  <2>1. CASE PushTarget(r)
    BY <2>1 DEF PushTarget, Goto, Go, Repo, Pushing
  <2>2. CASE PushCommit(r)
    BY <2>2 DEF PushCommit, Go, Pushing
  <2>3. CASE PushRejected(r)
    BY <2>3 DEF PushRejected, Goto, Go, Repo, Pushing
  <2>4. CASE PostQuery(r)
    BY <2>4 DEF PostQuery, Goto, Go, Repo, Pushing
  <2> QED BY <2>1, <2>2, <2>3, <2>4
<1>2. Grows
  BY <1>1 DEF Grows, Commits
<1> QED BY <1>1, <1>2, PushingOK

(* A run decides, or reads back what it committed, before it verifies.        *)
LEMMA NotingOK ==
  ASSUME PublicationInv, CandidateInv, NEW r \in Runs,
         Decide(r) \/ DecideAttention(r) \/ ReadBack(r)
  PROVE  CandidateInv'
<1>1. /\ run[r] \in States /\ run \in [Runs -> States] /\ at \in [Runs -> Places]
      /\ log' = log /\ at[r] \in {"decide", "readback"} /\ ~run[r].verified
  BY Given DEF Decide, DecideAttention, ReadBack, Repo, PublicationInv, PublicationTypeOK,
     CandidateInv, RunOK, VerifiedOK, Pushing
<1>2. \E c : run' = [run EXCEPT ![r].commit = c] \/ run' = run
  BY DEF Decide, DecideAttention, ReadBack
<1>3. /\ \A q \in Runs \ {r} : run'[q] = run[q]
      /\ run'[r].src = run[r].src /\ run'[r].head = run[r].head /\ run'[r].tree = run[r].tree
      /\ run'[r].terminal = run[r].terminal /\ run'[r].final = run[r].final
      /\ run'[r].paths = run[r].paths /\ run'[r].own = run[r].own
      /\ run'[r].noted = run[r].noted /\ run'[r].reused = run[r].reused
      /\ run'[r].verified = run[r].verified
  BY <1>1, <1>2 DEF States
<1>4. PICK p : /\ at' = [at EXCEPT ![r] = p]
               /\ p \in {"manager", "checkpoint", "failing", "reuse", "empty", "stage", "verify"}
               /\ p = "reuse" => Resumed(r)
  <2>1. CASE Decide(r)
    BY <2>1 DEF Decide, Go, Course, Replay
  <2>2. CASE DecideAttention(r) \/ ReadBack(r)
    BY <2>2 DEF DecideAttention, ReadBack, Go
  <2> QED BY <2>1, <2>2
<1>5. Alone(r)
  BY <1>1, <1>3, <1>4 DEF Alone, Grows, Commits
<1>6. p \in Places /\ p \notin {"idle", "work", "read", "blocked", "committed"} \cup Pushing
  BY <1>4 DEF Places, Active, Ended, Pushing
<1>7. at[r] \in Active /\ at[r] # "work"
  BY <1>1 DEF Active
<1> QED BY <1>1, <1>3, <1>4, <1>5, <1>6, <1>7, MovesOK

(* A run verifies the commit it goes on with.                                 *)
LEMMA CommitVerified ==
  ASSUME PublicationInv, CandidateInv, NEW r \in Runs, NEW reused \in BOOLEAN,
         Verified(r, reused), at[r] \in {"reuse", "verify"}, run[r].commit \in Commits,
         IF reused
         THEN /\ run[r].src \in Runs /\ run[run[r].src].head \in Commits
              /\ Exact(run[r].commit, run[run[r].src].head, run[r].paths, run[r].final)
         ELSE Exact(run[r].commit, run[r].head, Delta(r), run[r].final)
  PROVE  CandidateInv'
<1> DEFINE s == run[r].src
<1>1. /\ RunOK(r) /\ FirstOK /\ run[r] \in States /\ Sound(run[r], at[r]) /\ s \in Runs \cup {NoRun}
      /\ run \in [Runs -> States] /\ at \in [Runs -> Places] /\ log' = log
  BY Given DEF CandidateInv, States, PublicationInv, PublicationTypeOK, Verified, Repo
<1>2. PICK p \in {"committed", "target"} : at' = [at EXCEPT ![r] = p]
  BY DEF Verified, Onward, Go
<1>3. run' = [run EXCEPT ![r] = [@ EXCEPT !.verified = TRUE, !.reused = reused]]
  BY DEF Verified
<1>4. /\ \A q \in Runs \ {r} : run'[q] = run[q]
      /\ run'[r].src = s /\ run'[r].head = run[r].head /\ run'[r].tree = run[r].tree
      /\ run'[r].terminal = run[r].terminal /\ run'[r].final = run[r].final
      /\ run'[r].paths = run[r].paths /\ run'[r].own = run[r].own
      /\ run'[r].noted = run[r].noted /\ run'[r].commit = run[r].commit
      /\ run'[r].verified = TRUE /\ run'[r].reused = reused
  BY <1>1, <1>3 DEF States
<1>5. Grows /\ Alone(r) /\ at'[r] = p /\ Commits' = Commits
  BY <1>1, <1>2, <1>4 DEF Grows, Commits, Alone
<1>6. s \in Runs => s # r /\ run'[s] = run[s] /\ at'[s] = at[s]
  BY <1>1, <1>5, PublicationAssumption DEF RunOK, SourceOK, Alone, Ended
<1>7. Terminal' = Terminal /\ Base' = Base /\ Candidate' = Candidate
  <2>1. run'[First].terminal = run[First].terminal /\ run'[First].tree = run[First].tree
    BY <1>4, PublicationAssumption
  <2> QED BY <2>1 DEF Terminal, Base, Candidate, Changed
<1>8. Delta(r)' = Delta(r) /\ EntryDirt(r)' = EntryDirt(r)
  BY <1>1, <1>4 DEF Delta, EntryDirt, Changed
<1>9. FirstOK'
  <2>1. CASE r # First
    BY <2>1, <1>5, FirstStays, PublicationAssumption DEF Alone
  <2>2. CASE r = First
    <3>1. Overlap(First)' = Overlap(First)
      BY <2>2, <1>4, <1>8 DEF Overlap, Resumed, Changed
    <3> QED BY <2>2, <3>1, <1>1, <1>2, <1>4, <1>5, <1>7 DEF FirstOK
  <2> QED BY <2>1, <2>2
<1>10. RetryOK(r)' /\ ReadOK(r)' /\ BlockedOK(r)'
  BY <1>1, <1>2, <1>4, <1>5, <1>7 DEF RunOK, RetryOK, ReadOK, BlockedOK, FirstHand
<1>11. SourceOK(r)'
  BY <1>1, <1>2, <1>4, <1>5, <1>6 DEF RunOK, SourceOK
<1>12. VerifiedOK(r)'
  <2>1. /\ run'[r].final \in Trees /\ run'[r].commit \in Commits /\ run'[r].head \in Commits
    BY <1>1, <1>4 DEF Sound, Trying
  <2>2. \A c, d, S, f : Exact(c, d, S, f)' <=> Exact(c, d, S, f)
    BY <1>1 DEF Exact, Changed
  <2>3. CASE reused
    BY <2>1, <2>2, <2>3, <1>2, <1>4, <1>5, <1>6 DEF VerifiedOK, Pushing
  <2>4. CASE ~reused
    BY <2>1, <2>2, <2>4, <1>2, <1>4, <1>5, <1>8 DEF VerifiedOK, Pushing
  <2> QED BY <2>3, <2>4
<1>13. \A q \in Runs \ {r} : RunOK(q)'
  BY <1>5, OthersOK DEF Ended
<1> QED BY <1>9, <1>10, <1>11, <1>12, <1>13 DEF CandidateInv, RunOK

LEMMA ReuseOK ==
  ASSUME PublicationInv, CandidateInv, NEW r \in Runs, Reuse(r)
  PROVE  CandidateInv'
<1>1. at[r] = "reuse" /\ Verified(r, TRUE) /\ run[r].commit = CurrentHead /\ CurrentHead \in Commits
  BY Given DEF Reuse, Reusable
<1>2. run[r].src \in Runs /\ run[run[r].src].head \in Commits
  <2>1. run[r].src \in Runs /\ at[run[r].src] \in Ended
    BY <1>1, Given DEF CandidateInv, RunOK, VerifiedOK, SourceOK, Resumed, States
  <2> QED BY <2>1, Given DEF Sound, Ended
<1> QED BY <1>1, <1>2, CommitVerified DEF Reuse, Reusable

LEMMA VerifyOK ==
  ASSUME PublicationInv, CandidateInv, NEW r \in Runs, Verify(r)
  PROVE  CandidateInv'
<1>1. run[r].commit \in Commits
  BY Given DEF Verify, Sound
<1> QED BY <1>1, CommitVerified DEF Verify, CommitIsExact

------------------------------------------------------------------------------
(* The steps that settle what the phase changed.                              *)
LEMMA EnterOK ==
  ASSUME PublicationInv, CandidateInv, NEW r \in Runs, Enter(r)
  PROVE  CandidateInv'
<1>1. /\ r = First /\ at[First] = "idle" /\ log' = log /\ at' = [at EXCEPT ![First] = "work"]
      /\ run \in [Runs -> States] /\ at \in [Runs -> Places] /\ First \in Runs
      /\ FirstOK /\ RunOK(First)
  BY PublicationAssumption
  DEF Enter, Go, Repo, PublicationInv, PublicationTypeOK, CandidateInv
<1>2. PICK k : run' = [run EXCEPT ![First] = [@ EXCEPT !.policy = k, !.head = CurrentHead,
                                                         !.branch = branch, !.tree = work]]
  BY <1>1 DEF Enter
<1>3. /\ \A q \in Runs \ {First} : run'[q] = run[q] /\ at'[q] = at[q]
      /\ run'[First].src = run[First].src /\ run'[First].terminal = run[First].terminal
      /\ run'[First].final = run[First].final /\ run'[First].paths = run[First].paths
      /\ run'[First].own = run[First].own /\ run'[First].noted = run[First].noted
      /\ run'[First].verified = run[First].verified /\ at'[First] = "work"
  BY <1>1, <1>2 DEF States
<1>4. /\ run[First].src = NoRun /\ run[First].terminal = NoTree /\ run[First].noted = NoTree
      /\ run[First].own = NoTree /\ run[First].paths = {} /\ run[First].final = NoTree
      /\ ~run[First].verified
  BY <1>1 DEF FirstOK, RunOK, VerifiedOK, Candidate, Pushing
<1>5. FirstOK'
  BY <1>3, <1>4 DEF FirstOK
<1>6. RunOK(First)'
  BY <1>3, <1>4, PublicationAssumption
  DEF RunOK, RetryOK, ReadOK, VerifiedOK, BlockedOK, SourceOK, Pushing
<1>7. \A q \in Runs \ {First} : RunOK(q)'
  <2>1. Alone(First) /\ at[First] \notin Ended
    BY <1>1, <1>3 DEF Alone, Grows, Commits, Ended
  <2> QED BY <1>1, <2>1, OthersOK
<1> QED BY <1>5, <1>6, <1>7 DEF CandidateInv

LEMMA ProduceOK ==
  ASSUME PublicationInv, PublicationInv', CandidateInv, NEW r \in Runs, Produce(r)
  PROVE  CandidateInv'
<1>1. /\ log' = log /\ at[r] = "work" /\ at' = [at EXCEPT ![r] = "read"]
      /\ run \in [Runs -> States] /\ at \in [Runs -> Places] /\ First \in Runs
      /\ FirstOK /\ RunOK(r) /\ run[r] \in States
  BY PublicationAssumption
  DEF Produce, Go, PublicationInv, PublicationTypeOK, CandidateInv
<1>2. run' = [run EXCEPT ![r] = [@ EXCEPT !.terminal = work',
       !.noted = [base |-> run[r].tree, tree |-> work', mechanical |-> TRUE,
                  paths |-> Changed(run[r].tree, work') \ EntryDirt(r)]]]
  BY DEF Produce
<1>3. /\ \A q \in Runs \ {r} : run'[q] = run[q] /\ at'[q] = at[q]
      /\ run'[r].src = run[r].src /\ run'[r].terminal = work' /\ run'[r].tree = run[r].tree
      /\ run'[r].head = run[r].head
      /\ run'[r].final = run[r].final /\ run'[r].paths = run[r].paths
      /\ run'[r].own = run[r].own
      /\ run'[r].noted.paths = Changed(run[r].tree, work') \ EntryDirt(r)
      /\ run'[r].verified = run[r].verified /\ at'[r] = "read"
  BY <1>1, <1>2 DEF States
<1>4. run[r].final = NoTree /\ ~run[r].verified
  BY <1>1 DEF RunOK, VerifiedOK, Pushing
<1>5. r = First
  BY <1>1 DEF RunOK, SourceOK
<1>6. FirstOK' /\ RunOK(First)' /\ \A q \in Runs \ {First} : RunOK(q)'
  <2>1. /\ run[First].src = NoRun /\ run[First].terminal = NoTree /\ run[First].own = NoTree
        /\ run[First].paths = {}
    BY <1>1, <1>5 DEF FirstOK, Candidate
  <2>2. work' \in Trees /\ work' # NoTree
    BY NoTreeIsNoTree DEF PublicationInv, PublicationTypeOK
  <2>3. Candidate' = Changed(run[First].tree, work')
    BY <1>3, <1>5, <2>2 DEF Candidate, Changed
  <2>4. Overlap(First)' = Changed(run[First].tree, work') \cap EntryDirt(First)
    BY <1>1, <1>3, <1>5, <2>1 DEF Overlap, Resumed, EntryDirt, Changed
  <2>5. FirstOK'
    BY <1>3, <1>5, <2>1, <2>3, <2>4 DEF FirstOK
  <2>6. RunOK(First)'
    BY <1>3, <1>4, <1>5, <2>1, PublicationAssumption
    DEF RunOK, RetryOK, ReadOK, VerifiedOK, BlockedOK, SourceOK, Pushing
  <2>7. \A q \in Runs \ {First} : RunOK(q)'
    <3>1. Alone(First) /\ at[First] \notin Ended
      BY <1>1, <1>3, <1>5 DEF Alone, Grows, Commits, Ended
    <3> QED BY <1>1, <3>1, OthersOK
  <2> QED BY <2>5, <2>6, <2>7
<1> QED BY <1>6 DEF CandidateInv

LEMMA ReadTreeOK ==
  ASSUME PublicationInv, CandidateInv, NEW r \in Runs, ReadTree(r)
  PROVE  CandidateInv'
<1> DEFINE s == run[r].src
           owned == IF Resumed(r) THEN run[r].paths ELSE Changed(run[r].tree, work)
<1>1. /\ log' = log /\ at[r] = "read" /\ at' = [at EXCEPT ![r] = "decide"] /\ First \in Runs
      /\ run \in [Runs -> States] /\ at \in [Runs -> Places] /\ s \in Runs \cup {NoRun}
      /\ FirstOK /\ RunOK(r) /\ run[r] \in States /\ Sound(run[r], "read") /\ Sealed(r)
  BY PublicationAssumption, Given
  DEF ReadTree, Go, Repo, PublicationInv, PublicationTypeOK, CandidateInv, States
<1>2. run' = [run EXCEPT ![r] = [@ EXCEPT
           !.final = work, !.paths = owned, !.own = OwnBase(r),
           !.noted = [base |-> OwnBase(r), tree |-> work, paths |-> owned,
                     mechanical |-> run[r].noted.mechanical]]]
  BY DEF ReadTree
<1>3. /\ \A q \in Runs \ {r} : run'[q] = run[q] /\ at'[q] = at[q]
      /\ run'[r].src = s /\ run'[r].terminal = run[r].terminal /\ run'[r].tree = run[r].tree
      /\ run'[r].head = run[r].head /\ run'[r].final = work /\ run'[r].paths = owned
      /\ run'[r].own = OwnBase(r) /\ run'[r].noted.paths = owned
      /\ run'[r].verified = run[r].verified /\ at'[r] = "decide"
  BY <1>1, <1>2 DEF States
<1>4. ~run[r].verified
  BY <1>1 DEF RunOK, VerifiedOK, Pushing
<1>5. Alone(r) /\ Grows /\ at[r] \notin Ended
  BY <1>1, <1>3 DEF Alone, Grows, Commits, Ended
<1>6. VerifiedOK(r)' /\ BlockedOK(r)'
  BY <1>3, <1>4 DEF VerifiedOK, BlockedOK, Pushing
<1>7. SourceOK(r)'
  BY <1>1, <1>3 DEF RunOK, SourceOK, Ended
<1>8. Terminal' = Terminal /\ Base' = Base /\ Candidate' = Candidate
  <2>1. run'[First].terminal = run[First].terminal /\ run'[First].tree = run[First].tree
    BY <1>3, <1>1
  <2> QED BY <2>1 DEF Terminal, Base, Candidate, Changed
<1>9. FirstOK' /\ RetryOK(r)' /\ ReadOK(r)'
  <2>1. CASE r = First
    <3>1. s = NoRun /\ ~Resumed(r) /\ work = Terminal
      BY <2>1, <1>1 DEF FirstOK, Resumed, Sealed, Terminal
    <3>2. Terminal # NoTree /\ Base # NoTree
      BY <2>1, <1>1, NoTreeIsNoTree DEF Sound, Terminal, Base
    <3>3. owned = Candidate
      BY <2>1, <3>1, <3>2 DEF Candidate, Terminal
    <3>4. OwnBase(r) = Base
      BY <2>1, <3>1, <1>1 DEF OwnBase, FirstOK, Base
    <3>5. FirstOK'
      BY <2>1, <3>1, <3>3, <3>4, <1>3, <1>8 DEF FirstOK
    <3>6. RetryOK(r)' /\ ReadOK(r)'
      BY <2>1, <3>1, <3>2, <3>3, <3>4, <1>3, <1>8, PublicationAssumption DEF RetryOK, ReadOK
    <3> QED BY <3>5, <3>6
  <2>2. CASE r # First
    <3>1. s \in Runs /\ Resumed(r) /\ owned = run[r].paths
      BY <2>2, <1>1, PublicationAssumption DEF RunOK, SourceOK, Resumed
    <3>2. FirstOK'
      BY <2>2, <1>1, <1>3, <1>5, FirstStays
    <3>3. CASE s = First
      <4>1. /\ run[r].terminal = Terminal /\ run[r].paths = Candidate
            /\ run[r].own \in {NoTree, Base}
        BY <3>3, <1>1 DEF RunOK, RetryOK
      <4>2. OwnBase(r) = Base
        BY <3>1, <3>3, <4>1 DEF OwnBase, Base
      <4>3. Base # NoTree
        BY <3>3, <1>1, Given, NoTreeIsNoTree DEF Base
      <4>4. \A p \in Candidate : work[p] = Terminal[p]
        BY <3>1, <4>1, <1>1 DEF Sealed
      <4> QED BY <3>1, <3>2, <4>1, <4>2, <4>3, <4>4, <1>3, <1>8 DEF RetryOK, ReadOK
    <3>4. CASE s # First
      BY <3>1, <3>2, <3>4, <1>3, PublicationAssumption DEF RetryOK, ReadOK, FirstHand
    <3> QED BY <3>3, <3>4
  <2> QED BY <2>1, <2>2
<1>10. \A q \in Runs \ {r} : RunOK(q)'
  BY <1>5, OthersOK
<1> QED BY <1>6, <1>7, <1>9, <1>10 DEF CandidateInv, RunOK

LEMMA CaptureOK ==
  ASSUME PublicationInv, CandidateInv, NEW r \in Runs, CaptureFailure(r)
  PROVE  CandidateInv'
<1> DEFINE s == run[r].src
           noted == run[r].paths \cup (Changed(run[r].tree, work) \ EntryDirt(r))
<1>1. /\ log' = log /\ at[r] = "failing" /\ at' = [at EXCEPT ![r] = "blocked"] /\ First \in Runs
      /\ run \in [Runs -> States] /\ at \in [Runs -> Places] /\ s \in Runs \cup {NoRun}
      /\ FirstOK /\ RunOK(r) /\ run[r] \in States /\ Sound(run[r], "failing")
  BY PublicationAssumption, Given
  DEF CaptureFailure, Go, Repo, PublicationInv, PublicationTypeOK, CandidateInv, States
<1>2. run' = [run EXCEPT ![r].noted =
                [base |-> OwnBase(r), tree |-> work, mechanical |-> TRUE, paths |-> noted]]
  BY DEF CaptureFailure
<1>3. /\ \A q \in Runs \ {r} : run'[q] = run[q] /\ at'[q] = at[q]
      /\ run'[r].src = s /\ run'[r].terminal = run[r].terminal /\ run'[r].tree = run[r].tree
      /\ run'[r].head = run[r].head /\ run'[r].final = run[r].final
      /\ run'[r].paths = run[r].paths /\ run'[r].own = run[r].own
      /\ run'[r].commit = run[r].commit /\ run'[r].reused = run[r].reused
      /\ run'[r].verified = run[r].verified /\ at'[r] = "blocked"
  BY <1>1, <1>2 DEF States
<1>4. /\ run'[r].noted.base = OwnBase(r) /\ run'[r].noted.tree = work
      /\ run'[r].noted.paths = noted
  BY <1>1, <1>2 DEF States
<1>5. Alone(r) /\ Grows /\ at[r] \notin Ended /\ Commits' = Commits
  BY <1>1, <1>3 DEF Alone, Grows, Commits, Ended
<1>6. s \in Runs => s # r /\ run'[s] = run[s] /\ at'[s] = at[s]
  BY <1>1, <1>3, <1>5, PublicationAssumption DEF RunOK, SourceOK
<1>7. Terminal' = Terminal /\ Base' = Base /\ Candidate' = Candidate
  <2>1. run'[First].terminal = run[First].terminal /\ run'[First].tree = run[First].tree
    BY <1>3, <1>1
  <2> QED BY <2>1 DEF Terminal, Base, Candidate, Changed
<1>8. Delta(r)' = Delta(r) /\ EntryDirt(r)' = EntryDirt(r) /\ OwnBase(r)' = OwnBase(r)
  BY <1>1, <1>3, <1>6 DEF Delta, EntryDirt, Changed, OwnBase, Resumed
<1>9. BlockedOK(r)'
  BY <1>3, <1>4, <1>8 DEF BlockedOK, Changed
<1>10. RetryOK(r)' /\ ReadOK(r)' /\ SourceOK(r)'
  BY <1>1, <1>3, <1>6, <1>7 DEF RunOK, RetryOK, ReadOK, FirstHand, SourceOK
<1>11. VerifiedOK(r)'
  <2>1. \A c, d, S, f : Exact(c, d, S, f)' <=> Exact(c, d, S, f)
    BY <1>1 DEF Exact, Changed
  <2>2. VerifiedOK(r)
    BY <1>1 DEF RunOK
  <2>3. CASE run[r].verified /\ run[r].reused
    BY <2>1, <2>2, <2>3, <1>3, <1>5, <1>6 DEF VerifiedOK
  <2>4. CASE run[r].verified /\ ~run[r].reused
    BY <2>1, <2>2, <2>4, <1>3, <1>5, <1>8 DEF VerifiedOK
  <2>5. CASE ~run[r].verified
    BY <2>5, <1>3 DEF VerifiedOK, Pushing
  <2> QED BY <2>3, <2>4, <2>5
<1>12. FirstOK'
  <2>1. CASE r # First
    BY <2>1, <1>1, <1>3, <1>5, FirstStays
  <2>2. CASE r = First
    <3>1. Overlap(First)' = Overlap(First)
      BY <2>2, <1>3, <1>8 DEF Overlap, Resumed, Changed
    <3>2. Terminal # NoTree
      BY <2>2, <1>1, NoTreeIsNoTree DEF Sound, Terminal
    <3>3. Candidate = Changed(run[First].tree, Terminal) /\ run[First].src = NoRun
      BY <3>2, <1>1 DEF Candidate, Terminal, FirstOK
    <3>4. Overlap(First) = {} /\ work = Terminal => noted = Candidate
      BY <2>2, <3>3, <1>1 DEF FirstOK, Overlap, Resumed, Terminal
    <3> QED BY <2>2, <3>1, <3>4, <1>1, <1>3, <1>4, <1>7 DEF FirstOK
  <2> QED BY <2>1, <2>2
<1>13. \A q \in Runs \ {r} : RunOK(q)'
  BY <1>5, OthersOK
<1> QED BY <1>9, <1>10, <1>11, <1>12, <1>13 DEF CandidateInv, RunOK

(* What a retry of the run of the phase inherits is the candidate: the run's  *)
(* own note where it counts, and the trees otherwise.                         *)
LEMMA ManifestIsCandidate ==
  ASSUME PublicationInv, CandidateInv, at[First] \in Ended, Overlap(First) = {}
  PROVE  Manifest(First) = Candidate
<1>1. FirstOK /\ Sound(run[First], at[First]) /\ at[First] \notin {"idle", "work", "dead"}
  BY Given, PublicationAssumption DEF CandidateInv, Ended
<1>2. Candidate = Changed(Base, Terminal)
  BY <1>1, NoTreeIsNoTree DEF Sound, Candidate, Base, Terminal
<1>3. ManifestBase(First) = Base
  BY <1>1 DEF FirstOK, ManifestBase, Base
<1>4. CASE NoteCounts(First)
  BY <1>1, <1>2, <1>3, <1>4 DEF FirstOK, NoteCounts, Manifest, Terminal
<1>5. CASE ~NoteCounts(First)
  BY <1>2, <1>3, <1>5 DEF Manifest, Terminal
<1> QED BY <1>4, <1>5

LEMMA ResumeOK ==
  ASSUME PublicationInv, CandidateInv, NEW r \in Runs, NEW s \in Runs, Resume(r, s)
  PROVE  CandidateInv'
<1>1. /\ log' = log /\ at[r] = "idle" /\ at[s] \in Ended /\ at' = [at EXCEPT ![r] = "read"]
      /\ run \in [Runs -> States] /\ at \in [Runs -> Places] /\ First \in Runs /\ r # First
      /\ r # s /\ FirstOK /\ NoRun \notin Runs
  BY PublicationAssumption
  DEF Resume, Go, Repo, PublicationInv, PublicationTypeOK, CandidateInv, Ended
<1>2. PICK k : run' = [run EXCEPT ![r] = [src |-> s, policy |-> k, head |-> CurrentHead,
         branch |-> branch,
         tree |-> work, terminal |-> run[s].terminal, final |-> NoTree,
         paths |-> Manifest(s), own |-> run[s].own, commit |-> run[s].commit,
         noted |-> [base |-> ManifestBase(s), tree |-> run[s].terminal,
                    mechanical |-> FALSE, paths |-> Manifest(s)],
         reused |-> FALSE, verified |-> FALSE]]
  BY DEF Resume
<1>3. /\ \A q \in Runs \ {r} : run'[q] = run[q] /\ at'[q] = at[q]
      /\ run'[r].src = s /\ run'[r].terminal = run[s].terminal /\ run'[r].final = NoTree
      /\ run'[r].paths = Manifest(s) /\ run'[r].own = run[s].own
      /\ run'[r].verified = FALSE /\ at'[r] = "read"
  BY <1>1, <1>2
<1>4. Alone(r) /\ Grows /\ at[r] \notin Ended /\ run'[First] = run[First] /\ at'[First] = at[First]
  BY <1>1, <1>3 DEF Alone, Grows, Commits, Ended
<1>5. Terminal' = Terminal /\ Base' = Base /\ Candidate' = Candidate
  BY <1>4 DEF Terminal, Base, Candidate, Changed
<1>6. RetryOK(r)'
  <2>1. CASE s = First
    <3>1. Manifest(First) = Candidate
      BY <2>1, <1>1, ManifestIsCandidate DEF Resume
    <3> QED BY <2>1, <3>1, <1>1, <1>3, <1>5 DEF RetryOK, FirstOK, Terminal
  <2>2. CASE s # First
    BY <2>2, <1>3 DEF RetryOK
  <2> QED BY <2>1, <2>2
<1>7. ReadOK(r)' /\ VerifiedOK(r)' /\ BlockedOK(r)' /\ SourceOK(r)'
  BY <1>1, <1>3 DEF ReadOK, VerifiedOK, BlockedOK, SourceOK, Pushing
<1>8. FirstOK'
  BY <1>4, FirstStays
<1>9. \A q \in Runs \ {r} : RunOK(q)'
  BY <1>4, OthersOK
<1> QED BY <1>6, <1>7, <1>8, <1>9 DEF CandidateInv, RunOK

(* The operator and others may add a commit; they touch no run.               *)
LEMMA OperatorGrows ==
  ASSUME PublicationInv,
         (\E p \in Paths : Operate(p)) \/ (\E b \in Branches : Switch(b))
         \/ UNCHANGED publicationVars
  PROVE  run' = run /\ at' = at /\ Grows
<1>1. run' = run /\ at' = at
  BY DEF Operate, Edit, StageOwn, Unstage, CommitOwn, Advance, Switch, publicationVars
<1>2. Grows
  <2>1. CASE \E p \in Paths : CommitOwn(p)
    <3>1. PICK p \in Paths : log' = Append(log, Committed(CurrentHead, {p}, work))
      BY <2>1 DEF CommitOwn
    <3>2. PICK c \in Commits, S \in SUBSET Paths, from \in Trees :
            log' = Append(log, Committed(c, S, from))
      BY <3>1, Given, PublicationAssumption
    <3> QED BY <3>2, HistoryGrows DEF Grows
  <2>2. CASE \E p \in Paths : Advance(p)
    <3>1. PICK p \in Paths : log' = Append(log, Committed(remote, {p}, [q \in Paths |-> "other"]))
      BY <2>2 DEF Advance
    <3>2. [q \in Paths |-> "other"] \in Trees
      BY DEF Trees, Contents
    <3>3. PICK c \in Commits, S \in SUBSET Paths, from \in Trees :
            log' = Append(log, Committed(c, S, from))
      BY <3>1, <3>2, Given, PublicationAssumption
    <3> QED BY <3>3, HistoryGrows DEF Grows
  <2>3. CASE log' = log
    BY <2>3 DEF Grows, Commits
  <2> QED BY <2>1, <2>2, <2>3 DEF Operate, Edit, StageOwn, Unstage, Switch, publicationVars
<1> QED BY <1>1, <1>2

LEMMA OperateOK ==
  ASSUME PublicationInv, CandidateInv,
         (\E p \in Paths : Operate(p)) \/ (\E b \in Branches : Switch(b))
         \/ UNCHANGED publicationVars
  PROVE  CandidateInv'
BY OperatorGrows, RepositoryStays

LEMMA FinalizeOK ==
  ASSUME PublicationInv, PublicationInv', CandidateInv, NEW r \in Runs, Finalize(r)
  PROVE  CandidateInv'
<1>1. CASE ReadTreeFails(r) \/ ReuseFails(r) \/ VerifyFails(r) \/ GitFails(r)
  BY <1>1, FailingOK DEF ReadTreeFails, ReuseFails, VerifyFails, GitFails, Active
<1>2. CASE Enter(r) \/ Produce(r) \/ ReadTree(r) \/ CaptureFailure(r)
  BY <1>2, EnterOK, ProduceOK, ReadTreeOK, CaptureOK
<1>3. CASE Decide(r) \/ DecideAttention(r) \/ ReadBack(r)
  BY <1>3, NotingOK
<1>4. CASE Stage(r) \/ CommitPaths(r)
  BY <1>4, StageOK
<1>5. CASE Reuse(r) \/ Verify(r)
  BY <1>5, ReuseOK, VerifyOK
<1>6. CASE PushTarget(r) \/ PushCommit(r) \/ PushRejected(r) \/ PostQuery(r)
  BY <1>6, PushOK
<1>7. CASE Killed(r)
  BY <1>7, KilledOK
<1> QED BY <1>1, <1>2, <1>3, <1>4, <1>5, <1>6, <1>7 DEF Finalize

(* What every run knows of the candidate is true in every reachable state.    *)
THEOREM CandidateInvariant == PublicationSpec => []CandidateInv
<1>1. PublicationInit => CandidateInv
  <2> SUFFICES ASSUME PublicationInit PROVE CandidateInv
    OBVIOUS
  <2>1. /\ First \in Runs /\ NoRun \notin Runs
        /\ \A r \in Runs : run[r] = Unrecorded /\ at[r] = "idle"
    BY PublicationAssumption DEF PublicationInit
  <2>2. FirstOK
    BY <2>1 DEF FirstOK, Unrecorded, NoTree
  <2>3. ASSUME NEW r \in Runs PROVE RunOK(r)
    BY <2>1, <2>3, PublicationAssumption
    DEF RunOK, RetryOK, ReadOK, VerifiedOK, BlockedOK, SourceOK, Unrecorded, Pushing
  <2> QED BY <2>2, <2>3 DEF CandidateInv
<1>2. /\ PublicationInv /\ PublicationInv' /\ CandidateInv /\ [PublicationNext]_publicationVars
      => CandidateInv'
  BY FinalizeOK, ResumeOK, OperateOK DEF PublicationNext
<1> QED BY <1>1, <1>2, PublicationInvariant, PTL DEF PublicationSpec

(* What the run of the phase or a direct retry of it reports as committed or  *)
(* published is, on top of the HEAD it began with, exactly what the phase     *)
(* changed, whatever the operator and others do in between.                   *)
THEOREM ReportsAreTheCandidate == PublicationSpec => []ReportedIsCandidate
<1>1. PublicationInv /\ CandidateInv => ReportedIsCandidate
  <2> SUFFICES ASSUME PublicationInv, CandidateInv, NEW r \in Runs, FirstHand(r),
                      at[r] \in {"committed", "published"},
                      NEW c, c = run[r].commit,
                      NEW from, from = IF run[r].reused THEN run[run[r].src].head ELSE run[r].head
               PROVE  /\ log[c].parent = from
                      /\ \A p \in Paths : log[c].tree[p] = IF p \in Candidate THEN run[First].terminal[p]
                                                             ELSE log[from].tree[p]
    BY DEF ReportedIsCandidate
  <2>1. VerifiedOK(r) /\ ReadOK(r) /\ run[r].verified /\ run[r].final # NoTree
    BY NoTreeIsNoTree DEF CandidateInv, RunOK, VerifiedOK, Pushing
  <2>2. /\ run[r].paths = Candidate /\ Candidate \subseteq Paths
        /\ \A p \in Candidate : run[r].final[p] = run[First].terminal[p]
    BY <2>1 DEF ReadOK, Terminal, Candidate, Changed
  <2>3. CASE run[r].reused
    <3>1. Exact(c, from, Candidate, run[r].final)
      BY <2>1, <2>2, <2>3 DEF VerifiedOK
    <3> QED BY <3>1, <2>2 DEF Exact, Changed
  <2>4. CASE ~run[r].reused
    <3>1. Exact(c, from, Delta(r), run[r].final) /\ from = run[r].head
      BY <2>1, <2>4 DEF VerifiedOK
    <3>2. ASSUME NEW p \in Paths
          PROVE  log[c].tree[p] = IF p \in Delta(r) THEN run[r].final[p] ELSE log[from].tree[p]
      BY <3>1 DEF Exact, Changed
    <3>3. \A p \in Paths : p \in Delta(r) <=> p \in Candidate /\ log[from].tree[p] # run[r].final[p]
      BY <3>1, <2>2 DEF Delta
    <3> QED BY <3>1, <3>2, <3>3, <2>2 DEF Exact
  <2> QED BY <2>3, <2>4
<1> QED BY <1>1, PublicationInvariant, CandidateInvariant, PTL

(* A blocked push can be retried: preflight accepts the run as long as the    *)
(* repository is as it left it, and the retry recognises its commit.          *)
THEOREM BlockedPushesResume == PublicationSpec => []BlockedPushResumes
<1>1. PublicationInv /\ CandidateInv => BlockedPushResumes
  <2> SUFFICES ASSUME PublicationInv, CandidateInv, NEW s \in Runs,
                      FirstHand(s), at[s] = "blocked", run[s].noted.tree = work,
                      run[s].verified, ~run[s].reused, Delta(s) = run[s].paths,
                      CurrentHead = run[s].commit, branch = run[s].branch, index = HeadTree,
                      \A p \in Paths : work[p] = IF p \in Candidate THEN run[First].terminal[p]
                                                 ELSE HeadTree[p]
               PROVE  Accepts(s) /\ Exact(CurrentHead, run[s].head, Manifest(s), run[s].terminal)
    BY DEF BlockedPushResumes
  <2>1. VerifiedOK(s) /\ ReadOK(s) /\ RetryOK(s) /\ BlockedOK(s) /\ run[s].final # NoTree
    BY NoTreeIsNoTree DEF CandidateInv, RunOK, VerifiedOK
  <2>2. /\ run[s].paths = Candidate /\ Candidate \subseteq Paths /\ run[s].own = Base
        /\ run[s].own # NoTree /\ \A p \in Candidate : run[s].final[p] = Terminal[p]
    BY <2>1 DEF ReadOK, Candidate, Changed
  <2>3. run[s].terminal = Terminal /\ run[s].terminal \in Trees
    <3>1. s = First \/ run[s].src = First
      BY PublicationAssumption DEF CandidateInv, RunOK, SourceOK, FirstHand
    <3> QED BY <3>1, <2>1, Given DEF RetryOK, Terminal, Sound
  <2>4. /\ Exact(CurrentHead, run[s].head, Candidate, run[s].final)
        /\ \A p \in Candidate : HeadTree[p] = Terminal[p]
        /\ \A p \in Paths \ Candidate : HeadTree[p] = log[run[s].head].tree[p]
    BY <2>1, <2>2 DEF VerifiedOK, Exact, Changed, HeadTree
  <2>5. ManifestBase(s) = Base /\ OwnBase(s) = Base
    BY <2>2 DEF ManifestBase, OwnBase
  <2>6. Changed(run[s].tree, work) \ EntryDirt(s) \subseteq Candidate
    BY <2>4 DEF Changed, EntryDirt
  <2>7. run[s].noted.base = Base /\ run[s].noted.paths = Candidate
    BY <2>1, <2>2, <2>5, <2>6 DEF BlockedOK
  <2>8. Changed(Base, Terminal) = Candidate
    BY <2>3, NoTreeIsNoTree DEF Candidate, Base, Terminal
  <2>9. Manifest(s) = Candidate
    BY <2>3, <2>5, <2>7, <2>8 DEF Manifest
  <2>10. HoldsCandidate(work, s) /\ ~Materialized(s)
    BY <2>2, <2>3, <2>9 DEF HoldsCandidate, Materialized, Terminal
  <2>11. Accepts(s)
    BY <2>5, <2>7, <2>9, <2>10 DEF Accepts
  <2>12. Exact(CurrentHead, run[s].head, Candidate, run[s].terminal)
    BY <2>2, <2>3, <2>4 DEF Exact
  <2> QED BY <2>9, <2>11, <2>12
<1> QED BY <1>1, PublicationInvariant, CandidateInvariant, PTL

------------------------------------------------------------------------------
(* An empty delta. Where the false outcome that EmptyMeansClean excludes is   *)
(* possible: only in a retry of a retry. A direct retry began with the HEAD   *)
(* the run of the phase began with, with the commit that run recorded, or     *)
(* with a HEAD that lacks the candidate: preflight refuses any other.         *)
EntryOK(r) ==
  run[r].src = First /\ at[r] \in {"read", "decide"} =>
    /\ Overlap(First) = {}
    /\ \/ Candidate = {} \/ run[r].head = run[First].head \/ run[r].commit = run[r].head
       \/ \E p \in Candidate : log[run[r].head].tree[p] # Terminal[p]
EmptyOK(r) == FirstHand(r) /\ at[r] = "empty" => Candidate = {}
EmptyInv   == \A r \in Runs : EntryOK(r) /\ EmptyOK(r)

(* What the run of the phase changed is not what its HEAD held, unless the    *)
(* path was already dirty.                                                    *)
LEMMA CandidateIsNews ==
  ASSUME Overlap(First) = {}, run[First].src = NoRun
  PROVE  \A p \in Candidate : log[run[First].head].tree[p] # Terminal[p]
BY DEF Overlap, Resumed, EntryDirt, Changed, Candidate, Terminal

(* A run that the step does not touch, while the run of the phase either has  *)
(* not ended or stays as it is.                                               *)
LEMMA EntriesStay ==
  ASSUME PublicationInv, CandidateInv, Grows, NEW q \in Runs, EntryOK(q), EmptyOK(q),
         run'[q] = run[q], at'[q] = at[q],
         at[First] \in Ended => run'[First] = run[First]
  PROVE  EntryOK(q)' /\ EmptyOK(q)'
<1>1. /\ SourceOK(q) /\ Sound(run[q], at[q]) /\ Sound(run[First], at[First]) /\ First \in Runs
      /\ NoRun \notin Runs
  BY Given, PublicationAssumption DEF CandidateInv, RunOK
<1>2. FirstHand(q) /\ at[q] \in {"read", "decide", "empty"} => at[First] \in Ended \/ q = First
  BY <1>1 DEF FirstHand, SourceOK
<1>3. run'[First] = run[First] => Terminal' = Terminal /\ Candidate' = Candidate
  BY DEF Terminal, Candidate, Changed
<1>4. at[First] \in Ended => Overlap(First)' = Overlap(First)
  <2>1. at[First] \in Ended => EntryDirt(First)' = EntryDirt(First)
    BY <1>1 DEF Sound, Ended, EntryDirt, Changed, Grows
  <2> QED BY <2>1 DEF Overlap, Resumed, Changed
<1>5. EmptyOK(q)'
  BY <1>2, <1>3 DEF EmptyOK, FirstHand
<1>6. EntryOK(q)'
  <2> SUFFICES ASSUME run[q].src = First, at[q] \in {"read", "decide"}
               PROVE  EntryOK(q)'
    BY DEF EntryOK
  <2>1. at[First] \in Ended /\ run'[First] = run[First]
    BY <1>1 DEF SourceOK
  <2>2. run[q].head \in Commits /\ log'[run[q].head] = log[run[q].head]
    BY <1>1 DEF Sound, Grows
  <2> QED BY <2>1, <2>2, <1>3, <1>4 DEF EntryOK
<1> QED BY <1>5, <1>6

(* A run that decides on the empty outcome has no candidate to commit.        *)
LEMMA EmptyDecided ==
  ASSUME PublicationInv, CandidateInv, EmptyInv, NEW r \in Runs, FirstHand(r),
         at[r] = "decide", Course(r) = "empty"
  PROVE  Candidate = {}
<1>1. /\ RunOK(r) /\ EntryOK(r) /\ FirstOK /\ Sound(run[r], at[r]) /\ run[r] \in States
      /\ First \in Runs /\ NoRun \notin Runs
  BY Given, PublicationAssumption DEF CandidateInv, EmptyInv
<1>2. Overlap(r) = {} /\ ~Replay(r) /\ Delta(r) = {} /\ CurrentHead = run[r].head
  BY DEF Course, Untouched
<1>3. \A p \in Candidate : log[run[r].head].tree[p] = Terminal[p]
  <2>1. run[r].final # NoTree
    BY <1>1, NoTreeIsNoTree DEF Sound
  <2> QED BY <1>1, <1>2, <2>1 DEF RunOK, ReadOK, Delta
<1>4. CASE run[r].src = NoRun
  <2>1. r = First
    BY <1>1, <1>4 DEF RunOK, SourceOK
  <2> QED BY <2>1, <1>2, <1>3, <1>4, CandidateIsNews
<1>5. CASE run[r].src = First
  <2>1. run[r].commit # run[r].head
    BY <1>1, <1>2, <1>5 DEF Replay, Resumed
  <2>2. Overlap(First) = {} /\ (Candidate = {} \/ run[r].head = run[First].head)
    BY <1>1, <1>3, <1>5, <2>1 DEF EntryOK
  <2> QED BY <2>2, <1>1, <1>3, CandidateIsNews DEF FirstOK
<1> QED BY <1>4, <1>5 DEF FirstHand

(* Where the step of a run takes it.                                          *)
LEMMA FinalizeTakes ==
  ASSUME PublicationInv, CandidateInv, NEW r \in Runs, Finalize(r)
  PROVE  /\ Alone(r) /\ at[r] \notin Ended
         /\ \/ at'[r] \notin {"read", "decide", "empty"}
            \/ Produce(r) /\ at'[r] = "read"
            \/ ReadTree(r) /\ at'[r] = "decide"
            \/ Decide(r) /\ Course(r) = "empty" /\ at'[r] = "empty"
<1>1. run \in [Runs -> States] /\ at \in [Runs -> Places]
  BY DEF PublicationInv, PublicationTypeOK
<1>2. Grows
  <2>1. CASE CommitPaths(r)
    <3>1. CurrentHead \in Commits /\ work \in Trees /\ Delta(r) \in SUBSET Paths
      BY Given DEF Delta, States
    <3>2. log' = Append(log, Committed(CurrentHead, Delta(r), work))
      BY <2>1 DEF CommitPaths
    <3>3. PICK c \in Commits, S \in SUBSET Paths, from \in Trees :
            log' = Append(log, Committed(c, S, from))
      BY <3>1, <3>2
    <3> QED BY <3>3, HistoryGrows DEF Grows
  <2>2. CASE ~CommitPaths(r)
    <3>1. log' = log
      <4>1. CASE Enter(r) \/ Produce(r) \/ ReadTree(r) \/ CaptureFailure(r)
        BY <4>1, ZenonT(30) DEF Enter, Produce, ReadTree, CaptureFailure, Repo
      <4>2. CASE Decide(r) \/ DecideAttention(r) \/ ReadBack(r) \/ Reuse(r) \/ Verify(r) \/ Stage(r)
        BY <4>2, ZenonT(30) DEF Decide, DecideAttention, ReadBack, Reuse, Verify, Verified, Stage, Repo
      <4>3. CASE \/ ReadTreeFails(r) \/ ReuseFails(r) \/ VerifyFails(r) \/ GitFails(r) \/ Killed(r)
                 \/ PushTarget(r) \/ PushCommit(r) \/ PushRejected(r) \/ PostQuery(r)
        BY <4>3 DEF ReadTreeFails, ReuseFails, VerifyFails, GitFails, Killed, PushTarget, PushCommit,
           PushRejected, PostQuery, Goto, Repo
      <4> QED BY <2>2, <4>1, <4>2, <4>3 DEF Finalize
    <3> QED BY <3>1 DEF Grows, Commits
  <2> QED BY <2>1, <2>2
<1>3. CASE Enter(r) \/ Produce(r) \/ ReadTree(r) \/ CaptureFailure(r)
  <2>1. /\ at[r] \in {"idle", "work", "read", "failing"}
        /\ \E rec : run' = [run EXCEPT ![r] = rec]
    BY <1>3, ZenonT(30) DEF Enter, Produce, ReadTree, CaptureFailure
  <2>3. \A q \in Runs \ {r} : run'[q] = run[q]
    BY <1>1, <2>1
  <2>2. \/ at' = [at EXCEPT ![r] = "work"] \/ at' = [at EXCEPT ![r] = "blocked"]
        \/ Produce(r) /\ at' = [at EXCEPT ![r] = "read"]
        \/ ReadTree(r) /\ at' = [at EXCEPT ![r] = "decide"]
    BY <1>3, ZenonT(30) DEF Enter, Produce, ReadTree, CaptureFailure, Go
  <2> QED BY <1>1, <1>2, <2>1, <2>2, <2>3 DEF Alone, Ended
<1>4. CASE Decide(r)
  <2>1. at[r] = "decide" /\ at' = [at EXCEPT ![r] = Course(r)] /\ \A q \in Runs \ {r} : run'[q] = run[q]
    BY <1>1, <1>4 DEF Decide, Go
  <2>2. Course(r) \notin {"read", "decide"}
    BY DEF Course
  <2> QED BY <1>1, <1>2, <1>4, <2>1, <2>2 DEF Alone, Ended
<1>5. CASE DecideAttention(r) \/ ReadBack(r) \/ Reuse(r) \/ Verify(r)
  <2>1. at[r] \in {"decide", "readback", "reuse", "verify"} /\ \A q \in Runs \ {r} : run'[q] = run[q]
    BY <1>1, <1>5 DEF DecideAttention, ReadBack, Reuse, Verify, Verified
  <2>2. \E p \in {"failing", "verify", "committed", "target"} : at' = [at EXCEPT ![r] = p]
    BY <1>5 DEF DecideAttention, ReadBack, Reuse, Verify, Verified, Onward, Go
  <2> QED BY <1>1, <1>2, <2>1, <2>2 DEF Alone, Ended
<1>6. CASE \/ ReadTreeFails(r) \/ ReuseFails(r) \/ VerifyFails(r) \/ GitFails(r) \/ Killed(r)
           \/ Stage(r) \/ CommitPaths(r)
  <2>1. at[r] \in Active /\ run' = run
    BY <1>6 DEF ReadTreeFails, ReuseFails, VerifyFails, GitFails, Killed, Stage, CommitPaths,
       Goto, Active
  <2>2. \E p \in {"failing", "dead", "commit", "readback"} : at' = [at EXCEPT ![r] = p]
    BY <1>6 DEF ReadTreeFails, ReuseFails, VerifyFails, GitFails, Killed, Stage, CommitPaths, Goto, Go
  <2> QED BY <1>1, <1>2, <2>1, <2>2 DEF Alone, Active, Ended
<1>7. CASE PushTarget(r) \/ PushCommit(r) \/ PushRejected(r) \/ PostQuery(r)
  <2>1. at[r] \in Pushing \ {"published"} /\ run' = run
    BY <1>7 DEF PushTarget, PushCommit, PushRejected, PostQuery, Goto, Pushing
  <2>2. \E p \in Pushing \cup {"failing"} : at' = [at EXCEPT ![r] = p]
    BY <1>7 DEF PushTarget, PushCommit, PushRejected, PostQuery, Goto, Go, Pushing
  <2> QED BY <1>1, <1>2, <2>1, <2>2 DEF Alone, Pushing, Ended
<1> QED BY <1>3, <1>4, <1>5, <1>6, <1>7 DEF Finalize

LEMMA FinalizeEmpties ==
  ASSUME PublicationInv, CandidateInv, EmptyInv, NEW r \in Runs, Finalize(r)
  PROVE  EmptyInv'
<1>1. /\ Alone(r) /\ Grows /\ at[r] \notin Ended /\ First \in Runs /\ NoRun \notin Runs
      /\ RunOK(r) /\ run \in [Runs -> States] /\ run[r] \in States
  BY FinalizeTakes, Given, PublicationAssumption
  DEF Alone, CandidateInv, PublicationInv, PublicationTypeOK
<1>2. at[First] \in Ended => run'[First] = run[First]
  BY <1>1 DEF Alone
<1>3. ASSUME NEW q \in Runs, q # r PROVE EntryOK(q)' /\ EmptyOK(q)'
  BY <1>1, <1>2, <1>3, EntriesStay DEF Alone, EmptyInv
<1>4. EntryOK(r)' /\ EmptyOK(r)'
  <2>1. CASE at'[r] \notin {"read", "decide", "empty"}
    BY <2>1 DEF EntryOK, EmptyOK
  <2>2. CASE Produce(r) /\ at'[r] = "read"
    <3>1. run[r].src = NoRun /\ run'[r].src = run[r].src
      BY <1>1, <2>2 DEF RunOK, SourceOK, Produce
    <3> QED BY <3>1, <2>2, <1>1 DEF EntryOK, EmptyOK
  <2>3. CASE ReadTree(r) /\ at'[r] = "decide"
    <3>1. /\ run'[r].src = run[r].src /\ run'[r].head = run[r].head
          /\ run'[r].commit = run[r].commit /\ log' = log /\ at[r] = "read"
      BY <1>1, <2>3 DEF ReadTree, Repo, States
    <3>2. CASE run[r].src = First
      <4>1. at[First] \in Ended /\ run'[First] = run[First]
        BY <3>2, <1>1, <1>2 DEF RunOK, SourceOK
      <4>2. Overlap(First)' = Overlap(First) /\ Candidate' = Candidate /\ Terminal' = Terminal
        BY <4>1, <3>1 DEF Overlap, Resumed, EntryDirt, Changed, Candidate, Terminal
      <4> QED BY <3>1, <3>2, <4>1, <4>2, <2>3 DEF EntryOK, EmptyOK, EmptyInv
    <3>3. CASE run[r].src # First
      BY <3>1, <3>3, <2>3 DEF EntryOK, EmptyOK
    <3> QED BY <3>2, <3>3
  <2>4. CASE Decide(r) /\ Course(r) = "empty" /\ at'[r] = "empty"
    <3>1. /\ run'[r].src = run[r].src /\ at[r] = "decide"
          /\ run'[First].tree = run[First].tree /\ run'[First].terminal = run[First].terminal
      BY <1>1, <2>4 DEF Decide, States
    <3>2. Candidate' = Candidate
      BY <3>1 DEF Candidate, Changed
    <3> QED BY <3>1, <3>2, <2>4, EmptyDecided DEF EntryOK, EmptyOK, FirstHand
  <2> QED BY <2>1, <2>2, <2>3, <2>4, FinalizeTakes
<1> QED BY <1>3, <1>4 DEF EmptyInv

LEMMA ResumeEmpties ==
  ASSUME PublicationInv, CandidateInv, EmptyInv, NEW r \in Runs, NEW s \in Runs, Resume(r, s)
  PROVE  EmptyInv'
<1>1. /\ log' = log /\ at[r] = "idle" /\ at[s] \in Ended /\ at' = [at EXCEPT ![r] = "read"]
      /\ run \in [Runs -> States] /\ at \in [Runs -> Places] /\ First \in Runs /\ r # First
      /\ Overlap(s) = {} /\ Accepts(s)
  BY PublicationAssumption DEF Resume, Go, Repo, PublicationInv, PublicationTypeOK
<1>2. /\ \A q \in Runs \ {r} : run'[q] = run[q] /\ at'[q] = at[q]
      /\ run'[r].src = s /\ run'[r].head = CurrentHead /\ run'[r].commit = run[s].commit
      /\ at'[r] = "read"
  BY <1>1 DEF Resume
<1>3. Grows /\ run'[First] = run[First]
  BY <1>1, <1>2 DEF Grows, Commits
<1>4. ASSUME NEW q \in Runs, q # r PROVE EntryOK(q)' /\ EmptyOK(q)'
  BY <1>2, <1>3, <1>4, EntriesStay DEF EmptyInv
<1>5. EntryOK(r)' /\ EmptyOK(r)'
  <2>1. CASE s # First
    BY <2>1, <1>2 DEF EntryOK, EmptyOK
  <2>2. CASE s = First
    <3>1. Manifest(First) = Candidate
      BY <2>2, <1>1, ManifestIsCandidate
    <3>2. \/ Candidate = {} \/ CurrentHead = run[First].head \/ run[First].commit = CurrentHead
          \/ \E p \in Candidate : log[CurrentHead].tree[p] # Terminal[p]
      BY <3>1, <2>2, <1>1 DEF Accepts, Materialized, HoldsCandidate, HeadTree, Terminal
    <3>3. Overlap(First)' = Overlap(First) /\ Candidate' = Candidate /\ Terminal' = Terminal
      BY <1>1, <1>3 DEF Overlap, Resumed, EntryDirt, Changed, Candidate, Terminal
    <3> QED BY <2>2, <3>2, <3>3, <1>1, <1>2, <1>3 DEF EntryOK, EmptyOK
  <2> QED BY <2>1, <2>2
<1> QED BY <1>4, <1>5 DEF EmptyInv

LEMMA OperateEmpties ==
  ASSUME PublicationInv, CandidateInv, EmptyInv,
         (\E p \in Paths : Operate(p)) \/ (\E b \in Branches : Switch(b))
         \/ UNCHANGED publicationVars
  PROVE  EmptyInv'
<1>1. run' = run /\ at' = at /\ Grows
  BY OperatorGrows
<1> QED BY <1>1, EntriesStay DEF EmptyInv

(* The run of the phase, and a direct retry of it, end with an empty delta    *)
(* only if the phase changed nothing, whatever the operator and others commit *)
(* meanwhile: EmptyMeansClean is false of retries of retries alone.           *)
THEOREM EmptyIsCleanFirstHand ==
  PublicationSpec => [](\A r \in Runs : FirstHand(r) /\ at[r] = "empty" => Candidate = {})
<1>1. PublicationInit => EmptyInv
  BY DEF PublicationInit, EmptyInv, EntryOK, EmptyOK
<1>2. PublicationInv /\ CandidateInv /\ EmptyInv /\ [PublicationNext]_publicationVars => EmptyInv'
  BY FinalizeEmpties, ResumeEmpties, OperateEmpties DEF PublicationNext
<1>3. EmptyInv => \A r \in Runs : FirstHand(r) /\ at[r] = "empty" => Candidate = {}
  BY DEF EmptyInv, EmptyOK
<1> QED BY <1>1, <1>2, <1>3, PublicationInvariant, CandidateInvariant, PTL DEF PublicationSpec

-------------------------------------------------------------------------------
(* The start, the turns and the end of a phase run, one at a time.            *)

(* A behaviour of one of the three is a behaviour of each: the others stutter *)
(* in an initial state.                                                       *)
LEMMA EachAlone == AnySpec => LaunchSpec /\ TurnsSpec /\ PublicationSpec
<1>1. AnyInit => LaunchInit /\ TurnsInit /\ PublicationInit
  BY DEF AnyInit
<1>2. [LaunchOnly \/ TurnsOnly \/ EndingOnly]_<<launchVars, turnVars, publicationVars>>
        => [LaunchNext]_launchVars /\ [TurnsNext]_turnVars /\ [PublicationNext]_publicationVars
  BY DEF LaunchOnly, TurnsOnly, EndingOnly
<1> QED BY <1>1, <1>2, PTL DEF AnySpec, LaunchSpec, TurnsSpec, PublicationSpec

(* The variables of the three modules keep their types, for any constants.    *)
THEOREM TypesStayOK == AnySpec => []TypesOK
<1>1. LaunchTypeOK /\ TurnsTypeOK /\ PublicationTypeOK => TypesOK
  BY DEF TypesOK
<1> QED BY EachAlone, <1>1, LaunchTypeCorrect, TurnsTypeCorrect, PublicationTypeCorrect, PTL
================================================================================
