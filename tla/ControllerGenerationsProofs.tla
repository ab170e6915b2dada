---------------------- MODULE ControllerGenerationsProofs ----------------------
(* No collection takes the code of a dispatcher or of its children away: the  *)
(* inductive invariant and the proof that every step keeps it.                *)
EXTENDS ControllerGenerations, TLAPS

(* A process has an id exactly while it is somewhere, and none is complete    *)
(* before it runs.                                                            *)
UpSomewhere ==
  /\ \A p \in Pids : up[p] <=> pc[p] # "dead"
  /\ \A p \in Pids : up[p] => life[p] \in 1..MaxLives
  /\ \A p \in Pids : pc[p] \notin {"dead", "other", "wait"} => pin[p] \in Commits

LockPhases == {"pin", "manifest", "record", "check", "lease", "leasing", "leased", "activate",
               "activating"}
(* The store's lock is held wherever a copy, a lease or the administration is *)
(* worked on.                                                                 *)
LockHeld ==
  /\ \A p \in Pids : pc[p] \in LockPhases => lock = p
  /\ IF apc = "idle" THEN finished = {} ELSE lock = Admin

(* What is being written is not there yet, so nothing runs from it.           *)
FreshCopy ==
  /\ \A p \in Pids : pc[p] = "manifest" => manifest[pin[p]] # "whole"
  /\ \A p \in Pids : pc[p] \in {"manifest", "record"} => record[pin[p]] # "whole"
CheckedCopy == \A p \in Pids : pc[p] \in {"lease", "leasing"} => Valid(pin[p])

(* A dispatcher that has not ended has a lease that says so, and a child has  *)
(* the unfinished lease of its dispatcher.                                    *)
LeaseStatus ==
  \A p \in Pids : pc[p] \in Using \ {"ended"} => lease[p].status \in {"starting", "running"}
KidLeases ==
  /\ \A k \in kids : pc[k.pid] # "leasing"
  /\ \A k \in kids :
    /\ lease[k.pid] # NoLease /\ lease[k.pid].life = k.life
    /\ lease[k.pid].commit = k.commit /\ lease[k.pid].status # "finished"
CompleteAlone ==
  \A p \in Pids : complete[p] => up[p] /\ \A k \in kids : k.pid = p => k.life # life[p]
LivesPassed ==
  \A p \in Pids : lease[p] # NoLease => lease[p].life <= life[p]

(* A lease in use: its dispatcher runs, or a child of it does.                *)
InUse(p) == pc[p] \in Using \/ \E k \in kids : k.pid = p

(* While administration reads, every lease in use is still to be read, is     *)
(* being looked at, spares its copy or blocks.                                *)
ReadCovers ==
  apc \in {"read", "classify"} =>
    /\ \A p \in unread : lease[p] # NoLease
    /\ \A p \in Pids : InUse(p) =>
      p \in unread \/ (apc = "classify" /\ apid = p) \/ lease[p].commit \in protected
ClassifyReads ==
  apc = "classify" =>
    /\ apid \in Pids /\ arec # NoLease /\ lease[apid] # NoLease
    /\ InUse(apid) => arec.commit = lease[apid].commit
    /\ arec.status = "finished" => lease[apid].status = "finished"
DoomedUnused ==
  /\ apc \in {"delete", "remove", "unrecord", "unmanifest"} =>
       \A p \in Pids : InUse(p) => lease[p].commit \notin doomed
  /\ apc \in {"remove", "unrecord", "unmanifest"} => acommit \in doomed
FinishedUnused == \A p \in finished : ~InUse(p)
RetiringUnused == apc = "retiring" => apid \in Pids /\ ~InUse(apid)

Dispatching ==
  /\ UpSomewhere /\ LockHeld /\ FreshCopy /\ CheckedCopy /\ LeaseIsOwn /\ LeaseStatus
  /\ KidLeases /\ CompleteAlone /\ LivesPassed
Administering == ReadCovers /\ ClassifyReads /\ DoomedUnused /\ FinishedUnused /\ RetiringUnused
GenInv == GenerationsTypeOK /\ Dispatching /\ Administering /\ CodeStays

LEMMA LeavesTyped ==
  ASSUME AdminLeaves
  PROVE  /\ apc' \in AdminPhases /\ lock' \in Pids \cup {Admin, NoPid}
         /\ unread' \subseteq Pids /\ apid' \in Pids \cup {NoPid}
         /\ arec' \in Lease \cup {NoLease} /\ acommit' \in Commits \cup {NoCommit}
         /\ protected' \subseteq Commits /\ finished' \subseteq Pids /\ blocked' \in BOOLEAN
         /\ doomed' \subseteq Commits
  BY DEF AdminLeaves, AdminPhases

LEMMA TypeInit == Init => GenerationsTypeOK
<1> SUFFICES ASSUME Init PROVE GenerationsTypeOK
  OBVIOUS
<1> USE GenerationsAssumption DEF Init
<1>1. /\ payload \in [Commits -> Copies] /\ manifest \in [Commits -> Copies]
     /\ record \in [Commits -> Copies]
  BY DEF Copies
<1>2. lease \in [Pids -> Lease \cup {NoLease}] /\ kids \subseteq Kid
  OBVIOUS
<1>3. pc \in [Pids -> Starting \cup Using \cup {"dead", "other"}] /\ life \in [Pids -> 0..MaxLives]
  OBVIOUS
<1>4. crashes \in 0..MaxCrashes /\ faults \in 0..MaxFaults /\ apc \in AdminPhases
  BY DEF AdminPhases
<1> QED BY <1>1, <1>2, <1>3, <1>4 DEF GenerationsTypeOK

LEMMA TypeFork ==
  ASSUME GenerationsTypeOK, NEW p \in Pids, Fork(p)
  PROVE  GenerationsTypeOK'
  BY GenerationsAssumption
  DEF GenerationsTypeOK, Copies, Starting, Using, AdminPhases, Goto, store, leases,
      view, budget, Fork

LEMMA TypeCoordinate ==
  ASSUME GenerationsTypeOK, NEW p \in Pids, Coordinate(p)
  PROVE  GenerationsTypeOK'
  BY GenerationsAssumption
  DEF GenerationsTypeOK, Copies, Starting, Using, AdminPhases, Goto, store, leases,
      view, budget, LockFree, Coordinate

LEMMA TypeRunInPlace ==
  ASSUME GenerationsTypeOK, NEW p \in Pids, RunInPlace(p)
  PROVE  GenerationsTypeOK'
  BY GenerationsAssumption
  DEF GenerationsTypeOK, Copies, Starting, Using, AdminPhases, GiveUp, Goto, store,
      leases, view, budget, RunInPlace

LEMMA TypeMaterialize ==
  ASSUME GenerationsTypeOK, NEW p \in Pids, Materialize(p)
  PROVE  GenerationsTypeOK'
  BY GenerationsAssumption
  DEF GenerationsTypeOK, Copies, Starting, Using, AdminPhases, GiveUp, Goto, Raises,
      leases, view, budget, Absent, Valid, AfterPayload, Materialize

LEMMA TypeWriteManifest ==
  ASSUME GenerationsTypeOK, NEW p \in Pids, WriteManifest(p)
  PROVE  GenerationsTypeOK'
  BY GenerationsAssumption
  DEF GenerationsTypeOK, Copies, Starting, Using, AdminPhases, GiveUp, Goto, Raises,
      leases, view, budget, WriteManifest

LEMMA TypeWriteGeneration ==
  ASSUME GenerationsTypeOK, NEW p \in Pids, WriteGeneration(p)
  PROVE  GenerationsTypeOK'
  BY GenerationsAssumption
  DEF GenerationsTypeOK, Copies, Starting, Using, AdminPhases, GiveUp, Goto, Raises,
      leases, view, budget, WriteGeneration

LEMMA TypeValidateNew ==
  ASSUME GenerationsTypeOK, NEW p \in Pids, ValidateNew(p)
  PROVE  GenerationsTypeOK'
  BY GenerationsAssumption
  DEF GenerationsTypeOK, Copies, Starting, Using, AdminPhases, GiveUp, Goto, Raises,
      store, leases, view, budget, ValidateNew

LEMMA TypeCreateLease ==
  ASSUME GenerationsTypeOK, NEW p \in Pids, CreateLease(p)
  PROVE  GenerationsTypeOK'
  BY GenerationsAssumption
  DEF GenerationsTypeOK, Copies, Starting, Using, AdminPhases, GiveUp, Goto, Raises,
      store, view, budget, LeaseReplaceable, CreateLease

LEMMA TypeWriteLease ==
  ASSUME GenerationsTypeOK, UpSomewhere, NEW p \in Pids, WriteLease(p)
  PROVE  GenerationsTypeOK'
<1>1. pin[p] \in Commits /\ life[p] \in 1..MaxLives
  BY DEF UpSomewhere, WriteLease
<1>2. lease' \in [Pids -> Lease \cup {NoLease}]
  <2>1. CASE Rewrite(p, "starting")
    <3>1. [life |-> life[p], commit |-> pin[p], status |-> "starting"] \in Lease
      BY <1>1 DEF Lease, Statuses
    <3> QED BY <2>1, <3>1 DEF Rewrite, GenerationsTypeOK
  <2>2. CASE UNCHANGED lease
    BY <2>2 DEF GenerationsTypeOK
  <2> QED BY <2>1, <2>2 DEF WriteLease
<1>3. faults' \in 0..MaxFaults /\ UNCHANGED crashes
  BY GenerationsAssumption DEF GenerationsTypeOK, Raises, budget, WriteLease
<1> QED
  BY <1>2, <1>3, GenerationsAssumption
  DEF GenerationsTypeOK, Starting, Using, store, procs, view, Goto, GiveUp, WriteLease

LEMMA TypeExecute ==
  ASSUME GenerationsTypeOK, NEW p \in Pids, Execute(p)
  PROVE  GenerationsTypeOK'
  BY GenerationsAssumption
  DEF GenerationsTypeOK, Copies, Starting, Using, AdminPhases, Goto, store, leases,
      view, budget, Execute

LEMMA TypeActivate ==
  ASSUME GenerationsTypeOK, NEW p \in Pids, Activate(p)
  PROVE  GenerationsTypeOK'
  BY GenerationsAssumption
  DEF GenerationsTypeOK, Copies, Starting, Using, AdminPhases, Goto, store, leases,
      view, budget, Activate

LEMMA TypeActivateCheck ==
  ASSUME GenerationsTypeOK, NEW p \in Pids, ActivateCheck(p)
  PROVE  GenerationsTypeOK'
  BY GenerationsAssumption
  DEF GenerationsTypeOK, Copies, Starting, Using, AdminPhases, Goto, Raises, store,
      view, budget, ActivateCheck

LEMMA TypeActivateWrite ==
  ASSUME GenerationsTypeOK, UpSomewhere, NEW p \in Pids, ActivateWrite(p)
  PROVE  GenerationsTypeOK'
<1>1. pin[p] \in Commits /\ life[p] \in 1..MaxLives
  BY DEF UpSomewhere, ActivateWrite
<1>2. lease' \in [Pids -> Lease \cup {NoLease}]
  <2>1. CASE Rewrite(p, "running")
    <3>1. [life |-> life[p], commit |-> pin[p], status |-> "running"] \in Lease
      BY <1>1 DEF Lease, Statuses
    <3> QED BY <2>1, <3>1 DEF Rewrite, GenerationsTypeOK
  <2>2. CASE UNCHANGED lease
    BY <2>2 DEF GenerationsTypeOK
  <2> QED BY <2>1, <2>2 DEF ActivateWrite
<1>3. faults' \in 0..MaxFaults /\ UNCHANGED crashes
  BY GenerationsAssumption DEF GenerationsTypeOK, Raises, budget, ActivateWrite
<1> QED
  BY <1>2, <1>3, GenerationsAssumption
  DEF GenerationsTypeOK, Starting, Using, store, procs, view, Goto, GiveUp, ActivateWrite

LEMMA TypeSpawn ==
  ASSUME GenerationsTypeOK, UpSomewhere, NEW p \in Pids, Spawn(p)
  PROVE  GenerationsTypeOK'
<1>1. pin[p] \in Commits /\ life[p] \in 1..MaxLives
  BY DEF UpSomewhere, Spawn
<1>2. [pid |-> p, life |-> life[p], commit |-> pin[p]] \in Kid
  BY <1>1 DEF Kid
<1> QED BY <1>2 DEF GenerationsTypeOK, store, leases, view, budget, Spawn

LEMMA TypeNoteState ==
  ASSUME GenerationsTypeOK, NEW p \in Pids, NoteState(p)
  PROVE  GenerationsTypeOK'
  BY GenerationsAssumption
  DEF GenerationsTypeOK, Copies, Starting, Using, AdminPhases, Goto, store, view,
      budget, KidsOf, NoteState

LEMMA TypeNoteWrite ==
  ASSUME GenerationsTypeOK, UpSomewhere, NEW p \in Pids, NoteWrite(p)
  PROVE  GenerationsTypeOK'
<1>1. pin[p] \in Commits /\ life[p] \in 1..MaxLives
  BY DEF UpSomewhere, NoteWrite
<1>2. lease' \in [Pids -> Lease \cup {NoLease}]
  <2>1. CASE Rewrite(p, "running")
    <3>1. [life |-> life[p], commit |-> pin[p], status |-> "running"] \in Lease
      BY <1>1 DEF Lease, Statuses
    <3> QED BY <2>1, <3>1 DEF Rewrite, GenerationsTypeOK
  <2>2. CASE UNCHANGED lease
    BY <2>2 DEF GenerationsTypeOK
  <2> QED BY <2>1, <2>2 DEF NoteWrite
<1>3. faults' \in 0..MaxFaults /\ UNCHANGED crashes
  BY GenerationsAssumption DEF GenerationsTypeOK, Raises, budget, NoteWrite
<1> QED
  BY <1>2, <1>3, GenerationsAssumption
  DEF GenerationsTypeOK, Starting, Using, store, procs, view, Goto, GiveUp, NoteWrite

LEMMA TypeFinish ==
  ASSUME GenerationsTypeOK, NEW p \in Pids, Finish(p)
  PROVE  GenerationsTypeOK'
  BY GenerationsAssumption
  DEF GenerationsTypeOK, Copies, Starting, Using, AdminPhases, Goto, store, view,
      budget, Finish

LEMMA TypeFinishWrite ==
  ASSUME GenerationsTypeOK, UpSomewhere, NEW p \in Pids, FinishWrite(p)
  PROVE  GenerationsTypeOK'
<1>1. pin[p] \in Commits /\ life[p] \in 1..MaxLives
  BY DEF UpSomewhere, FinishWrite
<1>2. lease' \in [Pids -> Lease \cup {NoLease}]
  <2>1. CASE Rewrite(p, FinalStatus(p))
    <3>1. [life |-> life[p], commit |-> pin[p], status |-> FinalStatus(p)] \in Lease
      BY <1>1 DEF Lease, Statuses, FinalStatus
    <3> QED BY <2>1, <3>1 DEF Rewrite, GenerationsTypeOK
  <2>2. CASE UNCHANGED lease
    BY <2>2 DEF GenerationsTypeOK
  <2> QED BY <2>1, <2>2 DEF FinishWrite
<1>3. faults' \in 0..MaxFaults /\ UNCHANGED crashes
  BY GenerationsAssumption DEF GenerationsTypeOK, Raises, budget, FinishWrite
<1> QED
  BY <1>2, <1>3, GenerationsAssumption
  DEF GenerationsTypeOK, Starting, Using, store, procs, view, Goto, GiveUp, FinishWrite

LEMMA TypeExit ==
  ASSUME GenerationsTypeOK, NEW p \in Pids, Exit(p)
  PROVE  GenerationsTypeOK'
  BY GenerationsAssumption
  DEF GenerationsTypeOK, Copies, Starting, Using, AdminPhases, Goto, Dies, store,
      leases, view, budget, Exit

LEMMA TypeCrash ==
  ASSUME GenerationsTypeOK, NEW p \in Pids, Crash(p)
  PROVE  GenerationsTypeOK'
  BY GenerationsAssumption
  DEF GenerationsTypeOK, Copies, Starting, Using, AdminPhases, Goto, Dies, leases,
      view, Crash

LEMMA TypeInspectRead ==
  ASSUME GenerationsTypeOK, NEW p \in Pids, InspectRead(p)
  PROVE  GenerationsTypeOK'
  BY GenerationsAssumption
  DEF GenerationsTypeOK, Copies, Starting, Using, AdminPhases, store, procs, leases,
      budget, InspectRead

LEMMA TypeRetireRead ==
  ASSUME GenerationsTypeOK, NEW p \in Pids, RetireRead(p)
  PROVE  GenerationsTypeOK'
<1>1. CASE Extinct(p) /\ apc' = "retiring"
  BY <1>1, GenerationsAssumption
  DEF GenerationsTypeOK, AdminPhases, store, procs, leases, budget, AdminLeaves, RetireRead
<1>2. CASE ~Extinct(p) /\ AdminLeaves
  BY <1>2, GenerationsAssumption
  DEF GenerationsTypeOK, AdminPhases, store, procs, leases, budget, AdminLeaves, RetireRead
<1> QED BY <1>1, <1>2 DEF RetireRead

LEMMA TypeAdminLock ==
  ASSUME GenerationsTypeOK, AdminLock
  PROVE  GenerationsTypeOK'
  BY GenerationsAssumption
  DEF GenerationsTypeOK, Copies, Starting, Using, AdminPhases, store, procs, leases,
      budget, AdminLock

LEMMA TypeInspectLease ==
  ASSUME GenerationsTypeOK, ClassifyReads, InspectLease
  PROVE  GenerationsTypeOK'
<1>1. arec.commit \in Commits
  BY DEF ClassifyReads, GenerationsTypeOK, Lease, InspectLease
<1>2. protected' \subseteq Commits
  BY <1>1 DEF GenerationsTypeOK, Spared, InspectLease
<1>3. finished' \subseteq Pids /\ blocked' \in BOOLEAN
  BY DEF ClassifyReads, GenerationsTypeOK, InspectLease
<1> QED
  BY <1>2, <1>3 DEF GenerationsTypeOK, AdminPhases, store, procs, leases, budget, InspectLease

LEMMA TypeInspect ==
  ASSUME GenerationsTypeOK, Inspect
  PROVE  GenerationsTypeOK'
  BY GenerationsAssumption
  DEF GenerationsTypeOK, Copies, Starting, Using, AdminPhases, AdminLeaves, store,
      procs, leases, budget, Present, Inspect

LEMMA TypeDeletePayload ==
  ASSUME GenerationsTypeOK, DeletePayload
  PROVE  GenerationsTypeOK'
<1>1. PICK c \in doomed :
         \/ /\ Valid(c) /\ payload' = [payload EXCEPT ![c] = "torn"]
            /\ apc' = "remove" /\ acommit' = c
            /\ UNCHANGED <<lock, unread, apid, arec, protected, finished, blocked, doomed>>
         \/ ~Valid(c) /\ AdminLeaves /\ UNCHANGED payload
  BY DEF DeletePayload
<1>2. CASE acommit' = c /\ payload' = [payload EXCEPT ![c] = "torn"] /\ apc' = "remove"
           /\ UNCHANGED <<lock, unread, apid, arec, protected, finished, blocked, doomed>>
  BY <1>2, GenerationsAssumption
  DEF GenerationsTypeOK, Copies, AdminPhases, procs, leases, budget, DeletePayload
<1>3. CASE AdminLeaves /\ UNCHANGED payload
  BY <1>3, GenerationsAssumption
  DEF GenerationsTypeOK, AdminPhases, procs, leases, budget, AdminLeaves, DeletePayload
<1> QED BY <1>1, <1>2, <1>3

LEMMA TypeRemovePayload ==
  ASSUME GenerationsTypeOK, DoomedUnused, RemovePayload
  PROVE  GenerationsTypeOK'
<1>1. acommit \in Commits
  BY DEF DoomedUnused, GenerationsTypeOK, RemovePayload
<1>2. CASE Interrupted /\ UNCHANGED payload
  <2>1. AdminLeaves /\ faults' \in 0..MaxFaults /\ cut' \subseteq Commits /\ UNCHANGED crashes
    BY <1>1, <1>2, GenerationsAssumption DEF GenerationsTypeOK, Raises, Interrupted
  <2> QED BY <1>2, <2>1, LeavesTyped DEF GenerationsTypeOK, procs, leases, RemovePayload
<1>3. CASE payload' = [payload EXCEPT ![acommit] = "none"] /\ apc' = "unrecord"
           /\ UNCHANGED <<lock, view, cut, budget>>
  BY <1>1, <1>3, GenerationsAssumption
  DEF GenerationsTypeOK, Copies, AdminPhases, procs, leases, view, budget, RemovePayload
<1> QED BY <1>2, <1>3 DEF RemovePayload

LEMMA TypeRemoveRecord ==
  ASSUME GenerationsTypeOK, DoomedUnused, RemoveRecord
  PROVE  GenerationsTypeOK'
<1>1. acommit \in Commits
  BY DEF DoomedUnused, GenerationsTypeOK, RemoveRecord
<1>2. CASE Interrupted /\ UNCHANGED record
  <2>1. AdminLeaves /\ faults' \in 0..MaxFaults /\ cut' \subseteq Commits /\ UNCHANGED crashes
    BY <1>1, <1>2, GenerationsAssumption DEF GenerationsTypeOK, Raises, Interrupted
  <2> QED BY <1>2, <2>1, LeavesTyped DEF GenerationsTypeOK, procs, leases, RemoveRecord
<1>3. CASE record' = [record EXCEPT ![acommit] = "none"] /\ apc' = "unmanifest"
           /\ UNCHANGED <<lock, view, cut, budget>>
  BY <1>1, <1>3, GenerationsAssumption
  DEF GenerationsTypeOK, Copies, AdminPhases, procs, leases, view, budget, RemoveRecord
<1> QED BY <1>2, <1>3 DEF RemoveRecord

LEMMA TypeRemoveManifest ==
  ASSUME GenerationsTypeOK, DoomedUnused, RemoveManifest
  PROVE  GenerationsTypeOK'
<1>1. acommit \in Commits
  BY DEF DoomedUnused, GenerationsTypeOK, RemoveManifest
<1>2. CASE Interrupted /\ UNCHANGED manifest
  <2>1. AdminLeaves /\ faults' \in 0..MaxFaults /\ cut' \subseteq Commits /\ UNCHANGED crashes
    BY <1>1, <1>2, GenerationsAssumption DEF GenerationsTypeOK, Raises, Interrupted
  <2> QED BY <1>2, <2>1, LeavesTyped DEF GenerationsTypeOK, procs, leases, RemoveManifest
<1>3. CASE manifest' = [manifest EXCEPT ![acommit] = "none"] /\ apc' = "delete"
           /\ doomed' = doomed \ {acommit} /\ acommit' = NoCommit
           /\ UNCHANGED <<lock, unread, apid, arec, protected, finished, blocked, cut, budget>>
  BY <1>1, <1>3, GenerationsAssumption
  DEF GenerationsTypeOK, Copies, AdminPhases, procs, leases, view, budget, RemoveManifest
<1> QED BY <1>2, <1>3 DEF RemoveManifest

LEMMA TypeRemoveLease ==
  ASSUME GenerationsTypeOK, RemoveLease
  PROVE  GenerationsTypeOK'
  BY GenerationsAssumption
  DEF GenerationsTypeOK, Copies, Starting, Using, AdminPhases, AdminLeaves, store,
      procs, budget, RemoveLease

LEMMA TypeRetireLease ==
  ASSUME GenerationsTypeOK, RetireLease
  PROVE  GenerationsTypeOK'
  BY GenerationsAssumption
  DEF GenerationsTypeOK, Copies, Starting, Using, AdminPhases, AdminLeaves, store,
      procs, budget, RetireLease

LEMMA TypeAdminCrash ==
  ASSUME GenerationsTypeOK, DoomedUnused, AdminCrash
  PROVE  GenerationsTypeOK'
<1>1. cut' \subseteq Commits
  BY DEF DoomedUnused, GenerationsTypeOK, AdminCrash
<1> QED
  BY <1>1, LeavesTyped, GenerationsAssumption
  DEF GenerationsTypeOK, store, procs, leases, AdminCrash

LEMMA TypeHeadMoves ==
  ASSUME GenerationsTypeOK, HeadMoves
  PROVE  GenerationsTypeOK'
  BY GenerationsAssumption
  DEF GenerationsTypeOK, Copies, Starting, Using, AdminPhases, store, procs, leases,
      view, budget, HeadMoves

LEMMA KeepsFork ==
  ASSUME GenInv, GenerationsTypeOK', NEW p \in Pids, Fork(p)
  PROVE  Dispatching' /\ Administering' /\ CodeStays'
<1> USE GenerationsAssumption
    DEF GenInv, GenerationsTypeOK, Copies, Starting, Using, Lease, Kid, LockPhases,
        Valid, Goto, store, leases, view, budget, Fork
<1>1. Dispatching'
  BY DEF Dispatching, UpSomewhere, LockHeld, FreshCopy, CheckedCopy, LeaseIsOwn, LeaseStatus,
      KidLeases, CompleteAlone, LivesPassed
<1>2. Administering'
  BY DEF Dispatching, UpSomewhere, LockHeld, FreshCopy, CheckedCopy, LeaseIsOwn, LeaseStatus,
      KidLeases, CompleteAlone, LivesPassed,
      Administering, ReadCovers, ClassifyReads, DoomedUnused, FinishedUnused, RetiringUnused,
      InUse
<1>3. CodeStays'
  BY DEF Dispatching, UpSomewhere, LockHeld, FreshCopy, CheckedCopy, LeaseIsOwn, LeaseStatus,
      KidLeases, CompleteAlone, LivesPassed,
      Administering, ReadCovers, ClassifyReads, DoomedUnused, FinishedUnused, RetiringUnused,
      InUse, CodeStays
<1> QED BY <1>1, <1>2, <1>3

LEMMA KeepsCoordinate ==
  ASSUME GenInv, GenerationsTypeOK', NEW p \in Pids, Coordinate(p)
  PROVE  Dispatching' /\ Administering' /\ CodeStays'
<1> USE GenerationsAssumption
    DEF GenInv, GenerationsTypeOK, Copies, Starting, Using, Lease, Kid, LockPhases,
        Valid, Goto, store, leases, view, budget, LockFree, Coordinate
<1>1. Dispatching'
  BY DEF Dispatching, UpSomewhere, LockHeld, FreshCopy, CheckedCopy, LeaseIsOwn, LeaseStatus,
      KidLeases, CompleteAlone, LivesPassed
<1>2. Administering'
  BY DEF Dispatching, UpSomewhere, LockHeld, FreshCopy, CheckedCopy, LeaseIsOwn, LeaseStatus,
      KidLeases, CompleteAlone, LivesPassed,
      Administering, ReadCovers, ClassifyReads, DoomedUnused, FinishedUnused, RetiringUnused,
      InUse
<1>3. CodeStays'
  BY DEF Dispatching, UpSomewhere, LockHeld, FreshCopy, CheckedCopy, LeaseIsOwn, LeaseStatus,
      KidLeases, CompleteAlone, LivesPassed,
      Administering, ReadCovers, ClassifyReads, DoomedUnused, FinishedUnused, RetiringUnused,
      InUse, CodeStays
<1> QED BY <1>1, <1>2, <1>3

LEMMA KeepsRunInPlace ==
  ASSUME GenInv, GenerationsTypeOK', NEW p \in Pids, RunInPlace(p)
  PROVE  Dispatching' /\ Administering' /\ CodeStays'
<1> USE GenerationsAssumption
    DEF GenInv, GenerationsTypeOK, Copies, Starting, Using, Lease, Kid, LockPhases,
        Valid, GiveUp, Goto, store, leases, view, budget, RunInPlace
<1>1. Dispatching'
  BY DEF Dispatching, UpSomewhere, LockHeld, FreshCopy, CheckedCopy, LeaseIsOwn, LeaseStatus,
      KidLeases, CompleteAlone, LivesPassed
<1>2. Administering'
  BY DEF Dispatching, UpSomewhere, LockHeld, FreshCopy, CheckedCopy, LeaseIsOwn, LeaseStatus,
      KidLeases, CompleteAlone, LivesPassed,
      Administering, ReadCovers, ClassifyReads, DoomedUnused, FinishedUnused, RetiringUnused,
      InUse
<1>3. CodeStays'
  BY DEF Dispatching, UpSomewhere, LockHeld, FreshCopy, CheckedCopy, LeaseIsOwn, LeaseStatus,
      KidLeases, CompleteAlone, LivesPassed,
      Administering, ReadCovers, ClassifyReads, DoomedUnused, FinishedUnused, RetiringUnused,
      InUse, CodeStays
<1> QED BY <1>1, <1>2, <1>3

LEMMA KeepsMaterialize ==
  ASSUME GenInv, GenerationsTypeOK', NEW p \in Pids, Materialize(p)
  PROVE  Dispatching' /\ Administering' /\ CodeStays'
<1> USE GenerationsAssumption
    DEF GenInv, GenerationsTypeOK, Copies, Starting, Using, Lease, Kid, LockPhases,
        Valid, GiveUp, Goto, Raises, leases, view, budget, Absent, AfterPayload,
        Materialize
<1>1. Dispatching'
  BY DEF Dispatching, UpSomewhere, LockHeld, FreshCopy, CheckedCopy, LeaseIsOwn, LeaseStatus,
      KidLeases, CompleteAlone, LivesPassed
<1>2. Administering'
  BY DEF Dispatching, UpSomewhere, LockHeld, FreshCopy, CheckedCopy, LeaseIsOwn, LeaseStatus,
      KidLeases, CompleteAlone, LivesPassed,
      Administering, ReadCovers, ClassifyReads, DoomedUnused, FinishedUnused, RetiringUnused,
      InUse
<1>3. CodeStays'
  BY DEF Dispatching, UpSomewhere, LockHeld, FreshCopy, CheckedCopy, LeaseIsOwn, LeaseStatus,
      KidLeases, CompleteAlone, LivesPassed,
      Administering, ReadCovers, ClassifyReads, DoomedUnused, FinishedUnused, RetiringUnused,
      InUse, CodeStays
<1> QED BY <1>1, <1>2, <1>3

LEMMA KeepsWriteManifest ==
  ASSUME GenInv, GenerationsTypeOK', NEW p \in Pids, WriteManifest(p)
  PROVE  Dispatching' /\ Administering' /\ CodeStays'
<1> USE GenerationsAssumption
    DEF GenInv, GenerationsTypeOK, Copies, Starting, Using, Lease, Kid, LockPhases,
        Valid, GiveUp, Goto, Raises, leases, view, budget, WriteManifest
<1>1. Dispatching'
  BY DEF Dispatching, UpSomewhere, LockHeld, FreshCopy, CheckedCopy, LeaseIsOwn, LeaseStatus,
      KidLeases, CompleteAlone, LivesPassed
<1>2. Administering'
  BY DEF Dispatching, UpSomewhere, LockHeld, FreshCopy, CheckedCopy, LeaseIsOwn, LeaseStatus,
      KidLeases, CompleteAlone, LivesPassed,
      Administering, ReadCovers, ClassifyReads, DoomedUnused, FinishedUnused, RetiringUnused,
      InUse
<1>3. CodeStays'
  BY DEF Dispatching, UpSomewhere, LockHeld, FreshCopy, CheckedCopy, LeaseIsOwn, LeaseStatus,
      KidLeases, CompleteAlone, LivesPassed,
      Administering, ReadCovers, ClassifyReads, DoomedUnused, FinishedUnused, RetiringUnused,
      InUse, CodeStays
<1> QED BY <1>1, <1>2, <1>3

LEMMA KeepsWriteGeneration ==
  ASSUME GenInv, GenerationsTypeOK', NEW p \in Pids, WriteGeneration(p)
  PROVE  Dispatching' /\ Administering' /\ CodeStays'
<1> USE GenerationsAssumption
    DEF GenInv, GenerationsTypeOK, Copies, Starting, Using, Lease, Kid, LockPhases,
        Valid, GiveUp, Goto, Raises, leases, view, budget, WriteGeneration
<1>1. Dispatching'
  BY DEF Dispatching, UpSomewhere, LockHeld, FreshCopy, CheckedCopy, LeaseIsOwn, LeaseStatus,
      KidLeases, CompleteAlone, LivesPassed
<1>2. Administering'
  BY DEF Dispatching, UpSomewhere, LockHeld, FreshCopy, CheckedCopy, LeaseIsOwn, LeaseStatus,
      KidLeases, CompleteAlone, LivesPassed,
      Administering, ReadCovers, ClassifyReads, DoomedUnused, FinishedUnused, RetiringUnused,
      InUse
<1>3. CodeStays'
  BY DEF Dispatching, UpSomewhere, LockHeld, FreshCopy, CheckedCopy, LeaseIsOwn, LeaseStatus,
      KidLeases, CompleteAlone, LivesPassed,
      Administering, ReadCovers, ClassifyReads, DoomedUnused, FinishedUnused, RetiringUnused,
      InUse, CodeStays
<1> QED BY <1>1, <1>2, <1>3

LEMMA KeepsValidateNew ==
  ASSUME GenInv, GenerationsTypeOK', NEW p \in Pids, ValidateNew(p)
  PROVE  Dispatching' /\ Administering' /\ CodeStays'
<1> USE GenerationsAssumption
    DEF GenInv, GenerationsTypeOK, Copies, Starting, Using, Lease, Kid, LockPhases,
        Valid, GiveUp, Goto, Raises, store, leases, view, budget, ValidateNew
<1>1. Dispatching'
  BY DEF Dispatching, UpSomewhere, LockHeld, FreshCopy, CheckedCopy, LeaseIsOwn, LeaseStatus,
      KidLeases, CompleteAlone, LivesPassed
<1>2. Administering'
  BY DEF Dispatching, UpSomewhere, LockHeld, FreshCopy, CheckedCopy, LeaseIsOwn, LeaseStatus,
      KidLeases, CompleteAlone, LivesPassed,
      Administering, ReadCovers, ClassifyReads, DoomedUnused, FinishedUnused, RetiringUnused,
      InUse
<1>3. CodeStays'
  BY DEF Dispatching, UpSomewhere, LockHeld, FreshCopy, CheckedCopy, LeaseIsOwn, LeaseStatus,
      KidLeases, CompleteAlone, LivesPassed,
      Administering, ReadCovers, ClassifyReads, DoomedUnused, FinishedUnused, RetiringUnused,
      InUse, CodeStays
<1> QED BY <1>1, <1>2, <1>3

LEMMA KeepsCreateLease ==
  ASSUME GenInv, GenerationsTypeOK', NEW p \in Pids, CreateLease(p)
  PROVE  Dispatching' /\ Administering' /\ CodeStays'
<1> USE GenerationsAssumption
    DEF GenInv, GenerationsTypeOK, Copies, Starting, Using, Lease, Kid, LockPhases,
        Valid, GiveUp, Goto, Raises, store, view, budget, LeaseReplaceable,
        CreateLease
<1>1. Dispatching'
  BY DEF Dispatching, UpSomewhere, LockHeld, FreshCopy, CheckedCopy, LeaseIsOwn, LeaseStatus,
      KidLeases, CompleteAlone, LivesPassed
<1>2. Administering'
  BY DEF Dispatching, UpSomewhere, LockHeld, FreshCopy, CheckedCopy, LeaseIsOwn, LeaseStatus,
      KidLeases, CompleteAlone, LivesPassed,
      Administering, ReadCovers, ClassifyReads, DoomedUnused, FinishedUnused, RetiringUnused,
      InUse
<1>3. CodeStays'
  BY DEF Dispatching, UpSomewhere, LockHeld, FreshCopy, CheckedCopy, LeaseIsOwn, LeaseStatus,
      KidLeases, CompleteAlone, LivesPassed,
      Administering, ReadCovers, ClassifyReads, DoomedUnused, FinishedUnused, RetiringUnused,
      InUse, CodeStays
<1> QED BY <1>1, <1>2, <1>3

LEMMA KeepsWriteLease ==
  ASSUME GenInv, GenerationsTypeOK', NEW p \in Pids, WriteLease(p)
  PROVE  Dispatching' /\ Administering' /\ CodeStays'
<1> USE GenerationsAssumption
    DEF GenInv, GenerationsTypeOK, Copies, Starting, Using, Lease, Kid, LockPhases,
        Valid, GiveUp, Goto, Raises, Rewrite, store, view, budget, WriteLease
<1>1. Dispatching'
  <2>1. UpSomewhere'
    BY DEF Dispatching, UpSomewhere, LockHeld, FreshCopy, CheckedCopy, LeaseIsOwn, LeaseStatus,
      KidLeases, CompleteAlone, LivesPassed
  <2>2. LockHeld'
    BY DEF Dispatching, UpSomewhere, LockHeld, FreshCopy, CheckedCopy, LeaseIsOwn, LeaseStatus,
      KidLeases, CompleteAlone, LivesPassed
  <2>3. FreshCopy'
    BY DEF Dispatching, UpSomewhere, LockHeld, FreshCopy, CheckedCopy, LeaseIsOwn, LeaseStatus,
      KidLeases, CompleteAlone, LivesPassed
  <2>4. CheckedCopy'
    BY DEF Dispatching, UpSomewhere, LockHeld, FreshCopy, CheckedCopy, LeaseIsOwn, LeaseStatus,
      KidLeases, CompleteAlone, LivesPassed
  <2>5. LeaseIsOwn'
    BY DEF Dispatching, UpSomewhere, LockHeld, FreshCopy, CheckedCopy, LeaseIsOwn, LeaseStatus,
      KidLeases, CompleteAlone, LivesPassed
  <2>6. LeaseStatus'
    BY DEF Dispatching, UpSomewhere, LockHeld, FreshCopy, CheckedCopy, LeaseIsOwn, LeaseStatus,
      KidLeases, CompleteAlone, LivesPassed
  <2>7. KidLeases'
    BY DEF Dispatching, UpSomewhere, LockHeld, FreshCopy, CheckedCopy, LeaseIsOwn, LeaseStatus,
      KidLeases, CompleteAlone, LivesPassed
  <2>8. CompleteAlone'
    BY DEF Dispatching, UpSomewhere, LockHeld, FreshCopy, CheckedCopy, LeaseIsOwn, LeaseStatus,
      KidLeases, CompleteAlone, LivesPassed
  <2>9. LivesPassed'
    BY DEF Dispatching, UpSomewhere, LockHeld, FreshCopy, CheckedCopy, LeaseIsOwn, LeaseStatus,
      KidLeases, CompleteAlone, LivesPassed
  <2> QED BY <2>1, <2>2, <2>3, <2>4, <2>5, <2>6, <2>7, <2>8, <2>9 DEF Dispatching
<1>2. Administering'
  <2>1. ReadCovers'
    BY DEF Dispatching, UpSomewhere, LockHeld, FreshCopy, CheckedCopy, LeaseIsOwn, LeaseStatus,
      KidLeases, CompleteAlone, LivesPassed,
        Administering, ReadCovers, ClassifyReads, DoomedUnused, FinishedUnused, RetiringUnused,
      InUse
  <2>2. ClassifyReads'
    BY DEF Dispatching, UpSomewhere, LockHeld, FreshCopy, CheckedCopy, LeaseIsOwn, LeaseStatus,
      KidLeases, CompleteAlone, LivesPassed,
        Administering, ReadCovers, ClassifyReads, DoomedUnused, FinishedUnused, RetiringUnused,
      InUse
  <2>3. DoomedUnused'
    BY DEF Dispatching, UpSomewhere, LockHeld, FreshCopy, CheckedCopy, LeaseIsOwn, LeaseStatus,
      KidLeases, CompleteAlone, LivesPassed,
        Administering, ReadCovers, ClassifyReads, DoomedUnused, FinishedUnused, RetiringUnused,
      InUse
  <2>4. FinishedUnused'
    BY DEF Dispatching, UpSomewhere, LockHeld, FreshCopy, CheckedCopy, LeaseIsOwn, LeaseStatus,
      KidLeases, CompleteAlone, LivesPassed,
        Administering, ReadCovers, ClassifyReads, DoomedUnused, FinishedUnused, RetiringUnused,
      InUse
  <2>5. RetiringUnused'
    BY DEF Dispatching, UpSomewhere, LockHeld, FreshCopy, CheckedCopy, LeaseIsOwn, LeaseStatus,
      KidLeases, CompleteAlone, LivesPassed,
        Administering, ReadCovers, ClassifyReads, DoomedUnused, FinishedUnused, RetiringUnused,
      InUse
  <2> QED BY <2>1, <2>2, <2>3, <2>4, <2>5 DEF Administering
<1>3. CodeStays'
  BY DEF Dispatching, UpSomewhere, LockHeld, FreshCopy, CheckedCopy, LeaseIsOwn, LeaseStatus,
      KidLeases, CompleteAlone, LivesPassed,
      Administering, ReadCovers, ClassifyReads, DoomedUnused, FinishedUnused, RetiringUnused,
      InUse, CodeStays
<1> QED BY <1>1, <1>2, <1>3

LEMMA KeepsExecute ==
  ASSUME GenInv, GenerationsTypeOK', NEW p \in Pids, Execute(p)
  PROVE  Dispatching' /\ Administering' /\ CodeStays'
<1> USE GenerationsAssumption
    DEF GenInv, GenerationsTypeOK, Copies, Starting, Using, Lease, Kid, LockPhases,
        Valid, Goto, store, leases, view, budget, Execute
<1>1. Dispatching'
  BY DEF Dispatching, UpSomewhere, LockHeld, FreshCopy, CheckedCopy, LeaseIsOwn, LeaseStatus,
      KidLeases, CompleteAlone, LivesPassed
<1>2. Administering'
  BY DEF Dispatching, UpSomewhere, LockHeld, FreshCopy, CheckedCopy, LeaseIsOwn, LeaseStatus,
      KidLeases, CompleteAlone, LivesPassed,
      Administering, ReadCovers, ClassifyReads, DoomedUnused, FinishedUnused, RetiringUnused,
      InUse
<1>3. CodeStays'
  BY DEF Dispatching, UpSomewhere, LockHeld, FreshCopy, CheckedCopy, LeaseIsOwn, LeaseStatus,
      KidLeases, CompleteAlone, LivesPassed,
      Administering, ReadCovers, ClassifyReads, DoomedUnused, FinishedUnused, RetiringUnused,
      InUse, CodeStays
<1> QED BY <1>1, <1>2, <1>3

LEMMA KeepsActivate ==
  ASSUME GenInv, GenerationsTypeOK', NEW p \in Pids, Activate(p)
  PROVE  Dispatching' /\ Administering' /\ CodeStays'
<1> USE GenerationsAssumption
    DEF GenInv, GenerationsTypeOK, Copies, Starting, Using, Lease, Kid, LockPhases,
        Valid, Goto, store, leases, view, budget, Activate
<1>1. Dispatching'
  BY DEF Dispatching, UpSomewhere, LockHeld, FreshCopy, CheckedCopy, LeaseIsOwn, LeaseStatus,
      KidLeases, CompleteAlone, LivesPassed
<1>2. Administering'
  BY DEF Dispatching, UpSomewhere, LockHeld, FreshCopy, CheckedCopy, LeaseIsOwn, LeaseStatus,
      KidLeases, CompleteAlone, LivesPassed,
      Administering, ReadCovers, ClassifyReads, DoomedUnused, FinishedUnused, RetiringUnused,
      InUse
<1>3. CodeStays'
  BY DEF Dispatching, UpSomewhere, LockHeld, FreshCopy, CheckedCopy, LeaseIsOwn, LeaseStatus,
      KidLeases, CompleteAlone, LivesPassed,
      Administering, ReadCovers, ClassifyReads, DoomedUnused, FinishedUnused, RetiringUnused,
      InUse, CodeStays
<1> QED BY <1>1, <1>2, <1>3

LEMMA KeepsActivateCheck ==
  ASSUME GenInv, GenerationsTypeOK', NEW p \in Pids, ActivateCheck(p)
  PROVE  Dispatching' /\ Administering' /\ CodeStays'
<1> USE GenerationsAssumption
    DEF GenInv, GenerationsTypeOK, Copies, Starting, Using, Lease, Kid, LockPhases,
        Valid, Goto, Raises, store, view, budget, ActivateCheck
<1>1. Dispatching'
  BY DEF Dispatching, UpSomewhere, LockHeld, FreshCopy, CheckedCopy, LeaseIsOwn, LeaseStatus,
      KidLeases, CompleteAlone, LivesPassed
<1>2. Administering'
  BY DEF Dispatching, UpSomewhere, LockHeld, FreshCopy, CheckedCopy, LeaseIsOwn, LeaseStatus,
      KidLeases, CompleteAlone, LivesPassed,
      Administering, ReadCovers, ClassifyReads, DoomedUnused, FinishedUnused, RetiringUnused,
      InUse
<1>3. CodeStays'
  BY DEF Dispatching, UpSomewhere, LockHeld, FreshCopy, CheckedCopy, LeaseIsOwn, LeaseStatus,
      KidLeases, CompleteAlone, LivesPassed,
      Administering, ReadCovers, ClassifyReads, DoomedUnused, FinishedUnused, RetiringUnused,
      InUse, CodeStays
<1> QED BY <1>1, <1>2, <1>3

LEMMA KeepsActivateWrite ==
  ASSUME GenInv, GenerationsTypeOK', NEW p \in Pids, ActivateWrite(p)
  PROVE  Dispatching' /\ Administering' /\ CodeStays'
<1> USE GenerationsAssumption
    DEF GenInv, GenerationsTypeOK, Copies, Starting, Using, Lease, Kid, LockPhases,
        Valid, Goto, Raises, Rewrite, store, view, budget, ActivateWrite
<1>1. Dispatching'
  <2>1. UpSomewhere'
    BY DEF Dispatching, UpSomewhere, LockHeld, FreshCopy, CheckedCopy, LeaseIsOwn, LeaseStatus,
      KidLeases, CompleteAlone, LivesPassed
  <2>2. LockHeld'
    BY DEF Dispatching, UpSomewhere, LockHeld, FreshCopy, CheckedCopy, LeaseIsOwn, LeaseStatus,
      KidLeases, CompleteAlone, LivesPassed
  <2>3. FreshCopy'
    BY DEF Dispatching, UpSomewhere, LockHeld, FreshCopy, CheckedCopy, LeaseIsOwn, LeaseStatus,
      KidLeases, CompleteAlone, LivesPassed
  <2>4. CheckedCopy'
    BY DEF Dispatching, UpSomewhere, LockHeld, FreshCopy, CheckedCopy, LeaseIsOwn, LeaseStatus,
      KidLeases, CompleteAlone, LivesPassed
  <2>5. LeaseIsOwn'
    BY DEF Dispatching, UpSomewhere, LockHeld, FreshCopy, CheckedCopy, LeaseIsOwn, LeaseStatus,
      KidLeases, CompleteAlone, LivesPassed
  <2>6. LeaseStatus'
    BY DEF Dispatching, UpSomewhere, LockHeld, FreshCopy, CheckedCopy, LeaseIsOwn, LeaseStatus,
      KidLeases, CompleteAlone, LivesPassed
  <2>7. KidLeases'
    BY DEF Dispatching, UpSomewhere, LockHeld, FreshCopy, CheckedCopy, LeaseIsOwn, LeaseStatus,
      KidLeases, CompleteAlone, LivesPassed
  <2>8. CompleteAlone'
    BY DEF Dispatching, UpSomewhere, LockHeld, FreshCopy, CheckedCopy, LeaseIsOwn, LeaseStatus,
      KidLeases, CompleteAlone, LivesPassed
  <2>9. LivesPassed'
    BY DEF Dispatching, UpSomewhere, LockHeld, FreshCopy, CheckedCopy, LeaseIsOwn, LeaseStatus,
      KidLeases, CompleteAlone, LivesPassed
  <2> QED BY <2>1, <2>2, <2>3, <2>4, <2>5, <2>6, <2>7, <2>8, <2>9 DEF Dispatching
<1>2. Administering'
  BY DEF Dispatching, UpSomewhere, LockHeld, FreshCopy, CheckedCopy, LeaseIsOwn, LeaseStatus,
      KidLeases, CompleteAlone, LivesPassed,
      Administering, ReadCovers, ClassifyReads, DoomedUnused, FinishedUnused, RetiringUnused,
      InUse
<1>3. CodeStays'
  BY DEF Dispatching, UpSomewhere, LockHeld, FreshCopy, CheckedCopy, LeaseIsOwn, LeaseStatus,
      KidLeases, CompleteAlone, LivesPassed,
      Administering, ReadCovers, ClassifyReads, DoomedUnused, FinishedUnused, RetiringUnused,
      InUse, CodeStays
<1> QED BY <1>1, <1>2, <1>3

LEMMA KeepsSpawn ==
  ASSUME GenInv, GenerationsTypeOK', NEW p \in Pids, Spawn(p)
  PROVE  Dispatching' /\ Administering' /\ CodeStays'
<1> USE GenerationsAssumption
    DEF GenInv, GenerationsTypeOK, Copies, Starting, Using, Lease, Kid, LockPhases,
        Valid, store, leases, view, budget, Spawn
<1>1. Dispatching'
  BY DEF Dispatching, UpSomewhere, LockHeld, FreshCopy, CheckedCopy, LeaseIsOwn, LeaseStatus,
      KidLeases, CompleteAlone, LivesPassed
<1>2. Administering'
  BY DEF Dispatching, UpSomewhere, LockHeld, FreshCopy, CheckedCopy, LeaseIsOwn, LeaseStatus,
      KidLeases, CompleteAlone, LivesPassed,
      Administering, ReadCovers, ClassifyReads, DoomedUnused, FinishedUnused, RetiringUnused,
      InUse
<1>3. CodeStays'
  BY DEF Dispatching, UpSomewhere, LockHeld, FreshCopy, CheckedCopy, LeaseIsOwn, LeaseStatus,
      KidLeases, CompleteAlone, LivesPassed,
      Administering, ReadCovers, ClassifyReads, DoomedUnused, FinishedUnused, RetiringUnused,
      InUse, CodeStays
<1> QED BY <1>1, <1>2, <1>3

LEMMA KeepsNoteState ==
  ASSUME GenInv, GenerationsTypeOK', NEW p \in Pids, NoteState(p)
  PROVE  Dispatching' /\ Administering' /\ CodeStays'
<1> USE GenerationsAssumption
    DEF GenInv, GenerationsTypeOK, Copies, Starting, Using, Lease, Kid, LockPhases,
        Valid, Goto, store, view, budget, KidsOf, NoteState
<1>1. Dispatching'
  BY DEF Dispatching, UpSomewhere, LockHeld, FreshCopy, CheckedCopy, LeaseIsOwn, LeaseStatus,
      KidLeases, CompleteAlone, LivesPassed
<1>2. Administering'
  BY DEF Dispatching, UpSomewhere, LockHeld, FreshCopy, CheckedCopy, LeaseIsOwn, LeaseStatus,
      KidLeases, CompleteAlone, LivesPassed,
      Administering, ReadCovers, ClassifyReads, DoomedUnused, FinishedUnused, RetiringUnused,
      InUse
<1>3. CodeStays'
  BY DEF Dispatching, UpSomewhere, LockHeld, FreshCopy, CheckedCopy, LeaseIsOwn, LeaseStatus,
      KidLeases, CompleteAlone, LivesPassed,
      Administering, ReadCovers, ClassifyReads, DoomedUnused, FinishedUnused, RetiringUnused,
      InUse, CodeStays
<1> QED BY <1>1, <1>2, <1>3

LEMMA KeepsNoteWrite ==
  ASSUME GenInv, GenerationsTypeOK', NEW p \in Pids, NoteWrite(p)
  PROVE  Dispatching' /\ Administering' /\ CodeStays'
<1> USE GenerationsAssumption
    DEF GenInv, GenerationsTypeOK, Copies, Starting, Using, Lease, Kid, LockPhases,
        Valid, Goto, Raises, Rewrite, store, view, budget, NoteWrite
<1>1. Dispatching'
  <2>1. UpSomewhere'
    BY DEF Dispatching, UpSomewhere, LockHeld, FreshCopy, CheckedCopy, LeaseIsOwn, LeaseStatus,
      KidLeases, CompleteAlone, LivesPassed
  <2>2. LockHeld'
    BY DEF Dispatching, UpSomewhere, LockHeld, FreshCopy, CheckedCopy, LeaseIsOwn, LeaseStatus,
      KidLeases, CompleteAlone, LivesPassed
  <2>3. FreshCopy'
    BY DEF Dispatching, UpSomewhere, LockHeld, FreshCopy, CheckedCopy, LeaseIsOwn, LeaseStatus,
      KidLeases, CompleteAlone, LivesPassed
  <2>4. CheckedCopy'
    BY DEF Dispatching, UpSomewhere, LockHeld, FreshCopy, CheckedCopy, LeaseIsOwn, LeaseStatus,
      KidLeases, CompleteAlone, LivesPassed
  <2>5. LeaseIsOwn'
    BY DEF Dispatching, UpSomewhere, LockHeld, FreshCopy, CheckedCopy, LeaseIsOwn, LeaseStatus,
      KidLeases, CompleteAlone, LivesPassed
  <2>6. LeaseStatus'
    BY DEF Dispatching, UpSomewhere, LockHeld, FreshCopy, CheckedCopy, LeaseIsOwn, LeaseStatus,
      KidLeases, CompleteAlone, LivesPassed
  <2>7. KidLeases'
    BY DEF Dispatching, UpSomewhere, LockHeld, FreshCopy, CheckedCopy, LeaseIsOwn, LeaseStatus,
      KidLeases, CompleteAlone, LivesPassed
  <2>8. CompleteAlone'
    BY DEF Dispatching, UpSomewhere, LockHeld, FreshCopy, CheckedCopy, LeaseIsOwn, LeaseStatus,
      KidLeases, CompleteAlone, LivesPassed
  <2>9. LivesPassed'
    BY DEF Dispatching, UpSomewhere, LockHeld, FreshCopy, CheckedCopy, LeaseIsOwn, LeaseStatus,
      KidLeases, CompleteAlone, LivesPassed
  <2> QED BY <2>1, <2>2, <2>3, <2>4, <2>5, <2>6, <2>7, <2>8, <2>9 DEF Dispatching
<1>2. Administering'
  BY DEF Dispatching, UpSomewhere, LockHeld, FreshCopy, CheckedCopy, LeaseIsOwn, LeaseStatus,
      KidLeases, CompleteAlone, LivesPassed,
      Administering, ReadCovers, ClassifyReads, DoomedUnused, FinishedUnused, RetiringUnused,
      InUse
<1>3. CodeStays'
  BY DEF Dispatching, UpSomewhere, LockHeld, FreshCopy, CheckedCopy, LeaseIsOwn, LeaseStatus,
      KidLeases, CompleteAlone, LivesPassed,
      Administering, ReadCovers, ClassifyReads, DoomedUnused, FinishedUnused, RetiringUnused,
      InUse, CodeStays
<1> QED BY <1>1, <1>2, <1>3

LEMMA KeepsFinish ==
  ASSUME GenInv, GenerationsTypeOK', NEW p \in Pids, Finish(p)
  PROVE  Dispatching' /\ Administering' /\ CodeStays'
<1> USE GenerationsAssumption
    DEF GenInv, GenerationsTypeOK, Copies, Starting, Using, Lease, Kid, LockPhases,
        Valid, Goto, store, view, budget, Finish
<1>1. Dispatching'
  BY DEF Dispatching, UpSomewhere, LockHeld, FreshCopy, CheckedCopy, LeaseIsOwn, LeaseStatus,
      KidLeases, CompleteAlone, LivesPassed
<1>2. Administering'
  BY DEF Dispatching, UpSomewhere, LockHeld, FreshCopy, CheckedCopy, LeaseIsOwn, LeaseStatus,
      KidLeases, CompleteAlone, LivesPassed,
      Administering, ReadCovers, ClassifyReads, DoomedUnused, FinishedUnused, RetiringUnused,
      InUse
<1>3. CodeStays'
  BY DEF Dispatching, UpSomewhere, LockHeld, FreshCopy, CheckedCopy, LeaseIsOwn, LeaseStatus,
      KidLeases, CompleteAlone, LivesPassed,
      Administering, ReadCovers, ClassifyReads, DoomedUnused, FinishedUnused, RetiringUnused,
      InUse, CodeStays
<1> QED BY <1>1, <1>2, <1>3

LEMMA KeepsFinishWrite ==
  ASSUME GenInv, GenerationsTypeOK', NEW p \in Pids, FinishWrite(p)
  PROVE  Dispatching' /\ Administering' /\ CodeStays'
<1> USE GenerationsAssumption
    DEF GenInv, GenerationsTypeOK, Copies, Starting, Using, Lease, Kid, LockPhases,
        Valid, Goto, Raises, Rewrite, store, view, budget, FinalStatus, FinishWrite
<1>1. Dispatching'
  <2>1. UpSomewhere'
    BY DEF Dispatching, UpSomewhere, LockHeld, FreshCopy, CheckedCopy, LeaseIsOwn, LeaseStatus,
      KidLeases, CompleteAlone, LivesPassed
  <2>2. LockHeld'
    BY DEF Dispatching, UpSomewhere, LockHeld, FreshCopy, CheckedCopy, LeaseIsOwn, LeaseStatus,
      KidLeases, CompleteAlone, LivesPassed
  <2>3. FreshCopy'
    BY DEF Dispatching, UpSomewhere, LockHeld, FreshCopy, CheckedCopy, LeaseIsOwn, LeaseStatus,
      KidLeases, CompleteAlone, LivesPassed
  <2>4. CheckedCopy'
    BY DEF Dispatching, UpSomewhere, LockHeld, FreshCopy, CheckedCopy, LeaseIsOwn, LeaseStatus,
      KidLeases, CompleteAlone, LivesPassed
  <2>5. LeaseIsOwn'
    BY DEF Dispatching, UpSomewhere, LockHeld, FreshCopy, CheckedCopy, LeaseIsOwn, LeaseStatus,
      KidLeases, CompleteAlone, LivesPassed
  <2>6. LeaseStatus'
    BY DEF Dispatching, UpSomewhere, LockHeld, FreshCopy, CheckedCopy, LeaseIsOwn, LeaseStatus,
      KidLeases, CompleteAlone, LivesPassed
  <2>7. KidLeases'
    BY DEF Dispatching, UpSomewhere, LockHeld, FreshCopy, CheckedCopy, LeaseIsOwn, LeaseStatus,
      KidLeases, CompleteAlone, LivesPassed
  <2>8. CompleteAlone'
    BY DEF Dispatching, UpSomewhere, LockHeld, FreshCopy, CheckedCopy, LeaseIsOwn, LeaseStatus,
      KidLeases, CompleteAlone, LivesPassed
  <2>9. LivesPassed'
    BY DEF Dispatching, UpSomewhere, LockHeld, FreshCopy, CheckedCopy, LeaseIsOwn, LeaseStatus,
      KidLeases, CompleteAlone, LivesPassed
  <2> QED BY <2>1, <2>2, <2>3, <2>4, <2>5, <2>6, <2>7, <2>8, <2>9 DEF Dispatching
<1>2. Administering'
  BY DEF Dispatching, UpSomewhere, LockHeld, FreshCopy, CheckedCopy, LeaseIsOwn, LeaseStatus,
      KidLeases, CompleteAlone, LivesPassed,
      Administering, ReadCovers, ClassifyReads, DoomedUnused, FinishedUnused, RetiringUnused,
      InUse
<1>3. CodeStays'
  BY DEF Dispatching, UpSomewhere, LockHeld, FreshCopy, CheckedCopy, LeaseIsOwn, LeaseStatus,
      KidLeases, CompleteAlone, LivesPassed,
      Administering, ReadCovers, ClassifyReads, DoomedUnused, FinishedUnused, RetiringUnused,
      InUse, CodeStays
<1> QED BY <1>1, <1>2, <1>3

LEMMA KeepsExit ==
  ASSUME GenInv, GenerationsTypeOK', NEW p \in Pids, Exit(p)
  PROVE  Dispatching' /\ Administering' /\ CodeStays'
<1> USE GenerationsAssumption
    DEF GenInv, GenerationsTypeOK, Copies, Starting, Using, Lease, Kid, LockPhases,
        Valid, Goto, Dies, store, leases, view, budget, Exit
<1>1. Dispatching'
  BY DEF Dispatching, UpSomewhere, LockHeld, FreshCopy, CheckedCopy, LeaseIsOwn, LeaseStatus,
      KidLeases, CompleteAlone, LivesPassed
<1>2. Administering'
  BY DEF Dispatching, UpSomewhere, LockHeld, FreshCopy, CheckedCopy, LeaseIsOwn, LeaseStatus,
      KidLeases, CompleteAlone, LivesPassed,
      Administering, ReadCovers, ClassifyReads, DoomedUnused, FinishedUnused, RetiringUnused,
      InUse
<1>3. CodeStays'
  BY DEF Dispatching, UpSomewhere, LockHeld, FreshCopy, CheckedCopy, LeaseIsOwn, LeaseStatus,
      KidLeases, CompleteAlone, LivesPassed,
      Administering, ReadCovers, ClassifyReads, DoomedUnused, FinishedUnused, RetiringUnused,
      InUse, CodeStays
<1> QED BY <1>1, <1>2, <1>3

LEMMA KeepsCrash ==
  ASSUME GenInv, GenerationsTypeOK', NEW p \in Pids, Crash(p)
  PROVE  Dispatching' /\ Administering' /\ CodeStays'
<1> USE GenerationsAssumption
    DEF GenInv, GenerationsTypeOK, Copies, Starting, Using, Lease, Kid, LockPhases,
        Valid, Goto, Dies, leases, view, Crash
<1>1. Dispatching'
  BY DEF Dispatching, UpSomewhere, LockHeld, FreshCopy, CheckedCopy, LeaseIsOwn, LeaseStatus,
      KidLeases, CompleteAlone, LivesPassed
<1>2. Administering'
  BY DEF Dispatching, UpSomewhere, LockHeld, FreshCopy, CheckedCopy, LeaseIsOwn, LeaseStatus,
      KidLeases, CompleteAlone, LivesPassed,
      Administering, ReadCovers, ClassifyReads, DoomedUnused, FinishedUnused, RetiringUnused,
      InUse
<1>3. CodeStays'
  BY DEF Dispatching, UpSomewhere, LockHeld, FreshCopy, CheckedCopy, LeaseIsOwn, LeaseStatus,
      KidLeases, CompleteAlone, LivesPassed,
      Administering, ReadCovers, ClassifyReads, DoomedUnused, FinishedUnused, RetiringUnused,
      InUse, CodeStays
<1> QED BY <1>1, <1>2, <1>3

LEMMA KeepsInspectRead ==
  ASSUME GenInv, GenerationsTypeOK', NEW p \in Pids, InspectRead(p)
  PROVE  Dispatching' /\ Administering' /\ CodeStays'
<1> USE GenerationsAssumption
    DEF GenInv, GenerationsTypeOK, Copies, Starting, Using, Lease, Kid, LockPhases,
        Valid, store, procs, leases, budget, InspectRead
<1>1. Dispatching'
  <2>1. UpSomewhere'
    BY DEF Dispatching, UpSomewhere, LockHeld, FreshCopy, CheckedCopy, LeaseIsOwn, LeaseStatus,
      KidLeases, CompleteAlone, LivesPassed
  <2>2. LockHeld'
    BY DEF Dispatching, UpSomewhere, LockHeld, FreshCopy, CheckedCopy, LeaseIsOwn, LeaseStatus,
      KidLeases, CompleteAlone, LivesPassed
  <2>3. FreshCopy'
    BY DEF Dispatching, UpSomewhere, LockHeld, FreshCopy, CheckedCopy, LeaseIsOwn, LeaseStatus,
      KidLeases, CompleteAlone, LivesPassed
  <2>4. CheckedCopy'
    BY DEF Dispatching, UpSomewhere, LockHeld, FreshCopy, CheckedCopy, LeaseIsOwn, LeaseStatus,
      KidLeases, CompleteAlone, LivesPassed
  <2>5. LeaseIsOwn'
    BY DEF Dispatching, UpSomewhere, LockHeld, FreshCopy, CheckedCopy, LeaseIsOwn, LeaseStatus,
      KidLeases, CompleteAlone, LivesPassed
  <2>6. LeaseStatus'
    BY DEF Dispatching, UpSomewhere, LockHeld, FreshCopy, CheckedCopy, LeaseIsOwn, LeaseStatus,
      KidLeases, CompleteAlone, LivesPassed
  <2>7. KidLeases'
    BY DEF Dispatching, UpSomewhere, LockHeld, FreshCopy, CheckedCopy, LeaseIsOwn, LeaseStatus,
      KidLeases, CompleteAlone, LivesPassed
  <2>8. CompleteAlone'
    BY DEF Dispatching, UpSomewhere, LockHeld, FreshCopy, CheckedCopy, LeaseIsOwn, LeaseStatus,
      KidLeases, CompleteAlone, LivesPassed
  <2>9. LivesPassed'
    BY DEF Dispatching, UpSomewhere, LockHeld, FreshCopy, CheckedCopy, LeaseIsOwn, LeaseStatus,
      KidLeases, CompleteAlone, LivesPassed
  <2> QED BY <2>1, <2>2, <2>3, <2>4, <2>5, <2>6, <2>7, <2>8, <2>9 DEF Dispatching
<1>2. Administering'
  <2>1. ReadCovers'
    BY DEF Dispatching, UpSomewhere, LockHeld, FreshCopy, CheckedCopy, LeaseIsOwn, LeaseStatus,
      KidLeases, CompleteAlone, LivesPassed,
        Administering, ReadCovers, ClassifyReads, DoomedUnused, FinishedUnused, RetiringUnused,
      InUse
  <2>2. ClassifyReads'
    BY DEF Dispatching, UpSomewhere, LockHeld, FreshCopy, CheckedCopy, LeaseIsOwn, LeaseStatus,
      KidLeases, CompleteAlone, LivesPassed,
        Administering, ReadCovers, ClassifyReads, DoomedUnused, FinishedUnused, RetiringUnused,
      InUse
  <2>3. DoomedUnused'
    BY DEF Dispatching, UpSomewhere, LockHeld, FreshCopy, CheckedCopy, LeaseIsOwn, LeaseStatus,
      KidLeases, CompleteAlone, LivesPassed,
        Administering, ReadCovers, ClassifyReads, DoomedUnused, FinishedUnused, RetiringUnused,
      InUse
  <2>4. FinishedUnused'
    BY DEF Dispatching, UpSomewhere, LockHeld, FreshCopy, CheckedCopy, LeaseIsOwn, LeaseStatus,
      KidLeases, CompleteAlone, LivesPassed,
        Administering, ReadCovers, ClassifyReads, DoomedUnused, FinishedUnused, RetiringUnused,
      InUse
  <2>5. RetiringUnused'
    BY DEF Dispatching, UpSomewhere, LockHeld, FreshCopy, CheckedCopy, LeaseIsOwn, LeaseStatus,
      KidLeases, CompleteAlone, LivesPassed,
        Administering, ReadCovers, ClassifyReads, DoomedUnused, FinishedUnused, RetiringUnused,
      InUse
  <2> QED BY <2>1, <2>2, <2>3, <2>4, <2>5 DEF Administering
<1>3. CodeStays'
  BY DEF Dispatching, UpSomewhere, LockHeld, FreshCopy, CheckedCopy, LeaseIsOwn, LeaseStatus,
      KidLeases, CompleteAlone, LivesPassed,
      Administering, ReadCovers, ClassifyReads, DoomedUnused, FinishedUnused, RetiringUnused,
      InUse, CodeStays
<1> QED BY <1>1, <1>2, <1>3

LEMMA KeepsRetireRead ==
  ASSUME GenInv, GenerationsTypeOK', NEW p \in Pids, RetireRead(p)
  PROVE  Dispatching' /\ Administering' /\ CodeStays'
<1> USE GenerationsAssumption
    DEF GenInv, GenerationsTypeOK, Copies, Starting, Using, Lease, Kid, LockPhases,
        Valid, AdminLeaves, store, procs, leases, budget, Extinct, KidsOf, RetireRead
<1>1. Dispatching'
  BY DEF Dispatching, UpSomewhere, LockHeld, FreshCopy, CheckedCopy, LeaseIsOwn, LeaseStatus,
      KidLeases, CompleteAlone, LivesPassed
<1>2. Administering'
  BY DEF Dispatching, UpSomewhere, LockHeld, FreshCopy, CheckedCopy, LeaseIsOwn, LeaseStatus,
      KidLeases, CompleteAlone, LivesPassed,
      Administering, ReadCovers, ClassifyReads, DoomedUnused, FinishedUnused, RetiringUnused,
      InUse
<1>3. CodeStays'
  BY DEF Dispatching, UpSomewhere, LockHeld, FreshCopy, CheckedCopy, LeaseIsOwn, LeaseStatus,
      KidLeases, CompleteAlone, LivesPassed,
      Administering, ReadCovers, ClassifyReads, DoomedUnused, FinishedUnused, RetiringUnused,
      InUse, CodeStays
<1> QED BY <1>1, <1>2, <1>3

LEMMA KeepsAdminLock ==
  ASSUME GenInv, GenerationsTypeOK', AdminLock
  PROVE  Dispatching' /\ Administering' /\ CodeStays'
<1> USE GenerationsAssumption
    DEF GenInv, GenerationsTypeOK, Copies, Starting, Using, Lease, Kid, LockPhases,
        Valid, store, procs, leases, budget, AdminLock
<1>1. Dispatching'
  BY DEF Dispatching, UpSomewhere, LockHeld, FreshCopy, CheckedCopy, LeaseIsOwn, LeaseStatus,
      KidLeases, CompleteAlone, LivesPassed
<1>2. Administering'
  BY DEF Dispatching, UpSomewhere, LockHeld, FreshCopy, CheckedCopy, LeaseIsOwn, LeaseStatus,
      KidLeases, CompleteAlone, LivesPassed,
      Administering, ReadCovers, ClassifyReads, DoomedUnused, FinishedUnused, RetiringUnused,
      InUse
<1>3. CodeStays'
  BY DEF Dispatching, UpSomewhere, LockHeld, FreshCopy, CheckedCopy, LeaseIsOwn, LeaseStatus,
      KidLeases, CompleteAlone, LivesPassed,
      Administering, ReadCovers, ClassifyReads, DoomedUnused, FinishedUnused, RetiringUnused,
      InUse, CodeStays
<1> QED BY <1>1, <1>2, <1>3

LEMMA KeepsInspectLease ==
  ASSUME GenInv, GenerationsTypeOK', InspectLease
  PROVE  Dispatching' /\ Administering' /\ CodeStays'
<1> USE GenerationsAssumption
    DEF GenInv, GenerationsTypeOK, Copies, Starting, Using, Lease, Kid, LockPhases,
        Valid, store, procs, leases, budget, Spared, Safe, InspectLease
<1>1. Dispatching'
  BY DEF Dispatching, UpSomewhere, LockHeld, FreshCopy, CheckedCopy, LeaseIsOwn, LeaseStatus,
      KidLeases, CompleteAlone, LivesPassed
<1>2. Administering'
  BY DEF Dispatching, UpSomewhere, LockHeld, FreshCopy, CheckedCopy, LeaseIsOwn, LeaseStatus,
      KidLeases, CompleteAlone, LivesPassed,
      Administering, ReadCovers, ClassifyReads, DoomedUnused, FinishedUnused, RetiringUnused,
      InUse
<1>3. CodeStays'
  BY DEF Dispatching, UpSomewhere, LockHeld, FreshCopy, CheckedCopy, LeaseIsOwn, LeaseStatus,
      KidLeases, CompleteAlone, LivesPassed,
      Administering, ReadCovers, ClassifyReads, DoomedUnused, FinishedUnused, RetiringUnused,
      InUse, CodeStays
<1> QED BY <1>1, <1>2, <1>3

LEMMA KeepsInspect ==
  ASSUME GenInv, GenerationsTypeOK', Inspect
  PROVE  Dispatching' /\ Administering' /\ CodeStays'
<1> USE GenerationsAssumption
    DEF GenInv, GenerationsTypeOK, Copies, Starting, Using, Lease, Kid, LockPhases,
        Valid, AdminLeaves, store, procs, leases, budget, Present, Inspect
<1>1. Dispatching'
  BY DEF Dispatching, UpSomewhere, LockHeld, FreshCopy, CheckedCopy, LeaseIsOwn, LeaseStatus,
      KidLeases, CompleteAlone, LivesPassed
<1>2. Administering'
  BY DEF Dispatching, UpSomewhere, LockHeld, FreshCopy, CheckedCopy, LeaseIsOwn, LeaseStatus,
      KidLeases, CompleteAlone, LivesPassed,
      Administering, ReadCovers, ClassifyReads, DoomedUnused, FinishedUnused, RetiringUnused,
      InUse
<1>3. CodeStays'
  BY DEF Dispatching, UpSomewhere, LockHeld, FreshCopy, CheckedCopy, LeaseIsOwn, LeaseStatus,
      KidLeases, CompleteAlone, LivesPassed,
      Administering, ReadCovers, ClassifyReads, DoomedUnused, FinishedUnused, RetiringUnused,
      InUse, CodeStays
<1> QED BY <1>1, <1>2, <1>3

LEMMA KeepsDeletePayload ==
  ASSUME GenInv, GenerationsTypeOK', DeletePayload
  PROVE  Dispatching' /\ Administering' /\ CodeStays'
<1> USE GenerationsAssumption
    DEF GenInv, GenerationsTypeOK, Copies, Starting, Using, Lease, Kid, LockPhases,
        Valid, AdminLeaves, procs, leases, budget, DeletePayload
<1>1. Dispatching'
  BY DEF Dispatching, UpSomewhere, LockHeld, FreshCopy, CheckedCopy, LeaseIsOwn, LeaseStatus,
      KidLeases, CompleteAlone, LivesPassed
<1>2. Administering'
  BY DEF Dispatching, UpSomewhere, LockHeld, FreshCopy, CheckedCopy, LeaseIsOwn, LeaseStatus,
      KidLeases, CompleteAlone, LivesPassed,
      Administering, ReadCovers, ClassifyReads, DoomedUnused, FinishedUnused, RetiringUnused,
      InUse
<1>3. CodeStays'
  BY DEF Dispatching, UpSomewhere, LockHeld, FreshCopy, CheckedCopy, LeaseIsOwn, LeaseStatus,
      KidLeases, CompleteAlone, LivesPassed,
      Administering, ReadCovers, ClassifyReads, DoomedUnused, FinishedUnused, RetiringUnused,
      InUse, CodeStays
<1> QED BY <1>1, <1>2, <1>3

LEMMA KeepsRemovePayload ==
  ASSUME GenInv, GenerationsTypeOK', RemovePayload
  PROVE  Dispatching' /\ Administering' /\ CodeStays'
<1> USE GenerationsAssumption
    DEF GenInv, GenerationsTypeOK, Copies, Starting, Using, Lease, Kid, LockPhases,
        Valid, Raises, AdminLeaves, Interrupted, procs, leases, view, budget,
        RemovePayload
<1>1. Dispatching'
  BY DEF Dispatching, UpSomewhere, LockHeld, FreshCopy, CheckedCopy, LeaseIsOwn, LeaseStatus,
      KidLeases, CompleteAlone, LivesPassed
<1>2. Administering'
  BY DEF Dispatching, UpSomewhere, LockHeld, FreshCopy, CheckedCopy, LeaseIsOwn, LeaseStatus,
      KidLeases, CompleteAlone, LivesPassed,
      Administering, ReadCovers, ClassifyReads, DoomedUnused, FinishedUnused, RetiringUnused,
      InUse
<1>3. CodeStays'
  BY DEF Dispatching, UpSomewhere, LockHeld, FreshCopy, CheckedCopy, LeaseIsOwn, LeaseStatus,
      KidLeases, CompleteAlone, LivesPassed,
      Administering, ReadCovers, ClassifyReads, DoomedUnused, FinishedUnused, RetiringUnused,
      InUse, CodeStays
<1> QED BY <1>1, <1>2, <1>3

LEMMA KeepsRemoveRecord ==
  ASSUME GenInv, GenerationsTypeOK', RemoveRecord
  PROVE  Dispatching' /\ Administering' /\ CodeStays'
<1> USE GenerationsAssumption
    DEF GenInv, GenerationsTypeOK, Copies, Starting, Using, Lease, Kid, LockPhases,
        Valid, Raises, AdminLeaves, Interrupted, procs, leases, view, budget,
        RemoveRecord
<1>1. Dispatching'
  BY DEF Dispatching, UpSomewhere, LockHeld, FreshCopy, CheckedCopy, LeaseIsOwn, LeaseStatus,
      KidLeases, CompleteAlone, LivesPassed
<1>2. Administering'
  BY DEF Dispatching, UpSomewhere, LockHeld, FreshCopy, CheckedCopy, LeaseIsOwn, LeaseStatus,
      KidLeases, CompleteAlone, LivesPassed,
      Administering, ReadCovers, ClassifyReads, DoomedUnused, FinishedUnused, RetiringUnused,
      InUse
<1>3. CodeStays'
  BY DEF Dispatching, UpSomewhere, LockHeld, FreshCopy, CheckedCopy, LeaseIsOwn, LeaseStatus,
      KidLeases, CompleteAlone, LivesPassed,
      Administering, ReadCovers, ClassifyReads, DoomedUnused, FinishedUnused, RetiringUnused,
      InUse, CodeStays
<1> QED BY <1>1, <1>2, <1>3

LEMMA KeepsRemoveManifest ==
  ASSUME GenInv, GenerationsTypeOK', RemoveManifest
  PROVE  Dispatching' /\ Administering' /\ CodeStays'
<1> USE GenerationsAssumption
    DEF GenInv, GenerationsTypeOK, Copies, Starting, Using, Lease, Kid, LockPhases,
        Valid, Raises, AdminLeaves, Interrupted, procs, leases, budget, RemoveManifest
<1>1. Dispatching'
  BY DEF Dispatching, UpSomewhere, LockHeld, FreshCopy, CheckedCopy, LeaseIsOwn, LeaseStatus,
      KidLeases, CompleteAlone, LivesPassed
<1>2. Administering'
  BY DEF Dispatching, UpSomewhere, LockHeld, FreshCopy, CheckedCopy, LeaseIsOwn, LeaseStatus,
      KidLeases, CompleteAlone, LivesPassed,
      Administering, ReadCovers, ClassifyReads, DoomedUnused, FinishedUnused, RetiringUnused,
      InUse
<1>3. CodeStays'
  BY DEF Dispatching, UpSomewhere, LockHeld, FreshCopy, CheckedCopy, LeaseIsOwn, LeaseStatus,
      KidLeases, CompleteAlone, LivesPassed,
      Administering, ReadCovers, ClassifyReads, DoomedUnused, FinishedUnused, RetiringUnused,
      InUse, CodeStays
<1> QED BY <1>1, <1>2, <1>3

LEMMA KeepsRemoveLease ==
  ASSUME GenInv, GenerationsTypeOK', RemoveLease
  PROVE  Dispatching' /\ Administering' /\ CodeStays'
<1> USE GenerationsAssumption
    DEF GenInv, GenerationsTypeOK, Copies, Starting, Using, Lease, Kid, LockPhases,
        Valid, AdminLeaves, store, procs, budget, RemoveLease
<1>1. Dispatching'
  <2>1. UpSomewhere'
    BY DEF Dispatching, UpSomewhere, LockHeld, FreshCopy, CheckedCopy, LeaseIsOwn, LeaseStatus,
      KidLeases, CompleteAlone, LivesPassed, InUse, FinishedUnused, RetiringUnused, Administering
  <2>2. LockHeld'
    BY DEF Dispatching, UpSomewhere, LockHeld, FreshCopy, CheckedCopy, LeaseIsOwn, LeaseStatus,
      KidLeases, CompleteAlone, LivesPassed, InUse, FinishedUnused, RetiringUnused, Administering
  <2>3. FreshCopy'
    BY DEF Dispatching, UpSomewhere, LockHeld, FreshCopy, CheckedCopy, LeaseIsOwn, LeaseStatus,
      KidLeases, CompleteAlone, LivesPassed, InUse, FinishedUnused, RetiringUnused, Administering
  <2>4. CheckedCopy'
    BY DEF Dispatching, UpSomewhere, LockHeld, FreshCopy, CheckedCopy, LeaseIsOwn, LeaseStatus,
      KidLeases, CompleteAlone, LivesPassed, InUse, FinishedUnused, RetiringUnused, Administering
  <2>5. LeaseIsOwn'
    BY DEF Dispatching, UpSomewhere, LockHeld, FreshCopy, CheckedCopy, LeaseIsOwn, LeaseStatus,
      KidLeases, CompleteAlone, LivesPassed, InUse, FinishedUnused, RetiringUnused, Administering
  <2>6. LeaseStatus'
    BY DEF Dispatching, UpSomewhere, LockHeld, FreshCopy, CheckedCopy, LeaseIsOwn, LeaseStatus,
      KidLeases, CompleteAlone, LivesPassed, InUse, FinishedUnused, RetiringUnused, Administering
  <2>7. KidLeases'
    BY DEF Dispatching, UpSomewhere, LockHeld, FreshCopy, CheckedCopy, LeaseIsOwn, LeaseStatus,
      KidLeases, CompleteAlone, LivesPassed, InUse, FinishedUnused, RetiringUnused, Administering
  <2>8. CompleteAlone'
    BY DEF Dispatching, UpSomewhere, LockHeld, FreshCopy, CheckedCopy, LeaseIsOwn, LeaseStatus,
      KidLeases, CompleteAlone, LivesPassed, InUse, FinishedUnused, RetiringUnused, Administering
  <2>9. LivesPassed'
    BY DEF Dispatching, UpSomewhere, LockHeld, FreshCopy, CheckedCopy, LeaseIsOwn, LeaseStatus,
      KidLeases, CompleteAlone, LivesPassed, InUse, FinishedUnused, RetiringUnused, Administering
  <2> QED BY <2>1, <2>2, <2>3, <2>4, <2>5, <2>6, <2>7, <2>8, <2>9 DEF Dispatching
<1>2. Administering'
  <2>1. ReadCovers'
    BY DEF Dispatching, UpSomewhere, LockHeld, FreshCopy, CheckedCopy, LeaseIsOwn, LeaseStatus,
      KidLeases, CompleteAlone, LivesPassed,
        Administering, ReadCovers, ClassifyReads, DoomedUnused, FinishedUnused, RetiringUnused,
      InUse
  <2>2. ClassifyReads'
    BY DEF Dispatching, UpSomewhere, LockHeld, FreshCopy, CheckedCopy, LeaseIsOwn, LeaseStatus,
      KidLeases, CompleteAlone, LivesPassed,
        Administering, ReadCovers, ClassifyReads, DoomedUnused, FinishedUnused, RetiringUnused,
      InUse
  <2>3. DoomedUnused'
    BY DEF Dispatching, UpSomewhere, LockHeld, FreshCopy, CheckedCopy, LeaseIsOwn, LeaseStatus,
      KidLeases, CompleteAlone, LivesPassed,
        Administering, ReadCovers, ClassifyReads, DoomedUnused, FinishedUnused, RetiringUnused,
      InUse
  <2>4. FinishedUnused'
    BY DEF Dispatching, UpSomewhere, LockHeld, FreshCopy, CheckedCopy, LeaseIsOwn, LeaseStatus,
      KidLeases, CompleteAlone, LivesPassed,
        Administering, ReadCovers, ClassifyReads, DoomedUnused, FinishedUnused, RetiringUnused,
      InUse
  <2>5. RetiringUnused'
    BY DEF Dispatching, UpSomewhere, LockHeld, FreshCopy, CheckedCopy, LeaseIsOwn, LeaseStatus,
      KidLeases, CompleteAlone, LivesPassed,
        Administering, ReadCovers, ClassifyReads, DoomedUnused, FinishedUnused, RetiringUnused,
      InUse
  <2> QED BY <2>1, <2>2, <2>3, <2>4, <2>5 DEF Administering
<1>3. CodeStays'
  BY DEF Dispatching, UpSomewhere, LockHeld, FreshCopy, CheckedCopy, LeaseIsOwn, LeaseStatus,
      KidLeases, CompleteAlone, LivesPassed,
      Administering, ReadCovers, ClassifyReads, DoomedUnused, FinishedUnused, RetiringUnused,
      InUse, CodeStays
<1> QED BY <1>1, <1>2, <1>3

LEMMA KeepsRetireLease ==
  ASSUME GenInv, GenerationsTypeOK', RetireLease
  PROVE  Dispatching' /\ Administering' /\ CodeStays'
<1> USE GenerationsAssumption
    DEF GenInv, GenerationsTypeOK, Copies, Starting, Using, Lease, Kid, LockPhases,
        Valid, AdminLeaves, store, procs, budget, RetireLease
<1>1. Dispatching'
  <2>1. UpSomewhere'
    BY DEF Dispatching, UpSomewhere, LockHeld, FreshCopy, CheckedCopy, LeaseIsOwn, LeaseStatus,
      KidLeases, CompleteAlone, LivesPassed, InUse, FinishedUnused, RetiringUnused, Administering
  <2>2. LockHeld'
    BY DEF Dispatching, UpSomewhere, LockHeld, FreshCopy, CheckedCopy, LeaseIsOwn, LeaseStatus,
      KidLeases, CompleteAlone, LivesPassed, InUse, FinishedUnused, RetiringUnused, Administering
  <2>3. FreshCopy'
    BY DEF Dispatching, UpSomewhere, LockHeld, FreshCopy, CheckedCopy, LeaseIsOwn, LeaseStatus,
      KidLeases, CompleteAlone, LivesPassed, InUse, FinishedUnused, RetiringUnused, Administering
  <2>4. CheckedCopy'
    BY DEF Dispatching, UpSomewhere, LockHeld, FreshCopy, CheckedCopy, LeaseIsOwn, LeaseStatus,
      KidLeases, CompleteAlone, LivesPassed, InUse, FinishedUnused, RetiringUnused, Administering
  <2>5. LeaseIsOwn'
    BY DEF Dispatching, UpSomewhere, LockHeld, FreshCopy, CheckedCopy, LeaseIsOwn, LeaseStatus,
      KidLeases, CompleteAlone, LivesPassed, InUse, FinishedUnused, RetiringUnused, Administering
  <2>6. LeaseStatus'
    BY DEF Dispatching, UpSomewhere, LockHeld, FreshCopy, CheckedCopy, LeaseIsOwn, LeaseStatus,
      KidLeases, CompleteAlone, LivesPassed, InUse, FinishedUnused, RetiringUnused, Administering
  <2>7. KidLeases'
    BY DEF Dispatching, UpSomewhere, LockHeld, FreshCopy, CheckedCopy, LeaseIsOwn, LeaseStatus,
      KidLeases, CompleteAlone, LivesPassed, InUse, FinishedUnused, RetiringUnused, Administering
  <2>8. CompleteAlone'
    BY DEF Dispatching, UpSomewhere, LockHeld, FreshCopy, CheckedCopy, LeaseIsOwn, LeaseStatus,
      KidLeases, CompleteAlone, LivesPassed, InUse, FinishedUnused, RetiringUnused, Administering
  <2>9. LivesPassed'
    BY DEF Dispatching, UpSomewhere, LockHeld, FreshCopy, CheckedCopy, LeaseIsOwn, LeaseStatus,
      KidLeases, CompleteAlone, LivesPassed, InUse, FinishedUnused, RetiringUnused, Administering
  <2> QED BY <2>1, <2>2, <2>3, <2>4, <2>5, <2>6, <2>7, <2>8, <2>9 DEF Dispatching
<1>2. Administering'
  <2>1. ReadCovers'
    BY DEF Dispatching, UpSomewhere, LockHeld, FreshCopy, CheckedCopy, LeaseIsOwn, LeaseStatus,
      KidLeases, CompleteAlone, LivesPassed,
        Administering, ReadCovers, ClassifyReads, DoomedUnused, FinishedUnused, RetiringUnused,
      InUse
  <2>2. ClassifyReads'
    BY DEF Dispatching, UpSomewhere, LockHeld, FreshCopy, CheckedCopy, LeaseIsOwn, LeaseStatus,
      KidLeases, CompleteAlone, LivesPassed,
        Administering, ReadCovers, ClassifyReads, DoomedUnused, FinishedUnused, RetiringUnused,
      InUse
  <2>3. DoomedUnused'
    BY DEF Dispatching, UpSomewhere, LockHeld, FreshCopy, CheckedCopy, LeaseIsOwn, LeaseStatus,
      KidLeases, CompleteAlone, LivesPassed,
        Administering, ReadCovers, ClassifyReads, DoomedUnused, FinishedUnused, RetiringUnused,
      InUse
  <2>4. FinishedUnused'
    BY DEF Dispatching, UpSomewhere, LockHeld, FreshCopy, CheckedCopy, LeaseIsOwn, LeaseStatus,
      KidLeases, CompleteAlone, LivesPassed,
        Administering, ReadCovers, ClassifyReads, DoomedUnused, FinishedUnused, RetiringUnused,
      InUse
  <2>5. RetiringUnused'
    BY DEF Dispatching, UpSomewhere, LockHeld, FreshCopy, CheckedCopy, LeaseIsOwn, LeaseStatus,
      KidLeases, CompleteAlone, LivesPassed,
        Administering, ReadCovers, ClassifyReads, DoomedUnused, FinishedUnused, RetiringUnused,
      InUse
  <2> QED BY <2>1, <2>2, <2>3, <2>4, <2>5 DEF Administering
<1>3. CodeStays'
  BY DEF Dispatching, UpSomewhere, LockHeld, FreshCopy, CheckedCopy, LeaseIsOwn, LeaseStatus,
      KidLeases, CompleteAlone, LivesPassed,
      Administering, ReadCovers, ClassifyReads, DoomedUnused, FinishedUnused, RetiringUnused,
      InUse, CodeStays
<1> QED BY <1>1, <1>2, <1>3

LEMMA KeepsAdminCrash ==
  ASSUME GenInv, GenerationsTypeOK', AdminCrash
  PROVE  Dispatching' /\ Administering' /\ CodeStays'
<1> USE GenerationsAssumption
    DEF GenInv, GenerationsTypeOK, Copies, Starting, Using, Lease, Kid, LockPhases,
        Valid, AdminLeaves, store, procs, leases, AdminCrash
<1>1. Dispatching'
  BY DEF Dispatching, UpSomewhere, LockHeld, FreshCopy, CheckedCopy, LeaseIsOwn, LeaseStatus,
      KidLeases, CompleteAlone, LivesPassed
<1>2. Administering'
  BY DEF Dispatching, UpSomewhere, LockHeld, FreshCopy, CheckedCopy, LeaseIsOwn, LeaseStatus,
      KidLeases, CompleteAlone, LivesPassed,
      Administering, ReadCovers, ClassifyReads, DoomedUnused, FinishedUnused, RetiringUnused,
      InUse
<1>3. CodeStays'
  BY DEF Dispatching, UpSomewhere, LockHeld, FreshCopy, CheckedCopy, LeaseIsOwn, LeaseStatus,
      KidLeases, CompleteAlone, LivesPassed,
      Administering, ReadCovers, ClassifyReads, DoomedUnused, FinishedUnused, RetiringUnused,
      InUse, CodeStays
<1> QED BY <1>1, <1>2, <1>3

LEMMA KeepsHeadMoves ==
  ASSUME GenInv, GenerationsTypeOK', HeadMoves
  PROVE  Dispatching' /\ Administering' /\ CodeStays'
<1> USE GenerationsAssumption
    DEF GenInv, GenerationsTypeOK, Copies, Starting, Using, Lease, Kid, LockPhases,
        Valid, store, procs, leases, view, budget, HeadMoves
<1>1. Dispatching'
  BY DEF Dispatching, UpSomewhere, LockHeld, FreshCopy, CheckedCopy, LeaseIsOwn, LeaseStatus,
      KidLeases, CompleteAlone, LivesPassed
<1>2. Administering'
  BY DEF Dispatching, UpSomewhere, LockHeld, FreshCopy, CheckedCopy, LeaseIsOwn, LeaseStatus,
      KidLeases, CompleteAlone, LivesPassed,
      Administering, ReadCovers, ClassifyReads, DoomedUnused, FinishedUnused, RetiringUnused,
      InUse
<1>3. CodeStays'
  BY DEF Dispatching, UpSomewhere, LockHeld, FreshCopy, CheckedCopy, LeaseIsOwn, LeaseStatus,
      KidLeases, CompleteAlone, LivesPassed,
      Administering, ReadCovers, ClassifyReads, DoomedUnused, FinishedUnused, RetiringUnused,
      InUse, CodeStays
<1> QED BY <1>1, <1>2, <1>3

LEMMA KeepsChildEnds ==
  ASSUME GenInv, NEW k \in kids, ChildEnds(k)
  PROVE  GenInv'
<1>1. GenerationsTypeOK'
  BY DEF GenInv, GenerationsTypeOK, store, leases, view, budget, ChildEnds
<1> USE DEF GenInv, GenerationsTypeOK, Kid, store, leases, view, budget, Valid, ChildEnds
<1>2. Dispatching'
  BY DEF Dispatching, UpSomewhere, LockHeld, FreshCopy, CheckedCopy, LeaseIsOwn, LeaseStatus,
      KidLeases, CompleteAlone, LivesPassed
<1>3. Administering'
  BY DEF Administering, ReadCovers, ClassifyReads, DoomedUnused, FinishedUnused, RetiringUnused,
      InUse
<1>4. CodeStays'
  BY DEF CodeStays
<1> QED BY <1>1, <1>2, <1>3, <1>4

LEMMA GenStutters == GenInv /\ UNCHANGED vars => GenInv'
<1> SUFFICES ASSUME GenInv, UNCHANGED vars PROVE GenInv'
  OBVIOUS
<1> USE DEF vars, store, procs, leases, view, budget, GenInv
<1>1. GenerationsTypeOK'
  BY DEF GenerationsTypeOK
<1>2. Dispatching'
  BY DEF Dispatching, UpSomewhere, LockHeld, FreshCopy, CheckedCopy, LeaseIsOwn, LeaseStatus,
      KidLeases, CompleteAlone, LivesPassed, Valid
<1>3. Administering'
  BY DEF Administering, ReadCovers, ClassifyReads, DoomedUnused, FinishedUnused, RetiringUnused,
      InUse
<1>4. CodeStays'
  BY DEF CodeStays, Valid
<1> QED BY <1>1, <1>2, <1>3, <1>4

LEMMA GenStart == Init => GenInv
<1> SUFFICES ASSUME Init PROVE GenInv
  OBVIOUS
<1>1. GenerationsTypeOK
  BY TypeInit
<1> USE GenerationsAssumption DEF Init, Starting, Using, LockPhases
<1>2. Dispatching
  BY DEF Dispatching, UpSomewhere, LockHeld, FreshCopy, CheckedCopy, LeaseIsOwn, LeaseStatus,
      KidLeases, CompleteAlone, LivesPassed
<1>3. Administering
  BY DEF Administering, ReadCovers, ClassifyReads, DoomedUnused, FinishedUnused, RetiringUnused,
      InUse
<1>4. CodeStays
  BY DEF CodeStays
<1> QED BY <1>1, <1>2, <1>3, <1>4 DEF GenInv

LEMMA GenStep == GenInv /\ [Next]_vars => GenInv'
<1> SUFFICES ASSUME GenInv, Next PROVE GenInv'
  BY GenStutters
<1>1. ASSUME GenInv, NEW p \in Pids, Fork(p) PROVE GenInv'
  BY <1>1, TypeFork, KeepsFork DEF GenInv, Dispatching, Administering
<1>2. ASSUME GenInv, NEW p \in Pids, Coordinate(p) PROVE GenInv'
  BY <1>2, TypeCoordinate, KeepsCoordinate DEF GenInv, Dispatching, Administering
<1>3. ASSUME GenInv, NEW p \in Pids, RunInPlace(p) PROVE GenInv'
  BY <1>3, TypeRunInPlace, KeepsRunInPlace DEF GenInv, Dispatching, Administering
<1>4. ASSUME GenInv, NEW p \in Pids, Materialize(p) PROVE GenInv'
  BY <1>4, TypeMaterialize, KeepsMaterialize DEF GenInv, Dispatching, Administering
<1>5. ASSUME GenInv, NEW p \in Pids, WriteManifest(p) PROVE GenInv'
  BY <1>5, TypeWriteManifest, KeepsWriteManifest DEF GenInv, Dispatching, Administering
<1>6. ASSUME GenInv, NEW p \in Pids, WriteGeneration(p) PROVE GenInv'
  BY <1>6, TypeWriteGeneration, KeepsWriteGeneration DEF GenInv, Dispatching, Administering
<1>7. ASSUME GenInv, NEW p \in Pids, ValidateNew(p) PROVE GenInv'
  BY <1>7, TypeValidateNew, KeepsValidateNew DEF GenInv, Dispatching, Administering
<1>8. ASSUME GenInv, NEW p \in Pids, CreateLease(p) PROVE GenInv'
  BY <1>8, TypeCreateLease, KeepsCreateLease DEF GenInv, Dispatching, Administering
<1>9. ASSUME GenInv, NEW p \in Pids, WriteLease(p) PROVE GenInv'
  BY <1>9, TypeWriteLease, KeepsWriteLease DEF GenInv, Dispatching, Administering
<1>10. ASSUME GenInv, NEW p \in Pids, Execute(p) PROVE GenInv'
  BY <1>10, TypeExecute, KeepsExecute DEF GenInv, Dispatching, Administering
<1>11. ASSUME GenInv, NEW p \in Pids, Activate(p) PROVE GenInv'
  BY <1>11, TypeActivate, KeepsActivate DEF GenInv, Dispatching, Administering
<1>12. ASSUME GenInv, NEW p \in Pids, ActivateCheck(p) PROVE GenInv'
  BY <1>12, TypeActivateCheck, KeepsActivateCheck DEF GenInv, Dispatching, Administering
<1>13. ASSUME GenInv, NEW p \in Pids, ActivateWrite(p) PROVE GenInv'
  BY <1>13, TypeActivateWrite, KeepsActivateWrite DEF GenInv, Dispatching, Administering
<1>14. ASSUME GenInv, NEW p \in Pids, Spawn(p) PROVE GenInv'
  BY <1>14, TypeSpawn, KeepsSpawn DEF GenInv, Dispatching, Administering
<1>15. ASSUME GenInv, NEW p \in Pids, NoteState(p) PROVE GenInv'
  BY <1>15, TypeNoteState, KeepsNoteState DEF GenInv, Dispatching, Administering
<1>16. ASSUME GenInv, NEW p \in Pids, NoteWrite(p) PROVE GenInv'
  BY <1>16, TypeNoteWrite, KeepsNoteWrite DEF GenInv, Dispatching, Administering
<1>17. ASSUME GenInv, NEW p \in Pids, Finish(p) PROVE GenInv'
  BY <1>17, TypeFinish, KeepsFinish DEF GenInv, Dispatching, Administering
<1>18. ASSUME GenInv, NEW p \in Pids, FinishWrite(p) PROVE GenInv'
  BY <1>18, TypeFinishWrite, KeepsFinishWrite DEF GenInv, Dispatching, Administering
<1>19. ASSUME GenInv, NEW p \in Pids, Exit(p) PROVE GenInv'
  BY <1>19, TypeExit, KeepsExit DEF GenInv, Dispatching, Administering
<1>20. ASSUME GenInv, NEW p \in Pids, Crash(p) PROVE GenInv'
  BY <1>20, TypeCrash, KeepsCrash DEF GenInv, Dispatching, Administering
<1>21. ASSUME GenInv, NEW p \in Pids, InspectRead(p) PROVE GenInv'
  BY <1>21, TypeInspectRead, KeepsInspectRead DEF GenInv, Dispatching, Administering
<1>22. ASSUME GenInv, NEW p \in Pids, RetireRead(p) PROVE GenInv'
  BY <1>22, TypeRetireRead, KeepsRetireRead DEF GenInv, Dispatching, Administering
<1>23. ASSUME GenInv, AdminLock PROVE GenInv'
  BY <1>23, TypeAdminLock, KeepsAdminLock DEF GenInv, Dispatching, Administering
<1>24. ASSUME GenInv, InspectLease PROVE GenInv'
  BY <1>24, TypeInspectLease, KeepsInspectLease DEF GenInv, Dispatching, Administering
<1>25. ASSUME GenInv, Inspect PROVE GenInv'
  BY <1>25, TypeInspect, KeepsInspect DEF GenInv, Dispatching, Administering
<1>26. ASSUME GenInv, DeletePayload PROVE GenInv'
  BY <1>26, TypeDeletePayload, KeepsDeletePayload DEF GenInv, Dispatching, Administering
<1>27. ASSUME GenInv, RemovePayload PROVE GenInv'
  BY <1>27, TypeRemovePayload, KeepsRemovePayload DEF GenInv, Dispatching, Administering
<1>28. ASSUME GenInv, RemoveRecord PROVE GenInv'
  BY <1>28, TypeRemoveRecord, KeepsRemoveRecord DEF GenInv, Dispatching, Administering
<1>29. ASSUME GenInv, RemoveManifest PROVE GenInv'
  BY <1>29, TypeRemoveManifest, KeepsRemoveManifest DEF GenInv, Dispatching, Administering
<1>30. ASSUME GenInv, RemoveLease PROVE GenInv'
  BY <1>30, TypeRemoveLease, KeepsRemoveLease DEF GenInv, Dispatching, Administering
<1>31. ASSUME GenInv, RetireLease PROVE GenInv'
  BY <1>31, TypeRetireLease, KeepsRetireLease DEF GenInv, Dispatching, Administering
<1>32. ASSUME GenInv, AdminCrash PROVE GenInv'
  BY <1>32, TypeAdminCrash, KeepsAdminCrash DEF GenInv, Dispatching, Administering
<1>33. ASSUME GenInv, HeadMoves PROVE GenInv'
  BY <1>33, TypeHeadMoves, KeepsHeadMoves DEF GenInv, Dispatching, Administering
<1> QED
  BY <1>1, <1>2, <1>3, <1>4, <1>5, <1>6, <1>7, <1>8, <1>9, <1>10, <1>11, <1>12, <1>13,
     <1>14, <1>15, <1>16, <1>17, <1>18, <1>19, <1>20, <1>21, <1>22, <1>23, <1>24,
     <1>25, <1>26, <1>27, <1>28, <1>29, <1>30, <1>31, <1>32, <1>33,
     KeepsChildEnds
  DEF Next, Dispatcher, Administration

(* Every variable keeps its type.                                             *)
THEOREM GenerationsTypeCorrect == Spec => []GenerationsTypeOK
<1>1. GenInv => GenerationsTypeOK
  BY DEF GenInv
<1> QED BY <1>1, GenStart, GenStep, PTL DEF Spec

(* For any number of process ids, processes, commits, crashes and failing     *)
(* steps: a dispatcher with a lease, and a child of one that is alive or      *)
(* dead, runs from a complete copy.                                           *)
THEOREM CodeAlwaysStays == Spec => []CodeStays
<1>1. GenInv => CodeStays
  BY DEF GenInv
<1> QED BY <1>1, GenStart, GenStep, PTL DEF Spec

(* The lease of a dispatcher that runs from its copy stays its own.           *)
THEOREM LeaseAlwaysOwn == Spec => []LeaseIsOwn
<1>1. GenInv => LeaseIsOwn
  BY DEF GenInv, Dispatching
<1> QED BY <1>1, GenStart, GenStep, PTL DEF Spec

------------------------------------------------------------------------------
(* A record names a complete copy. What is written before the record is whole *)
(* when the record is begun, and a removal under way keeps every start away.  *)
CopyUnderWay ==
  \A p \in Pids :
    /\ pc[p] \in {"manifest", "record"} => payload[pin[p]] = "whole"
    /\ pc[p] = "record" => manifest[pin[p]] = "whole"
RecordGone == apc = "unmanifest" => record[acommit] # "whole"
RecordInv == RecordNamesCopy /\ CopyUnderWay /\ RecordGone

(* A step that leaves the copies and the removal alone, and begins no writing. *)
LEMMA RecordUntouched ==
  ASSUME RecordInv, UNCHANGED <<store, acommit, cut>>,
         \A p \in Pids : pc'[p] \in {"manifest", "record"} => pc'[p] = pc[p] /\ pin'[p] = pin[p],
         apc' = apc \/ {apc, apc'} \cap {"remove", "unrecord", "unmanifest"} = {}
  PROVE  RecordInv'
<1>1. RecordNamesCopy'
  BY DEF RecordInv, RecordNamesCopy, Valid, store
<1>2. CopyUnderWay'
  BY DEF RecordInv, CopyUnderWay, store
<1>3. RecordGone'
  BY DEF RecordInv, RecordGone, store
<1> QED BY <1>1, <1>2, <1>3 DEF RecordInv

(* A step of a dispatcher: only those that write the copy matter.             *)
LEMMA RecordDispatcher ==
  ASSUME GenInv, RecordInv, NEW p \in Pids, Fork(p) \/ Dispatcher(p) \/ Crash(p)
  PROVE  RecordInv'
<1>1. /\ pc \in [Pids -> Starting \cup Using \cup {"dead", "other"}]
      /\ pin \in [Pids -> Commits \cup {NoCommit}]
      /\ payload \in [Commits -> Copies] /\ manifest \in [Commits -> Copies]
      /\ record \in [Commits -> Copies]
  BY DEF GenInv, GenerationsTypeOK
<1>2. pc[p] \in {"pin", "manifest", "record"} => pin[p] \in Commits
  BY DEF GenInv, Dispatching, UpSomewhere
<1>3. pc[p] \in {"pin", "manifest", "record"} =>
        /\ \A q \in Pids \ {p} : pc[q] \notin {"manifest", "record"}
        /\ apc = "idle"
  BY GenerationsAssumption DEF GenInv, Dispatching, LockHeld, LockPhases
<1>4. /\ pc[p] = "manifest" => manifest[pin[p]] # "whole"
      /\ pc[p] \in {"manifest", "record"} => record[pin[p]] # "whole"
  BY DEF GenInv, Dispatching, FreshCopy
<1>5. RecordNamesCopy /\ CopyUnderWay /\ RecordGone
  BY DEF RecordInv
<1>6. CASE Materialize(p)
  <2>1. CASE Absent(pin[p]) /\ payload' = [payload EXCEPT ![pin[p]] = "whole"] /\ Goto(p, AfterPayload)
    <3>1. RecordNamesCopy'
      BY <1>1, <1>2, <1>3, <1>5, <1>6, <2>1 DEF Materialize, RecordNamesCopy, Valid, Absent
    <3>2. CopyUnderWay'
      BY <1>1, <1>2, <1>3, <1>5, <1>6, <2>1
         DEF Materialize, CopyUnderWay, Absent, Goto, AfterPayload
    <3>3. RecordGone'
      BY <1>5, <1>6 DEF Materialize, RecordGone, view
    <3> QED BY <3>1, <3>2, <3>3 DEF RecordInv
  <2>2. CASE payload' = payload /\ pc'[p] \in {"lease", "other"}
    BY <1>1, <1>6, <2>2, RecordUntouched DEF Materialize, Goto, GiveUp, store, view
  <2> QED BY <1>1, <1>6, <2>1, <2>2 DEF Materialize, Goto, GiveUp
<1>7. CASE WriteManifest(p)
  <2>1. RecordNamesCopy'
    BY <1>1, <1>2, <1>3, <1>4, <1>5, <1>7 DEF WriteManifest, RecordNamesCopy, Valid
  <2>2. CopyUnderWay'
    BY <1>1, <1>2, <1>3, <1>5, <1>7 DEF WriteManifest, CopyUnderWay, Goto, GiveUp
  <2>3. RecordGone'
    BY <1>5, <1>7 DEF WriteManifest, RecordGone, view
  <2> QED BY <2>1, <2>2, <2>3 DEF RecordInv
<1>8. CASE WriteGeneration(p)
  <2>1. RecordNamesCopy'
    BY <1>1, <1>2, <1>3, <1>5, <1>8 DEF WriteGeneration, RecordNamesCopy, CopyUnderWay, Valid
  <2>2. CopyUnderWay'
    BY <1>1, <1>2, <1>3, <1>5, <1>8 DEF WriteGeneration, CopyUnderWay, Goto, GiveUp
  <2>3. RecordGone'
    BY <1>3, <1>8 DEF WriteGeneration, RecordGone, view
  <2> QED BY <2>1, <2>2, <2>3 DEF RecordInv
<1>9. CASE Crash(p)
  <2>1. /\ \A q \in Pids : pc'[q] \in {"manifest", "record"} => pc'[q] = pc[q] /\ pin'[q] = pin[q]
        /\ payload' = payload /\ UNCHANGED <<apc, view, cut>>
    BY <1>1, <1>9 DEF Crash, Dies, Goto
  <2>2. CASE manifest' = manifest /\ record' = record
    BY <2>1, <2>2, RecordUntouched DEF store, view
  <2>3. CASE pc[p] = "manifest" /\ manifest' = [manifest EXCEPT ![pin[p]] = "torn"] /\ record' = record
    <3>1. RecordNamesCopy'
      BY <1>1, <1>2, <1>4, <1>5, <2>1, <2>3 DEF RecordNamesCopy, Valid, view
    <3>2. CopyUnderWay'
      BY <1>1, <1>2, <1>3, <1>5, <1>9, <2>1, <2>3 DEF CopyUnderWay, Crash, Dies, Goto
    <3> QED BY <1>5, <2>1, <2>3, <3>1, <3>2 DEF RecordInv, RecordGone, view
  <2>4. CASE pc[p] = "record" /\ record' = [record EXCEPT ![pin[p]] = "torn"] /\ manifest' = manifest
    <3>1. RecordNamesCopy'
      BY <1>1, <1>2, <1>4, <1>5, <2>1, <2>4 DEF RecordNamesCopy, Valid, view
    <3>2. CopyUnderWay'
      BY <1>5, <2>1, <2>4 DEF CopyUnderWay
    <3> QED BY <1>3, <2>1, <2>4, <3>1, <3>2 DEF RecordInv, RecordGone
  <2> QED BY <1>9, <2>2, <2>3, <2>4 DEF Crash
<1>10. CASE /\ UNCHANGED <<store, apc, acommit, cut>>
            /\ \A q \in Pids : pc'[q] \in {"manifest", "record"} => pc'[q] = pc[q] /\ pin'[q] = pin[q]
  BY <1>10, RecordUntouched
<1>11. CASE Fork(p) \/ Coordinate(p) \/ RunInPlace(p) \/ ValidateNew(p)
  BY <1>1, <1>10, <1>11 DEF Fork, Coordinate, RunInPlace, ValidateNew, Goto, GiveUp, view, store
<1>12. CASE CreateLease(p) \/ WriteLease(p) \/ Execute(p) \/ Activate(p) \/ ActivateCheck(p)
            \/ ActivateWrite(p)
  BY <1>1, <1>10, <1>12
     DEF CreateLease, WriteLease, Execute, Activate, ActivateCheck, ActivateWrite, Goto, GiveUp, view, store
<1>13. CASE Spawn(p) \/ NoteState(p) \/ NoteWrite(p) \/ Finish(p) \/ FinishWrite(p) \/ Exit(p)
  BY <1>1, <1>10, <1>13
     DEF Spawn, NoteState, NoteWrite, Finish, FinishWrite, Exit, Dies, Goto, view, store
<1> QED BY <1>6, <1>7, <1>8, <1>9, <1>11, <1>12, <1>13 DEF Dispatcher

(* A step of the administration: a removal that stops before its end is       *)
(* remembered as cut.                                                         *)
LEMMA RecordAdministration ==
  ASSUME GenInv, RecordInv, Administration \/ AdminCrash
  PROVE  RecordInv'
<1>1. /\ payload \in [Commits -> Copies] /\ manifest \in [Commits -> Copies]
      /\ record \in [Commits -> Copies]
  BY DEF GenInv, GenerationsTypeOK
<1>2. apc # "idle" => \A q \in Pids : pc[q] \notin {"manifest", "record"}
  BY GenerationsAssumption DEF GenInv, Dispatching, LockHeld, LockPhases
<1>3. apc \in {"remove", "unrecord", "unmanifest"} => acommit \in Commits
  BY DEF GenInv, GenerationsTypeOK, Administering, DoomedUnused
<1>4. RecordNamesCopy /\ CopyUnderWay /\ RecordGone
  BY DEF RecordInv
<1>5. pc' = pc /\ pin' = pin
  BY DEF Administration, AdminLock, InspectRead, RetireRead, InspectLease, Inspect, DeletePayload,
         RemovePayload, RemoveRecord, RemoveManifest, RemoveLease, RetireLease, AdminCrash, procs
<1>6. CASE AdminLock \/ InspectLease \/ \E p \in Pids : InspectRead(p)
  BY <1>5, <1>6, RecordUntouched DEF AdminLock, InspectLease, InspectRead
<1>7. CASE apc # "idle" /\ apc \notin {"remove", "unrecord", "unmanifest"} /\ UNCHANGED <<store, cut>>
           /\ apc' \notin {"remove", "unrecord", "unmanifest"}
  <2>1. RecordNamesCopy'
    BY <1>4, <1>7 DEF RecordNamesCopy, Valid, store
  <2>2. CopyUnderWay'
    BY <1>4, <1>5, <1>7 DEF CopyUnderWay, store
  <2> QED BY <1>7, <2>1, <2>2 DEF RecordInv, RecordGone
<1>8. CASE Inspect \/ RemoveLease \/ RetireLease \/ \E p \in Pids : RetireRead(p)
  BY <1>7, <1>8 DEF Inspect, RemoveLease, RetireLease, RetireRead, AdminLeaves
<1>9. CASE DeletePayload
  <2>1. CASE AdminLeaves /\ UNCHANGED payload
    BY <1>7, <1>9, <2>1 DEF DeletePayload, AdminLeaves, store
  <2>2. PICK c \in doomed :
          \/ payload' = [payload EXCEPT ![c] = "torn"] /\ apc' = "remove" /\ acommit' = c
          \/ AdminLeaves /\ UNCHANGED payload
    BY <1>9 DEF DeletePayload
  <2>3. CASE payload' = [payload EXCEPT ![c] = "torn"] /\ apc' = "remove" /\ acommit' = c
    <3>1. RecordNamesCopy'
      BY <1>1, <1>4, <1>9, <2>3 DEF RecordNamesCopy, Valid, DeletePayload, budget
    <3>2. CopyUnderWay'
      BY <1>2, <1>5, <1>9 DEF CopyUnderWay, DeletePayload
    <3> QED BY <2>3, <3>1, <3>2 DEF RecordInv, RecordGone
  <2> QED BY <2>1, <2>2, <2>3
<1>10. CASE /\ apc \in {"remove", "unrecord", "unmanifest"} /\ apc' = "idle"
            /\ UNCHANGED store /\ cut' = cut \cup {acommit}
  <2>1. RecordNamesCopy'
    BY <1>3, <1>4, <1>10 DEF RecordNamesCopy, Valid, store
  <2>2. CopyUnderWay'
    BY <1>4, <1>5, <1>10 DEF CopyUnderWay, store
  <2> QED BY <1>10, <2>1, <2>2 DEF RecordInv, RecordGone
<1>11. CASE AdminCrash
  BY <1>7, <1>10, <1>11 DEF AdminCrash, AdminLeaves
<1>12. CASE RemovePayload
  <2>1. CASE payload' = [payload EXCEPT ![acommit] = "none"] /\ apc' = "unrecord" /\ UNCHANGED <<view, cut>>
    <3>1. RecordNamesCopy'
      BY <1>1, <1>3, <1>4, <1>12, <2>1 DEF RecordNamesCopy, Valid, RemovePayload, view
    <3>2. CopyUnderWay'
      BY <1>2, <1>5, <1>12 DEF CopyUnderWay, RemovePayload
    <3> QED BY <2>1, <3>1, <3>2 DEF RecordInv, RecordGone
  <2>2. CASE Interrupted /\ UNCHANGED payload
    BY <1>10, <1>12, <2>2 DEF RemovePayload, Interrupted, AdminLeaves, store
  <2> QED BY <1>12, <2>1, <2>2 DEF RemovePayload
<1>13. CASE RemoveRecord
  <2>1. CASE record' = [record EXCEPT ![acommit] = "none"] /\ apc' = "unmanifest" /\ UNCHANGED <<view, cut>>
    <3>1. RecordNamesCopy'
      BY <1>1, <1>3, <1>4, <1>13, <2>1 DEF RecordNamesCopy, Valid, RemoveRecord, view
    <3>2. CopyUnderWay'
      BY <1>2, <1>5, <1>13 DEF CopyUnderWay, RemoveRecord
    <3>3. RecordGone'
      BY <1>1, <1>3, <1>13, <2>1 DEF RecordGone, RemoveRecord, view
    <3> QED BY <3>1, <3>2, <3>3 DEF RecordInv
  <2>2. CASE Interrupted /\ UNCHANGED record
    BY <1>10, <1>13, <2>2 DEF RemoveRecord, Interrupted, AdminLeaves, store
  <2> QED BY <1>13, <2>1, <2>2 DEF RemoveRecord
<1>14. CASE RemoveManifest
  <2>1. CASE /\ manifest' = [manifest EXCEPT ![acommit] = "none"] /\ apc' = "delete" /\ cut' = cut
    <3>1. RecordNamesCopy'
      BY <1>1, <1>3, <1>4, <1>14, <2>1 DEF RecordNamesCopy, RecordGone, Valid, RemoveManifest
    <3>2. CopyUnderWay'
      BY <1>2, <1>5, <1>14 DEF CopyUnderWay, RemoveManifest
    <3> QED BY <2>1, <3>1, <3>2 DEF RecordInv, RecordGone
  <2>2. CASE Interrupted /\ UNCHANGED manifest
    BY <1>10, <1>14, <2>2 DEF RemoveManifest, Interrupted, AdminLeaves, store
  <2> QED BY <1>14, <2>1, <2>2 DEF RemoveManifest
<1> QED BY <1>6, <1>8, <1>9, <1>11, <1>12, <1>13, <1>14 DEF Administration

LEMMA RecordStart == Init => RecordInv
BY DEF Init, RecordInv, RecordNamesCopy, CopyUnderWay, RecordGone

LEMMA RecordStep == GenInv /\ RecordInv /\ [Next]_vars => RecordInv'
<1> SUFFICES ASSUME GenInv, RecordInv, [Next]_vars PROVE RecordInv'
  OBVIOUS
<1>1. CASE \/ HeadMoves \/ UNCHANGED vars
           \/ \E k \in kids : ChildEnds(k)
  BY <1>1, RecordUntouched DEF HeadMoves, ChildEnds, vars, procs, view
<1> QED BY <1>1, RecordDispatcher, RecordAdministration DEF Next

(* Whoever is killed and whatever raises: a record names a complete copy,     *)
(* unless a deletion of that copy is under way or was cut short.              *)
THEOREM RecordsNameCopies == Spec => []RecordNamesCopy
<1>1. RecordInv => RecordNamesCopy
  BY DEF RecordInv
<1> QED BY <1>1, GenStart, GenStep, RecordStart, RecordStep, PTL DEF Spec
=============================================================================
