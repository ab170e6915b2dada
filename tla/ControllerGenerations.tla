------------------------- MODULE ControllerGenerations -------------------------
(* Controller generations: a dispatcher runs from a read-only copy of one Git *)
(* commit, kept in a store. It makes the copy and a lease under the store's   *)
(* lock, starts again from the copy, activates the lease, and rewrites the    *)
(* lease without the lock while it runs. Administration (gc, retire-lease)    *)
(* deletes copies and leases under the lock. Process ids are recycled; any    *)
(* process may be killed.                                                     *)
EXTENDS Integers, FiniteSets

CONSTANTS
  Pids,          \* process ids
  Commits,       \* commits of the controller
  NoCommit, NoLease, NoPid, Admin,
  Keep,          \* how many of the newest copies a collection spares
  MaxLives,      \* bound: processes per process id
  MaxCrashes,    \* bound: processes killed
  MaxFaults      \* bound: steps that raise

ASSUME GenerationsAssumption ==
  /\ NoCommit \notin Commits /\ Admin \notin Pids /\ NoPid \notin Pids \cup {Admin}
  /\ IsFiniteSet(Commits) /\ Keep \in Nat
  /\ MaxLives \in Nat /\ MaxCrashes \in Nat /\ MaxFaults \in Nat
  /\ NoLease \notin [life : 1..MaxLives, commit : Commits,
                     status : {"starting", "running", "finished", "exited"}]

VARIABLES
  head,          \* the commit checked out
  payload, manifest, record,   \* the copy of each commit, its manifest and its record
  lease,         \* the lease file of each process id
  temp,          \* process ids whose temporary lease file is in the lease directory
  lock,          \* the holder of the store's lock
  up, life,      \* whether a process has the id, how many had it
  pc, pin,       \* where the process is, the commit it runs from
  complete,      \* its run is complete (in memory)
  kids,          \* child processes: [pid, life, commit] of their dispatcher
  apc,           \* where the administration command is
  unread, apid, arec,          \* leases it has still to read, the one it has read
  protected, finished, blocked, \* what the leases spare, finished stale leases, doubt
  doomed, acommit,             \* copies it deletes, the one it is at
  cut,           \* history: commits whose deletion was interrupted
  crashes, faults

store  == <<payload, manifest, record>>
procs  == <<up, life, pc, pin, complete, kids>>
leases == <<lease, temp>>
view   == <<unread, apid, arec, protected, finished, blocked, doomed, acommit>>
budget == <<crashes, faults>>
vars   == <<head, store, leases, lock, procs, apc, view, cut, budget>>

Copies   == {"none", "torn", "whole"}
Statuses == {"starting", "running", "finished", "exited"}
Lease    == [life : 1..MaxLives, commit : Commits, status : Statuses]
Kid      == [pid : Pids, life : 1..MaxLives, commit : Commits]
Starting == {"wait", "pin", "manifest", "record", "check", "lease", "leasing"}
Using    == {"leased", "boot", "activate", "activating", "running", "noting", "ending", "ended"}
AdminPhases == {"idle", "read", "classify", "delete", "remove", "unrecord", "unmanifest",
                "retire", "retiring"}

Goto(p, s)  == pc' = [pc EXCEPT ![p] = s]
Raises      == faults < MaxFaults /\ faults' = faults + 1 /\ UNCHANGED crashes
Valid(c)    == payload[c] = "whole" /\ manifest[c] = "whole" /\ record[c] = "whole"

Init ==
  /\ head \in Commits
  /\ payload = [c \in Commits |-> "none"] /\ manifest = payload /\ record = payload
  /\ lease = [p \in Pids |-> NoLease] /\ temp = {} /\ lock = NoPid
  /\ up = [p \in Pids |-> FALSE] /\ life = [p \in Pids |-> 0]
  /\ pc = [p \in Pids |-> "dead"] /\ pin = [p \in Pids |-> NoCommit]
  /\ complete = [p \in Pids |-> FALSE] /\ kids = {}
  /\ apc = "idle" /\ unread = {} /\ apid = NoPid /\ arec = NoLease /\ acommit = NoCommit /\ protected = {} /\ finished = {}
  /\ blocked = FALSE /\ doomed = {} /\ cut = {}
  /\ crashes = 0 /\ faults = 0

------------------------------------------------------------------------------
(* Starting a dispatcher (enter).                                             *)

(* A process gets the id: a dispatcher that starts or resumes a run, or any   *)
(* other process. A resumed run names the commit it ran from, whose copy is   *)
(* validated before the lock is taken.                                        *)
Fork(p) ==
  /\ ~up[p] /\ life[p] < MaxLives
  /\ up' = [up EXCEPT ![p] = TRUE] /\ life' = [life EXCEPT ![p] = @ + 1]
  /\ \/ Goto(p, "other") /\ UNCHANGED pin
     \/ Goto(p, "wait") /\ \E c \in {NoCommit} \cup {k \in Commits : Valid(k)} :
                              pin' = [pin EXCEPT ![p] = c]
  /\ UNCHANGED <<head, store, leases, lock, complete, kids, apc, view, cut, budget>>

(* Giving up: the lock goes, the process carries no lease on and ends.        *)
GiveUp(p) ==
  /\ Goto(p, "other")
  /\ lock' = IF lock = p THEN NoPid ELSE lock

LockFree == lock = NoPid

Coordinate(p) ==
  /\ pc[p] = "wait"
  /\ \/ /\ LockFree /\ lock' = p /\ Goto(p, "pin")
        /\ pin' = [pin EXCEPT ![p] = IF @ = NoCommit THEN head ELSE @]
        /\ UNCHANGED budget
     \/ lock # NoPid /\ Goto(p, "other") /\ UNCHANGED <<lock, pin, budget>>
  /\ UNCHANGED <<head, store, leases, up, life, complete, kids, apc, view, cut>>

(* A checkout with changes runs in place, without a copy or a lease.          *)
RunInPlace(p) ==
  /\ pc[p] = "pin" /\ GiveUp(p)
  /\ UNCHANGED <<head, store, leases, up, life, pin, complete, kids, apc, view, cut, budget>>

(* Faulty variant: the record does not wait for the manifest.                 *)
AfterPayloadRecord == "record"
AfterPayload == "manifest"

(* Nothing of the commit is there: the copy is staged aside and renamed. What *)
(* is there already is validated as it is, and never repaired.                *)
Absent(c) == payload[c] = "none" /\ manifest[c] = "none" /\ record[c] = "none"

Materialize(p) ==
  /\ pc[p] = "pin"
  /\ LET c == pin[p] IN
     \/ /\ Absent(c) /\ payload' = [payload EXCEPT ![c] = "whole"]
        /\ Goto(p, AfterPayload) /\ UNCHANGED <<lock, budget>>
     \/ Valid(c) /\ Goto(p, "lease") /\ UNCHANGED <<payload, lock, budget>>
     \/ ~Absent(c) /\ ~Valid(c) /\ GiveUp(p) /\ UNCHANGED <<payload, budget>>
     \/ GiveUp(p) /\ Raises /\ UNCHANGED payload
  /\ UNCHANGED <<head, manifest, record, leases, up, life, pin, complete, kids, apc, view, cut>>

WriteManifest(p) ==
  /\ pc[p] = "manifest"
  /\ \/ /\ manifest' = [manifest EXCEPT ![pin[p]] = "whole"]
        /\ Goto(p, "record") /\ UNCHANGED <<lock, budget>>
     \/ manifest' = [manifest EXCEPT ![pin[p]] = "torn"] /\ GiveUp(p) /\ Raises
  /\ UNCHANGED <<head, payload, record, leases, up, life, pin, complete, kids, apc, view, cut>>

WriteGeneration(p) ==
  /\ pc[p] = "record"
  /\ \/ /\ record' = [record EXCEPT ![pin[p]] = "whole"]
        /\ Goto(p, "check") /\ UNCHANGED <<lock, budget>>
     \/ record' = [record EXCEPT ![pin[p]] = "torn"] /\ GiveUp(p) /\ Raises
  /\ UNCHANGED <<head, payload, manifest, leases, up, life, pin, complete, kids, apc, view, cut>>

ValidateNew(p) ==
  /\ pc[p] = "check"
  /\ \/ Valid(pin[p]) /\ Goto(p, "lease") /\ UNCHANGED <<lock, budget>>
     \/ GiveUp(p) /\ Raises
  /\ UNCHANGED <<head, store, leases, up, life, pin, complete, kids, apc, view, cut>>

(* Faulty variant: the lease of an earlier process with the id is replaced.   *)
LeaseReplaceableAny(p) == lease[p] \in Lease \cup {NoLease}
(* The lease of an earlier process with the id must be finished.              *)
LeaseReplaceable(p) ==
  lease[p] # NoLease => lease[p].status = "finished" /\ lease[p].life # life[p]

CreateLease(p) ==
  /\ pc[p] = "lease"
  /\ \/ /\ LeaseReplaceable(p) /\ p \notin temp
        /\ temp' = temp \cup {p} /\ Goto(p, "leasing") /\ UNCHANGED <<lock, budget>>
     \/ ~(LeaseReplaceable(p) /\ p \notin temp) /\ GiveUp(p) /\ UNCHANGED <<temp, budget>>
     \/ GiveUp(p) /\ Raises /\ UNCHANGED temp
  /\ UNCHANGED <<head, store, lease, up, life, pin, complete, kids, apc, view, cut>>

Rewrite(p, status) ==
  lease' = [lease EXCEPT ![p] = [life |-> life[p], commit |-> pin[p], status |-> status]]

WriteLease(p) ==
  /\ pc[p] = "leasing" /\ temp' = temp \ {p}
  /\ \/ Rewrite(p, "starting") /\ Goto(p, "leased") /\ UNCHANGED <<lock, budget>>
     \/ UNCHANGED lease /\ GiveUp(p) /\ Raises
  /\ UNCHANGED <<head, store, up, life, pin, complete, kids, apc, view, cut>>

(* The lock goes, then the process starts again from the copy.                *)
Execute(p) ==
  /\ pc[p] = "leased" /\ lock' = NoPid /\ Goto(p, "boot")
  /\ UNCHANGED <<head, store, leases, up, life, pin, complete, kids, apc, view, cut, budget>>

------------------------------------------------------------------------------
(* Running from the copy (activate, provenance, note_state, finish).          *)

Activate(p) ==
  /\ pc[p] = "boot"
  /\ \/ lock = NoPid /\ lock' = p /\ Goto(p, "activate")
     \/ lock # NoPid /\ UNCHANGED lock /\ Goto(p, "ended")
  /\ UNCHANGED <<head, store, leases, up, life, pin, complete, kids, apc, view, cut, budget>>

ActivateCheck(p) ==
  /\ pc[p] = "activate"
  /\ \/ /\ lease[p] # NoLease /\ lease[p].life = life[p] /\ lease[p].status = "starting"
        /\ Valid(pin[p]) /\ p \notin temp
        /\ temp' = temp \cup {p} /\ Goto(p, "activating") /\ UNCHANGED <<lock, budget>>
     \/ Goto(p, "ended") /\ lock' = NoPid /\ Raises /\ UNCHANGED temp
  /\ UNCHANGED <<head, store, lease, up, life, pin, complete, kids, apc, view, cut>>

ActivateWrite(p) ==
  /\ pc[p] = "activating" /\ temp' = temp \ {p} /\ lock' = NoPid
  /\ \/ Rewrite(p, "running") /\ Goto(p, "running") /\ UNCHANGED budget
     \/ UNCHANGED lease /\ Goto(p, "ended") /\ Raises
  /\ UNCHANGED <<head, store, up, life, pin, complete, kids, apc, view, cut>>

(* Providers and workers run from the copy too, and may outlive their         *)
(* dispatcher when its run is not complete.                                   *)
Spawn(p) ==
  /\ pc[p] = "running" /\ ~complete[p]
  /\ kids' = kids \cup {[pid |-> p, life |-> life[p], commit |-> pin[p]]}
  /\ UNCHANGED <<head, store, leases, lock, up, life, pc, pin, complete, apc, view, cut, budget>>

ChildEnds(k) ==
  /\ kids' = kids \ {k}
  /\ UNCHANGED <<head, store, leases, lock, up, life, pc, pin, complete, apc, view, cut, budget>>

KidsOf(p, l) == {k \in kids : k.pid = p /\ k.life = l}

(* The state of the run is noted in the lease, a run identifier is put there; *)
(* a run is complete when none of its children is left.                       *)
NoteState(p) ==
  /\ pc[p] = "running" /\ p \notin temp
  /\ complete' \in {[complete EXCEPT ![p] = b] : b \in {b \in BOOLEAN : b => KidsOf(p, life[p]) = {}}}
  /\ temp' = temp \cup {p} /\ Goto(p, "noting")
  /\ UNCHANGED <<head, store, lease, lock, up, life, pin, kids, apc, view, cut, budget>>

NoteWrite(p) ==
  /\ pc[p] = "noting" /\ temp' = temp \ {p} /\ Goto(p, "running")
  /\ \/ Rewrite(p, "running") /\ UNCHANGED budget
     \/ UNCHANGED lease /\ Raises
  /\ UNCHANGED <<head, store, lock, up, life, pin, complete, kids, apc, view, cut>>

Finish(p) ==
  /\ pc[p] = "running" /\ p \notin temp
  /\ temp' = temp \cup {p} /\ Goto(p, "ending")
  /\ UNCHANGED <<head, store, lease, lock, up, life, pin, complete, kids, apc, view, cut, budget>>

(* Faulty variant: the lease takes the word of the run's state.               *)
FinalStatusOfRun(p) == IF complete[p] THEN "complete" ELSE "exited"
FinalStatus(p) == IF complete[p] THEN "finished" ELSE "exited"

FinishWrite(p) ==
  /\ pc[p] = "ending" /\ temp' = temp \ {p} /\ Goto(p, "ended")
  /\ \/ Rewrite(p, FinalStatus(p)) /\ UNCHANGED budget
     \/ UNCHANGED lease /\ Raises
  /\ UNCHANGED <<head, store, lock, up, life, pin, complete, kids, apc, view, cut>>

Dies(p) ==
  /\ Goto(p, "dead") /\ up' = [up EXCEPT ![p] = FALSE]
  /\ pin' = [pin EXCEPT ![p] = NoCommit] /\ complete' = [complete EXCEPT ![p] = FALSE]

Exit(p) ==
  /\ pc[p] \in {"other", "ended"} /\ Dies(p)
  /\ UNCHANGED <<head, store, leases, lock, life, kids, apc, view, cut, budget>>

(* A killed process leaves what it wrote, its temporary file included; a file *)
(* being written in place is left torn.                                       *)
Crash(p) ==
  /\ up[p] /\ pc[p] # "other" /\ crashes < MaxCrashes /\ crashes' = crashes + 1
  /\ Dies(p)
  /\ lock' = IF lock = p THEN NoPid ELSE lock
  /\ manifest' \in IF pc[p] = "manifest" THEN {manifest, [manifest EXCEPT ![pin[p]] = "torn"]}
                   ELSE {manifest}
  /\ record' \in IF pc[p] = "record" THEN {record, [record EXCEPT ![pin[p]] = "torn"]} ELSE {record}
  /\ UNCHANGED <<head, payload, leases, life, kids, apc, view, cut, faults>>

------------------------------------------------------------------------------
(* Administration, one command at a time.                                     *)

(* What a command has read is gone when it ends.                              *)
AdminLeaves ==
  /\ apc' = "idle" /\ lock' = NoPid
  /\ unread' = {} /\ apid' = NoPid /\ arec' = NoLease /\ protected' = {} /\ finished' = {}
  /\ blocked' = FALSE /\ doomed' = {} /\ acommit' = NoCommit

(* The lease directory is listed once; a temporary file in it is an entry     *)
(* that nothing explains.                                                     *)
AdminLock ==
  /\ apc = "idle" /\ lock = NoPid /\ lock' = Admin
  /\ \/ /\ apc' = "read" /\ unread' = {p \in Pids : lease[p] # NoLease} /\ blocked' = (temp # {})
     \/ apc' = "retire" /\ UNCHANGED <<unread, blocked>>
  /\ UNCHANGED <<head, store, leases, procs, apid, arec, protected, finished, doomed, acommit,
                 cut, budget>>

(* Each lease is read, and then its process is looked at.                     *)
InspectRead(p) ==
  /\ apc = "read" /\ p \in unread
  /\ apid' = p /\ arec' = lease[p] /\ unread' = unread \ {p} /\ apc' = "classify"
  /\ UNCHANGED <<head, store, leases, lock, procs, acommit, protected, finished, blocked, doomed,
                 cut, budget>>

(* Faulty variant: the code of a dispatcher that is gone is not spared.        *)
SparedLiveOnly == IF up[apid] THEN {arec.commit} ELSE {}
(* A stale lease that is not finished may have left children: its code stays. *)
Spared == IF ~up[apid] /\ arec.status = "finished" THEN {} ELSE {arec.commit}

Safe == arec.life = life[apid] /\ arec.status \in {"starting", "running"} /\ Valid(arec.commit)

InspectLease ==
  /\ apc = "classify" /\ apc' = "read"
  /\ protected' = protected \cup Spared
  /\ finished' = IF ~up[apid] /\ arec.status = "finished" THEN finished \cup {apid} ELSE finished
  /\ blocked' = (blocked \/ (up[apid] /\ ~Safe))
  /\ apid' = NoPid /\ arec' = NoLease
  /\ UNCHANGED <<head, store, leases, lock, procs, unread, acommit, doomed, cut, budget>>

(* Nothing is deleted on doubt, or when a copy is not valid. The copies of    *)
(* the head, of the leases and the newest ones are spared; the age of a copy  *)
(* is the time its directory was last changed. A command that only reports    *)
(* ends here.                                                                 *)
Present == {c \in Commits : payload[c] # "none"}

Inspect ==
  /\ apc = "read" /\ unread = {}
  /\ \/ /\ ~blocked /\ \A c \in Present : Valid(c)
        /\ \E newest \in SUBSET Present :
             /\ Cardinality(newest) = IF Cardinality(Present) < Keep THEN Cardinality(Present) ELSE Keep
             /\ doomed' = Present \ (newest \cup protected \cup {head})
        /\ apc' = "delete"
        /\ UNCHANGED <<lock, unread, apid, arec, protected, finished, blocked, acommit>>
     \/ AdminLeaves
  /\ UNCHANGED <<head, store, leases, procs, cut, budget>>

DeletePayload ==
  /\ apc = "delete"
  /\ \E c \in doomed :
       \/ /\ Valid(c) /\ payload' = [payload EXCEPT ![c] = "torn"]
          /\ apc' = "remove" /\ acommit' = c
          /\ UNCHANGED <<lock, unread, apid, arec, protected, finished, blocked, doomed>>
       \/ ~Valid(c) /\ AdminLeaves /\ UNCHANGED payload
  /\ UNCHANGED <<head, manifest, record, leases, procs, cut, budget>>

(* A removal that raises ends the command where it is.                        *)
Interrupted == AdminLeaves /\ Raises /\ cut' = cut \cup {acommit}

RemovePayload ==
  /\ apc = "remove"
  /\ \/ payload' = [payload EXCEPT ![acommit] = "none"] /\ apc' = "unrecord"
        /\ UNCHANGED <<lock, view, cut, budget>>
     \/ Interrupted /\ UNCHANGED payload
  /\ UNCHANGED <<head, manifest, record, leases, procs>>

RemoveRecord ==
  /\ apc = "unrecord"
  /\ \/ record' = [record EXCEPT ![acommit] = "none"] /\ apc' = "unmanifest"
        /\ UNCHANGED <<lock, view, cut, budget>>
     \/ Interrupted /\ UNCHANGED record
  /\ UNCHANGED <<head, payload, manifest, leases, procs>>

RemoveManifest ==
  /\ apc = "unmanifest"
  /\ \/ /\ manifest' = [manifest EXCEPT ![acommit] = "none"] /\ apc' = "delete"
        /\ doomed' = doomed \ {acommit} /\ acommit' = NoCommit
        /\ UNCHANGED <<lock, unread, apid, arec, protected, finished, blocked, cut, budget>>
     \/ Interrupted /\ UNCHANGED manifest
  /\ UNCHANGED <<head, payload, record, leases, procs>>

RemoveLease ==
  /\ apc = "delete" /\ doomed = {}
  /\ \/ \E p \in finished : /\ lease' = [lease EXCEPT ![p] = NoLease] /\ finished' = finished \ {p}
                            /\ UNCHANGED <<apc, lock, unread, apid, arec, protected, blocked, doomed,
                                           acommit>>
     \/ finished = {} /\ AdminLeaves /\ UNCHANGED lease
  /\ UNCHANGED <<head, store, temp, procs, cut, budget>>

(* Faulty variant: a lease may be retired whatever its process does.           *)
ExtinctAny(p) == lease[p] # NoLease /\ KidsOf(p, lease[p].life) = {}
(* The operator names a lease and confirms that its children are gone; its    *)
(* process is gone too, or another one has the id.                            *)
Extinct(p) == /\ lease[p] # NoLease /\ (up[p] => life[p] # lease[p].life)
              /\ KidsOf(p, lease[p].life) = {}

RetireRead(p) ==
  /\ apc = "retire"
  /\ \/ /\ Extinct(p) /\ apc' = "retiring" /\ apid' = p /\ arec' = lease[p]
        /\ UNCHANGED <<lock, unread, protected, finished, blocked, doomed, acommit>>
     \/ ~Extinct(p) /\ AdminLeaves
  /\ UNCHANGED <<head, store, leases, procs, cut, budget>>

RetireLease ==
  /\ apc = "retiring" /\ AdminLeaves
  /\ lease' = IF lease[apid] = arec THEN [lease EXCEPT ![apid] = NoLease] ELSE lease
  /\ UNCHANGED <<head, store, temp, procs, cut, budget>>

AdminCrash ==
  /\ apc # "idle" /\ AdminLeaves /\ crashes < MaxCrashes /\ crashes' = crashes + 1
  /\ cut' = IF apc \in {"remove", "unrecord", "unmanifest"} THEN cut \cup {acommit} ELSE cut
  /\ UNCHANGED <<head, store, leases, procs, faults>>

HeadMoves ==
  /\ head' \in Commits \ {head}
  /\ UNCHANGED <<store, leases, lock, procs, apc, view, cut, budget>>

Dispatcher(p) ==
  \/ Coordinate(p) \/ RunInPlace(p) \/ Materialize(p) \/ WriteManifest(p) \/ WriteGeneration(p)
  \/ ValidateNew(p) \/ CreateLease(p) \/ WriteLease(p) \/ Execute(p)
  \/ Activate(p) \/ ActivateCheck(p) \/ ActivateWrite(p)
  \/ Spawn(p) \/ NoteState(p) \/ NoteWrite(p) \/ Finish(p) \/ FinishWrite(p) \/ Exit(p)

Administration ==
  \/ AdminLock \/ \E p \in Pids : InspectRead(p) \/ RetireRead(p)
  \/ InspectLease \/ Inspect \/ DeletePayload \/ RemovePayload \/ RemoveRecord \/ RemoveManifest
  \/ RemoveLease \/ RetireLease

Next ==
  \/ \E p \in Pids : Fork(p) \/ Dispatcher(p) \/ Crash(p)
  \/ \E k \in kids : ChildEnds(k)
  \/ Administration \/ AdminCrash \/ HeadMoves

Spec == Init /\ [][Next]_vars

------------------------------------------------------------------------------
(* Properties.                                                                *)

(* Every variable keeps its type.                                             *)
GenerationsTypeOK ==
  /\ head \in Commits
  /\ payload \in [Commits -> Copies] /\ manifest \in [Commits -> Copies]
  /\ record \in [Commits -> Copies]
  /\ lease \in [Pids -> Lease \cup {NoLease}] /\ temp \subseteq Pids
  /\ lock \in Pids \cup {Admin, NoPid}
  /\ up \in [Pids -> BOOLEAN] /\ life \in [Pids -> 0..MaxLives]
  /\ pc \in [Pids -> Starting \cup Using \cup {"dead", "other"}]
  /\ pin \in [Pids -> Commits \cup {NoCommit}] /\ complete \in [Pids -> BOOLEAN]
  /\ kids \subseteq Kid
  /\ apc \in AdminPhases /\ unread \subseteq Pids /\ apid \in Pids \cup {NoPid}
  /\ arec \in Lease \cup {NoLease} /\ acommit \in Commits \cup {NoCommit}
  /\ protected \subseteq Commits /\ finished \subseteq Pids /\ blocked \in BOOLEAN
  /\ doomed \subseteq Commits /\ cut \subseteq Commits
  /\ crashes \in 0..MaxCrashes /\ faults \in 0..MaxFaults

(* Every dispatcher that has a lease, and every child of one, dead or alive,  *)
(* runs from a complete copy: no collection takes it away, whoever is killed  *)
(* and whatever id is recycled (inspect, create_lease, retire_lease).         *)
CodeStays ==
  /\ \A p \in Pids : pc[p] \in Using => Valid(pin[p])
  /\ \A k \in kids : Valid(k.commit)

(* The lease of a dispatcher that runs from its copy is its own, and names    *)
(* that copy: no other process writes or removes it.                          *)
LeaseIsOwn ==
  \A p \in Pids : pc[p] \in Using =>
    lease[p] # NoLease /\ lease[p].life = life[p] /\ lease[p].commit = pin[p]

(* A record names a complete copy, unless a deletion of that copy is under    *)
(* way or was interrupted: a start that is killed leaves no record.           *)
RecordNamesCopy ==
  \A c \in Commits : record[c] = "whole" =>
    Valid(c) \/ c \in cut \/ (apc \in {"remove", "unrecord"} /\ acommit = c)
=============================================================================
