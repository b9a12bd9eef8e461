---------------------------- MODULE SnapshotStore ----------------------------
(***************************************************************************)
(* The snapshot manager of the exporter: the handlers that create, delete  *)
(* and purge VM snapshots, interleaved call by call on the state they      *)
(* share, which is a record per snapshot in the bolt database and, in each *)
(* OCFS2 repository, one directory per snapshot with a reflinked file per  *)
(* disk.  net/http runs every request on a goroutine of its own and the    *)
(* manager takes no lock, so the unit of atomicity is one system call or   *)
(* one bolt transaction.  Any of them may fail, and the process may die    *)
(* between two of them.                                                    *)
(*                                                                         *)
(* Disk data and extents are the subject of IncrementalExport.  Record     *)
(* order (CreatedAt) is abstracted: it only decides the order in which a   *)
(* purge visits snapshots, and the wall clock it is taken from may be      *)
(* stepped, so PurgeNext may visit them in any order.                      *)
(***************************************************************************)
EXTENDS Integers, Sequences, FiniteSets

CONSTANTS
    VMs,        \* names of the virtual machines
    Disks,      \* disk images; the base name of an image names its snapshot
    Repos,      \* repositories, each a mounted OCFS2 file system
    SnapIDs,    \* the identifiers uuid.NewString can return: bounds the creates
    Requests,   \* goroutines serving a request
    DiskLists,  \* the disk lists a VM's vm.cfg may hold when it is read
    RepoOf,     \* the repository an image lives in
    Cloneable,  \* images for which Disk.CanClone holds
    Nil,        \* no record, no snapshot, no VM
    MaxFaults,  \* bound on failing system calls and transactions
    MaxCrashes  \* bound on the deaths of the process

Record == [vm : VMs, disks : Seq(Disks)]

ASSUME StoreAssumption ==
    /\ \A v \in VMs : \A l \in DiskLists[v] : l \in Seq(Disks)
    /\ RepoOf \in [Disks -> Repos]
    /\ Nil \notin VMs /\ Nil \notin SnapIDs /\ Nil \notin Record
    /\ MaxFaults \in Nat /\ MaxCrashes \in Nat

VARIABLES
    files,    \* <<s, d>>: the snapshot file of disk d exists in s's directory
    dirs,     \* <<s, p>>: repository p has a directory for snapshot s
    db,       \* the database: the record of each snapshot, or Nil
    minted,   \* identifiers handed out: uuid.NewString does not repeat one
    known,    \* history: identifiers recorded so far, all that a client can name
    req,      \* the state of each request's handler
    faults,   \* system calls that have failed
    crashes   \* deaths of the process

store == <<files, dirs, db, minted, known>>
vars  == <<files, dirs, db, minted, known, req, faults, crashes>>

-----------------------------------------------------------------------------
(***************************************************************************)
(* The frame of a handler.  pc is the call it makes next; ctx is the       *)
(* function on whose behalf it walks the disks in list:                    *)
(*   create    VMConfig.CreateSnapshot snapshots each disk                 *)
(*   discard   the deferred cleanup of the Disk.CreateSnapshot that failed *)
(*   rollback  the deferred cleanup of VMConfig.CreateSnapshot             *)
(*   undo      SnapshotManager.CreateSnapshot deletes what it cannot save  *)
(*   delete    SnapshotManager.DeleteSnapshot                              *)
(* asked is history: the snapshots that the request set out to delete.     *)
(***************************************************************************)
Locations == {"idle", "mkdir", "reflink", "extents", "save", "unlink",
              "stat", "remove", "readdir", "rmdir", "fetch", "dbdelete", "next"}
Contexts  == {"none", "create", "discard", "rollback", "undo", "delete"}
Codes     == {"none", "ok", "badrequest", "conflict", "error"}

Frame == [pc : Locations, ctx : Contexts, vm : VMs \cup {Nil},
          snap : SnapIDs \cup {Nil}, list : Seq(Disks), i : Nat,
          queue : SUBSET SnapIDs, asked : SUBSET SnapIDs, reply : Codes]

Parked(code, ids) ==
    [pc |-> "idle", ctx |-> "none", vm |-> Nil, snap |-> Nil, list |-> << >>,
     i |-> 1, queue |-> {}, asked |-> ids, reply |-> code]

Answer(f, code) == Parked(code, f.asked)

FileOf(f)    == <<f.snap, f.list[f.i]>>
DirOf(f)     == <<f.snap, RepoOf[f.list[f.i]]>>
FilesIn(dir) == {x \in files : <<x[1], RepoOf[x[2]]>> = dir}

\* Walk the disks of f.list from the first one with DiskSnapshot.DeleteSnapshot.
Walk(f, ctx, list) ==
    [f EXCEPT !.pc = "stat", !.ctx = ctx, !.list = list, !.i = 1]

\* Fault: the deferred loop runs over snapDisks before anything was appended.
Rollback_Forgets(f) == Answer(f, "error")

\* The deferred loop over snapDisks, the disks before the one that failed.
Rollback(f) ==
    IF f.i = 1 THEN Answer(f, "error")
               ELSE Walk(f, "rollback", SubSeq(f.list, 1, f.i - 1))

\* The deferred snapshot.Delete of the manager, after a failed save.
Undo(f) ==
    IF f.list = << >> THEN Answer(f, "error") ELSE Walk(f, "undo", f.list)

\* A snapshot is dealt with: the next one of a purge, or the reply.
NextSnapshot(f) ==
    IF f.queue = {} THEN Answer(f, "ok")
    ELSE [Parked("none", f.asked) EXCEPT !.pc = "next", !.vm = f.vm, !.queue = f.queue]

\* Fault: the bound of the loop is off by one.
NextDisk_PastEnd(f) ==
    IF f.i <= Len(f.list) THEN [f EXCEPT !.pc = "stat", !.i = @ + 1] ELSE Answer(f, "error")

\* Fault: the record is kept when the files are gone.
NextDisk_KeepsRecord(f) ==
    CASE f.ctx = "discard"                      -> Rollback(f)
      [] f.ctx # "discard" /\ f.i < Len(f.list) -> [f EXCEPT !.pc = "stat", !.i = @ + 1]
      [] OTHER                                  -> Answer(f, "error")

\* The cleanup of one disk returned nil, or its error is ignored.
NextDisk(f) ==
    CASE f.ctx = "discard"                           -> Rollback(f)
      [] f.ctx # "discard" /\ f.i < Len(f.list)      -> [f EXCEPT !.pc = "stat", !.i = @ + 1]
      [] f.ctx = "delete"  /\ ~ (f.i < Len(f.list))  -> [f EXCEPT !.pc = "fetch", !.i = @ + 1]
      [] OTHER                                       -> Answer(f, "error")

\* Fault: a delete too ignores the error of one disk.
DiskFailed_Ignored(f) == IF f.ctx = "undo" THEN Answer(f, "error") ELSE NextDisk(f)

\* The cleanup of one disk returned an error: only rollback carries on.
DiskFailed(f) ==
    IF f.ctx \in {"discard", "rollback"} THEN NextDisk(f) ELSE Answer(f, "error")

\* Fault: a purge takes the first snapshot that is gone for the end of its list.
BeginDelete_StopsAtGone(f, s) ==
    IF db[s] = Nil THEN Answer(f, "ok")
    ELSE IF db[s].vm # f.vm THEN Answer(f, "conflict")
    ELSE Walk([f EXCEPT !.snap = s], "delete", db[s].disks)

\* DeleteSnapshot up to the walk: the lookup, and the three ways it can end.
BeginDelete(f, s) ==
    IF db[s] = Nil THEN NextSnapshot(f)
    ELSE IF db[s].vm # f.vm THEN Answer(f, "conflict")
    ELSE IF db[s].disks = << >>
         THEN [f EXCEPT !.pc = "fetch", !.ctx = "delete", !.snap = s,
                        !.list = << >>, !.i = 1]
         ELSE Walk([f EXCEPT !.snap = s], "delete", db[s].disks)

-----------------------------------------------------------------------------
Init ==
    /\ files = {} /\ dirs = {} /\ minted = {} /\ known = {}
    /\ db = [s \in SnapIDs |-> Nil]
    /\ req = [r \in Requests |-> Parked("none", {})]
    /\ faults = 0 /\ crashes = 0

At(r, loc) == req[r].pc = loc

Become(r, f) ==
    /\ req' = [req EXCEPT ![r] = f]
    /\ UNCHANGED <<faults, crashes>>

(***************************************************************************)
(* Creating a snapshot.                                                    *)
(***************************************************************************)
CreateSnapshot(r) ==
    /\ At(r, "idle")
    /\ \E v \in VMs, s \in SnapIDs \ minted : \E list \in DiskLists[v] :
        /\ minted' = minted \cup {s}
        /\ Become(r, IF \A j \in DOMAIN list : list[j] \in Cloneable
                     THEN [Parked("none", {}) EXCEPT
                             !.pc = IF list = << >> THEN "save" ELSE "mkdir",
                             !.ctx = "create", !.vm = v, !.snap = s, !.list = list]
                     ELSE Parked("badrequest", {}))
    /\ UNCHANGED <<files, dirs, db, known>>

\* Stat and, without the directory, MkdirAll.  The disks are those that CreateSnapshot
\* found cloneable: Disk.CanClone before it can only differ if the disks were resolved
\* otherwise the second time (Discovery), which is a failing call here.  Its reply
\* would be a bad request, that of the failing call is an error.
MakeDir(r) ==
    /\ At(r, "mkdir")
    /\ dirs' = dirs \cup {DirOf(req[r])}
    /\ Become(r, [req[r] EXCEPT !.pc = "reflink"])
    /\ UNCHANGED <<files, db, minted, known>>

\* The ioctl does not overwrite: a second disk of the same name finds the file.
Reflink(r) ==
    /\ At(r, "reflink")
    /\ IF FileOf(req[r]) \in files
       THEN /\ Become(r, [req[r] EXCEPT !.pc = "unlink", !.ctx = "discard"])
            /\ UNCHANGED files
       ELSE /\ Become(r, [req[r] EXCEPT !.pc = "extents"])
            /\ files' = files \cup {FileOf(req[r])}
    /\ UNCHANGED <<dirs, db, minted, known>>

\* Fault: the loop over the disks ends one disk early.
ReadExtents_OneEarly(r) ==
    /\ At(r, "extents")
    /\ Become(r, [req[r] EXCEPT !.i = @ + 1,
                    !.pc = IF req[r].i + 1 >= Len(req[r].list) THEN "save" ELSE "mkdir"])
    /\ UNCHANGED store

ReadExtents(r) ==
    /\ At(r, "extents")
    /\ Become(r, [req[r] EXCEPT !.i = @ + 1,
                    !.pc = IF req[r].i = Len(req[r].list) THEN "save" ELSE "mkdir"])
    /\ UNCHANGED store

SaveRecord(r) ==
    /\ At(r, "save")
    /\ db' = [db EXCEPT ![req[r].snap] = [vm |-> req[r].vm, disks |-> req[r].list]]
    /\ known' = known \cup {req[r].snap}
    /\ Become(r, Answer(req[r], "ok"))
    /\ UNCHANGED <<files, dirs, minted>>

\* Fault: the clean-up ends with the file.
DiscardFile_LeavesDir(r) ==
    /\ At(r, "unlink")
    /\ files' = files \ {FileOf(req[r])}
    /\ Become(r, Rollback(req[r]))
    /\ UNCHANGED <<dirs, db, minted, known>>

\* os.Remove(snapFile) of the deferred cleanup; its error is not looked at.
DiscardFile(r) ==
    /\ At(r, "unlink")
    /\ files' = files \ {FileOf(req[r])}
    /\ Become(r, [req[r] EXCEPT !.pc = "readdir"])
    /\ UNCHANGED <<dirs, db, minted, known>>

(***************************************************************************)
(* DiskSnapshot.DeleteSnapshot, call by call.                              *)
(***************************************************************************)
\* Fault: one missing directory is taken for all of them.
StatDir_SkipsRest(r) ==
    /\ At(r, "stat")
    /\ Become(r, IF DirOf(req[r]) \in dirs THEN [req[r] EXCEPT !.pc = "remove"]
                 ELSE IF req[r].ctx = "delete" THEN [req[r] EXCEPT !.pc = "fetch"]
                 ELSE NextDisk(req[r]))
    /\ UNCHANGED store

StatDir(r) ==
    /\ At(r, "stat")
    /\ Become(r, IF DirOf(req[r]) \in dirs
                 THEN [req[r] EXCEPT !.pc = "remove"] ELSE NextDisk(req[r]))
    /\ UNCHANGED store

RemoveFile(r) ==
    /\ At(r, "remove")
    /\ files' = files \ {FileOf(req[r])}
    /\ Become(r, IF FileOf(req[r]) \in files
                 THEN [req[r] EXCEPT !.pc = "readdir"] ELSE DiskFailed(req[r]))
    /\ UNCHANGED <<dirs, db, minted, known>>

\* Fault: the directory is removed without looking for the other disks' files.
ReadDir_NoLook(r) ==
    /\ At(r, "readdir")
    /\ Become(r, [req[r] EXCEPT !.pc = "rmdir"])
    /\ UNCHANGED store

ReadDir(r) ==
    /\ At(r, "readdir")
    /\ Become(r, IF DirOf(req[r]) \notin dirs THEN DiskFailed(req[r])
                 ELSE IF FilesIn(DirOf(req[r])) = {}
                      THEN [req[r] EXCEPT !.pc = "rmdir"] ELSE NextDisk(req[r]))
    /\ UNCHANGED store

\* Fault: the directory of all the snapshots in the repository is removed.
RemoveDir_All(r) ==
    /\ At(r, "rmdir")
    /\ dirs' = {x \in dirs : x[2] # DirOf(req[r])[2]}
    /\ files' = {x \in files : RepoOf[x[2]] # DirOf(req[r])[2]}
    /\ Become(r, NextDisk(req[r]))
    /\ UNCHANGED <<db, minted, known>>

\* os.RemoveAll takes whatever the directory holds by now.
RemoveDir(r) ==
    /\ At(r, "rmdir")
    /\ dirs' = dirs \ {DirOf(req[r])}
    /\ files' = files \ FilesIn(DirOf(req[r]))
    /\ Become(r, NextDisk(req[r]))
    /\ UNCHANGED <<db, minted, known>>

(***************************************************************************)
(* Deleting one snapshot, or all the snapshots of a VM.                    *)
(***************************************************************************)
DeleteSnapshot(r) ==
    /\ At(r, "idle")
    /\ \E v \in VMs, s \in known :
         Become(r, BeginDelete([Parked("none", {s}) EXCEPT !.vm = v], s))
    /\ UNCHANGED store

PurgeSnapshots(r) ==
    /\ At(r, "idle")
    /\ \E v \in VMs :
         LET ids == {s \in SnapIDs : db[s] # Nil /\ db[s].vm = v}
         IN  Become(r, NextSnapshot([Parked("none", ids) EXCEPT !.vm = v, !.queue = ids]))
    /\ UNCHANGED store

\* Fault: a snapshot stays on the list of the purge.
PurgeNext_Again(r) ==
    /\ At(r, "next")
    /\ \E s \in req[r].queue : Become(r, BeginDelete(req[r], s))
    /\ UNCHANGED store

PurgeNext(r) ==
    /\ At(r, "next")
    /\ \E s \in req[r].queue :
         Become(r, BeginDelete([req[r] EXCEPT !.queue = @ \ {s}], s))
    /\ UNCHANGED store

\* Database.DeleteSnapshot: the record is fetched, then deleted, in two
\* transactions; losing the record in between is an error.
FetchRecord(r) ==
    /\ At(r, "fetch")
    /\ Become(r, IF db[req[r].snap] = Nil
                 THEN NextSnapshot(req[r]) ELSE [req[r] EXCEPT !.pc = "dbdelete"])
    /\ UNCHANGED store

DeleteRecord(r) ==
    /\ At(r, "dbdelete")
    /\ db' = [db EXCEPT ![req[r].snap] = Nil]
    /\ Become(r, IF db[req[r].snap] = Nil
                 THEN Answer(req[r], "error") ELSE NextSnapshot(req[r]))
    /\ UNCHANGED <<files, dirs, minted, known>>

\* The VM, its repositories or the record cannot be read: nothing was done yet.
\* VMConfig.CanClone takes repositories it cannot read for ones it cannot clone.
LookupFails(r) ==
    /\ At(r, "idle")
    /\ \E code \in {"error", "badrequest"} : Become(r, Parked(code, {}))
    /\ UNCHANGED store

(***************************************************************************)
(* Failures.                                                               *)
(***************************************************************************)
\* The frame after the call at f.pc has failed and changed nothing.
Failed(f) ==
    CASE f.pc = "mkdir"                          -> Rollback(f)
      [] f.pc \in {"reflink", "extents"}         -> [f EXCEPT !.pc = "unlink", !.ctx = "discard"]
      [] f.pc = "unlink"                         -> [f EXCEPT !.pc = "readdir"]
      [] f.pc \in {"stat", "remove", "readdir"}  -> DiskFailed(f)
      [] f.pc = "rmdir"                          -> NextDisk(f)
      [] f.pc = "save"                           -> Undo(f)
      [] OTHER                                   -> Answer(f, "error")

CallFails(r) ==
    /\ ~ At(r, "idle")
    /\ faults < MaxFaults
    /\ faults' = faults + 1
    /\ req' = [req EXCEPT ![r] = Failed(req[r])]
    /\ UNCHANGED <<store, crashes>>

\* SIGTERM, SIGINT, a kill or a power cut ends the process with its handlers
\* wherever they are; the supervisor starts it again.  Only the disk survives.
Crash ==
    /\ crashes < MaxCrashes
    /\ crashes' = crashes + 1
    /\ req' = [r \in Requests |-> Parked("none", {})]
    /\ UNCHANGED <<store, faults>>

-----------------------------------------------------------------------------
Accept(r) ==
    \/ CreateSnapshot(r)
    \/ DeleteSnapshot(r)
    \/ PurgeSnapshots(r)
    \/ LookupFails(r)

Advance(r) ==
    \/ MakeDir(r)
    \/ Reflink(r)
    \/ ReadExtents(r)
    \/ SaveRecord(r)
    \/ DiscardFile(r)
    \/ StatDir(r)
    \/ RemoveFile(r)
    \/ ReadDir(r)
    \/ RemoveDir(r)
    \/ PurgeNext(r)
    \/ FetchRecord(r)
    \/ DeleteRecord(r)

Next ==
    \/ \E r \in Requests : Accept(r) \/ Advance(r) \/ CallFails(r)
    \/ Crash

Spec == Init /\ [][Next]_vars

\* Every goroutine in a handler is scheduled, and no call it makes can block
\* for ever; nothing obliges a client to send another request.
FairSpec == Spec /\ \A r \in Requests : WF_vars(Advance(r))

-----------------------------------------------------------------------------
(***************************************************************************)
(* Properties.                                                             *)
(***************************************************************************)
\* Locations at which the handler works on list[i].
OnDisk == {"mkdir", "reflink", "extents", "unlink", "stat", "remove", "readdir", "rmdir"}

\* What a handler needs at its next call: the function it is in, the snapshot
\* and the VM it works on, and a list[i] that is within bounds.
WellFormed(f) ==
    /\ f.pc \in {"idle", "next"} <=> f.ctx = "none"
    /\ f.pc \in {"mkdir", "reflink", "extents", "save"} <=> f.ctx = "create"
    /\ f.pc = "unlink" => f.ctx = "discard"
    /\ f.pc \in {"stat", "remove"} => f.ctx # "discard"
    /\ f.pc \in {"fetch", "dbdelete"} => f.ctx = "delete"
    /\ f.pc \in OnDisk => f.i \in DOMAIN f.list
    /\ f.pc \in {"save", "fetch", "dbdelete"} => f.i = Len(f.list) + 1
    /\ f.ctx # "none" => f.snap \in SnapIDs
    /\ f.ctx = "create" => f.vm \in VMs

\* Every variable has its type, and a handler that indexes its disk list does
\* so within bounds: the loops of vms.go and snapshots.go cannot run past it.
TypeOK ==
    /\ files \subseteq SnapIDs \X Disks
    /\ dirs \subseteq SnapIDs \X Repos
    /\ db \in [SnapIDs -> Record \cup {Nil}]
    /\ minted \subseteq SnapIDs /\ known \subseteq SnapIDs
    /\ req \in [Requests -> Frame]
    /\ \A r \in Requests : WellFormed(req[r])
    /\ faults \in 0 .. MaxFaults /\ crashes \in 0 .. MaxCrashes

\* The question left open at internal/snapshots.go:68: whatever other requests
\* do between the ReadDir that found the directory empty and the RemoveAll, no
\* snapshot file is in it when RemoveAll runs.
RemoveAllOnlyEmpty ==
    \A r \in Requests : At(r, "rmdir") => FilesIn(DirOf(req[r])) = {}

\* A snapshot whose record has been deleted has no file left in any
\* repository, whatever failed and wherever the process died: a file that
\* nothing refers to could not be found again.
DeletedLeavesNothing ==
    \A s \in known : db[s] = Nil => \A d \in Disks : <<s, d>> \notin files

\* A delete or a purge answered with success has left no record of any
\* snapshot it set out to delete, whoever else was deleting them.
AckedDeleteIsDone ==
    \A r \in Requests : req[r].reply = "ok" => \A s \in req[r].asked : db[s] = Nil

\* No single failing call makes a create leak: while at most one call has
\* failed and the process has not died, every snapshot file belongs to a
\* recorded snapshot or to one that a handler is creating or cleaning up.  The
\* second reflink of an image that a VM lists twice fails, and counts as one.
Repeats(l) == \E j, k \in DOMAIN l : j # k /\ l[j] = l[k]
Repeated   == {d \in Disks : \E v \in VMs : \E l \in DiskLists[v] :
                   Repeats(l) /\ \E j \in DOMAIN l : l[j] = d}
NoOrphanFile ==
    crashes = 0 => \A x \in files : faults <= (IF x[2] \in Repeated THEN 0 ELSE 1) =>
        db[x[1]] # Nil \/ \E r \in Requests : req[r].snap = x[1]

\* Nor does it make a create leave a directory: one of a snapshot that was never
\* recorded belongs to a handler.  (A delete may leave one, as vms.go and
\* snapshots.go drop the error of RemoveAll.)
NoOrphanDir ==
    crashes = 0 => \A x \in dirs :
        faults <= (IF \E d \in Repeated : RepoOf[d] = x[2] THEN 0 ELSE 1) =>
            x[1] \in known \/ \E r \in Requests : req[r].snap = x[1]

\* Concurrent deletes of one snapshot cannot all give up half-way: without
\* failing calls, a recorded snapshot has all its files unless a handler is
\* still deleting it.
AllOrNothing ==
    faults = 0 /\ crashes = 0 =>
        \A s \in SnapIDs : db[s] # Nil =>
            \/ \A j \in DOMAIN db[s].disks : <<s, db[s].disks[j]>> \in files
            \/ \E r \in Requests : req[r].ctx = "delete" /\ req[r].snap = s

\* A record is written only once every disk it lists has its file, so a death
\* of the process during a create never leaves a record of missing files.
BornComplete ==
    \A s \in SnapIDs : db[s] = Nil /\ db'[s] # Nil =>
        \A j \in DOMAIN db'[s].disks : <<s, db'[s].disks[j]>> \in files'
RecordBornComplete == [][BornComplete]_vars

(***************************************************************************)
(* The inductive invariant behind the safety properties.  A snapshot id is *)
(* worked on either by the one request that builds the snapshot, or, once  *)
(* it has been recorded, by any number of deletes; the two never meet.     *)
(***************************************************************************)
Building(f) == f.ctx \in {"create", "discard", "rollback", "undo"}

\* A file is in a directory that exists, of an identifier that was handed out.
FilesHoused ==
    \A x \in files : <<x[1], RepoOf[x[2]]>> \in dirs /\ x[1] \in minted

\* A recorded identifier was handed out, and its record lists all its files,
\* and no image twice.
Catalogued ==
    /\ known \subseteq minted
    /\ \A s \in SnapIDs : db[s] # Nil =>
         /\ s \in known
         /\ \A j, k \in DOMAIN db[s].disks : j < k => db[s].disks[j] # db[s].disks[k]
         /\ \A d \in Disks : <<s, d>> \in files =>
              \E j \in DOMAIN db[s].disks : db[s].disks[j] = d

\* No two requests build the same snapshot.
BuiltApart ==
    \A r, q \in Requests :
        Building(req[r]) /\ Building(req[q]) /\ req[r].snap = req[q].snap => r = q

\* The disks of the list that a create is done with.
Done(f, j) == j < f.i \/ (j = f.i /\ f.pc = "extents")

\* A create has the directory it reflinks into and the files of the disks it
\* is done with, no two of which are the same, and no file of another disk.
CreateInv(f) ==
    f.ctx = "create" =>
        /\ f.list \in DiskLists[f.vm]
        /\ f.pc = "reflink" => DirOf(f) \in dirs
        /\ \A j \in DOMAIN f.list : Done(f, j) =>
              /\ <<f.snap, f.list[j]>> \in files
              /\ \A k \in DOMAIN f.list : k < j => f.list[k] # f.list[j]
        /\ \A d \in Disks : <<f.snap, d>> \in files =>
              \E j \in DOMAIN f.list : Done(f, j) /\ f.list[j] = d

\* A delete follows the list of the record, if there still is one, and leaves
\* no file of the disks it is done with.
DeleteInv(f) ==
    f.ctx = "delete" =>
        /\ f.snap \in known
        /\ db[f.snap] # Nil => db[f.snap].disks = f.list
        /\ \A j \in DOMAIN f.list : j < f.i => <<f.snap, f.list[j]>> \notin files
        /\ f.pc \in {"readdir", "rmdir"} => FileOf(f) \notin files

FrameInv(f) ==
    /\ Building(f) => f.snap \in minted \ known
    /\ CreateInv(f)
    /\ DeleteInv(f)
    /\ f.pc = "rmdir" => \A d \in Disks :
         RepoOf[d] = RepoOf[f.list[f.i]] => <<f.snap, d>> \notin files

StoreInv ==
    /\ TypeOK
    /\ FilesHoused
    /\ Catalogued
    /\ BuiltApart
    /\ DeletedLeavesNothing
    /\ \A r \in Requests : FrameInv(req[r])

(***************************************************************************)
(* What bounds a handler's calls: the snapshots a purge still has to come  *)
(* to, then the function it is in, the disks left to walk, and the calls   *)
(* left for this one.                                                      *)
(***************************************************************************)
Stage(f) ==
    CASE f.pc = "idle"                              -> 0
      [] f.pc = "next"                              -> 1
      [] f.ctx \in {"delete", "rollback", "undo"}   -> 2
      [] f.ctx = "discard"                          -> 3
      [] f.ctx = "create"                           -> 4

CallsLeft ==
    [idle |-> 0, next |-> 0, mkdir |-> 3, reflink |-> 2, extents |-> 1, save |-> 0,
     unlink |-> 3, stat |-> 4, remove |-> 3, readdir |-> 2, rmdir |-> 1,
     fetch |-> 2, dbdelete |-> 1]

Nearer(g, f) ==
    \/ g.queue \subseteq f.queue /\ g.queue # f.queue
    \/ /\ g.queue = f.queue
       /\ \/ Stage(g) < Stage(f)
          \/ /\ Stage(g) = Stage(f)
             /\ \/ Len(g.list) - g.i < Len(f.list) - f.i
                \/ /\ Len(g.list) - g.i = Len(f.list) - f.i
                   /\ CallsLeft[g.pc] < CallsLeft[f.pc]

\* Whatever a call returns, and whatever other requests have done meanwhile, the
\* handler is nearer to its reply after it: clean-up does not start over, a purge
\* does not come back to a snapshot, and a failing call is never tried again.
Progress == \A r \in Requests : Advance(r) \/ CallFails(r) => Nearer(req'[r], req[r])
CallsComeToAnEnd == [][Progress]_vars

\* Every request is answered: the loops over disks and snapshots end.
Answered == \A r \in Requests : ~ At(r, "idle") ~> At(r, "idle")

\* Once a request has begun to delete a snapshot, the snapshot is deleted,
\* though other deletes may make that very request fail.
Deleting(s) == \E r \in Requests : req[r].ctx = "delete" /\ req[r].snap = s
DeleteBegunEnds == \A s \in SnapIDs : Deleting(s) ~> db[s] = Nil

\* A snapshot whose deletion is begun again and again is deleted in the end.
BeginsDeleting(s) == ~ Deleting(s) /\ Deleting(s)'
RetriedDeleteSucceeds ==
    \A s \in SnapIDs : []<><<BeginsDeleting(s)>>_vars => []<>(db[s] = Nil)
=============================================================================
