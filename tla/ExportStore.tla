----------------------------- MODULE ExportStore -----------------------------
(***************************************************************************)
(* SnapshotStore and the data on the disks.  SnapshotStore has every call  *)
(* of the handlers and knows of a file only whether it exists;             *)
(* IncrementalExport has the blocks of the files and knows of the handlers *)
(* only what they may do to a snapshot.  Here each call of a handler that  *)
(* makes or removes a file, or writes or removes a record, is a step of    *)
(* both, any other call of a handler is a step of SnapshotStore alone, and *)
(* the guests write to their disks between any two of them.                *)
(*                                                                         *)
(* What a call does to the data never waits for what IncrementalExport     *)
(* requires of it: that is for ImplementsExport to show.                   *)
(***************************************************************************)
EXTENDS SnapshotStore

CONSTANTS Size, Phys, Busy, MaxWrites, Discards   \* those of IncrementalExport

ASSUME DataAssumption ==
    /\ Size \in [Disks -> Nat \ {0}] /\ Phys \subseteq Nat \ {0}
    /\ Busy \subseteq Disks /\ MaxWrites \in Nat /\ Discards \in BOOLEAN

VARIABLES live, data, file, phase, list, i, chunks, created, clock, log,
          image, prior, seen                \* those of IncrementalExport

Export == INSTANCE IncrementalExport WITH
              Snaps <- SnapIDs, DiskLists <- UNION {DiskLists[v] : v \in VMs}

dataVars  == <<live, data, file, phase, list, i, chunks, created, clock, log, image, prior, seen>>
storeVars == <<vars, dataVars>>

Untouched == UNCHANGED dataVars

-----------------------------------------------------------------------------
(***************************************************************************)
(* The calls of a handler, and what they do to the data.                   *)
(***************************************************************************)
\* Only a VM that can be cloned gets as far as its first disk.
Begins(r) ==
    /\ CreateSnapshot(r)
    /\ IF req'[r].ctx = "create" THEN Export!Begin(req'[r].snap, req'[r].list) ELSE Untouched

\* The guests may write between the reflink and the reading of the extents.
Copies(r) ==
    /\ Reflink(r)
    /\ IF FileOf(req[r]) \in files THEN Untouched
       ELSE Export!Copy(req[r].snap, req[r].list[req[r].i])

Measures(r) == ReadExtents(r) /\ Export!Measure(req[r].snap, req[r].list[req[r].i])

Records(r) == SaveRecord(r) /\ Export!Record(req[r].snap)

\* os.Remove of a file, by a delete or by the clean-up of a create.
Removes(r) ==
    /\ DiscardFile(r) \/ RemoveFile(r)
    /\ IF FileOf(req[r]) \notin files THEN Untouched
       ELSE IF req[r].ctx = "delete" THEN Export!Delete(req[r].snap, req[r].list[req[r].i])
       ELSE Export!CleanUp(req[r].snap, req[r].list[req[r].i])

\* os.RemoveAll takes the data of what it finds.
RemovesAll(r) ==
    /\ RemoveDir(r)
    /\ file' = [x \in files' |-> file[x]]
    /\ UNCHANGED <<live, data, phase, list, i, chunks, created, clock, log, image, prior, seen>>

Forgets(r) ==
    /\ DeleteRecord(r)
    /\ IF db[req[r].snap] = Nil THEN Untouched ELSE Export!Forget(req[r].snap)

\* Calls that look, make a directory, take the next of a list, or fail.
Others(r) ==
    /\ \/ DeleteSnapshot(r) \/ PurgeSnapshots(r) \/ LookupFails(r)
       \/ MakeDir(r) \/ StatDir(r) \/ ReadDir(r)
       \/ PurgeNext(r) \/ FetchRecord(r) \/ CallFails(r)
    /\ Untouched

Guests ==
    /\ \E d \in Busy : \E b \in Export!Blocks(d) :
          Export!GuestWrite(d, b) \/ Export!GuestDiscard(d, b)
    /\ UNCHANGED vars

-----------------------------------------------------------------------------
StoreInit == Init /\ Export!Init

StoreNext ==
    \/ \E r \in Requests : \/ Begins(r) \/ Copies(r) \/ Measures(r) \/ Records(r)
                           \/ Removes(r) \/ RemovesAll(r) \/ Forgets(r) \/ Others(r)
    \/ Crash /\ Untouched
    \/ Guests

StoreSpec == StoreInit /\ [][StoreNext]_storeVars

-----------------------------------------------------------------------------
(***************************************************************************)
(* Properties.                                                             *)
(***************************************************************************)
\* Whatever the requests do to each other, whichever calls fail and wherever the
\* process dies, a snapshot's disks are made in order, recorded when they are all
\* there, removed in order, and forgotten when they are all gone: SnapshotStore
\* does to the data only what IncrementalExport has it do.
ImplementsExport == Export!Spec

(***************************************************************************)
(* How the two agree: a snapshot's record, its files and the frame of the  *)
(* request that builds it, with its phase and the disk it has come to.     *)
(***************************************************************************)
RecordAgrees(s) ==
    db[s] # Nil =>
        /\ phase[s] \in {"recorded", "deleting"} /\ list[s] = db[s].disks
        /\ \A j \in DOMAIN list[s] : <<s, list[s][j]>> \in files <=> i[s] <= j

BuilderAgrees(f) ==
    /\ Building(f) => phase[f.snap] \in {"creating", "failed"}
    /\ f.ctx = "create" =>
          phase[f.snap] = "creating" /\ list[f.snap] = f.list /\ i[f.snap] = f.i

\* Deletes that race on one snapshot keep to the order of its disks: one that
\* finds a file has no other file of the record missing after it, and a create is
\* where its frame says it is.  Every file that exists has its data.
Agree ==
    /\ file = [x \in files |-> file[x]]
    /\ phase \in [SnapIDs -> {"none", "creating", "failed", "recorded", "deleting", "deleted"}]
    /\ list \in [SnapIDs -> Seq(Disks)] /\ i \in [SnapIDs -> Nat \ {0}]
    /\ \A s \in SnapIDs \ minted : phase[s] = "none" /\ i[s] = 1
    /\ \A s \in SnapIDs : RecordAgrees(s)
    /\ \A r \in Requests : BuilderAgrees(req[r])

\* What a get answers for x with compareTo y, or without, from the records that
\* are in the database: a client can rebuild the snapshot from it.  The lists
\* that are compared are those of the records.
ServedSound ==
    \A x \in SnapIDs : db[x] # Nil => \A j \in DOMAIN db[x].disks :
        LET d == db[x].disks[j]
        IN  /\ Export!Downloaded(x, d, chunks[x][d], Export!NoFile(d)) = image[x][d]
            /\ \A y \in SnapIDs :
                  db[y] # Nil /\ Export!Together(x, y, d)
                      => Export!IncrementSound(x, y, d)
=============================================================================
