-------------------------- MODULE IncrementalExport --------------------------
(***************************************************************************)
(* What the exporter is for: a client downloads a snapshot of a VM once,   *)
(* and from then on only what compareTo reports as changed.  This module   *)
(* has the data that SnapshotStore leaves out: the blocks of the disks of  *)
(* one VM, where OCFS2 keeps them, the extents that a create records with  *)
(* each snapshot file, and the comparison of two such records.             *)
(*                                                                         *)
(* The guest writes, and discards blocks, whenever it likes.  Creates and  *)
(* deletes proceed disk by disk and may stop for ever after any step,      *)
(* which is what a failing call or the death of the process makes of them; *)
(* a create that failed removes what it made as far as it comes.           *)
(* ExportStore shows that this is all SnapshotStore does to the disks.     *)
(***************************************************************************)
EXTENDS Integers, Sequences, FiniteSets, Functions

CONSTANTS
    Disks,      \* the VM's disk images
    Size,       \* how many blocks each of them has
    Phys,       \* block numbers of the repository's file system, 1 .. n
    Snaps,      \* snapshots
    DiskLists,  \* the disk lists vm.cfg may hold when a create reads it
    Busy,       \* the disks that the guest writes to
    MaxWrites,  \* bound on what it does
    Discards    \* whether the hypervisor passes the guest's discards on

ASSUME ExportAssumption ==
    /\ Size \in [Disks -> Nat \ {0}]
    /\ Phys \subseteq Nat \ {0}
    /\ DiskLists \subseteq Seq(Disks)
    /\ Busy \subseteq Disks /\ MaxWrites \in Nat /\ Discards \in BOOLEAN

Hole      == 0                      \* a block that is not allocated
Zero      == 0                      \* what a hole reads as
Blocks(d) == 0 .. Size[d] - 1
NoFile(d) == [b \in Blocks(d) |-> Hole]   \* the mapping of a disk never written
Chunk == [start : Nat, length : Nat, physical : Phys]

VARIABLES
    live,    \* disk -> block -> the physical block of the disk image, or Hole
    data,    \* what each physical block holds
    file,    \* <<snapshot, disk>> -> block -> physical block, for the files that exist
    phase,   \* none, creating, failed, recorded, deleting (still recorded) or deleted
    list,    \* the disks of each snapshot, in order
    i,       \* the disk that a create or a delete has come to
    chunks,  \* snapshot -> disk -> the extents read when it was snapshotted
    created, \* CreatedAt of each record
    clock,   \* the time
    log,     \* what the guest did, in order; the n-th write leaves n in its block
    \* History, which no step depends on:
    image,   \* snapshot -> disk -> what the disk held when it was reflinked
    prior,   \* snapshot -> disk -> the snapshots that had reflinked the disk by then
    seen     \* snapshot -> disk -> those of them whose file was still there

fs      == <<live, data, file>>
work    == <<phase, list, i, chunks, created>>
history == <<image, prior, seen>>
vars    == <<live, data, file, phase, list, i, chunks, created, clock, log, image, prior, seen>>

-----------------------------------------------------------------------------
(***************************************************************************)
(* The file system: reflinks share blocks, a write to a shared block goes  *)
(* to a new one (the comment on params.Chunk.Physical).                    *)
(***************************************************************************)
Files     == DOMAIN file
Shared(p) == \E x \in Files : p \in Range(file[x])
Free      == {p \in Phys : ~ Shared(p) /\ \A d \in Disks : p \notin Range(live[d])}
Read(map) == [b \in DOMAIN map |-> IF map[b] = Hole THEN Zero ELSE data[map[b]]]

\* Fault: the length of an extent is one block too many.
Extents_TooLong(map, cuts) ==
    {[start |-> b, length |-> 2, physical |-> map[b]] : b \in {c \in DOMAIN map : map[c] # Hole}}

\* An extent is a run of blocks that are adjacent on disk.  The file system may
\* break a run up at will, at the blocks in cuts.
Starts(map, cuts, b) ==
    /\ map[b] # Hole
    /\ (b = 0 \/ b \in cuts \/ map[b - 1] = Hole \/ map[b] # map[b - 1] + 1)

Run(map, cuts, b, e) ==
    \A k \in b .. e : /\ k \in DOMAIN map /\ map[k] = map[b] + (k - b)
                      /\ (k > b => k \notin cuts)

IsExtent(map, cuts, b, e) ==
    Starts(map, cuts, b) /\ b <= e /\ Run(map, cuts, b, e) /\ ~ Run(map, cuts, b, e + 1)

\* The extents of a mapping.
Extents(map, cuts) ==
    {[start |-> x[1], length |-> x[2] - x[1] + 1, physical |-> map[x[1]]] :
        x \in {y \in (DOMAIN map) \X (DOMAIN map) : IsExtent(map, cuts, y[1], y[2])}}

Covered(set) == UNION {c.start .. c.start + c.length - 1 : c \in set}

-----------------------------------------------------------------------------
(***************************************************************************)
(* Comparing two records.                                                  *)
(***************************************************************************)
\* Fault: the lengths are not compared.
CompareChunks_AnyLength(first, second) ==
    {val \in first : ~ \E prev \in second : /\ val.physical = prev.physical
                                            /\ val.start = prev.start}

\* An extent is old only if the baseline has it at the same place of the disk,
\* of the same length and in the same place of the file system.
CompareChunks(first, second) ==
    {val \in first : ~ \E prev \in second : /\ val.physical = prev.physical
                                            /\ val.start = prev.start
                                            /\ val.length = prev.length}

\* Chunks of snapshot x's disk d, relative to snapshot y.
DiffChunks(x, y, d) ==
    IF d \in Range(list[y]) THEN CompareChunks(chunks[x][d], chunks[y][d]) ELSE chunks[x][d]

Recorded(s) == phase[s] \in {"recorded", "deleting"}

\* getSnapshot finds both records and getDiffSnapshot does not refuse them.
Accepted(x, y) == Recorded(x) /\ Recorded(y) /\ created[y] < created[x]

-----------------------------------------------------------------------------
PerDisk(v) == [s \in Snaps |-> [d \in Disks |-> v]]
Images     == [d \in Disks |-> NoFile(d)]

Init ==
    /\ live = Images /\ data = [p \in Phys |-> Zero] /\ file = << >>
    /\ phase = [s \in Snaps |-> "none"] /\ list = [s \in Snaps |-> << >>]
    /\ i = [s \in Snaps |-> 1] /\ chunks = PerDisk({}) /\ created = [s \in Snaps |-> 0]
    /\ clock = 1 /\ log = << >>
    /\ image = [s \in Snaps |-> Images] /\ prior = PerDisk({}) /\ seen = PerDisk({})

\* The guest leaves v in a block.
Guest(d, b, v) ==
    /\ Len(log) < MaxWrites
    /\ log' = Append(log, <<d, b, v>>)
    /\ UNCHANGED <<file, work, clock, history>>

GuestWrite(d, b) ==
    /\ Guest(d, b, Len(log) + 1)
    /\ LET p == live[d][b] IN
       \/ /\ p = Hole \/ Shared(p)
          /\ \E q \in Free : /\ live' = [live EXCEPT ![d][b] = q]
                             /\ data' = [data EXCEPT ![q] = Len(log')]
       \/ /\ p # Hole /\ ~ Shared(p)
          /\ data' = [data EXCEPT ![p] = Len(log')]
          /\ UNCHANGED live

\* OCFS2 punches a hole into the image.
GuestDiscard(d, b) ==
    /\ Discards /\ live[d][b] # Hole
    /\ Guest(d, b, Zero)
    /\ live' = [live EXCEPT ![d][b] = Hole]
    /\ UNCHANGED data

\* What a call does to the files and what the service notes of it.
Begin(s, l) ==
    /\ phase' = [phase EXCEPT ![s] = "creating"]
    /\ list' = [list EXCEPT ![s] = l]
    /\ UNCHANGED <<fs, i, chunks, created, clock, log, history>>

\* The snapshots that have reflinked the disk so far.
Earlier(s, d) ==
    {t \in Snaps \ {s} : phase[t] # "none" /\ \E k \in DOMAIN list[t] :
        list[t][k] = d /\ (phase[t] \in {"creating", "failed"} => k < i[t] \/ <<t, d>> \in Files)}

\* Disk.CreateSnapshot reflinks the disk.
Copy(s, d) ==
    /\ file' = [x \in Files \cup {<<s, d>>} |-> IF x = <<s, d>> THEN live[d] ELSE file[x]]
    /\ image' = [image EXCEPT ![s][d] = Read(live[d])]
    /\ prior' = [prior EXCEPT ![s][d] = Earlier(s, d)]
    /\ seen' = [seen EXCEPT ![s][d] = {t \in Snaps : <<t, d>> \in Files}]
    /\ UNCHANGED <<live, data, phase, list, i, chunks, created, clock, log>>

\* It notes the extents of a mapping, cut up in whatever way, and is done with the disk.
Note(s, d, map) ==
    /\ \E cuts \in SUBSET Blocks(d) : chunks' = [chunks EXCEPT ![s][d] = Extents(map, cuts)]
    /\ i' = [i EXCEPT ![s] = @ + 1]
    /\ UNCHANGED <<fs, phase, list, created, clock, log, history>>

\* Fault: the extents are those of the disk image, which the guest goes on writing to.
Measure_Source(s, d) == Note(s, d, live[d])

\* They are the extents of the copy.
Measure(s, d) == Note(s, d, file[<<s, d>>])

\* Database.CreateSnapshot takes the time when all disks have been snapshotted.
Record(s) ==
    /\ phase' = [phase EXCEPT ![s] = "recorded"]
    /\ created' = [created EXCEPT ![s] = clock]
    /\ clock' = clock + 1
    /\ i' = [i EXCEPT ![s] = 1]
    /\ UNCHANGED <<fs, list, chunks, log, history>>

\* Fault: the path of the file is built from its disk's name alone.
Remove_AnySnapshot(s, d) ==
    /\ file' = [x \in {y \in Files : y[2] # d} |-> file[x]]
    /\ UNCHANGED <<live, data, list, created, clock, log>>

Remove(s, d) ==
    /\ file' = [x \in Files \ {<<s, d>>} |-> file[x]]
    /\ UNCHANGED <<live, data, list, created, clock, log>>

Delete(s, d) ==
    /\ Remove(s, d)
    /\ phase' = [phase EXCEPT ![s] = "deleting"] /\ i' = [i EXCEPT ![s] = @ + 1]
    /\ UNCHANGED <<chunks, history>>

\* The clean-up of a create, which has not noted the disk anywhere yet.
CleanUp(s, d) ==
    /\ Remove(s, d)
    /\ phase' = [phase EXCEPT ![s] = "failed"]
    /\ chunks' = [chunks EXCEPT ![s][d] = {}] /\ image' = [image EXCEPT ![s][d] = NoFile(d)]
    /\ prior' = [prior EXCEPT ![s][d] = {}] /\ seen' = [seen EXCEPT ![s][d] = {}]
    /\ UNCHANGED i

\* The record takes with it all that was known of the snapshot.
Forget(s) ==
    /\ phase' = [phase EXCEPT ![s] = "deleted"]
    /\ list' = [list EXCEPT ![s] = << >>] /\ i' = [i EXCEPT ![s] = 1]
    /\ chunks' = [chunks EXCEPT ![s] = [d \in Disks |-> {}]]
    /\ created' = [created EXCEPT ![s] = 0]
    /\ image' = [image EXCEPT ![s] = Images]
    /\ prior' = [prior EXCEPT ![s] = [d \in Disks |-> {}]]
    /\ seen' = [seen EXCEPT ![s] = [d \in Disks |-> {}]]
    /\ UNCHANGED <<fs, clock, log>>

\* When the calls are made.
CreateSnapshot(s) == phase[s] = "none" /\ \E l \in DiskLists : Begin(s, l)

\* The reflink fails if the file is there.
SnapshotDisk(s) ==
    /\ phase[s] = "creating" /\ i[s] <= Len(list[s]) /\ <<s, list[s][i[s]]>> \notin Files
    /\ Copy(s, list[s][i[s]])

\* The extents of the file that was just made.  A disk that is listed twice never
\* gets here again: its second reflink fails.
GetFileExtents(s) ==
    /\ phase[s] = "creating" /\ i[s] <= Len(list[s]) /\ <<s, list[s][i[s]]>> \in Files
    /\ \A k \in 1 .. i[s] - 1 : list[s][k] # list[s][i[s]]
    /\ Measure(s, list[s][i[s]])

SaveRecord(s) ==
    /\ phase[s] = "creating" /\ i[s] > Len(list[s])
    /\ Record(s)

\* A create that has failed may remove its files, and fail in that as well.
Rollback(s) ==
    /\ phase[s] \in {"creating", "failed"}
    /\ \E d \in Disks : <<s, d>> \in Files /\ CleanUp(s, d)

\* A delete begins with the first file.
RemoveFile(s) ==
    /\ phase[s] \in {"recorded", "deleting"} /\ i[s] <= Len(list[s])
    /\ Delete(s, list[s][i[s]])

DeleteRecord(s) ==
    /\ phase[s] \in {"recorded", "deleting"} /\ i[s] > Len(list[s])
    /\ Forget(s)

Next ==
    \/ \E d \in Busy : \E b \in Blocks(d) : GuestWrite(d, b) \/ GuestDiscard(d, b)
    \/ \E s \in Snaps : \/ CreateSnapshot(s) \/ SnapshotDisk(s) \/ GetFileExtents(s)
                        \/ SaveRecord(s) \/ Rollback(s) \/ RemoveFile(s) \/ DeleteRecord(s)

Spec == Init /\ [][Next]_vars

-----------------------------------------------------------------------------
(***************************************************************************)
(* Properties.                                                             *)
(***************************************************************************)
Mapping(d) == [Blocks(d) -> Phys \cup {Hole}]

\* Every variable has its type; a file belongs to a disk its snapshot lists.
TypeOK ==
    /\ \A d \in Disks : live[d] \in Mapping(d)
    /\ data \in [Phys -> 0 .. Len(log)]
    /\ \A n \in DOMAIN log : /\ log[n][1] \in Disks /\ log[n][2] \in Blocks(log[n][1])
                            /\ log[n][3] \in {Zero, n}
    /\ \A x \in Files : x[2] \in Range(list[x[1]]) /\ file[x] \in Mapping(x[2])
    /\ phase \in [Snaps -> {"none", "creating", "failed", "recorded", "deleting", "deleted"}]
    /\ list \in [Snaps -> DiskLists \cup {<< >>}]
    /\ \A s \in Snaps : i[s] \in 1 .. Len(list[s]) + 1 /\ created[s] < clock
    /\ \A s \in Snaps, d \in Disks : \A c \in chunks[s][d] :
          c \in Chunk /\ c.length > 0 /\ c.start + c.length - 1 \in Blocks(d)

\* From its record's creation to the start of its deletion a snapshot has the
\* file of every disk it lists, and whatever the guest writes and whatever other
\* snapshots come and go, the file reads as the disk did when it was reflinked.
SnapshotKept ==
    \A s \in Snaps : phase[s] = "recorded" => \A d \in Range(list[s]) :
        <<s, d>> \in Files /\ Read(file[<<s, d>>]) = image[s][d]

\* What a client has after it downloaded the chunks of x on top of base.
Downloaded(x, d, set, base) ==
    [b \in Blocks(d) |-> IF b \in Covered(set) THEN image[x][d][b] ELSE base[b]]

\* A full download of the chunks, as a sparse file, is the snapshot.
FullExportSound ==
    \A x \in Snaps : Recorded(x) => \A d \in Range(list[x]) :
        Downloaded(x, d, chunks[x][d], NoFile(d)) = image[x][d]

\* The blocks the guest discarded between two snapshots, as far as a client can
\* tell: the baseline has an extent there and the snapshot has none.  No extent
\* of the snapshot reports them, so an increment leaves the old data in place.
Dropped(x, y, d) == Covered(chunks[y][d]) \ Covered(chunks[x][d])

\* What the client has of the baseline.
Baseline(y, d) == IF d \in Range(list[y]) THEN image[y][d] ELSE NoFile(d)

\* An incremental download, onto the image of the baseline, is the snapshot,
\* once the dropped blocks are cleared.
IncrementSound(x, y, d) ==
    \A b \in Blocks(d) :
        image[x][d][b] = IF b \in Dropped(x, y, d) THEN Zero
                         ELSE Downloaded(x, d, DiffChunks(x, y, d), Baseline(y, d))[b]

\* Of the two files of disk d, one was there when the other was made.
Together(x, y, d) == d \in Range(list[y]) => y \in seen[x][d] \/ x \in seen[y][d]

\* It is, for two records in whatever order of their times, and of their reflinks,
\* as long as the two files were there together: a baseline that is accepted as the
\* older one (manager.go:236), but was reflinked later, does no harm.
IncrementalExportSound ==
    \A x, y \in Snaps : Recorded(x) /\ Recorded(y) =>
        \A d \in Range(list[x]) : Together(x, y, d) => IncrementSound(x, y, d)

\* It is for every baseline that is still on record and is the older one.
AnyBaselineSound ==
    \A x, y \in Snaps : Accepted(x, y) =>
        \A d \in Range(list[x]) :
            (d \in Range(list[y]) => y \in prior[x][d]) => IncrementSound(x, y, d)

\* What the guest has on its disks after the first n entries of the log.
AfterWrites(n) ==
    LET To(d, b) == {k \in 1 .. n : log[k][1] = d /\ log[k][2] = b}
        Last(set) == CHOOSE k \in set : \A m \in set : m <= k
    IN  [d \in Disks |-> [b \in Blocks(d) |->
            IF To(d, b) = {} THEN Zero ELSE log[Last(To(d, b))][3]]]

\* A snapshot is what the disks of the VM held at one moment.
PointInTime ==
    \A s \in Snaps : Recorded(s) =>
        \E n \in 0 .. Len(log) : \A d \in Range(list[s]) : image[s][d] = AfterWrites(n)[d]
=============================================================================
