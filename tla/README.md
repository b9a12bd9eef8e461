# Verification of coriolis-ovm-exporter

The exporter is a service on an Oracle VM host. It snapshots the disks of a
virtual machine by reflinking them on their OCFS2 repository, records the
snapshot and the extents of each file in a bolt database, and lets a client
download a snapshot, in full or only what changed since an earlier one. This
directory holds TLA+ models of it, the TLC runs that check them, and proofs
that TLAPS checks. `PROJECT.json` lists components, runs, mutants (a plausible
bug for every property, which the run must find), the source lines of each
definition, findings, hazards and theorems.

Run from this directory, for example

    tlc -workers 2 -config StoreSafety.cfg MCSnapshotStore
    tlapm SnapshotStoreProofs.tla

## 1. The system

| part | source | state | operations |
| --- | --- | --- | --- |
| HTTP handlers | `apiserver/controllers`, `apiserver/routers` | none | one goroutine per request, no locks; errors become status codes in `handleError` |
| snapshot manager | `manager/manager.go` | none of its own | `CreateSnapshot`, `DeleteSnapshot`, `PurgeSnapshots`, `GetSnapshot` (with `compareTo`), `ListSnapshots` |
| disk snapshots | `internal/vms.go`, `internal/snapshots.go`, `internal/reflink.go` | `<repo>/CoriolisSnapshots/<id>/<disk>`: one file per disk and one directory per repository | reflink with clean-up, delete with removal of the empty directory |
| extents | `internal/fiemap.go`, `internal/util.go` | none | FIEMAP in pages, `SquashChunks` |
| database | `db/` | a record per snapshot: VM, `CreatedAt`, disks and their extents | save, fetch, list, delete; a bolt transaction each |
| discovery | `internal/vms.go`, `internal/repos.go` | reads the ovs-agent's database and `vm.cfg` | VMs, disks, repositories |
| authentication | `apiserver/auth` | none; a token expires | login against the OVM manager, a check of the token before each handler |
| service | `cmd/exporter`, `contrib/` | the lock on the database file, the port | start; SIGTERM or SIGINT end the process at once, the supervisor restarts it |
| configuration | `config` | what the process read when it started | read, complete from the ovs-agent's files, validate |
| logging, wire types | `util`, `apiserver/params`, `errors` | none | |

The parts share two things, the file system and the database, and nothing
keeps them in step: each request makes its calls one after the other, other
requests make theirs in between, each call can fail, and the process can die
after any of them. The guest is a further actor: it writes to its disks all the
while. Three things must be right in spite of this.

* *Files and records agree.* A record lists files that are there; a file whose
  record is gone is gone; clean-up takes what it made and nothing else.
* *What a client rebuilds is the disk.* The recorded extents cover what was
  written, and what `compareTo` leaves out has not changed.
* *Requests end*, and a snapshot whose deletion has begun does go away.

A fourth actor is the administrator, who presents repositories to the host and
moves VMs: what is in the ovs-agent's files is read anew for every purpose. The
configuration, on the other hand, is read once: who edits it, replaces the
certificates, hands the host to another manager or removes an account meets a
process that does not know.

* *A VM is what its files say.* Every disk is found in the repository it is in,
  and a VM with a disk that cannot be reflinked is not snapshotted.
* *One process writes.* All of the above supposes that a single process has the
  database, however often it is started, killed or started twice; and that it
  comes back.
* *Who is let in* has been vouched for by the manager, and not too long ago.

What is hard to test about them is in the "hazards" of `PROJECT.json`, each at
its line.

## 2. Modules

**SnapshotStore** is the core: create, delete and purge. A request is a frame
(`req[r]`): `pc` is the next system call or transaction, `ctx` the function for
which it walks the disks `list` from position `i`. `MakeDir`, `Reflink`,
`ReadExtents` are the calls of `Disk.CreateSnapshot`; `DiscardFile` and what
follows its deferred clean-up; `StatDir`, `RemoveFile`, `ReadDir`, `RemoveDir`
those of `DiskSnapshot.DeleteSnapshot`, run on behalf of a delete, of the
roll-back in `VMConfig.CreateSnapshot` or of the undo in
`SnapshotManager.CreateSnapshot`; `FetchRecord` and `DeleteRecord` the two
transactions of `Database.DeleteSnapshot`. `NextDisk` and `DiskFailed` are the
loops: a delete and an undo stop at the first error, a roll-back carries on.
`CallFails` makes any call fail without effect, `Crash` ends all requests.
`Disk.CanClone`, which `Disk.CreateSnapshot` asks once more for every disk, is not a
step: it can only differ from what `CreateSnapshot` has seen when the disks were
resolved otherwise the second time. That it fails in mid-list is `CallFails` at
`MakeDir`: the same roll-back, with the reply "error" where the code has a bad request.
`files`, `dirs` and `db` are what survives.

**SnapshotReads** extends it with the requests that read: get (of one snapshot,
or of one and its baseline), list and download. They see records and files in
separate steps. Together the two modules compose every snapshot route of the
API.

**SnapshotCatalog** is the abstract specification of both: what a client is
promised. It knows one status per snapshot, `none`, `present`, `leaving` or
`gone`, and requests that are answered atomically. A record appears whole, is
`leaving` once a delete has begun, and never comes back; a snapshot that
is `present` can be read, and reading may fail only for one that is not.
`ImplementsCatalog` is its specification under a refinement mapping: a snapshot
with a record that is not on the list of the `doomed` is present, one on the list
is leaving, one that had a record and has none is gone. Files, directories, disk
lists and calls are invisible: every one of their steps is a stutter or the one
step at which the promise takes effect. It is a safety specification; the
liveness of the store is checked by StoreRaces.

**Discovery** is how a request comes to a VM and its disks. `ParseRepos`,
`ScanRepo` (a turn of `ListAllVMs`) and `GetVM` find the VM; `SkipLine`,
`TryRepo` and `NoRepo` are the turns of the two loops of `VMConfig.Disks`;
`Resolved` is what the caller does with the disks: put them in the reply, look
whether all can be cloned, or clone them (which is where SnapshotStore takes
over). A show and a create go through `Disks` two times each, afresh. `present`,
`meta` and `where` are the files of the ovs-agent, external, which may change
between any two reads. A path is a sequence of a few symbols, as the prefix test
is what matters. `NextVM` is the loop of `ListVirtualMachines`, which does for each VM
what a show does for one.

**IncrementalExport** has the data that SnapshotStore leaves out. A disk image,
like a snapshot file, maps blocks to physical blocks; a reflink copies the
mapping, and a guest's write goes to a free block when the block is shared and
in place when it is not, as OCFS2 does (external: the comment on
`params.Chunk.Physical` says what the code relies on). `Extents` gives the runs
of a mapping, split at will, since a file system may report one run as several
extents. `CompareChunks`, `DiffChunks` and `Accepted` are the manager's
comparison. `GuestDiscard` punches a hole into an image. `image` (what a disk held
when it was reflinked), `prior` (the snapshots that had reflinked it by then) and
`seen` (those of them whose file was still there) are history, for the properties.
The reflink (`SnapshotDisk`) and the reading of the extents of the copy
(`GetFileExtents`) are two steps, between which the guest may write; the fault
`Measure_Source`, which reads the extents of the disk instead, is what the two steps
tell apart.
A create that fails is left in phase `failed` and may take back what it made, file
by file and in any order (`Rollback`), which is when the guest gets to write in
place again. What a call does to the data (`Begin`, `Copy`, `Measure`, `Record`, `Delete`,
`CleanUp`, `Forget`) is apart from when it may. The constant `Busy` has the disks that
the guest writes to at all.

**ExportStore** composes SnapshotStore and IncrementalExport: every call of a
handler that makes or removes a file or a record is a step of both (`Copies`,
`Measures`, `Records`, `Removes`, `RemovesAll`, `Forgets`), any other call one of SnapshotStore,
and the guests write between any two. Here the data follows the calls and waits for
nothing: that each of its steps is one that IncrementalExport allows, in the phase it
allows it, is `ImplementsExport`. `Agree` is how the two states go together.
`RemovesAll` takes the data of whatever files it finds with it, so that a `RemoveAll`
that hits one is no step of IncrementalExport.

**ChunkList** is the way of an extent list to a client, one loop turn per step:
`walkFiemap` in pages, `compareChunks`, `SquashChunks`. In IncrementalExport
these are sets; here their order, the page boundaries and the accumulator of
the squash are what is checked.

**ExporterService** is the life of the processes. `ParseConfig`, `OpenDatabase`,
`StartServer` and `AwaitStop` are the steps of `main`, `ListenAndServeTLS` is the
server's goroutine, which ends the process when it cannot listen. One process is
the service, which a supervisor restarts; others are started by hand on the same
configuration, so on the same database and port. A process has the lock of the
database from `OpenDatabase` on, and its end, however it comes, frees lock and
port and does nothing else. A signal ends a process that has not come to
`signal.Notify` yet, which is among the first things it does (a stop during "config"
may find it before or after), and one that waits: the channel has no buffer, so any
other signal is lost and a stop needs the supervisor's `Kill`. The configuration, the
certificates, the ovs-agent's manager and the port change from outside at any time.
`certs` tells the server's key pair from the authority's certificate, as main loads
both three times, and `ListenAndServeTLS` the pair alone once more.

**ExporterAuth** extends it with who is let in. A login is `LoginHandler`, then
`AttemptRequest` (the manager's answer), then `IssueToken`. `logins` is a bag: any
number of logins, also of one user, may be handled at once. `Accepts` is the check
that the middleware makes of a token, against the secret of whatever process
serves and the time. Tokens are recorded nowhere: they outlive the process that
gave them out, and nobody can take one back.

The `MC*` modules give the constants values. The theorems are in
`SnapshotStoreProofs` (types and inductive invariant), `SnapshotStoreOutcomes` (how
deletes and creates end), `SnapshotReadsProofs` (the readers, and their refinement),
`IncrementalExportProofs`, `ExportStoreProofs` (the other refinement),
`ChunkListProofs`, `DiscoveryProofs` and `ExporterServiceProofs`.

## 3. Runs

| run | question | result |
| --- | --- | --- |
| StoreSafety | do creates, deletes and purges keep files, directories and records consistent, through failures and a crash? | holds |
| StoreRaces | are requests that race on one snapshot all answered, and is it deleted? | holds |
| StoreRetry | does deleting again finish a delete that died? | **violated** |
| ExportSound | does a client rebuild the disk, from a full and from an incremental download, also when disks are attached and detached? | holds |
| ExportGoneBaseline | whatever accepted baseline it uses? | **violated** |
| ExportMoment | is a snapshot of two disks their state at one moment? | **violated** |
| ExportStore | do the handlers, call by call, do to the data what IncrementalExport has them do? | they do |
| ChunksServed | do paging, comparing and squashing serve exactly the new bytes, and end? | holds |
| Reads | can a reader fail, or a snapshot lose a file, without a delete? Do the handlers implement SnapshotCatalog? | it cannot; they do |
| Discovery | is every disk image found where it is, and no VM with an unfit one accepted, while the host changes? | holds |
| DiscoveryLuns | and no VM with an unfit disk of any kind? | **violated** |
| Service | does one process at most serve, does the service come back, and who is let in? | holds |

### Properties

* `RemoveAllOnlyEmpty` settles the TODO at `internal/snapshots.go:68`: no
  request puts a file into the directory between `ReadDir` and `RemoveAll`, as
  identifiers are not reused and a snapshot is recorded, and so can be named in
  a delete, only when its last file is made.
* `DeletedLeavesNothing`, `RecordBornComplete` and `NotDeletedIsWhole` tie
  records to files, at the record's end, at its birth and in between.
* `NoOrphanFile` says that one failing call never makes a create leak. It is
  limited to one failure and no crash, and has to be: when the clean-up fails
  too, or the process dies, files stay for which there is no record, and nothing
  ever looks for them. `NoOrphanDir` says it of directories, as far as they are those of
  a create that was never recorded: one that a delete fails to remove stays, since the
  error of `RemoveAll` is dropped. An image that a VM lists twice (`Repeated`) brings its own
  failure, the second reflink of it, and bears no other.
* `AllOrNothing` says that without failures concurrent deletes cannot all give
  up half-way, and `DeleteBegunEnds` that the snapshot is then deleted. Of two
  deletes that meet at a file, one fails with an error; the other one goes on.
* `AckedDeleteIsDone` says that an acknowledged delete or purge has been done,
  also for the snapshots another request was deleting.
* `IncrementalExportSound` says that an incremental download onto the baseline's
  image gives the snapshot's image, if the files of the two were there together. The
  code does not check that: the next section. Which of the two was reflinked
  first does not matter, nor in which order they were recorded, so neither does a
  clock that is set back. This is just as well: `controllers.go:172` wants the baseline
  to be older, but `CreatedAt` is the time of the save (`db.go:69`), and of two creates
  that overlap the one that reflinked a disk first may save last. The client
  has a part in it: blocks that the guest discarded are in no extent of the
  snapshot, so it must clear what the baseline has and the snapshot lacks
  (`Dropped`).
* `ImplementsExport`: see ExportStore above. IncrementalExport takes it for granted that
  the files of a snapshot are made in order, recorded when all are there, removed in
  order once its deletion has begun and forgotten when all are gone. Nothing in
  SnapshotStore says so, where deletes race on one snapshot and each has its own place
  in the list. `ServedSound` then says of the records in the database what
  `FullExportSound` and `IncrementalExportSound` say of recorded snapshots.
* `SnapshotKept` with the roll-back: what a failed create takes back frees its own
  copy and no other.
* `ImplementsCatalog`: see SnapshotCatalog above. With it goes
  `ReadFailsOnlyIfDeleted`: a get, list or download that meets no failing call
  of its own fails only if the deletion of a snapshot it asked for has begun.
* `ResolvedRight` says that `Disks` gives a disk the repository that has its
  file, although metadata is tried before the path and repositories come in any
  order. It rests on two facts about OVM (`DiscoveryAssumption`), as the code
  does: repositories are mounted, and images named, by identifiers of one length,
  so that no mount point extends another and no name occurs in two repositories.
  Metadata may be missing or incomplete but lists only the repository's own images.
* `NoDiskLost`: the lines that are skipped in mid-list cost no other disk. The disks
  are the `file:` lines here, which are all that the code goes by.
* `ImagesAreSupported` relates a reply to the VM's configuration across three
  resolutions of its disks: every disk image of a VM that is accepted can be
  reflinked, also when a repository vanishes in between, since an image without one is
  refused. It says nothing of physical disks: `AllDisksSupported` does, and is
  violated (DiscoveryLuns, below).
* `MissingIsMissing`: a VM is called missing only if it is in none of the host's
  repositories, unless the request is `unsure` of it: the VM was moved, or the
  repository it is in was presented or taken, or was missed by the search, meanwhile.
  (`ParseRepos` takes an error of the cursor for the end of the records.) So whatever
  happens to one repository costs no VM of another.
* `ListIsComplete`: under the same condition, for each VM apart, the list has it once,
  although it reads the repositories anew, twice, for every VM on it.
* `OwnerServes`: whoever answers requests has the database locked. SnapshotStore
  takes it for granted that one process writes; this is why it may.
* `ServiceReturns`: however processes died, met each other at the lock or the port,
  or were stopped while they started, the service serves again once nothing is in
  its way.
* `AccessIsRecent`: a token lets a user in who was vouched for by a manager, for no
  longer than the time to live after it was issued, and not at all if the account
  was removed before the login began. That is all there is: it goes on to work
  after the account is removed, after a restart, and under another manager.
* `ServedExactly`, `NoneAdjacent`, `WalkComplete` and `Ends`: no byte lost, no
  byte too many, no two chunks that could be one, no loop that goes on for ever.
* `CallsComeToAnEnd`, `LoopsComeToAnEnd` and `RequestsComeToAnEnd` are the reason why
  `Answered` and `Ends` hold, as action properties: every step of a request, or turn of
  a loop, leaves less to do (`Nearer`, `LessToDo`), whatever other requests and the
  host do meanwhile.

### Disagreements found

* **StoreRetry**: `os.Remove` fails on a file that is gone. A delete of two
  files in one directory that dies after the first cannot be completed by any
  later one, though the code treats a missing *directory* as "Desired state
  equals actual state".
* **ExportGoneBaseline**: `Delete` removes files before the record. While the
  record is still there (for ever, in the situation of StoreRetry) it is accepted
  as a baseline, but its blocks are no longer shared: the guest overwrites them
  in place and the comparison by location calls them unchanged.
* **ExportMoment**: disks are reflinked one after the other with the guest
  running, so the "snapshot in time" is one per disk.
* **DiscoveryLuns**: `CanClone` is said to look at "all disks attached to this
  instance" (`vms.go:173`), and a snapshot to have "all VM disks" (`manager.go:145`).
  `VMConfig.Disks` passes over every line that is not `file:`, so a VM with a physical
  disk is shown as compatible, and its snapshot lacks that disk.

Two more have no run, as a reading of the code shows them and no interleaving matters.
A missing record is `storm.ErrNotFound`, which `handleError` does not know, so the
answer is 500 where `errors.go:25` and the first case of `handleError` would have 404
(`ReadAnswer` of SnapshotReads). And `examples/example-client.py` does not clear
the blocks that the guest discarded (`Dropped`, see `IncrementalExportSound`).

### Bounds, and why they are enough

* StoreSafety: two requests, two snapshots, four disks: one VM with three, of which
  two share a repository (a directory shared by two files and one that is not),
  and one VM that lists one image twice or has an image which cannot be cloned;
  two failing calls (a failure and one in its clean-up), one crash. The theorems
  remove the bounds.
* StoreRaces: three requests, one snapshot: a delete, a purge and a create, or
  three deletes. No failures, as a failing call may rightly leave a delete
  undone.
* ExportSound: two snapshots, because a comparison has two; a disk of two blocks,
  the least that tells lengths and positions of extents apart, and one of one
  block that is attached or detached between them; three writes or
  discards and as many physical blocks, so that a block can be freed, reused and
  overwritten in place, and none is ever missing. The theorems remove the bounds. The
  two runs that find a violation have as many writes as it takes. `MaxWrites` bounds
  the guest and `Snaps` the creates.
* ExportStore: one VM with two disks of one block, two snapshots, two requests: deletes
  race on a snapshot while another create goes on, and the last snapshot can be
  compared with the first. The guest writes to one of the disks (`Busy`) twice, at any
  moments, with two physical blocks: the second write goes to the other block while the
  first is shared, and overwrites it in place when it is not. Or it writes once, and a
  call fails or the process dies (`FewTroubles`). `FirstFit` has the first write take
  the first block, as nothing tells the two apart. 425,781 states; more writes, discards
  or more troubles multiply them, and are what ExportSound, which has the writes
  and discards, and StoreSafety, which has the troubles, look at. The theorems remove
  the bounds.
* ChunksServed: all extent lists of three blocks with up to three extents, all
  baselines, a page of two extents: an empty, a partial and a full page occur.
* Reads: one writer, one reader, two snapshots, two VMs: a list can hold two
  identifiers, and a request can name the wrong VM.
* Discovery: two repositories, one on OCFS2 and one not; three VMs, with two good
  images around a physical disk, a truncated line and an image on NFS, a cdrom image
  and an image that is in no repository; all orders of the repositories, all subsets
  of them as what the cursor returns, all subsets of images as metadata. Two
  changes, so that one can be undone within a request. The theorems remove the
  bounds. DiscoveryLuns has the same host, and no changes.
* Service: the service and one process started by hand, which is what it takes to
  contend for lock and port; two secrets, two managers, a configuration that is
  refused; three events from outside (`MaxEvents`: a process started by hand,
  something that ends one of the two, a change); one account, two logins at once
  (`MaxLogins`), one token (`MaxTokens`; tokens do not interact), three ticks (`MaxTime`) and a time to live
  of one, so that a token is issued, valid and expired. What a token is accepted
  for does not depend on other tokens, and the theorems remove the bounds for the
  safety properties.

Symmetry is used only in runs without liveness, for snapshots and requests, which
the modules do not tell apart.

Deadlock is checked in the store, read and discovery runs. The export runs stop
when the guest and the snapshots are used up, ChunkList when its loops end, and
Service when everything from outside has happened and the service waits.

### Fairness

`FairSpec` of SnapshotStore has weak fairness of `Advance(r)` for each request:
the Go scheduler runs every goroutine, and no call here waits for another
request. Nothing obliges a client to send one: `Accept` has no fairness, nor have
failures or crashes. A request's deadline or a client that hangs up does not
stop a handler: none of them looks at the request's context. ChunkList has weak
fairness of its sequential loops, and so has Discovery, whose loops run over
finite lists that were read at their start; changes of the host have none.

`Fairness` of ExporterAuth has weak fairness of the steps of `main` and of the
server's goroutine (neither waits for anything but the lock, and for that one
second at most), and of `Restart`: the systemd sample in `contrib/` has
`Restart=always`, and `RestartSec=5s` stays under systemd's default limit of
starts. The upstart sample gives up after fifteen starts (`respawn limit 15 5`),
and `ServiceReturns` is not claimed for it. Signals, crashes, changes and the
operator have no fairness.

## 4. Proofs

`TypeCorrect`: the types, and the bounds of every index into a disk list, for any
constants that satisfy `StoreAssumption`.

`StoreInvariant` is the inductive invariant `StoreInv`. The safety properties are
not inductive as they stand: that `RemoveAll` finds the directory empty depends
on who else may be using it. The invariant says that a snapshot is worked on
either by the one request that builds it (`BuiltApart`), which no one else can
name yet, or, once recorded, by deletes that follow the record's own list and
leave no file behind them (`DeleteInv`); that the record lists all the files
(`Catalogued`), and that files are in directories which exist (`FilesHoused`). The
proof has a lemma per action, over one lemma, `StepKept`, on what a step of one
request may mean to another: it changes nothing at the other's snapshot, or both
are deletes and something went away. From it follow `RemoveAllIsSafe`,
`DeletedIsGone` and `BornWhole`.

SnapshotStoreOutcomes adds four invariants to it, for the ways a request may end.
* `AckedIsDone`: of what a request set out to delete, every snapshot that is not
  gone yet is in its queue or is the one it is deleting (`Pursues`); and a record
  that is gone stays away (`RecordFinal`), as identifiers are not reused.
* `DeletesAllOrNothing`: of the deletes of a snapshot one is ahead. Every file that
  is missing lies behind it (`Leads`), so it never meets one that is not there.
  Whoever removes a file that others are still to come to leads from then on. Only
  one delete at a time clears up after a file, and one that is overtaken there
  finds no directory left (`InTurn`).
* `NoneOrphaned`: a file that no record lists is minded by a request: it is still
  to come for the clean-up of a create that failed, or the create goes on
  (`Minded`), and a clean-up carries on only from one failure (`CleanInv`). The
  clean-up of one disk, the roll-back of a VM's disks and the undo of the whole
  create follow each other, and each hands the file to the next.
* `NoDirOrphaned` adds that the directory of a snapshot which is not recorded holds a
  file, or is the one the request that builds the snapshot is at (`HeldInv`). The
  clean-up that takes the last file looks into that directory in its next calls.

`UndeletedStaysWhole` extends this to SnapshotReads: `NotDeletedIsWhole`, with the
fact that a snapshot being deleted is on the list of the doomed. A record is born
whole (`BornCompleteStep`), and a step that takes a file away belongs to a delete
of that snapshot or to a request that builds another one (`Elsewhere`).

`ReadTypeCorrect` and `ReadingFailsRightly` do the same for the readers: what a
reader has been told of a snapshot (its record, one of its files) holds until a
delete begins, so a failure means that one has. They assume that the identifiers
are finitely many (`ReadAssumption`), as a list goes through them one by one.

`CatalogImplemented` proves `ReadSpec => ImplementsCatalog`: the initial state maps
to the initial state, and every step to a step or a stutter. The work is in the
few steps the catalogue sees: the save of a record, the beginning of a delete,
the removal of a record (which `NotDeletedIsWhole` and the invariants of the
store show to come only after a delete has begun) and the answers to reads.

`ExportInvariant` is the inductive invariant of IncrementalExport. The blocks of a
snapshot file are shared, so never written: it reads as its image for as long as
it is there (`FileInv`), which gives `SnapshotsKept`. What is in no extent of a
snapshot was a hole (`CoverInv`), which gives `FullExport`. Of two snapshots whose
files were there together, equal extents are the same physical blocks, and so hold
the same data: `CommonInv` says it of the images, which are fixed from the reflink
on, so that it stays true when the files go, and gives `IncrementalExports`. As the
extents are read after the reflink, one of the two files may be gone by then:
`ShareInv` says of a file and the extents of another snapshot what `CommonInv` says of
two lists of extents, and a snapshot has no extents of a disk before its file is there
(`BlankInv`). That
the extents cover a mapping, however it is split, needs the first block of the run
that a block is in (`Least`, from the library's well-foundedness of the natural
numbers).

`StoreImplementsExport` proves `StoreSpec => ImplementsExport`, by `StoreAgrees`: with
`StoreInv`, `Agree` is inductive, and at each call that touches files or records it
is what makes the call a step of IncrementalExport. A recorded snapshot's `i` is
the first of its files that is left, as its files go in the order of their
list: a delete that finds a file knows from its own invariant (`DeleteInv`) that the files
before it in its list are gone, and from `Agree` that those after it are there. A
create is where its frame says (`BuilderAgrees`), and one that failed may take back its files
in any order, as no record lists them. `RemovesAll` takes none, by
`RemoveAllIsSafe`. `StoreServesSound` then
carries `FullExport` and `IncrementalExports` over to the records of the
database: nothing has to be proved again about blocks or extents.

`CallsEnd`, `LoopsEnd` and `RequestsEnd` prove that the ranks decrease. In
SnapshotStore it is the snapshots still to purge, the stage of the request
(create, clean-up, roll-back, undo; or delete), the disks it has before it and the calls
left for the current one, in that order; in Discovery the search, the VMs to
describe, the purposes for which a request resolves disks, and the lines and
repositories left. The ranks are well-founded, as `TypeCorrect` and its like bound them. Liveness
adds fairness to this, and that a request in progress can make its next step.

`DiscoveryInvariant` is the inductive invariant of Discovery: the repositories
tried for the current line do not have it (`TriedInv`), every line that is done
with has its disk (`DoneInv`), metadata lists no other repository's images
(`MetaInv`). `DisksAreResolved` and `OnlySupported` (of disk images) follow, the latter because
an image counts as fit only when it was resolved to a repository on OCFS2, and by
`ResolvedRight` that is the one its path is in, whatever the resolution saw.
`NoneIsLost` counts the lines that `Disks` has passed and can use, and is
inductive together with it. `SearchInvariant` says it VM by VM: one that the request
is not unsure of is among those found, and once, just when the repository it is in has been
scanned; `MissedIsMissing` and `NoneIsUnlisted` follow from it.

`ListInvariant` is the inductive invariant of ChunkList: the pages so far are a
prefix of the extents, the chunks kept so far cover what is new among those seen,
and the squashed chunks with the accumulator cover those taken. `WalkIsComplete`,
`ServesExactly` and `SquashesAll` follow for files, baselines and pages of any
size. The assumption is that FIEMAP lists extents in order and apart.

`AuthInvariant` is the inductive invariant of ExporterAuth: the lock belongs to the
process that is between `OpenDatabase` and its end, the port to one that has the
lock, logins in progress to the process that has the port; and the account of a
login that was vouched for, or of a token, was not removed before the login began
(`LoginOK`, `TokenOK`), at the manager that the serving process has kept to since
it started.
`ServiceTypes`, `ServiceOwner` and `AccessRecent` follow, for any number of
processes, restarts, changes and tokens.

Every safety invariant and action property of the passing runs is proved, and both
refinements are. Only model-checked is liveness (`Answered`, `DeleteBegunEnds`,
`Ends`, `ServiceReturns`): fairness and ENABLED are out of the prover's reach. Induction over
data is too, so what a loop computes is stated as an invariant of its turns, never
of a recursive function.

## 5. Not modelled

* What reclaims the files that a crash, or two failures, leave without a record:
  nothing in the code does.
* Images that move between repositories under a snapshot. `compareTo` matches disks
  by name alone, so that it would compare locations of two file systems: the model
  has one address space.
* Power cuts that lose file-system writes which had been acknowledged: a crash
  ends the process and keeps every completed call.
* The text of `vm.cfg` and of the ovs-agent's records, and what `pruneConfig` makes
  of it; mount points that extend each other and images of one name in two
  repositories (assumed away).
* The cryptography of tokens and TLS: a token is accepted by who has its secret.
* JSON, request logging, the log file, unknown routes: straight-line code without
  state.
* File descriptors that are left to the garbage collector
  (`internal/reflink.go:48`).
* `getSquashedFileExtents`, `DeleteVMSnapshots`, `GetRepo`, `ReposAsMap` and
  `Config.Dump` are called by nothing.

## 6. Plan

Done, in this order: the store (1), its reads (2), the export (3), the lists
(4), the catalogue they implement (5), discovery (6), service and logins (7),
discards, attached and detached disks (8), the proofs of all their safety
properties (9), and the composition of the store with the data (10). What could
follow:

11. A second address space in IncrementalExport, for images that move.
12. Discovery under weaker assumptions: metadata that is stale and lists an image
    that has moved, mount points that extend each other.
13. `RetriedDeleteSucceeds` as a passing run, if `DeleteSnapshot` is changed to take
    a missing file for the desired state, as it takes a missing directory.
14. The composition of ExporterService and SnapshotStore, in which `OwnerServes` is
    what lets a crash end all requests at once.
