---------------------------- MODULE SnapshotReads ----------------------------
(***************************************************************************)
(* The handlers that read, beside those of SnapshotStore that write: get   *)
(* one snapshot (with or without a baseline), list the snapshots of a VM,  *)
(* and download a disk of a snapshot.  They too take no lock: a list reads *)
(* the identifiers and then fetches the records one by one, a download     *)
(* fetches the record and then opens the file it names, and the writers do *)
(* as they please in between.                                              *)
(***************************************************************************)
EXTENDS SnapshotStore, Functions

CONSTANT Readers   \* goroutines serving a request that reads

\* A list has an end: only so many identifiers are ever handed out.
ASSUME ReadAssumption == IsFiniteSet(SnapIDs)

VARIABLES
    rd,      \* the state of each reader's handler
    doomed   \* history: snapshots whose deletion some request has begun

readVars == <<files, dirs, db, minted, known, req, faults, crashes, rd, doomed>>

(***************************************************************************)
(* A reader has yet to fetch the records of queue, in that order, for op.  *)
(* The rest is history: the snapshots it has asked for, and whether one of *)
(* its own calls failed.                                                   *)
(***************************************************************************)
ReadOps     == {"none", "get", "diff", "list", "download"}
ReadReplies == {"none", "ok", "badrequest", "conflict", "notfound", "error"}
ReadFrame   == [pc : {"idle", "fetch", "open"}, op : ReadOps, vm : VMs \cup {Nil},
                disk : Disks \cup {Nil}, queue : Seq(SnapIDs), asked : SUBSET SnapIDs,
                reply : ReadReplies, failed : BOOLEAN]

\* A request for the records of some identifiers.
Request(op, v, d, ids) ==
    [pc |-> "fetch", op |-> op, vm |-> v, disk |-> d, queue |-> ids,
     asked |-> Range(ids), reply |-> "none", failed |-> FALSE]

\* A request that has been answered keeps what was asked.
Told(op, ids, code, failed) ==
    [pc |-> "idle", op |-> op, vm |-> Nil, disk |-> Nil, queue |-> << >>,
     asked |-> ids, reply |-> code, failed |-> failed]

Resting == Told("none", {}, "none", FALSE)
ReadAnswer(f, code) == Told(f.op, f.asked, code, FALSE)

Reading(q, loc)  == rd[q].pc = loc
ReadBecomes(q, f) == rd' = [rd EXCEPT ![q] = f] /\ UNCHANGED <<vars, doomed>>

ReadInit == Init /\ rd = [q \in Readers |-> Resting] /\ doomed = {}

-----------------------------------------------------------------------------
\* GetSnapshotHandler, for one snapshot or for a snapshot and then its baseline.
GetSnapshot(q) ==
    /\ Reading(q, "idle")
    /\ \E v \in VMs, x \in known, y \in known :
         \/ ReadBecomes(q, Request("get", v, Nil, <<x>>))
         \/ ReadBecomes(q, Request("diff", v, Nil, <<x, y>>))

\* ListSnapshotsHandler reads the identifiers, in the order of CreatedAt, in one
\* transaction.
ListSnapshots(q) ==
    /\ Reading(q, "idle")
    /\ \E v \in VMs :
         LET ids == {s \in SnapIDs : db[s] # Nil /\ db[s].vm = v}
         IN  IF ids = {} THEN ReadBecomes(q, Told("list", {}, "ok", FALSE))
             ELSE \E order \in {l \in [1 .. Cardinality(ids) -> ids] : Range(l) = ids} :
                    ReadBecomes(q, Request("list", v, Nil, order))

\* ConsumeSnapshotHandler.
ConsumeSnapshot(q) ==
    /\ Reading(q, "idle")
    /\ \E v \in VMs, s \in known, d \in Disks : ReadBecomes(q, Request("download", v, d, <<s>>))

\* What follows when the last record is there.  A baseline that is not older is
\* refused: the snapshot itself, or any other, for CreatedAt is not modelled here.
Fetched(f) ==
    CASE f.op \in {"get", "list"} -> {ReadAnswer(f, "ok")}
      [] f.op = "diff" -> {ReadAnswer(f, code) : code \in
                             IF f.asked = {f.queue[1]} THEN {"badrequest"} ELSE {"ok", "badrequest"}}
      [] f.op = "download" ->
            LET s == f.queue[1] IN
            {IF f.disk \in Range(db[s].disks) THEN [f EXCEPT !.pc = "open"]
                                              ELSE ReadAnswer(f, "notfound")}

\* Fault: the handler does not return after it has answered with an error.
FetchSnapshot_NoReturn(q) ==
    /\ Reading(q, "fetch")
    /\ LET f == rd[q]
           s == Head(f.queue)
       IN  IF db[s] = Nil THEN ReadBecomes(q, [f EXCEPT !.reply = "error", !.queue = Tail(@)])
           ELSE IF db[s].vm # f.vm THEN ReadBecomes(q, ReadAnswer(f, "conflict"))
           ELSE IF Len(f.queue) > 1 THEN ReadBecomes(q, [f EXCEPT !.queue = Tail(@)])
           ELSE \E g \in Fetched(f) : ReadBecomes(q, g)

\* SnapshotManager.getSnapshot, for the next record.  storm.ErrNotFound is none of
\* the errors that handleError knows, so a missing record is a server error.
FetchSnapshot(q) ==
    /\ Reading(q, "fetch")
    /\ LET f == rd[q]
           s == Head(f.queue)
       IN  IF db[s] = Nil THEN ReadBecomes(q, ReadAnswer(f, "error"))
           ELSE IF db[s].vm # f.vm THEN ReadBecomes(q, ReadAnswer(f, "conflict"))
           ELSE IF Len(f.queue) > 1 THEN ReadBecomes(q, [f EXCEPT !.queue = Tail(@)])
           ELSE \E g \in Fetched(f) : ReadBecomes(q, g)

\* os.Open of the path in the record.  Once the file is open, unlinking it does
\* not take it away from the download.
OpenFile(q) ==
    /\ Reading(q, "open")
    /\ ReadBecomes(q, ReadAnswer(rd[q], IF <<rd[q].queue[1], rd[q].disk>> \in files
                                        THEN "ok" ELSE "error"))

\* The VM, a record or the file cannot be read.
ReadFails(q) ==
    /\ ~ Reading(q, "idle")
    /\ ReadBecomes(q, Told(rd[q].op, rd[q].asked, "error", TRUE))

ReadStep(q) == FetchSnapshot(q) \/ OpenFile(q)

ReadNext ==
    \/ \E q \in Readers :
         \/ GetSnapshot(q)
         \/ ListSnapshots(q)
         \/ ConsumeSnapshot(q)
         \/ ReadStep(q)
         \/ ReadFails(q)
    \/ /\ Next
       /\ doomed' = doomed \cup {s \in SnapIDs : Deleting(s)'}
       /\ rd' = IF crashes' # crashes THEN [q \in Readers |-> Resting] ELSE rd

ReadSpec == ReadInit /\ [][ReadNext]_readVars

-----------------------------------------------------------------------------
(***************************************************************************)
(* Properties.                                                             *)
(***************************************************************************)
\* Every variable has its type, a handler that fetches has a record left to
\* fetch, and only a download opens a file.
ReadTypeOK ==
    /\ rd \in [Readers -> ReadFrame] /\ doomed \subseteq SnapIDs
    /\ \A q \in Readers : /\ Reading(q, "idle") <=> rd[q].queue = << >>
                          /\ Reading(q, "fetch") => rd[q].op # "none"
                          /\ Reading(q, "open") => rd[q].op = "download"

\* A recorded snapshot that nobody has begun to delete has the file of every
\* disk it lists, whatever failed and wherever the process died: neither the
\* clean-up of a failed create nor the deletion of another snapshot takes one.
NotDeletedIsWhole ==
    \A s \in SnapIDs : db[s] # Nil /\ s \notin doomed =>
        \A k \in DOMAIN db[s].disks : <<s, db[s].disks[k]>> \in files

\* A get, a list or a download whose own calls all worked is answered with a
\* server error only if the deletion of a snapshot it asked for has begun.
ReadFailsOnlyIfDeleted ==
    \A q \in Readers : rd[q].reply = "error" /\ ~ rd[q].failed => rd[q].asked \cap doomed # {}

(***************************************************************************)
(* The catalogue of snapshots that SnapshotCatalog promises.               *)
(***************************************************************************)
CatalogState(s) ==
    CASE s \notin known                            -> "none"
      [] s \in known \ doomed                      -> "present"
      [] s \in known \cap doomed /\ db[s] # Nil    -> "leaving"
      [] OTHER                                     -> "gone"

CatalogAnswer(f) ==
    IF f.pc # "idle" THEN "pending"
    ELSE CASE f.reply = "error" -> IF f.failed THEN "failed" ELSE "unavailable"
           [] f.reply \in {"badrequest", "conflict", "notfound"} -> "refused"
           [] OTHER -> f.reply

Catalog == INSTANCE SnapshotCatalog WITH
    Snapshots <- SnapIDs,
    Clients   <- Readers,
    state     <- [s \in SnapIDs |-> CatalogState(s)],
    want      <- [q \in Readers |-> rd[q].asked],
    answer    <- [q \in Readers |-> CatalogAnswer(rd[q])]

\* To its clients the exporter, which makes, deletes and reads snapshots call by
\* call, is a catalogue whose snapshots appear whole, stay until somebody deletes
\* them, and can be read as long as they are there.
ImplementsCatalog == Catalog!Spec
=============================================================================
