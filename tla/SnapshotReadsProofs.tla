------------------------- MODULE SnapshotReadsProofs -------------------------
(***************************************************************************)
(* Three proofs about readers beside writers.                              *)
(*                                                                         *)
(* A recorded snapshot which nobody has begun to delete has all its files: *)
(* it is born with them, and after that only a delete of this very         *)
(* snapshot, or a request that builds it, takes files of it away, and the  *)
(* latter cannot be there any more.                                        *)
(*                                                                         *)
(* Reading fails only when a snapshot that was asked for is being deleted. *)
(* By the same invariant, what readers are answered is what the atomic     *)
(* catalogue of SnapshotCatalog could have answered them.                  *)
(***************************************************************************)
EXTENDS SnapshotReads, SnapshotStoreOutcomes, FiniteSetTheorems, SequenceTheorems

\* The snapshots that are being deleted are on the list of the doomed.
DeletingDoomed == \A s \in SnapIDs : Deleting(s) => s \in doomed

WholeInv == StoreInv /\ DeletingDoomed /\ NotDeletedIsWhole

-----------------------------------------------------------------------------
\* A request works on a snapshot that is not recorded, or deletes it.
LEMMA Elsewhere ==
    ASSUME StoreInv, NEW s \in SnapIDs, db[s] # Nil, ~ Deleting(s),
           NEW r \in Requests, req[r].pc \in {"unlink", "remove", "rmdir"}
    PROVE  req[r].snap # s
  <1>1. req[r] \in Frame /\ WellFormed(req[r]) /\ FrameInv(req[r])
    BY AtCall DEF StoreInv
  <1>2. req[r].ctx # "none"
    BY <1>1 DEF WellFormed
  <1>3. CASE Building(req[r])
    BY <1>1, <1>3 DEF FrameInv, StoreInv, Catalogued
  <1>4. CASE req[r].ctx = "delete"
    BY <1>4 DEF Deleting
  <1> QED  BY <1>2, <1>3, <1>4, ContextOf DEF StoreInv

LEMMA FilesKept ==
    ASSUME StoreInv, [Next]_vars, NEW s \in SnapIDs, db[s] # Nil, ~ Deleting(s),
           NEW d \in Disks, <<s, d>> \in files
    PROVE  <<s, d>> \in files'
  <1> SUFFICES ASSUME <<s, d>> \notin files' PROVE FALSE
    OBVIOUS
  <1>1. PICK r \in Requests : \/ SaveRecord(r) \/ DeleteRecord(r) \/ DiscardFile(r)
                              \/ RemoveFile(r) \/ RemoveDir(r)
    BY Takers
  <1>2. DiscardFile(r) \/ RemoveFile(r) \/ RemoveDir(r)
    BY <1>1 DEF SaveRecord, DeleteRecord
  <1>3. req[r].snap # s
    BY <1>2, Elsewhere DEF DiscardFile, RemoveFile, RemoveDir, At
  <1> QED  BY <1>2, <1>3 DEF DiscardFile, RemoveFile, RemoveDir, FileOf, DirOf, FilesIn

-----------------------------------------------------------------------------
LEMMA WholeStep ==
    ASSUME WholeInv, [Next]_vars, doomed \subseteq doomed', DeletingDoomed'
    PROVE  WholeInv'
  <1>1. StoreInv'
    BY StoreInvStep DEF WholeInv
  <1>2. ASSUME NEW s \in SnapIDs, db'[s] # Nil, s \notin doomed',
               NEW k \in DOMAIN db'[s].disks
        PROVE  <<s, db'[s].disks[k]>> \in files'
    <2>1. CASE db[s] = Nil
      <3>1. [BornComplete]_vars
        BY BornCompleteStep DEF WholeInv
      <3>2. vars' # vars
        BY <1>2, <2>1 DEF vars
      <3> QED  BY <1>2, <2>1, <3>1, <3>2 DEF BornComplete
    <2>2. CASE db[s] # Nil
      <3>1. ~ Deleting(s) /\ s \notin doomed
        BY <1>2 DEF WholeInv, DeletingDoomed
      <3>2. db'[s] = db[s]
        <4>1. s \in known
          BY <2>2 DEF WholeInv, StoreInv, Catalogued
        <4> QED  BY <1>2, <4>1, RecordFinal DEF WholeInv
      <3>3. <<s, db[s].disks[k]>> \in files
        BY <1>2, <2>2, <3>1, <3>2 DEF WholeInv, NotDeletedIsWhole
      <3>4. db[s].disks[k] \in Disks
        BY <3>3 DEF WholeInv, StoreInv, TypeOK
      <3> QED  BY <2>2, <3>1, <3>2, <3>3, <3>4, FilesKept DEF WholeInv
    <2> QED  BY <2>1, <2>2
  <1>3. NotDeletedIsWhole'
    BY <1>2 DEF NotDeletedIsWhole
  <1> QED  BY <1>1, <1>3 DEF WholeInv

LEMMA WholeInit ==
    ReadInit => WholeInv
  <1> SUFFICES ASSUME ReadInit PROVE WholeInv
    OBVIOUS
  <1>1. StoreInv
    BY StoreInvInit DEF ReadInit
  <1>2. \A r \in Requests : req[r].ctx = "none"
    BY DEF ReadInit, Init, Parked
  <1> QED  BY <1>1, <1>2 DEF ReadInit, Init, WholeInv, DeletingDoomed, Deleting, NotDeletedIsWhole

\* While its record stands and no request has begun to delete it, a snapshot has
\* the file of every disk it lists: the clean-ups of creates (vms.go:82-96,
\* 148-154, manager.go:157-164) and the deletion of other snapshots
\* (snapshots.go:45-73) never take one of them.
THEOREM UndeletedStaysWhole == ReadSpec => []NotDeletedIsWhole
  <1>1. ReadInit => WholeInv
    BY WholeInit
  <1>2. WholeInv /\ [ReadNext]_readVars => WholeInv'
    <2> SUFFICES ASSUME WholeInv, [ReadNext]_readVars PROVE WholeInv'
      OBVIOUS
    <2>1. CASE UNCHANGED <<vars, doomed>>
      <3>1. DeletingDoomed'
        BY <2>1 DEF WholeInv, DeletingDoomed, Deleting, vars
      <3> QED  BY <2>1, <3>1, WholeStep
    <2>2. CASE Next /\ doomed' = doomed \cup {s \in SnapIDs : Deleting(s)'}
      <3>1. DeletingDoomed'
        BY <2>2 DEF DeletingDoomed
      <3> QED  BY <2>2, <3>1, WholeStep
    <2> QED
      BY <2>1, <2>2 DEF ReadNext, readVars, vars, ReadStep, GetSnapshot, ListSnapshots,
         ConsumeSnapshot, FetchSnapshot, OpenFile, ReadFails, ReadBecomes
  <1>3. WholeInv => NotDeletedIsWhole
    BY DEF WholeInv
  <1> QED  BY <1>1, <1>2, <1>3, PTL DEF ReadSpec

-----------------------------------------------------------------------------
\* A snapshot whose record is gone was deleted by a request.
GoneDoomed == \A s \in known : db[s] = Nil => s \in doomed

\* A reader asks for snapshots that were recorded; the file it is about to open
\* is in the record, if there still is one; and what it was told is true.
ReaderInv(f) ==
    /\ f.asked \subseteq known
    /\ \A k \in DOMAIN f.queue : f.queue[k] \in f.asked
    /\ f.pc = "open" /\ db[f.queue[1]] # Nil =>
          \E k \in DOMAIN db[f.queue[1]].disks : db[f.queue[1]].disks[k] = f.disk
    /\ f.pc # "idle" => f.reply = "none" /\ f.failed = FALSE
    /\ f.reply = "error" /\ ~ f.failed => f.asked \cap doomed # {}

CatalogInv ==
    /\ WholeInv /\ ReadTypeOK
    /\ doomed \subseteq known /\ GoneDoomed
    /\ \A q \in Readers : ReaderInv(rd[q])

-----------------------------------------------------------------------------
(***************************************************************************)
(* The writers.                                                            *)
(***************************************************************************)
\* known grows with a record that is saved, and by nothing else.
LEMMA Recording ==
    ASSUME StoreInv, [Next]_vars
    PROVE  /\ known \subseteq known'
           /\ \A s \in known' \ known : db'[s] # Nil
  <1>1. CASE \E r \in Requests : SaveRecord(r)
    <2>1. PICK r \in Requests : SaveRecord(r)
      BY <1>1
    <2>2. req[r] \in Frame /\ WellFormed(req[r]) /\ req[r].pc = "save"
      BY <2>1, AtCall DEF StoreInv, SaveRecord, At
    <2>3. /\ req[r].snap \in SnapIDs
          /\ [vm |-> req[r].vm, disks |-> req[r].list] \in Record
      BY <2>2 DEF WellFormed, Frame, Record
    <2>4. [vm |-> req[r].vm, disks |-> req[r].list] # Nil
      BY <2>3, StoreAssumption
    <2> QED  BY <2>1, <2>3, <2>4 DEF SaveRecord, StoreInv, TypeOK
  <1>2. CASE ~ \E r \in Requests : SaveRecord(r)
    BY <1>2 DEF Next, Accept, Advance, vars, store, Crash, CallFails, CreateSnapshot, MakeDir,
     Reflink, ReadExtents, StatDir, ReadDir, DeleteSnapshot, PurgeSnapshots, PurgeNext,
     FetchRecord, LookupFails, DiscardFile, RemoveFile, RemoveDir, DeleteRecord
  <1> QED  BY <1>1, <1>2

LEMMA DoomedKnown ==
    ASSUME StoreInv, NEW s \in SnapIDs, Deleting(s)
    PROVE  s \in known
  BY DEF Deleting, StoreInv, FrameInv, DeleteInv

LEMMA GoneDoomedStep ==
    ASSUME WholeInv, GoneDoomed, [Next]_vars, doomed \subseteq doomed'
    PROVE  GoneDoomed'
  <1> SUFFICES ASSUME NEW s \in known', db'[s] = Nil PROVE s \in doomed'
    BY DEF GoneDoomed
  <1>1. s \in known /\ s \in SnapIDs /\ db \in [SnapIDs -> Record \cup {Nil}]
    BY Recording DEF WholeInv, StoreInv, TypeOK
  <1>2. CASE db[s] = Nil
    BY <1>1, <1>2 DEF GoneDoomed
  <1>3. CASE db[s] # Nil
    <2>1. PICK r \in Requests : \/ SaveRecord(r) \/ DeleteRecord(r) \/ DiscardFile(r)
                                \/ RemoveFile(r) \/ RemoveDir(r)
      BY <1>1, <1>3, Takers
    <2>2. CASE DeleteRecord(r)
      <3>1. req[r].snap = s
        BY <1>1, <1>3, <2>2 DEF DeleteRecord
      <3>2. WellFormed(req[r]) /\ req[r].pc = "dbdelete"
        BY <2>2, AtCall DEF WholeInv, StoreInv, DeleteRecord, At
      <3>3. Deleting(s)
        BY <3>1, <3>2 DEF WellFormed, Deleting
      <3> QED  BY <1>1, <3>3 DEF WholeInv, DeletingDoomed
    <2>3. CASE SaveRecord(r)
      <3>1. req[r] \in Frame /\ WellFormed(req[r]) /\ FrameInv(req[r]) /\ req[r].pc = "save"
        BY <2>3, AtCall DEF WholeInv, StoreInv, SaveRecord, At
      <3>2. req[r].snap # s
        BY <1>1, <3>1 DEF WellFormed, FrameInv, Building
      <3> QED  BY <1>1, <1>3, <2>3, <3>2 DEF SaveRecord
    <2> QED  BY <1>3, <2>1, <2>2, <2>3 DEF DiscardFile, RemoveFile, RemoveDir
  <1> QED  BY <1>2, <1>3

\* What the writers do does not disturb a reader.
LEMMA ReaderKept ==
    ASSUME StoreInv, [Next]_vars, doomed \subseteq doomed', NEW f \in ReadFrame,
           f.pc = "idle" <=> f.queue = << >>, ReaderInv(f)
    PROVE  ReaderInv(f)'
  <1>1. known \subseteq known'
    BY Recording
  <1>2. ASSUME f.pc = "open"
        PROVE  f.queue[1] \in known
    <2>1. f.queue \in Seq(SnapIDs) /\ f.queue # << >>
      BY <1>2 DEF ReadFrame
    <2>2. 1 \in DOMAIN f.queue
      BY <2>1
    <2> QED  BY <2>2 DEF ReaderInv
  <1>3. f.pc = "open" => db'[f.queue[1]] \in {db[f.queue[1]], Nil}
    BY <1>2, RecordFinal
  <1> QED  BY <1>1, <1>3 DEF ReaderInv

LEMMA RestingOK ==
    /\ Resting \in ReadFrame
    /\ Resting.pc = "idle" /\ Resting.queue = << >> /\ Resting.asked = {}
    /\ Resting.reply = "none" /\ Resting.failed = FALSE
  BY DEF Resting, Told, ReadFrame, ReadOps, ReadReplies

LEMMA RestingInv == ReaderInv(Resting)
  BY RestingOK DEF ReaderInv

LEMMA WriterStep ==
    ASSUME CatalogInv, [Next]_vars,
           doomed' = doomed \cup {s \in SnapIDs : Deleting(s)'},
           rd' = rd \/ rd' = [q \in Readers |-> Resting]
    PROVE  CatalogInv'
  <1>1. DeletingDoomed' /\ doomed \subseteq doomed'
    BY DEF DeletingDoomed
  <1>2. WholeInv'
    BY <1>1, WholeStep DEF CatalogInv
  <1>3. GoneDoomed'
    BY <1>1, GoneDoomedStep DEF CatalogInv
  <1>4. doomed' \subseteq known'
    <2>1. known \subseteq known' /\ StoreInv'
      BY <1>2, Recording DEF CatalogInv, WholeInv
    <2>2. \A s \in SnapIDs : Deleting(s)' => s \in known'
      BY <2>1 DEF Deleting, StoreInv, FrameInv, DeleteInv
    <2> QED  BY <2>1, <2>2 DEF CatalogInv
  <1>5. CASE rd' = rd
    <2>1. ReadTypeOK'
      BY <1>4, <1>2, <1>5 DEF CatalogInv, ReadTypeOK, Reading, WholeInv, StoreInv, TypeOK
    <2>2. ASSUME NEW q \in Readers PROVE ReaderInv(rd[q])'
      <3>1. rd[q] \in ReadFrame /\ (rd[q].pc = "idle" <=> rd[q].queue = << >>) /\ ReaderInv(rd[q])
        BY DEF CatalogInv, ReadTypeOK, Reading
      <3>2. \A f \in ReadFrame : (f.pc = "idle" <=> f.queue = << >>) /\ ReaderInv(f) => ReaderInv(f)'
        BY <1>1, ReaderKept DEF CatalogInv, WholeInv
      <3> QED  BY <1>5, <3>1, <3>2 DEF ReaderInv
    <2> QED  BY <1>2, <1>3, <1>4, <2>1, <2>2 DEF CatalogInv
  <1>6. CASE rd' = [q \in Readers |-> Resting]
    <2>1. ReadTypeOK'
      BY <1>2, <1>4, <1>6, RestingOK DEF ReadTypeOK, Reading, WholeInv, StoreInv, TypeOK
    <2>2. \A q \in Readers : ReaderInv(rd[q])'
      BY <1>6, RestingOK DEF ReaderInv
    <2> QED  BY <1>2, <1>3, <1>4, <2>1, <2>2 DEF CatalogInv
  <1> QED  BY <1>5, <1>6

-----------------------------------------------------------------------------
(***************************************************************************)
(* The readers.                                                            *)
(***************************************************************************)
LEMMA ReadAnswerOK ==
    ASSUME NEW f \in ReadFrame, NEW code \in ReadReplies \ {"none"}
    PROVE  LET g == ReadAnswer(f, code) IN
           /\ g \in ReadFrame /\ g.pc = "idle" /\ g.queue = << >>
           /\ g.op = f.op /\ g.asked = f.asked /\ g.reply = code /\ g.failed = FALSE
  BY DEF ReadAnswer, Told, ReadFrame, ReadOps, ReadReplies

\* The frames that a step of a reader may lead to.
Fits(f) ==
    /\ f \in ReadFrame /\ ReaderInv(f)
    /\ f.pc = "idle" <=> f.queue = << >>
    /\ f.pc = "open" => f.op = "download"
    /\ f.pc = "fetch" => f.op # "none"

LEMMA RequestFits ==
    ASSUME StoreInv, NEW op \in ReadOps \ {"none"}, NEW v \in VMs, NEW d \in Disks \cup {Nil},
           NEW ids \in Seq(SnapIDs), Range(ids) \subseteq known, ids # << >>
    PROVE  Fits(Request(op, v, d, ids))
  <1>1. Range(ids) \subseteq SnapIDs
    BY DEF StoreInv, TypeOK
  <1>2. \A k \in DOMAIN ids : ids[k] \in Range(ids)
    BY DEF Range
  <1> QED  BY <1>1, <1>2 DEF Request, Fits, ReadFrame, ReadReplies, ReaderInv

\* An answer that is no unexplained server error.
LEMMA AnswerFits ==
    ASSUME NEW f \in ReadFrame, ReaderInv(f), NEW code \in ReadReplies \ {"none"},
           code = "error" => f.asked \cap doomed # {}
    PROVE  Fits(ReadAnswer(f, code))
  <1>1. f.asked \subseteq known
    BY DEF ReaderInv
  <1>2. /\ ReadAnswer(f, code) \in ReadFrame /\ ReadAnswer(f, code).pc = "idle"
        /\ ReadAnswer(f, code).queue = << >> /\ ReadAnswer(f, code).asked = f.asked
        /\ ReadAnswer(f, code).reply = code
    BY ReadAnswerOK
  <1> HIDE DEF ReadAnswer
  <1> QED  BY <1>1, <1>2 DEF Fits, ReaderInv

LEMMA Replaced ==
    ASSUME CatalogInv, NEW q \in Readers, NEW g, Fits(g), ReadBecomes(q, g)
    PROVE  CatalogInv'
  <1>1. UNCHANGED <<vars, doomed>> /\ rd' = [rd EXCEPT ![q] = g]
        /\ rd \in [Readers -> ReadFrame]
    BY DEF ReadBecomes, CatalogInv, ReadTypeOK
  <1>2. WholeInv' /\ GoneDoomed' /\ (doomed \subseteq known)'
    <2>1. DeletingDoomed'
      BY <1>1 DEF CatalogInv, WholeInv, DeletingDoomed, Deleting, vars
    <2>2. WholeInv'
      BY <1>1, <2>1, WholeStep DEF CatalogInv
    <2> QED  BY <1>1, <2>2 DEF CatalogInv, GoneDoomed, vars
  <1>3. \A x \in Readers : rd'[x] = IF x = q THEN g ELSE rd[x]
    BY <1>1
  <1>4. ReadTypeOK'
    BY <1>1, <1>3 DEF CatalogInv, ReadTypeOK, Reading, Fits
  <1>5. ASSUME NEW x \in Readers PROVE ReaderInv(rd[x])'
    <2>1. ReaderInv(rd[x]) /\ ReaderInv(g)
      BY DEF CatalogInv, Fits
    <2> QED  BY <1>1, <1>3, <2>1 DEF ReaderInv, vars
  <1> QED  BY <1>2, <1>4, <1>5 DEF CatalogInv

LEMMA GetSnapshotInv ==
    ASSUME CatalogInv, NEW q \in Readers, GetSnapshot(q)
    PROVE  CatalogInv'
  <1>1. known \subseteq SnapIDs
    BY DEF CatalogInv, WholeInv, StoreInv, TypeOK
  <1>2. PICK v \in VMs, x \in known, y \in known :
           \/ ReadBecomes(q, Request("get", v, Nil, <<x>>))
           \/ ReadBecomes(q, Request("diff", v, Nil, <<x, y>>))
    BY DEF GetSnapshot
  <1>3. Fits(Request("get", v, Nil, <<x>>)) /\ Fits(Request("diff", v, Nil, <<x, y>>))
    <2>1. Range(<<x>>) \subseteq known /\ Range(<<x, y>>) \subseteq known
      BY DEF Range
    <2>2. <<x>> \in Seq(SnapIDs) /\ <<x, y>> \in Seq(SnapIDs) /\ <<x>> # << >> /\ <<x, y>> # << >>
      BY <1>1
    <2> QED  BY <2>1, <2>2, RequestFits DEF CatalogInv, WholeInv, ReadOps
  <1> QED  BY <1>2, <1>3, Replaced

LEMMA Ordered ==
    ASSUME NEW S, NEW ids \in SUBSET S, ids # {}, NEW n \in Nat,
           NEW order \in [1 .. n -> ids], Range(order) = ids
    PROVE  order \in Seq(S) /\ order # << >>
  <1>1. order \in [1 .. n -> S]
    OBVIOUS
  <1>2. order \in Seq(S)
    BY <1>1
  <1>3. PICK x : x \in ids
    OBVIOUS
  <1>4. PICK k \in DOMAIN order : order[k] = x
    BY <1>3 DEF Range
  <1>5. DOMAIN order # {}
    BY <1>4
  <1>6. DOMAIN order = 1 .. n
    OBVIOUS
  <1>7. n # 0
    BY <1>5, <1>6
  <1>8. Len(order) = n
    BY <1>2, <1>6, LenProperties
  <1>9. order # << >>
    BY <1>7, <1>8
  <1> QED  BY <1>2, <1>9

LEMMA ListSnapshotsInv ==
    ASSUME CatalogInv, NEW q \in Readers, ListSnapshots(q)
    PROVE  CatalogInv'
  <1>1. /\ db \in [SnapIDs -> Record \cup {Nil}]
        /\ \A s \in SnapIDs : db[s] # Nil => s \in known
    BY DEF CatalogInv, WholeInv, StoreInv, TypeOK, Catalogued
  <1>2. PICK v \in VMs :
          LET ids == {s \in SnapIDs : db[s] # Nil /\ db[s].vm = v}
          IN  IF ids = {} THEN ReadBecomes(q, Told("list", {}, "ok", FALSE))
              ELSE \E order \in {l \in [1 .. Cardinality(ids) -> ids] : Range(l) = ids} :
                     ReadBecomes(q, Request("list", v, Nil, order))
    BY DEF ListSnapshots
  <1> DEFINE ids == {s \in SnapIDs : db[s] # Nil /\ db[s].vm = v}
  <1>3. ids \subseteq known /\ Cardinality(ids) \in Nat
    BY <1>1, ReadAssumption, FS_Subset, FS_CardinalityType
  <1>4. CASE ids = {}
    <2>1. Fits(Told("list", {}, "ok", FALSE))
      BY DEF Fits, Told, ReadFrame, ReadOps, ReadReplies, ReaderInv
    <2> QED  BY <1>2, <1>4, <2>1, Replaced
  <1>5. CASE ids # {}
    <2>1. PICK order \in [1 .. Cardinality(ids) -> ids] :
             Range(order) = ids /\ ReadBecomes(q, Request("list", v, Nil, order))
      BY <1>2, <1>5
    <2>2. ids \in SUBSET SnapIDs
      OBVIOUS
    <2> HIDE DEF ids
    <2>3. order \in Seq(SnapIDs) /\ order # << >>
      BY <1>3, <1>5, <2>1, <2>2, Ordered
    <2>4. Fits(Request("list", v, Nil, order))
      BY <1>3, <2>1, <2>3, RequestFits DEF CatalogInv, WholeInv, ReadOps
    <2> QED  BY <2>1, <2>4, Replaced
  <1> QED  BY <1>4, <1>5

LEMMA ConsumeSnapshotInv ==
    ASSUME CatalogInv, NEW q \in Readers, ConsumeSnapshot(q)
    PROVE  CatalogInv'
  <1>1. PICK v \in VMs, s \in known, d \in Disks : ReadBecomes(q, Request("download", v, d, <<s>>))
    BY DEF ConsumeSnapshot
  <1>2. Fits(Request("download", v, d, <<s>>))
    <2>1. Range(<<s>>) \subseteq known /\ <<s>> \in Seq(SnapIDs) /\ <<s>> # << >>
      BY DEF Range, CatalogInv, WholeInv, StoreInv, TypeOK
    <2> QED  BY <2>1, RequestFits DEF CatalogInv, WholeInv, ReadOps
  <1> QED  BY <1>1, <1>2, Replaced

\* What is known of a reader that has not been answered.
LEMMA Pending ==
    ASSUME CatalogInv, NEW q \in Readers, ~ Reading(q, "idle")
    PROVE  LET f == rd[q] IN
           /\ f \in ReadFrame /\ ReaderInv(f) /\ f.queue # << >>
           /\ f.queue[1] \in SnapIDs /\ f.queue[1] \in f.asked /\ f.queue[1] \in known
           /\ Head(f.queue) = f.queue[1]
           /\ db[f.queue[1]] = Nil => f.asked \cap doomed # {}
  <1> DEFINE f == rd[q]
  <1>1. f \in ReadFrame /\ ReaderInv(f) /\ f.queue # << >>
    BY DEF CatalogInv, ReadTypeOK, Reading
  <1>2. f.queue \in Seq(SnapIDs)
    BY <1>1 DEF ReadFrame
  <1>3. 1 \in DOMAIN f.queue /\ f.queue[1] \in SnapIDs /\ Head(f.queue) = f.queue[1]
    BY <1>1, <1>2
  <1>4. f.queue[1] \in f.asked /\ f.queue[1] \in known
    BY <1>1, <1>3 DEF ReaderInv
  <1> QED  BY <1>1, <1>3, <1>4 DEF CatalogInv, GoneDoomed

LEMMA TailOf ==
    ASSUME NEW S, NEW t \in Seq(S), Len(t) > 1
    PROVE  /\ Tail(t) \in Seq(S) /\ Tail(t) # << >>
           /\ \A k \in DOMAIN Tail(t) : k + 1 \in DOMAIN t /\ Tail(t)[k] = t[k + 1]
  <1>1. Tail(t) \in Seq(S) /\ Len(Tail(t)) = Len(t) - 1
    OBVIOUS
  <1>2. Tail(t) # << >>
    <2>1. Len(t) \in Nat
      OBVIOUS
    <2>2. Len(Tail(t)) # 0
      BY <1>1, <2>1
    <2>3. Len(<< >>) = 0
      BY EmptySeq
    <2> QED  BY <2>2, <2>3, Zenon
  <1>3. DOMAIN t = 1 .. Len(t) /\ DOMAIN Tail(t) = 1 .. Len(t) - 1
    BY <1>1
  <1> QED  BY <1>1, <1>2, <1>3

LEMMA FetchSnapshotInv ==
    ASSUME CatalogInv, NEW q \in Readers, FetchSnapshot(q)
    PROVE  CatalogInv'
  <1> DEFINE f == rd[q]
             s == f.queue[1]
  <1>1. /\ f \in ReadFrame /\ ReaderInv(f) /\ f.queue # << >> /\ f.pc = "fetch"
        /\ s \in SnapIDs /\ s \in f.asked /\ s \in known /\ Head(f.queue) = s
        /\ db[s] = Nil => f.asked \cap doomed # {}
    BY Pending DEF FetchSnapshot, Reading
  <1>2. f.queue \in Seq(SnapIDs) /\ f.reply = "none" /\ f.failed = FALSE /\ f.asked \subseteq known
    BY <1>1 DEF ReadFrame, ReaderInv
  <1>3. \A code \in ReadReplies \ {"none", "error"} : Fits(ReadAnswer(f, code))
    BY <1>1, AnswerFits
  <1>4. CASE db[s] = Nil
    <2>1. ReadBecomes(q, ReadAnswer(f, "error"))
      BY <1>1, <1>4 DEF FetchSnapshot
    <2>2. Fits(ReadAnswer(f, "error"))
      BY <1>1, <1>4, AnswerFits DEF ReadReplies
    <2> QED  BY <2>1, <2>2, Replaced
  <1>5. CASE db[s] # Nil /\ db[s].vm # f.vm
    <2>1. ReadBecomes(q, ReadAnswer(f, "conflict"))
      BY <1>1, <1>5 DEF FetchSnapshot
    <2> QED  BY <1>3, <2>1, Replaced DEF ReadReplies
  <1>6. CASE db[s] # Nil /\ db[s].vm = f.vm /\ Len(f.queue) > 1
    <2> DEFINE g == [f EXCEPT !.queue = Tail(f.queue)]
    <2>1. ReadBecomes(q, g)
      BY <1>1, <1>6 DEF FetchSnapshot
    <2>2. /\ Tail(f.queue) \in Seq(SnapIDs) /\ Tail(f.queue) # << >>
          /\ \A k \in DOMAIN Tail(f.queue) : k + 1 \in DOMAIN f.queue /\ Tail(f.queue)[k] = f.queue[k + 1]
      BY <1>2, <1>6, TailOf
    <2>3. \A k \in DOMAIN Tail(f.queue) : Tail(f.queue)[k] \in f.asked
      BY <1>1, <2>2 DEF ReaderInv
    <2>4. /\ g \in ReadFrame /\ g.pc = "fetch" /\ g.queue = Tail(f.queue) /\ g.asked = f.asked
          /\ g.op = f.op /\ g.reply = "none" /\ g.failed = FALSE
      BY <1>1, <1>2, <2>2 DEF ReadFrame
    <2>6. f.op # "none"
      BY <1>1 DEF CatalogInv, ReadTypeOK, Reading
    <2> HIDE DEF g
    <2>5. Fits(g)
      BY <1>2, <2>2, <2>3, <2>4, <2>6 DEF Fits, ReaderInv
    <2> QED  BY <2>1, <2>5, Replaced
  <1>7. CASE db[s] # Nil /\ db[s].vm = f.vm /\ ~ Len(f.queue) > 1
    <2>1. PICK g \in Fetched(f) : ReadBecomes(q, g)
      BY <1>1, <1>7 DEF FetchSnapshot
    <2>2. \/ \E code \in {"ok", "badrequest", "notfound"} : g = ReadAnswer(f, code)
          \/ f.op = "download" /\ f.disk \in Range(db[s].disks) /\ g = [f EXCEPT !.pc = "open"]
          \/ f.op = "none"
      BY <1>1, <2>1 DEF Fetched, ReadFrame, ReadOps
    <2>3. f.op # "none"
      BY <1>1 DEF CatalogInv, ReadTypeOK, Reading
    <2>4. CASE f.op = "download" /\ f.disk \in Range(db[s].disks) /\ g = [f EXCEPT !.pc = "open"]
      <3>1. /\ g \in ReadFrame /\ g.pc = "open" /\ g.op = "download" /\ g.queue = f.queue
            /\ g.asked = f.asked /\ g.disk = f.disk /\ g.reply = "none" /\ g.failed = FALSE
        BY <1>1, <1>2, <2>4 DEF ReadFrame
      <3>2. \E k \in DOMAIN db[s].disks : db[s].disks[k] = f.disk
        BY <2>4 DEF Range
      <3>3. Fits(g)
        BY <1>1, <1>2, <3>1, <3>2 DEF Fits, ReaderInv
      <3> QED  BY <2>1, <3>3, Replaced
    <2> QED  BY <1>3, <2>1, <2>2, <2>3, <2>4, Replaced DEF ReadReplies
  <1> QED  BY <1>4, <1>5, <1>6, <1>7

LEMMA OpenFileInv ==
    ASSUME CatalogInv, NEW q \in Readers, OpenFile(q)
    PROVE  CatalogInv'
  <1> DEFINE f == rd[q]
             s == f.queue[1]
  <1>1. /\ f \in ReadFrame /\ ReaderInv(f) /\ f.pc = "open"
        /\ s \in SnapIDs /\ s \in f.asked /\ s \in known
        /\ db[s] = Nil => f.asked \cap doomed # {}
    BY Pending DEF OpenFile, Reading
  <1>2. CASE <<s, f.disk>> \in files
    <2>1. ReadBecomes(q, ReadAnswer(f, "ok"))
      BY <1>2 DEF OpenFile
    <2>2. Fits(ReadAnswer(f, "ok"))
      BY <1>1, AnswerFits DEF ReadReplies
    <2> QED  BY <2>1, <2>2, Replaced
  <1>3. CASE <<s, f.disk>> \notin files
    <2>1. ReadBecomes(q, ReadAnswer(f, "error"))
      BY <1>3 DEF OpenFile
    <2>2. db[s] # Nil => s \in doomed
      BY <1>1, <1>3 DEF ReaderInv, CatalogInv, WholeInv, NotDeletedIsWhole
    <2>3. Fits(ReadAnswer(f, "error"))
      BY <1>1, <2>2, AnswerFits DEF ReadReplies
    <2> QED  BY <2>1, <2>3, Replaced
  <1> QED  BY <1>2, <1>3

LEMMA ReadFailsInv ==
    ASSUME CatalogInv, NEW q \in Readers, ReadFails(q)
    PROVE  CatalogInv'
  <1>1. rd[q] \in ReadFrame /\ ReaderInv(rd[q])
    BY Pending DEF ReadFails
  <1>2. Fits(Told(rd[q].op, rd[q].asked, "error", TRUE))
    BY <1>1 DEF Fits, Told, ReadFrame, ReadReplies, ReaderInv
  <1> QED  BY <1>2, Replaced DEF ReadFails

-----------------------------------------------------------------------------
LEMMA CatalogInvInit ==
    ReadInit => CatalogInv
  <1> SUFFICES ASSUME ReadInit PROVE CatalogInv
    OBVIOUS
  <1>1. WholeInv
    BY WholeInit
  <1>2. ReadTypeOK /\ \A q \in Readers : ReaderInv(rd[q])
    BY RestingOK, RestingInv DEF ReadInit, ReadTypeOK, Reading
  <1> QED  BY <1>1, <1>2 DEF ReadInit, Init, CatalogInv, GoneDoomed

\* A step of a writer, as ReadNext has it.
WriterStepOf ==
    /\ Next
    /\ doomed' = doomed \cup {s \in SnapIDs : Deleting(s)'}
    /\ rd' = IF crashes' # crashes THEN [q \in Readers |-> Resting] ELSE rd

LEMMA CatalogInvStep ==
    CatalogInv /\ [ReadNext]_readVars => CatalogInv'
  <1> SUFFICES ASSUME CatalogInv, [ReadNext]_readVars PROVE CatalogInv'
    OBVIOUS
  <1>1. CASE UNCHANGED readVars
    <2>1. UNCHANGED <<vars, rd, doomed>>
      BY <1>1 DEF readVars, vars
    <2>2. DeletingDoomed'
      BY <2>1 DEF CatalogInv, WholeInv, DeletingDoomed, Deleting, vars
    <2>3. WholeInv'
      BY <2>1, <2>2, WholeStep DEF CatalogInv
    <2> QED
      BY <2>1, <2>3 DEF CatalogInv, ReadTypeOK, Reading, GoneDoomed, ReaderInv, vars
  <1>2. CASE WriterStepOf
    BY <1>2, WriterStep DEF WriterStepOf
  <1>3. ASSUME NEW q \in Readers,
               \/ GetSnapshot(q) \/ ListSnapshots(q) \/ ConsumeSnapshot(q)
               \/ ReadStep(q) \/ ReadFails(q)
        PROVE  CatalogInv'
    BY <1>3, GetSnapshotInv, ListSnapshotsInv, ConsumeSnapshotInv, FetchSnapshotInv,
       OpenFileInv, ReadFailsInv DEF ReadStep
  <1> QED  BY <1>1, <1>2, <1>3 DEF ReadNext, WriterStepOf

\* Readers and writers together keep CatalogInv.
THEOREM CatalogInvariant == ReadSpec => []CatalogInv
  <1> QED  BY CatalogInvInit, CatalogInvStep, PTL DEF ReadSpec

\* Every variable of the readers has its type.
THEOREM ReadTypeCorrect == ReadSpec => []ReadTypeOK
  <1>1. CatalogInv => ReadTypeOK
    BY DEF CatalogInv
  <1> QED  BY <1>1, CatalogInvariant, PTL

\* A get (manager.go:271), a list (manager.go:297) or a download
\* (controllers.go:264) whose own calls all work fails with a server error only
\* if the deletion of a snapshot it asked for has begun.
THEOREM ReadingFailsRightly == ReadSpec => []ReadFailsOnlyIfDeleted
  <1>1. CatalogInv => ReadFailsOnlyIfDeleted
    BY DEF CatalogInv, ReaderInv, ReadFailsOnlyIfDeleted
  <1> QED  BY <1>1, CatalogInvariant, PTL

-----------------------------------------------------------------------------
(***************************************************************************)
(* SnapshotReads implements SnapshotCatalog.  A writer moves one snapshot  *)
(* at a time: the save of its record makes it present, the first delete of *)
(* it leaving, the deletion of its record gone.  A reader asks, and is     *)
(* then answered for the snapshot whose record or file it has looked for   *)
(* last.                                                                   *)
(***************************************************************************)
\* The lemmas speak of the three variables of the catalogue one by one.
SameSnapshots == \A x \in SnapIDs : CatalogState(x)' = CatalogState(x)
SameClients   == rd' = rd

LEMMA StateOf ==
    ASSUME NEW s \in SnapIDs
    PROVE  /\ s \notin known <=> CatalogState(s) = "none"
           /\ s \in known \ doomed <=> CatalogState(s) = "present"
           /\ s \in known \cap doomed /\ db[s] # Nil <=> CatalogState(s) = "leaving"
           /\ s \in known \cap doomed /\ db[s] = Nil <=> CatalogState(s) = "gone"
  BY DEF CatalogState

LEMMA Stutters ==
    ASSUME SameSnapshots,
           \A q \in Readers : /\ rd'[q].asked = rd[q].asked
                              /\ CatalogAnswer(rd[q])' = CatalogAnswer(rd[q])
    PROVE  UNCHANGED Catalog!vars
  BY DEF SameSnapshots, Catalog!vars

LEMMA Moves ==
    ASSUME SameClients, NEW s \in SnapIDs, NEW from, NEW to, CatalogState(s) = from,
           \A x \in SnapIDs : CatalogState(x)' = IF x = s THEN to ELSE CatalogState(x)
    PROVE  Catalog!Move(s, from, to)
  <1>1. UNCHANGED [q \in Readers |-> rd[q].asked]
    BY DEF SameClients
  <1>2. UNCHANGED [q \in Readers |-> CatalogAnswer(rd[q])]
    BY DEF SameClients, CatalogAnswer
  <1> QED  BY <1>1, <1>2 DEF Catalog!Move

-----------------------------------------------------------------------------
(***************************************************************************)
(* The writers.                                                            *)
(***************************************************************************)
\* Every step of a writer, other than the death of the process, is one request's.
LEMMA OneMoves ==
    ASSUME StoreInv, Next, crashes' = crashes
    PROVE  \E r \in Requests : \A q \in Requests \ {r} : req'[q] = req[q]
  <1>1. req \in [Requests -> Frame]
    BY DEF StoreInv, TypeOK
  <1>2. ~ Crash
    BY DEF Crash, StoreInv, TypeOK
  <1>3. \A r \in Requests : \A f : Become(r, f) => \A q \in Requests \ {r} : req'[q] = req[q]
    BY <1>1 DEF Become
  <1>4. PICK r \in Requests : Accept(r) \/ Advance(r) \/ CallFails(r)
    BY <1>2 DEF Next
  <1>5. CASE CallFails(r)
    BY <1>1, <1>5 DEF CallFails
  <1>6. CASE Accept(r)
    BY <1>3, <1>6 DEF Accept, CreateSnapshot, DeleteSnapshot, PurgeSnapshots, LookupFails
  <1>7. CASE Advance(r)
    BY <1>3, <1>7 DEF Advance, MakeDir, Reflink, ReadExtents, SaveRecord, DiscardFile, StatDir,
       RemoveFile, ReadDir, RemoveDir, PurgeNext, FetchRecord, DeleteRecord
  <1> QED  BY <1>4, <1>5, <1>6, <1>7

\* A request that is recorded or deleted names the snapshot that changes, and a
\* request that begins to delete finds its record.
LEMMA Doom ==
    ASSUME CatalogInv, Next, StoreInv', doomed' = doomed \cup {s \in SnapIDs : Deleting(s)'},
           NEW r \in Requests, \A q \in Requests \ {r} : req'[q] = req[q],
           NEW y \in doomed' \ doomed
    PROVE  /\ y = req'[r].snap /\ req'[r].ctx = "delete"
           /\ y \in known' /\ y \in SnapIDs /\ (y \in known => db[y] # Nil)
  <1>1. y \in SnapIDs /\ Deleting(y)' /\ ~ Deleting(y)
    BY DEF CatalogInv, WholeInv, DeletingDoomed
  <1>2. PICK q \in Requests : req'[q].ctx = "delete" /\ req'[q].snap = y
    BY <1>1 DEF Deleting
  <1>3. q = r
    BY <1>1, <1>2 DEF Deleting
  <1>4. y \in known'
    BY <1>2 DEF StoreInv, FrameInv, DeleteInv
  <1> QED  BY <1>1, <1>2, <1>3, <1>4 DEF CatalogInv, GoneDoomed

LEMMA SaveRecordMaps ==
    ASSUME CatalogInv, Next, StoreInv', SameClients,
           doomed' = doomed \cup {s \in SnapIDs : Deleting(s)'},
           NEW r \in Requests, SaveRecord(r)
    PROVE  Catalog!Next
  <1>1. /\ req[r] \in Frame /\ WellFormed(req[r]) /\ FrameInv(req[r]) /\ req[r].pc = "save"
        /\ req \in [Requests -> Frame] /\ db \in [SnapIDs -> Record \cup {Nil}]
    BY AtCall DEF CatalogInv, WholeInv, StoreInv, TypeOK, SaveRecord, At
  <1>2. PICK s \in SnapIDs : s = req[r].snap /\ s \notin known
    BY <1>1 DEF WellFormed, FrameInv, Building
  <1>3. req'[r].ctx = "none" /\ \A q \in Requests \ {r} : req'[q] = req[q]
    <2>1. req' = [req EXCEPT ![r] = Answer(req[r], "ok")]
      BY DEF SaveRecord, Become
    <2>2. Answer(req[r], "ok").ctx = "none"
      BY DEF Answer, Parked
    <2> HIDE DEF Answer
    <2> QED  BY <1>1, <2>1, <2>2
  <1>4. doomed' = doomed
    BY <1>3, Doom
  <1>5. known' = known \cup {s} /\ \A x \in SnapIDs \ {s} : db'[x] = db[x]
    BY <1>1, <1>2 DEF SaveRecord
  <1>6. s \notin doomed
    BY <1>2 DEF CatalogInv
  <1>7. CatalogState(s) = "none"
    BY <1>2 DEF CatalogState
  <1>8. CatalogState(s)' = "present"
    BY <1>4, <1>5, <1>6 DEF CatalogState
  <1>9. \A x \in SnapIDs \ {s} : CatalogState(x)' = CatalogState(x)
    BY <1>4, <1>5 DEF CatalogState
  <1>10. \A x \in SnapIDs : CatalogState(x)' = IF x = s THEN "present" ELSE CatalogState(x)
    BY <1>8, <1>9
  <1>11. Catalog!Create(s)
    BY <1>2, <1>7, <1>10, Moves DEF Catalog!Create
  <1> QED  BY <1>2, <1>11 DEF Catalog!Next

LEMMA DeleteRecordMaps ==
    ASSUME CatalogInv, Next, StoreInv', SameClients,
           doomed' = doomed \cup {s \in SnapIDs : Deleting(s)'},
           NEW r \in Requests, DeleteRecord(r)
    PROVE  [Catalog!Next]_Catalog!vars
  <1>1. /\ req[r] \in Frame /\ WellFormed(req[r]) /\ FrameInv(req[r]) /\ req[r].pc = "dbdelete"
        /\ req \in [Requests -> Frame] /\ db \in [SnapIDs -> Record \cup {Nil}]
    BY AtCall DEF CatalogInv, WholeInv, StoreInv, TypeOK, DeleteRecord, At
  <1>2. PICK s \in SnapIDs : s = req[r].snap /\ s \in known /\ s \in doomed
    BY <1>1 DEF WellFormed, FrameInv, DeleteInv, Deleting, CatalogInv, WholeInv, DeletingDoomed
  <1>3. req'[r].ctx = "none" /\ \A q \in Requests \ {r} : req'[q] = req[q]
    <2>1. Answer(req[r], "error").ctx = "none" /\ NextSnapshot(req[r]).ctx = "none"
      BY DEF Answer, Parked, NextSnapshot
    <2>2. PICK f \in {Answer(req[r], "error"), NextSnapshot(req[r])} : req' = [req EXCEPT ![r] = f]
      BY DEF DeleteRecord, Become
    <2> QED  BY <1>1, <2>1, <2>2
  <1>4. doomed' = doomed
    BY <1>3, Doom
  <1>5. known' = known /\ db' = [db EXCEPT ![s] = Nil]
    BY <1>2 DEF DeleteRecord
  <1>6. CASE db[s] = Nil
    <2>1. db' = db
      BY <1>1, <1>2, <1>5, <1>6
    <2>2. SameSnapshots
      BY <1>4, <1>5, <2>1 DEF SameSnapshots, CatalogState
    <2> QED  BY <2>2, Stutters DEF SameClients, CatalogAnswer
  <1>7. CASE db[s] # Nil
    <2>1. CatalogState(s) = "leaving"
      BY <1>2, <1>7, StateOf
    <2>2. CatalogState(s)' = "gone"
      BY <1>1, <1>2, <1>4, <1>5 DEF CatalogState
    <2>3. \A x \in SnapIDs \ {s} : CatalogState(x)' = CatalogState(x)
      BY <1>1, <1>4, <1>5 DEF CatalogState
    <2>4. \A x \in SnapIDs : CatalogState(x)' = IF x = s THEN "gone" ELSE CatalogState(x)
      BY <2>2, <2>3
    <2>5. Catalog!Go(s)
      BY <1>2, <2>1, <2>4, Moves DEF Catalog!Go
    <2> QED  BY <1>2, <2>5 DEF Catalog!Next
  <1> QED  BY <1>6, <1>7

\* Any other step leaves the records alone and begins at most one deletion.
LEMMA OthersMap ==
    ASSUME CatalogInv, Next, StoreInv', SameClients, crashes' = crashes,
           doomed' = doomed \cup {s \in SnapIDs : Deleting(s)'},
           db' = db, known' = known
    PROVE  [Catalog!Next]_Catalog!vars
  <1>1. PICK r \in Requests : \A q \in Requests \ {r} : req'[q] = req[q]
    BY OneMoves DEF CatalogInv, WholeInv
  <1>2. CASE doomed' = doomed
    <2>1. SameSnapshots
      BY <1>2 DEF SameSnapshots, CatalogState
    <2> QED  BY <2>1, Stutters DEF SameClients, CatalogAnswer
  <1>3. CASE doomed' # doomed
    <2>1. PICK s \in doomed' \ doomed : TRUE
      BY <1>3
    <2>2. /\ doomed' = doomed \cup {s} /\ s \notin doomed
          /\ s \in SnapIDs /\ s \in known /\ db[s] # Nil
      BY <1>1, <2>1, Doom
    <2>3. CatalogState(s) = "present"
      BY <2>2, StateOf
    <2>4. CatalogState(s)' = "leaving"
      BY <2>2 DEF CatalogState
    <2>5. \A x \in SnapIDs \ {s} : CatalogState(x)' = CatalogState(x)
      BY <2>2 DEF CatalogState
    <2>6. \A x \in SnapIDs : CatalogState(x)' = IF x = s THEN "leaving" ELSE CatalogState(x)
      BY <2>4, <2>5
    <2>7. Catalog!Leave(s)
      BY <2>2, <2>3, <2>6, Moves DEF Catalog!Leave
    <2> QED  BY <2>2, <2>7 DEF Catalog!Next
  <1> QED  BY <1>2, <1>3

LEMMA CrashMaps ==
    ASSUME CatalogInv, Crash, doomed' = doomed \cup {s \in SnapIDs : Deleting(s)'},
           rd' = [q \in Readers |-> Resting]
    PROVE  Catalog!Next
  <1>1. \A r \in Requests : req'[r].ctx = "none"
    BY DEF Crash, Parked
  <1>2. doomed' = doomed
    BY <1>1 DEF Deleting
  <1>3. SameSnapshots
    BY <1>2 DEF SameSnapshots, CatalogState, Crash, store
  <1>4. \A q \in Readers : rd'[q].asked = {} /\ CatalogAnswer(rd[q])' = "none"
    BY RestingOK DEF CatalogAnswer
  <1>5. Catalog!Restart
    BY <1>3, <1>4 DEF Catalog!Restart, SameSnapshots
  <1> QED  BY <1>5 DEF Catalog!Next

LEMMA WriterMaps ==
    ASSUME CatalogInv, StoreInv', WriterStepOf
    PROVE  [Catalog!Next]_Catalog!vars
  <1>1. Next /\ doomed' = doomed \cup {s \in SnapIDs : Deleting(s)'}
    BY DEF WriterStepOf
  <1>2. CASE crashes' # crashes
    <2>1. Crash
      BY <1>1, <1>2 DEF Next, Accept, Advance, CallFails, CreateSnapshot, MakeDir, Reflink,
         ReadExtents, SaveRecord, DiscardFile, StatDir, RemoveFile, ReadDir, RemoveDir,
         DeleteSnapshot, PurgeSnapshots, PurgeNext, FetchRecord, DeleteRecord, LookupFails, Become
    <2> QED  BY <1>1, <1>2, <2>1, CrashMaps DEF WriterStepOf
  <1>3. CASE crashes' = crashes
    <2>1. SameClients
      BY <1>3 DEF WriterStepOf, SameClients
    <2>2. CASE \E r \in Requests : SaveRecord(r)
      BY <1>1, <2>1, <2>2, SaveRecordMaps
    <2>3. CASE \E r \in Requests : DeleteRecord(r)
      BY <1>1, <2>1, <2>3, DeleteRecordMaps
    <2>4. CASE ~ \E r \in Requests : SaveRecord(r) \/ DeleteRecord(r)
      <3>1. db' = db /\ known' = known
        BY <1>1, <2>4 DEF Next, Accept, Advance, store, Crash, CallFails, CreateSnapshot, MakeDir,
           Reflink, ReadExtents, StatDir, ReadDir, DeleteSnapshot, PurgeSnapshots, PurgeNext,
           FetchRecord, LookupFails, DiscardFile, RemoveFile, RemoveDir
      <3> QED  BY <1>1, <1>3, <2>1, <3>1, OthersMap
    <2> QED  BY <2>2, <2>3, <2>4
  <1> QED  BY <1>2, <1>3

-----------------------------------------------------------------------------
(***************************************************************************)
(* The readers.                                                            *)
(***************************************************************************)
\* A step of one reader, as the catalogue sees it.
LEMMA OneReads ==
    ASSUME CatalogInv, NEW q \in Readers, NEW g, ReadBecomes(q, g)
    PROVE  /\ SameSnapshots
           /\ \A x \in Readers :
                /\ rd'[x].asked = IF x = q THEN g.asked ELSE rd[x].asked
                /\ CatalogAnswer(rd[x])' = IF x = q THEN CatalogAnswer(g) ELSE CatalogAnswer(rd[x])
           /\ [x \in Readers |-> rd[x].asked]' =
                [[x \in Readers |-> rd[x].asked] EXCEPT ![q] = g.asked]
           /\ [x \in Readers |-> CatalogAnswer(rd[x])]' =
                [[x \in Readers |-> CatalogAnswer(rd[x])] EXCEPT ![q] = CatalogAnswer(g)]
  <1>1. rd' = [rd EXCEPT ![q] = g] /\ rd \in [Readers -> ReadFrame]
    BY DEF ReadBecomes, CatalogInv, ReadTypeOK
  <1>2. \A x \in Readers : rd'[x] = IF x = q THEN g ELSE rd[x]
    BY <1>1
  <1>3. SameSnapshots
    BY DEF ReadBecomes, SameSnapshots, CatalogState, vars
  <1>4. ASSUME NEW x \in Readers
        PROVE  CatalogAnswer(rd[x])' = IF x = q THEN CatalogAnswer(g) ELSE CatalogAnswer(rd[x])
    <2>1. CASE x = q
      <3>1. rd'[x] = g
        BY <1>2, <2>1
      <3> QED  BY <2>1, <3>1 DEF CatalogAnswer
    <2>2. CASE x # q
      <3>1. rd'[x] = rd[x]
        BY <1>2, <2>2
      <3> QED  BY <2>2, <3>1 DEF CatalogAnswer
    <2> QED  BY <2>1, <2>2
  <1> QED  BY <1>2, <1>3, <1>4

LEMMA AskMaps ==
    ASSUME CatalogInv, NEW q \in Readers, NEW g, ReadBecomes(q, g), Reading(q, "idle"),
           g.asked \subseteq known,
           CatalogAnswer(g) = IF g.asked = {} THEN "ok" ELSE "pending"
    PROVE  Catalog!Next
  <1>1. CatalogAnswer(rd[q]) # "pending"
    BY DEF Reading, CatalogAnswer, CatalogInv, ReadTypeOK, ReadFrame, ReadReplies
  <1>2. known \subseteq SnapIDs
    BY DEF CatalogInv, WholeInv, StoreInv, TypeOK
  <1>3. g.asked \in SUBSET {s \in SnapIDs : CatalogState(s) # "none"}
    BY <1>2, StateOf
  <1>4. Catalog!Ask(q, g.asked)
    BY <1>1, OneReads DEF Catalog!Ask, SameSnapshots
  <1> QED  BY <1>3, <1>4 DEF Catalog!Next

LEMMA ReplyMaps ==
    ASSUME CatalogInv, NEW q \in Readers, NEW g, ReadBecomes(q, g), ~ Reading(q, "idle"),
           g.asked = rd[q].asked
    PROVE  Catalog!Reply(q, CatalogAnswer(g))
  <1>1. CatalogAnswer(rd[q]) = "pending"
    BY DEF Reading, CatalogAnswer
  <1>2. UNCHANGED [x \in Readers |-> rd[x].asked]
    BY OneReads
  <1> QED  BY <1>1, <1>2, OneReads DEF Catalog!Reply, SameSnapshots

LEMMA AnswerMaps ==
    ASSUME CatalogInv, NEW q \in Readers, ~ Reading(q, "idle"),
           NEW code \in {"ok", "badrequest", "conflict", "notfound", "error"},
           ReadBecomes(q, ReadAnswer(rd[q], code)),
           NEW s \in SnapIDs, s \in rd[q].asked, s \in known,
           code = "ok" => s \notin doomed \/ db[s] # Nil,
           code = "error" => s \in doomed
    PROVE  Catalog!Next
  <1> DEFINE g == ReadAnswer(rd[q], code)
  <1>2. g.pc = "idle" /\ g.asked = rd[q].asked /\ g.reply = code /\ g.failed = FALSE
    BY Zenon DEF ReadAnswer, Told
  <1> HIDE DEF g
  <1>3. Catalog!Reply(q, CatalogAnswer(g))
    BY <1>2, ReplyMaps DEF g
  <1>4. CatalogAnswer(g) = IF code = "ok" THEN "ok"
                           ELSE IF code = "error" THEN "unavailable" ELSE "refused"
    BY <1>2 DEF CatalogAnswer
  <1>5. CASE code = "ok"
    <2>1. CatalogState(s) \in {"present", "leaving"}
      BY <1>5, StateOf
    <2>2. Catalog!Serve(q)
      BY <1>3, <1>4, <1>5, <2>1 DEF Catalog!Serve, Catalog!Here
    <2> QED  BY <2>2 DEF Catalog!Next
  <1>6. CASE code = "error"
    <2>1. CatalogState(s) \in {"leaving", "gone"}
      BY <1>6, StateOf
    <2>2. Catalog!Unavailable(q)
      BY <1>3, <1>4, <1>6, <2>1 DEF Catalog!Unavailable
    <2> QED  BY <2>2 DEF Catalog!Next
  <1>7. CASE code \notin {"ok", "error"}
    BY <1>3, <1>4, <1>7 DEF Catalog!Refuse, Catalog!Next
  <1> QED  BY <1>5, <1>6, <1>7

\* A reader that goes on to its next call has told nobody anything.
LEMMA OnwardMaps ==
    ASSUME CatalogInv, NEW q \in Readers, NEW g, ReadBecomes(q, g), ~ Reading(q, "idle"),
           g.asked = rd[q].asked, g.pc # "idle"
    PROVE  UNCHANGED Catalog!vars
  <1>1. CatalogAnswer(rd[q]) = "pending" /\ CatalogAnswer(g) = "pending"
    BY DEF Reading, CatalogAnswer
  <1>2. \A x \in Readers : /\ rd'[x].asked = rd[x].asked
                           /\ CatalogAnswer(rd[x])' = CatalogAnswer(rd[x])
    BY <1>1, OneReads
  <1> QED  BY <1>2, OneReads, Stutters

LEMMA GetSnapshotMaps ==
    ASSUME CatalogInv, NEW q \in Readers, GetSnapshot(q)
    PROVE  Catalog!Next
  <1>1. PICK v \in VMs, x \in known, y \in known :
           \/ ReadBecomes(q, Request("get", v, Nil, <<x>>))
           \/ ReadBecomes(q, Request("diff", v, Nil, <<x, y>>))
    BY DEF GetSnapshot
  <1>2. ASSUME NEW op, NEW ids, Range(ids) \subseteq known, Range(ids) # {},
               ReadBecomes(q, Request(op, v, Nil, ids))
        PROVE  Catalog!Next
    BY <1>2, AskMaps DEF GetSnapshot, Request, CatalogAnswer
  <1>3. Range(<<x>>) = {x} /\ Range(<<x, y>>) = {x, y}
    BY DEF Range
  <1> QED  BY <1>1, <1>2, <1>3

LEMMA ListSnapshotsMaps ==
    ASSUME CatalogInv, NEW q \in Readers, ListSnapshots(q)
    PROVE  Catalog!Next
  <1>1. \A s \in SnapIDs : db[s] # Nil => s \in known
    BY DEF CatalogInv, WholeInv, StoreInv, Catalogued
  <1>2. PICK v \in VMs :
          LET ids == {s \in SnapIDs : db[s] # Nil /\ db[s].vm = v}
          IN  IF ids = {} THEN ReadBecomes(q, Told("list", {}, "ok", FALSE))
              ELSE \E order \in {l \in [1 .. Cardinality(ids) -> ids] : Range(l) = ids} :
                     ReadBecomes(q, Request("list", v, Nil, order))
    BY DEF ListSnapshots
  <1> DEFINE ids == {s \in SnapIDs : db[s] # Nil /\ db[s].vm = v}
  <1>3. CASE ids = {}
    BY <1>2, <1>3, AskMaps DEF ListSnapshots, Told, CatalogAnswer
  <1>4. CASE ids # {}
    <2>1. PICK order : Range(order) = ids /\ ReadBecomes(q, Request("list", v, Nil, order))
      BY <1>2, <1>4
    <2>2. ids \subseteq known
      BY <1>1
    <2> HIDE DEF ids
    <2> QED  BY <1>4, <2>1, <2>2, AskMaps DEF ListSnapshots, Request, CatalogAnswer
  <1> QED  BY <1>3, <1>4

LEMMA ConsumeSnapshotMaps ==
    ASSUME CatalogInv, NEW q \in Readers, ConsumeSnapshot(q)
    PROVE  Catalog!Next
  <1>1. PICK v \in VMs, s \in known, d \in Disks : ReadBecomes(q, Request("download", v, d, <<s>>))
    BY DEF ConsumeSnapshot
  <1>2. Range(<<s>>) = {s}
    BY DEF Range
  <1> QED  BY <1>1, <1>2, AskMaps DEF ConsumeSnapshot, Request, CatalogAnswer

LEMMA FetchSnapshotMaps ==
    ASSUME CatalogInv, NEW q \in Readers, FetchSnapshot(q)
    PROVE  [Catalog!Next]_Catalog!vars
  <1>1. ~ Reading(q, "idle") /\ rd[q].pc = "fetch" /\ rd[q].op # "none"
    BY DEF FetchSnapshot, Reading, CatalogInv, ReadTypeOK
  <1>2. /\ rd[q] \in ReadFrame /\ rd[q].queue[1] \in SnapIDs /\ Head(rd[q].queue) = rd[q].queue[1]
        /\ rd[q].queue[1] \in rd[q].asked /\ rd[q].queue[1] \in known
    BY <1>1, Pending
  <1>3. PICK s \in SnapIDs : s = rd[q].queue[1] /\ s \in rd[q].asked /\ s \in known
    BY <1>2
  <1>4. CASE db[s] = Nil
    <2>1. ReadBecomes(q, ReadAnswer(rd[q], "error"))
      BY <1>2, <1>3, <1>4 DEF FetchSnapshot
    <2>2. s \in doomed
      BY <1>3, <1>4 DEF CatalogInv, GoneDoomed
    <2> QED  BY <1>1, <1>3, <2>1, <2>2, AnswerMaps
  <1>5. CASE db[s] # Nil /\ db[s].vm # rd[q].vm
    <2>1. ReadBecomes(q, ReadAnswer(rd[q], "conflict"))
      BY <1>2, <1>3, <1>5 DEF FetchSnapshot
    <2> QED  BY <1>1, <1>3, <2>1, AnswerMaps
  <1>6. CASE db[s] # Nil /\ db[s].vm = rd[q].vm /\ Len(rd[q].queue) > 1
    <2> DEFINE g == [rd[q] EXCEPT !.queue = Tail(rd[q].queue)]
    <2>1. ReadBecomes(q, g)
      BY <1>2, <1>3, <1>6 DEF FetchSnapshot
    <2>2. g.asked = rd[q].asked /\ g.pc # "idle"
      BY <1>1, <1>2 DEF ReadFrame
    <2> HIDE DEF g
    <2> QED  BY <1>1, <2>1, <2>2, OnwardMaps
  <1>7. CASE db[s] # Nil /\ db[s].vm = rd[q].vm /\ ~ Len(rd[q].queue) > 1
    <2>1. PICK g \in Fetched(rd[q]) : ReadBecomes(q, g)
      BY <1>2, <1>3, <1>7 DEF FetchSnapshot
    <2>2. \/ \E code \in {"ok", "badrequest", "notfound"} : g = ReadAnswer(rd[q], code)
          \/ g = [rd[q] EXCEPT !.pc = "open"]
      BY <1>1, <1>2, <2>1 DEF Fetched, ReadFrame, ReadOps
    <2>3. CASE g = [rd[q] EXCEPT !.pc = "open"]
      <3>1. g.asked = rd[q].asked /\ g.pc # "idle"
        BY <1>2, <2>3 DEF ReadFrame
      <3> QED  BY <1>1, <2>1, <3>1, OnwardMaps
    <2> QED  BY <1>1, <1>3, <1>7, <2>1, <2>2, <2>3, AnswerMaps
  <1> QED  BY <1>4, <1>5, <1>6, <1>7

LEMMA OpenFileMaps ==
    ASSUME CatalogInv, NEW q \in Readers, OpenFile(q)
    PROVE  Catalog!Next
  <1>1. ~ Reading(q, "idle") /\ rd[q].pc = "open"
    BY DEF OpenFile, Reading
  <1>2. /\ rd[q] \in ReadFrame /\ ReaderInv(rd[q]) /\ rd[q].queue[1] \in SnapIDs
        /\ rd[q].queue[1] \in rd[q].asked /\ rd[q].queue[1] \in known
    BY <1>1, Pending
  <1>3. PICK s \in SnapIDs : s = rd[q].queue[1] /\ s \in rd[q].asked /\ s \in known
    BY <1>2
  <1>4. CASE <<s, rd[q].disk>> \in files
    <2>1. ReadBecomes(q, ReadAnswer(rd[q], "ok"))
      BY <1>3, <1>4 DEF OpenFile
    <2>2. rd[q].disk \in Disks
      BY <1>4 DEF CatalogInv, WholeInv, StoreInv, TypeOK
    <2>3. db[s] # Nil
      BY <1>3, <1>4, <2>2 DEF CatalogInv, WholeInv, StoreInv, DeletedLeavesNothing
    <2> QED  BY <1>1, <1>3, <2>1, <2>3, AnswerMaps
  <1>5. CASE <<s, rd[q].disk>> \notin files
    <2>1. ReadBecomes(q, ReadAnswer(rd[q], "error"))
      BY <1>3, <1>5 DEF OpenFile
    <2>2. CASE db[s] = Nil
      BY <1>1, <1>3, <2>1, <2>2, AnswerMaps DEF CatalogInv, GoneDoomed
    <2>3. CASE db[s] # Nil
      <3>1. s \in doomed
        BY <1>1, <1>2, <1>3, <1>5, <2>3 DEF ReaderInv, CatalogInv, WholeInv, NotDeletedIsWhole
      <3> QED  BY <1>1, <1>3, <2>1, <3>1, AnswerMaps
    <2> QED  BY <2>2, <2>3
  <1> QED  BY <1>4, <1>5

LEMMA ReadFailsMaps ==
    ASSUME CatalogInv, NEW q \in Readers, ReadFails(q)
    PROVE  Catalog!Next
  <1> DEFINE g == Told(rd[q].op, rd[q].asked, "error", TRUE)
  <1>1. g.asked = rd[q].asked /\ CatalogAnswer(g) = "failed"
    BY DEF Told, CatalogAnswer
  <1> HIDE DEF g
  <1>2. Catalog!Reply(q, CatalogAnswer(g))
    BY <1>1, ReplyMaps DEF ReadFails, g
  <1> QED  BY <1>1, <1>2 DEF Catalog!Fail, Catalog!Next

-----------------------------------------------------------------------------
LEMMA InitMaps ==
    ReadInit => Catalog!Init
  <1> SUFFICES ASSUME ReadInit PROVE Catalog!Init
    OBVIOUS
  <1>1. \A s \in SnapIDs : CatalogState(s) = "none"
    BY DEF ReadInit, Init, CatalogState
  <1>2. \A q \in Readers : rd[q].asked = {} /\ CatalogAnswer(rd[q]) = "none"
    BY RestingOK DEF ReadInit, CatalogAnswer
  <1> QED  BY <1>1, <1>2 DEF Catalog!Init

LEMMA StepMaps ==
    CatalogInv /\ CatalogInv' /\ [ReadNext]_readVars => [Catalog!Next]_Catalog!vars
  <1> SUFFICES ASSUME CatalogInv, StoreInv', [ReadNext]_readVars
               PROVE  [Catalog!Next]_Catalog!vars
    BY DEF CatalogInv, WholeInv
  <1>1. CASE UNCHANGED readVars
    BY <1>1, Stutters DEF readVars, SameSnapshots, CatalogState, CatalogAnswer
  <1>2. CASE WriterStepOf
    BY <1>2, WriterMaps
  <1>3. ASSUME NEW q \in Readers,
               \/ GetSnapshot(q) \/ ListSnapshots(q) \/ ConsumeSnapshot(q)
               \/ ReadStep(q) \/ ReadFails(q)
        PROVE  [Catalog!Next]_Catalog!vars
    BY <1>3, GetSnapshotMaps, ListSnapshotsMaps, ConsumeSnapshotMaps, FetchSnapshotMaps,
       OpenFileMaps, ReadFailsMaps DEF ReadStep
  <1> QED  BY <1>1, <1>2, <1>3 DEF ReadNext, WriterStepOf

\* The handlers of controllers.go, call by call, are a catalogue to the clients:
\* a snapshot appears whole (manager.go:140), stays until a request deletes it
\* (manager.go:211, snapshots.go:45), and is read as long as it is there.
THEOREM CatalogImplemented == ReadSpec => ImplementsCatalog
  <1> QED
    BY InitMaps, StepMaps, CatalogInvariant, PTL DEF ReadSpec, ImplementsCatalog, Catalog!Spec
=============================================================================
