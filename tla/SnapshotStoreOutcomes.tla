------------------------ MODULE SnapshotStoreOutcomes ------------------------
(***************************************************************************)
(* Proofs about how deletes and creates end, from the invariant proved in  *)
(* SnapshotStoreProofs: a delete that is answered with success is done, of *)
(* concurrent deletes one does not fail, and a create that fails leaves no *)
(* file and no directory behind unless a second call fails.                *)
(***************************************************************************)
EXTENDS SnapshotStoreProofs

-----------------------------------------------------------------------------
\* The steps that change a record or take a file away.
LEMMA Takers ==
    ASSUME [Next]_vars, NEW s \in SnapIDs,
           db' # db \/ \E d \in Disks : <<s, d>> \in files /\ <<s, d>> \notin files'
    PROVE  \E r \in Requests : \/ SaveRecord(r) \/ DeleteRecord(r) \/ DiscardFile(r)
                               \/ RemoveFile(r) \/ RemoveDir(r)
  BY DEF Next, Accept, Advance, vars, store, Crash, CallFails, CreateSnapshot, MakeDir,
     Reflink, ReadExtents, StatDir, ReadDir, DeleteSnapshot, PurgeSnapshots, PurgeNext,
     FetchRecord, LookupFails

\* Once it is known, a snapshot's record can only go.
LEMMA RecordFinal ==
    ASSUME StoreInv, [Next]_vars, NEW s \in known
    PROVE  db'[s] \in {db[s], Nil}
  <1> SUFFICES ASSUME db' # db PROVE db'[s] \in {db[s], Nil}
    OBVIOUS
  <1>0. db \in [SnapIDs -> Record \cup {Nil}] /\ s \in SnapIDs
    BY DEF StoreInv, TypeOK
  <1>1. PICK r \in Requests : \/ SaveRecord(r) \/ DeleteRecord(r) \/ DiscardFile(r)
                              \/ RemoveFile(r) \/ RemoveDir(r)
    BY <1>0, Takers
  <1>2. CASE SaveRecord(r)
    <2>1. req[r] \in Frame /\ WellFormed(req[r]) /\ FrameInv(req[r]) /\ req[r].pc = "save"
      BY <1>2, AtCall DEF StoreInv, SaveRecord, At
    <2>2. req[r].snap # s
      BY <2>1 DEF WellFormed, FrameInv, Building
    <2> QED  BY <1>0, <1>2, <2>2 DEF SaveRecord
  <1>3. CASE DeleteRecord(r)
    BY <1>0, <1>3 DEF DeleteRecord
  <1> QED  BY <1>1, <1>2, <1>3 DEF DiscardFile, RemoveFile, RemoveDir

-----------------------------------------------------------------------------
(***************************************************************************)
(* AckedDeleteIsDone.  Of the snapshots that a request set out to delete,  *)
(* those whose record is not gone yet are in the queue of its purge, or    *)
(* are the one it is deleting, and a record that is gone stays away.       *)
(***************************************************************************)
Gone == {s \in known : db[s] = Nil}

\* What holds of the frame f when K are the known snapshots and G those gone.
Pursues(f, K, G) ==
    /\ f.asked \subseteq K
    /\ Building(f) => f.asked = {}
    /\ f.reply = "ok" => f.asked \subseteq G
    /\ f.ctx = "delete" \/ f.pc = "next" =>
         \A s \in f.asked : s \in G \/ s \in f.queue \/ (f.ctx = "delete" /\ s = f.snap)

AskedInv == StoreInv /\ \A r \in Requests : Pursues(req[r], known, Gone)

LEMMA GoneStays ==
    ASSUME StoreInv, [Next]_vars
    PROVE  known \subseteq known' /\ Gone \subseteq Gone'
  <1>1. known \subseteq known'
    BY DEF Next, Accept, Advance, vars, store, Crash, CallFails, CreateSnapshot, MakeDir,
       Reflink, ReadExtents, SaveRecord, DiscardFile, StatDir, RemoveFile, ReadDir, RemoveDir,
       DeleteSnapshot, PurgeSnapshots, PurgeNext, FetchRecord, DeleteRecord, LookupFails
  <1>2. ASSUME NEW s \in known, db[s] = Nil PROVE db'[s] = Nil
    BY <1>2, RecordFinal
  <1> QED  BY <1>1, <1>2 DEF Gone

\* A step that deals with no snapshot: the request goes on or gives up.
Carries(f, g) ==
    /\ g.asked = f.asked
    /\ f.ctx = "delete" =>
         \/ g.ctx = "none" /\ g.pc = "idle" /\ g.reply = "error"
         \/ g.ctx = "delete" /\ g.queue = f.queue /\ g.snap = f.snap /\ g.reply = f.reply

LEMMA PursuesOn ==
    ASSUME NEW f, NEW g, NEW K, NEW G, Pursues(f, K, G), Carries(f, g),
           f.ctx = "delete" \/ Building(f)
    PROVE  Pursues(g, K, G)
  BY DEF Pursues, Carries, Building

LEMMA GivesUp ==
    ASSUME NEW f \in Frame, NEW code \in Codes \ {"ok"}, NEW K, NEW G, Pursues(f, K, G)
    PROVE  Pursues(Answer(f, code), K, G)
  BY DEF Pursues, Answer, Parked, Building

\* A snapshot is dealt with, and all that are not are in the queue.
LEMMA PursuesNext ==
    ASSUME NEW f \in Frame, NEW K, NEW G, f.asked \subseteq K,
           \A s \in f.asked : s \in G \/ s \in f.queue
    PROVE  Pursues(NextSnapshot(f), K, G)
  <1>1. CASE f.queue = {}
    BY <1>1 DEF NextSnapshot, Pursues, Answer, Parked, Building
  <1>2. CASE f.queue # {}
    <2> DEFINE p == Parked("none", f.asked)
               g == [p EXCEPT !.pc = "next", !.vm = f.vm, !.queue = f.queue]
    <2>1. p.asked = f.asked /\ p.ctx = "none" /\ p.reply = "none" /\ p \in Frame
      BY ParkedOK DEF Parked, Codes, Frame
    <2>2. g.asked = f.asked /\ g.ctx = "none" /\ g.reply = "none" /\ g.queue = f.queue
      <3> HIDE DEF p
      <3> QED  BY <2>1, SMT DEF Frame
    <2>3. NextSnapshot(f) = g
      BY <1>2 DEF NextSnapshot
    <2> HIDE DEF g
    <2> QED  BY <2>2, <2>3 DEF Pursues, Building
  <1> QED  BY <1>1, <1>2

LEMMA CarriesRollback ==
    ASSUME NEW f \in Frame
    PROVE  Rollback(f).asked = f.asked /\ Undo(f).asked = f.asked
  <1>1. \A ctx, list : Walk(f, ctx, list).asked = f.asked
    BY SMT DEF Walk, Frame
  <1>2. \A code : Answer(f, code).asked = f.asked
    BY DEF Answer, Parked
  <1> HIDE DEF Walk, Answer
  <1> QED  BY <1>1, <1>2 DEF Rollback, Undo

LEMMA CarriesDisk ==
    ASSUME NEW f \in Frame
    PROVE  Carries(f, NextDisk(f)) /\ Carries(f, DiskFailed(f))
  <1>1. Carries(f, Answer(f, "error"))
    BY DEF Carries, Answer, Parked
  <1>2. Carries(f, [f EXCEPT !.pc = "stat", !.i = f.i + 1])
        /\ Carries(f, [f EXCEPT !.pc = "fetch", !.i = f.i + 1])
    BY SMT DEF Carries, Frame
  <1>3. f.ctx = "discard" => Carries(f, Rollback(f))
    BY CarriesRollback DEF Carries
  <1>4. Carries(f, NextDisk(f))
    BY <1>1, <1>2, <1>3 DEF NextDisk
  <1>5. Carries(f, DiskFailed(f))
    BY <1>1, <1>4 DEF DiskFailed
  <1> QED  BY <1>4, <1>5

LEMMA CarriesGoto ==
    ASSUME NEW f \in Frame, NEW pc
    PROVE  Carries(f, [f EXCEPT !.pc = pc])
  BY SMT DEF Carries, Frame

LEMMA PursuesBegin ==
    ASSUME NEW f \in Frame, NEW s \in SnapIDs, NEW K, NEW G, f.asked \subseteq K,
           f.reply = "ok" => f.asked \subseteq G,
           \A t \in f.asked : t \in G \/ t \in f.queue \/ t = s,
           db[s] = Nil /\ s \in f.asked => s \in G
    PROVE  Pursues(BeginDelete(f, s), K, G)
  <1>1. CASE db[s] = Nil
    BY <1>1, PursuesNext DEF BeginDelete
  <1>2. CASE db[s] # Nil /\ db[s].vm # f.vm
    BY <1>2 DEF BeginDelete, Answer, Parked, Pursues, Building
  <1>3. CASE db[s] # Nil /\ db[s].vm = f.vm
    <2> DEFINE g == BeginDelete(f, s)
    <2>1. /\ g.ctx = "delete" /\ g.snap = s
          /\ g.asked = f.asked /\ g.queue = f.queue /\ g.reply = f.reply
      BY <1>3, SMT DEF BeginDelete, Walk, Frame
    <2> HIDE DEF g
    <2> QED  BY <2>1 DEF Pursues, Building, g
  <1> QED  BY <1>1, <1>2, <1>3

\* A handler answers a request, or a purge turns to its next snapshot.
LEMMA PursuesAccept ==
    ASSUME StoreInv, NEW r \in Requests, Pursues(req[r], known, Gone),
           NEW g, req' = [req EXCEPT ![r] = g], Accept(r) \/ PurgeNext(r)
    PROVE  Pursues(g, known, Gone)
  <1>0. /\ req[r] \in Frame /\ TypeOK /\ known \subseteq SnapIDs /\ Gone \subseteq known
        /\ req'[r] = g
    BY AtCall DEF StoreInv, TypeOK, Gone
  <1>1. ASSUME NEW h, Become(r, h) PROVE g = h
    BY <1>1 DEF Become, StoreInv, TypeOK
  <1>2. ASSUME NEW code \in Codes \ {"ok"} PROVE Pursues(Parked(code, {}), known, Gone)
    BY DEF Pursues, Parked, Building
  <1>3. CASE CreateSnapshot(r)
    <2>1. PICK v \in VMs, s \in SnapIDs \ minted : \E list \in DiskLists[v] :
            g = StartCreate(v, s, list) \/ g = Parked("badrequest", {})
      BY <1>1, <1>3 DEF CreateSnapshot, StartCreate
    <2>2. PICK list \in DiskLists[v] :
            g = StartCreate(v, s, list) \/ g = Parked("badrequest", {})
      BY <2>1
    <2>3. StartCreate(v, s, list).asked = {} /\ StartCreate(v, s, list).ctx = "create"
          /\ StartCreate(v, s, list).reply = "none"
      BY DEF StartCreate, Parked
    <2> QED  BY <1>2, <2>2, <2>3 DEF Pursues, Codes
  <1>4. CASE DeleteSnapshot(r)
    <2>1. PICK v \in VMs, s \in known : Become(r, BeginDelete([Parked("none", {s}) EXCEPT !.vm = v], s))
      BY <1>4 DEF DeleteSnapshot
    <2> DEFINE h == [Parked("none", {s}) EXCEPT !.vm = v]
    <2>2. h \in Frame /\ h.asked = {s} /\ h.reply = "none"
      BY <1>0, ToDelete DEF Parked
    <2>3. g = BeginDelete(h, s)
      BY <1>1, <2>1
    <2> HIDE DEF h
    <2> QED  BY <1>0, <2>2, <2>3, PursuesBegin DEF Gone
  <1>5. CASE PurgeSnapshots(r)
    <2>1. PICK v \in VMs : LET ids == {s \in SnapIDs : db[s] # Nil /\ db[s].vm = v}
                           IN  Become(r, NextSnapshot([Parked("none", ids) EXCEPT !.vm = v, !.queue = ids]))
      BY <1>5 DEF PurgeSnapshots
    <2> DEFINE ids == {s \in SnapIDs : db[s] # Nil /\ db[s].vm = v}
               h   == [Parked("none", ids) EXCEPT !.vm = v, !.queue = ids]
    <2>2. h \in Frame /\ h.asked = ids /\ h.queue = ids /\ ids \subseteq known
      BY <1>0, ToDelete DEF Parked, StoreInv, Catalogued
    <2>3. g = NextSnapshot(h)
      BY <1>1, <2>1
    <2> HIDE DEF h
    <2> QED  BY <2>2, <2>3, PursuesNext
  <1>6. CASE LookupFails(r)
    BY <1>2, <1>6, <1>1 DEF LookupFails, Codes
  <1>7. CASE PurgeNext(r)
    <2>1. PICK s \in req[r].queue : Become(r, BeginDelete([req[r] EXCEPT !.queue = @ \ {s}], s))
      BY <1>7 DEF PurgeNext
    <2> DEFINE h == [req[r] EXCEPT !.queue = @ \ {s}]
    <2>2. s \in SnapIDs /\ h \in Frame
      BY <1>0, ToDelete DEF Frame
    <2>3. h.asked = req[r].asked /\ h.queue = req[r].queue \ {s} /\ h.reply = req[r].reply
      BY <1>0, SMT DEF Frame
    <2>4. g = BeginDelete(h, s)
      BY <1>1, <2>1
    <2>5. req[r].pc = "next" /\ req[r].ctx = "none"
      BY <1>0, <1>7, AtCall DEF PurgeNext, At, WellFormed
    <2> HIDE DEF h
    <2> QED  BY <2>2, <2>3, <2>4, <2>5, PursuesBegin DEF Pursues, Gone
  <1> QED  BY <1>3, <1>4, <1>5, <1>6, <1>7 DEF Accept

LEMMA AskedKept ==
    ASSUME NEW f \in Frame, NEW pc
    PROVE  /\ [f EXCEPT !.pc = pc].asked = f.asked
           /\ \A ctx : [f EXCEPT !.pc = pc, !.ctx = ctx].asked = f.asked
           /\ \A i : [f EXCEPT !.i = i, !.pc = pc].asked = f.asked
  BY SMT DEF Frame

\* The steps of a create: nobody asked it to delete anything.
LEMMA PursuesBuild ==
    ASSUME StoreInv, NEW r \in Requests, Pursues(req[r], known, Gone),
           NEW g, req' = [req EXCEPT ![r] = g],
           MakeDir(r) \/ Reflink(r) \/ ReadExtents(r) \/ SaveRecord(r) \/ DiscardFile(r)
    PROVE  Pursues(g, known, Gone)
  <1>1. req[r] \in Frame /\ WellFormed(req[r]) /\ req'[r] = g
    BY AtCall DEF StoreInv, TypeOK
  <1>2. Building(req[r]) /\ req[r].asked = {}
    BY <1>1 DEF MakeDir, Reflink, ReadExtents, SaveRecord, DiscardFile, At, WellFormed, Building, Pursues
  <1>3. ASSUME NEW h, Become(r, h) PROVE g = h
    BY <1>3 DEF Become, StoreInv, TypeOK
  <1>4. g.asked = {}
    <2>1. CASE ReadExtents(r)
      <3> DEFINE pc == IF req[r].i = Len(req[r].list) THEN "save" ELSE "mkdir"
      <3>1. g = [req[r] EXCEPT !.i = req[r].i + 1, !.pc = pc]
        BY <1>3, <2>1 DEF ReadExtents
      <3> QED  BY <1>1, <1>2, <3>1, AskedKept
    <2>2. CASE SaveRecord(r)
      BY <1>2, <1>3, <2>2 DEF SaveRecord, Answer, Parked
    <2>3. CASE MakeDir(r) \/ Reflink(r) \/ DiscardFile(r)
      <3>1. \/ g = [req[r] EXCEPT !.pc = "reflink"] \/ g = [req[r] EXCEPT !.pc = "extents"]
            \/ g = [req[r] EXCEPT !.pc = "readdir"]
            \/ g = [req[r] EXCEPT !.pc = "unlink", !.ctx = "discard"]
        BY <1>3, <2>3 DEF MakeDir, Reflink, DiscardFile
      <3>2. \A pc : [req[r] EXCEPT !.pc = pc].asked = {}
        BY <1>1, <1>2, AskedKept
      <3>3. [req[r] EXCEPT !.pc = "unlink", !.ctx = "discard"].asked = {}
        BY <1>1, <1>2, AskedKept
      <3> QED  BY <3>1, <3>2, <3>3
    <2> QED  BY <2>1, <2>2, <2>3
  <1> QED  BY <1>4 DEF Pursues

\* The steps of a delete: the walk, the record, and a call that fails.
LEMMA PursuesWalk ==
    ASSUME StoreInv, NEW r \in Requests, Pursues(req[r], known, Gone),
           NEW g, Become(r, g), req'[r] = g,
           StatDir(r) \/ RemoveFile(r) \/ ReadDir(r) \/ RemoveDir(r)
    PROVE  Pursues(g, known, Gone)
  <1> DEFINE f == req[r]
  <1>1. f \in Frame /\ WellFormed(f)
    BY AtCall DEF StoreInv
  <1>2. f.ctx = "delete" \/ Building(f)
    BY <1>1, ContextOf DEF StoreInv, StatDir, RemoveFile, ReadDir, RemoveDir, At, WellFormed
  <1>3. ASSUME NEW h, Become(r, h) PROVE g = h
    BY <1>3 DEF Become, StoreInv, TypeOK
  <1>4. \/ g = [f EXCEPT !.pc = "remove"] \/ g = [f EXCEPT !.pc = "readdir"]
        \/ g = [f EXCEPT !.pc = "rmdir"] \/ g = NextDisk(f) \/ g = DiskFailed(f)
    BY <1>3 DEF StatDir, RemoveFile, ReadDir, RemoveDir
  <1>5. \A pc : Carries(f, [f EXCEPT !.pc = pc])
    BY <1>1, CarriesGoto
  <1>6. Carries(f, NextDisk(f)) /\ Carries(f, DiskFailed(f))
    BY <1>1, CarriesDisk
  <1>7. Carries(f, g)
    BY <1>4, <1>5, <1>6
  <1> QED  BY <1>2, <1>7, PursuesOn

LEMMA PursuesFailed ==
    ASSUME NEW f \in Frame, WellFormed(f), f.pc # "idle", NEW K, NEW G, Pursues(f, K, G)
    PROVE  Pursues(Failed(f), K, G)
  <1> DEFINE g == Failed(f)
  <1>1. CASE f.pc \in {"stat", "remove", "readdir", "rmdir"}
    <2>1. g = NextDisk(f) \/ g = DiskFailed(f)
      BY <1>1 DEF Failed
    <2>2. Carries(f, g)
      BY <2>1, CarriesDisk
    <2>3. f.ctx = "delete" \/ Building(f)
      BY <1>1 DEF WellFormed, Frame, Contexts, Building
    <2> QED  BY <2>2, <2>3, PursuesOn
  <1>2. CASE f.pc \in {"mkdir", "reflink", "extents", "unlink", "save"}
    <2>1. Building(f) /\ f.asked = {}
      BY <1>2 DEF WellFormed, Building, Pursues
    <2>2. \/ g = Rollback(f) \/ g = Undo(f) \/ g = [f EXCEPT !.pc = "readdir"]
          \/ g = [f EXCEPT !.pc = "unlink", !.ctx = "discard"]
      BY <1>2 DEF Failed
    <2>3. [f EXCEPT !.pc = "readdir"].asked = {} /\ [f EXCEPT !.pc = "unlink", !.ctx = "discard"].asked = {}
      BY <2>1, AskedKept
    <2>4. Rollback(f).asked = {} /\ Undo(f).asked = {}
      BY <2>1, CarriesRollback
    <2>5. g.asked = {}
      BY <2>2, <2>3, <2>4
    <2> QED  BY <2>5 DEF Pursues
  <1>3. CASE f.pc \in {"fetch", "dbdelete", "next"}
    <2>1. g = Answer(f, "error")
      BY <1>3 DEF Failed
    <2> QED  BY <2>1, GivesUp DEF Codes
  <1> QED  BY <1>1, <1>2, <1>3 DEF Frame, Locations

\* The record of a delete: found, or gone and dealt with.
LEMMA PursuesRecord ==
    ASSUME StoreInv, NEW r \in Requests, Pursues(req[r], known', Gone'),
           NEW g, Become(r, g), req'[r] = g, FetchRecord(r) \/ DeleteRecord(r),
           known \subseteq known'
    PROVE  Pursues(g, known', Gone')
  <1> DEFINE f == req[r]
  <1>1. f \in Frame /\ WellFormed(f) /\ FrameInv(f)
    BY AtCall DEF StoreInv
  <1>2. f.ctx = "delete" /\ f.snap \in known
    BY <1>1 DEF FetchRecord, DeleteRecord, At, WellFormed, FrameInv, DeleteInv
  <1>3. ASSUME NEW h, Become(r, h) PROVE g = h
    BY <1>3 DEF Become, StoreInv, TypeOK
  <1>4. ASSUME db'[f.snap] = Nil PROVE Pursues(NextSnapshot(f), known', Gone')
    <2>1. f.snap \in Gone'
      BY <1>2, <1>4 DEF Gone
    <2> QED  BY <1>1, <1>2, <2>1, PursuesNext DEF Pursues
  <1>5. CASE FetchRecord(r)
    <2>1. \/ db[f.snap] = Nil /\ g = NextSnapshot(f)
          \/ g = [f EXCEPT !.pc = "dbdelete"]
      BY <1>3, <1>5 DEF FetchRecord
    <2>2. Pursues([f EXCEPT !.pc = "dbdelete"], known', Gone')
      BY <1>1, <1>2, CarriesGoto, PursuesOn
    <2> QED  BY <1>4, <1>5, <2>1, <2>2 DEF FetchRecord, store
  <1>6. CASE DeleteRecord(r)
    <2>1. g = Answer(f, "error") \/ g = NextSnapshot(f)
      BY <1>3, <1>6 DEF DeleteRecord
    <2>2. db'[f.snap] = Nil
      BY <1>2, <1>6 DEF DeleteRecord, StoreInv, TypeOK
    <2>3. Pursues(Answer(f, "error"), known', Gone')
      BY <1>1, GivesUp DEF Codes
    <2> QED  BY <1>4, <2>1, <2>2, <2>3
  <1> QED  BY <1>5, <1>6

\* More is known and more is gone: what a frame pursues stays pursued.
LEMMA PursuesMore ==
    ASSUME NEW f, NEW K, NEW G, NEW L, NEW H, K \subseteq L, G \subseteq H, Pursues(f, K, G)
    PROVE  Pursues(f, L, H)
  BY DEF Pursues

LEMMA AskedStep ==
    ASSUME AskedInv, [Next]_vars
    PROVE  AskedInv'
  <1>0. StoreInv /\ StoreInv' /\ known \subseteq known' /\ Gone \subseteq Gone'
    BY StoreInvStep, GoneStays DEF AskedInv
  <1>1. req \in [Requests -> Frame]
    BY <1>0 DEF StoreInv, TypeOK
  <1>2. \A r \in Requests : Pursues(req[r], known, Gone) /\ Pursues(req[r], known', Gone')
    BY <1>0, PursuesMore DEF AskedInv
  <1> SUFFICES \A q \in Requests : Pursues(req'[q], known', Gone')
    BY <1>0 DEF AskedInv
  <1>3. CASE UNCHANGED vars
    BY <1>2, <1>3 DEF vars
  <1>4. CASE Crash
    <2>1. Pursues(Parked("none", {}), known', Gone')
      BY DEF Pursues, Parked, Building
    <2> QED  BY <1>4, <2>1 DEF Crash
  <1>5. ASSUME NEW r \in Requests, Pursues(req'[r], known', Gone'), NEW g, req' = [req EXCEPT ![r] = g]
        PROVE  \A q \in Requests : Pursues(req'[q], known', Gone')
    BY <1>1, <1>2, <1>5
  <1>6. ASSUME NEW r \in Requests, Accept(r) \/ Advance(r)
        PROVE  \A q \in Requests : Pursues(req'[q], known', Gone')
    <2>1. PICK g : Become(r, g)
      <3>1. CASE Accept(r)
        BY <3>1 DEF Accept, CreateSnapshot, DeleteSnapshot, PurgeSnapshots, LookupFails
      <3>2. CASE Advance(r)
        BY <3>2 DEF Advance, MakeDir, Reflink, ReadExtents, SaveRecord, DiscardFile, StatDir,
           RemoveFile, ReadDir, RemoveDir, PurgeNext, FetchRecord, DeleteRecord
      <3> QED  BY <1>6, <3>1, <3>2
    <2>2. req' = [req EXCEPT ![r] = g] /\ req'[r] = g
      BY <1>1, <2>1 DEF Become
    <2>3. Pursues(g, known', Gone')
      <3>1. CASE Accept(r) \/ PurgeNext(r)
        BY <1>0, <1>2, <2>2, <3>1, PursuesAccept, PursuesMore
      <3>2. CASE MakeDir(r) \/ Reflink(r) \/ ReadExtents(r) \/ SaveRecord(r) \/ DiscardFile(r)
        BY <1>0, <1>2, <2>2, <3>2, PursuesBuild, PursuesMore
      <3>3. CASE StatDir(r) \/ RemoveFile(r) \/ ReadDir(r) \/ RemoveDir(r)
        BY <1>0, <1>2, <2>1, <2>2, <3>3, PursuesWalk, PursuesMore
      <3>4. CASE FetchRecord(r) \/ DeleteRecord(r)
        BY <1>0, <1>2, <2>1, <2>2, <3>4, PursuesRecord
      <3> QED  BY <1>6, <3>1, <3>2, <3>3, <3>4 DEF Advance
    <2> QED  BY <1>5, <2>2, <2>3
  <1>7. ASSUME NEW r \in Requests, CallFails(r)
        PROVE  \A q \in Requests : Pursues(req'[q], known', Gone')
    <2>1. req' = [req EXCEPT ![r] = Failed(req[r])] /\ req'[r] = Failed(req[r])
      BY <1>1, <1>7 DEF CallFails
    <2>2. req[r] \in Frame /\ WellFormed(req[r]) /\ req[r].pc # "idle"
      BY <1>0, <1>7, AtCall DEF StoreInv, CallFails, At
    <2>3. Pursues(Failed(req[r]), known', Gone')
      BY <1>2, <2>2, PursuesFailed
    <2> QED  BY <1>5, <2>1, <2>3
  <1> QED  BY <1>3, <1>4, <1>6, <1>7 DEF Next

\* A delete or a purge that answers with success (controllers.go:225, 240) has
\* left no record of what it set out to delete (manager.go:335-357, 361-382),
\* whatever the other requests did in between.
THEOREM AckedIsDone == Spec => []AckedDeleteIsDone
  <1>1. Init => AskedInv
    <2> SUFFICES ASSUME Init PROVE AskedInv
      OBVIOUS
    <2>1. \A r \in Requests : Pursues(req[r], known, Gone)
      BY DEF Init, Pursues, Parked, Building
    <2> QED  BY <2>1, StoreInvInit DEF AskedInv
  <1>2. AskedInv /\ [Next]_vars => AskedInv'
    BY AskedStep
  <1>3. AskedInv => AckedDeleteIsDone
    BY DEF AskedInv, Pursues, Gone, AckedDeleteIsDone
  <1> QED  BY <1>1, <1>2, <1>3, PTL DEF Spec

-----------------------------------------------------------------------------
(***************************************************************************)
(* AllOrNothing.  Deletes of one snapshot follow the same list.  Of those  *)
(* that reach a disk, the one that removes the file goes on and the others *)
(* fail, unless the directory is gone too, and then they pass.  So the     *)
(* delete that is past every missing file leads: it finds each file it     *)
(* still has to remove, and the record.                                    *)
(***************************************************************************)
Deletes(f, s) == f.ctx = "delete" /\ f.snap = s

\* f has removed the file of disk f.i and looks after the directory.
Clearing(f) == f.pc \in {"readdir", "rmdir"}

\* A delete that clears is alone at its disk, and was not overtaken by another
\* one before the directory was gone.
Trails(f, g) ==
    Clearing(f) => /\ g.i > f.i => DirOf(f) \notin dirs
                   /\ g.i = f.i => ~ Clearing(g)

InTurn ==
    \A s \in SnapIDs : db[s] # Nil => \A r, q \in Requests :
        r # q /\ Deletes(req[r], s) /\ Deletes(req[q], s) => Trails(req[r], req[q])

Past(f, j) == j < f.i \/ (j = f.i /\ Clearing(f))

Missing(s) == {j \in DOMAIN db[s].disks : <<s, db[s].disks[j]>> \notin files}

Leads(f, s) ==
    /\ Deletes(f, s)
    /\ \A j \in Missing(s) : Past(f, j)
    /\ f.pc = "readdir" => DirOf(f) \in dirs

Led ==
    faults = 0 /\ crashes = 0 =>
        \A s \in SnapIDs : db[s] # Nil /\ Missing(s) # {} => \E r \in Requests : Leads(req[r], s)

LedInv == StoreInv /\ InTurn /\ Led

\* What a delete of a recorded snapshot knows.
LEMMA Deleter ==
    ASSUME StoreInv, NEW s \in SnapIDs, db[s] # Nil, NEW r \in Requests, Deletes(req[r], s)
    PROVE  LET f    == req[r]
               list == db[s].disks
           IN  /\ f \in Frame /\ WellFormed(f) /\ f.list = list /\ list \in Seq(Disks)
               /\ f.i \in Nat /\ f.snap = s /\ f.ctx = "delete"
               /\ \A j \in DOMAIN list : Past(f, j) => <<s, list[j]>> \notin files
               /\ f.pc \in OnDisk =>
                    /\ f.i \in DOMAIN list /\ list[f.i] \in Disks
                    /\ FileOf(f) = <<s, list[f.i]>> /\ DirOf(f) = <<s, RepoOf[list[f.i]]>>
  <1> DEFINE f    == req[r]
             list == db[s].disks
  <1>1. f \in Frame /\ WellFormed(f) /\ FrameInv(f)
    BY AtCall DEF StoreInv
  <1>2. f.snap = s /\ f.ctx = "delete" /\ f.list = list
    BY <1>1 DEF Deletes, FrameInv, DeleteInv
  <1>3. list \in Seq(Disks) /\ f.i \in Nat
    BY <1>1, <1>2 DEF Frame
  <1>4. f.pc \in OnDisk => f.i \in DOMAIN list /\ list[f.i] \in Disks
    BY <1>1, <1>2, <1>3 DEF WellFormed
  <1>5. ASSUME NEW j \in DOMAIN list, Past(f, j) PROVE <<s, list[j]>> \notin files
    BY <1>1, <1>2, <1>5 DEF Past, Clearing, FrameInv, DeleteInv, FileOf
  <1> QED  BY <1>1, <1>2, <1>3, <1>4, <1>5 DEF FileOf, DirOf

\* The next disk of a delete.
LEMMA DeleteOn ==
    ASSUME NEW f \in Frame, f.ctx = "delete"
    PROVE  LET g == NextDisk(f) IN
             /\ g.ctx = "delete" /\ g.snap = f.snap /\ g.i = f.i + 1 /\ g.pc \in {"stat", "fetch"}
  <1>1. CASE f.i < Len(f.list)
    <2> DEFINE g == [f EXCEPT !.pc = "stat", !.i = f.i + 1]
    <2>1. NextDisk(f) = g
      BY <1>1 DEF NextDisk
    <2>2. g.ctx = "delete" /\ g.snap = f.snap /\ g.i = f.i + 1 /\ g.pc = "stat"
      BY SMT DEF Frame
    <2> QED  BY <2>1, <2>2
  <1>2. CASE ~ (f.i < Len(f.list))
    <2> DEFINE g == [f EXCEPT !.pc = "fetch", !.i = f.i + 1]
    <2>1. NextDisk(f) = g
      BY <1>2 DEF NextDisk
    <2>2. g.ctx = "delete" /\ g.snap = f.snap /\ g.i = f.i + 1 /\ g.pc = "fetch"
      BY SMT DEF Frame
    <2> QED  BY <2>1, <2>2
  <1> QED  BY <1>1, <1>2

\* No directory of a known snapshot is made again.
LEMMA DirsGone ==
    ASSUME StoreInv, [Next]_vars, NEW s \in known, NEW p, <<s, p>> \in dirs'
    PROVE  <<s, p>> \in dirs
  <1> SUFFICES ASSUME ~ (dirs' \subseteq dirs) PROVE <<s, p>> \in dirs
    OBVIOUS
  <1>1. PICK r \in Requests : MakeDir(r)
    BY DEF Next, Accept, Advance, vars, store, Crash, CallFails, CreateSnapshot,
       Reflink, ReadExtents, SaveRecord, DiscardFile, StatDir, RemoveFile, ReadDir, RemoveDir,
       DeleteSnapshot, PurgeSnapshots, PurgeNext, FetchRecord, DeleteRecord, LookupFails
  <1>2. req[r].snap \notin known
    BY <1>1, AtCall DEF StoreInv, MakeDir, At, WellFormed, FrameInv, Building
  <1> QED  BY <1>1, <1>2 DEF MakeDir, DirOf

\* How a frame f that deletes becomes g.
Walks(f, g) ==
    /\ f.ctx = "delete" /\ g.snap = f.snap
    /\ \/ /\ g.i = f.i
          /\ Clearing(g) => f.pc = "readdir" \/ (f.pc = "remove" /\ FileOf(f) \in files)
       \/ /\ g.i = f.i + 1 /\ ~ Clearing(g)
          /\ Clearing(f) \/ (f.pc = "stat" /\ DirOf(f) \notin dirs)

Starts(g) == g.i = 1 /\ ~ Clearing(g)

LEMMA WalksOn ==
    ASSUME NEW f \in Frame, f.ctx = "delete"
    PROVE  /\ Clearing(f) \/ (f.pc = "stat" /\ DirOf(f) \notin dirs) => Walks(f, NextDisk(f))
           /\ Walks(f, [f EXCEPT !.pc = "remove"]) /\ Walks(f, [f EXCEPT !.pc = "dbdelete"])
           /\ f.pc = "remove" /\ FileOf(f) \in files => Walks(f, [f EXCEPT !.pc = "readdir"])
           /\ f.pc = "readdir" => Walks(f, [f EXCEPT !.pc = "rmdir"])
  <1>1. Clearing(f) \/ (f.pc = "stat" /\ DirOf(f) \notin dirs) => Walks(f, NextDisk(f))
    BY DeleteOn DEF Walks, Clearing
  <1>2. ASSUME NEW pc
        PROVE  LET g == [f EXCEPT !.pc = pc] IN g.pc = pc /\ g.i = f.i /\ g.snap = f.snap
    BY SMT DEF Frame
  <1>3. Walks(f, [f EXCEPT !.pc = "remove"]) /\ Walks(f, [f EXCEPT !.pc = "dbdelete"])
    BY <1>2 DEF Walks, Clearing
  <1>4. f.pc = "remove" /\ FileOf(f) \in files => Walks(f, [f EXCEPT !.pc = "readdir"])
    BY <1>2 DEF Walks
  <1>5. f.pc = "readdir" => Walks(f, [f EXCEPT !.pc = "rmdir"])
    BY <1>2 DEF Walks
  <1> QED  BY <1>1, <1>3, <1>4, <1>5

LEMMA AcceptStarts ==
    ASSUME StoreInv, NEW r \in Requests, NEW g, Become(r, g), req'[r] = g,
           Accept(r) \/ PurgeNext(r), g.ctx = "delete"
    PROVE  Starts(g)
  <1>0. req[r] \in Frame /\ TypeOK /\ known \subseteq SnapIDs /\ db \in [SnapIDs -> Record \cup {Nil}]
    BY AtCall DEF StoreInv, TypeOK
  <1>1. ASSUME NEW h, Become(r, h) PROVE g = h
    BY <1>1 DEF Become, StoreInv, TypeOK
  <1>2. ASSUME NEW h \in Frame, h.ctx = "none", NEW s \in SnapIDs, g = BeginDelete(h, s)
        PROVE  Starts(g)
    BY <1>0, <1>2, BeginDeleteOK DEF Starts, Clearing
  <1>3. CASE CreateSnapshot(r)
    <2>1. PICK v \in VMs, s \in SnapIDs \ minted : \E list \in DiskLists[v] :
            g = StartCreate(v, s, list) \/ g = Parked("badrequest", {})
      BY <1>1, <1>3 DEF CreateSnapshot, StartCreate
    <2>2. PICK list \in DiskLists[v] :
            g = StartCreate(v, s, list) \/ g = Parked("badrequest", {})
      BY <2>1
    <2>3. StartCreate(v, s, list).ctx = "create" /\ Parked("badrequest", {}).ctx = "none"
      BY DEF StartCreate, Parked
    <2> QED  BY <2>2, <2>3
  <1>4. CASE DeleteSnapshot(r)
    <2>1. PICK v \in VMs, s \in known : Become(r, BeginDelete([Parked("none", {s}) EXCEPT !.vm = v], s))
      BY <1>4 DEF DeleteSnapshot
    <2> QED  BY <1>0, <1>1, <1>2, <2>1, ToDelete
  <1>5. CASE PurgeSnapshots(r)
    <2>1. PICK v \in VMs : LET ids == {s \in SnapIDs : db[s] # Nil /\ db[s].vm = v}
                           IN  Become(r, NextSnapshot([Parked("none", ids) EXCEPT !.vm = v, !.queue = ids]))
      BY <1>5 DEF PurgeSnapshots
    <2> DEFINE ids == {s \in SnapIDs : db[s] # Nil /\ db[s].vm = v}
               h   == [Parked("none", ids) EXCEPT !.vm = v, !.queue = ids]
    <2>2. h \in Frame
      BY <1>0, ToDelete
    <2>3. g = NextSnapshot(h)
      BY <1>1, <2>1
    <2> HIDE DEF h
    <2> QED  BY <2>2, <2>3, NextSnapshotOK
  <1>6. CASE LookupFails(r)
    BY <1>1, <1>6 DEF LookupFails, Parked
  <1>7. CASE PurgeNext(r)
    <2>1. PICK s \in req[r].queue : Become(r, BeginDelete([req[r] EXCEPT !.queue = @ \ {s}], s))
      BY <1>7 DEF PurgeNext
    <2>2. s \in SnapIDs
      BY <1>0 DEF Frame
    <2> QED  BY <1>0, <1>1, <1>2, <1>7, <2>1, <2>2, ToDelete DEF PurgeNext
  <1> QED  BY <1>3, <1>4, <1>5, <1>6, <1>7 DEF Accept

\* No other step begins a delete, and a delete goes through its list in order.
LEMMA DeleteSteps ==
    ASSUME StoreInv, [Next]_vars, NEW r \in Requests, req'[r].ctx = "delete"
    PROVE  req'[r] = req[r] \/ Starts(req'[r]) \/ Walks(req[r], req'[r])
  <1> DEFINE f == req[r]
             g == req'[r]
  <1> SUFFICES ASSUME g # f PROVE Starts(g) \/ Walks(f, g)
    OBVIOUS
  <1>1. f \in Frame /\ WellFormed(f) /\ req \in [Requests -> Frame]
    BY AtCall DEF StoreInv, TypeOK
  <1>2. ASSUME NEW q \in Requests, Accept(q) \/ Advance(q) PROVE \E h : Become(q, h)
    <2>1. CASE Accept(q)
      BY <2>1 DEF Accept, CreateSnapshot, DeleteSnapshot, PurgeSnapshots, LookupFails
    <2>2. CASE Advance(q)
      BY <2>2 DEF Advance, MakeDir, Reflink, ReadExtents, SaveRecord, DiscardFile, StatDir,
         RemoveFile, ReadDir, RemoveDir, PurgeNext, FetchRecord, DeleteRecord
    <2> QED  BY <1>2, <2>1, <2>2
  <1>3. Accept(r) \/ Advance(r) \/ CallFails(r)
    <2>1. ~ Crash /\ ~ UNCHANGED vars
      BY DEF Crash, Parked, vars
    <2>2. ASSUME NEW q \in Requests, q # r PROVE ~ (Accept(q) \/ Advance(q) \/ CallFails(q))
      BY <1>1, <1>2, <2>2 DEF Become, CallFails
    <2> QED  BY <2>1, <2>2 DEF Next
  <1>4. ASSUME NEW h, Become(r, h) PROVE g = h
    BY <1>1, <1>4 DEF Become
  <1>5. CASE Accept(r) \/ PurgeNext(r)
    BY <1>2, <1>4, <1>5, AcceptStarts DEF Advance
  <1>6. CASE CallFails(r)
    <2>1. g = Failed(f) /\ f.pc # "idle"
      BY <1>1, <1>6 DEF CallFails, At
    <2>2. f.pc = "rmdir" /\ f.ctx = "delete"
      BY <1>1, <2>1, FailedOK DEF Building
    <2>3. g = NextDisk(f)
      BY <2>1, <2>2 DEF Failed
    <2> QED  BY <1>1, <2>2, <2>3, WalksOn DEF Clearing
  <1>7. CASE MakeDir(r) \/ Reflink(r) \/ ReadExtents(r) \/ SaveRecord(r) \/ DiscardFile(r)
    <2>1. f.ctx \in {"create", "discard"}
      BY <1>1, <1>7 DEF MakeDir, Reflink, ReadExtents, SaveRecord, DiscardFile, At, WellFormed
    <2> DEFINE pc == IF f.i = Len(f.list) THEN "save" ELSE "mkdir"
    <2>2. \/ g = [f EXCEPT !.pc = "reflink"] \/ g = [f EXCEPT !.pc = "extents"]
          \/ g = [f EXCEPT !.pc = "readdir"] \/ g = [f EXCEPT !.pc = "unlink", !.ctx = "discard"]
          \/ g = [f EXCEPT !.i = f.i + 1, !.pc = pc] \/ g = Answer(f, "ok")
      BY <1>4, <1>7 DEF MakeDir, Reflink, ReadExtents, SaveRecord, DiscardFile
    <2>3. [f EXCEPT !.i = f.i + 1, !.pc = pc].ctx # "delete"
      <3> HIDE DEF pc
      <3> QED  BY <1>1, <2>1, SMT DEF Frame
    <2>4. \A loc : [f EXCEPT !.pc = loc].ctx # "delete"
      BY <1>1, <2>1, SMT DEF Frame
    <2>5. [f EXCEPT !.pc = "unlink", !.ctx = "discard"].ctx # "delete"
      BY <1>1, SMT DEF Frame
    <2>6. Answer(f, "ok").ctx = "none"
      BY DEF Answer, Parked
    <2> HIDE DEF pc
    <2>7. g.ctx # "delete"
      <3>1. ASSUME NEW loc, g = [f EXCEPT !.pc = loc] PROVE g.ctx # "delete"
        BY <2>4, <3>1
      <3>2. CASE g = [f EXCEPT !.i = f.i + 1, !.pc = pc]
        BY <2>3, <3>2
      <3>3. CASE g = [f EXCEPT !.pc = "unlink", !.ctx = "discard"]
        BY <2>5, <3>3
      <3>4. CASE g = Answer(f, "ok")
        BY <2>6, <3>4
      <3> QED  BY <2>2, <3>1, <3>2, <3>3, <3>4
    <2> QED  BY <2>7
  <1>8. CASE StatDir(r) \/ RemoveFile(r) \/ ReadDir(r) \/ RemoveDir(r)
    <2>1. f.pc \in {"stat", "remove", "readdir", "rmdir"} /\ f.pc \in OnDisk /\ f.ctx # "create"
      BY <1>8, AtWalk DEF StoreInv, StatDir, RemoveFile, ReadDir, RemoveDir, At
    <2>2. DiskFailed(f).ctx # "delete"
      BY <1>1, <2>1, DiskFailedOK
    <2>3. f.ctx # "delete" => NextDisk(f).ctx # "delete"
      BY <1>1, <2>1, NextDiskOK
    <2>4. ASSUME NEW pc PROVE [f EXCEPT !.pc = pc].ctx = f.ctx
      BY <1>1, SMT DEF Frame
    <2>5. CASE StatDir(r)
      <3>1. \/ g = [f EXCEPT !.pc = "remove"]
            \/ g = NextDisk(f) /\ f.pc = "stat" /\ DirOf(f) \notin dirs
        BY <1>4, <2>5 DEF StatDir, At
      <3> QED  BY <1>1, <2>3, <2>4, <3>1, WalksOn
    <2>6. CASE RemoveFile(r)
      <3>1. \/ g = [f EXCEPT !.pc = "readdir"] /\ f.pc = "remove" /\ FileOf(f) \in files
            \/ g = DiskFailed(f)
        BY <1>4, <2>6 DEF RemoveFile, At
      <3>2. CASE g = [f EXCEPT !.pc = "readdir"]
        BY <1>1, <2>4, <3>1, <3>2, <2>2, WalksOn
      <3> QED  BY <2>2, <3>1, <3>2
    <2>7. CASE ReadDir(r)
      <3>1. f.pc = "readdir" /\ (g = [f EXCEPT !.pc = "rmdir"] \/ g = DiskFailed(f) \/ g = NextDisk(f))
        BY <1>4, <2>7 DEF ReadDir, At
      <3>2. CASE g = [f EXCEPT !.pc = "rmdir"]
        BY <1>1, <2>4, <3>1, <3>2, WalksOn
      <3>3. CASE g = NextDisk(f)
        BY <1>1, <2>3, <3>1, <3>3, WalksOn DEF Clearing
      <3> QED  BY <2>2, <3>1, <3>2, <3>3
    <2>8. CASE RemoveDir(r)
      <3>1. f.pc = "rmdir" /\ g = NextDisk(f)
        BY <1>4, <2>8 DEF RemoveDir, At
      <3> QED  BY <1>1, <2>3, <3>1, WalksOn DEF Clearing
    <2> QED  BY <1>8, <2>5, <2>6, <2>7, <2>8
  <1>9. CASE FetchRecord(r) \/ DeleteRecord(r)
    <2>1. g = NextSnapshot(f) \/ g = [f EXCEPT !.pc = "dbdelete"] \/ g = Answer(f, "error")
      BY <1>4, <1>9 DEF FetchRecord, DeleteRecord
    <2>2. f.ctx = "delete"
      BY <1>1, <1>9 DEF FetchRecord, DeleteRecord, At, WellFormed
    <2>3. NextSnapshot(f).ctx = "none" /\ Answer(f, "error").ctx = "none"
      BY <1>1, NextSnapshotOK DEF Answer, Parked
    <2> QED  BY <1>1, <2>1, <2>2, <2>3, WalksOn
  <1> QED  BY <1>3, <1>5, <1>6, <1>7, <1>8, <1>9 DEF Advance

LEMMA InTurnStep ==
    ASSUME StoreInv, StoreInv', InTurn, [Next]_vars
    PROVE  InTurn'
  <1> SUFFICES ASSUME NEW s \in SnapIDs, db'[s] # Nil, NEW r \in Requests, NEW q \in Requests,
                      r # q, Deletes(req'[r], s), Deletes(req'[q], s)
               PROVE  Trails(req[r], req[q])'
    BY DEF InTurn, Deletes
  <1> DEFINE list == db[s].disks
             f == req[r]
             g == req'[r]
             h == req[q]
             k == req'[q]
  <1>1. g = f \/ k = h
    <2>1. CASE Crash
      BY <2>1 DEF Crash, Parked, Deletes
    <2>2. ASSUME NEW a \in Requests, Accept(a) \/ Advance(a) PROVE \E x : Become(a, x)
      <3>1. CASE Accept(a)
        BY <3>1 DEF Accept, CreateSnapshot, DeleteSnapshot, PurgeSnapshots, LookupFails
      <3>2. CASE Advance(a)
        BY <3>2 DEF Advance, MakeDir, Reflink, ReadExtents, SaveRecord, DiscardFile, StatDir,
           RemoveFile, ReadDir, RemoveDir, PurgeNext, FetchRecord, DeleteRecord
      <3> QED  BY <2>2, <3>1, <3>2
    <2>3. ASSUME NEW a \in Requests, Accept(a) \/ Advance(a) \/ CallFails(a)
          PROVE  \A b \in Requests : b # a => req'[b] = req[b]
      BY <2>2, <2>3 DEF Become, CallFails, StoreInv, TypeOK
    <2> QED  BY <2>1, <2>3 DEF Next, vars
  <1>2. s \in known
    BY <1>1 DEF StoreInv, FrameInv, DeleteInv, Deletes
  <1>3. db'[s] = db[s] /\ db[s] # Nil
    BY <1>2, RecordFinal
  <1>4. g.list = list /\ k.list = list
    BY <1>3 DEF StoreInv, FrameInv, DeleteInv, Deletes
  <1>5. g = f \/ Starts(g) \/ Walks(f, g)
    BY DeleteSteps DEF Deletes
  <1>6. k = h \/ Starts(k) \/ Walks(h, k)
    BY DeleteSteps DEF Deletes
  <1>7. ASSUME NEW p, <<s, p>> \notin dirs PROVE <<s, p>> \notin dirs'
    BY <1>2, <1>7, DirsGone
  <1>8. ASSUME Deletes(f, s)
        PROVE  /\ f.i \in Nat /\ f.list = list /\ f.snap = s /\ list \in Seq(Disks)
               /\ \A j \in DOMAIN list : Past(f, j) => <<s, list[j]>> \notin files
               /\ f.pc \in OnDisk =>
                    /\ f.i \in DOMAIN list
                    /\ FileOf(f) = <<s, list[f.i]>> /\ DirOf(f) = <<s, RepoOf[list[f.i]]>>
    BY <1>3, <1>8, Deleter
  <1>9. ASSUME Deletes(h, s)
        PROVE  /\ h.i \in Nat /\ h.list = list /\ h.snap = s
               /\ \A j \in DOMAIN list : Past(h, j) => <<s, list[j]>> \notin files
               /\ h.pc \in OnDisk =>
                    /\ h.i \in DOMAIN list
                    /\ FileOf(h) = <<s, list[h.i]>> /\ DirOf(h) = <<s, RepoOf[list[h.i]]>>
    BY <1>3, <1>9, Deleter
  <1>10. Deletes(f, s) /\ Deletes(h, s) => Trails(f, h)
    BY <1>3 DEF InTurn
  <1>11. ASSUME Clearing(g)
         PROVE  (k.i > g.i => <<s, RepoOf[list[g.i]]>> \notin dirs') /\ (k.i = g.i => ~ Clearing(k))
    <2>1. CASE g = f
      <3>1. Deletes(f, s) /\ f.pc \in OnDisk /\ f.i \in DOMAIN list /\ f.i \in Nat /\ f.i > 0
        BY <1>8, <1>11, <2>1, SMT DEF Clearing, OnDisk
      <3>2. <<s, list[f.i]>> \notin files /\ DirOf(f) = <<s, RepoOf[list[f.i]]>>
        BY <1>8, <1>11, <2>1, <3>1 DEF Past
      <3>3. CASE k = h
        BY <1>7, <1>10, <1>11, <2>1, <3>1, <3>2, <3>3 DEF Trails
      <3>4. CASE Starts(k)
        BY <2>1, <3>1, <3>4 DEF Starts
      <3>5. CASE Walks(h, k)
        <4>1. Deletes(h, s)
          BY <3>5 DEF Walks, Deletes
        <4>2. Trails(f, h)
          BY <1>10, <3>1, <4>1
        <4>3. h.i = f.i /\ h.pc = "remove" => FileOf(h) \notin files
          BY <1>9, <3>2, <4>1 DEF OnDisk
        <4>4. h.i = f.i /\ h.pc = "stat" => DirOf(h) = <<s, RepoOf[list[f.i]]>>
          BY <1>9, <4>1 DEF OnDisk
        <4>5. h.i \in Nat
          BY <1>9, <4>1
        <4>6. CASE k.i = h.i /\ (Clearing(k) => h.pc = "readdir" \/ (h.pc = "remove" /\ FileOf(h) \in files))
          BY <1>7, <1>11, <2>1, <3>2, <4>2, <4>3, <4>6 DEF Trails, Clearing
        <4>7. CASE /\ k.i = h.i + 1 /\ ~ Clearing(k)
                   /\ Clearing(h) \/ (h.pc = "stat" /\ DirOf(h) \notin dirs)
          <5>1. k.i > f.i => h.i > f.i \/ h.i = f.i
            BY <3>1, <4>5, <4>7, SMT
          <5> QED  BY <1>7, <1>11, <2>1, <3>2, <4>2, <4>4, <4>7, <5>1 DEF Trails
        <4> QED  BY <3>5, <4>6, <4>7 DEF Walks
      <3> QED  BY <1>6, <3>3, <3>4, <3>5
    <2>2. CASE g # f
      <3>1. k = h /\ Walks(f, g) /\ Deletes(f, s) /\ Deletes(h, s) /\ g.i = f.i
        BY <1>1, <1>5, <1>11, <2>2 DEF Starts, Walks, Deletes
      <3>2. CASE f.pc = "readdir"
        <4>1. DirOf(f) = <<s, RepoOf[list[f.i]]>> /\ Clearing(f)
          BY <1>8, <3>1, <3>2 DEF OnDisk, Clearing
        <4> QED  BY <1>7, <1>10, <3>1, <4>1 DEF Trails
      <3>3. CASE f.pc = "remove" /\ FileOf(f) \in files
        <4>1. f.i \in DOMAIN list /\ <<s, list[f.i]>> \in files
          BY <1>8, <3>1, <3>3 DEF OnDisk
        <4>2. ~ Past(h, f.i)
          BY <1>9, <3>1, <4>1
        <4> QED  BY <3>1, <4>2 DEF Past
      <3> QED  BY <1>5, <1>11, <2>2, <3>1, <3>2, <3>3 DEF Walks
    <2> QED  BY <2>1, <2>2
  <1>12. DirOf(g) = <<s, RepoOf[list[g.i]]>>
    BY <1>4 DEF DirOf, Deletes
  <1> QED  BY <1>11, <1>12 DEF Trails, Clearing, DirOf

\* A leader that does not move leads on, unless its directory goes away.
LEMMA LeadsOn ==
    ASSUME NEW s \in SnapIDs, NEW q \in Requests, Leads(req[q], s), req'[q] = req[q],
           db'[s] = db[s], \A d : <<s, d>> \in files => <<s, d>> \in files',
           req[q].pc = "readdir" => DirOf(req[q]) \in dirs'
    PROVE  Leads(req[q], s)'
  <1>1. \A j \in DOMAIN db[s].disks : <<s, db[s].disks[j]>> \notin files' => Past(req[q], j)
    BY DEF Leads, Missing
  <1> QED  BY <1>1 DEF Leads, Deletes, Missing, Past, Clearing, DirOf

\* A request that does not delete a recorded snapshot leaves it alone.
LEMMA OthersKeep ==
    ASSUME StoreInv, NEW s \in known, NEW a \in Requests, Accept(a) \/ Advance(a),
           ~ Deletes(req[a], s)
    PROVE  /\ \A d : <<s, d>> \in files => <<s, d>> \in files'
           /\ \A p : <<s, p>> \in dirs => <<s, p>> \in dirs'
  <1>1. CASE DiscardFile(a) \/ RemoveFile(a) \/ RemoveDir(a)
    <2>1. WellFormed(req[a]) /\ FrameInv(req[a]) /\ req[a].pc \in {"unlink", "remove", "rmdir"}
      BY <1>1, AtCall DEF StoreInv, DiscardFile, RemoveFile, RemoveDir, At
    <2>2. req[a].ctx # "none"
      BY <2>1 DEF WellFormed
    <2>3. req[a].snap # s
      BY <2>1, <2>2, ContextOf DEF StoreInv, FrameInv, Deletes
    <2> QED  BY <1>1, <2>3 DEF DiscardFile, RemoveFile, RemoveDir, FileOf, DirOf, FilesIn
  <1>2. CASE ~ (DiscardFile(a) \/ RemoveFile(a) \/ RemoveDir(a))
    <2>1. files \subseteq files' /\ dirs \subseteq dirs'
      BY <1>2 DEF Accept, Advance, store, CreateSnapshot, MakeDir, Reflink, ReadExtents,
         SaveRecord, StatDir, ReadDir, DeleteSnapshot, PurgeSnapshots, PurgeNext, FetchRecord,
         DeleteRecord, LookupFails
    <2> QED  BY <2>1
  <1> QED  BY <1>1, <1>2

\* What a step of a delete does.
LEMMA DeleteActs ==
    ASSUME StoreInv, NEW s \in SnapIDs, db[s] # Nil, db'[s] # Nil,
           NEW a \in Requests, Deletes(req[a], s), Accept(a) \/ Advance(a)
    PROVE  \/ StatDir(a) \/ RemoveFile(a) \/ ReadDir(a) \/ RemoveDir(a)
           \/ FetchRecord(a)
  <1>1. req[a] \in Frame /\ WellFormed(req[a]) /\ req[a].ctx = "delete" /\ req[a].snap = s
    BY Deleter
  <1>2. ~ Accept(a) /\ ~ PurgeNext(a)
    BY <1>1 DEF WellFormed, Accept, CreateSnapshot, DeleteSnapshot, PurgeSnapshots, LookupFails,
       PurgeNext, At
  <1>3. ~ (MakeDir(a) \/ Reflink(a) \/ ReadExtents(a) \/ SaveRecord(a) \/ DiscardFile(a))
    BY <1>1 DEF WellFormed, MakeDir, Reflink, ReadExtents, SaveRecord, DiscardFile, At
  <1>4. ~ DeleteRecord(a)
    BY <1>1 DEF DeleteRecord, StoreInv, TypeOK
  <1> QED  BY <1>2, <1>3, <1>4 DEF Advance

\* The delete that removes a file leads from then on.
LEMMA RemoverLeads ==
    ASSUME LedInv, faults = 0, crashes = 0, NEW s \in SnapIDs, db[s] # Nil,
           NEW a \in Requests, Deletes(req[a], s), RemoveFile(a), FileOf(req[a]) \in files
    PROVE  Leads(req[a], s)'
  <1> DEFINE f    == req[a]
             list == db[s].disks
             g    == [f EXCEPT !.pc = "readdir"]
  <1>1. /\ f \in Frame /\ WellFormed(f) /\ f.list = list /\ list \in Seq(Disks)
        /\ f.i \in Nat /\ f.snap = s /\ f.ctx = "delete"
        /\ f.pc = "remove" /\ f.i \in DOMAIN list /\ list[f.i] \in Disks
        /\ FileOf(f) = <<s, list[f.i]>> /\ DirOf(f) = <<s, RepoOf[list[f.i]]>>
    BY Deleter DEF LedInv, RemoveFile, At, OnDisk
  <1>2. req'[a] = g /\ files' = files \ {FileOf(f)} /\ dirs' = dirs /\ db' = db
    BY DEF RemoveFile, Become, LedInv, StoreInv, TypeOK
  <1>3. g.pc = "readdir" /\ g.ctx = f.ctx /\ g.snap = f.snap /\ g.list = f.list /\ g.i = f.i
    BY <1>1, Goto DEF Locations
  <1> HIDE DEF g
  <1>4. DirOf(g) \in dirs'
    BY <1>1, <1>2, <1>3 DEF LedInv, StoreInv, FilesHoused, FileOf, DirOf
  <1>5. ASSUME NEW j \in Missing(s) PROVE j < f.i
    <2>1. PICK q \in Requests : Leads(req[q], s)
      BY <1>5 DEF LedInv, Led
    <2>2. Past(req[q], j) /\ req[q].i \in Nat /\ j \in DOMAIN list
      BY <1>5, <2>1, Deleter DEF Leads, LedInv, Missing
    <2>3. ~ Past(req[q], f.i)
      <3>1. Deletes(req[q], s) /\ StoreInv
        BY <2>1 DEF Leads, LedInv
      <3>2. \A k \in DOMAIN list : Past(req[q], k) => <<s, list[k]>> \notin files
        BY <3>1, Deleter
      <3>3. <<s, list[f.i]>> \in files
        BY <1>1
      <3> QED  BY <1>1, <3>2, <3>3
    <2>4. j \in Nat
      BY <1>1, <2>2
    <2> QED  BY <1>1, <2>2, <2>3, <2>4, SMT DEF Past
  <1>6. ASSUME NEW j \in DOMAIN list, <<s, list[j]>> \notin files' PROVE Past(g, j)
    <2>1. CASE j \in Missing(s)
      BY <1>3, <1>5, <2>1 DEF Past
    <2>2. CASE j \notin Missing(s)
      <3>1. list[j] = list[f.i]
        BY <1>1, <1>2, <1>6, <2>2 DEF Missing
      <3>2. j \in Nat
        BY <1>1
      <3>3. ~ (j < f.i) /\ ~ (f.i < j)
        BY <1>1, <1>6, <3>1 DEF LedInv, StoreInv, Catalogued
      <3>4. j = f.i
        BY <1>1, <3>2, <3>3, SMT
      <3> QED  BY <1>3, <3>4 DEF Past, Clearing
    <2> QED  BY <2>1, <2>2
  <1> QED  BY <1>1, <1>2, <1>3, <1>4, <1>6 DEF Leads, Deletes, Missing, Past, Clearing, DirOf

\* The steps of a leader other than the removal of a file: it does not fail.
LEMMA LeaderGoesOn ==
    ASSUME StoreInv, NEW s \in SnapIDs, db[s] # Nil, db'[s] = db[s],
           NEW a \in Requests, Leads(req[a], s), UNCHANGED files,
           StatDir(a) \/ RemoveFile(a) \/ ReadDir(a) \/ RemoveDir(a) \/ FetchRecord(a)
    PROVE  Leads(req[a], s)'
  <1> DEFINE f    == req[a]
             list == db[s].disks
  <1>1. /\ f \in Frame /\ WellFormed(f) /\ f.list = list /\ list \in Seq(Disks)
        /\ f.i \in Nat /\ f.snap = s /\ f.ctx = "delete"
        /\ f.pc \in OnDisk =>
             /\ f.i \in DOMAIN list /\ list[f.i] \in Disks
             /\ FileOf(f) = <<s, list[f.i]>> /\ DirOf(f) = <<s, RepoOf[list[f.i]]>>
    BY Deleter DEF Leads
  <1>2. \A j \in DOMAIN list : <<s, list[j]>> \notin files => Past(f, j)
    BY DEF Leads, Missing
  <1>3. ASSUME NEW h, Become(a, h) PROVE req'[a] = h
    BY <1>3 DEF Become, StoreInv, TypeOK
  <1>4. ASSUME NEW g, req'[a] = g, g.ctx = "delete", g.snap = s, g.pc # "readdir",
               \A j \in DOMAIN list : Past(f, j) => Past(g, j)
        PROVE  Leads(req[a], s)'
    BY <1>2, <1>4 DEF Leads, Deletes, Missing, Past, Clearing, DirOf
  <1>5. ASSUME NEW pc \in {"remove", "rmdir", "dbdelete"}, req'[a] = [f EXCEPT !.pc = pc],
               pc = "rmdir" \/ ~ Clearing(f)
        PROVE  Leads(req[a], s)'
    <2> DEFINE g == [f EXCEPT !.pc = pc]
    <2>1. g.pc = pc /\ g.ctx = f.ctx /\ g.snap = f.snap /\ g.i = f.i
      BY <1>1, Goto DEF Locations
    <2>2. req'[a] = g
      BY <1>5
    <2> HIDE DEF g
    <2> QED  BY <1>1, <1>4, <1>5, <2>1, <2>2 DEF Past, Clearing
  <1>6. ASSUME req'[a] = NextDisk(f) PROVE Leads(req[a], s)'
    <2> DEFINE g == NextDisk(f)
    <2>1. g.ctx = "delete" /\ g.snap = s /\ g.i = f.i + 1 /\ g.pc \in {"stat", "fetch"}
      BY <1>1, DeleteOn
    <2>2. req'[a] = g
      BY <1>6
    <2> HIDE DEF g
    <2>3. ASSUME NEW j \in DOMAIN list, Past(f, j) PROVE Past(g, j)
      <3>1. j \in Nat
        BY <1>1
      <3> QED  BY <1>1, <2>1, <2>3, <3>1, SMT DEF Past
    <2> QED  BY <1>4, <2>1, <2>2, <2>3
  <1>7. f.pc \in {"stat", "remove"} => FileOf(f) \in files
    <2>1. f.pc \in {"stat", "remove"} =>
            f.i \in DOMAIN list /\ FileOf(f) = <<s, list[f.i]>> /\ ~ Past(f, f.i)
      BY <1>1 DEF Past, Clearing, OnDisk
    <2> QED  BY <1>2, <2>1
  <1>8. CASE StatDir(a)
    <2>1. DirOf(f) \in dirs
      BY <1>7, <1>8 DEF StatDir, At, StoreInv, FilesHoused, FileOf, DirOf
    <2> QED  BY <1>3, <1>5, <1>8, <2>1 DEF StatDir, At, Clearing
  <1>9. CASE RemoveFile(a)
    BY <1>7, <1>9 DEF RemoveFile, At
  <1>10. CASE ReadDir(a)
    <2>1. DirOf(f) \in dirs
      BY <1>10 DEF ReadDir, At, Leads
    <2>2. req'[a] = [f EXCEPT !.pc = "rmdir"] \/ req'[a] = NextDisk(f)
      BY <1>3, <1>10, <2>1 DEF ReadDir
    <2> QED  BY <1>5, <1>6, <2>2
  <1>11. CASE RemoveDir(a)
    BY <1>3, <1>6, <1>11 DEF RemoveDir
  <1>12. CASE FetchRecord(a)
    BY <1>1, <1>3, <1>5, <1>12 DEF FetchRecord, At, Clearing
  <1> QED  BY <1>8, <1>9, <1>10, <1>11, <1>12

LEMMA LedStep ==
    ASSUME LedInv, [Next]_vars
    PROVE  Led'
  <1> SUFFICES ASSUME faults' = 0, crashes' = 0, NEW s \in SnapIDs, db'[s] # Nil, Missing(s)' # {}
               PROVE  \E r \in Requests : Leads(req[r], s)'
    BY DEF Led
  <1>0. StoreInv /\ InTurn
    BY DEF LedInv
  <1>1. CASE UNCHANGED vars
    BY <1>1 DEF vars, LedInv, Led, Missing, Leads, Deletes, Past, Clearing, DirOf
  <1>2. CASE ~ UNCHANGED vars
    <2>1. faults \in Nat /\ crashes \in Nat
      BY <1>0, StoreAssumption DEF StoreInv, TypeOK
    <2>2. PICK a \in Requests : Accept(a) \/ Advance(a)
      BY <1>2, <2>1, SMT DEF Next, Crash, CallFails
    <2>3. \E h : Become(a, h)
      <3>1. CASE Accept(a)
        BY <3>1 DEF Accept, CreateSnapshot, DeleteSnapshot, PurgeSnapshots, LookupFails
      <3>2. CASE Advance(a)
        BY <3>2 DEF Advance, MakeDir, Reflink, ReadExtents, SaveRecord, DiscardFile, StatDir,
           RemoveFile, ReadDir, RemoveDir, PurgeNext, FetchRecord, DeleteRecord
      <3> QED  BY <2>2, <3>1, <3>2
    <2>4. faults = 0 /\ crashes = 0 /\ \A q \in Requests : q # a => req'[q] = req[q]
      BY <1>0, <2>3 DEF Become, StoreInv, TypeOK
    <2>5. db[s] # Nil
      <3>1. [BornComplete]_vars
        BY <1>0, BornCompleteStep
      <3> QED  BY <1>2, <3>1 DEF BornComplete, Missing
    <2>6. s \in known /\ db'[s] = db[s]
      <3>1. s \in known
        BY <1>0, <2>5 DEF StoreInv, Catalogued
      <3> QED  BY <1>0, <3>1, RecordFinal
    <2>7. CASE ~ Deletes(req[a], s)
      <3>1. /\ \A d : <<s, d>> \in files => <<s, d>> \in files'
            /\ \A p : <<s, p>> \in dirs => <<s, p>> \in dirs'
        BY <1>0, <2>2, <2>6, <2>7, OthersKeep
      <3>2. Missing(s) # {}
        BY <2>6, <3>1 DEF Missing
      <3>3. PICK q \in Requests : Leads(req[q], s)
        BY <2>4, <2>5, <3>2 DEF LedInv, Led
      <3>4. req'[q] = req[q]
        BY <2>4, <2>7, <3>3 DEF Leads
      <3>5. req[q].pc = "readdir" => DirOf(req[q]) \in dirs'
        BY <3>1, <3>3 DEF Leads, Deletes, DirOf
      <3> QED  BY <2>6, <3>1, <3>3, <3>4, <3>5, LeadsOn
    <2>8. CASE Deletes(req[a], s) /\ RemoveFile(a) /\ FileOf(req[a]) \in files
      BY <2>4, <2>5, <2>8, RemoverLeads
    <2>9. CASE Deletes(req[a], s) /\ ~ (RemoveFile(a) /\ FileOf(req[a]) \in files)
      <3>1. StatDir(a) \/ RemoveFile(a) \/ ReadDir(a) \/ RemoveDir(a) \/ FetchRecord(a)
        BY <1>0, <2>2, <2>5, <2>9, DeleteActs
      <3>2. files' = files
        <4>1. CASE RemoveDir(a)
          <5>1. FilesIn(DirOf(req[a])) = {}
            BY <1>0, <4>1, EmptyAtRemove DEF RemoveDir
          <5> QED  BY <4>1, <5>1 DEF RemoveDir
        <4>2. CASE RemoveFile(a)
          BY <2>9, <4>2 DEF RemoveFile
        <4>3. CASE StatDir(a) \/ ReadDir(a) \/ FetchRecord(a)
          BY <4>3 DEF StatDir, ReadDir, FetchRecord, store
        <4> QED  BY <3>1, <4>1, <4>2, <4>3
      <3>3. PICK q \in Requests : Leads(req[q], s)
        BY <2>4, <2>5, <2>6, <3>2 DEF LedInv, Led, Missing
      <3>4. CASE q = a
        BY <1>0, <2>5, <2>6, <3>1, <3>2, <3>3, <3>4, LeaderGoesOn
      <3>5. CASE q # a
        <4>1. ASSUME req[q].pc = "readdir" PROVE DirOf(req[q]) \in dirs'
          <5>1. DirOf(req[q]) \in dirs /\ Deletes(req[q], s)
            BY <3>3, <4>1 DEF Leads
          <5>2. CASE ~ RemoveDir(a)
            BY <3>1, <5>1, <5>2 DEF StatDir, RemoveFile, ReadDir, FetchRecord, store
          <5>3. CASE RemoveDir(a)
            <6>1. Trails(req[a], req[q]) /\ Trails(req[q], req[a]) /\ Clearing(req[a]) /\ Clearing(req[q])
              BY <1>0, <2>5, <2>9, <3>5, <4>1, <5>1, <5>3 DEF InTurn, Clearing, RemoveDir, At
            <6>2. req[a].i \in Nat /\ req[q].i \in Nat
              BY <1>0, <2>5, <2>9, <5>1, Deleter
            <6>3. req[q].i > req[a].i \/ req[a].i > req[q].i \/ req[q].i = req[a].i
              BY <6>2, SMT
            <6>4. DirOf(req[a]) \notin dirs
              BY <5>1, <6>1, <6>3 DEF Trails
            <6> QED  BY <5>1, <5>3, <6>4 DEF RemoveDir
          <5> QED  BY <5>2, <5>3
        <4>2. req'[q] = req[q]
          BY <2>4, <3>5
        <4> QED  BY <2>6, <3>2, <3>3, <4>1, <4>2, LeadsOn
      <3> QED  BY <3>4, <3>5
    <2> QED  BY <2>7, <2>8, <2>9
  <1> QED  BY <1>1, <1>2

\* Concurrent deletes (manager.go:335-357) do not all fail half-way: of those
\* that work on one snapshot, the one that leads ends by deleting the record.
THEOREM DeletesAllOrNothing == Spec => []AllOrNothing
  <1>1. Init => LedInv
    <2> SUFFICES ASSUME Init PROVE LedInv
      OBVIOUS
    <2>1. \A s \in SnapIDs : db[s] = Nil
      BY DEF Init
    <2> QED  BY <2>1, StoreInvInit DEF LedInv, InTurn, Led
  <1>2. LedInv /\ [Next]_vars => LedInv'
    BY StoreInvStep, InTurnStep, LedStep DEF LedInv
  <1>3. LedInv => AllOrNothing
    BY DEF LedInv, Led, AllOrNothing, Leads, Deletes, Missing
  <1> QED  BY <1>1, <1>2, <1>3, PTL DEF Spec

-----------------------------------------------------------------------------
(***************************************************************************)
(* NoOrphanFile.  While a snapshot is built, its request has every file of *)
(* it in mind: the files made so far, or those its clean-up still has to   *)
(* come to.  A clean-up is begun by a failing call, or by the second       *)
(* reflink of an image, and only one more failing call makes it pass a     *)
(* file that is there.                                                     *)
(***************************************************************************)
CleaningOf(f) == f.ctx \in {"discard", "rollback", "undo"}

\* The clean-up f still has to come to disk j of its list.
ToClean(f, j) ==
    \/ f.ctx = "discard" /\ (j < f.i \/ (j = f.i /\ f.pc = "unlink"))
    \/ f.ctx \in {"rollback", "undo"} /\ (f.i < j \/ (j = f.i /\ ~ Clearing(f)))

Minds(f, d) ==
    f.ctx = "create" \/ \E j \in DOMAIN f.list : f.list[j] = d /\ ToClean(f, j)

\* An undo has all the files it still has to come to, so that it does not give
\* up; a clean-up without a failing call is of a list that repeats an image.
CleanInv(f) ==
    /\ CleaningOf(f) /\ faults = 0 => \A j \in DOMAIN f.list : f.list[j] \in Repeated
    /\ f.ctx = "undo" =>
         /\ \A j \in DOMAIN f.list : ToClean(f, j) => <<f.snap, f.list[j]>> \in files
         /\ \A j, k \in DOMAIN f.list : j < k => f.list[j] # f.list[k]
         /\ f.pc = "readdir" => DirOf(f) \in dirs

Bearable(d) == faults <= IF d \in Repeated THEN 0 ELSE 1

Minded ==
    crashes = 0 => \A s \in SnapIDs \ known, d \in Disks : <<s, d>> \in files /\ Bearable(d) =>
        \E r \in Requests : Building(req[r]) /\ req[r].snap = s /\ Minds(req[r], d)

OrphanInv == StoreInv /\ (\A r \in Requests : CleanInv(req[r])) /\ Minded

\* A roll-back still has to come to all the disks before the one that failed.
LEMMA RollbackMinds ==
    ASSUME NEW f \in Frame, f.snap \in SnapIDs, f.i \in DOMAIN f.list
    PROVE  LET g == Rollback(f) IN
             /\ CleaningOf(g) => /\ g.ctx = "rollback" /\ g.snap = f.snap
                                 /\ \A k \in DOMAIN g.list : \E j \in DOMAIN f.list : f.list[j] = g.list[k]
             /\ \A j \in DOMAIN f.list : j < f.i => CleaningOf(g) /\ Minds(g, f.list[j])
  <1>0. f.list \in Seq(Disks) /\ f.i \in 1 .. Len(f.list) /\ DOMAIN f.list = 1 .. Len(f.list)
    BY DEF Frame
  <1>1. CASE f.i = 1
    <2>1. Rollback(f).ctx = "none"
      BY <1>1 DEF Rollback, Answer, Parked
    <2>2. \A j \in DOMAIN f.list : ~ (j < f.i)
      BY <1>0, <1>1, SMT
    <2> QED  BY <2>1, <2>2 DEF CleaningOf
  <1>2. CASE f.i # 1
    <2> DEFINE list == SubSeq(f.list, 1, f.i - 1)
               g    == Rollback(f)
    <2>1. list \in Seq(Disks) /\ list # << >>
      BY <1>2, PrefixOK DEF Frame
    <2>2. g = Walk(f, "rollback", list)
      BY <1>2 DEF Rollback
    <2>3. DOMAIN list = 1 .. f.i - 1 /\ \A k \in 1 .. f.i - 1 : list[k] = f.list[k]
      BY <1>0, SMT
    <2> HIDE DEF list, g
    <2>4. g.pc = "stat" /\ g.ctx = "rollback" /\ g.snap = f.snap /\ g.i = 1 /\ g.list = list
      BY <2>1, <2>2, WalkOK
    <2>5. \A k \in DOMAIN list : k \in DOMAIN f.list /\ list[k] = f.list[k]
      BY <1>0, <2>3, SMT
    <2>6. ASSUME NEW j \in DOMAIN f.list, j < f.i PROVE Minds(g, f.list[j])
      <3>1. j \in 1 .. f.i - 1 /\ (1 < j \/ j = 1)
        BY <1>0, <2>6, SMT
      <3>2. j \in DOMAIN g.list /\ g.list[j] = f.list[j]
        BY <2>3, <2>4, <3>1
      <3>3. ToClean(g, j)
        BY <2>4, <3>1 DEF ToClean, Clearing
      <3> QED  BY <3>2, <3>3 DEF Minds
    <2> QED  BY <2>4, <2>5, <2>6 DEF g, CleaningOf
  <1> QED  BY <1>1, <1>2

\* A clean-up that is done with disk f.i has the same disks left as before.
LEMMA NextDiskMinds ==
    ASSUME NEW f \in Frame, WellFormed(f), f.pc \in OnDisk, CleaningOf(f)
    PROVE  LET g == NextDisk(f) IN
             /\ CleaningOf(g) => g.snap = f.snap /\ \A k \in DOMAIN g.list : \E j \in DOMAIN f.list : f.list[j] = g.list[k]
             /\ \A j \in DOMAIN f.list : ToClean(f, j) /\ j # f.i => CleaningOf(g) /\ Minds(g, f.list[j])
             /\ g.ctx = "undo" => /\ f.ctx = "undo" /\ g.list = f.list /\ g.pc = "stat"
                                  /\ \A j \in DOMAIN f.list : ToClean(g, j) => f.i < j /\ ToClean(f, j)
  <1> DEFINE g == NextDisk(f)
  <1>0. /\ f.snap \in SnapIDs /\ f.i \in DOMAIN f.list /\ f.list \in Seq(Disks)
        /\ f.i \in 1 .. Len(f.list) /\ DOMAIN f.list = 1 .. Len(f.list)
    BY DEF WellFormed, OnDisk, Frame
  <1>1. CASE f.ctx = "discard"
    <2>1. g = Rollback(f)
      BY <1>1 DEF NextDisk
    <2>2. \A j \in DOMAIN f.list : ToClean(f, j) /\ j # f.i => j < f.i
      BY <1>1 DEF ToClean
    <2>3. g.ctx # "undo"
      BY <1>0, <2>1, RollbackMinds DEF CleaningOf
    <2> QED  BY <1>0, <2>1, <2>2, <2>3, RollbackMinds
  <1>2. CASE f.ctx # "discard" /\ f.i < Len(f.list)
    <2>1. g = [f EXCEPT !.pc = "stat", !.i = f.i + 1]
      BY <1>0, <1>2 DEF NextDisk
    <2>2. g.pc = "stat" /\ g.ctx = f.ctx /\ g.snap = f.snap /\ g.list = f.list /\ g.i = f.i + 1
      BY <2>1, SMT DEF Frame
    <2> HIDE DEF g
    <2>3. f.ctx \in {"rollback", "undo"}
      BY <1>2 DEF CleaningOf
    <2>4. ASSUME NEW j \in DOMAIN f.list PROVE ToClean(g, j) <=> f.i < j
      <3>1. f.i < j <=> g.i < j \/ j = g.i
        BY <1>0, <2>2, SMT
      <3> QED  BY <2>2, <2>3, <3>1 DEF ToClean, Clearing
    <2>5. ASSUME NEW j \in DOMAIN f.list PROVE ToClean(f, j) /\ j # f.i => f.i < j
      BY <2>3 DEF ToClean
    <2>6. ASSUME NEW j \in DOMAIN f.list PROVE f.i < j => ToClean(f, j)
      BY <2>3 DEF ToClean
    <2> QED  BY <2>2, <2>3, <2>4, <2>5, <2>6 DEF g, CleaningOf, Minds
  <1>3. CASE f.ctx # "discard" /\ ~ (f.i < Len(f.list))
    <2>1. g = Answer(f, "error")
      BY <1>3 DEF NextDisk, CleaningOf
    <2>2. g.ctx = "none"
      BY <2>1 DEF Answer, Parked
    <2>3. \A j \in DOMAIN f.list : ~ (f.i < j)
      BY <1>0, <1>3, SMT
    <2> HIDE DEF g
    <2>4. \A j \in DOMAIN f.list : ~ (ToClean(f, j) /\ j # f.i)
      BY <1>3, <2>3 DEF ToClean
    <2> QED  BY <2>2, <2>4 DEF g, CleaningOf
  <1> QED  BY <1>1, <1>2, <1>3

LEMMA UndoMinds ==
    ASSUME NEW f \in Frame, f.snap \in SnapIDs
    PROVE  LET g == Undo(f) IN
             /\ CleaningOf(g) => g.ctx = "undo" /\ g.snap = f.snap /\ g.list = f.list /\ g.pc = "stat"
             /\ \A j \in DOMAIN f.list : CleaningOf(g) /\ Minds(g, f.list[j])
  <1>0. f.list \in Seq(Disks) /\ DOMAIN f.list = 1 .. Len(f.list)
    BY DEF Frame
  <1>1. CASE f.list = << >>
    <2>1. Undo(f).ctx = "none"
      BY <1>1 DEF Undo, Answer, Parked
    <2> QED  BY <1>1, <2>1 DEF CleaningOf
  <1>2. CASE f.list # << >>
    <2> DEFINE g == Undo(f)
    <2>1. g = Walk(f, "undo", f.list)
      BY <1>2 DEF Undo
    <2>2. g.pc = "stat" /\ g.ctx = "undo" /\ g.snap = f.snap /\ g.i = 1 /\ g.list = f.list
      BY <1>0, <1>2, <2>1, WalkOK
    <2> HIDE DEF g
    <2>3. ASSUME NEW j \in DOMAIN f.list PROVE 1 < j \/ j = 1
      BY <1>0, SMT
    <2>4. \A j \in DOMAIN f.list : ToClean(g, j)
      BY <2>2, <2>3 DEF ToClean, Clearing
    <2> QED  BY <2>2, <2>4 DEF g, CleaningOf, Minds
  <1> QED  BY <1>1, <1>2

\* A step of one request leaves the snapshots of the others alone.
LEMMA Away ==
    ASSUME StoreInv, NEW a \in Requests, Accept(a) \/ Advance(a) \/ CallFails(a),
           NEW s \in SnapIDs, req[a].ctx = "none" \/ req[a].snap # s
    PROVE  /\ \A d : <<s, d>> \in files' <=> <<s, d>> \in files
           /\ \A p : <<s, p>> \in dirs' <=> <<s, p>> \in dirs
  <1>1. CASE MakeDir(a) \/ Reflink(a) \/ DiscardFile(a) \/ RemoveFile(a) \/ RemoveDir(a)
    <2>1. WellFormed(req[a]) /\ req[a].pc \in {"mkdir", "reflink", "unlink", "remove", "rmdir"}
      BY <1>1, AtCall DEF StoreInv, MakeDir, Reflink, DiscardFile, RemoveFile, RemoveDir, At
    <2>2. req[a].snap # s
      BY <2>1 DEF WellFormed
    <2>3. FileOf(req[a])[1] # s /\ DirOf(req[a])[1] # s /\ \A x \in FilesIn(DirOf(req[a])) : x[1] # s
      BY <2>2 DEF FileOf, DirOf, FilesIn
    <2>4. CASE MakeDir(a) \/ Reflink(a)
      BY <2>3, <2>4 DEF MakeDir, Reflink
    <2>5. CASE DiscardFile(a) \/ RemoveFile(a)
      BY <2>3, <2>5 DEF DiscardFile, RemoveFile
    <2>6. CASE RemoveDir(a)
      BY <2>3, <2>6 DEF RemoveDir
    <2> QED  BY <1>1, <2>4, <2>5, <2>6
  <1>2. CASE ~ (MakeDir(a) \/ Reflink(a) \/ DiscardFile(a) \/ RemoveFile(a) \/ RemoveDir(a))
    <2>1. files' = files /\ dirs' = dirs
      BY <1>2 DEF Accept, Advance, CallFails, store, CreateSnapshot, ReadExtents,
         SaveRecord, StatDir, ReadDir, DeleteSnapshot, PurgeSnapshots, PurgeNext, FetchRecord,
         DeleteRecord, LookupFails
    <2> QED  BY <2>1
  <1> QED  BY <1>1, <1>2

\* What is left to show of a step of a: it still minds the files of the snapshot
\* that it builds, unless that is recorded by now.
MindsStill(a) ==
    crashes = 0 /\ Building(req[a]) /\ req[a].snap \notin known' =>
        \A d \in Disks : <<req[a].snap, d>> \in files' /\ Bearable(d)' =>
            Building(req'[a]) /\ req'[a].snap = req[a].snap /\ Minds(req'[a], d)

LEMMA OrphanKept ==
    ASSUME OrphanInv, StoreInv', NEW a \in Requests, Accept(a) \/ Advance(a) \/ CallFails(a),
           MindsStill(a), CleanInv(req[a])'
    PROVE  OrphanInv'
  <1>0. StoreInv /\ TypeOK
    BY DEF OrphanInv, StoreInv
  <1>1. /\ \A q \in Requests : q # a => req'[q] = req[q]
        /\ known \subseteq known' /\ crashes' = crashes
        /\ faults \in Nat /\ faults' \in Nat /\ faults <= faults'
    <2>1. /\ \A q \in Requests : q # a => req'[q] = req[q]
          /\ known \subseteq known' /\ crashes' = crashes
          /\ faults' = faults \/ faults' = faults + 1
      BY <1>0 DEF TypeOK, Accept, Advance, Become, CallFails, store, CreateSnapshot, MakeDir, Reflink,
         ReadExtents, SaveRecord, DiscardFile, StatDir, RemoveFile, ReadDir, RemoveDir,
         DeleteSnapshot, PurgeSnapshots, PurgeNext, FetchRecord, DeleteRecord, LookupFails
    <2>2. faults \in Nat
      BY <1>0, StoreAssumption DEF TypeOK
    <2> QED  BY <2>1, <2>2, SMT
  <1>2. ASSUME NEW q \in Requests, q # a PROVE CleanInv(req[q])'
    <2> DEFINE f == req[q]
    <2>1. CASE CleaningOf(f)
      <3>1. f \in Frame /\ WellFormed(f) /\ f.snap \in SnapIDs /\ Building(f)
        BY <1>0, <2>1, AtCall DEF CleaningOf, Building, WellFormed
      <3>2. req[a].ctx = "none" \/ req[a].snap # f.snap
        BY <1>0, <1>2, <3>1, Alone
      <3>3. /\ \A d : <<f.snap, d>> \in files' <=> <<f.snap, d>> \in files
            /\ \A p : <<f.snap, p>> \in dirs' <=> <<f.snap, p>> \in dirs
        BY <1>0, <3>1, <3>2, Away
      <3>4. faults' = 0 => faults = 0
        BY <1>1, SMT
      <3>5. CleanInv(f) /\ req'[q] = f
        BY <1>1, <1>2 DEF OrphanInv
      <3> QED  BY <2>1, <3>3, <3>4, <3>5 DEF CleanInv, DirOf, CleaningOf, ToClean, Clearing
    <2>2. CASE ~ CleaningOf(f)
      BY <1>1, <1>2, <2>2 DEF CleanInv, CleaningOf
    <2> QED  BY <2>1, <2>2
  <1>3. Minded'
    <2> SUFFICES ASSUME crashes' = 0, NEW s \in SnapIDs, s \notin known', NEW d \in Disks,
                        <<s, d>> \in files', Bearable(d)'
                 PROVE  \E r \in Requests : Building(req'[r]) /\ req'[r].snap = s /\ Minds(req'[r], d)
      BY DEF Minded, Minds, Building, ToClean, Clearing
    <2>1. CASE Building(req[a]) /\ req[a].snap = s
      BY <1>1, <2>1 DEF MindsStill
    <2>2. CASE ~ (Building(req[a]) /\ req[a].snap = s)
      <3>1. req[a].ctx = "none" \/ req[a].snap # s
        BY <1>0, <1>1, <2>2, ContextOf DEF StoreInv, FrameInv, DeleteInv
      <3>2. <<s, d>> \in files
        BY <1>0, <3>1, Away
      <3>3. Bearable(d)
        BY <1>1, SMT DEF Bearable
      <3>4. PICK r \in Requests : Building(req[r]) /\ req[r].snap = s /\ Minds(req[r], d)
        BY <1>1, <3>2, <3>3 DEF OrphanInv, Minded
      <3>5. req'[r] = req[r]
        BY <1>1, <2>2, <3>4
      <3> QED  BY <3>4, <3>5
    <2> QED  BY <2>1, <2>2
  <1> QED  BY <1>2, <1>3 DEF OrphanInv

LEMMA MindsCreate ==
    ASSUME OrphanInv, NEW a \in Requests,
           MakeDir(a) \/ Reflink(a) \/ ReadExtents(a) \/ SaveRecord(a)
    PROVE  MindsStill(a) /\ CleanInv(req[a])'
  <1> DEFINE f == req[a]
  <1>0. StoreInv /\ TypeOK /\ f \in Frame /\ WellFormed(f) /\ FrameInv(f) /\ f.ctx = "create"
    BY AtCall DEF OrphanInv, StoreInv, MakeDir, Reflink, ReadExtents, SaveRecord, At, WellFormed
  <1>1. ASSUME NEW h, Become(a, h) PROVE req'[a] = h
    BY <1>0, <1>1 DEF Become, TypeOK
  <1>2. ASSUME NEW pc \in Locations, req'[a] = [f EXCEPT !.pc = pc] PROVE MindsStill(a) /\ CleanInv(req[a])'
    <2> DEFINE g == [f EXCEPT !.pc = pc]
    <2>1. g.ctx = "create" /\ g.snap = f.snap
      BY <1>0, Goto
    <2>2. req'[a] = g
      BY <1>2
    <2> HIDE DEF g
    <2> QED  BY <2>1, <2>2 DEF MindsStill, Minds, Building, CleanInv, CleaningOf
  <1>3. CASE MakeDir(a)
    BY <1>1, <1>2, <1>3 DEF MakeDir, Locations
  <1>4. CASE ReadExtents(a)
    <2> DEFINE pc == IF f.i = Len(f.list) THEN "save" ELSE "mkdir"
               g  == [f EXCEPT !.i = f.i + 1, !.pc = pc]
    <2>1. g.ctx = "create" /\ g.snap = f.snap
      BY <1>0, SMT DEF Frame
    <2>2. req'[a] = g
      BY <1>1, <1>4 DEF ReadExtents
    <2> HIDE DEF g
    <2> QED  BY <2>1, <2>2 DEF MindsStill, Minds, Building, CleanInv, CleaningOf
  <1>5. CASE SaveRecord(a)
    <2>1. f.snap \in known'
      BY <1>5 DEF SaveRecord
    <2>2. req'[a].ctx = "none"
      BY <1>1, <1>5 DEF SaveRecord, Answer, Parked
    <2> QED  BY <2>1, <2>2 DEF MindsStill, CleanInv, CleaningOf
  <1>6. CASE Reflink(a) /\ FileOf(f) \notin files
    BY <1>1, <1>2, <1>6 DEF Reflink, Locations
  <1>7. CASE Reflink(a) /\ FileOf(f) \in files
    <2> DEFINE g == [f EXCEPT !.pc = "unlink", !.ctx = "discard"]
    <2>1. /\ g.ctx = "discard" /\ g.snap = f.snap /\ g.list = f.list /\ g.i = f.i
          /\ req'[a] = g /\ files' = files
      BY <1>0, <1>1, <1>7, SMT DEF Frame, Reflink
    <2> HIDE DEF g
    <2>2. f.i \in DOMAIN f.list /\ f.list \in Seq(Disks) /\ f.list[f.i] \in Disks /\ f.i \in Nat
          /\ f.pc = "reflink" /\ f.vm \in VMs
      BY <1>0, <1>7 DEF Reflink, At, WellFormed, OnDisk, Frame
    <2>3. ASSUME NEW d \in Disks, <<f.snap, d>> \in files
          PROVE  \E j \in DOMAIN f.list : j < f.i /\ f.list[j] = d
      BY <1>0, <2>2, <2>3 DEF FrameInv, CreateInv, Done
    <2>4. MindsStill(a)
      BY <2>1, <2>3 DEF MindsStill, Minds, Building, ToClean
    <2>5. \A j \in DOMAIN f.list : f.list[j] \in Repeated
      <3>1. PICK j \in DOMAIN f.list : j < f.i /\ f.list[j] = f.list[f.i]
        BY <1>7, <2>2, <2>3 DEF FileOf
      <3>2. j # f.i
        BY <2>2, <3>1
      <3>3. Repeats(f.list)
        BY <2>2, <3>1, <3>2 DEF Repeats
      <3> QED  BY <1>0, <2>2, <3>3 DEF FrameInv, CreateInv, Repeated
    <2>6. CleanInv(req[a])'
      BY <2>1, <2>5 DEF CleanInv
    <2> QED  BY <2>4, <2>6
  <1> QED  BY <1>3, <1>4, <1>5, <1>6, <1>7

\* What a clean-up has left to do when it is done with disk f.i.
LEMMA MindsNext ==
    ASSUME OrphanInv, NEW a \in Requests, req[a].pc \in OnDisk, CleaningOf(req[a]),
           req'[a] = NextDisk(req[a]), faults' \in Nat, faults <= faults',
           UNCHANGED files, ~ Clearing(req[a]) => FileOf(req[a]) \notin files
    PROVE  MindsStill(a) /\ CleanInv(req[a])'
  <1> DEFINE f == req[a]
             g == NextDisk(f)
  <1>0. StoreInv /\ TypeOK /\ f \in Frame /\ WellFormed(f) /\ faults \in Nat /\ f.snap \in SnapIDs
    BY AtCall, StoreAssumption DEF OrphanInv, StoreInv, TypeOK, WellFormed, OnDisk
  <1>1. /\ CleaningOf(g) => g.snap = f.snap /\ \A k \in DOMAIN g.list : \E j \in DOMAIN f.list : f.list[j] = g.list[k]
        /\ \A j \in DOMAIN f.list : ToClean(f, j) /\ j # f.i => CleaningOf(g) /\ Minds(g, f.list[j])
        /\ g.ctx = "undo" => /\ f.ctx = "undo" /\ g.list = f.list /\ g.pc = "stat"
                             /\ \A j \in DOMAIN f.list : ToClean(g, j) => f.i < j /\ ToClean(f, j)
    BY <1>0, NextDiskMinds
  <1>2. req'[a] = g
    OBVIOUS
  <1> HIDE DEF g
  <1>3. MindsStill(a)
    <2> SUFFICES ASSUME crashes = 0, Building(f), f.snap \notin known', NEW d \in Disks,
                        <<f.snap, d>> \in files, Bearable(d)'
                 PROVE  Building(g) /\ g.snap = f.snap /\ Minds(g, d)
      BY <1>2 DEF MindsStill
    <2>1. Bearable(d) /\ f.snap \notin known
      <3>1. Bearable(d)
        BY <1>0, SMT DEF Bearable
      <3> QED  BY <1>0, <3>1 DEF FrameInv, StoreInv
    <2>2. Minds(f, d)
      BY <1>0, <2>1 DEF OrphanInv, Minded, StoreInv, BuiltApart
    <2>3. PICK j \in DOMAIN f.list : f.list[j] = d /\ ToClean(f, j)
      BY <2>2 DEF Minds, CleaningOf
    <2>4. j # f.i
      <3>1. j \in Nat /\ f.i \in Nat
        BY <1>0 DEF Frame
      <3>2. j = f.i => FileOf(f) \in files
        BY <2>3 DEF FileOf
      <3>3. j < f.i \/ f.i < j \/ ~ Clearing(f)
        BY <2>3 DEF ToClean, Clearing
      <3> QED  BY <3>1, <3>2, <3>3
    <2> QED  BY <1>1, <2>3, <2>4 DEF CleaningOf, Building
  <1>4. CleanInv(req[a])'
    <2>1. faults' = 0 => faults = 0
      BY <1>0, SMT
    <2>2. CleanInv(f)
      BY DEF OrphanInv
    <2> QED  BY <1>1, <1>2, <2>1, <2>2 DEF CleanInv
  <1> QED  BY <1>3, <1>4

\* A clean-up goes on to its next call at the same disk.
LEMMA MindsGoto ==
    ASSUME OrphanInv, NEW a \in Requests, CleaningOf(req[a]), NEW pc \in Locations,
           req'[a] = [req[a] EXCEPT !.pc = pc], faults' = faults, dirs' = dirs,
           \/ pc = "remove" /\ req[a].pc = "stat" /\ files' = files
           \/ /\ pc = "readdir" /\ req[a].pc \in {"remove", "unlink"}
              /\ files' = files \ {FileOf(req[a])}
              /\ req[a].pc = "remove" => FileOf(req[a]) \in files
           \/ pc = "rmdir" /\ req[a].pc = "readdir" /\ files' = files
    PROVE  MindsStill(a) /\ CleanInv(req[a])'
  <1> DEFINE f == req[a]
             g == [f EXCEPT !.pc = pc]
  <1>0. /\ StoreInv /\ TypeOK /\ f \in Frame /\ WellFormed(f) /\ FrameInv(f) /\ Building(f)
        /\ f.snap \in SnapIDs /\ f.i \in DOMAIN f.list /\ f.list \in Seq(Disks) /\ f.i \in Nat
        /\ \A j \in DOMAIN f.list : j \in Nat
    BY AtCall DEF OrphanInv, StoreInv, CleaningOf, Building, WellFormed, OnDisk, Frame
  <1>1. g.pc = pc /\ g.ctx = f.ctx /\ g.snap = f.snap /\ g.list = f.list /\ g.i = f.i /\ req'[a] = g
    BY <1>0, Goto
  <1> HIDE DEF g
  <1>2. ASSUME NEW j \in DOMAIN f.list, ToClean(f, j), ~ ToClean(g, j)
        PROVE  FileOf(f) = <<f.snap, f.list[j]>> /\ FileOf(f) \notin files'
    BY <1>0, <1>1, <1>2 DEF ToClean, Clearing, WellFormed, FileOf
  <1>3. ASSUME NEW j \in DOMAIN f.list, ToClean(g, j)
        PROVE  ToClean(f, j) /\ (files' # files /\ f.ctx = "undo" => f.i < j)
    BY <1>0, <1>1, <1>3 DEF ToClean, Clearing, WellFormed
  <1>4. MindsStill(a)
    <2> SUFFICES ASSUME crashes = 0, f.snap \notin known', NEW d \in Disks,
                        <<f.snap, d>> \in files', Bearable(d)'
                 PROVE  Minds(g, d)
      BY <1>0, <1>1 DEF MindsStill, Building
    <2>1. Bearable(d) /\ <<f.snap, d>> \in files /\ f.snap \notin known
      BY <1>0 DEF Bearable, FrameInv
    <2>2. Minds(f, d)
      BY <1>0, <2>1 DEF OrphanInv, Minded, StoreInv, BuiltApart
    <2>3. PICK j \in DOMAIN f.list : f.list[j] = d /\ ToClean(f, j)
      BY <2>2 DEF Minds, CleaningOf
    <2>4. ToClean(g, j)
      BY <1>2, <2>3
    <2> QED  BY <1>1, <2>3, <2>4 DEF Minds
  <1>5. CleanInv(req[a])'
    <2>1. CleanInv(f)
      BY DEF OrphanInv
    <2>2. faults' = 0 => \A j \in DOMAIN g.list : g.list[j] \in Repeated
      BY <1>1, <2>1 DEF CleanInv
    <2>3. ASSUME f.ctx = "undo"
          PROVE  /\ \A j \in DOMAIN f.list : ToClean(g, j) => <<f.snap, f.list[j]>> \in files'
                 /\ pc = "readdir" => DirOf(f) \in dirs'
      <3>1. ASSUME NEW j \in DOMAIN f.list, ToClean(g, j) PROVE <<f.snap, f.list[j]>> \in files'
        <4>1. <<f.snap, f.list[j]>> \in files
          BY <1>3, <2>1, <2>3, <3>1 DEF CleanInv
        <4>2. CASE files' = files
          BY <4>1, <4>2
        <4>3. CASE files' # files
          <5>1. f.i < j
            BY <1>3, <2>3, <3>1, <4>3
          <5>2. f.list[j] # f.list[f.i]
            BY <1>0, <2>1, <2>3, <5>1 DEF CleanInv
          <5> QED  BY <4>1, <4>3, <5>2 DEF FileOf
        <4> QED  BY <4>2, <4>3
      <3>2. ASSUME pc = "readdir" PROVE DirOf(f) \in dirs'
        <4>1. FileOf(f) \in files
          BY <1>0, <2>3, <3>2 DEF WellFormed
        <4> QED  BY <1>0, <4>1 DEF StoreInv, FilesHoused, FileOf, DirOf
      <3> QED  BY <3>1, <3>2
    <2>4. DirOf(g) = DirOf(f)
      BY <1>1 DEF DirOf
    <2> QED  BY <1>1, <2>1, <2>2, <2>3, <2>4 DEF CleanInv, ToClean, Clearing, DirOf
  <1> QED  BY <1>4, <1>5

\* The calls of a clean-up.
LEMMA MindsClean ==
    ASSUME OrphanInv, NEW a \in Requests,
           DiscardFile(a) \/ StatDir(a) \/ RemoveFile(a) \/ ReadDir(a) \/ RemoveDir(a)
    PROVE  MindsStill(a) /\ CleanInv(req[a])'
  <1> DEFINE f == req[a]
  <1>0. /\ StoreInv /\ TypeOK /\ f \in Frame /\ WellFormed(f) /\ faults' = faults /\ faults \in Nat
        /\ f.pc \in OnDisk /\ f.i \in DOMAIN f.list
    BY AtCall, StoreAssumption DEF OrphanInv, StoreInv, TypeOK, DiscardFile, StatDir, RemoveFile,
       ReadDir, RemoveDir, At, OnDisk, WellFormed, Become
  <1>1. ASSUME NEW h, Become(a, h) PROVE req'[a] = h
    BY <1>0, <1>1 DEF Become, TypeOK
  <1>2. faults <= faults' /\ faults' \in Nat
    BY <1>0, SMT
  <1>3. CASE f.ctx = "delete"
    <2>1. ~ DiscardFile(a)
      BY <1>0, <1>3 DEF DiscardFile, At, WellFormed
    <2>2. \/ req'[a] = NextDisk(f) \/ req'[a] = DiskFailed(f)
          \/ \E pc \in {"remove", "readdir", "rmdir"} : req'[a] = [f EXCEPT !.pc = pc]
      BY <1>1, <2>1 DEF StatDir, RemoveFile, ReadDir, RemoveDir
    <2>3. /\ NextDisk(f).ctx \in {"none", "delete"} /\ DiskFailed(f).ctx \in {"none", "delete"}
          /\ \A pc \in {"remove", "readdir", "rmdir"} : [f EXCEPT !.pc = pc].ctx = "delete"
      <3>1. NextDisk(f).ctx \in {"none", "delete"} /\ DiskFailed(f).ctx \in {"none", "delete"}
        BY <1>0, <1>3, NextDiskOK, DiskFailedOK
      <3>2. \A pc \in {"remove", "readdir", "rmdir"} : [f EXCEPT !.pc = pc].ctx = "delete"
        BY <1>0, <1>3, SMT DEF Frame
      <3> QED  BY <3>1, <3>2
    <2>4. req'[a].ctx \in {"none", "delete"}
      BY <2>2, <2>3
    <2> QED  BY <1>3, <2>4 DEF MindsStill, CleanInv, CleaningOf, Building
  <1>4. CASE f.ctx # "delete"
    <2>0. CleaningOf(f)
      BY <1>0, <1>4 DEF DiscardFile, StatDir, RemoveFile, ReadDir, RemoveDir, At, WellFormed,
         Frame, Contexts, CleaningOf
    <2>1. CASE DiscardFile(a)
      BY <1>1, <2>0, <2>1, <1>0, MindsGoto DEF DiscardFile, At, Locations
    <2>2. CASE StatDir(a) /\ DirOf(f) \in dirs
      BY <1>1, <2>0, <2>2, <1>0, MindsGoto DEF StatDir, At, Locations, store
    <2>3. CASE StatDir(a) /\ DirOf(f) \notin dirs
      <3>1. FileOf(f) \notin files
        BY <1>0, <2>3 DEF StoreInv, FilesHoused, FileOf, DirOf
      <3> QED  BY <1>0, <1>1, <1>2, <2>0, <2>3, <3>1, MindsNext DEF StatDir, store
    <2>4. CASE RemoveFile(a) /\ FileOf(f) \in files
      BY <1>1, <2>0, <2>4, <1>0, MindsGoto DEF RemoveFile, At, Locations
    <2>5. CASE RemoveFile(a) /\ FileOf(f) \notin files
      <3>1. f.ctx # "undo"
        <4>1. f.pc = "remove"
          BY <2>5 DEF RemoveFile, At
        <4>2. f.ctx = "undo" => ToClean(f, f.i)
          BY <4>1 DEF ToClean, Clearing
        <4> QED  BY <1>0, <2>5, <4>2 DEF OrphanInv, CleanInv, FileOf
      <3>2. req'[a] = NextDisk(f)
        BY <1>1, <2>0, <2>5, <3>1 DEF RemoveFile, DiskFailed, CleaningOf
      <3>3. files' = files
        BY <2>5 DEF RemoveFile
      <3> QED  BY <1>0, <1>2, <2>0, <2>5, <3>2, <3>3, MindsNext
    <2>6. CASE ReadDir(a)
      <3>1. \/ req'[a] = DiskFailed(f) /\ DirOf(f) \notin dirs
            \/ req'[a] = NextDisk(f)
            \/ req'[a] = [f EXCEPT !.pc = "rmdir"]
        BY <1>1, <2>6 DEF ReadDir
      <3>2. f.pc = "readdir" /\ files' = files /\ dirs' = dirs
        BY <2>6 DEF ReadDir, At, store
      <3>3. DirOf(f) \notin dirs => DiskFailed(f) = NextDisk(f)
        BY <2>0, <3>2 DEF OrphanInv, CleanInv, DiskFailed, CleaningOf
      <3>4. CASE req'[a] = NextDisk(f)
        BY <1>0, <1>2, <2>0, <3>2, <3>4, MindsNext DEF Clearing
      <3>5. CASE req'[a] = [f EXCEPT !.pc = "rmdir"]
        BY <1>0, <2>0, <3>2, <3>5, MindsGoto DEF Locations
      <3> QED  BY <3>1, <3>3, <3>4, <3>5
    <2>7. CASE RemoveDir(a)
      <3>1. files' = files /\ req'[a] = NextDisk(f) /\ f.pc = "rmdir"
        BY <1>0, <1>1, <2>7, EmptyAtRemove DEF RemoveDir, At
      <3> QED  BY <1>0, <1>2, <2>0, <3>1, MindsNext DEF Clearing
    <2> QED  BY <2>1, <2>2, <2>3, <2>4, <2>5, <2>6, <2>7
  <1> QED  BY <1>3, <1>4

\* A call that fails in a create begins the clean-up of what there is; in a
\* clean-up it is one more than the files of other lists than Repeated bear.
LEMMA MindsFailed ==
    ASSUME OrphanInv, NEW a \in Requests, CallFails(a)
    PROVE  MindsStill(a) /\ CleanInv(req[a])'
  <1> DEFINE f == req[a]
             g == Failed(f)
  <1>0. /\ StoreInv /\ TypeOK /\ f \in Frame /\ WellFormed(f) /\ FrameInv(f)
        /\ faults \in Nat /\ faults' = faults + 1 /\ UNCHANGED store /\ req'[a] = g
        /\ f.list \in Seq(Disks) /\ f.i \in Nat
    BY AtCall, StoreAssumption DEF OrphanInv, StoreInv, TypeOK, CallFails, Frame
  <1>1. faults' # 0
    BY <1>0, SMT
  <1>2. ASSUME NEW d \in Disks, Bearable(d)' PROVE faults = 0 /\ d \notin Repeated
    BY <1>0, <1>2, SMT DEF Bearable
  <1> HIDE DEF g
  <1>3. CASE ~ Building(f)
    <2>1. CASE f.ctx = "delete" /\ f.pc \in {"stat", "remove", "readdir", "rmdir"}
      <3>1. g = NextDisk(f) \/ g = DiskFailed(f)
        BY <2>1 DEF g, Failed
      <3>2. NextDisk(f).ctx \in {"none", "delete"} /\ DiskFailed(f).ctx \in {"none", "delete"}
        BY <1>0, <2>1, NextDiskOK, DiskFailedOK DEF OnDisk
      <3> QED  BY <1>0, <1>3, <3>1, <3>2 DEF MindsStill, CleanInv, CleaningOf
    <2>2. CASE ~ (f.ctx = "delete" /\ f.pc \in {"stat", "remove", "readdir", "rmdir"})
      <3>1. g = Answer(f, "error")
        BY <1>0, <1>3, <2>2 DEF g, Failed, Building, WellFormed, Frame, Contexts, Locations
      <3>2. g.ctx = "none"
        BY <3>1 DEF Answer, Parked
      <3> QED  BY <1>0, <1>3, <3>2 DEF MindsStill, CleanInv, CleaningOf
    <2> QED  BY <2>1, <2>2
  <1>4. CASE f.ctx = "create"
    <2>0. /\ f.snap \in SnapIDs /\ f.pc \in {"mkdir", "reflink", "extents", "save"}
          /\ f.pc # "save" => f.i \in DOMAIN f.list
          /\ \A d \in Disks : <<f.snap, d>> \in files' =>
               \E j \in DOMAIN f.list : Done(f, j) /\ f.list[j] = d
          /\ \A j \in DOMAIN f.list : Done(f, j) =>
               /\ <<f.snap, f.list[j]>> \in files'
               /\ \A k \in DOMAIN f.list : k < j => f.list[k] # f.list[j]
      BY <1>0, <1>4 DEF WellFormed, OnDisk, FrameInv, CreateInv, store
    <2>1. CASE f.pc = "mkdir"
      <3>1. g = Rollback(f)
        BY <2>1 DEF g, Failed
      <3>2. \A j \in DOMAIN f.list : Done(f, j) => j < f.i
        BY <2>1 DEF Done
      <3>3. /\ CleaningOf(g) => g.ctx = "rollback" /\ g.snap = f.snap
            /\ \A j \in DOMAIN f.list : Done(f, j) => CleaningOf(g) /\ Minds(g, f.list[j])
        BY <1>0, <2>0, <2>1, <3>1, <3>2, RollbackMinds
      <3> QED  BY <1>0, <1>1, <2>0, <3>3 DEF MindsStill, CleanInv, CleaningOf, Building
    <2>2. CASE f.pc \in {"reflink", "extents"}
      <3>1. g = [f EXCEPT !.pc = "unlink", !.ctx = "discard"]
        BY <2>2 DEF g, Failed
      <3>2. g.pc = "unlink" /\ g.ctx = "discard" /\ g.snap = f.snap /\ g.list = f.list /\ g.i = f.i
        BY <1>0, <3>1, SMT DEF Frame
      <3>3. \A j \in DOMAIN f.list : Done(f, j) => ToClean(g, j)
        BY <3>2 DEF Done, ToClean
      <3> QED  BY <1>0, <1>1, <2>0, <3>2, <3>3 DEF MindsStill, Minds, CleanInv, Building
    <2>3. CASE f.pc = "save"
      <3>1. g = Undo(f)
        BY <2>3 DEF g, Failed
      <3>2. /\ CleaningOf(g) => g.ctx = "undo" /\ g.snap = f.snap /\ g.list = f.list /\ g.pc = "stat"
            /\ \A j \in DOMAIN f.list : CleaningOf(g) /\ Minds(g, f.list[j])
        BY <1>0, <2>0, <3>1, UndoMinds
      <3>3. \A j \in DOMAIN f.list : Done(f, j)
        <4>1. f.i = Len(f.list) + 1
          BY <1>0, <2>3 DEF WellFormed
        <4>2. \A j \in DOMAIN f.list : j < f.i
          BY <1>0, <4>1, SMT
        <4> QED  BY <4>2 DEF Done
      <3>4. MindsStill(a)
        BY <1>0, <2>0, <3>2 DEF MindsStill, CleaningOf, Building
      <3>5. req'[a] = g
        BY <1>0
      <3>6. CASE CleaningOf(g)
        <4>1. g.ctx = "undo" /\ g.snap = f.snap /\ g.list = f.list /\ g.pc = "stat"
          BY <3>2, <3>6
        <4>2. \A j \in DOMAIN f.list : <<f.snap, f.list[j]>> \in files'
          BY <2>0, <3>3
        <4>3. \A j, k \in DOMAIN f.list : j < k => f.list[j] # f.list[k]
          BY <2>0, <3>3
        <4> QED  BY <1>1, <3>4, <3>5, <4>1, <4>2, <4>3 DEF CleanInv
      <3>7. CASE ~ CleaningOf(g)
        BY <1>1, <3>4, <3>5, <3>7 DEF CleanInv, CleaningOf
      <3> QED  BY <3>4, <3>6, <3>7
    <2> QED  BY <2>0, <2>1, <2>2, <2>3
  <1>5. CASE CleaningOf(f)
    <2>1. MindsStill(a)
      <3> SUFFICES ASSUME crashes = 0, f.snap \notin known', NEW d \in Disks,
                          <<f.snap, d>> \in files', Bearable(d)'
                   PROVE  FALSE
        BY DEF MindsStill
      <3>1. faults = 0 /\ d \notin Repeated /\ <<f.snap, d>> \in files /\ f.snap \notin known
        BY <1>0, <1>2 DEF store
      <3>2. Bearable(d) /\ f.snap \in SnapIDs /\ Building(f)
        BY <1>0, <1>5, <3>1, SMT DEF Bearable, WellFormed, CleaningOf, Building
      <3>3. Minds(f, d)
        BY <1>0, <3>1, <3>2 DEF OrphanInv, Minded, StoreInv, BuiltApart
      <3> QED  BY <1>5, <3>1, <3>3 DEF Minds, CleaningOf, OrphanInv, CleanInv
    <2>2. CASE f.pc = "rmdir"
      <3>1. g = NextDisk(f)
        BY <2>2 DEF g, Failed
      <3> QED  BY <1>0, <1>5, <2>2, <3>1, MindsNext, SMT DEF store, Clearing, OnDisk
    <2>3. CASE f.pc # "rmdir"
      <3>1. g.ctx # "undo"
        <4>1. CASE f.pc = "unlink"
          <5>1. g = [f EXCEPT !.pc = "readdir"] /\ f.ctx = "discard"
            BY <1>0, <4>1 DEF g, Failed, WellFormed
          <5>2. [f EXCEPT !.pc = "readdir"].ctx = f.ctx
            BY <1>0, SMT DEF Frame
          <5> QED  BY <5>1, <5>2
        <4>2. CASE f.pc # "unlink"
          <5>1. g = DiskFailed(f) /\ f.pc \in OnDisk /\ f.ctx # "create"
            BY <1>0, <1>5, <2>3, <4>2 DEF g, Failed, WellFormed, CleaningOf, OnDisk, Frame, Locations
          <5> QED  BY <1>0, <5>1, DiskFailedOK
        <4> QED  BY <4>1, <4>2
      <3> QED  BY <1>0, <1>1, <2>1, <3>1 DEF CleanInv
    <2> QED  BY <2>1, <2>2, <2>3
  <1> QED  BY <1>3, <1>4, <1>5 DEF Building, CleaningOf

\* A request is taken, or deletes: nothing is built by it that has files.
LEMMA MindsRest ==
    ASSUME OrphanInv, NEW a \in Requests,
           Accept(a) \/ PurgeNext(a) \/ FetchRecord(a) \/ DeleteRecord(a)
    PROVE  MindsStill(a) /\ CleanInv(req[a])'
  <1>0. /\ StoreInv /\ TypeOK /\ req[a] \in Frame /\ WellFormed(req[a])
        /\ db \in [SnapIDs -> Record \cup {Nil}] /\ known \subseteq SnapIDs
    BY AtCall DEF OrphanInv, StoreInv, TypeOK
  <1>1. ASSUME NEW h, Become(a, h) PROVE req'[a] = h
    BY <1>0, <1>1 DEF Become, TypeOK
  <1>2. ~ Building(req[a])
    BY <1>0 DEF WellFormed, Building, Accept, CreateSnapshot, DeleteSnapshot, PurgeSnapshots,
       LookupFails, PurgeNext, FetchRecord, DeleteRecord, At
  <1>3. ASSUME NEW h \in Frame, h.ctx = "none", NEW s \in SnapIDs
        PROVE  BeginDelete(h, s).ctx \in {"none", "delete"}
    BY <1>0, <1>3, BeginDeleteOK
  <1>4. req'[a].ctx \in {"none", "create", "delete"}
    <2>1. CASE CreateSnapshot(a)
      <3>1. PICK v \in VMs, s \in SnapIDs \ minted : \E list \in DiskLists[v] :
              req'[a] = StartCreate(v, s, list) \/ req'[a] = Parked("badrequest", {})
        BY <1>1, <2>1 DEF CreateSnapshot, StartCreate
      <3>2. PICK list \in DiskLists[v] :
              req'[a] = StartCreate(v, s, list) \/ req'[a] = Parked("badrequest", {})
        BY <3>1
      <3>3. StartCreate(v, s, list).ctx = "create" /\ Parked("badrequest", {}).ctx = "none"
        BY DEF StartCreate, Parked
      <3> QED  BY <3>2, <3>3
    <2>2. CASE DeleteSnapshot(a)
      <3>1. PICK v \in VMs, s \in known : Become(a, BeginDelete([Parked("none", {s}) EXCEPT !.vm = v], s))
        BY <2>2 DEF DeleteSnapshot
      <3> DEFINE h == [Parked("none", {s}) EXCEPT !.vm = v]
      <3>2. h \in Frame /\ h.ctx = "none" /\ s \in SnapIDs
        BY <1>0, ToDelete
      <3>3. req'[a] = BeginDelete(h, s)
        BY <1>1, <3>1
      <3> HIDE DEF h
      <3> QED  BY <1>3, <3>2, <3>3
    <2>3. CASE PurgeNext(a)
      <3>1. PICK s \in req[a].queue : Become(a, BeginDelete([req[a] EXCEPT !.queue = @ \ {s}], s))
        BY <2>3 DEF PurgeNext
      <3> DEFINE h == [req[a] EXCEPT !.queue = @ \ {s}]
      <3>2. s \in SnapIDs
        BY <1>0 DEF Frame
      <3>3. h \in Frame /\ h.ctx = "none"
        BY <1>0, <2>3, <3>2, ToDelete DEF PurgeNext
      <3>4. req'[a] = BeginDelete(h, s)
        BY <1>1, <3>1
      <3> HIDE DEF h
      <3> QED  BY <1>3, <3>2, <3>3, <3>4
    <2>4. CASE PurgeSnapshots(a)
      <3>1. PICK v \in VMs : LET ids == {s \in SnapIDs : db[s] # Nil /\ db[s].vm = v}
                             IN  Become(a, NextSnapshot([Parked("none", ids) EXCEPT !.vm = v, !.queue = ids]))
        BY <2>4 DEF PurgeSnapshots
      <3> DEFINE ids == {s \in SnapIDs : db[s] # Nil /\ db[s].vm = v}
                 h   == [Parked("none", ids) EXCEPT !.vm = v, !.queue = ids]
      <3>2. h \in Frame /\ req'[a] = NextSnapshot(h)
        BY <1>0, <1>1, <3>1, ToDelete
      <3> HIDE DEF h
      <3> QED  BY <3>2, NextSnapshotOK
    <2>5. CASE LookupFails(a)
      BY <1>1, <2>5 DEF LookupFails, Parked
    <2>6. CASE FetchRecord(a)
      <3>1. req'[a] = NextSnapshot(req[a]) \/ req'[a] = [req[a] EXCEPT !.pc = "dbdelete"]
        BY <1>1, <2>6 DEF FetchRecord
      <3>2. [req[a] EXCEPT !.pc = "dbdelete"].ctx = req[a].ctx /\ req[a].ctx = "delete"
        BY <1>0, <2>6, SMT DEF FetchRecord, At, WellFormed, Frame
      <3> QED  BY <1>0, <3>1, <3>2, NextSnapshotOK
    <2>7. CASE DeleteRecord(a)
      <3>1. req'[a] = Answer(req[a], "error") \/ req'[a] = NextSnapshot(req[a])
        BY <1>1, <2>7 DEF DeleteRecord
      <3> QED  BY <1>0, <3>1, NextSnapshotOK, AnswerOK DEF Codes
    <2> QED  BY <2>1, <2>2, <2>3, <2>4, <2>5, <2>6, <2>7 DEF Accept
  <1> QED  BY <1>2, <1>4 DEF MindsStill, CleanInv, CleaningOf

LEMMA OrphanStep ==
    ASSUME OrphanInv, [Next]_vars
    PROVE  OrphanInv'
  <1>0. StoreInv /\ StoreInv'
    BY StoreInvStep DEF OrphanInv
  <1>1. CASE UNCHANGED vars
    BY <1>0, <1>1 DEF vars, OrphanInv, CleanInv, CleaningOf, Minded, Minds, Bearable, ToClean,
       Clearing, Building, DirOf
  <1>2. CASE Crash
    <2>1. crashes' # 0
      BY <1>0, <1>2, StoreAssumption, SMT DEF StoreInv, TypeOK, Crash
    <2>2. \A r \in Requests : req'[r].ctx = "none"
      BY <1>2 DEF Crash, Parked
    <2> QED  BY <1>0, <2>1, <2>2 DEF OrphanInv, Minded, CleanInv, CleaningOf
  <1>3. ASSUME NEW a \in Requests, Accept(a) \/ Advance(a) \/ CallFails(a) PROVE OrphanInv'
    <2>1. MindsStill(a) /\ CleanInv(req[a])'
      BY <1>3, MindsCreate, MindsClean, MindsFailed, MindsRest DEF Advance
    <2> QED  BY <1>0, <1>3, <2>1, OrphanKept
  <1> QED  BY <1>1, <1>2, <1>3 DEF Next

\* No single failing call makes a create leak (vms.go:82-96, 146-164 and
\* manager.go:157-164): a file that no record lists is of a snapshot that a
\* request is still making, or cleaning up.
THEOREM NoneOrphaned == Spec => []NoOrphanFile
  <1>1. Init => OrphanInv
    <2> SUFFICES ASSUME Init PROVE OrphanInv
      OBVIOUS
    <2>1. files = {} /\ \A r \in Requests : req[r].ctx = "none"
      BY DEF Init, Parked
    <2> QED  BY <2>1, StoreInvInit DEF OrphanInv, Minded, CleanInv, CleaningOf
  <1>2. OrphanInv /\ [Next]_vars => OrphanInv'
    BY OrphanStep
  <1>3. OrphanInv => NoOrphanFile
    <2> SUFFICES ASSUME OrphanInv, crashes = 0, NEW x \in files,
                        faults <= (IF x[2] \in Repeated THEN 0 ELSE 1), db[x[1]] = Nil
                 PROVE  \E r \in Requests : req[r].snap = x[1]
      BY DEF NoOrphanFile
    <2>1. x[1] \in SnapIDs /\ x[2] \in Disks /\ x = <<x[1], x[2]>>
      BY DEF OrphanInv, StoreInv, TypeOK
    <2>2. x[1] \notin known
      BY <2>1 DEF OrphanInv, StoreInv, DeletedLeavesNothing
    <2> QED  BY <2>1, <2>2 DEF OrphanInv, Minded, Bearable
  <1> QED  BY <1>1, <1>2, <1>3, PTL DEF Spec
-----------------------------------------------------------------------------
(***************************************************************************)
(* NoOrphanDir.  The directory of a snapshot that is not recorded holds a  *)
(* file, or is the one that the request which builds the snapshot is at:   *)
(* it has just made it, or is about to look whether it is empty.           *)
(***************************************************************************)
Borne(p) == faults <= IF \E d \in Repeated : RepoOf[d] = p THEN 0 ELSE 1

Occupied(s, p) == \E d \in Disks : RepoOf[d] = p /\ <<s, d>> \in files

AtDir(f, s, p) ==
    /\ Building(f) /\ f.snap = s
    /\ f.pc \in {"reflink", "unlink", "readdir", "rmdir"} /\ RepoOf[f.list[f.i]] = p

HeldInv ==
    crashes = 0 => \A s \in SnapIDs \ known, p \in Repos : <<s, p>> \in dirs /\ Borne(p) =>
        Occupied(s, p) \/ \E r \in Requests : AtDir(req[r], s, p)

\* The calls of a create and of its clean-up.
LEMMA HeldCall ==
    ASSUME OrphanInv, HeldInv, NEW a \in Requests, Building(req[a]), crashes = 0,
           NEW s, s = req[a].snap, s \notin known', NEW p \in Repos, <<s, p>> \in dirs', Borne(p)',
           \/ MakeDir(a) \/ Reflink(a) \/ ReadExtents(a) \/ SaveRecord(a) \/ DiscardFile(a)
           \/ StatDir(a) \/ RemoveFile(a) \/ ReadDir(a) \/ RemoveDir(a)
    PROVE  Occupied(s, p)' \/ AtDir(req'[a], s, p)
  <1> DEFINE f == req[a]
             here == RepoOf[f.list[f.i]]
  <1>0. /\ StoreInv /\ TypeOK /\ f \in Frame /\ WellFormed(f) /\ s \in SnapIDs
        /\ files \subseteq SnapIDs \X Disks /\ faults' = faults
    BY AtCall DEF OrphanInv, StoreInv, TypeOK, WellFormed, Building, Become, MakeDir, Reflink, ReadExtents,
       SaveRecord, DiscardFile, StatDir, RemoveFile, ReadDir, RemoveDir
  <1>1. ASSUME NEW h, Become(a, h) PROVE req'[a] = h
    BY <1>0, <1>1 DEF Become, TypeOK
  <1>2. ASSUME NEW ctx \in Contexts, NEW pc \in {"reflink", "unlink", "readdir", "rmdir"},
               req'[a] = [f EXCEPT !.pc = pc, !.ctx = ctx], Building(req'[a]), p = here
        PROVE  AtDir(req'[a], s, p)
    <2> DEFINE g == [f EXCEPT !.pc = pc, !.ctx = ctx]
    <2>1. g.pc = pc /\ g.snap = s /\ g.list = f.list /\ g.i = f.i
      BY <1>0, SMT DEF Frame
    <2>2. req'[a] = g
      BY <1>2
    <2> HIDE DEF g
    <2> QED  BY <1>2, <2>1, <2>2 DEF AtDir
  <1>3. ASSUME NEW pc \in {"reflink", "unlink", "readdir", "rmdir"}, req'[a] = [f EXCEPT !.pc = pc], p = here
        PROVE  AtDir(req'[a], s, p)
    <2> DEFINE g == [f EXCEPT !.pc = pc]
    <2>1. g.pc = pc /\ g.snap = s /\ g.list = f.list /\ g.i = f.i /\ g.ctx = f.ctx
      BY <1>0, SMT DEF Frame
    <2>2. req'[a] = g
      BY <1>3
    <2> HIDE DEF g
    <2> QED  BY <1>3, <2>1, <2>2 DEF AtDir, Building
  <1>4. ASSUME <<s, p>> \in dirs, known \subseteq known' PROVE Occupied(s, p) \/ AtDir(f, s, p)
    <2>1. s \notin known /\ Borne(p)
      BY <1>0, <1>4 DEF Borne
    <2>2. CASE Occupied(s, p)
      BY <2>2
    <2>3. CASE ~ Occupied(s, p)
      <3>1. PICK r \in Requests : AtDir(req[r], s, p)
        BY <1>0, <1>4, <2>1, <2>3 DEF HeldInv
      <3>2. r = a
        BY <1>0, <3>1 DEF AtDir, StoreInv, BuiltApart
      <3> QED  BY <3>1, <3>2
    <2> QED  BY <2>2, <2>3
  <1>5. ASSUME <<s, p>> \in dirs, known \subseteq known', files \subseteq files', AtDir(f, s, p) => Occupied(s, p)
        PROVE  Occupied(s, p)'
    BY <1>4, <1>5 DEF Occupied
  <1>6. ASSUME p # here, <<s, p>> \in dirs, known \subseteq known',
               \A x \in files : RepoOf[x[2]] = p => x \in files'
        PROVE  Occupied(s, p)'
    BY <1>4, <1>6 DEF Occupied, AtDir
  <1>7. CASE MakeDir(a)
    <2>1. CASE p = here
      BY <1>1, <1>3, <1>7, <2>1 DEF MakeDir
    <2>2. CASE p # here
      BY <1>6, <1>7, <2>2 DEF MakeDir, DirOf
    <2> QED  BY <2>1, <2>2
  <1>8. CASE Reflink(a)
    <2>1. CASE p # here
      <3>1. dirs' = dirs /\ known' = known /\ files \subseteq files'
        BY <1>8 DEF Reflink
      <3> QED  BY <1>6, <2>1, <3>1
    <2>2. CASE p = here /\ FileOf(f) \in files
      <3>1. req'[a] = [f EXCEPT !.pc = "unlink", !.ctx = "discard"]
        BY <1>1, <1>8, <2>2 DEF Reflink
      <3>2. [f EXCEPT !.pc = "unlink", !.ctx = "discard"].ctx = "discard"
        BY <1>0, SMT DEF Frame
      <3>3. Building(req'[a])
        BY <3>1, <3>2 DEF Building
      <3> QED  BY <1>2, <2>2, <3>1, <3>3 DEF Contexts
    <2>3. CASE p = here /\ FileOf(f) \notin files
      <3>1. FileOf(f) \in files' /\ FileOf(f) = <<s, f.list[f.i]>>
        BY <1>8, <2>3 DEF Reflink, FileOf
      <3>2. f.list[f.i] \in Disks
        BY <1>0, <1>8, AtCall DEF Reflink, At, OnDisk, Frame
      <3> QED  BY <2>3, <3>1, <3>2 DEF Occupied
    <2> QED  BY <2>1, <2>2, <2>3
  <1>9. CASE ReadExtents(a) \/ StatDir(a)
    <2>1. files' = files /\ dirs' = dirs /\ known' = known /\ f.pc \in {"extents", "stat"}
      BY <1>9 DEF ReadExtents, StatDir, store, At
    <2> QED  BY <1>5, <2>1 DEF AtDir
  <1>10. CASE SaveRecord(a)
    BY <1>10 DEF SaveRecord
  <1>11. CASE DiscardFile(a) \/ (RemoveFile(a) /\ FileOf(f) \in files)
    <2>1. /\ req'[a] = [f EXCEPT !.pc = "readdir"] /\ files' = files \ {FileOf(f)}
          /\ dirs' = dirs /\ known' = known
      BY <1>1, <1>11 DEF DiscardFile, RemoveFile
    <2>2. CASE p = here
      BY <1>3, <2>1, <2>2
    <2>3. CASE p # here
      <3>1. \A x \in files : RepoOf[x[2]] = p => x \in files'
        BY <2>1, <2>3 DEF FileOf
      <3> QED  BY <1>6, <2>1, <2>3, <3>1
    <2> QED  BY <2>2, <2>3
  <1>12. CASE RemoveFile(a) /\ FileOf(f) \notin files
    <2>1. files' = files /\ dirs' = dirs /\ known' = known /\ f.pc = "remove"
      BY <1>12 DEF RemoveFile, At
    <2> QED  BY <1>5, <2>1 DEF AtDir
  <1>13. CASE ReadDir(a)
    <2>1. files' = files /\ dirs' = dirs /\ known' = known
      BY <1>13 DEF ReadDir, store
    <2>2. CASE p # here
      BY <1>6, <2>1, <2>2
    <2>3. CASE p = here /\ FilesIn(DirOf(f)) = {}
      <3>1. DirOf(f) \in dirs
        BY <2>1, <2>3 DEF DirOf
      <3>2. req'[a] = [f EXCEPT !.pc = "rmdir"]
        BY <1>1, <1>13, <2>3, <3>1 DEF ReadDir
      <3> QED  BY <1>3, <2>3, <3>2
    <2>4. CASE p = here /\ FilesIn(DirOf(f)) # {}
      <3>1. PICK x \in files : <<x[1], RepoOf[x[2]]>> = DirOf(f)
        BY <2>4 DEF FilesIn
      <3>2. x[2] \in Disks /\ x = <<x[1], x[2]>> /\ x[1] = s /\ RepoOf[x[2]] = p
        BY <1>0, <2>4, <3>1 DEF DirOf
      <3> QED  BY <2>1, <3>1, <3>2 DEF Occupied
    <2> QED  BY <2>2, <2>3, <2>4
  <1>14. CASE RemoveDir(a)
    <2>1. /\ dirs' = dirs \ {DirOf(f)} /\ files' = files \ FilesIn(DirOf(f)) /\ known' = known
          /\ DirOf(f) = <<s, here>>
      BY <1>14 DEF RemoveDir, DirOf
    <2>2. p # here /\ <<s, p>> \in dirs
      BY <2>1
    <2>3. \A x \in files : RepoOf[x[2]] = p => x \in files'
      BY <2>1, <2>2 DEF FilesIn
    <2> QED  BY <1>6, <2>1, <2>2, <2>3
  <1> QED  BY <1>7, <1>8, <1>9, <1>10, <1>11, <1>12, <1>13, <1>14

\* A failing call of a create or of its clean-up; one more than can be borne, if it
\* makes the clean-up pass the directory.
LEMMA HeldFailure ==
    ASSUME OrphanInv, HeldInv, NEW a \in Requests, Building(req[a]), crashes = 0,
           NEW s, s = req[a].snap, s \notin known', NEW p \in Repos, <<s, p>> \in dirs', Borne(p)',
           CallFails(a)
    PROVE  Occupied(s, p)' \/ AtDir(req'[a], s, p)
  <1> DEFINE f == req[a]
  <1>0. /\ StoreInv /\ TypeOK /\ f \in Frame /\ WellFormed(f) /\ s \in SnapIDs
        /\ files' = files /\ dirs' = dirs /\ known' = known /\ faults \in Nat /\ faults' = faults + 1
        /\ req'[a] = Failed(f)
    BY AtCall, StoreAssumption DEF OrphanInv, StoreInv, TypeOK, WellFormed, Building, CallFails, store
  <1>1. faults = 0 /\ ~ \E d \in Repeated : RepoOf[d] = p
    BY <1>0, SMT DEF Borne
  <1>2. Borne(p) /\ s \notin known
    BY <1>0, <1>1, SMT DEF Borne
  <1>3. CASE Occupied(s, p)
    BY <1>0, <1>3 DEF Occupied
  <1>4. CASE ~ Occupied(s, p)
    <2>1. PICK r \in Requests : AtDir(req[r], s, p)
      BY <1>0, <1>2, <1>4 DEF HeldInv
    <2>2. AtDir(f, s, p)
      BY <1>0, <2>1 DEF AtDir, StoreInv, BuiltApart
    <2>3. f.pc \in OnDisk /\ f.i \in DOMAIN f.list
      BY <1>0, <2>2, AtCall DEF AtDir, OnDisk
    <2>4. ~ CleaningOf(f)
      BY <1>1, <2>2, <2>3 DEF OrphanInv, CleanInv, AtDir
    <2>5. f.pc = "reflink"
      BY <1>0, <2>2, <2>4 DEF AtDir, Building, CleaningOf, WellFormed
    <2> DEFINE g == [f EXCEPT !.pc = "unlink", !.ctx = "discard"]
    <2>6. req'[a] = g
      BY <1>0, <2>5 DEF Failed
    <2>7. g.pc = "unlink" /\ g.ctx = "discard" /\ g.snap = s /\ g.list = f.list /\ g.i = f.i
      BY <1>0, SMT DEF Frame
    <2> HIDE DEF g
    <2> QED  BY <2>2, <2>6, <2>7 DEF AtDir, Building
  <1> QED  BY <1>3, <1>4

LEMMA HeldStep ==
    ASSUME OrphanInv, HeldInv, [Next]_vars
    PROVE  HeldInv'
  <1>0. StoreInv /\ TypeOK
    BY DEF OrphanInv, StoreInv
  <1>1. CASE UNCHANGED vars
    BY <1>1 DEF vars, HeldInv, Borne, Occupied, AtDir, Building
  <1>2. CASE Crash
    <2>1. crashes' # 0
      BY <1>0, <1>2, StoreAssumption, SMT DEF TypeOK, Crash
    <2> QED  BY <2>1 DEF HeldInv
  <1>3. ASSUME NEW a \in Requests, Accept(a) \/ Advance(a) \/ CallFails(a) PROVE HeldInv'
    <2>1. /\ \A q \in Requests : q # a => req'[q] = req[q]
          /\ known \subseteq known' /\ crashes' = crashes
          /\ faults' = faults \/ faults' = faults + 1
      BY <1>0, <1>3 DEF TypeOK, Accept, Advance, Become, CallFails, store, CreateSnapshot, MakeDir, Reflink,
         ReadExtents, SaveRecord, DiscardFile, StatDir, RemoveFile, ReadDir, RemoveDir,
         DeleteSnapshot, PurgeSnapshots, PurgeNext, FetchRecord, DeleteRecord, LookupFails
    <2>2. faults \in Nat
      BY <1>0, StoreAssumption DEF TypeOK
    <2> SUFFICES ASSUME crashes' = 0, NEW s \in SnapIDs, s \notin known', NEW p \in Repos,
                        <<s, p>> \in dirs', Borne(p)'
                 PROVE  Occupied(s, p)' \/ \E r \in Requests : AtDir(req'[r], s, p)
      BY DEF HeldInv, AtDir, Building
    <2>3. CASE Building(req[a]) /\ req[a].snap = s
      <3>1. CASE CallFails(a)
        BY <2>1, <2>3, <3>1, HeldFailure
      <3>2. CASE ~ CallFails(a)
        <4>1. \/ MakeDir(a) \/ Reflink(a) \/ ReadExtents(a) \/ SaveRecord(a) \/ DiscardFile(a)
              \/ StatDir(a) \/ RemoveFile(a) \/ ReadDir(a) \/ RemoveDir(a)
          <5>1. WellFormed(req[a])
            BY <1>0, AtCall
          <5> QED  BY <1>3, <2>3, <3>2, <5>1 DEF Accept, Advance, CreateSnapshot, DeleteSnapshot,
                 PurgeSnapshots, LookupFails, PurgeNext, FetchRecord, DeleteRecord, At, WellFormed, Building
        <4> QED  BY <2>1, <2>3, <4>1, HeldCall
      <3> QED  BY <3>1, <3>2
    <2>4. CASE ~ (Building(req[a]) /\ req[a].snap = s)
      <3>1. req[a].ctx = "none" \/ req[a].snap # s
        BY <1>0, <2>1, <2>4, ContextOf DEF StoreInv, FrameInv, DeleteInv
      <3>2. /\ \A d : <<s, d>> \in files' <=> <<s, d>> \in files
            /\ \A q : <<s, q>> \in dirs' <=> <<s, q>> \in dirs
        BY <1>0, <1>3, <3>1, Away
      <3>3. Borne(p)
        BY <2>1, <2>2, SMT DEF Borne
      <3>4. CASE Occupied(s, p)
        BY <3>2, <3>4 DEF Occupied
      <3>5. CASE ~ Occupied(s, p)
        <4>1. PICK r \in Requests : AtDir(req[r], s, p)
          BY <2>1, <3>2, <3>3, <3>5 DEF HeldInv
        <4>2. req'[r] = req[r]
          BY <2>1, <2>4, <4>1 DEF AtDir
        <4> QED  BY <4>1, <4>2
      <3> QED  BY <3>4, <3>5
    <2> QED  BY <2>3, <2>4
  <1> QED  BY <1>1, <1>2, <1>3 DEF Next

\* Nor does one leave a directory of a create that was never recorded (vms.go:84-95
\* and snapshots.go:60-71), for any requests, VMs, disk lists and repositories.
THEOREM NoDirOrphaned == Spec => []NoOrphanDir
  <1>1. Init => OrphanInv /\ HeldInv
    <2> SUFFICES ASSUME Init PROVE OrphanInv /\ HeldInv
      OBVIOUS
    <2>1. files = {} /\ dirs = {} /\ \A r \in Requests : req[r].ctx = "none"
      BY DEF Init, Parked
    <2> QED  BY <2>1, StoreInvInit DEF OrphanInv, Minded, CleanInv, CleaningOf, HeldInv
  <1>2. OrphanInv /\ HeldInv /\ [Next]_vars => (OrphanInv /\ HeldInv)'
    BY OrphanStep, HeldStep
  <1>3. OrphanInv /\ HeldInv => NoOrphanDir
    <2> SUFFICES ASSUME OrphanInv, HeldInv, crashes = 0, NEW x \in dirs,
                        faults <= (IF \E d \in Repeated : RepoOf[d] = x[2] THEN 0 ELSE 1), x[1] \notin known
                 PROVE  \E r \in Requests : req[r].snap = x[1]
      BY DEF NoOrphanDir
    <2>1. x[1] \in SnapIDs /\ x[2] \in Repos /\ x = <<x[1], x[2]>>
      BY DEF OrphanInv, StoreInv, TypeOK
    <2>2. Borne(x[2])
      BY DEF Borne
    <2>3. CASE \E r \in Requests : AtDir(req[r], x[1], x[2])
      BY <2>3 DEF AtDir
    <2>4. CASE Occupied(x[1], x[2])
      <3>1. PICK d \in Disks : RepoOf[d] = x[2] /\ <<x[1], d>> \in files
        BY <2>4 DEF Occupied
      <3>2. Bearable(d)
        <4>1. CASE d \in Repeated
          <5>1. faults <= 0
            BY <2>2, <3>1, <4>1 DEF Borne
          <5> QED  BY <4>1, <5>1 DEF Bearable
        <4>2. CASE d \notin Repeated
          <5>1. faults \in Nat
            BY StoreAssumption DEF OrphanInv, StoreInv, TypeOK
          <5> QED  BY <2>2, <4>2, <5>1, SMT DEF Borne, Bearable
        <4> QED  BY <4>1, <4>2
      <3> QED  BY <2>1, <3>1, <3>2 DEF OrphanInv, Minded
    <2> QED  BY <2>1, <2>2, <2>3, <2>4 DEF HeldInv
  <1> QED  BY <1>1, <1>2, <1>3, PTL DEF Spec
=============================================================================
