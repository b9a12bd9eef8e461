------------------------- MODULE SnapshotStoreProofs -------------------------
(***************************************************************************)
(* Proofs about SnapshotStore, for any number of requests, snapshots, VMs  *)
(* and disks, any disk lists and any number of failures and crashes: its   *)
(* variables have their types, every request comes nearer to its reply,    *)
(* StoreInv is an invariant, and so are the safety properties that follow  *)
(* from it.                                                                *)
(*                                                                         *)
(* A step of a request changes the store at one snapshot only, the one its *)
(* frame works on.  If it builds that snapshot, no other request works on  *)
(* it; if it deletes it, the others that do are deletes too, and a delete  *)
(* is not disturbed by files and records going away.                       *)
(***************************************************************************)
EXTENDS SnapshotStore, TLAPS

-----------------------------------------------------------------------------
(***************************************************************************)
(* Frames.                                                                 *)
(***************************************************************************)
\* Assigning one field of a frame gives a frame.
LEMMA SetField ==
    ASSUME NEW f \in Frame
    PROVE  /\ \A x \in Locations : [f EXCEPT !.pc = x] \in Frame
           /\ \A x \in Contexts : [f EXCEPT !.ctx = x] \in Frame
           /\ \A x \in VMs \cup {Nil} : [f EXCEPT !.vm = x] \in Frame
           /\ \A x \in SnapIDs \cup {Nil} : [f EXCEPT !.snap = x] \in Frame
           /\ \A x \in Seq(Disks) : [f EXCEPT !.list = x] \in Frame
           /\ \A x \in Nat : [f EXCEPT !.i = x] \in Frame
           /\ \A x \in SUBSET SnapIDs : [f EXCEPT !.queue = x] \in Frame
  BY SMT DEF Frame

\* So do the assignments of several fields that the handlers make.
LEMMA SetCtx ==
    ASSUME NEW f \in Frame, NEW pc \in Locations, NEW ctx \in Contexts
    PROVE  [f EXCEPT !.pc = pc, !.ctx = ctx] \in Frame
  <1>1. [[f EXCEPT !.pc = pc] EXCEPT !.ctx = ctx] \in Frame
    BY SetField, Zenon
  <1> QED  BY <1>1, SMT

LEMMA SetIndex ==
    ASSUME NEW f \in Frame, NEW pc \in Locations, NEW i \in Nat
    PROVE  /\ [f EXCEPT !.pc = pc, !.i = i] \in Frame
           /\ [f EXCEPT !.i = i, !.pc = pc] \in Frame
  <1>1. [[f EXCEPT !.pc = pc] EXCEPT !.i = i] \in Frame
    BY SetField, Zenon
  <1>2. [[f EXCEPT !.i = i] EXCEPT !.pc = pc] \in Frame
    BY SetField, Zenon
  <1> QED  BY <1>1, <1>2, SMT

LEMMA SetQueue ==
    ASSUME NEW f \in Frame, NEW pc \in Locations, NEW vm \in VMs \cup {Nil},
           NEW queue \in SUBSET SnapIDs
    PROVE  [f EXCEPT !.pc = pc, !.vm = vm, !.queue = queue] \in Frame
  <1>1. [[[f EXCEPT !.pc = pc] EXCEPT !.vm = vm] EXCEPT !.queue = queue] \in Frame
    BY SetField, Zenon
  <1> QED  BY <1>1, SMT

LEMMA SetWalk ==
    ASSUME NEW f \in Frame, NEW pc \in Locations, NEW ctx \in Contexts,
           NEW list \in Seq(Disks), NEW i \in Nat
    PROVE  [f EXCEPT !.pc = pc, !.ctx = ctx, !.list = list, !.i = i] \in Frame
  <1>1. [[[[f EXCEPT !.pc = pc] EXCEPT !.ctx = ctx] EXCEPT !.list = list] EXCEPT !.i = i] \in Frame
    BY SetField, Zenon
  <1> QED  BY <1>1, SMT

LEMMA SetSnapshot ==
    ASSUME NEW f \in Frame, NEW pc \in Locations, NEW ctx \in Contexts, NEW i \in Nat,
           NEW snap \in SnapIDs \cup {Nil}, NEW list \in Seq(Disks)
    PROVE  [f EXCEPT !.pc = pc, !.ctx = ctx, !.snap = snap, !.list = list, !.i = i] \in Frame
  <1>1. [[[[[f EXCEPT !.pc = pc] EXCEPT !.ctx = ctx] EXCEPT !.snap = snap]
           EXCEPT !.list = list] EXCEPT !.i = i] \in Frame
    BY SetField, Zenon
  <1> QED  BY <1>1, SMT

LEMMA SetCreate ==
    ASSUME NEW f \in Frame, NEW pc \in Locations, NEW ctx \in Contexts,
           NEW vm \in VMs \cup {Nil}, NEW snap \in SnapIDs \cup {Nil}, NEW list \in Seq(Disks)
    PROVE  [f EXCEPT !.pc = pc, !.ctx = ctx, !.vm = vm, !.snap = snap, !.list = list] \in Frame
  <1>1. [[[[[f EXCEPT !.pc = pc] EXCEPT !.ctx = ctx] EXCEPT !.vm = vm]
           EXCEPT !.snap = snap] EXCEPT !.list = list] \in Frame
    BY SetField, Zenon
  <1> QED  BY <1>1, SMT

\* A frame whose handler has returned is well formed.
LEMMA ParkedOK ==
    ASSUME NEW code \in Codes, NEW ids \in SUBSET SnapIDs
    PROVE  /\ Parked(code, ids) \in Frame /\ WellFormed(Parked(code, ids))
           /\ Parked(code, ids).pc = "idle" /\ Parked(code, ids).ctx = "none"
  BY SMT DEF Parked, Frame, WellFormed, Locations, Contexts, OnDisk

LEMMA AnswerOK ==
    ASSUME NEW f \in Frame, NEW code \in Codes
    PROVE  /\ Answer(f, code) \in Frame /\ WellFormed(Answer(f, code))
           /\ Answer(f, code).pc = "idle" /\ Answer(f, code).ctx = "none"
  <1>1. f.asked \in SUBSET SnapIDs
    BY DEF Frame
  <1> QED  BY <1>1, ParkedOK DEF Answer

-----------------------------------------------------------------------------
(***************************************************************************)
(* What the continuations of a handler return.                             *)
(***************************************************************************)
LEMMA NextSnapshotOK ==
    ASSUME NEW f \in Frame
    PROVE  /\ NextSnapshot(f) \in Frame /\ WellFormed(NextSnapshot(f))
           /\ NextSnapshot(f).ctx = "none"
           /\ NextSnapshot(f).pc \in {"idle", "next"}
  <1>1. CASE f.queue = {}
    BY <1>1, AnswerOK DEF NextSnapshot, Codes
  <1>2. CASE f.queue # {}
    <2> DEFINE p == Parked("none", f.asked)
               g == [p EXCEPT !.pc = "next", !.vm = f.vm, !.queue = f.queue]
    <2>1. f.asked \in SUBSET SnapIDs /\ f.queue \in SUBSET SnapIDs /\ f.vm \in VMs \cup {Nil}
      BY DEF Frame
    <2>2. p \in Frame /\ p.ctx = "none"
      BY <2>1, ParkedOK DEF Codes
    <2>3. g \in Frame
      <3> HIDE DEF p
      <3>1. "next" \in Locations
        BY DEF Locations
      <3> QED  BY <2>1, <2>2, <3>1, SetQueue
    <2>4. g.pc = "next" /\ g.ctx = "none"
      <3> HIDE DEF p
      <3> QED  BY <2>2, SMT DEF Frame
    <2>5. NextSnapshot(f) = g
      BY <1>2 DEF NextSnapshot
    <2> HIDE DEF g
    <2> QED  BY <2>3, <2>4, <2>5 DEF WellFormed, OnDisk
  <1> QED  BY <1>1, <1>2

\* Walk returns a well-formed frame at the first disk of a list with one.
LEMMA WalkOK ==
    ASSUME NEW f \in Frame, NEW ctx \in {"rollback", "undo", "delete"},
           NEW list \in Seq(Disks), list # << >>, f.snap \in SnapIDs
    PROVE  LET g == Walk(f, ctx, list) IN
             /\ g \in Frame /\ WellFormed(g)
             /\ g.pc = "stat" /\ g.ctx = ctx /\ g.snap = f.snap
             /\ g.i = 1 /\ g.list = list
  <1> DEFINE g == Walk(f, ctx, list)
  <1>1. 1 \in DOMAIN list
    BY SMT
  <1>2. g \in Frame
    <2>1. "stat" \in Locations /\ ctx \in Contexts /\ 1 \in Nat
      BY DEF Locations, Contexts
    <2> QED  BY <2>1, SetWalk DEF Walk
  <1>3. g.pc = "stat" /\ g.ctx = ctx /\ g.snap = f.snap /\ g.i = 1 /\ g.list = list
    BY SMT DEF Walk, Frame
  <1> HIDE DEF g
  <1>4. WellFormed(g)
    BY <1>1, <1>3, SMT DEF WellFormed, OnDisk
  <1> QED  BY <1>2, <1>3, <1>4 DEF g

\* A prefix that is not empty.
LEMMA PrefixOK ==
    ASSUME NEW s \in Seq(Disks), NEW k \in DOMAIN s, k # 1
    PROVE  SubSeq(s, 1, k - 1) \in Seq(Disks) /\ SubSeq(s, 1, k - 1) # << >>
  <1>1. k \in 1 .. Len(s)
    OBVIOUS
  <1>2. SubSeq(s, 1, k - 1) \in Seq(Disks)
    BY <1>1, SMT
  <1>3. Len(SubSeq(s, 1, k - 1)) = k - 1
    BY <1>1, SMT
  <1> QED  BY <1>1, <1>2, <1>3, SMT

LEMMA RollbackOK ==
    ASSUME NEW f \in Frame, f.snap \in SnapIDs, f.i \in DOMAIN f.list
    PROVE  LET g == Rollback(f) IN
             /\ g \in Frame /\ WellFormed(g) /\ g.pc \in {"idle", "stat"}
             /\ g.ctx = "none" \/ (g.ctx = "rollback" /\ g.snap = f.snap)
  <1>1. CASE f.i = 1
    <2>1. Rollback(f) = Answer(f, "error") /\ "error" \in Codes
      BY <1>1 DEF Rollback, Codes
    <2> QED  BY <2>1, AnswerOK
  <1>2. CASE f.i # 1
    <2> DEFINE list == SubSeq(f.list, 1, f.i - 1)
    <2>1. list \in Seq(Disks) /\ list # << >>
      BY <1>2, PrefixOK DEF Frame
    <2>2. Rollback(f) = Walk(f, "rollback", list)
      BY <1>2 DEF Rollback
    <2> HIDE DEF list
    <2> QED  BY <2>1, <2>2, WalkOK
  <1> QED  BY <1>1, <1>2

LEMMA UndoOK ==
    ASSUME NEW f \in Frame, f.snap \in SnapIDs
    PROVE  LET g == Undo(f) IN
             /\ g \in Frame /\ WellFormed(g) /\ g.pc \in {"idle", "stat"}
             /\ g.ctx = "none" \/ (g.ctx = "undo" /\ g.snap = f.snap)
  <1>1. CASE f.list = << >>
    <2>1. Undo(f) = Answer(f, "error") /\ "error" \in Codes
      BY <1>1 DEF Undo, Codes
    <2> QED  BY <2>1, AnswerOK
  <1>2. CASE f.list # << >>
    <2>1. f.list \in Seq(Disks)
      BY DEF Frame
    <2>2. Undo(f) = Walk(f, "undo", f.list)
      BY <1>2 DEF Undo
    <2> QED  BY <1>2, <2>1, <2>2, WalkOK
  <1> QED  BY <1>1, <1>2

\* The walk goes on to the next disk, to the record, or ends.  In a delete the
\* index moves past disk f.i and nothing else that FrameInv reads changes.
LEMMA NextDiskOK ==
    ASSUME NEW f \in Frame, WellFormed(f), f.pc \in OnDisk, f.ctx # "create"
    PROVE  LET g == NextDisk(f) IN
             /\ g \in Frame /\ WellFormed(g) /\ g.pc \in {"idle", "stat", "fetch"}
             /\ \/ g.ctx = "none"
                \/ g.ctx = f.ctx /\ g.snap = f.snap /\ g.list = f.list /\ g.i = f.i + 1
                \/ f.ctx = "discard" /\ g.ctx = "rollback" /\ g.snap = f.snap
  <1>1. f.snap \in SnapIDs /\ f.i \in DOMAIN f.list /\ f.i \in Nat /\ f.list \in Seq(Disks)
    BY SMT DEF WellFormed, OnDisk, Frame
  <1>2. f.i \in 1 .. Len(f.list)
    BY <1>1
  <1>3. CASE f.ctx = "discard"
    <2>1. NextDisk(f) = Rollback(f)
      BY <1>3 DEF NextDisk
    <2> QED  BY <1>1, <1>3, <2>1, RollbackOK
  <1>4. CASE f.ctx # "discard" /\ f.i < Len(f.list)
    <2> DEFINE g == [f EXCEPT !.pc = "stat", !.i = f.i + 1]
    <2>1. NextDisk(f) = g
      BY <1>4, <1>1 DEF NextDisk
    <2>2. g \in Frame
      <3>1. "stat" \in Locations /\ f.i + 1 \in Nat
        BY <1>1, SMT DEF Locations
      <3> QED  BY <3>1, SetIndex
    <2>3. g.pc = "stat" /\ g.ctx = f.ctx /\ g.snap = f.snap /\ g.list = f.list /\ g.i = f.i + 1
      BY SMT DEF Frame
    <2>4. f.i + 1 \in DOMAIN f.list
      BY <1>1, <1>2, <1>4, SMT
    <2> HIDE DEF g
    <2>5. WellFormed(g)
      <3>1. f.ctx # "none"
        BY SMT DEF WellFormed, OnDisk
      <3> QED  BY <1>1, <1>4, <2>3, <2>4, <3>1, SMT DEF WellFormed, OnDisk
    <2> QED  BY <2>1, <2>2, <2>3, <2>5
  <1>5. CASE f.ctx = "delete" /\ ~ (f.i < Len(f.list))
    <2> DEFINE g == [f EXCEPT !.pc = "fetch", !.i = f.i + 1]
    <2>1. NextDisk(f) = g
      BY <1>5, <1>1 DEF NextDisk
    <2>2. g \in Frame
      <3>1. "fetch" \in Locations /\ f.i + 1 \in Nat
        BY <1>1, SMT DEF Locations
      <3> QED  BY <3>1, SetIndex
    <2>3. g.pc = "fetch" /\ g.ctx = f.ctx /\ g.snap = f.snap /\ g.list = f.list /\ g.i = f.i + 1
      BY SMT DEF Frame
    <2>4. f.i + 1 = Len(f.list) + 1
      BY <1>1, <1>2, <1>5, SMT
    <2> HIDE DEF g
    <2>5. WellFormed(g)
      BY <1>1, <1>5, <2>3, <2>4, SMT DEF WellFormed, OnDisk
    <2> QED  BY <2>1, <2>2, <2>3, <2>5
  <1>6. CASE f.ctx \notin {"discard", "delete"} /\ ~ (f.i < Len(f.list))
    <2>1. NextDisk(f) = Answer(f, "error") /\ "error" \in Codes
      BY <1>6 DEF NextDisk, Codes
    <2> QED  BY <2>1, AnswerOK
  <1> QED  BY <1>3, <1>4, <1>5, <1>6

\* A delete gives up at the first disk it cannot delete.
LEMMA DiskFailedOK ==
    ASSUME NEW f \in Frame, WellFormed(f), f.pc \in OnDisk, f.ctx # "create"
    PROVE  LET g == DiskFailed(f) IN
             /\ g \in Frame /\ WellFormed(g) /\ g.pc \in {"idle", "stat", "fetch"}
             /\ \/ g.ctx = "none"
                \/ f.ctx \in {"discard", "rollback"} /\ g.ctx = "rollback" /\ g.snap = f.snap
  <1>1. CASE f.ctx \in {"discard", "rollback"}
    <2>1. DiskFailed(f) = NextDisk(f)
      BY <1>1 DEF DiskFailed
    <2>2. NextDisk(f).ctx # "discard"
      BY <1>1, NextDiskOK DEF WellFormed, OnDisk
    <2> QED  BY <1>1, <2>1, <2>2, NextDiskOK
  <1>2. CASE f.ctx \notin {"discard", "rollback"}
    <2>1. DiskFailed(f) = Answer(f, "error") /\ "error" \in Codes
      BY <1>2 DEF DiskFailed, Codes
    <2> QED  BY <2>1, AnswerOK
  <1> QED  BY <1>1, <1>2

\* DeleteSnapshot starts at the first disk of the record, or is done.
LEMMA BeginDeleteOK ==
    ASSUME NEW f \in Frame, f.ctx = "none", NEW s \in SnapIDs,
           db \in [SnapIDs -> Record \cup {Nil}]
    PROVE  LET g == BeginDelete(f, s) IN
             /\ g \in Frame /\ WellFormed(g) /\ g.pc \in {"idle", "next", "stat", "fetch"}
             /\ \/ g.ctx = "none"
                \/ /\ db[s] # Nil /\ g.ctx = "delete" /\ g.snap = s
                   /\ g.list = db[s].disks /\ g.i = 1
  <1>1. CASE db[s] = Nil
    <2>1. BeginDelete(f, s) = NextSnapshot(f)
      BY <1>1 DEF BeginDelete
    <2> QED  BY <2>1, NextSnapshotOK
  <1>2. CASE db[s] # Nil /\ db[s].vm # f.vm
    <2>1. BeginDelete(f, s) = Answer(f, "conflict") /\ "conflict" \in Codes
      BY <1>2 DEF BeginDelete, Codes
    <2> QED  BY <2>1, AnswerOK
  <1>3. ASSUME db[s] # Nil, db[s].vm = f.vm
        PROVE  LET g == BeginDelete(f, s) IN
                 /\ g \in Frame /\ WellFormed(g) /\ g.pc \in {"stat", "fetch"}
                 /\ g.ctx = "delete" /\ g.snap = s /\ g.list = db[s].disks /\ g.i = 1
    <2> DEFINE list == db[s].disks
    <2>1. list \in Seq(Disks)
      BY <1>3 DEF Record
    <2>2. CASE list = << >>
      <3> DEFINE g == [f EXCEPT !.pc = "fetch", !.ctx = "delete", !.snap = s,
                                !.list = << >>, !.i = 1]
      <3>1. BeginDelete(f, s) = g
        BY <1>3, <2>2 DEF BeginDelete
      <3>2. g \in Frame
        <4>1. "fetch" \in Locations /\ "delete" \in Contexts /\ << >> \in Seq(Disks) /\ 1 \in Nat
          BY <2>1, <2>2 DEF Locations, Contexts
        <4> QED  BY <4>1, SetSnapshot
      <3>3. g.pc = "fetch" /\ g.ctx = "delete" /\ g.snap = s /\ g.list = << >> /\ g.i = 1
        BY SMT DEF Frame
      <3> HIDE DEF g
      <3>4. WellFormed(g)
        BY <3>3, SMT DEF WellFormed, OnDisk
      <3> QED  BY <2>2, <3>1, <3>2, <3>3, <3>4
    <2>3. CASE list # << >>
      <3> DEFINE h == [f EXCEPT !.snap = s]
                 g == Walk(h, "delete", list)
      <3>1. BeginDelete(f, s) = g
        BY <1>3, <2>3 DEF BeginDelete
      <3>2. h \in Frame
        BY SetField
      <3>3. h.snap = s
        BY SMT DEF Frame
      <3> HIDE DEF h
      <3> QED  BY <2>1, <2>3, <3>1, <3>2, <3>3, WalkOK
    <2> QED  BY <2>2, <2>3
  <1> QED  BY <1>1, <1>2, <1>3

\* A failing call makes a create clean up, and ends a delete unless the call
\* was the RemoveAll, whose error is not looked at.
LEMMA FailedOK ==
    ASSUME NEW f \in Frame, WellFormed(f), f.pc # "idle"
    PROVE  LET g == Failed(f) IN
             /\ g \in Frame /\ WellFormed(g) /\ g.pc # "rmdir"
             /\ \/ g.ctx = "none"
                \/ /\ Building(f) /\ g.ctx \in {"discard", "rollback", "undo"}
                   /\ g.snap = f.snap
                \/ /\ f.pc = "rmdir" /\ f.ctx = "delete" /\ g.ctx = "delete" /\ g.pc # "readdir"
                   /\ g.snap = f.snap /\ g.list = f.list /\ g.i = f.i + 1
  <1> DEFINE g == Failed(f)
  <1>1. CASE f.pc = "mkdir"
    <2>1. g = Rollback(f)
      BY <1>1 DEF Failed
    <2>2. f.snap \in SnapIDs /\ f.i \in DOMAIN f.list /\ Building(f)
      BY <1>1 DEF WellFormed, OnDisk, Building
    <2> QED  BY <2>1, <2>2, RollbackOK
  <1>2. CASE f.pc \in {"reflink", "extents"}
    <2> DEFINE h == [f EXCEPT !.pc = "unlink", !.ctx = "discard"]
    <2>1. g = h
      BY <1>2 DEF Failed
    <2>2. h \in Frame
      <3>1. "unlink" \in Locations /\ "discard" \in Contexts
        BY DEF Locations, Contexts
      <3> QED  BY <3>1, SetCtx
    <2>3. h.pc = "unlink" /\ h.ctx = "discard" /\ h.snap = f.snap /\ h.i = f.i /\ h.list = f.list
      BY SMT DEF Frame
    <2>4. f.snap \in SnapIDs /\ f.i \in DOMAIN f.list /\ Building(f)
      BY <1>2 DEF WellFormed, OnDisk, Building
    <2> HIDE DEF h
    <2>5. WellFormed(h)
      BY <2>3, <2>4 DEF WellFormed, OnDisk
    <2> QED  BY <2>1, <2>2, <2>3, <2>4, <2>5
  <1>3. CASE f.pc = "unlink"
    <2> DEFINE h == [f EXCEPT !.pc = "readdir"]
    <2>1. g = h
      BY <1>3 DEF Failed
    <2>2. h \in Frame
      BY SetField DEF Locations
    <2>3. h.pc = "readdir" /\ h.ctx = f.ctx /\ h.snap = f.snap /\ h.i = f.i /\ h.list = f.list
      BY SMT DEF Frame
    <2>4. f.snap \in SnapIDs /\ f.i \in DOMAIN f.list /\ f.ctx = "discard"
      BY <1>3 DEF WellFormed, OnDisk
    <2> HIDE DEF h
    <2>5. WellFormed(h)
      BY <2>3, <2>4 DEF WellFormed, OnDisk
    <2> QED  BY <2>1, <2>2, <2>3, <2>4, <2>5 DEF Building
  <1>4. CASE f.pc \in {"stat", "remove", "readdir"}
    <2>1. g = DiskFailed(f)
      BY <1>4 DEF Failed
    <2>2. f.pc \in OnDisk /\ f.ctx # "create"
      BY <1>4 DEF WellFormed, OnDisk
    <2> QED  BY <2>1, <2>2, DiskFailedOK DEF Building
  <1>5. CASE f.pc = "rmdir"
    <2>1. g = NextDisk(f)
      BY <1>5 DEF Failed
    <2>2. f.pc \in OnDisk /\ f.ctx \notin {"create", "none"}
      BY <1>5 DEF WellFormed, OnDisk
    <2>3. f.ctx \in {"discard", "rollback", "undo", "delete"}
      BY <2>2, SMT DEF Frame, Contexts
    <2>4. NextDisk(f).ctx # "discard"
      <3>1. CASE f.ctx = "discard"
        <4>1. NextDisk(f) = Rollback(f) /\ f.snap \in SnapIDs /\ f.i \in DOMAIN f.list
          BY <3>1, <2>2 DEF NextDisk, WellFormed
        <4> QED  BY <4>1, RollbackOK
      <3>2. CASE f.ctx # "discard"
        BY <2>2, <3>2, NextDiskOK
      <3> QED  BY <3>1, <3>2
    <2> QED  BY <1>5, <2>1, <2>2, <2>3, <2>4, NextDiskOK DEF Building
  <1>6. CASE f.pc = "save"
    <2>1. g = Undo(f)
      BY <1>6 DEF Failed
    <2>2. f.snap \in SnapIDs /\ Building(f)
      BY <1>6 DEF WellFormed, Building
    <2> QED  BY <2>1, <2>2, UndoOK
  <1>7. CASE f.pc \in {"fetch", "dbdelete", "next"}
    <2>1. g = Answer(f, "error") /\ "error" \in Codes
      BY <1>7 DEF Failed, Codes
    <2> QED  BY <2>1, AnswerOK
  <1>8. f.pc \in Locations
    BY DEF Frame
  <1> QED  BY <1>1, <1>2, <1>3, <1>4, <1>5, <1>6, <1>7, <1>8 DEF Locations

-----------------------------------------------------------------------------
(***************************************************************************)
(* Type correctness.                                                       *)
(***************************************************************************)
StoreTypes ==
    /\ files \subseteq SnapIDs \X Disks
    /\ dirs \subseteq SnapIDs \X Repos
    /\ db \in [SnapIDs -> Record \cup {Nil}]
    /\ minted \subseteq SnapIDs /\ known \subseteq SnapIDs

\* A request may become any well-formed frame.
LEMMA BecomeTypes ==
    ASSUME TypeOK, StoreTypes', NEW r \in Requests, NEW g \in Frame, WellFormed(g), Become(r, g)
    PROVE  TypeOK'
  <1>1. req' = [req EXCEPT ![r] = g] /\ faults' = faults /\ crashes' = crashes
    BY DEF Become
  <1>2. req' \in [Requests -> Frame]
    BY <1>1 DEF TypeOK
  <1>3. \A q \in Requests : WellFormed(req'[q])
    BY <1>1 DEF TypeOK
  <1>4. \A q \in Requests : WellFormed(req[q])'
    BY <1>3 DEF WellFormed
  <1> QED  BY <1>1, <1>2, <1>4 DEF TypeOK, StoreTypes

\* The frame, the snapshot and the disk of a request that is about to make a call.
LEMMA AtCall ==
    ASSUME TypeOK, NEW r \in Requests
    PROVE  /\ req[r] \in Frame /\ WellFormed(req[r])
           /\ ~ (At(r, "idle") \/ At(r, "next")) => req[r].snap \in SnapIDs
           /\ req[r].pc \in OnDisk =>
                /\ req[r].i \in DOMAIN req[r].list
                /\ FileOf(req[r]) \in SnapIDs \X Disks
                /\ DirOf(req[r]) \in SnapIDs \X Repos
  <1>1. req[r] \in Frame /\ WellFormed(req[r])
    BY DEF TypeOK
  <1>2. ~ (At(r, "idle") \/ At(r, "next")) => req[r].snap \in SnapIDs
    BY <1>1 DEF WellFormed, At
  <1>3. ASSUME req[r].pc \in OnDisk
        PROVE  /\ req[r].i \in DOMAIN req[r].list
               /\ FileOf(req[r]) \in SnapIDs \X Disks
               /\ DirOf(req[r]) \in SnapIDs \X Repos
    <2>1. req[r].i \in DOMAIN req[r].list
      BY <1>1, <1>3 DEF WellFormed
    <2>2. req[r].list \in Seq(Disks)
      BY <1>1 DEF Frame
    <2>3. req[r].list[req[r].i] \in Disks
      BY <2>1, <2>2
    <2>4. RepoOf[req[r].list[req[r].i]] \in Repos
      BY <2>3, StoreAssumption
    <2>5. req[r].snap \in SnapIDs
      BY <1>1, <1>3 DEF WellFormed, OnDisk
    <2> QED  BY <2>1, <2>3, <2>4, <2>5 DEF FileOf, DirOf
  <1> QED  BY <1>1, <1>2, <1>3

\* The frames that the steps of a create lead to.
LEMMA CreateFrames ==
    ASSUME NEW f \in Frame, WellFormed(f)
    PROVE  /\ f.pc = "mkdir" =>
                LET g == [f EXCEPT !.pc = "reflink"] IN g \in Frame /\ WellFormed(g)
           /\ f.pc = "reflink" =>
                /\ LET g == [f EXCEPT !.pc = "unlink", !.ctx = "discard"] IN g \in Frame /\ WellFormed(g)
                /\ LET g == [f EXCEPT !.pc = "extents"] IN g \in Frame /\ WellFormed(g)
           /\ f.pc = "extents" =>
                LET g == [f EXCEPT !.i = f.i + 1, !.pc = IF f.i = Len(f.list) THEN "save" ELSE "mkdir"]
                IN  g \in Frame /\ WellFormed(g)
           /\ f.pc = "unlink" =>
                LET g == [f EXCEPT !.pc = "readdir"] IN g \in Frame /\ WellFormed(g)
  <1>1. ASSUME NEW g, g \in Frame, g.snap = f.snap, g.vm = f.vm, g.list = f.list, g.i = f.i,
               f.pc \in OnDisk,
               \/ f.ctx = "create" /\ g.ctx = "create" /\ g.pc \in {"reflink", "extents"}
               \/ g.ctx = "discard" /\ g.pc \in {"unlink", "readdir"}
        PROVE  WellFormed(g)
    BY <1>1 DEF WellFormed, OnDisk
  <1>2. ASSUME f.pc = "mkdir"
        PROVE  LET g == [f EXCEPT !.pc = "reflink"] IN g \in Frame /\ WellFormed(g)
    <2> DEFINE g == [f EXCEPT !.pc = "reflink"]
    <2>1. g \in Frame
      BY SetField DEF Locations
    <2>2. /\ g.snap = f.snap /\ g.vm = f.vm /\ g.list = f.list /\ g.i = f.i
          /\ g.pc = "reflink" /\ g.ctx = f.ctx
      BY SMT DEF Frame
    <2>3. f.ctx = "create" /\ f.pc \in OnDisk
      BY <1>2 DEF WellFormed, OnDisk
    <2> QED  BY <1>1, <2>1, <2>2, <2>3
  <1>3. ASSUME f.pc = "reflink"
        PROVE  LET g == [f EXCEPT !.pc = "unlink", !.ctx = "discard"] IN g \in Frame /\ WellFormed(g)
    <2> DEFINE g == [f EXCEPT !.pc = "unlink", !.ctx = "discard"]
    <2>1. g \in Frame
      <3>1. "unlink" \in Locations /\ "discard" \in Contexts
        BY DEF Locations, Contexts
      <3> QED  BY <3>1, SetCtx
    <2>2. /\ g.snap = f.snap /\ g.vm = f.vm /\ g.list = f.list /\ g.i = f.i
          /\ g.pc = "unlink" /\ g.ctx = "discard"
      BY SMT DEF Frame
    <2> QED  BY <1>1, <1>3, <2>1, <2>2 DEF OnDisk
  <1>4. ASSUME f.pc = "reflink"
        PROVE  LET g == [f EXCEPT !.pc = "extents"] IN g \in Frame /\ WellFormed(g)
    <2> DEFINE g == [f EXCEPT !.pc = "extents"]
    <2>1. g \in Frame
      BY SetField DEF Locations
    <2>2. /\ g.snap = f.snap /\ g.vm = f.vm /\ g.list = f.list /\ g.i = f.i
          /\ g.pc = "extents" /\ g.ctx = f.ctx
      BY SMT DEF Frame
    <2>3. f.ctx = "create" /\ f.pc \in OnDisk
      BY <1>4 DEF WellFormed, OnDisk
    <2> QED  BY <1>1, <2>1, <2>2, <2>3
  <1>5. ASSUME f.pc = "unlink"
        PROVE  LET g == [f EXCEPT !.pc = "readdir"] IN g \in Frame /\ WellFormed(g)
    <2> DEFINE g == [f EXCEPT !.pc = "readdir"]
    <2>1. g \in Frame
      BY SetField DEF Locations
    <2>2. /\ g.snap = f.snap /\ g.vm = f.vm /\ g.list = f.list /\ g.i = f.i
          /\ g.pc = "readdir" /\ g.ctx = f.ctx
      BY SMT DEF Frame
    <2>3. f.ctx = "discard" /\ f.pc \in OnDisk
      BY <1>5 DEF WellFormed, OnDisk
    <2> QED  BY <1>1, <2>1, <2>2, <2>3
  <1>6. ASSUME f.pc = "extents"
        PROVE  LET g == [f EXCEPT !.i = f.i + 1, !.pc = IF f.i = Len(f.list) THEN "save" ELSE "mkdir"]
               IN  g \in Frame /\ WellFormed(g)
    <2> DEFINE pc == IF f.i = Len(f.list) THEN "save" ELSE "mkdir"
               g  == [f EXCEPT !.i = f.i + 1, !.pc = pc]
    <2>1. pc \in Locations /\ f.i + 1 \in Nat
      BY SMT DEF Locations, Frame
    <2>2. /\ f.ctx = "create" /\ f.snap \in SnapIDs /\ f.vm \in VMs
          /\ f.i \in DOMAIN f.list /\ f.list \in Seq(Disks)
      BY <1>6 DEF WellFormed, OnDisk, Frame
    <2>3. \/ pc = "save" /\ f.i + 1 = Len(f.list) + 1
          \/ pc = "mkdir" /\ f.i + 1 \in DOMAIN f.list
      BY <2>2, SMT
    <2> HIDE DEF pc
    <2>4. g \in Frame
      BY <2>1, SetIndex
    <2>5. /\ g.snap = f.snap /\ g.vm = f.vm /\ g.list = f.list /\ g.i = f.i + 1
          /\ g.pc = pc /\ g.ctx = f.ctx
      BY SMT DEF Frame
    <2> HIDE DEF g
    <2>6. WellFormed(g)
      BY <2>2, <2>3, <2>5 DEF WellFormed, OnDisk
    <2> QED  BY <2>4, <2>6 DEF g, pc
  <1> QED  BY <1>2, <1>3, <1>4, <1>5, <1>6

\* The frames that the steps of a delete lead to, the walk aside.
LEMMA DeleteFrames ==
    ASSUME NEW f \in Frame, WellFormed(f)
    PROVE  /\ f.pc = "stat" =>
                LET g == [f EXCEPT !.pc = "remove"] IN g \in Frame /\ WellFormed(g)
           /\ f.pc = "remove" =>
                LET g == [f EXCEPT !.pc = "readdir"] IN g \in Frame /\ WellFormed(g)
           /\ f.pc = "readdir" =>
                LET g == [f EXCEPT !.pc = "rmdir"] IN g \in Frame /\ WellFormed(g)
           /\ f.pc = "fetch" =>
                LET g == [f EXCEPT !.pc = "dbdelete"] IN g \in Frame /\ WellFormed(g)
  <1>1. ASSUME NEW pc \in {"remove", "readdir", "rmdir", "dbdelete"}
        PROVE  LET g == [f EXCEPT !.pc = pc] IN
                 /\ g \in Frame /\ g.pc = pc /\ g.ctx = f.ctx /\ g.snap = f.snap
                 /\ g.vm = f.vm /\ g.list = f.list /\ g.i = f.i
    <2> DEFINE g == [f EXCEPT !.pc = pc]
    <2>1. pc \in Locations
      BY DEF Locations
    <2>2. g \in Frame
      BY <2>1, SetField
    <2>3. g.pc = pc /\ g.ctx = f.ctx /\ g.snap = f.snap /\ g.vm = f.vm /\ g.list = f.list /\ g.i = f.i
      BY SMT DEF Frame
    <2> QED  BY <2>2, <2>3
  <1>2. ASSUME f.pc = "stat" \/ f.pc = "remove" \/ f.pc = "readdir" \/ f.pc = "fetch",
               NEW g, g.ctx = f.ctx, g.snap = f.snap, g.vm = f.vm, g.list = f.list, g.i = f.i,
               g.pc = IF f.pc = "stat" THEN "remove" ELSE IF f.pc = "remove" THEN "readdir"
                      ELSE IF f.pc = "readdir" THEN "rmdir" ELSE "dbdelete"
        PROVE  WellFormed(g)
    BY <1>2 DEF WellFormed, OnDisk
  <1>3. f.pc = "stat" => LET g == [f EXCEPT !.pc = "remove"] IN g \in Frame /\ WellFormed(g)
    BY <1>1, <1>2
  <1>4. f.pc = "remove" => LET g == [f EXCEPT !.pc = "readdir"] IN g \in Frame /\ WellFormed(g)
    BY <1>1, <1>2
  <1>5. f.pc = "readdir" => LET g == [f EXCEPT !.pc = "rmdir"] IN g \in Frame /\ WellFormed(g)
    BY <1>1, <1>2
  <1>6. f.pc = "fetch" => LET g == [f EXCEPT !.pc = "dbdelete"] IN g \in Frame /\ WellFormed(g)
    BY <1>1, <1>2
  <1> QED  BY <1>3, <1>4, <1>5, <1>6

\* The frame of a create that has read the VM's disks.
StartCreate(v, s, list) ==
    [Parked("none", {}) EXCEPT
       !.pc = IF list = << >> THEN "save" ELSE "mkdir",
       !.ctx = "create", !.vm = v, !.snap = s, !.list = list]

LEMMA StartCreateOK ==
    ASSUME NEW v \in VMs, NEW s \in SnapIDs, NEW list \in Seq(Disks)
    PROVE  LET g == StartCreate(v, s, list) IN
             /\ g \in Frame /\ WellFormed(g) /\ g.pc \in {"save", "mkdir"}
             /\ g.ctx = "create" /\ g.vm = v /\ g.snap = s /\ g.list = list /\ g.i = 1
  <1> DEFINE f  == Parked("none", {})
             pc == IF list = << >> THEN "save" ELSE "mkdir"
             g  == [f EXCEPT !.pc = pc, !.ctx = "create", !.vm = v, !.snap = s, !.list = list]
  <1>1. f \in Frame
    BY ParkedOK DEF Codes
  <1>2. f.i = 1
    BY DEF Parked
  <1>3. pc \in Locations /\ pc \in {"save", "mkdir"} /\ "create" \in Contexts
    BY DEF Locations, Contexts
  <1>4. \/ pc = "save" /\ Len(list) + 1 = 1
        \/ pc = "mkdir" /\ 1 \in DOMAIN list
    BY SMT
  <1>5. StartCreate(v, s, list) = g
    BY DEF StartCreate
  <1> HIDE DEF pc, f
  <1>6. g \in Frame
    BY <1>1, <1>3, SetCreate
  <1>7. g.pc = pc /\ g.ctx = "create" /\ g.vm = v /\ g.snap = s /\ g.list = list /\ g.i = 1
    BY <1>1, <1>2, SMT DEF Frame
  <1> HIDE DEF g
  <1>8. WellFormed(g)
    BY <1>3, <1>4, <1>7 DEF WellFormed, OnDisk
  <1> QED  BY <1>3, <1>5, <1>6, <1>7, <1>8

LEMMA TypeOKInit ==
    Init => TypeOK
  <1> SUFFICES ASSUME Init PROVE TypeOK
    OBVIOUS
  <1>1. Parked("none", {}) \in Frame /\ WellFormed(Parked("none", {}))
    BY ParkedOK DEF Codes
  <1>2. req \in [Requests -> Frame] /\ \A r \in Requests : WellFormed(req[r])
    BY <1>1 DEF Init
  <1>3. faults \in 0 .. MaxFaults /\ crashes \in 0 .. MaxCrashes
    BY StoreAssumption, SMT DEF Init
  <1> QED  BY <1>2, <1>3 DEF Init, TypeOK

LEMMA TypeOKCreates ==
    ASSUME TypeOK, NEW r \in Requests,
           \/ CreateSnapshot(r) \/ MakeDir(r) \/ Reflink(r)
           \/ ReadExtents(r) \/ SaveRecord(r) \/ DiscardFile(r)
    PROVE  TypeOK'
  <1> DEFINE f == req[r]
  <1>0. f \in Frame /\ WellFormed(f) /\ StoreTypes
    BY AtCall DEF TypeOK, StoreTypes
  <1>1. CASE CreateSnapshot(r)
    <2>1. PICK v \in VMs, s \in SnapIDs \ minted : \E list \in DiskLists[v] :
            /\ minted' = minted \cup {s}
            /\ Become(r, IF \A j \in DOMAIN list : list[j] \in Cloneable
                         THEN StartCreate(v, s, list) ELSE Parked("badrequest", {}))
      BY <1>1 DEF CreateSnapshot, StartCreate
    <2>2. PICK list \in DiskLists[v] :
            /\ minted' = minted \cup {s}
            /\ Become(r, IF \A j \in DOMAIN list : list[j] \in Cloneable
                         THEN StartCreate(v, s, list) ELSE Parked("badrequest", {}))
      BY <2>1
    <2>3. list \in Seq(Disks)
      BY StoreAssumption
    <2>4. StartCreate(v, s, list) \in Frame /\ WellFormed(StartCreate(v, s, list))
      BY <2>3, StartCreateOK
    <2>5. Parked("badrequest", {}) \in Frame /\ WellFormed(Parked("badrequest", {}))
      BY ParkedOK DEF Codes
    <2>6. StoreTypes'
      BY <1>0, <1>1, <2>2 DEF CreateSnapshot, StoreTypes
    <2> QED  BY <2>2, <2>4, <2>5, <2>6, BecomeTypes
  <1>2. CASE MakeDir(r)
    <2>1. DirOf(f) \in SnapIDs \X Repos
      BY <1>2, AtCall DEF MakeDir, At, OnDisk
    <2>2. StoreTypes'
      BY <1>0, <1>2, <2>1 DEF MakeDir, StoreTypes
    <2> QED  BY <1>0, <1>2, <2>2, CreateFrames, BecomeTypes DEF MakeDir, At
  <1>3. CASE Reflink(r)
    <2>1. FileOf(f) \in SnapIDs \X Disks
      BY <1>3, AtCall DEF Reflink, At, OnDisk
    <2>2. StoreTypes'
      BY <1>0, <1>3, <2>1 DEF Reflink, StoreTypes
    <2> QED  BY <1>0, <1>3, <2>2, CreateFrames, BecomeTypes DEF Reflink, At
  <1>4. CASE ReadExtents(r)
    <2>1. StoreTypes'
      BY <1>0, <1>4 DEF ReadExtents, StoreTypes, store
    <2> QED  BY <1>0, <1>4, <2>1, CreateFrames, BecomeTypes DEF ReadExtents, At
  <1>5. CASE SaveRecord(r)
    <2>1. f.snap \in SnapIDs /\ f.vm \in VMs /\ f.list \in Seq(Disks)
      BY <1>0, <1>5 DEF SaveRecord, At, WellFormed, Frame
    <2>2. [vm |-> f.vm, disks |-> f.list] \in Record
      BY <2>1 DEF Record
    <2>3. StoreTypes'
      BY <1>0, <1>5, <2>1, <2>2 DEF SaveRecord, StoreTypes
    <2>4. "ok" \in Codes
      BY DEF Codes
    <2> QED  BY <1>0, <1>5, <2>3, <2>4, AnswerOK, BecomeTypes DEF SaveRecord
  <1>6. CASE DiscardFile(r)
    <2>1. StoreTypes'
      BY <1>0, <1>6 DEF DiscardFile, StoreTypes
    <2> QED  BY <1>0, <1>6, <2>1, CreateFrames, BecomeTypes DEF DiscardFile, At
  <1> QED  BY <1>1, <1>2, <1>3, <1>4, <1>5, <1>6

\* The calls of DiskSnapshot.DeleteSnapshot are made in the middle of a walk.
LEMMA AtWalk ==
    ASSUME TypeOK, NEW r \in Requests, req[r].pc \in {"stat", "remove", "readdir", "rmdir"}
    PROVE  req[r].pc \in OnDisk /\ req[r].ctx \notin {"create", "none"}
  BY AtCall DEF WellFormed, OnDisk

LEMMA TypeOKWalks ==
    ASSUME TypeOK, NEW r \in Requests,
           StatDir(r) \/ RemoveFile(r) \/ ReadDir(r) \/ RemoveDir(r)
    PROVE  TypeOK'
  <1> DEFINE f == req[r]
  <1>0. f \in Frame /\ WellFormed(f) /\ StoreTypes
    BY AtCall DEF TypeOK, StoreTypes
  <1>1. f.pc \in OnDisk /\ f.ctx # "create"
    BY AtWalk DEF StatDir, RemoveFile, ReadDir, RemoveDir, At
  <1>2. NextDisk(f) \in Frame /\ WellFormed(NextDisk(f))
    BY <1>0, <1>1, NextDiskOK
  <1>3. DiskFailed(f) \in Frame /\ WellFormed(DiskFailed(f))
    BY <1>0, <1>1, DiskFailedOK
  <1>4. StoreTypes'
    BY <1>0 DEF StatDir, RemoveFile, ReadDir, RemoveDir, StoreTypes, store
  <1>5. CASE StatDir(r)
    BY <1>0, <1>2, <1>4, <1>5, DeleteFrames, BecomeTypes DEF StatDir, At
  <1>6. CASE RemoveFile(r)
    BY <1>0, <1>3, <1>4, <1>6, DeleteFrames, BecomeTypes DEF RemoveFile, At
  <1>7. CASE ReadDir(r)
    BY <1>0, <1>2, <1>3, <1>4, <1>7, DeleteFrames, BecomeTypes DEF ReadDir, At
  <1>8. CASE RemoveDir(r)
    BY <1>2, <1>4, <1>8, BecomeTypes DEF RemoveDir
  <1> QED  BY <1>5, <1>6, <1>7, <1>8

\* The frames from which BeginDelete is called.
LEMMA ToDelete ==
    ASSUME TypeOK
    PROVE  /\ \A v \in VMs, s \in SnapIDs :
                LET f == [Parked("none", {s}) EXCEPT !.vm = v] IN f \in Frame /\ f.ctx = "none"
           /\ \A v \in VMs : \A ids \in SUBSET SnapIDs :
                [Parked("none", ids) EXCEPT !.vm = v, !.queue = ids] \in Frame
           /\ \A r \in Requests, s \in SnapIDs :
                LET f == [req[r] EXCEPT !.queue = @ \ {s}] IN
                  f \in Frame /\ (At(r, "next") => f.ctx = "none")
  <1>1. ASSUME NEW v \in VMs, NEW ids \in SUBSET SnapIDs
        PROVE  LET f == [Parked("none", ids) EXCEPT !.vm = v] IN
                 f \in Frame /\ f.ctx = "none" /\ [f EXCEPT !.queue = ids] \in Frame
    <2> DEFINE p == Parked("none", ids)
    <2>1. p \in Frame /\ p.ctx = "none"
      BY ParkedOK DEF Codes
    <2> HIDE DEF p
    <2>2. [p EXCEPT !.vm = v] \in Frame /\ [p EXCEPT !.vm = v].ctx = "none"
      BY <2>1, SetField, SMT DEF Frame
    <2>3. [[p EXCEPT !.vm = v] EXCEPT !.queue = ids] \in Frame
      BY <2>2, SetField
    <2> QED  BY <2>2, <2>3 DEF p
  <1>2. ASSUME NEW v \in VMs, NEW ids \in SUBSET SnapIDs
        PROVE  [Parked("none", ids) EXCEPT !.vm = v, !.queue = ids] \in Frame
    <2>1. [[Parked("none", ids) EXCEPT !.vm = v] EXCEPT !.queue = ids] \in Frame
      BY <1>1
    <2> QED  BY <2>1, SMT
  <1>3. ASSUME NEW r \in Requests, NEW s \in SnapIDs
        PROVE  LET f == [req[r] EXCEPT !.queue = @ \ {s}] IN
                 f \in Frame /\ (At(r, "next") => f.ctx = "none")
    <2> DEFINE f == [req[r] EXCEPT !.queue = @ \ {s}]
    <2>1. req[r] \in Frame /\ WellFormed(req[r])
      BY AtCall
    <2>2. req[r].queue \ {s} \in SUBSET SnapIDs
      BY <2>1 DEF Frame
    <2>3. f \in Frame
      BY <2>1, <2>2, SetField
    <2>4. f.ctx = req[r].ctx
      BY <2>1, SMT DEF Frame
    <2>5. At(r, "next") => req[r].ctx = "none"
      BY <2>1 DEF At, WellFormed
    <2> QED  BY <2>3, <2>4, <2>5
  <1> QED  BY <1>1, <1>2, <1>3

LEMMA TypeOKDeletes ==
    ASSUME TypeOK, NEW r \in Requests,
           \/ DeleteSnapshot(r) \/ PurgeSnapshots(r) \/ PurgeNext(r)
           \/ FetchRecord(r) \/ DeleteRecord(r) \/ LookupFails(r)
    PROVE  TypeOK'
  <1> DEFINE f == req[r]
  <1>0. f \in Frame /\ WellFormed(f) /\ StoreTypes
    BY AtCall DEF TypeOK, StoreTypes
  <1>1. db \in [SnapIDs -> Record \cup {Nil}] /\ known \subseteq SnapIDs
    BY <1>0 DEF StoreTypes
  <1>2. CASE DeleteSnapshot(r)
    <2>1. PICK v \in VMs, s \in known : Become(r, BeginDelete([Parked("none", {s}) EXCEPT !.vm = v], s))
      BY <1>2 DEF DeleteSnapshot
    <2> DEFINE h == [Parked("none", {s}) EXCEPT !.vm = v]
    <2>2. h \in Frame /\ h.ctx = "none" /\ s \in SnapIDs
      BY <1>1, ToDelete
    <2>3. BeginDelete(h, s) \in Frame /\ WellFormed(BeginDelete(h, s))
      <3> HIDE DEF h
      <3> QED  BY <1>1, <2>2, BeginDeleteOK
    <2>4. StoreTypes'
      BY <1>0, <1>2 DEF DeleteSnapshot, StoreTypes, store
    <2> QED  BY <2>1, <2>3, <2>4, BecomeTypes
  <1>3. CASE PurgeSnapshots(r)
    <2>1. PICK v \in VMs : LET ids == {s \in SnapIDs : db[s] # Nil /\ db[s].vm = v}
                           IN  Become(r, NextSnapshot([Parked("none", ids) EXCEPT !.vm = v, !.queue = ids]))
      BY <1>3 DEF PurgeSnapshots
    <2> DEFINE ids == {s \in SnapIDs : db[s] # Nil /\ db[s].vm = v}
               h   == [Parked("none", ids) EXCEPT !.vm = v, !.queue = ids]
    <2>2. h \in Frame
      BY ToDelete
    <2>3. NextSnapshot(h) \in Frame /\ WellFormed(NextSnapshot(h))
      <3> HIDE DEF h
      <3> QED  BY <2>2, NextSnapshotOK
    <2>4. StoreTypes'
      BY <1>0, <1>3 DEF PurgeSnapshots, StoreTypes, store
    <2> QED  BY <2>1, <2>3, <2>4, BecomeTypes
  <1>4. CASE PurgeNext(r)
    <2>1. PICK s \in f.queue : Become(r, BeginDelete([f EXCEPT !.queue = @ \ {s}], s))
      BY <1>4 DEF PurgeNext
    <2> DEFINE h == [f EXCEPT !.queue = @ \ {s}]
    <2>2. s \in SnapIDs
      BY <1>0 DEF Frame
    <2>3. h \in Frame /\ h.ctx = "none"
      BY <1>4, <2>2, ToDelete DEF PurgeNext
    <2>4. BeginDelete(h, s) \in Frame /\ WellFormed(BeginDelete(h, s))
      <3> HIDE DEF h
      <3> QED  BY <1>1, <2>2, <2>3, BeginDeleteOK
    <2>5. StoreTypes'
      BY <1>0, <1>4 DEF PurgeNext, StoreTypes, store
    <2> QED  BY <2>1, <2>4, <2>5, BecomeTypes
  <1>5. CASE FetchRecord(r)
    <2>1. StoreTypes'
      BY <1>0, <1>5 DEF FetchRecord, StoreTypes, store
    <2> QED  BY <1>0, <1>5, <2>1, NextSnapshotOK, DeleteFrames, BecomeTypes DEF FetchRecord, At
  <1>6. CASE DeleteRecord(r)
    <2>1. StoreTypes'
      BY <1>0, <1>6 DEF DeleteRecord, StoreTypes
    <2>2. "error" \in Codes
      BY DEF Codes
    <2> QED  BY <1>0, <1>6, <2>1, <2>2, NextSnapshotOK, AnswerOK, BecomeTypes DEF DeleteRecord
  <1>7. CASE LookupFails(r)
    <2>1. PICK code \in {"error", "badrequest"} : Become(r, Parked(code, {}))
      BY <1>7 DEF LookupFails
    <2>2. Parked(code, {}) \in Frame /\ WellFormed(Parked(code, {}))
      BY ParkedOK DEF Codes
    <2>3. StoreTypes'
      BY <1>0, <1>7 DEF LookupFails, StoreTypes, store
    <2> QED  BY <2>1, <2>2, <2>3, BecomeTypes
  <1> QED  BY <1>2, <1>3, <1>4, <1>5, <1>6, <1>7

LEMMA TypeOKFailures ==
    ASSUME TypeOK,
           Crash \/ (\E r \in Requests : CallFails(r))
    PROVE  TypeOK'
  <1>1. CASE Crash
    <2>1. Parked("none", {}) \in Frame /\ WellFormed(Parked("none", {}))
      BY ParkedOK DEF Codes
    <2>2. req' = [q \in Requests |-> Parked("none", {})]
      BY <1>1 DEF Crash
    <2>3. req' \in [Requests -> Frame] /\ \A q \in Requests : WellFormed(req'[q])
      BY <2>1, <2>2
    <2>4. \A q \in Requests : WellFormed(req[q])'
      BY <2>3 DEF WellFormed
    <2>5. crashes' \in 0 .. MaxCrashes
      BY <1>1, StoreAssumption, SMT DEF Crash, TypeOK
    <2> QED  BY <1>1, <2>3, <2>4, <2>5 DEF Crash, TypeOK, store
  <1>2. ASSUME NEW r \in Requests, CallFails(r) PROVE TypeOK'
    <2>1. req[r] \in Frame /\ WellFormed(req[r]) /\ req[r].pc # "idle"
      BY <1>2, AtCall DEF CallFails, At
    <2>2. Failed(req[r]) \in Frame /\ WellFormed(Failed(req[r]))
      BY <2>1, FailedOK
    <2>3. req' = [req EXCEPT ![r] = Failed(req[r])]
      BY <1>2 DEF CallFails
    <2>4. req' \in [Requests -> Frame] /\ \A q \in Requests : WellFormed(req'[q])
      BY <2>2, <2>3 DEF TypeOK
    <2>5. \A q \in Requests : WellFormed(req[q])'
      BY <2>4 DEF WellFormed
    <2>6. faults' \in 0 .. MaxFaults
      BY <1>2, StoreAssumption, SMT DEF CallFails, TypeOK
    <2> QED  BY <1>2, <2>4, <2>5, <2>6 DEF CallFails, TypeOK, store
  <1> QED  BY <1>1, <1>2

LEMMA TypeOKStutters ==
    ASSUME TypeOK, UNCHANGED vars
    PROVE  TypeOK'
  BY DEF TypeOK, vars, WellFormed

LEMMA TypeOKStep ==
    TypeOK /\ [Next]_vars => TypeOK'
  <1> SUFFICES ASSUME TypeOK, [Next]_vars PROVE TypeOK'
    OBVIOUS
  <1> QED
    BY TypeOKCreates, TypeOKWalks, TypeOKDeletes, TypeOKFailures, TypeOKStutters
       DEF Next, Accept, Advance

\* The variables of the store have their types, and no handler ever indexes
\* its disk list out of bounds (the loops of vms.go:156 and snapshots.go:85).
THEOREM TypeCorrect == Spec => []TypeOK
  <1>1. Init => TypeOK
    BY TypeOKInit
  <1>2. TypeOK /\ [Next]_vars => TypeOK'
    BY TypeOKStep
  <1> QED  BY <1>1, <1>2, PTL DEF Spec

-----------------------------------------------------------------------------
(***************************************************************************)
(* CallsComeToAnEnd.                                                       *)
(***************************************************************************)
LEMMA StageOf ==
    ASSUME NEW f \in Frame, WellFormed(f)
    PROVE  /\ f.pc = "idle" => Stage(f) = 0
           /\ f.pc = "next" => Stage(f) = 1
           /\ f.ctx \in {"delete", "rollback", "undo"} => Stage(f) = 2
           /\ f.ctx = "discard" => Stage(f) = 3
           /\ f.ctx = "create" => Stage(f) = 4
           /\ f.pc # "idle" => Stage(f) \in 1 .. 4
           /\ f.queue \subseteq SnapIDs /\ f.i \in Nat /\ Len(f.list) \in Nat
  <1>1. f.pc \in Locations /\ f.ctx \in Contexts /\ f.queue \subseteq SnapIDs /\ f.i \in Nat
        /\ f.list \in Seq(Disks)
    BY DEF Frame
  <1>2. f.pc \in {"idle", "next"} <=> f.ctx = "none"
    BY DEF WellFormed
  <1>3. Len(f.list) \in Nat
    BY <1>1
  <1>4. f.pc = "idle" => Stage(f) = 0
    BY <1>2 DEF Stage
  <1>5. f.pc = "next" => Stage(f) = 1
    BY <1>2 DEF Stage
  <1>6. f.ctx \in {"delete", "rollback", "undo"} => Stage(f) = 2
    BY <1>2 DEF Stage
  <1>7. f.ctx = "discard" => Stage(f) = 3
    BY <1>2 DEF Stage
  <1>8. f.ctx = "create" => Stage(f) = 4
    BY <1>2 DEF Stage
  <1>9. f.pc # "idle" => Stage(f) \in 1 .. 4
    BY <1>1, <1>2, <1>5, <1>6, <1>7, <1>8 DEF Contexts
  <1> QED  BY <1>1, <1>3, <1>4, <1>5, <1>6, <1>7, <1>8, <1>9

\* What lies nearer: a later function, a later disk, a later call.
LEMMA StageNearer ==
    ASSUME NEW f \in Frame, NEW g \in Frame, WellFormed(f), WellFormed(g),
           g.queue \subseteq f.queue, Stage(g) < Stage(f)
    PROVE  Nearer(g, f)
  BY Zenon DEF Nearer

LEMMA AnswerNearer ==
    ASSUME NEW f \in Frame, WellFormed(f), f.pc # "idle", NEW code \in Codes
    PROVE  Nearer(Answer(f, code), f)
  <1> DEFINE g == Answer(f, code)
  <1>1. g \in Frame /\ WellFormed(g) /\ g.pc = "idle"
    BY AnswerOK
  <1>2. g.queue = {}
    BY DEF Answer, Parked
  <1> HIDE DEF g
  <1>3. Stage(g) = 0 /\ Stage(f) \in 1 .. 4
    BY <1>1, StageOf
  <1> QED  BY <1>1, <1>2, <1>3, StageNearer DEF g

LEMMA SameDisk ==
    ASSUME NEW f \in Frame, NEW g \in Frame, g.queue = f.queue, Stage(g) = Stage(f),
           Len(g.list) - g.i = Len(f.list) - f.i, CallsLeft[g.pc] < CallsLeft[f.pc]
    PROVE  Nearer(g, f)
  BY Zenon DEF Nearer

LEMMA LaterDisk ==
    ASSUME NEW f \in Frame, NEW g \in Frame, WellFormed(f), g.queue = f.queue, Stage(g) = Stage(f),
           g.list = f.list, g.i = f.i + 1
    PROVE  Nearer(g, f)
  <1>1. Len(g.list) - g.i < Len(f.list) - f.i
    BY StageOf
  <1> QED  BY <1>1, Zenon DEF Nearer

\* Walk takes the queue along.
LEMMA Kept ==
    ASSUME NEW f \in Frame
    PROVE  /\ \A ctx, list : Walk(f, ctx, list).queue = f.queue
           /\ Rollback(f).queue \subseteq f.queue
           /\ Undo(f).queue \subseteq f.queue
           /\ NextSnapshot(f).queue \subseteq f.queue
  <1>1. \A ctx, list : Walk(f, ctx, list).queue = f.queue
    BY DEF Walk, Frame
  <1>2. \A code : Answer(f, code).queue = {}
    BY DEF Answer, Parked
  <1>3. NextSnapshot(f).queue \subseteq f.queue
    BY <1>2 DEF NextSnapshot, Parked
  <1>4. Rollback(f).queue \subseteq f.queue /\ Undo(f).queue \subseteq f.queue
    BY <1>1, <1>2, Zenon DEF Rollback, Undo
  <1> QED  BY <1>1, <1>3, <1>4

LEMMA RollbackNearer ==
    ASSUME NEW f \in Frame, WellFormed(f), f.pc \in OnDisk, f.ctx \in {"create", "discard"}
    PROVE  Nearer(Rollback(f), f)
  <1>1. f.snap \in SnapIDs /\ f.i \in DOMAIN f.list
    BY DEF WellFormed
  <1>2. Rollback(f) \in Frame /\ WellFormed(Rollback(f)) /\ Rollback(f).pc \in {"idle", "stat"}
        /\ (Rollback(f).ctx = "none" \/ Rollback(f).ctx = "rollback")
    BY <1>1, RollbackOK
  <1>3. Stage(Rollback(f)) \in {0, 1, 2} /\ Stage(f) \in {3, 4}
    <2>1. Rollback(f).ctx = "none" => Rollback(f).pc \in {"idle", "next"}
      BY <1>2 DEF WellFormed
    <2> QED  BY <1>2, <2>1, StageOf
  <1> QED  BY <1>2, <1>3, Kept, StageNearer

LEMMA UndoNearer ==
    ASSUME NEW f \in Frame, WellFormed(f), f.pc = "save"
    PROVE  Nearer(Undo(f), f)
  <1>1. f.snap \in SnapIDs /\ f.ctx = "create"
    BY DEF WellFormed
  <1>2. Undo(f) \in Frame /\ WellFormed(Undo(f))
        /\ (Undo(f).ctx = "none" \/ Undo(f).ctx = "undo")
    BY <1>1, UndoOK
  <1>3. Stage(Undo(f)) \in {0, 1, 2} /\ Stage(f) = 4
    <2>1. Undo(f).ctx = "none" => Undo(f).pc \in {"idle", "next"}
      BY <1>2 DEF WellFormed
    <2> QED  BY <1>1, <1>2, <2>1, StageOf
  <1> QED  BY <1>2, <1>3, Kept, StageNearer

LEMMA NextSnapshotNearer ==
    ASSUME NEW f \in Frame, WellFormed(f), f.ctx = "delete"
    PROVE  Nearer(NextSnapshot(f), f)
  <1>1. NextSnapshot(f) \in Frame /\ WellFormed(NextSnapshot(f)) /\ NextSnapshot(f).pc \in {"idle", "next"}
    BY NextSnapshotOK
  <1>2. Stage(NextSnapshot(f)) \in {0, 1} /\ Stage(f) = 2
    BY <1>1, StageOf
  <1> QED  BY <1>1, <1>2, Kept, StageNearer

LEMMA NextDiskNearer ==
    ASSUME NEW f \in Frame, WellFormed(f), f.pc \in OnDisk, f.ctx # "create"
    PROVE  Nearer(NextDisk(f), f)
  <1> DEFINE g == NextDisk(f)
  <1>0. g \in Frame /\ WellFormed(g) /\ f.ctx # "none" /\ f.ctx \in Contexts /\ f.pc # "idle"
    BY NextDiskOK DEF WellFormed, OnDisk, Frame
  <1>1. CASE f.ctx = "discard"
    BY <1>1, RollbackNearer DEF NextDisk
  <1>2. CASE f.ctx # "discard" /\ f.i < Len(f.list)
    <2>1. g = [f EXCEPT !.pc = "stat", !.i = f.i + 1]
      BY <1>2 DEF NextDisk
    <2>2. g.queue = f.queue /\ g.ctx = f.ctx /\ g.list = f.list /\ g.i = f.i + 1
      BY <2>1 DEF Frame
    <2> HIDE DEF g
    <2>3. Stage(g) = 2 /\ Stage(f) = 2
      BY <1>0, <1>2, <2>2, StageOf DEF Contexts
    <2> QED  BY <1>0, <2>2, <2>3, LaterDisk DEF g
  <1>3. CASE f.ctx = "delete" /\ ~ (f.i < Len(f.list))
    <2>1. g = [f EXCEPT !.pc = "fetch", !.i = f.i + 1]
      BY <1>3 DEF NextDisk
    <2>2. g.queue = f.queue /\ g.ctx = f.ctx /\ g.list = f.list /\ g.i = f.i + 1
      BY <2>1 DEF Frame
    <2> HIDE DEF g
    <2>3. Stage(g) = 2 /\ Stage(f) = 2
      BY <1>0, <1>3, <2>2, StageOf
    <2> QED  BY <1>0, <2>2, <2>3, LaterDisk DEF g
  <1>4. CASE f.ctx \notin {"discard", "delete"} /\ ~ (f.i < Len(f.list))
    <2>1. g = Answer(f, "error") /\ "error" \in Codes
      BY <1>4 DEF NextDisk, Codes
    <2> QED  BY <1>0, <2>1, AnswerNearer
  <1> QED  BY <1>1, <1>2, <1>3, <1>4

LEMMA DiskFailedNearer ==
    ASSUME NEW f \in Frame, WellFormed(f), f.pc \in OnDisk, f.ctx # "create"
    PROVE  Nearer(DiskFailed(f), f)
  <1>1. f.pc # "idle" /\ "error" \in Codes
    BY DEF OnDisk, Codes
  <1> QED  BY <1>1, NextDiskNearer, AnswerNearer DEF DiskFailed

\* A later call for the same disk.
LEMMA CallNearer ==
    ASSUME NEW f \in Frame, NEW pc \in Locations, WellFormed(f),
           LET g == [f EXCEPT !.pc = pc] IN WellFormed(g),
           f.ctx # "none", CallsLeft[pc] < CallsLeft[f.pc]
    PROVE  Nearer([f EXCEPT !.pc = pc], f)
  <1> DEFINE g == [f EXCEPT !.pc = pc]
  <1>1. g \in Frame /\ g.queue = f.queue /\ g.ctx = f.ctx /\ g.list = f.list /\ g.i = f.i /\ g.pc = pc
    BY SetField DEF Frame
  <1> HIDE DEF g
  <1>2. Stage(g) = Stage(f)
    <2>1. f.ctx \in Contexts
      BY DEF Frame
    <2> QED  BY <1>1, <2>1, StageOf DEF Contexts, g
  <1> QED  BY <1>1, <1>2, SameDisk DEF g

\* The next call for the disk, or the record, that a handler is at.
LEMMA NextCall ==
    ASSUME NEW f \in Frame, WellFormed(f)
    PROVE  /\ f.pc = "mkdir"   => Nearer([f EXCEPT !.pc = "reflink"], f)
           /\ f.pc = "reflink" => Nearer([f EXCEPT !.pc = "extents"], f)
           /\ f.pc = "unlink"  => Nearer([f EXCEPT !.pc = "readdir"], f)
           /\ f.pc = "stat"    => Nearer([f EXCEPT !.pc = "remove"], f)
           /\ f.pc = "remove"  => Nearer([f EXCEPT !.pc = "readdir"], f)
           /\ f.pc = "readdir" => Nearer([f EXCEPT !.pc = "rmdir"], f)
           /\ f.pc = "fetch"   => Nearer([f EXCEPT !.pc = "dbdelete"], f)
  <1>1. f.pc \notin {"idle", "next"} => f.ctx # "none"
    BY DEF WellFormed
  <1>2. {"reflink", "extents", "readdir", "remove", "rmdir", "dbdelete"} \subseteq Locations
    BY DEF Locations
  <1>3. /\ CallsLeft["reflink"] < CallsLeft["mkdir"] /\ CallsLeft["extents"] < CallsLeft["reflink"]
        /\ CallsLeft["readdir"] < CallsLeft["unlink"] /\ CallsLeft["remove"] < CallsLeft["stat"]
        /\ CallsLeft["readdir"] < CallsLeft["remove"] /\ CallsLeft["rmdir"] < CallsLeft["readdir"]
        /\ CallsLeft["dbdelete"] < CallsLeft["fetch"]
    BY DEF CallsLeft
  <1>4. /\ f.pc = "mkdir"   => WellFormed([f EXCEPT !.pc = "reflink"])
        /\ f.pc = "reflink" => WellFormed([f EXCEPT !.pc = "extents"])
        /\ f.pc = "unlink"  => WellFormed([f EXCEPT !.pc = "readdir"])
    BY CreateFrames
  <1>5. /\ f.pc = "stat"    => WellFormed([f EXCEPT !.pc = "remove"])
        /\ f.pc = "remove"  => WellFormed([f EXCEPT !.pc = "readdir"])
        /\ f.pc = "readdir" => WellFormed([f EXCEPT !.pc = "rmdir"])
        /\ f.pc = "fetch"   => WellFormed([f EXCEPT !.pc = "dbdelete"])
    BY DeleteFrames
  <1> HIDE DEF CallsLeft
  <1> QED  BY <1>1, <1>2, <1>3, <1>4, <1>5, CallNearer

\* A create starts to clean up after the disk it failed at.
LEMMA DiscardNearer ==
    ASSUME NEW f \in Frame, WellFormed(f), f.pc \in {"reflink", "extents"}
    PROVE  Nearer([f EXCEPT !.pc = "unlink", !.ctx = "discard"], f)
  <1> DEFINE g == [f EXCEPT !.pc = "unlink", !.ctx = "discard"]
  <1>1. g \in Frame /\ g.queue = f.queue /\ g.ctx = "discard" /\ g.pc = "unlink"
        /\ g.list = f.list /\ g.i = f.i /\ g.snap = f.snap
    <2>1. "unlink" \in Locations /\ "discard" \in Contexts
      BY DEF Locations, Contexts
    <2> QED  BY <2>1, SetCtx DEF Frame
  <1> HIDE DEF g
  <1>2. WellFormed(g) /\ f.ctx = "create"
    BY <1>1 DEF WellFormed, OnDisk
  <1>3. Stage(g) = 3 /\ Stage(f) = 4
    BY <1>1, <1>2, StageOf
  <1>4. Nearer(g, f)
    BY <1>1, <1>2, <1>3, StageNearer
  <1> QED  BY <1>4 DEF g

\* What PurgeNext makes of the frame, once it has taken s off its queue.
LEMMA BeginDeleteNearer ==
    ASSUME TypeOK, NEW f \in Frame, f.ctx = "none", NEW s \in f.queue
    PROVE  Nearer(BeginDelete([f EXCEPT !.queue = @ \ {s}], s), f)
  <1> DEFINE h == [f EXCEPT !.queue = @ \ {s}]
             g == BeginDelete(h, s)
  <1>1. h \in Frame /\ h.queue = f.queue \ {s}
    BY SetField DEF Frame
  <1> SUFFICES g.queue \subseteq h.queue
    BY <1>1, Zenon DEF Nearer
  <1> HIDE DEF h
  <1>2. \A code : Answer(h, code).queue = {}
    BY DEF Answer, Parked
  <1>3. \A ctx, list : Walk([h EXCEPT !.snap = s], ctx, list).queue = h.queue
    BY <1>1 DEF Walk, Frame
  <1>4. [h EXCEPT !.pc = "fetch", !.ctx = "delete", !.snap = s, !.list = << >>, !.i = 1].queue = h.queue
    BY <1>1 DEF Frame
  <1>5. NextSnapshot(h).queue \subseteq h.queue
    BY <1>1, Kept
  <1> QED  BY <1>2, <1>3, <1>4, <1>5, Zenon DEF BeginDelete

LEMMA FailedNearer ==
    ASSUME NEW f \in Frame, WellFormed(f), f.pc # "idle"
    PROVE  Nearer(Failed(f), f)
  <1>1. CASE f.pc = "mkdir"
    BY <1>1, RollbackNearer DEF Failed, WellFormed, OnDisk
  <1>2. CASE f.pc \in {"reflink", "extents"}
    <2>1. Failed(f) = [f EXCEPT !.pc = "unlink", !.ctx = "discard"]
      BY <1>2 DEF Failed
    <2> QED  BY <1>2, <2>1, DiscardNearer
  <1>3. CASE f.pc = "unlink"
    <2>1. Failed(f) = [f EXCEPT !.pc = "readdir"]
      BY <1>3 DEF Failed
    <2> QED  BY <1>3, <2>1, NextCall
  <1>4. CASE f.pc \in {"stat", "remove", "readdir"}
    <2>1. Failed(f) = DiskFailed(f) /\ f.pc \in OnDisk /\ f.ctx # "create"
      BY <1>4 DEF Failed, WellFormed, OnDisk
    <2> QED  BY <2>1, DiskFailedNearer
  <1>5. CASE f.pc = "rmdir"
    <2>1. Failed(f) = NextDisk(f) /\ f.pc \in OnDisk /\ f.ctx # "create"
      BY <1>5 DEF Failed, WellFormed, OnDisk
    <2> QED  BY <2>1, NextDiskNearer
  <1>6. CASE f.pc = "save"
    <2>1. Failed(f) = Undo(f)
      BY <1>6 DEF Failed
    <2> QED  BY <1>6, <2>1, UndoNearer
  <1>7. CASE f.pc \in {"fetch", "dbdelete", "next"}
    <2>1. Failed(f) = Answer(f, "error") /\ "error" \in Codes
      BY <1>7 DEF Failed, Codes
    <2> QED  BY <2>1, AnswerNearer
  <1> QED  BY <1>1, <1>2, <1>3, <1>4, <1>5, <1>6, <1>7 DEF Frame, Locations

\* Every call of a handler brings it nearer to its reply.
LEMMA ProgressStep ==
    ASSUME TypeOK, NEW r \in Requests, Advance(r) \/ CallFails(r)
    PROVE  Nearer(req'[r], req[r])
  <1> DEFINE f == req[r]
             To(pc) == [f EXCEPT !.pc = pc]
  <1>0. f \in Frame /\ WellFormed(f)
    BY AtCall
  <1>1. ASSUME NEW g, Become(r, g) PROVE req'[r] = g
    BY <1>1 DEF Become, TypeOK
  <1>3. CASE CallFails(r)
    <2>1. req'[r] = Failed(f) /\ f.pc # "idle"
      BY <1>3 DEF CallFails, TypeOK, At
    <2> QED  BY <1>0, <2>1, FailedNearer
  <1>4. CASE MakeDir(r)
    <2>1. req'[r] = To("reflink") /\ f.pc = "mkdir"
      BY <1>1, <1>4 DEF MakeDir, At
    <2> QED  BY <1>0, <2>1, NextCall
  <1>5. CASE Reflink(r)
    <2>1. req'[r] \in {To("extents"), [f EXCEPT !.pc = "unlink", !.ctx = "discard"]} /\ f.pc = "reflink"
      BY <1>1, <1>5 DEF Reflink, At
    <2> QED  BY <1>0, <2>1, NextCall, DiscardNearer
  <1>6. CASE ReadExtents(r)
    <2> DEFINE g == [f EXCEPT !.i = f.i + 1, !.pc = IF f.i = Len(f.list) THEN "save" ELSE "mkdir"]
    <2>1. req'[r] = g
      BY <1>1, <1>6 DEF ReadExtents
    <2>2. g \in Frame /\ WellFormed(g)
      BY <1>0, <1>6, CreateFrames DEF ReadExtents, At
    <2>3. g.queue = f.queue /\ g.ctx = f.ctx /\ g.list = f.list /\ g.i = f.i + 1 /\ f.ctx = "create"
      BY <1>0, <1>6 DEF Frame, ReadExtents, At, WellFormed
    <2> HIDE DEF g
    <2>4. Stage(g) = 4 /\ Stage(f) = 4
      BY <1>0, <2>2, <2>3, StageOf
    <2> QED  BY <1>0, <2>1, <2>2, <2>3, <2>4, LaterDisk
  <1>7. CASE SaveRecord(r)
    <2>1. req'[r] = Answer(f, "ok") /\ f.pc # "idle" /\ "ok" \in Codes
      BY <1>1, <1>7 DEF SaveRecord, At, Codes
    <2> QED  BY <1>0, <2>1, AnswerNearer
  <1>8. CASE DiscardFile(r)
    <2>1. req'[r] = To("readdir") /\ f.pc = "unlink"
      BY <1>1, <1>8 DEF DiscardFile, At
    <2> QED  BY <1>0, <2>1, NextCall
  <1>9. ASSUME f.pc \in {"stat", "remove", "readdir", "rmdir"}
        PROVE  Nearer(NextDisk(f), f) /\ Nearer(DiskFailed(f), f)
    BY <1>0, <1>9, AtWalk, NextDiskNearer, DiskFailedNearer
  <1>10. CASE StatDir(r)
    <2>1. req'[r] \in {To("remove"), NextDisk(f)} /\ f.pc = "stat"
      BY <1>1, <1>10 DEF StatDir, At
    <2> QED  BY <1>0, <1>9, <2>1, NextCall
  <1>11. CASE RemoveFile(r)
    <2>1. req'[r] \in {To("readdir"), DiskFailed(f)} /\ f.pc = "remove"
      BY <1>1, <1>11 DEF RemoveFile, At
    <2> QED  BY <1>0, <1>9, <2>1, NextCall
  <1>12. CASE ReadDir(r)
    <2>1. req'[r] \in {To("rmdir"), DiskFailed(f), NextDisk(f)} /\ f.pc = "readdir"
      BY <1>1, <1>12 DEF ReadDir, At
    <2> QED  BY <1>0, <1>9, <2>1, NextCall
  <1>13. CASE RemoveDir(r)
    <2>1. req'[r] = NextDisk(f) /\ f.pc = "rmdir"
      BY <1>1, <1>13 DEF RemoveDir, At
    <2> QED  BY <1>9, <2>1
  <1>14. CASE PurgeNext(r)
    <2>1. PICK s \in f.queue : Become(r, BeginDelete([f EXCEPT !.queue = @ \ {s}], s))
      BY <1>14 DEF PurgeNext
    <2>2. f.ctx = "none"
      BY <1>0, <1>14 DEF PurgeNext, At, WellFormed
    <2> QED  BY <1>0, <1>1, <2>1, <2>2, BeginDeleteNearer
  <1>15. CASE FetchRecord(r)
    <2>1. req'[r] \in {To("dbdelete"), NextSnapshot(f)} /\ f.pc = "fetch"
      BY <1>1, <1>15 DEF FetchRecord, At
    <2>2. f.ctx = "delete"
      BY <1>0, <2>1 DEF WellFormed
    <2> QED  BY <1>0, <2>1, <2>2, NextCall, NextSnapshotNearer
  <1>16. CASE DeleteRecord(r)
    <2>1. f.ctx = "delete" /\ f.pc # "idle" /\ "error" \in Codes
      BY <1>0, <1>16 DEF DeleteRecord, At, WellFormed, Codes
    <2>2. req'[r] \in {Answer(f, "error"), NextSnapshot(f)}
      BY <1>1, <1>16 DEF DeleteRecord
    <2> QED  BY <1>0, <2>1, <2>2, NextSnapshotNearer, AnswerNearer
  <1> QED
    BY <1>3, <1>4, <1>5, <1>6, <1>7, <1>8, <1>10, <1>11, <1>12, <1>13, <1>14, <1>15, <1>16
    DEF Advance

\* No handler goes round in circles, for any disk lists, any number of snapshots
\* in a purge, any failures and whatever other requests do.
THEOREM CallsEnd == Spec => CallsComeToAnEnd
  <1>1. TypeOK /\ [Next]_vars => [Progress]_vars
    BY ProgressStep DEF Progress
  <1> QED  BY <1>1, TypeCorrect, PTL DEF Spec, CallsComeToAnEnd

-----------------------------------------------------------------------------
(***************************************************************************)
(* What one request's step means to the others.                            *)
(***************************************************************************)
SameAt(s) ==
    /\ \A d \in Disks : <<s, d>> \in files' <=> <<s, d>> \in files
    /\ \A p \in Repos : <<s, p>> \in dirs' <=> <<s, p>> \in dirs
    /\ db'[s] = db[s]

ShrunkAt(s) ==
    /\ \A d \in Disks : <<s, d>> \in files' => <<s, d>> \in files
    /\ db'[s] \in {db[s], Nil}

Undisturbed(f) ==
    f.ctx # "none" =>
        \/ SameAt(f.snap) /\ (Building(f) => f.snap \notin known')
        \/ f.ctx = "delete" /\ ShrunkAt(f.snap)

LEMMA ContextOf ==
    ASSUME TypeOK, NEW q \in Requests
    PROVE  /\ req[q].ctx = "none" \/ Building(req[q]) \/ req[q].ctx = "delete"
           /\ ~ (Building(req[q]) /\ req[q].ctx = "delete")
           /\ ~ (Building(req[q]) /\ req[q].ctx = "none")
  <1>1. req[q] \in Frame
    BY AtCall
  <1> QED  BY <1>1 DEF Frame, Contexts, Building

\* Nobody else works on a snapshot that a request is building.
LEMMA Alone ==
    ASSUME StoreInv, NEW r \in Requests, Building(req[r]),
           NEW q \in Requests, q # r, req[q].ctx # "none"
    PROVE  req[q].snap # req[r].snap
  <1>1. CASE Building(req[q])
    BY <1>1 DEF StoreInv, BuiltApart
  <1>2. CASE req[q].ctx = "delete"
    BY <1>2 DEF StoreInv, FrameInv, DeleteInv
  <1> QED  BY <1>1, <1>2, ContextOf DEF StoreInv

\* A frame keeps its invariant through a step that does not disturb it.
LEMMA FrameKept ==
    ASSUME StoreInv, NEW q \in Requests, req'[q] = req[q], Undisturbed(req[q]),
           minted \subseteq minted', known \subseteq known'
    PROVE  FrameInv(req[q])'
  <1> DEFINE f == req[q]
  <1>0. f \in Frame /\ WellFormed(f) /\ FrameInv(f)
    BY AtCall DEF StoreInv
  <1>1. /\ f.list \in Seq(Disks) /\ \A j \in DOMAIN f.list : f.list[j] \in Disks
        /\ f.pc \in OnDisk => f.i \in DOMAIN f.list
        /\ \A d \in Disks : RepoOf[d] \in Repos
    BY <1>0, StoreAssumption DEF Frame, WellFormed
  <1>2. CASE f.ctx = "none"
    BY <1>0, <1>2 DEF FrameInv, CreateInv, DeleteInv, Building, WellFormed
  <1>3. CASE f.ctx # "none" /\ SameAt(f.snap) /\ (Building(f) => f.snap \notin known')
    <2>1. (Building(req[q]) => req[q].snap \in minted \ known)'
      BY <1>0, <1>3 DEF FrameInv, Building
    <2>2. CreateInv(req[q])'
      <3> SUFFICES ASSUME f.ctx = "create" PROVE CreateInv(req[q])'
        BY DEF CreateInv
      <3>1. f.list \in DiskLists[f.vm]
        BY <1>0 DEF FrameInv, CreateInv
      <3>2. f.pc = "reflink" => DirOf(f) \in dirs'
        BY <1>0, <1>1, <1>3 DEF FrameInv, CreateInv, SameAt, DirOf, OnDisk
      <3>3. ASSUME NEW j \in DOMAIN f.list, Done(f, j)
            PROVE  /\ <<f.snap, f.list[j]>> \in files'
                   /\ \A k \in DOMAIN f.list : k < j => f.list[k] # f.list[j]
        BY <1>0, <1>1, <1>3, <3>3 DEF FrameInv, CreateInv, SameAt
      <3>4. ASSUME NEW d \in Disks, <<f.snap, d>> \in files'
            PROVE  \E j \in DOMAIN f.list : Done(f, j) /\ f.list[j] = d
        BY <1>0, <1>3, <3>4 DEF FrameInv, CreateInv, SameAt
      <3> QED  BY <3>1, <3>2, <3>3, <3>4 DEF CreateInv, Done, DirOf
    <2>3. DeleteInv(req[q])'
      BY <1>0, <1>1, <1>3 DEF FrameInv, DeleteInv, SameAt, FileOf, OnDisk
    <2>4. (req[q].pc = "rmdir" => \A d \in Disks :
             RepoOf[d] = RepoOf[req[q].list[req[q].i]] => <<req[q].snap, d>> \notin files)'
      BY <1>0, <1>3 DEF FrameInv, SameAt
    <2> QED  BY <2>1, <2>2, <2>3, <2>4 DEF FrameInv
  <1>4. CASE f.ctx = "delete" /\ ShrunkAt(f.snap)
    <2>1. (Building(req[q]) => req[q].snap \in minted \ known)' /\ CreateInv(req[q])'
      BY <1>4 DEF Building, CreateInv
    <2>2. DeleteInv(req[q])'
      BY <1>0, <1>1, <1>4 DEF FrameInv, DeleteInv, ShrunkAt, FileOf, OnDisk
    <2>3. (req[q].pc = "rmdir" => \A d \in Disks :
             RepoOf[d] = RepoOf[req[q].list[req[q].i]] => <<req[q].snap, d>> \notin files)'
      BY <1>0, <1>4 DEF FrameInv, ShrunkAt
    <2> QED  BY <2>1, <2>2, <2>3 DEF FrameInv
  <1> QED  BY <1>2, <1>3, <1>4 DEF Undisturbed

\* g continues the building of f, or builds nothing.
Continues(f, g) == Building(g) => Building(f) /\ g.snap = f.snap

LEMMA ApartKept ==
    ASSUME StoreInv, NEW r \in Requests, NEW g, Continues(req[r], g),
           req' = [req EXCEPT ![r] = g]
    PROVE  BuiltApart'
  <1>1. \A q \in Requests : req'[q] = IF q = r THEN g ELSE req[q]
    BY DEF StoreInv, TypeOK
  <1> QED  BY <1>1 DEF StoreInv, BuiltApart, Continues, Building

\* What is left to show of a step of r that becomes g.
LEMMA StepKept ==
    ASSUME StoreInv, TypeOK', NEW r \in Requests, NEW g,
           req' = [req EXCEPT ![r] = g], Continues(req[r], g),
           minted \subseteq minted', known \subseteq known',
           \A q \in Requests \ {r} : Undisturbed(req[q]),
           FrameInv(req[r])',
           FilesHoused', Catalogued', DeletedLeavesNothing'
    PROVE  StoreInv'
  <1>1. BuiltApart'
    BY ApartKept
  <1>2. ASSUME NEW q \in Requests PROVE FrameInv(req[q])'
    <2>1. CASE q = r
      BY <2>1
    <2>2. CASE q # r
      <3>1. req'[q] = req[q]
        BY <2>2 DEF StoreInv, TypeOK
      <3> QED  BY <2>2, <3>1, FrameKept
    <2> QED  BY <2>1, <2>2
  <1> QED  BY <1>1, <1>2 DEF StoreInv

\* A step that leaves the store alone.
LEMMA QuietStep ==
    ASSUME StoreInv, TypeOK', UNCHANGED store, NEW r \in Requests, NEW g,
           req' = [req EXCEPT ![r] = g], Continues(req[r], g), FrameInv(g)
    PROVE  StoreInv'
  <1>1. req'[r] = g
    BY DEF StoreInv, TypeOK
  <1>2. FrameInv(req[r])'
    BY <1>1 DEF FrameInv, CreateInv, DeleteInv, Building, FileOf, DirOf, store
  <1>3. FilesHoused' /\ Catalogued' /\ DeletedLeavesNothing'
    BY DEF StoreInv, FilesHoused, Catalogued, DeletedLeavesNothing, store
  <1>4. \A q \in Requests \ {r} : Undisturbed(req[q])
    BY DEF StoreInv, FrameInv, Undisturbed, SameAt, store
  <1> QED  BY <1>2, <1>3, <1>4, StepKept DEF store

\* A frame that does not work on a snapshot.
LEMMA AtRest ==
    ASSUME NEW f \in Frame, NEW g \in Frame, WellFormed(g), g.ctx = "none"
    PROVE  FrameInv(g) /\ Continues(f, g)
  BY DEF FrameInv, CreateInv, DeleteInv, Building, Continues, WellFormed

\* A frame that cleans up after a create, but has found no empty directory.
LEMMA CleaningUp ==
    ASSUME NEW f \in Frame, FrameInv(f), Building(f),
           NEW g \in Frame, g.ctx \in {"discard", "rollback", "undo"}, g.snap = f.snap, g.pc # "rmdir"
    PROVE  FrameInv(g) /\ Continues(f, g)
  BY DEF FrameInv, CreateInv, DeleteInv, Building, Continues

\* The walk may go on from a disk whose file is gone.
LEMMA WalkOn ==
    ASSUME StoreInv, NEW r \in Requests, req[r].pc \in {"stat", "remove", "readdir", "rmdir"},
           req[r].ctx = "delete" => FileOf(req[r]) \notin files
    PROVE  FrameInv(NextDisk(req[r])) /\ Continues(req[r], NextDisk(req[r]))
  <1> DEFINE f == req[r]
             g == NextDisk(f)
  <1>0. f \in Frame /\ WellFormed(f) /\ FrameInv(f) /\ f.pc \in OnDisk
        /\ f.ctx # "create" /\ f.ctx # "none"
    BY AtCall, AtWalk DEF StoreInv
  <1>1. /\ g \in Frame /\ WellFormed(g) /\ g.pc \in {"idle", "stat", "fetch"}
        /\ \/ g.ctx = "none"
           \/ g.ctx = f.ctx /\ g.snap = f.snap /\ g.list = f.list /\ g.i = f.i + 1
           \/ f.ctx = "discard" /\ g.ctx = "rollback" /\ g.snap = f.snap
    BY <1>0, NextDiskOK
  <1> SUFFICES FrameInv(g) /\ Continues(f, g)
    OBVIOUS
  <1> HIDE DEF g
  <1>2. CASE g.ctx = "none"
    BY <1>0, <1>1, <1>2, AtRest
  <1>3. CASE Building(f) /\ g.ctx # "none"
    BY <1>0, <1>1, <1>3, CleaningUp DEF Building
  <1>4. CASE f.ctx = "delete" /\ g.ctx # "none"
    <2>1. g.ctx = "delete" /\ g.snap = f.snap /\ g.list = f.list /\ g.i = f.i + 1
      BY <1>1, <1>4
    <2>2. f.i \in Nat /\ f.list \in Seq(Disks)
      BY <1>0 DEF Frame
    <2>3. DeleteInv(g)
      <3>1. ASSUME NEW j \in DOMAIN g.list, j < g.i PROVE <<g.snap, g.list[j]>> \notin files
        <4>1. j < f.i \/ j = f.i
          BY <2>1, <2>2, <3>1, SMT
        <4> QED  BY <1>0, <1>4, <2>1, <4>1 DEF FrameInv, DeleteInv, FileOf
      <3> QED  BY <1>0, <1>1, <1>4, <2>1, <3>1 DEF FrameInv, DeleteInv
    <2> QED  BY <1>1, <2>1, <2>3 DEF FrameInv, CreateInv, Building, Continues
  <1> QED  BY <1>0, <1>2, <1>3, <1>4, ContextOf DEF StoreInv

\* A failing disk ends a delete and a rollback forgets it.
LEMMA WalkFails ==
    ASSUME StoreInv, NEW r \in Requests, req[r].pc \in {"stat", "remove", "readdir", "rmdir"}
    PROVE  FrameInv(DiskFailed(req[r])) /\ Continues(req[r], DiskFailed(req[r]))
  <1> DEFINE f == req[r]
             g == DiskFailed(f)
  <1>0. f \in Frame /\ WellFormed(f) /\ FrameInv(f) /\ f.pc \in OnDisk /\ f.ctx # "create"
    BY AtCall, AtWalk DEF StoreInv
  <1>1. /\ g \in Frame /\ WellFormed(g) /\ g.pc \in {"idle", "stat", "fetch"}
        /\ \/ g.ctx = "none"
           \/ f.ctx \in {"discard", "rollback"} /\ g.ctx = "rollback" /\ g.snap = f.snap
    BY <1>0, DiskFailedOK
  <1> SUFFICES FrameInv(g) /\ Continues(f, g)
    OBVIOUS
  <1> HIDE DEF g
  <1>2. CASE g.ctx = "none"
    BY <1>0, <1>1, <1>2, AtRest
  <1>3. CASE g.ctx # "none"
    BY <1>0, <1>1, <1>3, CleaningUp DEF Building
  <1> QED  BY <1>2, <1>3

-----------------------------------------------------------------------------
(***************************************************************************)
(* The steps that leave the store alone.                                   *)
(***************************************************************************)
\* Moving the program counter of a frame.
LEMMA Goto ==
    ASSUME NEW f \in Frame, NEW pc \in Locations
    PROVE  LET g == [f EXCEPT !.pc = pc] IN
             /\ g \in Frame /\ g.pc = pc /\ g.ctx = f.ctx /\ g.snap = f.snap
             /\ g.list = f.list /\ g.i = f.i /\ g.vm = f.vm
  <1> DEFINE g == [f EXCEPT !.pc = pc]
  <1>1. g \in Frame
    BY SetField
  <1>2. /\ g.pc = pc /\ g.ctx = f.ctx /\ g.snap = f.snap
        /\ g.list = f.list /\ g.i = f.i /\ g.vm = f.vm
    BY SMT DEF Frame
  <1> QED  BY <1>1, <1>2

LEMMA ReadExtentsInv ==
    ASSUME StoreInv, TypeOK', NEW r \in Requests, ReadExtents(r)
    PROVE  StoreInv'
  <1> DEFINE f  == req[r]
             pc == IF f.i = Len(f.list) THEN "save" ELSE "mkdir"
             g  == [f EXCEPT !.i = f.i + 1, !.pc = pc]
  <1>1. f \in Frame /\ WellFormed(f) /\ FrameInv(f) /\ f.pc = "extents"
    BY AtCall DEF ReadExtents, At, StoreInv
  <1>2. f.ctx = "create" /\ f.i \in Nat /\ f.list \in Seq(Disks)
    BY <1>1 DEF WellFormed, Frame
  <1>3. /\ g.pc \in {"save", "mkdir"} /\ g.ctx = f.ctx /\ g.snap = f.snap
        /\ g.list = f.list /\ g.i = f.i + 1 /\ g.vm = f.vm
    BY <1>1, SMT DEF Frame
  <1>4. req' = [req EXCEPT ![r] = g] /\ UNCHANGED store
    BY DEF ReadExtents, Become
  <1> HIDE DEF g, pc
  <1>5. CreateInv(g)
    <2>1. \A j \in DOMAIN f.list : Done(g, j) <=> Done(f, j)
      <3>1. \A j \in DOMAIN f.list : j < f.i + 1 <=> j < f.i \/ j = f.i
        BY <1>2, SMT
      <3> QED  BY <1>1, <1>3, <3>1 DEF Done
    <2> QED  BY <1>1, <1>2, <1>3, <2>1 DEF FrameInv, CreateInv
  <1>6. FrameInv(g) /\ Continues(f, g)
    BY <1>1, <1>2, <1>3, <1>5 DEF FrameInv, DeleteInv, Building, Continues
  <1> QED  BY <1>4, <1>6, QuietStep

LEMMA StatDirInv ==
    ASSUME StoreInv, TypeOK', NEW r \in Requests, StatDir(r)
    PROVE  StoreInv'
  <1> DEFINE f == req[r]
             g == [f EXCEPT !.pc = "remove"]
  <1>1. f \in Frame /\ WellFormed(f) /\ FrameInv(f) /\ f.pc = "stat" /\ UNCHANGED store
    BY AtCall DEF StatDir, At, StoreInv
  <1>2. CASE DirOf(f) \in dirs
    <2>1. req' = [req EXCEPT ![r] = g]
      BY <1>2 DEF StatDir, Become
    <2>2. g.pc = "remove" /\ g.ctx = f.ctx /\ g.snap = f.snap /\ g.list = f.list /\ g.i = f.i
      BY <1>1, Goto DEF Locations
    <2>3. f.ctx # "create"
      BY <1>1 DEF WellFormed
    <2> HIDE DEF g
    <2>4. FrameInv(g) /\ Continues(f, g)
      BY <1>1, <2>2, <2>3 DEF FrameInv, CreateInv, DeleteInv, Building, Continues
    <2> QED  BY <1>1, <2>1, <2>4, QuietStep
  <1>3. CASE DirOf(f) \notin dirs
    <2>1. req' = [req EXCEPT ![r] = NextDisk(f)]
      BY <1>3 DEF StatDir, Become
    <2>2. FileOf(f) \notin files
      BY <1>1, <1>3, AtCall DEF StoreInv, FilesHoused, FileOf, DirOf, OnDisk
    <2> QED  BY <1>1, <2>1, <2>2, WalkOn, QuietStep
  <1> QED  BY <1>2, <1>3

LEMMA ReadDirInv ==
    ASSUME StoreInv, TypeOK', NEW r \in Requests, ReadDir(r)
    PROVE  StoreInv'
  <1> DEFINE f == req[r]
             g == [f EXCEPT !.pc = "rmdir"]
  <1>1. f \in Frame /\ WellFormed(f) /\ FrameInv(f) /\ f.pc = "readdir" /\ UNCHANGED store
    BY AtCall DEF ReadDir, At, StoreInv
  <1>2. CASE DirOf(f) \notin dirs
    <2>1. req' = [req EXCEPT ![r] = DiskFailed(f)]
      BY <1>2 DEF ReadDir, Become
    <2> QED  BY <1>1, <2>1, WalkFails, QuietStep
  <1>3. CASE DirOf(f) \in dirs /\ FilesIn(DirOf(f)) # {}
    <2>1. req' = [req EXCEPT ![r] = NextDisk(f)]
      BY <1>3 DEF ReadDir, Become
    <2>2. f.ctx = "delete" => FileOf(f) \notin files
      BY <1>1 DEF FrameInv, DeleteInv
    <2> QED  BY <1>1, <2>1, <2>2, WalkOn, QuietStep
  <1>4. CASE DirOf(f) \in dirs /\ FilesIn(DirOf(f)) = {}
    <2>1. req' = [req EXCEPT ![r] = g]
      BY <1>4 DEF ReadDir, Become
    <2>2. g.pc = "rmdir" /\ g.ctx = f.ctx /\ g.snap = f.snap /\ g.list = f.list /\ g.i = f.i
      BY <1>1, Goto DEF Locations
    <2>3. f.ctx # "create"
      BY <1>1 DEF WellFormed
    <2>4. \A d \in Disks : RepoOf[d] = RepoOf[f.list[f.i]] => <<f.snap, d>> \notin files
      BY <1>4 DEF FilesIn, DirOf
    <2> HIDE DEF g
    <2>5. FrameInv(g) /\ Continues(f, g)
      BY <1>1, <2>2, <2>3, <2>4 DEF FrameInv, CreateInv, DeleteInv, Building, Continues, FileOf
    <2> QED  BY <1>1, <2>1, <2>5, QuietStep
  <1> QED  BY <1>2, <1>3, <1>4

LEMMA LookupInv ==
    ASSUME StoreInv, TypeOK', NEW r \in Requests,
           DeleteSnapshot(r) \/ PurgeSnapshots(r) \/ PurgeNext(r) \/ LookupFails(r)
    PROVE  StoreInv'
  <1>0. /\ db \in [SnapIDs -> Record \cup {Nil}] /\ known \subseteq SnapIDs
        /\ UNCHANGED store /\ TypeOK /\ req[r] \in Frame
    BY AtCall DEF StoreInv, TypeOK, DeleteSnapshot, PurgeSnapshots, PurgeNext, LookupFails
  <1>1. ASSUME NEW h \in Frame, h.ctx = "none", NEW s \in SnapIDs,
               req' = [req EXCEPT ![r] = BeginDelete(h, s)]
        PROVE  StoreInv'
    <2> DEFINE g == BeginDelete(h, s)
    <2>1. /\ g \in Frame /\ WellFormed(g) /\ g.pc \in {"idle", "next", "stat", "fetch"}
          /\ \/ g.ctx = "none"
             \/ db[s] # Nil /\ g.ctx = "delete" /\ g.snap = s /\ g.list = db[s].disks /\ g.i = 1
      BY <1>0, <1>1, BeginDeleteOK
    <2> HIDE DEF g
    <2>2. CASE g.ctx = "none"
      <3>1. FrameInv(g) /\ Continues(req[r], g)
        BY <1>0, <2>1, <2>2, AtRest
      <3> QED  BY <1>0, <1>1, <3>1, QuietStep DEF g
    <2>3. CASE db[s] # Nil /\ g.ctx = "delete" /\ g.snap = s /\ g.list = db[s].disks /\ g.i = 1
      <3>1. s \in known
        BY <2>3 DEF StoreInv, Catalogued
      <3>2. \A j \in DOMAIN g.list : ~ (j < g.i)
        <4>1. g.list \in Seq(Disks)
          BY <2>1 DEF Frame
        <4> QED  BY <2>3, <4>1, SMT
      <3>3. FrameInv(g) /\ Continues(req[r], g)
        BY <2>1, <2>3, <3>1, <3>2 DEF FrameInv, CreateInv, DeleteInv, Building, Continues
      <3> QED  BY <1>0, <1>1, <3>3, QuietStep DEF g
    <2> QED  BY <2>1, <2>2, <2>3
  <1>2. CASE DeleteSnapshot(r)
    <2>1. PICK v \in VMs, s \in known : Become(r, BeginDelete([Parked("none", {s}) EXCEPT !.vm = v], s))
      BY <1>2 DEF DeleteSnapshot
    <2> DEFINE h == [Parked("none", {s}) EXCEPT !.vm = v]
    <2>2. h \in Frame /\ h.ctx = "none" /\ s \in SnapIDs
      BY <1>0, ToDelete
    <2> QED  BY <1>1, <2>1, <2>2 DEF Become
  <1>3. CASE PurgeNext(r)
    <2>1. PICK s \in req[r].queue : Become(r, BeginDelete([req[r] EXCEPT !.queue = @ \ {s}], s))
      BY <1>3 DEF PurgeNext
    <2> DEFINE h == [req[r] EXCEPT !.queue = @ \ {s}]
    <2>2. s \in SnapIDs
      BY <1>0 DEF Frame
    <2>3. h \in Frame /\ h.ctx = "none"
      BY <1>0, <1>3, <2>2, ToDelete DEF PurgeNext
    <2> QED  BY <1>1, <2>1, <2>2, <2>3 DEF Become
  <1>4. CASE PurgeSnapshots(r)
    <2>1. PICK v \in VMs : LET ids == {s \in SnapIDs : db[s] # Nil /\ db[s].vm = v}
                           IN  Become(r, NextSnapshot([Parked("none", ids) EXCEPT !.vm = v, !.queue = ids]))
      BY <1>4 DEF PurgeSnapshots
    <2> DEFINE ids == {s \in SnapIDs : db[s] # Nil /\ db[s].vm = v}
               h   == [Parked("none", ids) EXCEPT !.vm = v, !.queue = ids]
    <2>2. h \in Frame
      BY <1>0, ToDelete
    <2>3. req' = [req EXCEPT ![r] = NextSnapshot(h)]
      BY <2>1 DEF Become
    <2> HIDE DEF h
    <2>4. FrameInv(NextSnapshot(h)) /\ Continues(req[r], NextSnapshot(h))
      BY <1>0, <2>2, NextSnapshotOK, AtRest
    <2> QED  BY <1>0, <2>3, <2>4, QuietStep
  <1>5. CASE LookupFails(r)
    <2>1. PICK code \in {"error", "badrequest"} : Become(r, Parked(code, {}))
      BY <1>5 DEF LookupFails
    <2>2. Parked(code, {}) \in Frame /\ WellFormed(Parked(code, {})) /\ Parked(code, {}).ctx = "none"
      BY ParkedOK DEF Codes
    <2>3. FrameInv(Parked(code, {})) /\ Continues(req[r], Parked(code, {}))
      BY <1>0, <2>2, AtRest
    <2> QED  BY <1>0, <2>1, <2>3, QuietStep DEF Become
  <1> QED  BY <1>2, <1>3, <1>4, <1>5

LEMMA FetchRecordInv ==
    ASSUME StoreInv, TypeOK', NEW r \in Requests, FetchRecord(r)
    PROVE  StoreInv'
  <1> DEFINE f == req[r]
             g == [f EXCEPT !.pc = "dbdelete"]
  <1>1. f \in Frame /\ WellFormed(f) /\ FrameInv(f) /\ f.pc = "fetch" /\ UNCHANGED store
    BY AtCall DEF FetchRecord, At, StoreInv
  <1>2. CASE db[f.snap] = Nil
    <2>1. req' = [req EXCEPT ![r] = NextSnapshot(f)]
      BY <1>2 DEF FetchRecord, Become
    <2>2. FrameInv(NextSnapshot(f)) /\ Continues(f, NextSnapshot(f))
      BY <1>1, NextSnapshotOK, AtRest
    <2> QED  BY <1>1, <2>1, <2>2, QuietStep
  <1>3. CASE db[f.snap] # Nil
    <2>1. req' = [req EXCEPT ![r] = g]
      BY <1>3 DEF FetchRecord, Become
    <2>2. g.pc = "dbdelete" /\ g.ctx = f.ctx /\ g.snap = f.snap /\ g.list = f.list /\ g.i = f.i
      BY <1>1, Goto DEF Locations
    <2>3. f.ctx = "delete"
      BY <1>1 DEF WellFormed
    <2> HIDE DEF g
    <2>4. FrameInv(g) /\ Continues(f, g)
      BY <1>1, <2>2, <2>3 DEF FrameInv, CreateInv, DeleteInv, Building, Continues
    <2> QED  BY <1>1, <2>1, <2>4, QuietStep
  <1> QED  BY <1>2, <1>3

LEMMA CallFailsInv ==
    ASSUME StoreInv, TypeOK', NEW r \in Requests, CallFails(r)
    PROVE  StoreInv'
  <1> DEFINE f == req[r]
             g == Failed(f)
  <1>1. f \in Frame /\ WellFormed(f) /\ FrameInv(f) /\ f.pc # "idle" /\ UNCHANGED store
    BY AtCall DEF CallFails, At, StoreInv
  <1>2. req' = [req EXCEPT ![r] = g]
    BY DEF CallFails
  <1>3. /\ g \in Frame /\ WellFormed(g) /\ g.pc # "rmdir"
        /\ \/ g.ctx = "none"
           \/ /\ Building(f) /\ g.ctx \in {"discard", "rollback", "undo"}
              /\ g.snap = f.snap
           \/ /\ f.pc = "rmdir" /\ f.ctx = "delete" /\ g.ctx = "delete" /\ g.pc # "readdir"
              /\ g.snap = f.snap /\ g.list = f.list /\ g.i = f.i + 1
    BY <1>1, FailedOK
  <1> SUFFICES FrameInv(g) /\ Continues(f, g)
    BY <1>1, <1>2, QuietStep
  <1>4. CASE f.pc = "rmdir"
    <2>1. g = NextDisk(f)
      BY <1>4 DEF Failed
    <2>2. f.ctx = "delete" => FileOf(f) \notin files
      BY <1>1, <1>4 DEF FrameInv, DeleteInv
    <2> QED  BY <1>4, <2>1, <2>2, WalkOn
  <1>5. CASE f.pc # "rmdir"
    <2> HIDE DEF g
    <2>1. CASE g.ctx = "none"
      BY <1>1, <1>3, <2>1, AtRest
    <2>2. CASE g.ctx # "none"
      BY <1>1, <1>3, <1>5, <2>2, CleaningUp
    <2> QED  BY <2>1, <2>2
  <1> QED  BY <1>4, <1>5

LEMMA CrashInv ==
    ASSUME StoreInv, TypeOK', Crash
    PROVE  StoreInv'
  <1>1. req' = [r \in Requests |-> Parked("none", {})] /\ UNCHANGED store
    BY DEF Crash
  <1>2. WellFormed(Parked("none", {})) /\ Parked("none", {}).ctx = "none"
    BY ParkedOK DEF Codes
  <1>3. \A r \in Requests : req'[r].ctx = "none" /\ WellFormed(req'[r])
    BY <1>1, <1>2
  <1>4. ASSUME NEW r \in Requests PROVE FrameInv(req[r])'
    BY <1>3 DEF FrameInv, CreateInv, DeleteInv, Building, WellFormed
  <1>5. BuiltApart'
    BY <1>3 DEF BuiltApart, Building
  <1>6. FilesHoused' /\ Catalogued' /\ DeletedLeavesNothing'
    BY <1>1 DEF StoreInv, FilesHoused, Catalogued, DeletedLeavesNothing, store
  <1> QED  BY <1>4, <1>5, <1>6 DEF StoreInv

-----------------------------------------------------------------------------
(***************************************************************************)
(* The steps that build a snapshot.                                        *)
(***************************************************************************)
\* Nobody else is disturbed by a step that changes the store only at the
\* snapshot that its request is building.
LEMMA BuilderStep ==
    ASSUME StoreInv, NEW r \in Requests, Building(req[r]),
           \A s \in SnapIDs : s # req[r].snap => SameAt(s),
           known' \subseteq known \cup {req[r].snap}
    PROVE  \A q \in Requests \ {r} : Undisturbed(req[q])
  <1> SUFFICES ASSUME NEW q \in Requests \ {r}, req[q].ctx # "none"
               PROVE  SameAt(req[q].snap) /\ (Building(req[q]) => req[q].snap \notin known')
    BY DEF Undisturbed
  <1>1. req[q].snap # req[r].snap
    BY Alone
  <1>2. req[q].snap \in SnapIDs
    BY AtCall DEF StoreInv, WellFormed
  <1>3. Building(req[q]) => req[q].snap \notin known
    BY DEF StoreInv, FrameInv
  <1> QED  BY <1>1, <1>2, <1>3

LEMMA CreateSnapshotInv ==
    ASSUME StoreInv, TypeOK', NEW r \in Requests, CreateSnapshot(r)
    PROVE  StoreInv'
  <1>1. PICK v \in VMs, s \in SnapIDs \ minted : \E list \in DiskLists[v] :
          /\ minted' = minted \cup {s}
          /\ Become(r, IF \A j \in DOMAIN list : list[j] \in Cloneable
                       THEN StartCreate(v, s, list) ELSE Parked("badrequest", {}))
    BY DEF CreateSnapshot, StartCreate
  <1>2. PICK list \in DiskLists[v] :
          /\ minted' = minted \cup {s}
          /\ Become(r, IF \A j \in DOMAIN list : list[j] \in Cloneable
                       THEN StartCreate(v, s, list) ELSE Parked("badrequest", {}))
    BY <1>1
  <1>3. list \in Seq(Disks)
    BY StoreAssumption
  <1>4. PICK g : /\ g = StartCreate(v, s, list) \/ g = Parked("badrequest", {})
                 /\ req' = [req EXCEPT ![r] = g]
    BY <1>2 DEF Become
  <1>5. /\ g \in Frame /\ WellFormed(g)
        /\ \/ g.ctx = "none"
           \/ /\ g.ctx = "create" /\ g.vm = v /\ g.snap = s /\ g.list = list /\ g.i = 1
              /\ g.pc \in {"save", "mkdir"}
    BY <1>3, <1>4, StartCreateOK, ParkedOK DEF Codes
  <1>6. UNCHANGED <<files, dirs, db, known>>
    BY DEF CreateSnapshot
  <1>7. s \notin known /\ \A d \in Disks : <<s, d>> \notin files
    BY DEF StoreInv, Catalogued, FilesHoused
  <1>8. \A q \in Requests : req'[q] = IF q = r THEN g ELSE req[q]
    BY <1>4 DEF StoreInv, TypeOK
  <1>9. FrameInv(req[r])'
    <2>1. CASE g.ctx = "none"
      BY <1>5, <1>8, <2>1 DEF FrameInv, CreateInv, DeleteInv, Building, WellFormed
    <2>2. CASE g.ctx # "none"
      <3>1. \A j \in DOMAIN g.list : ~ Done(g, j)
        BY <1>3, <1>5, <2>2, SMT DEF Done
      <3> QED
        BY <1>2, <1>5, <1>6, <1>7, <1>8, <2>2, <3>1
           DEF FrameInv, CreateInv, DeleteInv, Building
    <2> QED  BY <2>1, <2>2
  <1>10. ASSUME NEW q \in Requests, q # r PROVE FrameInv(req[q])'
    <2>1. Undisturbed(req[q])
      BY <1>6 DEF StoreInv, FrameInv, Undisturbed, SameAt
    <2> QED  BY <1>2, <1>6, <1>8, <1>10, <2>1, FrameKept
  <1>11. \A q \in Requests : Building(req[q]) => req[q].snap # s
    BY DEF StoreInv, FrameInv
  <1>12. BuiltApart'
    BY <1>5, <1>8, <1>11 DEF StoreInv, BuiltApart, Building
  <1>13. FilesHoused' /\ Catalogued' /\ DeletedLeavesNothing'
    BY <1>2, <1>6 DEF StoreInv, FilesHoused, Catalogued, DeletedLeavesNothing
  <1> QED  BY <1>9, <1>10, <1>12, <1>13 DEF StoreInv

LEMMA MakeDirInv ==
    ASSUME StoreInv, TypeOK', NEW r \in Requests, MakeDir(r)
    PROVE  StoreInv'
  <1> DEFINE f == req[r]
             g == [f EXCEPT !.pc = "reflink"]
  <1>1. /\ f \in Frame /\ WellFormed(f) /\ FrameInv(f) /\ f.pc = "mkdir"
        /\ dirs' = dirs \cup {DirOf(f)} /\ UNCHANGED <<files, db, minted, known>>
        /\ req' = [req EXCEPT ![r] = g]
    BY AtCall DEF MakeDir, At, StoreInv, Become
  <1>2. /\ g.pc = "reflink" /\ g.ctx = f.ctx /\ g.snap = f.snap
        /\ g.list = f.list /\ g.i = f.i /\ g.vm = f.vm
    BY <1>1, Goto DEF Locations
  <1>3. f.ctx = "create" /\ Building(f)
    BY <1>1 DEF WellFormed, Building
  <1>4. req'[r] = g
    BY <1>1 DEF StoreInv, TypeOK
  <1> HIDE DEF g
  <1>5. FrameInv(req[r])'
    <2>1. \A j \in DOMAIN f.list : Done(g, j) <=> Done(f, j)
      BY <1>1, <1>2 DEF Done
    <2> QED  BY <1>1, <1>2, <1>3, <1>4, <2>1 DEF FrameInv, CreateInv, DeleteInv, Building, DirOf
  <1>6. \A q \in Requests \ {r} : Undisturbed(req[q])
    BY <1>1, <1>3, BuilderStep DEF SameAt, DirOf
  <1>7. FilesHoused' /\ Catalogued' /\ DeletedLeavesNothing'
    BY <1>1 DEF StoreInv, FilesHoused, Catalogued, DeletedLeavesNothing
  <1>8. Continues(f, g)
    BY <1>2, <1>3 DEF Continues
  <1> QED  BY <1>1, <1>5, <1>6, <1>7, <1>8, StepKept

LEMMA ReflinkInv ==
    ASSUME StoreInv, TypeOK', NEW r \in Requests, Reflink(r)
    PROVE  StoreInv'
  <1> DEFINE f == req[r]
  <1>1. /\ f \in Frame /\ WellFormed(f) /\ FrameInv(f) /\ f.pc = "reflink"
        /\ UNCHANGED <<dirs, db, minted, known>>
    BY AtCall DEF Reflink, At, StoreInv
  <1>2. /\ f.ctx = "create" /\ Building(f) /\ f.i \in DOMAIN f.list /\ f.list \in Seq(Disks)
        /\ f.list[f.i] \in Disks /\ f.snap \in SnapIDs
    BY <1>1 DEF WellFormed, Building, OnDisk, Frame
  <1>3. CASE FileOf(f) \in files
    <2> DEFINE g == [f EXCEPT !.pc = "unlink", !.ctx = "discard"]
    <2>1. req' = [req EXCEPT ![r] = g] /\ UNCHANGED store
      BY <1>1, <1>3 DEF Reflink, Become, store
    <2>2. g \in Frame
      <3>1. "unlink" \in Locations /\ "discard" \in Contexts
        BY DEF Locations, Contexts
      <3> QED  BY <1>1, <3>1, SetCtx
    <2>3. g.pc = "unlink" /\ g.ctx = "discard" /\ g.snap = f.snap
      BY <1>1, SMT DEF Frame
    <2> HIDE DEF g
    <2>4. FrameInv(g) /\ Continues(f, g)
      BY <1>1, <1>2, <2>2, <2>3, CleaningUp
    <2> QED  BY <2>1, <2>4, QuietStep
  <1>4. CASE FileOf(f) \notin files
    <2> DEFINE g == [f EXCEPT !.pc = "extents"]
    <2>1. req' = [req EXCEPT ![r] = g] /\ files' = files \cup {FileOf(f)}
      BY <1>4 DEF Reflink, Become
    <2>2. /\ g.pc = "extents" /\ g.ctx = f.ctx /\ g.snap = f.snap
          /\ g.list = f.list /\ g.i = f.i /\ g.vm = f.vm
      BY <1>1, Goto DEF Locations
    <2>3. req'[r] = g
      BY <2>1 DEF StoreInv, TypeOK
    <2> HIDE DEF g
    <2>4. FrameInv(req[r])'
      <3>1. /\ \A j \in DOMAIN f.list : Done(f, j) => j < f.i
            /\ \A j \in DOMAIN f.list : Done(g, j) <=> Done(f, j) \/ j = f.i
        BY <1>1, <2>2 DEF Done
      <3>2. ASSUME NEW j \in DOMAIN g.list, Done(g, j)
            PROVE  /\ <<g.snap, g.list[j]>> \in files'
                   /\ \A k \in DOMAIN g.list : k < j => g.list[k] # g.list[j]
        <4>1. CASE Done(f, j)
          BY <1>1, <1>2, <2>1, <2>2, <3>2, <4>1 DEF FrameInv, CreateInv
        <4>2. CASE j = f.i
          <5>1. \A k \in DOMAIN f.list : k < f.i => <<f.snap, f.list[k]>> \in files
            BY <1>1, <1>2 DEF FrameInv, CreateInv, Done
          <5> QED  BY <1>4, <2>1, <2>2, <4>2, <5>1 DEF FileOf
        <4> QED  BY <2>2, <3>1, <3>2, <4>1, <4>2
      <3>3. CreateInv(req[r])'
        <4>1. ASSUME NEW d \in Disks, <<g.snap, d>> \in files'
              PROVE  \E j \in DOMAIN g.list : Done(g, j) /\ g.list[j] = d
          BY <1>1, <1>2, <2>1, <2>2, <3>1, <4>1 DEF FrameInv, CreateInv, FileOf
        <4>2. g.list \in DiskLists[g.vm]
          BY <1>1, <1>2, <2>2 DEF FrameInv, CreateInv
        <4> QED  BY <2>2, <2>3, <3>2, <4>1, <4>2 DEF CreateInv
      <3> QED
        BY <1>1, <1>2, <2>1, <2>2, <2>3, <3>3 DEF FrameInv, DeleteInv, Building
    <2>5. \A q \in Requests \ {r} : Undisturbed(req[q])
      BY <1>1, <1>2, <2>1, BuilderStep DEF SameAt, FileOf
    <2>6. f.snap \in minted /\ f.snap \notin known /\ DirOf(f) \in dirs
      BY <1>1, <1>2 DEF FrameInv, CreateInv
    <2>7. FilesHoused'
      BY <1>1, <2>1, <2>6 DEF StoreInv, FilesHoused, FileOf, DirOf
    <2>8. Catalogued' /\ DeletedLeavesNothing'
      BY <1>1, <2>1, <2>6 DEF StoreInv, Catalogued, DeletedLeavesNothing, FileOf
    <2>9. Continues(f, g)
      BY <1>2, <2>2 DEF Continues
    <2> QED  BY <1>1, <2>1, <2>4, <2>5, <2>7, <2>8, <2>9, StepKept
  <1> QED  BY <1>3, <1>4

LEMMA SaveRecordInv ==
    ASSUME StoreInv, TypeOK', NEW r \in Requests, SaveRecord(r)
    PROVE  StoreInv'
  <1> DEFINE f   == req[r]
             g   == Answer(f, "ok")
             rec == [vm |-> f.vm, disks |-> f.list]
  <1>1. /\ f \in Frame /\ WellFormed(f) /\ FrameInv(f) /\ f.pc = "save"
        /\ db' = [db EXCEPT ![f.snap] = rec] /\ known' = known \cup {f.snap}
        /\ UNCHANGED <<files, dirs, minted>> /\ req' = [req EXCEPT ![r] = g]
    BY AtCall DEF SaveRecord, At, StoreInv, Become
  <1>2. f.ctx = "create" /\ Building(f) /\ f.snap \in SnapIDs /\ f.vm \in VMs /\ f.list \in Seq(Disks)
    BY <1>1 DEF WellFormed, Building, Frame
  <1>3. rec # Nil /\ rec.disks = f.list
    BY <1>2, StoreAssumption DEF Record
  <1>4. WellFormed(g) /\ g.ctx = "none"
    BY <1>1, AnswerOK DEF Codes
  <1>5. req'[r] = g
    BY <1>1 DEF StoreInv, TypeOK
  <1> HIDE DEF g, rec
  <1>6. FrameInv(req[r])'
    BY <1>4, <1>5 DEF FrameInv, CreateInv, DeleteInv, Building, WellFormed
  <1>7. db'[f.snap] = rec /\ \A s \in SnapIDs : s # f.snap => db'[s] = db[s]
    BY <1>1, <1>2 DEF StoreInv, TypeOK
  <1>8. \A q \in Requests \ {r} : Undisturbed(req[q])
    BY <1>1, <1>2, <1>7, BuilderStep DEF SameAt
  <1>9. f.snap \in minted /\ \A d \in Disks : <<f.snap, d>> \in files => \E j \in DOMAIN f.list : f.list[j] = d
    BY <1>1, <1>2 DEF FrameInv, CreateInv
  <1>10. FilesHoused'
    BY <1>1 DEF StoreInv, FilesHoused
  <1>11. Catalogued'
    <2>1. (known \subseteq minted)'
      BY <1>1, <1>9 DEF StoreInv, Catalogued
    <2>2. ASSUME NEW s \in SnapIDs, db'[s] # Nil
          PROVE  /\ s \in known'
                 /\ \A d \in Disks : <<s, d>> \in files' =>
                      \E j \in DOMAIN db'[s].disks : db'[s].disks[j] = d
      <3>1. CASE s = f.snap
        BY <1>1, <1>3, <1>7, <1>9, <3>1
      <3>2. CASE s # f.snap
        BY <1>1, <1>7, <2>2, <3>2 DEF StoreInv, Catalogued
      <3> QED  BY <3>1, <3>2
    <2>3. ASSUME NEW s \in SnapIDs, db'[s] # Nil, NEW j \in DOMAIN db'[s].disks,
                 NEW k \in DOMAIN db'[s].disks, j < k
          PROVE  db'[s].disks[j] # db'[s].disks[k]
      <3>1. CASE s = f.snap
        <4>1. f.i = Len(f.list) + 1
          BY <1>1 DEF WellFormed
        <4>2. db'[s].disks = f.list
          BY <1>3, <1>7, <3>1
        <4>3. Done(f, k)
          BY <1>2, <2>3, <4>1, <4>2, SMT DEF Done
        <4> QED  BY <1>1, <1>2, <2>3, <4>2, <4>3 DEF FrameInv, CreateInv
      <3>2. CASE s # f.snap
        BY <1>1, <1>7, <2>3, <3>2 DEF StoreInv, Catalogued
      <3> QED  BY <3>1, <3>2
    <2> QED  BY <2>1, <2>2, <2>3 DEF Catalogued
  <1>12. DeletedLeavesNothing'
    <2>1. ASSUME NEW s \in known', db'[s] = Nil PROVE \A d \in Disks : <<s, d>> \notin files'
      <3>1. s \in SnapIDs /\ s # f.snap /\ s \in known
        BY <1>1, <1>2, <1>3, <1>7, <2>1 DEF StoreInv, TypeOK
      <3> QED  BY <1>1, <1>7, <2>1, <3>1 DEF StoreInv, DeletedLeavesNothing
    <2> QED  BY <2>1 DEF DeletedLeavesNothing
  <1>13. Continues(f, g)
    BY <1>4 DEF Continues, Building
  <1> QED  BY <1>1, <1>6, <1>8, <1>10, <1>11, <1>12, <1>13, StepKept

-----------------------------------------------------------------------------
(***************************************************************************)
(* The steps that delete files and records.                                *)
(***************************************************************************)
\* Nobody else is disturbed by a delete: builders work on other snapshots.
LEMMA DeleterStep ==
    ASSUME StoreInv, NEW r \in Requests, req[r].ctx = "delete", known' = known,
           \A s \in SnapIDs : s # req[r].snap => SameAt(s),
           ShrunkAt(req[r].snap)
    PROVE  \A q \in Requests \ {r} : Undisturbed(req[q])
  <1> SUFFICES ASSUME NEW q \in Requests \ {r}, req[q].ctx # "none"
               PROVE  \/ SameAt(req[q].snap) /\ (Building(req[q]) => req[q].snap \notin known')
                      \/ req[q].ctx = "delete" /\ ShrunkAt(req[q].snap)
    BY DEF Undisturbed
  <1>1. req[r].snap \in known /\ (Building(req[q]) => req[q].snap \notin known)
    BY DEF StoreInv, FrameInv, DeleteInv
  <1>2. req[q].snap \in SnapIDs
    BY AtCall DEF StoreInv, WellFormed
  <1>3. CASE Building(req[q])
    BY <1>1, <1>2, <1>3
  <1>4. CASE req[q].ctx = "delete" /\ req[q].snap = req[r].snap
    BY <1>4
  <1>5. CASE req[q].ctx = "delete" /\ req[q].snap # req[r].snap
    BY <1>1, <1>2, <1>5
  <1> QED  BY <1>3, <1>4, <1>5, ContextOf DEF StoreInv

\* Nobody else is disturbed by files, or a directory, of a snapshot going away.
LEMMA RemoverStep ==
    ASSUME StoreInv, NEW r \in Requests, req[r].ctx # "none",
           \A s \in SnapIDs : s # req[r].snap => SameAt(s),
           files' \subseteq files, UNCHANGED <<db, minted, known>>
    PROVE  \A q \in Requests \ {r} : Undisturbed(req[q])
  <1>1. CASE Building(req[r])
    BY <1>1, BuilderStep
  <1>2. CASE req[r].ctx = "delete"
    BY <1>2, DeleterStep DEF ShrunkAt
  <1> QED  BY <1>1, <1>2, ContextOf DEF StoreInv

\* Removing a file keeps what the store promises about files.
LEMMA FewerFiles ==
    ASSUME StoreInv, files' \subseteq files, UNCHANGED <<dirs, db, minted, known>>
    PROVE  FilesHoused' /\ Catalogued' /\ DeletedLeavesNothing'
  BY DEF StoreInv, FilesHoused, Catalogued, DeletedLeavesNothing

LEMMA RemoveFileInv ==
    ASSUME StoreInv, TypeOK', NEW r \in Requests, DiscardFile(r) \/ RemoveFile(r)
    PROVE  StoreInv'
  <1> DEFINE f == req[r]
             g == [f EXCEPT !.pc = "readdir"]
  <1>1. /\ f \in Frame /\ WellFormed(f) /\ FrameInv(f) /\ f.pc \in {"unlink", "remove"}
        /\ files' = files \ {FileOf(f)} /\ UNCHANGED <<dirs, db, minted, known>>
    BY AtCall DEF DiscardFile, RemoveFile, At, StoreInv
  <1>2. CASE RemoveFile(r) /\ FileOf(f) \notin files
    <2>1. req' = [req EXCEPT ![r] = DiskFailed(f)] /\ f.pc = "remove"
      BY <1>2 DEF RemoveFile, Become, At
    <2>2. UNCHANGED store
      BY <1>1, <1>2 DEF store
    <2> QED  BY <2>1, <2>2, WalkFails, QuietStep
  <1>3. CASE DiscardFile(r) \/ FileOf(f) \in files
    <2>1. req' = [req EXCEPT ![r] = g]
      BY <1>3 DEF DiscardFile, RemoveFile, Become
    <2>2. g.pc = "readdir" /\ g.ctx = f.ctx /\ g.snap = f.snap /\ g.list = f.list /\ g.i = f.i
      BY <1>1, Goto DEF Locations
    <2>3. f.ctx # "create" /\ f.ctx # "none"
      BY <1>1 DEF WellFormed
    <2>4. req'[r] = g
      BY <2>1 DEF StoreInv, TypeOK
    <2> HIDE DEF g
    <2>5. FrameInv(req[r])'
      BY <1>1, <2>2, <2>3, <2>4 DEF FrameInv, CreateInv, DeleteInv, Building, FileOf
    <2>6. \A q \in Requests \ {r} : Undisturbed(req[q])
      BY <1>1, <2>3, RemoverStep DEF SameAt, FileOf
    <2>7. Continues(f, g)
      BY <2>2 DEF Continues, Building
    <2> QED  BY <1>1, <2>1, <2>5, <2>6, <2>7, FewerFiles, StepKept
  <1> QED  BY <1>2, <1>3

LEMMA RemoveDirInv ==
    ASSUME StoreInv, TypeOK', NEW r \in Requests, RemoveDir(r)
    PROVE  StoreInv'
  <1> DEFINE f == req[r]
             g == NextDisk(f)
  <1>1. /\ f \in Frame /\ WellFormed(f) /\ FrameInv(f) /\ f.pc = "rmdir"
        /\ dirs' = dirs \ {DirOf(f)} /\ files' = files \ FilesIn(DirOf(f))
        /\ UNCHANGED <<db, minted, known>> /\ req' = [req EXCEPT ![r] = g]
    BY AtCall DEF RemoveDir, At, StoreInv, Become
  <1>2. files \subseteq SnapIDs \X Disks
    BY DEF StoreInv, TypeOK
  <1>3. FilesIn(DirOf(f)) = {}
    BY <1>1, <1>2 DEF FrameInv, FilesIn, DirOf
  <1>4. files' = files
    BY <1>1, <1>3
  <1>5. f.ctx = "delete" => FileOf(f) \notin files
    BY <1>1 DEF FrameInv, DeleteInv
  <1>6. FrameInv(g) /\ Continues(f, g)
    BY <1>1, <1>5, WalkOn
  <1>7. g.ctx # "create" /\ f.ctx # "none"
    <2>1. f.pc \in OnDisk /\ f.ctx \notin {"create", "none"}
      BY <1>1, AtWalk DEF StoreInv
    <2> QED  BY <1>1, <2>1, NextDiskOK
  <1>8. req'[r] = g
    BY <1>1 DEF StoreInv, TypeOK
  <1> HIDE DEF g
  <1>9. FrameInv(req[r])'
    BY <1>1, <1>4, <1>6, <1>7, <1>8 DEF FrameInv, CreateInv, DeleteInv, Building, FileOf
  <1>10. \A q \in Requests \ {r} : Undisturbed(req[q])
    BY <1>1, <1>4, <1>7, RemoverStep DEF SameAt, DirOf
  <1>11. FilesHoused'
    BY <1>1, <1>3, <1>4 DEF StoreInv, FilesHoused, FilesIn
  <1>12. Catalogued' /\ DeletedLeavesNothing'
    BY <1>1, <1>4 DEF StoreInv, Catalogued, DeletedLeavesNothing
  <1> QED  BY <1>1, <1>6, <1>9, <1>10, <1>11, <1>12, StepKept

LEMMA DeleteRecordInv ==
    ASSUME StoreInv, TypeOK', NEW r \in Requests, DeleteRecord(r)
    PROVE  StoreInv'
  <1> DEFINE f == req[r]
  <1>1. /\ f \in Frame /\ WellFormed(f) /\ FrameInv(f) /\ f.pc = "dbdelete"
        /\ db' = [db EXCEPT ![f.snap] = Nil] /\ UNCHANGED <<files, dirs, minted, known>>
    BY AtCall DEF DeleteRecord, At, StoreInv
  <1>2. PICK g : /\ g = Answer(f, "error") \/ g = NextSnapshot(f)
                 /\ req' = [req EXCEPT ![r] = g]
    BY DEF DeleteRecord, Become
  <1>3. WellFormed(g) /\ g.ctx = "none"
    BY <1>1, <1>2, AnswerOK, NextSnapshotOK DEF Codes
  <1>4. /\ f.ctx = "delete" /\ f.snap \in SnapIDs /\ f.i = Len(f.list) + 1 /\ f.list \in Seq(Disks)
    BY <1>1 DEF WellFormed, Frame
  <1>5. db'[f.snap] = Nil /\ \A s \in SnapIDs : s # f.snap => db'[s] = db[s]
    BY <1>1, <1>4 DEF StoreInv, TypeOK
  <1>6. \A d \in Disks : <<f.snap, d>> \notin files
    <2>1. f.snap \in known /\ \A j \in DOMAIN f.list : j < f.i => <<f.snap, f.list[j]>> \notin files
      BY <1>1, <1>4 DEF FrameInv, DeleteInv
    <2>2. \A j \in DOMAIN f.list : j < f.i
      BY <1>4, SMT
    <2>3. CASE db[f.snap] = Nil
      BY <2>1, <2>3 DEF StoreInv, DeletedLeavesNothing
    <2>4. CASE db[f.snap] # Nil
      <3>1. db[f.snap].disks = f.list
        BY <1>1, <1>4, <2>4 DEF FrameInv, DeleteInv
      <3> QED  BY <1>4, <2>1, <2>2, <2>4, <3>1 DEF StoreInv, Catalogued
    <2> QED  BY <2>3, <2>4
  <1>7. req'[r] = g
    BY <1>2 DEF StoreInv, TypeOK
  <1>8. FrameInv(req[r])'
    BY <1>3, <1>7 DEF FrameInv, CreateInv, DeleteInv, Building, WellFormed
  <1>9. \A q \in Requests \ {r} : Undisturbed(req[q])
    BY <1>1, <1>4, <1>5, DeleterStep DEF SameAt, ShrunkAt
  <1>10. FilesHoused' /\ Catalogued'
    BY <1>1, <1>5 DEF StoreInv, FilesHoused, Catalogued
  <1>11. DeletedLeavesNothing'
    BY <1>1, <1>5, <1>6 DEF StoreInv, TypeOK, DeletedLeavesNothing
  <1>12. Continues(f, g)
    BY <1>3 DEF Continues, Building
  <1> QED  BY <1>1, <1>2, <1>8, <1>9, <1>10, <1>11, <1>12, StepKept

-----------------------------------------------------------------------------
(***************************************************************************)
(* The theorems.                                                           *)
(***************************************************************************)
LEMMA StoreInvInit ==
    Init => StoreInv
  <1> SUFFICES ASSUME Init PROVE StoreInv
    OBVIOUS
  <1>1. TypeOK
    BY TypeOKInit
  <1>2. \A r \in Requests : req[r].ctx = "none" /\ WellFormed(req[r])
    BY ParkedOK DEF Init, Codes
  <1>3. \A r \in Requests : FrameInv(req[r])
    BY <1>2 DEF FrameInv, CreateInv, DeleteInv, Building, WellFormed
  <1>4. BuiltApart
    BY <1>2 DEF BuiltApart, Building
  <1>5. FilesHoused /\ Catalogued /\ DeletedLeavesNothing
    BY DEF Init, FilesHoused, Catalogued, DeletedLeavesNothing
  <1> QED  BY <1>1, <1>3, <1>4, <1>5 DEF StoreInv

LEMMA StoreInvStep ==
    StoreInv /\ [Next]_vars => StoreInv'
  <1> SUFFICES ASSUME StoreInv, [Next]_vars PROVE StoreInv'
    OBVIOUS
  <1>1. TypeOK'
    BY TypeOKStep DEF StoreInv
  <1>2. CASE UNCHANGED vars
    BY <1>2 DEF StoreInv, TypeOK, WellFormed, FilesHoused, Catalogued, BuiltApart,
                DeletedLeavesNothing, FrameInv, CreateInv, DeleteInv, Building, Done, FileOf, DirOf, vars
  <1>3. CASE Crash
    BY <1>1, <1>3, CrashInv
  <1>4. ASSUME NEW r \in Requests, Accept(r) PROVE StoreInv'
    BY <1>1, <1>4, CreateSnapshotInv, LookupInv DEF Accept
  <1>5. ASSUME NEW r \in Requests, Advance(r) PROVE StoreInv'
    BY <1>1, <1>5, MakeDirInv, ReflinkInv, ReadExtentsInv, SaveRecordInv, StatDirInv,
       RemoveFileInv, ReadDirInv, RemoveDirInv, LookupInv, FetchRecordInv, DeleteRecordInv
       DEF Advance
  <1>6. ASSUME NEW r \in Requests, CallFails(r) PROVE StoreInv'
    BY <1>1, <1>6, CallFailsInv
  <1> QED  BY <1>2, <1>3, <1>4, <1>5, <1>6 DEF Next

\* The inductive invariant: builders of a snapshot are alone with it, and
\* deletes agree with its record (vms.go:64-171, manager.go:145-172, 335-357).
THEOREM StoreInvariant == Spec => []StoreInv
  <1>1. Init => StoreInv
    BY StoreInvInit
  <1>2. StoreInv /\ [Next]_vars => StoreInv'
    BY StoreInvStep
  <1> QED  BY <1>1, <1>2, PTL DEF Spec

LEMMA EmptyAtRemove ==
    ASSUME StoreInv, NEW r \in Requests, At(r, "rmdir")
    PROVE  FilesIn(DirOf(req[r])) = {}
  <1>1. files \subseteq SnapIDs \X Disks
    BY DEF StoreInv, TypeOK
  <1>2. \A d \in Disks : RepoOf[d] = RepoOf[req[r].list[req[r].i]] => <<req[r].snap, d>> \notin files
    BY DEF StoreInv, FrameInv, At
  <1> QED  BY <1>1, <1>2 DEF FilesIn, DirOf

\* The RemoveAll of snapshots.go:70 and of vms.go:92 never removes a file, with
\* any number of requests: the lock that the TODO at snapshots.go:68 wonders
\* about is not needed.
THEOREM RemoveAllIsSafe == Spec => []RemoveAllOnlyEmpty
  <1>1. StoreInv => RemoveAllOnlyEmpty
    BY EmptyAtRemove DEF RemoveAllOnlyEmpty
  <1> QED  BY <1>1, StoreInvariant, PTL

\* A snapshot whose record was deleted (manager.go:351) has no file left.
THEOREM DeletedIsGone == Spec => []DeletedLeavesNothing
  <1>1. StoreInv => DeletedLeavesNothing
    BY DEF StoreInv
  <1> QED  BY <1>1, StoreInvariant, PTL

LEMMA BornCompleteStep ==
    ASSUME StoreInv, [Next]_vars
    PROVE  [BornComplete]_vars
  <1> SUFFICES ASSUME NEW s \in SnapIDs, db[s] = Nil, db'[s] # Nil
               PROVE  \A j \in DOMAIN db'[s].disks : <<s, db'[s].disks[j]>> \in files'
    BY DEF BornComplete
  <1>1. db \in [SnapIDs -> Record \cup {Nil}]
    BY DEF StoreInv, TypeOK
  <1>2. PICK r \in Requests : SaveRecord(r)
    <2>1. db' # db
      OBVIOUS
    <2>2. ASSUME NEW r \in Requests, DeleteRecord(r) PROVE FALSE
      BY <1>1, <2>2 DEF DeleteRecord
    <2> QED
      BY <2>1, <2>2 DEF Next, Accept, Advance, vars, store, Crash, CallFails, CreateSnapshot,
         MakeDir, Reflink, ReadExtents, DiscardFile, StatDir, RemoveFile, ReadDir, RemoveDir,
         DeleteSnapshot, PurgeSnapshots, PurgeNext, FetchRecord, LookupFails
  <1> DEFINE f == req[r]
  <1>3. f \in Frame /\ WellFormed(f) /\ FrameInv(f) /\ f.pc = "save"
    BY <1>2, AtCall DEF SaveRecord, At, StoreInv
  <1>4. f.ctx = "create" /\ f.i = Len(f.list) + 1 /\ f.list \in Seq(Disks) /\ f.snap \in SnapIDs
    BY <1>3 DEF WellFormed, Frame
  <1>5. s = f.snap /\ db'[s].disks = f.list /\ files' = files
    BY <1>1, <1>2, <1>4 DEF SaveRecord
  <1>6. \A j \in DOMAIN f.list : j < f.i
    BY <1>4, SMT
  <1> QED  BY <1>3, <1>4, <1>5, <1>6 DEF FrameInv, CreateInv, Done

\* A record is saved (manager.go:167) with all its files in place.
THEOREM BornWhole == Spec => RecordBornComplete
  <1>1. StoreInv /\ [Next]_vars => [BornComplete]_vars
    BY BornCompleteStep
  <1> QED  BY <1>1, StoreInvariant, PTL DEF Spec, RecordBornComplete
=============================================================================
