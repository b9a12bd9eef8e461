-------------------------- MODULE ExportStoreProofs --------------------------
(***************************************************************************)
(* Proof that what SnapshotStore does to the data is what                  *)
(* IncrementalExport has it do, for any number of requests, snapshots, VMs *)
(* and disks, any disk lists and any number of failures and crashes, and   *)
(* so that what IncrementalExport promises holds of the snapshots that     *)
(* the database and the directories hold.                                  *)
(*                                                                         *)
(* The argument is Agree: with StoreInv it is inductive, and at each call  *)
(* that makes or removes a file or a record it gives the guard of the      *)
(* action of IncrementalExport that the call maps to.                      *)
(***************************************************************************)
EXTENDS ExportStore, SnapshotStoreProofs

XP == INSTANCE IncrementalExportProofs WITH
          Snaps <- SnapIDs, DiskLists <- UNION {DiskLists[v] : v \in VMs}

Phases == {"none", "creating", "failed", "recorded", "deleting", "deleted"}

-----------------------------------------------------------------------------
(***************************************************************************)
(* What one step means for Agree.                                          *)
(***************************************************************************)
Progresses ==
    /\ file = [x \in files |-> file[x]]
    /\ phase \in [SnapIDs -> Phases]
    /\ list \in [SnapIDs -> Seq(Disks)] /\ i \in [SnapIDs -> Nat \ {0}]

\* Nothing happens to snapshot t.
Still(t) ==
    /\ SameAt(t)
    /\ phase'[t] = phase[t] /\ list'[t] = list[t] /\ i'[t] = i[t]

LEMMA AgreeSplit ==
    Agree <=> /\ Progresses
              /\ \A s \in SnapIDs \ minted : phase[s] = "none" /\ i[s] = 1
              /\ \A s \in SnapIDs : RecordAgrees(s)
              /\ \A r \in Requests : BuilderAgrees(req[r])
  BY DEF Agree, Progresses, Phases

\* A request that changed snapshot s alone, and that no other request builds.
LEMMA AgreeKept ==
    ASSUME StoreInv, Agree, NEW r \in Requests, NEW g, req' = [req EXCEPT ![r] = g],
           NEW s \in SnapIDs, Progresses', \A t \in SnapIDs : t # s => Still(t),
           \A q \in Requests : q # r /\ Building(req[q]) => req[q].snap # s,
           s \in minted', minted \subseteq minted',
           RecordAgrees(s)', BuilderAgrees(req[r])'
    PROVE  Agree'
  <1>1. \A q \in Requests : q # r => req'[q] = req[q]
    BY DEF StoreInv, TypeOK
  <1>2. \A t \in SnapIDs \ minted' : phase'[t] = "none" /\ i'[t] = 1
    BY AgreeSplit DEF Still
  <1>3. ASSUME NEW t \in SnapIDs PROVE RecordAgrees(t)'
    <2>1. CASE t = s
      BY <2>1
    <2>2. CASE t # s
      <3>1. RecordAgrees(t) /\ Still(t) /\ list[t] \in Seq(Disks)
        BY <2>2, AgreeSplit DEF Progresses
      <3>2. \A j \in DOMAIN list[t] : <<t, list[t][j]>> \in files' <=> <<t, list[t][j]>> \in files
        BY <3>1 DEF Still, SameAt
      <3> QED  BY <3>1, <3>2 DEF RecordAgrees, Still, SameAt
    <2> QED  BY <2>1, <2>2
  <1>4. ASSUME NEW q \in Requests PROVE BuilderAgrees(req[q])'
    <2>1. CASE q = r
      BY <2>1
    <2>2. CASE q # r /\ Building(req[q])
      <3>1. req[q].snap \in SnapIDs /\ req[q].snap # s
        BY <2>2, AtCall DEF StoreInv, WellFormed, Building
      <3>2. Still(req[q].snap) /\ BuilderAgrees(req[q]) /\ req'[q] = req[q]
        BY <1>1, <2>2, <3>1, AgreeSplit
      <3> QED  BY <3>2 DEF Still, BuilderAgrees, Building
    <2>3. CASE q # r /\ ~ Building(req[q])
      BY <1>1, <2>3 DEF BuilderAgrees, Building
    <2> QED  BY <2>1, <2>2, <2>3
  <1>5. (/\ Progresses
         /\ \A t \in SnapIDs \ minted : phase[t] = "none" /\ i[t] = 1
         /\ \A t \in SnapIDs : RecordAgrees(t)
         /\ \A q \in Requests : BuilderAgrees(req[q]))'
    BY <1>2, <1>3, <1>4
  <1> QED  BY <1>5 DEF Agree, Progresses, Phases

\* A step that does nothing to files, records and data.
LEMMA AgreeQuiet ==
    ASSUME StoreInv, Agree, NEW r \in Requests, NEW g, req' = [req EXCEPT ![r] = g],
           UNCHANGED <<files, db, minted>>, Untouched,
           Continues(req[r], g),
           g.ctx = "create" => /\ req[r].ctx = "create" /\ g.list = req[r].list
                               /\ g.i = req[r].i
    PROVE  Agree'
  <1>1. /\ req'[r] = g /\ \A q \in Requests : q # r => req'[q] = req[q]
        /\ UNCHANGED <<file, phase, list, i>>
    BY DEF StoreInv, TypeOK, Untouched, dataVars
  <1>2. BuilderAgrees(req[r])
    BY AgreeSplit
  <1>3. BuilderAgrees(g)
    <2>1. Building(g) => phase[g.snap] \in {"creating", "failed"}
      BY <1>2 DEF BuilderAgrees, Continues
    <2>2. g.ctx = "create" =>
             phase[g.snap] = "creating" /\ list[g.snap] = g.list /\ i[g.snap] = g.i
      BY <1>2 DEF BuilderAgrees, Continues, Building
    <2> QED  BY <2>1, <2>2 DEF BuilderAgrees
  <1>4. \A q \in Requests : BuilderAgrees(req'[q])
    BY <1>1, <1>3, AgreeSplit
  <1>5. (\A q \in Requests : BuilderAgrees(req[q]))'
    BY <1>1, <1>4 DEF BuilderAgrees, Building
  <1>6. Agree /\ UNCHANGED <<files, db, minted, file, phase, list, i>>
    BY <1>1
  <1> QED  BY <1>5, <1>6 DEF Agree, RecordAgrees

-----------------------------------------------------------------------------
(***************************************************************************)
(* The steps that do nothing to the data.                                  *)
(***************************************************************************)
LEMMA LookupAgrees ==
    ASSUME StoreInv, Agree, NEW r \in Requests, Untouched,
           DeleteSnapshot(r) \/ PurgeSnapshots(r) \/ PurgeNext(r) \/ LookupFails(r) \/ FetchRecord(r)
    PROVE  Agree'
  <1>1. req[r] \in Frame /\ WellFormed(req[r]) /\ db \in [SnapIDs -> Record \cup {Nil}]
        /\ known \subseteq SnapIDs
    BY AtCall DEF StoreInv, TypeOK
  <1>2. UNCHANGED <<files, db, minted>>
    BY DEF DeleteSnapshot, PurgeSnapshots, PurgeNext, LookupFails, FetchRecord, store
  <1>3. PICK g : req' = [req EXCEPT ![r] = g] /\ g.ctx \in {"none", "delete"}
    <2>1. CASE DeleteSnapshot(r)
      <3>1. PICK v \in VMs, s \in known : Become(r, BeginDelete([Parked("none", {s}) EXCEPT !.vm = v], s))
        BY <2>1 DEF DeleteSnapshot
      <3> DEFINE h == [Parked("none", {s}) EXCEPT !.vm = v]
      <3>2. h \in Frame /\ h.ctx = "none" /\ s \in SnapIDs
        BY <1>1, ToDelete DEF StoreInv
      <3>3. Become(r, BeginDelete(h, s))
        BY <3>1
      <3> HIDE DEF h
      <3>4. BeginDelete(h, s).ctx \in {"none", "delete"}
        BY <1>1, <3>2, BeginDeleteOK
      <3> QED  BY <3>3, <3>4 DEF Become
    <2>2. CASE PurgeSnapshots(r)
      <3>1. PICK v \in VMs :
              LET ids == {s \in SnapIDs : db[s] # Nil /\ db[s].vm = v}
              IN  Become(r, NextSnapshot([Parked("none", ids) EXCEPT !.vm = v, !.queue = ids]))
        BY <2>2 DEF PurgeSnapshots
      <3> DEFINE ids == {s \in SnapIDs : db[s] # Nil /\ db[s].vm = v}
                 h   == [Parked("none", ids) EXCEPT !.vm = v, !.queue = ids]
      <3>2. h \in Frame
        BY ToDelete DEF StoreInv
      <3>3. Become(r, NextSnapshot(h))
        BY <3>1
      <3> HIDE DEF h
      <3>4. NextSnapshot(h).ctx = "none"
        BY <3>2, NextSnapshotOK
      <3> QED  BY <3>3, <3>4 DEF Become
    <2>3. CASE PurgeNext(r)
      <3>1. PICK s \in req[r].queue :
              Become(r, BeginDelete([req[r] EXCEPT !.queue = @ \ {s}], s)) /\ At(r, "next")
        BY <2>3 DEF PurgeNext
      <3>2. s \in SnapIDs
        BY <1>1 DEF Frame
      <3> DEFINE h == [req[r] EXCEPT !.queue = @ \ {s}]
      <3>3. h \in Frame /\ h.ctx = "none"
        BY <3>1, <3>2, ToDelete DEF StoreInv
      <3> HIDE DEF h
      <3>4. BeginDelete(h, s).ctx \in {"none", "delete"}
        BY <1>1, <3>2, <3>3, BeginDeleteOK
      <3> QED  BY <3>1, <3>4 DEF Become, h
    <2>4. CASE LookupFails(r)
      <3>1. PICK code \in {"error", "badrequest"} : Become(r, Parked(code, {}))
        BY <2>4 DEF LookupFails
      <3>2. Parked(code, {}).ctx = "none"
        BY ParkedOK DEF Codes
      <3> QED  BY <3>1, <3>2 DEF Become
    <2>5. CASE FetchRecord(r)
      <3>1. PICK g : g \in {NextSnapshot(req[r]), [req[r] EXCEPT !.pc = "dbdelete"]}
                     /\ Become(r, g) /\ At(r, "fetch")
        BY <2>5 DEF FetchRecord
      <3>2. NextSnapshot(req[r]).ctx = "none" /\ [req[r] EXCEPT !.pc = "dbdelete"].ctx = req[r].ctx
        BY <1>1, NextSnapshotOK, Goto DEF Locations
      <3>3. req[r].ctx = "delete"
        BY <1>1, <3>1 DEF At, WellFormed
      <3> QED  BY <3>1, <3>2, <3>3 DEF Become
    <2> QED  BY <2>1, <2>2, <2>3, <2>4, <2>5
  <1>4. Continues(req[r], g) /\ g.ctx # "create"
    BY <1>3 DEF Continues, Building
  <1> QED  BY <1>2, <1>3, <1>4, AgreeQuiet

\* The walk over the disks goes on with the next one, or ends.
LEMMA WalkAgrees ==
    ASSUME StoreInv, Agree, NEW r \in Requests, Untouched,
           UNCHANGED <<files, db, minted>>, req[r].pc \in {"stat", "remove", "readdir", "rmdir"},
           NEW g, req' = [req EXCEPT ![r] = g],
           \/ g \in {NextDisk(req[r]), DiskFailed(req[r])}
           \/ g.ctx = req[r].ctx /\ g.snap = req[r].snap
    PROVE  Agree'
  <1>1. req[r] \in Frame /\ WellFormed(req[r]) /\ req[r].pc \in OnDisk /\ req[r].ctx # "create"
    BY AtCall, AtWalk DEF StoreInv
  <1>2. g.ctx # "create" /\ Continues(req[r], g)
    <2>1. CASE g = NextDisk(req[r])
      BY <1>1, <2>1, NextDiskOK DEF Continues, Building
    <2>2. CASE g = DiskFailed(req[r])
      BY <1>1, <2>2, DiskFailedOK DEF Continues, Building
    <2>3. CASE g.ctx = req[r].ctx /\ g.snap = req[r].snap
      BY <1>1, <2>3 DEF Continues, Building
    <2> QED  BY <2>1, <2>2, <2>3
  <1> QED  BY <1>2, AgreeQuiet

LEMMA LooksAgree ==
    ASSUME StoreInv, Agree, NEW r \in Requests, Untouched, StatDir(r) \/ ReadDir(r)
    PROVE  Agree'
  <1>1. /\ UNCHANGED <<files, db, minted>> /\ req[r].pc \in {"stat", "readdir"}
        /\ req[r] \in Frame
    BY AtCall DEF StatDir, ReadDir, At, store, StoreInv
  <1>2. PICK g : /\ req' = [req EXCEPT ![r] = g]
                 /\ g \in {NextDisk(req[r]), DiskFailed(req[r]), [req[r] EXCEPT !.pc = "remove"],
                           [req[r] EXCEPT !.pc = "rmdir"]}
    BY DEF StatDir, ReadDir, Become
  <1>3. ASSUME NEW pc \in {"remove", "rmdir"}, g = [req[r] EXCEPT !.pc = pc]
        PROVE  g.ctx = req[r].ctx /\ g.snap = req[r].snap
    BY <1>1, <1>3, Goto DEF Locations
  <1> QED  BY <1>1, <1>2, <1>3, WalkAgrees

\* A create makes a directory.
LEMMA CreatesAgree ==
    ASSUME StoreInv, Agree, NEW r \in Requests, Untouched, MakeDir(r)
    PROVE  Agree'
  <1> DEFINE g == [req[r] EXCEPT !.pc = "reflink"]
  <1>1. req[r] \in Frame /\ WellFormed(req[r])
    BY AtCall DEF StoreInv
  <1>2. UNCHANGED <<files, db, minted>> /\ req[r].ctx = "create" /\ req[r].pc = "mkdir"
    BY <1>1 DEF MakeDir, At, WellFormed
  <1>3. req' = [req EXCEPT ![r] = g]
    BY DEF MakeDir, Become
  <1>4. g.pc = "reflink" /\ g.ctx = req[r].ctx /\ g.snap = req[r].snap
        /\ g.list = req[r].list /\ g.i = req[r].i
    BY <1>1, Goto DEF Locations
  <1> HIDE DEF g
  <1>5. Continues(req[r], g)
    BY <1>2, <1>4 DEF Continues, Building
  <1> QED  BY <1>2, <1>3, <1>4, <1>5, AgreeQuiet

LEMMA FailureAgrees ==
    ASSUME StoreInv, Agree, NEW r \in Requests, Untouched, CallFails(r)
    PROVE  Agree'
  <1> DEFINE g == Failed(req[r])
  <1>1. /\ req[r] \in Frame /\ WellFormed(req[r]) /\ req[r].pc # "idle"
        /\ req' = [req EXCEPT ![r] = g] /\ UNCHANGED <<files, db, minted>>
    BY AtCall DEF StoreInv, CallFails, At, store
  <1>2. \/ g.ctx = "none"
        \/ Building(req[r]) /\ g.ctx \in {"discard", "rollback", "undo"} /\ g.snap = req[r].snap
        \/ g.ctx = "delete"
    BY <1>1, FailedOK
  <1> HIDE DEF g
  <1>3. g.ctx # "create" /\ Continues(req[r], g)
    BY <1>2 DEF Continues, Building
  <1> QED  BY <1>1, <1>3, AgreeQuiet

LEMMA CrashAgrees ==
    ASSUME StoreInv, Agree, Untouched, Crash
    PROVE  Agree'
  <1>1. /\ UNCHANGED <<files, db, minted, file, phase, list, i>>
        /\ \A q \in Requests : req'[q].ctx = "none"
    BY ParkedOK DEF Crash, store, Untouched, dataVars, Codes
  <1>2. (\A q \in Requests : BuilderAgrees(req[q]))'
    BY <1>1 DEF BuilderAgrees, Building
  <1> QED  BY <1>1, <1>2 DEF Agree, RecordAgrees

LEMMA GuestAgrees ==
    ASSUME Agree, Guests
    PROVE  Agree'
  <1>1. UNCHANGED <<vars, file, phase, list, i>>
    BY DEF Guests, Export!GuestWrite, Export!GuestDiscard, Export!Guest, Export!work
  <1>2. UNCHANGED <<files, db, minted, req, file, phase, list, i>>
    BY <1>1 DEF vars
  <1> QED  BY <1>2 DEF Agree, RecordAgrees, BuilderAgrees, Building

-----------------------------------------------------------------------------
(***************************************************************************)
(* The steps that make a snapshot.                                         *)
(***************************************************************************)
\* The snapshot that a request builds is its own, and has no record.
LEMMA Builder ==
    ASSUME StoreInv, Agree, NEW r \in Requests, Building(req[r])
    PROVE  LET s == req[r].snap IN
             /\ s \in SnapIDs /\ s \in minted /\ s \notin known /\ db[s] = Nil
             /\ phase[s] \in {"creating", "failed"}
             /\ \A q \in Requests : q # r /\ Building(req[q]) => req[q].snap # s
  <1>1. req[r].snap \in SnapIDs /\ req[r].snap \in minted /\ req[r].snap \notin known
    BY AtCall DEF StoreInv, FrameInv, WellFormed, Building
  <1>2. db[req[r].snap] = Nil
    BY <1>1 DEF StoreInv, Catalogued
  <1>3. phase[req[r].snap] \in {"creating", "failed"}
    BY AgreeSplit DEF BuilderAgrees
  <1>4. \A q \in Requests : q # r /\ Building(req[q]) => req[q].snap # req[r].snap
    BY DEF StoreInv, BuiltApart
  <1> QED  BY <1>1, <1>2, <1>3, <1>4

LEMMA BeginsMaps ==
    ASSUME StoreInv, Agree, NEW r \in Requests, Begins(r)
    PROVE  Agree' /\ (Untouched \/ \E s \in SnapIDs : Export!CreateSnapshot(s))
  <1>1. PICK v \in VMs, s \in SnapIDs \ minted : \E l \in DiskLists[v] :
          /\ minted' = minted \cup {s}
          /\ Become(r, IF \A j \in DOMAIN l : l[j] \in Cloneable
                       THEN StartCreate(v, s, l) ELSE Parked("badrequest", {}))
    BY DEF Begins, CreateSnapshot, StartCreate
  <1>2. PICK l \in DiskLists[v] :
          /\ minted' = minted \cup {s}
          /\ Become(r, IF \A j \in DOMAIN l : l[j] \in Cloneable
                       THEN StartCreate(v, s, l) ELSE Parked("badrequest", {}))
    BY <1>1
  <1>3. l \in Seq(Disks) /\ l \in UNION {DiskLists[w] : w \in VMs}
    BY StoreAssumption
  <1>4. /\ UNCHANGED <<files, dirs, db>> /\ Progresses
        /\ phase[s] = "none" /\ i[s] = 1 /\ db[s] = Nil
        /\ \A q \in Requests : Building(req[q]) => req[q].snap # s
    BY AgreeSplit DEF Begins, CreateSnapshot, StoreInv, Catalogued, FrameInv
  <1>5. CASE \A j \in DOMAIN l : l[j] \in Cloneable
    <2> DEFINE g == StartCreate(v, s, l)
    <2>1. req' = [req EXCEPT ![r] = g]
      BY <1>2, <1>5 DEF Become
    <2>2. req'[r] = g
      BY <2>1 DEF StoreInv, TypeOK
    <2>3. /\ g.pc \in {"save", "mkdir"} /\ g.ctx = "create" /\ g.snap = s
          /\ g.list = l /\ g.i = 1
      BY <1>3, StartCreateOK
    <2> HIDE DEF g
    <2>4. Export!Begin(s, l)
      BY <2>2, <2>3 DEF Begins
    <2>5. /\ phase' = [phase EXCEPT ![s] = "creating"] /\ list' = [list EXCEPT ![s] = l]
          /\ UNCHANGED <<file, i>>
      BY <2>4 DEF Export!Begin, Export!fs
    <2>6. Progresses' /\ phase'[s] = "creating" /\ list'[s] = l /\ i'[s] = 1
      BY <1>3, <1>4, <2>5 DEF Progresses, Phases
    <2>7. \A t \in SnapIDs : t # s => Still(t)
      BY <1>4, <2>5 DEF Progresses, Still, SameAt
    <2>8. RecordAgrees(s)' /\ BuilderAgrees(req[r])'
      BY <1>4, <2>2, <2>3, <2>6 DEF RecordAgrees, BuilderAgrees
    <2>9. Agree'
      BY <1>2, <1>4, <2>1, <2>6, <2>7, <2>8, AgreeKept
    <2>10. Export!CreateSnapshot(s)
      BY <1>3, <1>4, <2>4 DEF Export!CreateSnapshot
    <2> QED  BY <2>9, <2>10
  <1>6. CASE ~ \A j \in DOMAIN l : l[j] \in Cloneable
    <2> DEFINE g == Parked("badrequest", {})
    <2>1. req' = [req EXCEPT ![r] = g] /\ g.ctx = "none"
      BY <1>2, <1>6, ParkedOK DEF Become, Codes
    <2>2. req'[r] = g
      BY <2>1 DEF StoreInv, TypeOK
    <2> HIDE DEF g
    <2>3. Untouched
      BY <2>1, <2>2 DEF Begins
    <2>4. UNCHANGED <<file, phase, list, i>>
      BY <2>3 DEF Untouched, dataVars
    <2>5. Progresses' /\ \A t \in SnapIDs : t # s => Still(t)
      BY <1>4, <2>4 DEF Progresses, Still, SameAt
    <2>6. RecordAgrees(s)' /\ BuilderAgrees(req[r])'
      BY <1>4, <2>1, <2>2 DEF RecordAgrees, BuilderAgrees, Building
    <2>7. Agree'
      BY <1>2, <1>4, <2>1, <2>5, <2>6, AgreeKept
    <2> QED  BY <2>3, <2>7
  <1> QED  BY <1>5, <1>6

LEMMA CopiesMaps ==
    ASSUME StoreInv, Agree, NEW r \in Requests, Copies(r)
    PROVE  Agree' /\ (Untouched \/ \E s \in SnapIDs : Export!SnapshotDisk(s))
  <1> DEFINE f == req[r]
  <1>1. /\ f \in Frame /\ WellFormed(f) /\ f.pc = "reflink" /\ f.i \in DOMAIN f.list
        /\ f.ctx = "create" /\ Building(f) /\ f.list[f.i] \in Disks
    BY AtCall DEF StoreInv, Copies, Reflink, At, OnDisk, WellFormed, Building, Frame
  <1>2. PICK s \in SnapIDs, d \in Disks :
           /\ s = f.snap /\ d = f.list[f.i] /\ s \in minted /\ db[s] = Nil
           /\ \A q \in Requests : q # r /\ Building(req[q]) => req[q].snap # s
    BY <1>1, Builder
  <1>3. UNCHANGED <<dirs, db, minted>> /\ FileOf(f) = <<s, d>>
    BY <1>2 DEF Copies, Reflink, FileOf
  <1>4. /\ Progresses /\ phase[s] = "creating" /\ list[s] = f.list /\ i[s] = f.i
    BY <1>1, <1>2, AgreeSplit DEF BuilderAgrees
  <1>5. CASE FileOf(f) \in files
    <2> DEFINE g == [f EXCEPT !.pc = "unlink", !.ctx = "discard"]
    <2>1. req' = [req EXCEPT ![r] = g] /\ UNCHANGED files /\ Untouched
      BY <1>5 DEF Copies, Reflink, Become
    <2>2. g.ctx = "discard" /\ g.snap = s
      BY <1>1, <1>2 DEF Frame
    <2> HIDE DEF g
    <2>3. Continues(req[r], g)
      BY <1>1, <1>2, <2>2 DEF Continues
    <2> QED  BY <1>3, <2>1, <2>2, <2>3, AgreeQuiet
  <1>6. CASE FileOf(f) \notin files
    <2> DEFINE g == [f EXCEPT !.pc = "extents"]
    <2>1. req' = [req EXCEPT ![r] = g] /\ files' = files \cup {<<s, d>>} /\ Export!Copy(s, d)
      BY <1>2, <1>3, <1>6 DEF Copies, Reflink, Become
    <2>2. g.pc = "extents" /\ g.ctx = "create" /\ g.snap = s /\ g.list = f.list /\ g.i = f.i
      BY <1>1, <1>2, Goto DEF Locations
    <2> HIDE DEF g
    <2>3. /\ file' = [x \in DOMAIN file \cup {<<s, d>>} |-> IF x = <<s, d>> THEN live[d] ELSE file[x]]
          /\ UNCHANGED <<phase, list, i>>
      BY <2>1 DEF Export!Copy, Export!Files
    <2>4. DOMAIN file = files
      BY <1>4 DEF Progresses
    <2>5. DOMAIN file' = files' /\ file' = [x \in files' |-> file'[x]]
      BY <2>1, <2>3, <2>4
    <2>6. Progresses'
      BY <1>4, <2>3, <2>5 DEF Progresses
    <2>7. \A t \in SnapIDs : t # s => Still(t)
      BY <1>2, <1>3, <1>4, <2>1, <2>3 DEF Progresses, Still, SameAt
    <2>8. req'[r] = g
      BY <2>1 DEF StoreInv, TypeOK
    <2>9. RecordAgrees(s)' /\ BuilderAgrees(req[r])'
      BY <1>2, <1>3, <1>4, <2>2, <2>3, <2>6, <2>8 DEF RecordAgrees, BuilderAgrees
    <2>10. Agree'
      BY <1>2, <1>3, <2>1, <2>6, <2>7, <2>9, AgreeKept
    <2>11. i[s] <= Len(list[s]) /\ list[s][i[s]] = d
      BY <1>1, <1>2, <1>4 DEF Frame
    <2>12. <<s, list[s][i[s]]>> \notin DOMAIN file
      BY <1>3, <1>6, <2>4, <2>11
    <2>13. Export!SnapshotDisk(s)
      BY <1>4, <2>1, <2>11, <2>12 DEF Export!SnapshotDisk, Export!Files
    <2> QED  BY <1>2, <2>10, <2>13
  <1> QED  BY <1>5, <1>6

\* The disk that a create has come to has its file, and is not one of those before.
LEMMA MeasuresMaps ==
    ASSUME StoreInv, Agree, NEW r \in Requests, Measures(r)
    PROVE  Agree' /\ \E s \in SnapIDs : Export!GetFileExtents(s)
  <1> DEFINE f == req[r]
             g == [f EXCEPT !.i = @ + 1, !.pc = IF f.i = Len(f.list) THEN "save" ELSE "mkdir"]
  <1>1. /\ f \in Frame /\ WellFormed(f) /\ FrameInv(f) /\ f.pc = "extents" /\ f.i \in DOMAIN f.list
        /\ f.ctx = "create" /\ Building(f) /\ f.list[f.i] \in Disks /\ f.list \in Seq(Disks)
    BY AtCall DEF StoreInv, Measures, ReadExtents, At, OnDisk, WellFormed, Building, Frame
  <1>2. PICK s \in SnapIDs, d \in Disks :
           /\ s = f.snap /\ d = f.list[f.i] /\ s \in minted /\ db[s] = Nil
           /\ \A q \in Requests : q # r /\ Building(req[q]) => req[q].snap # s
    BY <1>1, Builder
  <1>3. UNCHANGED <<files, dirs, db, minted>> /\ req' = [req EXCEPT ![r] = g] /\ Export!Measure(s, d)
    BY <1>2 DEF Measures, ReadExtents, Become, store
  <1>4. /\ Progresses /\ phase[s] = "creating" /\ list[s] = f.list /\ i[s] = f.i
    BY <1>1, <1>2, AgreeSplit DEF BuilderAgrees
  <1>5. g.ctx = "create" /\ g.snap = s /\ g.list = f.list /\ g.i = f.i + 1
    BY <1>1, <1>2 DEF Frame
  <1> HIDE DEF g
  <1>6. i' = [i EXCEPT ![s] = @ + 1] /\ UNCHANGED <<file, phase, list>>
    BY <1>3 DEF Export!Measure, Export!Note, Export!fs
  <1>7. Progresses' /\ i'[s] = f.i + 1
    <2>1. i \in [SnapIDs -> Nat \ {0}] /\ i[s] = f.i /\ i[s] + 1 \in Nat \ {0}
      BY <1>2, <1>4 DEF Progresses
    <2>2. i' \in [SnapIDs -> Nat \ {0}] /\ i'[s] = f.i + 1
      BY <1>2, <1>6, <2>1
    <2> QED  BY <1>3, <1>4, <1>6, <2>2 DEF Progresses
  <1>8. \A t \in SnapIDs : t # s => Still(t)
    BY <1>2, <1>3, <1>4, <1>6 DEF Progresses, Still, SameAt
  <1>9. req'[r] = g
    BY <1>3 DEF StoreInv, TypeOK
  <1>10. RecordAgrees(s)' /\ BuilderAgrees(req[r])'
    BY <1>2, <1>3, <1>4, <1>5, <1>6, <1>7, <1>9 DEF RecordAgrees, BuilderAgrees
  <1>11. Agree'
    BY <1>2, <1>3, <1>7, <1>8, <1>10, AgreeKept
  <1>12. i[s] <= Len(list[s]) /\ list[s][i[s]] = d
    BY <1>1, <1>2, <1>4
  <1>13. <<s, d>> \in DOMAIN file
    <2>1. <<s, d>> \in files
      BY <1>1, <1>2 DEF FrameInv, CreateInv, Done
    <2> QED  BY <1>4, <2>1 DEF Progresses
  <1>14. \A k \in 1 .. i[s] - 1 : list[s][k] # d
    <2>1. \A k \in DOMAIN f.list : k < f.i => f.list[k] # d
      BY <1>1, <1>2 DEF FrameInv, CreateInv, Done
    <2>2. \A k \in 1 .. f.i - 1 : k \in DOMAIN f.list /\ k < f.i
      BY <1>1
    <2> QED  BY <1>4, <2>1, <2>2
  <1>15. Export!GetFileExtents(s)
    BY <1>3, <1>4, <1>12, <1>13, <1>14 DEF Export!GetFileExtents, Export!Files
  <1> QED  BY <1>2, <1>11, <1>15

LEMMA RecordsMaps ==
    ASSUME StoreInv, Agree, NEW r \in Requests, Records(r)
    PROVE  Agree' /\ \E s \in SnapIDs : Export!SaveRecord(s)
  <1> DEFINE f == req[r]
             g == Answer(f, "ok")
  <1>1. /\ f \in Frame /\ WellFormed(f) /\ FrameInv(f) /\ f.pc = "save" /\ f.i = Len(f.list) + 1
        /\ f.ctx = "create" /\ Building(f) /\ f.list \in Seq(Disks) /\ g.ctx = "none"
    BY AtCall, AnswerOK DEF StoreInv, Records, SaveRecord, At, WellFormed, Building, Frame, Codes
  <1>2. PICK s \in SnapIDs, rec \in {[vm |-> f.vm, disks |-> f.list]} :
           /\ s = f.snap /\ rec = [vm |-> f.vm, disks |-> f.list] /\ s \in minted /\ db[s] = Nil
           /\ \A q \in Requests : q # r /\ Building(req[q]) => req[q].snap # s
    BY <1>1, Builder
  <1>3. /\ db' = [db EXCEPT ![s] = rec] /\ UNCHANGED <<files, dirs, minted>>
        /\ req' = [req EXCEPT ![r] = g] /\ Export!Record(s)
    BY <1>2 DEF Records, SaveRecord, Become
  <1>4. /\ Progresses /\ phase[s] = "creating" /\ list[s] = f.list /\ i[s] = f.i
    BY <1>1, <1>2, AgreeSplit DEF BuilderAgrees
  <1>5. /\ phase' = [phase EXCEPT ![s] = "recorded"] /\ i' = [i EXCEPT ![s] = 1]
        /\ UNCHANGED <<file, list>>
    BY <1>3 DEF Export!Record, Export!fs
  <1>6. req'[r] = g /\ db'[s] = rec /\ \A t \in SnapIDs : t # s => db'[t] = db[t]
    BY <1>2, <1>3 DEF StoreInv, TypeOK
  <1>7. rec.disks = f.list
    BY <1>2
  <1> HIDE DEF g
  <1>8. Progresses' /\ phase'[s] = "recorded" /\ i'[s] = 1
    BY <1>2, <1>3, <1>4, <1>5 DEF Progresses, Phases
  <1>9. \A t \in SnapIDs : t # s => Still(t)
    BY <1>3, <1>4, <1>5, <1>6 DEF Progresses, Still, SameAt
  <1>10. \A j \in DOMAIN f.list : <<s, f.list[j]>> \in files /\ 1 <= j
    <2>1. \A j \in DOMAIN f.list : j < f.i /\ 1 <= j
      BY <1>1, SMT
    <2> QED  BY <1>1, <1>2, <2>1 DEF FrameInv, CreateInv, Done
  <1>11. RecordAgrees(s)'
    BY <1>3, <1>4, <1>5, <1>6, <1>7, <1>8, <1>10 DEF RecordAgrees
  <1>12. BuilderAgrees(req[r])'
    BY <1>1, <1>6 DEF BuilderAgrees, Building
  <1>13. Agree'
    BY <1>2, <1>3, <1>8, <1>9, <1>11, <1>12, AgreeKept
  <1>14. Export!SaveRecord(s)
    BY <1>1, <1>3, <1>4 DEF Export!SaveRecord
  <1> QED  BY <1>2, <1>13, <1>14

-----------------------------------------------------------------------------
(***************************************************************************)
(* The steps that remove a snapshot.                                       *)
(***************************************************************************)
\* A delete that finds a file has come to the disk that comes next, whatever
\* other deletes have done.
LEMMA NextToGo ==
    ASSUME StoreInv, Agree, NEW r \in Requests, req[r].ctx = "delete", req[r].pc \in OnDisk,
           FileOf(req[r]) \in files
    PROVE  LET s == req[r].snap IN
             /\ db[s] # Nil /\ list[s] = req[r].list /\ i[s] = req[r].i
             /\ phase[s] \in {"recorded", "deleting"}
  <1> DEFINE f == req[r]
             s == f.snap
  <1>1. /\ f.i \in DOMAIN f.list /\ f.list \in Seq(Disks) /\ f.list[f.i] \in Disks /\ f.i \in Nat
        /\ s \in SnapIDs /\ FileOf(f) = <<s, f.list[f.i]>>
    BY AtCall DEF StoreInv, WellFormed, Frame, FileOf
  <1>2. s \in known /\ \A j \in DOMAIN f.list : j < f.i => <<s, f.list[j]>> \notin files
    BY DEF StoreInv, FrameInv, DeleteInv
  <1>3. db[s] # Nil
    BY <1>1, <1>2 DEF StoreInv, DeletedLeavesNothing
  <1>4. db[s].disks = f.list
    BY <1>3 DEF StoreInv, FrameInv, DeleteInv
  <1>5. /\ phase[s] \in {"recorded", "deleting"} /\ list[s] = f.list /\ i[s] \in Nat \ {0}
        /\ \A j \in DOMAIN list[s] : <<s, list[s][j]>> \in files <=> i[s] <= j
    BY <1>1, <1>3, <1>4, AgreeSplit DEF RecordAgrees, Progresses
  <1>6. i[s] <= f.i
    BY <1>1, <1>5
  <1>7. i[s] \in DOMAIN f.list
    BY <1>1, <1>5, <1>6
  <1>8. ~ (i[s] < f.i)
    <2>1. <<s, f.list[i[s]]>> \in files
      BY <1>5, <1>7
    <2> QED  BY <1>2, <1>7, <2>1
  <1> QED  BY <1>1, <1>3, <1>5, <1>6, <1>8

LEMMA RemovesMaps ==
    ASSUME StoreInv, Agree, NEW r \in Requests, Removes(r)
    PROVE  Agree' /\ (Untouched \/ \E s \in SnapIDs : Export!RemoveFile(s) \/ Export!Rollback(s))
  <1> DEFINE f == req[r]
  <1>1. /\ f \in Frame /\ WellFormed(f) /\ f.pc \in {"unlink", "remove"} /\ f.pc \in OnDisk
        /\ f.i \in DOMAIN f.list /\ f.list[f.i] \in Disks /\ f.list \in Seq(Disks)
        /\ f.ctx \notin {"none", "create"} /\ f.snap \in SnapIDs
    BY AtCall DEF StoreInv, Removes, DiscardFile, RemoveFile, At, OnDisk, WellFormed, Frame
  <1>2. PICK s \in SnapIDs, d \in Disks : s = f.snap /\ d = f.list[f.i] /\ FileOf(f) = <<s, d>>
    BY <1>1 DEF FileOf
  <1>3. /\ files' = files \ {<<s, d>>} /\ UNCHANGED <<dirs, db, minted>>
        /\ \/ req' = [req EXCEPT ![r] = [f EXCEPT !.pc = "readdir"]]
           \/ /\ f.pc = "remove" /\ <<s, d>> \notin files
              /\ req' = [req EXCEPT ![r] = DiskFailed(f)]
    BY <1>2 DEF Removes, DiscardFile, RemoveFile, Become, At
  <1>4. PICK g : /\ req' = [req EXCEPT ![r] = g]
                 /\ \/ g = DiskFailed(f) /\ f.pc = "remove" /\ <<s, d>> \notin files
                    \/ g = [f EXCEPT !.pc = "readdir"]
    BY <1>3
  <1>5. g.ctx # "create" /\ Continues(f, g)
    <2>1. CASE g = DiskFailed(f) /\ f.pc = "remove"
      BY <1>1, <2>1, DiskFailedOK DEF Continues, Building
    <2>2. CASE g = [f EXCEPT !.pc = "readdir"]
      <3>1. g.ctx = f.ctx /\ g.snap = f.snap
        BY <1>1, <2>2, Goto DEF Locations
      <3> QED  BY <1>1, <3>1 DEF Continues, Building
    <2> QED  BY <1>4, <2>1, <2>2
  <1>6. CASE <<s, d>> \notin files
    <2>1. UNCHANGED files /\ Untouched
      BY <1>2, <1>3, <1>6 DEF Removes
    <2> QED  BY <1>3, <1>4, <1>5, <2>1, AgreeQuiet
  <1>7. CASE <<s, d>> \in files
    <2>1. g.ctx = f.ctx /\ g.snap = s
      <3>1. g = [f EXCEPT !.pc = "readdir"]
        BY <1>4, <1>7
      <3> QED  BY <1>1, <1>2, <3>1, Goto DEF Locations
    <2>2. req'[r] = g
      BY <1>4 DEF StoreInv, TypeOK
    <2>3. Progresses /\ DOMAIN file = files
      BY AgreeSplit DEF Progresses
    <2>4. CASE f.ctx = "delete"
      <3>1. Export!Delete(s, d)
        BY <1>2, <1>7, <2>4 DEF Removes
      <3>2. /\ file' = [x \in DOMAIN file \ {<<s, d>>} |-> file[x]]
            /\ phase' = [phase EXCEPT ![s] = "deleting"] /\ i' = [i EXCEPT ![s] = @ + 1]
            /\ UNCHANGED list
        BY <3>1 DEF Export!Delete, Export!Remove, Export!Files
      <3>3. /\ db[s] # Nil /\ list[s] = f.list /\ i[s] = f.i /\ phase[s] \in {"recorded", "deleting"}
        BY <1>1, <1>2, <1>7, <2>4, NextToGo
      <3>4. DOMAIN file' = files' /\ file' = [x \in files' |-> file'[x]]
        BY <1>3, <2>3, <3>2
      <3>5. Progresses' /\ phase'[s] = "deleting" /\ i'[s] = i[s] + 1
        BY <2>3, <3>2, <3>4 DEF Progresses, Phases
      <3>6. \A t \in SnapIDs : t # s => Still(t)
        BY <1>3, <2>3, <3>2 DEF Progresses, Still, SameAt
      <3>7. RecordAgrees(s)'
        <4>1. /\ list[s] = db[s].disks /\ i[s] \in Nat
              /\ \A j \in DOMAIN list[s] : <<s, list[s][j]>> \in files <=> i[s] <= j
              /\ \A j, k \in DOMAIN list[s] : j < k => list[s][j] # list[s][k]
          BY <2>3, <3>3, AgreeSplit DEF RecordAgrees, Progresses, StoreInv, Catalogued
        <4>2. ASSUME NEW j \in DOMAIN list[s]
              PROVE  <<s, list[s][j]>> \in files' <=> i[s] + 1 <= j
          <5>1. j \in Nat /\ f.i \in DOMAIN list[s] /\ f.i \in Nat
            BY <1>1, <3>3
          <5>2. list[s][j] = d <=> j = i[s]
            BY <1>2, <3>3, <4>1, <5>1
          <5>3. i[s] <= j /\ j # i[s] <=> i[s] + 1 <= j
            BY <4>1, <5>1
          <5> QED  BY <1>3, <4>1, <5>2, <5>3
        <4> QED  BY <1>3, <3>2, <3>5, <4>1, <4>2 DEF RecordAgrees
      <3>8. BuilderAgrees(req[r])'
        BY <2>1, <2>2, <2>4 DEF BuilderAgrees, Building
      <3>9. /\ s \in minted /\ \A q \in Requests : Building(req[q]) => req[q].snap # s
        BY <1>2, <2>4 DEF StoreInv, FrameInv, DeleteInv, Catalogued
      <3>10. Agree'
        BY <1>3, <1>4, <3>5, <3>6, <3>7, <3>8, <3>9, AgreeKept
      <3>11. i[s] <= Len(list[s]) /\ list[s][i[s]] = d
        BY <1>1, <1>2, <3>3
      <3>12. Export!RemoveFile(s)
        BY <3>1, <3>3, <3>11 DEF Export!RemoveFile
      <3> QED  BY <3>10, <3>12
    <2>5. CASE f.ctx # "delete"
      <3>1. Export!CleanUp(s, d) /\ Building(f)
        BY <1>1, <1>2, <1>7, <2>5, ContextOf DEF Removes, StoreInv
      <3>2. /\ file' = [x \in DOMAIN file \ {<<s, d>>} |-> file[x]]
            /\ phase' = [phase EXCEPT ![s] = "failed"] /\ UNCHANGED <<list, i>>
        BY <3>1 DEF Export!CleanUp, Export!Remove, Export!Files
      <3>3. /\ s \in minted /\ db[s] = Nil /\ phase[s] \in {"creating", "failed"}
            /\ \A q \in Requests : q # r /\ Building(req[q]) => req[q].snap # s
        BY <1>2, <3>1, Builder
      <3>4. DOMAIN file' = files' /\ file' = [x \in files' |-> file'[x]]
        BY <1>3, <2>3, <3>2
      <3>5. Progresses' /\ phase'[s] = "failed"
        BY <2>3, <3>2, <3>4 DEF Progresses, Phases
      <3>6. \A t \in SnapIDs : t # s => Still(t)
        BY <1>3, <2>3, <3>2 DEF Progresses, Still, SameAt
      <3>7. RecordAgrees(s)' /\ BuilderAgrees(req[r])'
        BY <1>3, <1>5, <2>1, <2>2, <3>3, <3>5 DEF RecordAgrees, BuilderAgrees
      <3>8. Agree'
        BY <1>3, <1>4, <3>3, <3>5, <3>6, <3>7, AgreeKept
      <3>9. Export!Rollback(s)
        BY <1>7, <2>3, <3>1, <3>3 DEF Export!Rollback, Export!Files
      <3> QED  BY <3>8, <3>9
    <2> QED  BY <2>4, <2>5
  <1> QED  BY <1>6, <1>7

\* RemoveAll finds nothing to remove.
LEMMA RemovesAllMaps ==
    ASSUME StoreInv, Agree, NEW r \in Requests, RemovesAll(r)
    PROVE  Agree' /\ Untouched
  <1>1. /\ req[r].pc = "rmdir" /\ files' = files \ FilesIn(DirOf(req[r]))
        /\ req' = [req EXCEPT ![r] = NextDisk(req[r])] /\ UNCHANGED <<db, minted>>
    BY DEF RemovesAll, RemoveDir, At, Become
  <1>2. files' = files
    BY <1>1, EmptyAtRemove DEF At
  <1>3. file' = file
    BY <1>2, AgreeSplit DEF RemovesAll, Progresses
  <1>4. Untouched
    BY <1>3 DEF RemovesAll, Untouched, dataVars
  <1> QED  BY <1>1, <1>2, <1>4, WalkAgrees

LEMMA ForgetsMaps ==
    ASSUME StoreInv, Agree, NEW r \in Requests, Forgets(r)
    PROVE  Agree' /\ (Untouched \/ \E s \in SnapIDs : Export!DeleteRecord(s))
  <1> DEFINE f == req[r]
  <1>1. /\ f \in Frame /\ WellFormed(f) /\ f.pc = "dbdelete" /\ f.ctx = "delete"
        /\ f.i = Len(f.list) + 1 /\ f.list \in Seq(Disks) /\ f.snap \in SnapIDs
    BY AtCall DEF StoreInv, Forgets, DeleteRecord, At, WellFormed, Frame
  <1>2. PICK s \in SnapIDs : s = f.snap
    BY <1>1
  <1>3. PICK g : req' = [req EXCEPT ![r] = g] /\ g.ctx = "none"
    <2>1. PICK g : req' = [req EXCEPT ![r] = g] /\ g \in {Answer(f, "error"), NextSnapshot(f)}
      BY DEF Forgets, DeleteRecord, Become
    <2>2. g.ctx = "none"
      BY <1>1, <2>1, AnswerOK, NextSnapshotOK DEF Codes
    <2> QED  BY <2>1, <2>2
  <1>4. db' = [db EXCEPT ![s] = Nil] /\ UNCHANGED <<files, dirs, minted>>
    BY <1>2 DEF Forgets, DeleteRecord
  <1>5. req'[r] = g /\ db'[s] = Nil /\ \A t \in SnapIDs : t # s => db'[t] = db[t]
    BY <1>3, <1>4 DEF StoreInv, TypeOK
  <1>6. CASE db[s] = Nil
    <2>1. Untouched /\ UNCHANGED db
      BY <1>2, <1>4, <1>6 DEF Forgets, StoreInv, TypeOK
    <2>2. Continues(f, g) /\ g.ctx # "create"
      BY <1>3 DEF Continues, Building
    <2> QED  BY <1>3, <1>4, <2>1, <2>2, AgreeQuiet
  <1>7. CASE db[s] # Nil
    <2>1. Export!Forget(s)
      BY <1>2, <1>7 DEF Forgets
    <2>2. /\ phase' = [phase EXCEPT ![s] = "deleted"]
          /\ list' = [list EXCEPT ![s] = << >>] /\ i' = [i EXCEPT ![s] = 1]
          /\ UNCHANGED file
      BY <2>1 DEF Export!Forget, Export!fs
    <2>3. Progresses
      BY AgreeSplit
    <2>4. Progresses'
      BY <1>4, <2>2, <2>3 DEF Progresses, Phases
    <2>5. \A t \in SnapIDs : t # s => Still(t)
      BY <1>4, <1>5, <2>2, <2>3 DEF Progresses, Still, SameAt
    <2>6. RecordAgrees(s)' /\ BuilderAgrees(req[r])'
      BY <1>3, <1>5 DEF RecordAgrees, BuilderAgrees, Building
    <2>7. s \in minted /\ \A q \in Requests : Building(req[q]) => req[q].snap # s
      BY <1>1, <1>2 DEF StoreInv, FrameInv, DeleteInv, Catalogued
    <2>8. Agree'
      BY <1>3, <1>4, <2>4, <2>5, <2>6, <2>7, AgreeKept
    <2>9. /\ phase[s] \in {"recorded", "deleting"} /\ list[s] = f.list /\ i[s] \in Nat \ {0}
          /\ \A j \in DOMAIN list[s] : <<s, list[s][j]>> \in files <=> i[s] <= j
      <3>1. db[s].disks = f.list
        BY <1>1, <1>2, <1>7 DEF StoreInv, FrameInv, DeleteInv
      <3> QED  BY <1>7, <2>3, <3>1, AgreeSplit DEF RecordAgrees, Progresses
    <2>10. \A j \in DOMAIN f.list : <<s, f.list[j]>> \notin files
      <3>1. \A j \in DOMAIN f.list : j < f.i
        BY <1>1, SMT
      <3> QED  BY <1>1, <1>2, <3>1 DEF StoreInv, FrameInv, DeleteInv
    <2>11. i[s] > Len(list[s])
      <3>1. ASSUME i[s] <= Len(list[s]) PROVE i[s] \in DOMAIN f.list
        BY <1>1, <2>9, <3>1
      <3>2. ASSUME i[s] \in DOMAIN f.list PROVE FALSE
        <4>1. i[s] <= i[s]
          BY <2>9
        <4>2. <<s, f.list[i[s]]>> \in files
          BY <2>9, <3>2, <4>1
        <4> QED  BY <2>10, <3>2, <4>2
      <3> QED  BY <1>1, <2>9, <3>1, <3>2
    <2>12. Export!DeleteRecord(s)
      BY <2>1, <2>9, <2>11 DEF Export!DeleteRecord
    <2> QED  BY <2>8, <2>12
  <1> QED  BY <1>6, <1>7

LEMMA OthersMaps ==
    ASSUME StoreInv, Agree, NEW r \in Requests, Others(r)
    PROVE  Agree' /\ Untouched
  BY LookupAgrees, LooksAgree, CreatesAgree, FailureAgrees DEF Others

-----------------------------------------------------------------------------
(***************************************************************************)
(* The theorems.                                                           *)
(***************************************************************************)
LEMMA AgreeInit ==
    StoreInit => Agree
  <1> SUFFICES ASSUME StoreInit PROVE Agree
    OBVIOUS
  <1>1. Init /\ Export!Init
    BY DEF StoreInit
  <1>2. \A r \in Requests : req[r].ctx = "none"
    BY <1>1, ParkedOK DEF Init, Codes
  <1>3. /\ file = << >> /\ files = {} /\ db = [s \in SnapIDs |-> Nil]
        /\ phase = [s \in SnapIDs |-> "none"] /\ list = [s \in SnapIDs |-> << >>]
        /\ i = [s \in SnapIDs |-> 1]
    BY <1>1 DEF Init, Export!Init
  <1>4. file = [x \in files |-> file[x]]
    BY <1>3
  <1>5. << >> \in Seq(Disks)
    OBVIOUS
  <1> QED
    BY <1>2, <1>3, <1>4, <1>5 DEF Agree, RecordAgrees, BuilderAgrees, Building

\* Every step of the two is a step of SnapshotStore, or none.
LEMMA StepOfStore ==
    [StoreNext]_storeVars => [Next]_vars
  BY DEF StoreNext, storeVars, Begins, Copies, Measures, Records, Removes, RemovesAll, Forgets, Others, Guests,
     Next, Accept, Advance

\* And of IncrementalExport.
LEMMA StepMaps ==
    ASSUME StoreInv, Agree, [StoreNext]_storeVars
    PROVE  Agree' /\ [Export!Next]_(Export!vars)
  <1>1. dataVars = Export!vars /\ (Untouched => UNCHANGED Export!vars)
    BY DEF dataVars, Export!vars, Untouched
  <1>2. CASE UNCHANGED storeVars
    <2>1. UNCHANGED <<files, db, minted, req, file, phase, list, i>> /\ UNCHANGED Export!vars
      BY <1>2 DEF storeVars, dataVars, vars, Export!vars
    <2> QED  BY <2>1 DEF Agree, RecordAgrees, BuilderAgrees, Building
  <1>3. CASE Crash /\ Untouched
    BY <1>1, <1>3, CrashAgrees
  <1>4. CASE Guests
    <2>1. Agree'
      BY <1>4, GuestAgrees
    <2>2. Export!Next
      BY <1>4 DEF Guests, Export!Next
    <2> QED  BY <2>1, <2>2
  <1>5. ASSUME NEW r \in Requests, Begins(r) PROVE Agree' /\ [Export!Next]_(Export!vars)
    BY <1>1, <1>5, BeginsMaps DEF Export!Next
  <1>6. ASSUME NEW r \in Requests, Copies(r) PROVE Agree' /\ [Export!Next]_(Export!vars)
    BY <1>1, <1>6, CopiesMaps DEF Export!Next
  <1>12. ASSUME NEW r \in Requests, Measures(r) PROVE Agree' /\ [Export!Next]_(Export!vars)
    BY <1>12, MeasuresMaps DEF Export!Next
  <1>7. ASSUME NEW r \in Requests, Records(r) PROVE Agree' /\ [Export!Next]_(Export!vars)
    BY <1>7, RecordsMaps DEF Export!Next
  <1>8. ASSUME NEW r \in Requests, Removes(r) PROVE Agree' /\ [Export!Next]_(Export!vars)
    BY <1>1, <1>8, RemovesMaps DEF Export!Next
  <1>9. ASSUME NEW r \in Requests, RemovesAll(r) PROVE Agree' /\ [Export!Next]_(Export!vars)
    BY <1>1, <1>9, RemovesAllMaps
  <1>10. ASSUME NEW r \in Requests, Forgets(r) PROVE Agree' /\ [Export!Next]_(Export!vars)
    BY <1>1, <1>10, ForgetsMaps DEF Export!Next
  <1>11. ASSUME NEW r \in Requests, Others(r) PROVE Agree' /\ [Export!Next]_(Export!vars)
    BY <1>1, <1>11, OthersMaps
  <1> QED
    BY <1>2, <1>3, <1>4, <1>5, <1>6, <1>7, <1>8, <1>9, <1>10, <1>11, <1>12 DEF StoreNext

\* The inductive invariant: the records, the files and the frames of the requests
\* say the same of a snapshot as its data does (vms.go:156, snapshots.go:83,
\* manager.go:164, 351).
THEOREM StoreAgrees == StoreSpec => []Agree
  <1>1. StoreInit => StoreInv /\ Agree
    BY AgreeInit, StoreInvInit DEF StoreInit
  <1>2. StoreInv /\ Agree /\ [StoreNext]_storeVars => StoreInv' /\ Agree'
    BY StepOfStore, StoreInvStep, StepMaps
  <1> QED  BY <1>1, <1>2, PTL DEF StoreSpec

\* Whatever requests race, whichever calls fail and wherever the process dies,
\* the handlers do to the snapshots and their files only what IncrementalExport
\* has creates and deletes do.
THEOREM StoreImplementsExport == StoreSpec => ImplementsExport
  <1>1. StoreInit => Export!Init /\ StoreInv
    BY StoreInvInit DEF StoreInit
  <1>2. StoreInv /\ [StoreNext]_storeVars => StoreInv'
    BY StepOfStore, StoreInvStep
  <1>3. StoreInv /\ Agree /\ [StoreNext]_storeVars => [Export!Next]_(Export!vars)
    BY StepMaps
  <1> QED  BY <1>1, <1>2, <1>3, StoreAgrees, PTL DEF StoreSpec, ImplementsExport, Export!Spec

(***************************************************************************)
(* The proofs about IncrementalExport come with an instance of their own,  *)
(* XP, whose definitions are those of Export.                              *)
(***************************************************************************)
LEMMA SameInit ==
    Export!Init => XP!Init
  BY DEF Export!Init, XP!Init, Export!Images, XP!Images, Export!PerDisk, XP!PerDisk, Export!NoFile,
         XP!NoFile, Export!Blocks, XP!Blocks, Export!Hole, XP!Hole, Export!Zero, XP!Zero

LEMMA SameStep ==
    [Export!Next]_(Export!vars) => [XP!Next]_(XP!vars)
  <1> SUFFICES ASSUME [Export!Next]_(Export!vars) PROVE [XP!Next]_(XP!vars)
    OBVIOUS
  <1>1. CASE UNCHANGED Export!vars
    BY <1>1 DEF Export!vars, XP!vars
  <1>2. ASSUME NEW d \in Busy, NEW b \in Export!Blocks(d), Export!GuestWrite(d, b)
        PROVE  b \in XP!Blocks(d) /\ XP!GuestWrite(d, b)
    BY <1>2 DEF Export!GuestWrite, XP!GuestWrite, Export!Guest, XP!Guest, Export!Shared, XP!Shared,
                Export!Free, XP!Free, Export!Files, XP!Files, Export!Blocks, XP!Blocks,
                Export!Hole, XP!Hole, Export!work, XP!work, Export!history, XP!history,
                Export!Range, XP!Range
  <1>3. ASSUME NEW d \in Busy, NEW b \in Export!Blocks(d), Export!GuestDiscard(d, b)
        PROVE  b \in XP!Blocks(d) /\ XP!GuestDiscard(d, b)
    BY <1>3 DEF Export!GuestDiscard, XP!GuestDiscard, Export!Guest, XP!Guest, Export!Blocks,
                XP!Blocks, Export!Hole, XP!Hole, Export!Zero, XP!Zero, Export!work, XP!work,
                Export!history, XP!history
  <1>4. ASSUME NEW s \in SnapIDs, Export!CreateSnapshot(s) PROVE XP!CreateSnapshot(s)
    BY <1>4 DEF Export!CreateSnapshot, XP!CreateSnapshot, Export!Begin, XP!Begin, Export!fs, XP!fs,
                Export!history, XP!history
  <1>5. ASSUME NEW s \in SnapIDs, Export!SnapshotDisk(s) PROVE XP!SnapshotDisk(s)
    BY <1>5 DEF Export!SnapshotDisk, XP!SnapshotDisk, Export!Copy, XP!Copy, Export!Files, XP!Files,
                Export!Read, XP!Read, Export!Earlier, XP!Earlier, Export!Hole, XP!Hole,
                Export!Zero, XP!Zero
  <1>10. ASSUME NEW s \in SnapIDs, Export!GetFileExtents(s) PROVE XP!GetFileExtents(s)
    BY <1>10 DEF Export!GetFileExtents, XP!GetFileExtents, Export!Measure, XP!Measure, Export!Note,
                 XP!Note, Export!Files, XP!Files, Export!Blocks, XP!Blocks, Export!Extents,
                 XP!Extents, Export!IsExtent, XP!IsExtent, Export!Starts, XP!Starts, Export!Run,
                 XP!Run, Export!Hole, XP!Hole, Export!fs, XP!fs, Export!history, XP!history
  <1>6. ASSUME NEW s \in SnapIDs, Export!SaveRecord(s) PROVE XP!SaveRecord(s)
    BY <1>6 DEF Export!SaveRecord, XP!SaveRecord, Export!Record, XP!Record, Export!fs, XP!fs,
                Export!history, XP!history
  <1>7. ASSUME NEW s \in SnapIDs, Export!Rollback(s) PROVE XP!Rollback(s)
    BY <1>7 DEF Export!Rollback, XP!Rollback, Export!CleanUp, XP!CleanUp, Export!Remove, XP!Remove,
                Export!Files, XP!Files, Export!NoFile, XP!NoFile, Export!Blocks, XP!Blocks,
                Export!Hole, XP!Hole
  <1>8. ASSUME NEW s \in SnapIDs, Export!RemoveFile(s) PROVE XP!RemoveFile(s)
    BY <1>8 DEF Export!RemoveFile, XP!RemoveFile, Export!Delete, XP!Delete, Export!Remove,
                XP!Remove, Export!Files, XP!Files, Export!history, XP!history
  <1>9. ASSUME NEW s \in SnapIDs, Export!DeleteRecord(s) PROVE XP!DeleteRecord(s)
    BY <1>9 DEF Export!DeleteRecord, XP!DeleteRecord, Export!Forget, XP!Forget, Export!Images,
                XP!Images, Export!NoFile, XP!NoFile, Export!Blocks, XP!Blocks, Export!Hole,
                XP!Hole, Export!fs, XP!fs
  <1> QED
    BY <1>1, <1>2, <1>3, <1>4, <1>5, <1>6, <1>7, <1>8, <1>9, <1>10 DEF Export!Next, XP!Next

LEMMA SameSound ==
    /\ XP!IncrementalExportSound => Export!IncrementalExportSound
    /\ XP!FullExportSound => Export!FullExportSound
  BY DEF Export!IncrementalExportSound, XP!IncrementalExportSound, Export!FullExportSound,
         XP!FullExportSound, Export!Recorded, XP!Recorded, Export!Together, XP!Together,
         Export!IncrementSound, XP!IncrementSound, Export!Downloaded, XP!Downloaded,
         Export!DiffChunks, XP!DiffChunks, Export!CompareChunks, XP!CompareChunks, Export!Dropped,
         XP!Dropped, Export!Baseline, XP!Baseline, Export!Covered, XP!Covered, Export!NoFile, XP!NoFile, Export!Blocks,
         XP!Blocks, Export!Hole, XP!Hole, Export!Zero, XP!Zero, Export!Range, XP!Range

\* The records of the database, and what a client can make of them.
LEMMA ServedFromRecords ==
    ASSUME StoreInv, Agree, Export!IncrementalExportSound, Export!FullExportSound
    PROVE  ServedSound
  <1> SUFFICES ASSUME NEW x \in SnapIDs, db[x] # Nil, NEW j \in DOMAIN db[x].disks
               PROVE  LET d == db[x].disks[j]
                      IN  /\ Export!Downloaded(x, d, chunks[x][d], Export!NoFile(d)) = image[x][d]
                          /\ \A y \in SnapIDs : db[y] # Nil /\ Export!Together(x, y, d)
                                => Export!IncrementSound(x, y, d)
    BY DEF ServedSound
  <1>1. \A y \in SnapIDs : db[y] # Nil => Export!Recorded(y) /\ list[y] = db[y].disks
    BY AgreeSplit DEF RecordAgrees, Export!Recorded
  <1>2. list[x] = db[x].disks
    BY <1>1
  <1>3. db[x].disks[j] \in Export!Range(list[x])
    BY <1>2 DEF Export!Range
  <1> QED  BY <1>1, <1>3 DEF Export!IncrementalExportSound, Export!FullExportSound

\* What get answers, with a baseline or without, from the records in the database
\* lets a client rebuild the snapshot (manager.go:215-268), whatever requests
\* race, fail and die, and whatever the guests write meanwhile.
THEOREM StoreServesSound == StoreSpec => []ServedSound
  <1>1. XP!ExportAssumption
    BY StoreAssumption, DataAssumption DEF XP!ExportAssumption
  <1>2. XP!Spec => []XP!IncrementalExportSound /\ []XP!FullExportSound
    BY <1>1, XP!IncrementalExports, XP!FullExport
  <1>3. StoreInit => XP!Init
    BY SameInit DEF StoreInit
  <1>4. [Export!Next]_(Export!vars) => [XP!Next]_(XP!vars)
    BY SameStep
  <1>5. StoreInv /\ Agree /\ Export!IncrementalExportSound /\ Export!FullExportSound => ServedSound
    BY ServedFromRecords
  <1>6. (XP!IncrementalExportSound => Export!IncrementalExportSound)
        /\ (XP!FullExportSound => Export!FullExportSound)
    BY SameSound
  <1>7. StoreInit => StoreInv
    BY StoreInvInit DEF StoreInit
  <1>8. StoreInv /\ [StoreNext]_storeVars => StoreInv'
    BY StepOfStore, StoreInvStep
  <1>9. StoreSpec => []StoreInv
    BY <1>7, <1>8, PTL DEF StoreSpec
  <1>10. StoreSpec => XP!Spec
    BY <1>3, <1>4, StoreImplementsExport, PTL DEF ImplementsExport, Export!Spec, XP!Spec, StoreSpec
  <1> QED  BY <1>2, <1>5, <1>6, <1>9, <1>10, StoreAgrees, PTL
=============================================================================
