----------------------- MODULE IncrementalExportProofs -----------------------
(***************************************************************************)
(* Proof that full and incremental downloads are sound, for any disks,     *)
(* block devices, extents, snapshots and interleavings.                    *)
(*                                                                         *)
(* A snapshot file and the blocks it shares are never written, so what is  *)
(* read from it is its image.  While two files are there together, blocks  *)
(* that they have in common hold the same data; both images are fixed from *)
(* then on, whatever becomes of the files, and also if the extents of one  *)
(* of them have still to be read when the other's file goes.               *)
(***************************************************************************)
EXTENDS IncrementalExport, WellFoundedInduction, TLAPS

Maps     == UNION {Mapping(d) : d \in Disks}
Pictures == UNION {[Blocks(d) -> Nat] : d \in Disks}

\* The functions that TypeOK only looks into.
FunctionsOK ==
    /\ live \in [Disks -> Maps]
    /\ log \in Seq(Disks \X Nat \X Nat)
    /\ Files \subseteq Snaps \X Disks
    /\ i \in [Snaps -> Nat] /\ created \in [Snaps -> Nat] /\ clock \in Nat
    /\ chunks \in [Snaps -> [Disks -> SUBSET Chunk]]
    /\ image \in [Snaps -> [Disks -> Pictures]]
    /\ \A s \in Snaps, d \in Disks : image[s][d] \in [Blocks(d) -> Nat]
    /\ seen \in [Snaps -> [Disks -> SUBSET Snaps]]

\* The files there are for how far a create or a delete has come.
ProgressInv ==
    \A s \in Snaps :
        /\ phase[s] \in {"none", "deleted"} => list[s] = << >> /\ i[s] = 1
        /\ phase[s] = "recorded" => i[s] = 1
        /\ \A k \in DOMAIN list[s] :
              /\ phase[s] = "creating" /\ k < i[s] => <<s, list[s][k]>> \in Files
              /\ phase[s] = "recorded" => <<s, list[s][k]>> \in Files
              /\ phase[s] = "deleting" /\ k < i[s] => <<s, list[s][k]>> \notin Files

\* The blocks from start on lie one after the other in the file system.
Places(map, c) ==
    \A b \in c.start .. c.start + c.length - 1 :
        b \in DOMAIN map /\ map[b] = c.physical + (b - c.start)

\* A file reads as its image, and lies where its record says.
FileInv ==
    \A s \in Snaps, d \in Disks : <<s, d>> \in Files =>
        /\ Read(file[<<s, d>>]) = image[s][d]
        /\ \A c \in chunks[s][d] : Places(file[<<s, d>>], c)

\* A snapshot in the making has no extents of a disk before it has the file.
BlankInv ==
    \A s \in Snaps, d \in Disks :
        phase[s] \in {"none", "creating"} /\ <<s, d>> \notin Files => chunks[s][d] = {}

\* The extents of the k-th disk have been read.
Measured(s, k) ==
    phase[s] \in {"recorded", "deleting"} \/ (phase[s] = "creating" /\ k < i[s])

\* What is not in the extents of a snapshot was a hole.
CoversAll(s, d) ==
    \A b \in Nat : b \in Blocks(d) /\ b \notin Covered(chunks[s][d]) => image[s][d][b] = Zero

CoverInv ==
    \A s \in Snaps : \A k \in DOMAIN list[s] : Measured(s, k) => CoversAll(s, list[s][k])

\* A disk that was seen is not snapshotted again.
SeenInv ==
    \A x, y \in Snaps, d \in Disks : y \in seen[x][d] =>
        <<y, d>> \in Files \/ phase[y] \in {"failed", "deleting", "deleted"}

\* One of the two files was there when the other was made.
Met(x, y, d) == y \in seen[x][d] \/ x \in seen[y][d]

\* Where an extent lies, both disks held the same.
SameIn(x, y, d, c) ==
    \A b \in c.start .. c.start + c.length - 1 : image[x][d][b] = image[y][d][b]

\* Extents that two snapshots have in common did not change in between.
CommonInv ==
    \A x, y \in Snaps, d \in Disks : Met(x, y, d) =>
        \A c \in chunks[x][d] \cap chunks[y][d] : SameIn(x, y, d, c)

\* Nor did an extent of one that the other's file has in the same place, whether
\* its extents have been read or not.
ShareInv ==
    \A x, y \in Snaps, d \in Disks : Met(x, y, d) /\ <<x, d>> \in Files =>
        \A c \in chunks[y][d] : Places(file[<<x, d>>], c) => SameIn(x, y, d, c)

ExportInv ==
    /\ TypeOK /\ FunctionsOK /\ ProgressInv /\ BlankInv
    /\ FileInv /\ CoverInv /\ SeenInv /\ CommonInv /\ ShareInv

-----------------------------------------------------------------------------
(***************************************************************************)
(* Extents.                                                                *)
(***************************************************************************)
LEMMA Least ==
    ASSUME NEW T \in SUBSET Nat, T # {}
    PROVE  \E n \in T : \A m \in T : n <= m
  <1> DEFINE R == OpToRel(<, Nat)
  <1>1. IsWellFoundedOn(R, Nat)
    BY NatLessThanWellFounded
  <1>2. R = {ss \in Nat \X Nat : ss[1] < ss[2]}
    BY DEF OpToRel
  <1> HIDE DEF R
  <1>3. PICK n \in T : \A m \in T : ~ (<<m, n>> \in R)
    BY <1>1, WFMin
  <1>4. \A m \in T : ~ (m < n)
    BY <1>2, <1>3
  <1> QED  BY <1>4

LEMMA MapOK ==
    ASSUME NEW d \in Disks, NEW map \in Mapping(d)
    PROVE  /\ Size[d] \in Nat \ {0} /\ DOMAIN map = 0 .. Size[d] - 1
           /\ \A b \in DOMAIN map : map[b] \in Nat /\ (map[b] # Hole => map[b] \in Phys)
  <1>1. Size[d] \in Nat \ {0} /\ DOMAIN map = Blocks(d)
    BY ExportAssumption DEF Mapping
  <1>2. \A b \in DOMAIN map : map[b] \in Phys \cup {Hole}
    BY DEF Mapping
  <1>3. Phys \subseteq Nat /\ Hole \in Nat
    BY ExportAssumption DEF Hole
  <1> QED  BY <1>1, <1>2, <1>3 DEF Blocks

\* Every extent is a chunk within the disk, and says where its blocks are.
LEMMA ExtentsOK ==
    ASSUME NEW d \in Disks, NEW map \in Mapping(d), NEW cuts, NEW c \in Extents(map, cuts)
    PROVE  /\ c \in Chunk /\ c.length > 0 /\ c.start + c.length - 1 \in Blocks(d)
           /\ Places(map, c)
  <1>1. PICK b \in DOMAIN map, e \in DOMAIN map :
            IsExtent(map, cuts, b, e) /\ c = [start |-> b, length |-> e - b + 1, physical |-> map[b]]
    BY DEF Extents
  <1>2. Size[d] \in Nat \ {0} /\ DOMAIN map = 0 .. Size[d] - 1 /\ map[b] \in Nat
        /\ b \in Nat /\ e \in Nat /\ b <= e /\ map[b] \in Phys
    BY <1>1, MapOK DEF IsExtent, Starts
  <1>3. c.start = b /\ c.length = e - b + 1 /\ c.physical = map[b] /\ c.start + c.length - 1 = e
    BY <1>1, <1>2
  <1>4. e - b + 1 \in Nat /\ e - b + 1 > 0
    BY <1>2
  <1>5. c \in Chunk /\ c.length > 0
    BY <1>1, <1>2, <1>4 DEF Chunk
  <1>6. c.start + c.length - 1 \in Blocks(d)
    BY <1>2, <1>3 DEF Blocks
  <1>7. Places(map, c)
    BY <1>1, <1>3 DEF Places, IsExtent, Run
  <1> QED  BY <1>5, <1>6, <1>7

\* Every block that is allocated is in an extent.
LEMMA ExtentsCover ==
    ASSUME NEW d \in Disks, NEW map \in Mapping(d), NEW cuts, NEW b \in Blocks(d), map[b] # Hole
    PROVE  b \in Covered(Extents(map, cuts))
  <1>1. /\ Size[d] \in Nat \ {0} /\ DOMAIN map = 0 .. Size[d] - 1
        /\ b \in Nat /\ b \in DOMAIN map /\ \A k \in DOMAIN map : map[k] \in Nat
    BY MapOK DEF Blocks
  <1> DEFINE S == {a \in Nat : a <= b /\ map[a] # Hole /\ Run(map, cuts, a, b)}
  <1>2. b \in S
    BY <1>1 DEF Run
  <1>3. S \in SUBSET Nat /\ S # {}
    BY <1>2
  <1>4. PICK a \in S : \A m \in S : a <= m
    <2> HIDE DEF S
    <2> QED  BY <1>3, Least
  <1>5. a \in Nat /\ a <= b /\ map[a] # Hole /\ Run(map, cuts, a, b) /\ a \in DOMAIN map
    BY <1>1, <1>4
  <1>6. Starts(map, cuts, a)
    <2> SUFFICES ASSUME a # 0, a \notin cuts, map[a - 1] # Hole, map[a] = map[a - 1] + 1 PROVE FALSE
      BY <1>5 DEF Starts
    <2>1. a - 1 \in Nat /\ a - 1 \in DOMAIN map /\ map[a - 1] \in Nat /\ a - 1 <= b
      BY <1>1, <1>5
    <2>2. ASSUME NEW k \in a - 1 .. b
          PROVE  k \in DOMAIN map /\ map[k] = map[a - 1] + (k - (a - 1)) /\ (k > a - 1 => k \notin cuts)
      <3>1. CASE k = a - 1
        BY <2>1, <3>1
      <3>2. CASE k \in a .. b
        BY <1>5, <2>1, <3>2 DEF Run
      <3> QED  BY <1>5, <3>1, <3>2
    <2>3. a - 1 \in S
      BY <2>1, <2>2 DEF Run
    <2> QED  BY <1>4, <1>5, <2>3
  <1> DEFINE T == {e \in Nat : b <= e /\ ~ Run(map, cuts, a, e + 1)}
  <1>7. Size[d] - 1 \in T
    <2>1. ~ Run(map, cuts, a, Size[d])
      BY <1>1, <1>5 DEF Run
    <2> QED  BY <1>1, <2>1
  <1>8. T \in SUBSET Nat /\ T # {}
    BY <1>7
  <1>9. PICK e \in T : \A m \in T : e <= m
    <2> HIDE DEF T
    <2> QED  BY <1>8, Least
  <1>10. e \in Nat /\ b <= e /\ ~ Run(map, cuts, a, e + 1)
    BY <1>9
  <1>11. Run(map, cuts, a, e)
    <2>1. CASE e = b
      BY <1>5, <2>1
    <2>2. CASE e # b
      <3>1. e - 1 \in Nat /\ b <= e - 1 /\ ~ (e <= e - 1) /\ (e - 1) + 1 = e
        BY <1>1, <1>10, <2>2
      <3>2. e - 1 \notin T
        <4> HIDE DEF T
        <4> QED  BY <1>9, <3>1
      <3> QED  BY <3>1, <3>2
    <2> QED  BY <2>1, <2>2
  <1>12. e \in DOMAIN map
    BY <1>1, <1>5, <1>10, <1>11 DEF Run
  <1>13. IsExtent(map, cuts, a, e)
    BY <1>1, <1>5, <1>6, <1>10, <1>11 DEF IsExtent
  <1> DEFINE c == [start |-> a, length |-> e - a + 1, physical |-> map[a]]
  <1>14. c \in Extents(map, cuts)
    <2>1. <<a, e>> \in {y \in (DOMAIN map) \X (DOMAIN map) : IsExtent(map, cuts, y[1], y[2])}
      BY <1>5, <1>12, <1>13
    <2> QED  BY <2>1 DEF Extents
  <1>15. b \in c.start .. c.start + c.length - 1
    BY <1>1, <1>5, <1>10
  <1> QED  BY <1>14, <1>15 DEF Covered

-----------------------------------------------------------------------------
(***************************************************************************)
(* Reading and writing.                                                    *)
(***************************************************************************)
LEMMA ReadOK ==
    ASSUME NEW d \in Disks, NEW map \in Mapping(d), data \in [Phys -> 0 .. Len(log)], Len(log) \in Nat
    PROVE  /\ Read(map) \in [Blocks(d) -> Nat]
           /\ \A b \in Blocks(d) : map[b] = Hole => Read(map)[b] = Zero
  <1>1. DOMAIN map = Blocks(d) /\ \A b \in Blocks(d) : map[b] # Hole => map[b] \in Phys
    BY DEF Mapping
  <1>2. \A p \in Phys : data[p] \in Nat
    OBVIOUS
  <1> QED  BY <1>1, <1>2 DEF Read, Zero

LEMMA Update ==
    ASSUME NEW S, NEW T, NEW V, NEW f \in [S -> [T -> V]], NEW s \in S, NEW t \in T, NEW v \in V
    PROVE  /\ [f EXCEPT ![s][t] = v] \in [S -> [T -> V]]
           /\ [f EXCEPT ![s][t] = v][s][t] = v
           /\ \A x \in S, y \in T : x # s \/ y # t => [f EXCEPT ![s][t] = v][x][y] = f[x][y]
           /\ \A x \in S : x # s => [f EXCEPT ![s][t] = v][x] = f[x]
  OBVIOUS

LEMMA EmptyOK ==
    /\ Zero = 0 /\ Hole = 0
    /\ \A d \in Disks : NoFile(d) \in Mapping(d) /\ NoFile(d) \in [Blocks(d) -> Nat]
    /\ Images \in [Disks -> Maps] /\ Images \in [Disks -> Pictures]
    /\ \A d \in Disks : Images[d] = NoFile(d) /\ \A b \in Blocks(d) : NoFile(d)[b] = 0
  <1>1. Zero = 0 /\ Hole = 0
    BY DEF Zero, Hole
  <1>2. \A d \in Disks : NoFile(d) \in Mapping(d) /\ NoFile(d) \in [Blocks(d) -> Nat]
    BY <1>1 DEF NoFile, Mapping
  <1>3. \A d \in Disks : NoFile(d) \in Maps /\ NoFile(d) \in Pictures
    BY <1>2 DEF Maps, Pictures
  <1> QED  BY <1>1, <1>2, <1>3 DEF Images, NoFile

LEMMA ExportInit ==
    Init => ExportInv
  <1> SUFFICES ASSUME Init PROVE ExportInv
    OBVIOUS
  <1>1. Files = {}
    BY DEF Init, Files
  <1>2. /\ live = Images /\ image = [s \in Snaps |-> Images]
        /\ chunks = [s \in Snaps |-> [d \in Disks |-> {}]] /\ seen = chunks
        /\ \A s \in Snaps, d \in Disks : chunks[s][d] = {} /\ seen[s][d] = {} /\ image[s] = Images
    BY DEF Init, PerDisk
  <1>3. /\ data \in [Phys -> 0 .. Len(log)] /\ log = << >> /\ Len(log) = 0
        /\ clock = 1 /\ created = [s \in Snaps |-> 0] /\ i = [s \in Snaps |-> 1]
        /\ list = [s \in Snaps |-> << >>] /\ phase = [s \in Snaps |-> "none"]
    BY EmptyOK DEF Init
  <1>4. TypeOK
    <2>1. /\ \A d \in Disks : live[d] \in Mapping(d)
          /\ \A n \in DOMAIN log : FALSE
      BY <1>2, <1>3, EmptyOK
    <2>2. /\ phase \in [Snaps -> {"none", "creating", "failed", "recorded", "deleting", "deleted"}]
          /\ list \in [Snaps -> DiskLists \cup {<< >>}]
          /\ \A s \in Snaps : i[s] \in 1 .. Len(list[s]) + 1 /\ created[s] < clock
      BY <1>3
    <2> QED  BY <1>1, <1>2, <1>3, <2>1, <2>2 DEF TypeOK
  <1>5. FunctionsOK
    <2>1. \A s \in Snaps, d \in Disks : image[s][d] \in [Blocks(d) -> Nat]
      BY <1>2, EmptyOK
    <2>2. /\ chunks \in [Snaps -> [Disks -> SUBSET Chunk]] /\ seen \in [Snaps -> [Disks -> SUBSET Snaps]]
      BY <1>2
    <2> QED  BY <1>1, <1>2, <1>3, <2>1, <2>2, EmptyOK DEF FunctionsOK
  <1>6. ProgressInv
    BY <1>1, <1>3 DEF ProgressInv
  <1>7. BlankInv /\ FileInv /\ SeenInv /\ CommonInv /\ ShareInv
    BY <1>1, <1>2 DEF BlankInv, FileInv, SeenInv, CommonInv, ShareInv
  <1>8. CoverInv
    BY <1>3 DEF CoverInv
  <1> QED  BY <1>4, <1>5, <1>6, <1>7, <1>8 DEF ExportInv

-----------------------------------------------------------------------------
(***************************************************************************)
(* The guest.                                                              *)
(***************************************************************************)
LEMMA AppendOK ==
    ASSUME NEW S, NEW q \in Seq(S), NEW x \in S
    PROVE  /\ Append(q, x) \in Seq(S) /\ Len(Append(q, x)) = Len(q) + 1
           /\ \A n \in DOMAIN Append(q, x) : \/ n \in DOMAIN q /\ Append(q, x)[n] = q[n]
                                             \/ n = Len(q) + 1 /\ Append(q, x)[n] = x
  <1>1. Append(q, x) \in Seq(S) /\ Len(Append(q, x)) = Len(q) + 1 /\ Len(q) \in Nat
    OBVIOUS
  <1>2. DOMAIN Append(q, x) = 1 .. Len(q) + 1 /\ DOMAIN q = 1 .. Len(q)
    OBVIOUS
  <1>3. \A n \in 1 .. Len(q) : Append(q, x)[n] = q[n]
    OBVIOUS
  <1>4. Append(q, x)[Len(q) + 1] = x
    OBVIOUS
  <1>5. \A n \in 1 .. Len(q) + 1 : n \in 1 .. Len(q) \/ n = Len(q) + 1
    BY <1>1
  <1> QED  BY <1>2, <1>3, <1>4, <1>5, <1>1

LEMMA GuestInv ==
    ASSUME ExportInv, NEW d \in Disks, NEW b \in Blocks(d), NEW v \in {Zero, Len(log) + 1},
           Guest(d, b, v), NEW m \in Mapping(d), live' = [live EXCEPT ![d] = m],
           data' \in [Phys -> 0 .. Len(log) + 1], \A p \in Phys : Shared(p) => data'[p] = data[p]
    PROVE  ExportInv'
  <1>1. /\ log' = Append(log, <<d, b, v>>) /\ file' = file /\ UNCHANGED <<work, clock, history>>
        /\ Files' = Files
    BY DEF Guest, Files
  <1>2. b \in Nat /\ v \in Nat /\ Len(log) \in Nat /\ log \in Seq(Disks \X Nat \X Nat)
    BY ExportAssumption, EmptyOK DEF Blocks, ExportInv, FunctionsOK
  <1>3. /\ log' \in Seq(Disks \X Nat \X Nat) /\ Len(log') = Len(log) + 1
        /\ \A n \in DOMAIN log' : \/ n \in DOMAIN log /\ log'[n] = log[n]
                                  \/ n = Len(log) + 1 /\ log'[n] = <<d, b, v>>
    <2> DEFINE x == <<d, b, v>>
    <2>1. x \in Disks \X Nat \X Nat
      BY <1>2
    <2> HIDE DEF x
    <2>2. log' = Append(log, x)
      BY <1>1 DEF x
    <2>3. /\ log' \in Seq(Disks \X Nat \X Nat) /\ Len(log') = Len(log) + 1
          /\ \A n \in DOMAIN log' : \/ n \in DOMAIN log /\ log'[n] = log[n]
                                    \/ n = Len(log) + 1 /\ log'[n] = x
      BY <1>2, <2>1, <2>2, AppendOK
    <2> QED  BY <2>3 DEF x
  <1>4. live' \in [Disks -> Maps] /\ \A e \in Disks : live'[e] \in Mapping(e)
    <2>1. m \in Maps
      BY DEF Maps
    <2>2. live \in [Disks -> Maps] /\ \A e \in Disks : live[e] \in Mapping(e)
      BY DEF ExportInv, FunctionsOK, TypeOK
    <2> QED  BY <2>1, <2>2
  <1>5. TypeOK'
    <2>1. \A n \in DOMAIN log' : /\ log'[n][1] \in Disks /\ log'[n][2] \in Blocks(log'[n][1])
                                 /\ log'[n][3] \in {Zero, n}
      <3> TAKE n \in DOMAIN log'
      <3>1. CASE n \in DOMAIN log /\ log'[n] = log[n]
        BY <3>1 DEF ExportInv, TypeOK
      <3>2. CASE n = Len(log) + 1 /\ log'[n] = <<d, b, v>>
        BY <3>2
      <3> QED  BY <1>3, <3>1, <3>2
    <2> QED
      BY <1>1, <1>3, <1>4, <2>1 DEF ExportInv, TypeOK, work, Mapping
  <1>6. FunctionsOK'
    BY <1>1, <1>3, <1>4 DEF ExportInv, FunctionsOK, work, history
  <1>7. FileInv'
    <2> SUFFICES ASSUME NEW s \in Snaps, NEW e \in Disks, <<s, e>> \in Files
                 PROVE  /\ Read(file[<<s, e>>])' = image[s][e]
                        /\ \A c \in chunks[s][e] : Places(file[<<s, e>>], c)
      BY <1>1 DEF FileInv, work, history, Places
    <2>1. Read(file[<<s, e>>]) = image[s][e] /\ \A c \in chunks[s][e] : Places(file[<<s, e>>], c)
      BY DEF ExportInv, FileInv
    <2>2. ASSUME NEW k \in DOMAIN file[<<s, e>>], file[<<s, e>>][k] # Hole
          PROVE  data'[file[<<s, e>>][k]] = data[file[<<s, e>>][k]]
      <3>1. file[<<s, e>>] \in Mapping(e)
        BY DEF ExportInv, TypeOK
      <3>2. file[<<s, e>>][k] \in Phys
        BY <2>2, <3>1 DEF Mapping
      <3>3. Shared(file[<<s, e>>][k])
        BY DEF Shared, Range
      <3> QED  BY <3>2, <3>3
    <2>3. Read(file[<<s, e>>])' = Read(file[<<s, e>>])
      BY <1>1, <2>2 DEF Read
    <2> QED  BY <2>1, <2>3
  <1>8. ProgressInv' /\ BlankInv' /\ CoverInv' /\ SeenInv'
    BY <1>1 DEF ExportInv, ProgressInv, BlankInv, CoverInv, CoversAll, Measured, SeenInv, work, history
  <1>9. CommonInv' /\ ShareInv'
    BY <1>1 DEF ExportInv, CommonInv, ShareInv, Met, SameIn, Places, work, history
  <1> QED  BY <1>5, <1>6, <1>7, <1>8, <1>9 DEF ExportInv

LEMMA GuestWriteInv ==
    ASSUME ExportInv, NEW d \in Disks, NEW b \in Blocks(d), GuestWrite(d, b)
    PROVE  ExportInv'
  <1>1. /\ live \in [Disks -> Maps] /\ live[d] \in Mapping(d) /\ data \in [Phys -> 0 .. Len(log)]
        /\ Len(log) \in Nat
    BY DEF ExportInv, TypeOK, FunctionsOK
  <1>2. Len(log') = Len(log) + 1 /\ Guest(d, b, Len(log) + 1)
    BY DEF GuestWrite, Guest, ExportInv, FunctionsOK
  <1>3. ASSUME NEW p \in Phys, ~ Shared(p), data' = [data EXCEPT ![p] = Len(log')],
               NEW m \in Mapping(d), live' = [live EXCEPT ![d] = m]
        PROVE  ExportInv'
    <2>1. data' \in [Phys -> 0 .. Len(log) + 1] /\ \A q \in Phys : Shared(q) => data'[q] = data[q]
      BY <1>1, <1>2, <1>3
    <2> QED  BY <1>2, <1>3, <2>1, GuestInv
  <1>4. ASSUME NEW q \in Free, live' = [live EXCEPT ![d][b] = q], data' = [data EXCEPT ![q] = Len(log')]
        PROVE  ExportInv'
    <2>1. q \in Phys /\ ~ Shared(q)
      BY <1>4 DEF Free
    <2>2. [live[d] EXCEPT ![b] = q] \in Mapping(d)
      BY <1>1, <2>1 DEF Mapping
    <2>3. live' = [live EXCEPT ![d] = [live[d] EXCEPT ![b] = q]]
      BY <1>4
    <2> QED  BY <1>3, <1>4, <2>1, <2>2, <2>3
  <1>5. ASSUME live[d][b] # Hole, ~ Shared(live[d][b]), data' = [data EXCEPT ![live[d][b]] = Len(log')],
               UNCHANGED live
        PROVE  ExportInv'
    <2>1. live[d][b] \in Phys
      BY <1>1, <1>5 DEF Mapping
    <2>2. live' = [live EXCEPT ![d] = live[d]]
      BY <1>1, <1>5
    <2> QED  BY <1>1, <1>3, <1>5, <2>1, <2>2
  <1> QED  BY <1>4, <1>5 DEF GuestWrite

LEMMA GuestDiscardInv ==
    ASSUME ExportInv, NEW d \in Disks, NEW b \in Blocks(d), GuestDiscard(d, b)
    PROVE  ExportInv'
  <1>1. /\ live \in [Disks -> Maps] /\ live[d] \in Mapping(d) /\ data \in [Phys -> 0 .. Len(log)]
        /\ Len(log) \in Nat
    BY DEF ExportInv, TypeOK, FunctionsOK
  <1>2. [live[d] EXCEPT ![b] = Hole] \in Mapping(d) /\ live' = [live EXCEPT ![d] = [live[d] EXCEPT ![b] = Hole]]
    BY <1>1 DEF Mapping, GuestDiscard
  <1>3. data' \in [Phys -> 0 .. Len(log) + 1] /\ \A q \in Phys : data'[q] = data[q]
    BY <1>1 DEF GuestDiscard
  <1> QED  BY <1>2, <1>3, GuestInv DEF GuestDiscard

-----------------------------------------------------------------------------
(***************************************************************************)
(* Creates and deletes.                                                    *)
(***************************************************************************)
LEMMA ListOK ==
    ASSUME NEW l \in DiskLists \cup {<< >>}
    PROVE  l \in Seq(Disks) /\ Len(l) \in Nat /\ DOMAIN l = 1 .. Len(l)
  <1>1. << >> \in Seq(Disks)
    OBVIOUS
  <1>2. l \in Seq(Disks)
    BY <1>1, ExportAssumption
  <1> QED  BY <1>2

LEMMA CreateSnapshotInv ==
    ASSUME ExportInv, NEW s \in Snaps, CreateSnapshot(s)
    PROVE  ExportInv'
  <1>1. PICK l \in DiskLists : list' = [list EXCEPT ![s] = l]
    BY DEF CreateSnapshot, Begin
  <1>2. /\ phase[s] = "none" /\ list[s] = << >> /\ i[s] = 1
        /\ phase' = [phase EXCEPT ![s] = "creating"]
        /\ UNCHANGED <<live, data, file, i, chunks, created, clock, log, image, prior, seen>> /\ Files' = Files
    BY DEF CreateSnapshot, Begin, ExportInv, ProgressInv, fs, history, Files
  <1>3. phase \in [Snaps -> {"none", "creating", "failed", "recorded", "deleting", "deleted"}]
        /\ list \in [Snaps -> DiskLists \cup {<< >>}] /\ l \in Seq(Disks) /\ Len(l) \in Nat
    BY ExportAssumption DEF ExportInv, TypeOK
  <1>4. \A t \in Snaps : t # s => list'[t] = list[t] /\ phase'[t] = phase[t]
    BY <1>1, <1>2, <1>3
  <1>5. list'[s] = l /\ phase'[s] = "creating"
    BY <1>1, <1>2, <1>3
  <1>6. \A x \in Files : x[1] \in Snaps /\ x[1] # s
    <2> SUFFICES ASSUME NEW x \in Files PROVE x[1] \in Snaps /\ x[1] # s
      OBVIOUS
    <2>1. x[1] \in Snaps /\ x[2] \in Range(list[x[1]])
      BY DEF ExportInv, TypeOK, FunctionsOK
    <2>2. Range(list[s]) = {}
      BY <1>2 DEF Range
    <2> QED  BY <2>1, <2>2
  <1>7. TypeOK'
    <2>1. list' \in [Snaps -> DiskLists \cup {<< >>}]
          /\ phase' \in [Snaps -> {"none", "creating", "failed", "recorded", "deleting", "deleted"}]
      BY <1>1, <1>2, <1>3
    <2>2. \A t \in Snaps : i'[t] \in 1 .. Len(list'[t]) + 1 /\ created'[t] < clock'
      <3> TAKE t \in Snaps
      <3>1. i[t] \in 1 .. Len(list[t]) + 1 /\ created[t] < clock
        BY DEF ExportInv, TypeOK
      <3> QED  BY <1>2, <1>3, <1>4, <1>5, <3>1
    <2>3. \A x \in Files' : x[2] \in Range(list'[x[1]]) /\ file'[x] \in Mapping(x[2])
      BY <1>2, <1>4, <1>6 DEF ExportInv, TypeOK
    <2> QED  BY <1>2, <2>1, <2>2, <2>3 DEF ExportInv, TypeOK, Mapping
  <1>8. FunctionsOK' /\ FileInv' /\ BlankInv' /\ CommonInv' /\ ShareInv'
    <2>1. FunctionsOK'
      BY <1>2 DEF ExportInv, FunctionsOK
    <2>2. FileInv'
      BY <1>2 DEF ExportInv, FileInv, Places, Read
    <2>3. CommonInv' /\ ShareInv'
      BY <1>2 DEF ExportInv, CommonInv, ShareInv, Met, SameIn, Places
    <2>4. BlankInv'
      BY <1>2, <1>4 DEF ExportInv, BlankInv
    <2> QED  BY <2>1, <2>2, <2>3, <2>4
  <1>9. ProgressInv'
    <2> SUFFICES ASSUME NEW t \in Snaps
                 PROVE  /\ phase'[t] \in {"none", "deleted"} => list'[t] = << >> /\ i[t] = 1
                        /\ phase'[t] = "recorded" => i[t] = 1
                        /\ \A k \in DOMAIN list'[t] :
                              /\ phase'[t] = "creating" /\ k < i[t] => <<t, list'[t][k]>> \in Files
                              /\ phase'[t] = "recorded" => <<t, list'[t][k]>> \in Files
                              /\ phase'[t] = "deleting" /\ k < i[t] => <<t, list'[t][k]>> \notin Files
      BY <1>2 DEF ProgressInv
    <2>1. CASE t # s
      BY <1>4, <2>1 DEF ExportInv, ProgressInv
    <2>2. CASE t = s
      BY <1>2, <1>3, <1>5, <2>2
    <2> QED  BY <2>1, <2>2
  <1>10. SeenInv'
    <2> SUFFICES ASSUME NEW x \in Snaps, NEW y \in Snaps, NEW d \in Disks, y \in seen[x][d]
                 PROVE  <<y, d>> \in Files \/ phase'[y] \in {"failed", "deleting", "deleted"}
      BY <1>2 DEF SeenInv
    <2>1. <<y, d>> \in Files \/ phase[y] \in {"failed", "deleting", "deleted"}
      BY DEF ExportInv, SeenInv
    <2> QED  BY <1>2, <1>4, <2>1
  <1>11. CoverInv'
    <2> SUFFICES ASSUME NEW t \in Snaps, NEW k \in DOMAIN list'[t], Measured(t, k)'
                 PROVE  CoversAll(t, list'[t][k])
      BY <1>2 DEF CoverInv, CoversAll
    <2>1. t # s
      BY <1>2, <1>3, <1>5 DEF Measured
    <2> QED  BY <1>2, <1>4, <2>1 DEF ExportInv, CoverInv, Measured
  <1> QED  BY <1>7, <1>8, <1>9, <1>10, <1>11 DEF ExportInv

LEMMA SaveRecordInv ==
    ASSUME ExportInv, NEW s \in Snaps, SaveRecord(s)
    PROVE  ExportInv'
  <1>1. /\ phase[s] = "creating" /\ i[s] > Len(list[s]) /\ phase' = [phase EXCEPT ![s] = "recorded"]
        /\ created' = [created EXCEPT ![s] = clock] /\ clock' = clock + 1 /\ i' = [i EXCEPT ![s] = 1]
        /\ UNCHANGED <<live, data, file, list, chunks, log, image, prior, seen>> /\ Files' = Files
    BY DEF SaveRecord, Record, fs, history, Files
  <1>2. /\ phase \in [Snaps -> {"none", "creating", "failed", "recorded", "deleting", "deleted"}]
        /\ created \in [Snaps -> Nat] /\ clock \in Nat /\ i \in [Snaps -> Nat]
        /\ list \in [Snaps -> DiskLists \cup {<< >>}]
    BY DEF ExportInv, TypeOK, FunctionsOK
  <1>3. \A t \in Snaps : list[t] \in Seq(Disks) /\ Len(list[t]) \in Nat /\ DOMAIN list[t] = 1 .. Len(list[t])
    BY <1>2, ListOK
  <1>4. /\ \A t \in Snaps : t # s => phase'[t] = phase[t] /\ created'[t] = created[t] /\ i'[t] = i[t]
        /\ phase'[s] = "recorded" /\ created'[s] = clock /\ i'[s] = 1
    BY <1>1, <1>2
  <1>5. TypeOK'
    <2>1. \A t \in Snaps : i'[t] \in 1 .. Len(list[t]) + 1 /\ created'[t] < clock'
      <3> TAKE t \in Snaps
      <3>1. i[t] \in 1 .. Len(list[t]) + 1 /\ created[t] < clock
        BY DEF ExportInv, TypeOK
      <3> QED  BY <1>1, <1>2, <1>3, <1>4, <3>1
    <2>2. phase' \in [Snaps -> {"none", "creating", "failed", "recorded", "deleting", "deleted"}]
      BY <1>1, <1>2
    <2> QED  BY <1>1, <2>1, <2>2 DEF ExportInv, TypeOK, Mapping
  <1>6. FunctionsOK'
    <2>1. created' \in [Snaps -> Nat] /\ clock' \in Nat /\ i' \in [Snaps -> Nat]
      BY <1>1, <1>2
    <2> QED  BY <1>1, <2>1 DEF ExportInv, FunctionsOK
  <1>7. FileInv' /\ BlankInv' /\ CommonInv' /\ ShareInv'
    <2>1. FileInv'
      BY <1>1 DEF ExportInv, FileInv, Places, Read
    <2>2. CommonInv' /\ ShareInv'
      BY <1>1 DEF ExportInv, CommonInv, ShareInv, Met, SameIn, Places
    <2>3. BlankInv'
      BY <1>1, <1>4 DEF ExportInv, BlankInv
    <2> QED  BY <2>1, <2>2, <2>3
  <1>8. ProgressInv'
    <2> SUFFICES ASSUME NEW t \in Snaps
                 PROVE  /\ phase'[t] \in {"none", "deleted"} => list[t] = << >> /\ i'[t] = 1
                        /\ phase'[t] = "recorded" => i'[t] = 1
                        /\ \A k \in DOMAIN list[t] :
                              /\ phase'[t] = "creating" /\ k < i'[t] => <<t, list[t][k]>> \in Files
                              /\ phase'[t] = "recorded" => <<t, list[t][k]>> \in Files
                              /\ phase'[t] = "deleting" /\ k < i'[t] => <<t, list[t][k]>> \notin Files
      BY <1>1 DEF ProgressInv
    <2>1. CASE t # s
      BY <1>4, <2>1 DEF ExportInv, ProgressInv
    <2>2. CASE t = s
      <3>1. \A k \in DOMAIN list[s] : k < i[s]
        BY <1>1, <1>2, <1>3
      <3>2. \A k \in DOMAIN list[s] : <<s, list[s][k]>> \in Files
        BY <1>1, <3>1 DEF ExportInv, ProgressInv
      <3> QED  BY <1>4, <2>2, <3>2
    <2> QED  BY <2>1, <2>2
  <1>9. SeenInv'
    <2> SUFFICES ASSUME NEW x \in Snaps, NEW y \in Snaps, NEW d \in Disks, y \in seen[x][d]
                 PROVE  <<y, d>> \in Files \/ phase'[y] \in {"failed", "deleting", "deleted"}
      BY <1>1 DEF SeenInv
    <2>1. <<y, d>> \in Files \/ phase[y] \in {"failed", "deleting", "deleted"}
      BY DEF ExportInv, SeenInv
    <2> QED  BY <1>1, <1>4, <2>1
  <1>10. CoverInv'
    <2> SUFFICES ASSUME NEW t \in Snaps, NEW k \in DOMAIN list[t], Measured(t, k)'
                 PROVE  CoversAll(t, list[t][k])
      BY <1>1 DEF CoverInv, CoversAll
    <2>1. Measured(t, k)
      BY <1>1, <1>2, <1>3, <1>4 DEF Measured
    <2> QED  BY <2>1 DEF ExportInv, CoverInv
  <1> QED  BY <1>5, <1>6, <1>7, <1>8, <1>9, <1>10 DEF ExportInv

\* The file is new and is the disk image.
LEMMA SnapshotDiskInv ==
    ASSUME ExportInv, NEW s \in Snaps, SnapshotDisk(s)
    PROVE  ExportInv'
  <1>1. PICK d : d = list[s][i[s]]
    OBVIOUS
  <1>2. /\ phase[s] = "creating" /\ i[s] <= Len(list[s]) /\ <<s, d>> \notin Files
        /\ file' = [x \in Files \cup {<<s, d>>} |-> IF x = <<s, d>> THEN live[d] ELSE file[x]]
        /\ image' = [image EXCEPT ![s][d] = Read(live[d])]
        /\ seen' = [seen EXCEPT ![s][d] = {t \in Snaps : <<t, d>> \in Files}]
        /\ UNCHANGED <<live, data, phase, list, i, chunks, created, clock, log>>
    BY <1>1 DEF SnapshotDisk, Copy
  <1>3. /\ list[s] \in Seq(Disks) /\ Len(list[s]) \in Nat /\ DOMAIN list[s] = 1 .. Len(list[s])
        /\ i[s] \in 1 .. Len(list[s]) + 1
    BY ListOK DEF ExportInv, TypeOK
  <1>4. i[s] \in DOMAIN list[s] /\ d \in Disks /\ d \in Range(list[s]) /\ i[s] \in Nat
    BY <1>1, <1>2, <1>3 DEF Range
  <1>5. /\ live[d] \in Mapping(d) /\ data \in [Phys -> 0 .. Len(log)] /\ Len(log) \in Nat
        /\ Files \subseteq Snaps \X Disks
        /\ image \in [Snaps -> [Disks -> Pictures]] /\ seen \in [Snaps -> [Disks -> SUBSET Snaps]]
    BY <1>4 DEF ExportInv, TypeOK, FunctionsOK
  <1>6. /\ Files' = Files \cup {<<s, d>>} /\ file'[<<s, d>>] = live[d]
        /\ \A x \in Files : file'[x] = file[x]
    BY <1>2 DEF Files
  <1>7. chunks[s][d] = {}
    BY <1>2, <1>4 DEF ExportInv, BlankInv
  <1>8. Read(live[d]) \in [Blocks(d) -> Nat]
    BY <1>4, <1>5, ReadOK
  <1>9. /\ image' \in [Snaps -> [Disks -> Pictures]] /\ image'[s][d] = Read(live[d])
        /\ \A t \in Snaps, e \in Disks : t # s \/ e # d => image'[t][e] = image[t][e]
    <2>1. Read(live[d]) \in Pictures
      BY <1>4, <1>8 DEF Pictures
    <2> QED  BY <1>2, <1>4, <1>5, <2>1, Update
  <1>10. /\ seen' \in [Snaps -> [Disks -> SUBSET Snaps]] /\ seen'[s][d] = {t \in Snaps : <<t, d>> \in Files}
         /\ \A t \in Snaps, e \in Disks : t # s \/ e # d => seen'[t][e] = seen[t][e]
    <2>1. {t \in Snaps : <<t, d>> \in Files} \in SUBSET Snaps
      OBVIOUS
    <2> QED  BY <1>2, <1>4, <1>5, <2>1, Update
  <1>11. TypeOK'
    <2>1. \A x \in Files' : x[2] \in Range(list'[x[1]]) /\ file'[x] \in Mapping(x[2])
      <3> SUFFICES ASSUME NEW x \in Files' PROVE x[2] \in Range(list[x[1]]) /\ file'[x] \in Mapping(x[2])
        BY <1>2 DEF Mapping
      <3>1. CASE x \in Files
        BY <1>6, <3>1 DEF ExportInv, TypeOK
      <3>2. CASE x = <<s, d>>
        BY <1>4, <1>5, <1>6, <3>2
      <3> QED  BY <1>6, <3>1, <3>2
    <2> QED  BY <1>2, <2>1 DEF ExportInv, TypeOK, Mapping
  <1>12. FunctionsOK'
    <2>1. ASSUME NEW t \in Snaps, NEW e \in Disks PROVE image'[t][e] \in [Blocks(e) -> Nat]
      <3>1. image[t][e] \in [Blocks(e) -> Nat]
        BY DEF ExportInv, FunctionsOK
      <3>2. CASE t = s /\ e = d
        BY <1>8, <1>9, <3>2
      <3>3. CASE t # s \/ e # d
        BY <1>9, <3>1, <3>3
      <3> QED  BY <3>2, <3>3
    <2>2. Files' \subseteq Snaps \X Disks
      BY <1>4, <1>5, <1>6
    <2> QED  BY <1>2, <1>9, <1>10, <2>1, <2>2 DEF ExportInv, FunctionsOK
  <1>13. ProgressInv' /\ BlankInv'
    <2>1. \A x : x # <<s, d>> => (x \in Files' <=> x \in Files)
      BY <1>6
    <2>2. \A t \in Snaps : \A k \in DOMAIN list[t] :
              phase[t] = "deleting" => <<t, list[t][k]>> # <<s, d>>
      BY <1>2
    <2>3. ProgressInv'
      BY <1>2, <1>6, <2>1, <2>2 DEF ExportInv, ProgressInv
    <2>4. BlankInv'
      BY <1>2, <1>6 DEF ExportInv, BlankInv
    <2> QED  BY <2>3, <2>4
  <1>14. FileInv'
    <2>1. ASSUME NEW t \in Snaps, NEW e \in Disks, <<t, e>> \in Files'
          PROVE  /\ Read(file'[<<t, e>>]) = image'[t][e]
                 /\ \A c \in chunks[t][e] : Places(file'[<<t, e>>], c)
      <3>1. CASE t = s /\ e = d
        BY <1>6, <1>7, <1>9, <3>1
      <3>2. CASE t # s \/ e # d
        <4>1. <<t, e>> \in Files /\ file'[<<t, e>>] = file[<<t, e>>]
          BY <1>6, <3>2, <2>1
        <4> QED  BY <1>9, <3>2, <4>1 DEF ExportInv, FileInv
      <3> QED  BY <3>1, <3>2
    <2> SUFFICES ASSUME NEW t \in Snaps, NEW e \in Disks, <<t, e>> \in Files'
                 PROVE  /\ Read(file[<<t, e>>])' = image'[t][e]
                        /\ \A c \in chunks[t][e] : Places(file[<<t, e>>], c)'
      BY <1>2 DEF FileInv
    <2>2. Read(file[<<t, e>>])' = Read(file'[<<t, e>>])
      BY <1>2 DEF Read
    <2> QED  BY <2>1, <2>2 DEF Places
  <1>15. CoverInv'
    <2> SUFFICES ASSUME NEW t \in Snaps, NEW k \in DOMAIN list[t], Measured(t, k)
                 PROVE  CoversAll(t, list[t][k])'
      BY <1>2 DEF CoverInv, Measured
    <2>1. CoversAll(t, list[t][k])
      BY DEF ExportInv, CoverInv
    <2>2. list[t][k] \in Disks
      BY ListOK DEF ExportInv, TypeOK
    <2>3. t # s \/ list[t][k] # d
      BY <1>2 DEF Measured, ExportInv, ProgressInv
    <2>4. image'[t][list[t][k]] = image[t][list[t][k]]
      BY <1>9, <2>2, <2>3
    <2> QED  BY <1>2, <2>1, <2>4 DEF CoversAll
  <1>16. SeenInv'
    <2> SUFFICES ASSUME NEW x \in Snaps, NEW y \in Snaps, NEW e \in Disks, y \in seen'[x][e]
                 PROVE  <<y, e>> \in Files' \/ phase[y] \in {"failed", "deleting", "deleted"}
      BY <1>2 DEF SeenInv
    <2>1. CASE x = s /\ e = d
      BY <1>6, <1>10, <2>1
    <2>2. CASE x # s \/ e # d
      BY <1>6, <1>10, <2>2 DEF ExportInv, SeenInv
    <2> QED  BY <2>1, <2>2
  <1>17. ASSUME NEW x \in Snaps, NEW y \in Snaps, NEW e \in Disks, x # s \/ e # d, y # s \/ e # d,
                Met(x, y, e)'
         PROVE  Met(x, y, e) /\ image'[x][e] = image[x][e] /\ image'[y][e] = image[y][e]
    BY <1>9, <1>10, <1>17 DEF Met
  <1>18. CommonInv'
    <2> SUFFICES ASSUME NEW x \in Snaps, NEW y \in Snaps, NEW e \in Disks, Met(x, y, e)',
                        NEW c \in chunks[x][e] \cap chunks[y][e]
                 PROVE  SameIn(x, y, e, c)'
      BY <1>2 DEF CommonInv
    <2>1. (x # s \/ e # d) /\ (y # s \/ e # d)
      BY <1>7
    <2>2. Met(x, y, e) /\ image'[x][e] = image[x][e] /\ image'[y][e] = image[y][e]
      BY <1>17, <2>1
    <2>3. SameIn(x, y, e, c)
      BY <2>2 DEF ExportInv, CommonInv
    <2> QED  BY <2>2, <2>3 DEF SameIn
  <1>19. ShareInv'
    <2> SUFFICES ASSUME NEW x \in Snaps, NEW y \in Snaps, NEW e \in Disks, Met(x, y, e)',
                        <<x, e>> \in Files', NEW c \in chunks[y][e], Places(file'[<<x, e>>], c)
                 PROVE  SameIn(x, y, e, c)'
      BY <1>2 DEF ShareInv, Places
    <2>1. y # s \/ e # d
      BY <1>7
    <2>2. CASE x = s /\ e = d
      <3>1. y # s /\ <<y, d>> \in Files
        <4>1. y # s
          BY <2>1, <2>2
        <4>2. CASE y \in seen'[s][d]
          BY <1>10, <4>1, <4>2
        <4>3. CASE s \in seen'[y][d]
          BY <1>2, <1>4, <1>10, <4>1, <4>3 DEF ExportInv, SeenInv
        <4> QED  BY <2>2, <4>1, <4>2, <4>3 DEF Met
      <3>2. image'[y][d] = Read(file[<<y, d>>]) /\ Places(file[<<y, d>>], c)
        BY <1>4, <1>9, <2>2, <3>1 DEF ExportInv, FileInv
      <3>3. image'[s][d] = Read(live[d]) /\ Places(live[d], c)
        BY <1>6, <1>9, <2>2
      <3>4. ASSUME NEW b \in c.start .. c.start + c.length - 1
            PROVE  Read(live[d])[b] = Read(file[<<y, d>>])[b]
        <4>1. /\ b \in DOMAIN live[d] /\ b \in DOMAIN file[<<y, d>>]
              /\ live[d][b] = file[<<y, d>>][b]
          BY <3>2, <3>3 DEF Places
        <4> QED  BY <4>1 DEF Read
      <3> QED  BY <2>2, <3>2, <3>3, <3>4 DEF SameIn
    <2>3. CASE x # s \/ e # d
      <3>1. Met(x, y, e) /\ image'[x][e] = image[x][e] /\ image'[y][e] = image[y][e]
        BY <1>17, <2>1, <2>3
      <3>2. <<x, e>> \in Files /\ Places(file[<<x, e>>], c)
        BY <1>6, <2>3
      <3>3. SameIn(x, y, e, c)
        BY <3>1, <3>2 DEF ExportInv, ShareInv
      <3> QED  BY <3>1, <3>3 DEF SameIn
    <2> QED  BY <2>2, <2>3
  <1> QED
    BY <1>11, <1>12, <1>13, <1>14, <1>15, <1>16, <1>18, <1>19 DEF ExportInv

\* The extents that are noted are those of the file, which nobody has written to
\* since it was made, whatever the guest has done to the disk.
LEMMA GetFileExtentsInv ==
    ASSUME ExportInv, NEW s \in Snaps, GetFileExtents(s)
    PROVE  ExportInv'
  <1>1. PICK d : d = list[s][i[s]]
    OBVIOUS
  <1>2. /\ phase[s] = "creating" /\ i[s] <= Len(list[s]) /\ <<s, d>> \in Files
        /\ i' = [i EXCEPT ![s] = i[s] + 1]
        /\ UNCHANGED <<live, data, file, phase, list, created, clock, log, image, prior, seen>>
        /\ Files' = Files
    BY <1>1 DEF GetFileExtents, Measure, Note, fs, history, Files
  <1>3. PICK cuts : chunks' = [chunks EXCEPT ![s][d] = Extents(file[<<s, d>>], cuts)]
    BY <1>1 DEF GetFileExtents, Measure, Note
  <1>4. /\ list[s] \in Seq(Disks) /\ Len(list[s]) \in Nat /\ DOMAIN list[s] = 1 .. Len(list[s])
        /\ i[s] \in 1 .. Len(list[s]) + 1
    BY ListOK DEF ExportInv, TypeOK
  <1>5. i[s] \in DOMAIN list[s] /\ d \in Disks /\ i[s] \in Nat
    BY <1>1, <1>2, <1>4
  <1> DEFINE map == file[<<s, d>>]
             new == Extents(map, cuts)
  <1>6. /\ map \in Mapping(d) /\ Read(map) = image[s][d]
        /\ data \in [Phys -> 0 .. Len(log)] /\ Len(log) \in Nat
        /\ i \in [Snaps -> Nat] /\ chunks \in [Snaps -> [Disks -> SUBSET Chunk]]
    BY <1>2, <1>5 DEF ExportInv, TypeOK, FunctionsOK, FileInv
  <1>7. \A c \in new : /\ c \in Chunk /\ c.length > 0 /\ c.start + c.length - 1 \in Blocks(d)
                       /\ Places(map, c)
    BY <1>5, <1>6, ExtentsOK
  <1>8. new \subseteq Chunk
    BY <1>7
  <1>9. \A b \in Nat : b \in Blocks(d) /\ b \notin Covered(new) => image[s][d][b] = Zero
    BY <1>5, <1>6, ExtentsCover, ReadOK
  <1>22. chunks' = [chunks EXCEPT ![s][d] = new]
    BY <1>3
  <1> HIDE DEF new
  <1>10. /\ chunks' \in [Snaps -> [Disks -> SUBSET Chunk]] /\ chunks'[s][d] = new
         /\ \A t \in Snaps, e \in Disks : t # s \/ e # d => chunks'[t][e] = chunks[t][e]
    BY <1>5, <1>6, <1>8, <1>22, Update
  <1>11. i' \in [Snaps -> Nat] /\ i'[s] = i[s] + 1 /\ \A t \in Snaps : t # s => i'[t] = i[t]
    BY <1>2, <1>5, <1>6
  <1>12. TypeOK'
    <2>1. \A t \in Snaps : i'[t] \in 1 .. Len(list[t]) + 1 /\ created[t] < clock
      <3> TAKE t \in Snaps
      <3>1. i[t] \in 1 .. Len(list[t]) + 1 /\ created[t] < clock
        BY DEF ExportInv, TypeOK
      <3> QED  BY <1>2, <1>4, <1>11, <3>1
    <2>2. \A t \in Snaps, e \in Disks : \A c \in chunks'[t][e] :
              c \in Chunk /\ c.length > 0 /\ c.start + c.length - 1 \in Blocks(e)
      <3> SUFFICES ASSUME NEW t \in Snaps, NEW e \in Disks, NEW c \in chunks'[t][e]
                   PROVE  c \in Chunk /\ c.length > 0 /\ c.start + c.length - 1 \in Blocks(e)
        OBVIOUS
      <3>1. CASE t = s /\ e = d
        BY <1>7, <1>10, <3>1
      <3>2. CASE t # s \/ e # d
        BY <1>10, <3>2 DEF ExportInv, TypeOK
      <3> QED  BY <3>1, <3>2
    <2> QED  BY <1>2, <2>1, <2>2 DEF ExportInv, TypeOK, Mapping
  <1>13. FunctionsOK'
    BY <1>2, <1>10, <1>11 DEF ExportInv, FunctionsOK
  <1>14. ProgressInv' /\ BlankInv'
    <2>1. ASSUME NEW k \in DOMAIN list[s], k < i[s] + 1
          PROVE  <<s, list[s][k]>> \in Files
      <3>1. CASE k < i[s]
        BY <1>2, <3>1 DEF ExportInv, ProgressInv
      <3>2. CASE k = i[s]
        BY <1>1, <1>2, <3>2
      <3> QED  BY <1>4, <1>5, <2>1, <3>1, <3>2
    <2>2. ProgressInv'
      <3> SUFFICES ASSUME NEW t \in Snaps
                   PROVE  /\ phase[t] \in {"none", "deleted"} => list[t] = << >> /\ i'[t] = 1
                          /\ phase[t] = "recorded" => i'[t] = 1
                          /\ \A k \in DOMAIN list[t] :
                                /\ phase[t] = "creating" /\ k < i'[t] => <<t, list[t][k]>> \in Files
                                /\ phase[t] = "recorded" => <<t, list[t][k]>> \in Files
                                /\ phase[t] = "deleting" /\ k < i'[t] => <<t, list[t][k]>> \notin Files
        BY <1>2 DEF ProgressInv
      <3>1. CASE t # s
        BY <1>11, <3>1 DEF ExportInv, ProgressInv
      <3>2. CASE t = s
        BY <1>2, <1>11, <2>1, <3>2
      <3> QED  BY <3>1, <3>2
    <2>3. BlankInv'
      BY <1>2, <1>10 DEF ExportInv, BlankInv
    <2> QED  BY <2>2, <2>3
  <1>15. FileInv'
    <2>1. ASSUME NEW t \in Snaps, NEW e \in Disks, <<t, e>> \in Files
          PROVE  /\ Read(file[<<t, e>>]) = image[t][e]
                 /\ \A c \in chunks'[t][e] : Places(file[<<t, e>>], c)
      <3>1. Read(file[<<t, e>>]) = image[t][e] /\ \A c \in chunks[t][e] : Places(file[<<t, e>>], c)
        BY <2>1 DEF ExportInv, FileInv
      <3>2. CASE t = s /\ e = d
        BY <1>7, <1>10, <3>1, <3>2
      <3>3. CASE t # s \/ e # d
        BY <1>10, <3>1, <3>3
      <3> QED  BY <3>2, <3>3
    <2>2. \A x : Read(file[x])' = Read(file[x])
      BY <1>2 DEF Read
    <2> QED  BY <1>2, <2>1, <2>2 DEF FileInv, Places
  <1>16. CoverInv'
    <2> SUFFICES ASSUME NEW t \in Snaps, NEW k \in DOMAIN list[t], Measured(t, k)'
                 PROVE  CoversAll(t, list[t][k])'
      BY <1>2 DEF CoverInv
    <2>1. list[t][k] \in Disks
      BY ListOK DEF ExportInv, TypeOK
    <2>2. CASE t = s /\ list[t][k] = d
      BY <1>2, <1>9, <1>10, <2>2 DEF CoversAll, Covered
    <2>3. CASE t # s \/ list[t][k] # d
      <3>1. Measured(t, k)
        <4>1. CASE t # s
          BY <1>2, <1>11, <4>1 DEF Measured
        <4>2. CASE t = s
          <5>1. k \in Nat /\ k < i[s] + 1 /\ k # i[s]
            BY <1>1, <1>2, <1>4, <1>11, <2>3, <4>2 DEF Measured
          <5> QED  BY <1>2, <1>5, <4>2, <5>1 DEF Measured
        <4> QED  BY <4>1, <4>2
      <3>2. CoversAll(t, list[t][k])
        BY <3>1 DEF ExportInv, CoverInv
      <3>3. chunks'[t][list[t][k]] = chunks[t][list[t][k]]
        BY <1>10, <2>1, <2>3
      <3> QED  BY <1>2, <3>2, <3>3 DEF CoversAll, Covered
    <2> QED  BY <2>2, <2>3
  <1>17. SeenInv'
    BY <1>2 DEF ExportInv, SeenInv
  <1>18. ASSUME NEW x \in Snaps, NEW y \in Snaps, NEW e \in Disks, Met(x, y, e),
                NEW c \in chunks'[x][e] \cap chunks'[y][e]
         PROVE  SameIn(x, y, e, c)
    <2>1. CASE (x # s \/ e # d) /\ (y # s \/ e # d)
      BY <1>10, <1>18, <2>1 DEF ExportInv, CommonInv
    <2>2. CASE x = y
      BY <2>2 DEF SameIn
    <2>3. CASE x = s /\ e = d /\ y # s
      <3>1. c \in chunks[y][d] /\ Places(map, c)
        BY <1>5, <1>7, <1>10, <2>3
      <3> QED  BY <1>2, <1>5, <1>18, <2>3, <3>1 DEF ExportInv, ShareInv
    <2>4. CASE y = s /\ e = d /\ x # s
      <3>1. c \in chunks[x][d] /\ Places(map, c)
        BY <1>5, <1>7, <1>10, <2>4
      <3>2. SameIn(s, x, d, c)
        BY <1>2, <1>5, <1>18, <2>4, <3>1 DEF ExportInv, ShareInv, Met
      <3> QED  BY <2>4, <3>2 DEF SameIn
    <2> QED  BY <2>1, <2>2, <2>3, <2>4
  <1>19. CommonInv'
    BY <1>2, <1>18 DEF CommonInv, Met, SameIn
  <1>20. ASSUME NEW x \in Snaps, NEW y \in Snaps, NEW e \in Disks, Met(x, y, e), <<x, e>> \in Files,
                NEW c \in chunks'[y][e], Places(file[<<x, e>>], c)
         PROVE  SameIn(x, y, e, c)
    <2>1. CASE y # s \/ e # d
      BY <1>10, <1>20, <2>1 DEF ExportInv, ShareInv
    <2>2. CASE y = s /\ e = d
      <3>1. Places(map, c)
        BY <1>7, <1>10, <2>2
      <3>2. image[s][d] = Read(map) /\ image[x][d] = Read(file[<<x, d>>])
        BY <1>6, <1>20, <2>2 DEF ExportInv, FileInv
      <3>3. ASSUME NEW b \in c.start .. c.start + c.length - 1
            PROVE  Read(map)[b] = Read(file[<<x, d>>])[b]
        <4>1. /\ b \in DOMAIN map /\ b \in DOMAIN file[<<x, d>>]
              /\ map[b] = file[<<x, d>>][b]
          BY <1>20, <2>2, <3>1 DEF Places
        <4> QED  BY <4>1 DEF Read
      <3> QED  BY <2>2, <3>2, <3>3 DEF SameIn
    <2> QED  BY <2>1, <2>2
  <1>21. ShareInv'
    BY <1>2, <1>20 DEF ShareInv, Met, SameIn, Places
  <1> QED
    BY <1>12, <1>13, <1>14, <1>15, <1>16, <1>17, <1>19, <1>21 DEF ExportInv

-----------------------------------------------------------------------------
(***************************************************************************)
(* Deletes.                                                                *)
(***************************************************************************)
LEMMA RemoveFileInv ==
    ASSUME ExportInv, NEW s \in Snaps, RemoveFile(s)
    PROVE  ExportInv'
  <1>1. PICK d : d = list[s][i[s]]
    OBVIOUS
  <1>2. /\ phase[s] \in {"recorded", "deleting"} /\ i[s] <= Len(list[s])
        /\ file' = [x \in Files \ {<<s, d>>} |-> file[x]]
        /\ phase' = [phase EXCEPT ![s] = "deleting"] /\ i' = [i EXCEPT ![s] = i[s] + 1]
        /\ UNCHANGED <<live, data, list, chunks, created, clock, log, image, prior, seen>>
    BY <1>1 DEF RemoveFile, Delete, Remove, history
  <1>3. /\ list[s] \in Seq(Disks) /\ Len(list[s]) \in Nat /\ DOMAIN list[s] = 1 .. Len(list[s])
        /\ i[s] \in 1 .. Len(list[s]) + 1
    BY ListOK DEF ExportInv, TypeOK
  <1>4. i[s] \in DOMAIN list[s] /\ i[s] \in Nat
    BY <1>2, <1>3
  <1>5. /\ Files' = Files \ {<<s, d>>} /\ \A x \in Files' : x \in Files /\ file'[x] = file[x]
    BY <1>2 DEF Files
  <1>6. /\ i \in [Snaps -> Nat] /\ Files \subseteq Snaps \X Disks
        /\ phase \in [Snaps -> {"none", "creating", "failed", "recorded", "deleting", "deleted"}]
    BY DEF ExportInv, TypeOK, FunctionsOK
  <1>7. /\ i' \in [Snaps -> Nat] /\ i'[s] = i[s] + 1 /\ phase'[s] = "deleting"
        /\ \A t \in Snaps : t # s => i'[t] = i[t] /\ phase'[t] = phase[t]
        /\ phase' \in [Snaps -> {"none", "creating", "failed", "recorded", "deleting", "deleted"}]
    BY <1>2, <1>4, <1>6
  <1>8. TypeOK'
    <2>1. \A t \in Snaps : i'[t] \in 1 .. Len(list[t]) + 1 /\ created[t] < clock
      <3> TAKE t \in Snaps
      <3>1. i[t] \in 1 .. Len(list[t]) + 1 /\ created[t] < clock
        BY DEF ExportInv, TypeOK
      <3> QED  BY <1>2, <1>3, <1>7, <3>1
    <2>2. \A x \in Files' : x[2] \in Range(list[x[1]]) /\ file'[x] \in Mapping(x[2])
      BY <1>5 DEF ExportInv, TypeOK
    <2> QED  BY <1>2, <1>7, <2>1, <2>2 DEF ExportInv, TypeOK, Mapping
  <1>9. FunctionsOK'
    BY <1>2, <1>5, <1>6, <1>7 DEF ExportInv, FunctionsOK
  <1>10. ProgressInv'
    <2> SUFFICES ASSUME NEW t \in Snaps
                 PROVE  /\ phase'[t] \in {"none", "deleted"} => list[t] = << >> /\ i'[t] = 1
                        /\ phase'[t] = "recorded" => i'[t] = 1
                        /\ \A k \in DOMAIN list[t] :
                              /\ phase'[t] = "creating" /\ k < i'[t] => <<t, list[t][k]>> \in Files'
                              /\ phase'[t] = "recorded" => <<t, list[t][k]>> \in Files'
                              /\ phase'[t] = "deleting" /\ k < i'[t] => <<t, list[t][k]>> \notin Files'
      BY <1>2 DEF ProgressInv
    <2>1. CASE t # s
      <3>1. \A e : <<t, e>> \in Files' <=> <<t, e>> \in Files
        BY <1>5, <2>1
      <3> QED  BY <1>7, <2>1, <3>1 DEF ExportInv, ProgressInv
    <2>2. CASE t = s
      <3>1. ASSUME NEW k \in DOMAIN list[s], k < i[s] + 1
            PROVE  <<s, list[s][k]>> \notin Files'
        <4>1. CASE k = i[s]
          BY <1>1, <1>5, <4>1
        <4>2. CASE k < i[s]
          <5>1. phase[s] = "deleting"
            BY <1>2, <1>3, <4>2 DEF ExportInv, ProgressInv
          <5> QED  BY <1>5, <4>2, <5>1 DEF ExportInv, ProgressInv
        <4> QED  BY <1>3, <1>4, <3>1, <4>1, <4>2
      <3> QED  BY <1>7, <2>2, <3>1
    <2> QED  BY <2>1, <2>2
  <1>11. FileInv'
    <2>1. ASSUME NEW t \in Snaps, NEW e \in Disks, <<t, e>> \in Files'
          PROVE  /\ Read(file'[<<t, e>>]) = image[t][e]
                 /\ \A c \in chunks[t][e] : Places(file'[<<t, e>>], c)
      BY <1>5, <2>1 DEF ExportInv, FileInv
    <2>2. \A x : Read(file[x])' = Read(file'[x])
      BY <1>2 DEF Read
    <2> QED  BY <1>2, <2>1, <2>2 DEF FileInv, Places
  <1>12. BlankInv' /\ CoverInv' /\ CommonInv' /\ ShareInv'
    <2>1. BlankInv'
      <3> SUFFICES ASSUME NEW t \in Snaps, NEW e \in Disks, phase'[t] \in {"none", "creating"},
                          <<t, e>> \notin Files'
                   PROVE  chunks[t][e] = {}
        BY <1>2 DEF BlankInv
      <3>1. t # s
        BY <1>7
      <3> QED  BY <1>5, <1>7, <3>1 DEF ExportInv, BlankInv
    <2>2. CoverInv'
      <3> SUFFICES ASSUME NEW t \in Snaps, NEW k \in DOMAIN list[t], Measured(t, k)'
                   PROVE  CoversAll(t, list[t][k])
        BY <1>2 DEF CoverInv, CoversAll
      <3>1. Measured(t, k)
        BY <1>2, <1>7 DEF Measured
      <3> QED  BY <3>1 DEF ExportInv, CoverInv
    <2>3. CommonInv'
      BY <1>2 DEF ExportInv, CommonInv, Met, SameIn
    <2>4. ShareInv'
      BY <1>2, <1>5 DEF ExportInv, ShareInv, Met, SameIn, Places
    <2> QED  BY <2>1, <2>2, <2>3, <2>4
  <1>13. SeenInv'
    <2> SUFFICES ASSUME NEW x \in Snaps, NEW y \in Snaps, NEW e \in Disks, y \in seen[x][e]
                 PROVE  <<y, e>> \in Files' \/ phase'[y] \in {"failed", "deleting", "deleted"}
      BY <1>2 DEF SeenInv
    <2>1. CASE y = s
      BY <1>7, <2>1
    <2>2. CASE y # s
      BY <1>5, <1>7, <2>2 DEF ExportInv, SeenInv
    <2> QED  BY <2>1, <2>2
  <1> QED  BY <1>8, <1>9, <1>10, <1>11, <1>12, <1>13 DEF ExportInv

\* The clean-up of a create leaves no trace of the disk, and it was not recorded.
LEMMA RollbackInv ==
    ASSUME ExportInv, NEW s \in Snaps, Rollback(s)
    PROVE  ExportInv'
  <1>1. PICK d \in Disks : <<s, d>> \in Files /\ CleanUp(s, d)
    BY DEF Rollback
  <1>2. /\ file' = [x \in Files \ {<<s, d>>} |-> file[x]]
        /\ phase' = [phase EXCEPT ![s] = "failed"]
        /\ chunks' = [chunks EXCEPT ![s][d] = {}]
        /\ image' = [image EXCEPT ![s][d] = NoFile(d)] /\ seen' = [seen EXCEPT ![s][d] = {}]
        /\ UNCHANGED <<live, data, list, i, created, clock, log>>
    BY <1>1 DEF CleanUp, Remove
  <1>3. /\ phase \in [Snaps -> {"none", "creating", "failed", "recorded", "deleting", "deleted"}]
        /\ chunks \in [Snaps -> [Disks -> SUBSET Chunk]] /\ Files \subseteq Snaps \X Disks
        /\ image \in [Snaps -> [Disks -> Pictures]] /\ seen \in [Snaps -> [Disks -> SUBSET Snaps]]
        /\ phase[s] \in {"creating", "failed"}
    BY DEF ExportInv, TypeOK, FunctionsOK, Rollback
  <1>4. Files' = Files \ {<<s, d>>} /\ \A x \in Files' : x \in Files /\ file'[x] = file[x]
    BY <1>2 DEF Files
  <1>5. /\ phase' \in [Snaps -> {"none", "creating", "failed", "recorded", "deleting", "deleted"}]
        /\ phase'[s] = "failed" /\ \A t \in Snaps : t # s => phase'[t] = phase[t]
    BY <1>2, <1>3
  <1>6. NoFile(d) \in [Blocks(d) -> Nat] /\ NoFile(d) \in Pictures
    BY EmptyOK DEF Pictures
  <1>7. /\ chunks' \in [Snaps -> [Disks -> SUBSET Chunk]] /\ chunks'[s][d] = {}
        /\ \A t \in Snaps, e \in Disks : t # s \/ e # d => chunks'[t][e] = chunks[t][e]
    BY <1>2, <1>3, Update
  <1>8. /\ image' \in [Snaps -> [Disks -> Pictures]] /\ image'[s][d] = NoFile(d)
        /\ \A t \in Snaps, e \in Disks : t # s \/ e # d => image'[t][e] = image[t][e]
    BY <1>2, <1>3, <1>6, Update
  <1>9. /\ seen' \in [Snaps -> [Disks -> SUBSET Snaps]] /\ seen'[s][d] = {}
        /\ \A t \in Snaps, e \in Disks : t # s \/ e # d => seen'[t][e] = seen[t][e]
    BY <1>2, <1>3, Update
  <1>10. TypeOK'
    <2>1. \A x \in Files' : x[2] \in Range(list[x[1]]) /\ file'[x] \in Mapping(x[2])
      BY <1>4 DEF ExportInv, TypeOK
    <2>2. \A t \in Snaps, e \in Disks : \A c \in chunks'[t][e] :
              c \in Chunk /\ c.length > 0 /\ c.start + c.length - 1 \in Blocks(e)
      BY <1>7 DEF ExportInv, TypeOK
    <2> QED  BY <1>2, <1>5, <2>1, <2>2 DEF ExportInv, TypeOK, Mapping
  <1>11. FunctionsOK'
    <2>1. ASSUME NEW t \in Snaps, NEW e \in Disks PROVE image'[t][e] \in [Blocks(e) -> Nat]
      BY <1>6, <1>8 DEF ExportInv, FunctionsOK
    <2> QED  BY <1>2, <1>4, <1>7, <1>8, <1>9, <2>1 DEF ExportInv, FunctionsOK
  <1>12. ProgressInv'
    <2> SUFFICES ASSUME NEW t \in Snaps
                 PROVE  /\ phase'[t] \in {"none", "deleted"} => list[t] = << >> /\ i[t] = 1
                        /\ phase'[t] = "recorded" => i[t] = 1
                        /\ \A k \in DOMAIN list[t] :
                              /\ phase'[t] = "creating" /\ k < i[t] => <<t, list[t][k]>> \in Files'
                              /\ phase'[t] = "recorded" => <<t, list[t][k]>> \in Files'
                              /\ phase'[t] = "deleting" /\ k < i[t] => <<t, list[t][k]>> \notin Files'
      BY <1>2 DEF ProgressInv
    <2>1. CASE t = s
      BY <1>5, <2>1
    <2>2. CASE t # s
      <3>1. \A e : <<t, e>> \in Files' <=> <<t, e>> \in Files
        BY <1>4, <2>2
      <3> QED  BY <1>5, <2>2, <3>1 DEF ExportInv, ProgressInv
    <2> QED  BY <2>1, <2>2
  <1>13. FileInv'
    <2>1. ASSUME NEW t \in Snaps, NEW e \in Disks, <<t, e>> \in Files'
          PROVE  /\ Read(file'[<<t, e>>]) = image'[t][e]
                 /\ \A c \in chunks'[t][e] : Places(file'[<<t, e>>], c)
      <3>1. (t # s \/ e # d) /\ <<t, e>> \in Files /\ file'[<<t, e>>] = file[<<t, e>>]
        BY <1>4, <2>1
      <3>2. chunks'[t][e] = chunks[t][e] /\ image'[t][e] = image[t][e]
        BY <1>7, <1>8, <3>1
      <3>3. /\ Read(file[<<t, e>>]) = image[t][e]
            /\ \A c \in chunks[t][e] : Places(file[<<t, e>>], c)
        BY <3>1 DEF ExportInv, FileInv
      <3> QED  BY <3>1, <3>2, <3>3
    <2> SUFFICES ASSUME NEW t \in Snaps, NEW e \in Disks, <<t, e>> \in Files'
                 PROVE  /\ Read(file[<<t, e>>])' = image'[t][e]
                        /\ \A c \in chunks'[t][e] : Places(file[<<t, e>>], c)'
      BY DEF FileInv
    <2>2. Read(file[<<t, e>>])' = Read(file'[<<t, e>>])
      BY <1>2 DEF Read
    <2> QED  BY <2>1, <2>2 DEF Places
  <1>14. BlankInv' /\ CoverInv'
    <2>1. BlankInv'
      BY <1>4, <1>5, <1>7 DEF ExportInv, BlankInv
    <2>2. CoverInv'
      <3> SUFFICES ASSUME NEW t \in Snaps, NEW k \in DOMAIN list[t], Measured(t, k)'
                   PROVE  CoversAll(t, list[t][k])'
        BY <1>2 DEF CoverInv
      <3>1. t # s /\ Measured(t, k)
        BY <1>2, <1>5 DEF Measured
      <3>2. list[t][k] \in Disks
        BY ListOK DEF ExportInv, TypeOK
      <3>3. /\ chunks'[t][list[t][k]] = chunks[t][list[t][k]]
            /\ image'[t][list[t][k]] = image[t][list[t][k]]
        BY <1>7, <1>8, <3>1, <3>2
      <3>4. CoversAll(t, list[t][k])
        BY <3>1 DEF ExportInv, CoverInv
      <3> QED  BY <1>2, <3>3, <3>4 DEF CoversAll, Covered
    <2> QED  BY <2>1, <2>2
  <1>15. SeenInv'
    <2> SUFFICES ASSUME NEW x \in Snaps, NEW y \in Snaps, NEW e \in Disks, y \in seen'[x][e]
                 PROVE  <<y, e>> \in Files' \/ phase'[y] \in {"failed", "deleting", "deleted"}
      BY DEF SeenInv
    <2>1. y \in seen[x][e]
      BY <1>9
    <2>2. CASE y = s
      BY <1>5, <2>2
    <2>3. CASE y # s
      BY <1>4, <1>5, <2>1, <2>3 DEF ExportInv, SeenInv
    <2> QED  BY <2>2, <2>3
  <1>16. CommonInv'
    <2> SUFFICES ASSUME NEW x \in Snaps, NEW y \in Snaps, NEW e \in Disks, Met(x, y, e)',
                        NEW c \in chunks'[x][e] \cap chunks'[y][e]
                 PROVE  SameIn(x, y, e, c)'
      BY DEF CommonInv
    <2>1. (x # s \/ e # d) /\ (y # s \/ e # d)
      BY <1>7
    <2>2. chunks'[x][e] = chunks[x][e] /\ chunks'[y][e] = chunks[y][e] /\ Met(x, y, e)
      BY <1>7, <1>9, <2>1 DEF Met
    <2>3. image'[x][e] = image[x][e] /\ image'[y][e] = image[y][e]
      BY <1>8, <2>1
    <2>4. SameIn(x, y, e, c)
      BY <2>2 DEF ExportInv, CommonInv
    <2> QED  BY <2>3, <2>4 DEF SameIn
  <1>17. ShareInv'
    <2> SUFFICES ASSUME NEW x \in Snaps, NEW y \in Snaps, NEW e \in Disks, Met(x, y, e)',
                        <<x, e>> \in Files', NEW c \in chunks'[y][e], Places(file'[<<x, e>>], c)
                 PROVE  SameIn(x, y, e, c)'
      BY DEF ShareInv, Places
    <2>1. (x # s \/ e # d) /\ (y # s \/ e # d)
      BY <1>4, <1>7
    <2>2. chunks'[y][e] = chunks[y][e] /\ Met(x, y, e)
      BY <1>7, <1>9, <2>1 DEF Met
    <2>3. image'[x][e] = image[x][e] /\ image'[y][e] = image[y][e]
      BY <1>8, <2>1
    <2>4. <<x, e>> \in Files /\ Places(file[<<x, e>>], c)
      BY <1>4
    <2>5. SameIn(x, y, e, c)
      BY <2>2, <2>4 DEF ExportInv, ShareInv
    <2> QED  BY <2>3, <2>5 DEF SameIn
  <1> QED  BY <1>10, <1>11, <1>12, <1>13, <1>14, <1>15, <1>16, <1>17 DEF ExportInv

\* With the record goes the last that depends on the snapshot: it has no file.
LEMMA DeleteRecordInv ==
    ASSUME ExportInv, NEW s \in Snaps, DeleteRecord(s)
    PROVE  ExportInv'
  <1>1. /\ phase[s] \in {"recorded", "deleting"} /\ i[s] > Len(list[s])
        /\ phase' = [phase EXCEPT ![s] = "deleted"]
        /\ list' = [list EXCEPT ![s] = << >>] /\ i' = [i EXCEPT ![s] = 1]
        /\ chunks' = [chunks EXCEPT ![s] = [d \in Disks |-> {}]]
        /\ created' = [created EXCEPT ![s] = 0]
        /\ image' = [image EXCEPT ![s] = Images]
        /\ seen' = [seen EXCEPT ![s] = [d \in Disks |-> {}]]
        /\ UNCHANGED <<live, data, file, clock, log>> /\ Files' = Files
    BY DEF DeleteRecord, Forget, fs, Files
  <1>2. /\ list \in [Snaps -> DiskLists \cup {<< >>}] /\ i \in [Snaps -> Nat]
        /\ phase \in [Snaps -> {"none", "creating", "failed", "recorded", "deleting", "deleted"}]
        /\ created \in [Snaps -> Nat] /\ clock \in Nat
        /\ chunks \in [Snaps -> [Disks -> SUBSET Chunk]]
        /\ image \in [Snaps -> [Disks -> Pictures]] /\ seen \in [Snaps -> [Disks -> SUBSET Snaps]]
    BY DEF ExportInv, TypeOK, FunctionsOK
  <1>3. /\ \A t \in Snaps : t # s => /\ list'[t] = list[t] /\ i'[t] = i[t] /\ phase'[t] = phase[t]
                                     /\ created'[t] = created[t] /\ chunks'[t] = chunks[t]
                                     /\ image'[t] = image[t] /\ seen'[t] = seen[t]
        /\ list'[s] = << >> /\ i'[s] = 1 /\ phase'[s] = "deleted" /\ created'[s] = 0
        /\ image'[s] = Images /\ \A d \in Disks : chunks'[s][d] = {} /\ seen'[s][d] = {}
    BY <1>1, <1>2
  <1>4. /\ list' \in [Snaps -> DiskLists \cup {<< >>}] /\ i' \in [Snaps -> Nat]
        /\ phase' \in [Snaps -> {"none", "creating", "failed", "recorded", "deleting", "deleted"}]
        /\ created' \in [Snaps -> Nat]
        /\ chunks' \in [Snaps -> [Disks -> SUBSET Chunk]]
        /\ image' \in [Snaps -> [Disks -> Pictures]] /\ seen' \in [Snaps -> [Disks -> SUBSET Snaps]]
    BY <1>1, <1>2, EmptyOK
  <1>5. \A x \in Files : x[1] \in Snaps /\ x[2] \in Disks /\ x[1] # s
    <2> SUFFICES ASSUME NEW x \in Files PROVE x[1] \in Snaps /\ x[2] \in Disks /\ x[1] # s
      OBVIOUS
    <2>1. x = <<x[1], x[2]>> /\ x[1] \in Snaps /\ x[2] \in Disks /\ x[2] \in Range(list[x[1]])
      BY DEF ExportInv, TypeOK, FunctionsOK
    <2>2. ASSUME x[1] = s PROVE FALSE
      <3>1. PICK k \in DOMAIN list[s] : list[s][k] = x[2]
        BY <2>1, <2>2 DEF Range
      <3>2. Len(list[s]) \in Nat /\ DOMAIN list[s] = 1 .. Len(list[s]) /\ i[s] \in Nat
        BY <1>2, ListOK
      <3>3. k < i[s]
        BY <1>1, <3>1, <3>2
      <3>4. phase[s] = "deleting"
        BY <1>1, <3>2, <3>3 DEF ExportInv, ProgressInv
      <3>5. <<s, list[s][k]>> \notin Files
        BY <3>1, <3>3, <3>4 DEF ExportInv, ProgressInv
      <3> QED  BY <2>1, <2>2, <3>1, <3>5
    <2> QED  BY <2>1, <2>2
  <1>6. TypeOK'
    <2>1. \A t \in Snaps : i'[t] \in 1 .. Len(list'[t]) + 1 /\ created'[t] < clock
      <3> TAKE t \in Snaps
      <3>1. i[t] \in 1 .. Len(list[t]) + 1 /\ created[t] < clock
        BY DEF ExportInv, TypeOK
      <3>2. CASE t = s
        <4>1. Len(list'[s]) = 0 /\ 0 < clock
          BY <1>2, <1>3, <3>1, <3>2
        <4> QED  BY <1>3, <3>2, <4>1
      <3> QED  BY <1>3, <3>1, <3>2
    <2>2. \A x \in Files : x[2] \in Range(list'[x[1]]) /\ file[x] \in Mapping(x[2])
      BY <1>3, <1>5 DEF ExportInv, TypeOK
    <2>3. \A t \in Snaps, d \in Disks : \A c \in chunks'[t][d] :
              c \in Chunk /\ c.length > 0 /\ c.start + c.length - 1 \in Blocks(d)
      BY <1>3 DEF ExportInv, TypeOK
    <2> QED  BY <1>1, <1>4, <2>1, <2>2, <2>3 DEF ExportInv, TypeOK, Mapping
  <1>7. FunctionsOK'
    <2>1. ASSUME NEW t \in Snaps, NEW d \in Disks PROVE image'[t][d] \in [Blocks(d) -> Nat]
      <3>1. CASE t = s
        <4>1. image'[t][d] = NoFile(d)
          BY <1>3, <3>1, EmptyOK
        <4> QED  BY <4>1, EmptyOK
      <3>2. CASE t # s
        BY <1>3, <3>2 DEF ExportInv, FunctionsOK
      <3> QED  BY <3>1, <3>2
    <2> QED  BY <1>1, <1>4, <2>1 DEF ExportInv, FunctionsOK
  <1>8. ProgressInv'
    <2> SUFFICES ASSUME NEW t \in Snaps
                 PROVE  /\ phase'[t] \in {"none", "deleted"} => list'[t] = << >> /\ i'[t] = 1
                        /\ phase'[t] = "recorded" => i'[t] = 1
                        /\ \A k \in DOMAIN list'[t] :
                              /\ phase'[t] = "creating" /\ k < i'[t] => <<t, list'[t][k]>> \in Files
                              /\ phase'[t] = "recorded" => <<t, list'[t][k]>> \in Files
                              /\ phase'[t] = "deleting" /\ k < i'[t] => <<t, list'[t][k]>> \notin Files
      BY <1>1 DEF ProgressInv
    <2>1. CASE t # s
      BY <1>3, <2>1 DEF ExportInv, ProgressInv
    <2>2. CASE t = s
      BY <1>3, <2>2
    <2> QED  BY <2>1, <2>2
  <1>9. FileInv'
    <2>1. ASSUME NEW t \in Snaps, NEW e \in Disks, <<t, e>> \in Files
          PROVE  /\ Read(file[<<t, e>>]) = image'[t][e]
                 /\ \A c \in chunks'[t][e] : Places(file[<<t, e>>], c)
      <3>1. t # s
        BY <1>5, <2>1
      <3> QED  BY <1>3, <2>1, <3>1 DEF ExportInv, FileInv
    <2>2. \A x : Read(file[x])' = Read(file[x])
      BY <1>1 DEF Read
    <2> QED  BY <1>1, <2>1, <2>2 DEF FileInv, Places
  <1>10. BlankInv' /\ CoverInv'
    <2>1. BlankInv'
      BY <1>1, <1>3 DEF ExportInv, BlankInv
    <2>2. CoverInv'
      <3> SUFFICES ASSUME NEW t \in Snaps, NEW k, k \in DOMAIN list'[t], Measured(t, k)'
                   PROVE  CoversAll(t, list[t][k])'
        BY DEF CoverInv
      <3>1. t # s
        BY <1>3
      <3>2. list'[t] = list[t] /\ chunks'[t] = chunks[t] /\ image'[t] = image[t] /\ Measured(t, k)
        BY <1>3, <3>1 DEF Measured
      <3>3. CoversAll(t, list[t][k])
        BY <3>2 DEF ExportInv, CoverInv
      <3> QED  BY <3>2, <3>3 DEF CoversAll, Covered
    <2> QED  BY <2>1, <2>2
  <1>11. SeenInv'
    <2> SUFFICES ASSUME NEW x \in Snaps, NEW y \in Snaps, NEW e \in Disks, y \in seen'[x][e]
                 PROVE  <<y, e>> \in Files \/ phase'[y] \in {"failed", "deleting", "deleted"}
      BY <1>1 DEF SeenInv
    <2>1. y \in seen[x][e]
      BY <1>3
    <2>2. CASE y = s
      BY <1>3, <2>2
    <2>3. CASE y # s
      BY <1>3, <2>1, <2>3 DEF ExportInv, SeenInv
    <2> QED  BY <2>2, <2>3
  <1>12. CommonInv'
    <2> SUFFICES ASSUME NEW x \in Snaps, NEW y \in Snaps, NEW e \in Disks, Met(x, y, e)',
                        NEW c \in chunks'[x][e] \cap chunks'[y][e]
                 PROVE  SameIn(x, y, e, c)'
      BY DEF CommonInv
    <2>1. x # s /\ y # s
      BY <1>3
    <2>2. Met(x, y, e) /\ SameIn(x, y, e, c)
      BY <1>3, <2>1 DEF ExportInv, CommonInv, Met
    <2> QED  BY <1>3, <2>1, <2>2 DEF SameIn
  <1>13. ShareInv'
    <2> SUFFICES ASSUME NEW x \in Snaps, NEW y \in Snaps, NEW e \in Disks, Met(x, y, e)',
                        <<x, e>> \in Files, NEW c \in chunks'[y][e], Places(file[<<x, e>>], c)
                 PROVE  SameIn(x, y, e, c)'
      BY <1>1 DEF ShareInv, Places
    <2>1. x # s /\ y # s
      BY <1>3, <1>5
    <2>2. Met(x, y, e) /\ SameIn(x, y, e, c)
      BY <1>3, <2>1 DEF ExportInv, ShareInv, Met
    <2> QED  BY <1>3, <2>1, <2>2 DEF SameIn
  <1> QED
    BY <1>6, <1>7, <1>8, <1>9, <1>10, <1>11, <1>12, <1>13 DEF ExportInv

LEMMA ExportStep ==
    ExportInv /\ [Next]_vars => ExportInv'
  <1> SUFFICES ASSUME ExportInv, [Next]_vars PROVE ExportInv'
    OBVIOUS
  <1> Busy \subseteq Disks
    BY ExportAssumption
  <1>1. ASSUME NEW d \in Busy, NEW b \in Blocks(d), GuestWrite(d, b) PROVE ExportInv'
    BY <1>1, GuestWriteInv
  <1>2. ASSUME NEW d \in Busy, NEW b \in Blocks(d), GuestDiscard(d, b) PROVE ExportInv'
    BY <1>2, GuestDiscardInv
  <1>3. ASSUME NEW s \in Snaps, CreateSnapshot(s) PROVE ExportInv'
    BY <1>3, CreateSnapshotInv
  <1>4. ASSUME NEW s \in Snaps, SnapshotDisk(s) PROVE ExportInv'
    BY <1>4, SnapshotDiskInv
  <1>5. ASSUME NEW s \in Snaps, SaveRecord(s) PROVE ExportInv'
    BY <1>5, SaveRecordInv
  <1>6. ASSUME NEW s \in Snaps, RemoveFile(s) PROVE ExportInv'
    BY <1>6, RemoveFileInv
  <1>7. ASSUME NEW s \in Snaps, DeleteRecord(s) PROVE ExportInv'
    BY <1>7, DeleteRecordInv
  <1>9. ASSUME NEW s \in Snaps, Rollback(s) PROVE ExportInv'
    BY <1>9, RollbackInv
  <1>10. ASSUME NEW s \in Snaps, GetFileExtents(s) PROVE ExportInv'
    BY <1>10, GetFileExtentsInv
  <1>8. CASE UNCHANGED vars
    <2>1. /\ UNCHANGED <<live, data, file, phase, list, i, chunks, created, clock, log, image, prior, seen>>
          /\ Files' = Files
      BY <1>8 DEF vars, Files
    <2>2. TypeOK' /\ FunctionsOK'
      BY <2>1 DEF ExportInv, TypeOK, FunctionsOK, Mapping
    <2>3. FileInv'
      BY <2>1 DEF ExportInv, FileInv, Places, Read
    <2>4. ProgressInv' /\ BlankInv' /\ CoverInv' /\ SeenInv'
      BY <2>1 DEF ExportInv, ProgressInv, BlankInv, CoverInv, CoversAll, Measured, SeenInv
    <2>5. CommonInv' /\ ShareInv'
      BY <2>1 DEF ExportInv, CommonInv, ShareInv, Met, SameIn, Places
    <2> QED  BY <2>2, <2>3, <2>4, <2>5 DEF ExportInv
  <1> QED  BY <1>1, <1>2, <1>3, <1>4, <1>5, <1>6, <1>7, <1>8, <1>9, <1>10 DEF Next

-----------------------------------------------------------------------------
(***************************************************************************)
(* What follows.                                                           *)
(***************************************************************************)
\* Every reachable state satisfies the invariant.
THEOREM ExportInvariant ==
    Spec => []ExportInv
  <1>1. Init => ExportInv
    BY ExportInit
  <1>2. ExportInv /\ [Next]_vars => ExportInv'
    BY ExportStep
  <1> QED  BY <1>1, <1>2, PTL DEF Spec

\* Whatever the guest, the creates and the deletes do, every variable keeps its
\* type; a snapshot file belongs to a disk its snapshot lists.
THEOREM ExportTypes ==
    Spec => []TypeOK
  <1>1. ExportInv => TypeOK
    BY DEF ExportInv
  <1> QED  BY <1>1, ExportInvariant, PTL

\* A recorded snapshot has all its files (Disk.CreateSnapshot, the record is
\* written last) and each reads as the disk did when it was reflinked.
THEOREM SnapshotsKept ==
    Spec => []SnapshotKept
  <1>1. ASSUME ExportInv PROVE SnapshotKept
    <2> SUFFICES ASSUME NEW s \in Snaps, phase[s] = "recorded", NEW d \in Range(list[s])
                 PROVE  <<s, d>> \in Files /\ Read(file[<<s, d>>]) = image[s][d]
      BY DEF SnapshotKept
    <2>1. <<s, d>> \in Files
      BY <1>1 DEF ExportInv, ProgressInv, Range
    <2>2. d \in Disks
      BY <1>1, <2>1 DEF ExportInv, FunctionsOK
    <2> QED  BY <1>1, <2>1, <2>2 DEF ExportInv, FileInv
  <1> QED  BY <1>1, ExportInvariant, PTL

LEMMA RecordedCovered ==
    ASSUME ExportInv, NEW x \in Snaps, Recorded(x), NEW d \in Range(list[x])
    PROVE  d \in Disks /\ CoversAll(x, d)
  <1>1. PICK k \in DOMAIN list[x] : list[x][k] = d
    BY DEF Range
  <1>2. Measured(x, k)
    BY DEF Measured, Recorded
  <1>3. d \in Disks
    BY <1>1, ListOK DEF ExportInv, TypeOK
  <1> QED  BY <1>1, <1>2, <1>3 DEF ExportInv, CoverInv

\* The chunks that a snapshot serves without compareTo are all of its data, although
\* the guest may write between the reflink and the reading of the extents.
THEOREM FullExport ==
    Spec => []FullExportSound
  <1>1. ASSUME ExportInv PROVE FullExportSound
    <2> SUFFICES ASSUME NEW x \in Snaps, Recorded(x), NEW d \in Range(list[x])
                 PROVE  Downloaded(x, d, chunks[x][d], NoFile(d)) = image[x][d]
      BY DEF FullExportSound
    <2>1. d \in Disks /\ CoversAll(x, d)
      BY <1>1, RecordedCovered
    <2>2. image[x][d] \in [Blocks(d) -> Nat]
      BY <1>1, <2>1 DEF ExportInv, FunctionsOK
    <2>3. ASSUME NEW b \in Blocks(d), b \notin Covered(chunks[x][d])
          PROVE  image[x][d][b] = NoFile(d)[b]
      <3>1. b \in Nat
        BY <2>1, ExportAssumption DEF Blocks
      <3> QED  BY <2>1, <2>3, <3>1, EmptyOK DEF CoversAll
    <2> QED  BY <2>2, <2>3 DEF Downloaded
  <1> QED  BY <1>1, ExportInvariant, PTL

\* The chunks that compareTo leaves out (CompareChunks) are in the baseline, for
\* every baseline whose file was there when the snapshot's was made.
THEOREM IncrementalExports ==
    Spec => []IncrementalExportSound
  <1>1. ASSUME ExportInv PROVE IncrementalExportSound
    <2> SUFFICES ASSUME NEW x \in Snaps, NEW y \in Snaps, Recorded(x), Recorded(y),
                        NEW d \in Range(list[x]), Together(x, y, d)
                 PROVE  IncrementSound(x, y, d)
      BY DEF IncrementalExportSound
    <2> DEFINE Base == Baseline(y, d)
               Got  == Downloaded(x, d, DiffChunks(x, y, d), Base)
    <2>1. d \in Disks /\ CoversAll(x, d) /\ \A b \in Blocks(d) : b \in Nat
      BY <1>1, RecordedCovered, ExportAssumption DEF Blocks
    <2>2. \A b \in Blocks(d) : Got[b] = IF b \in Covered(DiffChunks(x, y, d)) THEN image[x][d][b] ELSE Base[b]
      BY DEF Downloaded
    <2>3. ASSUME NEW b \in Blocks(d)
          PROVE  image[x][d][b] = IF b \in Dropped(x, y, d) THEN Zero ELSE Got[b]
      <3>1. CASE b \notin Covered(chunks[x][d])
        <4>1. image[x][d][b] = Zero
          BY <2>1, <3>1 DEF CoversAll
        <4>2. b \notin Covered(DiffChunks(x, y, d))
          BY <3>1 DEF DiffChunks, CompareChunks, Covered
        <4>3. ASSUME b \notin Dropped(x, y, d) PROVE Base[b] = Zero
          <5>1. b \notin Covered(chunks[y][d])
            BY <3>1, <4>3 DEF Dropped
          <5>2. CASE d \in Range(list[y])
            <6>1. CoversAll(y, d)
              BY <1>1, <5>2, RecordedCovered
            <6> QED  BY <2>1, <5>1, <5>2, <6>1 DEF CoversAll, Baseline
          <5>3. CASE d \notin Range(list[y])
            BY <2>1, <5>3, EmptyOK DEF Baseline
          <5> QED  BY <5>2, <5>3
        <4> QED  BY <2>2, <4>1, <4>2, <4>3
      <3>2. CASE b \in Covered(chunks[x][d]) /\ b \in Covered(DiffChunks(x, y, d))
        BY <2>2, <3>2 DEF Dropped
      <3>3. CASE b \in Covered(chunks[x][d]) /\ b \notin Covered(DiffChunks(x, y, d))
        <4>1. PICK c \in chunks[x][d] : b \in c.start .. c.start + c.length - 1
          BY <3>3 DEF Covered
        <4>2. c \notin DiffChunks(x, y, d)
          BY <3>3, <4>1 DEF Covered
        <4>3. d \in Range(list[y]) /\ Met(x, y, d)
          BY <4>1, <4>2 DEF DiffChunks, Together, Met
        <4>4. PICK prev \in chunks[y][d] : /\ c.physical = prev.physical /\ c.start = prev.start
                                           /\ c.length = prev.length
          BY <4>1, <4>2, <4>3 DEF DiffChunks, CompareChunks
        <4>5. c = prev
          <5>1. c \in Chunk /\ prev \in Chunk
            BY <1>1, <2>1, <4>1, <4>4 DEF ExportInv, TypeOK
          <5> QED  BY <4>4, <5>1 DEF Chunk
        <4>6. SameIn(x, y, d, c)
          BY <1>1, <2>1, <4>1, <4>3, <4>4, <4>5 DEF ExportInv, CommonInv
        <4>7. image[x][d][b] = image[y][d][b]
          BY <4>1, <4>6 DEF SameIn
        <4> QED  BY <2>2, <3>3, <4>3, <4>7 DEF Dropped, Baseline
      <3> QED  BY <3>1, <3>2, <3>3
    <2> QED  BY <2>3 DEF IncrementSound
  <1> QED  BY <1>1, ExportInvariant, PTL
=============================================================================
