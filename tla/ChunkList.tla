------------------------------ MODULE ChunkList ------------------------------
(***************************************************************************)
(* The way of the extents of one snapshot file to a client, as loops over  *)
(* lists.  A create pages them out of the file system and stores them as   *)
(* the chunks of the disk (internal/fiemap.go, internal/util.go).  A later *)
(* get drops those that the baseline has as well (manager.compareChunks)   *)
(* and squashes the rest (internal.SquashChunks).  One step is one turn of *)
(* a loop.  The loops share nothing: nobody changes the mapping of a       *)
(* snapshot file, and a record is read whole.                              *)
(*                                                                         *)
(* Offsets and lengths are uint64 in the code; a file ends below 2^63, so  *)
(* their sums do not wrap and are plain integers here.                     *)
(***************************************************************************)
EXTENDS Integers, Sequences

CONSTANTS
    Mappings,   \* the extent lists a snapshot file may have
    Baselines,  \* the chunks the baseline may have of this disk; {} without compareTo
    Offsets,    \* offsets in the file
    FeCount     \* extents asked for at a time

Chunk  == [start : Nat, length : Nat \ {0}, physical : Nat]
End(c) == c.start + c.length

\* In the order of the file, and apart from each other.
Ordered(list) == \A j, k \in DOMAIN list : j < k => End(list[j]) <= list[k].start

ASSUME ListAssumption ==
    /\ \A l \in Mappings : l \in Seq(Chunk) /\ Ordered(l)
    /\ Offsets \subseteq Nat
    /\ FeCount \in Nat \ {0}

VARIABLES
    pc,        \* the loop that is running
    extents,   \* the mapping of the file
    ret,       \* walkFiemap: the extents fetched so far, and then the record
    prev,      \* compareChunks: the chunks of the baseline
    j,         \* compareChunks: the chunk it has come to
    chunks,    \* compareChunks: those it has found to be new
    i,         \* SquashChunks: the chunk it has come to
    tmp,       \* SquashChunks: tmpLogical, tmpLength and tmpPhysical
    squashed   \* SquashChunks: its result so far

vars == <<pc, extents, ret, prev, j, chunks, i, tmp, squashed>>

None == [start |-> 0, length |-> 1, physical |-> 0]   \* tmp before it is set

Init ==
    /\ pc = "walk" /\ extents \in Mappings /\ ret = << >>
    /\ prev \in Baselines /\ j = 1 /\ chunks = << >>
    /\ i = 1 /\ tmp = None /\ squashed = << >>

-----------------------------------------------------------------------------
(***************************************************************************)
(* FIEMAP, from an offset: the extents that end after it, up to FeCount.   *)
(***************************************************************************)
AtMost(m, n) == IF m <= n THEN m ELSE n

IsPage(page, last) ==
    \E n \in 0 .. Len(extents) :
        /\ \A k \in 1 .. n : End(extents[k]) <= last
        /\ \A k \in n + 1 .. Len(extents) : End(extents[k]) > last
        /\ page = SubSeq(extents, n + 1, AtMost(n + FeCount, Len(extents)))

Pages == {SubSeq(extents, m, n) : m \in 1 .. Len(extents) + 1, n \in 0 .. Len(extents)}

\* Fault: the next page is asked for from one past the end of the last extent.
FetchPage_OnePast ==
    /\ pc = "walk"
    /\ \E page \in Pages :
        /\ IsPage(page, IF ret = << >> THEN 0 ELSE End(ret[Len(ret)]) + 1)
        /\ IF page = << >> THEN pc' = "compare" /\ UNCHANGED ret
                           ELSE ret' = ret \o page /\ UNCHANGED pc
    /\ UNCHANGED <<extents, prev, j, chunks, i, tmp, squashed>>

\* Fault: the next page is asked for from the start of the last extent.
FetchPage_Again ==
    /\ pc = "walk"
    /\ \E page \in Pages :
        /\ IsPage(page, IF ret = << >> THEN 0 ELSE ret[Len(ret)].start)
        /\ IF page = << >> THEN pc' = "compare" /\ UNCHANGED ret
                           ELSE ret' = ret \o page /\ UNCHANGED pc
    /\ UNCHANGED <<extents, prev, j, chunks, i, tmp, squashed>>

FetchPage ==
    /\ pc = "walk"
    /\ \E page \in Pages :
        /\ IsPage(page, IF ret = << >> THEN 0 ELSE End(ret[Len(ret)]))
        /\ IF page = << >> THEN pc' = "compare" /\ UNCHANGED ret
                           ELSE ret' = ret \o page /\ UNCHANGED pc
    /\ UNCHANGED <<extents, prev, j, chunks, i, tmp, squashed>>

\* The ioctl fails: what was fetched is dropped and there will be no record.
FetchFails ==
    /\ pc = "walk"
    /\ pc' = "failed" /\ ret' = << >>
    /\ UNCHANGED <<extents, prev, j, chunks, i, tmp, squashed>>

\* Fault: the chunks that the baseline has are kept, the others dropped.
CompareChunk_Inverted ==
    /\ pc = "compare" /\ j <= Len(ret)
    /\ chunks' = IF ret[j] \in prev THEN Append(chunks, ret[j]) ELSE chunks
    /\ j' = j + 1
    /\ UNCHANGED <<pc, extents, ret, prev, i, tmp, squashed>>

\* Fault: the loop goes round without advancing when it finds the chunk.
CompareChunk_Stays ==
    /\ pc = "compare" /\ j <= Len(ret)
    /\ IF ret[j] \in prev THEN UNCHANGED <<chunks, j>>
                          ELSE chunks' = Append(chunks, ret[j]) /\ j' = j + 1
    /\ UNCHANGED <<pc, extents, ret, prev, i, tmp, squashed>>

CompareChunk ==
    /\ pc = "compare" /\ j <= Len(ret)
    /\ chunks' = IF ret[j] \in prev THEN chunks ELSE Append(chunks, ret[j])
    /\ j' = j + 1
    /\ UNCHANGED <<pc, extents, ret, prev, i, tmp, squashed>>

\* SquashChunks starts with the first chunk, if there is one.
SquashFirst ==
    /\ pc = "compare" /\ j > Len(ret)
    /\ IF chunks = << >> THEN pc' = "done" /\ UNCHANGED <<i, tmp>>
                         ELSE pc' = "squash" /\ i' = 2 /\ tmp' = chunks[1]
    /\ UNCHANGED <<extents, ret, prev, j, chunks, squashed>>

\* Fault: the end of tmp is computed with the length of the next chunk.
SquashNext_WrongLength ==
    /\ pc = "squash" /\ i <= Len(chunks)
    /\ IF tmp.start + chunks[i].length = chunks[i].start
       THEN tmp' = [tmp EXCEPT !.length = @ + chunks[i].length] /\ UNCHANGED squashed
       ELSE tmp' = chunks[i] /\ squashed' = Append(squashed, tmp)
    /\ i' = i + 1
    /\ UNCHANGED <<pc, extents, ret, prev, j, chunks>>

\* Fault: chunks are taken to be adjacent where they are adjacent on disk.
SquashNext_Physical ==
    /\ pc = "squash" /\ i <= Len(chunks)
    /\ IF tmp.physical + tmp.length = chunks[i].physical
       THEN tmp' = [tmp EXCEPT !.length = @ + chunks[i].length] /\ UNCHANGED squashed
       ELSE tmp' = chunks[i] /\ squashed' = Append(squashed, tmp)
    /\ i' = i + 1
    /\ UNCHANGED <<pc, extents, ret, prev, j, chunks>>

SquashNext ==
    /\ pc = "squash" /\ i <= Len(chunks)
    /\ IF End(tmp) = chunks[i].start
       THEN tmp' = [tmp EXCEPT !.length = @ + chunks[i].length] /\ UNCHANGED squashed
       ELSE tmp' = chunks[i] /\ squashed' = Append(squashed, tmp)
    /\ i' = i + 1
    /\ UNCHANGED <<pc, extents, ret, prev, j, chunks>>

SquashLast ==
    /\ pc = "squash" /\ i > Len(chunks)
    /\ squashed' = Append(squashed, tmp)
    /\ pc' = "done"
    /\ UNCHANGED <<extents, ret, prev, j, chunks, i, tmp>>

Next ==
    \/ FetchPage \/ FetchFails \/ CompareChunk
    \/ SquashFirst \/ SquashNext \/ SquashLast

Spec == Init /\ [][Next]_vars

\* The loops are sequential code: they run on until they end.
FairSpec == Spec /\ WF_vars(Next)

-----------------------------------------------------------------------------
(***************************************************************************)
(* Properties.                                                             *)
(***************************************************************************)
In(b, c)     == c.start <= b /\ b < End(c)
Has(list, b) == \E k \in DOMAIN list : In(b, list[k])

\* The offsets of the file in an extent that the baseline does not have.
Fresh(b, n) == \E k \in 1 .. n : extents[k] \notin prev /\ In(b, extents[k])

\* walkFiemap asks for the next page until one is empty: it returns every extent
\* of the file once, in order, however they fall on pages.
WalkComplete == pc \in {"compare", "squash", "done"} => ret = extents

\* What a client is told to download is what is in an extent that the baseline
\* does not have, no byte more and no byte less.
ServedExactly ==
    pc = "done" => \A b \in Offsets : Has(squashed, b) <=> Fresh(b, Len(extents))

\* Squashing leaves no two chunks that a client could read in one go
\* (README.md:240): each ends before the next begins.
NoneAdjacent ==
    pc = "done" => \A m, n \in DOMAIN squashed : m < n => End(squashed[m]) < squashed[n].start

\* Every turn of a loop brings its end nearer: in particular a page that is not
\* empty leaves fewer extents to fetch, and none is ever fetched twice, so that the
\* paging ends on every file.
LoopsLeft == [walk |-> 3, compare |-> 2, squash |-> 1, done |-> 0, failed |-> 0]
TurnsLeft == CASE pc = "walk"               -> Len(extents) - Len(ret)
               [] pc = "compare"            -> Len(ret) + 1 - j
               [] pc = "squash"             -> Len(chunks) + 1 - i
               [] pc \in {"done", "failed"} -> 0
Nearer ==
    \/ LoopsLeft[pc'] < LoopsLeft[pc]
    \/ pc' = pc /\ 0 <= TurnsLeft' /\ TurnsLeft' < TurnsLeft
LoopsComeToAnEnd == [][Nearer]_vars

\* Every loop ends.
Ends == <>(pc \in {"done", "failed"})

(***************************************************************************)
(* The inductive invariant.                                                *)
(***************************************************************************)
TypeOK ==
    /\ pc \in {"walk", "compare", "squash", "done", "failed"}
    /\ extents \in Seq(Chunk) /\ Ordered(extents) /\ ret \in Seq(Chunk)
    /\ j \in 1 .. Len(ret) + 1 /\ chunks \in Seq(Chunk)
    /\ i \in Nat /\ tmp \in Chunk /\ squashed \in Seq(Chunk)

\* The pages fetched so far are the first extents of the file.
WalkInv ==
    /\ Len(ret) <= Len(extents)
    /\ \A k \in DOMAIN ret : ret[k] = extents[k]
    /\ pc \in {"walk", "failed"} => j = 1 /\ chunks = << >>
    /\ pc \in {"compare", "squash", "done"} => ret = extents
    /\ pc \in {"squash", "done"} => j = Len(ret) + 1

\* The chunks kept so far are the new ones among the first j - 1.
CompareInv ==
    /\ Ordered(chunks)
    /\ \A b \in Offsets : Has(chunks, b) <=> Fresh(b, j - 1)
    /\ \A m \in DOMAIN chunks, k \in j .. Len(ret) : End(chunks[m]) <= ret[k].start

\* The chunks squashed so far, with tmp, are the first i - 1.
SquashInv ==
    /\ pc \in {"walk", "compare", "failed"} => squashed = << >>
    /\ pc = "squash" =>
         /\ i \in 2 .. Len(chunks) + 1
         /\ \A b \in Offsets : Has(squashed, b) \/ In(b, tmp)
                             <=> \E k \in 1 .. i - 1 : In(b, chunks[k])
         /\ \A k \in i .. Len(chunks) : End(tmp) <= chunks[k].start
         /\ \A m \in DOMAIN squashed : End(squashed[m]) < tmp.start
    /\ pc = "done" => \A b \in Offsets : Has(squashed, b) <=> Has(chunks, b)
    /\ \A m, n \in DOMAIN squashed : m < n => End(squashed[m]) < squashed[n].start

ListInv == TypeOK /\ WalkInv /\ CompareInv /\ SquashInv
=============================================================================
