--------------------------- MODULE ChunkListProofs ---------------------------
(***************************************************************************)
(* Proofs about ChunkList, for every mapping, baseline and page size.      *)
(* ListInv says of each loop how far it has come; it is inductive, and the *)
(* properties of the result are its last turn.                             *)
(***************************************************************************)
EXTENDS ChunkList, TLAPS

\* The loops start with nothing fetched, kept or squashed.
LEMMA ListInit == Init => ListInv
<1> SUFFICES ASSUME Init PROVE ListInv
    OBVIOUS
<1>1. TypeOK
    BY ListAssumption DEF Init, TypeOK, None, Chunk
<1>2. WalkInv
    BY <1>1 DEF Init, WalkInv, TypeOK
<1>3. CompareInv
    BY DEF Init, CompareInv, Ordered, Has, Fresh
<1>4. SquashInv
    BY DEF Init, SquashInv
<1> QED
    BY <1>1, <1>2, <1>3, <1>4 DEF ListInv

\* The bounds of the chunks of a list.
LEMMA ChunkBounds ==
    ASSUME NEW list \in Seq(Chunk)
    PROVE  /\ Len(list) \in Nat /\ DOMAIN list = 1 .. Len(list)
           /\ \A k \in 1 .. Len(list) :
                /\ list[k] \in Chunk /\ list[k].start \in Nat /\ End(list[k]) \in Nat
                /\ list[k].start < End(list[k])
<1>1. Len(list) \in Nat /\ DOMAIN list = 1 .. Len(list)
    OBVIOUS
<1>2. \A c \in Chunk : c.start \in Nat /\ End(c) \in Nat /\ c.start < End(c)
    BY DEF Chunk, End
<1>3. \A k \in 1 .. Len(list) : list[k] \in Chunk
    OBVIOUS
<1> QED
    BY <1>1, <1>2, <1>3

\* The page that FIEMAP returns is the one after the extents fetched so far.
LEMMA PageIsNext ==
    ASSUME TypeOK, WalkInv, NEW n \in 0 .. Len(extents), NEW last,
           last = IF ret = << >> THEN 0 ELSE End(ret[Len(ret)]),
           \A k \in 1 .. n : End(extents[k]) <= last,
           \A k \in n + 1 .. Len(extents) : End(extents[k]) > last
    PROVE  n = Len(ret)
<1>1. /\ Len(extents) \in Nat
      /\ \A k \in 1 .. Len(extents) :
           /\ extents[k].start \in Nat /\ End(extents[k]) \in Nat
           /\ extents[k].start < End(extents[k])
    BY ChunkBounds DEF TypeOK
<1>2. CASE ret = << >>
  <2>1. last = 0 /\ Len(ret) = 0
    BY <1>2
  <2>2. ~ (1 <= n)
    BY <1>1, <2>1
  <2> QED
    BY <1>1, <2>1, <2>2
<1>3. CASE ret # << >>
  <2> DEFINE m == Len(ret)
  <2>1. m \in 1 .. Len(extents)
    BY <1>3 DEF TypeOK, WalkInv
  <2>2. last = End(extents[m]) /\ last \in Nat
    BY <1>1, <1>3, <2>1 DEF TypeOK, WalkInv
  <2> HIDE DEF m
  <2>3. \A k \in 1 .. Len(extents) : k > m => End(extents[m]) <= extents[k].start
    BY <1>1, <2>1 DEF TypeOK, Ordered
  <2>4. n >= m
    <3> SUFFICES ASSUME m > n PROVE FALSE
        BY <1>1, <2>1
    <3>1. m \in n + 1 .. Len(extents)
        BY <1>1, <2>1
    <3> QED
        BY <2>2, <3>1
  <2>5. n <= m
    <3> SUFFICES ASSUME n > m PROVE FALSE
        BY <1>1, <2>1
    <3>1. n \in 1 .. Len(extents) /\ End(extents[n]) <= last
        BY <1>1, <2>1
    <3>2. last <= extents[n].start /\ extents[n].start < End(extents[n])
        BY <1>1, <2>2, <2>3, <3>1
    <3> QED
        BY <1>1, <2>2, <3>1, <3>2
  <2> QED
    BY <1>1, <2>1, <2>4, <2>5 DEF m
<1> QED
    BY <1>2, <1>3

\* Two sequences are equal when they have the same elements.
LEMMA SeqEqual ==
    ASSUME NEW S, NEW s \in Seq(S), NEW t \in Seq(S), Len(s) = Len(t),
           \A k \in 1 .. Len(s) : s[k] = t[k]
    PROVE  s = t
OBVIOUS

\* The elements of a concatenation.
LEMMA ConcatSeq ==
    ASSUME NEW S, NEW s \in Seq(S), NEW t \in Seq(S)
    PROVE  /\ s \o t \in Seq(S) /\ Len(s \o t) = Len(s) + Len(t)
           /\ \A k \in 1 .. Len(s) : (s \o t)[k] = s[k]
           /\ \A k \in Len(s) + 1 .. Len(s) + Len(t) : (s \o t)[k] = t[k - Len(s)]
OBVIOUS

LEMMA FetchPageInv == ListInv /\ FetchPage => ListInv'
<1> SUFFICES ASSUME ListInv, FetchPage PROVE ListInv'
    OBVIOUS
<1> USE ListAssumption DEF ListInv
<1>1. PICK page \in Pages :
        /\ IsPage(page, IF ret = << >> THEN 0 ELSE End(ret[Len(ret)]))
        /\ IF page = << >> THEN pc' = "compare" /\ UNCHANGED ret
                           ELSE ret' = ret \o page /\ UNCHANGED pc
    BY DEF FetchPage
<1>2. /\ pc = "walk"
      /\ UNCHANGED <<extents, prev, j, chunks, i, tmp, squashed>>
    BY DEF FetchPage
<1> DEFINE to == AtMost(Len(ret) + FeCount, Len(extents))
<1>3. page = SubSeq(extents, Len(ret) + 1, to)
    BY <1>1, PageIsNext DEF IsPage
<1>4. /\ Len(ret) \in Nat /\ Len(extents) \in Nat /\ Len(ret) <= Len(extents)
      /\ to \in Len(ret) .. Len(extents)
      /\ Len(ret) < Len(extents) => to > Len(ret)
    BY DEF TypeOK, WalkInv, AtMost
<1>5. /\ page \in Seq(Chunk) /\ Len(page) = to - Len(ret)
      /\ \A k \in 1 .. Len(page) : page[k] = extents[Len(ret) + k]
  <2>1. /\ extents \in Seq(Chunk) /\ Len(ret) + 1 \in 1 .. Len(extents) + 1
        /\ to \in 0 .. Len(extents) /\ Len(ret) + 1 <= to + 1
    BY <1>4 DEF TypeOK
  <2> HIDE DEF to
  <2> QED
    BY <1>3, <1>4, <2>1
<1>6. CASE page = << >>
  <2>1. pc' = "compare" /\ ret' = ret
    BY <1>1, <1>6
  <2>2. Len(ret) = Len(extents)
    BY <1>4, <1>5, <1>6
  <2>3. ret = extents
    <3>1. /\ ret \in Seq(Chunk) /\ extents \in Seq(Chunk)
          /\ \A k \in 1 .. Len(ret) : ret[k] = extents[k]
        BY DEF TypeOK, WalkInv
    <3> QED
        BY <2>2, <3>1, SeqEqual
  <2>4. TypeOK'
    BY <1>2, <2>1 DEF TypeOK
  <2>5. WalkInv'
    BY <1>2, <2>1, <2>3 DEF TypeOK, WalkInv
  <2>6. CompareInv'
    BY <1>2, <2>1 DEF CompareInv, Ordered, Has, Fresh
  <2>7. SquashInv'
    BY <1>2, <2>1 DEF SquashInv
  <2> QED
    BY <2>4, <2>5, <2>6, <2>7
<1>7. CASE page # << >>
  <2>1. pc' = "walk" /\ ret' = ret \o page
    BY <1>1, <1>2, <1>7
  <2>2. /\ ret' \in Seq(Chunk) /\ Len(ret') = to
        /\ \A k \in 1 .. to : ret'[k] = extents[k]
    <3>1. /\ ret' \in Seq(Chunk) /\ Len(ret') = Len(ret) + Len(page)
          /\ \A k \in 1 .. Len(ret) : ret'[k] = ret[k]
          /\ \A k \in Len(ret) + 1 .. Len(ret) + Len(page) : ret'[k] = page[k - Len(ret)]
        BY <1>5, <2>1, ConcatSeq DEF TypeOK
    <3>2. Len(ret') = to
        BY <1>4, <1>5, <3>1
    <3>3. \A k \in 1 .. Len(ret) : ret[k] = extents[k]
        BY DEF TypeOK, WalkInv
    <3> HIDE DEF to, ListInv
    <3>4. ASSUME NEW k \in 1 .. to PROVE ret'[k] = extents[k]
      <4>1. CASE k <= Len(ret)
        <5>1. k \in 1 .. Len(ret)
            BY <1>4, <4>1
        <5> QED
            BY <3>1, <3>3, <5>1
      <4>2. CASE k > Len(ret)
        <5>1. k - Len(ret) \in 1 .. Len(page) /\ Len(ret) + (k - Len(ret)) = k
            BY <1>4, <1>5, <4>2
        <5>2. k \in Len(ret) + 1 .. Len(ret) + Len(page)
            BY <1>4, <1>5, <4>2
        <5>3. page[k - Len(ret)] = extents[k]
            BY <1>5, <5>1
        <5> QED
            BY <3>1, <5>2, <5>3
      <4> QED
          BY <1>4, <4>1, <4>2
    <3> QED
        BY <3>1, <3>2, <3>4
  <2>3. j = 1 /\ chunks = << >>
    BY <1>2 DEF WalkInv
  <2>4. TypeOK'
    BY <1>2, <1>4, <2>1, <2>2, <2>3 DEF TypeOK
  <2>5. WalkInv'
    BY <1>2, <1>4, <2>1, <2>2, <2>3 DEF TypeOK, WalkInv
  <2>6. CompareInv'
    BY <1>2, <2>3 DEF CompareInv, Ordered, Has, Fresh
  <2>7. SquashInv'
    BY <1>2, <2>1 DEF SquashInv
  <2> QED
    BY <2>4, <2>5, <2>6, <2>7
<1> QED
    BY <1>6, <1>7

LEMMA FetchFailsInv == ListInv /\ FetchFails => ListInv'
<1> SUFFICES ASSUME ListInv, FetchFails PROVE ListInv'
    OBVIOUS
<1> USE DEF ListInv, FetchFails
<1>1. j = 1 /\ chunks = << >>
    BY DEF WalkInv
<1>2. TypeOK'
    BY <1>1 DEF TypeOK
<1>3. WalkInv'
    BY <1>1 DEF TypeOK, WalkInv
<1>4. CompareInv'
    BY <1>1 DEF CompareInv, Ordered, Has, Fresh
<1>5. SquashInv'
    BY DEF SquashInv
<1> QED
    BY <1>2, <1>3, <1>4, <1>5

\* The elements of a sequence with one more at its end.
LEMMA AppendSeq ==
    ASSUME NEW S, NEW s \in Seq(S), NEW x \in S
    PROVE  /\ Append(s, x) \in Seq(S) /\ DOMAIN Append(s, x) = 1 .. Len(s) + 1
           /\ Len(s) \in Nat /\ Append(s, x)[Len(s) + 1] = x
           /\ \A k \in 1 .. Len(s) : Append(s, x)[k] = s[k]
OBVIOUS

\* A chunk with another length.
LEMMA SetLength ==
    ASSUME NEW c \in Chunk, NEW n \in Nat \ {0}
    PROVE  /\ [c EXCEPT !.length = n] \in Chunk
           /\ [c EXCEPT !.length = n].start = c.start
           /\ [c EXCEPT !.length = n].length = n
BY DEF Chunk

\* Appending a chunk to a list adds its offsets.
LEMMA HasAppend ==
    ASSUME NEW list \in Seq(Chunk), NEW c \in Chunk, NEW b \in Offsets
    PROVE  Has(Append(list, c), b) <=> Has(list, b) \/ In(b, c)
<1> DEFINE more == Append(list, c)
<1>1. /\ Len(list) \in Nat /\ DOMAIN list = 1 .. Len(list)
      /\ DOMAIN more = 1 .. Len(list) + 1
      /\ more[Len(list) + 1] = c
      /\ \A k \in 1 .. Len(list) : more[k] = list[k]
    OBVIOUS
<1> HIDE DEF more
<1>2. Has(more, b) => Has(list, b) \/ In(b, c)
    BY <1>1 DEF Has
<1>3. Has(list, b) => Has(more, b)
    BY <1>1 DEF Has
<1>4. In(b, c) => Has(more, b)
    BY <1>1 DEF Has
<1> QED
    BY <1>2, <1>3, <1>4 DEF more

\* Appending a chunk that comes after all others keeps a list in order.
LEMMA OrderedAppend ==
    ASSUME NEW list \in Seq(Chunk), NEW c \in Chunk, Ordered(list),
           \A m \in DOMAIN list : End(list[m]) <= c.start
    PROVE  Ordered(Append(list, c))
<1> DEFINE more == Append(list, c)
<1>1. /\ Len(list) \in Nat /\ DOMAIN list = 1 .. Len(list)
      /\ DOMAIN more = 1 .. Len(list) + 1
      /\ more[Len(list) + 1] = c
      /\ \A k \in 1 .. Len(list) : more[k] = list[k]
    OBVIOUS
<1> HIDE DEF more
<1>2. Ordered(more)
    BY <1>1 DEF Ordered
<1> QED
    BY <1>2 DEF more

LEMMA CompareChunkInv == ListInv /\ CompareChunk => ListInv'
<1> SUFFICES ASSUME ListInv, CompareChunk PROVE ListInv'
    OBVIOUS
<1> USE ListAssumption DEF ListInv
<1>1. /\ pc = "compare" /\ ret = extents /\ j \in 1 .. Len(ret)
      /\ j' = j + 1 /\ UNCHANGED <<pc, extents, ret, prev, i, tmp, squashed>>
      /\ chunks' = IF ret[j] \in prev THEN chunks ELSE Append(chunks, ret[j])
    BY DEF CompareChunk, TypeOK, WalkInv
<1>2. ret[j] \in Chunk /\ chunks \in Seq(Chunk)
    BY <1>1 DEF TypeOK
<1>3. TypeOK'
    BY <1>1, <1>2 DEF TypeOK
<1>4. WalkInv'
    BY <1>1 DEF TypeOK, WalkInv
<1>5. \A b \in Offsets : Fresh(b, j) <=> Fresh(b, j - 1) \/ (ret[j] \notin prev /\ In(b, ret[j]))
    BY <1>1 DEF Fresh
<1>6. \A k \in j + 1 .. Len(ret) : End(ret[j]) <= ret[k].start
    BY <1>1 DEF TypeOK, Ordered
<1>7. CompareInv'
  <2>1. CASE ret[j] \in prev
    <3>1. chunks' = chunks
        BY <1>1, <2>1
    <3>2. \A b \in Offsets : Has(chunks, b)' <=> Fresh(b, j - 1)'
      <4>1. \A b \in Offsets : Fresh(b, j) <=> Fresh(b, j - 1)
        BY <1>5, <2>1
      <4> QED
        BY <1>1, <3>1, <4>1 DEF CompareInv, Has, Fresh
    <3> QED
        BY <1>1, <3>1, <3>2 DEF CompareInv, Ordered
  <2>2. CASE ret[j] \notin prev
    <3>1. chunks' = Append(chunks, ret[j])
        BY <1>1, <2>2
    <3>2. Ordered(chunks')
        BY <1>1, <1>2, <3>1, OrderedAppend DEF CompareInv
    <3>3. \A b \in Offsets : Has(chunks', b) <=> Fresh(b, j)
        BY <1>1, <1>2, <1>5, <2>2, <3>1, HasAppend DEF CompareInv
    <3>4. \A m \in DOMAIN chunks', k \in j + 1 .. Len(ret) : End(chunks'[m]) <= ret[k].start
        BY <1>1, <1>2, <1>6, <3>1 DEF CompareInv
    <3> QED
      <4>1. Ordered(chunks)'
        BY <3>2 DEF Ordered
      <4>2. \A b \in Offsets : Has(chunks, b)' <=> Fresh(b, j - 1)'
        <5>1. j' - 1 = j
            BY <1>1
        <5>2. \A b \in Offsets : Has(chunks, b)' <=> Has(chunks', b)
            BY DEF Has
        <5>3. \A b \in Offsets : Fresh(b, j - 1)' <=> Fresh(b, j)
            BY <1>1, <5>1 DEF Fresh
        <5> QED
            BY <3>3, <5>2, <5>3
      <4>3. (\A m \in DOMAIN chunks, k \in j .. Len(ret) : End(chunks[m]) <= ret[k].start)'
        BY <1>1, <3>4
      <4> QED
        BY <4>1, <4>2, <4>3 DEF CompareInv
  <2> QED
    BY <2>1, <2>2
<1>8. SquashInv'
    BY <1>1 DEF SquashInv
<1> QED
    BY <1>3, <1>4, <1>7, <1>8

LEMMA SquashFirstInv == ListInv /\ SquashFirst => ListInv'
<1> SUFFICES ASSUME ListInv, SquashFirst PROVE ListInv'
    OBVIOUS
<1> USE ListAssumption DEF ListInv
<1>1. /\ pc = "compare" /\ ret = extents /\ j = Len(ret) + 1 /\ squashed = << >>
      /\ UNCHANGED <<extents, ret, prev, j, chunks, squashed>>
      /\ IF chunks = << >> THEN pc' = "done" /\ UNCHANGED <<i, tmp>>
                           ELSE pc' = "squash" /\ i' = 2 /\ tmp' = chunks[1]
    BY DEF SquashFirst, TypeOK, WalkInv, SquashInv
<1>2. chunks \in Seq(Chunk) /\ Len(chunks) \in Nat /\ DOMAIN chunks = 1 .. Len(chunks)
    BY DEF TypeOK
<1>3. WalkInv'
    BY <1>1 DEF TypeOK, WalkInv
<1>4. CompareInv'
    BY <1>1 DEF CompareInv, Ordered, Has, Fresh
<1>5. CASE chunks = << >>
  <2>1. TypeOK'
    BY <1>1, <1>5 DEF TypeOK
  <2>2. SquashInv'
    BY <1>1, <1>5 DEF SquashInv, Has
  <2> QED
    BY <1>3, <1>4, <2>1, <2>2
<1>6. CASE chunks # << >>
  <2>1. /\ pc' = "squash" /\ i' = 2 /\ tmp' = chunks[1]
        /\ 1 \in 1 .. Len(chunks) /\ chunks[1] \in Chunk
    BY <1>1, <1>2, <1>6
  <2>2. TypeOK'
    BY <1>1, <2>1 DEF TypeOK
  <2>3. SquashInv'
    <3>1. i' \in 2 .. Len(chunks) + 1
        BY <1>2, <2>1
    <3>2. \A b \in Offsets : Has(squashed, b) \/ In(b, tmp')
                               <=> \E k \in 1 .. i' - 1 : In(b, chunks[k])
        BY <1>1, <2>1 DEF Has
    <3>3. \A k \in i' .. Len(chunks) : End(tmp') <= chunks[k].start
        BY <1>2, <2>1 DEF CompareInv, Ordered
    <3> QED
        BY <1>1, <2>1, <3>1, <3>2, <3>3 DEF SquashInv, Has, In
  <2> QED
    BY <1>3, <1>4, <2>2, <2>3
<1> QED
    BY <1>5, <1>6

\* What SquashNext and SquashLast find, in the words of the code they model.
LEMMA AtSquash ==
    ASSUME ListInv, pc = "squash"
    PROVE  /\ chunks \in Seq(Chunk) /\ squashed \in Seq(Chunk) /\ tmp \in Chunk
           /\ Len(chunks) \in Nat /\ Len(squashed) \in Nat /\ i \in 2 .. Len(chunks) + 1
           /\ DOMAIN chunks = 1 .. Len(chunks) /\ DOMAIN squashed = 1 .. Len(squashed)
           /\ tmp.start \in Nat /\ tmp.length \in Nat \ {0}
           /\ End(tmp) \in Nat /\ tmp.start < End(tmp)
           /\ \A m \in 1 .. Len(squashed) :
                /\ End(squashed[m]) \in Nat /\ squashed[m].start \in Nat
                /\ End(squashed[m]) < tmp.start
<1>1. /\ chunks \in Seq(Chunk) /\ squashed \in Seq(Chunk) /\ tmp \in Chunk
      /\ i \in 2 .. Len(chunks) + 1
      /\ \A m \in DOMAIN squashed : End(squashed[m]) < tmp.start
    BY DEF ListInv, TypeOK, SquashInv
<1>2. /\ tmp.start \in Nat /\ tmp.length \in Nat \ {0}
      /\ End(tmp) \in Nat /\ tmp.start < End(tmp)
    BY <1>1 DEF Chunk, End
<1> QED
    BY <1>1, <1>2, ChunkBounds

\* Appending tmp to what has been squashed keeps it apart and in order.
LEMMA AppendTmp ==
    ASSUME ListInv, pc = "squash"
    PROVE  \A m, n \in DOMAIN Append(squashed, tmp) :
             m < n => End(Append(squashed, tmp)[m]) < Append(squashed, tmp)[n].start
<1> DEFINE more == Append(squashed, tmp)
<1>1. /\ DOMAIN more = 1 .. Len(squashed) + 1 /\ Len(squashed) \in Nat
      /\ more[Len(squashed) + 1] = tmp
      /\ \A k \in 1 .. Len(squashed) : more[k] = squashed[k]
    BY AtSquash
<1> HIDE DEF more
<1>2. \A m, n \in 1 .. Len(squashed) : m < n => End(squashed[m]) < squashed[n].start
    BY AtSquash DEF ListInv, SquashInv
<1>3. ASSUME NEW m \in DOMAIN more, NEW n \in DOMAIN more, m < n
      PROVE  End(more[m]) < more[n].start
  <2>1. m \in 1 .. Len(squashed) /\ more[m] = squashed[m]
    BY <1>1, <1>3
  <2>2. CASE n = Len(squashed) + 1
    BY <1>1, <2>1, <2>2, AtSquash
  <2>3. CASE n \in 1 .. Len(squashed)
    BY <1>1, <1>2, <1>3, <2>1, <2>3
  <2> QED
    BY <1>1, <2>2, <2>3
<1> QED
    BY <1>3 DEF more

LEMMA SquashNextInv == ListInv /\ SquashNext => ListInv'
<1> SUFFICES ASSUME ListInv, SquashNext PROVE ListInv'
    OBVIOUS
<1> USE ListAssumption DEF ListInv
<1> DEFINE c == chunks[i]
<1>1. /\ pc = "squash" /\ i <= Len(chunks) /\ i' = i + 1
      /\ UNCHANGED <<pc, extents, ret, prev, j, chunks>>
      /\ IF End(tmp) = c.start
         THEN tmp' = [tmp EXCEPT !.length = @ + c.length] /\ UNCHANGED squashed
         ELSE tmp' = c /\ squashed' = Append(squashed, tmp)
    BY DEF SquashNext
<1>2. /\ i \in 2 .. Len(chunks) /\ c \in Chunk /\ End(tmp) <= c.start
      /\ c.start \in Nat /\ c.length \in Nat \ {0} /\ End(c) = c.start + c.length
  <2>1. i \in 2 .. Len(chunks)
    BY <1>1, AtSquash
  <2>2. c \in Chunk
    BY <1>1, <2>1, AtSquash
  <2>3. End(tmp) <= c.start
    BY <1>1, <2>1, AtSquash DEF SquashInv
  <2> HIDE DEF c
  <2> QED
    BY <2>1, <2>2, <2>3 DEF Chunk, End
<1>3. /\ \A b \in Offsets : Has(squashed, b) \/ In(b, tmp)
                              <=> \E k \in 1 .. i - 1 : In(b, chunks[k])
      /\ \A k \in i + 1 .. Len(chunks) : End(c) <= chunks[k].start
      /\ i' \in 2 .. Len(chunks) + 1
  <2>1. \A b \in Offsets : Has(squashed, b) \/ In(b, tmp)
                              <=> \E k \in 1 .. i - 1 : In(b, chunks[k])
    BY <1>1 DEF SquashInv
  <2>2. \A k \in i + 1 .. Len(chunks) : End(c) <= chunks[k].start
    <3>1. \A m, k \in 1 .. Len(chunks) : m < k => End(chunks[m]) <= chunks[k].start
        BY AtSquash DEF CompareInv, Ordered
    <3> QED
        BY <1>2, <3>1, AtSquash
  <2>3. i' \in 2 .. Len(chunks) + 1
    BY <1>1, <1>2, AtSquash
  <2> QED
    BY <2>1, <2>2, <2>3
<1>4. \A b \in Offsets : (\E k \in 1 .. i' - 1 : In(b, chunks[k]))
                           <=> (\E k \in 1 .. i - 1 : In(b, chunks[k])) \/ In(b, c)
  <2>1. 1 .. i' - 1 = (1 .. i - 1) \cup {i}
    BY <1>1, <1>2
  <2> QED
    BY <2>1
<1> HIDE DEF c
<1>5. WalkInv'
    BY <1>1 DEF WalkInv
<1>6. CompareInv'
    BY <1>1 DEF CompareInv, Ordered, Has, Fresh
<1>7. CASE End(tmp) = c.start
  <2>1. tmp' = [tmp EXCEPT !.length = @ + c.length] /\ squashed' = squashed
    BY <1>1, <1>7
  <2>2. /\ tmp' \in Chunk /\ tmp'.start = tmp.start
        /\ tmp'.length = tmp.length + c.length
    <3>1. tmp \in Chunk /\ tmp.length + c.length \in Nat \ {0}
        BY <1>1, <1>2, AtSquash
    <3>2. tmp' = [tmp EXCEPT !.length = tmp.length + c.length]
        BY <2>1
    <3> QED
        BY <3>1, <3>2, SetLength
  <2>3. End(tmp') = End(c)
    BY <1>1, <1>2, <1>7, <2>2, AtSquash DEF End
  <2>4. \A b \in Offsets : In(b, tmp') <=> In(b, tmp) \/ In(b, c)
    BY <1>1, <1>2, <1>7, <2>2, <2>3, AtSquash DEF In
  <2>5. TypeOK'
    BY <1>1, <1>2, <2>1, <2>2 DEF TypeOK
  <2>6. \A b \in Offsets : Has(squashed', b) \/ In(b, tmp')
                             <=> \E k \in 1 .. i' - 1 : In(b, chunks[k])
    BY <1>3, <1>4, <2>1, <2>4
  <2>7. SquashInv'
    <3>1. \A k \in i' .. Len(chunks) : End(tmp') <= chunks[k].start
        BY <1>1, <1>3, <2>3
    <3>2. \A m \in DOMAIN squashed' : End(squashed'[m]) < tmp'.start
        BY <1>1, <2>1, <2>2, AtSquash
    <3>3. \A m, n \in DOMAIN squashed' : m < n => End(squashed'[m]) < squashed'[n].start
        BY <2>1 DEF SquashInv
    <3> QED
        BY <1>1, <1>3, <2>6, <3>1, <3>2, <3>3 DEF SquashInv, Has, In
  <2> QED
    BY <1>5, <1>6, <2>5, <2>7
<1>8. CASE End(tmp) # c.start
  <2>1. tmp' = c /\ squashed' = Append(squashed, tmp)
    BY <1>1, <1>8
  <2>2. End(tmp) < c.start
    BY <1>1, <1>2, <1>8, AtSquash
  <2>3. TypeOK'
    <3>1. squashed' \in Seq(Chunk)
        BY <1>1, <2>1, AtSquash, AppendSeq
    <3> QED
        BY <1>1, <1>2, <2>1, <3>1 DEF TypeOK
  <2>4. \A b \in Offsets : Has(squashed', b) \/ In(b, tmp')
                             <=> \E k \in 1 .. i' - 1 : In(b, chunks[k])
    BY <1>1, <1>3, <1>4, <2>1, AtSquash, HasAppend
  <2>5. \A m \in DOMAIN squashed' : End(squashed'[m]) < tmp'.start
    <3>1. /\ DOMAIN squashed' = 1 .. Len(squashed) + 1 /\ Len(squashed) \in Nat
          /\ squashed'[Len(squashed) + 1] = tmp
          /\ \A m \in 1 .. Len(squashed) : squashed'[m] = squashed[m]
      <4>1. squashed \in Seq(Chunk) /\ tmp \in Chunk
        BY <1>1, AtSquash
      <4> QED
        BY <2>1, <4>1, AppendSeq
    <3>2. \A m \in 1 .. Len(squashed) : End(squashed[m]) < c.start
        BY <1>1, <1>2, <2>2, AtSquash
    <3> QED
        BY <2>1, <2>2, <3>1, <3>2
  <2>6. SquashInv'
    <3>1. \A k \in i' .. Len(chunks) : End(tmp') <= chunks[k].start
        BY <1>1, <1>3, <2>1
    <3>2. \A m, n \in DOMAIN squashed' : m < n => End(squashed'[m]) < squashed'[n].start
        BY <1>1, <2>1, AppendTmp
    <3> QED
        BY <1>1, <1>3, <2>4, <2>5, <3>1, <3>2 DEF SquashInv, Has, In
  <2> QED
    BY <1>5, <1>6, <2>3, <2>6
<1> QED
    BY <1>7, <1>8

LEMMA SquashLastInv == ListInv /\ SquashLast => ListInv'
<1> SUFFICES ASSUME ListInv, SquashLast PROVE ListInv'
    OBVIOUS
<1> USE ListAssumption DEF ListInv
<1>1. /\ pc = "squash" /\ i > Len(chunks) /\ pc' = "done" /\ squashed' = Append(squashed, tmp)
      /\ UNCHANGED <<extents, ret, prev, j, chunks, i, tmp>>
    BY DEF SquashLast
<1>2. i - 1 = Len(chunks)
    BY <1>1, AtSquash
<1>3. TypeOK'
    BY <1>1, AtSquash DEF TypeOK
<1>4. WalkInv'
    BY <1>1 DEF WalkInv
<1>5. CompareInv'
    BY <1>1 DEF CompareInv, Ordered, Has, Fresh
<1>6. \A b \in Offsets : Has(squashed', b) <=> Has(chunks, b)
  <2>1. \A b \in Offsets : Has(squashed', b) <=> Has(squashed, b) \/ In(b, tmp)
    BY <1>1, AtSquash, HasAppend
  <2>2. \A b \in Offsets : Has(squashed, b) \/ In(b, tmp)
                             <=> \E k \in 1 .. Len(chunks) : In(b, chunks[k])
    BY <1>1, <1>2 DEF SquashInv
  <2> QED
    BY <1>1, <2>1, <2>2, AtSquash DEF Has
<1>7. SquashInv'
  <2>1. \A m, n \in DOMAIN squashed' : m < n => End(squashed'[m]) < squashed'[n].start
    BY <1>1, AppendTmp
  <2> QED
    BY <1>1, <1>6, <2>1 DEF SquashInv, Has
<1> QED
    BY <1>3, <1>4, <1>5, <1>7

LEMMA ListNext == ListInv /\ [Next]_vars => ListInv'
<1> SUFFICES ASSUME ListInv, [Next]_vars PROVE ListInv'
    OBVIOUS
<1>1. CASE UNCHANGED vars
    BY <1>1 DEF vars, ListInv, TypeOK, WalkInv, CompareInv, SquashInv, Ordered, Has, Fresh
<1> QED
    BY <1>1, FetchPageInv, FetchFailsInv, CompareChunkInv, SquashFirstInv, SquashNextInv,
       SquashLastInv DEF Next

-----------------------------------------------------------------------------
\* How far each loop has come: the inductive invariant.
THEOREM ListInvariant == Spec => []ListInv
BY ListInit, ListNext, PTL DEF Spec

\* walkFiemap returns every extent of the file, once and in order, for every
\* mapping and every page size.
THEOREM WalkIsComplete == Spec => []WalkComplete
<1>1. ListInv => WalkComplete
    BY DEF ListInv, WalkInv, WalkComplete
<1> QED
    BY <1>1, ListInvariant, PTL

\* What a client is told to download is exactly what is in the extents that the
\* baseline does not have, for every baseline.
THEOREM ServesExactly == Spec => []ServedExactly
<1>1. ListInv => ServedExactly
  <2> SUFFICES ASSUME ListInv, pc = "done", NEW b \in Offsets
               PROVE  Has(squashed, b) <=> Fresh(b, Len(extents))
    BY DEF ServedExactly
  <2>1. j - 1 = Len(extents)
    BY DEF ListInv, TypeOK, WalkInv
  <2>2. Has(squashed, b) <=> Has(chunks, b)
    BY DEF ListInv, SquashInv
  <2>3. Has(chunks, b) <=> Fresh(b, j - 1)
    BY DEF ListInv, CompareInv
  <2> QED
    BY <2>1, <2>2, <2>3
<1> QED
    BY <1>1, ListInvariant, PTL

\* No two of the chunks served could have been squashed into one.
THEOREM SquashesAll == Spec => []NoneAdjacent
<1>1. ListInv => NoneAdjacent
    BY DEF ListInv, SquashInv, NoneAdjacent
<1> QED
    BY <1>1, ListInvariant, PTL

-----------------------------------------------------------------------------
\* A page that is not empty has extents of the file, and the file has no more
\* extents than have been fetched and are still to come.
LEMMA FetchPageNearer ==
    ASSUME ListInv, FetchPage
    PROVE  Nearer
  <1>1. ListInv'
    BY FetchPageInv
  <1>2. extents \in Seq(Chunk) /\ ret \in Seq(Chunk) /\ ret' \in Seq(Chunk)
        /\ extents' = extents /\ pc = "walk"
    BY <1>1 DEF ListInv, TypeOK, FetchPage
  <1>3. CASE pc' = "compare"
    BY <1>2, <1>3 DEF Nearer, LoopsLeft
  <1>4. CASE pc' = pc
    <2>1. PICK page \in Pages : page # << >> /\ ret' = ret \o page
      BY <1>2, <1>4 DEF FetchPage
    <2>2. page \in Seq(Chunk)
      <3>1. PICK m \in 1 .. Len(extents) + 1, n \in 0 .. Len(extents) : page = SubSeq(extents, m, n)
        BY DEF Pages
      <3>2. \A k \in m .. n : extents[k] \in Chunk
        BY <1>2
      <3> QED  BY <1>2, <3>1, <3>2
    <2>3. Len(ret') = Len(ret) + Len(page) /\ Len(page) \in Nat \ {0}
      BY <1>2, <2>1, <2>2, ConcatSeq
    <2>4. Len(ret') <= Len(extents) /\ Len(ret) \in Nat /\ Len(extents) \in Nat
      BY <1>1, <1>2 DEF ListInv, WalkInv
    <2>5. TurnsLeft = Len(extents) - Len(ret) /\ TurnsLeft' = Len(extents) - Len(ret')
      BY <1>2, <1>4 DEF TurnsLeft
    <2> QED  BY <1>4, <2>3, <2>4, <2>5 DEF Nearer
  <1> QED  BY <1>2, <1>3, <1>4 DEF FetchPage

LEMMA NearerStep ==
    ASSUME ListInv, Next
    PROVE  Nearer
  <1>1. ListInv'
    BY ListNext
  <1>2. /\ ret \in Seq(Chunk) /\ chunks \in Seq(Chunk) /\ i \in Nat
        /\ j \in 1 .. Len(ret) + 1 /\ Len(ret) \in Nat /\ Len(chunks) \in Nat
    BY DEF ListInv, TypeOK
  <1>3. CASE FetchFails
    BY <1>3 DEF FetchFails, Nearer, LoopsLeft
  <1>4. CASE CompareChunk
    <2>1. pc = "compare" /\ pc' = pc /\ j <= Len(ret) /\ ret' = ret /\ j' = j + 1
      BY <1>4 DEF CompareChunk
    <2>2. TurnsLeft = Len(ret) + 1 - j /\ TurnsLeft' = Len(ret) + 1 - j'
      BY <2>1 DEF TurnsLeft
    <2> QED  BY <1>2, <2>1, <2>2 DEF Nearer
  <1>5. CASE SquashFirst
    BY <1>5 DEF SquashFirst, Nearer, LoopsLeft
  <1>6. CASE SquashNext
    <2>1. pc = "squash" /\ pc' = pc /\ i <= Len(chunks) /\ chunks' = chunks /\ i' = i + 1
      BY <1>6 DEF SquashNext
    <2>2. TurnsLeft = Len(chunks) + 1 - i /\ TurnsLeft' = Len(chunks) + 1 - i'
      BY <2>1 DEF TurnsLeft
    <2> QED  BY <1>2, <2>1, <2>2 DEF Nearer
  <1>7. CASE SquashLast
    BY <1>7 DEF SquashLast, Nearer, LoopsLeft
  <1> QED  BY <1>3, <1>4, <1>5, <1>6, <1>7, FetchPageNearer DEF Next

\* Every turn of a loop brings its end nearer, for every mapping, page size and
\* baseline: the paging, comparing and squashing loops all end.
THEOREM LoopsEnd == Spec => LoopsComeToAnEnd
  <1>1. ListInv /\ [Next]_vars => [Nearer]_vars
    BY NearerStep
  <1> QED  BY <1>1, ListInvariant, PTL DEF Spec, LoopsComeToAnEnd
=============================================================================
