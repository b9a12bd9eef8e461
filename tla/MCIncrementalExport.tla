------------------------- MODULE MCIncrementalExport -------------------------
(* Instances of IncrementalExport for TLC. *)
EXTENDS IncrementalExport, TLC

CONSTANTS a, b

MCPhys    == 1 .. 4
ThreePhys == 1 .. 3

\* One disk of two blocks; two disks of one block; and one of each.
TwoBlocks == a :> 2
OneEach   == a :> 1 @@ b :> 1
TwoAndOne == a :> 2 @@ b :> 1

OneDisk  == {<<a>>}
\* A disk that was attached, or detached, between two snapshots.
TwoDisks == {<<a, b>>, <<a>>}

Symmetry == Permutations(Snaps)
=============================================================================
