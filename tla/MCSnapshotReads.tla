--------------------------- MODULE MCSnapshotReads ---------------------------
(* An instance of SnapshotReads for TLC. *)
EXTENDS SnapshotReads, TLC

CONSTANTS v1, v2, a, b, p1

MCDiskLists == v1 :> {<<a, b>>} @@ v2 :> {<<a>>}
MCRepoOf    == a :> p1 @@ b :> p1

ReadSymmetry == Permutations(SnapIDs)
=============================================================================
