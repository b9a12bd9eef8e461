--------------------------- MODULE MCSnapshotStore ---------------------------
(* Instances of SnapshotStore for TLC. *)
EXTENDS SnapshotStore, TLC

CONSTANTS v1, v2, a, b, c, d, iso, p1, p2

\* v1 has two disks in one repository and one in another.  v2 once had a disk
\* listed twice, and once a cdrom image, which cannot be cloned.
MCDiskLists == v1 :> {<<a, b, c>>} @@ v2 :> {<<d, d>>, <<iso>>}
MCRepoOf    == a :> p1 @@ b :> p1 @@ c :> p2 @@ d :> p2 @@ iso :> p2

\* One VM whose two disks share a repository.
SmallDiskLists == v1 :> {<<a, b>>}
SmallRepoOf    == a :> p1 @@ b :> p1

Symmetry == Permutations(SnapIDs) \cup Permutations(Requests)
=============================================================================
