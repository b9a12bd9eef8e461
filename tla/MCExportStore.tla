---------------------------- MODULE MCExportStore ----------------------------
(* An instance of ExportStore for TLC. *)
EXTENDS ExportStore, TLC

CONSTANTS v1, a, b, p1

MCPhys      == 1 .. 2
MCSize      == a :> 1 @@ b :> 1
MCDiskLists == v1 :> {<<a, b>>}
MCRepoOf    == a :> p1 @@ b :> p1

\* The guest writes twice, or once and a call fails or the process dies, at any
\* moments.  The two blocks are interchangeable as long as no file is longer than
\* one block: the first write takes the first of them.
FewTroubles == faults + crashes <= 1 /\ Len(log) + faults + crashes <= 2
FirstFit    == Len(log) = 1 => live[a][0] = 1
Bounds      == FewTroubles /\ FirstFit

Symmetry == Permutations(SnapIDs) \cup Permutations(Requests)
=============================================================================
