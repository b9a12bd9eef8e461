\* Two disks, the second attached or detached between two snapshots; three
\* writes or discards of the guest.
SPECIFICATION Spec
CONSTANTS
    a = a
    b = b
    Disks = {a, b}
    Size <- TwoAndOne
    Phys <- ThreePhys
    Snaps = {s1, s2}
    DiskLists <- TwoDisks
    Busy = {a, b}
    MaxWrites = 3
    Discards = TRUE
SYMMETRY Symmetry
INVARIANTS
    TypeOK
    SnapshotKept
    FullExportSound
    IncrementalExportSound
CHECK_DEADLOCK FALSE
