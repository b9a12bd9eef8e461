\* The guest writes while its two disks are snapshotted one after the other.
SPECIFICATION Spec
CONSTANTS
    a = a
    b = b
    Disks = {a, b}
    Size <- OneEach
    Phys <- MCPhys
    Snaps = {s1, s2}
    DiskLists <- TwoDisks
    Busy = {a, b}
    MaxWrites = 3
    Discards = FALSE
SYMMETRY Symmetry
INVARIANTS
    PointInTime
CHECK_DEADLOCK FALSE
