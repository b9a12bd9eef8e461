\* A baseline that is still on record though its file has been deleted.
SPECIFICATION Spec
CONSTANTS
    a = a
    b = b
    Disks = {a}
    Size <- TwoBlocks
    Phys <- MCPhys
    Snaps = {s1, s2}
    DiskLists <- OneDisk
    Busy = {a}
    MaxWrites = 4
    Discards = FALSE
SYMMETRY Symmetry
INVARIANTS
    AnyBaselineSound
CHECK_DEADLOCK FALSE
