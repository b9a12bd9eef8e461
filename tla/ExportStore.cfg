\* A VM with two disks, two snapshots and two requests of any kind.  The guest
\* writes to the first disk, twice, or once when a call fails or the process dies.
SPECIFICATION StoreSpec
CONSTANTS
    v1 = v1
    a = a
    b = b
    p1 = p1
    Nil = Nil
    VMs = {v1}
    Disks = {a, b}
    Repos = {p1}
    SnapIDs = {s1, s2}
    Requests = {r1, r2}
    Cloneable = {a, b}
    DiskLists <- MCDiskLists
    RepoOf <- MCRepoOf
    MaxFaults = 1
    MaxCrashes = 1
    Size <- MCSize
    Phys <- MCPhys
    Busy = {a}
    MaxWrites = 2
    Discards = FALSE
SYMMETRY Symmetry
CONSTRAINT Bounds
INVARIANTS
    ServedSound
PROPERTIES
    ImplementsExport
CHECK_DEADLOCK FALSE
