\* One writer, which may fail once and die once, and one reader.
SPECIFICATION ReadSpec
CONSTANTS
    v1 = v1
    v2 = v2
    a = a
    b = b
    p1 = p1
    Nil = Nil
    VMs = {v1, v2}
    Disks = {a, b}
    Repos = {p1}
    SnapIDs = {s1, s2}
    Requests = {r1}
    Readers = {q1}
    Cloneable = {a, b}
    DiskLists <- MCDiskLists
    RepoOf <- MCRepoOf
    MaxFaults = 1
    MaxCrashes = 1
SYMMETRY ReadSymmetry
INVARIANTS
    ReadTypeOK
    NotDeletedIsWhole
    ReadFailsOnlyIfDeleted
PROPERTIES
    ImplementsCatalog
