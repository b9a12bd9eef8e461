\* Two handlers, two snapshots, four disks in two repositories, two failing
\* calls and one death of the process, anywhere.
SPECIFICATION Spec
CONSTANTS
    v1 = v1
    v2 = v2
    a = a
    b = b
    c = c
    d = d
    iso = iso
    p1 = p1
    p2 = p2
    Nil = Nil
    VMs = {v1, v2}
    Disks = {a, b, c, d, iso}
    Repos = {p1, p2}
    SnapIDs = {s1, s2}
    Requests = {r1, r2}
    Cloneable = {a, b, c, d}
    DiskLists <- MCDiskLists
    RepoOf <- MCRepoOf
    MaxFaults = 2
    MaxCrashes = 1
SYMMETRY Symmetry
INVARIANTS
    TypeOK
    StoreInv
    RemoveAllOnlyEmpty
    DeletedLeavesNothing
    AckedDeleteIsDone
    NoOrphanFile
    NoOrphanDir
    AllOrNothing
PROPERTIES
    RecordBornComplete
    CallsComeToAnEnd
