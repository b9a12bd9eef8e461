\* One client deletes the snapshot of a two-disk VM over and over; the process dies once.
SPECIFICATION FairSpec
CONSTANTS
    v1 = v1
    v2 = v2
    a = a
    b = b
    c = c
    d = d
    iso = iso
    p1 = p1
    p2 = p2
    Nil = Nil
    VMs = {v1}
    Disks = {a, b}
    Repos = {p1}
    SnapIDs = {s1}
    Requests = {r1}
    Cloneable = {a, b, c}
    DiskLists <- SmallDiskLists
    RepoOf <- SmallRepoOf
    MaxFaults = 0
    MaxCrashes = 1
PROPERTIES
    RetriedDeleteSucceeds
