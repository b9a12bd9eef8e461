\* Three handlers race on one snapshot; no call fails and nothing crashes.
SPECIFICATION FairSpec
CONSTANTS
    v1 = v1
    v2 = v2
    a = a
    b = b
    c = c
    d = d
    iso = iso
    p1 = p1
    p2 = p2
    Nil = Nil
    VMs = {v1, v2}
    Disks = {a, b, c, d, iso}
    Repos = {p1, p2}
    SnapIDs = {s1}
    Requests = {r1, r2, r3}
    Cloneable = {a, b, c, d}
    DiskLists <- MCDiskLists
    RepoOf <- MCRepoOf
    MaxFaults = 0
    MaxCrashes = 0
PROPERTIES
    Answered
    DeleteBegunEnds
