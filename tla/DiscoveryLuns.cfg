\* Nothing changes.
SPECIFICATION Spec
CONSTANTS
    v1 = v1
    v2 = v2
    v3 = v3
    r1 = r1
    r2 = r2
    boot = boot
    data = data
    lun = lun
    cut = cut
    iso = iso
    nfs = nfs
    lost = lost
    Nil = Nil
    VMs = {v1, v2, v3}
    Repos = {r1, r2}
    Names = {boot, data, lun, cut, iso, nfs, lost}
    Chars = {"/", "1", "2", "3", "v"}
    Mount <- MCMount
    Filesystem <- MCFilesystem
    ObjectType <- MCObjectType
    Config <- MCConfig
    Home <- MCHome
    MaxChanges = 0
INVARIANTS
    AllDisksSupported
