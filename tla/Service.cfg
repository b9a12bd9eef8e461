\* The service and a process started by hand.
SPECIFICATION Spec
CONSTANTS
    k1 = k1
    k2 = k2
    Procs = {sup, hand}
    Service = sup
    Secrets = {k1, k2}
    Managers = {m1, m2}
    ConfigFiles <- MCConfigFiles
    None = None
    Other = Other
    MaxEvents = 3
    Users = {u}
    MaxLogins = 2
    TTL = 1
    MaxTokens = 1
    MaxTime = 3
INVARIANTS
    TypeOK
    OwnerServes
    AccessIsRecent
PROPERTIES
    ServiceReturns
CHECK_DEADLOCK FALSE
