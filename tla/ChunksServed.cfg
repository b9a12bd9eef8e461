\* Every mapping of a file of three blocks, against every baseline of it.
SPECIFICATION FairSpec
CONSTANTS
    Mappings <- MCMappings
    Baselines <- MCBaselines
    Offsets <- MCOffsets
    FeCount = 2
INVARIANTS
    ListInv
    WalkComplete
    ServedExactly
    NoneAdjacent
PROPERTIES
    LoopsComeToAnEnd
    Ends
CHECK_DEADLOCK FALSE
