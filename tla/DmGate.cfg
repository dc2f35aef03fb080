SPECIFICATION GateSpec
CONSTANTS
    N = 3
    Kinds <- EveryKind
    SeedSets <- OneOrTwo
INVARIANTS
    RangeIsGated
    ScopeAgreesWithRange
    OwnEdgesOnly
CHECK_DEADLOCK FALSE
