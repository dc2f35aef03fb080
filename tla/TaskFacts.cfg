SPECIFICATION FactsSpec
CONSTANTS
    c1 = c1
    c2 = c2
    o1 = o1
    o2 = o2
    Contexts = {c1, c2}
    Outputs = {o1, o2}
    Faults <- AllFaults
SYMMETRY Interchangeable
INVARIANTS
    FactsTypeOK
    SuccessIsBacked
    IndexTellsTheOutcome
    DriftNeverReplaces
    BundleSurvivesCrashes
PROPERTY
    ImplementsPublishedFacts
