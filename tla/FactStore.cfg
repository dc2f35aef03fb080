SPECIFICATION StoreSpec
CONSTANTS
    N = 3
    Extractions = {e1, e2}
    Faults = {"stage", "commit", "restore", "cleanup"}
INVARIANTS
    OneExtraction
    NothingLostToAKill
PROPERTY
    ImplementsAtomicFacts
