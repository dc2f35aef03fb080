SPECIFICATION CrawlSpec
CONSTANTS
    a = a
    b = b
    c = c
    Nodes = {a, b, c}
    Seeds = {a}
    Worlds <- FewWorlds
    BatchSize = 2
    Caps = {0, 2}
INVARIANTS
    CrawlTypeOK
    SuccessIsTraced
    BoundaryHolds
    ClosedUnlessGap
PROPERTIES
    SuccessNotAskedAgain
    CrawlEnds
