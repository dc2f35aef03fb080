SPECIFICATION DocSpec
CONSTANTS
    qa = qa
    qb = qb
    qab = qab
    a = a
    d1 = d1
    lazy = lazy
    Texts = {qa, qb, qab}
    Names = {a}
    Reads <- MCReads
    Schemas = {lazy}
    Lazy = {lazy}
    Docs = {d1}
    CellCacheMax = 2
    MaxStatements = 2
    MaxCells = 6
CONSTRAINT
    VersionBound
INVARIANTS
    DocTypeOK
    CellsOwnTheirSpan
    DocumentAgreesWithCells
PROPERTY
    EditKeepsUntouchedCells
