SPECIFICATION Spec
CONSTANTS
    qa = qa
    qghost = qghost
    a = a
    A = A
    ghost = ghost
    d1 = d1
    d2 = d2
    catalog = catalog
    open = open
    Catalog = catalog
    OpenProvider = open
    Reads <- MCReads
    Fold <- MCFold
    Names = {a, A, ghost}
    Tables = {a, ghost}
    Declared = {a}
    Texts = {qa, qghost}
    Docs = {d1, d2}
    CellCacheMax = 2
    MaxStatements = 1
    MaxCells = 5
INVARIANTS
    ShownUnknownIsQueued
    InvalidationsAreFinds
