SPECIFICATION LiveSpec
CONSTANTS
    qa = qa
    qghost = qghost
    a = a
    A = A
    ghost = ghost
    d1 = d1
    d2 = d2
    catalog = catalog
    open = open
    Catalog = catalog
    OpenProvider = open
    Reads <- MCReads
    Fold <- MCFold
    Names = {a, A, ghost}
    Tables = {a, ghost}
    Declared = {a}
    Texts = {qa, qghost}
    Docs = {d1}
    CellCacheMax = 1
    MaxStatements = 2
    MaxCells = 5
PROPERTY
    DroppedMissesComeBack
