SPECIFICATION MergeSpec
CONSTANTS
    p = p
    q = q
    r = r
    sql1 = sql1
    sql2 = sql2
    Absent = Absent
    Torn = Torn
    Tasks = {t1, t2}
    Bundles = {p, q, r}
    SqlOf <- MCSqlOf
INVARIANTS
    MergeTypeOK
    BackedOrSaved
PROPERTIES
    NewRowsAreBacked
    OverlapIsRetained
