SPECIFICATION ResolverSpec
CONSTANTS
    Tables = {g1, g2, g3}
    NParts = 2
    Retries = 1
INVARIANTS
    ResolverTypeOK
    ZeroMeansResolvedOnDisk
    StoppedRunCanResume
PROPERTIES
    ResolvedIsSettled
    RunsEnd
