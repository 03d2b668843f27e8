SPECIFICATION Spec
CONSTANTS
    p1 = p1
    p2 = p2
    x = x
    Callers = {p1, p2}
    Txns = {x}
    Nobody = Nobody
    FirstDay = 3
    LastDay = 4
    MonthLen = 2
    FreshFloor = 1
    Chunk = 1
    MaxChanges = 1
    Spans <- MCSpans
SYMMETRY Symmetry
INVARIANTS
    TypeOK
    FetchesTheRest
    CoverageFetched
    OldFetchRight
CHECK_DEADLOCK FALSE
