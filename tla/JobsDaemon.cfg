SPECIFICATION FairSpec
CONSTANTS
    Jobs = {a}
    a = a
    on = on
    off = off
    Versions = {on, off}
    Enabled = {on}
    Bad = Bad
    None = None
    State = State
    MaxStarts = 2
    MaxEdits = 1
INVARIANTS
    TypeOK
    NoPhantomRunning
    JoinedStopClean
    HistorySurvives
PROPERTIES
    LastGoodKept
    ManualRunsRecorded
CHECK_DEADLOCK FALSE
