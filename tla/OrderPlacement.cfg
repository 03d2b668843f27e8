SPECIFICATION FairSpec
CONSTANTS
    c1 = c1
    c2 = c2
    k = k
    buy = buy
    Calls = {c1, c2}
    ModesOf <- TwoModes
    KeyOf <- SameKey
    ShapeOf <- SameShape
    Shapes = {buy}
    Profiles <- TwoProfiles
    MaxTries = 2
    DayTicks = 1
    MaxTime = 1
    MaxEvents = 1
    NoKey = NoKey
    Missing = Missing
    None = None
    Unknown = Unknown
INVARIANTS
    TypeOK
    PolicyHeld
    RetryReplayed
    CountsAllRecords
    RollbackReportTrue
PROPERTIES
    AtMostOneOrder
    CallsEnd
