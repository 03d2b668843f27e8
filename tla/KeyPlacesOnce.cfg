SPECIFICATION Spec
CONSTANTS
    c1 = c1
    c2 = c2
    k = k
    buy = buy
    Calls = {c1, c2}
    ModesOf <- TwoModes
    KeyOf <- SameKey
    ShapeOf <- SameShape
    Shapes = {buy}
    Profiles <- TwoProfiles
    MaxTries = 2
    DayTicks = 1
    MaxTime = 0
    MaxEvents = 0
    NoKey = NoKey
    Missing = Missing
    None = None
    Unknown = Unknown
INVARIANTS
    KeyPlacesOnce
