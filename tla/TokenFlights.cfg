SPECIFICATION Spec
CONSTANTS
    None = None
    Torn = Torn
    c1 = c1
    Callers = {c1}
    AutoLogin = FALSE
    AccessLife = 2
    StartExps = {0, 2}
    RefreshLife = 8
    StopFloor = 2
    AccessRetry = 1
    AccessNapCap = 1
    RefreshNapCap = 2
    BackoffCap = 1
    MaxTime = 2
    MaxMints = 1
    MaxCli = 0
INVARIANTS
    SingleFlight
    ForcedNotOlder
