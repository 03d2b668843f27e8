SPECIFICATION FairSpec
CONSTANTS
    None = None
    Torn = Torn
    Callers = {}
    AutoLogin = TRUE
    AccessLife = 20
    StartExps = {20}
    RefreshLife = 3
    StopFloor = 0
    AccessRetry = 1
    AccessNapCap = 3
    RefreshNapCap = 2
    BackoffCap = 1
    MaxTime = 2
    MaxMints = 2
    MaxCli = 1
INVARIANT
    ExpiryTruthful
PROPERTY
    CheckpointAttempted
