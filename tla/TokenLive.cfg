SPECIFICATION FairSpec
CONSTANTS
    None = None
    Torn = Torn
    Callers = {}
    AutoLogin = TRUE
    AccessLife = 2
    StartExps = {0, 2}
    RefreshLife = 2
    StopFloor = 0
    AccessRetry = 1
    AccessNapCap = 1
    RefreshNapCap = 1
    BackoffCap = 1
    MaxTime = 1
    MaxMints = 3
    MaxCli = 0
PROPERTIES
    RecoveryEnds
    AccessRenewed
