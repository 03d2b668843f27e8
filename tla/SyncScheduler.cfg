SPECIFICATION Spec
CONSTANTS
    None = None
    NumSymbols = 2
    Equity = {1}
    Companies <- Firms
    Turnover = {1}
    Sparse = {1}
    Queried = {1}
    Runners <- Slots
    Batch = 2
    Patience = 0
    Holidays = {2}
    Mondays = {3}
    WatchAfter = 1
    FrozenAfter = 2
    MaxDay = 3
    MaxFaults = 1
    AutoLogin = TRUE
    MaxSyncs = 1
    MaxManual = 1
INVARIANTS
    TypeOK
    OneDailyPoint
    MergeNeedsBlindRun
    SuccessIsStored
CHECK_DEADLOCK FALSE
