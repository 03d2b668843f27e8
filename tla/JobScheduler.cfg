SPECIFICATION Spec
CONSTANTS
    Jobs = {a, b}
    a = a
    b = b
    None = None
    Invalid = Invalid
    Crons <- MCCrons
    CronFires <- MCCronFires
    Configs <- SafetyConfigs
    MaxConcurrent = 1
    Watchdog = 2
    MaxTime = 4
    MaxEdits = 1
SYMMETRY Symmetry
INVARIANTS
    HandleBookkeeping
    NoDoubleFire
    TimeoutFlagFresh
    NoSkippedOccurrence
