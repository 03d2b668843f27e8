SPECIFICATION FairSpec
CONSTANTS
    Jobs = {a}
    a = a
    None = None
    Invalid = Invalid
    Crons <- MCCrons
    CronFires <- MCCronFires
    Configs <- LiveConfigs
    MaxConcurrent = 1
    Watchdog = 2
    MaxTime = 4
    MaxEdits = 1
PROPERTIES
    ReloadApplied
    DueStarts
    OverdueEnds
