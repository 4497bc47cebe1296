SPECIFICATION FairProcessSpec
CONSTANTS
    e0 = e0
    e1 = e1
    e2 = e2
    eWidth = eWidth
    NoEvent = NoEvent
    None = None
    WidthEvent = eWidth
    Events <- MCEvents
    NTargets = 2
    TargetEvent <- MCTargetEvent
    CtimCondBase = 3
    CtimActBase = 5
    ScanSize = 3
    MaxActs = 7
    MaxConds = 5
    OldConds <- MCOldConds
    OldActs <- MCOldActs
    OldSetting <- MCOldSetting
    CondSetting <- MCCondSetting
    Timely = TRUE
    Rejects = TRUE
    MaxKills = 0
    Launches <- MCLaunches
    MaxActIdx = 7
\* The process exits.
CHECK_DEADLOCK FALSE
INVARIANTS TypeOK ReplyMatches MapCorrect OthersUntouched CleanExit MetaCorrect
PROPERTY AutoShutdown
