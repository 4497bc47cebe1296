SPECIFICATION FairSpec
CONSTANTS
    e0 = e0
    e1 = e1
    e2 = e2
    eWidth = eWidth
    NoEvent = NoEvent
    None = None
    WidthEvent = eWidth
    Events <- MCEvents
    NTargets = 1
    TargetEvent <- MCOneTarget
    CtimCondBase = 3
    CtimActBase = 5
    ScanSize = 1
    MaxActs = 7
    MaxConds = 5
    OldConds <- MCOldConds
    OldActs <- MCOldActs
    OldSetting <- MCOldSetting
    CondSetting <- MCCondSetting
    Timely = FALSE
    Rejects = FALSE
    MaxKills = 1
\* The process exits.
CHECK_DEADLOCK FALSE
PROPERTY StartupEnds
