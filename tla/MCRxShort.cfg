SPECIFICATION FairSpec
CONSTANTS
    Builds <- MCOnlyShm
    Messages <- MCLtim
    Foreign <- MCForeign
    ForeignWhole = {FALSE}
    NoEvent = NoEvent
    LtimEventId = 0
    LtimChannel = 0
    QueueCap = 2
    RingCap = 2
    MaxFrames = 2
\* The process exits.
CHECK_DEADLOCK FALSE
PROPERTY FramesServed
