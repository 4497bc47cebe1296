SPECIFICATION Spec
CONSTANTS
    Builds <- MCOnlyZynq
    Messages <- MCFires
    Foreign = {}
    ForeignWhole = {}
    NoEvent = NoEvent
    LtimEventId = 142
    LtimChannel = 3
    QueueCap = 2
    RingCap = 2
    MaxFrames = 2
\* The process exits.
CHECK_DEADLOCK FALSE
INVARIANT PulseMatches
