SPECIFICATION FairSpec
CONSTANTS
    Builds <- MCAllSinks
    Messages <- MCMessages
    Foreign <- MCForeign
    ForeignWhole = {TRUE}
    NoEvent = NoEvent
    LtimEventId = 142
    LtimChannel = 5
    QueueCap = 2
    RingCap = 2
    MaxFrames = 3
\* The process exits.
CHECK_DEADLOCK FALSE
INVARIANTS TypeOK InOrder EventsAsSent OwedDelivered AtMostOneLeft PulseEnds
PROPERTIES ShutdownCompletes FramesServed
