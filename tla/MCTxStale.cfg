SPECIFICATION Spec
CONSTANTS
    c1 = c1
    c2 = c2
    noComp = noComp
    a1 = a1
    a2 = a2
    aNew = aNew
    noAct = noAct
    e1 = e1
    e2 = e2
    noEvent = noEvent
    s1 = s1
    s2 = s2
    NoEntry = NoEntry
    NoComp = noComp
    NoAct = noAct
    NoEvent = noEvent
    Comps <- MCComps
    Actions <- MCActions
    Mapped <- MCMapped
    Events <- MCEvents
    EventOf <- MCEventOf
    Slots <- MCSlots
    SlotsOf <- MCSlotsOf
    Verbose = TRUE
    RingSize = 8
    MaxCaps = 3
    Capsules <- CapsulesFew
    Garbage <- NoGarbage
\* The process exits and the firmware reaches its bound.
CHECK_DEADLOCK FALSE
INVARIANT FireAttribution
