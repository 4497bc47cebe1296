SPECIFICATION SidecarSpec
CONSTANTS
    c1 = c1
    noComp = noComp
    a1 = a1
    a2 = a2
    aNew = aNew
    noAct = noAct
    e1 = e1
    e2 = e2
    noEvent = noEvent
    s1 = s1
    NoEntry = NoEntry
    NoComp = noComp
    NoAct = noAct
    NoEvent = noEvent
    Comps <- MCComps
    Actions <- MCActions
    Mapped <- MCMapped
    Events <- MCEvents
    EventOf <- MCEventOf
    Slots <- MCSlots
    SlotsOf <- MCSlotsOf
    Verbose = TRUE
    Capsules <- MCCapsules
    MaxCaps = 3
    MaxEvents = 3
    MaxRestarts = 1
INVARIANTS TypeOK AnnouncedOrNewer 
PROPERTIES HandedOn TornOnlyInPush ShownInOrder
