SPECIFICATION FairSpec
CONSTANTS
    p1 = p1
    p2 = p2
    p3 = p3
    e1 = e1
    e2 = e2
    e3 = e3
    h1 = h1
    h2 = h2
    h3 = h3
    Nil = Nil
    Event = Event
    Sleepers <- ThreeCallers
    Owner <- Owners
    Users <- Schedulers
    Entries <- ThreeEntries
    Handlers <- AllHandlers
    Chans <- AllChans
    Pri <- Priorities
    Removable <- None
PROPERTIES
    SwiRuns
CHECK_DEADLOCK FALSE
