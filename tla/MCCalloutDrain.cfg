SPECIFICATION Spec
CONSTANTS
    a = a
    b = b
    t1 = t1
    t2 = t2
    m = m
    Null = Null
    Clock = Clock
    Timer <- OneTimer
    Client <- OneClient
    OldClient <- NoClient
    Lock <- OneLock
    c_lock <- LockOfAOnly
    WheelSize = 2
    TickMod = 8
    MaxTo = 2
    MaxSteps = 1
PROPERTIES
    DrainersWakeUp
CHECK_DEADLOCK FALSE
