SPECIFICATION Spec
CONSTANTS
    a = a
    b = b
    t1 = t1
    t2 = t2
    m = m
    Null = Null
    Clock = Clock
    Timer <- TwoTimers
    Client <- OneClient
    OldClient <- OneClient
    Lock <- OneLock
    c_lock <- LockOfA
    WheelSize = 2
    TickMod = 8
    MaxTo = 2
    MaxSteps = 1
INVARIANTS
    WheelHoldsPending
    CursorStaysOnBucket
    NoCalloutPassedOver
    RunsAreOwed
PROPERTIES
    ScheduledCalloutFires
CHECK_DEADLOCK FALSE
