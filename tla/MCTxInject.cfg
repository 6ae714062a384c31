SPECIFICATION FairSpec
CONSTANTS
    a = a
    b = b
    m = m
    p1 = p1
    p2 = p2
    NoPd = NoPd
    Pd <- ThreePd
    MgmtPd <- Mgmt
    Producer <- TwoProducers
    QueueLen = 3
    MaxBurst = 2
    MaxBatch = 2
    MaxDrops = 1
    MaxCalls = 2
INVARIANTS
    TypeOK
    ArraysInBounds
    RefsOwnedOnce
    CountedOnce
    PromptWakeup
PROPERTIES
    RefinesFifo
    QueueDrains
    QuietStops
CHECK_DEADLOCK FALSE
