SPECIFICATION ShutdownSpec
CONSTANTS
    t1 = t1
    d = d
    i1 = i1
    w = w
    s = s
    App = App
    Helper = Helper
    Nil = Nil
    Threads <- OneThread
    Instances <- TwoInstances
    Default = d
    Ifs <- TwoIfs
    Watched = w
    LockAttempts = 1
    MaxOps = 2
    RxDisabled = FALSE
INVARIANTS
    TypeOK
    StoppedMeansQuiet
    PromptStart
    ThreadsGoneBeforeFree
    NoAnswerMissing
    ReturnMeansDown
    ListsHoldLive
PROPERTIES
    UpReceives
    DownReturns
    
    
CHECK_DEADLOCK FALSE
