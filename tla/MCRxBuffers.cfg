SPECIFICATION Spec
CONSTANTS
    k1 = k1
    k2 = k2
    k3 = k3
    b1 = b1
    b2 = b2
    b3 = b3
    f1 = f1
    f2 = f2
    Nil = Nil
    Ctx <- ThreeCtx
    Buf <- ThreeBuf
    Threads <- TwoThreads
    BatchSize = 2
    Burst = 2
    MaxMbufs = 2
INVARIANTS
    TypeOK
    NoUseAfterFree
    ContextsKept
    LostOnlyByRace
SYMMETRY Interchangeable
