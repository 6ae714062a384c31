SPECIFICATION Spec
CONSTANTS
    t1 = t1
    t2 = t2
    t3 = t3
    s1 = s1
    s2 = s2
    s3 = s3
    Null = Null
    Thread <- TwoThreads
    Allocator <- TwoThreads
    Sock <- TwoSocks
    MaxFd = 3
    Errno <- NoErrno
INVARIANTS
    DescriptorsNameTheirSockets
