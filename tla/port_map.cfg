CONSTANTS
    t1 = t1
    t2 = t2
    u1 = u1
    Inodes = {t1, t2, u1}
    SockOf <- MCSockOf
    MaxPid = 2
    Ports = {0, 1, 2}
    NoPid = NoPid
    Nil = Nil
SPECIFICATION FairSpec
INVARIANTS
    TypeOK
    BootComplete
    ScanComplete
PROPERTIES
    
    QuestionAnswered
