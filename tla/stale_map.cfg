CONSTANTS
    t1 = t1
    t2 = t2
    u1 = u1
    Inodes = {t1, t2, u1}
    SockOf <- MCSockOf
    MaxPid = 2
    Ports = {1, 2}
    NoPid = NoPid
    Nil = Nil
SPECIFICATION Spec
PROPERTIES
    FailedScanCleans
