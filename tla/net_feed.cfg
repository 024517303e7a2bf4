CONSTANTS
    NoPid = NoPid
    Nil = Nil
    Daemons = {d1}
    Hunters = {h1}
    Cpus = {c1}
    RcvBuf = 2
    MaxPackets = 2
    Faults = {}
    Addrs = {a1, a2, a3}
    OneHunter = TRUE
    FlowOf <- MCFlowOf
SPECIFICATION Spec
SYMMETRY MCSymmetry
INVARIANTS
    TypeOK
    MemorySafe
    CleanExit
    SubscriptionAccurate
CHECK_DEADLOCK FALSE
