CONSTANTS
    NoPid = NoPid
    Nil = Nil
    Daemons = {d1, d2}
    Hunters = {}
    Cpus = {c1}
    RcvBuf = 2
    MaxPackets = 4
    Faults = {"kill", "throw", "alloc"}
    Addrs = {a1, a2, a3, a4, a5}
    OneHunter = TRUE
    FlowOf <- MCFlowOf
SPECIFICATION Spec
SYMMETRY MCSymmetry
INVARIANTS
    SubscriptionAccurate
    CaptureOrder

    
CHECK_DEADLOCK FALSE
