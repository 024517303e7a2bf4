CONSTANTS
    NoPid = NoPid
    Nil = Nil
    Daemons = {}
    Hunters = {h1, h2}
    Cpus = {c1}
    RcvBuf = 1
    MaxPackets = 1
    Faults = {"kill", "throw", "alloc"}
    Addrs = {a1, a2}
    OneHunter = FALSE
    FlowOf <- MCFlowOf
SPECIFICATION Spec
SYMMETRY MCSymmetry
INVARIANTS
    RecordedPid

    
    
CHECK_DEADLOCK FALSE
