CONSTANTS
    NoPid = NoPid
    Nil = Nil
    Daemons = {d1}
    Hunters = {h1}
    Cpus = {c1}
    RcvBuf = 2
    MaxPackets = 1
    Faults = {}
    Addrs = {a1, a2}
    OneHunter = TRUE
    FlowOf <- MCFlowOf
SPECIFICATION Spec
SYMMETRY MCSymmetry
INVARIANTS
    HunterLeavesCleanly
CHECK_DEADLOCK FALSE
