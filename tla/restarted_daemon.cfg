CONSTANTS
    NoPid = NoPid
    Nil = Nil
    Daemons = {d1, d2}
    Hunters = {}
    Cpus = {c1}
    RcvBuf = 1
    MaxPackets = 1
    Faults = {"kill"}
    Addrs = {a1, a2}
    OneHunter = TRUE
    FlowOf <- MCFlowOf
SPECIFICATION Spec
SYMMETRY MCSymmetry
INVARIANTS
    SenderRecorded
CHECK_DEADLOCK FALSE
