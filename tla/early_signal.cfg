CONSTANTS
    NoPid = NoPid
    Nil = Nil
    Daemons = {d1}
    Hunters = {}
    Cpus = {c1}
    RcvBuf = 2
    MaxPackets = 1
    Faults = {}
    Addrs = {a1, a2}
    OneHunter = TRUE
    FlowOf <- MCFlowOf
SPECIFICATION FairSpec
PROPERTIES
    SignalEnds
CHECK_DEADLOCK FALSE
