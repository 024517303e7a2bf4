CONSTANTS
    NoPid = NoPid
    Nil = Nil
    Daemons = {}
    Hunters = {h1}
    Cpus = {c1}
    RcvBuf = 1
    MaxPackets = 2
    Faults = {}
    Addrs = {a1, a2, a3}
    OneHunter = TRUE
    FlowOf <- MCFlowOf
SPECIFICATION FairSpec
PROPERTIES
    StopFreesReceiver
CHECK_DEADLOCK FALSE
