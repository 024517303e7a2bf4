CONSTANTS
    NoPid = NoPid
    Nil = Nil
    Daemons = {d1}
    Hunters = {h1}
    Cpus = {c1}
    RcvBuf = 1
    MaxPackets = 1
    Faults = {}
    Addrs = {a1, a2}
    OneHunter = TRUE
    FlowOf <- MCFlowOf
SPECIFICATION FairSpec
PROPERTIES
    ShutdownCompletes
    
    
CHECK_DEADLOCK FALSE
