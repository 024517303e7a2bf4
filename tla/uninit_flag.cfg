CONSTANTS
    Clients = {c1, c2}
    MaxFd = 3
    FlagAtStart = {FALSE, TRUE}
SPECIFICATION Spec
INVARIANTS
    NoClientRefused

CHECK_DEADLOCK FALSE
