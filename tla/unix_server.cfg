CONSTANTS
    Clients = {c1, c2}
    MaxFd = 3
    FlagAtStart = {FALSE}
SPECIFICATION FairSpec
INVARIANTS
    TypeOK
    NoLeak
    AnswerIsAsked
PROPERTIES
    
    JoinReturns
    AcceptedIsAnswered
    QueueMoves
CHECK_DEADLOCK FALSE
