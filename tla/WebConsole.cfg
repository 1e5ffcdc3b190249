\* Pages made while messages come and commands go.
SPECIFICATION Spec
CONSTANTS
    Threads <- OneThread
    p = p
    q = q
    Payloads <- TwoValues
    Commands <- OneButton
    Shown <- OneCard
    Nodes <- OneNode
    LogLimit = 2
    Second = 2
    HeartbeatTimeout = 1
    MaxTime = 3
    MaxConnects = 2
    MaxMessages = 2
    MaxCommands = 1
SYMMETRY Exchange
INVARIANTS TypeOK PageConsistent OnlineExact
CHECK_DEADLOCK FALSE
