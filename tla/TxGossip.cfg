SPECIFICATION Spec
CHECK_DEADLOCK FALSE
CONSTANTS
    n1 = n1
    n2 = n2
    a1 = a1
    a2 = a2
    t1 = t1
    t2 = t2
    x1 = x1
    x2 = x2
    Node = {n1, n2}
    Addr = {a1, a2}
    Task = {t1, t2}
    Conn = {1, 2}
    Rank <- MCRank
    At <- MCAt
    Owner <- MCOwner
    Target <- MCTarget
    DialLimit <- MCDialLimit
    EventCap = 2
    MaxCalls = 0
    MaxFaults = 1
    Tx = {x1, x2}
    Blob = {x1}
    Unwanted = {x1}
    BusCap = 1
    BatchCap = 2
    SeenCap = 0
    MaxSubmits = 1
    MaxMined = 1
INVARIANTS AnswerOnItsWay SpreadWhenStill
PROPERTIES Settles
