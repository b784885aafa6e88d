SPECIFICATION SessionsSpec
CHECK_DEADLOCK FALSE
CONSTANTS
    n1 = n1
    n2 = n2
    a1 = a1
    b1 = b1
    a2 = a2
    b2 = b2
    t1 = t1
    t2 = t2
    t3 = t3
    t4 = t4
    Node = {n1, n2}
    Addr = {a1, b1, a2, b2}
    Task = {t1, t2, t3, t4}
    Conn = {1, 2}
    Rank <- MCRank
    At <- MCAt
    Owner <- MCOwner
    Target <- MCTarget
    DialLimit <- MCDialLimit
    EventCap = 2
    MaxCalls = 2
    MaxFaults = 1
INVARIANTS DeadEntriesReported RowsBacked AgreeWhenQuiet SurvivesTieBreak
PROPERTIES OnlyDeadRemoved
