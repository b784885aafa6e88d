SPECIFICATION Spec
CONSTANTS
    g0 = g0
    a1 = a1
    a2 = a2
    b1 = b1
    c3 = c3
    d4 = d4
    p1 = p1
    p2 = p2
    Zero = zero
    NoTask = noTask
    Controller = ctl
    Orchestrator = orc
    Genesis = g0
    Hash <- MCHash
    Parent <- MCParent
    Height <- MCHeight
    Td <- MCTd
    Faulty <- MCFaulty
    Buildable = {a1}
    PeerOrder <- MCTwoPeers
    PeerHead <- MCTwoHead
    PeerTd <- MCTwoTd
    Gossips = {q1}
    Paris = 2
    MaxBatch = 1
    MaxRetries = 1
    RangeSize = 2
    MaxCalls = 3

    
PROPERTIES
    HeadLeftToConsensus
    TargetsSettle
    ImplementsBlockTree
