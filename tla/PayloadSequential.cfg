SPECIFICATION FairSpec
CONSTANTS
    h0 = h0
    h1 = h1
    h2 = h2
    h3 = h3
    k2 = k2
    k3 = k3
    task1 = task1
    task2 = task2
    Hash = {h0, h1, h2, h3, k2}
    Genesis = h0
    Parent <- TreeParent
    Height <- TreeHeight
    Defect <- BodyDefect
    Tasks = {task1}
    Misannounced = {h0, h1, h2, h3, k2}
    Buildable = {h1}
    MaxIndexed = 2
INVARIANTS
    NoStrandedOrphan
    StatusAnswers
PROPERTIES
    CallsReturn
