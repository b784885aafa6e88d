SPECIFICATION Spec
CONSTANTS
    h0 = h0
    h1 = h1
    h2 = h2
    h3 = h3
    k2 = k2
    k3 = k3
    task1 = task1
    task2 = task2
    Hash = {h0, h1, h2, h3, k2, k3}
    Genesis = h0
    Parent <- ForkParent
    Height <- ForkHeight
    Defect <- HeaderDefect
    Tasks = {task1, task2}
    Misannounced = {k2}
    Buildable = {h1}
    MaxIndexed = 1
INVARIANTS
    ProcessingExact
    OrphanIndexed
    StoredSound
    MarksEarned
SYMMETRY TaskSymmetry
