SPECIFICATION Spec
CONSTANTS
    g0 = g0
    a1 = a1
    a2 = a2
    a3 = a3
    b1 = b1
    b2 = b2
    b3 = b3
    task1 = task1
    task2 = task2
    None = None
    Hash = {g0, a1, a2, b1}
    Genesis = g0
    Parent <- ForkParent
    Height <- ForkHeight
    Tasks = {task1, task2}
    SafeArgs = {None}
    Lowering = FALSE
    Buildable = {a2}
    Importable = {a1, b1}
    Refusable = {a2}
    Faults = {"revert", "promote", "mark"}
    MaxCrashes = 1
INVARIANTS
    CanonicalStored
SYMMETRY TaskSymmetry
