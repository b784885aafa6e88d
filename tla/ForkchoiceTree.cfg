SPECIFICATION Spec
CONSTANTS
    g0 = g0
    a1 = a1
    a2 = a2
    a3 = a3
    b1 = b1
    b2 = b2
    b3 = b3
    task1 = task1
    task2 = task2
    None = None
    Hash = {g0, a1, a2, a3, b2, b3}
    Genesis = g0
    Parent <- TreeParent
    Height <- TreeHeight
    Tasks = {task1}
    SafeArgs = {None, a1, a2}
    Lowering = TRUE
    Buildable = {a3}
    Importable = {a1, a2, b2, b3}
    Refusable = {b2, b3}
    Faults = {}
    MaxCrashes = 0
INVARIANTS
    HeadPathCanonical
    HeadCanonical
    ForkchoiceOrdered
