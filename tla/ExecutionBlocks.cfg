CONSTANTS
    None = None
    sender = sender
    contract = contract
    other = other
    beacon = beacon
    s1 = s1
    s2 = s2
    task1 = task1
    task2 = task2
    Account = {sender, contract, other, beacon}
    Slot = {s1, s2}
    Beacon = beacon
    Beneficiary = other
    BlockReward = 1
    CancunFrom = 2
    MaxNumber = 2
    Task = {task1, task2}
    Blocks <- MCBlocks
    Candidates <- MCCandidates
    Calls <- MCCalls
    GenesisAlloc <- MCAlloc
    MaxCrashes = 1
    MaxCalls = 6
    Rich = 9
SYMMETRY MCSymmetry
SPECIFICATION MCSpec
INVARIANTS
    ExecutesExactly
    StatesStored
    StoredComplete
    ReadersCanonical
    
CHECK_DEADLOCK FALSE
