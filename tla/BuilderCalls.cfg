SPECIFICATION Spec
CONSTANTS
    None = None
    call1 = call1
    call2 = call2
    loop1 = loop1
    loop2 = loop2
    blob1 = blob1
    DataGasPerBlob = 10
    TargetBlobGas = 5
    MaxBlobGas = 10
    U64 = 1000000
    MaxBlobs = 1
    MaxRounds = 1
    MaxCalls = 2
    MaxNumber = 2
    MaxAhead = 1
    Calls <- MCCalls
    Loops <- MCLoops
    Senders <- MCSenders
    Txs <- MCTxs
    Attrs <- MCAttrs
    Genesis <- MCGenesis
    Config <- MCConfig
    Schedules <- MCConfigs
INVARIANTS
    PayloadsImportable
    LiveLoopRegistered
    PeekGreedy
PROPERTIES
    ValueNeverFalls
    HandedOutReturns
CHECK_DEADLOCK FALSE
