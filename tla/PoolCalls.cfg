SPECIFICATION Spec
CONSTANTS
    g = g
    b = b
    c = c
    d = d
    p = p
    q = q
    x = x
    y = y
    t0 = t0
    u0 = u0
    t1 = t1
    u1 = u1
    s0 = s0
    t2 = t2
    k1 = k1
    None = None
    Listener = Listener
    Tx = {u0, t1, u1}
    Account = {x}
    Blob = {}
    Block = {g, b}
    Genesis = g
    Call = {p, q}
    Sender <- TxSender
    Nonce <- TxNonce
    GasPrice <- LegacyPrice
    MaxFee <- TxMaxFee
    Tip <- TxTip
    Cost <- TxCost
    Carries <- NoBlobs
    Lineage <- ForkLineage
    BaseFee <- RisingFee
    Includes <- ForkIncludes
    NonceAt <- ForkNonceAt
    FundsAt <- Funded
    MaxSize = 1
    Depth = 1
    Submissions = 3
    Interleaved = TRUE
INVARIANTS
    OnePerNonce
\* The node rests when it is sent nothing.
CHECK_DEADLOCK FALSE
