SPECIFICATION Spec
CONSTANTS
    g = g
    b = b
    c = c
    d = d
    p = p
    q = q
    x = x
    y = y
    t0 = t0
    u0 = u0
    t1 = t1
    u1 = u1
    s0 = s0
    t2 = t2
    k1 = k1
    None = None
    Listener = Listener
    Tx = {t0, u0, t1, u1, t2, s0}
    Account = {x, y}
    Blob = {k1}
    Block = {g, b, c, d}
    Genesis = g
    Call = {p}
    Sender <- TxSender
    Nonce <- TxNonce
    GasPrice <- LegacyPrice
    MaxFee <- TxMaxFee
    Tip <- TxTip
    Cost <- TxCost
    Carries <- SharedBlob
    Lineage <- ForkLineage
    BaseFee <- RisingFee
    Includes <- ForkIncludes
    NonceAt <- ForkNonceAt
    FundsAt <- Spent
    MaxSize = 2
    Depth = 2
    Submissions = 4
    Interleaved = FALSE
INVARIANTS
    NoStalePooled
    NextNonceFree
    NoStrandedQueued
\* The node rests when it is sent nothing.
CHECK_DEADLOCK FALSE
