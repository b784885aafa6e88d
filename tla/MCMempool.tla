----------------------------- MODULE MCMempool -----------------------------
(* Transactions and chains on which TLC checks Mempool. *)
EXTENDS PendingNonce

CONSTANTS g, b, c, d, p, q, x, y, t0, u0, t1, u1, s0, k1, t2

\* x sends t0 and its rival u0, t1 and its rival u1, and t2; y sends s0.
TxSender == Restrict((t0 :> x) @@ (u0 :> x) @@ (t1 :> x) @@ (u1 :> x) @@ (s0 :> y) @@ (t2 :> x), Tx)
TxNonce == Restrict((t0 :> 0) @@ (u0 :> 0) @@ (t1 :> 1) @@ (u1 :> 1) @@ (s0 :> 0) @@ (t2 :> 2), Tx)
TxMaxFee == Restrict((t0 :> 10) @@ (u0 :> 20) @@ (t1 :> 30) @@ (u1 :> 20) @@ (s0 :> 20) @@ (t2 :> 30), Tx)
TxTip == Restrict((t0 :> 10) @@ (u0 :> 20) @@ (t1 :> 30) @@ (u1 :> 20) @@ (s0 :> 2) @@ (t2 :> 30), Tx)
TxCost == [t \in Tx |-> 1]
LegacyPrice == TxMaxFee

\* Blobs: none, or one that t0 and its rival u0 carry.
NoBlobs == [t \in Tx |-> {}]
SharedBlob == [t \in Tx |-> IF t \in {t0, u0} THEN {k1} ELSE {}]

\* g <- b <- c and g <- d.
ForkLineage == Restrict((g :> <<>>) @@ (b :> <<b>>) @@ (c :> <<c, b>>) @@ (d :> <<d>>), Block)
ForkIncludes == Restrict((g :> {}) @@ (b :> {u0} \cap Tx) @@ (c :> {t1, s0} \cap Tx) @@ (d :> {s0} \cap Tx), Block)
ForkNonceAt ==
    LET used(bs, a) == Cardinality({t \in UNION {ForkIncludes[e] : e \in bs} : Sender[t] = a})
    IN  [e \in Block |-> [a \in Account |-> used(ToSet(ForkLineage[e]), a)]]

\* The fee rises with b, stays with c and is lower in d.
RisingFee == Restrict((g :> 1) @@ (b :> 15) @@ (c :> 15) @@ (d :> 12), Block)

\* Sufficient funds, and x without any after d.
Funded == [e \in Block |-> [a \in Account |-> 5]]
Spent == [e \in Block |-> [a \in Account |-> IF e = d /\ a = x THEN 0 ELSE 5]]

=============================================================================
