---------------------------- MODULE PendingNonce ----------------------------
(* The nonce the pool proposes for an account's next transaction:            *)
(* next_expected_nonce (mempool/mempool.rs), which nonce_lookup              *)
(* (mempool/mempool_provider.rs) and eth_getTransactionCount answer with.    *)
EXTENDS Mempool, SequencesExt

\* Mutant: the scan does not stop at a gap.
NextExpectedPastGap(a, n) ==
    LET queue == SetToSortSeq(OfSender(pending, a), LAMBDA t, u : Nonce[t] < Nonce[u])
        Advance(expected, t) == IF Nonce[t] >= expected THEN Nonce[t] + 1 ELSE expected
    IN  FoldLeft(Advance, n, queue)

\* next_expected_nonce and nonce_lookup: the scan of a sender's pending queue.
\* A nonce above the expected one ends the scan; no later one can match.
NextExpectedNonce(a, n) ==
    LET queue == SetToSortSeq(OfSender(pending, a), LAMBDA t, u : Nonce[t] < Nonce[u])
        Advance(expected, t) == IF Nonce[t] = expected THEN expected + 1 ELSE expected
    IN  FoldLeft(Advance, n, queue)

\* What eth_getTransactionCount answers for "pending" is the lowest nonce from
\* the state's on that no pending transaction uses.
NextNonceFree ==
    \A a \in Account :
        LET n == NonceAt[flat][a]
            used == {Nonce[t] : t \in OfSender(pending, a)}
            answer == NextExpectedNonce(a, n)
        IN  answer \notin used /\ n .. (answer - 1) \subseteq used

=============================================================================
