-------------------------- MODULE MCPayloadBuilder --------------------------
(* The instance of PayloadBuilder that TLC checks, and its properties.      *)
EXTENDS PayloadBuilder

CONSTANTS
    call1, call2, loop1, loop2, blob1

MCCalls == {call1, call2}
MCLoops == {loop1, loop2}
MCSenders == {1, 2}

\* Two transactions of sender 1, that fill a block, the second with a blob; one of
\* sender 2 that pays more than the first and leaves no room for it, and whose fee
\* cap lets a rise of the base fee cut its tip.
MCTxs ==
    {[sender |-> 1, nonce |-> 0, gas |-> 4000, used |-> 2500, maxFee |-> 12, tip |-> 1, blobs |-> <<>>],
     [sender |-> 1, nonce |-> 1, gas |-> 2000, used |-> 2000, maxFee |-> 12, tip |-> 3, blobs |-> <<blob1>>],
     [sender |-> 2, nonce |-> 0, gas |-> 2500, used |-> 2500, maxFee |-> 10, tip |-> 2, blobs |-> <<>>]}

MCForks ==
    {[time |-> FALSE, at |-> 0, fork |-> Paris], [time |-> TRUE, at |-> 0, fork |-> Shanghai],
     [time |-> TRUE, at |-> 1, fork |-> Cancun]}
MCConfig == [forks |-> MCForks, ttd |-> None]

MCAttrs ==
    {[version |-> 3, timestamp |-> 1, withdrawals |-> 0, beaconRoot |-> 0],
     [version |-> 3, timestamp |-> 2, withdrawals |-> 0, beaconRoot |-> 0]}

MCGenesis ==
    [header |-> [number |-> 0, timestamp |-> 0, gasLimit |-> 6000, gasUsed |-> 3000, extra |-> 0,
                 baseFee |-> 8, difficulty |-> 0, nonce |-> 0, ommers |-> {}, withdrawalsRoot |-> 0,
                 blobGas |-> None, excessBlobGas |-> None, beaconRoot |-> None,
                 requestsHash |-> None, txRoot |-> <<>>, stateRoot |-> [s \in MCSenders |-> 0]],
     txs |-> <<>>]

\* ------------------------------------------------------------- properties

BodyOf(id, block) ==
    [txs |-> block.txs, ommers |-> {}, withdrawals |-> id.attr.withdrawals, setCode |-> FALSE]

\* Every payload the node can hand out is one it would itself import:
\* validate_header and validate_body accept it on the head it was asked for, its
\* nonces continue the parent's state, and its bundle has the blobs of its
\* transactions in their order, however the pool and the head moved between the
\* snapshot, the execution and the collection of the blobs.
PayloadsImportable ==
    \A id \in DOMAIN rows :
        LET block == rows[id].block
            parent == id.head.header
            fork == ActiveFork(Config, block.header.number, block.header.timestamp, None)
        IN /\ ValidateHeader(block.header, parent, Config, None, block.header.timestamp)
           /\ ValidateBody(block.header, BodyOf(id, block), Len(BlobsOf(block.txs)) * DataGasPerBlob, fork)
           /\ Included(parent.stateRoot, block.txs) = block.txs
           /\ block.header.gasLimit >= GasOf(block.txs)
           /\ rows[id].bundle = BlobsOf(block.txs)

\* The schedules whose last fork is Paris, Shanghai, Cancun and Prague.
MCConfigs ==
    {[MCConfig EXCEPT !.forks = {e \in @ : e.fork <= last}] : last \in {Paris, Shanghai, Cancun}}
    \cup {[MCConfig EXCEPT !.forks = @ \cup {[time |-> TRUE, at |-> 1, fork |-> Prague]}]}

\* peek_best_transactions is the greedy choice by tip: no transaction it takes
\* has, at its place, a sender's next one with a higher tip that would have fitted,
\* and no next one that fits is left at the end.
PeekGreedy ==
    LET fee == UnwrapOr(CalculateNextBaseFee(head.header), 0)
        limit == head.header.gasLimit
        picked == PeekBest(pool, blobs, limit, fee)
        Taken(n, s) == Len(SelectSeq(SubSeq(picked, 1, n), LAMBDA tx : tx.sender = s))
        Candidates(n) ==
            {tx \in {pool[s][Taken(n, s) + 1] : s \in {x \in Senders : Taken(n, x) < Len(pool[x])}} :
                /\ EffectiveTip(tx, fee) # None
                /\ Fits(tx, SubSeq(picked, 1, n), blobs, limit)}
    IN /\ \A n \in 1..Len(picked) :
             /\ picked[n] \in Candidates(n - 1)
             /\ \A tx \in Candidates(n - 1) : EffectiveTip(tx, fee) <= EffectiveTip(picked[n], fee)
       /\ Candidates(Len(picked)) = {}
=============================================================================
