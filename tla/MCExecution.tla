---------------------------- MODULE MCExecution ----------------------------
(* A small instance of Execution: four accounts, a fork at height 1, a     *)
(* block with a wrong root, payloads with a transaction to skip, and a     *)
(* reference execution on plain states.                                    *)
EXTENDS Execution, Serving

CONSTANTS sender, contract, other, beacon, s1, s2, task1, task2

VARIABLES
    alone,     \* whether this behaviour has one call at a time and no crash
    lowered,   \* a head below canonical entries was set, or two heads at a time
    overtaken  \* transactions of blocks imported since a block with them was marked

MCSymmetry == Permutations(Task)

MCAlloc ==
    [a \in Account |->
        CASE a = sender   -> [Fresh EXCEPT !.balance = 1]
          [] a = contract -> [nonce |-> 1, balance |-> 0, code |-> TRUE,
                              storage |-> (s1 :> 1 @@ s2 :> 0)]
          [] OTHER -> None]

Tx(nonce, kind, to, blobs) ==
    [from |-> sender, nonce |-> nonce, kind |-> kind, to |-> to, blobs |-> blobs, slots |-> Slot]
Storing(nonce, kind, slots) == [Tx(nonce, kind, contract, 0) EXCEPT !.slots = slots]

\* ------------------------------------------------- reference execution

RefChange(state, cs) ==
    LET New(a) ==
          LET old == OrFresh(state[a])
          IN [nonce   |-> IF a \in DOMAIN cs.nonces THEN cs.nonces[a] ELSE old.nonce,
              balance |-> IF a \in DOMAIN cs.balances THEN cs.balances[a] ELSE old.balance,
              code    |-> old.code \/ a \in cs.codes,
              storage |-> [s \in Slot |->
                             CASE <<a, s>> \in DOMAIN cs.storages -> cs.storages[<<a, s>>]
                               [] <<a, s>> \notin DOMAIN cs.storages /\ a \in cs.resets -> 0
                               [] OTHER -> old.storage[s]]]
    IN [a \in Account |->
          IF a \in cs.deletes \/ IsAccountEmpty(New(a)) THEN None ELSE New(a)]

RefCredit(state, a, amount) ==
    RefChange(state, [NoChanges EXCEPT !.balances = a :> OrFresh(state[a]).balance + amount])

RefBeacon(state, n) ==
    IF ~Cancun(n) THEN state
    ELSE [state EXCEPT ![Beacon] =
            [nonce |-> 1, balance |-> 0, code |-> TRUE, storage |-> [s \in Slot |-> n]]]

\* The states after 0, 1, ... transactions; None once one is invalid.
RefStates(start, txs) ==
    LET At[i \in 0..Len(txs)] ==
          IF i = 0 THEN start
          ELSE IF At[i - 1] = None \/ OrFresh(At[i - 1][txs[i].from]).nonce # txs[i].nonce THEN None
          ELSE RefChange(At[i - 1], Transact(At[i - 1], txs[i]))
    IN At

RefState(parent, number, txs, withdrawals) ==
    LET after == RefStates(RefBeacon(parent.root, number), txs)[Len(txs)]
        Paid[i \in 0..Len(withdrawals)] ==
          IF i = 0 THEN after ELSE RefCredit(Paid[i - 1], withdrawals[i][1], withdrawals[i][2])
        final == Paid[Len(withdrawals)]
    IN IF after = None THEN None
       ELSE IF Cancun(number) THEN final ELSE RefCredit(final, Beneficiary, BlockReward)

Blobs(txs) == FoldFunction(+, 0, [i \in DOMAIN txs |-> txs[i].blobs])

Sound(b) ==
    /\ b.root # None
    /\ b.root = RefState(b.parent, b.number, b.txs, b.withdrawals)
    /\ b.gas = Len(b.txs)
    /\ Cancun(b.number) => b.blobs = Blobs(b.txs)

Mined(parent, txs, withdrawals) ==
    [parent |-> parent, number |-> parent.number + 1, txs |-> txs, withdrawals |-> withdrawals,
     root |-> RefState(parent, parent.number + 1, txs, withdrawals), gas |-> Len(txs),
     blobs |-> Blobs(txs), difficulty |-> IF Cancun(parent.number + 1) THEN 0 ELSE 1]

\* --------------------------------------------------------- the instance

\* a1 and b1 share a transaction.  In b1 the contract stores and is destroyed, to
\* be created again in b2; in c1 all three happen in one block.
g0 == GenesisBlock(MCAlloc)
pay == Tx(0, "pay", other, 0)
a1 == Mined(g0, << pay, Tx(1, "flip", contract, 0) >>, <<>>)
a2 == Mined(a1, << Tx(2, "pay", other, 0) >>, << <<sender, 1>>, <<other, 0>> >>)
b1 == Mined(g0, << pay, Storing(1, "flip", {s2}), Tx(2, "destroy", contract, 0) >>, <<>>)
b2 == Mined(b1, << Storing(3, "create", {s1}) >>, << <<contract, 1>> >>)
c1 == Mined(g0, << Tx(0, "flip", contract, 0), Tx(1, "destroy", contract, 0),
                   Storing(2, "create", {s1}) >>, <<>>)
wrong == [Mined(g0, << Tx(0, "flip", contract, 0) >>, <<>>) EXCEPT !.root = g0.root]
early == [b2 EXCEPT !.txs = << Tx(7, "pay", other, 0) >>]

MCBlocks == {a1, a2, b1, b2, c1, wrong, early}
MCCandidates ==
    { [txs |-> << Tx(5, "pay", other, 0), Tx(1, "flip", contract, 0) >>, withdrawals |-> <<>>],
      [txs |-> << Tx(0, "touch", other, 1), Tx(2, "flip", contract, 1) >>,
       withdrawals |-> << <<other, 0>> >>] }
MCCalls == { Tx(0, "flip", contract, 0) }

Busy == {k \in Task : job[k] # Idle \/ todo[k] # <<>>}

\* Tasks in the writes of a forkchoiceUpdated.
Switching == {k \in Task : \E i \in DOMAIN todo[k] : todo[k][i].op # "payload"}

Transactions(b) == {b.txs[i] : i \in DOMAIN b.txs}

\* What the history variables record of a step.
Lowers ==
    \/ boot = "up" /\ db'.forkchoice.head.number < LatestBlockNumber(db)
    \/ Cardinality(Switching') > 1
Overtaking == UNION {Transactions(b) : b \in IF boot = "up" THEN db'.bodies \ db.bodies ELSE {}}
Marking == UNION {Transactions(db'.canon[n]) : n \in {m \in 0..MaxNumber : db'.canon[m] \notin {db.canon[m], None}}}

\* Behaviours with overlapping calls or a crash get two calls less, so that a
\* reorg from height 2 is still within reach of the others.
MCInit == Init /\ alone \in BOOLEAN /\ lowered = FALSE /\ overtaken = {}
MCNext ==
    /\ Next /\ UNCHANGED alone
    /\ IF alone THEN Cardinality(Busy') <= 1 /\ crashes' = 0 ELSE calls' <= MaxCalls - 2
    /\ lowered' = (lowered \/ Lowers)
    /\ overtaken' = (overtaken \cup Overtaking) \ Marking
MCSpec == MCInit /\ [][MCNext]_<<vars, alone, lowered, overtaken>>

\* ------------------------------------------------------------ properties

\* The account a transaction stores to is destroyed later in the block and is there
\* again after that.
Revives(b) ==
    \E i, j \in DOMAIN b.txs :
        /\ i < j /\ b.txs[i].to = b.txs[j].to
        /\ b.txs[i].kind \in {"flip", "create"} /\ b.txs[j].kind = "destroy"
        /\ \/ \E k \in DOMAIN b.txs : k > j /\ b.txs[k].to = b.txs[j].to
           \/ \E n \in DOMAIN b.withdrawals : b.withdrawals[n][1] = b.txs[j].to

\* execute_block_with_batch accepts exactly the blocks whose header states the
\* result of their transactions on their parent's state, whatever other
\* branches, payload builds or aborted transactions left in the Accounts and
\* Storages tables before.  Excepted is a block in which an account is stored
\* to, destroyed and there again: touched_storages keeps the slots of the
\* account's first life (write.rs 641-644 and 578-590).
ExecutesExactly ==
    verdict # None /\ ~Revives(verdict[1]) => verdict[2] = Sound(verdict[1])

\* Every account can be read at the root of a stored header: the execution's
\* commit comes before the block's, so a crash in between leaves no header
\* without its state.
StatesStored == \A b \in db.headers, a \in Account : AccountAt(db, b.root, a) = b.root[a]

RECURSIVE TotalDifficulty(_)
TotalDifficulty(b) == b.difficulty + IF b.number = 0 THEN 0 ELSE TotalDifficulty(b.parent)

\* Once the node is up, every stored header has its number, body, receipts
\* and the total difficulty of its chain, and its transactions resolve to a
\* stored block that contains them, whichever of the two ways it came in.
StoredComplete ==
    boot = "up" => \A b \in db.headers :
        /\ b \in db.numbers /\ b \in db.bodies
        /\ HeaderTd(db, b) = TotalDifficulty(b)
        /\ \A i \in DOMAIN b.txs :
             /\ <<b, i>> \in db.receipts
             /\ LET at == db.lookup[b.txs[i]]
                IN at[1] \in db.bodies /\ at[1].txs[at[2]] = b.txs[i]

\* logs covers the receipts of every canonical block at any moment.  Between calls
\* transaction_receipt finds each transaction of a canonical block there, and not in
\* the block of another branch that has it too: marking a block rewrites the lookups
\* of its transactions.  Excepted are those a block imported since has as well: its
\* row stands until the next marking.  After a head below canonical entries was set,
\* a transaction may be in two of them.
ReadersCanonical ==
    boot = "up" =>
        /\ Logs(db, 0, MaxNumber) =
             UNION {{<<db.canon[n], i>> : i \in DOMAIN db.canon[n].txs}
                      : n \in {m \in 0..MaxNumber : db.canon[m] # None}}
        /\ alone /\ ~lowered /\ Busy = {} => \A n \in 0..MaxNumber : db.canon[n] # None =>
             \A i \in DOMAIN db.canon[n].txs :
                db.canon[n].txs[i] \notin overtaken =>
                    TransactionReceipt(db, db.canon[n].txs[i]) = <<db.canon[n], i>>

\* A range of headers read at any moment, between the writes of a switch to another
\* branch too, passes the checks of the node that asked for it, and asking for the
\* bodies, the receipts, the states or the same range backwards gives an answer for
\* each of its headers; engine_getPayloadBodiesByRange has the same blocks.  Not so
\* once a head below canonical entries was set: the revert starts at the new head, and
\* the entries above it stay (reorg_manager.rs:165).
RangesServed ==
    boot = "up" /\ ~lowered => \A start \in 0..MaxNumber :
        LET range == GetBlockHeaders(db, {}, Number(start), MaxNumber + 1, 0, FALSE)
            n == Len(range)
        IN range # <<>> =>
             /\ RangeAccepted(range, GetBlockBodies(db, {}, range))
             /\ GetBlockHeaders(db, {}, Number(start + n - 1), n, 0, TRUE) = Reverse(range)
             /\ GetBlockHeaders(db, {}, Hash(range[1]), n, 0, FALSE) = range
             /\ \A i \in 1..n : Len(GetReceipts(db, range)[i]) = Len(range[i].txs)
             /\ Len(GetNodeData(db, [i \in 1..n |-> range[i].root])) = n
             /\ start > 0 => GetPayloadBodiesByRange(db, range[n], start, n) =
                             GetPayloadBodiesByHash(db, range)

=============================================================================
