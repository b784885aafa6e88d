--------------------------- MODULE PayloadBuilder ---------------------------
(* PayloadBuilder: build_new_payload as run by forkchoiceUpdated calls, the *)
(* background loop that keeps rebuilding the payload, the choice of the     *)
(* transactions (peek_best_transactions), and the import that takes the     *)
(* payload's row away.                                                      *)
(*                                                                          *)
(* A block is its header and its transactions; it stands for its hash.  Its *)
(* state root is the next nonce of every sender.  A payload id is what it   *)
(* is a hash of: the head and the attributes.  The loop's sleeps and events *)
(* are left out: a round may start at any time, at most MaxRounds of them   *)
(* before the slot is over.                                                 *)
EXTENDS EnginePayload, Sequences, FiniteSets, Functions

CONSTANTS
    Calls,       \* tasks that serve forkchoiceUpdated
    Loops,       \* background tasks; a loop is also its cancellation token
    Senders,     \* 1..n, in the order of the addresses
    Txs,         \* [sender, nonce, gas, used, maxFee, tip, blobs]: what may be submitted
    Attrs,       \* payload attributes in use: [version, timestamp, withdrawals, beaconRoot]
    Genesis,     \* the block the chain starts from
    Config,      \* chain config: [forks, ttd]
    Schedules,   \* chain configs the Engine API is checked with
    MaxBlobs,    \* blobs per block
    MaxRounds,   \* bound: rebuilds of one loop
    MaxCalls,    \* bound: forkchoiceUpdated calls
    MaxNumber,   \* bound: block numbers
    MaxAhead     \* bound: how far after the head's timestamp a call may ask for

\* A call and a background loop are tasks of their own.
ASSUME TasksAssumption == Calls \cap Loops = {} /\ None \notin Calls \cup Loops
ASSUME SendersAssumption == IsFiniteSet(Senders) /\ Senders \subseteq Nat
ASSUME TxsAssumption ==
    \A tx \in Txs : /\ tx.gas \in Nat /\ tx.used \in Nat /\ tx.maxFee \in Nat /\ tx.tip \in Nat
                    /\ tx.blobs \in Seq(Range(tx.blobs))
\* The base fee is in force from genesis on; validate_header wants a gas limit of 5000.
ASSUME GenesisAssumption ==
    LET h == Genesis.header
    IN /\ h.number \in Nat /\ h.baseFee \in Nat /\ h.gasUsed \in Nat
       /\ h.gasLimit \in Nat /\ h.gasLimit >= 5000
       /\ h.blobGas \in Nat \cup {None} /\ h.excessBlobGas \in Nat \cup {None}
ASSUME SchedulesAssumption ==
    \A config \in Schedules :
        /\ IsFiniteSet(config.forks)
        /\ config.forks \subseteq [time : BOOLEAN, at : Nat, fork : Frontier .. Prague]

VARIABLES
    rows,       \* Payloads table: id -> [block, bundle]
    stored,     \* blocks imported
    head,       \* the canonical head
    pool,       \* pending queue of each sender
    blobs,      \* blobs the pool holds
    lock,       \* build_lock: None or its holder
    tokens,     \* cancel_tokens: id -> loop
    cancelled,  \* the tokens that are cancelled
    work,       \* what each call and each loop is doing
    made        \* calls made so far

vars == <<rows, stored, head, pool, blobs, lock, tokens, cancelled, work, made>>

Workers == Calls \union Loops

\* tokio's choice of a task for a call or a loop: any one that is free.
Free(tasks) ==
    LET idle == {w \in tasks : work[w].pc = "idle"}
    IN IF idle = {} THEN {} ELSE {CHOOSE w \in idle : TRUE}

Idle == [pc |-> "idle", id |-> None, old |-> None, new |-> None, rounds |-> 0]

\* -------------------------------------------------- choice of transactions

EffectiveTip(tx, fee) ==
    IF tx.maxFee < fee THEN None
    ELSE IF tx.tip <= tx.maxFee - fee THEN tx.tip ELSE tx.maxFee - fee

BlobsOf(txs) ==
    LET upto[i \in 0 .. Len(txs)] == IF i = 0 THEN <<>> ELSE upto[i - 1] \o txs[i].blobs
    IN upto[Len(txs)]

GasOf(txs) == SumFunction([i \in DOMAIN txs |-> txs[i].gas])

\* Whether a transaction fits after the ones picked.
Fits(tx, picked, have, limit) ==
    /\ GasOf(picked) + tx.gas <= limit
    /\ Len(BlobsOf(picked)) + Len(tx.blobs) <= MaxBlobs
    /\ Range(tx.blobs) \subseteq have

\* The sender whose head is popped: the best by tip, then address.
ReadySenders(st, fee) == {s \in Senders : st.queue[s] # <<>> /\ EffectiveTip(st.queue[s][1], fee) # None}
BestSender(st, fee) ==
    LET Tip(s) == EffectiveTip(st.queue[s][1], fee)
        ready == ReadySenders(st, fee)
    IN CHOOSE s \in ready : \A o \in ready : Tip(o) < Tip(s) \/ (Tip(o) = Tip(s) /\ o <= s)

\* Mutant: a transaction that does not fit is skipped, and its sender's next one
\* tried.
PopSkipping(st, have, limit, fee) ==
    LET s == BestSender(st, fee)
    IN IF GasOf(st.picked) >= limit \/ ReadySenders(st, fee) = {} THEN st
       ELSE [queue |-> [st.queue EXCEPT ![s] = Tail(@)],
             picked |-> IF Fits(st.queue[s][1], st.picked, have, limit)
                        THEN Append(st.picked, st.queue[s][1]) ELSE st.picked]

\* A round of peek_best_transactions: the head that is popped is picked if it fits and
\* the sender's next takes its place, otherwise the sender is out.
Pop(st, have, limit, fee) ==
    LET s == BestSender(st, fee)
    IN IF GasOf(st.picked) >= limit \/ ReadySenders(st, fee) = {} THEN st
       ELSE IF Fits(st.queue[s][1], st.picked, have, limit)
       THEN [queue |-> [st.queue EXCEPT ![s] = Tail(@)], picked |-> Append(st.picked, st.queue[s][1])]
       ELSE [st EXCEPT !.queue[s] = <<>>]

\* peek_best_transactions: a round takes a transaction off the queues, or changes
\* nothing and is the last.
PeekBest(queue, have, limit, fee) ==
    LET rounds == SumFunction([s \in Senders |-> Len(queue[s])])
        after[n \in 0 .. rounds] ==
            IF n = 0 THEN [queue |-> queue, picked |-> <<>>]
            ELSE Pop(after[n - 1], have, limit, fee)
    IN after[rounds].picked

\* --------------------------------------------------------------- execution

\* The nonces after these transactions.
NoncesAfter(nonces, txs) ==
    [s \in Senders |-> nonces[s] + Cardinality({i \in DOMAIN txs : txs[i].sender = s})]

\* The transactions a run from these nonces includes: one with another nonce
\* than its sender's is skipped.
Included(nonces, txs) ==
    LET run[i \in 0 .. Len(txs)] ==
            IF i = 0 THEN <<>>
            ELSE LET before == run[i - 1]
                     tx == txs[i]
                 IN IF tx.nonce = NoncesAfter(nonces, before)[tx.sender] THEN Append(before, tx) ELSE before
    IN run[Len(txs)]

\* execute_block_for_payload: the block, or None where the execution reports an
\* error (the header's blob gas counts a transaction that was skipped).
ExecuteForPayload(id, txs) ==
    LET parent == id.head.header
        run == Included(parent.stateRoot, txs)
        gas == SumFunction([i \in DOMAIN run |-> run[i].used])
        blobGas == Len(BlobsOf(txs)) * DataGasPerBlob
    IN IF BlobsOf(run) # BlobsOf(txs) THEN None
       ELSE [header |-> PayloadHeader(parent, id.attr, Config, blobGas, gas, run,
                                     NoncesAfter(parent.stateRoot, run)),
             txs |-> run]

\* calculate_block_value: the tips the block pays.
BlockValue(block) ==
    LET fee == UnwrapOr(block.header.baseFee, 0)
    IN SumFunction([i \in DOMAIN block.txs |-> block.txs[i].used * EffectiveTip(block.txs[i], fee)])

\* ------------------------------------------------------------------ tables

Has(f, id) == id \in DOMAIN f
Put(f, id, v) == [i \in DOMAIN f \union {id} |-> IF i = id THEN v ELSE f[i]]
Without(f, ids) == [i \in DOMAIN f \ ids |-> f[i]]

\* ----------------------------------------------------------------- actions

Init ==
    /\ rows = <<>> /\ stored = {Genesis} /\ head = Genesis
    /\ pool = [s \in Senders |-> <<>>] /\ blobs = {}
    /\ lock = None /\ tokens = <<>> /\ cancelled = {}
    /\ work = [w \in Workers |-> Idle]
    /\ made = 0

\* forkchoiceUpdated with attributes: the head is set and, its status VALID,
\* build_new_payload looks for the id's row before it asks for the lock.
ForkchoiceUpdated(c, b, attr) ==
    /\ made < MaxCalls
    /\ b \in stored /\ (b = head \/ b.header.number = head.header.number + 1)
    /\ b.header.number < MaxNumber /\ attr.timestamp <= b.header.timestamp + MaxAhead
    /\ AttributesValid(attr.version, attr, Config)
    /\ made' = made + 1
    /\ head' = b
    /\ LET id == [head |-> b, attr |-> attr]
       IN IF Has(rows, id)
          THEN UNCHANGED work
          ELSE work' = [work EXCEPT ![c] = [Idle EXCEPT !.pc = "lock", !.id = id]]
    /\ UNCHANGED <<rows, stored, pool, blobs, lock, tokens, cancelled>>

Return(c) == work' = [work EXCEPT ![c] = Idle]

\* build_lock is taken; the row is looked for again and the timestamp checked.
AcquireLock(c) ==
    /\ work[c].pc = "lock" /\ lock = None
    /\ LET id == work[c].id
       IN IF Has(rows, id) \/ id.attr.timestamp <= id.head.header.timestamp
          THEN Return(c) /\ UNCHANGED lock
          ELSE work' = [work EXCEPT ![c].pc = "empty"] /\ lock' = c
    /\ UNCHANGED <<rows, stored, head, pool, blobs, tokens, cancelled, made>>

\* build_empty_payload, then on to the first rebuild.
BuildEmpty(c) ==
    /\ work[c].pc = "empty"
    /\ rows' = Put(rows, work[c].id, [block |-> ExecuteForPayload(work[c].id, <<>>), bundle |-> <<>>])
    /\ work' = [work EXCEPT ![c].pc = "read"]
    /\ UNCHANGED <<stored, head, pool, blobs, lock, tokens, cancelled, made>>

\* What follows a rebuild: the call registers its loop, the loop goes round.
EndRebuild(w) == work' = [work EXCEPT ![w].pc = IF w \in Calls THEN "register" ELSE "round",
                                      ![w].old = None, ![w].new = None]

\* maybe_rebuild_payload reads the row; without one it returns.
RebuildRead(w) ==
    /\ work[w].pc = "read"
    /\ IF Has(rows, work[w].id)
       THEN work' = [work EXCEPT ![w].pc = "peek", ![w].old = rows[work[w].id].block]
       ELSE EndRebuild(w)
    /\ UNCHANGED <<rows, stored, head, pool, blobs, lock, tokens, cancelled, made>>

\* Mutant: a block is replaced whatever it is worth.
BetterAlways(new, old) == TRUE

\* should_replace, or nothing to lose.
Better(new, old) ==
    \/ BlockValue(new) > BlockValue(old)
    \/ BlockValue(new) = BlockValue(old) /\ Len(new.txs) >= Len(old.txs)
    \/ old.txs = <<>>

\* The snapshot, the skips, the execution and the comparison of the values.
RebuildExecute(w) ==
    /\ work[w].pc = "peek"
    /\ LET id == work[w].id
           old == work[w].old
           parent == id.head.header
           fee == UnwrapOr(CalculateNextBaseFee(parent), 0)
       IN \E txs \in {PeekBest(pool, blobs, parent.gasLimit, fee)} :
          \E new \in {ExecuteForPayload(id, txs)} :
             IF txs = old.txs \/ txs = <<>> \/ new = None \/ ~Better(new, old)
             THEN EndRebuild(w)
             ELSE work' = [work EXCEPT ![w].pc = "blobs", ![w].new = new]
    /\ UNCHANGED <<rows, stored, head, pool, blobs, lock, tokens, cancelled, made>>

\* Mutant: a blob the pool no longer holds is left out of the bundle.
CollectBlobsMissing(w) ==
    /\ work[w].pc = "blobs"
    /\ work' = [work EXCEPT ![w].pc = "add",
                            ![w].old = SelectSeq(BlobsOf(work[w].new.txs), LAMBDA x : x \in blobs)]
    /\ UNCHANGED <<rows, stored, head, pool, blobs, lock, tokens, cancelled, made>>

\* The blobs are looked up again in the pool; one gone ends the rebuild.
CollectBlobs(w) ==
    /\ work[w].pc = "blobs"
    /\ LET bundle == BlobsOf(work[w].new.txs)
       IN IF Range(bundle) \subseteq blobs
          THEN work' = [work EXCEPT ![w].pc = "add", ![w].old = bundle]
          ELSE EndRebuild(w)
    /\ UNCHANGED <<rows, stored, head, pool, blobs, lock, tokens, cancelled, made>>

\* add_payload, whatever became of the row meanwhile.
AddPayload(w) ==
    /\ work[w].pc = "add"
    /\ rows' = Put(rows, work[w].id, [block |-> work[w].new, bundle |-> work[w].old])
    /\ EndRebuild(w)
    /\ UNCHANGED <<stored, head, pool, blobs, lock, tokens, cancelled, made>>

\* The token goes into cancel_tokens, the one it replaces is cancelled, the loop
\* is spawned; the call releases the lock and returns the id.
SpawnLoop(c, l) ==
    /\ work[c].pc = "register"
    /\ LET id == work[c].id
           old == IF Has(tokens, id) THEN {tokens[id]} ELSE {}
       IN /\ tokens' = Put(tokens, id, l)
          /\ cancelled' = (cancelled \union old) \ {l}
          /\ work' = [work EXCEPT ![c] = Idle, ![l] = [Idle EXCEPT !.pc = "round", !.id = id]]
    /\ lock' = None
    /\ UNCHANGED <<rows, stored, head, pool, blobs, made>>

\* The loop's condition, the slot's end and the wait; then a rebuild.
LoopRound(l) ==
    /\ work[l].pc = "round"
    /\ \/ l \notin cancelled /\ work[l].rounds < MaxRounds
          /\ work' = [work EXCEPT ![l].pc = "read", ![l].rounds = @ + 1]
       \/ work' = [work EXCEPT ![l].pc = "cleanup"]
    /\ UNCHANGED <<rows, stored, head, pool, blobs, lock, tokens, cancelled, made>>

\* Mutant: the entry is removed whoever owns it.
CleanupUnchecked(l) ==
    /\ work[l].pc = "cleanup"
    /\ tokens' = Without(tokens, {work[l].id})
    /\ work' = [work EXCEPT ![l] = Idle]
    /\ UNCHANGED <<rows, stored, head, pool, blobs, lock, cancelled, made>>

\* The loop takes its id's token out of cancel_tokens if both are cancelled or
\* neither is.
Cleanup(l) ==
    /\ work[l].pc = "cleanup"
    /\ LET id == work[l].id
           same == Has(tokens, id) /\ (tokens[id] \in cancelled) = (l \in cancelled)
       IN tokens' = IF same THEN Without(tokens, {id}) ELSE tokens
    /\ work' = [work EXCEPT ![l] = Idle]
    /\ UNCHANGED <<rows, stored, head, pool, blobs, lock, cancelled, made>>

\* newPayload of a built block: it is stored, and every row that holds it is
\* removed in the same batch.
Import(id) ==
    /\ Has(rows, id)
    /\ LET block == rows[id].block
       IN /\ stored' = stored \union {block}
          /\ rows' = Without(rows, {i \in DOMAIN rows : rows[i].block = block})
    /\ UNCHANGED <<head, pool, blobs, lock, tokens, cancelled, work, made>>

\* ------------------------------------------------------------ the mempool

NextNonce(s) ==
    Larger(head.header.stateRoot[s], IF pool[s] = <<>> THEN 0 ELSE pool[s][Len(pool[s])].nonce + 1)

\* A transaction, with its blobs, joins its sender's pending queue in the order of
\* the nonces (a replacement, or one to be queued, is not of interest here).
Submit(tx) ==
    LET queue == pool[tx.sender]
    IN /\ tx.nonce \in head.header.stateRoot[tx.sender] .. NextNonce(tx.sender)
       /\ \E k \in 0 .. Len(queue) :
             /\ \A i \in 1 .. k : queue[i].nonce < tx.nonce
             /\ \A i \in k + 1 .. Len(queue) : queue[i].nonce > tx.nonce
             /\ pool' = [pool EXCEPT ![tx.sender] =
                            SubSeq(@, 1, k) \o <<tx>> \o SubSeq(@, k + 1, Len(@))]
       /\ blobs' = blobs \union Range(tx.blobs)
       /\ UNCHANGED <<rows, stored, head, lock, tokens, cancelled, work, made>>

\* The listener drops what the head has made stale, which is first in its queue, and
\* its blobs.
DropStale ==
    LET Stale(tx) == tx.nonce < head.header.stateRoot[tx.sender]
        Old(s) == {i \in DOMAIN pool[s] : Stale(pool[s][i])}
        queues == [s \in Senders |-> SubSeq(pool[s], Cardinality(Old(s)) + 1, Len(pool[s]))]
    IN /\ queues # pool
       /\ pool' = queues
       /\ blobs' = blobs \ UNION {Range(tx.blobs) : tx \in
                      UNION {{t \in Range(pool[s]) : Stale(t)} : s \in Senders}}
       /\ UNCHANGED <<rows, stored, head, lock, tokens, cancelled, work, made>>

\* Revalidation takes any pending transaction out (its sender's balance no longer
\* covers it), and its blobs.
Evict(s, i) ==
    /\ pool' = [pool EXCEPT ![s] = SubSeq(@, 1, i - 1) \o SubSeq(@, i + 1, Len(@))]
    /\ blobs' = blobs \ Range(pool[s][i].blobs)
    /\ UNCHANGED <<rows, stored, head, lock, tokens, cancelled, work, made>>

\* ------------------------------------------------------------------- spec

Step(w) ==
    \/ AcquireLock(w) \/ BuildEmpty(w)
    \/ RebuildRead(w) \/ RebuildExecute(w) \/ CollectBlobs(w) \/ AddPayload(w)
    \/ \E l \in Free(Loops) : SpawnLoop(w, l)
    \/ LoopRound(w) \/ Cleanup(w)

Next ==
    \/ \E c \in Free(Calls), b \in stored, attr \in Attrs : ForkchoiceUpdated(c, b, attr)
    \/ \E w \in Workers : Step(w)
    \/ \E id \in DOMAIN rows : Import(id)
    \/ \E tx \in Txs : Submit(tx)
    \/ DropStale
    \/ \E s \in Senders : \E i \in DOMAIN pool[s] : Evict(s, i)

Spec == Init /\ [][Next]_vars

Running(l) == work[l].pc # "idle"

\* Each payload id has at most one loop that is not cancelled, and cancel_tokens
\* holds its token for as long as it runs: a second build of the id can always
\* cancel the first, whoever cleaned up before.
LiveLoopRegistered ==
    \A l \in Loops : Running(l) /\ l \notin cancelled =>
        Has(tokens, work[l].id) /\ tokens[work[l].id] = l

ImportedFrom(id) ==
    \E b \in stored : b.header.number = id.head.header.number + 1
                      /\ b.header.timestamp = id.attr.timestamp

\* Until a block of the payload's slot has been imported, a row once written
\* stays, and what replaces it is never worth less to the proposer.
ValueNeverFalls ==
    [][\A id \in DOMAIN rows : ~ImportedFrom(id)' =>
          Has(rows', id) /\ BlockValue(rows'[id].block) >= BlockValue(rows[id].block)]_vars

\* The block of a row, were it built under another schedule.
Payload(id, row, config) ==
    LET old == row.block.header
        header == PayloadHeader(id.head.header, id.attr, config, UnwrapOr(old.blobGas, 0),
                                old.gasUsed, row.block.txs, old.stateRoot)
    IN [header |-> header, txs |-> row.block.txs, withdrawals |-> header.withdrawalsRoot]

Returns(id, row, config) ==
    LET block == Payload(id, row, config)
        Handed(v) == GetPayload(v, block, config)
        taking == {v \in 1..4 : Serves(v, ForkOf(block.header, config)) /\ Takes(v, Handed(v), config)}
    IN /\ taking # {}
       /\ \A v \in taking : /\ NewPayload(v, Handed(v), id.attr.beaconRoot, config) = block
                           /\ Handed(v).hash = block.header

\* What engine_getPayload hands out comes back unchanged.  For every row as it is
\* written, and under every schedule by which the block is one from Paris on, some
\* version of getPayload serves the id and newPayload of that version takes the
\* answer; every version that takes it rebuilds the block the hash is of, so that
\* the node does not reject its own payload.
HandedOutReturns ==
    [][\A id \in DOMAIN rows' : ~(Has(rows, id) /\ rows[id] = rows'[id]) =>
          \A config \in Schedules :
              ForkOf(Payload(id, rows'[id], config).header, config) >= Paris =>
                  Returns(id, rows'[id], config)]_vars
=============================================================================
