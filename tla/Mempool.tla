------------------------------ MODULE Mempool ------------------------------
(* The transaction pool: submission (engine/api.rs), the pending and queued  *)
(* queues (mempool/mempool.rs), revalidation (mempool/mempool_provider.rs)   *)
(* and the listener task that follows the canonical chain                    *)
(* (mempool/listener.rs).                                                    *)
(*                                                                           *)
(* The queues of DashMap<Address, Vector<Transaction>> are the sets pending  *)
(* and queued: a sender's queue is the sender's transactions in the set, in  *)
(* nonce order, its back the one with the highest nonce.  That a queue has   *)
(* one transaction per nonce, on which its binary searches rest, is a        *)
(* property and not a part of the representation.                            *)
(*                                                                           *)
(* The runtime is multi-threaded and a queue's lock is held for one lookup,  *)
(* insertion or removal at a time; each of these is a step.                  *)
EXTENDS Integers, FiniteSets, Sequences

CONSTANTS
    Tx, Account, Blob, Block,
    Genesis,        \* the block the node starts from
    Call,           \* tasks that submit transactions
    Listener,       \* the task of MempoolListener::new
    None,
    Sender, Nonce,  \* of a transaction
    GasPrice,       \* gas_price().unwrap_or_default(): 0 unless legacy or EIP-2930
    MaxFee, Tip,    \* max_fee_per_gas; the cap on the tip (max_fee_per_gas for legacy)
    Cost,           \* gas_limit * max_fee_per_gas + value
    Carries,        \* blob hashes of a transaction
    Lineage,        \* a block and its ancestors above Genesis, newest first
    BaseFee, Includes,
    NonceAt, FundsAt,  \* of the accounts in the state after a block
    MaxSize,        \* MAX_MEMPOOL_SIZE
    Depth,          \* bound: newly canonical blocks per forkchoiceUpdated
    Submissions,    \* bound: submissions in a behaviour
    Interleaved     \* bound: FALSE lets calls and blocks wait for each other

ASSUME TxAssumption ==
    /\ Sender \in [Tx -> Account]
    /\ Nonce \in [Tx -> Nat] /\ GasPrice \in [Tx -> Nat]
    /\ MaxFee \in [Tx -> Nat] /\ Tip \in [Tx -> Nat] /\ Cost \in [Tx -> Nat]
    /\ Carries \in [Tx -> SUBSET Blob]
    /\ None \notin Tx \cup Account \cup Block

ASSUME ChainAssumption ==
    /\ Genesis \in Block
    /\ Lineage \in [Block -> Seq(Block)]
    /\ BaseFee \in [Block -> Nat]
    /\ Includes \in [Block -> SUBSET Tx]
    /\ NonceAt \in [Block -> [Account -> Nat]]
    /\ FundsAt \in [Block -> [Account -> Nat]]

Blocks(b) == {Lineage[b][i] : i \in DOMAIN Lineage[b]}
Senders(b) == {Sender[t] : t \in Includes[b]}

\* The ancestors of a block's ancestor are the rest of the block's own.
ASSUME LineageAssumption ==
    \A b \in Block : \A i \in DOMAIN Lineage[b] :
        Lineage[Lineage[b][i]] = SubSeq(Lineage[b], i, Len(Lineage[b]))

\* An account's nonce only grows along a chain, and only in blocks that include a
\* transaction of the account: executing a transaction raises its sender's nonce and
\* no other account's that can send one.
ASSUME StateAssumption ==
    \A b, d \in Block : Blocks(d) \subseteq Blocks(b) => \A a \in Account :
        /\ NonceAt[d][a] <= NonceAt[b][a]
        /\ NonceAt[d][a] # NonceAt[b][a] => \E e \in Blocks(b) \ Blocks(d) : a \in Senders(e)

ASSUME BoundAssumption ==
    /\ Listener \notin Call
    /\ MaxSize \in Nat /\ Depth \in Nat /\ Submissions \in Nat
    /\ Interleaved \in BOOLEAN

VARIABLES
    pending, queued,  \* MempoolInner::pending_transactions, queued_transactions
    pooled,           \* hashes of pooled_envelopes and pooled_bytes
    blobs,            \* MempoolInner::blobs
    base_fee,
    head,             \* CanonicalState's head
    flat,             \* the block whose state the account table holds
    executed,         \* blocks executed so far
    switching,        \* the old head while a forkchoiceUpdated is under way
    events,           \* the listener's channel
    discarded,        \* transactions of the blocks a switch takes out of the chain
    announced,        \* transactions of discarded blocks sent as NewTransaction
    submitted,        \* submissions so far
    pc,
    tx,               \* a call's transaction
    nonce,            \* the state nonce a call has read
    is_pending,       \* the queue it has chosen
    evict_fee,        \* the base fee enforce_capacity has read
    emptied,          \* the queue an eviction has emptied
    acct, next, held, \* promote_queued: account, next nonce, transaction in hand
    event,            \* the event the listener processes
    scope, passes,    \* revalidate: accounts, and how often it is still to run
    to_remove, to_promote

pools == <<pending, queued, pooled, blobs>>
chain == <<head, flat, executed, switching, events, discarded, announced>>
calls == <<submitted, tx, nonce, is_pending, evict_fee, emptied>>
listening == <<event, scope, passes, to_remove, to_promote>>
promotion == <<acct, next, held>>
vars == <<pools, base_fee, chain, calls, listening, promotion, pc>>

Worker == Call \cup {Listener}
Event == [kind : {"canonical", "reorg"}, block : Block]
Queue == (Account \X BOOLEAN) \cup {None}

CallPc == {"idle", "nonce", "add", "evict", "drop", "insert", "take", "put"}
ListenerPc == {"idle", "fee", "scan", "sweep", "promote", "take", "put"}

\* Types of the pool's state and of the tasks' local variables.
TypeOK ==
    /\ pending \in SUBSET Tx /\ queued \in SUBSET Tx
    /\ pooled \in SUBSET Tx /\ blobs \in SUBSET Blob
    /\ base_fee \in Nat
    /\ head \in Block /\ flat \in Block /\ executed \in SUBSET Block
    /\ switching \in Block \cup {None}
    /\ events \in Seq(Event) /\ discarded \in SUBSET Tx /\ announced \in SUBSET Tx
    /\ submitted \in 0 .. Submissions
    /\ pc \in [Worker -> CallPc \cup ListenerPc]
    /\ tx \in [Call -> Tx \cup {None}]
    /\ nonce \in [Call -> Nat] /\ evict_fee \in [Call -> Nat]
    /\ is_pending \in [Call -> BOOLEAN] /\ emptied \in [Call -> Queue]
    /\ acct \in [Worker -> Account \cup {None}]
    /\ next \in [Worker -> Nat]
    /\ held \in [Worker -> Tx \cup {None}]
    /\ event \in Event \cup {None}
    /\ scope \in SUBSET Account /\ passes \in 0 .. 2
    /\ to_remove \in SUBSET Tx /\ to_promote \in SUBSET Account

Init ==
    /\ pending = {} /\ queued = {} /\ pooled = {} /\ blobs = {}
    /\ base_fee = 0
    /\ head = Genesis /\ flat = Genesis /\ executed = {Genesis} /\ switching = None
    /\ events = <<>> /\ discarded = {} /\ announced = {} /\ submitted = 0
    /\ pc = [w \in Worker |-> "idle"]
    /\ tx = [c \in Call |-> None] /\ nonce = [c \in Call |-> 0]
    /\ is_pending = [c \in Call |-> FALSE]
    /\ evict_fee = [c \in Call |-> 0] /\ emptied = [c \in Call |-> None]
    /\ acct = [w \in Worker |-> None] /\ next = [w \in Worker |-> 0]
    /\ held = [w \in Worker |-> None]
    /\ event = None /\ scope = {} /\ passes = 0
    /\ to_remove = {} /\ to_promote = {}

-----------------------------------------------------------------------------
(* Queues.                                                                   *)

OfSender(S, a) == {t \in S : Sender[t] = a}
SameSlot(t, u) == Sender[t] = Sender[u] /\ Nonce[t] = Nonce[u]
Rivals(S, t) == {u \in S : SameSlot(u, t)}

\* queue.back()
IsBack(t, S) == t \in S /\ \A u \in OfSender(S, Sender[t]) : Nonce[u] <= Nonce[t]

\* The nonce after the back of a's pending queue, n if a has none: one value.
NextPending(a, n) ==
    IF OfSender(pending, a) = {} THEN {n}
    ELSE {Nonce[t] + 1 : t \in {u \in OfSender(pending, a) : IsBack(u, pending)}}

\* remove_transactions, blobs and pooled forms of what it removes included.
RemoveTransactions(S) ==
    LET removed == (pending \cup queued) \cap S
    IN  /\ pending' = pending \ S
        /\ queued' = queued \ S
        /\ pooled' = pooled \ removed
        /\ blobs' = blobs \ UNION {Carries[t] : t \in removed}

EffectiveTip(t, fee) ==
    IF MaxFee[t] < fee THEN 0
    ELSE IF MaxFee[t] - fee < Tip[t] THEN MaxFee[t] - fee ELSE Tip[t]

-----------------------------------------------------------------------------
(* Submission.                                                               *)

\* With ~Interleaved a call starts when the listener has nothing to do, and a
\* block comes when no call is under way.
Settled == switching = None /\ events = <<>> /\ pc[Listener] = "idle" /\ flat = head
CallsIdle == \A c \in Call : pc[c] = "idle"

\* submit_transaction_with_source up to the nonce lookup.  The checks of chain
\* id, fork and init code size depend on the transaction alone.
Submit(c, t) ==
    /\ pc[c] = "idle"
    /\ submitted < Submissions
    /\ Interleaved \/ Settled
    /\ submitted' = submitted + 1
    /\ tx' = [tx EXCEPT ![c] = t]
    /\ acct' = [acct EXCEPT ![c] = Sender[t]]
    /\ pc' = [pc EXCEPT ![c] = "nonce"]
    /\ UNCHANGED <<pending, queued, base_fee, chain, nonce, is_pending, evict_fee, emptied, listening, next, held>>

SubmitTransaction(c, t) ==
    /\ Submit(c, t)
    /\ UNCHANGED <<pooled, blobs>>

\* import_pooled_transaction_with_source: the pooled form and the blobs are kept
\* before anything is checked.
ImportPooled(c, t) ==
    /\ Submit(c, t)
    /\ pooled' = pooled \cup {t}
    /\ blobs' = blobs \cup Carries[t]

\* transaction_count(from, head, None) reads the account table: without a state
\* root the block it is given plays no part.
ReadNonce(c) ==
    /\ pc[c] = "nonce"
    /\ nonce' = [nonce EXCEPT ![c] = NonceAt[flat][acct[c]]]
    /\ pc' = [pc EXCEPT ![c] = "add"]
    /\ UNCHANGED <<pools, base_fee, chain, submitted, tx, is_pending, evict_fee, emptied, listening, promotion>>

\* The call is over: its locals go.
Done(c) ==
    /\ tx' = [tx EXCEPT ![c] = None]
    /\ nonce' = [nonce EXCEPT ![c] = 0]
    /\ is_pending' = [is_pending EXCEPT ![c] = FALSE]
    /\ evict_fee' = [evict_fee EXCEPT ![c] = 0]
    /\ acct' = [acct EXCEPT ![c] = None]
    /\ next' = [next EXCEPT ![c] = 0]
    /\ pc' = [pc EXCEPT ![c] = "idle"]

\* add_transaction: a nonce below the state's is refused.
RefuseLow(c) ==
    /\ pc[c] = "add"
    /\ Nonce[tx[c]] < nonce[c]
    /\ Done(c)
    /\ UNCHANGED <<pools, base_fee, chain, submitted, emptied, listening, held>>

\* add_transaction chooses the queue from the pending queue as it is now.
\* insert_into_queue then enforces the capacity, one time in 16.
Classify(c) ==
    /\ pc[c] = "add"
    /\ Nonce[tx[c]] >= nonce[c]
    /\ \E m \in NextPending(acct[c], nonce[c]) :
          is_pending' = [is_pending EXCEPT ![c] = Nonce[tx[c]] <= m \/ Nonce[tx[c]] <= nonce[c]]
    /\ \/ /\ pc' = [pc EXCEPT ![c] = "insert"]
          /\ UNCHANGED evict_fee
       \/ /\ pc' = [pc EXCEPT ![c] = "evict"]
          /\ evict_fee' = [evict_fee EXCEPT ![c] = base_fee]
    /\ UNCHANGED <<pools, base_fee, chain, submitted, tx, nonce, emptied, listening, promotion>>

-----------------------------------------------------------------------------
(* enforce_capacity.                                                         *)

Size == Cardinality(pending) + Cardinality(queued)

\* The transaction at the back of a queue with the lowest tip; queued ones go
\* first.  What is kept beside it (blobs, pooled form) stays.
Worst(S, fee) ==
    LET backs == {t \in S : IsBack(t, S)}
    IN  {t \in backs : \A u \in backs : EffectiveTip(t, fee) <= EffectiveTip(u, fee)}

Evict(c) ==
    /\ pc[c] = "evict"
    /\ Size > MaxSize
    /\ LET from_pending == queued = {}
       IN  \E t \in Worst(IF from_pending THEN pending ELSE queued, evict_fee[c]) :
              /\ pending' = IF from_pending THEN pending \ {t} ELSE pending
              /\ queued' = IF from_pending THEN queued ELSE queued \ {t}
              /\ IF OfSender(IF from_pending THEN pending ELSE queued, Sender[t]) = {t}
                 THEN /\ emptied' = [emptied EXCEPT ![c] = <<Sender[t], from_pending>>]
                      /\ pc' = [pc EXCEPT ![c] = "drop"]
                 ELSE UNCHANGED <<emptied, pc>>
    /\ UNCHANGED <<pooled, blobs, base_fee, chain, submitted, tx, nonce, is_pending, evict_fee, listening, promotion>>

\* drop(q), then the queue is removed by its key: whatever it holds by now.
DropQueue(c) ==
    /\ pc[c] = "drop"
    /\ LET a == emptied[c][1]
       IN  IF emptied[c][2]
           THEN pending' = pending \ OfSender(pending, a) /\ UNCHANGED queued
           ELSE queued' = queued \ OfSender(queued, a) /\ UNCHANGED pending
    /\ emptied' = [emptied EXCEPT ![c] = None]
    /\ pc' = [pc EXCEPT ![c] = "evict"]
    /\ UNCHANGED <<pooled, blobs, base_fee, chain, submitted, tx, nonce, is_pending, evict_fee, listening, promotion>>

WithinCapacity(c) ==
    /\ pc[c] = "evict"
    /\ Size <= MaxSize
    /\ pc' = [pc EXCEPT ![c] = "insert"]
    /\ UNCHANGED <<pools, base_fee, chain, calls, listening, promotion>>

-----------------------------------------------------------------------------
(* insert_into_queue.                                                        *)

Target(c) == IF is_pending[c] THEN pending ELSE queued

\* A new nonce: the transaction goes in, and from pending its queued successors
\* are promoted.
Insert(c) ==
    /\ pc[c] = "insert"
    /\ Rivals(Target(c), tx[c]) = {}
    /\ IF is_pending[c]
       THEN /\ pending' = pending \cup {tx[c]}
            /\ next' = [next EXCEPT ![c] = Nonce[tx[c]] + 1]
            /\ pc' = [pc EXCEPT ![c] = "take"]
            /\ UNCHANGED <<queued, tx, nonce, is_pending, evict_fee, acct>>
       ELSE /\ queued' = queued \cup {tx[c]}
            /\ Done(c)
            /\ UNCHANGED pending
    /\ UNCHANGED <<pooled, blobs, base_fee, chain, submitted, emptied, listening, held>>

\* The price that replaces u, in integers.
Outbids(t, u) == GasPrice[t] >= GasPrice[u] + GasPrice[u] \div 10

\* A nonce the queue has: the dearer transaction takes the place of the old one,
\* whose blobs and pooled form are removed.
Replace(c) ==
    /\ pc[c] = "insert"
    /\ \E old \in Rivals(Target(c), tx[c]) :
          /\ Outbids(tx[c], old)
          /\ IF is_pending[c]
             THEN pending' = (pending \ {old}) \cup {tx[c]} /\ UNCHANGED queued
             ELSE queued' = (queued \ {old}) \cup {tx[c]} /\ UNCHANGED pending
          /\ blobs' = blobs \ Carries[old]
          /\ pooled' = pooled \ {old}
    /\ Done(c)
    /\ UNCHANGED <<base_fee, chain, submitted, emptied, listening, held>>

RefuseReplacement(c) ==
    /\ pc[c] = "insert"
    /\ \E old \in Rivals(Target(c), tx[c]) : ~Outbids(tx[c], old)
    /\ Done(c)
    /\ UNCHANGED <<pools, base_fee, chain, submitted, emptied, listening, held>>

-----------------------------------------------------------------------------
(* promote_queued.                                                           *)

\* The queued transaction with the next nonce is taken out of its queue ...
Take(w) ==
    /\ pc[w] = "take"
    /\ \E t \in OfSender(queued, acct[w]) :
          /\ Nonce[t] = next[w]
          /\ queued' = queued \ {t}
          /\ held' = [held EXCEPT ![w] = t]
    /\ pc' = [pc EXCEPT ![w] = "put"]
    /\ UNCHANGED <<pending, pooled, blobs, base_fee, chain, calls, listening, acct, next>>

\* Mutant of Put: it does not look for the nonce.
PutUnchecked(w) ==
    /\ pc[w] = "put"
    /\ pending' = pending \cup {held[w]}
    /\ next' = [next EXCEPT ![w] = @ + 1]
    /\ held' = [held EXCEPT ![w] = None]
    /\ pc' = [pc EXCEPT ![w] = "take"]
    /\ UNCHANGED <<queued, pooled, blobs, base_fee, chain, calls, listening, acct>>

\* ... and put into pending, unless pending has that nonce by now.
Put(w) ==
    /\ pc[w] = "put"
    /\ pending' = IF Rivals(pending, held[w]) = {} THEN pending \cup {held[w]} ELSE pending
    /\ next' = [next EXCEPT ![w] = @ + 1]
    /\ held' = [held EXCEPT ![w] = None]
    /\ pc' = [pc EXCEPT ![w] = "take"]
    /\ UNCHANGED <<queued, pooled, blobs, base_fee, chain, calls, listening, acct>>

NothingToTake(w) ==
    /\ pc[w] = "take"
    /\ \A t \in OfSender(queued, acct[w]) : Nonce[t] # next[w]

Promoted(c) ==
    /\ NothingToTake(c)
    /\ Done(c)
    /\ UNCHANGED <<pools, base_fee, chain, submitted, emptied, listening, held>>

-----------------------------------------------------------------------------
(* The listener.                                                             *)

\* process_canonical_block removes what the block includes; process_reorg has
\* nothing to remove.
Receive ==
    /\ pc[Listener] = "idle"
    /\ events # <<>>
    /\ event' = Head(events)
    /\ events' = Tail(events)
    /\ RemoveTransactions(IF Head(events).kind = "canonical" THEN Includes[Head(events).block] ELSE {})
    /\ pc' = [pc EXCEPT ![Listener] = "fee"]
    /\ UNCHANGED <<base_fee, head, flat, executed, switching, discarded, announced, calls, scope, passes, to_remove, to_promote, promotion>>

\* process_reorg looks for the header of the event's block, and without one only
\* logs.  The blocks executed so far have theirs, a block in the Payloads table
\* has none until the branch is made canonical.
HeaderFound(ev) == ev.kind = "canonical" \/ ev.block \in executed

\* Mutant of Revalidations: a block with the same fee revalidates nobody.
RevalidationsBelow(ev, old) ==
    LET all == BaseFee[ev.block] > old
    IN  CASE ev.kind = "reorg" /\ HeaderFound(ev) -> <<Account, IF all THEN 2 ELSE 1>>
          [] ev.kind = "canonical" /\ all -> <<Account, 1>>
          [] ev.kind = "canonical" /\ BaseFee[ev.block] < old /\ Includes[ev.block] # {} -> <<Senders(ev.block), 1>>
          [] OTHER -> <<{}, 0>>

\* A higher base fee revalidates everything.  A block whose fee is not higher
\* revalidates its senders, a reorg to a known header everything (once more).
Revalidations(ev, old) ==
    LET all == BaseFee[ev.block] > old
    IN  CASE ev.kind = "reorg" /\ HeaderFound(ev) -> <<Account, IF all THEN 2 ELSE 1>>
          [] ev.kind = "canonical" /\ all -> <<Account, 1>>
          [] ev.kind = "canonical" /\ ~all /\ Includes[ev.block] # {} -> <<Senders(ev.block), 1>>
          [] OTHER -> <<{}, 0>>

UpdateBaseFee ==
    /\ pc[Listener] = "fee"
    /\ base_fee' = IF HeaderFound(event) THEN BaseFee[event.block] ELSE base_fee
    /\ scope' = Revalidations(event, base_fee)[1]
    /\ passes' = Revalidations(event, base_fee)[2]
    /\ pc' = [pc EXCEPT ![Listener] = IF passes' = 0 THEN "idle" ELSE "scan"]
    /\ event' = None
    /\ UNCHANGED <<pools, chain, calls, to_remove, to_promote, promotion>>

\* process_address for one transaction, against the account table.
StillValid(t) ==
    /\ MaxFee[t] >= base_fee
    /\ Nonce[t] >= NonceAt[flat][Sender[t]]
    /\ FundsAt[flat][Sender[t]] >= Cost[t]
    /\ Carries[t] \subseteq blobs

\* Mutant of Scan: only accounts that lose a transaction are promoted.
ScanLosers ==
    /\ pc[Listener] = "scan"
    /\ to_remove' = {t \in pending \cup queued : Sender[t] \in scope /\ ~StillValid(t)}
    /\ to_promote' = {Sender[t] : t \in to_remove'}
    /\ pc' = [pc EXCEPT ![Listener] = "sweep"]
    /\ UNCHANGED <<pools, base_fee, chain, calls, event, scope, passes, promotion>>

\* revalidate collects what to remove and whose queue to promote ...
Scan ==
    /\ pc[Listener] = "scan"
    /\ to_remove' = {t \in pending \cup queued : Sender[t] \in scope /\ ~StillValid(t)}
    /\ to_promote' = {Sender[t] : t \in {u \in queued : Sender[u] \in scope}}
    /\ pc' = [pc EXCEPT ![Listener] = "sweep"]
    /\ UNCHANGED <<pools, base_fee, chain, calls, event, scope, passes, promotion>>

\* ... removes it ...
Sweep ==
    /\ pc[Listener] = "sweep"
    /\ RemoveTransactions(to_remove)
    /\ to_remove' = {}
    /\ pc' = [pc EXCEPT ![Listener] = "promote"]
    /\ UNCHANGED <<base_fee, chain, calls, event, scope, passes, to_promote, promotion>>

\* ... and promotes the accounts one by one, from the back of their pending queue.
PromoteAccount ==
    /\ pc[Listener] = "promote"
    /\ \E a \in to_promote :
          /\ to_promote' = to_promote \ {a}
          /\ acct' = [acct EXCEPT ![Listener] = a]
          /\ \E m \in NextPending(a, NonceAt[flat][a]) : next' = [next EXCEPT ![Listener] = m]
    /\ pc' = [pc EXCEPT ![Listener] = "take"]
    /\ UNCHANGED <<pools, base_fee, chain, calls, event, scope, passes, to_remove, held>>

AccountPromoted ==
    /\ NothingToTake(Listener)
    /\ acct' = [acct EXCEPT ![Listener] = None]
    /\ next' = [next EXCEPT ![Listener] = 0]
    /\ pc' = [pc EXCEPT ![Listener] = "promote"]
    /\ UNCHANGED <<pools, base_fee, chain, calls, listening, held>>

Revalidated ==
    /\ pc[Listener] = "promote"
    /\ to_promote = {}
    /\ passes' = passes - 1
    /\ scope' = IF passes = 1 THEN {} ELSE scope
    /\ pc' = [pc EXCEPT ![Listener] = IF passes = 1 THEN "idle" ELSE "scan"]
    /\ UNCHANGED <<pools, base_fee, chain, calls, event, to_remove, to_promote, promotion>>

-----------------------------------------------------------------------------
(* The chain, as the pool sees it.  Forkchoice has it in full; here the       *)
(* account table follows the last executed block.                            *)

ChainMoves == switching = None /\ (Interleaved \/ CallsIdle)

Fresh(b) == Blocks(b) \ Blocks(head)

\* newPayload executes a child of the last executed block: the account table
\* changes before the block is canonical.
ImportBlock(b) ==
    /\ ChainMoves
    /\ b \notin executed
    /\ Lineage[b] = <<b>> \o Lineage[flat]
    /\ flat' = b
    /\ executed' = executed \cup {b}
    /\ UNCHANGED <<pools, base_fee, head, switching, events, discarded, announced, calls, listening, promotion, pc>>

\* forkchoiceUpdated to an executed descendant of the head: the head is set ...
ExtendHead(b) ==
    /\ ChainMoves
    /\ b # head /\ Blocks(head) \subseteq Blocks(b) /\ Blocks(b) \subseteq Blocks(flat)
    /\ Cardinality(Fresh(b)) <= Depth
    /\ head' = b
    /\ switching' = head
    /\ UNCHANGED <<pools, base_fee, flat, executed, events, discarded, announced, calls, listening, promotion, pc>>

ReorgEvent(b) == [kind |-> "reorg", block |-> b]

\* ... or to a branch that is in the Payloads table only: the account table is
\* reverted, and the listener is told of the common ancestor (revert_to_height)
\* and of the new head (handle_reorgs_for_mempool).
SwitchBranch(b) ==
    /\ ChainMoves
    /\ flat = head
    /\ ~(Blocks(head) \subseteq Blocks(b)) /\ ~(Blocks(b) \subseteq Blocks(head))
    /\ Fresh(b) \cap executed = {} /\ Cardinality(Fresh(b)) <= Depth
    /\ \E common \in Block :
          /\ Blocks(common) = Blocks(head) \cap Blocks(b)
          /\ flat' = common
          /\ events' = events \o <<ReorgEvent(common), ReorgEvent(b)>>
    /\ head' = b
    /\ switching' = head
    /\ discarded' = UNION {Includes[d] : d \in Blocks(head) \ Blocks(b)}
    /\ UNCHANGED <<pools, base_fee, executed, announced, calls, listening, promotion, pc>>

\* handle_reorgs_for_mempool goes on to restore the blobs it finds of the
\* discarded blocks and to announce their transactions; it leaves the queues alone.
RestoreDiscarded ==
    /\ switching # None /\ discarded # {}
    /\ \E found \in {{}, UNION {Carries[t] : t \in discarded}} : blobs' = blobs \cup found
    /\ announced' = announced \cup discarded
    /\ discarded' = {}
    /\ UNCHANGED <<pending, queued, pooled, base_fee, head, flat, executed, switching, events, calls, listening, promotion, pc>>

CanonicalEvent(b) == [kind |-> "canonical", block |-> b]

\* Then the branch is executed where it was not yet, and its blocks go to the
\* listener, newest first.
Canonicalize ==
    /\ switching # None /\ discarded = {}
    /\ flat' = IF Blocks(flat) \subseteq Blocks(head) THEN head ELSE flat
    /\ executed' = executed \cup Blocks(head)
    /\ \E n \in 0 .. Len(Lineage[head]) :
          /\ \A i \in 1 .. n : Lineage[head][i] \notin Blocks(switching)
          /\ n < Len(Lineage[head]) => Lineage[head][n + 1] \in Blocks(switching)
          /\ events' = events \o [i \in 1 .. n |-> CanonicalEvent(Lineage[head][i])]
    /\ switching' = None
    /\ UNCHANGED <<pools, base_fee, head, discarded, announced, calls, listening, promotion, pc>>

-----------------------------------------------------------------------------
CallStep(c) ==
    \/ ReadNonce(c) \/ RefuseLow(c) \/ Classify(c)
    \/ Evict(c) \/ DropQueue(c) \/ WithinCapacity(c)
    \/ Insert(c) \/ Replace(c) \/ RefuseReplacement(c)
    \/ Take(c) \/ Put(c) \/ Promoted(c)

ListenerStep ==
    \/ Receive \/ UpdateBaseFee \/ Scan \/ Sweep \/ PromoteAccount
    \/ Take(Listener) \/ Put(Listener) \/ AccountPromoted \/ Revalidated

ChainStep ==
    \/ \E b \in Block : ImportBlock(b) \/ ExtendHead(b) \/ SwitchBranch(b)
    \/ RestoreDiscarded \/ Canonicalize

Next ==
    \/ \E c \in Call, t \in Tx : SubmitTransaction(c, t) \/ ImportPooled(c, t)
    \/ \E c \in Call : CallStep(c)
    \/ ListenerStep
    \/ ChainStep

Spec == Init /\ [][Next]_vars

-----------------------------------------------------------------------------
(* Properties.                                                               *)

\* No queue ever holds two transactions of a nonce: the binary searches of
\* insert_into_queue and promote_queued find the one there is, whatever calls
\* and listener do between the choice of a queue and the insertion.
OnePerNonce ==
    \A S \in {pending, queued} : \A t, u \in S : SameSlot(t, u) => t = u

\* Once the listener has caught up with the head, the pool has no transaction
\* whose nonce the chain has used: not the included ones (removed by hash) and
\* not their rivals (removed by revalidation of the block's senders).
NoStalePooled ==
    Settled /\ CallsIdle => \A t \in pending \cup queued : Nonce[t] >= NonceAt[head][Sender[t]]

\* Once the listener has caught up, no transaction waits in the queued pool that
\* is next in its sender's turn: promotion after an insertion or a revalidation,
\* from the back of the pending queue, leaves none behind.
NoStrandedQueued ==
    Settled /\ CallsIdle =>
        \A t \in queued : Nonce[t] \notin NextPending(Sender[t], NonceAt[flat][Sender[t]])

=============================================================================
