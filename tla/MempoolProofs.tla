--------------------------- MODULE MempoolProofs ---------------------------
(* Proofs about Mempool, for any transactions, calls, blocks and bounds.     *)
EXTENDS Mempool, TLAPS

\* Sending a batch keeps what was in the channel at its place ...
LEMMA BatchKeeps ==
    ASSUME NEW S, NEW q \in Seq(S), NEW r \in Seq(S)
    PROVE  \A i \in DOMAIN q : i \in DOMAIN (q \o r) /\ (q \o r)[i] = q[i]
OBVIOUS

\* ... and puts the batch behind it.
LEMMA BatchSent ==
    ASSUME NEW S, NEW q \in Seq(S), NEW r \in Seq(S), NEW k \in 1 .. Len(r)
    PROVE  Len(q) + k \in DOMAIN (q \o r) /\ (q \o r)[Len(q) + k] = r[k]
OBVIOUS

\* Receiving takes the first message; the others move up by one.
LEMMA Received ==
    ASSUME NEW S, NEW q \in Seq(S), q # <<>>
    PROVE  /\ Head(q) = q[1]
           /\ \A i \in DOMAIN q : i # 1 => i - 1 \in DOMAIN Tail(q) /\ Tail(q)[i - 1] = q[i]
OBVIOUS

\* A batch is a list of as many messages as it has indices.
LEMMA Batch ==
    ASSUME NEW S, NEW n \in Nat, NEW f \in [1 .. n -> S]
    PROVE  f \in Seq(S) /\ Len(f) = n
OBVIOUS

\* A place in a list is among the first n or after them.
LEMMA UpTo ==
    ASSUME NEW S, NEW q \in Seq(S), NEW n \in 0 .. Len(q), NEW k \in DOMAIN q
    PROVE  n \in Nat /\ (k \in 1 .. n \/ (n < Len(q) /\ n + 1 \in DOMAIN q /\ n + 1 <= k))
OBVIOUS

\* The end of a list has the list's elements from its first place on.
LEMMA Ending ==
    ASSUME NEW S, NEW q \in Seq(S), NEW i \in DOMAIN q
    PROVE  LET r == SubSeq(q, i, Len(q))
           IN  /\ {r[k] : k \in DOMAIN r} \subseteq {q[k] : k \in DOMAIN q}
               /\ \A j \in DOMAIN q : i <= j => q[j] \in {r[k] : k \in DOMAIN r}
<1> DEFINE r == SubSeq(q, i, Len(q))
<1>1. /\ \A k \in DOMAIN r : i + k - 1 \in DOMAIN q /\ r[k] = q[i + k - 1]
      /\ \A j \in DOMAIN q : i <= j => j - i + 1 \in DOMAIN r /\ r[j - i + 1] = q[j]
  OBVIOUS
<1> HIDE DEF r
<1>2. \A k \in DOMAIN r : r[k] \in {q[m] : m \in DOMAIN q}
  BY <1>1
<1>3. {r[k] : k \in DOMAIN r} \subseteq {q[k] : k \in DOMAIN q}
  BY <1>2, Zenon
<1>4. \A j \in DOMAIN q : i <= j => q[j] \in {r[k] : k \in DOMAIN r}
  BY <1>1, Zenon
<1> QED BY <1>3, <1>4, Zenon DEF r

\* Nonces compare as numbers.
LEMMA Compared == \A m, n \in Nat : m >= n <=> ~(m < n)
OBVIOUS

LEMMA StillBelow == \A l, m, n \in Nat : l < m /\ m <= n => l < n
OBVIOUS

\* A queue with one transaction per nonce.
Unique(S) == \A t, u \in S : SameSlot(t, u) => t = u

\* Taking transactions out of a queue (removal, eviction, promotion) keeps one
\* per nonce.
LEMMA SmallerUnique ==
    ASSUME NEW S, NEW R, Unique(S), R \subseteq S
    PROVE  Unique(R)
BY Zenon DEF Unique

\* Adding a transaction whose nonce the queue does not have, as insert_into_queue
\* and promote_queued do, keeps one per nonce.
LEMMA InsertUnique ==
    ASSUME NEW S, NEW t, Unique(S), Rivals(S, t) = {}
    PROVE  Unique(S \cup {t})
BY Zenon DEF Unique, Rivals, SameSlot

\* Putting a transaction in the place of the one with its nonce, as a replacement
\* does, keeps one per nonce.
LEMMA ReplaceUnique ==
    ASSUME NEW S, NEW t, NEW old \in Rivals(S, t), Unique(S)
    PROVE  Unique((S \ {old}) \cup {t})
BY Zenon DEF Unique, Rivals, SameSlot

\* remove_transactions shrinks both queues.
LEMMA RemoveShrinks ==
    ASSUME NEW S, RemoveTransactions(S)
    PROVE  pending' \subseteq pending /\ queued' \subseteq queued
BY Zenon DEF RemoveTransactions

Both == Unique(pending) /\ Unique(queued)

\* A step that adds to no queue keeps one transaction per nonce in both.
LEMMA ShrinkKeeps ==
    ASSUME Both, pending' \subseteq pending, queued' \subseteq queued
    PROVE  Both'
BY SmallerUnique, Zenon DEF Both

\* A call's steps keep one transaction per nonce in both queues.
LEMMA CallKeeps ==
    ASSUME Both, NEW c \in Call, CallStep(c)
    PROVE  Both'
<1>1. CASE ReadNonce(c) \/ RefuseLow(c) \/ Classify(c) \/ WithinCapacity(c) \/ RefuseReplacement(c) \/ Promoted(c)
  <2>1. UNCHANGED <<pending, queued>>
    BY <1>1, Zenon DEF ReadNonce, RefuseLow, Classify, WithinCapacity, RefuseReplacement, Promoted, pools
  <2> QED BY <2>1, ShrinkKeeps, Zenon
<1>2. CASE Evict(c)
  <2>1. pending' \subseteq pending /\ queued' \subseteq queued
    BY <1>2, Zenon DEF Evict
  <2> QED BY <2>1, ShrinkKeeps, Zenon
<1>3. CASE DropQueue(c)
  <2>1. pending' \subseteq pending /\ queued' \subseteq queued
    BY <1>3, Zenon DEF DropQueue
  <2> QED BY <2>1, ShrinkKeeps, Zenon
<1>4. CASE Insert(c)
  <2>1. CASE is_pending[c]
    <3>1. pending' = pending \cup {tx[c]} /\ queued' = queued /\ Rivals(pending, tx[c]) = {}
      BY <1>4, <2>1, Zenon DEF Insert, Target
    <3> QED BY <3>1, InsertUnique, Zenon DEF Both
  <2>2. CASE ~is_pending[c]
    <3>1. queued' = queued \cup {tx[c]} /\ pending' = pending /\ Rivals(queued, tx[c]) = {}
      BY <1>4, <2>2, Zenon DEF Insert, Target
    <3> QED BY <3>1, InsertUnique, Zenon DEF Both
  <2> QED BY <2>1, <2>2, Zenon
<1>5. CASE Replace(c)
  <2>1. PICK old \in Rivals(Target(c), tx[c]) :
             IF is_pending[c]
             THEN pending' = (pending \ {old}) \cup {tx[c]} /\ UNCHANGED queued
             ELSE queued' = (queued \ {old}) \cup {tx[c]} /\ UNCHANGED pending
    BY <1>5, Zenon DEF Replace
  <2>2. CASE is_pending[c]
    BY <2>1, <2>2, ReplaceUnique DEF Both, Target
  <2>3. CASE ~is_pending[c]
    BY <2>1, <2>3, ReplaceUnique DEF Both, Target
  <2> QED BY <2>2, <2>3, Zenon
<1>6. CASE Take(c)
  BY <1>6, ShrinkKeeps, Zenon DEF Take
<1>7. CASE Put(c)
  BY <1>7, InsertUnique, Zenon DEF Put, Both
<1> QED BY <1>1, <1>2, <1>3, <1>4, <1>5, <1>6, <1>7, Zenon DEF CallStep

\* So do the listener's.
LEMMA ListenerKeeps ==
    ASSUME Both, ListenerStep
    PROVE  Both'
<1>1. CASE Receive
  BY <1>1, RemoveShrinks, ShrinkKeeps, Zenon DEF Receive
<1>2. CASE Sweep
  BY <1>2, RemoveShrinks, ShrinkKeeps, Zenon DEF Sweep
<1>3. CASE Take(Listener)
  BY <1>3, ShrinkKeeps, Zenon DEF Take
<1>4. CASE Put(Listener)
  BY <1>4, InsertUnique, Zenon DEF Put, Both
<1>5. CASE UpdateBaseFee \/ Scan \/ PromoteAccount \/ AccountPromoted \/ Revalidated
  <2>1. UNCHANGED <<pending, queued>>
    BY <1>5, Zenon DEF UpdateBaseFee, Scan, PromoteAccount, AccountPromoted, Revalidated, pools
  <2> QED BY <2>1, ShrinkKeeps, Zenon
<1> QED BY <1>1, <1>2, <1>3, <1>4, <1>5, Zenon DEF ListenerStep

\* Every step keeps one transaction per nonce in both queues.
LEMMA NextKeeps ==
    ASSUME Both, [Next]_vars
    PROVE  Both'
<1>1. CASE \E c \in Call, t \in Tx : SubmitTransaction(c, t) \/ ImportPooled(c, t)
  <2>1. UNCHANGED <<pending, queued>>
    BY <1>1, Zenon DEF SubmitTransaction, ImportPooled, Submit
  <2> QED BY <2>1, ShrinkKeeps, Zenon
<1>2. CASE \E c \in Call : CallStep(c)
  BY <1>2, CallKeeps, Zenon
<1>3. CASE ListenerStep
  BY <1>3, ListenerKeeps, Zenon
<1>4. CASE ChainStep
  <2>1. UNCHANGED <<pending, queued>>
    BY Zenon, <1>4 DEF ChainStep, ImportBlock, ExtendHead, SwitchBranch, RestoreDiscarded, Canonicalize, pools
  <2> QED BY <2>1, ShrinkKeeps, Zenon
<1>5. CASE UNCHANGED vars
  <2>1. UNCHANGED <<pending, queued>>
    BY <1>5, Zenon DEF vars, pools
  <2> QED BY <2>1, ShrinkKeeps, Zenon
<1> QED BY <1>1, <1>2, <1>3, <1>4, <1>5, Zenon DEF Next

\* In every reachable state both queues have at most one transaction per sender
\* and nonce, for any number of concurrent calls: what add_transaction decides
\* from a queue it has let go of never makes the insertion break the order the
\* binary searches need.
THEOREM QueuesUnique == Spec => []OnePerNonce
<1>1. Init => Both
  BY Zenon DEF Init, Both, Unique
<1>2. Both /\ [Next]_vars => Both'
  BY NextKeeps, Zenon
<1>3. Both => OnePerNonce
  BY Zenon DEF Both, Unique, OnePerNonce
<1> QED BY <1>1, <1>2, <1>3, PTL DEF Spec

-----------------------------------------------------------------------------
(* Types.                                                                    *)

\* A task at a step that uses a local variable has set it.
Locals ==
    /\ \A c \in Call : pc[c] \in CallPc
    /\ \A c \in Call : pc[c] # "idle" => tx[c] \in Tx /\ acct[c] \in Account
    /\ \A c \in Call : pc[c] = "drop" => emptied[c] \in Account \X BOOLEAN
    /\ \A w \in Worker : pc[w] = "put" => held[w] \in Tx
    /\ pc[Listener] \in ListenerPc
    /\ pc[Listener] = "fee" => event \in Event
    /\ pc[Listener] \in {"scan", "sweep", "promote", "take", "put"} => passes \in 1 .. 2
    /\ pc[Listener] \in {"take", "put"} => acct[Listener] \in Account

Typed == TypeOK /\ Locals

\* What the functions of a transaction return.
LEMMA TxTypes ==
    ASSUME NEW t \in Tx
    PROVE  Sender[t] \in Account /\ Nonce[t] \in Nat /\ Carries[t] \in SUBSET Blob
BY TxAssumption, Zenon

\* The same of the functions of a block: the executed state has a nonce for each
\* account.
LEMMA BlockTypes ==
    ASSUME NEW b \in Block
    PROVE  /\ BaseFee[b] \in Nat /\ Includes[b] \in SUBSET Tx /\ Lineage[b] \in Seq(Block)
           /\ \A a \in Account : NonceAt[b][a] \in Nat
BY ChainAssumption, Zenon

\* The listener's task is none of the calls.
LEMMA ListenerApart == Listener \in Worker /\ Listener \notin Call /\ Call \subseteq Worker
BY BoundAssumption, Zenon DEF Worker

\* The events of a switch's blocks, newest first, are messages of the channel.
LEMMA SentBatch ==
    ASSUME NEW q \in Seq(Block), NEW n \in 0 .. Len(q)
    PROVE  LET sent == [i \in 1 .. n |-> CanonicalEvent(q[i])]
           IN  sent \in Seq(Event) /\ Len(sent) = n
<1>1. n \in Nat /\ \A i \in 1 .. n : q[i] \in Block
  OBVIOUS
<1>2. \A i \in 1 .. n : CanonicalEvent(q[i]) \in Event
  BY <1>1 DEF CanonicalEvent, Event
<1>3. [i \in 1 .. n |-> CanonicalEvent(q[i])] \in [1 .. n -> Event]
  BY <1>2, Zenon
<1> QED BY <1>1, <1>3, Batch, Zenon

\* The nonce after the back of a pending queue is a number.
LEMMA NextPendingNat ==
    ASSUME pending \in SUBSET Tx, NEW a, NEW n \in Nat
    PROVE  NextPending(a, n) \subseteq Nat
BY TxTypes DEF NextPending, OfSender

\* Removing transactions keeps the types of what is removed from.
LEMMA RemoveTyped ==
    ASSUME TypeOK, NEW S, RemoveTransactions(S)
    PROVE  pending' \in SUBSET Tx /\ queued' \in SUBSET Tx /\ pooled' \in SUBSET Tx /\ blobs' \in SUBSET Blob
BY Zenon DEF RemoveTransactions, TypeOK

\* A call that moves on to a step that needs no further local.
LEMMA CallMoves ==
    ASSUME Typed, NEW c \in Call, NEW p \in CallPc \ {"drop", "put"}, pc[c] # "idle",
           pc' = [pc EXCEPT ![c] = p],
           UNCHANGED <<tx, acct, emptied, held, event, passes>>
    PROVE  Locals' /\ pc' \in [Worker -> CallPc \cup ListenerPc]
<1>1. pc' \in [Worker -> CallPc \cup ListenerPc]
  BY ListenerApart, Zenon DEF Typed, TypeOK
<1>2. pc'[c] = p /\ \A w \in Worker \ {c} : pc'[w] = pc[w]
  BY ListenerApart, Zenon DEF Typed, TypeOK
<1>3. Locals'
  BY <1>2, ListenerApart, Zenon DEF Typed, Locals
<1> QED BY <1>1, <1>3, Zenon

\* A call that is over.
LEMMA CallEnds ==
    ASSUME Typed, NEW c \in Call, Done(c), UNCHANGED <<emptied, held, event, passes>>
    PROVE  /\ Locals'
           /\ pc' \in [Worker -> CallPc \cup ListenerPc]
           /\ tx' \in [Call -> Tx \cup {None}]
           /\ nonce' \in [Call -> Nat] /\ evict_fee' \in [Call -> Nat]
           /\ is_pending' \in [Call -> BOOLEAN]
           /\ acct' \in [Worker -> Account \cup {None}] /\ next' \in [Worker -> Nat]
<1>1. pc' \in [Worker -> CallPc \cup ListenerPc] /\ pc'[c] = "idle" /\ \A w \in Worker \ {c} : pc'[w] = pc[w]
  BY ListenerApart, Zenon DEF Typed, TypeOK, Done, CallPc
<1>2. tx' \in [Call -> Tx \cup {None}] /\ \A d \in Call \ {c} : tx'[d] = tx[d]
  BY Zenon DEF Typed, TypeOK, Done
<1>3. acct' \in [Worker -> Account \cup {None}] /\ \A w \in Worker \ {c} : acct'[w] = acct[w]
  BY ListenerApart, Zenon DEF Typed, TypeOK, Done
<1>4. nonce' \in [Call -> Nat] /\ evict_fee' \in [Call -> Nat]
  BY Zenon DEF Typed, TypeOK, Done
<1>5. is_pending' \in [Call -> BOOLEAN]
  BY Zenon DEF Typed, TypeOK, Done
<1>6. next' \in [Worker -> Nat]
  BY ListenerApart, Zenon DEF Typed, TypeOK, Done
<1>7. Locals'
  BY <1>1, <1>2, <1>3, ListenerApart, Zenon DEF Typed, Locals, CallPc
<1> QED BY <1>1, <1>2, <1>3, <1>4, <1>5, <1>6, <1>7, Zenon

\* The listener moves on to a step whose locals are set.
LEMMA ListenerMoves ==
    ASSUME Typed, NEW p \in ListenerPc \ {"put"}, pc' = [pc EXCEPT ![Listener] = p],
           p = "fee" => event' \in Event,
           p \in {"scan", "sweep", "promote", "take"} => passes' \in 1 .. 2,
           p = "take" => acct'[Listener] \in Account,
           \A c \in Call : acct'[c] = acct[c],
           UNCHANGED <<tx, emptied, held>>
    PROVE  Locals' /\ pc' \in [Worker -> CallPc \cup ListenerPc]
<1>1. pc' \in [Worker -> CallPc \cup ListenerPc]
  BY ListenerApart, Zenon DEF Typed, TypeOK
<1>2. pc'[Listener] = p /\ \A w \in Call : pc'[w] = pc[w]
  BY ListenerApart, Zenon DEF Typed, TypeOK
<1>3. Locals'
  BY <1>2, ListenerApart, Zenon DEF Typed, Locals, Worker
<1> QED BY <1>1, <1>3, Zenon

\* Taking a queued transaction, as promote_queued does, keeps types and locals.
LEMMA TakeTyped ==
    ASSUME Typed, NEW w \in Worker, Take(w)
    PROVE  Typed'
<1> USE DEF Typed
<1>1. PICK t \in queued : queued' = queued \ {t} /\ held' = [held EXCEPT ![w] = t]
  BY Zenon DEF Take, OfSender
<1>2. t \in Tx
  BY <1>1, Zenon DEF TypeOK
<1>3. pc' = [pc EXCEPT ![w] = "put"] /\ pc[w] = "take"
      /\ UNCHANGED <<pending, pooled, blobs, base_fee, chain, calls, listening, acct, next>>
  BY Zenon DEF Take
<1>4. pc' \in [Worker -> CallPc \cup ListenerPc] /\ held' \in [Worker -> Tx \cup {None}]
  BY <1>1, <1>2, <1>3, Zenon DEF TypeOK, CallPc
<1>5. TypeOK'
  BY <1>1, <1>3, <1>4, Zenon DEF TypeOK, pools, chain, calls, listening, promotion
<1>6. \A v \in Worker : pc'[v] = "put" => held'[v] \in Tx
  BY <1>1, <1>2, <1>3, Zenon DEF TypeOK, Locals
<1>7. Locals'
  BY <1>3, <1>6, ListenerApart, Zenon DEF TypeOK, Locals, Worker, CallPc, ListenerPc, pools, chain, calls, listening, promotion
<1> QED BY <1>5, <1>7, Zenon

\* Putting it into pending does too.
LEMMA PutTyped ==
    ASSUME Typed, NEW w \in Worker, Put(w)
    PROVE  Typed'
<1> USE DEF Typed
<1>1. held[w] \in Tx
  BY Zenon DEF Put, Locals
<1>2. pending' \in SUBSET Tx
  BY <1>1, Zenon DEF Put, TypeOK
<1>3. pc' = [pc EXCEPT ![w] = "take"] /\ pc[w] = "put" /\ held' = [held EXCEPT ![w] = None]
      /\ next' = [next EXCEPT ![w] = next[w] + 1]
      /\ UNCHANGED <<queued, pooled, blobs, base_fee, chain, calls, listening, acct>>
  BY Zenon DEF Put
<1>4. pc' \in [Worker -> CallPc \cup ListenerPc] /\ held' \in [Worker -> Tx \cup {None}]
  BY <1>3, Zenon DEF TypeOK, CallPc
<1>5. next' \in [Worker -> Nat]
  BY SMTT(60), Z3T(60), <1>3 DEF TypeOK
<1>6. TypeOK'
  BY <1>2, <1>3, <1>4, <1>5, Zenon DEF TypeOK, pools, chain, calls, listening, promotion
<1>7. \A v \in Worker : pc'[v] = "put" => held'[v] \in Tx
  BY <1>3, Zenon DEF TypeOK, Locals
<1>8. Locals'
  BY <1>3, <1>7, ListenerApart, Zenon DEF TypeOK, Locals, Worker, CallPc, ListenerPc, pools, chain, calls, listening, promotion
<1> QED BY <1>6, <1>8, Zenon

\* A call's steps keep the types and set the locals they use.
LEMMA CallTyped ==
    ASSUME Typed, NEW c \in Call, CallStep(c)
    PROVE  Typed'
<1> USE DEF Typed
<1>a. pc[c] # "idle"
  BY ZenonT(60), SMTT(60) DEF CallStep, ReadNonce, RefuseLow, Classify, Evict, DropQueue, WithinCapacity, Insert, Replace, RefuseReplacement, Take, Put, Promoted, NothingToTake
<1>b. tx[c] \in Tx /\ acct[c] \in Account
  BY <1>a, Zenon DEF Locals
<1>c. Nonce[tx[c]] \in Nat
  BY <1>b, TxTypes, Zenon
<1>1. CASE ReadNonce(c)
  <2>1. NonceAt[flat][acct[c]] \in Nat
    BY <1>b, BlockTypes, Zenon DEF TypeOK
  <2>2. nonce' = [nonce EXCEPT ![c] = NonceAt[flat][acct[c]]] /\ pc' = [pc EXCEPT ![c] = "add"]
        /\ UNCHANGED <<pools, base_fee, chain, submitted, tx, is_pending, evict_fee, emptied, listening, promotion>>
    BY <1>1, Zenon DEF ReadNonce
  <2>3. nonce' \in [Call -> Nat]
    BY <2>1, <2>2, Zenon DEF TypeOK
  <2>4. Locals' /\ pc' \in [Worker -> CallPc \cup ListenerPc]
    BY Zenon, <1>a, <2>2, CallMoves DEF CallPc, listening, promotion
  <2>5. TypeOK'
    BY <2>2, <2>3, <2>4, Zenon DEF TypeOK, pools, chain, calls, listening, promotion
  <2> QED BY <2>4, <2>5, Zenon
<1>2. CASE RefuseLow(c) \/ RefuseReplacement(c) \/ Promoted(c)
  <2>1. Done(c) /\ UNCHANGED <<pools, base_fee, chain, submitted, emptied, listening, held>>
    BY Zenon, <1>2 DEF RefuseLow, RefuseReplacement, Promoted
  <2>2. UNCHANGED <<emptied, held, event, passes>>
    BY <2>1, Zenon DEF listening
  <2>3. Locals'
    BY <2>1, <2>2, CallEnds, Zenon
  <2>4. TypeOK'
    BY <2>1, <2>2, CallEnds, Zenon DEF TypeOK, pools, chain, calls, listening, promotion
  <2> QED BY <2>3, <2>4, Zenon
<1>3. CASE Classify(c)
  <2>1. is_pending' \in [Call -> BOOLEAN]
    BY <1>3, Zenon DEF Classify, TypeOK
  <2>2. UNCHANGED <<pools, base_fee, chain, submitted, tx, nonce, emptied, listening, promotion>>
    BY <1>3, Zenon DEF Classify
  <2>3. PICK p \in {"insert", "evict"} : pc' = [pc EXCEPT ![c] = p]
    BY <1>3, Zenon DEF Classify
  <2>4. evict_fee' = evict_fee \/ evict_fee' = [evict_fee EXCEPT ![c] = base_fee]
    BY <1>3, Zenon DEF Classify
  <2>5. evict_fee' \in [Call -> Nat]
    BY <2>4, Zenon DEF TypeOK
  <2>6. Locals' /\ pc' \in [Worker -> CallPc \cup ListenerPc]
    BY Zenon, <1>a, <2>2, <2>3, CallMoves DEF CallPc, listening, promotion
  <2>7. TypeOK'
    BY <2>1, <2>2, <2>5, <2>6, Zenon DEF TypeOK, pools, chain, calls, listening, promotion
  <2> QED BY <2>6, <2>7, Zenon
<1>4. CASE Evict(c)
  <2>1. pending' \subseteq pending /\ queued' \subseteq queued
    BY <1>4, Zenon DEF Evict
  <2> DEFINE q(t) == <<Sender[t], queued = {}>>
  <2>2. PICK t \in pending \cup queued :
            \/ /\ emptied' = [emptied EXCEPT ![c] = q(t)]
               /\ pc' = [pc EXCEPT ![c] = "drop"]
            \/ UNCHANGED <<emptied, pc>>
    BY <1>4, Zenon DEF Evict, Worst, IsBack
  <2>3. Sender[t] \in Account
    BY TxTypes, Zenon DEF TypeOK
  <2>4. q(t) \in Account \X BOOLEAN
    BY Zenon, <2>3
  <2> HIDE DEF q
  <2>5. emptied' \in [Call -> Queue]
    BY <2>2, <2>4, Zenon DEF TypeOK, Queue
  <2>6. pc' \in [Worker -> CallPc \cup ListenerPc]
    BY <2>2, Zenon DEF TypeOK, CallPc
  <2>7. UNCHANGED <<pooled, blobs, base_fee, chain, submitted, tx, nonce, is_pending, evict_fee, listening, promotion>>
    BY <1>4, Zenon DEF Evict
  <2>8. TypeOK'
    BY <2>1, <2>5, <2>6, <2>7, Zenon DEF TypeOK, pools, chain, calls, listening, promotion
  <2>9. \A d \in Call : pc'[d] = "drop" => emptied'[d] \in Account \X BOOLEAN
    BY <2>2, <2>4, ListenerApart, Zenon DEF TypeOK, Locals
  <2>10. pc'[c] \in {pc[c], "drop"} /\ \A w \in Worker \ {c} : pc'[w] = pc[w]
    <3>1. CASE pc' = [pc EXCEPT ![c] = "drop"]
      BY <3>1, ListenerApart, Zenon DEF TypeOK
    <3>2. CASE pc' = pc
      BY <3>2, Zenon
    <3> QED BY <2>2, <3>1, <3>2, Zenon
  <2>11. Locals'
    BY <2>7, <2>9, <2>10, <1>a, ListenerApart, Zenon DEF Locals, CallPc, listening, promotion
  <2> QED BY <2>8, <2>11, Zenon
<1>5. CASE DropQueue(c)
  <2>1. pending' \subseteq pending /\ queued' \subseteq queued
    BY <1>5, Zenon DEF DropQueue
  <2>2. emptied' = [emptied EXCEPT ![c] = None] /\ pc' = [pc EXCEPT ![c] = "evict"]
        /\ UNCHANGED <<pooled, blobs, base_fee, chain, submitted, tx, nonce, is_pending, evict_fee, listening, promotion>>
    BY <1>5, Zenon DEF DropQueue
  <2>3. emptied' \in [Call -> Queue] /\ \A d \in Call \ {c} : emptied'[d] = emptied[d]
    BY <2>2, Zenon DEF TypeOK, Queue
  <2>4. pc' \in [Worker -> CallPc \cup ListenerPc] /\ pc'[c] = "evict" /\ \A w \in Worker \ {c} : pc'[w] = pc[w]
    BY <2>2, ListenerApart, Zenon DEF TypeOK, CallPc
  <2>5. TypeOK'
    BY <2>1, <2>2, <2>3, <2>4, Zenon DEF TypeOK, pools, chain, calls, listening, promotion
  <2>6. Locals'
    BY <2>2, <2>3, <2>4, <1>b, ListenerApart, Zenon DEF Locals, CallPc, listening, promotion
  <2> QED BY <2>5, <2>6, Zenon
<1>6. CASE WithinCapacity(c)
  <2>1. pc' = [pc EXCEPT ![c] = "insert"] /\ UNCHANGED <<pools, base_fee, chain, calls, listening, promotion>>
    BY <1>6, Zenon DEF WithinCapacity
  <2>2. Locals' /\ pc' \in [Worker -> CallPc \cup ListenerPc]
    BY ZenonT(60), SMTT(60), <1>a, <2>1, CallMoves DEF CallPc, calls, listening, promotion
  <2>3. TypeOK'
    BY <2>1, <2>2, Zenon DEF TypeOK, pools, chain, calls, listening, promotion
  <2> QED BY <2>2, <2>3, Zenon
<1>7. CASE Insert(c)
  <2>1. CASE is_pending[c]
    <3>1. /\ pending' = pending \cup {tx[c]}
          /\ next' = [next EXCEPT ![c] = Nonce[tx[c]] + 1]
          /\ pc' = [pc EXCEPT ![c] = "take"]
          /\ UNCHANGED <<queued, pooled, blobs, base_fee, chain, calls, listening, acct, held>>
      BY Zenon, <1>7, <2>1 DEF Insert, calls
    <3>2. Nonce[tx[c]] + 1 \in Nat
      BY <1>c
    <3>3. next' \in [Worker -> Nat]
      BY Zenon, <3>1, <3>2 DEF TypeOK
    <3>4. pending' \in SUBSET Tx
      BY <3>1, <1>b, Zenon DEF TypeOK
    <3>5. Locals' /\ pc' \in [Worker -> CallPc \cup ListenerPc]
      BY Zenon, <1>a, <3>1, CallMoves DEF CallPc, calls, listening
    <3>6. TypeOK'
      BY <3>1, <3>3, <3>4, <3>5, Zenon DEF TypeOK, pools, chain, calls, listening, promotion
    <3> QED BY <3>5, <3>6, Zenon
  <2>2. CASE ~is_pending[c]
    <3>1. Done(c) /\ queued' = queued \cup {tx[c]}
          /\ UNCHANGED <<pending, pooled, blobs, base_fee, chain, submitted, emptied, listening, held>>
      BY Zenon, <1>7, <2>2 DEF Insert
    <3>2. UNCHANGED <<emptied, held, event, passes>>
      BY <3>1, Zenon DEF listening
    <3>3. Locals'
      BY <3>1, <3>2, CallEnds, Zenon
    <3>4. TypeOK'
      BY <1>b, <3>1, <3>2, CallEnds, Zenon DEF TypeOK, pools, chain, calls, listening, promotion
    <3> QED BY <3>3, <3>4, Zenon
  <2> QED BY <2>1, <2>2, Zenon
<1>8. CASE Replace(c)
  <2>1. pending' \in SUBSET Tx /\ queued' \in SUBSET Tx /\ pooled' \in SUBSET Tx /\ blobs' \in SUBSET Blob
    BY ZenonT(60), SMTT(60), <1>8, <1>b DEF Replace, TypeOK
  <2>2. Done(c) /\ UNCHANGED <<base_fee, chain, submitted, emptied, listening, held>>
    BY Zenon, <1>8 DEF Replace
  <2>3. UNCHANGED <<emptied, held, event, passes>>
    BY <2>2, Zenon DEF listening
  <2>4. Locals'
    BY <2>2, <2>3, CallEnds, Zenon
  <2>5. TypeOK'
    BY <2>1, <2>2, <2>3, CallEnds, Zenon DEF TypeOK, pools, chain, calls, listening, promotion
  <2> QED BY <2>4, <2>5, Zenon
<1>9. CASE Take(c)
  BY <1>9, TakeTyped, ListenerApart, Zenon
<1>10. CASE Put(c)
  BY <1>10, PutTyped, ListenerApart, Zenon
<1> QED BY <1>1, <1>2, <1>3, <1>4, <1>5, <1>6, <1>7, <1>8, <1>9, <1>10, Zenon DEF CallStep

\* What update_base_fee and the listener revalidate is a set of accounts, at most
\* twice.
LEMMA RevalidationsTyped ==
    ASSUME NEW ev \in Event, NEW old \in Nat
    PROVE  Revalidations(ev, old) \in (SUBSET Account) \X (0 .. 2)
<1>1. ev.block \in Block /\ ev.kind \in {"canonical", "reorg"}
  BY Zenon DEF Event
<1>2. Senders(ev.block) \in SUBSET Account
  BY Zenon, <1>1, BlockTypes, TxTypes DEF Senders
<1>3. \E S \in SUBSET Account, n \in 0 .. 2 : Revalidations(ev, old) = <<S, n>>
  <2> DEFINE all == BaseFee[ev.block] > old
  <2>1. CASE ev.kind = "reorg" /\ HeaderFound(ev) /\ all
    BY <2>1 DEF Revalidations
  <2>2. CASE ev.kind = "reorg" /\ HeaderFound(ev) /\ ~all
    BY <2>2 DEF Revalidations
  <2>3. CASE ev.kind = "canonical" /\ all
    BY <2>3 DEF Revalidations
  <2>4. CASE ev.kind = "canonical" /\ ~all /\ Includes[ev.block] # {}
    BY <2>4, <1>2 DEF Revalidations
  <2>5. CASE (ev.kind = "canonical" /\ ~all /\ Includes[ev.block] = {}) \/ (ev.kind = "reorg" /\ ~HeaderFound(ev))
    <3>1. Revalidations(ev, old) = <<{}, 0>>
      BY <2>5, Zenon DEF Revalidations
    <3>2. {} \in SUBSET Account /\ 0 \in 0 .. 2
      OBVIOUS
    <3> QED BY <3>1, <3>2, Zenon
  <2> QED BY <1>1, <2>1, <2>2, <2>3, <2>4, <2>5, Zenon
<1> QED BY <1>3

\* The listener's steps keep types and locals.
LEMMA ListenerTyped ==
    ASSUME Typed, ListenerStep
    PROVE  Typed'
<1> USE DEF Typed
<1>1. CASE Receive
  <2>1. pending' \in SUBSET Tx /\ queued' \in SUBSET Tx /\ pooled' \in SUBSET Tx /\ blobs' \in SUBSET Blob
    BY <1>1, RemoveTyped, Zenon DEF Receive
  <2>2. Head(events) \in Event /\ Tail(events) \in Seq(Event)
    BY SMTT(60), Z3T(60), <1>1 DEF Receive, TypeOK
  <2>3. event' = Head(events) /\ events' = Tail(events) /\ pc' = [pc EXCEPT ![Listener] = "fee"]
        /\ UNCHANGED <<base_fee, head, flat, executed, switching, discarded, announced, calls, scope, passes, to_remove, to_promote, promotion>>
    BY Zenon, <1>1 DEF Receive
  <2>4. event' \in Event
    BY <2>2, <2>3, Zenon
  <2>5. Locals' /\ pc' \in [Worker -> CallPc \cup ListenerPc]
    BY Zenon, <2>3, <2>4, ListenerMoves DEF ListenerPc, calls, promotion
  <2>6. TypeOK'
    BY <2>1, <2>2, <2>3, <2>4, <2>5, Zenon DEF TypeOK, pools, chain, calls, listening, promotion
  <2> QED BY <2>5, <2>6, Zenon
<1>2. CASE UpdateBaseFee
  <2>1. event \in Event /\ event.block \in Block
    BY Zenon, <1>2 DEF UpdateBaseFee, Locals, Event
  <2>2. Revalidations(event, base_fee) \in (SUBSET Account) \X (0 .. 2)
    BY <2>1, RevalidationsTyped, Zenon DEF TypeOK
  <2>3. scope' \in SUBSET Account /\ passes' \in 0 .. 2
    BY Zenon, <1>2, <2>2 DEF UpdateBaseFee
  <2>4. base_fee' \in {BaseFee[event.block], base_fee} /\ event' = None /\ UNCHANGED <<pools, chain, calls, to_remove, to_promote, promotion>>
    BY <1>2, Zenon DEF UpdateBaseFee
  <2>5. PICK p \in {"idle", "scan"} : pc' = [pc EXCEPT ![Listener] = p] /\ (p = "scan" => passes' \in 1 .. 2)
    <3>1. pc' = [pc EXCEPT ![Listener] = IF passes' = 0 THEN "idle" ELSE "scan"]
      BY <1>2, Zenon DEF UpdateBaseFee
    <3>2. CASE passes' = 0
      BY <3>1, <3>2, Zenon
    <3>3. CASE passes' # 0
      <4>1. passes' \in 1 .. 2
        BY SMTT(60), Z3T(60), <2>3, <3>3
      <4> QED BY <3>1, <3>3, <4>1, Zenon
    <3> QED BY <3>2, <3>3, Zenon
  <2>6. Locals' /\ pc' \in [Worker -> CallPc \cup ListenerPc]
    BY ZenonT(60), SMTT(60), <2>4, <2>5, ListenerMoves DEF ListenerPc, calls, promotion
  <2>7. base_fee' \in Nat
    BY <2>1, <2>4, BlockTypes, Zenon DEF TypeOK
  <2>8. TypeOK'
    BY Zenon, <2>3, <2>4, <2>6, <2>7 DEF TypeOK, pools, chain, calls, listening, promotion
  <2> QED BY <2>6, <2>8, Zenon
<1>3. CASE Scan
  <2>1. to_remove' \in SUBSET Tx /\ to_promote' \in SUBSET Account
    BY ZenonT(60), SMTT(60), <1>3, TxTypes DEF Scan, TypeOK
  <2>2. pc' = [pc EXCEPT ![Listener] = "sweep"] /\ passes \in 1 .. 2
        /\ UNCHANGED <<pools, base_fee, chain, calls, event, scope, passes, promotion>>
    BY <1>3, Zenon DEF Scan, Locals
  <2>3. Locals' /\ pc' \in [Worker -> CallPc \cup ListenerPc]
    BY Zenon, <2>2, ListenerMoves DEF ListenerPc, calls, promotion
  <2>4. TypeOK'
    BY <2>1, <2>2, <2>3, Zenon DEF TypeOK, pools, chain, calls, listening, promotion
  <2> QED BY <2>3, <2>4, Zenon
<1>4. CASE Sweep
  <2>1. pending' \in SUBSET Tx /\ queued' \in SUBSET Tx /\ pooled' \in SUBSET Tx /\ blobs' \in SUBSET Blob
    BY <1>4, RemoveTyped, Zenon DEF Sweep
  <2>2. pc' = [pc EXCEPT ![Listener] = "promote"] /\ to_remove' = {} /\ passes \in 1 .. 2
        /\ UNCHANGED <<base_fee, chain, calls, event, scope, passes, to_promote, promotion>>
    BY <1>4, Zenon DEF Sweep, Locals
  <2>3. Locals' /\ pc' \in [Worker -> CallPc \cup ListenerPc]
    BY Zenon, <2>2, ListenerMoves DEF ListenerPc, calls, promotion
  <2>4. TypeOK'
    BY <2>1, <2>2, <2>3, Zenon DEF TypeOK, pools, chain, calls, listening, promotion
  <2> QED BY <2>3, <2>4, Zenon
<1>5. CASE PromoteAccount
  <2>1. PICK a \in to_promote :
          /\ to_promote' = to_promote \ {a}
          /\ acct' = [acct EXCEPT ![Listener] = a]
          /\ \E m \in NextPending(a, NonceAt[flat][a]) : next' = [next EXCEPT ![Listener] = m]
    BY ZenonT(60), SMTT(60), <1>5 DEF PromoteAccount
  <2>2. a \in Account /\ NonceAt[flat][a] \in Nat
    BY Zenon, BlockTypes DEF TypeOK
  <2>3. PICK m \in Nat : next' = [next EXCEPT ![Listener] = m]
    BY Zenon, <2>1, <2>2, NextPendingNat DEF TypeOK
  <2>4. pc' = [pc EXCEPT ![Listener] = "take"] /\ passes \in 1 .. 2
        /\ UNCHANGED <<pools, base_fee, chain, calls, event, scope, passes, to_remove, held>>
    BY Zenon, <1>5 DEF PromoteAccount, Locals
  <2>5. acct' \in [Worker -> Account \cup {None}] /\ acct'[Listener] \in Account /\ \A c \in Call : acct'[c] = acct[c]
    BY <2>1, <2>2, ListenerApart, Zenon DEF TypeOK
  <2>6. next' \in [Worker -> Nat]
    BY Zenon, <2>3 DEF TypeOK
  <2>7. to_promote' \in SUBSET Account
    BY <2>1, Zenon DEF TypeOK
  <2>8. Locals' /\ pc' \in [Worker -> CallPc \cup ListenerPc]
    BY Zenon, <2>4, <2>5, ListenerMoves DEF ListenerPc, calls
  <2>9. TypeOK'
    BY <2>4, <2>5, <2>6, <2>7, <2>8, Zenon DEF TypeOK, pools, chain, calls, listening, promotion
  <2> QED BY <2>8, <2>9, Zenon
<1>6. CASE Take(Listener)
  BY <1>6, TakeTyped, ListenerApart, Zenon
<1>7. CASE Put(Listener)
  BY <1>7, PutTyped, ListenerApart, Zenon
<1>8. CASE AccountPromoted
  <2>1. pc' = [pc EXCEPT ![Listener] = "promote"] /\ passes \in 1 .. 2
        /\ acct' = [acct EXCEPT ![Listener] = None] /\ next' = [next EXCEPT ![Listener] = 0]
        /\ UNCHANGED <<pools, base_fee, chain, calls, listening, held>>
    BY Zenon, <1>8 DEF AccountPromoted, NothingToTake, Locals
  <2>2. acct' \in [Worker -> Account \cup {None}] /\ \A c \in Call : acct'[c] = acct[c]
    BY <2>1, ListenerApart, Zenon DEF TypeOK
  <2>3. next' \in [Worker -> Nat]
    BY Zenon, <2>1 DEF TypeOK
  <2>4. Locals' /\ pc' \in [Worker -> CallPc \cup ListenerPc]
    BY Zenon, <2>1, <2>2, ListenerMoves DEF ListenerPc, calls, listening
  <2>5. TypeOK'
    BY <2>1, <2>2, <2>3, <2>4, Zenon DEF TypeOK, pools, chain, calls, listening, promotion
  <2> QED BY <2>4, <2>5, Zenon
<1>9. CASE Revalidated
  <2>1. passes \in 1 .. 2 /\ passes' = passes - 1
    BY Zenon, <1>9 DEF Revalidated, Locals
  <2>2. passes' \in 0 .. 2 /\ (passes # 1 => passes' \in 1 .. 2)
    BY SMTT(60), Z3T(60), <2>1
  <2>3. scope' \in SUBSET Account
    BY <1>9, Zenon DEF Revalidated, TypeOK
  <2>4. UNCHANGED <<pools, base_fee, chain, calls, event, to_remove, to_promote, promotion>>
    BY <1>9, Zenon DEF Revalidated
  <2>5. PICK p \in {"idle", "scan"} : pc' = [pc EXCEPT ![Listener] = p] /\ (p = "scan" => passes # 1)
    BY Zenon, <1>9 DEF Revalidated
  <2>6. Locals' /\ pc' \in [Worker -> CallPc \cup ListenerPc]
    BY Zenon, <2>2, <2>4, <2>5, ListenerMoves DEF ListenerPc, calls, promotion
  <2>7. TypeOK'
    BY <2>2, <2>3, <2>4, <2>6, Zenon DEF TypeOK, pools, chain, calls, listening, promotion
  <2> QED BY <2>6, <2>7, Zenon
<1> QED BY <1>1, <1>2, <1>3, <1>4, <1>5, <1>6, <1>7, <1>8, <1>9, Zenon DEF ListenerStep

\* A submission sets the locals of its call.
LEMMA SubmitTyped ==
    ASSUME Typed, NEW c \in Call, NEW t \in Tx, SubmitTransaction(c, t) \/ ImportPooled(c, t)
    PROVE  Typed'
<1> USE DEF Typed
<1>1. pooled' \in SUBSET Tx /\ blobs' \in SUBSET Blob
  BY ZenonT(60), SMTT(60), TxTypes DEF SubmitTransaction, ImportPooled, TypeOK
<1>2. submitted < Submissions /\ submitted' = submitted + 1 /\ pc[c] = "idle"
      /\ tx' = [tx EXCEPT ![c] = t] /\ acct' = [acct EXCEPT ![c] = Sender[t]] /\ pc' = [pc EXCEPT ![c] = "nonce"]
      /\ UNCHANGED <<pending, queued, base_fee, chain, nonce, is_pending, evict_fee, emptied, listening, next, held>>
  BY Zenon DEF SubmitTransaction, ImportPooled, Submit
<1>3. submitted' \in 0 .. Submissions
  <2>1. Submissions \in Nat /\ submitted \in 0 .. Submissions
    BY BoundAssumption, Zenon DEF TypeOK
  <2> QED BY SMTT(60), Z3T(60), <1>2, <2>1
<1>4. tx' \in [Call -> Tx \cup {None}] /\ tx'[c] = t /\ \A d \in Call \ {c} : tx'[d] = tx[d]
  BY ZenonT(60), SMTT(60), <1>2 DEF TypeOK
<1>5. Sender[t] \in Account
  BY ZenonT(60), SMTT(60), TxTypes
<1>6. acct' \in [Worker -> Account \cup {None}] /\ acct'[c] \in Account /\ \A w \in Worker \ {c} : acct'[w] = acct[w]
  BY ZenonT(60), SMTT(60), <1>2, <1>5, ListenerApart DEF TypeOK
<1>7. pc' \in [Worker -> CallPc \cup ListenerPc] /\ pc'[c] = "nonce" /\ \A w \in Worker \ {c} : pc'[w] = pc[w]
  BY ZenonT(60), SMTT(60), <1>2, ListenerApart DEF TypeOK, CallPc
<1>8. TypeOK'
  BY ZenonT(60), SMTT(60), <1>1, <1>2, <1>3, <1>4, <1>6, <1>7 DEF TypeOK, pools, chain, calls, listening, promotion
<1>9. Locals'
  BY ZenonT(60), SMTT(60), <1>2, <1>4, <1>6, <1>7, ListenerApart DEF Locals, CallPc, listening
<1> QED BY <1>8, <1>9, Zenon

\* The two events of a branch switch go behind what the channel holds.
LEMMA SwitchSends ==
    ASSUME NEW q \in Seq(Event), NEW d \in Block, NEW b \in Block
    PROVE  /\ q \o <<ReorgEvent(d), ReorgEvent(b)>> \in Seq(Event)
           /\ \A i \in DOMAIN q :
                 /\ i \in DOMAIN (q \o <<ReorgEvent(d), ReorgEvent(b)>>)
                 /\ (q \o <<ReorgEvent(d), ReorgEvent(b)>>)[i] = q[i]
<1>1. ReorgEvent(d) \in Event /\ ReorgEvent(b) \in Event
  BY Zenon DEF ReorgEvent, Event
<1> DEFINE v == ReorgEvent(d)
           w == ReorgEvent(b)
<1> HIDE DEF v, w
<1>2. v \in Event /\ w \in Event
  BY <1>1, Zenon DEF v, w
<1> DEFINE E == Event
<1>3. q \in Seq(E) /\ v \in E /\ w \in E
  BY <1>2, Zenon
<1> HIDE DEF E
<1>4. /\ q \o <<v, w>> \in Seq(E)
      /\ \A i \in DOMAIN q : i \in DOMAIN (q \o <<v, w>>) /\ (q \o <<v, w>>)[i] = q[i]
  BY <1>3, SMTT(60), Z3T(60)
<1> QED BY <1>4, Zenon DEF E, v, w

\* So do the steps of the chain.
LEMMA ChainTyped ==
    ASSUME Typed, ChainStep
    PROVE  Typed'
<1> USE DEF Typed
<1>1. UNCHANGED <<pending, queued, pooled, base_fee, calls, listening, promotion, pc>>
  BY Zenon DEF ChainStep, ImportBlock, ExtendHead, SwitchBranch, RestoreDiscarded, Canonicalize, pools
<1>2. \A b \in Block : Blocks(b) \subseteq Block
  BY BlockTypes DEF Blocks
<1>3. blobs' \in SUBSET Blob /\ discarded' \in SUBSET Tx /\ announced' \in SUBSET Tx
  <2>1. CASE \E b \in Block : SwitchBranch(b)
    <3>1. PICK b \in Block : SwitchBranch(b)
      BY <2>1, Zenon
    <3> DEFINE gone == UNION {Includes[d] : d \in Blocks(head) \ Blocks(b)}
    <3>2. gone \in SUBSET Tx
      BY ZenonT(60), SMTT(60), <1>2, BlockTypes DEF TypeOK
    <3>3. discarded' = gone /\ announced' = announced /\ blobs' = blobs
      BY <3>1, Zenon DEF SwitchBranch, pools
    <3> HIDE DEF gone
    <3> QED BY <3>2, <3>3, Zenon DEF TypeOK
  <2>2. CASE RestoreDiscarded
    <3> DEFINE found == UNION {Carries[t] : t \in discarded}
    <3>1. found \in SUBSET Blob
      BY TxTypes, Zenon DEF TypeOK
    <3>2. discarded' = {} /\ announced' = announced \cup discarded /\ (blobs' = blobs \/ blobs' = blobs \cup found)
      BY <2>2, Zenon DEF RestoreDiscarded
    <3> HIDE DEF found
    <3> QED BY <3>1, <3>2, Zenon DEF TypeOK
  <2>3. CASE ~RestoreDiscarded /\ ~\E b \in Block : SwitchBranch(b)
    BY ZenonT(60), SMTT(60), <2>3 DEF ChainStep, ImportBlock, ExtendHead, Canonicalize, TypeOK, pools
  <2> QED BY <2>1, <2>2, <2>3, Zenon
<1>4. head' \in Block /\ flat' \in Block /\ switching' \in Block \cup {None}
  BY ZenonT(60), SMTT(60) DEF ChainStep, ImportBlock, ExtendHead, SwitchBranch, RestoreDiscarded, Canonicalize, TypeOK
<1>5. executed' \in SUBSET Block
  BY Zenon, <1>2 DEF ChainStep, ImportBlock, ExtendHead, SwitchBranch, RestoreDiscarded, Canonicalize, TypeOK
<1>6. events' \in Seq(Event)
  <2>1. CASE \E b \in Block : ImportBlock(b) \/ ExtendHead(b)
    BY <2>1, Zenon DEF ImportBlock, ExtendHead, TypeOK
  <2>2. CASE \E b \in Block : SwitchBranch(b)
    <3>1. PICK b \in Block, d \in Block : events' = events \o <<ReorgEvent(d), ReorgEvent(b)>>
      BY <2>2, Zenon DEF SwitchBranch
    <3>2. events \in Seq(Event)
      BY Zenon DEF TypeOK
    <3> QED BY <3>1, <3>2, SwitchSends, Zenon
  <2>3. CASE Canonicalize
    <3>1. Lineage[head] \in Seq(Block)
      BY ZenonT(60), SMTT(60), BlockTypes DEF TypeOK
    <3>2. PICK n \in 0 .. Len(Lineage[head]) :
             events' = events \o [i \in 1 .. n |-> CanonicalEvent(Lineage[head][i])]
      BY Zenon, <2>3 DEF Canonicalize
    <3> DEFINE sent == [i \in 1 .. n |-> CanonicalEvent(Lineage[head][i])]
    <3>3. n \in Nat /\ \A i \in 1 .. n : Lineage[head][i] \in Block
      BY <3>1
    <3>4. \A i \in 1 .. n : CanonicalEvent(Lineage[head][i]) \in Event
      BY <3>3, Zenon DEF CanonicalEvent, Event
    <3>5. sent \in Seq(Event)
      BY <3>3, <3>4
    <3>6. events' = events \o sent
      BY <3>2, Zenon
    <3> HIDE DEF sent
    <3> QED BY SMTT(60), Z3T(60), <3>5, <3>6 DEF TypeOK
  <2>4. CASE RestoreDiscarded
    BY <2>4, Zenon DEF RestoreDiscarded, TypeOK
  <2> QED BY <2>1, <2>2, <2>3, <2>4, Zenon DEF ChainStep
<1>7. TypeOK'
  BY <1>1, <1>3, <1>4, <1>5, <1>6, Zenon DEF TypeOK, calls, listening, promotion
<1>8. Locals'
  BY <1>1, Zenon DEF Locals, calls, listening, promotion
<1> QED BY <1>7, <1>8, Zenon

\* The locals of a node that starts are set.
LEMMA InitTyped == Init => Typed
<1> SUFFICES ASSUME Init
             PROVE  Typed
  BY SMTT(60), Z3T(60)
<1>1. TypeOK
  <2>1. Genesis \in Block /\ 0 \in 0 .. Submissions
    BY ChainAssumption, BoundAssumption
  <2>2. pc \in [Worker -> CallPc \cup ListenerPc]
    BY Zenon DEF Init, CallPc
  <2>3. is_pending \in [Call -> BOOLEAN] /\ emptied \in [Call -> Queue]
    BY Zenon DEF Init, Queue
  <2>4. events \in Seq(Event) /\ event \in Event \cup {None}
    BY DEF Init
  <2>5. /\ tx \in [Call -> Tx \cup {None}]
        /\ nonce \in [Call -> Nat] /\ evict_fee \in [Call -> Nat]
        /\ acct \in [Worker -> Account \cup {None}]
        /\ next \in [Worker -> Nat]
        /\ held \in [Worker -> Tx \cup {None}]
    BY Zenon DEF Init
  <2>6. /\ pending = {} /\ queued = {} /\ pooled = {} /\ blobs = {} /\ base_fee = 0
        /\ head = Genesis /\ flat = Genesis /\ executed = {Genesis} /\ switching = None
        /\ discarded = {} /\ announced = {} /\ submitted = 0 /\ scope = {} /\ passes = 0
        /\ to_remove = {} /\ to_promote = {}
    BY Zenon DEF Init
  <2> QED BY <2>1, <2>2, <2>3, <2>4, <2>5, <2>6 DEF TypeOK
<1>2. Locals
  BY ListenerApart, Zenon DEF Init, Locals, CallPc, ListenerPc
<1> QED BY <1>1, <1>2, Zenon DEF Typed

\* Every step keeps the types and the locals.
LEMMA NextTyped == Typed /\ [Next]_vars => Typed'
<1> SUFFICES ASSUME Typed, [Next]_vars
             PROVE  Typed'
  BY Zenon
<1>1. CASE UNCHANGED vars
  BY Zenon, <1>1 DEF Typed, TypeOK, Locals, vars, pools, chain, calls, listening, promotion
<1>2. CASE Next
  BY <1>2, SubmitTyped, CallTyped, ListenerTyped, ChainTyped, Zenon DEF Next
<1> QED BY <1>1, <1>2, Zenon

\* The types declared in TypeOK hold in every reachable state, and with them that
\* no task uses a transaction, account or event it has not set.
THEOREM TypeCorrect == Spec => []TypeOK
<1>1. Typed => TypeOK
  BY Zenon DEF Typed
<1> QED BY <1>1, InitTyped, NextTyped, PTL DEF Spec

-----------------------------------------------------------------------------
(* Once the listener has caught up, no used nonce is left.                   *)

\* In a queue, or between the two in the hands of promote_queued.
InPool(t) ==
    \/ t \in pending \cup queued
    \/ \E w \in Worker : pc[w] = "put" /\ held[w] = t

\* The account table has used the nonce.
Stale(t) == Nonce[t] < NonceAt[flat][Sender[t]]

\* Handling the event revalidates the account.  A reorg event is not counted on: its
\* block may have no header yet when it is handled.
Covers(ev, a) == ev.kind = "canonical" /\ a \in Senders(ev.block)

\* The sender has a transaction in a block that is not canonical yet, or whose event
\* is not sent or not received yet.
Coming(t) ==
    \/ \E e \in Blocks(flat) \ Blocks(head) : Sender[t] \in Senders(e)
    \/ switching # None /\ \E e \in Blocks(head) \ Blocks(switching) : Sender[t] \in Senders(e)
    \/ \E i \in DOMAIN events : Covers(events[i], Sender[t])

\* The listener is going to look at t: the block is still coming or its event is being
\* handled, or a revalidation is about to scan the account or has found t.
Due(t) ==
    \/ Coming(t)
    \/ pc[Listener] = "fee" /\ Covers(event, Sender[t])
    \/ pc[Listener] = "scan" /\ Sender[t] \in scope
    \/ pc[Listener] = "sweep" /\ t \in to_remove

StaleDue == \A t \in Tx : InPool(t) /\ Stale(t) => Due(t)

\* The account table is on the head's chain or ahead of it; during a reorg it has
\* what the two branches share.
FlatFollows ==
    /\ switching = None => Blocks(head) \subseteq Blocks(flat)
    /\ switching # None =>
         /\ Blocks(head) \cap Blocks(switching) \subseteq Blocks(flat)
         /\ Blocks(head) \subseteq Blocks(flat) \/ Blocks(flat) \subseteq Blocks(head)

\* A call goes on with the nonce it has read.
Chosen(c) ==
    /\ pc[c] # "idle" => acct[c] = Sender[tx[c]]
    /\ pc[c] = "add" => nonce[c] = NonceAt[flat][acct[c]]
    /\ pc[c] \in {"evict", "drop", "insert"} => ~Stale(tx[c])

Following ==
    /\ StaleDue /\ FlatFollows
    /\ CallsIdle \/ Settled
    /\ \A c \in Call : Chosen(c)

\* While the listener rests, nothing is due.
LEMMA RestingNotDue == ASSUME Settled, NEW t PROVE ~Due(t)
<1>1. ~\E i \in DOMAIN events : Covers(events[i], Sender[t])
  BY DEF Settled
<1>2. flat = head /\ switching = None /\ pc[Listener] = "idle"
  BY Zenon DEF Settled
<1>3. pc[Listener] \notin {"fee", "scan", "sweep"}
  BY <1>2, Zenon
<1> QED BY <1>1, <1>2, <1>3, Zenon DEF Due, Coming

\* While a call runs, nothing changes but what calls change, and no transaction in
\* the pool is stale.
LEMMA BusyFresh ==
    ASSUME Following, NEW c \in Call, pc[c] # "idle"
    PROVE  Settled /\ \A t \in Tx : InPool(t) => ~Stale(t)
<1>1. Settled
  BY Zenon DEF Following, CallsIdle
<1> QED BY <1>1, RestingNotDue, Zenon DEF Following, StaleDue

\* A step that touches neither the chain nor the listener's task, and that adds
\* only a transaction that is not stale, while calls run.
LEMMA FreshByCall ==
    ASSUME Typed, Following, Settled,
           UNCHANGED <<head, flat, switching, events>>, pc'[Listener] = pc[Listener],
           \A t \in Tx : InPool(t)' => ~Stale(t)
    PROVE  StaleDue' /\ FlatFollows' /\ Settled'
<1>1. \A t : Stale(t)' <=> Stale(t)
  BY Zenon DEF Stale
<1>2. StaleDue'
  BY <1>1, Zenon DEF StaleDue
<1>3. FlatFollows'
  BY Zenon DEF Following, FlatFollows
<1>4. Settled'
  BY Zenon DEF Settled
<1> QED BY <1>2, <1>3, <1>4, Zenon

\* What a call's steps leave alone.
LEMMA CallFrame ==
    ASSUME Typed, NEW c \in Call, CallStep(c)
    PROVE  /\ pc[c] # "idle"
           /\ UNCHANGED <<head, flat, switching, events>>
           /\ \A w \in Worker \ {c} : pc'[w] = pc[w] /\ acct'[w] = acct[w]
           /\ \A d \in Call \ {c} : tx'[d] = tx[d] /\ nonce'[d] = nonce[d]
<1>1. pc[c] # "idle"
  BY ZenonT(60), SMTT(60) DEF CallStep, ReadNonce, RefuseLow, Classify, Evict, DropQueue, WithinCapacity, Insert, Replace, RefuseReplacement, Take, Put, Promoted, NothingToTake
<1>2. UNCHANGED <<head, flat, switching, events>>
  BY ZenonT(60), SMTT(60) DEF CallStep, ReadNonce, RefuseLow, Classify, Evict, DropQueue, WithinCapacity, Insert, Replace, RefuseReplacement, Take, Put, Promoted, chain
<1>3. pc' = pc \/ \E p : pc' = [pc EXCEPT ![c] = p]
  BY ZenonT(60), SMTT(60) DEF CallStep, ReadNonce, RefuseLow, Classify, Evict, DropQueue, WithinCapacity, Insert, Replace, RefuseReplacement, Take, Put, Promoted, Done
<1>4. acct' = acct \/ acct' = [acct EXCEPT ![c] = None]
  BY ZenonT(60), SMTT(60) DEF CallStep, ReadNonce, RefuseLow, Classify, Evict, DropQueue, WithinCapacity, Insert, Replace, RefuseReplacement, Take, Put, Promoted, Done, promotion
<1>5. tx' = tx \/ tx' = [tx EXCEPT ![c] = None]
  BY ZenonT(60), SMTT(60) DEF CallStep, ReadNonce, RefuseLow, Classify, Evict, DropQueue, WithinCapacity, Insert, Replace, RefuseReplacement, Take, Put, Promoted, Done, calls
<1>6. nonce' = nonce \/ \E n : nonce' = [nonce EXCEPT ![c] = n]
  BY ZenonT(60), SMTT(60) DEF CallStep, ReadNonce, RefuseLow, Classify, Evict, DropQueue, WithinCapacity, Insert, Replace, RefuseReplacement, Take, Put, Promoted, Done, calls
<1>7. \A w \in Worker \ {c} : pc'[w] = pc[w]
  BY <1>3, Zenon DEF Typed, TypeOK
<1>8. \A w \in Worker \ {c} : acct'[w] = acct[w]
  BY <1>4, Zenon DEF Typed, TypeOK
<1>9. \A d \in Call \ {c} : tx'[d] = tx[d]
  BY <1>5, Zenon DEF Typed, TypeOK
<1>10. \A d \in Call \ {c} : nonce'[d] = nonce[d]
  BY <1>6, Zenon DEF Typed, TypeOK
<1> QED BY <1>1, <1>2, <1>7, <1>8, <1>9, <1>10, Zenon

\* promote_queued moves transactions within the pool, or drops one.
LEMMA MovePool ==
    ASSUME Typed, NEW w \in Worker, Take(w) \/ Put(w), NEW t \in Tx, InPool(t)'
    PROVE  InPool(t)
<1>1. CASE Take(w)
  <2>1. PICK u \in queued : queued' = queued \ {u} /\ held' = [held EXCEPT ![w] = u]
    BY Zenon, <1>1 DEF Take, OfSender
  <2>2. pc' = [pc EXCEPT ![w] = "put"] /\ pending' = pending
    BY <1>1, Zenon DEF Take
  <2>3. \A v \in Worker : pc'[v] = "put" => v = w \/ pc[v] = "put"
    BY <2>2, Zenon DEF Typed, TypeOK
  <2>4. held'[w] = u /\ \A v \in Worker \ {w} : held'[v] = held[v]
    BY <2>1, Zenon DEF Typed, TypeOK
  <2>5. CASE t \in pending' \cup queued'
    BY <2>1, <2>2, <2>5, Zenon DEF InPool
  <2>6. CASE \E v \in Worker : pc'[v] = "put" /\ held'[v] = t
    BY <2>1, <2>3, <2>4, <2>6, Zenon DEF InPool
  <2> QED BY <2>5, <2>6, Zenon DEF InPool
<1>2. CASE Put(w)
  <2>1. /\ pc[w] = "put" /\ pending' \subseteq pending \cup {held[w]} /\ queued' = queued
        /\ held' = [held EXCEPT ![w] = None] /\ pc' = [pc EXCEPT ![w] = "take"]
    BY <1>2, Zenon DEF Put
  <2>2. \A v \in Worker : pc'[v] = "put" => v # w /\ pc[v] = "put" /\ held'[v] = held[v]
    BY <2>1, Zenon DEF Typed, TypeOK
  <2>3. CASE t \in pending' \cup queued'
    BY <2>1, <2>3, Zenon DEF InPool
  <2>4. CASE \E v \in Worker : pc'[v] = "put" /\ held'[v] = t
    BY <2>2, <2>4, Zenon DEF InPool
  <2> QED BY <2>3, <2>4, Zenon DEF InPool
<1> QED BY <1>1, <1>2, Zenon

\* Calls take from the pool or add the transaction they submit.
LEMMA CallPool ==
    ASSUME Typed, NEW c \in Call, CallStep(c), NEW t \in Tx, InPool(t)'
    PROVE  InPool(t) \/ (pc[c] = "insert" /\ t = tx[c])
<1>1. c \in Worker
  BY ListenerApart, Zenon
<1>2. ASSUME NEW p, p # "put", pc' = [pc EXCEPT ![c] = p]
      PROVE  \A w \in Worker : pc'[w] = "put" => pc[w] = "put"
  BY <1>2, Zenon DEF Typed, TypeOK
<1>3. CASE ReadNonce(c) \/ RefuseLow(c) \/ Classify(c) \/ WithinCapacity(c) \/ RefuseReplacement(c) \/ Promoted(c)
  <2>1. UNCHANGED <<pending, queued, held>>
    BY Zenon, <1>3 DEF ReadNonce, RefuseLow, Classify, WithinCapacity, RefuseReplacement, Promoted, pools, promotion
  <2>2. \E p : p # "put" /\ pc' = [pc EXCEPT ![c] = p]
    BY <1>3, Zenon DEF ReadNonce, RefuseLow, Classify, WithinCapacity, RefuseReplacement, Promoted, Done
  <2> QED BY <1>2, <2>1, <2>2, Zenon DEF InPool
<1>4. CASE Evict(c) \/ DropQueue(c)
  <2>1. pending' \subseteq pending /\ queued' \subseteq queued
    BY <1>4, Zenon DEF Evict, DropQueue
  <2>2. UNCHANGED held
    BY Zenon, <1>4 DEF Evict, DropQueue, promotion
  <2>3. pc' = pc \/ \E p : p # "put" /\ pc' = [pc EXCEPT ![c] = p]
    BY <1>4, Zenon DEF Evict, DropQueue
  <2> QED BY <1>2, <2>1, <2>2, <2>3, Zenon DEF InPool
<1>5. CASE Insert(c) \/ Replace(c)
  <2>1. pending' \cup queued' \subseteq pending \cup queued \cup {tx[c]}
    BY <1>5, Zenon DEF Insert, Replace
  <2>2. pc[c] = "insert" /\ UNCHANGED held
    BY Zenon, <1>5 DEF Insert, Replace
  <2>3. \E p : p # "put" /\ pc' = [pc EXCEPT ![c] = p]
    BY <1>5, Zenon DEF Insert, Replace, Done
  <2>4. \A w \in Worker : pc'[w] = "put" => pc[w] = "put"
    BY <1>2, <2>3, Zenon
  <2>5. CASE t \in pending' \cup queued'
    BY <2>1, <2>2, <2>5, Zenon DEF InPool
  <2>6. CASE \E w \in Worker : pc'[w] = "put" /\ held'[w] = t
    BY <2>2, <2>4, <2>6, Zenon DEF InPool
  <2> QED BY <2>5, <2>6, Zenon DEF InPool
<1>6. CASE Take(c) \/ Put(c)
  BY <1>1, <1>6, MovePool, Zenon
<1> QED BY <1>3, <1>4, <1>5, <1>6, Zenon DEF CallStep

\* The calls that do not step keep what they go by.
LEMMA ChosenByCall ==
    ASSUME Typed, Following, NEW c \in Call, CallStep(c), Chosen(c)'
    PROVE  \A d \in Call : Chosen(d)'
<1> SUFFICES ASSUME NEW d \in Call, d # c PROVE Chosen(d)'
  BY Zenon
<1>1. /\ pc'[d] = pc[d] /\ acct'[d] = acct[d] /\ tx'[d] = tx[d] /\ nonce'[d] = nonce[d]
      /\ flat' = flat
  BY CallFrame, ListenerApart, Zenon
<1>2. Chosen(d)
  BY Zenon DEF Following
<1> QED BY <1>1, <1>2, Zenon DEF Chosen, Stale

\* A call's step keeps what the call goes by.
LEMMA CallChosen ==
    ASSUME Typed, Following, NEW c \in Call, CallStep(c)
    PROVE  \A d \in Call : Chosen(d)'
<1>1. Chosen(c)
  BY Zenon DEF Following
<1>2. /\ pc[c] # "idle" /\ UNCHANGED flat /\ tx[c] \in Tx /\ acct[c] = Sender[tx[c]]
      /\ pc \in [Worker -> CallPc \cup ListenerPc] /\ c \in Worker
  BY <1>1, CallFrame, ListenerApart, Zenon DEF Typed, TypeOK, Locals, Chosen
<1>3. \A t : Stale(t)' <=> Stale(t)
  BY <1>2, Zenon DEF Stale
<1>4. \A p : pc' = [pc EXCEPT ![c] = p] => pc'[c] = p
  BY <1>2, Zenon
<1>5. ASSUME Done(c) PROVE Chosen(c)'
  <2>1. pc'[c] = "idle"
    BY <1>4, <1>5, ZenonT(60) DEF Done
  <2> QED BY <2>1, Zenon DEF Chosen
<1>6. CASE ReadNonce(c)
  <2>1. nonce'[c] = NonceAt[flat][acct[c]] /\ UNCHANGED <<tx, acct>>
    BY <1>6, Zenon DEF ReadNonce, promotion, Typed, TypeOK
  <2>2. pc'[c] = "add"
    BY <1>4, <1>6, Zenon DEF ReadNonce
  <2> QED BY <1>2, <2>1, <2>2, ChosenByCall, Zenon DEF Chosen
<1>7. CASE Classify(c)
  <2>1. pc'[c] \in {"insert", "evict"} /\ UNCHANGED <<tx, acct>>
    BY <1>4, <1>7, Zenon DEF Classify, promotion
  <2>2. Nonce[tx[c]] >= nonce[c] /\ nonce[c] = NonceAt[flat][acct[c]]
    BY <1>1, <1>7, Zenon DEF Classify, Chosen
  <2>3. Nonce[tx[c]] \in Nat /\ nonce[c] \in Nat
    BY <1>2, TxTypes, Zenon DEF Typed, TypeOK
  <2>4. ~Stale(tx[c])
    BY <1>2, <2>2, <2>3, Compared, Zenon DEF Stale
  <2> QED BY <1>2, <1>3, <2>1, <2>4, ChosenByCall, Zenon DEF Chosen
<1>8. CASE Evict(c) \/ DropQueue(c) \/ WithinCapacity(c)
  <2>1. pc[c] \in {"evict", "drop"} /\ UNCHANGED <<tx, acct>>
    BY <1>8, Zenon DEF Evict, DropQueue, WithinCapacity, promotion, calls
  <2>2. pc' = pc \/ \E p \in {"drop", "evict", "insert"} : pc' = [pc EXCEPT ![c] = p]
    BY <1>8, Zenon DEF Evict, DropQueue, WithinCapacity
  <2>3. pc'[c] \in {"evict", "drop", "insert"}
    BY <1>4, <2>1, <2>2, Zenon
  <2> QED BY <1>1, <1>2, <1>3, <2>1, <2>3, ChosenByCall, Zenon DEF Chosen
<1>9. CASE Take(c) \/ Put(c) \/ (Insert(c) /\ is_pending[c])
  <2>1. UNCHANGED <<tx, acct>>
    BY <1>9, Zenon DEF Take, Put, Insert, calls
  <2>2. pc'[c] \in {"take", "put"}
    BY <1>4, <1>9, Zenon DEF Take, Put, Insert
  <2> QED BY <1>2, <2>1, <2>2, ChosenByCall, ZenonT(60) DEF Chosen
<1>10. CASE RefuseLow(c) \/ Replace(c) \/ RefuseReplacement(c) \/ Promoted(c) \/ (Insert(c) /\ ~is_pending[c])
  <2>1. Done(c)
    BY <1>10, Zenon DEF RefuseLow, Replace, RefuseReplacement, Promoted, Insert
  <2> QED BY <1>5, <2>1, ChosenByCall, Zenon
<1> QED BY <1>6, <1>7, <1>8, <1>9, <1>10, Zenon DEF CallStep

\* Calls and blocks in turn: a call's step leaves no stale transaction.
LEMMA CallFollows ==
    ASSUME Typed, Following, NEW c \in Call, CallStep(c)
    PROVE  Following'
<1>1. Settled /\ \A t \in Tx : InPool(t) => ~Stale(t)
  BY BusyFresh, CallFrame, Zenon
<1>2. pc[c] = "insert" => ~Stale(tx[c])
  BY Zenon DEF Following, Chosen
<1>3. \A t \in Tx : InPool(t)' => ~Stale(t)
  BY <1>1, <1>2, CallPool, Zenon
<1>4. pc'[Listener] = pc[Listener]
  BY CallFrame, ListenerApart, Zenon
<1>5. StaleDue' /\ FlatFollows' /\ Settled'
  BY <1>1, <1>3, <1>4, CallFrame, FreshByCall, Zenon
<1> QED BY <1>5, CallChosen, Zenon DEF Following

\* A submission begins while the listener rests.
LEMMA SubmitFollows ==
    ASSUME Typed, Following, ~Interleaved, NEW c \in Call, NEW t \in Tx,
           SubmitTransaction(c, t) \/ ImportPooled(c, t)
    PROVE  Following'
<1>1. /\ Settled /\ tx' = [tx EXCEPT ![c] = t] /\ acct' = [acct EXCEPT ![c] = Sender[t]]
      /\ pc' = [pc EXCEPT ![c] = "nonce"]
      /\ UNCHANGED <<pending, queued, chain, nonce, held>>
  BY Zenon DEF SubmitTransaction, ImportPooled, Submit
<1>2. UNCHANGED <<head, flat, switching, events>>
  BY <1>1, Zenon DEF chain
<1>3. pc'[c] = "nonce" /\ \A w \in Worker \ {c} : pc'[w] = pc[w]
  BY <1>1, ListenerApart, Zenon DEF Typed, TypeOK
<1>4. tx'[c] = t /\ \A d \in Call \ {c} : tx'[d] = tx[d]
  BY <1>1, Zenon DEF Typed, TypeOK
<1>5. acct'[c] = Sender[t] /\ \A w \in Worker \ {c} : acct'[w] = acct[w]
  BY <1>1, ListenerApart, Zenon DEF Typed, TypeOK
<1>6. \A u \in Tx : InPool(u)' => InPool(u)
  <2>1. \A w \in Worker : pc'[w] = "put" => pc[w] = "put"
    BY <1>3, Zenon
  <2> QED BY <1>1, <2>1, Zenon DEF InPool
<1>7. \A u \in Tx : InPool(u) => ~Stale(u)
  BY <1>1, RestingNotDue, Zenon DEF Following, StaleDue
<1>8. StaleDue' /\ FlatFollows' /\ Settled'
  BY <1>1, <1>2, <1>3, <1>6, <1>7, FreshByCall, ListenerApart, Zenon
<1>9. ASSUME NEW d \in Call PROVE Chosen(d)'
  <2>1. CASE d = c
    BY <1>3, <1>4, <1>5, <2>1, Zenon DEF Chosen
  <2>2. CASE d # c
    <3>1. Chosen(d)
      BY Zenon DEF Following
    <3> QED BY <1>1, <1>2, <1>3, <1>4, <1>5, <2>2, <3>1, ListenerApart, Zenon DEF Chosen, Stale
  <2> QED BY <2>1, <2>2, Zenon
<1> QED BY <1>8, <1>9, Zenon DEF Following

\* Handling an event scans the accounts it covers: of a block the senders, or all.
LEMMA CoversScope ==
    ASSUME NEW ev \in Event, NEW old \in Nat, NEW a \in Account, Covers(ev, a)
    PROVE  a \in Revalidations(ev, old)[1] /\ Revalidations(ev, old)[2] # 0
<1> DEFINE all == BaseFee[ev.block] > old
<1>1. ev.kind = "canonical"
  BY Zenon DEF Covers
<1>2. CASE ev.kind = "canonical" /\ all
  BY <1>2 DEF Revalidations
<1>3. CASE ev.kind = "canonical" /\ ~all
  <2>1. a \in Senders(ev.block) /\ Includes[ev.block] # {}
    BY <1>3, Zenon DEF Covers, Senders
  <2>2. Revalidations(ev, old) = <<Senders(ev.block), 1>>
    BY <1>3, <2>1, Zenon DEF Revalidations
  <2> QED BY <2>1, <2>2
<1> QED BY <1>1, <1>2, <1>3, Zenon

\* The listener steps while no call runs, and leaves calls and chain alone.
LEMMA ListenerFrame ==
    ASSUME Typed, Following, ListenerStep
    PROVE  /\ CallsIdle /\ CallsIdle'
           /\ UNCHANGED <<head, flat, switching>>
<1>1. pc[Listener] # "idle" \/ events # <<>>
  BY ZenonT(60), SMTT(60) DEF ListenerStep, Receive, UpdateBaseFee, Scan, Sweep, PromoteAccount, Take, Put, AccountPromoted, NothingToTake, Revalidated
<1>2. CallsIdle
  BY <1>1, Zenon DEF Following, Settled
<1>3. UNCHANGED <<head, flat, switching>>
  BY ZenonT(60), SMTT(60) DEF ListenerStep, Receive, UpdateBaseFee, Scan, Sweep, PromoteAccount, Take, Put, AccountPromoted, Revalidated, chain
<1>4. \E p : pc' = [pc EXCEPT ![Listener] = p]
  BY ZenonT(60), SMTT(60) DEF ListenerStep, Receive, UpdateBaseFee, Scan, Sweep, PromoteAccount, Take, Put, AccountPromoted, Revalidated
<1>5. \A c \in Call : pc'[c] = pc[c]
  BY <1>4, ListenerApart, Zenon DEF Typed, TypeOK
<1> QED BY <1>2, <1>3, <1>5, Zenon DEF CallsIdle

\* Between revalidations a stale transaction waits for a block that is coming.
LEMMA ListenerWaits ==
    ASSUME Typed, Following, ListenerStep, pc[Listener] \notin {"fee", "scan", "sweep"},
           UNCHANGED events, \A t \in Tx : InPool(t)' => InPool(t)
    PROVE  StaleDue'
<1> SUFFICES ASSUME NEW t \in Tx, InPool(t)', Stale(t)' PROVE Due(t)'
  BY Zenon DEF StaleDue
<1>1. Stale(t) /\ UNCHANGED <<head, flat, switching>>
  BY ListenerFrame, Zenon DEF Stale
<1>2. Coming(t)
  BY <1>1, Zenon DEF Following, StaleDue, Due
<1> QED BY <1>1, <1>2, Zenon DEF Due, Coming

\* Nothing is between the queues while the listener scans.
LEMMA ScanSeesAll ==
    ASSUME CallsIdle, pc[Listener] # "put", NEW t, InPool(t)
    PROVE  t \in pending \cup queued
<1>1. \A w \in Worker : pc[w] # "put"
  BY Zenon DEF CallsIdle, Worker
<1> QED BY <1>1, Zenon DEF InPool

\* Each step of the listener leaves a stale transaction due, or removes it.
LEMMA ListenerDue ==
    ASSUME Typed, Following, ListenerStep
    PROVE  StaleDue'
<1>a. CallsIdle /\ CallsIdle' /\ UNCHANGED <<head, flat, switching>>
  BY ListenerFrame, Zenon
<1>b. \A p : pc' = [pc EXCEPT ![Listener] = p] => pc'[Listener] = p
  BY ListenerApart, Zenon DEF Typed, TypeOK
<1>c. \A t : Stale(t)' <=> Stale(t)
  BY <1>a, Zenon DEF Stale
<1>1. CASE Receive
  <2> DEFINE q == events
  <2>1. /\ pc[Listener] = "idle" /\ q # <<>> /\ event' = Head(q) /\ events' = Tail(q)
        /\ pc'[Listener] = "fee"
    BY <1>1, <1>b, Zenon DEF Receive
  <2>2. q \in Seq(Event)
    BY Zenon DEF Typed, TypeOK
  <2>3. pending' \subseteq pending /\ queued' \subseteq queued
    BY <1>1, RemoveShrinks, Zenon DEF Receive
  <2> HIDE DEF q
  <2> SUFFICES ASSUME NEW t \in Tx, InPool(t)', Stale(t)' PROVE Due(t)'
    BY Zenon DEF StaleDue
  <2>4. InPool(t)
    <3>1. t \in pending' \cup queued'
      BY <1>a, <2>1, ScanSeesAll, Zenon DEF InPool, CallsIdle, Worker
    <3> QED BY <2>3, <3>1, Zenon DEF InPool
  <2>5. Coming(t)
    BY <1>c, <2>1, <2>4, Zenon DEF Following, StaleDue, Due
  <2>6. CASE \E i \in DOMAIN q : Covers(q[i], Sender[t])
    <3>1. PICK i \in DOMAIN q : Covers(q[i], Sender[t])
      BY <2>6, Zenon
    <3>2. CASE i = 1
      <4>1. Head(q) = q[i]
        BY <2>1, <2>2, <3>2, Received, Zenon
      <4> QED BY <2>1, <3>1, <4>1, ZenonT(60) DEF Due
    <3>3. CASE i # 1
      <4>1. i - 1 \in DOMAIN Tail(q) /\ Tail(q)[i - 1] = q[i]
        BY <2>1, <2>2, <3>3, Received, Zenon
      <4> QED BY <2>1, <3>1, <4>1, Zenon DEF Due, Coming
    <3> QED BY <3>2, <3>3, Zenon
  <2>7. CASE ~\E i \in DOMAIN q : Covers(q[i], Sender[t])
    BY <1>a, <2>5, <2>7, Zenon DEF Due, Coming, q
  <2> QED BY <2>6, <2>7, Zenon
<1>2. CASE UpdateBaseFee
  <2>1. /\ pc[Listener] = "fee" /\ scope' = Revalidations(event, base_fee)[1]
        /\ pc' = [pc EXCEPT ![Listener] = IF passes' = 0 THEN "idle" ELSE "scan"]
        /\ passes' = Revalidations(event, base_fee)[2]
        /\ UNCHANGED <<pending, queued, events, held>>
    BY Zenon, <1>2 DEF UpdateBaseFee, pools, chain, promotion
  <2>2. event \in Event /\ base_fee \in Nat
    BY <2>1, Zenon DEF Typed, TypeOK, Locals
  <2> SUFFICES ASSUME NEW t \in Tx, InPool(t)', Stale(t)' PROVE Due(t)'
    BY Zenon DEF StaleDue
  <2>3. pc'[Listener] # "put"
    BY <1>b, <2>1, Zenon
  <2>4. InPool(t)
    <3>1. \A w \in Worker : pc'[w] # "put"
      BY <1>a, <2>3, Zenon DEF CallsIdle, Worker
    <3> QED BY <2>1, <3>1, Zenon DEF InPool
  <2>5. CASE Coming(t)
    BY <1>a, <2>1, <2>5, Zenon DEF Due, Coming
  <2>6. CASE Covers(event, Sender[t])
    <3>1. Sender[t] \in scope' /\ passes' # 0
      BY <2>1, <2>2, <2>6, CoversScope, TxTypes, Zenon
    <3>2. pc'[Listener] = "scan"
      BY <1>b, <2>1, <3>1, Zenon
    <3> QED BY <3>1, <3>2, Zenon DEF Due
  <2> QED BY <1>c, <2>1, <2>4, <2>5, <2>6, Zenon DEF Following, StaleDue, Due
<1>3. CASE Scan
  <2>1. /\ pc[Listener] = "scan" /\ pc'[Listener] = "sweep"
        /\ to_remove' = {u \in pending \cup queued : Sender[u] \in scope /\ ~StillValid(u)}
        /\ UNCHANGED <<pending, queued, events, held>>
    BY <1>3, <1>b, Zenon DEF Scan, pools, chain, promotion
  <2> SUFFICES ASSUME NEW t \in Tx, InPool(t)', Stale(t)' PROVE Due(t)'
    BY Zenon DEF StaleDue
  <2>2. t \in pending \cup queued
    <3>1. \A w \in Worker : pc'[w] # "put"
      BY <1>a, <2>1, Zenon DEF CallsIdle, Worker
    <3> QED BY <2>1, <3>1, Zenon DEF InPool
  <2>3. InPool(t)
    BY <2>2, Zenon DEF InPool
  <2>4. CASE Coming(t)
    BY <1>a, <2>1, <2>4, Zenon DEF Due, Coming
  <2>5. CASE Sender[t] \in scope
    <3>1. Nonce[t] \in Nat /\ NonceAt[flat][Sender[t]] \in Nat
      BY TxTypes, BlockTypes, Zenon DEF Typed, TypeOK
    <3>2. ~(Nonce[t] >= NonceAt[flat][Sender[t]])
      BY <1>c, <3>1, Compared, Zenon DEF Stale
    <3>3. ~StillValid(t)
      BY <3>2, Zenon DEF StillValid
    <3>4. t \in to_remove'
      BY <2>1, <2>2, <2>5, <3>3, Zenon
    <3> QED BY <2>1, <3>4, Zenon DEF Due
  <2> QED BY <1>c, <2>1, <2>3, <2>4, <2>5, ZenonT(60) DEF Following, StaleDue, Due
<1>4. CASE Sweep
  <2>1. pc[Listener] = "sweep" /\ pc'[Listener] = "promote" /\ UNCHANGED events
    BY <1>4, <1>b, Zenon DEF Sweep, chain
  <2>2. pending' = pending \ to_remove /\ queued' = queued \ to_remove
    BY <1>4, Zenon DEF Sweep, RemoveTransactions
  <2> SUFFICES ASSUME NEW t \in Tx, InPool(t)', Stale(t)' PROVE Due(t)'
    BY Zenon DEF StaleDue
  <2>3. t \in pending' \cup queued'
    <3>1. \A w \in Worker : pc'[w] # "put"
      BY <1>a, <2>1, Zenon DEF CallsIdle, Worker
    <3> QED BY <3>1, Zenon DEF InPool
  <2>4. InPool(t) /\ t \notin to_remove
    BY <2>2, <2>3, Zenon DEF InPool
  <2>5. Coming(t)
    BY <1>c, <2>1, <2>4, Zenon DEF Following, StaleDue, Due
  <2> QED BY <1>a, <2>1, <2>5, Zenon DEF Due, Coming
<1>5. CASE Take(Listener) \/ Put(Listener)
  <2>1. pc[Listener] \in {"take", "put"} /\ UNCHANGED events
    BY <1>5, Zenon DEF Take, Put, chain
  <2> QED BY <1>5, <2>1, ListenerWaits, MovePool, ListenerApart, Zenon
<1>6. CASE PromoteAccount \/ AccountPromoted \/ Revalidated
  <2>1. pc[Listener] \in {"promote", "take"} /\ UNCHANGED <<pending, queued, events, held>>
    BY <1>6, Zenon DEF PromoteAccount, AccountPromoted, NothingToTake, Revalidated, pools, chain, promotion
  <2>2. pc'[Listener] # "put"
    <3>1. \E p : p # "put" /\ pc' = [pc EXCEPT ![Listener] = p]
      BY <1>6, Zenon DEF PromoteAccount, AccountPromoted, Revalidated
    <3> QED BY <1>b, <3>1, Zenon
  <2>3. \A w \in Worker : pc'[w] # "put"
    BY <1>a, <2>2, Zenon DEF CallsIdle, Worker
  <2>4. \A t \in Tx : InPool(t)' => InPool(t)
    BY <2>1, <2>3, Zenon DEF InPool
  <2> QED BY <2>1, <2>4, ListenerWaits, Zenon
<1> QED BY <1>1, <1>2, <1>3, <1>4, <1>5, <1>6, Zenon DEF ListenerStep

\* The listener's steps keep all of it.
LEMMA ListenerFollows ==
    ASSUME Typed, Following, ListenerStep
    PROVE  Following'
<1>1. FlatFollows'
  BY ListenerFrame, Zenon DEF Following, FlatFollows
<1>2. CallsIdle' /\ \A c \in Call : Chosen(c)'
  BY ListenerFrame, Zenon DEF CallsIdle, Chosen
<1> QED BY <1>1, <1>2, ListenerDue, Zenon DEF Following

\* Blocks come while no call runs, and leave pool and tasks alone.
LEMMA ChainFrame ==
    ASSUME Following, ~Interleaved, ChainStep
    PROVE  /\ CallsIdle /\ CallsIdle'
           /\ UNCHANGED <<pending, queued, held, pc, event, scope, to_remove>>
<1>1. CallsIdle
  BY ZenonT(60), SMTT(60) DEF ChainStep, ImportBlock, ExtendHead, SwitchBranch, RestoreDiscarded, Canonicalize, ChainMoves, Following, Settled
<1>2. UNCHANGED <<pending, queued, held, pc, event, scope, to_remove>>
  BY ZenonT(60), SMTT(60) DEF ChainStep, ImportBlock, ExtendHead, SwitchBranch, RestoreDiscarded, Canonicalize, pools, promotion, listening
<1> QED BY <1>1, <1>2, Zenon DEF CallsIdle

\* A nonce that a longer chain has used and a shorter one has not is used by a block
\* between them.
LEMMA NewlyStale ==
    ASSUME NEW b \in Block, NEW d \in Block, Blocks(d) \subseteq Blocks(b), NEW t \in Tx,
           Nonce[t] < NonceAt[b][Sender[t]]
    PROVE  Nonce[t] < NonceAt[d][Sender[t]]
           \/ \E e \in Blocks(b) \ Blocks(d) : Sender[t] \in Senders(e)
<1>1. Sender[t] \in Account /\ Nonce[t] \in Nat
  BY TxTypes, Zenon
<1>2. NonceAt[d][Sender[t]] \in Nat /\ NonceAt[b][Sender[t]] \in Nat
  BY <1>1, BlockTypes, Zenon
<1>3. CASE NonceAt[d][Sender[t]] = NonceAt[b][Sender[t]]
  BY <1>3, Zenon
<1>4. CASE NonceAt[d][Sender[t]] # NonceAt[b][Sender[t]]
  BY <1>1, <1>4, StateAssumption, Zenon
<1> QED BY <1>3, <1>4, Zenon

\* The ancestors of an ancestor are ancestors, and so is what comes after it.
LEMMA LineageClosed ==
    ASSUME NEW b \in Block, NEW i \in DOMAIN Lineage[b]
    PROVE  /\ Blocks(Lineage[b][i]) \subseteq Blocks(b)
           /\ \A j \in DOMAIN Lineage[b] : i <= j => Lineage[b][j] \in Blocks(Lineage[b][i])
<1> DEFINE q == Lineage[b]
           r == SubSeq(q, i, Len(q))
<1>1. q \in Seq(Block) /\ i \in DOMAIN q
  BY BlockTypes
<1>2. Blocks(Lineage[b][i]) = {r[k] : k \in DOMAIN r}
  BY LineageAssumption, Zenon DEF Blocks
<1>3. Blocks(b) = {q[k] : k \in DOMAIN q}
  BY Zenon DEF Blocks
<1> HIDE DEF q
<1>4. {r[k] : k \in DOMAIN r} \subseteq {q[k] : k \in DOMAIN q}
  BY <1>1, Ending, Zenon
<1>5. \A j \in DOMAIN q : i <= j => q[j] \in {r[k] : k \in DOMAIN r}
  BY <1>1, Ending, Zenon
<1> QED BY <1>2, <1>3, <1>4, <1>5, Zenon DEF q

\* newPayload moves the account table ahead: whom it makes stale its block covers.
LEMMA ImportFollows ==
    ASSUME Typed, Following, NEW b \in Block, ImportBlock(b)
    PROVE  StaleDue' /\ FlatFollows'
<1>1. /\ switching = None /\ flat' = b /\ Lineage[b] = <<b>> \o Lineage[flat]
      /\ UNCHANGED <<head, switching, events, pending, queued, held, pc, event, scope, to_remove>>
  BY Zenon DEF ImportBlock, ChainMoves, pools, promotion, listening
<1>2. flat \in Block
  BY Zenon DEF Typed, TypeOK
<1>3. Blocks(flat) \subseteq Blocks(b)
  <2> DEFINE q == Lineage[flat]
  <2>1. q \in Seq(Block)
    BY <1>2, BlockTypes, Zenon
  <2>2. Lineage[b] = <<b>> \o q
    BY <1>1, Zenon
  <2> HIDE DEF q
  <2>3. \A i \in DOMAIN q : i + 1 \in DOMAIN (<<b>> \o q) /\ (<<b>> \o q)[i + 1] = q[i]
    BY <2>1
  <2>4. \A i \in DOMAIN q : \E j \in DOMAIN Lineage[b] : Lineage[b][j] = q[i]
    BY <2>2, <2>3, Zenon
  <2> QED BY <2>4, Zenon DEF Blocks, q
<1>4. Blocks(head) \subseteq Blocks(flat)
  BY <1>1, Zenon DEF Following, FlatFollows
<1>5. FlatFollows'
  BY <1>1, <1>3, <1>4, Zenon DEF FlatFollows
<1>6. StaleDue'
  <2> SUFFICES ASSUME NEW t \in Tx, InPool(t)', Stale(t)' PROVE Due(t)'
    BY Zenon DEF StaleDue
  <2>1. InPool(t)
    BY <1>1, Zenon DEF InPool
  <2>2. Stale(t) \/ \E e \in Blocks(b) \ Blocks(flat) : Sender[t] \in Senders(e)
    BY <1>1, <1>2, <1>3, NewlyStale, Zenon DEF Stale
  <2>3. CASE \E e \in Blocks(b) \ Blocks(flat) : Sender[t] \in Senders(e)
    <3>1. \E e \in Blocks(b) \ Blocks(head) : Sender[t] \in Senders(e)
      BY <1>4, <2>3, Zenon
    <3> QED BY <1>1, <3>1, Zenon DEF Due, Coming
  <2>4. CASE Stale(t)
    <3>1. Due(t)
      BY <2>1, <2>4, Zenon DEF Following, StaleDue
    <3>2. CASE \E e \in Blocks(flat) \ Blocks(head) : Sender[t] \in Senders(e)
      <4>1. \E e \in Blocks(b) \ Blocks(head) : Sender[t] \in Senders(e)
        BY <1>3, <3>2, Zenon
      <4> QED BY <1>1, <4>1, Zenon DEF Due, Coming
    <3>3. CASE ~\E e \in Blocks(flat) \ Blocks(head) : Sender[t] \in Senders(e)
      BY <1>1, <3>1, <3>3, Zenon DEF Due, Coming
    <3> QED BY <3>2, <3>3, Zenon
  <2> QED BY <2>2, <2>3, <2>4, Zenon
<1> QED BY <1>5, <1>6, Zenon

\* The new head's blocks are about to be sent.
LEMMA ExtendFollows ==
    ASSUME Typed, Following, NEW b \in Block, ExtendHead(b)
    PROVE  StaleDue' /\ FlatFollows'
<1>1. /\ switching = None /\ head' = b /\ switching' = head
      /\ Blocks(head) \subseteq Blocks(b) /\ Blocks(b) \subseteq Blocks(flat)
      /\ UNCHANGED <<flat, events, pending, queued, held, pc, event, scope, to_remove>>
  BY Zenon DEF ExtendHead, ChainMoves, pools, promotion, listening
<1>2. head # None
  BY TxAssumption, Zenon DEF Typed, TypeOK
<1>3. FlatFollows'
  BY <1>1, <1>2, Zenon DEF FlatFollows
<1>4. StaleDue'
  <2> SUFFICES ASSUME NEW t \in Tx, InPool(t)', Stale(t)' PROVE Due(t)'
    BY Zenon DEF StaleDue
  <2>1. Due(t)
    BY <1>1, Zenon DEF Following, StaleDue, InPool, Stale
  <2>2. CASE \E e \in Blocks(flat) \ Blocks(head) : Sender[t] \in Senders(e)
    <3>1. PICK e \in Blocks(flat) \ Blocks(head) : Sender[t] \in Senders(e)
      BY <2>2, Zenon
    <3>2. CASE e \in Blocks(b)
      BY <1>1, <1>2, <3>1, <3>2, Zenon DEF Due, Coming
    <3>3. CASE e \notin Blocks(b)
      BY <1>1, <3>1, <3>3, Zenon DEF Due, Coming
    <3> QED BY <3>2, <3>3, Zenon
  <2>3. CASE ~\E e \in Blocks(flat) \ Blocks(head) : Sender[t] \in Senders(e)
    BY <1>1, <2>1, <2>3, Zenon DEF Due, Coming
  <2> QED BY <2>2, <2>3, Zenon
<1> QED BY <1>3, <1>4, Zenon

\* Going back to the common ancestor makes nothing stale, and the channel only grows.
LEMMA SwitchFollows ==
    ASSUME Typed, Following, NEW b \in Block, SwitchBranch(b)
    PROVE  StaleDue' /\ FlatFollows'
<1>1. /\ switching = None /\ flat = head /\ head' = b /\ switching' = head
      /\ UNCHANGED <<pending, queued, held, pc, event, scope, to_remove>>
  BY Zenon DEF SwitchBranch, ChainMoves, pools, promotion, listening
<1>2. flat' \in Block /\ Blocks(flat') = Blocks(head) \cap Blocks(b)
  BY Zenon DEF SwitchBranch
<1>3. head \in Block /\ head # None
  BY TxAssumption, Zenon DEF Typed, TypeOK
<1>4. FlatFollows'
  <2>1. Blocks(b) \cap Blocks(head) \subseteq Blocks(flat') /\ Blocks(flat') \subseteq Blocks(b)
    BY <1>2, Zenon
  <2> QED BY <1>1, <1>3, <2>1, Zenon DEF FlatFollows, Blocks
<1>5. \A i \in DOMAIN events : i \in DOMAIN events' /\ events'[i] = events[i]
  <2>1. PICK d \in Block : events' = events \o <<ReorgEvent(d), ReorgEvent(b)>>
    BY Zenon DEF SwitchBranch
  <2>2. events \in Seq(Event)
    BY Zenon DEF Typed, TypeOK
  <2> QED BY <2>1, <2>2, SwitchSends, Zenon
<1>6. StaleDue'
  <2> SUFFICES ASSUME NEW t \in Tx, InPool(t)', Stale(t)' PROVE Due(t)'
    BY Zenon DEF StaleDue
  <2>1. Stale(t)
    <3>1. Sender[t] \in Account /\ Nonce[t] \in Nat
      BY TxTypes, Zenon
    <3>2. NonceAt[flat'][Sender[t]] \in Nat /\ NonceAt[head][Sender[t]] \in Nat
      BY <1>2, <1>3, <3>1, BlockTypes, Zenon
    <3>3. Blocks(flat') \subseteq Blocks(head)
      BY <1>2, Zenon
    <3>4. NonceAt[flat'][Sender[t]] <= NonceAt[head][Sender[t]]
      BY <1>2, <1>3, <3>1, <3>3, StateAssumption, Zenon
    <3>5. Nonce[t] < NonceAt[flat'][Sender[t]]
      BY Zenon DEF Stale
    <3>6. Nonce[t] < NonceAt[head][Sender[t]]
      BY <3>1, <3>2, <3>4, <3>5, StillBelow, Zenon
    <3> QED BY <1>1, <3>6, Zenon DEF Stale
  <2>2. Due(t)
    BY <1>1, <2>1, Zenon DEF Following, StaleDue, InPool
  <2>3. CASE \E i \in DOMAIN events : Covers(events[i], Sender[t])
    BY <1>5, <2>3, Zenon DEF Due, Coming
  <2>4. CASE ~\E i \in DOMAIN events : Covers(events[i], Sender[t])
    <3>1. ~Coming(t)
      BY <1>1, <2>4, Zenon DEF Coming
    <3> QED BY <1>1, <2>2, <3>1, Zenon DEF Due
  <2> QED BY <2>3, <2>4, Zenon
<1> QED BY <1>4, <1>6, Zenon

\* Restoring blobs and announcing discarded transactions changes nothing that counts.
LEMMA RestoreFollows ==
    ASSUME Following, RestoreDiscarded
    PROVE  StaleDue' /\ FlatFollows'
<1>1. UNCHANGED <<pending, queued, head, flat, switching, events, pc, held, event, scope, to_remove>>
  BY Zenon DEF RestoreDiscarded, promotion, listening
<1> QED BY <1>1, Zenon DEF Following, StaleDue, FlatFollows, InPool, Stale, Due, Coming, Covers

\* resolve_reorg's list has every block of the new head's chain the old one lacks.
LEMMA CanonicalizeSends ==
    ASSUME Typed, Canonicalize, NEW e \in Blocks(head) \ Blocks(switching)
    PROVE  \E i \in DOMAIN events' : events'[i] = CanonicalEvent(e)
<1> DEFINE q == Lineage[head]
<1>1. PICK n \in 0 .. Len(q) :
          /\ n < Len(q) => q[n + 1] \in Blocks(switching)
          /\ events' = events \o [i \in 1 .. n |-> CanonicalEvent(q[i])]
  BY Zenon DEF Canonicalize
<1>2. head \in Block /\ switching \in Block /\ q \in Seq(Block) /\ events \in Seq(Event)
  BY BlockTypes, Zenon DEF Canonicalize, Typed, TypeOK
<1>3. PICK k \in DOMAIN q : q[k] = e
  BY Zenon DEF Blocks
<1>4. n \in Nat /\ k \in 1 .. n
  <2>1. n \in Nat /\ (k \in 1 .. n \/ (n < Len(q) /\ n + 1 \in DOMAIN q /\ n + 1 <= k))
    BY <1>2, UpTo, Zenon
  <2>2. CASE n < Len(q) /\ n + 1 \in DOMAIN q /\ n + 1 <= k
    <3>1. q[n + 1] \in Blocks(switching)
      BY <1>1, <2>2, Zenon
    <3>2. e \in Blocks(q[n + 1])
      BY <1>2, <1>3, <2>2, LineageClosed, Zenon
    <3>3. PICK m \in DOMAIN Lineage[switching] : Lineage[switching][m] = q[n + 1]
      BY <3>1, Zenon DEF Blocks
    <3>4. Blocks(q[n + 1]) \subseteq Blocks(switching)
      BY <1>2, <3>3, LineageClosed, Zenon
    <3> QED BY <3>2, <3>4, Zenon
  <2> QED BY <2>1, <2>2, Zenon
<1> DEFINE sent == [i \in 1 .. n |-> CanonicalEvent(q[i])]
<1>5. sent \in Seq(Event) /\ k \in 1 .. Len(sent)
  BY <1>2, <1>4, SentBatch, Zenon
<1>6. sent[k] = CanonicalEvent(e)
  BY <1>3, <1>4, Zenon
<1> HIDE DEF sent, q
<1>7. /\ Len(events) + k \in DOMAIN (events \o sent)
      /\ (events \o sent)[Len(events) + k] = sent[k]
  BY <1>2, <1>5, BatchSent, Zenon
<1> QED BY <1>1, <1>6, <1>7, Zenon DEF sent

\* The switch ends with the events of all blocks it made canonical on their way.
LEMMA CanonicalizeFollows ==
    ASSUME Typed, Following, Canonicalize
    PROVE  StaleDue' /\ FlatFollows'
<1>1. /\ switching # None /\ switching' = None
      /\ flat' = IF Blocks(flat) \subseteq Blocks(head) THEN head ELSE flat
      /\ UNCHANGED <<head, pending, queued, held, pc, event, scope, to_remove>>
  BY Zenon DEF Canonicalize, pools, promotion, listening
<1>2. head \in Block /\ flat \in Block
  BY Zenon DEF Typed, TypeOK
<1>3. /\ Blocks(head) \cap Blocks(switching) \subseteq Blocks(flat)
      /\ Blocks(head) \subseteq Blocks(flat) \/ Blocks(flat) \subseteq Blocks(head)
  BY <1>1, Zenon DEF Following, FlatFollows
<1>4. FlatFollows'
  BY <1>1, <1>3, Zenon DEF FlatFollows
<1>5. \A i \in DOMAIN events : i \in DOMAIN events' /\ events'[i] = events[i]
  <2>1. PICK n \in 0 .. Len(Lineage[head]) :
            events' = events \o [i \in 1 .. n |-> CanonicalEvent(Lineage[head][i])]
    BY Zenon DEF Canonicalize
  <2> DEFINE sent == [i \in 1 .. n |-> CanonicalEvent(Lineage[head][i])]
  <2>2. events \in Seq(Event) /\ sent \in Seq(Event)
    BY <1>2, BlockTypes, SentBatch, Zenon DEF Typed, TypeOK
  <2> HIDE DEF sent
  <2>3. \A i \in DOMAIN events : i \in DOMAIN (events \o sent) /\ (events \o sent)[i] = events[i]
    BY <2>2, BatchKeeps, Zenon
  <2> QED BY <2>1, <2>3, Zenon DEF sent
<1>6. ASSUME NEW t \in Tx, NEW e \in Blocks(head) \ Blocks(switching), Sender[t] \in Senders(e)
      PROVE  Due(t)'
  <2>1. PICK i \in DOMAIN events' : events'[i] = CanonicalEvent(e)
    BY CanonicalizeSends, Zenon
  <2>2. Covers(CanonicalEvent(e), Sender[t])
    BY <1>6, Zenon DEF Covers, CanonicalEvent
  <2>3. Covers(events'[i], Sender[t])
    BY <2>1, <2>2, Zenon
  <2> QED BY <2>3, Zenon DEF Due, Coming, Covers
<1>7. StaleDue'
  <2> SUFFICES ASSUME NEW t \in Tx, InPool(t)', Stale(t)' PROVE Due(t)'
    BY Zenon DEF StaleDue
  <2>1. InPool(t)
    BY <1>1, Zenon DEF InPool
  <2>2. CASE ~Stale(t)
    <3>1. flat' = head /\ Blocks(flat) \subseteq Blocks(head)
      BY <1>1, <2>2, Zenon DEF Stale
    <3>2. \E e \in Blocks(head) \ Blocks(flat) : Sender[t] \in Senders(e)
      BY <1>2, <2>2, <3>1, NewlyStale, Zenon DEF Stale
    <3> QED BY <1>3, <1>6, <3>2, Zenon
  <2>3. CASE Stale(t)
    <3>1. Due(t)
      BY <2>1, <2>3, Zenon DEF Following, StaleDue
    <3>2. CASE \E e \in Blocks(head) \ Blocks(switching) : Sender[t] \in Senders(e)
      BY <1>6, <3>2, Zenon
    <3>3. CASE \E i \in DOMAIN events : Covers(events[i], Sender[t])
      BY <1>5, <3>3, Zenon DEF Due, Coming, Covers
    <3>4. CASE \E e \in Blocks(flat) \ Blocks(head) : Sender[t] \in Senders(e)
      <4>1. flat' = flat
        BY <1>1, <3>4, Zenon
      <4> QED BY <1>1, <3>4, <4>1, Zenon DEF Due, Coming
    <3> QED BY <1>1, <3>1, <3>2, <3>3, <3>4, Zenon DEF Due, Coming, Covers
  <2> QED BY <2>2, <2>3, Zenon
<1> QED BY <1>4, <1>7, Zenon

\* Every step keeps each stale transaction due, calls and blocks in turn.
LEMMA NextFollows ==
    ASSUME Typed, Following, ~Interleaved, [Next]_vars
    PROVE  Following'
<1>1. CASE UNCHANGED vars
  <2>1. UNCHANGED <<pending, queued, head, flat, switching, events, pc, tx, nonce, acct, held, event, scope, to_remove>>
    BY <1>1, Zenon DEF vars, pools, chain, calls, listening, promotion
  <2>2. StaleDue' /\ FlatFollows'
    BY <2>1, Zenon DEF Following, StaleDue, FlatFollows, InPool, Stale, Due, Coming, Covers
  <2>3. CallsIdle' \/ Settled'
    BY <2>1, Zenon DEF Following, CallsIdle, Settled
  <2>4. \A c \in Call : Chosen(c)'
    BY <2>1, Zenon DEF Following, Chosen, Stale
  <2> QED BY <2>2, <2>3, <2>4, Zenon DEF Following
<1>2. CASE ChainStep
  <2>1. StaleDue' /\ FlatFollows'
    BY <1>2, ImportFollows, ExtendFollows, SwitchFollows, RestoreFollows, CanonicalizeFollows, Zenon DEF ChainStep
  <2>2. CallsIdle' /\ \A c \in Call : Chosen(c)'
    BY <1>2, ChainFrame, Zenon DEF CallsIdle, Chosen
  <2> QED BY <2>1, <2>2, Zenon DEF Following
<1> QED BY <1>1, <1>2, SubmitFollows, CallFollows, ListenerFollows, Zenon DEF Next

\* Once the listener has caught up, the pool has no transaction whose nonce the chain
\* has used, for any transactions, any tree of blocks and any forkchoice updates, when
\* submissions and blocks come in turn: every block that used a nonce has had its
\* senders revalidated against a table that is at least as far.
THEOREM CaughtUpFresh ==
    ASSUME ~Interleaved
    PROVE  Spec => []NoStalePooled
<1>1. Init => Following
  <2> SUFFICES ASSUME Init PROVE Following
    BY Zenon
  <2>1. CallsIdle /\ \A c \in Call : Chosen(c)
    BY ListenerApart, Zenon DEF Init, CallsIdle, Chosen
  <2>2. FlatFollows
    BY Zenon DEF Init, FlatFollows
  <2>3. StaleDue
    BY Zenon DEF Init, StaleDue, InPool
  <2> QED BY <2>1, <2>2, <2>3, Zenon DEF Following
<1>2. Typed /\ Following => NoStalePooled
  <2> SUFFICES ASSUME Typed, Following, Settled, NEW t \in pending \cup queued
               PROVE  Nonce[t] >= NonceAt[head][Sender[t]]
    BY Zenon DEF NoStalePooled
  <2>1. t \in Tx /\ InPool(t) /\ flat = head
    BY Zenon DEF Typed, TypeOK, InPool, Settled
  <2>2. ~Stale(t)
    BY <2>1, RestingNotDue, Zenon DEF Following, StaleDue
  <2>3. Nonce[t] \in Nat /\ NonceAt[head][Sender[t]] \in Nat
    BY <2>1, TxTypes, BlockTypes, Zenon DEF Typed, TypeOK
  <2> QED BY <2>1, <2>2, <2>3, Compared, Zenon DEF Stale
<1> QED BY <1>1, <1>2, InitTyped, NextTyped, NextFollows, PTL DEF Spec

=============================================================================
