------------------------------ MODULE TxGossip ------------------------------
(***************************************************************************)
(* Transactions on their way through the network of Peers: the pool        *)
(* announces what it accepted (EngineEvent, GossipBridge, SyncService's    *)
(* broadcast), the peer asks for what it does not know (SyncController),   *)
(* the answer goes through the session's pending requests and back into    *)
(* the pool.                                                               *)
(*                                                                         *)
(* A job is a task SyncService spawned for one message:                    *)
(*   [kind, peer, c, txs, asked, pc]                                       *)
(* with c the connection the message came on and, once a download waits,   *)
(* the one it asked on; asked is what the download is for.  A request id   *)
(* is random in the code; here it is the set of hashes asked for, which a  *)
(* node never asks for twice because it never leaves seen_txs.             *)
(***************************************************************************)
EXTENDS Peers, SequencesExt

CONSTANTS
    Tx,         \* transactions
    Blob,       \* those that need a sidecar to be served
    Unwanted,   \* those a pool may refuse, evict or replace
    BusCap,     \* capacity of the EngineEvent channel
    BatchCap,   \* transactions announced at once at the latest
    SeenCap,    \* size beyond which the bridge forgets
    MaxSubmits, \* transactions submitted by users
    MaxMined    \* transactions that get into a block

VARIABLES
    pool,       \* per node, the mempool
    envelope,   \* per node, transactions whose pooled form is kept
    chain,      \* per node, transactions in stored blocks
    bus,        \* per node, NewTransaction events the bridge has not received
    bridged,    \* per node, seen_hashes of the bridge
    batch,      \* per node, pending_txs of the bridge
    seenTxs,    \* per node, seen_txs of the SyncController
    jobs,       \* per node, the tasks at work
    awaiting,   \* connection |-> node |-> pending_pooled_txs
    announced,  \* <<x, c, n>>: n announced x on c
    missed,     \* <<x, n>>: n asked for x and did not get it, or lost its event
    rejected,   \* <<x, n>>: n refused x, or had it and dropped it
    submits, mined

gossipVars == <<pool, envelope, chain, bus, bridged, batch, seenTxs, jobs, awaiting, announced, missed,
                rejected, submits, mined>>
vars == <<peerVars, gossipVars>>

NoSets == [n \in Node |-> {}]
Fresh(kind, m, c, txs) == [kind |-> kind, peer |-> m, c |-> c, txs |-> txs, asked |-> {}, pc |-> "fresh"]

NoGossip ==
    /\ pool = NoSets /\ envelope = NoSets /\ bus = NoMessages
    /\ chain = NoSets /\ bridged = NoSets /\ seenTxs = NoSets
    /\ jobs = NoSets /\ batch = NoMessages
    /\ awaiting = [c \in Conn |-> NoSets] /\ announced = {} /\ missed = {} /\ rejected = {}
    /\ submits = 0 /\ mined = 0

-----------------------------------------------------------------------------
(* RpcEngine: a transaction enters the pool and the bus                    *)

\* submit_transaction_with_source, after the pooled form was kept.  A transaction is
\* refused for its chain id, its type or its initcode, or by add_transaction: a used
\* nonce, a replacement that pays too little.  A broadcast channel that is full forgets
\* its oldest event; the bridge goes on after RecvError::Lagged.
Admit(n, x) ==
    /\ envelope' = [envelope EXCEPT ![n] = @ \cup {x}]
    /\ \/ x \in pool[n] \cup chain[n] /\ UNCHANGED <<pool, bus, missed, rejected>>
       \/ /\ x \in Unwanted \ (pool[n] \cup chain[n])
          /\ rejected' = rejected \cup {<<x, n>>} /\ UNCHANGED <<pool, bus, missed>>
       \/ /\ x \notin pool[n] \cup chain[n]
          /\ pool' = [pool EXCEPT ![n] = @ \cup {x}]
          /\ bus' = [bus EXCEPT ![n] = IF Len(@) < BusCap THEN Append(@, x) ELSE Append(Tail(@), x)]
          /\ missed' = IF Len(bus[n]) < BusCap THEN missed
                       ELSE missed \cup {<<Head(bus[n]), m>> : m \in Node \ {n}}
          /\ UNCHANGED rejected

\* A user's transaction, over RPC.
Submit(n, x) ==
    /\ submits < MaxSubmits /\ x \notin pool[n] \cup chain[n]
    /\ Admit(n, x)
    /\ submits' = submits + 1
    /\ UNCHANGED <<peerVars, chain, bridged, batch, seenTxs, jobs, awaiting, announced, mined>>

\* enforce_capacity, revalidation and promotion over an occupied nonce drop a transaction
\* and keep its pooled form; a replacement takes that too.
Evict(n, x) ==
    /\ x \in Unwanted \cap pool[n]
    /\ pool' = [pool EXCEPT ![n] = @ \ {x}]
    /\ envelope' \in {envelope, [envelope EXCEPT ![n] = @ \ {x}]}
    /\ rejected' = rejected \cup {<<x, n>>}
    /\ UNCHANGED <<peerVars, chain, bus, bridged, batch, seenTxs, jobs, awaiting, announced, missed,
                   submits, mined>>

\* A block with a transaction is executed, which takes it out of the pool with its
\* pooled form and blobs.
Mine(n, x) ==
    /\ mined < MaxMined /\ x \notin chain[n]
    /\ \E m \in Node : x \in pool[m] \cup chain[m]
    /\ pool' = [pool EXCEPT ![n] = @ \ {x}] /\ envelope' = [envelope EXCEPT ![n] = @ \ (pool[n] \cap {x})]
    /\ chain' = [chain EXCEPT ![n] = @ \cup {x}]
    /\ mined' = mined + 1
    /\ UNCHANGED <<peerVars, bus, bridged, batch, seenTxs, jobs, awaiting, announced, missed, rejected,
                   submits>>

-----------------------------------------------------------------------------
(* GossipBridge                                                            *)

\* Without its sidecar a blob transaction is neither announced nor served.
Servable(n, x) == x \in envelope[n] \/ (x \in (pool[n] \cup chain[n]) \ Blob)

\* broadcast_new_pooled_transaction_hashes, to the sessions of this moment.
Broadcast(n, txs) ==
    LET known == {x \in txs : x \in envelope[n] \/ x \notin Blob}
        to == {active[n][m] : m \in DOMAIN active[n]} IN
    IF known = {} \/ to = {} THEN UNCHANGED <<chan, announced>>
    ELSE /\ chan' = [c \in Conn |-> IF c \in to /\ Accepts(c, n)
                                    THEN [chan[c] EXCEPT ![n] = Append(@, [kind |-> "announce", txs |-> known])]
                                    ELSE chan[c]]
         /\ announced' = announced \cup {<<x, c, n>> : x \in known, c \in to}

\* An event: a hash the bridge has seen is not announced again, its own or not.
Bridge(n) ==
    /\ bus[n] # <<>>
    /\ bus' = [bus EXCEPT ![n] = Tail(@)]
    /\ LET x == Head(bus[n])
           seen == IF Cardinality(bridged[n]) > SeenCap THEN {} ELSE bridged[n] IN
       IF x \in bridged[n]
       THEN UNCHANGED <<bridged, batch, chan, announced>>
       ELSE /\ bridged' = [bridged EXCEPT ![n] = seen \cup {x}]
            /\ IF Len(batch[n]) + 1 >= BatchCap
               THEN batch' = [batch EXCEPT ![n] = <<>>] /\ Broadcast(n, ToSet(batch[n]) \cup {x})
               ELSE batch' = [batch EXCEPT ![n] = Append(@, x)] /\ UNCHANGED <<chan, announced>>
    /\ UNCHANGED <<rows, active, events, removing, dial, inFlight, permits, penalty, conn, end, wire,
                   broken, cut, left, calls, faults>>
    /\ UNCHANGED <<pool, envelope, chain, seenTxs, jobs, awaiting, missed, rejected, submits, mined>>

\* The 50 ms tick.
Flush(n) ==
    /\ batch[n] # <<>>
    /\ batch' = [batch EXCEPT ![n] = <<>>]
    /\ Broadcast(n, ToSet(batch[n]))
    /\ UNCHANGED <<rows, active, events, removing, dial, inFlight, permits, penalty, conn, end, wire,
                   broken, cut, left, calls, faults>>
    /\ UNCHANGED <<pool, envelope, chain, bus, bridged, seenTxs, jobs, awaiting, missed, rejected, submits, mined>>

-----------------------------------------------------------------------------
(* SessionTask: requests out, messages in                                  *)

\* handle_request for everything but a Disconnect.  A request that was sent waits in
\* the pending map; a failed send is the answer of the request and is ignored for the
\* rest.  What is sent after the other end went away may still be taken by the socket.
TakeRequest(c, n) ==
    /\ end[c][n] = "running" /\ chan[c][n] # <<>> /\ Head(chan[c][n]).kind # "disconnect"
    /\ chan' = [chan EXCEPT ![c][n] = Tail(@)]
    /\ LET msg == Head(chan[c][n])
           asked == [kind |-> "announce", peer |-> Other(c, n), c |-> c, txs |-> msg.txs,
                     asked |-> msg.txs, pc |-> "wait"] IN
       \/ /\ wire' = IF Gone(c, n) THEN wire ELSE [wire EXCEPT ![c][Other(c, n)] = Append(@, msg)]
          /\ awaiting' = IF msg.kind = "get" THEN [awaiting EXCEPT ![c][n] = @ \cup {msg.txs}] ELSE awaiting
          /\ UNCHANGED <<jobs, missed>>
       \/ /\ Gone(c, n) /\ UNCHANGED <<wire, awaiting>>
          /\ IF msg.kind = "get" /\ asked \in jobs[n]
             THEN /\ jobs' = [jobs EXCEPT ![n] = @ \ {asked}]
                  /\ missed' = missed \cup (msg.txs \X {n})
             ELSE UNCHANGED <<jobs, missed>>
    /\ UNCHANGED <<rows, active, events, removing, dial, inFlight, permits, penalty, conn, end,
                   broken, cut, left, calls, faults>>
    /\ UNCHANGED <<pool, envelope, chain, bus, bridged, batch, seenTxs, announced, rejected, submits, mined>>

\* handle_get_*, handle_new_pooled_transaction_hashes: on to SyncService, which spawns
\* a task per message, so that messages of one peer may overtake each other.
HandleGossip(c, n, msg) ==
    /\ jobs' = [jobs EXCEPT ![n] = @ \cup {Fresh(msg.kind, Other(c, n), c, msg.txs)}]
    /\ UNCHANGED <<awaiting, missed>>

\* handle_pooled_transactions: to the request with this id, if it still waits.
HandlePooled(c, n, msg) ==
    /\ awaiting' = [awaiting EXCEPT ![c][n] = @ \ {msg.id}]
    /\ jobs' = [jobs EXCEPT ![n] =
           {IF /\ j.pc = "wait" /\ j.c = c /\ j.txs = msg.id /\ msg.id \in awaiting[c][n]
            THEN [j EXCEPT !.pc = "import", !.txs = msg.txs, !.asked = msg.txs] ELSE j : j \in @}]
    /\ missed' = missed \cup ((msg.id \ msg.txs) \X {n})

ReadMessage(c, n) ==
    /\ end[c][n] = "running" /\ chan[c][n] = <<>> /\ c \notin broken
    /\ wire[c][n] # <<>> /\ Head(wire[c][n]).kind # "disconnect"
    /\ wire' = [wire EXCEPT ![c][n] = Tail(@)]
    /\ LET msg == Head(wire[c][n]) IN
       IF msg.kind = "pooled" THEN HandlePooled(c, n, msg) ELSE HandleGossip(c, n, msg)
    /\ UNCHANGED <<rows, active, events, removing, dial, inFlight, permits, penalty, conn, end, chan,
                   broken, cut, left, calls, faults>>
    /\ UNCHANGED <<pool, envelope, chain, bus, bridged, batch, seenTxs, announced, rejected, submits, mined>>

-----------------------------------------------------------------------------
(* SyncService::handle_peer_gossip and the SyncController                  *)

IsCurrent(n, m, c) == m \in DOMAIN active[n] /\ active[n][m] = c
Done(n, j) == jobs' = [jobs EXCEPT ![n] = @ \ {j}]
Becomes(n, j, k) == jobs' = [jobs EXCEPT ![n] = (@ \ {j}) \cup {k}]
Unanswered(n, j) == missed' = missed \cup (j.asked \X {n})

\* A message of a session that was replaced is dropped.
DropStale(n, j) ==
    /\ j.pc = "fresh" /\ ~IsCurrent(n, j.peer, j.c)
    /\ Done(n, j)
    /\ UNCHANGED <<peerVars, pool, envelope, chain, bus, bridged, batch, seenTxs, awaiting, announced, missed,
                   rejected, submits, mined>>

\* Mutant: transactions with blobs are passed over.
HandleAnnouncedPlain(n, j) ==
    /\ j.kind = "announce" /\ j.pc = "fresh" /\ IsCurrent(n, j.peer, j.c)
    /\ LET want == j.txs \ (pool[n] \cup chain[n] \cup seenTxs[n] \cup Blob) IN
       /\ seenTxs' = [seenTxs EXCEPT ![n] = @ \cup want]
       /\ IF want = {} THEN Done(n, j)
          ELSE Becomes(n, j, [j EXCEPT !.pc = "ask", !.txs = want, !.asked = want])
    /\ UNCHANGED <<peerVars, pool, envelope, chain, bus, bridged, batch, awaiting, announced, missed, rejected, submits,
                   mined>>

\* handle_announced_pooled_transactions up to the download: what is neither pooled, nor
\* on chain, nor seen before is asked for, and counts as seen from here on.
HandleAnnounced(n, j) ==
    /\ j.kind = "announce" /\ j.pc = "fresh" /\ IsCurrent(n, j.peer, j.c)
    /\ LET want == j.txs \ (pool[n] \cup chain[n] \cup seenTxs[n]) IN
       /\ seenTxs' = [seenTxs EXCEPT ![n] = @ \cup want]
       /\ IF want = {} THEN Done(n, j)
          ELSE Becomes(n, j, [j EXCEPT !.pc = "ask", !.txs = want, !.asked = want])
    /\ UNCHANGED <<peerVars, pool, envelope, chain, bus, bridged, batch, awaiting, announced, missed, rejected, submits,
                   mined>>

\* download_pooled_transactions: the session of the peer now, if it has one.
Ask(n, j) ==
    /\ j.pc = "ask"
    /\ IF j.peer \notin DOMAIN active[n]
       THEN Done(n, j) /\ Unanswered(n, j) /\ UNCHANGED chan
       ELSE LET c == active[n][j.peer] IN
            IF Accepts(c, n)
            THEN /\ chan' = Request(c, n, [kind |-> "get", txs |-> j.txs])
                 /\ Becomes(n, j, [j EXCEPT !.pc = "wait", !.c = c]) /\ UNCHANGED missed
            ELSE Becomes(n, j, [j EXCEPT !.pc = "report"]) /\ Unanswered(n, j) /\ UNCHANGED chan
    /\ UNCHANGED <<rows, active, events, removing, dial, inFlight, permits, penalty, conn, end, wire,
                   broken, cut, left, calls, faults>>
    /\ UNCHANGED <<pool, envelope, chain, bus, bridged, batch, seenTxs, awaiting, announced, rejected, submits, mined>>

\* The task that held the request is gone: "Response channel closed".
AskClosed(n, j) ==
    /\ j.pc = "wait" /\ end[j.c][n] = "closed"
    /\ Becomes(n, j, [j EXCEPT !.pc = "report"]) /\ Unanswered(n, j)
    /\ UNCHANGED <<peerVars, pool, envelope, chain, bus, bridged, batch, seenTxs, awaiting, announced, rejected, submits,
                   mined>>

\* Neither the request of j nor an answer to it is anywhere any more.
NoAnswer(n, j) ==
    LET c == j.c
        m == j.peer
        Holds(msgs, kind) == \E i \in DOMAIN msgs : msgs[i].kind = kind IN
    /\ ~Holds(chan[c][n], "get") /\ ~Holds(wire[c][m], "get")
    /\ ~Holds(chan[c][m], "pooled") /\ ~Holds(wire[c][n], "pooled")
    /\ ~\E k \in jobs[m] : k.kind = "get" /\ k.peer = n

\* Mutant: a request without a timeout.
AskTimeoutNever(n, j) == FALSE

\* 90 s without an answer; the id stays in the pending map.  That the answer was only
\* late counts as a fault.
AskTimeout(n, j) ==
    /\ j.pc = "wait"
    /\ \/ NoAnswer(n, j) /\ UNCHANGED faults
       \/ faults < MaxFaults /\ faults' = faults + 1
    /\ Done(n, j) /\ Unanswered(n, j)
    /\ UNCHANGED <<rows, active, events, removing, dial, inFlight, permits, penalty, conn, end, chan, wire,
                   broken, cut, left, calls>>
    /\ UNCHANGED <<pool, envelope, chain, bus, bridged, batch, seenTxs, awaiting, announced, rejected, submits, mined>>

\* disconnect_peer, spawned for a closed session; lost when the channel is full.
Report(n, j) ==
    /\ j.pc = "report"
    /\ IF j.peer \in DOMAIN active[n] /\ Len(events[n]) < EventCap
       THEN DisconnectPeer(n, j.peer) ELSE UNCHANGED <<events, cut>>
    /\ Done(n, j)
    /\ UNCHANGED <<rows, active, removing, dial, inFlight, permits, penalty, conn, end, chan, wire,
                   broken, left, calls, faults>>
    /\ UNCHANGED <<pool, envelope, chain, bus, bridged, batch, seenTxs, awaiting, announced, missed, rejected, submits,
                   mined>>

\* process_pooled_transactions: one after the other into the pool.
Import(n, j) ==
    /\ j.pc = "import"
    /\ IF j.txs = {}
       THEN Done(n, j) /\ UNCHANGED <<pool, envelope, bus, missed, rejected>>
       ELSE \E x \in j.txs : Admit(n, x) /\ Becomes(n, j, [j EXCEPT !.txs = @ \ {x}])
    /\ UNCHANGED <<peerVars, chain, bridged, batch, seenTxs, awaiting, announced, submits, mined>>

\* A request of the peer is answered by a task of its own.
AcceptGet(n, j) ==
    /\ j.kind = "get" /\ j.pc = "fresh" /\ IsCurrent(n, j.peer, j.c)
    /\ Becomes(n, j, [j EXCEPT !.pc = "serve"])
    /\ UNCHANGED <<peerVars, pool, envelope, chain, bus, bridged, batch, seenTxs, awaiting, announced, missed,
                   rejected, submits, mined>>

\* Mutant: a request none of whose transactions can be served gets no answer.
ServeSilently(n, j) ==
    /\ j.pc = "serve"
    /\ LET found == {x \in j.txs : Servable(n, x)} IN
       chan' = IF j.peer \in DOMAIN active[n] /\ found # {}
               THEN Request(active[n][j.peer], n, [kind |-> "pooled", id |-> j.txs, txs |-> found])
               ELSE chan
    /\ Done(n, j)
    /\ UNCHANGED <<rows, active, events, removing, dial, inFlight, permits, penalty, conn, end, wire,
                   broken, cut, left, calls, faults>>
    /\ UNCHANGED <<pool, envelope, chain, bus, bridged, batch, seenTxs, awaiting, announced, missed, rejected, submits,
                   mined>>

\* handle_get_pooled_transactions: over the peer's session of now, which need not be the
\* one that asked.
Serve(n, j) ==
    /\ j.pc = "serve"
    /\ chan' = IF j.peer \in DOMAIN active[n]
               THEN Request(active[n][j.peer], n,
                            [kind |-> "pooled", id |-> j.txs, txs |-> {x \in j.txs : Servable(n, x)}])
               ELSE chan
    /\ Done(n, j)
    /\ UNCHANGED <<rows, active, events, removing, dial, inFlight, permits, penalty, conn, end, wire,
                   broken, cut, left, calls, faults>>
    /\ UNCHANGED <<pool, envelope, chain, bus, bridged, batch, seenTxs, awaiting, announced, missed, rejected, submits,
                   mined>>

-----------------------------------------------------------------------------
\* A restart loses the pool, the bridge and every task; the blocks stay.
RestartNode(n) ==
    /\ Restart(n)
    /\ pool' = [pool EXCEPT ![n] = {}] /\ envelope' = [envelope EXCEPT ![n] = {}]
    /\ bus' = [bus EXCEPT ![n] = <<>>] /\ bridged' = [bridged EXCEPT ![n] = {}]
    /\ batch' = [batch EXCEPT ![n] = <<>>] /\ seenTxs' = [seenTxs EXCEPT ![n] = {}]
    /\ jobs' = [jobs EXCEPT ![n] = {}]
    /\ awaiting' = [c \in Conn |-> [awaiting[c] EXCEPT ![n] = {}]]
    /\ UNCHANGED <<chain, announced, missed, rejected, submits, mined>>

SessionStep(c, n) == (EndStep(c, n) /\ UNCHANGED gossipVars) \/ TakeRequest(c, n) \/ ReadMessage(c, n)
BridgeStep(n) == Bridge(n) \/ Flush(n)
JobStep(n, j) ==
    \/ DropStale(n, j) \/ HandleAnnounced(n, j) \/ Ask(n, j) \/ AskClosed(n, j) \/ AskTimeout(n, j)
    \/ Report(n, j) \/ Import(n, j) \/ AcceptGet(n, j) \/ Serve(n, j)

GossipNext ==
    \/ PeersNext /\ UNCHANGED gossipVars
    \/ \E c \in DOMAIN conn : \E n \in {conn[c].from, conn[c].to} : TakeRequest(c, n) \/ ReadMessage(c, n)
    \/ \E n \in Node : BridgeStep(n) \/ \E j \in jobs[n] : JobStep(n, j)
    \/ \E n \in Node : RestartNode(n) \/ \E x \in Tx : Submit(n, x) \/ Evict(n, x) \/ Mine(n, x)

GossipFairness ==
    /\ \A t \in Task : WF_vars(DialStep(t) /\ UNCHANGED gossipVars)
    /\ \A c \in Conn, n \in Node : WF_vars(c \in DOMAIN conn /\ <<c, n>> \in Ends /\ SessionStep(c, n))
    /\ \A n \in Node :
         /\ WF_vars(RegistryStep(n) /\ UNCHANGED gossipVars)
         /\ WF_vars(BridgeStep(n))
         /\ WF_vars(\E j \in jobs[n] : JobStep(n, j))
=============================================================================
