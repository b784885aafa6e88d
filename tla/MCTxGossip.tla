----------------------------- MODULE MCTxGossip -----------------------------
(* Two connected nodes and two transactions, one of them with blobs. *)
EXTENDS TxGossip

CONSTANTS n1, n2, a1, a2, t1, t2, x1, x2

MCRank == (n1 :> 1) @@ (n2 :> 2)
MCDialLimit == (n1 :> 1) @@ (n2 :> 1)
MCAt == (a1 :> n1) @@ (a2 :> n2)
MCOwner == (t1 :> n1) @@ (t2 :> n2)
MCTarget == (t1 :> a2) @@ (t2 :> a1)

\* Either n1's connection is up, and n2, which read its rows before that one was
\* registered, is about to connect as well: its connection will win the tie-break.
\* Or n2's connection has won, and n1's is gone.
Up(c) == (n1 :> (n2 :> c)) @@ (n2 :> (n1 :> c))
First == (1 :> [from |-> n1, to |-> n2, addr |-> a2])
Second == (2 :> [from |-> n2, to |-> n1, addr |-> a1])
BothEnds(state) == [n \in Node |-> state]

Connected ==
    /\ \/ /\ conn = First /\ active = Up(1)
          /\ end = [c \in Conn |-> IF c = 1 THEN BothEnds("running") ELSE NoEnds]
          /\ rows = (n1 :> (n2 :> a2)) @@ (n2 :> (n1 :> Ephemeral))
          /\ dial = (t1 :> Idle) @@ (t2 :> [pc |-> "connecting", pool |-> {}])
          /\ inFlight = (n1 :> {}) @@ (n2 :> {a1}) /\ permits = (n1 :> 1) @@ (n2 :> 0)
          /\ calls = 1
       \/ /\ conn = First @@ Second /\ active = Up(2)
          /\ end = [c \in Conn |-> BothEnds(IF c = 1 THEN "closed" ELSE "running")]
          /\ rows = (n1 :> (n2 :> Ephemeral)) @@ (n2 :> (n1 :> a1))
          /\ dial = [t \in Task |-> Idle] /\ inFlight = NoSets /\ permits = [n \in Node |-> 1]
          /\ calls = 2
    /\ events = NoMessages /\ removing = NoSets /\ penalty = NoSets
    /\ chan = [c \in Conn |-> NoMessages] /\ wire = [c \in Conn |-> NoMessages]
    /\ broken = {} /\ cut = {} /\ left = {} /\ faults = 0

\* A transaction with blobs was just admitted by n1.
OneAdmitted ==
    /\ pool = (n1 :> {x1}) @@ (n2 :> {}) /\ envelope = pool
    /\ bus = (n1 :> <<x1>>) @@ (n2 :> <<>>)
    /\ chain = NoSets /\ bridged = NoSets /\ seenTxs = NoSets
    /\ jobs = NoSets /\ batch = NoMessages
    /\ awaiting = [c \in Conn |-> NoSets] /\ announced = {} /\ missed = {} /\ rejected = {}
    /\ submits = 0 /\ mined = 0

\* What is bounded together: a second transaction, or a fault, or two of a block, a
\* transaction refused or dropped, and n2's connection.
Budget == 2
Effort == 2 * submits + 2 * faults + mined + Cardinality(rejected) + (Cardinality(DOMAIN conn) - calls)
Next ==
    /\ \/ GossipNext
       \/ \E n \in Node : \E m \in Node \ {n} : ReportClosed(n, m) /\ UNCHANGED gossipVars
    /\ Effort' <= Budget
Start == Connected /\ OneAdmitted
Spec == Start /\ [][Next]_vars /\ GossipFairness

Known(n) == pool[n] \cup chain[n]
Live(c, n) ==
    /\ end[c][n] = "running" /\ IsCurrent(n, Other(c, n), c)
    /\ c \notin broken

\* The 90 s timeout of get_pooled_transactions is for lost sessions only: while the
\* session asked is the current one at both ends, its request or the answer is on its
\* way, even if nothing asked for can be served any more
\* (handle_get_pooled_transactions: "we send an empty response").
AnswerOnItsWay ==
    \A n \in Node : \A j \in jobs[n] :
        j.pc = "wait" /\ Live(j.c, n) /\ Live(j.c, j.peer) => ~NoAnswer(n, j)

Still ==
    /\ \A n \in Node : jobs[n] = {} /\ bus[n] = <<>> /\ batch[n] = <<>>
    /\ \A e \in Ends : end[e[1]][e[2]] \in {"running", "leaving"} =>
          chan[e[1]][e[2]] = <<>> /\ wire[e[1]][e[2]] = <<>>

\* A transaction broadcast_new_pooled_transaction_hashes announced on a session that is
\* still current at both ends is, once nothing moves any more, in the peer's pool or
\* chain, unless the peer's one request for it went unanswered, or the peer refused it or
\* dropped it from its pool again.
SpreadWhenStill ==
    Still => \A a \in announced :
        LET m == Other(a[2], a[3]) IN
        Live(a[2], a[3]) /\ Live(a[2], m) => a[1] \in Known(m) \/ <<a[1], m>> \in missed \cup rejected

\* Every event is announced or dropped, every request of a SessionTask answered, timed
\* out or lost with its session, every task of SyncService done: the exchange comes to
\* rest, and no download waits for ever.
Settles == <>[]Still

=============================================================================
