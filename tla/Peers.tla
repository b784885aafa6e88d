------------------------------- MODULE Peers -------------------------------
(***************************************************************************)
(* The nodes of a network and the RLPx connections between them: the       *)
(* PeerDialer, the P2pServer, the PeerRegistry of active sessions and the  *)
(* life of a SessionTask at both ends of every connection.                 *)
(*                                                                         *)
(* A connection c has an end at each of its two nodes.  An end goes through *)
(*   shaking     inside Handshake::handle_inbound / handle_outbound        *)
(*   shaken      the handshake succeeded                                   *)
(*   rowed       the peer's row is written, the session not yet registered *)
(*   registered  register_session_arc returned, the task not yet spawned   *)
(*   running     SessionTask::run is in its loop                           *)
(*   leaving     the loop is left, notify_disconnect still to finish       *)
(*   closed      the stream is dropped; "failed" if it never shook hands,  *)
(*               "bonded" if the dialer found the peer already connected   *)
(* A session id is the connection: next_session_id never repeats one.      *)
(* chan is the request channel of a session, wire the bytes on their way   *)
(* to an end.                                                              *)
(***************************************************************************)
EXTENDS Naturals, Sequences, FiniteSets

CONSTANTS
    Node,       \* the nodes, by peer id
    Rank,       \* the order of the peer ids
    Addr,       \* socket addresses that are dialed
    At,         \* the node that listens at an address
    Conn,       \* the connections there may be, 1..n
    Task,       \* dial tasks
    Owner,      \* the node a dial task runs on
    Target,     \* the address it dials
    DialLimit,  \* permits of a node's dial_limit
    EventCap,   \* capacity of the disconnect channel
    MaxCalls,   \* dial calls of a behaviour
    MaxFaults   \* failures, reports of a closed session and restarts of a behaviour

ASSUME PeersAssumption ==
    /\ Owner \in [Task -> Node] /\ Target \in [Task -> Addr] /\ At \in [Addr -> Node]
    /\ DialLimit \in [Node -> Nat \ {0}] /\ EventCap \in Nat \ {0}
    /\ Rank \in [Node -> Nat] /\ \A n, m \in Node : n # m => Rank[n] # Rank[m]

VARIABLES
    rows,       \* per node, the ActivePeers table: peer |-> address
    active,     \* per node, active_sessions: peer |-> connection
    events,     \* per node, the disconnect channel
    removing,   \* per node, the peers whose row the disconnect loop is about to remove
    dial,       \* per task, where perform_dial is
    inFlight,   \* per node, in_flight
    permits,    \* per node, free permits of dial_limit
    penalty,    \* per node, protocol_penalties
    conn,       \* the connections opened so far: [from, to, addr]
    end,        \* connection |-> node |-> state of its end
    chan,       \* connection |-> node |-> requests the session task has not taken
    wire,       \* connection |-> node |-> messages on their way to that end
    broken,     \* connections whose link failed
    cut,        \* <<c, n>>: disconnect_peer named it while its task ran
    left,       \* <<n, m>>: rows that outlived a restart
    calls, faults

peerVars == <<rows, active, events, removing, dial, inFlight, permits, penalty, conn, end,
              chan, wire, broken, cut, left, calls, faults>>

Idle == [pc |-> "idle"]
NoEnds == [n \in Node |-> "none"]
NoMessages == [n \in Node |-> <<>>]
With(f, x, v) == [y \in DOMAIN f \cup {x} |-> IF y = x THEN v ELSE f[y]]
Without(f, x) == [y \in DOMAIN f \ {x} |-> f[y]]
Disconnect == [kind |-> "disconnect"]
Ephemeral == "ephemeral"     \* the source address of an accepted connection

Init ==
    /\ rows = [n \in Node |-> <<>>] /\ active = [n \in Node |-> <<>>]
    /\ events = [n \in Node |-> <<>>] /\ removing = [n \in Node |-> {}]
    /\ dial = [t \in Task |-> Idle]
    /\ inFlight = [n \in Node |-> {}] /\ permits = DialLimit
    /\ penalty = [n \in Node |-> {}]
    /\ conn = <<>> /\ end = [c \in Conn |-> NoEnds]
    /\ chan = [c \in Conn |-> NoMessages] /\ wire = [c \in Conn |-> NoMessages]
    /\ broken = {} /\ cut = {} /\ left = {} /\ calls = 0 /\ faults = 0

Other(c, n) == IF conn[c].from = n THEN conn[c].to ELSE conn[c].from
Ends == {e \in (DOMAIN conn) \X Node : e[2] \in {conn[e[1]].from, conn[e[1]].to}}
InProgress == {"shaking", "shaken", "rowed", "registered"}

\* The request channel of a session exists until its task is dropped.
Accepts(c, n) == end[c][n] \in {"registered", "running", "leaving"}

\* PeerSession's send: an error, which every caller here ignores, once the task is gone.
Request(c, n, msg) ==
    IF Accepts(c, n) THEN [chan EXCEPT ![c][n] = Append(@, msg)] ELSE chan

-----------------------------------------------------------------------------
(* PeerDialer                                                              *)

\* dial_peer, dial_enode: the fast path, then a task is spawned.
Dial(t) ==
    /\ calls < MaxCalls /\ dial[t].pc = "idle"
    /\ Target[t] \notin inFlight[Owner[t]]
    /\ At[Target[t]] # Owner[t]
    /\ dial' = [dial EXCEPT ![t] = [pc |-> "spawned"]]
    /\ calls' = calls + 1
    /\ UNCHANGED <<rows, active, events, removing, inFlight, permits, penalty, conn, end, chan,
                   wire, broken, cut, left, faults>>

\* dial_internal_common: one dial per address, the others return.
EnterFlight(t) ==
    /\ dial[t].pc = "spawned"
    /\ LET n == Owner[t] IN
       IF Target[t] \in inFlight[n]
       THEN dial' = [dial EXCEPT ![t] = Idle] /\ UNCHANGED inFlight
       ELSE /\ dial' = [dial EXCEPT ![t] = [pc |-> "queued"]]
            /\ inFlight' = [inFlight EXCEPT ![n] = @ \cup {Target[t]}]
    /\ UNCHANGED <<rows, active, events, removing, permits, penalty, conn, end, chan, wire, broken,
                   cut, left, calls, faults>>

AcquirePermit(t) ==
    /\ dial[t].pc = "queued" /\ permits[Owner[t]] > 0
    /\ permits' = [permits EXCEPT ![Owner[t]] = @ - 1]
    /\ dial' = [dial EXCEPT ![t] = [pc |-> "admitted"]]
    /\ UNCHANGED <<rows, active, events, removing, inFlight, penalty, conn, end, chan, wire, broken,
                   cut, left, calls, faults>>

\* A dial that runs out of time frees its address.
PermitTimeout(t) ==
    /\ dial[t].pc = "queued" /\ permits[Owner[t]] = 0
    /\ dial' = [dial EXCEPT ![t] = Idle]
    /\ inFlight' = [inFlight EXCEPT ![Owner[t]] = @ \ {Target[t]}]
    /\ UNCHANGED <<rows, active, events, removing, permits, penalty, conn, end, chan, wire, broken,
                   cut, left, calls, faults>>

\* The end of dial_internal_common, whatever perform_dial returned.
Release(t) ==
    /\ dial' = [dial EXCEPT ![t] = Idle]
    /\ inFlight' = [inFlight EXCEPT ![Owner[t]] = @ \ {Target[t]}]
    /\ permits' = [permits EXCEPT ![Owner[t]] = @ + 1]

\* perform_dial up to the connection: a penalty or a row with this address ends
\* it; the rows read here are the ones the handshake's result is compared with.
ReadPool(t) ==
    /\ dial[t].pc = "admitted"
    /\ LET n == Owner[t] IN
       IF \/ Target[t] \in penalty[n]
          \/ \E m \in DOMAIN rows[n] : rows[n][m] = Target[t]
       THEN Release(t)
       ELSE /\ dial' = [dial EXCEPT ![t] = [pc |-> "connecting", pool |-> DOMAIN rows[n]]]
            /\ UNCHANGED <<inFlight, permits>>
    /\ UNCHANGED <<rows, active, events, removing, penalty, conn, end, chan, wire, broken, cut, left,
                   calls, faults>>

\* The TCP connection is accepted by P2pServer::run, which spawns handle_connection.
Connect(t) ==
    /\ dial[t].pc = "connecting"
    /\ LET c == Len(conn) + 1
           n == Owner[t]
           m == At[Target[t]] IN
       /\ c \in Conn
       /\ conn' = Append(conn, [from |-> n, to |-> m, addr |-> Target[t]])
       /\ end' = [end EXCEPT ![c][n] = "shaking", ![c][m] = "shaking"]
       /\ dial' = [dial EXCEPT ![t] = [pc |-> "dialing", pool |-> dial[t].pool, c |-> c]]
    /\ UNCHANGED <<rows, active, events, removing, inFlight, permits, penalty, chan, wire, broken, cut,
                   left, calls, faults>>

\* Connection refused or timed out.
ConnectFails(t) ==
    /\ dial[t].pc = "connecting"
    /\ faults < MaxFaults \/ Len(conn) + 1 \notin Conn
    /\ faults' = IF faults < MaxFaults THEN faults + 1 ELSE faults
    /\ Release(t)
    /\ UNCHANGED <<rows, active, events, removing, penalty, conn, end, chan, wire, broken, cut, left,
                   calls>>

\* The outbound end is past registration, or the dial gave up.
DialDone(t) ==
    /\ dial[t].pc = "dialing" /\ end[dial[t].c][Owner[t]] \notin InProgress
    /\ Release(t)
    /\ UNCHANGED <<rows, active, events, removing, penalty, conn, end, chan, wire, broken, cut, left,
                   calls, faults>>

PenaltyExpires(n) ==
    /\ penalty[n] # {}
    /\ penalty' = [penalty EXCEPT ![n] = {}]
    /\ UNCHANGED <<rows, active, events, removing, dial, inFlight, permits, conn, end, chan, wire, broken,
                   cut, left, calls, faults>>

-----------------------------------------------------------------------------
(* Handshake, P2pServer::handle_connection and the tail of perform_dial    *)

\* What the other end sent before it failed is not enough for this end.
ShakeDone(c, n) ==
    /\ end[c][n] = "shaking" /\ end[c][Other(c, n)] # "failed" /\ c \notin broken
    /\ end' = [end EXCEPT ![c][n] = "shaken"]
    /\ UNCHANGED <<rows, active, events, removing, dial, inFlight, permits, penalty, conn, chan, wire,
                   broken, cut, left, calls, faults>>

\* A handshake error or its 30 s timeout; the dialer penalises a MAC mismatch.
ShakeFails(c, n) ==
    /\ end[c][n] = "shaking"
    /\ \/ (end[c][Other(c, n)] = "failed" \/ c \in broken) /\ UNCHANGED faults
       \/ faults < MaxFaults /\ faults' = faults + 1
    /\ end' = [end EXCEPT ![c][n] = "failed"]
    /\ \/ UNCHANGED penalty
       \/ n = conn[c].from /\ penalty' = [penalty EXCEPT ![n] = @ \cup {conn[c].addr}]
    /\ UNCHANGED <<rows, active, events, removing, dial, inFlight, permits, conn, chan, wire, broken,
                   cut, left, calls>>

\* register_peer.  The dialer first looks for the peer among the rows it read
\* before it connected, and drops the stream if it is there.
RegisterPeer(c, n) ==
    /\ end[c][n] = "shaken"
    /\ LET m == Other(c, n)
           bonded == \E t \in Task : /\ Owner[t] = n /\ dial[t].pc = "dialing"
                                     /\ dial[t].c = c /\ m \in dial[t].pool IN
       IF bonded
       THEN end' = [end EXCEPT ![c][n] = "bonded"] /\ UNCHANGED <<rows, left>>
       ELSE /\ end' = [end EXCEPT ![c][n] = "rowed"]
            /\ left' = left \ {<<n, m>>}
            /\ rows' = [rows EXCEPT ![n] =
                   With(@, m, IF conn[c].from = n THEN conn[c].addr ELSE Ephemeral)]
    /\ UNCHANGED <<active, events, removing, dial, inFlight, permits, penalty, conn, chan, wire, broken,
                   cut, calls, faults>>

\* The tie-break: of two connections the one the higher id opened stays.
KeepExisting(n, m, c) ==
    IF Rank[n] > Rank[m] THEN conn[c].from = n ELSE conn[c].from # n

\* Mutant: the loser is not told to disconnect.
RegisterSessionSilently(c, n) ==
    /\ end[c][n] = "rowed"
    /\ LET m == Other(c, n) IN
       /\ IF m \in DOMAIN active[n] /\ KeepExisting(n, m, active[n][m])
          THEN UNCHANGED active
          ELSE active' = [active EXCEPT ![n] = With(@, m, c)]
       /\ UNCHANGED chan
    /\ end' = [end EXCEPT ![c][n] = "registered"]
    /\ UNCHANGED <<rows, events, removing, dial, inFlight, permits, penalty, conn, wire, broken, cut,
                   left, calls, faults>>

\* Mutant: the session is entered before the existing one is looked up.
RegisterSessionEntersFirst(c, n) ==
    /\ end[c][n] = "rowed"
    /\ LET m == Other(c, n) IN
       /\ active' = [active EXCEPT ![n] = With(@, m, c)]
       /\ chan' = IF KeepExisting(n, m, c) THEN [chan EXCEPT ![c][n] = Append(@, Disconnect)] ELSE chan
    /\ end' = [end EXCEPT ![c][n] = "registered"]
    /\ UNCHANGED <<rows, events, removing, dial, inFlight, permits, penalty, conn, wire, broken, cut,
                   left, calls, faults>>

\* register_session_arc.  The Disconnect that follows the unlock is folded in: the
\* session it goes to is already out of the map, and only its own task takes it.
RegisterSession(c, n) ==
    /\ end[c][n] = "rowed"
    /\ LET m == Other(c, n) IN
       CASE m \notin DOMAIN active[n] ->
              active' = [active EXCEPT ![n] = With(@, m, c)] /\ UNCHANGED chan
         [] m \in DOMAIN active[n] /\ KeepExisting(n, m, active[n][m]) ->
              chan' = [chan EXCEPT ![c][n] = Append(@, Disconnect)] /\ UNCHANGED active
         [] OTHER ->
              /\ active' = [active EXCEPT ![n] = With(@, m, c)]
              /\ chan' = Request(active[n][m], n, Disconnect)
    /\ end' = [end EXCEPT ![c][n] = "registered"]
    /\ UNCHANGED <<rows, events, removing, dial, inFlight, permits, penalty, conn, wire, broken, cut,
                   left, calls, faults>>

SpawnTask(c, n) ==
    /\ end[c][n] = "registered"
    /\ end' = [end EXCEPT ![c][n] = "running"]
    /\ UNCHANGED <<rows, active, events, removing, dial, inFlight, permits, penalty, conn, chan, wire,
                   broken, cut, left, calls, faults>>

-----------------------------------------------------------------------------
(* SessionTask::run                                                        *)

\* The other end can no longer be written to or read from.
Gone(c, n) == c \in broken \/ end[c][Other(c, n)] \in {"failed", "bonded", "closed"}

\* handle_request: a Disconnect is sent on and ends the loop.
TakeDisconnect(c, n) ==
    /\ end[c][n] = "running" /\ chan[c][n] # <<>> /\ Head(chan[c][n]).kind = "disconnect"
    /\ end' = [end EXCEPT ![c][n] = "leaving"]
    /\ wire' = IF Gone(c, n) THEN wire ELSE [wire EXCEPT ![c][Other(c, n)] = Append(@, Disconnect)]
    /\ chan' = [chan EXCEPT ![c][n] = <<>>]
    /\ UNCHANGED <<rows, active, events, removing, dial, inFlight, permits, penalty, conn, broken, cut,
                   left, calls, faults>>

\* handle_p2p_message: the peer's Disconnect is reported here and again after the loop.
ReadDisconnect(c, n) ==
    /\ end[c][n] = "running" /\ chan[c][n] = <<>>
    /\ wire[c][n] # <<>> /\ Head(wire[c][n]).kind = "disconnect"
    /\ Len(events[n]) < EventCap
    /\ events' = [events EXCEPT ![n] = Append(@, [peer |-> Other(c, n), c |-> c])]
    /\ wire' = [wire EXCEPT ![c][n] = <<>>]
    /\ end' = [end EXCEPT ![c][n] = "leaving"]
    /\ UNCHANGED <<rows, active, removing, dial, inFlight, permits, penalty, conn, chan, broken, cut,
                   left, calls, faults>>

\* A read error: what was on its way is read first, unless the link failed.
ReadError(c, n) ==
    /\ end[c][n] = "running" /\ chan[c][n] = <<>>
    /\ c \in broken \/ (Gone(c, n) /\ wire[c][n] = <<>>)
    /\ end' = [end EXCEPT ![c][n] = "leaving"]
    /\ wire' = [wire EXCEPT ![c][n] = <<>>]
    /\ UNCHANGED <<rows, active, events, removing, dial, inFlight, permits, penalty, conn, chan, broken,
                   cut, left, calls, faults>>

\* Mutant: a full channel loses the event.
NotifyNobody(c, n) ==
    /\ end[c][n] = "leaving"
    /\ end' = [end EXCEPT ![c][n] = "closed"]
    /\ chan' = [chan EXCEPT ![c][n] = <<>>] /\ wire' = [wire EXCEPT ![c][n] = <<>>]
    /\ IF Len(events[n]) < EventCap
       THEN events' = [events EXCEPT ![n] = Append(@, [peer |-> Other(c, n), c |-> c])]
       ELSE UNCHANGED events
    /\ UNCHANGED <<rows, active, removing, dial, inFlight, permits, penalty, conn, broken, cut, left,
                   calls, faults>>

\* notify_disconnect waits for room in the channel; then the task is dropped.
Notify(c, n) ==
    /\ end[c][n] = "leaving" /\ Len(events[n]) < EventCap
    /\ events' = [events EXCEPT ![n] = Append(@, [peer |-> Other(c, n), c |-> c])]
    /\ end' = [end EXCEPT ![c][n] = "closed"]
    /\ chan' = [chan EXCEPT ![c][n] = <<>>] /\ wire' = [wire EXCEPT ![c][n] = <<>>]
    /\ UNCHANGED <<rows, active, removing, dial, inFlight, permits, penalty, conn, broken, cut, left,
                   calls, faults>>

-----------------------------------------------------------------------------
(* PeerRegistry                                                            *)

\* Mutant: the entry goes whatever session it is.
HandleEventByPeer(n) ==
    /\ events[n] # <<>> /\ removing[n] = {}
    /\ LET e == Head(events[n]) IN
       IF e.peer \in DOMAIN active[n]
       THEN /\ active' = [active EXCEPT ![n] = Without(@, e.peer)]
            /\ removing' = [removing EXCEPT ![n] = {e.peer}]
       ELSE UNCHANGED <<active, removing>>
    /\ events' = [events EXCEPT ![n] = Tail(@)]
    /\ UNCHANGED <<rows, dial, inFlight, permits, penalty, conn, end, chan, wire, broken, cut, left,
                   calls, faults>>

\* The disconnect loop: an event of a session that is no longer the current one is
\* ignored; otherwise the entry goes under the lock and the row after it.
HandleEvent(n) ==
    /\ events[n] # <<>> /\ removing[n] = {}
    /\ LET e == Head(events[n]) IN
       IF e.peer \in DOMAIN active[n] /\ active[n][e.peer] = e.c
       THEN /\ active' = [active EXCEPT ![n] = Without(@, e.peer)]
            /\ removing' = [removing EXCEPT ![n] = {e.peer}]
       ELSE UNCHANGED <<active, removing>>
    /\ events' = [events EXCEPT ![n] = Tail(@)]
    /\ UNCHANGED <<rows, dial, inFlight, permits, penalty, conn, end, chan, wire, broken, cut, left,
                   calls, faults>>

\* Mutant: the row stays.
RemovePeerNever(n) ==
    /\ removing[n] # {}
    /\ removing' = [removing EXCEPT ![n] = {}]
    /\ UNCHANGED <<rows, active, events, dial, inFlight, permits, penalty, conn, end, chan, wire, broken,
                   cut, left, calls, faults>>

RemovePeer(n) ==
    /\ removing[n] # {}
    /\ rows' = [rows EXCEPT ![n] = [m \in DOMAIN @ \ removing[n] |-> @[m]]]
    /\ left' = left \ ({n} \X removing[n])
    /\ removing' = [removing EXCEPT ![n] = {}]
    /\ UNCHANGED <<active, events, dial, inFlight, permits, penalty, conn, end, chan, wire, broken, cut,
                   calls, faults>>

\* disconnect_peer, called by the downloader when a session it still holds turns out
\* to be closed: the event names the peer's session of NOW, and is dropped if the
\* channel is full.
DisconnectPeer(n, m) ==
    /\ m \in DOMAIN active[n] /\ Len(events[n]) < EventCap
    /\ events' = [events EXCEPT ![n] = Append(@, [peer |-> m, c |-> active[n][m]])]
    /\ cut' = IF end[active[n][m]][n] \in {"registered", "running"}
              THEN cut \cup {<<active[n][m], n>>} ELSE cut

ReportClosed(n, m) ==
    /\ faults < MaxFaults
    /\ \E c \in DOMAIN conn : <<c, n>> \in Ends /\ Other(c, n) = m /\ end[c][n] = "closed"
    /\ DisconnectPeer(n, m)
    /\ faults' = faults + 1
    /\ UNCHANGED <<rows, active, removing, dial, inFlight, permits, penalty, conn, end, chan, wire, broken,
                   left, calls>>

\* cleanup_stale_peers: an active session that was silent for 30 s is asked to go.
CleanupStalePeers(n) ==
    /\ faults < MaxFaults
    /\ \E m \in DOMAIN active[n] : chan' = Request(active[n][m], n, Disconnect)
    /\ faults' = faults + 1
    /\ UNCHANGED <<rows, active, events, removing, dial, inFlight, permits, penalty, conn, end, wire,
                   broken, cut, left, calls>>

-----------------------------------------------------------------------------
(* The environment                                                         *)

\* A link fails; both ends find out when they read.
LinkFails(c) ==
    /\ faults < MaxFaults /\ c \in DOMAIN conn \ broken
    /\ \E n \in Node : end[c][n] \in InProgress \cup {"running"}
    /\ broken' = broken \cup {c} /\ faults' = faults + 1
    /\ UNCHANGED <<rows, active, events, removing, dial, inFlight, permits, penalty, conn, end, chan, wire,
                   cut, left, calls>>

\* A node stops and starts again: the ActivePeers table is all that is left.
Restart(n) ==
    /\ faults < MaxFaults /\ faults' = faults + 1
    /\ active' = [active EXCEPT ![n] = <<>>] /\ events' = [events EXCEPT ![n] = <<>>]
    /\ removing' = [removing EXCEPT ![n] = {}] /\ penalty' = [penalty EXCEPT ![n] = {}]
    /\ inFlight' = [inFlight EXCEPT ![n] = {}] /\ permits' = [permits EXCEPT ![n] = DialLimit[n]]
    /\ dial' = [t \in Task |-> IF Owner[t] = n THEN Idle ELSE dial[t]]
    /\ end' = [c \in Conn |-> [end[c] EXCEPT ![n] =
                  IF @ \in {"none", "failed", "bonded"} THEN @ ELSE IF @ = "shaking" THEN "failed" ELSE "closed"]]
    /\ chan' = [c \in Conn |-> [chan[c] EXCEPT ![n] = <<>>]]
    /\ wire' = [c \in Conn |-> [wire[c] EXCEPT ![n] = <<>>]]
    /\ left' = left \cup ({n} \X (DOMAIN rows[n]))
    /\ cut' = {x \in cut : x[2] # n}
    /\ UNCHANGED <<rows, conn, broken, calls>>

-----------------------------------------------------------------------------
DialStep(t) ==
    \/ EnterFlight(t) \/ AcquirePermit(t) \/ PermitTimeout(t) \/ ReadPool(t) \/ Connect(t)
    \/ ConnectFails(t) \/ DialDone(t)
EndStep(c, n) ==
    \/ ShakeDone(c, n) \/ ShakeFails(c, n) \/ RegisterPeer(c, n) \/ RegisterSession(c, n)
    \/ SpawnTask(c, n)
    \/ TakeDisconnect(c, n) \/ ReadDisconnect(c, n) \/ ReadError(c, n) \/ Notify(c, n)
RegistryStep(n) == HandleEvent(n) \/ RemovePeer(n)
Outside ==
    \/ \E t \in Task : Dial(t)
    \/ \E n \in Node : PenaltyExpires(n) \/ CleanupStalePeers(n)
    \/ \E c \in Conn : LinkFails(c)
PeersNext ==
    \/ \E t \in Task : DialStep(t)
    \/ \E c \in DOMAIN conn : \E n \in {conn[c].from, conn[c].to} : EndStep(c, n)
    \/ \E n \in Node : RegistryStep(n)
    \/ Outside

\* The runtime polls every spawned task that is ready; a timeout, a connection
\* attempt and a read error come to an end by themselves.
PeersFairness ==
    /\ \A t \in Task : WF_peerVars(DialStep(t))
    /\ \A c \in Conn, n \in Node : WF_peerVars(c \in DOMAIN conn /\ <<c, n>> \in Ends /\ EndStep(c, n))
    /\ \A n \in Node : WF_peerVars(RegistryStep(n))

\* The peers of a node by themselves, with restarts and reports of closed sessions.
SessionsNext ==
    \/ PeersNext
    \/ \E n \in Node : Restart(n) \/ \E m \in Node \ {n} : ReportClosed(n, m)
SessionsSpec == Init /\ [][SessionsNext]_peerVars /\ PeersFairness

\* No dead entry stays in active_sessions: if the task of a peer's session is gone, the
\* disconnect event that removes the entry is in the channel, however the tie-break,
\* redials and failures of both nodes interleaved.
DeadEntriesReported ==
    \A n \in Node : \A m \in DOMAIN active[n] :
        LET c == active[n][m] IN
        end[c][n] \in {"closed", "failed"} =>
            \E i \in DOMAIN events[n] : events[n][i] = [peer |-> m, c |-> c]

\* A row of ActivePeers makes the dialer pass over an address, so it must not outlive
\* the peer: there is a session, one about to be registered, the disconnect loop is
\* about to remove the row, or the row is from before a restart.
RowsBacked ==
    \A n \in Node : \A m \in DOMAIN rows[n] :
        \/ m \in DOMAIN active[n] \cup removing[n] \/ <<n, m>> \in left
        \/ \E c \in DOMAIN conn : <<c, n>> \in Ends /\ Other(c, n) = m /\ end[c][n] = "rowed"

\* The disconnect loop compares session ids, so the late event of a session that lost
\* the tie-break does not remove the one that won: an entry is only removed when its
\* task is on its way out.  The exception is disconnect_peer, which names whatever
\* session is current when it is called.
OnlyDeadRemoved ==
    [][\A n \in Node : \A m \in DOMAIN active[n] :
           LET c == active[n][m] IN
           m \notin DOMAIN active'[n] => end'[c][n] \notin {"registered", "running"} \/ <<c, n>> \in cut']_peerVars

\* No dial or handshake is under way and nothing is left to be read.
Quiet ==
    /\ \A e \in Ends : end[e[1]][e[2]] \in {"running", "closed", "failed", "bonded"}
    /\ \A n \in Node : events[n] = <<>> /\ removing[n] = {}
    /\ \A e \in Ends : end[e[1]][e[2]] = "running" =>
          chan[e[1]][e[2]] = <<>> /\ wire[e[1]][e[2]] = <<>> /\ ~Gone(e[1], e[2])

\* The tie-break of register_session_arc, decided at each node by itself, comes to the
\* same connection: once nothing is on its way, a running session is the current one of
\* both nodes, unless disconnect_peer took it out of a map.
AgreeWhenQuiet ==
    Quiet /\ cut = {} =>
        \A e \in Ends : end[e[1]][e[2]] = "running" =>
            LET m == Other(e[1], e[2]) IN
            /\ m \in DOMAIN active[e[2]] /\ active[e[2]][m] = e[1]
            /\ e[2] \in DOMAIN active[m] /\ active[m][e[2]] = e[1]

\* The connections between the nodes of c.
Between(c) == {d \in DOMAIN conn : {conn[d].from, conn[d].to} = {conn[c].from, conn[c].to}}

\* Of connections two nodes opened to each other at the same time the tie-break leaves
\* one.  There are two exceptions.  A dial that perform_dial gives up after the handshake,
\* as already bonded: the other node may just have preferred it to the connection there
\* was.  And two connections one node opened to two addresses of the other: the later of
\* them, or the earlier, stays at each node, and the nodes may register them in different
\* orders.
SurvivesTieBreak ==
    Quiet /\ faults = 0 =>
        \A c \in DOMAIN conn :
            /\ \A d \in Between(c) : \A n \in Node : end[d][n] # "bonded"
            /\ \A d, e \in Between(c) : conn[d].from = conn[e].from => d = e
            => \E d \in Between(c) : end[d][conn[d].from] = "running" /\ end[d][conn[d].to] = "running"

=============================================================================
