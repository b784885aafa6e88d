---------------------------- MODULE PeersProofs ----------------------------
(***************************************************************************)
(* The map of active sessions and the disconnect channel agree, for any    *)
(* number of nodes, connections, dial tasks and failures, and whatever the *)
(* capacity of the channel.                                                *)
(***************************************************************************)
EXTENDS Peers, TLAPS

EndState == {"none", "shaking", "shaken", "rowed", "registered", "running", "leaving", "closed",
             "failed", "bonded"}

\* What the books are made of.
Shapes ==
    /\ conn \in Seq([from : Node, to : Node, addr : Addr])
    /\ DOMAIN conn \subseteq Conn
    /\ end \in [Conn -> [Node -> EndState]]
    /\ events \in [Node -> Seq([peer : Node, c : Conn])]
    /\ DOMAIN active = Node

Reported(n, m, c) == \E i \in DOMAIN events[n] : events[n][i] = [peer |-> m, c |-> c]

\* An entry of active_sessions is a connection of these two nodes whose end here was
\* registered, and whose disconnect event is queued if that end is gone.
EntrySound(n, m, c) ==
    /\ c \in DOMAIN conn /\ m \in Node /\ Other(c, n) = m
    /\ end[c][n] \in {"registered", "running", "leaving", "closed"}
    /\ end[c][n] = "closed" => Reported(n, m, c)
EntriesSound == \A n \in Node : \A m \in DOMAIN active[n] : EntrySound(n, m, active[n][m])

\* A queued event names an end that is on its way out, or one disconnect_peer cut.
EventSound(n, e) ==
    /\ e.c \in DOMAIN conn
    /\ end[e.c][n] \in {"leaving", "closed"} \/ <<e.c, n>> \in cut
EventsSound == \A n \in Node : \A i \in DOMAIN events[n] : EventSound(n, events[n][i])

BooksAgree == Shapes /\ EntriesSound /\ EventsSound

\* The part of the state the books are about.
books == <<conn, end, active, events, cut>>

-----------------------------------------------------------------------------
\* What Append and Tail leave of a queue.
LEMMA AppendFacts ==
    ASSUME NEW S, NEW q \in Seq(S), NEW x \in S
    PROVE  /\ Append(q, x) \in Seq(S) /\ DOMAIN Append(q, x) = DOMAIN q \cup {Len(q) + 1}
           /\ Append(q, x)[Len(q) + 1] = x /\ Len(q) + 1 \notin DOMAIN q
           /\ \A i \in DOMAIN q : Append(q, x)[i] = q[i]
  OBVIOUS

\* The tail of a queue.
LEMMA TailFacts ==
    ASSUME NEW S, NEW q \in Seq(S), q # <<>>
    PROVE  /\ Tail(q) \in Seq(S) /\ Head(q) \in S /\ Head(q) = q[1] /\ 1 \in DOMAIN q
           /\ \A i \in DOMAIN Tail(q) : i + 1 \in DOMAIN q /\ Tail(q)[i] = q[i + 1]
           /\ \A i \in DOMAIN q : i # 1 => i - 1 \in DOMAIN Tail(q) /\ Tail(q)[i - 1] = q[i]
  OBVIOUS

\* Nothing registered, nothing queued.
LEMMA InitBooks == Init => BooksAgree
  <1> SUFFICES ASSUME Init PROVE BooksAgree
    BY Zenon
  <1>1. Shapes
    <2>0. \A S : <<>> \in Seq(S) /\ DOMAIN <<>> = {}
      OBVIOUS
    <2>1. conn = <<>> /\ DOMAIN conn \subseteq Conn
      BY <2>0, Zenon DEF Init
    <2>2. end \in [Conn -> [Node -> EndState]]
      BY Zenon DEF Init, NoEnds, EndState
    <2>3. events \in [Node -> Seq([peer : Node, c : Conn])] /\ DOMAIN active = Node
      BY <2>0, Zenon DEF Init
    <2> QED
      BY <2>0, <2>1, <2>2, <2>3, Zenon DEF Shapes
  <1>2. EntriesSound
    BY DEF Init, EntriesSound
  <1>3. EventsSound
    BY DEF Init, EventsSound
  <1> QED
    BY <1>1, <1>2, <1>3, Zenon DEF BooksAgree

\* The two nodes of a connection.
LEMMA EndsAreNodes ==
    ASSUME BooksAgree, NEW c \in DOMAIN conn, NEW n \in {conn[c].from, conn[c].to}
    PROVE  n \in Node /\ Other(c, n) \in Node /\ c \in Conn
  <1>1. conn[c] \in [from : Node, to : Node, addr : Addr]
    <2> DEFINE R == [from : Node, to : Node, addr : Addr]
    <2>1. conn \in Seq(R)
      BY Zenon DEF BooksAgree, Shapes
    <2> HIDE DEF R
    <2>2. conn[c] \in R
      BY <2>1
    <2> QED
      BY <2>2, Zenon DEF R
  <1> QED
    BY <1>1, Zenon DEF BooksAgree, Shapes, Other

\* A step that leaves the books alone keeps them.
LEMMA Frame == ASSUME BooksAgree, UNCHANGED books PROVE BooksAgree'
  BY Zenon DEF BooksAgree, Shapes, EntriesSound, EntrySound, EventsSound, EventSound, Reported, Other, books

\* The end of a connection that is neither registered nor on its way out may move
\* anywhere; a registered one may only move on towards "leaving".
LEMMA EndMoves ==
    ASSUME BooksAgree, NEW c \in DOMAIN conn, NEW n \in Node, NEW s \in EndState,
           end' = [end EXCEPT ![c][n] = s], UNCHANGED <<conn, active, events, cut>>,
           \/ end[c][n] \in {"shaking", "shaken", "rowed"}
           \/ s \in {"running", "leaving"} /\ end[c][n] \in {"registered", "running"}
    PROVE  BooksAgree'
  <1> USE DEF BooksAgree
  <1>1. Shapes'
    BY Zenon DEF Shapes
  <1>2. \A d \in DOMAIN conn, m \in Node : end'[d][m] = IF d = c /\ m = n THEN s ELSE end[d][m]
    BY Zenon DEF Shapes
  <1>3. EntriesSound'
    <2> SUFFICES ASSUME NEW m \in Node, NEW k \in DOMAIN active[m] PROVE EntrySound(m, k, active[m][k])'
      BY Zenon DEF EntriesSound
    <2>1. EntrySound(m, k, active[m][k])
      BY Zenon DEF EntriesSound
    <2> QED
      BY <1>2, <2>1 DEF EntrySound, Reported, Other
  <1>4. EventsSound'
    <2> SUFFICES ASSUME NEW m \in Node, NEW i \in DOMAIN events[m] PROVE EventSound(m, events[m][i])'
      BY Zenon DEF EventsSound
    <2>1. EventSound(m, events[m][i])
      BY Zenon DEF EventsSound
    <2> QED
      BY <1>2, <2>1 DEF EventSound
  <1> QED
    BY <1>1, <1>3, <1>4, Zenon

\* A disconnect event is queued for an end that is, or becomes, on its way out.
LEMMA EventQueued ==
    ASSUME BooksAgree, NEW c \in DOMAIN conn, NEW n \in Node, NEW m \in Node,
           events' = [events EXCEPT ![n] = Append(@, [peer |-> m, c |-> c])],
           UNCHANGED <<conn, active>>, cut \subseteq cut',
           \/ UNCHANGED end
           \/ \E s \in {"leaving", "closed"} :
                 /\ end' = [end EXCEPT ![c][n] = s]
                 /\ s = "closed" => m = Other(c, n),
           end'[c][n] \in {"leaving", "closed"} \/ <<c, n>> \in cut'
    PROVE  BooksAgree'
  <1> USE DEF BooksAgree
  <1>0. [peer |-> m, c |-> c] \in [peer : Node, c : Conn] /\ events[n] \in Seq([peer : Node, c : Conn])
    BY Zenon DEF Shapes
  <1>1. Shapes'
    <2>1. Append(events[n], [peer |-> m, c |-> c]) \in Seq([peer : Node, c : Conn])
      BY <1>0, AppendFacts, Zenon
    <2>2. events' \in [Node -> Seq([peer : Node, c : Conn])]
      BY <2>1, Zenon DEF Shapes
    <2>3. end' \in [Conn -> [Node -> EndState]]
      <3>1. CASE UNCHANGED end
        BY <3>1, Zenon DEF Shapes
      <3>2. CASE ~ UNCHANGED end
        <4>1. PICK s \in {"leaving", "closed"} : end' = [end EXCEPT ![c][n] = s]
          BY <3>2, Zenon
        <4>2. s \in EndState
          BY Zenon DEF EndState
        <4> QED
          BY <4>1, <4>2, Zenon DEF Shapes
      <3> QED
        BY <3>1, <3>2, Zenon
    <2> QED
      BY <2>2, <2>3, Zenon DEF Shapes
  <1>2. \A k \in Node : k # n => events'[k] = events[k]
    BY Zenon DEF Shapes
  <1>3. /\ events'[n][Len(events[n]) + 1] = [peer |-> m, c |-> c]
        /\ \A i \in DOMAIN events[n] : i \in DOMAIN events'[n] /\ events'[n][i] = events[n][i]
        /\ \A i \in DOMAIN events'[n] : i \in DOMAIN events[n] \/ i = Len(events[n]) + 1
        /\ Len(events[n]) + 1 \in DOMAIN events'[n]
    <2>1. events'[n] = Append(events[n], [peer |-> m, c |-> c])
      BY Zenon DEF Shapes
    <2> QED
      BY <1>0, <2>1, AppendFacts
  <1>4. \A k \in Node, j \in Node, d \in Conn : Reported(k, j, d) => Reported(k, j, d)'
    BY <1>2, <1>3, ZenonT(60), SMTT(60) DEF Reported
  <1>5. Reported(n, m, c)'
    BY <1>3, Zenon DEF Reported
  <1>6. \A d \in DOMAIN conn, k \in Node : ~(d = c /\ k = n) => end'[d][k] = end[d][k]
    BY SMTT(60), Z3T(60), ZenonT(60) DEF Shapes
  <1>7. EntriesSound'
    <2> SUFFICES ASSUME NEW j \in Node, NEW k \in DOMAIN active[j] PROVE EntrySound(j, k, active[j][k])'
      BY Zenon DEF EntriesSound
    <2>1. EntrySound(j, k, active[j][k])
      BY Zenon DEF EntriesSound
    <2>2. CASE ~(active[j][k] = c /\ j = n)
      BY SMTT(60), Z3T(60), <1>4, <1>6, <2>1, <2>2 DEF EntrySound, Other, Shapes
    <2>3. CASE active[j][k] = c /\ j = n
      <3>1. end'[c][n] \in {"registered", "running", "leaving", "closed"}
        BY <2>1, <2>3 DEF EntrySound, Shapes
      <3>2. ASSUME end'[c][n] = "closed" PROVE Reported(n, k, c)'
        <4>1. CASE end[c][n] = "closed"
          BY <1>4, <2>1, <2>3, <4>1 DEF EntrySound, Shapes
        <4>2. CASE end[c][n] # "closed"
          <5>1. m = Other(c, n)
            BY <3>2, <4>2, Zenon DEF Shapes
          <5> QED
            BY <1>5, <2>1, <2>3, <5>1, Zenon DEF EntrySound
        <4> QED
          BY <4>1, <4>2, Zenon
      <3> QED
        BY <2>1, <2>3, <3>1, <3>2, Zenon DEF EntrySound, Other
    <2> QED
      BY <2>2, <2>3, Zenon
  <1>8. EventsSound'
    <2> SUFFICES ASSUME NEW k \in Node, NEW i \in DOMAIN events'[k] PROVE EventSound(k, events[k][i])'
      BY Zenon DEF EventsSound
    <2>1. CASE i \in DOMAIN events[k] /\ events'[k][i] = events[k][i]
      <3>1. EventSound(k, events[k][i])
        BY <2>1, Zenon DEF EventsSound
      <3> QED
        BY SMTT(60), Z3T(60), <1>6, <2>1, <3>1 DEF EventSound
    <2>2. CASE k = n /\ i = Len(events[n]) + 1
      BY <1>3, <2>2 DEF EventSound
    <2> QED
      BY <1>2, <1>3, <2>1, <2>2, Zenon
  <1> QED
    BY <1>1, <1>7, <1>8, Zenon

\* A connection more, with both ends shaking hands, is in nobody's books.
LEMMA ConnectBooks == ASSUME BooksAgree, NEW t \in Task, Connect(t) PROVE BooksAgree'
  <1> USE DEF BooksAgree
  <1> DEFINE c == Len(conn) + 1
             r == [from |-> Owner[t], to |-> At[Target[t]], addr |-> Target[t]]
  <1>1. /\ c \in Conn /\ conn' = Append(conn, r)
        /\ end' = [end EXCEPT ![c][Owner[t]] = "shaking", ![c][At[Target[t]]] = "shaking"]
        /\ UNCHANGED <<active, events, cut>>
    BY Zenon DEF Connect
  <1>2. r \in [from : Node, to : Node, addr : Addr] /\ Owner[t] \in Node /\ At[Target[t]] \in Node
    BY PeersAssumption, Zenon
  <1>3. /\ \A d \in DOMAIN conn : d \in DOMAIN conn' /\ conn'[d] = conn[d] /\ d # c
        /\ conn' \in Seq([from : Node, to : Node, addr : Addr]) /\ DOMAIN conn' = DOMAIN conn \cup {c}
    BY <1>1, <1>2, AppendFacts DEF Shapes
  <1>4. \A d \in DOMAIN conn : end'[d] = end[d]
    BY <1>1, <1>3, Zenon DEF Shapes
  <1>5. end' \in [Conn -> [Node -> EndState]]
    BY <1>1, <1>2, Zenon DEF Shapes, EndState
  <1> HIDE DEF c, r
  <1>6. Shapes'
    BY <1>1, <1>3, <1>5, Zenon DEF Shapes
  <1>7. EntriesSound'
    <2> SUFFICES ASSUME NEW n \in Node, NEW m \in DOMAIN active[n] PROVE EntrySound(n, m, active[n][m])'
      BY <1>1, Zenon DEF EntriesSound
    <2>1. EntrySound(n, m, active[n][m])
      BY Zenon DEF EntriesSound
    <2> QED
      BY <1>1, <1>3, <1>4, <2>1, Zenon DEF EntrySound, Reported, Other
  <1>8. EventsSound'
    BY <1>1, <1>3, <1>4, ZenonT(60) DEF EventsSound, EventSound
  <1> QED
    BY <1>6, <1>7, <1>8, Zenon

\* register_session_arc: whichever connection wins, the entry is a registered one.
LEMMA RegisterSessionBooks ==
    ASSUME BooksAgree, NEW c \in DOMAIN conn, NEW n \in {conn[c].from, conn[c].to}, RegisterSession(c, n)
    PROVE  BooksAgree'
  <1> USE DEF BooksAgree
  <1> DEFINE m == Other(c, n)
  <1>0. n \in Node /\ m \in Node /\ c \in Conn
    BY EndsAreNodes, Zenon
  <1>1. /\ end[c][n] = "rowed" /\ end' = [end EXCEPT ![c][n] = "registered"]
        /\ UNCHANGED <<conn, events, cut>>
    BY Zenon DEF RegisterSession
  <1>2. UNCHANGED active \/ active' = [active EXCEPT ![n] = With(@, m, c)]
    BY Zenon DEF RegisterSession
  <1> HIDE DEF m
  <1>3. Shapes'
    BY <1>0, <1>1, <1>2, Zenon DEF Shapes, EndState
  <1>4. \A d \in DOMAIN conn, k \in Node : end'[d][k] = IF d = c /\ k = n THEN "registered" ELSE end[d][k]
    BY <1>0, <1>1, Zenon DEF Shapes
  <1>5. EntriesSound'
    <2> SUFFICES ASSUME NEW j \in Node, NEW k \in DOMAIN active'[j] PROVE EntrySound(j, k, active[j][k])'
      BY Zenon DEF EntriesSound
    <2>1. CASE k \in DOMAIN active[j] /\ active'[j][k] = active[j][k]
      <3>1. EntrySound(j, k, active[j][k])
        BY <2>1, Zenon DEF EntriesSound
      <3> QED
        BY <1>1, <1>4, <2>1, <3>1 DEF EntrySound, Reported, Other
    <2>2. CASE j = n /\ k = m /\ active'[j][k] = c
      BY <1>0, <1>1, <1>4, <2>2 DEF EntrySound, Other, m
    <2>3. \/ k \in DOMAIN active[j] /\ active'[j][k] = active[j][k]
          \/ j = n /\ k = m /\ active'[j][k] = c
      <3>1. CASE UNCHANGED active
        BY <3>1, Zenon
      <3>2. CASE active' = [active EXCEPT ![n] = With(@, m, c)]
        <4>1. active'[j] = IF j = n THEN With(active[n], m, c) ELSE active[j]
          BY <3>2, Zenon DEF Shapes
        <4>2. CASE j = n
          BY <4>1, <4>2 DEF With
        <4>3. CASE j # n
          BY <4>1, <4>3, Zenon
        <4> QED
          BY <4>2, <4>3, Zenon
      <3> QED
        BY <1>2, <3>1, <3>2, Zenon
    <2> QED
      BY <2>1, <2>2, <2>3, Zenon
  <1>6. EventsSound'
    <2> SUFFICES ASSUME NEW k \in Node, NEW i \in DOMAIN events[k] PROVE EventSound(k, events[k][i])'
      BY <1>1, Zenon DEF EventsSound
    <2>1. EventSound(k, events[k][i])
      BY Zenon DEF EventsSound
    <2> QED
      BY <1>1, <1>4, <2>1 DEF EventSound
  <1> QED
    BY <1>3, <1>5, <1>6, Zenon

\* The disconnect loop takes an event away together with the entry it names.
LEMMA HandleEventBooks == ASSUME BooksAgree, NEW n \in Node, HandleEvent(n) PROVE BooksAgree'
  <1> USE DEF BooksAgree
  <1> DEFINE e == Head(events[n])
             match == e.peer \in DOMAIN active[n] /\ active[n][e.peer] = e.c
  <1>1. /\ events[n] # <<>> /\ events' = [events EXCEPT ![n] = Tail(@)]
        /\ UNCHANGED <<conn, end, cut>>
    BY Zenon DEF HandleEvent
  <1>2. /\ match => active' = [active EXCEPT ![n] = Without(@, e.peer)]
        /\ ~match => UNCHANGED active
    BY Zenon DEF HandleEvent
  <1>3. /\ events[n] \in Seq([peer : Node, c : Conn]) /\ events'[n] = Tail(events[n])
        /\ \A k \in Node : k # n => events'[k] = events[k]
    BY <1>1, Zenon DEF Shapes
  <1>4. /\ events'[n] \in Seq([peer : Node, c : Conn]) /\ e = events[n][1]
        /\ \A i \in DOMAIN events'[n] : i + 1 \in DOMAIN events[n] /\ events'[n][i] = events[n][i + 1]
        /\ \A i \in DOMAIN events[n] : i # 1 => i - 1 \in DOMAIN events'[n] /\ events'[n][i - 1] = events[n][i]
    <2> DEFINE S == [peer : Node, c : Conn]
               q == events[n]
    <2>1. q \in Seq(S) /\ q # <<>>
      BY <1>1, <1>3, Zenon
    <2> HIDE DEF S, q
    <2>2. /\ Tail(q) \in Seq(S) /\ Head(q) = q[1]
          /\ \A i \in DOMAIN Tail(q) : i + 1 \in DOMAIN q /\ Tail(q)[i] = q[i + 1]
          /\ \A i \in DOMAIN q : i # 1 => i - 1 \in DOMAIN Tail(q) /\ Tail(q)[i - 1] = q[i]
      BY <2>1, TailFacts, Zenon
    <2> QED
      BY Zenon, <1>3, <2>2 DEF S, q
  <1> HIDE DEF e
  <1>5. Shapes'
    BY <1>1, <1>2, <1>4, Zenon DEF Shapes
  <1>6. \A k \in Node : \A j \in DOMAIN active'[k] :
            /\ j \in DOMAIN active[k] /\ active'[k][j] = active[k][j]
            /\ k = n => ~(j = e.peer /\ active[k][j] = e.c)
    BY <1>2 DEF Without, Shapes
  <1>7. EntriesSound'
    <2> SUFFICES ASSUME NEW k \in Node, NEW j \in DOMAIN active'[k] PROVE EntrySound(k, j, active[k][j])'
      BY Zenon DEF EntriesSound
    <2>1. EntrySound(k, j, active[k][j]) /\ active'[k][j] = active[k][j]
      BY <1>6, Zenon DEF EntriesSound
    <2>2. ASSUME Reported(k, j, active[k][j]) PROVE Reported(k, j, active[k][j])'
      <3>1. PICK i \in DOMAIN events[k] : events[k][i] = [peer |-> j, c |-> active[k][j]]
        BY <2>2, Zenon DEF Reported
      <3>2. CASE k # n
        BY <1>3, <2>1, <3>1, <3>2, Zenon DEF Reported
      <3>3. CASE k = n
        <4>1. i # 1
          BY <1>4, <1>6, <3>1, <3>3
        <4>2. i - 1 \in DOMAIN events'[n] /\ events'[n][i - 1] = [peer |-> j, c |-> active[k][j]]
          BY <1>4, <3>1, <3>3, <4>1, Zenon
        <4> QED
          BY Zenon, <2>1, <3>3, <4>2 DEF Reported
      <3> QED
        BY <3>2, <3>3, Zenon
    <2> QED
      BY <1>1, <2>1, <2>2, Zenon DEF EntrySound, Other
  <1>8. EventsSound'
    <2> SUFFICES ASSUME NEW k \in Node, NEW i \in DOMAIN events'[k] PROVE EventSound(k, events[k][i])'
      BY Zenon DEF EventsSound
    <2>1. PICK i0 \in DOMAIN events[k] : events'[k][i] = events[k][i0]
      <3>1. CASE k = n
        BY Zenon, <1>4, <3>1
      <3>2. CASE k # n
        BY Zenon, <1>3, <3>2
      <3> QED
        BY <3>1, <3>2, Zenon
    <2>2. EventSound(k, events[k][i0])
      BY Zenon DEF EventsSound
    <2> QED
      BY <1>1, <2>1, <2>2 DEF EventSound
  <1> QED
    BY <1>5, <1>7, <1>8, Zenon

\* A restart empties the node's own books and leaves the other nodes' ends alone.
LEMMA RestartBooks == ASSUME BooksAgree, NEW n \in Node, Restart(n) PROVE BooksAgree'
  <1> USE DEF BooksAgree
  <1>1. /\ active' = [active EXCEPT ![n] = <<>>] /\ events' = [events EXCEPT ![n] = <<>>]
        /\ end' = [c \in Conn |-> [end[c] EXCEPT ![n] =
               IF @ \in {"none", "failed", "bonded"} THEN @ ELSE IF @ = "shaking" THEN "failed" ELSE "closed"]]
        /\ cut' = {x \in cut : x[2] # n} /\ UNCHANGED conn
    BY Zenon DEF Restart
  <1>2. /\ events'[n] = <<>> /\ active'[n] = <<>>
        /\ \A k \in Node : k # n => events'[k] = events[k] /\ active'[k] = active[k]
    BY <1>1, Zenon DEF Shapes
  <1>3. \A c \in Conn, k \in Node : k # n => end'[c][k] = end[c][k]
    BY <1>1, Zenon DEF Shapes
  <1>4. Shapes'
    <2>1. \A S : <<>> \in Seq(S)
      OBVIOUS
    <2>2. events' \in [Node -> Seq([peer : Node, c : Conn])]
      BY <1>1, <2>1, Zenon DEF Shapes
    <2>3. end' \in [Conn -> [Node -> EndState]]
      <3> SUFFICES ASSUME NEW c \in Conn PROVE end'[c] \in [Node -> EndState]
        BY <1>1, Zenon
      <3>1. end[c] \in [Node -> EndState]
        BY Zenon DEF Shapes
      <3>2. PICK s \in EndState : end'[c] = [end[c] EXCEPT ![n] = s]
        BY <1>1, <3>1, Zenon DEF EndState
      <3> QED
        BY <3>1, <3>2, Zenon
    <2> QED
      BY <1>1, <2>2, <2>3, Zenon DEF Shapes
  <1>5. EntriesSound'
    <2> SUFFICES ASSUME NEW k \in Node, NEW m \in DOMAIN active'[k] PROVE EntrySound(k, m, active[k][m])'
      BY Zenon DEF EntriesSound
    <2>1. k # n
      BY <1>2
    <2>2. active'[k] = active[k] /\ events'[k] = events[k] /\ EntrySound(k, m, active[k][m])
      BY <1>2, <2>1, Zenon DEF EntriesSound
    <2>3. end'[active[k][m]][k] = end[active[k][m]][k]
      BY <1>3, <2>1, <2>2, Zenon DEF EntrySound, Shapes
    <2> QED
      BY <1>1, <2>2, <2>3 DEF EntrySound, Reported, Other
  <1>6. EventsSound'
    <2> SUFFICES ASSUME NEW k \in Node, NEW i \in DOMAIN events'[k] PROVE EventSound(k, events[k][i])'
      BY Zenon DEF EventsSound
    <2>1. k # n
      BY <1>2
    <2>2. events'[k] = events[k] /\ EventSound(k, events[k][i])
      BY <1>2, <2>1, Zenon DEF EventsSound
    <2>3. end'[events[k][i].c][k] = end[events[k][i].c][k]
      BY <1>3, <2>1, <2>2, Zenon DEF EventSound, Shapes
    <2> QED
      BY <1>1, <2>1, <2>2, <2>3 DEF EventSound
  <1> QED
    BY <1>4, <1>5, <1>6, Zenon

\* A dial task touches the books only when it opens a connection.
LEMMA DialStepBooks == ASSUME BooksAgree, NEW t \in Task, DialStep(t) PROVE BooksAgree'
  <1>1. CASE Connect(t)
    BY <1>1, ConnectBooks, Zenon
  <1>2. CASE ~ Connect(t)
    <2>1. UNCHANGED books
      BY <1>2, ZenonT(60), SMTT(60) DEF DialStep, EnterFlight, AcquirePermit, PermitTimeout, ReadPool, ConnectFails, DialDone, books
    <2> QED
      BY <2>1, Frame, Zenon
  <1> QED
    BY <1>1, <1>2, Zenon

\* What happens at an end of a connection keeps the books of both nodes.
LEMMA EndStepBooks ==
    ASSUME BooksAgree, NEW c \in DOMAIN conn, NEW n \in {conn[c].from, conn[c].to}, EndStep(c, n)
    PROVE  BooksAgree'
  <1>0. n \in Node /\ Other(c, n) \in Node /\ c \in Conn
    BY EndsAreNodes, Zenon
  <1>1. CASE RegisterSession(c, n)
    BY <1>1, RegisterSessionBooks, Zenon
  <1>2. CASE ShakeDone(c, n)
    BY <1>0, <1>2, EndMoves, Zenon DEF ShakeDone, EndState
  <1>3. CASE ShakeFails(c, n)
    BY <1>0, <1>3, EndMoves, Zenon DEF ShakeFails, EndState
  <1>4. CASE RegisterPeer(c, n)
    <2>1. /\ end[c][n] = "shaken" /\ UNCHANGED <<conn, active, events, cut>>
          /\ \E s \in {"bonded", "rowed"} : end' = [end EXCEPT ![c][n] = s]
      BY Zenon, <1>4 DEF RegisterPeer
    <2> QED
      BY <1>0, <2>1, EndMoves, Zenon DEF EndState
  <1>5. CASE SpawnTask(c, n)
    BY <1>0, <1>5, EndMoves, Zenon DEF SpawnTask, EndState
  <1>6. CASE TakeDisconnect(c, n)
    BY <1>0, <1>6, EndMoves, Zenon DEF TakeDisconnect, EndState
  <1>7. CASE ReadError(c, n)
    BY <1>0, <1>7, EndMoves, Zenon DEF ReadError, EndState
  <1>8. CASE ReadDisconnect(c, n)
    <2>1. end'[c][n] = "leaving"
      BY <1>0, <1>8, Zenon DEF ReadDisconnect, BooksAgree, Shapes
    <2> QED
      BY <1>0, <1>8, <2>1, EventQueued, Zenon DEF ReadDisconnect
  <1>9. CASE Notify(c, n)
    <2>1. end'[c][n] = "closed"
      BY <1>0, <1>9, Zenon DEF Notify, BooksAgree, Shapes
    <2> QED
      BY <1>0, <1>9, <2>1, EventQueued, Zenon DEF Notify
  <1> QED
    BY <1>1, <1>2, <1>3, <1>4, <1>5, <1>6, <1>7, <1>8, <1>9, Zenon DEF EndStep

\* disconnect_peer queues an event for the current session and records it as cut if it runs.
LEMMA ReportClosedBooks ==
    ASSUME BooksAgree, NEW n \in Node, NEW m \in Node, ReportClosed(n, m)
    PROVE  BooksAgree'
  <1>1. /\ m \in DOMAIN active[n]
        /\ events' = [events EXCEPT ![n] = Append(@, [peer |-> m, c |-> active[n][m]])]
        /\ cut' = IF end[active[n][m]][n] \in {"registered", "running"}
                  THEN cut \cup {<<active[n][m], n>>} ELSE cut
        /\ UNCHANGED <<conn, end, active>>
    BY Zenon DEF ReportClosed, DisconnectPeer
  <1>2. EntrySound(n, m, active[n][m])
    BY <1>1, Zenon DEF BooksAgree, EntriesSound
  <1>3. /\ active[n][m] \in DOMAIN conn /\ cut \subseteq cut'
        /\ end'[active[n][m]][n] \in {"leaving", "closed"} \/ <<active[n][m], n>> \in cut'
    BY <1>1, <1>2, Zenon DEF EntrySound
  <1> QED
    BY <1>1, <1>3, EventQueued, Zenon

\* Every step keeps the books.
LEMMA NextBooks == BooksAgree /\ [SessionsNext]_peerVars => BooksAgree'
  <1> SUFFICES ASSUME BooksAgree, [SessionsNext]_peerVars PROVE BooksAgree'
    BY Zenon
  <1>1. CASE UNCHANGED peerVars
    BY <1>1, Frame, Zenon DEF peerVars, books
  <1>2. ASSUME NEW t \in Task, DialStep(t) PROVE BooksAgree'
    BY <1>2, DialStepBooks, Zenon
  <1>3. ASSUME NEW c \in DOMAIN conn, NEW n \in {conn[c].from, conn[c].to}, EndStep(c, n) PROVE BooksAgree'
    BY <1>3, EndStepBooks, Zenon
  <1>4. ASSUME NEW n \in Node, RegistryStep(n) PROVE BooksAgree'
    <2>1. CASE HandleEvent(n)
      BY <2>1, HandleEventBooks, Zenon
    <2>2. CASE RemovePeer(n)
      BY <2>2, Frame, Zenon DEF RemovePeer, books
    <2> QED
      BY <1>4, <2>1, <2>2, Zenon DEF RegistryStep
  <1>5. CASE Outside
    <2>1. UNCHANGED books
      BY <1>5, ZenonT(60), SMTT(60) DEF Outside, Dial, PenaltyExpires, CleanupStalePeers, LinkFails, books
    <2> QED
      BY <2>1, Frame, Zenon
  <1>6. ASSUME NEW n \in Node, Restart(n) PROVE BooksAgree'
    BY <1>6, RestartBooks, Zenon
  <1>7. ASSUME NEW n \in Node, NEW m \in Node \ {n}, ReportClosed(n, m) PROVE BooksAgree'
    BY <1>7, ReportClosedBooks, Zenon
  <1> QED
    BY Zenon, <1>1, <1>2, <1>3, <1>4, <1>5, <1>6, <1>7 DEF SessionsNext, PeersNext

\* The books agree in every reachable state.
LEMMA BooksAlways == SessionsSpec => []BooksAgree
  BY InitBooks, NextBooks, PTL DEF SessionsSpec

\* No dead entry stays in active_sessions without the disconnect event that removes it:
\* notify_disconnect waits for the channel, the disconnect loop drops an event only with
\* the entry it names, and register_session_arc never enters a connection that has ended.
THEOREM DeadEntriesAreReported == SessionsSpec => []DeadEntriesReported
  <1>1. BooksAgree => DeadEntriesReported
    BY Zenon DEF BooksAgree, EntriesSound, EntrySound, Reported, DeadEntriesReported
  <1> QED
    BY <1>1, BooksAlways, PTL

\* Which steps take an entry away.
LEMMA RemovedDead ==
    ASSUME BooksAgree, BooksAgree', [SessionsNext]_peerVars,
           NEW n \in Node, NEW m \in DOMAIN active[n], m \notin DOMAIN active'[n]
    PROVE  \/ end'[active[n][m]][n] \notin {"registered", "running"}
           \/ <<active[n][m], n>> \in cut'
  <1> DEFINE c == active[n][m]
  <1>0. EntrySound(n, m, c) /\ c \in Conn
    BY Zenon DEF BooksAgree, EntriesSound, EntrySound, Shapes
  <1>1. CASE UNCHANGED active
    BY <1>1, Zenon
  <1>2. ASSUME NEW k \in Node, Restart(k) PROVE end'[c][n] \notin {"registered", "running"}
    <2>1. n = k
      BY <1>2, Zenon DEF Restart, BooksAgree, Shapes
    <2> QED
      BY <1>0, <1>2, <2>1 DEF Restart, BooksAgree, Shapes, EntrySound
  <1>3. ASSUME NEW k \in Node, HandleEvent(k)
        PROVE  end'[c][n] \notin {"registered", "running"} \/ <<c, n>> \in cut'
    <2> DEFINE e == Head(events[k])
    <2>1. /\ events[k] # <<>> /\ UNCHANGED <<end, cut>>
          /\ e.peer \in DOMAIN active[k] /\ active[k][e.peer] = e.c
          /\ active' = [active EXCEPT ![k] = Without(@, e.peer)]
      <3>1. ~ UNCHANGED active
        BY Zenon
      <3> QED
        BY Zenon, <1>3, <3>1 DEF HandleEvent
    <2>2. e = events[k][1] /\ 1 \in DOMAIN events[k]
      BY <2>1 DEF BooksAgree, Shapes
    <2>3. EventSound(k, e)
      BY <2>2, Zenon DEF BooksAgree, EventsSound
    <2> HIDE DEF e
    <2>4. k = n /\ m = e.peer
      BY <2>1, Zenon DEF Without, BooksAgree, Shapes
    <2> QED
      BY <2>1, <2>3, <2>4, Zenon DEF EventSound
  <1>4. ASSUME NEW d \in DOMAIN conn, NEW k \in {conn[d].from, conn[d].to}, RegisterSession(d, k)
        PROVE  FALSE
    <2>1. k \in Node
      BY EndsAreNodes, Zenon
    <2>2. active' = [active EXCEPT ![k] = With(@, Other(d, k), d)]
      <3>1. ~ UNCHANGED active
        BY Zenon
      <3> QED
        BY Zenon, <1>4, <3>1 DEF RegisterSession
    <2> QED
      BY <2>1, <2>2, Zenon DEF With, BooksAgree, Shapes
  <1>5. \/ UNCHANGED active \/ \E k \in Node : Restart(k) \/ HandleEvent(k)
        \/ \E d \in DOMAIN conn : \E k \in {conn[d].from, conn[d].to} : RegisterSession(d, k)
    <2>1. CASE UNCHANGED peerVars
      BY <2>1, Zenon DEF peerVars
    <2>2. ASSUME NEW t \in Task, DialStep(t) PROVE UNCHANGED active
      BY <2>2, ZenonT(60), SMTT(60) DEF DialStep, EnterFlight, AcquirePermit, PermitTimeout, ReadPool, Connect, ConnectFails, DialDone
    <2>3. ASSUME NEW d \in DOMAIN conn, NEW k \in {conn[d].from, conn[d].to}, EndStep(d, k)
          PROVE  UNCHANGED active \/ RegisterSession(d, k)
      BY <2>3, ZenonT(60), SMTT(60) DEF EndStep, ShakeDone, ShakeFails, RegisterPeer, SpawnTask, TakeDisconnect, ReadDisconnect, ReadError, Notify
    <2>4. ASSUME NEW k \in Node, RegistryStep(k) PROVE UNCHANGED active \/ HandleEvent(k)
      BY <2>4, Zenon DEF RegistryStep, RemovePeer
    <2>5. CASE Outside
      BY <2>5, ZenonT(60), SMTT(60) DEF Outside, Dial, PenaltyExpires, CleanupStalePeers, LinkFails
    <2>6. ASSUME NEW k \in Node, NEW j \in Node, ReportClosed(k, j) PROVE UNCHANGED active
      BY <2>6, Zenon DEF ReportClosed
    <2> QED
      BY Zenon, <2>1, <2>2, <2>3, <2>4, <2>5, <2>6 DEF SessionsNext, PeersNext
  <1> QED
    BY <1>1, <1>2, <1>3, <1>4, <1>5, Zenon

\* The disconnect loop never removes a live session, whatever the order in which the
\* tie-break of two connections and their late disconnect events come.  It rests on
\* EventsSound: an event is queued only for an end that has left its loop.
THEOREM LiveSessionsKept == SessionsSpec => OnlyDeadRemoved
  <1>1. BooksAgree /\ BooksAgree' /\ [SessionsNext]_peerVars =>
          [\A n \in Node : \A m \in DOMAIN active[n] :
             LET c == active[n][m] IN
             m \notin DOMAIN active'[n] => end'[c][n] \notin {"registered", "running"} \/ <<c, n>> \in cut']_peerVars
    BY Zenon, RemovedDead
  <1> QED
    BY <1>1, BooksAlways, PTL DEF SessionsSpec, OnlyDeadRemoved
-----------------------------------------------------------------------------
(* The rows of ActivePeers                                                 *)

RowShapes == DOMAIN rows = Node /\ removing \in [Node -> SUBSET Node]

\* register_peer wrote the row, register_session_arc has not entered the session yet.
Rowed(n, m) ==
    \E c \in DOMAIN conn : n \in {conn[c].from, conn[c].to} /\ Other(c, n) = m /\ end[c][n] = "rowed"
Backed(n, m) == m \in DOMAIN active[n] \/ m \in removing[n] \/ <<n, m>> \in left \/ Rowed(n, m)
AllBacked == \A n \in Node : \A m \in DOMAIN rows[n] : Backed(n, m)

RowsKept == BooksAgree /\ RowShapes /\ AllBacked

\* The property in terms of the definitions above.
LEMMA AllBackedIsRowsBacked == ASSUME BooksAgree PROVE AllBacked <=> RowsBacked
  <1>1. ASSUME NEW n \in Node, NEW m
        PROVE  Rowed(n, m) <=> \E c \in DOMAIN conn : <<c, n>> \in Ends /\ Other(c, n) = m /\ end[c][n] = "rowed"
    <2>1. ASSUME NEW c \in DOMAIN conn PROVE n \in {conn[c].from, conn[c].to} <=> <<c, n>> \in Ends
      BY Zenon DEF Ends
    <2> QED
      BY Zenon, <2>1 DEF Rowed
  <1> QED
    BY <1>1, ZenonT(60), SMTT(60) DEF AllBacked, Backed, RowsBacked

\* An end that stays "rowed" keeps the row it stands for.
LEMMA RowedStays ==
    ASSUME NEW n \in Node, NEW m, Rowed(n, m),
           \A c \in DOMAIN conn : c \in DOMAIN conn' /\ conn'[c] = conn[c],
           \A c \in DOMAIN conn : end[c][n] = "rowed" => end'[c][n] = "rowed"
    PROVE  Rowed(n, m)'
  <1>1. PICK c \in DOMAIN conn : n \in {conn[c].from, conn[c].to} /\ Other(c, n) = m /\ end[c][n] = "rowed"
    BY Zenon DEF Rowed
  <1>2. c \in DOMAIN conn' /\ conn'[c] = conn[c] /\ end'[c][n] = "rowed"
    BY <1>1, Zenon
  <1> QED
    BY <1>1, <1>2 DEF Rowed, Other

\* A step that writes neither the rows nor what stands behind them.
LEMMA BackingKept ==
    ASSUME RowsKept, UNCHANGED <<rows, active, removing, left>>,
           \A c \in DOMAIN conn : c \in DOMAIN conn' /\ conn'[c] = conn[c],
           \A c \in DOMAIN conn, n \in Node : end[c][n] = "rowed" => end'[c][n] = "rowed"
    PROVE  RowShapes' /\ AllBacked'
  <1>1. RowShapes'
    BY Zenon DEF RowsKept, RowShapes
  <1>2. ASSUME NEW n \in Node, NEW m \in DOMAIN rows[n] PROVE Backed(n, m)'
    <2>1. Backed(n, m)
      BY Zenon DEF RowsKept, AllBacked
    <2>2. Rowed(n, m) => Rowed(n, m)'
      BY RowedStays, Zenon
    <2> QED
      BY <2>1, <2>2, Zenon DEF Backed
  <1> QED
    BY <1>1, <1>2, Zenon DEF AllBacked

\* An end other than "rowed" moves.
LEMMA OtherEndMoves ==
    ASSUME RowsKept, NEW c \in DOMAIN conn, NEW n \in Node, NEW s, end' = [end EXCEPT ![c][n] = s],
           end[c][n] # "rowed", UNCHANGED <<conn, rows, active, removing, left>>
    PROVE  RowShapes' /\ AllBacked'
  <1>1. \A d \in DOMAIN conn, m \in Node : end[d][m] = "rowed" => end'[d][m] = "rowed"
    BY Zenon DEF RowsKept, BooksAgree, Shapes
  <1> QED
    BY <1>1, BackingKept, Zenon

\* register_peer writes the row of the end it moves to "rowed".
LEMMA RegisterPeerRows ==
    ASSUME RowsKept, NEW c \in DOMAIN conn, NEW n \in {conn[c].from, conn[c].to}, RegisterPeer(c, n)
    PROVE  RowShapes' /\ AllBacked'
  <1>0. n \in Node /\ Other(c, n) \in Node /\ c \in Conn
    BY EndsAreNodes, Zenon DEF RowsKept
  <1>1. end[c][n] = "shaken" /\ UNCHANGED <<conn, active, removing>>
    BY Zenon DEF RegisterPeer
  <1>2. CASE end' = [end EXCEPT ![c][n] = "bonded"] /\ UNCHANGED <<rows, left>>
    BY <1>0, <1>1, <1>2, OtherEndMoves, Zenon
  <1>3. ASSUME NEW a, end' = [end EXCEPT ![c][n] = "rowed"], left' = left \ {<<n, Other(c, n)>>},
               rows' = [rows EXCEPT ![n] = With(@, Other(c, n), a)]
        PROVE  RowShapes' /\ AllBacked'
    <2>1. \A d \in DOMAIN conn, k \in Node : end'[d][k] = IF d = c /\ k = n THEN "rowed" ELSE end[d][k]
      BY <1>0, <1>3, Zenon DEF RowsKept, BooksAgree, Shapes
    <2>2. \A k \in Node : DOMAIN rows'[k] = IF k = n THEN DOMAIN rows[k] \cup {Other(c, n)} ELSE DOMAIN rows[k]
      BY <1>3, Zenon DEF RowsKept, RowShapes, With
    <2>3. ASSUME NEW m, m = Other(c, n) PROVE Rowed(n, m)'
      BY <1>0, <1>1, <2>1, <2>3, Zenon DEF Rowed, Other
    <2>4. RowShapes'
      BY <1>1, <1>3, Zenon DEF RowsKept, RowShapes
    <2>5. ASSUME NEW k \in Node, NEW m \in DOMAIN rows'[k] PROVE Backed(k, m)'
      <3>1. CASE k = n /\ m = Other(c, n)
        BY <2>3, <3>1, Zenon DEF Backed
      <3>2. CASE ~(k = n /\ m = Other(c, n))
        <4>1. m \in DOMAIN rows[k]
          BY <2>2, <3>2, Zenon
        <4>2. Backed(k, m)
          BY <4>1, Zenon DEF RowsKept, AllBacked
        <4>3. Rowed(k, m) => Rowed(k, m)'
          BY <1>1, <2>1, RowedStays
        <4>4. <<k, m>> \in left => <<k, m>> \in left'
          BY <1>3, <3>2, Zenon
        <4>5. active'[k] = active[k] /\ removing'[k] = removing[k]
          BY <1>1, Zenon
        <4> QED
          BY Zenon, <4>2, <4>3, <4>4, <4>5 DEF Backed
      <3> QED
        BY <3>1, <3>2, Zenon
    <2> QED
      BY <2>4, <2>5, Zenon DEF AllBacked
  <1> QED
    BY Zenon, <1>2, <1>3 DEF RegisterPeer

\* register_session_arc enters a session of the peer, the new one or the one that was there.
LEMMA RegisterSessionRows ==
    ASSUME RowsKept, NEW c \in DOMAIN conn, NEW n \in {conn[c].from, conn[c].to}, RegisterSession(c, n)
    PROVE  RowShapes' /\ AllBacked'
  <1> DEFINE j == Other(c, n)
  <1>0. n \in Node /\ c \in Conn
    BY EndsAreNodes, Zenon DEF RowsKept
  <1>1. end' = [end EXCEPT ![c][n] = "registered"] /\ UNCHANGED <<conn, rows, removing, left>>
    BY Zenon DEF RegisterSession
  <1>2. \/ j \in DOMAIN active[n] /\ UNCHANGED active
        \/ active' = [active EXCEPT ![n] = With(@, j, c)]
    BY Zenon DEF RegisterSession
  <1> HIDE DEF j
  <1>3. j \in DOMAIN active'[n] /\ \A k \in Node : DOMAIN active[k] \subseteq DOMAIN active'[k]
    BY <1>0, <1>2 DEF RowsKept, BooksAgree, Shapes, With
  <1>4. \A d \in DOMAIN conn, k \in Node : ~(d = c /\ k = n) => end'[d][k] = end[d][k]
    BY <1>0, <1>1, Zenon DEF RowsKept, BooksAgree, Shapes
  <1>5. RowShapes'
    BY <1>1, Zenon DEF RowsKept, RowShapes
  <1>6. ASSUME NEW k \in Node, NEW m \in DOMAIN rows[k] PROVE Backed(k, m)'
    <2>1. Backed(k, m)
      BY Zenon DEF RowsKept, AllBacked
    <2>2. CASE k = n /\ m = j
      BY <1>3, <2>2, Zenon DEF Backed
    <2>3. ASSUME ~(k = n /\ m = j), Rowed(k, m) PROVE Rowed(k, m)'
      <3>1. PICK d \in DOMAIN conn : k \in {conn[d].from, conn[d].to} /\ Other(d, k) = m /\ end[d][k] = "rowed"
        BY <2>3, Zenon DEF Rowed
      <3>2. end'[d][k] = "rowed"
        BY <1>4, <2>3, <3>1, Zenon DEF j
      <3> QED
        BY <1>1, <3>1, <3>2, Zenon DEF Rowed, Other
    <2> QED
      BY <1>1, <1>3, <2>1, <2>2, <2>3, Zenon DEF Backed
  <1> QED
    BY <1>1, <1>5, <1>6, Zenon DEF AllBacked

\* The disconnect loop takes the entry and then the row, and holds the peer in between.
LEMMA RegistryRows == ASSUME RowsKept, NEW n \in Node, RegistryStep(n) PROVE RowShapes' /\ AllBacked'
  <1>1. CASE HandleEvent(n)
    <2> DEFINE p == Head(events[n]).peer
    <2>1. UNCHANGED <<conn, end, rows, left>> /\ removing[n] = {} /\ events[n] # <<>>
      BY <1>1, Zenon DEF HandleEvent
    <2>2. \/ UNCHANGED <<active, removing>>
          \/ /\ active' = [active EXCEPT ![n] = Without(@, p)]
             /\ removing' = [removing EXCEPT ![n] = {p}]
      BY <1>1, Zenon DEF HandleEvent
    <2>3. p \in Node
      <3> DEFINE S == [peer : Node, c : Conn]
      <3>1. events[n] \in Seq(S)
        BY Zenon DEF RowsKept, BooksAgree, Shapes
      <3> HIDE DEF S
      <3>2. Head(events[n]) \in S
        BY <2>1, <3>1, TailFacts, Zenon
      <3> QED
        BY <3>2, Zenon DEF S
    <2> HIDE DEF p
    <2>4. \A k \in Node : \A m : m \in DOMAIN active[k] => m \in DOMAIN active'[k] \/ m \in removing'[k]
      <3>1. CASE UNCHANGED <<active, removing>>
        BY <3>1, Zenon
      <3>2. CASE active' = [active EXCEPT ![n] = Without(@, p)] /\ removing' = [removing EXCEPT ![n] = {p}]
        <4>1. \A k \in Node : k # n => active'[k] = active[k]
          BY <3>2, Zenon DEF RowsKept, BooksAgree, Shapes
        <4>2. DOMAIN active'[n] = DOMAIN active[n] \ {p} /\ removing'[n] = {p}
          BY <3>2, Zenon DEF RowsKept, RowShapes, BooksAgree, Shapes, Without
        <4> QED
          BY <4>1, <4>2, Zenon
      <3> QED
        BY <2>2, <3>1, <3>2, Zenon
    <2>5. \A k \in Node : removing[k] \subseteq removing'[k]
      BY <2>1, <2>2, Zenon DEF RowsKept, RowShapes
    <2>6. RowShapes'
      BY <2>1, <2>2, <2>3 DEF RowsKept, RowShapes
    <2>7. ASSUME NEW k \in Node, NEW m \in DOMAIN rows[k] PROVE Backed(k, m)'
      <3>1. Backed(k, m)
        BY Zenon DEF RowsKept, AllBacked
      <3>2. Rowed(k, m) => Rowed(k, m)'
        BY <2>1, RowedStays, Zenon
      <3> QED
        BY <2>1, <2>4, <2>5, <3>1, <3>2, Zenon DEF Backed
    <2> QED
      BY <2>1, <2>6, <2>7, Zenon DEF AllBacked
  <1>2. CASE RemovePeer(n)
    <2>1. /\ rows' = [rows EXCEPT ![n] = [m \in DOMAIN @ \ removing[n] |-> @[m]]]
          /\ left' = left \ ({n} \X removing[n]) /\ removing' = [removing EXCEPT ![n] = {}]
          /\ UNCHANGED <<conn, end, active>>
      BY <1>2, Zenon DEF RemovePeer
    <2>2. \A k \in Node : /\ DOMAIN rows'[k] = IF k = n THEN DOMAIN rows[k] \ removing[k] ELSE DOMAIN rows[k]
                          /\ k # n => removing'[k] = removing[k]
      BY <2>1, Zenon DEF RowsKept, RowShapes
    <2>3. RowShapes'
      BY <2>1, Zenon DEF RowsKept, RowShapes
    <2>4. ASSUME NEW k \in Node, NEW m \in DOMAIN rows'[k] PROVE Backed(k, m)'
      <3>1. m \in DOMAIN rows[k] /\ (k = n => m \notin removing[k])
        BY <2>2, Zenon
      <3>2. Backed(k, m)
        BY <3>1, Zenon DEF RowsKept, AllBacked
      <3>3. Rowed(k, m) => Rowed(k, m)'
        BY <2>1, RowedStays, Zenon
      <3>4. <<k, m>> \in left => <<k, m>> \in left'
        BY <2>1, <3>1, Zenon
      <3> QED
        BY <2>1, <2>2, <3>1, <3>2, <3>3, <3>4, Zenon DEF Backed
    <2> QED
      BY <2>3, <2>4, Zenon DEF AllBacked
  <1> QED
    BY <1>1, <1>2, Zenon DEF RegistryStep

\* After a restart the rows there were count as left.
LEMMA RestartRows == ASSUME RowsKept, NEW n \in Node, Restart(n) PROVE RowShapes' /\ AllBacked'
  <1>1. /\ active' = [active EXCEPT ![n] = <<>>] /\ removing' = [removing EXCEPT ![n] = {}]
        /\ end' = [c \in Conn |-> [end[c] EXCEPT ![n] =
               IF @ \in {"none", "failed", "bonded"} THEN @ ELSE IF @ = "shaking" THEN "failed" ELSE "closed"]]
        /\ left' = left \cup ({n} \X (DOMAIN rows[n])) /\ UNCHANGED <<rows, conn>>
    BY Zenon DEF Restart
  <1>2. RowShapes'
    BY <1>1, Zenon DEF RowsKept, RowShapes
  <1>3. \A c \in DOMAIN conn, k \in Node : k # n => end'[c][k] = end[c][k]
    BY <1>1, Zenon DEF RowsKept, BooksAgree, Shapes
  <1>4. ASSUME NEW k \in Node, NEW m \in DOMAIN rows[k] PROVE Backed(k, m)'
    <2>1. CASE k = n
      BY <1>1, <2>1, Zenon DEF Backed
    <2>2. CASE k # n
      <3>1. Backed(k, m)
        BY Zenon DEF RowsKept, AllBacked
      <3>2. Rowed(k, m) => Rowed(k, m)'
        BY <1>1, <1>3, <2>2, RowedStays, Zenon
      <3>3. active'[k] = active[k] /\ removing'[k] = removing[k] /\ left \subseteq left'
        BY <1>1, <2>2, Zenon DEF RowsKept, RowShapes, BooksAgree, Shapes
      <3> QED
        BY <3>1, <3>2, <3>3, Zenon DEF Backed
    <2> QED
      BY <2>1, <2>2, Zenon
  <1> QED
    BY <1>1, <1>2, <1>4, Zenon DEF AllBacked

\* Every step keeps a reason for every row.
LEMMA NextRows == ASSUME RowsKept, [SessionsNext]_peerVars PROVE RowsKept'
  <1>0. BooksAgree /\ BooksAgree'
    BY NextBooks, Zenon DEF RowsKept
  <1> SUFFICES RowShapes' /\ AllBacked'
    BY <1>0, Zenon DEF RowsKept
  <1>1. ASSUME UNCHANGED <<conn, end, rows, active, removing, left>> PROVE RowShapes' /\ AllBacked'
    BY <1>1, BackingKept, Zenon
  <1>2. CASE UNCHANGED peerVars
    BY <1>1, <1>2, Zenon DEF peerVars
  <1>3. ASSUME NEW t \in Task, DialStep(t) PROVE RowShapes' /\ AllBacked'
    <2>1. CASE Connect(t)
      <3> DEFINE c == Len(conn) + 1
                 r == [from |-> Owner[t], to |-> At[Target[t]], addr |-> Target[t]]
      <3>1. /\ c \in Conn /\ conn' = Append(conn, r) /\ UNCHANGED <<rows, active, removing, left>>
            /\ end' = [end EXCEPT ![c][Owner[t]] = "shaking", ![c][At[Target[t]]] = "shaking"]
        BY <2>1, Zenon DEF Connect
      <3>2. r \in [from : Node, to : Node, addr : Addr]
        BY PeersAssumption, Zenon
      <3>3. \A d \in DOMAIN conn : d \in DOMAIN conn' /\ conn'[d] = conn[d] /\ d # c
        BY <1>0, <3>1, <3>2, AppendFacts DEF BooksAgree, Shapes
      <3>4. \A d \in DOMAIN conn : end'[d] = end[d]
        BY <1>0, <3>1, <3>3, Zenon DEF BooksAgree, Shapes
      <3> QED
        BY <3>1, <3>3, <3>4, BackingKept, Zenon
    <2>2. CASE ~ Connect(t)
      <3>1. UNCHANGED <<conn, end, rows, active, removing, left>>
        BY <1>3, <2>2, ZenonT(60), SMTT(60) DEF DialStep, EnterFlight, AcquirePermit, PermitTimeout, ReadPool, ConnectFails, DialDone
      <3> QED
        BY <1>1, <3>1, Zenon
    <2> QED
      BY <2>1, <2>2, Zenon
  <1>4. ASSUME NEW c \in DOMAIN conn, NEW n \in {conn[c].from, conn[c].to}, EndStep(c, n)
        PROVE  RowShapes' /\ AllBacked'
    <2>0. n \in Node
      BY <1>0, EndsAreNodes, Zenon
    <2>1. CASE RegisterPeer(c, n)
      BY <2>1, RegisterPeerRows, Zenon
    <2>2. CASE RegisterSession(c, n)
      BY <2>2, RegisterSessionRows, Zenon
    <2>3. CASE ~ RegisterPeer(c, n) /\ ~ RegisterSession(c, n)
      <3>1. /\ \E s : end' = [end EXCEPT ![c][n] = s]
            /\ end[c][n] \in {"shaking", "registered", "running", "leaving"}
            /\ UNCHANGED <<conn, rows, active, removing, left>>
        BY <1>4, <2>3, ZenonT(60), SMTT(60) DEF EndStep, ShakeDone, ShakeFails, SpawnTask, TakeDisconnect, ReadDisconnect, ReadError, Notify
      <3> QED
        BY <2>0, <3>1, OtherEndMoves, Zenon
    <2> QED
      BY <2>1, <2>2, <2>3, Zenon
  <1>5. ASSUME NEW n \in Node, RegistryStep(n) PROVE RowShapes' /\ AllBacked'
    BY <1>5, RegistryRows, Zenon
  <1>6. CASE Outside
    <2>1. UNCHANGED <<conn, end, rows, active, removing, left>>
      BY <1>6, ZenonT(60), SMTT(60) DEF Outside, Dial, PenaltyExpires, CleanupStalePeers, LinkFails
    <2> QED
      BY <1>1, <2>1, Zenon
  <1>7. ASSUME NEW n \in Node, Restart(n) PROVE RowShapes' /\ AllBacked'
    BY <1>7, RestartRows, Zenon
  <1>8. ASSUME NEW n \in Node, NEW m \in Node, ReportClosed(n, m) PROVE RowShapes' /\ AllBacked'
    <2>1. UNCHANGED <<conn, end, rows, active, removing, left>>
      BY <1>8, Zenon DEF ReportClosed
    <2> QED
      BY <1>1, <2>1, Zenon
  <1> QED
    BY Zenon, <1>2, <1>3, <1>4, <1>5, <1>6, <1>7, <1>8 DEF SessionsNext, PeersNext

\* A row of ActivePeers, which makes the dialer pass over an address, always has a reason:
\* register_peer writes it before the session is entered, the disconnect loop takes the
\* entry before the row, and only a restart leaves one behind.
THEOREM RowsHaveReason == SessionsSpec => []RowsBacked
  <1>1. Init => RowsKept
    <2> SUFFICES ASSUME Init PROVE RowsKept
      BY Zenon
    <2>1. RowShapes
      BY Zenon DEF Init, RowShapes
    <2>2. AllBacked
      BY DEF Init, AllBacked
    <2> QED
      BY <2>1, <2>2, InitBooks, Zenon DEF RowsKept
  <1>2. RowsKept => RowsBacked
    BY AllBackedIsRowsBacked, Zenon DEF RowsKept
  <1>3. RowsKept /\ [SessionsNext]_peerVars => RowsKept'
    BY NextRows, Zenon
  <1> QED
    BY <1>1, <1>2, <1>3, PTL DEF SessionsSpec
-----------------------------------------------------------------------------
(* The tie-break                                                           *)

Live == {"registered", "running"}
Current(c, n) == Other(c, n) \in DOMAIN active[n] /\ active[n][Other(c, n)] = c

\* A session is the current one of its node, is told to disconnect, or was cut.
Told(c, n) == end[c][n] \in Live => Current(c, n) \/ chan[c][n] # <<>> \/ <<c, n>> \in cut
AllTold == \A c \in DOMAIN conn : \A n \in {conn[c].from, conn[c].to} : Told(c, n)
ChanShape == chan \in [Conn -> [Node -> Seq({Disconnect})]]

SessionsTold == BooksAgree /\ ChanShape /\ AllTold

\* A queue with an element more is not empty.
LEMMA AppendNotEmpty ==
    ASSUME NEW S, NEW q \in Seq(S), NEW x \in S PROVE Append(q, x) \in Seq(S) /\ Append(q, x) # <<>>
  <1>1. Len(q) + 1 \in DOMAIN Append(q, x) /\ Append(q, x) \in Seq(S)
    BY AppendFacts
  <1>2. DOMAIN <<>> = {}
    OBVIOUS
  <1> QED
    BY Zenon, <1>1, <1>2

\* A queue with a request more.
LEMMA ChanAppend ==
    ASSUME ChanShape, NEW c \in Conn, NEW n \in Node, chan' = [chan EXCEPT ![c][n] = Append(@, Disconnect)]
    PROVE  /\ ChanShape' /\ chan'[c][n] # <<>>
           /\ \A d \in Conn, k \in Node : chan[d][k] # <<>> => chan'[d][k] # <<>>
  <1> DEFINE q == chan[c][n]
  <1>1. q \in Seq({Disconnect})
    BY Zenon DEF ChanShape
  <1>2. chan'[c][n] = Append(q, Disconnect) /\ \A d \in Conn, k \in Node : ~(d = c /\ k = n) => chan'[d][k] = chan[d][k]
    BY Zenon DEF ChanShape
  <1>3. chan' = [chan EXCEPT ![c][n] = Append(q, Disconnect)]
    BY Zenon
  <1> HIDE DEF q
  <1>4. Append(q, Disconnect) \in Seq({Disconnect}) /\ Append(q, Disconnect) # <<>>
    BY <1>1, AppendNotEmpty, Zenon
  <1>5. ChanShape'
    BY <1>3, <1>4 DEF ChanShape
  <1> QED
    BY <1>2, <1>4, <1>5, Zenon

\* PeerSession's send to a session that is still there.
LEMMA ChanRequest ==
    ASSUME ChanShape, NEW c \in Conn, NEW n \in Node, chan' = Request(c, n, Disconnect)
    PROVE  /\ ChanShape' /\ (end[c][n] \in Live => chan'[c][n] # <<>>)
           /\ \A d \in Conn, k \in Node : chan[d][k] # <<>> => chan'[d][k] # <<>>
  <1>1. CASE Accepts(c, n)
    BY <1>1, ChanAppend, Zenon DEF Request
  <1>2. CASE ~ Accepts(c, n)
    BY <1>2, Zenon DEF Request, Accepts, Live, ChanShape
  <1> QED
    BY <1>1, <1>2, Zenon

\* What keeps a session told.
LEMMA ToldStays ==
    ASSUME NEW c, NEW n, Told(c, n), conn'[c] = conn[c], active'[n] = active[n],
           end'[c][n] \in Live => end[c][n] \in Live,
           chan[c][n] # <<>> => chan'[c][n] # <<>>,
           <<c, n>> \in cut => <<c, n>> \in cut'
    PROVE  Told(c, n)'
  <1>1. Current(c, n) => Current(c, n)'
    BY Zenon DEF Current, Other
  <1> QED
    BY <1>1, Zenon DEF Told

\* A step that only adds requests, cuts or events.
LEMMA ToldFrame ==
    ASSUME SessionsTold, UNCHANGED <<conn, end, active>>, cut \subseteq cut', ChanShape',
           \A d \in Conn, k \in Node : chan[d][k] # <<>> => chan'[d][k] # <<>>
    PROVE  AllTold'
  <1> SUFFICES ASSUME NEW c \in DOMAIN conn, NEW n \in {conn[c].from, conn[c].to} PROVE Told(c, n)'
    BY Zenon DEF AllTold
  <1>1. c \in Conn /\ n \in Node /\ Told(c, n)
    BY EndsAreNodes, Zenon DEF SessionsTold, AllTold
  <1> QED
    BY <1>1, ToldStays, Zenon

\* An end moves on, and its queue may go with it.
LEMMA EndTold ==
    ASSUME SessionsTold, NEW c \in DOMAIN conn, NEW n \in Node, NEW s, end' = [end EXCEPT ![c][n] = s],
           UNCHANGED <<conn, active, cut>>, s \in Live => end[c][n] \in Live /\ UNCHANGED chan,
           UNCHANGED chan \/ chan' = [chan EXCEPT ![c][n] = <<>>]
    PROVE  ChanShape' /\ AllTold'
  <1>0. c \in Conn /\ end \in [Conn -> [Node -> EndState]] /\ ChanShape
    BY Zenon DEF SessionsTold, BooksAgree, Shapes
  <1>1. <<>> \in Seq({Disconnect})
    OBVIOUS
  <1>2. ChanShape'
    <2>1. CASE UNCHANGED chan
      BY <1>0, <2>1, Zenon DEF ChanShape
    <2>2. CASE chan' = [chan EXCEPT ![c][n] = <<>>]
      <3> DEFINE q == <<>>
      <3>1. chan' = [chan EXCEPT ![c][n] = q] /\ q \in Seq({Disconnect})
        BY <1>1, <2>2, Zenon
      <3> HIDE DEF q
      <3> QED
        BY <1>0, <3>1, Zenon DEF ChanShape
    <2> QED
      BY <2>1, <2>2, Zenon
  <1>3. ASSUME NEW d \in DOMAIN conn, NEW k \in {conn[d].from, conn[d].to} PROVE Told(d, k)'
    <2>1. d \in Conn /\ k \in Node /\ Told(d, k)
      BY EndsAreNodes, Zenon DEF SessionsTold, AllTold
    <2>2. CASE d = c /\ k = n
      <3>1. end'[d][k] = s
        BY <1>0, <2>2, Zenon
      <3>2. CASE s \in Live
        BY <2>1, <2>2, <3>1, <3>2, ToldStays, Zenon
      <3>3. CASE s \notin Live
        BY <3>1, <3>3, Zenon DEF Told
      <3> QED
        BY <3>2, <3>3, Zenon
    <2>3. CASE ~(d = c /\ k = n)
      <3>1. end'[d][k] = end[d][k] /\ chan'[d][k] = chan[d][k]
        BY <1>0, <2>1, <2>3 DEF ChanShape
      <3> QED
        BY <2>1, <3>1, ToldStays, Zenon
    <2> QED
      BY <2>2, <2>3, Zenon
  <1> QED
    BY <1>2, <1>3, Zenon DEF AllTold

\* register_session_arc: the loser of the tie-break, the new session or the one there was,
\* is told to disconnect.
LEMMA RegisterTold ==
    ASSUME SessionsTold, NEW c \in DOMAIN conn, NEW n \in {conn[c].from, conn[c].to}, RegisterSession(c, n)
    PROVE  ChanShape' /\ AllTold'
  <1> DEFINE m == Other(c, n)
             Enters == active' = [active EXCEPT ![n] = With(@, m, c)]
             Stays(d, k) == chan[d][k] # <<>> => chan'[d][k] # <<>>
  <1>0. c \in Conn /\ n \in Node /\ m \in Node /\ Shapes /\ EntriesSound /\ ChanShape
    BY EndsAreNodes, Zenon DEF SessionsTold, BooksAgree
  <1>1. end[c][n] = "rowed" /\ end' = [end EXCEPT ![c][n] = "registered"] /\ UNCHANGED <<conn, cut>>
    BY Zenon DEF RegisterSession
  <1>2. \A d \in Conn, k \in Node : ~(d = c /\ k = n) => end'[d][k] = end[d][k]
    BY <1>0, <1>1, Zenon DEF Shapes
  <1>3. \/ m \notin DOMAIN active[n] /\ Enters /\ UNCHANGED chan
        \/ UNCHANGED active /\ chan' = [chan EXCEPT ![c][n] = Append(@, Disconnect)]
        \/ m \in DOMAIN active[n] /\ Enters /\ chan' = Request(active[n][m], n, Disconnect)
    BY Zenon DEF RegisterSession
  <1>4. ASSUME m \in DOMAIN active[n] PROVE active[n][m] \in Conn
    BY <1>0, <1>4, Zenon DEF EntriesSound, EntrySound, Shapes
  <1>5. ChanShape' /\ \A d \in Conn, k \in Node : Stays(d, k)
    <2>1. CASE UNCHANGED chan
      BY <1>0, <2>1, Zenon DEF ChanShape
    <2>2. CASE chan' = [chan EXCEPT ![c][n] = Append(@, Disconnect)]
      BY <1>0, <2>2, ChanAppend, Zenon
    <2>3. CASE m \in DOMAIN active[n] /\ chan' = Request(active[n][m], n, Disconnect)
      BY <1>0, <1>4, <2>3, ChanRequest, Zenon
    <2> QED
      BY <1>3, <2>1, <2>2, <2>3, Zenon
  <1>6. ASSUME Enters PROVE /\ \A k \in Node : k # n => active'[k] = active[k]
                            /\ m \in DOMAIN active'[n] /\ active'[n][m] = c
                            /\ \A j : j # m /\ j \in DOMAIN active[n] => j \in DOMAIN active'[n] /\ active'[n][j] = active[n][j]
    <2> HIDE DEF m
    <2> QED
      BY <1>0, <1>6, Zenon DEF Shapes, With
  <1>7. ASSUME NEW d \in DOMAIN conn, NEW k \in {conn[d].from, conn[d].to} PROVE Told(d, k)'
    <2>1. d \in Conn /\ k \in Node /\ Told(d, k)
      BY EndsAreNodes, Zenon DEF SessionsTold, AllTold
    <2>2. CASE d = c /\ k = n
      <3>1. CASE Enters
        BY <1>1, <1>6, <2>2, <3>1, Zenon DEF Told, Current, Other
      <3>2. CASE chan' = [chan EXCEPT ![c][n] = Append(@, Disconnect)]
        BY <1>0, <2>2, <3>2, ChanAppend, Zenon DEF Told
      <3> QED
        BY <1>3, <3>1, <3>2, Zenon
    <2>3. CASE ~(d = c /\ k = n) /\ (UNCHANGED active \/ k # n)
      <3>1. active'[k] = active[k] /\ end'[d][k] = end[d][k] /\ Stays(d, k)
        BY <1>2, <1>3, <1>5, <1>6, <2>1, <2>3
      <3> QED
        BY <1>1, <2>1, <3>1, ToldStays, Zenon
    <2>4. CASE d # c /\ k = n /\ Enters
      <3>0. end'[d][n] = end[d][n] /\ Stays(d, n)
        BY <1>2, <1>5, <2>1, <2>4, Zenon
      <3>1. CASE end[d][n] \notin Live \/ chan[d][n] # <<>> \/ <<d, n>> \in cut
        BY <1>1, <2>4, <3>0, <3>1 DEF Told
      <3>2. CASE end[d][n] \in Live /\ Current(d, n) /\ Other(d, n) = m
        <4>1. active[n][m] = d /\ m \in DOMAIN active[n] /\ chan' = Request(d, n, Disconnect)
          <5>1. active[n][m] = d /\ m \in DOMAIN active[n]
            BY <3>2, Zenon DEF Current
          <5>2. ~ UNCHANGED active
            BY <1>6, <2>4, <5>1, Zenon
          <5> QED
            BY <1>3, <5>1, <5>2, Zenon
        <4>2. chan'[d][n] # <<>>
          BY <1>0, <2>1, <3>2, <4>1, ChanRequest, Zenon
        <4> QED
          BY <2>4, <4>2, Zenon DEF Told
      <3>3. CASE Current(d, n) /\ Other(d, n) # m
        <4>1. Other(d, n) \in DOMAIN active'[n] /\ active'[n][Other(d, n)] = d
          BY <1>6, <2>4, <3>3, Zenon DEF Current
        <4>2. Other(d, n)' = Other(d, n)
          BY <1>1, Zenon DEF Other
        <4>3. Current(d, n)'
          BY <4>1, <4>2, Zenon DEF Current
        <4> QED
          BY <2>4, <4>3, Zenon DEF Told
      <3> QED
        BY <2>1, <2>4, <3>1, <3>2, <3>3, ZenonT(60) DEF Told
    <2> QED
      BY <1>3, <2>2, <2>3, <2>4, Zenon
  <1> QED
    BY <1>1, <1>5, <1>7, Zenon DEF AllTold

\* The disconnect loop takes the entry of a session that is on its way out or cut.
LEMMA HandleEventTold == ASSUME SessionsTold, NEW n \in Node, HandleEvent(n) PROVE ChanShape' /\ AllTold'
  <1> DEFINE e == Head(events[n])
  <1>0. Shapes /\ EventsSound /\ EntriesSound /\ ChanShape
    BY Zenon DEF SessionsTold, BooksAgree
  <1>1. events[n] # <<>> /\ UNCHANGED <<conn, end, cut, chan>>
    BY Zenon DEF HandleEvent
  <1>2. \/ UNCHANGED active
        \/ /\ e.peer \in DOMAIN active[n] /\ active[n][e.peer] = e.c
           /\ active' = [active EXCEPT ![n] = Without(@, e.peer)]
    BY Zenon DEF HandleEvent
  <1>3. EventSound(n, e)
    <2>1. e = events[n][1] /\ 1 \in DOMAIN events[n]
      <3> DEFINE S == [peer : Node, c : Conn]
      <3>1. events[n] \in Seq(S)
        BY <1>0, Zenon DEF Shapes
      <3> HIDE DEF S
      <3> QED
        BY <1>1, <3>1, TailFacts, Zenon
    <2> QED
      BY <1>0, <2>1, Zenon DEF EventsSound
  <1> HIDE DEF e
  <1>4. ChanShape'
    BY <1>0, <1>1, Zenon DEF ChanShape
  <1>5. CASE UNCHANGED active
    BY <1>1, <1>4, <1>5, ToldFrame, Zenon
  <1>6. CASE /\ e.peer \in DOMAIN active[n] /\ active[n][e.peer] = e.c
             /\ active' = [active EXCEPT ![n] = Without(@, e.peer)]
    <2>1. /\ \A k \in Node : k # n => active'[k] = active[k]
          /\ \A j \in DOMAIN active[n] : j # e.peer => j \in DOMAIN active'[n] /\ active'[n][j] = active[n][j]
      BY <1>0, <1>6, Zenon DEF Shapes, Without
    <2>2. ASSUME NEW d \in DOMAIN conn, NEW k \in {conn[d].from, conn[d].to} PROVE Told(d, k)'
      <3>1. d \in Conn /\ k \in Node /\ Told(d, k)
        BY EndsAreNodes, Zenon DEF SessionsTold, AllTold
      <3>2. CASE k # n
        BY <1>1, <2>1, <3>1, <3>2, ToldStays, Zenon
      <3>3. CASE k = n /\ ~ Current(d, n)
        BY <1>1, <3>1, <3>3, Zenon DEF Told
      <3>4. CASE k = n /\ Current(d, n) /\ Other(d, n) = e.peer
        <4>1. d = e.c
          BY <1>6, <3>4, Zenon DEF Current
        <4> QED
          BY <1>1, <1>3, <3>4, <4>1, Zenon DEF EventSound, Told, Live
      <3>5. CASE k = n /\ Current(d, n) /\ Other(d, n) # e.peer
        <4>1. Other(d, n) \in DOMAIN active'[n] /\ active'[n][Other(d, n)] = d
          BY <2>1, <3>5, Zenon DEF Current
        <4>2. Other(d, n)' = Other(d, n)
          BY <1>1, Zenon DEF Other
        <4>3. Current(d, n)'
          BY <4>1, <4>2, Zenon DEF Current
        <4> QED
          BY <3>5, <4>3, Zenon DEF Told
      <3> QED
        BY <3>2, <3>3, <3>4, <3>5, Zenon
    <2> QED
      BY <1>1, <1>4, <2>2, Zenon DEF AllTold
  <1> QED
    BY <1>2, <1>5, <1>6, Zenon

\* A restart leaves no session of the node alive.
LEMMA RestartTold == ASSUME SessionsTold, NEW n \in Node, Restart(n) PROVE ChanShape' /\ AllTold'
  <1>0. Shapes /\ ChanShape
    BY Zenon DEF SessionsTold, BooksAgree
  <1>1. /\ active' = [active EXCEPT ![n] = <<>>]
        /\ end' = [c \in Conn |-> [end[c] EXCEPT ![n] =
               IF @ \in {"none", "failed", "bonded"} THEN @ ELSE IF @ = "shaking" THEN "failed" ELSE "closed"]]
        /\ chan' = [c \in Conn |-> [chan[c] EXCEPT ![n] = <<>>]]
        /\ cut' = {x \in cut : x[2] # n} /\ UNCHANGED conn
    BY Zenon DEF Restart
  <1>2. ChanShape'
    <2> DEFINE q == <<>>
    <2>1. chan' = [c \in Conn |-> [chan[c] EXCEPT ![n] = q]] /\ q \in Seq({Disconnect})
      BY <1>1
    <2> HIDE DEF q
    <2> QED
      BY <1>0, <2>1, Zenon DEF ChanShape
  <1>3. \A c \in Conn, k \in Node :
            /\ k # n => end'[c][k] = end[c][k] /\ chan'[c][k] = chan[c][k] /\ active'[k] = active[k]
            /\ k = n => end'[c][k] \notin Live
    BY <1>0, <1>1, Zenon DEF Shapes, ChanShape, Live
  <1>4. ASSUME NEW d \in DOMAIN conn, NEW k \in {conn[d].from, conn[d].to} PROVE Told(d, k)'
    <2>1. d \in Conn /\ k \in Node /\ Told(d, k)
      BY EndsAreNodes, Zenon DEF SessionsTold, AllTold
    <2>2. CASE k = n
      BY <1>3, <2>1, <2>2, Zenon DEF Told
    <2>3. CASE k # n
      <3>1. <<d, k>> \in cut => <<d, k>> \in cut'
        BY <1>1, <2>3, Zenon
      <3> QED
        BY <1>1, <1>3, <2>1, <2>3, <3>1, ToldStays, Zenon
    <2> QED
      BY <2>2, <2>3, Zenon
  <1> QED
    BY <1>1, <1>2, <1>4, Zenon DEF AllTold

\* A connection more: its ends are shaking hands.
LEMMA ConnectTold == ASSUME SessionsTold, NEW t \in Task, Connect(t) PROVE ChanShape' /\ AllTold'
  <1> DEFINE c == Len(conn) + 1
             r == [from |-> Owner[t], to |-> At[Target[t]], addr |-> Target[t]]
  <1>0. Shapes /\ ChanShape /\ BooksAgree
    BY Zenon DEF SessionsTold, BooksAgree
  <1>1. /\ c \in Conn /\ conn' = Append(conn, r)
        /\ end' = [end EXCEPT ![c][Owner[t]] = "shaking", ![c][At[Target[t]]] = "shaking"]
        /\ UNCHANGED <<active, chan, cut>>
    BY Zenon DEF Connect
  <1>2. r \in [from : Node, to : Node, addr : Addr] /\ Owner[t] \in Node /\ At[Target[t]] \in Node
    BY PeersAssumption, Zenon
  <1>3. /\ \A d \in DOMAIN conn : d \in DOMAIN conn' /\ conn'[d] = conn[d] /\ d # c
        /\ DOMAIN conn' = DOMAIN conn \cup {c} /\ conn'[c] = r
    BY <1>0, <1>1, <1>2, AppendFacts DEF Shapes
  <1>4. /\ \A d \in DOMAIN conn : end'[d] = end[d]
        /\ end'[c][Owner[t]] = "shaking" /\ end'[c][At[Target[t]]] = "shaking"
    BY <1>0, <1>1, <1>2, <1>3, Zenon DEF Shapes
  <1>5. r.from = Owner[t] /\ r.to = At[Target[t]]
    BY Zenon
  <1> HIDE DEF c, r
  <1>6. ASSUME NEW d \in DOMAIN conn', NEW k \in {conn'[d].from, conn'[d].to} PROVE Told(d, k)'
    <2>1. CASE d = c
      BY <1>3, <1>4, <1>5, <2>1, Zenon DEF Told, Live
    <2>2. CASE d \in DOMAIN conn
      <3>1. Told(d, k)
        BY <1>3, <2>2, Zenon DEF SessionsTold, AllTold
      <3> QED
        BY <1>1, <1>3, <1>4, <2>2, <3>1, ToldStays, Zenon
    <2> QED
      BY <1>3, <2>1, <2>2, Zenon
  <1>7. ChanShape'
    BY <1>0, <1>1, Zenon DEF ChanShape
  <1> QED
    BY <1>6, <1>7, Zenon DEF AllTold

\* Every step keeps sessions current, told or cut.
LEMMA NextTold == ASSUME SessionsTold, [SessionsNext]_peerVars PROVE SessionsTold'
  <1>0. BooksAgree /\ BooksAgree' /\ ChanShape
    BY NextBooks, Zenon DEF SessionsTold
  <1> DEFINE Good == ChanShape' /\ AllTold'
  <1> SUFFICES Good
    BY <1>0, Zenon DEF SessionsTold
  <1>1. ASSUME UNCHANGED <<conn, end, active, chan>>, cut \subseteq cut' PROVE Good
    <2>1. ChanShape'
      BY <1>0, <1>1, Zenon DEF ChanShape
    <2> QED
      BY <1>1, <2>1, ToldFrame, Zenon
  <1>2. CASE UNCHANGED peerVars
    BY <1>1, <1>2, Zenon DEF peerVars
  <1>3. ASSUME NEW t \in Task, DialStep(t) PROVE Good
    <2>1. CASE Connect(t)
      BY <2>1, ConnectTold, Zenon
    <2>2. CASE ~ Connect(t)
      <3>1. UNCHANGED <<conn, end, active, chan, cut>>
        BY <1>3, <2>2, ZenonT(60), SMTT(60) DEF DialStep, EnterFlight, AcquirePermit, PermitTimeout, ReadPool, ConnectFails, DialDone
      <3> QED
        BY <1>1, <3>1, Zenon
    <2> QED
      BY <2>1, <2>2, Zenon
  <1>4. ASSUME NEW c \in DOMAIN conn, NEW n \in {conn[c].from, conn[c].to}, EndStep(c, n) PROVE Good
    <2>0. n \in Node
      BY <1>0, EndsAreNodes, Zenon
    <2>1. CASE RegisterSession(c, n)
      BY <2>1, RegisterTold, Zenon
    <2>2. CASE SpawnTask(c, n)
      BY <2>0, <2>2, EndTold, Zenon DEF SpawnTask, Live
    <2>3. CASE ~ RegisterSession(c, n) /\ ~ SpawnTask(c, n)
      <3>1. /\ \E s \in {"shaken", "failed", "bonded", "rowed", "leaving", "closed"} : end' = [end EXCEPT ![c][n] = s]
            /\ UNCHANGED <<conn, active, cut>>
            /\ UNCHANGED chan \/ chan' = [chan EXCEPT ![c][n] = <<>>]
        BY <1>4, <2>3, ZenonT(60), SMTT(60) DEF EndStep, ShakeDone, ShakeFails, RegisterPeer, TakeDisconnect, ReadDisconnect, ReadError, Notify
      <3>2. PICK s \in {"shaken", "failed", "bonded", "rowed", "leaving", "closed"} : end' = [end EXCEPT ![c][n] = s]
        BY <3>1, Zenon
      <3>3. s \notin Live
        BY Zenon DEF Live
      <3> QED
        BY <2>0, <3>1, <3>2, <3>3, EndTold, Zenon
    <2> QED
      BY <2>1, <2>2, <2>3, Zenon
  <1>5. ASSUME NEW n \in Node, RegistryStep(n) PROVE Good
    <2>1. CASE HandleEvent(n)
      BY <2>1, HandleEventTold, Zenon
    <2>2. CASE RemovePeer(n)
      BY <1>1, <2>2, Zenon DEF RemovePeer
    <2> QED
      BY <1>5, <2>1, <2>2, Zenon DEF RegistryStep
  <1>6. CASE Outside
    <2>1. ASSUME NEW n \in Node, CleanupStalePeers(n) PROVE Good
      <3>1. PICK m \in DOMAIN active[n] : chan' = Request(active[n][m], n, Disconnect)
        BY <2>1, Zenon DEF CleanupStalePeers
      <3>2. active[n][m] \in Conn
        BY <1>0, Zenon DEF BooksAgree, EntriesSound, EntrySound, Shapes
      <3>3. ChanShape' /\ \A d \in Conn, k \in Node : chan[d][k] # <<>> => chan'[d][k] # <<>>
        BY <1>0, <3>1, <3>2, ChanRequest, Zenon
      <3>4. UNCHANGED <<conn, end, active, cut>>
        BY <2>1, Zenon DEF CleanupStalePeers
      <3> QED
        BY <3>3, <3>4, ToldFrame, Zenon
    <2>2. CASE UNCHANGED <<conn, end, active, chan, cut>>
      BY <1>1, <2>2, Zenon
    <2> QED
      BY <1>6, <2>1, <2>2, ZenonT(60), SMTT(60) DEF Outside, Dial, PenaltyExpires, LinkFails
  <1>7. ASSUME NEW n \in Node, Restart(n) PROVE Good
    BY <1>7, RestartTold, Zenon
  <1>8. ASSUME NEW n \in Node, NEW m \in Node, ReportClosed(n, m) PROVE Good
    <2>1. UNCHANGED <<conn, end, active, chan>> /\ cut \subseteq cut'
      BY <1>8, Zenon DEF ReportClosed, DisconnectPeer
    <2> QED
      BY <1>1, <2>1, Zenon
  <1> QED
    BY Zenon, <1>2, <1>3, <1>4, <1>5, <1>6, <1>7, <1>8 DEF SessionsNext, PeersNext

\* Two nodes that decided the tie-break each by itself agree: for any number of nodes,
\* connections, redials, failures and restarts, once nothing is on its way every running
\* session is the current one at both its ends, unless disconnect_peer cut one.  A session
\* that is not the current one has a Disconnect waiting (Told), so it cannot be quiet.
THEOREM TieBreakAgrees == SessionsSpec => []AgreeWhenQuiet
  <1>1. Init => SessionsTold
    <2> SUFFICES ASSUME Init PROVE SessionsTold
      BY Zenon
    <2>1. <<>> \in Seq({Disconnect}) /\ DOMAIN <<>> = {}
      OBVIOUS
    <2>2. ChanShape
      BY <2>1, Zenon DEF Init, NoMessages, ChanShape
    <2>3. AllTold
      BY <2>1, Zenon DEF Init, AllTold
    <2> QED
      BY <2>2, <2>3, InitBooks, Zenon DEF SessionsTold
  <1>2. SessionsTold => AgreeWhenQuiet
    <2> SUFFICES ASSUME SessionsTold, Quiet, cut = {}, NEW e \in Ends, end[e[1]][e[2]] = "running"
                 PROVE  LET m == Other(e[1], e[2]) IN
                        /\ m \in DOMAIN active[e[2]] /\ active[e[2]][m] = e[1]
                        /\ e[2] \in DOMAIN active[m] /\ active[m][e[2]] = e[1]
      BY Zenon DEF AgreeWhenQuiet
    <2> DEFINE c == e[1]
               n == e[2]
               m == Other(c, n)
    <2>1. c \in DOMAIN conn /\ n \in {conn[c].from, conn[c].to} /\ n \in Node
      BY Zenon DEF Ends
    <2>2. m \in Node /\ m \in {conn[c].from, conn[c].to} /\ Other(c, m) = n
      BY <2>1, EndsAreNodes, Zenon DEF SessionsTold, Other
    <2>3. ASSUME NEW k \in Node, k \in {conn[c].from, conn[c].to}, end[c][k] = "running" PROVE Current(c, k)
      <3>1. <<c, k>> \in Ends
        BY <2>1, <2>3, Zenon DEF Ends
      <3>2. chan[c][k] = <<>>
        BY <2>3, <3>1, Zenon DEF Quiet
      <3> QED
        BY <2>1, <2>3, <3>2, Zenon DEF SessionsTold, AllTold, Told, Live
    <2>4. end[c][m] = "running"
      <3>1. <<c, m>> \in Ends
        BY <2>1, <2>2, Zenon DEF Ends
      <3>2. end[c][m] \in {"running", "closed", "failed", "bonded"}
        BY <3>1, Zenon DEF Quiet
      <3>3. ~ Gone(c, n)
        BY Zenon DEF Quiet
      <3> QED
        BY <3>2, <3>3, Zenon DEF Gone
    <2>5. Current(c, n) /\ Current(c, m)
      BY <2>1, <2>2, <2>3, <2>4, Zenon
    <2> QED
      BY <2>2, <2>5, Zenon DEF Current
  <1>3. SessionsTold /\ [SessionsNext]_peerVars => SessionsTold'
    BY NextTold, Zenon
  <1> QED
    BY <1>1, <1>2, <1>3, PTL DEF SessionsSpec
-----------------------------------------------------------------------------
(* One connection stays                                                    *)

\* The connection of its nodes that wins every tie-break: there is no other, or every other
\* one was opened the other way, and the node with the higher id opened this one.
Wins(c) ==
    \A d \in Between(c) : d # c => conn[d].from # conn[c].from /\ Rank[conn[c].from] > Rank[conn[c].to]

Bonded(c) == \E n \in Node : end[c][n] = "bonded"

\* Neither end is on its way out, was told to go or is about to read that the other one is.
Standing(c) ==
    \A n \in {conn[c].from, conn[c].to} :
        end[c][n] \in InProgress \cup {"running"} /\ chan[c][n] = <<>> /\ wire[c][n] = <<>>

WireShape == wire \in [Conn -> [Node -> Seq({Disconnect})]]
EntryEnds ==
    \A n \in Node : \A m \in DOMAIN active[n] : n \in {conn[active[n][m]].from, conn[active[n][m]].to}
Unopened == \A c \in Conn \ DOMAIN conn : \A n \in Node : chan[c][n] = <<>> /\ wire[c][n] = <<>>
WinnersStand == \A c \in DOMAIN conn : Wins(c) => Bonded(c) \/ Standing(c)

\* What holds as long as nothing failed.
Calm == broken = {} /\ cut = {} /\ WireShape /\ EntryEnds /\ Unopened /\ WinnersStand
Survivors == SessionsTold /\ faults \in Nat /\ (faults = 0 => Calm)

\* A connection's two nodes, seen from one of them.
LEMMA PairIs ==
    ASSUME NEW c, NEW n \in {conn[c].from, conn[c].to}
    PROVE  {conn[c].from, conn[c].to} = {n, Other(c, n)}
  BY Zenon DEF Other

\* register_session_arc replaces the entry when the winner comes second.
LEMMA WinnerReplaces ==
    ASSUME BooksAgree, NEW c \in DOMAIN conn, NEW x \in Between(c), x # c, Wins(c),
           NEW n \in {conn[c].from, conn[c].to}
    PROVE  ~ KeepExisting(n, Other(c, n), x)
  <1>1. conn[x].from # conn[c].from /\ Rank[conn[c].from] > Rank[conn[c].to]
    BY Zenon DEF Wins
  <1>2. {conn[x].from, conn[x].to} = {conn[c].from, conn[c].to}
    BY Zenon DEF Between
  <1>3. conn[x].from = conn[c].to
    BY <1>1, <1>2, Zenon
  <1>4. conn[c].from \in Node /\ conn[c].to \in Node
    BY EndsAreNodes, Zenon
  <1>5. Rank[conn[c].from] \in Nat /\ Rank[conn[c].to] \in Nat
    BY <1>4, PeersAssumption, Zenon
  <1>6. conn[c].from # conn[c].to
    BY <1>1, <1>3, Zenon
  <1>7. CASE n = conn[c].from
    BY <1>1, <1>3, <1>6, <1>7, Zenon DEF KeepExisting, Other
  <1>8. CASE n = conn[c].to
    BY <1>1, <1>3, <1>5, <1>6, <1>8 DEF KeepExisting, Other
  <1> QED
    BY <1>7, <1>8, Zenon

\* It keeps the entry when the winner came first.
LEMMA WinnerStays ==
    ASSUME BooksAgree, NEW x \in DOMAIN conn, NEW c \in Between(x), x # c, Wins(x),
           NEW n \in {conn[x].from, conn[x].to}
    PROVE  KeepExisting(n, Other(x, n), x)
  <1>1. conn[c].from # conn[x].from /\ Rank[conn[x].from] > Rank[conn[x].to]
    BY Zenon DEF Wins
  <1>2. {conn[x].from, conn[x].to} = {conn[c].from, conn[c].to}
    BY Zenon DEF Between
  <1>3. conn[x].from # conn[x].to
    BY <1>1, <1>2, Zenon
  <1>4. conn[x].from \in Node /\ conn[x].to \in Node
    BY EndsAreNodes, Zenon
  <1>5. Rank[conn[x].from] \in Nat /\ Rank[conn[x].to] \in Nat
    BY <1>4, PeersAssumption, Zenon
  <1>7. CASE n = conn[x].from
    BY <1>1, <1>3, <1>7, Zenon DEF KeepExisting, Other
  <1>8. CASE n = conn[x].to
    BY <1>1, <1>3, <1>5, <1>8 DEF KeepExisting, Other
  <1> QED
    BY <1>7, <1>8, Zenon

\* A step of one end of one connection: it must not take a winner down.
LEMMA EndCalm ==
    ASSUME SessionsTold, Calm, NEW c \in DOMAIN conn, NEW n \in {conn[c].from, conn[c].to}, NEW s,
           end' = [end EXCEPT ![c][n] = s], UNCHANGED <<conn, active, broken, cut>>, WireShape',
           \A d \in Conn : d # c => chan'[d] = chan[d] /\ wire'[d] = wire[d],
           end[c][n] # "bonded", Standing(c) => Standing(c)' \/ s = "bonded"
    PROVE  Calm'
  <1>0. c \in Conn /\ n \in Node /\ end \in [Conn -> [Node -> EndState]] /\ DOMAIN conn \subseteq Conn
    BY EndsAreNodes, Zenon DEF SessionsTold, BooksAgree, Shapes
  <1>1. end'[c][n] = s /\ \A d \in Conn, k \in Node : ~(d = c /\ k = n) => end'[d][k] = end[d][k]
    BY <1>0, Zenon
  <1>2. EntryEnds' /\ broken' = {} /\ cut' = {}
    BY Zenon DEF Calm, EntryEnds
  <1>3. Unopened'
    BY DEF Calm, Unopened
  <1>4. ASSUME NEW d \in DOMAIN conn, Wins(d)' PROVE Bonded(d)' \/ Standing(d)'
    <2>1. Wins(d)
      BY <1>4, Zenon DEF Wins, Between
    <2>2. CASE Bonded(d)
      BY <1>0, <1>1, <2>2 DEF Bonded
    <2>3. CASE Standing(d) /\ d = c
      BY <1>0, <1>1, <2>3, Zenon DEF Bonded
    <2>4. CASE Standing(d) /\ d # c
      <3>1. d \in Conn /\ chan'[d] = chan[d] /\ wire'[d] = wire[d]
        BY <1>0, <2>4, Zenon
      <3>2. \A k \in {conn[d].from, conn[d].to} : k \in Node /\ end'[d][k] = end[d][k]
        BY <1>1, <2>4, <3>1, EndsAreNodes, Zenon DEF SessionsTold
      <3> QED
        BY <2>4, <3>1, <3>2 DEF Standing
    <2> QED
      BY <2>1, <2>2, <2>3, <2>4, Zenon DEF Calm, WinnersStand
  <1> QED
    BY <1>2, <1>3, <1>4, Zenon DEF Calm, WinnersStand

\* register_session_arc never tells a winner to go.
LEMMA RegisterCalm ==
    ASSUME SessionsTold, Calm, NEW c \in DOMAIN conn, NEW n \in {conn[c].from, conn[c].to}, RegisterSession(c, n)
    PROVE  Calm'
  <1> DEFINE m == Other(c, n)
             x == active[n][m]
             Enters == active' = [active EXCEPT ![n] = With(@, m, c)]
  <1>0. /\ c \in Conn /\ n \in Node /\ m \in Node /\ Shapes /\ EntriesSound /\ ChanShape /\ BooksAgree
        /\ DOMAIN conn \subseteq Conn /\ end \in [Conn -> [Node -> EndState]]
    BY EndsAreNodes, Zenon DEF SessionsTold, BooksAgree, Shapes
  <1>1. /\ end[c][n] = "rowed" /\ end' = [end EXCEPT ![c][n] = "registered"]
        /\ UNCHANGED <<conn, cut, broken, wire>>
    BY Zenon DEF RegisterSession
  <1>2. end'[c][n] = "registered" /\ \A d \in Conn, k \in Node : ~(d = c /\ k = n) => end'[d][k] = end[d][k]
    BY <1>0, <1>1, Zenon
  <1>3. \/ Enters /\ UNCHANGED chan
        \/ /\ m \in DOMAIN active[n] /\ KeepExisting(n, m, x) /\ UNCHANGED active
           /\ chan' = [chan EXCEPT ![c][n] = Append(@, Disconnect)]
        \/ m \in DOMAIN active[n] /\ ~ KeepExisting(n, m, x) /\ Enters /\ chan' = Request(x, n, Disconnect)
    BY Zenon DEF RegisterSession
  <1>4. ASSUME m \in DOMAIN active[n]
        PROVE  /\ x \in DOMAIN conn /\ x # c /\ Other(x, n) = m /\ n \in {conn[x].from, conn[x].to}
               /\ x \in Between(c) /\ c \in Between(x)
    <2>1. x \in DOMAIN conn /\ Other(x, n) = m /\ end[x][n] # "rowed"
      BY <1>0, <1>4, Zenon DEF EntriesSound, EntrySound
    <2>2. n \in {conn[x].from, conn[x].to}
      BY <1>0, <1>4, Zenon DEF Calm, EntryEnds
    <2>3. {conn[x].from, conn[x].to} = {n, m} /\ {conn[c].from, conn[c].to} = {n, m}
      BY <2>1, <2>2, PairIs
    <2> QED
      BY <1>1, <2>1, <2>2, <2>3, Zenon DEF Between
  <1> HIDE DEF x
  <1>5. ASSUME NEW d \in DOMAIN conn, Wins(d), Standing(d), NEW k \in {conn[d].from, conn[d].to}
        PROVE  chan'[d][k] = chan[d][k]
    <2>0. d \in Conn /\ k \in Node
      BY <1>0, EndsAreNodes, Zenon
    <2>1. CASE UNCHANGED chan
      BY <2>1, Zenon
    <2>2. CASE /\ m \in DOMAIN active[n] /\ KeepExisting(n, m, x)
               /\ chan' = [chan EXCEPT ![c][n] = Append(@, Disconnect)]
      <3>1. d # c
        BY <1>0, <1>4, <1>5, <2>2, WinnerReplaces, Zenon
      <3> QED
        BY <1>0, <2>0, <2>2, <3>1, Zenon DEF ChanShape
    <2>3. CASE m \in DOMAIN active[n] /\ ~ KeepExisting(n, m, x) /\ chan' = Request(x, n, Disconnect)
      <3>1. d # x
        <4>1. SUFFICES ASSUME d = x PROVE FALSE
          BY Zenon
        <4>2. x \in DOMAIN conn /\ c \in Between(x) /\ x # c /\ Wins(x) /\ n \in {conn[x].from, conn[x].to} /\ Other(x, n) = m
          BY <1>4, <1>5, <2>3, <4>1, Zenon
        <4>3. KeepExisting(n, Other(x, n), x)
          BY <1>0, <4>2, WinnerStays, Zenon
        <4> QED
          BY <2>3, <4>2, <4>3, Zenon
      <3>2. x \in Conn
        BY <1>0, <1>4, <2>3, Zenon
      <3> QED
        BY <1>0, <2>0, <2>3, <3>1, <3>2, Zenon DEF ChanShape, Request
    <2> QED
      BY <1>3, <2>1, <2>2, <2>3, Zenon
  <1>6. EntryEnds'
    <2>1. CASE UNCHANGED active
      BY <1>1, <2>1, Zenon DEF Calm, EntryEnds
    <2>2. CASE Enters
      <3> SUFFICES ASSUME NEW k \in Node, NEW j \in DOMAIN active'[k]
                   PROVE  k \in {conn[active'[k][j]].from, conn[active'[k][j]].to}
        BY <1>1, Zenon DEF EntryEnds
      <3>1. CASE k = n /\ j = m
        <4>1. active'[k][j] = c
          BY <1>0, <2>2, <3>1, Zenon DEF Shapes, With
        <4> QED
          BY <3>1, <4>1, Zenon
      <3>2. CASE ~(k = n /\ j = m)
        <4>1. j \in DOMAIN active[k] /\ active'[k][j] = active[k][j]
          <5> HIDE DEF m
          <5> QED
            BY <1>0, <2>2, <3>2, Zenon DEF Shapes, With
        <4> QED
          BY <4>1, Zenon DEF Calm, EntryEnds
      <3> QED
        BY <3>1, <3>2, Zenon
    <2> QED
      BY <1>3, <2>1, <2>2, Zenon
  <1>7. Unopened'
    <2> SUFFICES ASSUME NEW d \in Conn \ DOMAIN conn, NEW k \in Node PROVE chan'[d][k] = <<>> /\ wire[d][k] = <<>>
      BY <1>1, Zenon DEF Unopened
    <2>1. chan[d][k] = <<>> /\ wire[d][k] = <<>>
      BY Zenon DEF Calm, Unopened
    <2>2. chan'[d][k] = chan[d][k]
      <3>1. d # c /\ (m \in DOMAIN active[n] => d # x /\ x \in Conn)
        BY <1>0, <1>4, Zenon
      <3> QED
        BY <1>0, <1>3, <3>1, Zenon DEF ChanShape, Request
    <2> QED
      BY <2>1, <2>2, Zenon
  <1>8. ASSUME NEW d \in DOMAIN conn, Wins(d)' PROVE Bonded(d)' \/ Standing(d)'
    <2>1. Wins(d)
      BY <1>1, <1>8, Zenon DEF Wins, Between
    <2>2. CASE Bonded(d)
      BY <1>0, <1>1, <1>2, <2>2 DEF Bonded
    <2>3. CASE Standing(d)
      <3> SUFFICES ASSUME NEW k \in {conn[d].from, conn[d].to}
                   PROVE  end'[d][k] \in InProgress \cup {"running"} /\ chan'[d][k] = <<>> /\ wire[d][k] = <<>>
        BY <1>1, Zenon DEF Standing
      <3>1. d \in Conn /\ k \in Node
        BY <1>0, EndsAreNodes, Zenon
      <3>2. end[d][k] \in InProgress \cup {"running"} /\ chan[d][k] = <<>> /\ wire[d][k] = <<>>
        BY <2>3, Zenon DEF Standing
      <3>3. end'[d][k] \in InProgress \cup {"running"}
        BY <1>2, <3>1, <3>2, Zenon DEF InProgress
      <3> QED
        BY <1>5, <2>1, <2>3, <3>2, <3>3, Zenon
    <2> QED
      BY <2>1, <2>2, <2>3, Zenon DEF Calm, WinnersStand
  <1> QED
    BY <1>1, <1>6, <1>7, <1>8, Zenon DEF Calm, WinnersStand, WireShape

\* A connection more: it starts standing, and makes no other one a winner.
LEMMA ConnectCalm == ASSUME SessionsTold, Calm, NEW t \in Task, Connect(t) PROVE Calm'
  <1> DEFINE c == Len(conn) + 1
             r == [from |-> Owner[t], to |-> At[Target[t]], addr |-> Target[t]]
  <1>0. Shapes /\ ChanShape /\ BooksAgree /\ EntriesSound
    BY Zenon DEF SessionsTold, BooksAgree
  <1>1. /\ c \in Conn /\ conn' = Append(conn, r)
        /\ end' = [end EXCEPT ![c][Owner[t]] = "shaking", ![c][At[Target[t]]] = "shaking"]
        /\ UNCHANGED <<active, chan, wire, broken, cut>>
    BY Zenon DEF Connect
  <1>2. r \in [from : Node, to : Node, addr : Addr] /\ Owner[t] \in Node /\ At[Target[t]] \in Node
    BY PeersAssumption, Zenon
  <1>3. /\ \A d \in DOMAIN conn : d \in DOMAIN conn' /\ conn'[d] = conn[d] /\ d # c
        /\ DOMAIN conn' = DOMAIN conn \cup {c} /\ conn'[c] = r
    BY <1>0, <1>1, <1>2, AppendFacts DEF Shapes
  <1>4. /\ \A d \in DOMAIN conn : end'[d] = end[d]
        /\ end'[c][Owner[t]] = "shaking" /\ end'[c][At[Target[t]]] = "shaking"
    BY <1>0, <1>1, <1>2, <1>3, Zenon DEF Shapes
  <1>5. r.from = Owner[t] /\ r.to = At[Target[t]]
    BY Zenon
  <1> HIDE DEF c, r
  <1>6. EntryEnds'
    <2> SUFFICES ASSUME NEW n \in Node, NEW m \in DOMAIN active[n]
                 PROVE  n \in {conn'[active[n][m]].from, conn'[active[n][m]].to}
      BY <1>1, Zenon DEF EntryEnds
    <2>1. active[n][m] \in DOMAIN conn
      BY <1>0, Zenon DEF EntriesSound, EntrySound
    <2>2. n \in {conn[active[n][m]].from, conn[active[n][m]].to}
      BY Zenon DEF Calm, EntryEnds
    <2> QED
      BY <1>3, <2>1, <2>2, Zenon
  <1>7. Unopened'
    BY <1>1, <1>3 DEF Calm, Unopened
  <1>8. ASSUME NEW d \in DOMAIN conn', Wins(d)' PROVE Bonded(d)' \/ Standing(d)'
    <2>1. CASE d = c
      <3>1. c \notin DOMAIN conn
        BY <1>3, Zenon
      <3>2. \A k \in Node : chan[c][k] = <<>> /\ wire[c][k] = <<>>
        BY <1>1, <3>1, Zenon DEF Calm, Unopened
      <3>3. conn'[d].from = Owner[t] /\ conn'[d].to = At[Target[t]]
        BY <1>3, <1>5, <2>1, Zenon
      <3> QED
        BY <1>1, <1>2, <1>4, <2>1, <3>2, <3>3 DEF Standing, InProgress
    <2>2. CASE d \in DOMAIN conn
      <3>1. Wins(d)
        <4> SUFFICES ASSUME NEW e \in Between(d), e # d
                     PROVE  conn[e].from # conn[d].from /\ Rank[conn[d].from] > Rank[conn[d].to]
          BY Zenon DEF Wins
        <4>1. conn'[e] = conn[e] /\ conn'[d] = conn[d] /\ e \in DOMAIN conn'
          BY <1>3, <2>2, Zenon DEF Between
        <4>2. e \in Between(d)'
          BY <4>1, Zenon DEF Between
        <4> QED
          BY <1>8, <4>1, <4>2, Zenon DEF Wins
      <3>2. CASE Bonded(d)
        BY <1>4, <2>2, <3>2, Zenon DEF Bonded
      <3>3. CASE Standing(d)
        BY <1>1, <1>3, <1>4, <2>2, <3>3, ZenonT(60) DEF Standing
      <3> QED
        BY <2>2, <3>1, <3>2, <3>3, Zenon DEF Calm, WinnersStand
    <2> QED
      BY <1>3, <2>1, <2>2, Zenon
  <1> QED
    BY <1>1, <1>6, <1>7, <1>8, Zenon DEF Calm, WinnersStand, WireShape

\* The steps of an end: the loop of a winner's session has no reason to end.
LEMMA EndStepCalm ==
    ASSUME SessionsTold, Calm, NEW c \in DOMAIN conn, NEW n \in {conn[c].from, conn[c].to}, EndStep(c, n),
           faults = 0, faults' = 0
    PROVE  Calm'
  <1> DEFINE m == Other(c, n)
  <1>0. /\ c \in Conn /\ n \in Node /\ m \in Node /\ m \in {conn[c].from, conn[c].to} /\ ChanShape /\ WireShape
        /\ end \in [Conn -> [Node -> EndState]] /\ broken = {}
    BY EndsAreNodes, Zenon DEF SessionsTold, BooksAgree, Shapes, Calm, Other
  <1>1. \A k \in {conn[c].from, conn[c].to} : k \in Node
    BY EndsAreNodes, Zenon DEF SessionsTold
  <1>2. ASSUME NEW s, end' = [end EXCEPT ![c][n] = s]
        PROVE  \A k \in Node : end'[c][k] = IF k = n THEN s ELSE end[c][k]
    BY <1>0, <1>2, Zenon
  <1>3. ASSUME UNCHANGED <<chan, wire, conn>>, NEW s \in InProgress \cup {"running"}, end' = [end EXCEPT ![c][n] = s]
        PROVE  Standing(c) => Standing(c)'
    BY <1>1, <1>2, <1>3 DEF Standing
  <1>4. ASSUME wire' = wire \/ wire' = [wire EXCEPT ![c][n] = <<>>]
        PROVE  WireShape' /\ \A d \in Conn : d # c => wire'[d] = wire[d]
    <2> DEFINE q == <<>>
    <2>1. q \in Seq({Disconnect})
      OBVIOUS
    <2>2. wire' = wire \/ wire' = [wire EXCEPT ![c][n] = q]
      BY <1>4, Zenon
    <2> HIDE DEF q
    <2>3. c \in Conn /\ n \in Node /\ WireShape
      BY <1>0, Zenon
    <2>4. CASE wire' = wire
      BY <2>3, <2>4, Zenon DEF WireShape
    <2>5. CASE wire' = [wire EXCEPT ![c][n] = q]
      BY <2>1, <2>3, <2>5, Zenon DEF WireShape
    <2> QED
      BY <2>2, <2>4, <2>5, Zenon
  <1>5. CASE ShakeDone(c, n)
    <2>1. /\ end[c][n] = "shaking" /\ end' = [end EXCEPT ![c][n] = "shaken"]
          /\ UNCHANGED <<conn, active, broken, cut, chan, wire>>
      BY <1>5, Zenon DEF ShakeDone
    <2>2. "shaken" \in InProgress \cup {"running"}
      BY Zenon DEF InProgress
    <2>3. Standing(c) => Standing(c)'
      BY <1>3, <2>1, <2>2, Zenon
    <2> QED
      BY <1>4, <2>1, <2>3, EndCalm, Zenon
  <1>6. CASE ShakeFails(c, n)
    <2>1. /\ end[c][n] = "shaking" /\ end' = [end EXCEPT ![c][n] = "failed"] /\ end[c][m] = "failed"
          /\ UNCHANGED <<conn, active, broken, cut, chan, wire>>
      BY <1>0, <1>6 DEF ShakeFails
    <2>2. ~ Standing(c)
      BY <1>0, <2>1, Zenon DEF Standing, InProgress
    <2> QED
      BY <1>4, <2>1, <2>2, EndCalm, Zenon
  <1>7. CASE RegisterPeer(c, n)
    <2>1. /\ end[c][n] = "shaken" /\ UNCHANGED <<conn, active, broken, cut, chan, wire>>
          /\ end' = [end EXCEPT ![c][n] = "bonded"] \/ end' = [end EXCEPT ![c][n] = "rowed"]
      BY <1>7, Zenon DEF RegisterPeer
    <2>2. CASE end' = [end EXCEPT ![c][n] = "bonded"]
      BY <1>4, <2>1, <2>2, EndCalm, Zenon
    <2>3. CASE end' = [end EXCEPT ![c][n] = "rowed"]
      <3>1. "rowed" \in InProgress \cup {"running"}
        BY Zenon DEF InProgress
      <3>2. Standing(c) => Standing(c)'
        BY <1>3, <2>1, <2>3, <3>1, Zenon
      <3> QED
        BY <1>4, <2>1, <2>3, <3>2, EndCalm, Zenon
    <2> QED
      BY <2>1, <2>2, <2>3, Zenon
  <1>8. CASE SpawnTask(c, n)
    <2>1. /\ end[c][n] = "registered" /\ end' = [end EXCEPT ![c][n] = "running"]
          /\ UNCHANGED <<conn, active, broken, cut, chan, wire>>
      BY <1>8, Zenon DEF SpawnTask
    <2>2. Standing(c) => Standing(c)'
      BY <1>3, <2>1, Zenon
    <2> QED
      BY <1>4, <2>1, <2>2, EndCalm, Zenon
  <1>9. CASE TakeDisconnect(c, n)
    <2>1. /\ end[c][n] = "running" /\ chan[c][n] # <<>> /\ end' = [end EXCEPT ![c][n] = "leaving"]
          /\ chan' = [chan EXCEPT ![c][n] = <<>>] /\ UNCHANGED <<conn, active, broken, cut>>
          /\ wire' = wire \/ wire' = [wire EXCEPT ![c][m] = Append(@, Disconnect)]
      BY <1>9, Zenon DEF TakeDisconnect
    <2>2. ~ Standing(c)
      BY <2>1, Zenon DEF Standing
    <2>3. WireShape' /\ \A d \in Conn : d # c => wire'[d] = wire[d]
      <3>1. CASE wire' = wire
        BY <1>4, <3>1, Zenon
      <3>2. CASE wire' = [wire EXCEPT ![c][m] = Append(@, Disconnect)]
        <4> DEFINE q == Append(wire[c][m], Disconnect)
        <4>0. wire[c][m] \in Seq({Disconnect})
          BY <1>0, Zenon DEF WireShape
        <4>1. q \in Seq({Disconnect})
          BY <4>0, AppendNotEmpty, Zenon
        <4>2. wire' = [wire EXCEPT ![c][m] = q]
          BY <3>2, Zenon
        <4> HIDE DEF q, m
        <4> QED
          BY <1>0, <4>1, <4>2, Zenon DEF WireShape
      <3> QED
        BY <2>1, <3>1, <3>2, Zenon
    <2>4. \A d \in Conn : d # c => chan'[d] = chan[d]
      BY <1>0, <2>1, Zenon DEF ChanShape
    <2> QED
      BY <2>1, <2>2, <2>3, <2>4, EndCalm, Zenon
  <1>10. CASE ReadDisconnect(c, n)
    <2>1. /\ end[c][n] = "running" /\ wire[c][n] # <<>> /\ end' = [end EXCEPT ![c][n] = "leaving"]
          /\ wire' = [wire EXCEPT ![c][n] = <<>>] /\ UNCHANGED <<conn, active, broken, cut, chan>>
      BY <1>10, Zenon DEF ReadDisconnect
    <2>2. ~ Standing(c)
      BY <2>1, Zenon DEF Standing
    <2> QED
      BY <1>4, <2>1, <2>2, EndCalm, Zenon
  <1>11. CASE ReadError(c, n)
    <2>1. /\ end[c][n] = "running" /\ Gone(c, n) /\ end' = [end EXCEPT ![c][n] = "leaving"]
          /\ wire' = [wire EXCEPT ![c][n] = <<>>] /\ UNCHANGED <<conn, active, broken, cut, chan>>
      BY <1>11, Zenon DEF ReadError, Gone
    <2>2. ~ Standing(c)
      BY <1>0, <2>1, Zenon DEF Standing, Gone, InProgress
    <2> QED
      BY <1>4, <2>1, <2>2, EndCalm, Zenon
  <1>12. CASE Notify(c, n)
    <2>1. /\ end[c][n] = "leaving" /\ end' = [end EXCEPT ![c][n] = "closed"]
          /\ wire' = [wire EXCEPT ![c][n] = <<>>] /\ chan' = [chan EXCEPT ![c][n] = <<>>]
          /\ UNCHANGED <<conn, active, broken, cut>>
      BY <1>12, Zenon DEF Notify
    <2>2. ~ Standing(c)
      BY <2>1, Zenon DEF Standing, InProgress
    <2>3. \A d \in Conn : d # c => chan'[d] = chan[d]
      BY <1>0, <2>1, Zenon DEF ChanShape
    <2> QED
      BY <1>4, <2>1, <2>2, <2>3, EndCalm, Zenon
  <1>13. CASE RegisterSession(c, n)
    BY <1>13, RegisterCalm, Zenon
  <1> QED
    BY Zenon, <1>5, <1>6, <1>7, <1>8, <1>9, <1>10, <1>11, <1>12, <1>13 DEF EndStep

\* Every step that is not a failure keeps the winners standing.
LEMMA NextSurvivors == ASSUME Survivors, [SessionsNext]_peerVars PROVE Survivors'
  <1>0. SessionsTold /\ SessionsTold' /\ faults \in Nat
    BY NextTold, Zenon DEF Survivors
  <1> DEFINE Good == faults' \in Nat /\ (faults' = 0 => Calm')
             Failed == faults' = faults + 1
  <1> SUFFICES Good
    BY <1>0, Zenon DEF Survivors
  <1>1. ASSUME Failed PROVE Good
    BY <1>0, <1>1
  <1>2. ASSUME UNCHANGED faults, faults = 0 => Calm' PROVE Good
    BY <1>0, <1>2, Zenon
  <1>3. ASSUME UNCHANGED <<conn, end, active, chan, wire, broken, cut, faults>> PROVE Good
    <2>1. ASSUME faults = 0 PROVE Calm'
      <3>1. Calm
        BY <2>1, Zenon DEF Survivors
      <3>2. WireShape' /\ EntryEnds' /\ Unopened'
        BY <1>3, <3>1, Zenon DEF Calm, WireShape, EntryEnds, Unopened
      <3>3. WinnersStand'
        BY <1>3, <3>1, ZenonT(60) DEF Calm, WinnersStand, Wins, Between, Bonded, Standing
      <3> QED
        BY <1>3, <3>1, <3>2, <3>3, Zenon DEF Calm
    <2> QED
      BY <1>2, <1>3, <2>1, Zenon
  <1>4. CASE UNCHANGED peerVars
    BY <1>3, <1>4, Zenon DEF peerVars
  <1>5. ASSUME NEW t \in Task, DialStep(t) PROVE Good
    <2>1. CASE Connect(t)
      <3>1. UNCHANGED faults
        BY <2>1, Zenon DEF Connect
      <3>2. faults = 0 => Calm'
        BY <1>0, <2>1, ConnectCalm, Zenon DEF Survivors
      <3> QED
        BY <1>2, <3>1, <3>2, Zenon
    <2>2. CASE ConnectFails(t)
      <3>1. UNCHANGED <<conn, end, active, chan, wire, broken, cut>> /\ (Failed \/ UNCHANGED faults)
        BY <2>2, Zenon DEF ConnectFails
      <3> QED
        BY <1>1, <1>3, <3>1, Zenon
    <2>3. CASE ~ Connect(t) /\ ~ ConnectFails(t)
      <3>1. UNCHANGED <<conn, end, active, chan, wire, broken, cut, faults>>
        BY <1>5, <2>3, ZenonT(60), SMTT(60) DEF DialStep, EnterFlight, AcquirePermit, PermitTimeout, ReadPool, DialDone
      <3> QED
        BY <1>3, <3>1, Zenon
    <2> QED
      BY <2>1, <2>2, <2>3, Zenon
  <1>6. ASSUME NEW c \in DOMAIN conn, NEW n \in {conn[c].from, conn[c].to}, EndStep(c, n) PROVE Good
    <2>1. Failed \/ UNCHANGED faults
      BY <1>6, ZenonT(60), SMTT(60) DEF EndStep, ShakeDone, ShakeFails, RegisterPeer, RegisterSession, SpawnTask,
            TakeDisconnect, ReadDisconnect, ReadError, Notify
    <2>2. ASSUME UNCHANGED faults, faults = 0 PROVE Calm'
      <3>1. Calm /\ faults' = 0
        BY <2>2, Zenon DEF Survivors
      <3> QED
        BY <1>0, <1>6, <2>2, <3>1, EndStepCalm, Zenon
    <2> QED
      BY <1>1, <1>2, <2>1, <2>2, Zenon
  <1>7. ASSUME NEW n \in Node, HandleEvent(n) PROVE Good
    <2>1. UNCHANGED <<conn, end, chan, wire, broken, cut, faults>>
      BY <1>7, Zenon DEF HandleEvent
    <2>2. UNCHANGED active \/ active' = [active EXCEPT ![n] = Without(@, Head(events[n]).peer)]
      BY <1>7, Zenon DEF HandleEvent
    <2>3. CASE UNCHANGED active
      BY <1>3, <2>1, <2>3, Zenon
    <2>4. CASE active' = [active EXCEPT ![n] = Without(@, Head(events[n]).peer)]
      <3>1. \A k \in Node : \A j \in DOMAIN active'[k] : j \in DOMAIN active[k] /\ active'[k][j] = active[k][j]
        <4> DEFINE p == Head(events[n]).peer
        <4>1. DOMAIN active = Node /\ active' = [active EXCEPT ![n] = Without(@, p)]
          BY <1>0, <2>4, Zenon DEF SessionsTold, BooksAgree, Shapes
        <4> HIDE DEF p
        <4> QED
          BY <4>1, Zenon DEF Without
      <3>2. ASSUME faults = 0 PROVE Calm'
        <4>1. Calm
          BY <3>2, Zenon DEF Survivors
        <4>2. EntryEnds'
          BY <2>1, <3>1, <4>1 DEF Calm, EntryEnds
        <4>3. WireShape' /\ Unopened'
          BY <2>1, <4>1, Zenon DEF Calm, WireShape, Unopened
        <4>4. WinnersStand'
          BY <2>1, <4>1, Zenon DEF Calm, WinnersStand, Wins, Between, Bonded, Standing
        <4> QED
          BY <2>1, <4>1, <4>2, <4>3, <4>4, Zenon DEF Calm
      <3> QED
        BY <1>2, <2>1, <3>2, Zenon
    <2> QED
      BY <2>2, <2>3, <2>4, Zenon
  <1>8. ASSUME NEW n \in Node, RemovePeer(n) PROVE Good
    BY <1>3, <1>8, Zenon DEF RemovePeer
  <1>9. CASE Outside
    <2>1. Failed \/ UNCHANGED <<conn, end, active, chan, wire, broken, cut, faults>>
      BY <1>9, ZenonT(60), SMTT(60) DEF Outside, Dial, PenaltyExpires, CleanupStalePeers, LinkFails
    <2> QED
      BY <1>1, <1>3, <2>1, Zenon
  <1>10. ASSUME NEW n \in Node, Restart(n) \/ \E m \in Node : ReportClosed(n, m) PROVE Good
    <2>1. Failed
      BY <1>10, Zenon DEF Restart, ReportClosed
    <2> QED
      BY <1>1, <2>1, Zenon
  <1> QED
    BY Zenon, <1>4, <1>5, <1>6, <1>7, <1>8, <1>9, <1>10 DEF SessionsNext, PeersNext, RegistryStep

\* Two nodes that open connections to each other at the same time keep one: for any number
\* of nodes and dial tasks and any interleaving of their handshakes, registrations and
\* disconnects, as long as nothing fails, no dial of the pair is given up as already bonded
\* and neither node opens two connections to the other.  The connection the higher id
\* opened wins at both nodes whichever comes first, so neither end is ever told to go.
THEOREM OneConnectionStays == SessionsSpec => []SurvivesTieBreak
  <1>1. Init => Survivors
    <2> SUFFICES ASSUME Init PROVE Survivors
      BY Zenon
    <2>1. <<>> \in Seq({Disconnect}) /\ DOMAIN <<>> = {}
      OBVIOUS
    <2>2. ChanShape /\ WireShape
      BY <2>1, Zenon DEF Init, NoMessages, ChanShape, WireShape
    <2>3. AllTold /\ WinnersStand
      BY <2>1, Zenon DEF Init, AllTold, WinnersStand
    <2>4. EntryEnds
      BY DEF Init, EntryEnds
    <2>5. Unopened
      BY Zenon DEF Init, Unopened, NoMessages
    <2>6. broken = {} /\ cut = {} /\ faults \in Nat
      BY Zenon DEF Init
    <2> QED
      BY <2>2, <2>3, <2>4, <2>5, <2>6, InitBooks, Zenon DEF Survivors, SessionsTold, Calm
  <1>2. Survivors => SurvivesTieBreak
    <2> SUFFICES ASSUME Survivors, Quiet, faults = 0, NEW c \in DOMAIN conn,
                        \A d \in Between(c) : \A n \in Node : end[d][n] # "bonded",
                        \A d, e \in Between(c) : conn[d].from = conn[e].from => d = e
                 PROVE  \E d \in Between(c) : end[d][conn[d].from] = "running" /\ end[d][conn[d].to] = "running"
      BY Zenon DEF SurvivesTieBreak
    <2>0. SessionsTold /\ BooksAgree /\ Calm
      BY Zenon DEF Survivors, SessionsTold
    <2>1. c \in Between(c)
      BY Zenon DEF Between
    <2>2. \E w \in Between(c) : Wins(w)
      <3>1. CASE Wins(c)
        BY <2>1, <3>1, Zenon
      <3>2. CASE ~ Wins(c)
        <4>1. PICK d \in Between(c) : d # c /\ ~(conn[d].from # conn[c].from /\ Rank[conn[c].from] > Rank[conn[c].to])
          BY <3>2, Zenon DEF Wins
        <4>2. conn[d].from # conn[c].from
          BY <2>1, <4>1, Zenon
        <4>3. {conn[d].from, conn[d].to} = {conn[c].from, conn[c].to} /\ d \in DOMAIN conn
          BY Zenon DEF Between
        <4>4. conn[d].from = conn[c].to /\ conn[d].to = conn[c].from
          BY <4>2, <4>3, Zenon
        <4>5. conn[c].from \in Node /\ conn[c].to \in Node
          BY <2>0, EndsAreNodes, Zenon
        <4>6. Rank[conn[d].from] > Rank[conn[d].to]
          <5>1. Rank[conn[c].from] \in Nat /\ Rank[conn[c].to] \in Nat /\ Rank[conn[c].from] # Rank[conn[c].to]
            BY <4>2, <4>4, <4>5, PeersAssumption, Zenon
          <5> QED
            BY <4>1, <4>2, <4>4, <5>1
        <4>7. Between(d) = Between(c)
          BY <4>3, Zenon DEF Between
        <4>8. Wins(d)
          <5> SUFFICES ASSUME NEW e \in Between(d), e # d PROVE conn[e].from # conn[d].from
            BY <4>6, Zenon DEF Wins
          <5> QED
            BY <4>7, Zenon
        <4> QED
          BY <4>8, Zenon
      <3> QED
        BY <3>1, <3>2, Zenon
    <2>3. PICK w \in Between(c) : Wins(w)
      BY <2>2, Zenon
    <2>4. w \in DOMAIN conn
      BY Zenon DEF Between
    <2>5. Standing(w)
      BY <2>0, <2>3, <2>4, Zenon DEF Calm, WinnersStand, Bonded
    <2>6. ASSUME NEW n \in {conn[w].from, conn[w].to} PROVE end[w][n] = "running"
      <3>1. n \in Node
        BY <2>0, <2>4, EndsAreNodes, Zenon
      <3>2. <<w, n>> \in Ends
        BY <2>4, <3>1, Zenon DEF Ends
      <3>3. end[w][n] \in {"running", "closed", "failed", "bonded"}
        BY <3>2, Zenon DEF Quiet
      <3> QED
        BY <2>5, <3>3, Zenon DEF Standing, InProgress
    <2> QED
      BY <2>6, Zenon
  <1>3. Survivors /\ [SessionsNext]_peerVars => Survivors'
    BY NextSurvivors, Zenon
  <1> QED
    BY <1>1, <1>2, <1>3, PTL DEF SessionsSpec
=============================================================================
