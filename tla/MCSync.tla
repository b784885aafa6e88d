------------------------------- MODULE MCSync -------------------------------
(***************************************************************************)
(* Sync on a small tree:                                                   *)
(*                                                                         *)
(*     g0 -- a1 -- a2 -- c3 -- d4   c3 fails its checks                    *)
(*       \- b1                      a sibling of a1, of less difficulty    *)
(*                                                                         *)
(* p1 serves up to a1; p2 (eth/69, no difficulty) up to d4.                *)
(*                                                                         *)
(* Heights below Paris move the head, the others leave it to the consensus *)
(* client.                                                                 *)
(***************************************************************************)
EXTENDS Sync, TLC

CONSTANTS g0, a1, a2, b1, c3, d4, p1, p2

MCHash == {g0, a1, a2, b1, c3, d4}
MCParent == (g0 :> g0) @@ (a1 :> g0) @@ (a2 :> a1) @@ (b1 :> g0) @@ (c3 :> a2) @@ (d4 :> c3)
MCHeight == (g0 :> 0) @@ (a1 :> 1) @@ (a2 :> 2) @@ (b1 :> 1) @@ (c3 :> 3) @@ (d4 :> 4)
MCTd == [h \in MCHash |-> IF h = g0 THEN 1 ELSE IF h = b1 THEN 2 ELSE 3]
MCFaulty == {c3}
MCPeerHead(p) == IF p = p1 THEN a1 ELSE d4
MCPeerTd(p) == IF p = p1 THEN 3 ELSE 0

\* The second peer has a bad branch.
MCTwoPeers == <<p1, p2>>
MCTwoHead == [p \in {p1, p2} |-> MCPeerHead(p)]
MCTwoTd == [p \in {p1, p2} |-> MCPeerTd(p)]

-----------------------------------------------------------------------------
\* The block of the target is stored or buffered, marked invalid, or was given
\* up or cleared.
Settled(h) == h = Zero \/ h \in Known \cup lost \/ invalid[h] # "none"

\* Targets never wait for ever, whatever peers come and go: again and again
\* the queue holds none that is unsettled (controller.rs, start and sync_step;
\* sync_orchestrator.rs, run).
TargetsSettle == []<>(\A h \in TargetHashes : Settled(h))
=============================================================================
