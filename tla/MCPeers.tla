------------------------------ MODULE MCPeers ------------------------------
(* Two nodes with two addresses each, that dial each other. *)
EXTENDS Peers, TLC

CONSTANTS n1, n2, a1, b1, a2, b2, t1, t2, t3, t4

MCRank == (n1 :> 1) @@ (n2 :> 2)
MCAt == (a1 :> n1) @@ (b1 :> n1) @@ (a2 :> n2) @@ (b2 :> n2)
MCOwner == (t1 :> n1) @@ (t2 :> n2) @@ (t3 :> n1) @@ (t4 :> n2)
MCTarget == (t1 :> a2) @@ (t2 :> a1) @@ (t3 :> b2) @@ (t4 :> b1)
MCDialLimit == (n1 :> 2) @@ (n2 :> 1)

=============================================================================
