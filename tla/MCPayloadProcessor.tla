------------------------- MODULE MCPayloadProcessor -------------------------
(* Block trees on which TLC checks PayloadProcessor. *)
EXTENDS LatestValid, TLC

CONSTANTS h0, h1, h2, h3, k2, k3, task1, task2

\* h0 <- h1 <- h2 <- h3, all of them sound.
ChainParent == (h0 :> h0) @@ (h1 :> h0) @@ (h2 :> h1) @@ (h3 :> h2)
ChainHeight == (h0 :> 0) @@ (h1 :> 1) @@ (h2 :> 2) @@ (h3 :> 3)

\* The same and h1 <- k2.
TreeParent == ChainParent @@ (k2 :> h1)
TreeHeight == ChainHeight @@ (k2 :> 2)

\* The same and k2 <- k3.
ForkParent == TreeParent @@ (k3 :> k2)
ForkHeight == TreeHeight @@ (k3 :> 3)

\* h2 does not fit its parent's header.
HeaderDefect == [h \in Hash |-> IF h = h2 THEN "header" ELSE "none"]

\* h3 fails execution and k2 has a bad body.
BodyDefect == [h \in Hash |-> CASE h = h3 -> "execution" [] h = k2 -> "body" [] OTHER -> "none"]

\* Tasks differ in nothing but their calls.
TaskSymmetry == Permutations(Tasks)

=============================================================================
