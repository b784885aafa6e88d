---------------------------- MODULE MCForkchoice ----------------------------
(* Block trees on which TLC checks Forkchoice. *)
EXTENDS Forkchoice, TLC

CONSTANTS g0, a1, a2, a3, b1, b2, b3, task1, task2

\* g0 <- a1 <- a2 <- a3 and a1 <- b2 <- b3.
TreeParent == (g0 :> g0) @@ (a1 :> g0) @@ (a2 :> a1) @@ (a3 :> a2) @@ (b2 :> a1) @@ (b3 :> b2)
TreeHeight == (g0 :> 0) @@ (a1 :> 1) @@ (a2 :> 2) @@ (a3 :> 3) @@ (b2 :> 2) @@ (b3 :> 3)

\* g0 <- a1 <- a2 and g0 <- b1.
ForkParent == (g0 :> g0) @@ (a1 :> g0) @@ (a2 :> a1) @@ (b1 :> g0)
ForkHeight == (g0 :> 0) @@ (a1 :> 1) @@ (a2 :> 2) @@ (b1 :> 1)

\* Tasks differ in nothing but their calls.
TaskSymmetry == Permutations(Tasks)

=============================================================================
