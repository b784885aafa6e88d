----------------------------- MODULE BlockTree -----------------------------
(***************************************************************************)
(* What block import promises, whoever calls it: the set of stored blocks  *)
(* only grows, a block enters it together with or after its parent, and    *)
(* only if the block itself is sound.  PayloadProcessor (the handler, step *)
(* by step) and Sync (the controller above it) both implement this.        *)
(***************************************************************************)
CONSTANTS
    Hash,       \* the blocks of the instance, identified by header hash
    Genesis,    \* the block the database is initialised with
    Parent,     \* header.parent_hash
    Faulty      \* the blocks that fail a check of their own

VARIABLE stored

Init == stored = {Genesis}

\* One block, or a block and the buffered ones it connects.
Store ==
    /\ stored \subseteq stored'
    /\ \A b \in stored' \ stored : b \in Hash \ Faulty /\ Parent[b] \in stored'

Spec == Init /\ [][Store]_stored
=============================================================================
