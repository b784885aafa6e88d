---------------------------- MODULE LatestValid ----------------------------
(* What ChainManager answers about a block between imports: its status and *)
(* the latest valid ancestor that an INVALID answer names.  tip is the     *)
(* head of the canonical chain, a stored block.                            *)
EXTENDS PayloadProcessor, FiniteSetsExt

Canonical(h, tip) == \E i \in DOMAIN Path[tip] : Path[tip][i] = h

\* get_latest_valid_ancestor: back over marked blocks, up to the first one that
\* is canonical or not marked; the latter must be known.  The canonical block
\* at the height below a marked one is its ancestor only if it is its parent.
\* The walk of the code ends after 1024 blocks.
GetLatestValidAncestor(h, tip) ==
    LET ends == {i \in DOMAIN Path[h] : Canonical(Path[h][i], tip) \/ invalid[Path[h][i]] = "none"}
        found == Path[h][Min(ends)]
    IN IF Canonical(found, tip) \/ found \in Known THEN {found} ELSE {}

\* determine_payload_status.
DeterminePayloadStatus(h, tip) ==
    IF invalid[h] # "none" THEN [status |-> "INVALID", latest |-> GetLatestValidAncestor(h, tip)]
    ELSE IF h \in stored \cup payloads THEN [status |-> "VALID", latest |-> {h}]
    ELSE [status |-> "SYNCING", latest |-> {}]

\* Between calls, whatever sweeps still run, determine_payload_status answers VALID
\* for every stored block and only for sound blocks, whatever Soft marks the block
\* and its ancestors collected on the way.  An INVALID answer does not depend on
\* where the canonical head is; the ancestor it names is not marked, and no nearer
\* ancestor is stored.
StatusAnswers ==
    (\A t \in Tasks : At(t, "idle")) =>
        \A h \in Hash, tip \in stored :
            LET answer == DeterminePayloadStatus(h, tip)
            IN /\ h \in stored => answer.status = "VALID"
               /\ answer.status = "VALID" => Sound(h)
               /\ answer = DeterminePayloadStatus(h, Genesis)
               /\ answer.status = "INVALID" => \A l \in answer.latest :
                    /\ invalid[l] = "none"
                    /\ \A i \in DOMAIN Path[h] :
                         Path[h][i] \in stored => \E j \in 1..i : Path[h][j] = l
=============================================================================
