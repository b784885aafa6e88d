------------------------------ MODULE Serving ------------------------------
(* What the node answers out of its tables: to the eth requests of a peer  *)
(* (SyncService: headers, bodies, receipts, node data) and to the payload  *)
(* body requests of the consensus client, and the checks with which        *)
(* sync_range receives such answers on the other side.                     *)
(*                                                                         *)
(* tree is the set of blocks the BlockTree buffers.  An answer is computed *)
(* from one state of the tables; the code reads them once per element.     *)
EXTENDS Storage, SequencesExt

\* SyncService::get_block_by_hash: storage, then the sync provider.
BlockByHash(t, tree, b) ==
    IF Block(t, b) # None THEN b ELSE IF b \in tree THEN b ELSE None

\* BlockHashOrNumber.
Number(n) == [number |-> n]
Hash(b) == [hash |-> b]

HeaderFor(t, tree, id) ==
    IF "number" \in DOMAIN id
    THEN IF BlockHash(t, id.number) \in t.headers THEN BlockHash(t, id.number) ELSE None
    ELSE IF id.hash \in t.headers THEN id.hash ELSE BlockByHash(t, tree, id.hash)

\* current_id.as_number().unwrap_or(0).
AsNumber(id) == IF "number" \in DOMAIN id THEN id.number ELSE 0

\* handle_get_block_headers.  Going backwards from a hash ends after one header.
GetBlockHeaders(t, tree, block, amount, skip, reverse) ==
    LET From[i \in 0..amount] ==    \* the last i headers asked for, from each id
          [id \in {block} \cup {Number(n) : n \in 0..MaxNumber} |->
             LET b == HeaderFor(t, tree, id)
                 next == IF reverse THEN AsNumber(id) - skip - 1 ELSE b.number + skip + 1
             IN IF i = 0 \/ b = None THEN <<>>
                ELSE <<b>> \o (IF next \in 0..MaxNumber THEN From[i - 1][Number(next)] ELSE <<>>)]
    IN From[amount][block]

\* handle_get_block_bodies: a body nobody has is left out.
GetBlockBodies(t, tree, hashes) ==
    SelectSeq(hashes, LAMBDA b : b \in t.bodies \/ BlockByHash(t, tree, b) # None)

\* handle_get_receipts: the receipts found of each stored block.
GetReceipts(t, hashes) ==
    LET stored == SelectSeq(hashes, LAMBDA b : Block(t, b) # None)
    IN [k \in DOMAIN stored |->
          SelectSeq([i \in DOMAIN stored[k].txs |-> <<stored[k], i>>], LAMBDA r : r \in t.receipts)]

\* handle_get_node_data, for state roots.
GetNodeData(t, roots) == SelectSeq(roots, LAMBDA r : r \in t.trie)

\* sync_range: the headers link up and every header has a body.
RangeAccepted(headers, bodies) ==
    /\ headers # <<>>
    /\ \A i \in 2..Len(headers) : headers[i].parent = headers[i - 1]
    /\ Len(bodies) = Len(headers)

\* ------------------------------------------------- engine_getPayloadBodies

GetPayloadBodiesByHash(t, hashes) == [i \in DOMAIN hashes |-> Block(t, hashes[i])]

\* head is the head in memory; "error" is InvalidParamsCode.
GetPayloadBodiesByRange(t, head, start, count) ==
    IF count = 0 \/ start = 0 THEN "error"
    ELSE IF start > head.number THEN <<>>
    ELSE [i \in 1..Min({count, head.number - start + 1}) |->
            IF BlockHash(t, start + i - 1) = None THEN None
            ELSE Block(t, BlockHash(t, start + i - 1))]
=============================================================================
