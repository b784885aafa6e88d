------------------------------ MODULE Storage ------------------------------
(* The tables of wasix_eth_storage, what the writers put into them and     *)
(* what the readers answer.  Tables are one record, writers are operators  *)
(* from tables to tables: BatchWriter applies several of them to one redb  *)
(* transaction, DatabaseWriteProvider (Perform below) one per transaction. *)
(*                                                                         *)
(* A hash is modelled by what it is the hash of: a block is its own hash,  *)
(* and a state root is the state, a function from accounts (the trie       *)
(* itself is module Trie).  The TrieNodes table is the set of states whose *)
(* nodes it holds.                                                         *)
EXTENDS Integers, Sequences, FiniteSets, FiniteSetsExt, TLC

CONSTANTS
    Account,    \* addresses
    Slot,       \* storage slots
    None,       \* Option::None, an absent row
    MaxNumber   \* highest block number used

NoSlots == [s \in Slot |-> 0]
EmptyState == [a \in Account |-> None]
Fresh == [nonce |-> 0, balance |-> 0, code |-> FALSE, storage |-> NoSlots]
NoRows == [x \in {} |-> None]

\* EthDatabase::init_tables.
EmptyTables ==
    [headers    |-> {},         \* Headers
     numbers    |-> {},         \* HeaderNumbers
     td         |-> NoRows,     \* HeaderTD
     bodies     |-> {},         \* BlockBodies
     txs        |-> {},         \* Transactions
     lookup     |-> NoRows,     \* TransactionLookup
     receipts   |-> {},         \* Receipts, keys only
     metas      |-> {},         \* ReceiptsMeta, keys only
     canon      |-> [n \in 0..MaxNumber |-> None],   \* CanonicalHeads
     forkchoice |-> [head |-> None, safe |-> None, finalized |-> None],
     payloads   |-> {},         \* Payloads
     accounts   |-> EmptyState, \* Accounts
     plain      |-> EmptyState, \* PlainState
     hashed     |-> EmptyState, \* HashedState
     storages   |-> [a \in Account |-> NoSlots],     \* Storages
     trie       |-> {EmptyState},                    \* TrieNodes
     changes    |-> [n \in 0..MaxNumber |-> None],   \* the two change set tables
     metadata   |-> {}]         \* Metadata, keys only

\* --------------------------------------------------- writers of BatchWriter

InsertHeader(t, b) == [t EXCEPT !.headers = @ \cup {b}, !.numbers = @ \cup {b}]
InsertHeaderNumber(t, b) == [t EXCEPT !.numbers = @ \cup {b}]
InsertHeaderTd(t, b, td) == [t EXCEPT !.td = (b :> td) @@ @]

SetCanonical(t, b) == [t EXCEPT !.canon[b.number] = b]
RemoveCanonical(t, n) == [t EXCEPT !.canon[n] = None]

InsertTransactionLookup(t, b, i) == [t EXCEPT !.lookup = (b.txs[i] :> <<b, i>>) @@ @]

\* The later of two equal transactions of a body wins, as in the loop.
InsertBlockBody(t, b) ==
    [t EXCEPT !.bodies = @ \cup {b},
              !.txs    = @ \cup {b.txs[i] : i \in DOMAIN b.txs},
              !.lookup = [x \in {b.txs[i] : i \in DOMAIN b.txs} |->
                            <<b, Max({i \in DOMAIN b.txs : b.txs[i] = x})>>] @@ @]

UpdateForkchoice(t, head, safe, finalized) ==
    [t EXCEPT !.forkchoice =
        [head      |-> head,
         safe      |-> IF safe # None THEN safe ELSE @.safe,
         finalized |-> IF finalized # None THEN finalized ELSE @.finalized]]

AddPayload(t, b) == [t EXCEPT !.payloads = @ \cup {b}]
RemovePayloadByBlockHash(t, b) == [t EXCEPT !.payloads = @ \ {b}]

HeaderTd(t, b) == IF b \in DOMAIN t.td THEN t.td[b] ELSE None

\* Mutant: the receipts are left out.
InsertBlockBare(t, committed, b) ==
    LET parentTd == IF b.number = 0 \/ HeaderTd(committed, b.parent) = None
                    THEN 0 ELSE HeaderTd(committed, b.parent)
    IN InsertHeaderTd(InsertBlockBody(InsertHeader(t, b), b), b, parentTd + b.difficulty)

\* committed is what the read provider of the batch sees.
InsertBlock(t, committed, b) ==
    LET parentTd == IF b.number = 0 \/ HeaderTd(committed, b.parent) = None
                    THEN 0 ELSE HeaderTd(committed, b.parent)
        t1 == InsertHeaderTd(InsertBlockBody(InsertHeader(t, b), b), b, parentTd + b.difficulty)
        rows == {<<b, i>> : i \in DOMAIN b.txs}
    IN [t1 EXCEPT !.receipts = @ \cup rows, !.metas = @ \cup rows]

InsertTransaction(t, x) == [t EXCEPT !.txs = @ \cup {x}]
InsertReceipt(t, b, i) == [t EXCEPT !.receipts = @ \cup {<<b, i>>}]
InsertReceiptMeta(t, b, i) == [t EXCEPT !.metas = @ \cup {<<b, i>>}]
RemoveReceiptMeta(t, b, i) == [t EXCEPT !.metas = @ \ {<<b, i>>}]

InsertChangeSets(t, n, accounts, slots) ==
    [t EXCEPT !.changes[n] = [accounts |-> accounts, slots |-> slots]]
RemoveChangeSet(t, n) == [t EXCEPT !.changes[n] = None]
SetMetadata(t, key) == [t EXCEPT !.metadata = @ \cup {key}]

\* ------------------------------- DatabaseWriteProvider: one commit per call

HeaderWrite(t, r) ==
    CASE r.op = "header" -> InsertHeader(t, r.b)
      [] r.op = "number" -> InsertHeaderNumber(t, r.b)
      [] r.op = "td"     -> InsertHeaderTd(t, r.b, r.td)

BlockWrite(t, r) ==
    CASE r.op = "canonical"   -> SetCanonical(t, r.b)
      [] r.op = "uncanonical" -> RemoveCanonical(t, r.n)
      [] r.op = "body"        -> InsertBlockBody(t, r.b)
      [] r.op = "forkchoice"  -> UpdateForkchoice(t, r.b, r.safe, None)
      [] r.op = "payload"     -> AddPayload(t, r.b)
      [] r.op = "unpayload"   -> RemovePayloadByBlockHash(t, r.b)
      [] r.op = "block"       -> InsertBlock(t, t, r.b)

TransactionWrite(t, r) ==
    CASE r.op = "lookup" -> InsertTransactionLookup(t, r.b, r.i)
      [] r.op = "unmeta" -> RemoveReceiptMeta(t, r.b, r.i)

AccountWrite(t, r) == [t EXCEPT !.accounts[r.a] = r.value]
StateWrite(t, r) == [t EXCEPT !.plain[r.a] = r.value]
StorageWrite(t, r) == [t EXCEPT !.storages[r.a][r.s] = r.value]

Perform(t, r) ==
    CASE r.op \in {"header", "number", "td"} -> HeaderWrite(t, r)
      [] r.op \in {"canonical", "uncanonical", "body", "forkchoice",
                   "payload", "unpayload", "block"} -> BlockWrite(t, r)
      [] r.op \in {"lookup", "unmeta"} -> TransactionWrite(t, r)
      [] r.op = "account" -> AccountWrite(t, r)
      [] r.op = "plain" -> StateWrite(t, r)
      [] r.op = "storage" -> StorageWrite(t, r)
      [] r.op = "metadata" -> SetMetadata(t, r.key)
      [] r.op = "unchanges" -> RemoveChangeSet(t, r.n)

\* ------------------------------------------------------------------ readers

BlockHash(t, n) == IF n \in 0..MaxNumber THEN t.canon[n] ELSE None

\* The highest key of CanonicalHeads.
LatestBlockNumber(t) ==
    LET used == {n \in 0..MaxNumber : t.canon[n] # None}
    IN IF used = {} THEN None ELSE Max(used)

HighestBlockNumber(t) ==
    LET latest == IF LatestBlockNumber(t) = None THEN 0 ELSE LatestBlockNumber(t)
        head == t.forkchoice.head
    IN IF head # None /\ head \in t.numbers THEN Max({latest, head.number}) ELSE latest

\* header(id); "error" is BlockNotFound.
Header(t, tag) ==
    LET head == IF t.forkchoice.head # None THEN t.forkchoice.head
                ELSE IF LatestBlockNumber(t) # None THEN BlockHash(t, LatestBlockNumber(t))
                ELSE None
        Stored(b) == IF b \in t.headers THEN b ELSE None
    IN CASE tag \in {"latest", "pending"} -> Stored(head)
         [] tag = "earliest" -> Stored(BlockHash(t, 0))
         [] tag \in {"safe", "finalized"} ->
                IF t.forkchoice[tag] = None THEN "error" ELSE Stored(t.forkchoice[tag])

Block(t, b) == IF b \in t.headers /\ b \in t.bodies THEN b ELSE None

IsCanonical(t, b) == b \in t.numbers /\ BlockHash(t, b.number) = b

\* transaction_block_reference: only if the block looked up is canonical.
TransactionBlockReference(t, x) ==
    IF x \in DOMAIN t.lookup /\ IsCanonical(t, t.lookup[x][1]) THEN t.lookup[x] ELSE None

TransactionReceipt(t, x) ==
    LET ref == TransactionBlockReference(t, x)
    IN IF ref \in t.receipts THEN ref ELSE None

\* logs: the receipts of the canonical blocks from..to, one log per receipt.
Logs(t, from, to) ==
    UNION {{<<BlockHash(t, n), i>> : i \in
              {j \in 1..Len(BlockHash(t, n).txs) : <<BlockHash(t, n), j>> \in t.receipts}}
             : n \in {m \in from..to : BlockHash(t, m) \in t.bodies}}

\* account(address, Some(root)): an unknown root reads as no account.
AccountAt(t, root, a) == IF root \in t.trie THEN root[a] ELSE None
=============================================================================
