----------------------------- MODULE Execution -----------------------------
(* Block execution over the database: EthDatabase::init_genesis,           *)
(* EthExecutionProvider (import, payload building, simulation, promotion   *)
(* of a built payload), the transaction that persists an imported block,   *)
(* and the storage side of a reorg (ReorgManager).                         *)
(*                                                                         *)
(* redb has one writer: batch is the open write transaction or None.  A    *)
(* handler that writes with DatabaseWriteProvider commits once per call,   *)
(* so it is a queue of writes (todo) performed one step at a time; other   *)
(* tasks, and a crash, come between any two of them.                       *)
EXTENDS StateBatch, SequencesExt

CONSTANTS
    Task,          \* concurrent callers of the engine and RPC interfaces
    Blocks,        \* blocks other nodes or the consensus client send
    Candidates,    \* transaction and withdrawal lists a payload is built from
    Calls,         \* transactions of eth_call
    GenesisAlloc,  \* the state of the genesis configuration
    MaxCrashes,
    MaxCalls,      \* bound on the calls the tasks make
    Rich           \* the balance a simulation gives the sender

VARIABLES
    db,       \* committed tables
    batch,    \* the open BatchWriter, None when there is no writer
    boot,     \* "down", "init" or "up"
    todo,     \* writes left of init_genesis or of a task's handler
    job,      \* what each task executes
    verdict,  \* <<block, accepted>> of the last import executed, or None
    crashes,
    calls

vars == <<db, batch, boot, todo, job, verdict, crashes, calls>>

Idle == [kind |-> "idle"]
Boot == "boot"

Init ==
    /\ db = EmptyTables
    /\ batch = None
    /\ boot = "down"
    /\ todo = [k \in Task \cup {Boot} |-> <<>>]
    /\ job = [k \in Task |-> Idle]
    /\ verdict = None
    /\ crashes = 0
    /\ calls = 0

\* ------------------------------------------------------------------ genesis

\* calculate_genesis_state.
GenesisBatch(t) ==
    LET Store(k, v) == UpdateStorage(v, k[1], k[2], GenesisAlloc[k[1]].storage[k[2]])
        Alloc(a, v) ==
          LET v1 == FoldSet(Store, v, {a} \X {s \in Slot : GenesisAlloc[a].storage[s] # 0})
          IN UpdateAccount(v1, a, [GenesisAlloc[a] EXCEPT
                                      !.storage = CalculateStorageRoot(v1, a, None)])
    IN FoldSet(Alloc, BeginBatch(t), {a \in Account : GenesisAlloc[a] # None})

GenesisBlock(root) ==
    [parent |-> None, number |-> 0, txs |-> <<>>, withdrawals |-> <<>>, root |-> root,
     gas |-> 0, blobs |-> 0, difficulty |-> 1]

\* The writes of init_genesis after the state, in the order of the code.
GenesisWrites(b) ==
    << [op |-> "header", b |-> b], [op |-> "canonical", b |-> b],
       [op |-> "number", b |-> b], [op |-> "number", b |-> b],
       [op |-> "body", b |-> b], [op |-> "forkchoice", b |-> b, safe |-> None],
       [op |-> "td", b |-> b, td |-> b.difficulty], [op |-> "payload", b |-> b],
       [op |-> "metadata", key |-> "chain_id"], [op |-> "metadata", key |-> "genesis_hash"],
       [op |-> "metadata", key |-> "canonical_0"] >>

ConfigWrites == << [op |-> "metadata", key |-> "chain_config"] >>

\* init_genesis up to the commit of the genesis state.
InitGenesis ==
    LET w == GenesisBatch(db)
        fresh == "genesis_hash" \notin db.metadata
    IN /\ boot = "down"
       /\ boot' = "init"
       /\ db' = IF fresh THEN CalculateStateRoot(w, None).t ELSE db
       /\ todo' = [todo EXCEPT ![Boot] =
                     (IF fresh THEN GenesisWrites(GenesisBlock(StateRoot(w, None))) ELSE <<>>)
                     \o (IF "chain_config" \in db.metadata THEN <<>> ELSE ConfigWrites)]
       /\ UNCHANGED <<batch, job, verdict, crashes, calls>>

BootWrite ==
    /\ boot = "init" /\ todo[Boot] # <<>>
    /\ db' = Perform(db, Head(todo[Boot]))
    /\ todo' = [todo EXCEPT ![Boot] = Tail(@)]
    /\ UNCHANGED <<batch, boot, job, verdict, crashes, calls>>

BootDone ==
    /\ boot = "init" /\ todo[Boot] = <<>>
    /\ boot' = "up"
    /\ UNCHANGED <<db, batch, todo, job, verdict, crashes, calls>>

\* The process dies; redb drops the uncommitted transaction.
Crash ==
    /\ boot # "down" /\ crashes < MaxCrashes
    /\ crashes' = crashes + 1
    /\ boot' = "down"
    /\ batch' = None
    /\ todo' = [k \in Task \cup {Boot} |-> <<>>]
    /\ job' = [k \in Task |-> Idle]
    /\ UNCHANGED <<db, verdict, calls>>

\* ------------------------------------------------------------ block execution

NewJob(kind, b, root) ==
    [kind |-> kind, block |-> b, root |-> root, next |-> 1, done |-> <<>>, blobs |-> 0]

\* Task k starts a new call.
StartCall(k) ==
    /\ boot = "up" /\ job[k] = Idle /\ todo[k] = <<>>
    /\ calls < MaxCalls
    /\ calls' = calls + 1
    /\ verdict' = None

\* execute_block_with_batch up to the first transaction.
BlockBatch(b, root) ==
    ApplyBeaconRoot([BeginBatch(db) EXCEPT !.base = root], b, root)

\* newPayload of a block whose parent is stored (payload_processor.rs).
Import(k, b) ==
    /\ StartCall(k) /\ batch = None
    /\ b.parent \in db.headers /\ b \notin db.headers
    /\ batch' = BlockBatch(b, b.parent.root)
    /\ job' = [job EXCEPT ![k] = NewJob("import", b, b.parent.root)]
    /\ UNCHANGED <<db, boot, todo, crashes>>

\* execute_block_for_payload: the header's roots are left to the execution.
PayloadBlock(parent, c) ==
    [parent |-> parent, number |-> parent.number + 1, txs |-> c.txs,
     withdrawals |-> c.withdrawals, root |-> None, gas |-> 0,
     blobs |-> FoldFunction(+, 0, [i \in DOMAIN c.txs |-> c.txs[i].blobs]),
     difficulty |-> IF Cancun(parent.number + 1) THEN 0 ELSE parent.difficulty]

Build(k, parent, c) ==
    /\ StartCall(k) /\ batch = None
    /\ parent \in db.headers /\ parent.number < MaxNumber
    /\ batch' = BlockBatch(PayloadBlock(parent, c), parent.root)
    /\ job' = [job EXCEPT ![k] = NewJob("build", PayloadBlock(parent, c), parent.root)]
    /\ UNCHANGED <<db, boot, todo, crashes>>

\* ocean_execution_core_logic of a simulation: no base root, a rich sender.
Simulate(k, parent, x) ==
    LET w == BeginBatch(db)
        acc == OrFresh(BatchAccount(w, x.from, parent.root))
        b == PayloadBlock(parent, [txs |-> <<x>>, withdrawals |-> <<>>])
    IN /\ StartCall(k) /\ batch = None
       /\ parent \in db.headers
       /\ batch' = UpdateAccount(w, x.from, [acc EXCEPT !.balance = Rich])
       /\ job' = [job EXCEPT ![k] = NewJob("simulate", b, parent.root)]
       /\ UNCHANGED <<db, boot, todo, crashes>>

\* An error drops the batch, which aborts the redb transaction.
Abort(k) ==
    /\ batch' = None
    /\ job' = [job EXCEPT ![k] = Idle]
    /\ todo' = [todo EXCEPT ![k] = <<>>]
    /\ verdict' = IF job[k].kind = "import" THEN <<job[k].block, FALSE>> ELSE verdict

Running(k) == job[k].kind \in {"import", "build", "simulate", "promote"}

ExecuteNext(k) ==
    LET j == job[k]
        x == j.block.txs[j.next]
    IN /\ Running(k) /\ j.next <= Len(j.block.txs)
       /\ \/ /\ ValidTransaction(batch, x, j.root)
             /\ batch' = ExecuteTransaction(batch, x, j.root)
             /\ job' = [job EXCEPT ![k].next = @ + 1, ![k].done = Append(@, x),
                                   ![k].blobs = @ + x.blobs]
             /\ UNCHANGED <<todo, verdict>>
          \/ /\ ~ValidTransaction(batch, x, j.root) /\ j.kind = "build"
             /\ job' = [job EXCEPT ![k].next = @ + 1]
             /\ UNCHANGED <<batch, todo, verdict>>
          \/ /\ ~ValidTransaction(batch, x, j.root) /\ j.kind # "build"
             /\ Abort(k)
       /\ UNCHANGED <<db, boot, crashes, calls>>

\* The state after the last transaction: withdrawals, rewards, state root.
BlockEnd(j) ==
    ApplyBlockRewards(ProcessWithdrawals(batch, j.block.withdrawals, j.root), j.block, j.root)

\* finalize_block_header_with_requests: fills the header or compares it.  One
\* unit of gas per transaction.
IsBuilding(j) == j.kind \in {"build", "simulate"} \/ j.block.root = None
                 \/ (j.block.gas = 0 /\ j.done # <<>>)

FinalBlock(j, root) ==
    IF IsBuilding(j)
    THEN [j.block EXCEPT !.txs = j.done, !.root = root, !.gas = Len(j.done)]
    ELSE [j.block EXCEPT !.txs = j.done]

HeaderMatches(j, root) ==
    \/ IsBuilding(j)
    \/ j.block.gas = Len(j.done) /\ j.block.txs = j.done /\ j.block.root = root

BlobsMatch(j) == j.kind = "simulate" \/ ~Cancun(j.block.number) \/ j.block.blobs = j.blobs

\* collect_account_changes, collect_storage_changes and the commit.
CommitBlock(w, b) ==
    LET Meta(i, t) == InsertReceiptMeta(t, b, i)
    IN FoldSet(Meta, InsertChangeSets(w.t, b.number, w.accountsBefore, w.slotsBefore),
               DOMAIN b.txs)

FinishBlock(k) ==
    LET j == job[k]
        ended == BlockEnd(j)
        root == StateRoot(ended, j.root)
        b == FinalBlock(j, root)
    IN /\ Running(k) /\ j.next > Len(j.block.txs)
       /\ \/ /\ ~(BlobsMatch(j) /\ HeaderMatches(j, root))
             /\ Abort(k)
             /\ UNCHANGED db
          \/ /\ BlobsMatch(j) /\ HeaderMatches(j, root)
             /\ batch' = None
             /\ \/ /\ j.kind = "import"
                   /\ db' = CommitBlock(CalculateStateRoot(ended, j.root), b)
                   /\ job' = [job EXCEPT ![k] = [kind |-> "persist", block |-> b]]
                   /\ verdict' = <<j.block, TRUE>>
                   /\ UNCHANGED todo
                \/ /\ j.kind = "promote"
                   /\ db' = CommitBlock(CalculateStateRoot(ended, j.root), b)
                   /\ job' = [job EXCEPT ![k] = Idle]
                   /\ UNCHANGED <<todo, verdict>>
                \/ /\ j.kind = "build"
                   /\ todo' = [todo EXCEPT ![k] = <<[op |-> "payload", b |-> b]>>]
                   /\ job' = [job EXCEPT ![k] = Idle]
                   /\ UNCHANGED <<db, verdict>>
                \/ /\ j.kind = "simulate"
                   /\ job' = [job EXCEPT ![k] = Idle]
                   /\ UNCHANGED <<db, todo, verdict>>
       /\ UNCHANGED <<boot, crashes, calls>>

\* Step 7 of process_new_payload: one transaction for the block.
PersistedTables(t, b, td) ==
    LET Rows(i, v) == InsertTransactionLookup(
                        InsertReceiptMeta(
                          InsertReceipt(InsertTransaction(v, b.txs[i]), b, i), b, i), b, i)
        t1 == InsertHeaderNumber(InsertBlockBody(InsertHeaderTd(InsertHeader(t, b), b, td), b), b)
    IN RemovePayloadByBlockHash(FoldSet(Rows, t1, DOMAIN b.txs), b)

Persist(k) ==
    LET b == job[k].block
        parentTd == HeaderTd(db, b.parent)
    IN /\ job[k].kind = "persist" /\ batch = None
       /\ db' = IF parentTd = None THEN db ELSE PersistedTables(db, b, parentTd + b.difficulty)
       /\ job' = [job EXCEPT ![k] = Idle]
       /\ UNCHANGED <<batch, boot, todo, verdict, crashes, calls>>

\* ------------------------------------------------------- reorg, storage side

\* The writes of revert_to_height for one height, from its change sets.
RevertWrites(t, n) ==
    LET cs == t.changes[n]
        b == t.canon[n]
        Account2(a) == << [op |-> "account", a |-> a, value |-> cs.accounts[a]],
                          [op |-> "plain", a |-> a, value |-> cs.accounts[a]] >>
        Slot1(x) == << [op |-> "storage", a |-> x[1], s |-> x[2], value |-> cs.slots[x]] >>
        Join(f(_), S) == FoldSet(LAMBDA x, q : q \o f(x), <<>>, S)
    IN (IF cs = None THEN <<>>
        ELSE Join(Account2, DOMAIN cs.accounts) \o Join(Slot1, DOMAIN cs.slots))
       \o << [op |-> "unchanges", n |-> n] >>
       \o (IF b \in t.bodies
           THEN [i \in 1..Len(b.txs) |-> [op |-> "unmeta", b |-> b, i |-> i]] ELSE <<>>)
       \o << [op |-> "uncanonical", n |-> n] >>

\* Mutant of MarkWrites: the transaction lookups are not rewritten.
MarkWritesNoLookup(t, b) ==
    (IF b \notin t.bodies /\ b \in t.payloads
     THEN << [op |-> "block", b |-> b], [op |-> "unpayload", b |-> b] >> ELSE <<>>)
    \o << [op |-> "canonical", b |-> b], [op |-> "number", b |-> b],
          [op |-> "number", b |-> b], [op |-> "fix_td", b |-> b] >>

\* The writes of mark_branch_canonical for one block.
MarkWrites(t, b) ==
    (IF b \notin t.bodies /\ b \in t.payloads
     THEN << [op |-> "block", b |-> b], [op |-> "unpayload", b |-> b] >> ELSE <<>>)
    \o << [op |-> "canonical", b |-> b], [op |-> "number", b |-> b],
          [op |-> "number", b |-> b], [op |-> "fix_td", b |-> b] >>
    \o [i \in 1..Len(b.txs) |-> [op |-> "lookup", b |-> b, i |-> i]]

\* resolve_reorg: b and its ancestors down to the first canonical one, newest
\* first, which the last element is.
WalkBack(t, b) ==
    LET At[i \in 0..b.number] == IF i = 0 THEN b ELSE At[i - 1].parent
        m == Min({i \in 0..b.number : IsCanonical(t, At[i])})
    IN [i \in 1..(m + 1) |-> At[i - 1]]

\* What forkchoiceUpdated does after the head is set, for the blocks of a walk
\* back: promote them newest first, mark them oldest first.
Canonicalize(walk) ==
    LET n == Len(walk) - 1
    IN [i \in 1..n |-> [op |-> "promote", b |-> walk[i]]]
       \o [i \in 1..n |-> [op |-> "mark", b |-> walk[n + 1 - i]]]

\* Mutant of SetHead: the blocks above the common ancestor are not reverted.
SetHeadOver(k, b) ==
    /\ StartCall(k) /\ batch = None
    /\ b \in db.payloads \/ Block(db, b) = b
    /\ ~IsCanonical(db, b)
    /\ db' = UpdateForkchoice(db, b, BlockHash(db, 0), None)
    /\ todo' = [todo EXCEPT ![k] = Canonicalize(WalkBack(db, b))]
    /\ UNCHANGED <<batch, boot, job, crashes>>

\* forkchoiceUpdated to a block that is not canonical.  The new head is written
\* first.  When the old head is not the common ancestor, what is above the
\* ancestor is reverted, from the height of the new head on, the ancestor is
\* the head for a while, and the head is written again at the end.
SetHead(k, b) ==
    LET walk == WalkBack(db, b)
        common == Last(walk)
        reverted == b.number - common.number
        is_reorg == db.forkchoice.head # common
    IN /\ StartCall(k) /\ batch = None
       /\ b \in db.payloads \/ Block(db, b) = b
       /\ ~IsCanonical(db, b)
       /\ db' = UpdateForkchoice(db, b, BlockHash(db, 0), None)
       /\ todo' = [todo EXCEPT ![k] =
                     IF is_reorg
                     THEN [i \in 1..reverted |-> [op |-> "revert", n |-> b.number + 1 - i]]
                          \o << [op |-> "forkchoice", b |-> common, safe |-> None] >>
                          \o Canonicalize(walk)
                          \o << [op |-> "forkchoice", b |-> b, safe |-> BlockHash(db, 0)] >>
                     ELSE Canonicalize(walk)]
       /\ UNCHANGED <<batch, boot, job, crashes>>

\* execute_block_with_commit: the root comes from the stored parent header.
Promote(k, b) ==
    /\ IF b \in db.bodies THEN UNCHANGED <<batch, job>>
       ELSE /\ batch = None
            /\ b.parent \in db.headers
            /\ batch' = BlockBatch(b, b.parent.root)
            /\ job' = [job EXCEPT ![k] = NewJob("promote", b, b.parent.root)]
    /\ UNCHANGED db

FixTd(t, b) ==
    LET td == HeaderTd(t, b.parent) + b.difficulty
    IN IF HeaderTd(t, b.parent) = None \/ HeaderTd(t, b) = td THEN t ELSE InsertHeaderTd(t, b, td)

\* One step of a handler's queue of writes.
WriteNext(k) ==
    LET r == Head(todo[k])
    IN /\ boot = "up" /\ todo[k] # <<>> /\ job[k] = Idle
       /\ \/ /\ r.op = "revert"
             /\ todo' = [todo EXCEPT ![k] = RevertWrites(db, r.n) \o Tail(@)]
             /\ UNCHANGED <<db, batch, job>>
          \/ /\ r.op = "mark"
             /\ todo' = [todo EXCEPT ![k] = MarkWrites(db, r.b) \o Tail(@)]
             /\ UNCHANGED <<db, batch, job>>
          \/ /\ r.op = "promote"
             /\ Promote(k, r.b)
             /\ todo' = [todo EXCEPT ![k] = Tail(@)]
          \/ /\ r.op \notin {"revert", "mark", "promote"} /\ batch = None
             /\ db' = IF r.op = "fix_td" THEN FixTd(db, r.b) ELSE Perform(db, r)
             /\ todo' = [todo EXCEPT ![k] = Tail(@)]
             /\ UNCHANGED <<batch, job>>
       /\ UNCHANGED <<boot, verdict, crashes, calls>>

Next ==
    \/ InitGenesis \/ BootWrite \/ BootDone \/ Crash
    \/ \E k \in Task :
         \/ \E b \in Blocks : Import(k, b)
         \/ \E parent \in db.headers, c \in Candidates : Build(k, parent, c)
         \/ \E parent \in db.headers, x \in Calls : Simulate(k, parent, x)
         \/ \E b \in db.headers \cup db.payloads : SetHead(k, b)
         \/ ExecuteNext(k) \/ FinishBlock(k) \/ Persist(k) \/ WriteNext(k)

Spec == Init /\ [][Next]_vars
=============================================================================
