---------------------------- MODULE StateBatch ----------------------------
(* BatchWriter's view of the state inside one write transaction, and the   *)
(* block executor's operations on it (state.rs, block.rs, transaction.rs). *)
(*                                                                         *)
(* A batch is a record: the tables as the open transaction sees them, the  *)
(* tables committed before it, the base state root, and the tracking maps  *)
(* of BatchWriter (what was touched, what it was before).  The EVM itself  *)
(* (evm::transact) is external: Transact gives the change set it returns   *)
(* for a few kinds of transaction.                                         *)
EXTENDS Storage

CONSTANTS
    Beacon,       \* the EIP-4788 system contract
    Beneficiary,  \* coinbase of every block
    BlockReward,  \* reward before Paris
    CancunFrom    \* blocks below this number are pre-Paris, the others Cancun

Cancun(n) == n >= CancunFrom

\* DatabaseWriteProvider::begin_batch with BatchWriter::new.
BeginBatch(committed) ==
    [t |-> committed, committed |-> committed, base |-> None,
     touched |-> {}, slots |-> NoRows, resetted |-> {},
     accountsBefore |-> NoRows, slotsBefore |-> NoRows]

\* ------------------------------------------------ account and slot reads

\* Mutant: an untouched account is read from the plain table.
BatchAccountPlain(w, a, root) ==
    IF a \in w.touched THEN w.t.accounts[a] ELSE w.committed.accounts[a]

\* BatchWriter::account: a touched account is read from the table, any other
\* from the trie at the root given or at the base root.
BatchAccount(w, a, root) ==
    LET from == IF root # None THEN root ELSE w.base
    IN CASE a \in w.touched -> w.t.accounts[a]
         [] a \notin w.touched /\ from # None -> from[a]
         [] OTHER -> w.committed.accounts[a]

BatchStorage(w, a, s, root) ==
    LET acc == BatchAccount(w, a, root)
    IN CASE <<a, s>> \in DOMAIN w.slots -> w.slots[<<a, s>>]
         [] <<a, s>> \notin DOMAIN w.slots /\ (a \in w.resetted \/ acc = None) -> 0
         [] OTHER -> acc.storage[s]

OrFresh(acc) == IF acc = None THEN Fresh ELSE acc

\* --------------------------------------------------------- state writers

\* The first write of an account records what it was.
WriteAccount(w, a, acc) ==
    [w EXCEPT !.accountsBefore = @ @@ (a :> BatchAccount(w, a, None)),
              !.t.accounts[a] = acc,
              !.touched = @ \cup {a}]

UpdateAccount(w, a, acc) == WriteAccount(w, a, acc)
RemoveAccount(w, a) == WriteAccount(w, a, None)

UpdateStorage(w, a, s, value) ==
    LET w1 == [w EXCEPT !.slotsBefore = @ @@ (<<a, s>> :> BatchStorage(w, a, s, None)),
                        !.t.storages[a][s] = value,
                        !.slots = (<<a, s>> :> value) @@ @]
    IN IF a \in w.touched THEN w1
       ELSE UpdateAccount(w1, a, OrFresh(BatchAccount(w1, a, None)))

ResetStorage(w, a) == [w EXCEPT !.resetted = @ \cup {a}]

UpdatePlainState(w, a, acc) == [w EXCEPT !.t.plain[a] = acc, !.touched = @ \cup {a}]
UpdateHashedState(w, a, acc) == [w EXCEPT !.t.hashed[a] = acc]

\* ---------------------------------------------------------------- roots

CalculateStorageRoot(w, a, root) ==
    LET start == IF a \in w.resetted THEN NoSlots ELSE OrFresh(BatchAccount(w, a, root)).storage
    IN [s \in Slot |-> IF <<a, s>> \in DOMAIN w.slots THEN w.slots[<<a, s>>] ELSE start[s]]

IsAccountEmpty(acc) == acc.nonce = 0 /\ acc.balance = 0 /\ ~acc.code

\* The account of a touched address that calculate_state_root puts into the
\* trie and the tables; EIP-161 drops an empty one.
Settled(w, a, root) ==
    LET acc == BatchAccount(w, a, root)
        storage == CalculateStorageRoot(w, a, root)
    IN IF acc = None \/ (IsAccountEmpty(acc) /\ storage = NoSlots)
       THEN None ELSE [acc EXCEPT !.storage = storage]

StateRoot(w, root) ==
    LET latest == Header(w.committed, "latest")
        start == CASE root # None -> root
                   [] root = None /\ w.base # None -> w.base
                   [] OTHER -> IF latest = None THEN EmptyState ELSE latest.root
    IN [a \in Account |-> IF a \in w.touched THEN Settled(w, a, root) ELSE start[a]]

\* Mutant: trie.commit() is missing, the nodes stay in memory.
CalculateStateRootUncommitted(w, root) ==
    LET Settle(table) == [a \in Account |->
                            IF a \in w.touched THEN Settled(w, a, root) ELSE table[a]]
    IN [w EXCEPT !.t.accounts = Settle(@), !.t.plain = Settle(@), !.t.hashed = Settle(@)]

\* calculate_state_root_internal: the tables follow the trie.
CalculateStateRoot(w, root) ==
    LET Settle(table) == [a \in Account |->
                            IF a \in w.touched THEN Settled(w, a, root) ELSE table[a]]
    IN [w EXCEPT !.t.accounts = Settle(@), !.t.plain = Settle(@), !.t.hashed = Settle(@),
                 !.t.trie = @ \cup {StateRoot(w, root)}]

\* ----------------------------------------------------- StateApplier (state.rs)

\* update_account followed by the plain and hashed copies.
PutAccount(w, a, acc) ==
    UpdateHashedState(UpdatePlainState(UpdateAccount(w, a, acc), a, acc), a, acc)

GetOrMaterialize(w, a, root) == OrFresh(BatchAccount(w, a, root))

\* What the last loop does for one affected account.
SettleAffected(w, a, cs, root) ==
    LET acc == BatchAccount(w, a, root)
        kept == [acc EXCEPT !.storage = CalculateStorageRoot(w, a, root)]
    IN CASE a \in cs.deletes -> RemoveAccount(w, a)
         [] a \notin cs.deletes /\ acc = None -> w
         [] OTHER -> IF IsAccountEmpty(kept)
                     THEN UpdatePlainState(RemoveAccount(w, a), a, None)
                     ELSE PutAccount(w, a, kept)

ApplyChangeset(w, cs, root) ==
    LET Got(v, a) == GetOrMaterialize(v, a, root)
        Balance(a, v) == PutAccount(v, a, [Got(v, a) EXCEPT !.balance = cs.balances[a]])
        Nonce(a, v) == PutAccount(v, a, [Got(v, a) EXCEPT !.nonce = cs.nonces[a]])
        Code(a, v) == PutAccount(v, a, [Got(v, a) EXCEPT !.code = TRUE])
        Reset(a, v) == ResetStorage(v, a)
        Store(k, v) == UpdateStorage(v, k[1], k[2], cs.storages[k])
        Affected(a, v) == SettleAffected(v, a, cs, root)
        affected == DOMAIN cs.balances \cup DOMAIN cs.nonces \cup cs.codes \cup cs.resets
                    \cup {k[1] : k \in DOMAIN cs.storages} \cup cs.touched \cup cs.deletes
        w1 == FoldSet(Balance, w, DOMAIN cs.balances)
        w2 == FoldSet(Nonce, w1, DOMAIN cs.nonces)
        w3 == FoldSet(Code, w2, cs.codes)
        w4 == FoldSet(Reset, w3, cs.resets)
        w5 == FoldSet(Store, w4, DOMAIN cs.storages)
    IN FoldSet(Affected, w5, affected)

\* ------------------------------------------------------------ external EVM

NoChanges == [balances |-> NoRows, nonces |-> NoRows, codes |-> {}, resets |-> {},
              storages |-> NoRows, touched |-> {}, deletes |-> {}]

\* The change set of a transaction on a state: a transfer, a call that writes
\* or clears some slots, a creation that sets some, a call that only touches an
\* address, a contract that destroys itself.  The sender's nonce always moves.
Transact(state, x) ==
    LET from == OrFresh(state[x.from])
        to == OrFresh(state[x.to])
        cs == [NoChanges EXCEPT !.nonces = x.from :> from.nonce + 1]
    IN CASE x.kind = "pay" /\ from.balance > 0 /\ x.from # x.to ->
              [cs EXCEPT !.balances = (x.from :> from.balance - 1) @@ (x.to :> to.balance + 1)]
         [] x.kind = "flip" /\ to.code ->
              [cs EXCEPT !.storages = [k \in {x.to} \X x.slots |-> 1 - to.storage[k[2]]]]
         [] x.kind = "create" /\ ~to.code ->
              [cs EXCEPT !.nonces = @ @@ (x.to :> 1), !.codes = {x.to}, !.resets = {x.to},
                         !.storages = [k \in {x.to} \X x.slots |-> 1]]
         [] x.kind = "destroy" /\ to.code -> [cs EXCEPT !.deletes = {x.to}]
         [] OTHER -> [cs EXCEPT !.touched = {x.to}]

\* What the EVM backend reads through the batch (backend.rs).
View(w, root) ==
    [a \in Account |->
        LET acc == BatchAccount(w, a, root)
        IN IF acc = None THEN None
           ELSE [acc EXCEPT !.storage = [s \in Slot |-> BatchStorage(w, a, s, root)]]]

\* ------------------------------------------------ TransactionProcessor, block.rs

ValidTransaction(w, x, root) == x.nonce = OrFresh(BatchAccount(w, x.from, root)).nonce

ExecuteTransaction(w, x, root) ==
    CalculateStateRoot(ApplyChangeset(w, Transact(View(w, root), x), root), root)

EnsureSystemContractCode(w, a, root) ==
    LET acc == BatchAccount(w, a, root)
    IN IF acc # None /\ acc.code THEN w
       ELSE UpdateAccount(w, a, IF acc = None THEN [Fresh EXCEPT !.nonce = 1, !.code = TRUE]
                                ELSE [acc EXCEPT !.code = TRUE])

\* The ring of 8191 timestamps and roots is one entry, written to every slot.
ApplyBeaconRoot(w, b, root) ==
    LET Store(s, v) == UpdateStorage(v, Beacon, s, b.number)
    IN IF ~Cancun(b.number) THEN w
       ELSE FoldSet(Store, EnsureSystemContractCode(w, Beacon, root), Slot)

Credit(w, a, amount, root) ==
    LET acc == OrFresh(BatchAccount(w, a, root))
    IN UpdateAccount(w, a, [acc EXCEPT !.balance = @ + amount])

\* Withdrawals are <<address, amount>>, applied in order; the storage root of
\* the account is recalculated before it is written.
ProcessWithdrawals(w, withdrawals, root) ==
    LET Step(v, d) ==
          LET acc == OrFresh(BatchAccount(v, d[1], root))
          IN UpdateAccount(v, d[1], [acc EXCEPT !.balance = @ + d[2],
                                               !.storage = CalculateStorageRoot(v, d[1], root)])
        At[i \in 0..Len(withdrawals)] == IF i = 0 THEN w ELSE Step(At[i - 1], withdrawals[i])
    IN At[Len(withdrawals)]

\* No ommers: the chains executed here have none.
ApplyBlockRewards(w, b, root) ==
    IF Cancun(b.number) \/ BlockReward = 0 THEN w ELSE Credit(w, Beneficiary, BlockReward, root)
=============================================================================
