------------------------------ MODULE MCTrie ------------------------------
(* Instances and properties of the trie: binary keys of three nibbles and  *)
(* one key that is a prefix of others.                                     *)
EXTENDS Trie

CONSTANTS short, long

MCKeys == {<<0, 0, 0>>, <<0, 0, 1>>, <<0, 1, 1>>, <<1, 0, 1>>, <<0, 0>>}

\* One key takes values of both lengths.  Below a branch its leaf is hashed
\* with the long one and embedded with the short one.
MCValues == [k \in MCKeys |-> IF k = <<0, 0, 1>> THEN {short, long} ELSE {short}]

\* The trie of a set of entries as the Yellow Paper defines it, independent
\* of the order of operations: what calculate_trie_root must return.
RECURSIVE TrieOf(_)
TrieOf(entries) ==
    LET ks == {e[1] : e \in entries}
        one == CHOOSE e \in entries : TRUE
        p == CHOOSE n \in 0..KeyLength :
               /\ \A a1 \in ks : n <= Len(a1) /\ Take(a1, n) = Take(one[1], n)
               /\ ~\A a1 \in ks : n < Len(a1) /\ Take(a1, n + 1) = Take(one[1], n + 1)
        Strip(n, es) == {<<Drop(e[1], n), e[2]>> : e \in es}
        Ref(n) == StoreNodeToRlp(n, Nothing).ref
        Under(i) == {e \in entries : e[1] # <<>> /\ e[1][1] = i}
        here == {e \in entries : e[1] = <<>>}
    IN CASE entries = {} -> Empty
         [] Cardinality(entries) = 1 -> Leaf(one[1], one[2])
         [] Cardinality(entries) > 1 /\ p > 0 ->
                Ext(Take(one[1], p), Ref(TrieOf(Strip(p, entries))))
         [] OTHER ->
                Branch([i \in Nibbles |-> IF Under(i) = {} THEN None
                                          ELSE Ref(TrieOf(Strip(1, Under(i))))],
                       IF here = {} THEN NoValue ELSE (CHOOSE e \in here : TRUE)[2])

Entries(f) == {<<k, f[k]>> : k \in {x \in Keys : f[x] # NoValue}}
FullEntries(f) == {e \in Entries(f) : Len(e[1]) = KeyLength}
RootOf(f) == Encode(TrieOf(Entries(f)))

\* EthTrie::get finds exactly what was inserted last and not deleted since,
\* through every split, collapse, embedding and reopening, and never fails on a
\* missing node (trie.rs:333-360, 565-569).
LookupMatches == \A k \in Keys : Get(cache, root, k) = content[k]

\* Every committed root keeps answering with the state it was committed with,
\* whatever is written later: get_account_from_trie and iterate_trie, which
\* read the table without a cache, agree with the content at that commit, and
\* so does all_entries where it returns.
SnapshotsReadable ==
    \A r \in roots :
        /\ \A k \in Keys : GetAccountFromTrie(nodes, r.root, k) = r.content[k]
        /\ IterateTrie(nodes, r.root) = FullEntries(r.content)
        /\ AllEntries(Nothing, r.root) \in {FullEntries(r.content), Panic}

\* Without deletions, and without a value overwritten by a shorter one, the root
\* is a function of the entries alone: the order of insertions, the other
\* overwrites, commits and reopenings leave no trace in it
\* (calculate_trie_root, trie.rs:273-280, takes the leaves in any order).  An
\* overwrite that makes a hashed child short enough to embed keeps the hash
\* (insert_recursive_rlp, trie.rs:515-517), and the root then depends on it.
BuiltCanonical == built => root = RootOf(content)

=============================================================================
