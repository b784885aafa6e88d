------------------------------- MODULE Trie -------------------------------
(* The Merkle Patricia trie of wasix_eth_storage (trie.rs) and its three   *)
(* readers: EthTrie::get, DatabaseReadProvider::get_account_from_trie and  *)
(* StateProvider::iterate_trie.                                            *)
(*                                                                         *)
(* A hash is modelled by the encoding it is the hash of (keccak has no     *)
(* collisions), so "the node stored under h" is Decode(h), and what the    *)
(* tables hold is a set of encodings.  Values are opaque.  A stack has one *)
(* slot per nibble of Nibbles (16 in the code).                            *)
EXTENDS Naturals, Sequences, FiniteSets, FiniteSetsExt, TLC

CONSTANTS
    Nibbles,      \* the nibbles keys are made of, a subset of 0..15
    Keys,         \* the keys used, sequences of nibbles
    KeyLength,    \* length of a full key (64 in the code)
    Values,       \* the values stored under each key
    Long,         \* the values whose encoding is longer than the others'
    NoValue,      \* Option::None of a branch value or a lookup
    InlineLimit,  \* encodings shorter than this are embedded (32 bytes)
    MaxOps        \* bound on the number of operations

VARIABLES
    root,     \* EthTrie.root_hash
    cache,    \* EthTrie.cache: hash -> decoded node
    dirty,    \* EthTrie.dirty: nodes not yet written
    nodes,    \* the TrieNodes table
    content,  \* reference: what the trie should hold
    built,    \* reference: root was reached by insertions, and no value was
              \* overwritten by a shorter one
    roots,    \* reference: committed roots with their content and built
    ops

vars == <<root, cache, dirty, nodes, content, built, roots, ops>>

\* ------------------------------------------------------------- encoding

Take(s, n) == SubSeq(s, 1, n)
Drop(s, n) == SubSeq(s, n + 1, Len(s))
Pairs(s) == [i \in 1..(Len(s) \div 2) |-> 16 * s[2 * i - 1] + s[2 * i]]

\* Hex-prefix: flag 2 marks a leaf, flag 1 an odd number of nibbles.
EncodePath(key, isLeaf) ==
    LET flag == IF isLeaf THEN 32 ELSE 0
    IN IF Len(key) % 2 # 0
       THEN <<flag + 16 + key[1]>> \o Pairs(Drop(key, 1))
       ELSE <<flag>> \o Pairs(key)

DecodePath(data) ==
    LET isOdd == (data[1] \div 16) % 2 = 1
        rest  == [i \in 1..(2 * (Len(data) - 1)) |->
                    IF i % 2 = 1 THEN data[(i + 1) \div 2 + 1] \div 16
                                 ELSE data[i \div 2 + 1] % 16]
    IN [key  |-> (IF isOdd THEN <<data[1] % 16>> ELSE <<>>) \o rest,
        leaf |-> (data[1] \div 32) % 2 = 1]

Empty == [t |-> "empty"]
Leaf(key, v) == [t |-> "leaf", key |-> key, value |-> v]
Ext(key, child) == [t |-> "ext", key |-> key, child |-> child]
Branch(stack, v) == [t |-> "branch", stack |-> stack, value |-> v]

\* ChildNode: absent, a hash, or the encoding itself when it is short.
None == [k |-> "none"]
Hash(e) == [k |-> "hash", e |-> e]
Raw(e) == [k |-> "raw", e |-> e]
Value(v) == [k |-> "value", v |-> v]

\* MyTrieNode::encode.  A branch writes an embedded EmptyRoot and an absent
\* child as the same byte.
Encode(n) ==
    CASE n.t = "empty"  -> Empty
      [] n.t = "leaf"   -> [path |-> EncodePath(n.key, TRUE), item |-> Value(n.value)]
      [] n.t = "ext"    -> [path |-> EncodePath(n.key, FALSE), item |-> n.child]
      [] n.t = "branch" -> [items |-> [i \in Nibbles |->
                                IF n.stack[i] = Raw(Empty) THEN None ELSE n.stack[i]],
                            last |-> n.value]

\* MyTrieNode::decode: two items are a leaf or an extension, more a branch.
Decode(e) ==
    IF e = Empty THEN Empty
    ELSE IF "items" \in DOMAIN e THEN Branch(e.items, e.last)
    ELSE LET p == DecodePath(e.path)
         IN IF p.leaf THEN Leaf(p.key, e.item.v) ELSE Ext(p.key, e.item)

\* The length of an encoding, up to constants: what decides on embedding.
EncLen(e) ==
    LET ItemLen(item) == CASE item.k = "none"  -> 1
                           [] item.k = "value" -> IF item.v \in Long THEN 2 ELSE 1
                           [] item.k = "raw"  -> 2
                           [] item.k = "hash" -> InlineLimit
    IN IF e = Empty THEN 1
       ELSE IF "items" \in DOMAIN e
            THEN ItemLen(Value(e.last))
                 + FoldSet(LAMBDA i, n : n + ItemLen(e.items[i]), 0, Nibbles)
            ELSE Len(e.path) + ItemLen(e.item)

\* ------------------------------------------------------ the node stores

\* "Trie node not found": the error of get_node, its caller and its callers.
Missing == [t |-> "missing"]
Err == [k |-> "error"]

\* get_node: the cached form if there is one, else what is dirty or stored.
GetNode(c, h) ==
    CASE h = Empty -> Empty
      [] h # Empty /\ h \in DOMAIN c -> c[h]
      [] h \notin {Empty} \cup DOMAIN c ->
           IF h \in dirty \cup nodes THEN Decode(h) ELSE Missing
GetNodeFromRlp(c, child) ==
    CASE child.k = "none" -> Empty
      [] child.k = "hash" -> GetNode(c, child.e)
      [] child.k = "raw"  -> Decode(child.e)

\* store_node and store_node_to_rlp: "made" is what they add to the cache.
StoreNode(n, made) == [hash |-> Encode(n), made |-> (Encode(n) :> n) @@ made]
StoreNodeToRlp(n, made) ==
    LET e == Encode(n)
    IN IF EncLen(e) >= InlineLimit
       THEN [ref |-> Hash(e), made |-> (e :> n) @@ made]
       ELSE [ref |-> Raw(e), made |-> made]

Nothing == [h \in {} |-> Empty]

\* --------------------------------------------------------------- lookup

StartsWith(s, p) == Len(p) <= Len(s) /\ Take(s, Len(p)) = p
CommonPrefixLength(a, b) ==
    CHOOSE n \in 0..Len(a) :
        /\ n <= Len(b) /\ Take(a, n) = Take(b, n)
        /\ (n < Len(a) /\ n < Len(b)) => a[n + 1] # b[n + 1]

\* get_recursive, get_recursive_node and get_recursive_rlp.
RECURSIVE GetRecursive(_, _, _)
GetRecursive(c, n, key) ==
    CASE n.t = "empty" -> NoValue
      [] n.t = "missing" -> Err
      [] n.t = "leaf"  -> IF n.key = key THEN n.value ELSE NoValue
      [] n.t = "ext"   -> IF StartsWith(key, n.key)
                          THEN GetRecursive(c, GetNodeFromRlp(c, n.child), Drop(key, Len(n.key)))
                          ELSE NoValue
      [] n.t = "branch" -> IF key = <<>> THEN n.value
                           ELSE GetRecursive(c, GetNodeFromRlp(c, n.stack[key[1]]), Drop(key, 1))

Get(c, h, key) == GetRecursive(c, GetNode(c, h), key)

\* get_account_from_trie walks the table alone; a missing node is "no account".
RECURSIVE FromTable(_, _, _)
FromTable(table, child, key) ==
    LET n == Decode(child.e)
    IN IF \/ child.k = "none"
          \/ child.k = "hash" /\ child.e \notin table
       THEN NoValue
       ELSE CASE n.t = "empty"  -> NoValue
              [] n.t = "leaf"   -> IF n.key = key THEN n.value ELSE NoValue
              [] n.t = "ext"    -> IF StartsWith(key, n.key)
                                   THEN FromTable(table, n.child, Drop(key, Len(n.key)))
                                   ELSE NoValue
              [] n.t = "branch" -> IF key = <<>> THEN n.value
                                   ELSE FromTable(table, n.stack[key[1]], Drop(key, 1))

GetAccountFromTrie(table, h, key) == FromTable(table, Hash(h), key)

\* Mutant of IterateBelow: only hashed children are followed.
RECURSIVE IterateHashed(_, _, _)
IterateHashed(table, child, prefix) ==
    LET n == Decode(child.e)
    IN IF child.k # "hash" THEN {}
       ELSE CASE n.t = "leaf"   -> {<<prefix \o n.key, n.value>>}
              [] n.t = "ext"    -> IterateHashed(table, n.child, prefix \o n.key)
              [] n.t = "branch" ->
                    UNION {IterateHashed(table, n.stack[i], Append(prefix, i)) : i \in Nibbles}

\* iterate_trie: the full-length keys below a root, missing nodes skipped.
RECURSIVE IterateBelow(_, _, _)
IterateBelow(table, child, prefix) ==
    LET n == Decode(child.e)
        Full(key, v) == IF Len(key) = KeyLength THEN {<<key, v>>} ELSE {}
    IN IF \/ child.k = "none"
          \/ child.k = "hash" /\ child.e \notin table
       THEN {}
       ELSE CASE n.t = "empty"  -> {}
              [] n.t = "leaf"   -> Full(prefix \o n.key, n.value)
              [] n.t = "ext"    -> IterateBelow(table, n.child, prefix \o n.key)
              [] n.t = "branch" ->
                    UNION {IterateBelow(table, n.stack[i], Append(prefix, i)) : i \in Nibbles}
                    \cup (IF n.value # NoValue THEN Full(prefix, n.value) ELSE {})

IterateTrie(table, h) ==
    IF h = Empty THEN {} ELSE IterateBelow(table, Hash(h), <<>>)

\* all_entries: the loop over a branch runs to 64 over a stack of 16, so the
\* walk of any branch panics.
Panic == {<<>>}

RECURSIVE WalkRecursive(_, _, _)
WalkRecursive(c, n, path) ==
    CASE n.t = "leaf" -> IF Len(path \o n.key) = KeyLength
                         THEN {<<path \o n.key, n.value>>} ELSE {}
      [] n.t = "ext" -> WalkRecursive(c, GetNodeFromRlp(c, n.child), path \o n.key)
      [] n.t = "branch" -> Panic
      [] n.t = "empty" -> {}
      [] n.t = "missing" -> {Err}

AllEntries(c, h) == IF h = Empty THEN {} ELSE WalkRecursive(c, GetNode(c, h), <<>>)

\* --------------------------------------------------------------- insert

\* Mutant of SplitOff: an extension also over no nibbles.
SplitOffWrapped(prefix, oldKey, oldRef, oldValue, newKey, v, made) ==
    LET new == StoreNodeToRlp(Leaf(Drop(newKey, 1), v), made)
        stack == [i \in Nibbles |->
                    IF oldKey # <<>> /\ i = oldKey[1] THEN oldRef
                    ELSE IF newKey # <<>> /\ i = newKey[1] THEN new.ref
                    ELSE None]
        value == IF oldKey = <<>> THEN oldValue
                 ELSE IF newKey = <<>> THEN v ELSE NoValue
        below == StoreNodeToRlp(Branch(stack, value), new.made)
    IN [node |-> Ext(prefix, below.ref), made |-> below.made]

\* The branch that separates "old" from a new key: old is the node or value
\* already there, with what is left of its key past the common prefix.  The
\* nibbles in common become an extension above it.
SplitOff(prefix, oldKey, oldRef, oldValue, newKey, v, made) ==
    LET new == StoreNodeToRlp(Leaf(Drop(newKey, 1), v), made)
        stack == [i \in Nibbles |->
                    IF oldKey # <<>> /\ i = oldKey[1] THEN oldRef
                    ELSE IF newKey # <<>> /\ i = newKey[1] THEN new.ref
                    ELSE None]
        value == IF oldKey = <<>> THEN oldValue
                 ELSE IF newKey = <<>> THEN v ELSE NoValue
        made1 == IF newKey = <<>> THEN made ELSE new.made
        below == StoreNodeToRlp(Branch(stack, value), made1)
    IN IF prefix = <<>> THEN [node |-> Branch(stack, value), made |-> made1]
       ELSE [node |-> Ext(prefix, below.ref), made |-> below.made]

\* The node rebuilt over a new child, or the error the child returned.
Over(ref, n) == IF ref = Err THEN Missing ELSE n

RECURSIVE InsertRecursive(_, _, _, _)

\* The child by hash keeps a reference by hash, however short it became.
InsertRecursiveRlp(c, child, key, v) ==
    IF child.k = "hash"
    THEN LET r == InsertRecursive(c, GetNode(c, child.e), key, v)
             s == StoreNode(r.node, r.made)
         IN IF r.node = Missing THEN [ref |-> Err, made |-> r.made]
            ELSE [ref |-> Hash(s.hash), made |-> s.made]
    ELSE LET n == GetNodeFromRlp(c, child)
             r == InsertRecursive(c, n, key, v)
             s == StoreNode(r.node, r.made @@ StoreNode(n, Nothing).made)
         IN StoreNodeToRlp(r.node, s.made)

InsertRecursive(c, n, key, v) ==
    CASE n.t = "missing" -> [node |-> Missing, made |-> Nothing]
      [] n.t = "empty" -> [node |-> Leaf(key, v), made |-> Nothing]
      [] n.t = "leaf" ->
           LET common == CommonPrefixLength(key, n.key)
               old == Drop(n.key, common)
               ref == StoreNodeToRlp(Leaf(Drop(old, 1), n.value), Nothing)
           IN IF key = n.key THEN [node |-> Leaf(key, v), made |-> Nothing]
              ELSE IF old = <<>>
              THEN SplitOff(Take(key, common), old, None, n.value, Drop(key, common), v, Nothing)
              ELSE SplitOff(Take(key, common), old, ref.ref, NoValue, Drop(key, common), v, ref.made)
      [] n.t = "ext" ->
           LET common == CommonPrefixLength(key, n.key)
               old == Drop(n.key, common)
               sub == IF Len(old) = 1 THEN [ref |-> n.child, made |-> Nothing]
                      ELSE StoreNodeToRlp(Ext(Drop(old, 1), n.child), Nothing)
               below == InsertRecursiveRlp(c, n.child, Drop(key, common), v)
           IN IF old = <<>> THEN [node |-> Over(below.ref, Ext(n.key, below.ref)),
                                  made |-> below.made]
              ELSE SplitOff(Take(key, common), old, sub.ref, NoValue, Drop(key, common), v, sub.made)
      [] n.t = "branch" ->
           IF key = <<>> THEN [node |-> Branch(n.stack, v), made |-> Nothing]
           ELSE LET below == InsertRecursiveRlp(c, n.stack[key[1]], Drop(key, 1), v)
                IN [node |-> Over(below.ref,
                                Branch([n.stack EXCEPT ![key[1]] = below.ref], n.value)),
                    made |-> below.made]

\* --------------------------------------------------------------- delete

\* Mutant of CollapseBranch: the remaining child loses its nibble.
CollapseBranchShort(c, stack, value) ==
    LET used == {i \in Nibbles : stack[i] # None}
    IN IF Cardinality(used) = 1 /\ value = NoValue
       THEN GetNodeFromRlp(c, stack[CHOOSE j \in used : TRUE])
       ELSE IF used = {} /\ value = NoValue THEN Empty ELSE Branch(stack, value)

\* "Check if branch can be collapsed": an embedded EmptyRoot counts as a child.
CollapseBranch(c, stack, value) ==
    LET used == {i \in Nibbles : stack[i] # None}
        i == CHOOSE j \in used : TRUE
        n == GetNodeFromRlp(c, stack[i])
    IN IF used = {} /\ value = NoValue THEN Empty
       ELSE IF Cardinality(used) = 1 /\ value = NoValue
       THEN CASE n.t = "leaf"   -> Leaf(<<i>> \o n.key, n.value)
              [] n.t = "ext"    -> Ext(<<i>> \o n.key, n.child)
              [] n.t = "branch" -> Ext(<<i>>, stack[i])
              [] n.t = "empty"  -> Branch(stack, value)
              [] n.t = "missing" -> Missing
       ELSE Branch(stack, value)

\* "Collapse extension": only a child extension is merged.
CollapseExtension(c, key, child) ==
    LET n == GetNodeFromRlp(c, child)
    IN CASE child = None -> Empty
         [] child # None /\ n.t = "ext" -> Ext(key \o n.key, n.child)
         [] child # None /\ n.t = "missing" -> Missing
         [] OTHER -> Ext(key, child)

RECURSIVE DeleteRecursiveNode(_, _, _)

DeleteRecursiveRlp(c, child, key) ==
    CASE child.k = "none" -> [ref |-> None, made |-> Nothing]
      [] child.k = "hash" ->
           LET r == DeleteRecursiveNode(c, GetNode(c, child.e), key)
               s == StoreNode(r.node, r.made)
           IN IF r.node = Empty THEN [ref |-> None, made |-> r.made]
              ELSE IF r.node = Missing THEN [ref |-> Err, made |-> r.made]
              ELSE [ref |-> Hash(s.hash), made |-> s.made]
      [] child.k = "raw" ->
           LET r == DeleteRecursiveNode(c, Decode(child.e), key)
           IN StoreNodeToRlp(r.node, r.made)

DeleteRecursiveNode(c, n, key) ==
    CASE n.t \in {"empty", "missing"} -> [node |-> n, made |-> Nothing]
      [] n.t = "leaf" -> [node |-> IF n.key = key THEN Empty ELSE n, made |-> Nothing]
      [] n.t = "ext" ->
           LET below == DeleteRecursiveRlp(c, n.child, Drop(key, Len(n.key)))
           IN IF ~StartsWith(key, n.key) THEN [node |-> n, made |-> Nothing]
              ELSE [node |-> Over(below.ref,
                                CollapseExtension(below.made @@ c, n.key, below.ref)),
                    made |-> below.made]
      [] n.t = "branch" ->
           LET below == DeleteRecursiveRlp(c, n.stack[key[1]], Drop(key, 1))
           IN IF key = <<>>
              THEN [node |-> CollapseBranch(c, n.stack, NoValue), made |-> Nothing]
              ELSE [node |-> Over(below.ref, CollapseBranch(below.made @@ c,
                                [n.stack EXCEPT ![key[1]] = below.ref], n.value)),
                    made |-> below.made]

\* -------------------------------------------------------------- actions

NoContent == [k \in Keys |-> NoValue]

\* EthTrie::new on an empty database.
Init ==
    /\ root = Empty
    /\ cache = Nothing
    /\ dirty = {}
    /\ nodes = {}
    /\ content = NoContent
    /\ built = TRUE
    /\ roots = {[root |-> Empty, content |-> NoContent, built |-> TRUE]}
    /\ ops = 0

\* The result of an operation becomes the root and its nodes cached and dirty;
\* an error leaves the root.
Apply(node, made) ==
    LET s == CASE node = Empty   -> [hash |-> Empty, made |-> made]
               [] node = Missing -> [hash |-> root, made |-> made]
               [] OTHER          -> StoreNode(node, made)
    IN /\ root' = s.hash
       /\ cache' = s.made @@ cache
       /\ dirty' = dirty \cup DOMAIN s.made

Insert(k, v) ==
    LET r == InsertRecursive(cache, GetNode(cache, root), k, v)
    IN /\ ops < MaxOps
       /\ Apply(r.node, r.made)
       /\ content' = [content EXCEPT ![k] = v]
       /\ built' = (built /\ ~(content[k] \in Long /\ v \notin Long))
       /\ ops' = ops + 1
       /\ UNCHANGED <<nodes, roots>>

Delete(k) ==
    LET r == DeleteRecursiveNode(cache, GetNode(cache, root), k)
    IN /\ ops < MaxOps
       /\ Apply(r.node, r.made)
       /\ content' = [content EXCEPT ![k] = NoValue]
       /\ built' = (built /\ content[k] = NoValue)
       /\ ops' = ops + 1
       /\ UNCHANGED <<nodes, roots>>

\* commit drains the dirty nodes into the TrieNodes table.
Commit ==
    /\ dirty # {}
    /\ nodes' = nodes \cup dirty
    /\ dirty' = {}
    /\ roots' = roots \cup {[root |-> root, content |-> content, built |-> built]}
    /\ UNCHANGED <<root, cache, content, built, ops>>

\* EthTrie::new on a committed root; what was not committed is dropped.
Open(r) ==
    /\ ops < MaxOps
    /\ root' = r.root
    /\ cache' = Nothing
    /\ dirty' = {}
    /\ content' = r.content
    /\ built' = r.built
    /\ ops' = ops + 1
    /\ UNCHANGED <<nodes, roots>>

Next ==
    \/ \E k \in Keys : \E v \in Values[k] : Insert(k, v)
    \/ \E k \in Keys : Delete(k)
    \/ Commit
    \/ \E r \in roots : Open(r)

Spec == Init /\ [][Next]_vars
=============================================================================
