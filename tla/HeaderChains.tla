---------------------------- MODULE HeaderChains ----------------------------
(***************************************************************************)
(* Facts about header chains that the import path, forkchoice and          *)
(* synchronisation rest on, for any set H of blocks with a genesis g, a parent function    *)
(* and the chain path[b] of every block down to genesis.                   *)
(***************************************************************************)
EXTENDS Integers, Sequences, WellFoundedInduction, TLAPS

IsChain(H, g, parent, path) ==
    /\ g \in H /\ parent \in [H -> H] /\ path \in [H -> Seq(H)]
    /\ \A b \in H : path[b] = IF b = g THEN <<b>> ELSE <<b>> \o path[parent[b]]

-----------------------------------------------------------------------------
(* Induction over the naturals, with a set in the place of a predicate,    *)
(* and prefixes of lists.                                                  *)

\* A set of naturals that is not empty has a least element.
LEMMA LeastElement ==
    ASSUME NEW T, T \subseteq Nat, T # {}
    PROVE  \E x \in T : \A y \in T : x <= y
  <1>1. PICK x \in T : \A y \in T : ~(<<y, x>> \in OpToRel(<, Nat))
    BY NatLessThanWellFounded, WFMin, Zenon
  <1>2. \A y \in T : y < x => <<y, x>> \in OpToRel(<, Nat)
    BY Zenon DEF OpToRel
  <1>3. \A y \in T : ~(y < x)
    BY <1>1, <1>2, Zenon
  <1> QED
    BY <1>3

\* A set with 1 and with every successor has all positive numbers.
LEMMA InductionFromOne ==
    ASSUME NEW T, 1 \in T, \A n \in Nat \ {0} : n \in T => n + 1 \in T
    PROVE  \A n \in Nat \ {0} : n \in T
  <1> DEFINE rest == (Nat \ {0}) \ T
  <1> SUFFICES ASSUME rest # {} PROVE FALSE
    BY Zenon
  <1>1. PICK x \in rest : \A y \in rest : x <= y
    BY LeastElement, Zenon
  <1>2. x - 1 \in Nat \ {0}
    BY <1>1
  <1>3. x - 1 \in T
    BY <1>1, <1>2
  <1> QED
    BY <1>1, <1>2, <1>3

\* The first k elements of a list.
LEMMA Prefix ==
    ASSUME NEW S, NEW q \in Seq(S), NEW k \in 0 .. Len(q)
    PROVE  /\ SubSeq(q, 1, k) \in Seq(S) /\ Len(SubSeq(q, 1, k)) = k
           /\ \A i \in 1 .. k : SubSeq(q, 1, k)[i] = q[i]
           /\ k = 0 => SubSeq(q, 1, k) = <<>>
           /\ k # 0 => SubSeq(q, 1, k) # <<>>
  <1> DEFINE p == SubSeq(q, 1, k)
  <1>1. Len(q) \in Nat /\ k \in Nat /\ \A i \in 1 .. k : q[i] \in S
    OBVIOUS
  <1>2. p \in Seq(S)
    BY <1>1
  <1>3. Len(p) = IF 1 <= k THEN k - 1 + 1 ELSE 0
    BY <1>1
  <1>4. \A i \in 1 .. k : p[i] = q[i]
    BY <1>1
  <1>5. \A n \in Nat : (IF 1 <= n THEN n - 1 + 1 ELSE 0) = n
    OBVIOUS
  <1>6. Len(p) = k
    BY <1>1, <1>3, <1>5, Zenon
  <1> HIDE DEF p
  <1>7. (k = 0 => p = <<>>) /\ (k # 0 => p # <<>>)
    BY <1>1, <1>2, <1>6
  <1> QED
    BY <1>2, <1>4, <1>6, <1>7, Zenon DEF p

\* One element less of a prefix.
LEMMA PrefixShorter ==
    ASSUME NEW S, NEW q \in Seq(S), NEW k \in 1 .. Len(q)
    PROVE  SubSeq(SubSeq(q, 1, k), 1, k - 1) = SubSeq(q, 1, k - 1)
  <1> DEFINE p == SubSeq(q, 1, k)
             l == SubSeq(p, 1, k - 1)
             r == SubSeq(q, 1, k - 1)
  <1>1. Len(q) \in Nat /\ k \in Nat
    OBVIOUS
  <1>2. k \in 0 .. Len(q) /\ k - 1 \in 0 .. Len(q) /\ k - 1 \in 0 .. k
    BY <1>1
  <1>3. p \in Seq(S) /\ Len(p) = k /\ \A i \in 1 .. k : p[i] = q[i]
    BY <1>2, Prefix
  <1>4. r \in Seq(S) /\ Len(r) = k - 1 /\ \A i \in 1 .. k - 1 : r[i] = q[i]
    BY <1>2, Prefix
  <1> HIDE DEF p
  <1>5. l \in Seq(S) /\ Len(l) = k - 1 /\ \A i \in 1 .. k - 1 : l[i] = p[i]
    BY <1>2, <1>3, Prefix
  <1>6. \A i \in 1 .. k - 1 : l[i] = r[i]
    BY <1>1, <1>3, <1>4, <1>5
  <1> HIDE DEF l, r
  <1>7. l = r
    BY <1>4, <1>5, <1>6
  <1> QED
    BY <1>7, Zenon DEF l, r, p

-----------------------------------------------------------------------------
(* Chains, position by position.                                           *)

\* The chain of genesis is genesis.
LEMMA ChainGenesis ==
    ASSUME NEW H, NEW g, NEW parent, NEW path, IsChain(H, g, parent, path)
    PROVE  path[g] = <<g>> /\ Len(path[g]) = 1
  <1>1. path[g] = <<g>>
    BY Zenon DEF IsChain
  <1> QED
    BY <1>1, Zenon

\* A chain starts with its block.
LEMMA ChainHead ==
    ASSUME NEW H, NEW g, NEW parent, NEW path, IsChain(H, g, parent, path), NEW b \in H
    PROVE  path[b] \in Seq(H) /\ Len(path[b]) \in Nat \ {0} /\ path[b][1] = b
  <1>1. CASE b = g
    <2>1. path[b] = <<b>>
      BY <1>1, ChainGenesis, Zenon
    <2> QED
      BY <2>1
  <1>2. CASE b # g
    <2> DEFINE q == path[parent[b]]
    <2>1. q \in Seq(H) /\ path[b] \in Seq(H) /\ path[b] = <<b>> \o q
      BY <1>2, Zenon DEF IsChain
    <2> HIDE DEF q
    <2> QED
      BY <2>1
  <1> QED
    BY <1>1, <1>2, Zenon

\* It goes on with the chain of the parent.
LEMMA ChainTail ==
    ASSUME NEW H, NEW g, NEW parent, NEW path, IsChain(H, g, parent, path), NEW b \in H, b # g
    PROVE  /\ parent[b] \in H /\ path[parent[b]] \in Seq(H)
           /\ Len(path[b]) = Len(path[parent[b]]) + 1
           /\ \A i \in 1 .. Len(path[parent[b]]) : path[b][i + 1] = path[parent[b]][i]
  <1> DEFINE q == path[parent[b]]
  <1>1. parent[b] \in H /\ q \in Seq(H) /\ path[b] = <<b>> \o q
    BY Zenon DEF IsChain
  <1> HIDE DEF q
  <1>2. Len(path[b]) = Len(q) + 1 /\ \A i \in 1 .. Len(q) : path[b][i + 1] = q[i]
    BY <1>1
  <1> QED
    BY <1>1, <1>2, Zenon DEF q

\* What holds of a block and passes on to parents holds along its chain.
LEMMA ChainClosed ==
    ASSUME NEW H, NEW g, NEW parent, NEW path, IsChain(H, g, parent, path),
           NEW S, S \subseteq H, \A x \in S : x # g => parent[x] \in S, NEW b \in S
    PROVE  \A i \in DOMAIN path[b] : path[b][i] \in S
  <1> DEFINE T == {n \in Nat : \A x \in S : n \in 1 .. Len(path[x]) => path[x][n] \in S}
  <1>1. 1 \in T
    BY ChainHead
  <1>2. ASSUME NEW n \in Nat \ {0}, n \in T PROVE n + 1 \in T
    <2> SUFFICES ASSUME NEW x \in S, n + 1 \in 1 .. Len(path[x]) PROVE path[x][n + 1] \in S
      BY <1>2
    <2>1. CASE x = g
      <3>1. Len(path[x]) = 1
        BY <2>1, ChainGenesis, Zenon
      <3> QED
        BY <1>2, <3>1
    <2>2. CASE x # g
      <3>1. /\ parent[x] \in S /\ Len(path[x]) = Len(path[parent[x]]) + 1
            /\ path[parent[x]] \in Seq(H)
            /\ \A i \in 1 .. Len(path[parent[x]]) : path[x][i + 1] = path[parent[x]][i]
        BY <2>2, ChainTail
      <3>2. n \in 1 .. Len(path[parent[x]])
        BY <1>2, <3>1
      <3>3. path[parent[x]][n] \in S
        BY <1>2, <3>1, <3>2, Zenon
      <3> QED
        BY <3>1, <3>2, <3>3, Zenon
    <2> QED
      BY <2>1, <2>2, Zenon
  <1>3. \A n \in Nat \ {0} : n \in T
    <2> HIDE DEF T
    <2> QED
      BY <1>1, <1>2, InductionFromOne, Zenon
  <1>4. path[b] \in Seq(H)
    BY ChainHead, Zenon
  <1>5. \A i \in DOMAIN path[b] : i \in Nat \ {0} /\ i \in 1 .. Len(path[b])
    BY <1>4
  <1> QED
    BY <1>3, <1>5, Zenon

\* Each block of a chain but the last is followed by its parent.
LEMMA ChainParent ==
    ASSUME NEW H, NEW g, NEW parent, NEW path, IsChain(H, g, parent, path),
           NEW b \in H, NEW i \in 1 .. Len(path[b]) - 1
    PROVE  /\ path[b][i] \in H /\ path[b][i] # g
           /\ parent[path[b][i]] = path[b][i + 1]
  <1> DEFINE Good(x, n) == path[x][n] \in H /\ path[x][n] # g
                           /\ parent[path[x][n]] = path[x][n + 1]
             T == {n \in Nat : \A x \in H : n < Len(path[x]) => Good(x, n)}
  <1>1. 1 \in T
    <2> SUFFICES ASSUME NEW x \in H, 1 < Len(path[x]) PROVE Good(x, 1)
      BY Zenon
    <2>1. x # g
      <3>1. Len(path[x]) \in Nat
        BY ChainHead, Zenon
      <3>2. ASSUME NEW m \in Nat, 1 < m PROVE m # 1
        BY <3>2
      <3> QED
        BY Zenon, <3>1, <3>2, ChainGenesis
    <2>2. path[x][1] = x /\ Len(path[x]) \in Nat
      BY ChainHead
    <2>3. path[x][2] = path[parent[x]][1] /\ path[parent[x]][1] = parent[x]
      BY <2>1, <2>2, ChainTail, ChainHead
    <2> QED
      BY <2>1, <2>2, <2>3
  <1>2. ASSUME NEW n \in Nat \ {0}, n \in T PROVE n + 1 \in T
    <2> SUFFICES ASSUME NEW x \in H, n + 1 < Len(path[x]) PROVE Good(x, n + 1)
      BY <1>2
    <2>1. x # g
      <3>1. x = g => Len(path[x]) = 1
        BY ChainGenesis, Zenon
      <3> QED
        BY <1>2, <3>1
    <2>2. /\ parent[x] \in H /\ Len(path[x]) = Len(path[parent[x]]) + 1
          /\ Len(path[parent[x]]) \in Nat
          /\ \A j \in 1 .. Len(path[parent[x]]) : path[x][j + 1] = path[parent[x]][j]
      BY <2>1, ChainTail, ChainHead
    <2>3. n < Len(path[parent[x]])
      BY <1>2, <2>2
    <2>4. Good(parent[x], n)
      BY <1>2, <2>2, <2>3, Zenon
    <2>5. n \in 1 .. Len(path[parent[x]]) /\ n + 1 \in 1 .. Len(path[parent[x]])
      BY <1>2, <2>2, <2>3
    <2>6. path[x][n + 1] = path[parent[x]][n] /\ path[x][n + 1 + 1] = path[parent[x]][n + 1]
      BY <2>2, <2>5, Zenon
    <2> QED
      BY <2>4, <2>6, Zenon
  <1>3. \A n \in Nat \ {0} : n \in T
    <2> HIDE DEF T
    <2> QED
      BY <1>1, <1>2, InductionFromOne, Zenon
  <1>4. Len(path[b]) \in Nat
    BY ChainHead, Zenon
  <1>5. i \in Nat \ {0} /\ i < Len(path[b])
    BY <1>4
  <1> QED
    BY <1>3, <1>5, Zenon

-----------------------------------------------------------------------------
(* The blocks on the chain of b.                                           *)

Ancestors(path, b) == {path[b][i] : i \in DOMAIN path[b]}

\* A block and the ancestors of its parent.
LEMMA AncestorsStep ==
    ASSUME NEW H, NEW g, NEW parent, NEW path, IsChain(H, g, parent, path), NEW b \in H
    PROVE  /\ b \in Ancestors(path, b) /\ Ancestors(path, b) \subseteq H
           /\ b # g => parent[b] \in H /\ Ancestors(path, b) = {b} \cup Ancestors(path, parent[b])
  <1>1. path[b] \in Seq(H) /\ Len(path[b]) \in Nat \ {0} /\ path[b][1] = b
    BY ChainHead
  <1>2. ASSUME NEW c \in H PROVE Ancestors(path, c) = {path[c][i] : i \in 1 .. Len(path[c])}
    <2>1. path[c] \in Seq(H)
      BY ChainHead, Zenon
    <2> QED
      BY <2>1 DEF Ancestors
  <1>3. b \in Ancestors(path, b) /\ Ancestors(path, b) \subseteq H
    BY <1>1, <1>2
  <1>4. ASSUME b # g
        PROVE  parent[b] \in H /\ Ancestors(path, b) = {b} \cup Ancestors(path, parent[b])
    <2> DEFINE n == Len(path[parent[b]])
    <2>1. /\ parent[b] \in H /\ path[parent[b]] \in Seq(H) /\ Len(path[b]) = n + 1
          /\ \A i \in 1 .. n : path[b][i + 1] = path[parent[b]][i]
      BY <1>4, ChainTail
    <2>2. Ancestors(path, parent[b]) = {path[parent[b]][i] : i \in 1 .. n}
      BY <1>2, <2>1, Zenon
    <2>3. n \in Nat
      BY <2>1
    <2>4. ASSUME NEW i \in 1 .. n + 1 PROVE path[b][i] \in {b} \cup Ancestors(path, parent[b])
      <3>1. CASE i = 1
        BY <1>1, <3>1, Zenon
      <3>2. CASE i # 1
        <4>1. i - 1 \in 1 .. n /\ (i - 1) + 1 = i
          BY <2>3, <3>2
        <4>2. path[b][i] = path[parent[b]][i - 1]
          BY <2>1, <4>1, Zenon
        <4> QED
          BY <2>2, <4>1, <4>2, Zenon
      <3> QED
        BY <3>1, <3>2, Zenon
    <2>5. ASSUME NEW i \in 1 .. n PROVE path[parent[b]][i] \in Ancestors(path, b)
      <3>1. i + 1 \in 1 .. Len(path[b]) /\ path[b][i + 1] = path[parent[b]][i]
        BY <2>1, <2>3
      <3> QED
        BY <1>2, <3>1, Zenon
    <2>6. Ancestors(path, b) = {path[b][i] : i \in 1 .. n + 1}
      BY <1>2, <2>1, Zenon
    <2> HIDE DEF n
    <2>7. Ancestors(path, b) \subseteq {b} \cup Ancestors(path, parent[b])
      BY <2>4, <2>6, Zenon
    <2>8. {b} \cup Ancestors(path, parent[b]) \subseteq Ancestors(path, b)
      BY <1>3, <2>2, <2>5, Zenon
    <2> QED
      BY <2>1, <2>7, <2>8, Zenon
  <1> QED
    BY <1>3, <1>4, Zenon

\* Induction along the ancestors of a block.
LEMMA AncestorsClosed ==
    ASSUME NEW H, NEW g, NEW parent, NEW path, IsChain(H, g, parent, path),
           NEW S, S \subseteq H, \A x \in S : x # g => parent[x] \in S, NEW b \in S
    PROVE  Ancestors(path, b) \subseteq S
  <1>1. \A i \in DOMAIN path[b] : path[b][i] \in S
    BY ChainClosed, Zenon
  <1> QED
    BY <1>1, Zenon DEF Ancestors

\* An ancestor's ancestors.
LEMMA AncestorsTransitive ==
    ASSUME NEW H, NEW g, NEW parent, NEW path, IsChain(H, g, parent, path),
           NEW b \in H, NEW x \in Ancestors(path, b)
    PROVE  x \in H /\ Ancestors(path, x) \subseteq Ancestors(path, b)
  <1> DEFINE S == {y \in H : Ancestors(path, y) \subseteq Ancestors(path, b)}
  <1>1. \A y \in S : y # g => parent[y] \in S
    BY AncestorsStep
  <1>2. S \subseteq H /\ b \in S
    BY Zenon
  <1> HIDE DEF S
  <1>3. x \in S
    BY <1>1, <1>2, AncestorsClosed
  <1> QED
    BY <1>3, Zenon DEF S

\* Of two ancestors of a block one is an ancestor of the other.
LEMMA AncestorsLinear ==
    ASSUME NEW H, NEW g, NEW parent, NEW path, IsChain(H, g, parent, path),
           NEW b \in H, NEW x \in Ancestors(path, b), NEW y \in Ancestors(path, b)
    PROVE  x \in Ancestors(path, y) \/ y \in Ancestors(path, x)
  <1> DEFINE S == {z \in H : x \in Ancestors(path, z) \/ z \in Ancestors(path, x)}
  <1>0. x \in H
    BY AncestorsTransitive, Zenon
  <1>1. ASSUME NEW z \in S, z # g PROVE parent[z] \in S
    <2>1. /\ parent[z] \in H /\ Ancestors(path, z) = {z} \cup Ancestors(path, parent[z])
          /\ parent[z] \in Ancestors(path, parent[z])
      BY <1>1, AncestorsStep
    <2>2. CASE x \in Ancestors(path, z) /\ x # z
      BY <2>1, <2>2, Zenon
    <2>3. CASE z \in Ancestors(path, x)
      <3>1. Ancestors(path, z) \subseteq Ancestors(path, x)
        BY <1>0, <2>3, AncestorsTransitive, Zenon
      <3> QED
        BY <2>1, <3>1, Zenon
    <2>4. CASE x = z
      BY <2>1, <2>4, Zenon
    <2> QED
      BY <2>2, <2>3, <2>4, Zenon
  <1>2. S \subseteq H /\ b \in S
    BY Zenon
  <1> HIDE DEF S
  <1>3. y \in S
    BY <1>1, <1>2, AncestorsClosed
  <1> QED
    BY <1>3, Zenon DEF S

\* Every chain ends in genesis: from the last block it cannot go on.
LEMMA AncestorsGenesis ==
    ASSUME NEW H, NEW g, NEW parent, NEW path, IsChain(H, g, parent, path), NEW b \in H
    PROVE  g \in Ancestors(path, b)
  <1> DEFINE T == {n \in Nat : \A x \in H : Len(path[x]) = n => g \in Ancestors(path, x)}
  <1>1. ASSUME NEW x \in H, x = g \/ g \in Ancestors(path, parent[x]) PROVE g \in Ancestors(path, x)
    BY <1>1, AncestorsStep
  <1>2. ASSUME NEW x \in H, x # g
        PROVE  /\ parent[x] \in H /\ Len(path[x]) = Len(path[parent[x]]) + 1
               /\ Len(path[parent[x]]) \in Nat \ {0}
    <2>1. parent[x] \in H /\ Len(path[x]) = Len(path[parent[x]]) + 1
      BY <1>2, ChainTail
    <2> QED
      BY <2>1, ChainHead, Zenon
  <1>3. 1 \in T
    <2> SUFFICES ASSUME NEW x \in H, Len(path[x]) = 1 PROVE x = g
      BY <1>1, Zenon
    <2>1. CASE x # g
      <3>1. \A m \in Nat \ {0} : m + 1 # 1
        OBVIOUS
      <3> QED
        BY <1>2, <2>1, <3>1, Zenon
    <2> QED
      BY <2>1, Zenon
  <1>4. ASSUME NEW n \in Nat \ {0}, n \in T PROVE n + 1 \in T
    <2> SUFFICES ASSUME NEW x \in H, Len(path[x]) = n + 1, x # g PROVE g \in Ancestors(path, x)
      BY <1>1, <1>4
    <2>1. /\ parent[x] \in H /\ Len(path[x]) = Len(path[parent[x]]) + 1
          /\ Len(path[parent[x]]) \in Nat \ {0}
      BY <1>2, Zenon
    <2>2. \A m \in Nat \ {0} : m + 1 = n + 1 => m = n
      BY <1>4
    <2>3. Len(path[parent[x]]) = n
      BY <2>1, <2>2, Zenon
    <2> QED
      BY <1>1, <1>4, <2>1, <2>3, Zenon
  <1>5. \A n \in Nat \ {0} : n \in T
    <2> HIDE DEF T
    <2> QED
      BY <1>3, <1>4, InductionFromOne, Zenon
  <1>6. Len(path[b]) \in Nat \ {0}
    BY ChainHead, Zenon
  <1> QED
    BY <1>5, <1>6, Zenon
=============================================================================
