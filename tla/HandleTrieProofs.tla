-------------------------- MODULE HandleTrieProofs --------------------------
(***************************************************************************)
(* Proofs about HandleTrie, for any alphabet, any key size, any keys and    *)
(* any number of threads.                                                   *)
(*                                                                          *)
(* 1. The names of nodes and their prefixes.                                *)
(* 2. What holds of the tree as it is (TreeOK), for two functions that      *)
(*    stand for children and suffix_start, and that both changes to the     *)
(*    tree, a new leaf and a leaf pushed down by a new internal node, keep  *)
(*    it.  A split is a push followed by a new leaf.                        *)
(* 3. The places of the threads in the tree, and who holds which mutex      *)
(*    (Inv), which is inductive: TypeOK and PathsIntact.                    *)
(* 4. The refinement of AbstractHandleTrie.                                 *)
(* 5. The order in which a traversal visits the leaves (Ordered).           *)
(***************************************************************************)
EXTENDS HandleTrie, FiniteSetTheorems, SequenceTheorems, TLAPS
-----------------------------------------------------------------------------
(* Names of nodes *)

\* Letter by letter: the length and the letters of a node's name.
LEMMA NodeIsSeq ==
    \A n \in Nodes : /\ n \in Seq(Letters)
                     /\ Len(n) \in 0..key_size
                     /\ n \in [1..Len(n) -> Letters]
<1> SUFFICES ASSUME NEW n \in Nodes
             PROVE  n \in Seq(Letters) /\ Len(n) \in 0..key_size /\ n \in [1..Len(n) -> Letters]
    OBVIOUS
<1>1. PICK d \in 0..key_size : n \in [1..d -> Letters]  BY DEF Nodes
<1>2. d \in Nat  BY SizeAssumption
<1>3. n \in Seq(Letters)  BY <1>1, <1>2, SeqDef
<1>4. Len(n) = d  BY <1>1, <1>2, <1>3, LenProperties
<1> QED  BY <1>1, <1>3, <1>4

LEMMA SeqIsNode ==
    \A s \in Seq(Letters) : Len(s) <= key_size => s \in Nodes
<1> SUFFICES ASSUME NEW s \in Seq(Letters), Len(s) <= key_size
             PROVE  s \in Nodes
    OBVIOUS
<1>1. Len(s) \in Nat /\ s \in [1..Len(s) -> Letters]  BY LenProperties
<1>2. Len(s) \in 0..key_size  BY <1>1, SizeAssumption
<1> QED  BY <1>1, <1>2 DEF Nodes

LEMMA KeyIsNode ==
    \A k \in Keys : k \in Nodes /\ Len(k) = key_size
<1> SUFFICES ASSUME NEW k \in Keys
             PROVE  k \in Nodes /\ Len(k) = key_size
    OBVIOUS
<1>1. key_size \in Nat /\ k \in [1..key_size -> Letters]  BY SizeAssumption DEF Keys
<1>2. k \in Seq(Letters)  BY <1>1, SeqDef
<1>3. Len(k) = key_size  BY <1>1, <1>2, LenProperties
<1> QED  BY <1>1, <1>2, <1>3, SeqIsNode

LEMMA LongNodeIsKey ==
    \A n \in Nodes : Len(n) = key_size => n \in Keys
BY NodeIsSeq DEF Keys

LEMMA RootIsNode == root \in Nodes /\ Len(root) = 0 /\ root \notin Keys
<1>1. root \in Seq(Letters) /\ Len(root) = 0  BY EmptySeq DEF root
<1>2. 0 <= key_size /\ key_size # 0  BY SizeAssumption
<1>3. Len(root) <= key_size  BY <1>1, <1>2
<1>4. root \in Nodes  BY <1>1, <1>3, SeqIsNode, Zenon
<1>5. root \notin Keys  BY <1>1, <1>2, KeyIsNode
<1> QED  BY <1>1, <1>4, <1>5

\* Two nodes with the same letters are the same node.
LEMMA SameLetters ==
    ASSUME NEW n \in Nodes, NEW m \in Nodes, Len(n) = Len(m),
           \A i \in 1..Len(n) : n[i] = m[i]
    PROVE  n = m
BY NodeIsSeq, SeqEqual

LEMMA PrefixProperties ==
    ASSUME NEW n \in Nodes, NEW d \in 0..Len(n)
    PROVE  /\ Prefix(n, d) \in Nodes
           /\ Len(Prefix(n, d)) = d
           /\ \A i \in 1..d : Prefix(n, d)[i] = n[i]
<1>1. n \in Seq(Letters) /\ Len(n) \in 0..key_size /\ d \in Int /\ d <= key_size
    BY NodeIsSeq, SizeAssumption
<1>2. \A i \in 1..d : n[i] \in Letters  BY <1>1, NodeIsSeq
<1>3. /\ SubSeq(n, 1, d) \in Seq(Letters)
      /\ Len(SubSeq(n, 1, d)) = IF 1 <= d THEN d - 1 + 1 ELSE 0
      /\ \A i \in 1..(d - 1 + 1) : SubSeq(n, 1, d)[i] = n[1 + i - 1]
    BY <1>1, <1>2, SubSeqProperties
<1>4. Len(SubSeq(n, 1, d)) = d  BY <1>1, <1>3
<1>5. \A i \in 1..d : SubSeq(n, 1, d)[i] = n[i]  BY <1>1, <1>3
<1> QED  BY <1>1, <1>3, <1>4, <1>5, SeqIsNode DEF Prefix

\* Two nodes have the same prefix when they have the same first letters.
LEMMA SamePrefix ==
    ASSUME NEW n \in Nodes, NEW m \in Nodes, NEW d \in 0..Len(n), d <= Len(m)
    PROVE  Prefix(n, d) = Prefix(m, d) <=> \A i \in 1..d : n[i] = m[i]
<1>1. d \in 0..Len(m)  BY NodeIsSeq
<1>2. /\ Prefix(n, d) \in Nodes /\ Len(Prefix(n, d)) = d
      /\ \A i \in 1..d : Prefix(n, d)[i] = n[i]
    BY PrefixProperties
<1>3. /\ Prefix(m, d) \in Nodes /\ Len(Prefix(m, d)) = d
      /\ \A i \in 1..d : Prefix(m, d)[i] = m[i]
    BY <1>1, PrefixProperties
<1>4. ASSUME \A i \in 1..d : n[i] = m[i]  PROVE Prefix(n, d) = Prefix(m, d)
    BY <1>2, <1>3, <1>4, SameLetters
<1> QED  BY <1>2, <1>3, <1>4

LEMMA PrefixWhole ==
    \A n \in Nodes : Prefix(n, Len(n)) = n /\ Prefix(n, 0) = root
<1> SUFFICES ASSUME NEW n \in Nodes
             PROVE  Prefix(n, Len(n)) = n /\ Prefix(n, 0) = root
    OBVIOUS
<1>1. Len(n) \in Nat  BY NodeIsSeq, SizeAssumption
<1>2. Prefix(n, Len(n)) = n
    BY <1>1, PrefixProperties, SameLetters
<1>3. Prefix(n, 0) = root
    BY <1>1, PrefixProperties, RootIsNode, SameLetters
<1> QED  BY <1>2, <1>3

LEMMA PrefixOfPrefix ==
    ASSUME NEW n \in Nodes, NEW e \in 0..Len(n), NEW d \in 0..e
    PROVE  Prefix(Prefix(n, e), d) = Prefix(n, d)
<1>1. Len(n) \in Nat /\ d \in 0..Len(n) /\ d \in Nat  BY NodeIsSeq, SizeAssumption
<1>2. /\ Prefix(n, e) \in Nodes /\ Len(Prefix(n, e)) = e
      /\ \A i \in 1..e : Prefix(n, e)[i] = n[i]
    BY PrefixProperties
<1>3. \A i \in 1..d : Prefix(n, e)[i] = n[i]  BY <1>1, <1>2
<1> QED  BY <1>1, <1>2, <1>3, SamePrefix

\* One more letter: a common prefix grows by a common letter.
LEMMA PrefixGrows ==
    ASSUME NEW n \in Nodes, NEW m \in Nodes,
           NEW d \in Nat, d < Len(n), d < Len(m), Prefix(n, d) = Prefix(m, d)
    PROVE  Prefix(n, d + 1) = Prefix(m, d + 1) <=> n[d + 1] = m[d + 1]
<1>1. Len(n) \in Nat /\ Len(m) \in Nat  BY NodeIsSeq, SizeAssumption
<1>2. \A i \in 1..d : n[i] = m[i]  BY <1>1, SamePrefix
<1>3. Prefix(n, d + 1) = Prefix(m, d + 1) <=> \A i \in 1..(d + 1) : n[i] = m[i]
    BY <1>1, SamePrefix
<1> QED  BY <1>1, <1>2, <1>3

\* Two keys that differ, differ after their common prefix.
LEMMA KeysDiffer ==
    ASSUME NEW k \in Keys, NEW m \in Keys, NEW d \in 0..key_size,
           Prefix(k, d) = Prefix(m, d), k # m
    PROVE  d < key_size
BY KeyIsNode, PrefixWhole, SizeAssumption
-----------------------------------------------------------------------------
(* The tree, ch standing for children and ss for suffix_start *)

\* The internal nodes in use.
Inner(ch, n) == n = root \/ \E c \in Letters : ch[n][c] # NULL

\* The first d letters of n lead from the root to its prefix of length d.
Chain(ch, n, d) == \A i \in 1..d : ch[Prefix(n, i - 1)][n[i]] = Prefix(n, i)

TreeTypes(ch, ss) ==
    /\ ch \in [Nodes -> [Letters -> Nodes \cup {NULL}]]
    /\ ss \in [Nodes -> 0..key_size]

\* A leaf is a whole key, and the letters up to its suffix lead to it.
LeafOK(ch, ss, n) ==
    /\ n \in Keys
    /\ Chain(ch, n, ss[n] - 1)
    /\ ch[Prefix(n, ss[n] - 1)][n[ss[n]]] = n

\* The child m of n for the letter c goes on where n ends.
ChildOK(ch, ss, n, c, m) ==
    /\ Len(n) < Len(m)
    /\ Prefix(m, Len(n)) = n
    /\ m[Len(n) + 1] = c
    /\ IF ss[m] > 0
       THEN ss[m] = Len(n) + 1
       ELSE Inner(ch, m) /\ Len(m) = Len(n) + 1

TreeOK(ch, ss) ==
    /\ TreeTypes(ch, ss)
    /\ \A n \in Nodes : ss[n] > 0 => LeafOK(ch, ss, n)
    /\ \A n \in Nodes : Inner(ch, n) => Chain(ch, n, Len(n))
    /\ \A n \in Nodes, c \in Letters : ch[n][c] # NULL => ChildOK(ch, ss, n, c, ch[n][c])

\* An internal node is shorter than a key, and so no leaf; a leaf has no children.
LEMMA InnerIsShort ==
    ASSUME NEW ch, NEW ss, TreeOK(ch, ss), NEW n \in Nodes, Inner(ch, n)
    PROVE  Len(n) < key_size /\ ss[n] = 0 /\ n \notin Keys
<1>1. Len(n) < key_size
  <2>1. CASE n = root
    BY <2>1, RootIsNode, SizeAssumption
  <2>2. CASE n # root
    <3>1. PICK c \in Letters : ch[n][c] # NULL  BY <2>2 DEF Inner
    <3>2. ch[n][c] \in Nodes /\ Len(n) < Len(ch[n][c])
        BY <3>1 DEF TreeOK, TreeTypes, ChildOK
    <3>3. Len(n) \in Nat /\ Len(ch[n][c]) \in 0..key_size  BY <3>2, NodeIsSeq, SizeAssumption
    <3> QED  BY <3>2, <3>3, SizeAssumption
  <2> QED  BY <2>1, <2>2
<1>2. n \notin Keys  BY <1>1, KeyIsNode, SizeAssumption
<1>3. ss[n] \in 0..key_size  BY DEF TreeOK, TreeTypes
<1>4. ~(ss[n] > 0)  BY <1>2 DEF TreeOK, LeafOK
<1> QED  BY <1>1, <1>2, <1>3, <1>4, SizeAssumption

LEMMA LetterOfNode ==
    \A n \in Nodes, i \in Nat : 1 <= i /\ i <= Len(n) => n[i] \in Letters
BY NodeIsSeq

\* When an internal node on the way of a key has no child for the key's next
\* letter, or that child is another key's leaf, the key is not in the tree.
LEMMA KeyIsAbsent ==
    ASSUME NEW ch, NEW ss, TreeOK(ch, ss),
           NEW k \in Keys, NEW d \in Nat, d < key_size, Inner(ch, Prefix(k, d)),
           \/ ch[Prefix(k, d)][k[d + 1]] = NULL
           \/ ch[Prefix(k, d)][k[d + 1]] \in Keys \ {k}
    PROVE  ss[k] = 0
<1> DEFINE n == Prefix(k, d)
           s == ss[k]
<1>1. k \in Nodes /\ Len(k) = key_size /\ key_size \in Nat  BY KeyIsNode, SizeAssumption
<1>2. n \in Nodes /\ Len(n) = d  BY <1>1, PrefixProperties
<1>3. s \in 0..key_size  BY <1>1 DEF TreeOK, TreeTypes
<1> SUFFICES ASSUME s > 0
             PROVE  FALSE
    BY <1>3, SizeAssumption
<1>4. Chain(ch, k, s - 1) /\ ch[Prefix(k, s - 1)][k[s]] = k
    BY <1>1 DEF TreeOK, LeafOK
<1>5. s \in Nat /\ s <= key_size  BY <1>3, <1>1
<1>6. CASE s > d + 1
  <2>1. d + 1 \in 1..(s - 1) /\ (d + 1) - 1 = d  BY <1>5, <1>6
  <2>2. ch[n][k[d + 1]] = Prefix(k, d + 1)  BY <1>4, <2>1 DEF Chain
  <2>3. Prefix(k, d + 1) \in Nodes /\ Len(Prefix(k, d + 1)) = d + 1
      BY <1>1, <1>5, <2>1, PrefixProperties
  <2>4. Prefix(k, d + 1) \in Keys \ {k}  BY <2>2, <2>3, NullAssumption
  <2>5. d + 1 = key_size  BY <2>3, <2>4, KeyIsNode
  <2> QED  BY <1>1, <2>4, <2>5, PrefixWhole
<1>7. CASE s = d + 1
  <2>1. ch[n][k[d + 1]] = k  BY <1>4, <1>7
  <2> QED  BY <1>1, <2>1, NullAssumption
<1>8. CASE s < d + 1
  <2>1. s \in 1..d /\ s \in 1..Len(n) /\ s - 1 \in 0..d /\ s \in 0..d  BY <1>2, <1>5, <1>8
  <2>2. Chain(ch, n, Len(n))  BY <1>2 DEF TreeOK
  <2>3. ch[Prefix(n, s - 1)][n[s]] = Prefix(n, s)  BY <2>1, <2>2 DEF Chain
  <2>4. d \in 0..Len(k)  BY <1>1
  <2>5. Prefix(n, s - 1) = Prefix(k, s - 1) /\ Prefix(n, s) = Prefix(k, s) /\ n[s] = k[s]
      BY <1>1, <2>1, <2>4, PrefixOfPrefix, PrefixProperties
  <2>6. k = Prefix(k, s)  BY <1>4, <2>3, <2>5
  <2>7. Len(k) = s  BY <1>1, <1>5, <2>6, PrefixProperties
  <2> QED  BY <1>1, <1>5, <1>8, <2>7
<1> QED  BY <1>5, <1>6, <1>7, <1>8

\* The key k becomes the child of the internal node that its first d letters lead to.
IsNewLeaf(ch, ss, ch2, ss2, k, d) ==
    /\ TreeTypes(ch2, ss2)
    /\ k \in Keys /\ d \in Nat /\ d < key_size
    /\ Inner(ch, Prefix(k, d)) /\ ch[Prefix(k, d)][k[d + 1]] = NULL
    /\ \A n \in Nodes, c \in Letters :
          ch2[n][c] = IF n = Prefix(k, d) /\ c = k[d + 1] THEN k ELSE ch[n][c]
    /\ \A n \in Nodes : ss2[n] = IF n = k THEN d + 1 ELSE ss[n]

\* A new leaf where an internal node had no child leaves the rest as it was.
LEMMA NewLeafKeepsTree ==
    ASSUME NEW ch, NEW ss, TreeOK(ch, ss), NEW ch2, NEW ss2, NEW k, NEW d,
           IsNewLeaf(ch, ss, ch2, ss2, k, d)
    PROVE  TreeOK(ch2, ss2)
<1>0. /\ TreeTypes(ch2, ss2)
      /\ k \in Keys /\ d \in Nat /\ d < key_size
      /\ Inner(ch, Prefix(k, d)) /\ ch[Prefix(k, d)][k[d + 1]] = NULL
      /\ \A n \in Nodes, c \in Letters :
            ch2[n][c] = IF n = Prefix(k, d) /\ c = k[d + 1] THEN k ELSE ch[n][c]
      /\ \A n \in Nodes : ss2[n] = IF n = k THEN d + 1 ELSE ss[n]
    BY DEF IsNewLeaf
<1> USE <1>0
<1> DEFINE p == Prefix(k, d)
           a == k[d + 1]
<1>1. k \in Nodes /\ Len(k) = key_size /\ key_size \in Nat  BY KeyIsNode, SizeAssumption
<1>2. p \in Nodes /\ Len(p) = d /\ a \in Letters  BY <1>1, PrefixProperties, LetterOfNode
<1>3. ss[k] = 0  BY KeyIsAbsent
<1>4. ~Inner(ch, k)  BY <1>1, InnerIsShort
<1>5. \A n \in Nodes, c \in Letters : ch[n][c] # NULL => ch2[n][c] = ch[n][c]
    OBVIOUS
<1> HIDE DEF p, a
<1>6. ASSUME NEW n \in Nodes, NEW e \in Int, e <= Len(n), Chain(ch, n, e)
      PROVE  Chain(ch2, n, e)
  <2> SUFFICES ASSUME NEW i \in 1..e
               PROVE  ch2[Prefix(n, i - 1)][n[i]] = Prefix(n, i)
      BY DEF Chain
  <2>1. Len(n) \in Nat /\ i \in Nat /\ 1 <= i /\ i <= Len(n)  BY <1>6, NodeIsSeq, SizeAssumption
  <2>2. Prefix(n, i - 1) \in Nodes /\ n[i] \in Letters /\ Prefix(n, i) \in Nodes
      BY <2>1, PrefixProperties, LetterOfNode
  <2>3. ch[Prefix(n, i - 1)][n[i]] = Prefix(n, i)  BY <1>6 DEF Chain
  <2> QED  BY <1>5, <2>2, <2>3, NullAssumption
<1>7. ASSUME NEW n \in Nodes, ss2[n] > 0
      PROVE  LeafOK(ch2, ss2, n)
  <2>1. CASE n = k
    <3>1. ss2[n] = d + 1  BY <1>1, <2>1
    <3>2. Chain(ch, p, Len(p))  BY <1>2 DEF TreeOK, p
    <3>3. Chain(ch, k, d)
      <4> SUFFICES ASSUME NEW i \in 1..d
                   PROVE  ch[Prefix(k, i - 1)][k[i]] = Prefix(k, i)
          BY DEF Chain
      <4>1. ch[Prefix(p, i - 1)][p[i]] = Prefix(p, i)  BY <1>2, <3>2 DEF Chain
      <4>2. d \in 0..Len(k) /\ i - 1 \in 0..d /\ i \in 0..d  BY <1>1
      <4>3. Prefix(p, i - 1) = Prefix(k, i - 1) /\ Prefix(p, i) = Prefix(k, i)
          BY <1>1, <4>2, PrefixOfPrefix DEF p
      <4>4. p[i] = k[i]  BY <1>1, <4>2, PrefixProperties DEF p
      <4> QED  BY <4>1, <4>3, <4>4
    <3>4. Chain(ch2, k, d)  BY <1>1, <1>6, <3>3
    <3>5. ch2[p][a] = k  BY <1>2 DEF p, a
    <3>6. ss2[n] - 1 = d  BY <3>1
    <3> QED  BY <2>1, <3>1, <3>4, <3>5, <3>6 DEF LeafOK, p, a
  <2>2. CASE n # k
    <3>1. ss2[n] = ss[n]  BY <2>2
    <3>2. LeafOK(ch, ss, n)  BY <1>7, <3>1 DEF TreeOK
    <3>3. ss[n] \in Nat /\ ss[n] <= Len(n) /\ 1 <= ss[n]
        BY <1>7, <3>1, <3>2, KeyIsNode, SizeAssumption DEF LeafOK, TreeOK, TreeTypes
    <3>4. Chain(ch2, n, ss[n] - 1)  BY <1>6, <3>2, <3>3 DEF LeafOK
    <3>5. Prefix(n, ss[n] - 1) \in Nodes /\ n[ss[n]] \in Letters
      <4>1. Len(n) \in Nat /\ ss[n] - 1 \in 0..Len(n)  BY <3>3, NodeIsSeq, SizeAssumption
      <4>2. Prefix(n, ss[n] - 1) \in Nodes  BY <4>1, PrefixProperties
      <4> QED  BY <3>3, <4>2, LetterOfNode
    <3>6. ch2[Prefix(n, ss[n] - 1)][n[ss[n]]] = n  BY <1>5, <3>2, <3>5, NullAssumption DEF LeafOK
    <3> QED  BY <3>1, <3>2, <3>4, <3>6 DEF LeafOK
  <2> QED  BY <2>1, <2>2
<1>8. ASSUME NEW n \in Nodes, Inner(ch2, n)
      PROVE  Chain(ch2, n, Len(n))
  <2>1. Inner(ch, n)  BY <1>8 DEF Inner
  <2>2. Chain(ch, n, Len(n)) /\ Len(n) \in Int /\ Len(n) <= Len(n)
      BY <2>1, NodeIsSeq, SizeAssumption DEF TreeOK
  <2> QED  BY <1>6, <2>2
<1>9. ASSUME NEW n \in Nodes, NEW c \in Letters, ch2[n][c] # NULL
      PROVE  ChildOK(ch2, ss2, n, c, ch2[n][c])
  <2>1. CASE n = p /\ c = a
    <3>1. ch2[n][c] = k /\ ss2[k] = d + 1  BY <1>1, <2>1 DEF p, a
    <3> QED  BY <1>1, <1>2, <2>1, <3>1 DEF ChildOK, p, a
  <2>2. CASE ~(n = p /\ c = a)
    <3>1. ch2[n][c] = ch[n][c]  BY <2>2 DEF p, a
    <3>2. PICK m \in Nodes : m = ch[n][c]  BY <1>9, <3>1 DEF TreeOK, TreeTypes
    <3>3. ChildOK(ch, ss, n, c, m)  BY <1>9, <3>1, <3>2 DEF TreeOK
    <3>4. Inner(ch, m) => Inner(ch2, m)  BY <1>5 DEF Inner
    <3>5. m # k  BY <1>3, <1>4, <3>3 DEF ChildOK
    <3>6. ss2[m] = ss[m]  BY <3>5
    <3>7. ChildOK(ch2, ss2, n, c, m)  BY <3>3, <3>4, <3>6 DEF ChildOK
    <3> QED  BY <3>1, <3>2, <3>7
  <2> QED  BY <2>1, <2>2
<1> QED  BY <1>7, <1>8, <1>9 DEF TreeOK

\* The node that a leaf occupies has a name nobody uses yet.
LEMMA PushedNodeIsNew ==
    ASSUME NEW ch, NEW ss, TreeOK(ch, ss),
           NEW leaf \in Keys, ss[leaf] > 0, ss[leaf] < key_size
    PROVE  /\ Prefix(leaf, ss[leaf]) \in Nodes
           /\ ~Inner(ch, Prefix(leaf, ss[leaf]))
           /\ ~(ss[Prefix(leaf, ss[leaf])] > 0)
<1> DEFINE d == ss[leaf]
           new == Prefix(leaf, d)
<1>1. leaf \in Nodes /\ Len(leaf) = key_size /\ key_size \in Nat  BY KeyIsNode, SizeAssumption
<1>2. d \in Nat /\ 1 <= d /\ d < key_size  BY <1>1 DEF TreeOK, TreeTypes
<1>3. new \in Nodes /\ Len(new) = d  BY <1>1, <1>2, PrefixProperties
<1>4. ~(ss[new] > 0)  BY <1>1, <1>2, <1>3, KeyIsNode DEF TreeOK, LeafOK
<1>5. ASSUME Inner(ch, new)  PROVE FALSE
  <2>1. Chain(ch, new, Len(new))  BY <1>3, <1>5 DEF TreeOK
  <2>2. ch[Prefix(new, d - 1)][new[d]] = Prefix(new, d)  BY <1>2, <1>3, <2>1 DEF Chain
  <2>3. d \in 0..Len(leaf) /\ d - 1 \in 0..d /\ d \in 0..d /\ d \in 1..d  BY <1>1, <1>2
  <2>4. Prefix(new, d - 1) = Prefix(leaf, d - 1) /\ Prefix(new, d) = new /\ new[d] = leaf[d]
      BY <1>1, <2>3, PrefixOfPrefix, PrefixProperties
  <2>5. ch[Prefix(leaf, d - 1)][leaf[d]] = leaf  BY <1>1 DEF TreeOK, LeafOK
  <2>6. new = leaf  BY <2>2, <2>4, <2>5
  <2> QED  BY <1>1, <1>2, <1>3, <2>6
<1> QED  BY <1>3, <1>4, <1>5

\* A new internal node takes the place of a leaf and gets the leaf as a child.
IsPush(ch, ss, ch2, ss2, leaf, d) ==
    /\ TreeTypes(ch2, ss2)
    /\ leaf \in Keys /\ d \in Nat /\ d = ss[leaf] /\ d > 0 /\ d < key_size
    /\ \A n \in Nodes, c \in Letters :
          ch2[n][c] = IF n = Prefix(leaf, d - 1) /\ c = leaf[d] THEN Prefix(leaf, d)
                      ELSE IF n = Prefix(leaf, d) /\ c = leaf[d + 1] THEN leaf
                      ELSE ch[n][c]
    /\ \A n \in Nodes : ss2[n] = IF n = leaf THEN d + 1 ELSE ss[n]

\* A new internal node between a leaf and its parent leaves the rest as it was.
LEMMA PushKeepsTree ==
    ASSUME NEW ch, NEW ss, TreeOK(ch, ss), NEW ch2, NEW ss2, NEW leaf, NEW d,
           IsPush(ch, ss, ch2, ss2, leaf, d)
    PROVE  TreeOK(ch2, ss2)
<1>0. /\ TreeTypes(ch2, ss2)
      /\ leaf \in Keys /\ d \in Nat /\ d = ss[leaf] /\ d > 0 /\ d < key_size
      /\ \A n \in Nodes, c \in Letters :
            ch2[n][c] = IF n = Prefix(leaf, d - 1) /\ c = leaf[d] THEN Prefix(leaf, d)
                        ELSE IF n = Prefix(leaf, d) /\ c = leaf[d + 1] THEN leaf
                        ELSE ch[n][c]
      /\ \A n \in Nodes : ss2[n] = IF n = leaf THEN d + 1 ELSE ss[n]
    BY DEF IsPush
<1> USE <1>0
<1> DEFINE p == Prefix(leaf, d - 1)
           new == Prefix(leaf, d)
           a == leaf[d]
           b == leaf[d + 1]
<1>1. leaf \in Nodes /\ Len(leaf) = key_size /\ key_size \in Nat  BY KeyIsNode, SizeAssumption
<1>2. /\ p \in Nodes /\ Len(p) = d - 1 /\ a \in Letters
      /\ new \in Nodes /\ Len(new) = d /\ b \in Letters /\ p # new
    BY <1>1, PrefixProperties, LetterOfNode
<1>3. ~Inner(ch, new) /\ ~(ss[new] > 0)  BY PushedNodeIsNew
<1>4. LeafOK(ch, ss, leaf)  BY <1>1 DEF TreeOK
<1>5. ch[p][a] = leaf  BY <1>4 DEF LeafOK
<1>6. \A c \in Letters : ch[new][c] = NULL  BY <1>3 DEF Inner
<1>7. \A n \in Nodes, c \in Letters :
         ch2[n][c] = IF n = p /\ c = a THEN new ELSE IF n = new /\ c = b THEN leaf ELSE ch[n][c]
    OBVIOUS
<1>8. Prefix(new, d - 1) = p /\ new[d] = a  BY <1>1, <1>2, PrefixOfPrefix, PrefixProperties
<1>9. leaf # NULL /\ new # NULL  BY <1>1, <1>2, NullAssumption
<1> HIDE DEF p, a, new, b
<1>10. \A n \in Nodes, c \in Letters : ch[n][c] \notin {NULL, leaf} => ch2[n][c] = ch[n][c]
    BY <1>5, <1>6, <1>7
<1>11. \A n \in Nodes : Inner(ch, n) => Inner(ch2, n)
  <2> SUFFICES ASSUME NEW n \in Nodes, Inner(ch, n), n # root
               PROVE  \E c \in Letters : ch2[n][c] # NULL
      BY DEF Inner
  <2>1. PICK c \in Letters : ch[n][c] # NULL  BY DEF Inner
  <2> QED  BY <1>7, <1>9, <2>1
<1>12. Inner(ch2, new)  BY <1>2, <1>7, <1>9 DEF Inner
<1>13. ASSUME NEW n \in Nodes, NEW e \in Int, e <= Len(n), e < key_size, Chain(ch, n, e)
       PROVE  Chain(ch2, n, e)
  <2> SUFFICES ASSUME NEW i \in 1..e
               PROVE  ch2[Prefix(n, i - 1)][n[i]] = Prefix(n, i)
      BY DEF Chain
  <2>1. Len(n) \in Nat /\ i \in Nat /\ 1 <= i /\ i <= Len(n) /\ i < key_size
      BY <1>1, <1>13, NodeIsSeq
  <2>2. Prefix(n, i - 1) \in Nodes /\ n[i] \in Letters /\ Prefix(n, i) \in Nodes
        /\ Len(Prefix(n, i)) = i
      BY <2>1, PrefixProperties, LetterOfNode
  <2>3. ch[Prefix(n, i - 1)][n[i]] = Prefix(n, i)  BY <1>13 DEF Chain
  <2>4. Prefix(n, i) \notin {NULL, leaf}  BY <1>1, <2>1, <2>2, NullAssumption
  <2> QED  BY <1>10, <2>2, <2>3, <2>4
<1>14. Chain(ch2, leaf, d) /\ Chain(ch2, new, d)
  <2>1. Chain(ch, leaf, d - 1)  BY <1>4 DEF LeafOK
  <2>2. Chain(ch2, leaf, d - 1)  BY <1>1, <1>13, <2>1
  <2>3. ch2[Prefix(leaf, d - 1)][leaf[d]] = Prefix(leaf, d)  BY <1>2, <1>7 DEF p, a, new
  <2>4. Chain(ch2, leaf, d)  BY <2>2, <2>3 DEF Chain
  <2>5. Chain(ch2, new, d)
    <3> SUFFICES ASSUME NEW i \in 1..d
                 PROVE  ch2[Prefix(new, i - 1)][new[i]] = Prefix(new, i)
        BY DEF Chain
    <3>1. ch2[Prefix(leaf, i - 1)][leaf[i]] = Prefix(leaf, i)  BY <2>4 DEF Chain
    <3>2. d \in 0..Len(leaf) /\ i - 1 \in 0..d /\ i \in 0..d  BY <1>1
    <3>3. Prefix(new, i - 1) = Prefix(leaf, i - 1) /\ Prefix(new, i) = Prefix(leaf, i)
        BY <1>1, <3>2, PrefixOfPrefix DEF new
    <3>4. new[i] = leaf[i]  BY <1>1, <3>2, PrefixProperties DEF new
    <3> QED  BY <3>1, <3>3, <3>4
  <2> QED  BY <2>4, <2>5
<1>15. ASSUME NEW n \in Nodes, ss2[n] > 0
       PROVE  LeafOK(ch2, ss2, n)
  <2>1. CASE n = leaf
    <3>1. ss2[n] = d + 1 /\ ss2[n] - 1 = d  BY <1>1, <2>1
    <3>2. ch2[Prefix(leaf, d)][leaf[d + 1]] = leaf  BY <1>2, <1>7 DEF new, b
    <3> QED  BY <1>14, <2>1, <3>1, <3>2 DEF LeafOK
  <2>2. CASE n # leaf
    <3>1. ss2[n] = ss[n]  BY <2>2
    <3>2. LeafOK(ch, ss, n)  BY <1>15, <3>1 DEF TreeOK
    <3>3. n \in Keys /\ Len(n) = key_size /\ ss[n] \in Nat /\ ss[n] <= Len(n) /\ 1 <= ss[n]
        BY <1>1, <1>15, <3>1, <3>2, KeyIsNode DEF LeafOK, TreeOK, TreeTypes
    <3>4. Chain(ch2, n, ss[n] - 1)  BY <1>1, <1>13, <3>2, <3>3 DEF LeafOK
    <3>5. ss[n] - 1 \in 0..Len(n)  BY <1>1, <3>3
    <3>6. Prefix(n, ss[n] - 1) \in Nodes /\ n[ss[n]] \in Letters
        BY <3>3, <3>5, PrefixProperties, LetterOfNode
    <3>7. ch2[Prefix(n, ss[n] - 1)][n[ss[n]]] = n
        BY <1>10, <2>2, <3>2, <3>6, NullAssumption DEF LeafOK
    <3> QED  BY <3>1, <3>2, <3>4, <3>7 DEF LeafOK
  <2> QED  BY <2>1, <2>2
<1>16. ASSUME NEW n \in Nodes, Inner(ch2, n)
       PROVE  Chain(ch2, n, Len(n))
  <2>1. CASE n = new
    BY <1>2, <1>14, <2>1
  <2>2. CASE n # new
    <3>1. Inner(ch, n)
      <4>1. CASE n = root  BY <4>1 DEF Inner
      <4>2. CASE n # root
        <5>1. PICK c \in Letters : ch2[n][c] # NULL  BY <1>16, <4>2 DEF Inner
        <5>2. ch[n][c] # NULL  BY <1>5, <1>7, <1>9, <2>2, <5>1
        <5> QED  BY <5>2 DEF Inner
      <4> QED  BY <4>1, <4>2
    <3>2. Chain(ch, n, Len(n)) /\ Len(n) \in Int /\ Len(n) <= Len(n) /\ Len(n) < key_size
        BY <3>1, InnerIsShort, NodeIsSeq, SizeAssumption DEF TreeOK
    <3> QED  BY <1>13, <3>2
  <2> QED  BY <2>1, <2>2
<1>17. ASSUME NEW n \in Nodes, NEW c \in Letters, ch2[n][c] # NULL
       PROVE  ChildOK(ch2, ss2, n, c, ch2[n][c])
  <2>1. CASE n = p /\ c = a
    <3>1. ch2[n][c] = new  BY <1>7, <2>1
    <3>2. ss2[new] = ss[new]  BY <1>1, <1>2
    <3> QED  BY <1>2, <1>3, <1>8, <1>12, <2>1, <3>1, <3>2 DEF ChildOK
  <2>2. CASE n = new /\ c = b
    <3>1. ch2[n][c] = leaf /\ ss2[leaf] = d + 1  BY <1>1, <1>2, <1>7, <2>2
    <3> QED  BY <1>1, <1>2, <2>2, <3>1 DEF ChildOK, new, b
  <2>3. CASE ~(n = p /\ c = a) /\ ~(n = new /\ c = b)
    <3>1. ch2[n][c] = ch[n][c]  BY <1>7, <2>3
    <3>2. PICK m \in Nodes : m = ch[n][c]  BY <1>17, <3>1 DEF TreeOK, TreeTypes
    <3>3. ChildOK(ch, ss, n, c, m)  BY <1>17, <3>1, <3>2 DEF TreeOK
    <3>4. Inner(ch, m) => Inner(ch2, m)  BY <1>11
    <3>5. m # leaf
      <4> SUFFICES ASSUME m = leaf
                   PROVE  FALSE
          OBVIOUS
      <4>1. d = Len(n) + 1 /\ Prefix(leaf, Len(n)) = n /\ leaf[Len(n) + 1] = c
          BY <3>3 DEF ChildOK
      <4>2. Len(n) \in Nat  BY NodeIsSeq, SizeAssumption
      <4>3. Len(n) = d - 1  BY <4>1, <4>2
      <4>4. n = p /\ c = a  BY <4>1, <4>3 DEF p, a
      <4> QED  BY <2>3, <4>4
    <3>6. ss2[m] = ss[m]  BY <3>5
    <3>7. ChildOK(ch2, ss2, n, c, m)  BY <3>3, <3>4, <3>6 DEF ChildOK
    <3> QED  BY <3>1, <3>2, <3>7
  <2> QED  BY <2>1, <2>2, <2>3
<1> QED  BY <1>15, <1>16, <1>17 DEF TreeOK

-----------------------------------------------------------------------------
(* The places of the threads *)

\* The nodes that are part of the tree.
Live(ch, ss, n) == Inner(ch, n) \/ ss[n] > 0

\* Inserting k, both mutexes held: the cursor is the internal node that the first
\* kc letters lead to, or another key's leaf with the same kc letters.
AtNode(ch, ss, k, kc, tc, pa) ==
    /\ k \in Keys
    /\ kc < key_size
    /\ Inner(ch, pa)
    /\ IF ss[tc] > 0
       THEN /\ ss[tc] = kc
            /\ Prefix(tc, kc) = Prefix(k, kc)
            /\ tc # k
            /\ pa = Prefix(k, kc - 1)
       ELSE tc = Prefix(k, kc) /\ Inner(ch, tc)

\* Inserting k, about to lock the child for its next letter.
AtChild(ch, k, kc, tc, pa) ==
    /\ k \in Keys
    /\ kc < key_size
    /\ pa = Prefix(k, kc)
    /\ Inner(ch, pa)
    /\ tc = ch[pa][k[kc + 1]]

\* Looking for k, no mutex held.
AtLookup(ch, ss, k, kc, tc) ==
    /\ k \in Keys
    /\ Prefix(tc, kc) = Prefix(k, kc)
    /\ ss[tc] = 0 => tc = Prefix(k, kc) /\ Inner(ch, tc)
    /\ kc <= Len(tc)

\* A traversal's stack: the root before it is visited, never afterwards.
StackOK(ch, ss, stack) ==
    \/ stack = <<root>>
    \/ \A i \in 1..Len(stack) : stack[i] # root /\ Live(ch, ss, stack[i])

Place(ch, ss, l, k, kc, tc, pa, stack) ==
    /\ l = "insert" => k \in Keys /\ kc = 0 /\ tc = root /\ pa = root
    /\ l = "at_node" => AtNode(ch, ss, k, kc, tc, pa)
    /\ l = "at_child" => AtChild(ch, k, kc, tc, pa)
    /\ l = "lookup" => AtLookup(ch, ss, k, kc, tc)
    /\ l = "traverse" => StackOK(ch, ss, stack)

PlaceOK(t) ==
    Place(children, suffix_start, pc[t], key[t], key_cursor[t], tree_cursor[t], parent[t],
          node_stack[t])

\* The types without the mutexes, and those of what TypeOK does not mention.
Types ==
    /\ TreeTypes(children, suffix_start)
    /\ value \in [Nodes -> Nat]
    /\ trie_node_mutex \in [Nodes -> Threads \cup {NULL}]
    /\ pc \in [Threads -> {"idle", "insert", "at_node", "at_child", "lookup", "traverse"}]
    /\ key \in [Threads -> Keys \cup {NULL}]
    /\ key_cursor \in [Threads -> 0..key_size]
    /\ tree_cursor \in [Threads -> Nodes]
    /\ parent \in [Threads -> Nodes]
    /\ answer \in [Threads -> Keys \cup {NULL, ERROR}]
    /\ keep_root_locked \in [Threads -> BOOLEAN]
    /\ node_stack \in [Threads -> Seq(Nodes)]
    /\ visited \in [Threads -> Seq(Keys)]
    /\ calls \in 0..MaxCalls

Mutexes == \A n \in Nodes, t \in Threads : trie_node_mutex[n] = t <=> n \in Held(t)

Tree == TreeOK(children, suffix_start)

\* A leaf has a value, an internal node has none.
Values == \A n \in Nodes : value[n] > 0 <=> suffix_start[n] > 0

Inv ==
    /\ Types
    /\ Mutexes
    /\ Tree
    /\ Values
    /\ \A t \in Threads : PlaceOK(t)

\* A change of the tree by the holder of the mutexes of W: what is in the tree stays
\* in it, and what the holder does not hold does not change.
Grows(ch, ss, ch2, ss2, W) ==
    /\ \A n \in Nodes : Inner(ch, n) => Inner(ch2, n)
    /\ \A n \in Nodes, c \in Letters : Inner(ch, n) /\ n \notin W => ch2[n][c] = ch[n][c]
    /\ \A n \in Nodes : ss[n] > 0 => ss2[n] > 0
    /\ \A n \in Nodes : ss[n] > 0 /\ n \notin W => ss2[n] = ss[n]

LEMMA NoChange == \A ch, ss, W : Grows(ch, ss, ch, ss, W)
BY DEF Grows

\* A thread's place survives a change made by the holder of other mutexes.
LEMMA PlaceSurvives ==
    ASSUME NEW ch, NEW ss, TreeOK(ch, ss), NEW ch2, NEW ss2, TreeOK(ch2, ss2),
           NEW W, Grows(ch, ss, ch2, ss2, W),
           NEW l, NEW k, NEW kc \in 0..key_size, NEW tc \in Nodes, NEW pa \in Nodes,
           NEW stack \in Seq(Nodes),
           Place(ch, ss, l, k, kc, tc, pa, stack),
           l = "at_node" => tc \notin W /\ pa \notin W,
           l = "at_child" => pa \notin W
    PROVE  Place(ch2, ss2, l, k, kc, tc, pa, stack)
<1>1. \A n \in Nodes : ss[n] \in 0..key_size /\ ss2[n] \in 0..key_size  BY DEF TreeOK, TreeTypes
<1>2. \A n \in Nodes : Inner(ch, n) => ss2[n] = 0  BY InnerIsShort DEF Grows
<1>3. ASSUME l = "at_node"
      PROVE  AtNode(ch2, ss2, k, kc, tc, pa)
    BY <1>1, <1>2, <1>3, SizeAssumption DEF Place, AtNode, Grows
<1>4. ASSUME l = "at_child"
      PROVE  AtChild(ch2, k, kc, tc, pa)
  <2>1. AtChild(ch, k, kc, tc, pa)  BY <1>4 DEF Place
  <2>2. k[kc + 1] \in Letters
      BY <2>1, KeyIsNode, LetterOfNode, SizeAssumption DEF AtChild
  <2> QED  BY <1>4, <2>1, <2>2 DEF AtChild, Grows
<1>5. ASSUME l = "lookup"
      PROVE  AtLookup(ch2, ss2, k, kc, tc)
    BY <1>1, <1>2, <1>5, SizeAssumption DEF Place, AtLookup, Grows
<1>6. ASSUME l = "traverse"
      PROVE  StackOK(ch2, ss2, stack)
  <2>1. \A n \in Nodes : Live(ch, ss, n) => Live(ch2, ss2, n)  BY DEF Live, Grows
  <2>2. \A i \in 1..Len(stack) : stack[i] \in Nodes  BY ElementOfSeq
  <2> QED  BY <1>6, <2>1, <2>2 DEF Place, StackOK
<1> QED  BY <1>3, <1>4, <1>5, <1>6 DEF Place

\* What the other threads have and know does not change.
Others(t) ==
    \A u \in Threads \ {t} :
        /\ pc'[u] = pc[u] /\ key'[u] = key[u] /\ key_cursor'[u] = key_cursor[u]
        /\ tree_cursor'[u] = tree_cursor[u] /\ parent'[u] = parent[u]
        /\ keep_root_locked'[u] = keep_root_locked[u] /\ node_stack'[u] = node_stack[u]

\* The mutexes after a step of t: it takes free ones, and releases what it has not.
Moves(t) ==
    \A n \in Nodes :
        /\ n \in Held(t)' => n \in Held(t) \/ trie_node_mutex[n] = NULL
        /\ trie_node_mutex'[n] = IF n \in Held(t)' THEN t
                                 ELSE IF n \in Held(t) THEN NULL
                                 ELSE trie_node_mutex[n]

LEMMA HeldIsLive ==
    ASSUME Inv, NEW t \in Threads
    PROVE  \A n \in Nodes : n \in Held(t) => Live(children, suffix_start, n)
<1>1. PlaceOK(t) /\ tree_cursor[t] \in Nodes /\ parent[t] \in Nodes  BY DEF Inv, Types
<1>2. suffix_start[tree_cursor[t]] \in 0..key_size  BY <1>1 DEF Inv, Types, TreeTypes
<1>3. Live(children, suffix_start, root)  BY DEF Live, Inner
<1>4. pc[t] = "at_node" => /\ Live(children, suffix_start, tree_cursor[t])
                           /\ Live(children, suffix_start, parent[t])
    BY <1>1, <1>2, SizeAssumption DEF PlaceOK, Place, AtNode, Live
<1>5. pc[t] = "at_child" => Live(children, suffix_start, parent[t])
    BY <1>1 DEF PlaceOK, Place, AtChild, Live
<1> QED  BY <1>3, <1>4, <1>5 DEF Held

\* A step of t keeps the invariant for the others if it changes the tree only
\* below the mutexes that t holds.
LEMMA StepFrame ==
    ASSUME Inv, NEW t \in Threads, Others(t), Moves(t), Types', Tree', Values', PlaceOK(t)',
           Grows(children, suffix_start, children', suffix_start', Held(t))
    PROVE  Inv'
<1>1. ASSUME NEW u \in Threads, u # t
      PROVE  Held(u)' = Held(u)
    BY <1>1 DEF Others, Held
<1>2. Mutexes'
  <2> SUFFICES ASSUME NEW n \in Nodes, NEW u \in Threads
               PROVE  trie_node_mutex'[n] = u <=> n \in Held(u)'
      BY DEF Mutexes
  <2>1. trie_node_mutex[n] = u <=> n \in Held(u)  BY DEF Inv, Mutexes
  <2>2. trie_node_mutex[n] = t <=> n \in Held(t)  BY DEF Inv, Mutexes
  <2>3. u # NULL /\ t # NULL  BY NullAssumption
  <2>4. CASE u = t
    BY <2>2, <2>3, <2>4 DEF Moves
  <2>5. CASE u # t
    BY <1>1, <2>1, <2>2, <2>3, <2>5 DEF Moves
  <2> QED  BY <2>4, <2>5
<1>3. ASSUME NEW u \in Threads, u # t
      PROVE  PlaceOK(u)'
  <2>1. /\ key_cursor[u] \in 0..key_size /\ tree_cursor[u] \in Nodes /\ parent[u] \in Nodes
        /\ node_stack[u] \in Seq(Nodes)
      BY DEF Inv, Types
  <2>2. \A n \in Nodes : n \in Held(u) => n \notin Held(t)
      BY <1>3 DEF Inv, Mutexes
  <2>3. pc[u] = "at_node" => tree_cursor[u] \notin Held(t) /\ parent[u] \notin Held(t)
      BY <2>1, <2>2 DEF Held
  <2>4. pc[u] = "at_child" => parent[u] \notin Held(t)
      BY <2>1, <2>2 DEF Held
  <2>5. Place(children, suffix_start, pc[u], key[u], key_cursor[u], tree_cursor[u], parent[u],
              node_stack[u])
      BY DEF Inv, PlaceOK
  <2>6. TreeOK(children, suffix_start) /\ TreeOK(children', suffix_start')  BY DEF Inv, Tree
  <2> HIDE DEF Held
  <2>7. Place(children', suffix_start', pc[u], key[u], key_cursor[u], tree_cursor[u], parent[u],
              node_stack[u])
      BY <2>1, <2>3, <2>4, <2>5, <2>6, PlaceSurvives
  <2> QED  BY <1>3, <2>7 DEF Others, PlaceOK
<1> QED  BY <1>2, <1>3 DEF Inv

LEMMA InvInit == Init => Inv
<1> SUFFICES ASSUME Init
             PROVE  Inv
    OBVIOUS
<1> USE DEF Init
<1>1. Types
  <2>1. NoChildren \in [Letters -> Nodes \cup {NULL}]  BY DEF NoChildren
  <2>2. root \in Nodes /\ 0 \in 0..key_size  BY RootIsNode, SizeAssumption
  <2>3. <<>> \in Seq(Nodes) /\ <<>> \in Seq(Keys)  BY EmptySeq
  <2>4. calls \in 0..MaxCalls  BY BoundAssumption
  <2> QED  BY <2>1, <2>2, <2>3, <2>4 DEF Types, TreeTypes
<1>2. Mutexes  BY NullAssumption DEF Mutexes, Held
<1>3. \A n \in Nodes, c \in Letters : children[n][c] = NULL  BY DEF NoChildren
<1>4. Tree
  <2>1. \A n \in Nodes : Inner(children, n) => Chain(children, n, Len(n))
    <3> SUFFICES ASSUME NEW n \in Nodes, Inner(children, n)
                 PROVE  Chain(children, n, Len(n))
        OBVIOUS
    <3>1. Len(n) = 0  BY <1>3, RootIsNode DEF Inner
    <3> QED  BY <3>1 DEF Chain
  <2> QED  BY <1>1, <1>3, <2>1 DEF Types, Tree, TreeOK
<1>5. Values  BY DEF Values
<1>6. \A t \in Threads : PlaceOK(t)  BY DEF PlaceOK, Place
<1> QED  BY <1>1, <1>2, <1>4, <1>5, <1>6 DEF Inv

-----------------------------------------------------------------------------
(* The children of a node as traverse pushes them *)

\* Ith enumerates a finite set of numbers in ascending order.
LEMMA IthProperties ==
    ASSUME NEW S \in SUBSET Nat, IsFiniteSet(S)
    PROVE  /\ \A i \in 1..Cardinality(S) : Ith(S, i) \in S
           /\ \A i, j \in 1..Cardinality(S) : i < j => Ith(S, i) < Ith(S, j)
           /\ \A c \in S : \E i \in 1..Cardinality(S) : Ith(S, i) = c
<1> DEFINE upTo(c) == {d \in S : d <= c}
           rank == [c \in S |-> Cardinality(upTo(c))]
<1>1. Cardinality(S) \in Nat  BY FS_CardinalityType
<1>2. \A c \in S : IsFiniteSet(upTo(c)) /\ Cardinality(upTo(c)) \in Nat
                   /\ Cardinality(upTo(c)) <= Cardinality(S)
    BY FS_Subset, FS_CardinalityType
<1>3. \A c \in S : Cardinality(upTo(c)) # 0
  <2> SUFFICES ASSUME NEW c \in S
               PROVE  Cardinality(upTo(c)) # 0
      OBVIOUS
  <2>1. c \in upTo(c)  OBVIOUS
  <2> QED  BY <1>2, <2>1, FS_EmptySet
<1>4. \A b, c \in S : b < c => Cardinality(upTo(b)) < Cardinality(upTo(c))
  <2> SUFFICES ASSUME NEW b \in S, NEW c \in S, b < c
               PROVE  Cardinality(upTo(b)) < Cardinality(upTo(c))
      OBVIOUS
  <2>1. \A d \in S : d <= b => d <= c  OBVIOUS
  <2>2. upTo(b) \in SUBSET upTo(c)  BY <2>1
  <2>3. c \in upTo(c) /\ c \notin upTo(b)  OBVIOUS
  <2>4. Cardinality(upTo(b)) <= Cardinality(upTo(c))  BY <1>2, <2>2, FS_Subset
  <2>5. Cardinality(upTo(b)) # Cardinality(upTo(c))  BY <1>2, <2>2, <2>3, FS_Subset
  <2> QED  BY <1>2, <2>4, <2>5
<1>5. rank \in [S -> 1..Cardinality(S)]  BY <1>1, <1>2, <1>3
<1>6. rank \in Injection(S, 1..Cardinality(S))
  <2>1. \A b, c \in S : rank[b] = rank[c] => b = c
    <3> SUFFICES ASSUME NEW b \in S, NEW c \in S, rank[b] = rank[c]
                 PROVE  b = c
        OBVIOUS
    <3>1. Cardinality(upTo(b)) = Cardinality(upTo(c))  OBVIOUS
    <3>2. ~(b < c) /\ ~(c < b)  BY <1>2, <1>4, <3>1
    <3> QED  BY <3>2
  <2> QED  BY <1>5, <2>1 DEF Injection, IsInjective
<1>7. IsFiniteSet(1..Cardinality(S)) /\ Cardinality(1..Cardinality(S)) = Cardinality(S)
    BY <1>1, FS_Interval
<1>8. rank \in Surjection(S, 1..Cardinality(S))  BY <1>6, <1>7, FS_Injection
<1>9. \A i \in 1..Cardinality(S) : Ith(S, i) \in S /\ Cardinality(upTo(Ith(S, i))) = i
  <2> SUFFICES ASSUME NEW i \in 1..Cardinality(S)
               PROVE  Ith(S, i) \in S /\ Cardinality(upTo(Ith(S, i))) = i
      OBVIOUS
  <2>1. \E c \in S : rank[c] = i  BY <1>8 DEF Surjection
  <2>2. \E c \in S : Cardinality({d \in S : d <= c}) = i  BY <2>1
  <2> QED  BY <2>2 DEF Ith
<1>10. ASSUME NEW i \in 1..Cardinality(S), NEW j \in 1..Cardinality(S), i < j
       PROVE  Ith(S, i) < Ith(S, j)
  <2> PICK b \in S : b = Ith(S, i)  BY <1>9
  <2> PICK c \in S : c = Ith(S, j)  BY <1>9
  <2>1. Cardinality(upTo(b)) = i /\ Cardinality(upTo(c)) = j  BY <1>9
  <2>2. ~(c < b) /\ b # c  BY <1>2, <1>4, <1>10, <2>1
  <2> QED  BY <2>2
<1>11. ASSUME NEW c \in S
       PROVE  \E i \in 1..Cardinality(S) : Ith(S, i) = c
  <2>1. PICK i \in 1..Cardinality(S) : i = Cardinality(upTo(c))  BY <1>1, <1>2, <1>3
  <2>2. PICK b \in S : b = Ith(S, i)  BY <1>9
  <2>3. Cardinality(upTo(b)) = Cardinality(upTo(c))  BY <1>9, <2>1, <2>2
  <2>4. b = c  BY <1>2, <1>4, <2>3
  <2> QED  BY <2>2, <2>4
<1> QED  BY <1>9, <1>10, <1>11

LEMMA PushedProperties ==
    ASSUME NEW n \in Nodes, TreeTypes(children, suffix_start)
    PROVE  /\ Pushed(n) \in Seq(Nodes)
           /\ \A i \in 1..Len(Pushed(n)) : \E c \in Letters :
                 children[n][c] # NULL /\ Pushed(n)[i] = children[n][c]
           /\ \A i, j \in 1..Len(Pushed(n)) : i < j =>
                 \E b, c \in Letters : /\ b < c
                                       /\ children[n][b] # NULL /\ Pushed(n)[i] = children[n][b]
                                       /\ children[n][c] # NULL /\ Pushed(n)[j] = children[n][c]
           /\ \A c \in Letters : children[n][c] # NULL =>
                 \E i \in 1..Len(Pushed(n)) : Pushed(n)[i] = children[n][c]
<1> DEFINE S == Occupied(n)
           N == Cardinality(S)
<1>1. S \in SUBSET Nat /\ S \in SUBSET Letters /\ \A c \in S : children[n][c] \in Nodes
  <2>1. Letters \subseteq Nat  BY SizeAssumption DEF Letters
  <2>2. S \subseteq Letters  BY DEF Occupied
  <2>3. \A c \in S : children[n][c] \in Nodes  BY DEF Occupied, TreeTypes
  <2> QED  BY <2>1, <2>2, <2>3
<1>2. IsFiniteSet(S)
  <2>1. IsFiniteSet(Letters)  BY FS_Interval, SizeAssumption DEF Letters
  <2> QED  BY <1>1, <2>1, FS_Subset
<1>3. N \in Nat  BY <1>2, FS_CardinalityType
<1>4. /\ \A i \in 1..N : Ith(S, i) \in S
      /\ \A i, j \in 1..N : i < j => Ith(S, i) < Ith(S, j)
      /\ \A c \in S : \E i \in 1..N : Ith(S, i) = c
    BY <1>1, <1>2, IthProperties
<1>5. \A c \in Letters : c \in S <=> children[n][c] # NULL  BY DEF Occupied
<1>6. Pushed(n) = [i \in 1..N |-> children[n][Ith(S, i)]]  BY DEF Pushed
<1> HIDE DEF S, N
<1>7. Pushed(n) \in [1..N -> Nodes]  BY <1>1, <1>4, <1>6
<1>8. Pushed(n) \in Seq(Nodes) /\ Len(Pushed(n)) = N
  <2>1. Pushed(n) \in Seq(Nodes)  BY <1>3, <1>7, SeqDef
  <2> QED  BY <1>3, <1>7, <2>1, LenProperties
<1>9. \A i \in 1..N : Pushed(n)[i] = children[n][Ith(S, i)]  BY <1>6
<1>10. \A i \in 1..N : \E c \in Letters : children[n][c] # NULL /\ Pushed(n)[i] = children[n][c]
    BY <1>1, <1>4, <1>5, <1>9
<1>11. \A i, j \in 1..N : i < j =>
          \E b, c \in Letters : /\ b < c
                                /\ children[n][b] # NULL /\ Pushed(n)[i] = children[n][b]
                                /\ children[n][c] # NULL /\ Pushed(n)[j] = children[n][c]
    BY <1>1, <1>4, <1>5, <1>9
<1>12. \A c \in Letters : children[n][c] # NULL =>
          \E i \in 1..N : Pushed(n)[i] = children[n][c]
    BY <1>4, <1>5, <1>9
<1> QED  BY <1>8, <1>10, <1>11, <1>12

-----------------------------------------------------------------------------
(* Steps that leave the tree alone *)

LEMMA QuietFrame ==
    ASSUME Inv, NEW t \in Threads, Others(t), Moves(t), Types', PlaceOK(t)',
           UNCHANGED <<children, suffix_start>>, Values'
    PROVE  Inv'
<1>1. Tree'  BY DEF Inv, Tree
<1>2. Grows(children, suffix_start, children', suffix_start', Held(t))  BY NoChange
<1> QED  BY <1>1, <1>2, StepFrame

LEMMA CallKeepsInv ==
    ASSUME Inv, NEW t \in Threads, NEW label \in {"insert", "lookup"}, NEW k \in CallKeys,
           Call(t, label, k)
    PROVE  Inv'
<1> USE DEF Call, Goto, trieVars, visitVars
<1>1. k \in Keys  BY KeyAssumption
<1>2. Types'
  <2>1. root \in Nodes /\ 0 \in 0..key_size  BY RootIsNode, SizeAssumption
  <2>2. calls' \in 0..MaxCalls  BY BoundAssumption DEF Inv, Types
  <2> QED  BY <1>1, <2>1, <2>2 DEF Inv, Types
<1>3. Others(t)  BY DEF Others
<1>4. Moves(t)  BY DEF Moves, Held, Inv, Types
<1>5. PlaceOK(t)'
  <2>1. /\ pc'[t] = label /\ key'[t] = k /\ key_cursor'[t] = 0 /\ tree_cursor'[t] = root
        /\ parent'[t] = root
      BY DEF Inv, Types
  <2>2. Prefix(root, 0) = root /\ Prefix(k, 0) = root /\ Len(root) = 0
      BY <1>1, PrefixWhole, RootIsNode, KeyIsNode
  <2>3. Inner(children, root)  BY DEF Inner
  <2> QED  BY <1>1, <2>1, <2>2, <2>3 DEF PlaceOK, Place, AtLookup
<1>6. Values'  BY DEF Inv, Values
<1> QED  BY <1>2, <1>3, <1>4, <1>5, <1>6, QuietFrame

LEMMA RefuseKeepsInv ==
    ASSUME Inv, NEW t \in Threads, Refuse(t)
    PROVE  Inv'
<1> USE DEF Refuse, trieVars, cursorVars, visitVars
<1>1. Types'
  <2>1. calls' \in 0..MaxCalls  BY BoundAssumption DEF Inv, Types
  <2> QED  BY <2>1 DEF Inv, Types
<1>2. Others(t)  BY DEF Others
<1>3. Moves(t)  BY DEF Moves, Held
<1>4. PlaceOK(t)'  BY DEF Inv, PlaceOK
<1>5. Values'  BY DEF Inv, Values
<1> QED  BY <1>1, <1>2, <1>3, <1>4, <1>5, QuietFrame

LEMMA LockRootKeepsInv ==
    ASSUME Inv, NEW t \in Threads, LockRoot(t)
    PROVE  Inv'
<1> USE DEF LockRoot, Goto, trieVars, cursorVars, visitVars
<1>1. root \in Nodes /\ t # NULL  BY RootIsNode, NullAssumption
<1>2. Types'  BY <1>1 DEF Inv, Types
<1>3. Others(t)  BY DEF Others
<1>4. /\ key[t] \in Keys /\ key_cursor[t] = 0 /\ tree_cursor[t] = root /\ parent[t] = root
    BY DEF Inv, PlaceOK, Place
<1>5. pc'[t] = "at_node"  BY DEF Inv, Types
<1>6. Held(t) = {} /\ Held(t)' = {root}  BY <1>4, <1>5 DEF Held
<1>7. Moves(t)  BY <1>6 DEF Moves, Free, Inv, Types
<1>8. PlaceOK(t)'
  <2>1. Prefix(key[t], 0) = root  BY <1>4, PrefixWhole, KeyIsNode
  <2>2. Inner(children, root)  BY DEF Inner
  <2>3. suffix_start[root] = 0  BY <1>1, <2>2, InnerIsShort DEF Inv, Tree
  <2> QED  BY <1>4, <1>5, <2>1, <2>2, <2>3, SizeAssumption DEF PlaceOK, Place, AtNode
<1>9. Values'  BY DEF Inv, Values
<1> QED  BY <1>2, <1>3, <1>7, <1>8, <1>9, QuietFrame

\* What a thread that holds its cursor and its parent knows.
LEMMA AtNodeFacts ==
    ASSUME Inv, NEW t \in Threads, pc[t] = "at_node"
    PROVE  /\ key[t] \in Keys
           /\ key_cursor[t] \in Nat
           /\ key_cursor[t] < key_size
           /\ tree_cursor[t] \in Nodes /\ parent[t] \in Nodes
           /\ Letter(t) \in Letters
           /\ AtNode(children, suffix_start, key[t], key_cursor[t], tree_cursor[t], parent[t])
           /\ Held(t) = {parent[t], tree_cursor[t]}
           /\ Here(t) = Prefix(key[t], key_cursor[t]) /\ Here(t) \in Nodes
           /\ Len(Here(t)) = key_cursor[t]
<1>1. AtNode(children, suffix_start, key[t], key_cursor[t], tree_cursor[t], parent[t])
    BY DEF Inv, PlaceOK, Place
<1>2. key[t] \in Keys /\ key_cursor[t] < key_size  BY <1>1 DEF AtNode
<1>3. key_cursor[t] \in Nat /\ tree_cursor[t] \in Nodes /\ parent[t] \in Nodes
    BY SizeAssumption DEF Inv, Types
<1>4. key[t] \in Nodes /\ Len(key[t]) = key_size  BY <1>2, KeyIsNode
<1>5. Letter(t) \in Letters  BY <1>2, <1>3, <1>4, LetterOfNode, SizeAssumption DEF Letter
<1>6. Held(t) = {parent[t], tree_cursor[t]}  BY DEF Held
<1>7. key_cursor[t] \in 0..Len(key[t])  BY <1>2, <1>3, <1>4, SizeAssumption
<1>8. Here(t) = Prefix(key[t], key_cursor[t])  BY DEF Here, Prefix
<1>9. Here(t) \in Nodes /\ Len(Here(t)) = key_cursor[t]
    BY <1>4, <1>7, <1>8, PrefixProperties
<1> QED  BY <1>1, <1>2, <1>3, <1>5, <1>6, <1>8, <1>9

LEMMA LeafHasNoChild ==
    ASSUME Inv, NEW n \in Nodes, IsLeaf(n)
    PROVE  n \in Keys /\ \A c \in Letters : children[n][c] = NULL
<1>1. n \in Keys  BY DEF Inv, Tree, TreeOK, LeafOK, IsLeaf
<1>2. ~Inner(children, n)  BY <1>1, InnerIsShort DEF Inv, Tree
<1> QED  BY <1>1, <1>2 DEF Inner

LEMMA DescendKeepsInv ==
    ASSUME Inv, NEW t \in Threads, Descend(t)
    PROVE  Inv'
<1> USE DEF Descend, Goto, trieVars, visitVars
<1> DEFINE tc == tree_cursor[t]
<1>1. /\ key[t] \in Keys /\ key_cursor[t] < key_size
      /\ tc \in Nodes /\ parent[t] \in Nodes /\ Letter(t) \in Letters
      /\ AtNode(children, suffix_start, key[t], key_cursor[t], tc, parent[t])
      /\ Held(t) = {parent[t], tc}
    BY AtNodeFacts
<1>2. Child(t) \in Nodes  BY <1>1 DEF Child, Inv, Types, TreeTypes
<1>3. Types'  BY <1>1, <1>2 DEF Inv, Types, Unlocked
<1>4. Others(t)  BY DEF Others
<1>5. pc'[t] = "at_child" /\ parent'[t] = tc /\ tree_cursor'[t] = Child(t)
    BY DEF Inv, Types
<1>6. Held(t)' = {tc}  BY <1>5 DEF Held
<1>7. Moves(t)
  <2>1. \A n \in Nodes : trie_node_mutex'[n] = IF n \in Released(t) THEN NULL ELSE trie_node_mutex[n]
      BY DEF Unlocked
  <2>2. trie_node_mutex[tc] = t  BY <1>1 DEF Inv, Mutexes
  <2> QED  BY <1>1, <1>6, <2>1, <2>2 DEF Moves, Released
<1>8. PlaceOK(t)'
  <2>1. ~IsLeaf(tc)  BY <1>1, LeafHasNoChild DEF Child
  <2>2. tc = Prefix(key[t], key_cursor[t]) /\ Inner(children, tc)
      BY <1>1, <2>1 DEF AtNode, IsLeaf
  <2>3. AtChild(children, key[t], key_cursor[t], Child(t), tc)
      BY <1>1, <2>2 DEF AtChild, Child, Letter
  <2> QED  BY <1>5, <2>3 DEF PlaceOK, Place
<1>9. Values'  BY DEF Inv, Values
<1> QED  BY <1>3, <1>4, <1>7, <1>8, <1>9, QuietFrame

\* One letter further down from an internal node on the way of a key.
LEMMA OneLetterDown ==
    ASSUME NEW ch, NEW ss, TreeOK(ch, ss),
           NEW k \in Keys, NEW d \in Nat, d < key_size, Inner(ch, Prefix(k, d)),
           NEW m \in Nodes, m = ch[Prefix(k, d)][k[d + 1]]
    PROVE  /\ Prefix(m, d + 1) = Prefix(k, d + 1)
           /\ Prefix(m, d) = Prefix(k, d)
           /\ d + 1 <= Len(m)
           /\ ss[m] > 0 => ss[m] = d + 1 /\ m \in Keys
           /\ ss[m] = 0 => m = Prefix(k, d + 1) /\ Inner(ch, m)
<1> DEFINE n == Prefix(k, d)
           c == k[d + 1]
<1>1. k \in Nodes /\ Len(k) = key_size /\ key_size \in Nat /\ m # NULL
    BY KeyIsNode, SizeAssumption, NullAssumption
<1>2. n \in Nodes /\ Len(n) = d /\ c \in Letters  BY <1>1, PrefixProperties, LetterOfNode
<1>3. ChildOK(ch, ss, n, c, m)  BY <1>1, <1>2 DEF TreeOK
<1>4. Len(m) \in Nat /\ d < Len(m) /\ Prefix(m, d) = n /\ m[d + 1] = c
    BY <1>1, <1>2, <1>3, NodeIsSeq DEF ChildOK
<1>5. Prefix(m, d + 1) = Prefix(k, d + 1)
  <2>1. Prefix(k, d) = Prefix(m, d) /\ k[d + 1] = m[d + 1] /\ d < Len(k)  BY <1>1, <1>4
  <2> QED  BY <1>1, <1>4, <2>1, PrefixGrows
<1>6. ss[m] > 0 => ss[m] = d + 1 /\ m \in Keys
    BY <1>2, <1>3 DEF ChildOK, TreeOK, LeafOK
<1>7. ASSUME ss[m] = 0
      PROVE  m = Prefix(k, d + 1) /\ Inner(ch, m)
  <2>1. Inner(ch, m) /\ Len(m) = d + 1  BY <1>2, <1>3, <1>7 DEF ChildOK
  <2> QED  BY <1>5, <2>1, PrefixWhole
<1> QED  BY <1>4, <1>5, <1>6, <1>7

\* Of two keys with the same first letters, the rest decides.
LEMMA MatchesIsEqual ==
    ASSUME NEW t \in Threads, key[t] \in Keys, NEW leaf \in Keys,
           key_cursor[t] \in 0..key_size,
           Prefix(leaf, key_cursor[t]) = Prefix(key[t], key_cursor[t])
    PROVE  Matches(t, leaf) <=> leaf = key[t]
<1>1. /\ key[t] \in Nodes /\ leaf \in Nodes
      /\ Len(key[t]) = key_size /\ Len(leaf) = key_size /\ key_size \in Nat
    BY KeyIsNode, SizeAssumption
<1>2. \A i \in 1..key_cursor[t] : leaf[i] = key[t][i]  BY <1>1, SamePrefix
<1>3. ASSUME Matches(t, leaf)
      PROVE  leaf = key[t]
  <2>1. \A i \in 1..Len(leaf) : leaf[i] = key[t][i]  BY <1>1, <1>2, <1>3 DEF Matches
  <2> QED  BY <1>1, <2>1, SameLetters
<1> QED  BY <1>3 DEF Matches

\* What a thread that waits for the mutex of a child knows.
LEMMA AtChildFacts ==
    ASSUME Inv, NEW t \in Threads, pc[t] = "at_child"
    PROVE  LET k == key[t]
               d == key_cursor[t]
               m == tree_cursor[t]
           IN /\ k \in Keys /\ d \in Nat /\ d < key_size /\ m \in Nodes /\ parent[t] \in Nodes
              /\ parent[t] = Prefix(k, d) /\ Inner(children, parent[t])
              /\ Held(t) = {parent[t]}
              /\ parent[t] # m
              /\ Prefix(m, d + 1) = Prefix(k, d + 1)
              /\ IsLeaf(m) => suffix_start[m] = d + 1 /\ m \in Keys /\ (Matches(t, m) <=> m = k)
              /\ ~IsLeaf(m) => m = Prefix(k, d + 1) /\ Inner(children, m)
<1> DEFINE k == key[t]
           d == key_cursor[t]
           m == tree_cursor[t]
<1>1. AtChild(children, k, d, m, parent[t])  BY DEF Inv, PlaceOK, Place
<1>2. d \in Nat /\ d \in 0..key_size /\ m \in Nodes /\ parent[t] \in Nodes
    BY SizeAssumption DEF Inv, Types
<1>3. k \in Keys /\ d < key_size /\ parent[t] = Prefix(k, d) /\ Inner(children, parent[t])
      /\ m = children[parent[t]][k[d + 1]]
    BY <1>1 DEF AtChild
<1>4. TreeOK(children, suffix_start)  BY DEF Inv, Tree
<1>5. /\ Prefix(m, d + 1) = Prefix(k, d + 1)
      /\ Prefix(m, d) = Prefix(k, d)
      /\ d + 1 <= Len(m)
      /\ suffix_start[m] > 0 => suffix_start[m] = d + 1 /\ m \in Keys
      /\ suffix_start[m] = 0 => m = Prefix(k, d + 1) /\ Inner(children, m)
    BY <1>2, <1>3, <1>4, OneLetterDown
<1>6. IsLeaf(m) => (Matches(t, m) <=> m = k)  BY <1>2, <1>3, <1>5, MatchesIsEqual DEF IsLeaf
<1>7. ~IsLeaf(m) => suffix_start[m] = 0
    BY <1>2, SizeAssumption DEF IsLeaf, Inv, Types, TreeTypes
<1>8. parent[t] # m
  <2>1. d \in 0..Len(k) /\ k \in Nodes  BY <1>2, <1>3, KeyIsNode
  <2>2. Len(parent[t]) = d  BY <1>3, <2>1, PrefixProperties
  <2> QED  BY <1>2, <1>5, <2>2
<1>9. Held(t) = {parent[t]}  BY DEF Held
<1> QED  BY <1>2, <1>3, <1>5, <1>6, <1>7, <1>8, <1>9 DEF IsLeaf

LEMMA LockChildKeepsInv ==
    ASSUME Inv, NEW t \in Threads, LockChild(t)
    PROVE  Inv'
<1> USE DEF LockChild, Goto, trieVars, visitVars
<1> DEFINE k == key[t]
           d == key_cursor[t]
           m == tree_cursor[t]
           p == parent[t]
<1>1. /\ k \in Keys /\ d \in Nat /\ d < key_size /\ m \in Nodes /\ p \in Nodes
      /\ p = Prefix(k, d) /\ Inner(children, p)
      /\ Held(t) = {p}
      /\ Prefix(m, d + 1) = Prefix(k, d + 1)
      /\ IsLeaf(m) => suffix_start[m] = d + 1 /\ m \in Keys /\ (Matches(t, m) <=> m = k)
      /\ ~IsLeaf(m) => m = Prefix(k, d + 1) /\ Inner(children, m)
    BY AtChildFacts
<1>2. d + 1 \in 0..key_size  BY <1>1, SizeAssumption
<1>3. Types'  BY <1>1, <1>2 DEF Inv, Types
<1>4. Others(t)  BY DEF Others
<1>5. pc'[t] = "at_node" /\ key_cursor'[t] = d + 1  BY DEF Inv, Types
<1>6. Held(t)' = {p, m}  BY <1>5 DEF Held
<1>7. Moves(t)
  <2>1. \A n \in Nodes : trie_node_mutex'[n] = IF n = m THEN t ELSE trie_node_mutex[n]
      BY <1>1 DEF Inv, Types
  <2>2. trie_node_mutex[p] = t  BY <1>1 DEF Inv, Mutexes
  <2> QED  BY <1>1, <1>6, <2>1, <2>2 DEF Moves, Free
<1>8. AtNode(children, suffix_start, k, d + 1, m, p)
  <2>1. IsLeaf(m) => m # k  BY <1>1
  <2>2. d + 1 < key_size
    <3>1. CASE IsLeaf(m)
      BY <1>1, <1>2, <2>1, <3>1, KeysDiffer
    <3>2. CASE ~IsLeaf(m)
      <4>1. Len(m) = d + 1  BY <1>1, <1>2, <3>2, KeyIsNode, PrefixProperties
      <4> QED  BY <1>1, <3>2, <4>1, InnerIsShort DEF Inv, Tree
    <3> QED  BY <3>1, <3>2
  <2>3. (d + 1) - 1 = d  BY <1>1
  <2> QED  BY <1>1, <2>1, <2>2, <2>3 DEF AtNode, IsLeaf
<1>9. PlaceOK(t)'  BY <1>5, <1>8 DEF PlaceOK, Place
<1>10. Values'  BY DEF Inv, Values
<1> QED  BY <1>3, <1>4, <1>7, <1>9, <1>10, QuietFrame

LEMMA MergeKeepsInv ==
    ASSUME Inv, NEW t \in Threads, Merge(t)
    PROVE  Inv'
<1> USE DEF Merge, Goto, Returns, cursorVars, visitVars
<1>1. /\ tree_cursor[t] \in Keys /\ tree_cursor[t] \in Nodes /\ parent[t] \in Nodes
      /\ Held(t) = {parent[t]}
    BY AtChildFacts
<1>2. Types'  BY <1>1 DEF Inv, Types, Unlocked
<1>3. Others(t)  BY DEF Others
<1>4. pc'[t] = "idle"  BY DEF Inv, Types
<1>5. Held(t)' = {}  BY <1>4 DEF Held
<1>6. Moves(t)
  <2>1. \A n \in Nodes : trie_node_mutex'[n] = IF n \in {parent[t], tree_cursor[t]} THEN NULL
                                               ELSE trie_node_mutex[n]
      BY DEF Unlocked
  <2> QED  BY <1>1, <1>5, <2>1 DEF Moves, Free
<1>7. PlaceOK(t)'  BY <1>4 DEF PlaceOK, Place
<1>8. Values'
  <2>1. value[tree_cursor[t]] \in Nat /\ value[tree_cursor[t]] > 0
      BY <1>1 DEF Inv, Types, Values, IsLeaf
  <2>2. \A n \in Nodes : value'[n] = IF n = tree_cursor[t] THEN value[n] + 1 ELSE value[n]
      BY <1>1 DEF Inv, Types
  <2> QED  BY <2>1, <2>2 DEF Inv, Values
<1> QED  BY <1>2, <1>3, <1>6, <1>7, <1>8, QuietFrame

\* What a thread in lookup knows.
LEMMA LookupFacts ==
    ASSUME Inv, NEW t \in Threads, pc[t] = "lookup"
    PROVE  LET k == key[t]
               d == key_cursor[t]
               m == tree_cursor[t]
           IN /\ k \in Keys /\ d \in Nat /\ m \in Nodes
              /\ IsLeaf(m) => m \in Keys /\ (Matches(t, m) <=> m = k)
              /\ ~IsLeaf(m) => /\ d < key_size /\ Letter(t) \in Letters
                               /\ m = Prefix(k, d) /\ Inner(children, m)
<1> DEFINE k == key[t]
           d == key_cursor[t]
           m == tree_cursor[t]
<1>1. AtLookup(children, suffix_start, k, d, m)  BY DEF Inv, PlaceOK, Place
<1>2. d \in Nat /\ d \in 0..key_size /\ m \in Nodes  BY SizeAssumption DEF Inv, Types
<1>3. k \in Keys /\ Prefix(m, d) = Prefix(k, d)  BY <1>1 DEF AtLookup
<1>4. TreeOK(children, suffix_start)  BY DEF Inv, Tree
<1>5. IsLeaf(m) => m \in Keys  BY <1>2, LeafHasNoChild
<1>6. IsLeaf(m) => (Matches(t, m) <=> m = k)  BY <1>2, <1>3, <1>5, MatchesIsEqual
<1>7. ASSUME ~IsLeaf(m)
      PROVE  d < key_size /\ Letter(t) \in Letters /\ m = Prefix(k, d) /\ Inner(children, m)
  <2>1. suffix_start[m] = 0
      BY <1>2, <1>7, SizeAssumption DEF IsLeaf, Inv, Types, TreeTypes
  <2>2. m = Prefix(k, d) /\ Inner(children, m)  BY <1>1, <2>1 DEF AtLookup
  <2>3. k \in Nodes /\ Len(k) = key_size /\ d \in 0..Len(k)  BY <1>2, <1>3, KeyIsNode
  <2>4. Len(m) = d  BY <2>2, <2>3, PrefixProperties
  <2>5. d < key_size  BY <1>2, <1>4, <2>2, <2>4, InnerIsShort
  <2>6. Letter(t) \in Letters  BY <1>2, <2>3, <2>5, LetterOfNode, SizeAssumption DEF Letter
  <2> QED  BY <2>2, <2>5, <2>6
<1> QED  BY <1>2, <1>3, <1>5, <1>6, <1>7

LEMMA LookupReturnsKeepsInv ==
    ASSUME Inv, NEW t \in Threads, LookupLeaf(t) \/ LookupMissing(t)
    PROVE  Inv'
<1> USE DEF LookupLeaf, LookupMissing, Goto, Returns, trieVars, cursorVars, visitVars
<1>1. IsLeaf(tree_cursor[t]) => tree_cursor[t] \in Keys
    BY LookupFacts
<1>2. Types'
  <2>1. answer' \in [Threads -> Keys \cup {NULL, ERROR}]  BY <1>1 DEF Inv, Types
  <2> QED  BY <2>1 DEF Inv, Types
<1>3. Others(t)
  <2>1. UNCHANGED <<key, key_cursor, tree_cursor, parent, keep_root_locked, node_stack>>
      OBVIOUS
  <2>2. pc' = [pc EXCEPT ![t] = "idle"]  OBVIOUS
  <2> QED  BY <2>1, <2>2 DEF Others
<1>4. pc'[t] = "idle"  BY DEF Inv, Types
<1>5. Held(t) = {} /\ Held(t)' = {}  BY <1>4 DEF Held
<1>6. Moves(t)  BY <1>5 DEF Moves
<1>7. PlaceOK(t)'  BY <1>4 DEF PlaceOK, Place
<1>8. Values'  BY DEF Inv, Values
<1> QED  BY <1>2, <1>3, <1>6, <1>7, <1>8, QuietFrame

LEMMA LookupChildKeepsInv ==
    ASSUME Inv, NEW t \in Threads, LookupChild(t)
    PROVE  Inv'
<1> USE DEF LookupChild, Goto, trieVars, visitVars
<1> DEFINE k == key[t]
           d == key_cursor[t]
           n == tree_cursor[t]
           m == Child(t)
<1>1. /\ k \in Keys /\ d \in Nat /\ n \in Nodes
      /\ d < key_size /\ Letter(t) \in Letters
      /\ n = Prefix(k, d) /\ Inner(children, n)
    BY LookupFacts
<1>2. m \in Nodes /\ m = children[Prefix(k, d)][k[d + 1]]
    BY <1>1 DEF Child, Letter, Inv, Types, TreeTypes
<1>3. d + 1 \in 0..key_size  BY <1>1, SizeAssumption
<1>4. Types'  BY <1>1, <1>2, <1>3 DEF Inv, Types
<1>5. Others(t)  BY DEF Others
<1>6. pc'[t] = "lookup" /\ key_cursor'[t] = d + 1 /\ tree_cursor'[t] = m
    BY DEF Inv, Types
<1>7. Held(t) = {} /\ Held(t)' = {}  BY <1>6 DEF Held
<1>8. Moves(t)  BY <1>7 DEF Moves
<1>9. AtLookup(children, suffix_start, k, d + 1, m)
  <2>1. TreeOK(children, suffix_start)  BY DEF Inv, Tree
  <2> QED  BY <1>1, <1>2, <2>1, OneLetterDown DEF AtLookup
<1>10. PlaceOK(t)'  BY <1>6, <1>9 DEF PlaceOK, Place
<1>11. Values'  BY DEF Inv, Values
<1> QED  BY <1>4, <1>5, <1>8, <1>10, <1>11, QuietFrame
-----------------------------------------------------------------------------
(* The steps of traverse *)

LEMMA StartTraversalKeepsInv ==
    ASSUME Inv, NEW t \in Threads, NEW keep \in BOOLEAN, StartTraversal(t, keep)
    PROVE  Inv'
<1> USE DEF StartTraversal, Goto, trieVars, cursorVars
<1>1. <<root>> \in Seq(Nodes) /\ <<>> \in Seq(Keys)  BY RootIsNode, EmptySeq
<1>2. Types'
  <2>1. calls' \in 0..MaxCalls  BY BoundAssumption DEF Inv, Types
  <2> QED  BY <1>1, <2>1 DEF Inv, Types
<1>3. Others(t)  BY DEF Others
<1>4. pc'[t] = "traverse" /\ node_stack'[t] = <<root>>  BY DEF Inv, Types
<1>5. Held(t) = {} /\ Held(t)' = {}  BY <1>4 DEF Held
<1>6. Moves(t)  BY <1>5 DEF Moves
<1>7. PlaceOK(t)'  BY <1>4 DEF PlaceOK, Place, StackOK
<1>8. Values'  BY DEF Inv, Values
<1> QED  BY <1>2, <1>3, <1>6, <1>7, <1>8, QuietFrame

\* What a traversing thread knows of its stack.
LEMMA StackFacts ==
    ASSUME Inv, NEW t \in Threads, pc[t] = "traverse", node_stack[t] # <<>>
    PROVE  LET stack == node_stack[t]
               cursor == Head(stack)
           IN /\ stack \in Seq(Nodes) /\ Len(stack) \in Nat /\ Len(stack) > 0
              /\ cursor \in Nodes /\ cursor = stack[1]
              /\ Tail(stack) \in Seq(Nodes) /\ Len(Tail(stack)) = Len(stack) - 1
              /\ \A i \in 1..Len(Tail(stack)) : Tail(stack)[i] = stack[i + 1]
              /\ IsLeaf(cursor) => cursor \in Keys /\ stack # <<root>>
              /\ ~IsLeaf(cursor) => Inner(children, cursor)
              /\ stack # <<root>> =>
                    \A i \in 1..Len(stack) :
                       stack[i] # root /\ Live(children, suffix_start, stack[i])
<1> DEFINE stack == node_stack[t]
           cursor == Head(stack)
<1>1. stack \in Seq(Nodes)  BY DEF Inv, Types
<1>2. Len(stack) \in Nat /\ Len(stack) > 0  BY <1>1, EmptySeq
<1>3. cursor = stack[1] /\ cursor \in Nodes  BY <1>1, <1>2, ElementOfSeq
<1>4. /\ Tail(stack) \in Seq(Nodes) /\ Len(Tail(stack)) = Len(stack) - 1
      /\ \A i \in 1..Len(Tail(stack)) : Tail(stack)[i] = stack[i + 1]
    BY <1>1, HeadTailProperties
<1>5. StackOK(children, suffix_start, stack)  BY DEF Inv, PlaceOK, Place
<1>6. stack # <<root>> => \A i \in 1..Len(stack) :
                             stack[i] # root /\ Live(children, suffix_start, stack[i])
    BY <1>5 DEF StackOK
<1>7. Inner(children, root) /\ ~IsLeaf(root)
    BY RootIsNode, LeafHasNoChild DEF Inner
<1>8. IsLeaf(cursor) => cursor \in Keys /\ stack # <<root>>
    BY <1>3, <1>7, LeafHasNoChild
<1>9. ~IsLeaf(cursor) => Inner(children, cursor)
  <2>1. CASE stack = <<root>>
    BY <1>7, <2>1
  <2>2. CASE stack # <<root>>
    <3>1. Live(children, suffix_start, stack[1])  BY <1>2, <1>6, <2>2
    <3> QED  BY <1>3, <3>1 DEF Live, IsLeaf
  <2> QED  BY <2>1, <2>2
<1> QED  BY <1>1, <1>2, <1>3, <1>4, <1>6, <1>8, <1>9

LEMMA VisitLeafKeepsInv ==
    ASSUME Inv, NEW t \in Threads, VisitLeaf(t)
    PROVE  Inv'
<1> USE DEF VisitLeaf, trieVars, cursorVars
<1> DEFINE stack == node_stack[t]
<1>1. /\ stack \in Seq(Nodes) /\ Len(stack) \in Nat /\ Len(stack) > 0
      /\ Tail(stack) \in Seq(Nodes) /\ Len(Tail(stack)) = Len(stack) - 1
      /\ \A i \in 1..Len(Tail(stack)) : Tail(stack)[i] = stack[i + 1]
      /\ Head(stack) \in Keys /\ stack # <<root>>
      /\ \A i \in 1..Len(stack) : stack[i] # root /\ Live(children, suffix_start, stack[i])
    BY StackFacts
<1>2. Types'
  <2>1. visited[t] \in Seq(Keys)  BY DEF Inv, Types
  <2>2. Append(visited[t], Head(stack)) \in Seq(Keys)  BY <1>1, <2>1, AppendProperties
  <2>3. visited' \in [Threads -> Seq(Keys)]  BY <2>2 DEF Inv, Types
  <2>4. node_stack' \in [Threads -> Seq(Nodes)]  BY <1>1 DEF Inv, Types
  <2> QED  BY <2>3, <2>4 DEF Inv, Types
<1>3. Others(t)  BY DEF Others
<1>4. node_stack'[t] = Tail(stack)  BY DEF Inv, Types
<1>5. \A i \in 1..Len(Tail(stack)) :
         Tail(stack)[i] # root /\ Live(children, suffix_start, Tail(stack)[i])
    BY <1>1
<1>6. Tail(stack) # <<root>>
  <2> SUFFICES ASSUME Tail(stack) = <<root>>
               PROVE  FALSE
      OBVIOUS
  <2>1. Len(<<root>>) = 1 /\ <<root>>[1] = root  OBVIOUS
  <2>2. Len(Tail(stack)) = 1 /\ Tail(stack)[1] = root  BY <2>1, Zenon
  <2>3. 1 \in 1..1  OBVIOUS
  <2> QED  BY <1>5, <2>2, <2>3, Zenon
<1>7. Held(t)' = Held(t)  BY <1>1, <1>4, <1>6 DEF Held
<1>8. Moves(t)  BY <1>7 DEF Moves, Inv, Mutexes
<1>9. PlaceOK(t)'  BY <1>4, <1>5 DEF PlaceOK, Place, StackOK
<1>10. Values'  BY DEF Inv, Values
<1> QED  BY <1>2, <1>3, <1>8, <1>9, <1>10, QuietFrame

LEMMA NotRootStack ==
    ASSUME NEW s, \A i \in 1..Len(s) : s[i] # root
    PROVE  s # <<root>>
<1>1. Len(<<root>>) = 1 /\ <<root>>[1] = root /\ 1 \in 1..1  OBVIOUS
<1> QED  BY <1>1, Zenon

\* The children of an internal node are in the tree, and none of them is the root.
LEMMA PushedIsLive ==
    ASSUME Inv, NEW n \in Nodes, NEW i \in 1..Len(Pushed(n))
    PROVE  Pushed(n)[i] # root /\ Live(children, suffix_start, Pushed(n)[i])
<1>1. PICK c \in Letters : children[n][c] # NULL /\ Pushed(n)[i] = children[n][c]
    BY PushedProperties DEF Inv, Types
<1> DEFINE m == children[n][c]
<1>2. m \in Nodes /\ ChildOK(children, suffix_start, n, c, m)
    BY <1>1 DEF Inv, Types, TreeTypes, Tree, TreeOK
<1>3. Len(n) \in Nat /\ Len(n) < Len(m)  BY <1>2, NodeIsSeq, SizeAssumption DEF ChildOK
<1>4. m # root  BY <1>3, RootIsNode
<1>5. Live(children, suffix_start, m)  BY <1>2 DEF ChildOK, Live
<1> QED  BY <1>1, <1>4, <1>5

LEMMA PushChildrenKeepsInv ==
    ASSUME Inv, NEW t \in Threads, PushChildren(t)
    PROVE  Inv'
<1> USE DEF PushChildren, trieVars, cursorVars
<1> DEFINE stack == node_stack[t]
           cursor == Head(stack)
           pushed == Pushed(cursor)
           new == pushed \o Tail(stack)
<1>1. /\ stack \in Seq(Nodes) /\ Len(stack) \in Nat /\ Len(stack) > 0
      /\ cursor \in Nodes /\ cursor = stack[1]
      /\ Tail(stack) \in Seq(Nodes) /\ Len(Tail(stack)) = Len(stack) - 1
      /\ \A i \in 1..Len(Tail(stack)) : Tail(stack)[i] = stack[i + 1]
      /\ stack # <<root>> =>
            \A i \in 1..Len(stack) : stack[i] # root /\ Live(children, suffix_start, stack[i])
    BY StackFacts
<1>2. pushed \in Seq(Nodes) /\ Len(pushed) \in Nat
    BY <1>1, PushedProperties, LenProperties DEF Inv, Types
<1>3. /\ new \in Seq(Nodes) /\ Len(new) = Len(pushed) + Len(Tail(stack))
      /\ \A i \in 1..(Len(pushed) + Len(Tail(stack))) :
            new[i] = IF i <= Len(pushed) THEN pushed[i] ELSE Tail(stack)[i - Len(pushed)]
    BY <1>1, <1>2, ConcatProperties
<1>4. stack = <<root>> => cursor = root /\ Len(stack) = 1
  <2>1. Head(<<root>>) = root /\ Len(<<root>>) = 1  OBVIOUS
  <2> QED  BY <2>1, Zenon
<1>5. stack # <<root>> => cursor # root  BY <1>1
<1>6. \A i \in 1..Len(pushed) : pushed[i] # root /\ Live(children, suffix_start, pushed[i])
    BY <1>1, PushedIsLive
<1>7. \A i \in 1..Len(Tail(stack)) :
         Tail(stack)[i] # root /\ Live(children, suffix_start, Tail(stack)[i])
    BY <1>1, <1>4
<1> HIDE DEF new, pushed
<1>8. \A i \in 1..Len(new) : new[i] # root /\ Live(children, suffix_start, new[i])
  <2> SUFFICES ASSUME NEW i \in 1..Len(new)
               PROVE  new[i] # root /\ Live(children, suffix_start, new[i])
      OBVIOUS
  <2>1. CASE i <= Len(pushed)
    <3>1. i \in 1..Len(pushed) /\ new[i] = pushed[i]  BY <1>1, <1>2, <1>3, <2>1
    <3> QED  BY <1>6, <3>1
  <2>2. CASE ~(i <= Len(pushed))
    <3>1. PICK j \in Nat : j = i - Len(pushed)  BY <1>1, <1>2, <1>3, <2>2
    <3>2. Len(Tail(stack)) \in Nat /\ Len(new) = Len(pushed) + Len(Tail(stack))
        BY <1>1, <1>3, LenProperties
    <3>3. j \in 1..Len(Tail(stack))  BY <1>2, <2>2, <3>1, <3>2
    <3>4. new[i] = Tail(stack)[i - Len(pushed)]  BY <1>3, <2>2, <3>2
    <3> QED  BY <1>7, <3>1, <3>3, <3>4
  <2> QED  BY <2>1, <2>2
<1>9. new # <<root>>  BY <1>8, NotRootStack
<1>10. node_stack' = [node_stack EXCEPT ![t] = new]  BY DEF new, pushed
<1>11. Types'
  <2>1. node_stack' \in [Threads -> Seq(Nodes)]  BY <1>3, <1>10 DEF Inv, Types
  <2>2. trie_node_mutex' \in [Nodes -> Threads \cup {NULL}]  BY RootIsNode DEF Inv, Types
  <2> QED  BY <2>1, <2>2 DEF Inv, Types
<1>12. Others(t)  BY DEF Others
<1>13. node_stack'[t] = new  BY <1>10 DEF Inv, Types
<1>14. Moves(t)
  <2>1. Held(t)' = IF keep_root_locked[t] THEN {root} ELSE {}  BY <1>9, <1>13 DEF Held
  <2>2. CASE stack = <<root>>
    <3>1. Held(t) = {} /\ Free(root)  BY <1>4, <2>2 DEF Held
    <3>2. trie_node_mutex' = IF keep_root_locked[t] THEN [trie_node_mutex EXCEPT ![root] = t]
                             ELSE trie_node_mutex
        BY <1>4, <2>2
    <3>3. \A n \in Nodes : trie_node_mutex'[n] = IF keep_root_locked[t] /\ n = root THEN t
                                                 ELSE trie_node_mutex[n]
        BY <3>2 DEF Inv, Types
    <3> QED  BY <2>1, <3>1, <3>3 DEF Moves, Free
  <2>3. CASE stack # <<root>>
    <3>1. Held(t) = IF keep_root_locked[t] THEN {root} ELSE {}  BY <2>3 DEF Held
    <3>2. trie_node_mutex' = trie_node_mutex  BY <1>5, <2>3
    <3>3. \A n \in Nodes : n \in Held(t) => trie_node_mutex[n] = t  BY DEF Inv, Mutexes
    <3> QED  BY <2>1, <3>1, <3>2, <3>3 DEF Moves
  <2> QED  BY <2>2, <2>3
<1>15. PlaceOK(t)'  BY <1>8, <1>13 DEF PlaceOK, Place, StackOK
<1>16. Values'  BY DEF Inv, Values
<1> QED  BY <1>11, <1>12, <1>14, <1>15, <1>16, QuietFrame

LEMMA TraversalReturnsKeepsInv ==
    ASSUME Inv, NEW t \in Threads, StopTraversal(t) \/ EndTraversal(t)
    PROVE  Inv'
<1>1. /\ pc[t] = "traverse" /\ pc' = [pc EXCEPT ![t] = "idle"]
      /\ trie_node_mutex' = RootAfterTraversal(t)
      /\ UNCHANGED <<children, suffix_start, value, key, key_cursor, tree_cursor, parent,
                     answer, keep_root_locked, node_stack, calls>>
    BY DEF StopTraversal, EndTraversal, Goto, trieVars, cursorVars, visitVars
<1>2. visited' \in [Threads -> Seq(Keys)]
  <2>1. CASE StopTraversal(t)
    <3>1. Head(node_stack[t]) \in Keys  BY <1>1, <2>1, StackFacts DEF StopTraversal
    <3>2. visited[t] \in Seq(Keys)  BY DEF Inv, Types
    <3>3. Append(visited[t], Head(node_stack[t])) \in Seq(Keys)
        BY <3>1, <3>2, AppendProperties
    <3> QED  BY <2>1, <3>3 DEF StopTraversal, Inv, Types
  <2>2. CASE EndTraversal(t)
    BY <2>2 DEF EndTraversal, visitVars, Inv, Types
  <2> QED  BY <2>1, <2>2
<1>3. Types'
  <2>1. trie_node_mutex' \in [Nodes -> Threads \cup {NULL}]
      BY <1>1 DEF RootAfterTraversal, Unlocked, Inv, Types
  <2> QED  BY <1>1, <1>2, <2>1 DEF Inv, Types
<1>4. Others(t)  BY <1>1 DEF Others
<1>5. pc'[t] = "idle"  BY <1>1 DEF Inv, Types
<1>6. node_stack[t] # <<root>>
  <2>1. CASE StopTraversal(t)
    BY <1>1, <2>1, StackFacts DEF StopTraversal
  <2>2. CASE EndTraversal(t)
    <3>1. Len(<<>>) = 0 /\ Len(<<root>>) = 1  OBVIOUS
    <3>2. <<>> # <<root>>  BY <3>1
    <3>3. node_stack[t] = <<>>  BY <2>2 DEF EndTraversal
    <3> QED  BY <3>2, <3>3, Zenon
  <2> QED  BY <2>1, <2>2
<1>7. Held(t) = IF keep_root_locked[t] THEN {root} ELSE {}  BY <1>1, <1>6 DEF Held
<1>8. Held(t)' = {}  BY <1>5 DEF Held
<1>9. Moves(t)
  <2>1. \A n \in Nodes : trie_node_mutex'[n] = IF keep_root_locked[t] /\ n = root THEN NULL
                                               ELSE trie_node_mutex[n]
      BY <1>1 DEF RootAfterTraversal, Unlocked
  <2> QED  BY <1>7, <1>8, <2>1 DEF Moves
<1>10. PlaceOK(t)'  BY <1>5 DEF PlaceOK, Place
<1>11. Values'  BY <1>1 DEF Inv, Values
<1> QED  BY <1>1, <1>3, <1>4, <1>9, <1>10, <1>11, QuietFrame

-----------------------------------------------------------------------------
(* The steps of insert that change the tree *)

\* A return from insert: its mutexes are free, the others wait where they were.
LEMMA InsertReturnFrame ==
    ASSUME Inv, NEW t \in Threads, pc[t] = "at_node", pc' = [pc EXCEPT ![t] = "idle"],
           trie_node_mutex' = Unlocked({parent[t], tree_cursor[t]}),
           UNCHANGED <<key, key_cursor, tree_cursor, parent, keep_root_locked, node_stack>>,
           Types', Tree', Values',
           Grows(children, suffix_start, children', suffix_start', {parent[t], tree_cursor[t]})
    PROVE  Inv'
<1>1. Held(t) = {parent[t], tree_cursor[t]}  BY DEF Held
<1>2. pc'[t] = "idle"  BY DEF Inv, Types
<1>3. Held(t)' = {}  BY <1>2 DEF Held
<1>4. Moves(t)  BY <1>1, <1>3 DEF Moves, Unlocked
<1>5. Others(t)  BY DEF Others
<1>6. PlaceOK(t)'  BY <1>2 DEF PlaceOK, Place
<1> QED  BY <1>1, <1>4, <1>5, <1>6, StepFrame

LEMMA AddLeafKeepsInv ==
    ASSUME Inv, NEW t \in Threads, AddLeaf(t)
    PROVE  Inv'
<1> USE DEF AddLeaf, Goto, Returns, cursorVars, visitVars
<1> DEFINE k == key[t]
           d == key_cursor[t]
           n == tree_cursor[t]
           a == Letter(t)
<1>1. /\ k \in Keys /\ d \in Nat /\ d < key_size /\ n \in Nodes /\ parent[t] \in Nodes
      /\ a \in Letters
      /\ AtNode(children, suffix_start, k, d, n, parent[t])
    BY AtNodeFacts
<1>2. n = Prefix(k, d) /\ Inner(children, n)  BY <1>1 DEF AtNode, IsLeaf
<1>3. children[n][a] = NULL /\ a = k[d + 1]  BY DEF Child, Letter
<1>4. k \in Nodes /\ d + 1 \in 0..key_size /\ d + 1 > 0  BY <1>1, KeyIsNode, SizeAssumption
<1>5. /\ children' = [children EXCEPT ![n][a] = k]
      /\ suffix_start' = [suffix_start EXCEPT ![k] = d + 1]
      /\ value' = [value EXCEPT ![k] = 1]
    OBVIOUS
<1> HIDE DEF a
<1>6. /\ \A m \in Nodes, c \in Letters :
            children'[m][c] = IF m = n /\ c = a THEN k ELSE children[m][c]
      /\ \A m \in Nodes : suffix_start'[m] = IF m = k THEN d + 1 ELSE suffix_start[m]
      /\ \A m \in Nodes : value'[m] = IF m = k THEN 1 ELSE value[m]
    BY <1>1, <1>4, <1>5 DEF Inv, Types, TreeTypes
<1>7. TreeTypes(children', suffix_start')
  <2>1. children \in [Nodes -> [Letters -> Nodes \cup {NULL}]]  BY DEF Inv, Types, TreeTypes
  <2>2. [children[n] EXCEPT ![a] = k] \in [Letters -> Nodes \cup {NULL}]
      BY <1>1, <1>4, <2>1
  <2>3. children' \in [Nodes -> [Letters -> Nodes \cup {NULL}]]  BY <1>5, <2>1, <2>2
  <2>4. suffix_start' \in [Nodes -> 0..key_size]  BY <1>4, <1>5 DEF Inv, Types, TreeTypes
  <2> QED  BY <2>3, <2>4 DEF TreeTypes
<1>8. Types'
  <2>1. value' \in [Nodes -> Nat]  BY <1>4, <1>5 DEF Inv, Types
  <2>2. trie_node_mutex' \in [Nodes -> Threads \cup {NULL}]  BY DEF Inv, Types, Unlocked
  <2>3. answer' \in [Threads -> Keys \cup {NULL, ERROR}]  BY <1>1 DEF Inv, Types
  <2> QED  BY <1>7, <2>1, <2>2, <2>3 DEF Inv, Types
<1>9. TreeOK(children, suffix_start)  BY DEF Inv, Tree
<1>10. Tree'
  <2>1. /\ Inner(children, Prefix(k, d)) /\ children[Prefix(k, d)][k[d + 1]] = NULL
        /\ \A m \in Nodes, c \in Letters :
              children'[m][c] = IF m = Prefix(k, d) /\ c = k[d + 1] THEN k ELSE children[m][c]
      BY <1>2, <1>3, <1>6
  <2>2. k \in Keys /\ d \in Nat /\ d < key_size  BY <1>1
  <2>3. \A m \in Nodes : suffix_start'[m] = IF m = k THEN d + 1 ELSE suffix_start[m]  BY <1>6
  <2>4. IsNewLeaf(children, suffix_start, children', suffix_start', k, d)
      BY <1>7, <2>1, <2>2, <2>3 DEF IsNewLeaf
  <2> QED  BY <1>9, <2>4, NewLeafKeepsTree DEF Tree
<1>11. suffix_start[k] = 0  BY <1>1, <1>2, <1>3, <1>9, KeyIsAbsent
<1>12. Values'  BY <1>4, <1>6 DEF Inv, Values
<1>13. Grows(children, suffix_start, children', suffix_start', {parent[t], n})
  <2>1. \A m \in Nodes, c \in Letters : children[m][c] # NULL => children'[m][c] # NULL
      BY <1>3, <1>6
  <2>2. \A m \in Nodes : Inner(children, m) => Inner(children', m)  BY <2>1 DEF Inner
  <2>3. \A m \in Nodes : suffix_start[m] > 0 => suffix_start'[m] = suffix_start[m]
    <3>1. ~(suffix_start[k] > 0)  BY <1>11
    <3> QED  BY <1>6, <3>1
  <2>4. \A m \in Nodes, c \in Letters : m # n => children'[m][c] = children[m][c]  BY <1>6
  <2> QED  BY <2>2, <2>3, <2>4 DEF Grows
<1> QED  BY <1>8, <1>10, <1>12, <1>13, InsertReturnFrame

\* An insertion that has reached another key's leaf.
LEMMA AtLeafFacts ==
    ASSUME Inv, NEW t \in Threads, pc[t] = "at_node", IsLeaf(tree_cursor[t])
    PROVE  LET leaf == tree_cursor[t]
               d == key_cursor[t]
           IN /\ leaf \in Keys /\ leaf \in Nodes /\ leaf # key[t]
              /\ suffix_start[leaf] = d /\ d \in Nat /\ d > 0 /\ d < key_size
              /\ Prefix(leaf, d) = Prefix(key[t], d)
              /\ parent[t] = Prefix(leaf, d - 1) /\ parent[t] \in Nodes
              /\ LastLetter(t) = leaf[d] /\ LastLetter(t) \in Letters
              /\ Here(t) = Prefix(leaf, d) /\ Here(t) \in Nodes
              /\ Here(t) \notin {parent[t], leaf}
              /\ \A c \in Letters : children[Here(t)][c] = NULL
              /\ suffix_start[Here(t)] = 0
<1> DEFINE leaf == tree_cursor[t]
           d == key_cursor[t]
           k == key[t]
<1>1. /\ k \in Keys /\ d \in Nat /\ d < key_size /\ leaf \in Nodes /\ parent[t] \in Nodes
      /\ AtNode(children, suffix_start, k, d, leaf, parent[t])
      /\ Here(t) = Prefix(k, d) /\ Here(t) \in Nodes /\ Len(Here(t)) = d
    BY AtNodeFacts
<1>2. leaf \in Keys  BY <1>1, LeafHasNoChild
<1>3. /\ suffix_start[leaf] = d /\ d > 0 /\ Prefix(leaf, d) = Prefix(k, d) /\ leaf # k
      /\ parent[t] = Prefix(k, d - 1)
    BY <1>1 DEF AtNode, IsLeaf
<1>4. /\ k \in Nodes /\ leaf \in Nodes /\ Len(k) = key_size /\ Len(leaf) = key_size
      /\ key_size \in Nat
    BY <1>1, <1>2, KeyIsNode, SizeAssumption
<1>5. \A i \in 1..d : leaf[i] = k[i]
  <2>1. d \in 0..Len(leaf) /\ d <= Len(k)  BY <1>1, <1>4
  <2> QED  BY <1>3, <1>4, <2>1, SamePrefix
<1>6. Prefix(k, d - 1) = Prefix(leaf, d - 1)
  <2>1. d - 1 \in 0..Len(leaf) /\ d - 1 <= Len(k)  BY <1>1, <1>3, <1>4
  <2>2. \A i \in 1..(d - 1) : leaf[i] = k[i]  BY <1>1, <1>5
  <2> QED  BY <1>4, <2>1, <2>2, SamePrefix
<1>7. LastLetter(t) = leaf[d] /\ LastLetter(t) \in Letters
  <2>1. d \in 1..d  BY <1>1, <1>3
  <2>2. k[d] \in Letters  BY <1>1, <1>3, <1>4, LetterOfNode
  <2> QED  BY <1>5, <2>1, <2>2 DEF LastLetter
<1>8. Len(parent[t]) = d - 1
  <2>1. d - 1 \in 0..Len(k)  BY <1>1, <1>3, <1>4
  <2> QED  BY <1>3, <1>4, <2>1, PrefixProperties
<1>9. Here(t) \notin {parent[t], leaf}  BY <1>1, <1>4, <1>8
<1>10. ~Inner(children, Here(t)) /\ ~(suffix_start[Here(t)] > 0)
    BY <1>1, <1>2, <1>3, PushedNodeIsNew DEF Inv, Tree
<1>11. suffix_start[Here(t)] = 0  BY <1>1, <1>10, SizeAssumption DEF Inv, Types, TreeTypes
<1> QED  BY <1>1, <1>2, <1>3, <1>6, <1>7, <1>9, <1>10, <1>11 DEF Inner

\* A new node and the pointer to it, in one assignment.
LEMMA TwoNodes ==
    ASSUME NEW ch \in [Nodes -> [Letters -> Nodes \cup {NULL}]],
           NEW new \in Nodes, NEW row \in [Letters -> Nodes \cup {NULL}],
           NEW p \in Nodes, p # new, NEW a \in Letters, NEW x \in Nodes,
           NEW ch2, ch2 = [ch EXCEPT ![new] = row, ![p][a] = x]
    PROVE  /\ ch2 \in [Nodes -> [Letters -> Nodes \cup {NULL}]]
           /\ \A m \in Nodes, c \in Letters :
                 ch2[m][c] = IF m = p /\ c = a THEN x
                             ELSE IF m = new THEN row[c]
                             ELSE ch[m][c]
<1> DEFINE ch1 == [ch EXCEPT ![new] = row]
           row2 == [ch1[p] EXCEPT ![a] = x]
<1>1. ch1 \in [Nodes -> [Letters -> Nodes \cup {NULL}]] /\ ch1[p] = ch[p]
    OBVIOUS
<1>2. row2 \in [Letters -> Nodes \cup {NULL}]  BY <1>1
<1>3. ch2 = [ch1 EXCEPT ![p] = row2]  OBVIOUS
<1>4. ch2 \in [Nodes -> [Letters -> Nodes \cup {NULL}]]  BY <1>1, <1>2, <1>3
<1>5. \A m \in Nodes : ch2[m] = IF m = p THEN row2 ELSE IF m = new THEN row ELSE ch[m]
    BY <1>1, <1>3
<1>6. \A c \in Letters : row2[c] = IF c = a THEN x ELSE ch[p][c]  BY <1>1
<1> QED  BY <1>4, <1>5, <1>6

\* What both ways to go on at another key's leaf do to the tree: the holder of the leaf
\* and of its parent changes nothing else that is in the tree.
IsLeafChange(ch, ss, ch2, ss2, p, a, new, leaf) ==
    /\ p \in Nodes /\ a \in Letters /\ new \in Nodes /\ leaf \in Nodes
    /\ ~Inner(ch, new)
    /\ ch[p][a] # NULL
    /\ ch2[p][a] = new
    /\ \A n \in Nodes, c \in Letters : n # new /\ ~(n = p /\ c = a) => ch2[n][c] = ch[n][c]
    /\ \A n \in Nodes : ss[n] > 0 => ss2[n] > 0
    /\ \A n \in Nodes : ss[n] > 0 /\ n # leaf => ss2[n] = ss[n]

LEMMA LeafChangeGrows ==
    ASSUME NEW ch, NEW ss, NEW ch2, NEW ss2, NEW p, NEW a, NEW new, NEW leaf,
           IsLeafChange(ch, ss, ch2, ss2, p, a, new, leaf)
    PROVE  Grows(ch, ss, ch2, ss2, {p, leaf})
<1>0. new # NULL  BY NullAssumption DEF IsLeafChange
<1> USE <1>0 DEF IsLeafChange
<1>1. ASSUME NEW n \in Nodes, Inner(ch, n)
      PROVE  Inner(ch2, n)
  <2>1. n # new  BY <1>1
  <2>2. CASE n = root
    BY <2>2 DEF Inner
  <2>3. CASE n # root
    <3>1. PICK c \in Letters : ch[n][c] # NULL  BY <1>1, <2>3 DEF Inner
    <3>2. ch2[n][c] # NULL  BY <2>1, <3>1
    <3> QED  BY <3>2 DEF Inner
  <2> QED  BY <2>2, <2>3
<1>2. ASSUME NEW n \in Nodes, NEW c \in Letters, Inner(ch, n), n \notin {p, leaf}
      PROVE  ch2[n][c] = ch[n][c]
    BY <1>2
<1> QED  BY <1>1, <1>2 DEF Grows

LEMMA PushLeafDownKeepsInv ==
    ASSUME Inv, NEW t \in Threads, PushLeafDown(t)
    PROVE  Inv'
<1> DEFINE leaf == tree_cursor[t]
           d == key_cursor[t]
           k == key[t]
           p == parent[t]
           new == Here(t)
           a == LastLetter(t)
           b == Letter(t)
           row == [NoChildren EXCEPT ![b] = leaf]
<1>1. /\ pc[t] = "at_node" /\ IsLeaf(leaf) /\ b = leaf[d + 1]
      /\ children' = [children EXCEPT ![new] = row, ![p][a] = new]
      /\ trie_node_mutex' = [Unlocked({p}) EXCEPT ![new] = t]
      /\ parent' = [parent EXCEPT ![t] = new]
      /\ suffix_start' = [suffix_start EXCEPT ![leaf] = @ + 1]
      /\ key_cursor' = [key_cursor EXCEPT ![t] = d + 1]
      /\ UNCHANGED <<value, pc, key, tree_cursor, answer, keep_root_locked, node_stack,
                     visited, calls>>
    BY DEF PushLeafDown, visitVars
<1>2. /\ leaf \in Keys /\ leaf \in Nodes /\ leaf # k
      /\ suffix_start[leaf] = d /\ d \in Nat /\ d > 0 /\ d < key_size
      /\ Prefix(leaf, d) = Prefix(k, d)
      /\ p = Prefix(leaf, d - 1) /\ p \in Nodes
      /\ a = leaf[d] /\ a \in Letters
      /\ new = Prefix(leaf, d) /\ new \in Nodes /\ new \notin {p, leaf}
      /\ \A c \in Letters : children[new][c] = NULL
      /\ suffix_start[new] = 0
    BY <1>1, AtLeafFacts
<1>3. k \in Keys /\ b \in Letters /\ Held(t) = {p, leaf}  BY <1>1, AtNodeFacts
<1>4. TreeOK(children, suffix_start) /\ children \in [Nodes -> [Letters -> Nodes \cup {NULL}]]
    BY DEF Inv, Tree, Types, TreeTypes
<1>5. new # NULL /\ leaf # NULL /\ t # NULL  BY <1>2, NullAssumption
<1>6. b = k[d + 1]  BY DEF Letter
<1> HIDE DEF a, b, new
<1>7. row \in [Letters -> Nodes \cup {NULL}]
      /\ \A c \in Letters : row[c] = IF c = b THEN leaf ELSE NULL
    BY <1>2, <1>3 DEF NoChildren
<1> HIDE DEF row
<1>8. /\ children' \in [Nodes -> [Letters -> Nodes \cup {NULL}]]
      /\ \A m \in Nodes, c \in Letters :
            children'[m][c] = IF m = p /\ c = a THEN new
                              ELSE IF m = new THEN row[c]
                              ELSE children[m][c]
  <2> HIDE DEF p
  <2> QED  BY <1>1, <1>2, <1>4, <1>7, TwoNodes
<1>9. d + 1 \in 0..key_size /\ d + 1 > 0  BY <1>2, SizeAssumption
<1>10. \A m \in Nodes : suffix_start'[m] = IF m = leaf THEN d + 1 ELSE suffix_start[m]
    BY <1>1, <1>2 DEF Inv, Types, TreeTypes
<1>11. TreeTypes(children', suffix_start')
  <2>1. suffix_start' \in [Nodes -> 0..key_size]
      BY <1>1, <1>2, <1>9 DEF Inv, Types, TreeTypes
  <2> QED  BY <1>8, <2>1 DEF TreeTypes
<1>12. Types'
  <2>1. trie_node_mutex' \in [Nodes -> Threads \cup {NULL}]
      BY <1>1, <1>2 DEF Inv, Types, Unlocked
  <2> QED  BY <1>1, <1>2, <1>9, <1>11, <2>1 DEF Inv, Types
<1>13. Tree'
  <2>1. IsPush(children, suffix_start, children', suffix_start', leaf, d)
    <3>1. \A m \in Nodes, c \in Letters :
             children'[m][c] = IF m = p /\ c = a THEN new
                               ELSE IF m = new /\ c = b THEN leaf
                               ELSE children[m][c]
        BY <1>2, <1>7, <1>8
    <3>2. \A m \in Nodes, c \in Letters :
             children'[m][c] = IF m = Prefix(leaf, d - 1) /\ c = leaf[d] THEN Prefix(leaf, d)
                               ELSE IF m = Prefix(leaf, d) /\ c = leaf[d + 1] THEN leaf
                               ELSE children[m][c]
      <4>1. p = Prefix(leaf, d - 1) /\ a = leaf[d] /\ new = Prefix(leaf, d) /\ b = leaf[d + 1]
          BY <1>1, <1>2
      <4> HIDE DEF p, leaf, d
      <4> QED  BY <3>1, <4>1
    <3> QED  BY <1>2, <1>10, <1>11, <3>2 DEF IsPush
  <2> QED  BY <1>4, <2>1, PushKeepsTree DEF Tree
<1>14. Values'
  <2>1. \A m \in Nodes : suffix_start'[m] > 0 <=> suffix_start[m] > 0  BY <1>2, <1>9, <1>10
  <2> QED  BY <1>1, <2>1 DEF Inv, Values
<1>15. Grows(children, suffix_start, children', suffix_start', {p, leaf})
  <2>1. ~Inner(children, new)  BY <1>2, <1>4, PushedNodeIsNew
  <2>2. children[p][a] # NULL
    <3>1. LeafOK(children, suffix_start, leaf)  BY <1>2, <1>4 DEF TreeOK
    <3> QED  BY <1>2, <1>5, <3>1 DEF LeafOK
  <2>3. children'[p][a] = new  BY <1>2, <1>8
  <2>4. \A n \in Nodes, c \in Letters :
           n # new /\ ~(n = p /\ c = a) => children'[n][c] = children[n][c]
      BY <1>8
  <2>5. /\ \A n \in Nodes : suffix_start[n] > 0 => suffix_start'[n] > 0
        /\ \A n \in Nodes : suffix_start[n] > 0 /\ n # leaf => suffix_start'[n] = suffix_start[n]
      BY <1>9, <1>10
  <2>6. IsLeafChange(children, suffix_start, children', suffix_start', p, a, new, leaf)
      BY <1>2, <2>1, <2>2, <2>3, <2>4, <2>5 DEF IsLeafChange
  <2> QED  BY <2>6, LeafChangeGrows
<1>16. pc'[t] = "at_node" /\ parent'[t] = new /\ key_cursor'[t] = d + 1 /\ tree_cursor'[t] = leaf
       /\ key'[t] = k
    BY <1>1 DEF Inv, Types
<1>17. Held(t)' = {new, leaf}  BY <1>16 DEF Held
<1>18. Moves(t)
  <2>1. trie_node_mutex[new] = NULL
    <3>1. trie_node_mutex[new] \in Threads \cup {NULL}  BY <1>2 DEF Inv, Types
    <3>2. ~Inner(children, new)  BY <1>2, <1>4, PushedNodeIsNew
    <3>3. ~Live(children, suffix_start, new)  BY <1>2, <3>2 DEF Live
    <3> SUFFICES ASSUME NEW u \in Threads, trie_node_mutex[new] = u
                 PROVE  FALSE
        BY <3>1
    <3>4. new \in Held(u)  BY <1>2 DEF Inv, Mutexes
    <3> QED  BY <1>2, <3>3, <3>4, HeldIsLive
  <2>2. \A n \in Nodes : trie_node_mutex'[n] = IF n = new THEN t
                                               ELSE IF n = p THEN NULL ELSE trie_node_mutex[n]
      BY <1>1, <1>2 DEF Unlocked
  <2>3. trie_node_mutex[leaf] = t  BY <1>2, <1>3 DEF Inv, Mutexes
  <2>4. p # leaf
    <3>1. Inner(children, p)  BY <1>1, AtNodeFacts DEF AtNode
    <3> QED  BY <1>2, <1>4, <3>1, InnerIsShort
  <2> QED  BY <1>2, <1>3, <1>17, <2>1, <2>2, <2>3, <2>4 DEF Moves
<1>19. Others(t)  BY <1>1 DEF Others
<1>20. AtNode(children', suffix_start', k, d + 1, leaf, new)
  <2>1. k \in Nodes /\ leaf \in Nodes /\ Len(k) = key_size /\ Len(leaf) = key_size
      BY <1>2, <1>3, KeyIsNode
  <2>2. Prefix(leaf, d + 1) = Prefix(k, d + 1)
    <3>1. leaf[d + 1] = k[d + 1] /\ d < Len(leaf) /\ d < Len(k)  BY <1>1, <1>2, <1>6, <2>1
    <3> QED  BY <1>2, <2>1, <3>1, PrefixGrows
  <2>3. d + 1 < key_size  BY <1>2, <1>3, <1>9, <2>2, KeysDiffer
  <2>4. Inner(children', new)
    <3>1. children'[new][b] = leaf  BY <1>2, <1>3, <1>7, <1>8
    <3> QED  BY <1>3, <1>5, <3>1 DEF Inner
  <2>5. suffix_start'[leaf] = d + 1  BY <1>2, <1>10
  <2>6. (d + 1) - 1 = d  BY <1>2
  <2> QED  BY <1>2, <1>3, <1>9, <2>2, <2>3, <2>4, <2>5, <2>6 DEF AtNode
<1>21. PlaceOK(t)'  BY <1>16, <1>20 DEF PlaceOK, Place
<1>22. Grows(children, suffix_start, children', suffix_start', Held(t))  BY <1>3, <1>15
<1> QED  BY <1>12, <1>13, <1>14, <1>18, <1>19, <1>21, <1>22, StepFrame

\* A split is a push of the leaf followed by a new leaf below the new node.
LEMMA SplitLeafKeepsInv ==
    ASSUME Inv, NEW t \in Threads, SplitLeaf(t)
    PROVE  Inv'
<1> DEFINE leaf == tree_cursor[t]
           d == key_cursor[t]
           k == key[t]
           p == parent[t]
           new == Here(t)
           a == LastLetter(t)
           b == leaf[d + 1]
           c0 == Letter(t)
           row == [NoChildren EXCEPT ![c0] = k, ![b] = leaf]
           ch1 == [m \in Nodes |-> [c \in Letters |->
                     IF m = p /\ c = a THEN new
                     ELSE IF m = new /\ c = b THEN leaf
                     ELSE children[m][c]]]
           ss1 == [m \in Nodes |-> IF m = leaf THEN d + 1 ELSE suffix_start[m]]
<1>1. pc[t] = "at_node" /\ IsLeaf(leaf)  BY DEF SplitLeaf
<1>2. /\ leaf \in Keys /\ leaf \in Nodes /\ leaf # k
      /\ suffix_start[leaf] = d /\ d \in Nat /\ d > 0 /\ d < key_size
      /\ Prefix(leaf, d) = Prefix(k, d)
      /\ p = Prefix(leaf, d - 1) /\ p \in Nodes
      /\ a = leaf[d] /\ a \in Letters
      /\ new = Prefix(leaf, d) /\ new \in Nodes /\ new \notin {p, leaf}
      /\ \A c \in Letters : children[new][c] = NULL
      /\ suffix_start[new] = 0
    BY <1>1, AtLeafFacts
<1>3. k \in Keys /\ k \in Nodes /\ c0 \in Letters /\ new = Prefix(k, d)
    BY <1>1, AtNodeFacts, KeyIsNode
<1>4. /\ c0 # b /\ c0 = k[d + 1]
      /\ children' = [children EXCEPT ![new] = row, ![p][a] = new]
      /\ suffix_start' = [suffix_start EXCEPT ![k] = d + 1, ![leaf] = d + 1]
      /\ value' = [value EXCEPT ![k] = 1]
      /\ trie_node_mutex' = Unlocked({p, leaf})
      /\ answer' = [answer EXCEPT ![t] = k]
      /\ pc' = [pc EXCEPT ![t] = "idle"]
      /\ UNCHANGED <<key, key_cursor, tree_cursor, parent, keep_root_locked, node_stack,
                     visited, calls>>
    BY <1>2 DEF SplitLeaf, Goto, Returns, Letter, LeafDepthAfterSplit, cursorVars, visitVars
<1>5. b \in Letters
  <2>1. Len(leaf) = key_size /\ d + 1 \in Nat /\ 1 <= d + 1 /\ d + 1 <= key_size
      BY <1>2, KeyIsNode, SizeAssumption
  <2>2. leaf \in Nodes  BY <1>2
  <2> HIDE DEF leaf, d
  <2> QED  BY <2>1, <2>2, LetterOfNode DEF b
<1>6. TreeOK(children, suffix_start) /\ children \in [Nodes -> [Letters -> Nodes \cup {NULL}]]
    BY DEF Inv, Tree, Types, TreeTypes
<1>7. new # NULL /\ leaf # NULL /\ k # NULL  BY <1>2, <1>3, NullAssumption
<1>8. d + 1 \in 0..key_size /\ d + 1 > 0  BY <1>2, SizeAssumption
<1> HIDE DEF a, b, c0, new
<1>9. row \in [Letters -> Nodes \cup {NULL}]
      /\ \A c \in Letters : row[c] = IF c = b THEN leaf ELSE IF c = c0 THEN k ELSE NULL
    BY <1>2, <1>3, <1>5 DEF NoChildren
<1> HIDE DEF row
<1>10. /\ children' \in [Nodes -> [Letters -> Nodes \cup {NULL}]]
       /\ \A m \in Nodes, c \in Letters :
             children'[m][c] = IF m = p /\ c = a THEN new
                               ELSE IF m = new THEN row[c]
                               ELSE children[m][c]
  <2>1. children' = [children EXCEPT ![new] = row, ![p][a] = new]  BY <1>4
  <2>2. new \in Nodes /\ p \in Nodes /\ p # new /\ a \in Letters  BY <1>2
  <2>3. row \in [Letters -> Nodes \cup {NULL}]  BY <1>9
  <2> HIDE DEF p
  <2> QED  BY <1>6, <2>1, <2>2, <2>3, TwoNodes
<1>11. /\ suffix_start' \in [Nodes -> 0..key_size]
       /\ \A m \in Nodes : suffix_start'[m] = IF m \in {k, leaf} THEN d + 1 ELSE suffix_start[m]
    BY <1>2, <1>3, <1>4, <1>8 DEF Inv, Types, TreeTypes
<1>12. TreeTypes(children', suffix_start')  BY <1>10, <1>11 DEF TreeTypes
<1>13. TreeTypes(ch1, ss1)
  <2>1. ch1 \in [Nodes -> [Letters -> Nodes \cup {NULL}]]  BY <1>2, <1>6
  <2>2. ss1 \in [Nodes -> 0..key_size]  BY <1>8 DEF Inv, Types, TreeTypes
  <2> QED  BY <2>1, <2>2 DEF TreeTypes
<1>14. /\ \A m \in Nodes, c \in Letters :
             ch1[m][c] = IF m = p /\ c = a THEN new
                         ELSE IF m = new /\ c = b THEN leaf
                         ELSE children[m][c]
       /\ \A m \in Nodes : ss1[m] = IF m = leaf THEN d + 1 ELSE suffix_start[m]
    OBVIOUS
<1> HIDE DEF ch1, ss1
<1>15. TreeOK(ch1, ss1)
  <2>1. p = Prefix(leaf, d - 1) /\ a = leaf[d] /\ new = Prefix(leaf, d) /\ b = leaf[d + 1]
      BY <1>2 DEF b
  <2>2. \A m \in Nodes, c \in Letters :
           ch1[m][c] = IF m = Prefix(leaf, d - 1) /\ c = leaf[d] THEN Prefix(leaf, d)
                       ELSE IF m = Prefix(leaf, d) /\ c = leaf[d + 1] THEN leaf
                       ELSE children[m][c]
    <3> HIDE DEF p, leaf, d
    <3> QED  BY <1>14, <2>1
  <2>3. IsPush(children, suffix_start, ch1, ss1, leaf, d)
      BY <1>2, <1>13, <1>14, <2>2 DEF IsPush
  <2> QED  BY <1>6, <2>3, PushKeepsTree
<1>16. Inner(ch1, new) /\ ch1[new][c0] = NULL
  <2>1. ch1[new][b] = leaf /\ ch1[new][c0] = NULL  BY <1>2, <1>3, <1>4, <1>5, <1>14
  <2> QED  BY <1>5, <1>7, <2>1 DEF Inner
<1>17. ss1[k] = 0 /\ suffix_start[k] = 0
  <2>1. Inner(ch1, Prefix(k, d)) /\ ch1[Prefix(k, d)][k[d + 1]] = NULL
      BY <1>3, <1>4, <1>16
  <2>2. ss1[k] = 0  BY <1>2, <1>3, <1>15, <2>1, KeyIsAbsent
  <2> QED  BY <1>2, <1>3, <1>14, <2>2
<1>18. Tree'
  <2>1. \A m \in Nodes, c \in Letters :
           children'[m][c] = IF m = new /\ c = c0 THEN k ELSE ch1[m][c]
      BY <1>2, <1>4, <1>9, <1>10, <1>14
  <2>2. \A m \in Nodes, c \in Letters :
           children'[m][c] = IF m = Prefix(k, d) /\ c = k[d + 1] THEN k ELSE ch1[m][c]
    <3>1. new = Prefix(k, d) /\ c0 = k[d + 1]  BY <1>3, <1>4
    <3> HIDE DEF k, d
    <3> QED  BY <2>1, <3>1
  <2>3. \A m \in Nodes : suffix_start'[m] = IF m = k THEN d + 1 ELSE ss1[m]
      BY <1>11, <1>14
  <2>4. Inner(ch1, Prefix(k, d)) /\ ch1[Prefix(k, d)][k[d + 1]] = NULL
      BY <1>3, <1>4, <1>16
  <2>5. IsNewLeaf(ch1, ss1, children', suffix_start', k, d)
      BY <1>2, <1>3, <1>12, <2>2, <2>3, <2>4 DEF IsNewLeaf
  <2> QED  BY <1>15, <2>5, NewLeafKeepsTree DEF Tree
<1>19. Values'
  <2>1. \A m \in Nodes : value'[m] = IF m = k THEN 1 ELSE value[m]
      BY <1>3, <1>4 DEF Inv, Types
  <2>2. value[leaf] > 0  BY <1>2 DEF Inv, Values
  <2> QED  BY <1>2, <1>8, <1>11, <2>1, <2>2 DEF Inv, Values
<1>20. Types'
  <2>1. value' \in [Nodes -> Nat]  BY <1>3, <1>4 DEF Inv, Types
  <2>2. trie_node_mutex' \in [Nodes -> Threads \cup {NULL}]  BY <1>4 DEF Inv, Types, Unlocked
  <2>3. answer' \in [Threads -> Keys \cup {NULL, ERROR}]  BY <1>3, <1>4 DEF Inv, Types
  <2> QED  BY <1>4, <1>12, <2>1, <2>2, <2>3 DEF Inv, Types
<1>21. Grows(children, suffix_start, children', suffix_start', {p, leaf})
  <2>1. ~Inner(children, new)  BY <1>2, <1>6, PushedNodeIsNew
  <2>2. children[p][a] # NULL
    <3>1. LeafOK(children, suffix_start, leaf)  BY <1>2, <1>6 DEF TreeOK
    <3> QED  BY <1>2, <1>7, <3>1 DEF LeafOK
  <2>3. children'[p][a] = new  BY <1>2, <1>10
  <2>4. \A n \in Nodes, c \in Letters :
           n # new /\ ~(n = p /\ c = a) => children'[n][c] = children[n][c]
      BY <1>10
  <2>5. /\ \A n \in Nodes : suffix_start[n] > 0 => suffix_start'[n] > 0
        /\ \A n \in Nodes : suffix_start[n] > 0 /\ n # leaf => suffix_start'[n] = suffix_start[n]
    <3>1. ~(suffix_start[k] > 0)  BY <1>17
    <3> QED  BY <1>8, <1>11, <3>1
  <2>6. IsLeafChange(children, suffix_start, children', suffix_start', p, a, new, leaf)
      BY <1>2, <2>1, <2>2, <2>3, <2>4, <2>5 DEF IsLeafChange
  <2> QED  BY <2>6, LeafChangeGrows
<1> QED  BY <1>1, <1>4, <1>18, <1>19, <1>20, <1>21, InsertReturnFrame

-----------------------------------------------------------------------------
(* The invariant holds *)

LEMMA StepKeepsInv ==
    ASSUME Inv, NEW t \in Threads, Start(t) \/ Step(t)
    PROVE  Inv'
<1>1. CASE Start(t)
    BY <1>1, CallKeepsInv, RefuseKeepsInv, StartTraversalKeepsInv DEF Start
<1>2. CASE Insert(t)
    BY <1>2, LockRootKeepsInv, AddLeafKeepsInv, PushLeafDownKeepsInv, SplitLeafKeepsInv,
       DescendKeepsInv, LockChildKeepsInv, MergeKeepsInv
    DEF Insert
<1>3. CASE Lookup(t)
    BY <1>3, LookupReturnsKeepsInv, LookupChildKeepsInv DEF Lookup
<1>4. CASE Traverse(t)
    BY <1>4, VisitLeafKeepsInv, PushChildrenKeepsInv, TraversalReturnsKeepsInv DEF Traverse
<1> QED  BY <1>1, <1>2, <1>3, <1>4 DEF Step

LEMMA InvInductive == Inv /\ [Next]_vars => Inv'
<1> SUFFICES ASSUME Inv, [Next]_vars
             PROVE  Inv'
    OBVIOUS
<1>1. CASE Next
    BY <1>1, StepKeepsInv DEF Next
<1>2. CASE UNCHANGED vars
  <2>1. UNCHANGED <<children, suffix_start, value, trie_node_mutex, pc, key, key_cursor,
                    tree_cursor, parent, answer, keep_root_locked, node_stack, visited, calls>>
      BY <1>2 DEF vars, trieVars, cursorVars, visitVars
  <2>2. Types' /\ Tree' /\ Values'  BY <2>1 DEF Inv, Types, Tree, Values
  <2>3. Mutexes'  BY <2>1 DEF Inv, Mutexes, Held
  <2>4. \A t \in Threads : PlaceOK(t)'  BY <2>1 DEF Inv, PlaceOK
  <2> QED  BY <2>2, <2>3, <2>4 DEF Inv
<1> QED  BY <1>1, <1>2

\* At any size of the trie, whatever threads do at the same time: the trie stays a
\* prefix tree, every thread in it is where its key leads to, and each mutex is held
\* exactly by the thread that the code means to hold it.
THEOREM InvHolds == Spec => []Inv
BY InvInit, InvInductive, PTL DEF Spec

\* In particular every mutex is released when the operation that took it returns, on
\* whichever way out of insert, lookup or traverse (HandleTrie.cc:80-242).
THEOREM TypesHold == Spec => []TypeOK
<1>1. Inv => TypeOK  BY DEF Inv, Types, Mutexes, TreeTypes, TypeOK
<1> QED  BY <1>1, InvHolds, PTL

\* No insertion breaks the way to another key: insert, split and push are done below
\* the mutexes of the parent and of the node (HandleTrie.cc:94-134).
THEOREM PathsStayIntact == Spec => []PathsIntact
<1>1. Inv => PathsIntact
  <2> SUFFICES ASSUME Inv, NEW k \in Present
               PROVE  /\ IsLeaf(k)
                      /\ \A i \in 1..(suffix_start[k] - 1) :
                            children[Prefix(k, i - 1)][k[i]] = Prefix(k, i)
                      /\ children[Prefix(k, suffix_start[k] - 1)][k[suffix_start[k]]] = k
      BY DEF PathsIntact
  <2>1. k \in Keys /\ k \in Nodes /\ value[k] > 0  BY KeyIsNode DEF Present
  <2>2. suffix_start[k] > 0  BY <2>1 DEF Inv, Values
  <2>3. LeafOK(children, suffix_start, k)  BY <2>1, <2>2 DEF Inv, Tree, TreeOK
  <2> QED  BY <2>2, <2>3 DEF IsLeaf, LeafOK, Chain
<1> QED  BY <1>1, InvHolds, PTL

-----------------------------------------------------------------------------
(* The refinement of the map with atomic operations *)

\* What the abstract map sees of a thread.
CallingOf(t) ==
    CASE pc[t] \in {"insert", "at_node", "at_child"} -> "insert"
      [] pc[t] = "lookup" /\ ~AtLeaf(t) -> "lookup"
      [] OTHER -> "none"

AnswerOf(t) ==
    IF AtLeaf(t)
    THEN IF tree_cursor[t] = key[t] THEN key[t] ELSE NULL
    ELSE answer[t]

\* A step of t is nothing that the callers in other threads see.
OthersUnseen(t) ==
    \A u \in Threads \ {t} : CallingOf(u)' = CallingOf(u) /\ AnswerOf(u)' = AnswerOf(u)

LEMMA MapUnseen ==
    ASSUME NEW t \in Threads, OthersUnseen(t), UNCHANGED <<value, key>>,
           CallingOf(t)' = CallingOf(t), AnswerOf(t)' = AnswerOf(t)
    PROVE  UNCHANGED Map!vars
<1>1. \A u \in Threads : CallingOf(u)' = CallingOf(u) /\ AnswerOf(u)' = AnswerOf(u)
    BY DEF OthersUnseen
<1>2. [u \in Threads |-> CallingOf(u)]' = [u \in Threads |-> CallingOf(u)]  BY <1>1
<1>3. [u \in Threads |-> AnswerOf(u)]' = [u \in Threads |-> AnswerOf(u)]  BY <1>1
<1>4. [k \in Keys |-> value[k]]' = [k \in Keys |-> value[k]]  OBVIOUS
<1> QED  BY <1>2, <1>3, <1>4 DEF Map!vars, CallingOf, AnswerOf

LEMMA MapCall ==
    ASSUME NEW t \in Threads, NEW operation, NEW k,
           OthersUnseen(t), UNCHANGED value, key' = [key EXCEPT ![t] = k],
           CallingOf(t) = "none", CallingOf(t)' = operation, AnswerOf(t)' = AnswerOf(t)
    PROVE  Map!Call(t, operation, k)
<1>1. [u \in Threads |-> CallingOf(u)]' = [[u \in Threads |-> CallingOf(u)] EXCEPT ![t] = operation]
    BY DEF OthersUnseen
<1>2. [u \in Threads |-> AnswerOf(u)]' = [u \in Threads |-> AnswerOf(u)]  BY DEF OthersUnseen
<1>3. [u \in Threads |-> CallingOf(u)][t] = "none"  OBVIOUS
<1>4. [m \in Keys |-> value[m]]' = [m \in Keys |-> value[m]]  OBVIOUS
<1> QED  BY <1>1, <1>2, <1>3, <1>4 DEF Map!Call, CallingOf, AnswerOf

LEMMA MapRefuse ==
    ASSUME NEW t \in Threads, OthersUnseen(t), UNCHANGED <<value, key>>,
           CallingOf(t) = "none", CallingOf(t)' = "none", AnswerOf(t)' = ERROR
    PROVE  Map!Refuse(t)
<1>1. [u \in Threads |-> CallingOf(u)]' = [u \in Threads |-> CallingOf(u)]
    BY DEF OthersUnseen
<1>2. [u \in Threads |-> AnswerOf(u)]' = [[u \in Threads |-> AnswerOf(u)] EXCEPT ![t] = ERROR]
    BY DEF OthersUnseen
<1>3. [u \in Threads |-> CallingOf(u)][t] = "none"  OBVIOUS
<1>4. [m \in Keys |-> value[m]]' = [m \in Keys |-> value[m]]  OBVIOUS
<1> QED  BY <1>1, <1>2, <1>3, <1>4 DEF Map!Refuse, CallingOf, AnswerOf

LEMMA MapInsert ==
    ASSUME NEW t \in Threads, key[t] \in Keys, OthersUnseen(t), UNCHANGED key,
           \A k \in Keys : value'[k] = IF k = key[t] THEN value[k] + 1 ELSE value[k],
           CallingOf(t) = "insert", CallingOf(t)' = "none", AnswerOf(t)' = key[t]
    PROVE  Map!Insert(t)
<1>1. [u \in Threads |-> CallingOf(u)]' = [[u \in Threads |-> CallingOf(u)] EXCEPT ![t] = "none"]
    BY DEF OthersUnseen
<1>2. [u \in Threads |-> AnswerOf(u)]' = [[u \in Threads |-> AnswerOf(u)] EXCEPT ![t] = key[t]]
    BY DEF OthersUnseen
<1>3. [u \in Threads |-> CallingOf(u)][t] = "insert"  OBVIOUS
<1>4. [k \in Keys |-> value[k]]' = [[k \in Keys |-> value[k]] EXCEPT ![key[t]] = @ + 1]
    OBVIOUS
<1> QED  BY <1>1, <1>2, <1>3, <1>4 DEF Map!Insert, CallingOf, AnswerOf

LEMMA MapLookup ==
    ASSUME NEW t \in Threads, key[t] \in Keys, OthersUnseen(t), UNCHANGED <<value, key>>,
           CallingOf(t) = "lookup", CallingOf(t)' = "none",
           AnswerOf(t)' = IF value[key[t]] > 0 THEN key[t] ELSE NULL
    PROVE  Map!Lookup(t)
<1> DEFINE result == IF value[key[t]] > 0 THEN key[t] ELSE NULL
<1>1. [u \in Threads |-> CallingOf(u)]' = [[u \in Threads |-> CallingOf(u)] EXCEPT ![t] = "none"]
    BY DEF OthersUnseen
<1>2. [u \in Threads |-> AnswerOf(u)]' = [[u \in Threads |-> AnswerOf(u)] EXCEPT ![t] = result]
    BY DEF OthersUnseen
<1>3. [u \in Threads |-> CallingOf(u)][t] = "lookup"  OBVIOUS
<1>4. [k \in Keys |-> value[k]]' = [k \in Keys |-> value[k]]  OBVIOUS
<1>5. [k \in Keys |-> value[k]][key[t]] = value[key[t]]  OBVIOUS
<1> QED  BY <1>1, <1>2, <1>3, <1>4, <1>5 DEF Map!Lookup, CallingOf, AnswerOf

\* Leaves stay leaves, and only keys become leaves.
LEMMA LeavesStay ==
    ASSUME Inv, NEW t \in Threads, Start(t) \/ Step(t)
    PROVE  \A n \in Nodes : \/ suffix_start'[n] = suffix_start[n]
                            \/ n \in Keys /\ suffix_start'[n] > 0
<1>1. CASE AddLeaf(t)
  <2>1. key_cursor[t] \in Nat /\ key[t] \in Keys  BY <1>1, AtNodeFacts DEF AddLeaf
  <2>2. suffix_start' = [suffix_start EXCEPT ![key[t]] = key_cursor[t] + 1]
      BY <1>1 DEF AddLeaf
  <2> QED  BY <2>1, <2>2 DEF Inv, Types, TreeTypes
<1>2. CASE PushLeafDown(t)
  <2>1. tree_cursor[t] \in Keys /\ suffix_start[tree_cursor[t]] \in Nat
      BY <1>2, AtLeafFacts DEF PushLeafDown
  <2>2. suffix_start' = [suffix_start EXCEPT ![tree_cursor[t]] = suffix_start[tree_cursor[t]] + 1]
      BY <1>2 DEF PushLeafDown
  <2> QED  BY <2>1, <2>2 DEF Inv, Types, TreeTypes
<1>3. CASE SplitLeaf(t)
  <2>1. tree_cursor[t] \in Keys /\ suffix_start[tree_cursor[t]] \in Nat
      BY <1>3, AtLeafFacts DEF SplitLeaf
  <2>2. key_cursor[t] \in Nat /\ key[t] \in Keys  BY <1>3, AtNodeFacts DEF SplitLeaf
  <2>3. suffix_start' = [suffix_start EXCEPT
           ![key[t]] = key_cursor[t] + 1,
           ![tree_cursor[t]] = suffix_start[tree_cursor[t]] + 1]
      BY <1>3 DEF SplitLeaf, LeafDepthAfterSplit
  <2> QED  BY <2>1, <2>2, <2>3 DEF Inv, Types, TreeTypes
<1>4. CASE ~(AddLeaf(t) \/ PushLeafDown(t) \/ SplitLeaf(t))
  <2>1. suffix_start' = suffix_start
      BY <1>4 DEF Start, Step, Insert, Lookup, Traverse, Call, Refuse, StartTraversal, LockRoot,
                  Descend, LockChild, Merge, LookupLeaf, LookupChild, LookupMissing, VisitLeaf,
                  PushChildren, StopTraversal, EndTraversal, trieVars
  <2> QED  BY <2>1
<1> QED  BY <1>1, <1>2, <1>3, <1>4

\* The step of one thread is unseen by the callers in the others.
LEMMA OthersDoNotSee ==
    ASSUME Inv, NEW t \in Threads, Start(t) \/ Step(t)
    PROVE  OthersUnseen(t)
<1> SUFFICES ASSUME NEW u \in Threads \ {t}
             PROVE  CallingOf(u)' = CallingOf(u) /\ AnswerOf(u)' = AnswerOf(u)
    BY DEF OthersUnseen
<1>1. pc'[u] = pc[u] /\ key'[u] = key[u] /\ tree_cursor'[u] = tree_cursor[u]
      /\ answer'[u] = answer[u]
  <2>1. CASE Start(t)
    BY <2>1 DEF Start, Call, Refuse, StartTraversal, Goto, cursorVars, Inv, Types
  <2>2. CASE Insert(t)
    BY <2>2 DEF Insert, LockRoot, AddLeaf, PushLeafDown, SplitLeaf, Descend, LockChild, Merge,
                Goto, Returns, cursorVars, Inv, Types
  <2>3. CASE Lookup(t)
    BY <2>3 DEF Lookup, LookupLeaf, LookupChild, LookupMissing, Goto, Returns, cursorVars,
                Inv, Types
  <2>4. CASE Traverse(t)
    BY <2>4 DEF Traverse, VisitLeaf, PushChildren, StopTraversal, EndTraversal, Goto,
                cursorVars, Inv, Types
  <2> QED  BY <2>1, <2>2, <2>3, <2>4 DEF Step
<1>2. ASSUME pc[u] = "lookup"
      PROVE  IsLeaf(tree_cursor[u])' <=> IsLeaf(tree_cursor[u])
  <2>1. tree_cursor[u] \in Nodes /\ (~IsLeaf(tree_cursor[u]) => Inner(children, tree_cursor[u]))
      BY <1>2, LookupFacts
  <2>2. ~IsLeaf(tree_cursor[u]) => tree_cursor[u] \notin Keys
      BY <2>1, InnerIsShort DEF Inv, Tree
  <2> QED  BY <1>1, <2>1, <2>2, LeavesStay DEF IsLeaf
<1>3. AtLeaf(u)' <=> AtLeaf(u)  BY <1>1, <1>2 DEF AtLeaf
<1> QED  BY <1>1, <1>3 DEF CallingOf, AnswerOf

\* An insertion takes effect when the leaf is linked or its value is merged.
LEMMA InsertMaps ==
    ASSUME Inv, NEW t \in Threads, Insert(t)
    PROVE  Map!Insert(t) \/ UNCHANGED Map!vars
<1>1. OthersUnseen(t)  BY OthersDoNotSee DEF Step
<1>2. pc[t] \in {"insert", "at_node", "at_child"}
    BY DEF Insert, LockRoot, AddLeaf, PushLeafDown, SplitLeaf, Descend, LockChild, Merge
<1>3. CallingOf(t) = "insert" /\ ~AtLeaf(t)  BY <1>2 DEF CallingOf, AtLeaf
<1>4. CASE LockRoot(t) \/ PushLeafDown(t) \/ Descend(t) \/ LockChild(t)
  <2>1. pc'[t] \in {"insert", "at_node", "at_child"}
      BY <1>2, <1>4 DEF LockRoot, PushLeafDown, Descend, LockChild, Goto, Inv, Types
  <2>2. UNCHANGED <<value, key, answer>>
      BY <1>4 DEF LockRoot, PushLeafDown, Descend, LockChild, trieVars
  <2>3. CallingOf(t)' = "insert" /\ ~AtLeaf(t)'  BY <2>1 DEF CallingOf, AtLeaf
  <2>4. AnswerOf(t)' = AnswerOf(t)  BY <1>3, <2>2, <2>3 DEF AnswerOf
  <2> QED  BY <1>1, <1>3, <2>2, <2>3, <2>4, MapUnseen
<1>5. CASE AddLeaf(t) \/ SplitLeaf(t) \/ Merge(t)
  <2>1. key[t] \in Keys /\ pc' = [pc EXCEPT ![t] = "idle"] /\ UNCHANGED key
      BY <1>5, AtNodeFacts, AtChildFacts DEF AddLeaf, SplitLeaf, Merge, Returns, Goto
  <2>2. pc'[t] = "idle"  BY <2>1 DEF Inv, Types
  <2>3. CallingOf(t)' = "none" /\ ~AtLeaf(t)'  BY <2>2 DEF CallingOf, AtLeaf
  <2>4. answer'[t] = key[t] /\ \A k \in Keys : value'[k] = IF k = key[t] THEN value[k] + 1 ELSE value[k]
    <3>1. CASE AddLeaf(t) \/ SplitLeaf(t)
      <4>1. answer' = [answer EXCEPT ![t] = key[t]] /\ value' = [value EXCEPT ![key[t]] = 1]
          BY <3>1 DEF AddLeaf, SplitLeaf, Returns
      <4>2. suffix_start[key[t]] = 0
        <5>1. /\ key_cursor[t] \in Nat /\ key_cursor[t] < key_size
              /\ tree_cursor[t] \in Nodes
              /\ AtNode(children, suffix_start, key[t], key_cursor[t], tree_cursor[t], parent[t])
            BY <3>1, AtNodeFacts DEF AddLeaf, SplitLeaf
        <5>2. CASE AddLeaf(t)
          <6>1. tree_cursor[t] = Prefix(key[t], key_cursor[t]) /\ Inner(children, tree_cursor[t])
                /\ children[tree_cursor[t]][key[t][key_cursor[t] + 1]] = NULL
              BY <5>1, <5>2 DEF AddLeaf, AtNode, IsLeaf, Child, Letter
          <6> QED  BY <2>1, <5>1, <6>1, KeyIsAbsent DEF Inv, Tree
        <5>3. CASE SplitLeaf(t)
          <6> DEFINE leaf == tree_cursor[t]
                     d == key_cursor[t] - 1
                     k == key[t]
          <6>1. pc[t] = "at_node" /\ IsLeaf(leaf)  BY <5>3 DEF SplitLeaf
          <6>2. /\ leaf \in Keys /\ leaf \in Nodes /\ leaf # k /\ key_cursor[t] > 0
                /\ suffix_start[leaf] = key_cursor[t]
                /\ Prefix(leaf, key_cursor[t]) = Prefix(k, key_cursor[t])
                /\ parent[t] = Prefix(leaf, d)
              BY <6>1, AtLeafFacts
          <6>3. parent[t] = Prefix(k, d) /\ Inner(children, parent[t])
              BY <5>1, <6>1 DEF AtNode, IsLeaf
          <6>4. children[Prefix(leaf, d)][leaf[key_cursor[t]]] = leaf
              BY <6>1, <6>2 DEF Inv, Tree, TreeOK, LeafOK, IsLeaf
          <6>5. leaf[key_cursor[t]] = k[key_cursor[t]]
              BY <6>1, AtLeafFacts DEF LastLetter
          <6>6. d \in Nat /\ d < key_size /\ key_cursor[t] = d + 1
              BY <5>1, <6>2, SizeAssumption
          <6>7. children[Prefix(k, d)][k[d + 1]] \in Keys \ {k}
              BY <6>2, <6>3, <6>4, <6>5, <6>6
          <6> QED  BY <2>1, <6>3, <6>6, <6>7, KeyIsAbsent DEF Inv, Tree
        <5> QED  BY <3>1, <5>2, <5>3
      <4>3. value[key[t]] = 0
        <5>1. key[t] \in Nodes  BY <2>1, KeyIsNode
        <5>2. value[key[t]] \in Nat /\ ~(value[key[t]] > 0)  BY <4>2, <5>1 DEF Inv, Types, Values
        <5> QED  BY <5>2
      <4>4. \A k \in Keys : value'[k] = IF k = key[t] THEN value[k] + 1 ELSE value[k]
        <5>1. \A k \in Keys : value'[k] = IF k = key[t] THEN 1 ELSE value[k]
            BY <4>1, KeyIsNode DEF Inv, Types
        <5> QED  BY <4>3, <5>1
      <4> QED  BY <4>1, <4>4 DEF Inv, Types
    <3>2. CASE Merge(t)
      <4>1. tree_cursor[t] = key[t]  BY <3>2, AtChildFacts DEF Merge
      <4>2. value' = [value EXCEPT ![key[t]] = value[key[t]] + 1] /\ answer' = [answer EXCEPT ![t] = key[t]]
          BY <3>2, <4>1 DEF Merge, Returns
      <4> QED  BY <4>2, KeyIsNode DEF Inv, Types
    <3> QED  BY <1>5, <3>1, <3>2
  <2>5. AnswerOf(t)' = key[t]  BY <2>3, <2>4 DEF AnswerOf
  <2> QED  BY <1>1, <1>3, <2>1, <2>3, <2>4, <2>5, MapInsert
<1> QED  BY <1>4, <1>5 DEF Insert

\* A lookup takes effect when it reads the pointer to a leaf, or that there is none.
LEMMA LookupMaps ==
    ASSUME Inv, NEW t \in Threads, Lookup(t)
    PROVE  Map!Lookup(t) \/ UNCHANGED Map!vars
<1> DEFINE k == key[t]
           d == key_cursor[t]
           n == tree_cursor[t]
<1>1. OthersUnseen(t)  BY OthersDoNotSee DEF Step
<1>2. pc[t] = "lookup" /\ UNCHANGED <<children, suffix_start, value, key>>
    BY DEF Lookup, LookupLeaf, LookupChild, LookupMissing, trieVars
<1>3. /\ k \in Keys /\ d \in Nat /\ n \in Nodes
      /\ IsLeaf(n) => n \in Keys /\ (Matches(t, n) <=> n = k)
      /\ ~IsLeaf(n) => /\ d < key_size /\ Letter(t) \in Letters
                       /\ n = Prefix(k, d) /\ Inner(children, n)
    BY <1>2, LookupFacts
<1>4. CASE LookupLeaf(t)
  <2>1. IsLeaf(n) /\ pc'[t] = "idle" /\ answer'[t] = IF Matches(t, n) THEN n ELSE NULL
      BY <1>4 DEF LookupLeaf, Returns, Goto, Inv, Types
  <2>2. AtLeaf(t) /\ ~AtLeaf(t)'  BY <1>2, <2>1 DEF AtLeaf
  <2>3. CallingOf(t) = "none" /\ CallingOf(t)' = "none"  BY <1>2, <2>1, <2>2 DEF CallingOf
  <2>4. AnswerOf(t)' = AnswerOf(t)  BY <1>3, <2>1, <2>2 DEF AnswerOf
  <2> QED  BY <1>1, <1>2, <2>3, <2>4, MapUnseen
<1>5. \A j \in Keys : value[j] > 0 <=> suffix_start[j] > 0  BY KeyIsNode DEF Inv, Values
<1>6. ASSUME ~IsLeaf(n)
      PROVE  CallingOf(t) = "lookup" /\ AnswerOf(t) = answer[t]
    BY <1>2, <1>6 DEF CallingOf, AnswerOf, AtLeaf
<1>7. CASE LookupMissing(t)
  <2>1. ~IsLeaf(n) /\ pc'[t] = "idle" /\ answer'[t] = NULL /\ Child(t) = NULL
      BY <1>7 DEF LookupMissing, Returns, Goto, Inv, Types
  <2>2. Inner(children, Prefix(k, d)) /\ children[Prefix(k, d)][k[d + 1]] = NULL
      BY <1>3, <2>1 DEF Child, Letter
  <2>3. suffix_start[k] = 0  BY <1>3, <2>1, <2>2, KeyIsAbsent DEF Inv, Tree
  <2>4. ~(value[k] > 0)  BY <1>3, <1>5, <2>3
  <2>5. CallingOf(t)' = "none" /\ AnswerOf(t)' = NULL
      BY <2>1 DEF CallingOf, AnswerOf, AtLeaf
  <2> QED  BY <1>1, <1>2, <1>3, <1>6, <2>1, <2>4, <2>5, MapLookup
<1>8. CASE LookupChild(t)
  <2> DEFINE m == Child(t)
  <2>1. ~IsLeaf(n) /\ m # NULL /\ pc'[t] = "lookup" /\ tree_cursor'[t] = m /\ answer' = answer
      BY <1>2, <1>8 DEF LookupChild, Inv, Types
  <2>2. /\ m \in Nodes /\ Inner(children, Prefix(k, d)) /\ m = children[Prefix(k, d)][k[d + 1]]
      BY <1>3, <2>1 DEF Child, Letter, Inv, Types, TreeTypes
  <2>3. AtLeaf(t)' <=> IsLeaf(m)  BY <1>2, <2>1 DEF AtLeaf, IsLeaf
  <2>4. CASE ~IsLeaf(m)
    <3>1. CallingOf(t)' = "lookup" /\ AnswerOf(t)' = answer[t]
        BY <2>1, <2>3, <2>4 DEF CallingOf, AnswerOf
    <3> QED  BY <1>1, <1>2, <1>6, <2>1, <3>1, MapUnseen
  <2>5. CASE IsLeaf(m)
    <3>1. CallingOf(t)' = "none"  BY <2>1, <2>3, <2>5 DEF CallingOf
    <3>2. AnswerOf(t)' = IF m = k THEN k ELSE NULL  BY <1>2, <2>1, <2>3, <2>5 DEF AnswerOf
    <3>3. m \in Keys  BY <2>2, <2>5, LeafHasNoChild
    <3>4. value[k] > 0 <=> m = k
      <4>1. CASE m = k
        BY <1>3, <1>5, <2>5, <4>1 DEF IsLeaf
      <4>2. CASE m # k
        <5>1. suffix_start[k] = 0
            BY <1>3, <2>1, <2>2, <3>3, <4>2, KeyIsAbsent DEF Inv, Tree
        <5> QED  BY <1>3, <1>5, <4>2, <5>1
      <4> QED  BY <4>1, <4>2
    <3>5. AnswerOf(t)' = IF value[key[t]] > 0 THEN key[t] ELSE NULL  BY <3>2, <3>4
    <3> QED  BY <1>1, <1>2, <1>3, <1>6, <2>1, <3>1, <3>5, MapLookup
  <2> QED  BY <2>4, <2>5
<1> QED  BY <1>4, <1>7, <1>8 DEF Lookup

LEMMA StartMaps ==
    ASSUME Inv, NEW t \in Threads, Start(t)
    PROVE  \/ \E k \in Keys : Map!Call(t, "insert", k) \/ Map!Call(t, "lookup", k)
           \/ Map!Refuse(t)
           \/ UNCHANGED Map!vars
<1>1. OthersUnseen(t)  BY OthersDoNotSee
<1>2. pc[t] = "idle" /\ UNCHANGED <<children, suffix_start, value>>
    BY DEF Start, Call, Refuse, StartTraversal, trieVars
<1>3. CallingOf(t) = "none" /\ AnswerOf(t) = answer[t]  BY <1>2 DEF CallingOf, AnswerOf, AtLeaf
<1>4. ASSUME NEW k \in CallKeys, NEW label \in {"insert", "lookup"}, Call(t, label, k)
      PROVE  Map!Call(t, label, k)
  <2>1. pc'[t] = label /\ tree_cursor'[t] = root /\ key' = [key EXCEPT ![t] = k]
      BY <1>4 DEF Call, Goto, Inv, Types
  <2>5. answer' = answer  BY <1>4 DEF Call
  <2>2. ~IsLeaf(root)' 
    <3>1. ~IsLeaf(root)  BY RootIsNode, LeafHasNoChild
    <3> QED  BY <1>2, <3>1 DEF IsLeaf
  <2>3. ~AtLeaf(t)'  BY <2>1, <2>2 DEF AtLeaf, IsLeaf
  <2>4. CallingOf(t)' = label /\ AnswerOf(t)' = AnswerOf(t)
      BY <1>2, <1>3, <2>1, <2>3, <2>5 DEF CallingOf, AnswerOf
  <2> QED  BY <1>1, <1>2, <1>3, <2>1, <2>4, MapCall
<1>5. ASSUME NEW keep \in BOOLEAN, StartTraversal(t, keep)
      PROVE  UNCHANGED Map!vars
  <2>1. pc'[t] = "traverse" /\ UNCHANGED <<key, answer>>
      BY <1>5 DEF StartTraversal, Goto, Inv, Types
  <2>2. CallingOf(t)' = "none" /\ AnswerOf(t)' = answer[t]
      BY <1>2, <2>1 DEF CallingOf, AnswerOf, AtLeaf
  <2> QED  BY <1>1, <1>2, <1>3, <2>1, <2>2, MapUnseen
<1>6. ASSUME Refuse(t)
      PROVE  Map!Refuse(t)
  <2>1. /\ pc'[t] = "idle" /\ UNCHANGED key
        /\ answer'[t] = ERROR
      BY <1>2, <1>6 DEF Refuse, Inv, Types
  <2>2. CallingOf(t)' = "none" /\ AnswerOf(t)' = ERROR
      BY <2>1 DEF CallingOf, AnswerOf, AtLeaf
  <2> QED  BY <1>1, <1>2, <1>3, <2>1, <2>2, MapRefuse
<1> QED  BY <1>4, <1>5, <1>6, KeyAssumption DEF Start

LEMMA TraverseMaps ==
    ASSUME Inv, NEW t \in Threads, Traverse(t)
    PROVE  UNCHANGED Map!vars
<1>1. OthersUnseen(t)  BY OthersDoNotSee DEF Step
<1>2. pc[t] = "traverse" /\ UNCHANGED <<value, key, answer>>
    BY DEF Traverse, VisitLeaf, PushChildren, StopTraversal, EndTraversal, trieVars, cursorVars,
           visitVars
<1>3. pc'[t] \in {"idle", "traverse"}
    BY <1>2 DEF Traverse, VisitLeaf, PushChildren, StopTraversal, EndTraversal, Goto, Inv, Types
<1>4. CallingOf(t) = "none" /\ CallingOf(t)' = "none" /\ AnswerOf(t)' = AnswerOf(t)
    BY <1>2, <1>3 DEF CallingOf, AnswerOf, AtLeaf
<1> QED  BY <1>1, <1>2, <1>4, MapUnseen

LEMMA NextMaps == Inv /\ [Next]_vars => [Map!Next]_(Map!vars)
<1> SUFFICES ASSUME Inv, [Next]_vars
             PROVE  [Map!Next]_(Map!vars)
    OBVIOUS
<1>1. ASSUME NEW t \in Threads, Start(t) \/ Step(t)
      PROVE  [Map!Next]_(Map!vars)
    BY <1>1, StartMaps, InsertMaps, LookupMaps, TraverseMaps DEF Step, Map!Next
<1>2. CASE UNCHANGED vars
  <2>1. UNCHANGED <<suffix_start, value, pc, key, tree_cursor, answer>>
      BY <1>2 DEF vars, trieVars, cursorVars
  <2>2. \A t \in Threads : CallingOf(t)' = CallingOf(t) /\ AnswerOf(t)' = AnswerOf(t)
      BY <2>1 DEF CallingOf, AnswerOf, AtLeaf, IsLeaf
  <2>3. UNCHANGED Map!vars  BY <2>1, <2>2 DEF Map!vars, CallingOf, AnswerOf
  <2> QED  BY <2>3
<1> QED  BY <1>1, <1>2 DEF Next

LEMMA InitMaps == Init => Map!Init
<1> SUFFICES ASSUME Init
             PROVE  Map!Init
    OBVIOUS
<1>1. \A t \in Threads : CallingOf(t) = "none" /\ AnswerOf(t) = NULL
    BY DEF Init, CallingOf, AnswerOf, AtLeaf
<1>2. \A k \in Keys : value[k] = 0  BY KeyIsNode DEF Init
<1>3. key = [t \in Threads |-> NULL]  BY DEF Init
<1> QED  BY <1>1, <1>2, <1>3 DEF Map!Init, CallingOf, AnswerOf

\* The trie is the map with atomic operations at any size: the lock coupling of insert and
\* the single locks of lookup (HandleTrie.cc:80-205) linearise.
THEOREM TrieImplementsMap == Spec => ImplementsMap
<1>1. Spec => Map!Spec
    BY InitMaps, NextMaps, InvHolds, PTL DEF Spec, Map!Spec
<1> QED  BY <1>1 DEF ImplementsMap

-----------------------------------------------------------------------------
(* The order of a traversal *)

\* Whatever is below n comes before whatever is below m.
Before(n, m) ==
    \E p \in 1..Len(n) : /\ p <= Len(m)
                         /\ n[p] < m[p]
                         /\ \A q \in 1..(p - 1) : n[q] = m[q]

\* A key on the way of the traversal: already visited, or on its stack as a leaf, or
\* below an internal node on its stack.
Due(k, t) ==
    \/ \E i \in 1..Len(visited[t]) : visited[t][i] = k
    \/ \E j \in 1..Len(node_stack[t]) :
          \/ node_stack[t][j] = k
          \/ ~IsLeaf(node_stack[t][j])
             /\ Prefix(k, Len(node_stack[t][j])) = node_stack[t][j]

\* The leaves it has visited come before the nodes on its stack, and each of both comes
\* before the next ones; nothing that it owes is forgotten.
StackOrdered(t) ==
    /\ \A i, j \in 1..Len(node_stack[t]) : i < j => Before(node_stack[t][i], node_stack[t][j])
    /\ \A i \in 1..Len(visited[t]), j \in 1..Len(node_stack[t]) :
          Before(visited[t][i], node_stack[t][j])
    /\ \A k \in owed[t] : IsLeaf(k) /\ Due(k, t)

OrderOK(t) ==
    /\ owed[t] \subseteq Keys
    /\ \A i, j \in 1..Len(visited[t]) : i < j => Before(visited[t][i], visited[t][j])
    /\ IF pc[t] = "traverse"
       THEN StackOrdered(t)
       ELSE \A k \in owed[t] : \E i \in 1..Len(visited[t]) : visited[t][i] = k

Ordered == owed \in [Threads -> SUBSET Keys] /\ \A t \in Threads : OrderOK(t)

\* What comes before a node, or after it, does so with respect to what is below it.
LEMMA BelowKeepsOrder ==
    ASSUME NEW n \in Nodes, NEW m \in Nodes, NEW x \in Nodes,
           Len(n) <= Len(m), Prefix(m, Len(n)) = n
    PROVE  /\ Before(x, n) => Before(x, m)
           /\ Before(n, x) => Before(m, x)
<1>1. Len(n) \in Nat /\ Len(m) \in Nat /\ Len(x) \in Nat  BY NodeIsSeq, SizeAssumption
<1>2. \A i \in 1..Len(n) : n[i] = m[i]  BY <1>1, PrefixProperties
<1>3. ASSUME Before(x, n)
      PROVE  Before(x, m)
  <2>1. PICK p \in 1..Len(x) : p <= Len(n) /\ x[p] < n[p] /\ \A q \in 1..(p - 1) : x[q] = n[q]
      BY <1>3 DEF Before
  <2>2. p <= Len(m) /\ p \in 1..Len(n) /\ \A q \in 1..(p - 1) : q \in 1..Len(n)
      BY <1>1, <2>1
  <2>3. x[p] < m[p] /\ \A q \in 1..(p - 1) : x[q] = m[q]  BY <1>2, <2>1, <2>2
  <2> QED  BY <2>2, <2>3 DEF Before
<1>4. ASSUME Before(n, x)
      PROVE  Before(m, x)
  <2>1. PICK p \in 1..Len(n) : p <= Len(x) /\ n[p] < x[p] /\ \A q \in 1..(p - 1) : n[q] = x[q]
      BY <1>4 DEF Before
  <2>2. p \in 1..Len(m) /\ \A q \in 1..(p - 1) : q \in 1..Len(n)  BY <1>1, <2>1
  <2>3. m[p] < x[p] /\ \A q \in 1..(p - 1) : m[q] = x[q]  BY <1>2, <2>1, <2>2
  <2> QED  BY <2>1, <2>2, <2>3 DEF Before
<1> QED  BY <1>3, <1>4

\* The children of a node come in the order of their letters.
LEMMA ChildrenInOrder ==
    ASSUME NEW n \in Nodes, NEW m1 \in Nodes, NEW m2 \in Nodes,
           Len(n) < Len(m1), Len(n) < Len(m2),
           Prefix(m1, Len(n)) = n, Prefix(m2, Len(n)) = n,
           m1[Len(n) + 1] < m2[Len(n) + 1]
    PROVE  Before(m1, m2)
<1>1. Len(n) \in Nat /\ Len(m1) \in Nat /\ Len(m2) \in Nat  BY NodeIsSeq, SizeAssumption
<1>2. ASSUME NEW m \in Nodes, Len(n) < Len(m), Prefix(m, Len(n)) = n
      PROVE  \A i \in 1..Len(n) : n[i] = m[i]
  <2>1. Len(n) \in 0..Len(m)  BY <1>1, <1>2, NodeIsSeq
  <2>2. \A i \in 1..Len(n) : Prefix(m, Len(n))[i] = m[i]  BY <2>1, PrefixProperties
  <2> QED  BY <1>2, <2>2, Zenon
<1>3. Len(n) + 1 \in 1..Len(m1) /\ Len(n) + 1 <= Len(m2)  BY <1>1
<1>4. \A q \in 1..((Len(n) + 1) - 1) : m1[q] = m2[q]  BY <1>1, <1>2
<1> QED  BY <1>3, <1>4 DEF Before

\* The step of another thread leaves a traversal's stack in order.
LEMMA OrderSurvives ==
    ASSUME Inv, NEW t \in Threads, Start(t) \/ Step(t), NEW u \in Threads, OrderOK(u),
           UNCHANGED <<pc[u], visited[u], node_stack[u], owed[u]>>
    PROVE  OrderOK(u)'
<1>1. \A n \in Nodes : suffix_start[n] > 0 => suffix_start'[n] > 0  BY LeavesStay
<1>2. \A k \in owed[u] : IsLeaf(k) => IsLeaf(k)'
    BY <1>1, KeyIsNode DEF OrderOK, IsLeaf
<1>3. ASSUME pc[u] = "traverse", NEW j \in 1..Len(node_stack[u]), ~IsLeaf(node_stack[u][j])
      PROVE  ~IsLeaf(node_stack[u][j])'
  <2>1. node_stack[u] \in Seq(Nodes)  BY DEF Inv, Types
  <2>2. node_stack[u][j] \in Nodes  BY <2>1, ElementOfSeq
  <2>3. StackOK(children, suffix_start, node_stack[u])  BY <1>3 DEF Inv, PlaceOK, Place
  <2>4. Inner(children, node_stack[u][j])
    <3>1. CASE node_stack[u] = <<root>>
      <4>1. Len(<<root>>) = 1 /\ <<root>>[1] = root /\ \A i \in 1..1 : i = 1  OBVIOUS
      <4>2. node_stack[u][j] = root  BY <3>1, <4>1, Zenon
      <4> QED  BY <4>2 DEF Inner
    <3>2. CASE node_stack[u] # <<root>>
      BY <1>3, <2>3, <3>2 DEF StackOK, Live, IsLeaf
    <3> QED  BY <3>1, <3>2
  <2>5. node_stack[u][j] \notin Keys  BY <2>2, <2>4, InnerIsShort DEF Inv, Tree
  <2>6. suffix_start'[node_stack[u][j]] = suffix_start[node_stack[u][j]]
      BY <2>2, <2>5, LeavesStay
  <2> QED  BY <1>3, <2>6 DEF IsLeaf
<1>4. ASSUME pc[u] = "traverse", NEW k \in owed[u], Due(k, u)
      PROVE  Due(k, u)'
    BY <1>3, <1>4 DEF Due
<1> QED  BY <1>2, <1>4 DEF OrderOK, StackOrdered

\* A thread that does not traverse keeps what it has visited.
LEMMA NotTraversingKeepsOrder ==
    ASSUME Inv, Ordered, NEW t \in Threads, pc[t] # "traverse", pc'[t] # "traverse",
           UNCHANGED <<visited[t], owed[t]>>
    PROVE  OrderOK(t)'
BY DEF Ordered, OrderOK

LEMMA StartTraversalKeepsOrder ==
    ASSUME Inv, Ordered, NEW t \in Threads, NEW keep \in BOOLEAN, StartTraversal(t, keep)
    PROVE  OrderOK(t)'
<1>1. /\ pc'[t] = "traverse" /\ node_stack'[t] = <<root>> /\ visited'[t] = <<>>
      /\ owed'[t] = Present /\ UNCHANGED suffix_start
    BY DEF StartTraversal, Goto, trieVars, Inv, Types, Ordered
<1>2. Len(<<root>>) = 1 /\ <<root>>[1] = root /\ Len(<<>>) = 0  OBVIOUS
<1>3. Len(node_stack'[t]) = 1 /\ node_stack'[t][1] = root /\ Len(visited'[t]) = 0
    BY <1>1, <1>2, Zenon
<1>4. ASSUME NEW k \in Present
      PROVE  IsLeaf(k)' /\ Due(k, t)'
  <2>1. k \in Keys /\ k \in Nodes /\ value[k] > 0  BY KeyIsNode DEF Present
  <2>2. IsLeaf(k)'  BY <1>1, <2>1 DEF Inv, Values, IsLeaf
  <2>3. ~IsLeaf(root)'
    <3>1. ~IsLeaf(root)  BY RootIsNode, LeafHasNoChild
    <3> QED  BY <1>1, <3>1 DEF IsLeaf
  <2>4. Prefix(k, Len(root)) = root  BY <2>1, RootIsNode, PrefixWhole
  <2>5. 1 \in 1..Len(node_stack'[t])  BY <1>3
  <2>6. ~IsLeaf(node_stack[t][1])'  BY <1>3, <2>3 DEF IsLeaf
  <2>7. Prefix(k, Len(node_stack'[t][1])) = node_stack'[t][1]  BY <1>3, <2>4
  <2> QED  BY <2>2, <2>5, <2>6, <2>7 DEF Due
<1>5. StackOrdered(t)'  BY <1>1, <1>3, <1>4 DEF StackOrdered
<1>6. owed'[t] \subseteq Keys  BY <1>1 DEF Present
<1> QED  BY <1>1, <1>3, <1>5, <1>6 DEF OrderOK

\* The leaf on top of the stack comes after those visited and before the rest.
LEMMA VisitKeepsOrder ==
    ASSUME Inv, Ordered, NEW t \in Threads, pc[t] = "traverse", node_stack[t] # <<>>,
           IsLeaf(Head(node_stack[t])),
           visited' = [visited EXCEPT ![t] = Append(@, Head(node_stack[t]))]
    PROVE  LET new == visited'[t]
           IN /\ new \in Seq(Keys) /\ Len(new) = Len(visited[t]) + 1
              /\ \A i \in 1..Len(visited[t]) : new[i] = visited[t][i]
              /\ new[Len(new)] = Head(node_stack[t])
              /\ \A i, j \in 1..Len(new) : i < j => Before(new[i], new[j])
<1> DEFINE old == visited[t]
           leaf == Head(node_stack[t])
           new == visited'[t]
<1>1. /\ leaf \in Keys /\ leaf = node_stack[t][1] /\ Len(node_stack[t]) \in Nat
      /\ Len(node_stack[t]) > 0
    BY StackFacts
<1>2. old \in Seq(Keys) /\ Len(old) \in Nat  BY LenProperties DEF Inv, Types
<1>3. new = Append(old, leaf)  BY DEF Inv, Types
<1>4. /\ new \in Seq(Keys) /\ Len(new) = Len(old) + 1
      /\ \A i \in 1..Len(old) : new[i] = old[i]
      /\ new[Len(old) + 1] = leaf
    BY <1>1, <1>2, <1>3, AppendProperties
<1>5. /\ \A i, j \in 1..Len(old) : i < j => Before(old[i], old[j])
      /\ StackOrdered(t)
    BY DEF Ordered, OrderOK
<1>6. \A i \in 1..Len(old) : Before(old[i], leaf)
  <2>1. 1 \in 1..Len(node_stack[t])  BY <1>1
  <2> QED  BY <1>1, <1>5, <2>1 DEF StackOrdered
<1> HIDE DEF new, old, leaf
<1>7. \A i, j \in 1..Len(new) : i < j => Before(new[i], new[j])
  <2> SUFFICES ASSUME NEW i \in 1..Len(new), NEW j \in 1..Len(new), i < j
               PROVE  Before(new[i], new[j])
      OBVIOUS
  <2>1. i \in 1..Len(old) /\ new[i] = old[i]  BY <1>2, <1>4
  <2>2. CASE j = Len(old) + 1
    BY <1>4, <1>6, <2>1, <2>2
  <2>3. CASE j # Len(old) + 1
    <3>1. j \in 1..Len(old) /\ new[j] = old[j]  BY <1>2, <1>4, <2>3
    <3> QED  BY <1>5, <2>1, <3>1
  <2> QED  BY <2>2, <2>3
<1>8. new[Len(new)] = leaf  BY <1>4
<1> QED  BY <1>4, <1>7, <1>8 DEF new, old, leaf

LEMMA VisitLeafKeepsOrder ==
    ASSUME Inv, Ordered, NEW t \in Threads, VisitLeaf(t)
    PROVE  OrderOK(t)'
<1> DEFINE old == visited[t]
           new == visited'[t]
           stack == node_stack[t]
           rest == node_stack'[t]
           leaf == Head(stack)
<1>1. /\ pc[t] = "traverse" /\ stack # <<>> /\ IsLeaf(leaf)
      /\ visited' = [visited EXCEPT ![t] = Append(@, leaf)]
      /\ pc'[t] = "traverse" /\ rest = Tail(stack) /\ owed'[t] = owed[t]
      /\ UNCHANGED suffix_start
    BY DEF VisitLeaf, trieVars, Inv, Types
<1>2. /\ new \in Seq(Keys) /\ Len(new) = Len(old) + 1
      /\ \A i \in 1..Len(old) : new[i] = old[i]
      /\ new[Len(new)] = leaf
      /\ \A i, j \in 1..Len(new) : i < j => Before(new[i], new[j])
    BY <1>1, VisitKeepsOrder
<1>3. /\ Len(stack) \in Nat /\ Len(stack) > 0 /\ leaf = stack[1]
      /\ Len(rest) = Len(stack) - 1
      /\ \A i \in 1..Len(rest) : rest[i] = stack[i + 1]
    BY <1>1, StackFacts
<1>4. Len(old) \in Nat  BY LenProperties DEF Inv, Types
<1>5. owed[t] \subseteq Keys /\ StackOrdered(t)  BY <1>1 DEF Ordered, OrderOK
<1> HIDE DEF old, new, stack, rest, leaf
<1>6. /\ \A i, j \in 1..Len(stack) : i < j => Before(stack[i], stack[j])
      /\ \A i \in 1..Len(old), j \in 1..Len(stack) : Before(old[i], stack[j])
      /\ \A k \in owed[t] : IsLeaf(k) /\ Due(k, t)
    BY <1>5 DEF StackOrdered, old, stack
<1>7. \A i \in 1..Len(rest) : i + 1 \in 1..Len(stack)  BY <1>3
<1>8. \A i, j \in 1..Len(rest) : i < j => Before(rest[i], rest[j])
  <2> SUFFICES ASSUME NEW i \in 1..Len(rest), NEW j \in 1..Len(rest), i < j
               PROVE  Before(rest[i], rest[j])
      OBVIOUS
  <2>1. i + 1 \in 1..Len(stack) /\ j + 1 \in 1..Len(stack) /\ i + 1 < j + 1  BY <1>7
  <2>2. Before(stack[i + 1], stack[j + 1])  BY <1>6, <2>1
  <2> QED  BY <1>3, <2>2
<1>9. \A i \in 1..Len(new), j \in 1..Len(rest) : Before(new[i], rest[j])
  <2> SUFFICES ASSUME NEW i \in 1..Len(new), NEW j \in 1..Len(rest)
               PROVE  Before(new[i], rest[j])
      OBVIOUS
  <2>1. rest[j] = stack[j + 1] /\ j + 1 \in 1..Len(stack) /\ 1 \in 1..Len(stack) /\ 1 < j + 1
      BY <1>3, <1>7
  <2>2. CASE i = Len(new)
    BY <1>2, <1>3, <1>6, <2>1, <2>2
  <2>3. CASE i # Len(new)
    <3>1. i \in 1..Len(old) /\ new[i] = old[i]  BY <1>2, <1>4, <2>3
    <3> QED  BY <1>6, <2>1, <3>1
  <2> QED  BY <2>2, <2>3
<1>10. ASSUME NEW k \in owed[t]
       PROVE  IsLeaf(k)' /\ Due(k, t)'
  <2>1. IsLeaf(k) /\ Due(k, t)  BY <1>6
  <2>2. CASE \E i \in 1..Len(old) : old[i] = k
    <3>1. \E i \in 1..Len(new) : new[i] = k  BY <1>2, <1>4, <2>2
    <3> QED  BY <1>1, <2>1, <3>1 DEF Due, IsLeaf, new
  <2>3. CASE \E j \in 1..Len(stack) : \/ stack[j] = k
                                      \/ ~IsLeaf(stack[j]) /\ Prefix(k, Len(stack[j])) = stack[j]
    <3>1. PICK j \in 1..Len(stack) : \/ stack[j] = k
                                     \/ ~IsLeaf(stack[j]) /\ Prefix(k, Len(stack[j])) = stack[j]
        BY <2>3
    <3>2. CASE j = 1
      <4>1. stack[j] = k  BY <1>1, <1>3, <3>1, <3>2
      <4>2. Len(new) \in 1..Len(new) /\ new[Len(new)] = k  BY <1>2, <1>3, <1>4, <3>2, <4>1
      <4> QED  BY <1>1, <2>1, <4>2 DEF Due, IsLeaf, new
    <3>3. CASE j # 1
      <4>1. PICK i \in 1..Len(rest) : i = j - 1  BY <1>3, <3>3
      <4>2. rest[i] = stack[j]  BY <1>3, <4>1
      <4> QED  BY <1>1, <2>1, <3>1, <4>2 DEF Due, IsLeaf, rest
    <3> QED  BY <3>2, <3>3
  <2> QED  BY <2>1, <2>2, <2>3 DEF Due, old, stack
<1>11. StackOrdered(t)'
    BY <1>1, <1>8, <1>9, <1>10 DEF StackOrdered, new, rest
<1> QED  BY <1>1, <1>2, <1>5, <1>11 DEF OrderOK, new

LEMMA StopTraversalKeepsOrder ==
    ASSUME Inv, Ordered, NEW t \in Threads, StopTraversal(t)
    PROVE  OrderOK(t)'
<1>1. /\ pc[t] = "traverse" /\ node_stack[t] # <<>> /\ IsLeaf(Head(node_stack[t]))
      /\ visited' = [visited EXCEPT ![t] = Append(@, Head(node_stack[t]))]
      /\ pc'[t] = "idle" /\ owed'[t] = {}
    BY DEF StopTraversal, Goto, Inv, Types, Ordered
<1>2. \A i, j \in 1..Len(visited'[t]) : i < j => Before(visited'[t][i], visited'[t][j])
    BY <1>1, VisitKeepsOrder
<1> QED  BY <1>1, <1>2 DEF OrderOK

LEMMA EndTraversalKeepsOrder ==
    ASSUME Inv, Ordered, NEW t \in Threads, EndTraversal(t)
    PROVE  OrderOK(t)'
<1>1. /\ pc[t] = "traverse" /\ node_stack[t] = <<>> /\ pc'[t] = "idle"
      /\ UNCHANGED <<visited, owed>>
    BY DEF EndTraversal, Goto, visitVars, Inv, Types
<1>2. OrderOK(t) /\ StackOrdered(t)  BY <1>1 DEF Ordered, OrderOK
<1>3. Len(node_stack[t]) = 0  BY <1>1, EmptySeq
<1>4. \A k \in owed[t] : \E i \in 1..Len(visited[t]) : visited[t][i] = k
    BY <1>2, <1>3 DEF StackOrdered, Due
<1> QED  BY <1>1, <1>2, <1>4 DEF OrderOK

\* What is pushed goes on where the node ends, in the order of the letters.
LEMMA PushedInOrder ==
    ASSUME Inv, NEW n \in Nodes
    PROVE  /\ \A i \in 1..Len(Pushed(n)) :
                 /\ Pushed(n)[i] \in Nodes
                 /\ Len(n) < Len(Pushed(n)[i]) /\ Prefix(Pushed(n)[i], Len(n)) = n
           /\ \A i, j \in 1..Len(Pushed(n)) : i < j => Before(Pushed(n)[i], Pushed(n)[j])
<1>1. \A c \in Letters : children[n][c] # NULL =>
         /\ children[n][c] \in Nodes
         /\ Len(n) < Len(children[n][c]) /\ Prefix(children[n][c], Len(n)) = n
         /\ children[n][c][Len(n) + 1] = c
    BY DEF Inv, Types, TreeTypes, Tree, TreeOK, ChildOK
<1>2. TreeTypes(children, suffix_start)  BY DEF Inv, Types
<1>3. ASSUME NEW i \in 1..Len(Pushed(n))
      PROVE  /\ Pushed(n)[i] \in Nodes
             /\ Len(n) < Len(Pushed(n)[i]) /\ Prefix(Pushed(n)[i], Len(n)) = n
  <2>1. PICK c \in Letters : children[n][c] # NULL /\ Pushed(n)[i] = children[n][c]
      BY <1>2, PushedProperties
  <2> QED  BY <1>1, <2>1
<1>4. ASSUME NEW i \in 1..Len(Pushed(n)), NEW j \in 1..Len(Pushed(n)), i < j
      PROVE  Before(Pushed(n)[i], Pushed(n)[j])
  <2>1. PICK b \in Letters, c \in Letters :
           /\ b < c
           /\ children[n][b] # NULL /\ Pushed(n)[i] = children[n][b]
           /\ children[n][c] # NULL /\ Pushed(n)[j] = children[n][c]
      BY <1>2, <1>4, PushedProperties
  <2>2. Pushed(n)[i][Len(n) + 1] = b /\ Pushed(n)[j][Len(n) + 1] = c  BY <1>1, <2>1
  <2> QED  BY <1>3, <2>1, <2>2, ChildrenInOrder
<1> QED  BY <1>3, <1>4

\* A key of the tree that is below n is, or is below, one of the children pushed.
LEMMA PushedCoversBelow ==
    ASSUME Inv, NEW n \in Nodes, Inner(children, n),
           NEW k \in Keys, IsLeaf(k), Prefix(k, Len(n)) = n
    PROVE  \E i \in 1..Len(Pushed(n)) :
              \/ Pushed(n)[i] = k
              \/ ~IsLeaf(Pushed(n)[i]) /\ Prefix(k, Len(Pushed(n)[i])) = Pushed(n)[i]
<1> DEFINE d == Len(n)
           c == k[d + 1]
           m == children[n][c]
<1>1. d \in Nat /\ d < key_size  BY InnerIsShort, NodeIsSeq, SizeAssumption DEF Inv, Tree
<1>2. c \in Letters  BY <1>1, KeyIsNode, LetterOfNode, SizeAssumption
<1>3. TreeOK(children, suffix_start) /\ TreeTypes(children, suffix_start)
    BY DEF Inv, Types, Tree
<1>4. Inner(children, Prefix(k, d)) /\ m = children[Prefix(k, d)][k[d + 1]]
    OBVIOUS
<1>5. suffix_start[k] # 0  BY DEF IsLeaf
<1>6. m # NULL /\ m \notin Keys \ {k}  BY <1>1, <1>3, <1>4, <1>5, KeyIsAbsent
<1>7. m \in Nodes  BY <1>2, <1>3, <1>6 DEF TreeTypes
<1>8. PICK i \in 1..Len(Pushed(n)) : Pushed(n)[i] = m
    BY <1>2, <1>3, <1>6, PushedProperties
<1>9. CASE IsLeaf(m)
  <2>1. m \in Keys  BY <1>7, <1>9, LeafHasNoChild
  <2> QED  BY <1>6, <1>8, <2>1
<1>10. CASE ~IsLeaf(m)
  <2>1. suffix_start[m] = 0  BY <1>3, <1>7, <1>10, SizeAssumption DEF IsLeaf, TreeTypes
  <2>2. m = Prefix(k, d + 1)  BY <1>1, <1>3, <1>4, <1>7, <2>1, OneLetterDown
  <2>3. d + 1 \in 0..Len(k) /\ k \in Nodes  BY <1>1, KeyIsNode, SizeAssumption
  <2>4. Len(m) = d + 1  BY <2>2, <2>3, PrefixProperties
  <2> QED  BY <1>8, <1>10, <2>2, <2>4
<1> QED  BY <1>9, <1>10

LEMMA PushChildrenKeepsOrder ==
    ASSUME Inv, Ordered, NEW t \in Threads, PushChildren(t)
    PROVE  OrderOK(t)'
<1> DEFINE old == visited[t]
           stack == node_stack[t]
           n == Head(stack)
           pushed == Pushed(n)
           rest == Tail(stack)
           new == node_stack'[t]
<1>1. /\ pc[t] = "traverse" /\ stack # <<>> /\ ~IsLeaf(n)
      /\ new = pushed \o rest
      /\ pc'[t] = "traverse" /\ UNCHANGED <<visited, owed, suffix_start>>
    BY DEF PushChildren, trieVars, Inv, Types
<1>2. /\ stack \in Seq(Nodes) /\ Len(stack) \in Nat /\ Len(stack) > 0
      /\ n \in Nodes /\ n = stack[1] /\ Inner(children, n)
      /\ rest \in Seq(Nodes) /\ Len(rest) = Len(stack) - 1
      /\ \A i \in 1..Len(rest) : rest[i] = stack[i + 1]
    BY <1>1, StackFacts
<1>3. /\ pushed \in Seq(Nodes) /\ Len(pushed) \in Nat
      /\ \A i \in 1..Len(pushed) :
            pushed[i] \in Nodes /\ Len(n) < Len(pushed[i]) /\ Prefix(pushed[i], Len(n)) = n
      /\ \A i, j \in 1..Len(pushed) : i < j => Before(pushed[i], pushed[j])
    BY <1>2, PushedInOrder, PushedProperties, LenProperties DEF Inv, Types
<1>4. old \in Seq(Keys) /\ \A i \in 1..Len(old) : old[i] \in Nodes
    BY ElementOfSeq, KeyIsNode DEF Inv, Types
<1>5. OrderOK(t) /\ StackOrdered(t)  BY <1>1 DEF Ordered, OrderOK
<1>6. /\ \A i, j \in 1..Len(stack) : i < j => Before(stack[i], stack[j])
      /\ \A i \in 1..Len(old), j \in 1..Len(stack) : Before(old[i], stack[j])
      /\ \A k \in owed[t] : k \in Keys /\ IsLeaf(k) /\ Due(k, t)
    BY <1>5 DEF OrderOK, StackOrdered
<1>7. \A k \in owed[t] : Prefix(k, Len(n)) = n =>
         \E i \in 1..Len(pushed) : \/ pushed[i] = k
                                   \/ ~IsLeaf(pushed[i]) /\ Prefix(k, Len(pushed[i])) = pushed[i]
    BY <1>2, <1>6, PushedCoversBelow
<1>8. Len(n) \in Nat /\ \A m \in Nodes : Len(m) \in Nat  BY <1>2, NodeIsSeq, SizeAssumption
<1>9. Len(rest) \in Nat /\ 1 \in 1..Len(stack)  BY <1>2
<1>10. \A j \in 1..Len(stack) : stack[j] \in Nodes  BY <1>2, ElementOfSeq
<1> HIDE DEF old, stack, n, pushed, rest, new
<1>11. /\ Len(new) = Len(pushed) + Len(rest)
       /\ \A i \in 1..(Len(pushed) + Len(rest)) :
             new[i] = IF i <= Len(pushed) THEN pushed[i] ELSE rest[i - Len(pushed)]
    BY <1>1, <1>2, <1>3, ConcatProperties
<1>12. \A i \in 1..Len(pushed) : i \in 1..Len(new) /\ new[i] = pushed[i]
    BY <1>3, <1>9, <1>11
<1>13. \A j \in 2..Len(stack) : /\ Len(pushed) + j - 1 \in 1..Len(new)
                                /\ new[Len(pushed) + j - 1] = stack[j]
  <2> SUFFICES ASSUME NEW j \in 2..Len(stack)
               PROVE  /\ Len(pushed) + j - 1 \in 1..Len(new)
                      /\ new[Len(pushed) + j - 1] = stack[j]
      OBVIOUS
  <2>1. PICK i \in Nat : i = Len(pushed) + j - 1  BY <1>2, <1>3
  <2>2. i \in 1..(Len(pushed) + Len(rest)) /\ ~(i <= Len(pushed)) /\ i - Len(pushed) = j - 1
      BY <1>2, <1>3, <2>1
  <2>3. new[i] = rest[j - 1]  BY <1>11, <2>2
  <2>4. j - 1 \in 1..Len(rest) /\ (j - 1) + 1 = j  BY <1>2
  <2> QED  BY <1>2, <1>11, <2>1, <2>2, <2>3, <2>4
<1>14. \A i \in 1..Len(new) : i \in 1..Len(pushed)
                              \/ \E j \in 2..Len(stack) : i = Len(pushed) + j - 1
  <2> SUFFICES ASSUME NEW i \in 1..Len(new), i \notin 1..Len(pushed)
               PROVE  \E j \in 2..Len(stack) : i = Len(pushed) + j - 1
      OBVIOUS
  <2>1. i - Len(pushed) + 1 \in 2..Len(stack)  BY <1>2, <1>3, <1>9, <1>11
  <2>2. i = Len(pushed) + (i - Len(pushed) + 1) - 1  BY <1>3, <1>9, <1>11
  <2> QED  BY <2>1, <2>2
<1>15. \A i \in 1..Len(pushed), j \in 2..Len(stack) : Before(pushed[i], stack[j])
  <2> SUFFICES ASSUME NEW i \in 1..Len(pushed), NEW j \in 2..Len(stack)
               PROVE  Before(pushed[i], stack[j])
      OBVIOUS
  <2>1. j \in 1..Len(stack) /\ 1 < j  BY <1>2
  <2>2. Before(n, stack[j])  BY <1>2, <1>6, <1>9, <2>1
  <2>3. Len(n) <= Len(pushed[i])  BY <1>3, <1>8
  <2> QED  BY <1>2, <1>3, <1>10, <2>1, <2>2, <2>3, BelowKeepsOrder
<1>16. \A i, j \in 1..Len(new) : i < j => Before(new[i], new[j])
  <2> SUFFICES ASSUME NEW i \in 1..Len(new), NEW j \in 1..Len(new), i < j
               PROVE  Before(new[i], new[j])
      OBVIOUS
  <2>1. CASE i \in 1..Len(pushed) /\ j \in 1..Len(pushed)
    BY <1>3, <1>12, <2>1
  <2>2. ASSUME NEW m \in 2..Len(stack), j = Len(pushed) + m - 1, i \in 1..Len(pushed)
        PROVE  Before(new[i], new[j])
      BY <1>12, <1>13, <1>15, <2>2
  <2>3. ASSUME NEW l \in 2..Len(stack), i = Len(pushed) + l - 1,
               NEW m \in 2..Len(stack), j = Len(pushed) + m - 1
        PROVE  Before(new[i], new[j])
    <3>1. l < m /\ l \in 1..Len(stack) /\ m \in 1..Len(stack)  BY <1>2, <1>3, <2>3
    <3>2. Before(stack[l], stack[m])  BY <1>6, <3>1
    <3> QED  BY <1>13, <2>3, <3>2
  <2>4. ASSUME NEW l \in 2..Len(stack), i = Len(pushed) + l - 1, j \in 1..Len(pushed)
        PROVE  FALSE
      BY <1>2, <1>3, <2>4
  <2> QED  BY <1>14, <2>1, <2>2, <2>3, <2>4
<1>17. \A i \in 1..Len(old), j \in 1..Len(new) : Before(old[i], new[j])
  <2> SUFFICES ASSUME NEW i \in 1..Len(old), NEW j \in 1..Len(new)
               PROVE  Before(old[i], new[j])
      OBVIOUS
  <2>1. CASE j \in 1..Len(pushed)
    <3>1. Before(old[i], n)  BY <1>2, <1>6, <1>9
    <3>2. Len(n) <= Len(pushed[j])  BY <1>3, <1>8, <2>1
    <3>3. Before(old[i], pushed[j])  BY <1>2, <1>3, <1>4, <2>1, <3>1, <3>2, BelowKeepsOrder
    <3> QED  BY <1>12, <2>1, <3>3
  <2>2. ASSUME NEW m \in 2..Len(stack), j = Len(pushed) + m - 1
        PROVE  Before(old[i], new[j])
    <3>1. m \in 1..Len(stack)  BY <1>2
    <3> QED  BY <1>6, <1>13, <2>2, <3>1
  <2> QED  BY <1>14, <2>1, <2>2
<1>18. ASSUME NEW k \in owed[t]
       PROVE  IsLeaf(k)' /\ Due(k, t)'
  <2>1. k \in Keys /\ IsLeaf(k) /\ Due(k, t)  BY <1>6
  <2>2. CASE \E i \in 1..Len(old) : old[i] = k
    BY <1>1, <2>1, <2>2 DEF Due, IsLeaf, old
  <2>3. CASE \E j \in 1..Len(stack) : \/ stack[j] = k
                                      \/ ~IsLeaf(stack[j]) /\ Prefix(k, Len(stack[j])) = stack[j]
    <3>1. PICK j \in 1..Len(stack) : \/ stack[j] = k
                                     \/ ~IsLeaf(stack[j]) /\ Prefix(k, Len(stack[j])) = stack[j]
        BY <2>3
    <3>2. CASE j = 1
      <4>1. Prefix(k, Len(n)) = n  BY <1>1, <1>2, <2>1, <3>1, <3>2
      <4>2. PICK i \in 1..Len(pushed) :
               \/ pushed[i] = k
               \/ ~IsLeaf(pushed[i]) /\ Prefix(k, Len(pushed[i])) = pushed[i]
          BY <1>7, <4>1
      <4>3. i \in 1..Len(new) /\ new[i] = pushed[i]  BY <1>12
      <4> QED  BY <1>1, <2>1, <4>2, <4>3 DEF Due, IsLeaf, new
    <3>3. CASE j # 1
      <4>1. j \in 2..Len(stack)  BY <1>2, <3>3
      <4>2. PICK i \in 1..Len(new) : new[i] = stack[j]  BY <1>13, <4>1
      <4> QED  BY <1>1, <2>1, <3>1, <4>2 DEF Due, IsLeaf, new
    <3> QED  BY <3>2, <3>3
  <2> QED  BY <2>1, <2>2, <2>3 DEF Due, old, stack
<1>19. StackOrdered(t)'
    BY <1>1, <1>16, <1>17, <1>18 DEF StackOrdered, old, new
<1> QED  BY <1>1, <1>5, <1>19 DEF OrderOK

LEMMA OrderInit == Init => Ordered
<1> SUFFICES ASSUME Init
             PROVE  Ordered
    OBVIOUS
<1>1. Len(<<>>) = 0  OBVIOUS
<1>2. \A t \in Threads : pc[t] = "idle" /\ Len(visited[t]) = 0 /\ owed[t] = {}
    BY <1>1 DEF Init
<1>3. owed \in [Threads -> SUBSET Keys]  BY DEF Init
<1> QED  BY <1>2, <1>3 DEF Ordered, OrderOK

\* What a step of one thread leaves to the others' traversals.
LEMMA OthersOrder ==
    ASSUME Inv, Ordered, NEW t \in Threads, Start(t) \/ Step(t)
    PROVE  /\ owed' \in [Threads -> SUBSET Keys]
           /\ \A u \in Threads : u # t =>
                 UNCHANGED <<pc[u], visited[u], node_stack[u], owed[u]>>
<1>0. /\ owed \in [Threads -> SUBSET Keys]
      /\ \E S : pc \in [Threads -> S]
      /\ \E S : visited \in [Threads -> S]
      /\ \E S : node_stack \in [Threads -> S]
    BY DEF Inv, Types, Ordered
<1>1. CASE Insert(t) \/ Lookup(t)
    BY <1>0, <1>1 DEF Insert, LockRoot, AddLeaf, PushLeafDown, SplitLeaf, Descend, LockChild,
       Merge, Lookup, LookupLeaf, LookupChild, LookupMissing, Returns, Goto, visitVars
<1>2. CASE \E k \in CallKeys : Call(t, "insert", k) \/ Call(t, "lookup", k)
    BY <1>0, <1>2 DEF Call, Goto, visitVars
<1>3. CASE \E keep \in BOOLEAN : StartTraversal(t, keep)
    BY <1>0, <1>3 DEF StartTraversal, Goto, Present
<1>4. CASE VisitLeaf(t) \/ PushChildren(t)
    BY <1>0, <1>4 DEF VisitLeaf, PushChildren
<1>5. CASE StopTraversal(t) \/ EndTraversal(t)
    BY <1>0, <1>5 DEF StopTraversal, EndTraversal, Goto, visitVars
<1>6. CASE Refuse(t)
    BY <1>0, <1>6 DEF Refuse, visitVars
<1> QED  BY <1>1, <1>2, <1>3, <1>4, <1>5, <1>6 DEF Start, Step, Traverse

LEMMA StepKeepsOrder ==
    ASSUME Inv, Ordered, NEW t \in Threads, Start(t) \/ Step(t)
    PROVE  Ordered'
<1>1. OrderOK(t)'
  <2>1. ASSUME (\E k \in CallKeys : Call(t, "insert", k) \/ Call(t, "lookup", k))
               \/ Refuse(t) \/ Insert(t) \/ Lookup(t)
        PROVE  OrderOK(t)'
    <3>1. pc[t] # "traverse" /\ pc'[t] # "traverse" /\ UNCHANGED <<visited, owed>>
        BY <2>1 DEF Call, Refuse, Insert, LockRoot, AddLeaf, PushLeafDown, SplitLeaf, Descend,
           LockChild, Merge, Lookup, LookupLeaf, LookupChild, LookupMissing, Returns, Goto,
           visitVars, Inv, Types
    <3> QED  BY <3>1, NotTraversingKeepsOrder
  <2>2. ASSUME \E keep \in BOOLEAN : StartTraversal(t, keep)
        PROVE  OrderOK(t)'
      BY <2>2, StartTraversalKeepsOrder
  <2>3. ASSUME Traverse(t)
        PROVE  OrderOK(t)'
      BY <2>3, VisitLeafKeepsOrder, PushChildrenKeepsOrder, StopTraversalKeepsOrder,
         EndTraversalKeepsOrder
      DEF Traverse
  <2> QED  BY <2>1, <2>2, <2>3 DEF Start, Step
<1>2. ASSUME NEW u \in Threads, u # t
      PROVE  OrderOK(u)'
  <2>1. UNCHANGED <<pc[u], visited[u], node_stack[u], owed[u]>>  BY <1>2, OthersOrder
  <2>2. OrderOK(u)  BY DEF Ordered
  <2> QED  BY <2>1, <2>2, OrderSurvives
<1>3. owed' \in [Threads -> SUBSET Keys]  BY OthersOrder
<1> QED  BY <1>1, <1>2, <1>3 DEF Ordered

LEMMA OrderInductive == Inv /\ Ordered /\ [Next]_vars => Ordered'
<1> SUFFICES ASSUME Inv, Ordered, [Next]_vars
             PROVE  Ordered'
    OBVIOUS
<1>1. CASE Next
    BY <1>1, StepKeepsOrder DEF Next
<1>2. CASE UNCHANGED vars
  <2>1. UNCHANGED <<suffix_start, pc, visited, node_stack, owed>>
      BY <1>2 DEF vars, trieVars, visitVars
  <2> QED  BY <2>1 DEF Ordered, OrderOK, StackOrdered, Due, IsLeaf
<1> QED  BY <1>1, <1>2

\* What the order of the stack comes to for who watches the visit function.
LEMMA OrderShows == Inv /\ Ordered => TraversesInOrder
<1> SUFFICES ASSUME Inv, Ordered, NEW t \in Threads
             PROVE  /\ \A i \in 1..(Len(visited[t]) - 1) :
                          Precedes(visited[t][i], visited[t][i + 1])
                    /\ pc[t] # "traverse" =>
                          owed[t] \subseteq {visited[t][i] : i \in 1..Len(visited[t])}
    BY DEF TraversesInOrder
<1>1. visited[t] \in Seq(Keys) /\ Len(visited[t]) \in Nat  BY LenProperties DEF Inv, Types
<1>2. OrderOK(t)  BY DEF Ordered
<1>3. ASSUME NEW i \in 1..(Len(visited[t]) - 1)
      PROVE  Precedes(visited[t][i], visited[t][i + 1])
  <2>1. PICK j \in Nat : j = i + 1  BY <1>1
  <2>2. i \in 1..Len(visited[t]) /\ j \in 1..Len(visited[t]) /\ i < j  BY <1>1, <2>1
  <2>3. Before(visited[t][i], visited[t][j])  BY <1>2, <2>2 DEF OrderOK
  <2>4. Len(visited[t][i]) = key_size  BY <1>1, <2>2, ElementOfSeq, KeyIsNode
  <2> QED  BY <2>1, <2>3, <2>4 DEF Before, Precedes
<1>4. ASSUME pc[t] # "traverse"
      PROVE  owed[t] \subseteq {visited[t][i] : i \in 1..Len(visited[t])}
    BY <1>2, <1>4 DEF OrderOK
<1> QED  BY <1>3, <1>4

\* HandleTrie.h:79 at any size of the trie: leaves are visited in the order of their keys,
\* none twice, and none that was there when the traversal began is missed, while other
\* threads split and push down the leaves that it has on its stack.
THEOREM TraversalsInOrder == Spec => []TraversesInOrder
BY InvInit, InvInductive, OrderInit, OrderInductive, OrderShows, PTL DEF Spec
=============================================================================
