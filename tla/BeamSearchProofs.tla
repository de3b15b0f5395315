-------------------------- MODULE BeamSearchProofs --------------------------
(***************************************************************************)
(* For every catalog: what the lookups of the dense and of the CSR layout   *)
(* return.  The layouts are built from the same edges, so that they agree   *)
(* comes down to the search in the sorted keys and to the clamps.  And the  *)
(* tables a request is searched with follow its catalog: they are built     *)
(* from it before the first step and no step replaces them.                 *)
(* For every request: the rows of the frontier.  The nodes of the trie are  *)
(* related to the paths that lead there, so that a table row read at a node *)
(* says how the path may go on; a step offers candidates that extend their  *)
(* row soundly and differ, topk takes some of them, and the ranking lists   *)
(* each of those once.                                                      *)
(***************************************************************************)
EXTENDS BeamSearch, SharedLemmas

-----------------------------------------------------------------------------
(* Codebooks. *)

\* A codebook begins where the one before it ends.
LEMMA OffsetStep ==
    /\ Levels \in Nat \ {0} /\ Offset(0) = 0
    /\ \A l \in 0 .. Levels : Offset(l) \in Nat
    /\ \A l \in 0 .. Levels - 1 : Sizes[l + 1] \in Nat \ {0} /\ Offset(l + 1) = Offset(l) + Sizes[l + 1]
<1>1. Sizes \in Seq(Nat \ {0}) /\ Sizes # <<>> /\ Sizes \in Seq(Int)
    BY SizesAssumption
<1>2. Levels \in Nat \ {0} /\ \A l \in 0 .. Levels - 1 : Sizes[l + 1] \in Nat \ {0}
    BY <1>1 DEF Levels
<1>3. \A l \in 0 .. Levels :
          /\ SubSeq(Sizes, 1, l) \in Seq(Int) /\ Len(SubSeq(Sizes, 1, l)) = l
          /\ \A i \in 1 .. l : SubSeq(Sizes, 1, l)[i] = Sizes[i]
    BY <1>1 DEF Levels
<1>4. \A l : Offset(l) = Summed(SubSeq(Sizes, 1, l))
    BY DEF Offset, Summed
<1>5. Offset(0) = 0
  <2>1. SubSeq(Sizes, 1, 0) = <<>>
      BY <1>1
  <2> QED
      BY <1>4, <2>1, SumStep
<1>6. \A l \in 0 .. Levels : Offset(l) \in Int
    BY <1>3, <1>4, SumStep
<1>7. ASSUME NEW l \in 0 .. Levels - 1 PROVE Offset(l + 1) = Offset(l) + Sizes[l + 1]
  <2>1. l \in 0 .. Levels /\ l + 1 \in 0 .. Levels
      BY <1>2
  <2>2. PICK u, v \in Seq(Int) : u = SubSeq(Sizes, 1, l) /\ v = SubSeq(Sizes, 1, l + 1)
      BY <1>3, <2>1
  <2>3. Len(v) = Len(u) + 1 /\ (\A i \in 1 .. Len(u) : v[i] = u[i]) /\ v[Len(v)] = Sizes[l + 1]
      BY <1>3, <2>1, <2>2
  <2>4. Summed(v) = Summed(u) + v[Len(v)]
      BY <2>3, SumStep
  <2> QED
      BY <1>4, <2>2, <2>3, <2>4
<1>8. \A l \in 0 .. Levels : Offset(l) >= 0
  <2> DEFINE D == {l \in 0 .. Levels : ~(Offset(l) >= 0)}
  <2>1. SUFFICES ASSUME D # {} PROVE FALSE
      OBVIOUS
  <2>2. PICK m \in D : m \in 0 .. Levels /\ \A l \in 0 .. Levels : l < m => l \notin D
    <3>1. D \in SUBSET (0 .. Levels)
        OBVIOUS
    <3> HIDE DEF D
    <3> QED
        BY <1>2, <2>1, <3>1, LeastUpTo
  <2>3. m # 0 /\ ~(Offset(m) >= 0)
      BY <1>5, <2>2
  <2>4. m - 1 \in 0 .. Levels - 1 /\ m - 1 \in 0 .. Levels /\ Offset(m - 1) >= 0
      BY <1>2, <2>2, <2>3
  <2>5. Offset(m - 1 + 1) = Offset(m - 1) + Sizes[m - 1 + 1] /\ m - 1 + 1 = m
      BY <1>7, <2>4
  <2>6. Sizes[m] \in Nat
      BY <1>2, <2>4, <2>5
  <2> HIDE DEF D
  <2> QED
      BY <1>6, <2>3, <2>4, <2>5, <2>6
<1> QED
    BY <1>2, <1>5, <1>6, <1>7, <1>8

\* The codebooks lie in the range one after the other.
LEMMA CodebooksInRange ==
    /\ Vocab \in Nat \ {0}
    /\ \A l \in 0 .. Levels - 1 : Offset(l) \in Nat /\ Offset(l) + Sizes[l + 1] <= Vocab
<1> DEFINE D == {k \in 0 .. Levels : ~(Offset(Levels - k) <= Vocab)}
<1>1. D = {}
  <2>1. SUFFICES ASSUME D # {} PROVE FALSE
      OBVIOUS
  <2>2. PICK m \in D : m \in 0 .. Levels /\ \A k \in 0 .. Levels : k < m => k \notin D
    <3>1. D \in SUBSET (0 .. Levels)
        OBVIOUS
    <3> HIDE DEF D
    <3> QED
        BY <2>1, <3>1, OffsetStep, LeastUpTo
  <2>3. m # 0
      BY <2>2, OffsetStep DEF Vocab
  <2>4. m - 1 \in 0 .. Levels /\ Offset(Levels - (m - 1)) <= Vocab
      BY <2>2, <2>3, OffsetStep
  <2>5. PICK l \in 0 .. Levels - 1 : l = Levels - m
      BY <2>2, <2>3, OffsetStep
  <2>6. Levels - (m - 1) = l + 1 /\ l \in 0 .. Levels /\ ~(Offset(l) <= Vocab)
      BY <2>2, <2>5, OffsetStep
  <2>7. Offset(l + 1) = Offset(l) + Sizes[l + 1] /\ Sizes[l + 1] \in Nat /\ Offset(l) \in Nat
      BY <2>5, <2>6, OffsetStep
  <2>8. Vocab \in Nat
      BY OffsetStep DEF Vocab
  <2> HIDE DEF D
  <2> QED
      BY <2>4, <2>6, <2>7, <2>8
<1>2. \A l \in 0 .. Levels : Offset(l) <= Vocab
  <2> TAKE l \in 0 .. Levels
  <2>1. Levels - l \in 0 .. Levels /\ Levels - (Levels - l) = l
      BY OffsetStep
  <2> QED
      BY <1>1, <2>1
<1>3. Vocab \in Nat
    BY OffsetStep DEF Vocab
<1>4. Vocab # 0
  <2>1. 0 \in 0 .. Levels - 1 /\ 0 + 1 = 1 /\ 1 \in 0 .. Levels
      BY OffsetStep
  <2>2. Offset(1) = Offset(0) + Sizes[1] /\ Sizes[1] \in Nat \ {0} /\ Offset(0) = 0
      BY <2>1, OffsetStep
  <2>3. Offset(1) <= Vocab
      BY <1>2, <2>1
  <2> QED
      BY <2>2, <2>3
<1>5. ASSUME NEW l \in 0 .. Levels - 1 PROVE Offset(l) \in Nat /\ Offset(l) + Sizes[l + 1] <= Vocab
  <2>1. l \in 0 .. Levels /\ l + 1 \in 0 .. Levels
      BY OffsetStep
  <2> QED
      BY <1>2, <2>1, OffsetStep
<1> QED
    BY <1>3, <1>4, <1>5

-----------------------------------------------------------------------------
(* Keys. *)

EdgeKey(e) == e[1] * Vocab + e[2]

\* A key determines its node and its token.
LEMMA KeyDigits ==
    ASSUME NEW a \in Nat, NEW c \in Nat, NEW b \in 0 .. Vocab - 1, NEW d \in 0 .. Vocab - 1,
           a * Vocab + b = c * Vocab + d
    PROVE  a = c /\ b = d
<1>1. Vocab \in Nat \ {0}
    BY CodebooksInRange
<1>2. ASSUME NEW x \in Nat, NEW y \in Nat, x < y PROVE x * Vocab + Vocab <= y * Vocab
  <2>1. PICK k \in Nat : y = x + 1 + k
      BY <1>2
  <2>2. y * Vocab = x * Vocab + Vocab + k * Vocab
      BY <1>1, <2>1
  <2>3. k * Vocab \in Nat /\ x * Vocab \in Nat
      BY <1>1
  <2> QED
      BY <1>1, <2>2, <2>3
<1>3. a * Vocab \in Nat /\ c * Vocab \in Nat
    BY <1>1
<1>4. ~(a < c)
    BY <1>1, <1>2, <1>3
<1>5. ~(c < a)
    BY <1>1, <1>2, <1>3
<1>6. a = c
    BY <1>4, <1>5
<1> QED
    BY <1>3, <1>6

KeyOrder(E) == {p \in E \X E : EdgeKey(p[1]) < EdgeKey(p[2])}

\* Distinct edges of numbered nodes have distinct keys, so keys order them.
LEMMA KeysOrder ==
    ASSUME NEW n \in Nat, NEW E \in SUBSET ((0 .. n) \X (0 .. Vocab - 1))
    PROVE  /\ \A e \in E : EdgeKey(e) \in Nat
           /\ StrictOrderOn(KeyOrder(E), E)
<1>1. Vocab \in Nat \ {0}
    BY CodebooksInRange
<1>2. \A e \in E : /\ e[1] \in Nat /\ e[2] \in 0 .. Vocab - 1
                   /\ e = <<e[1], e[2]>>
    BY <1>1
<1>3. \A e \in E : EdgeKey(e) \in Nat
  <2> SUFFICES ASSUME NEW e \in E PROVE EdgeKey(e) \in Nat
      OBVIOUS
  <2>1. e[1] * Vocab \in Nat
      BY <1>1, <1>2
  <2> QED
      BY <1>1, <1>2, <2>1 DEF EdgeKey
<1>4. ASSUME NEW x \in E, NEW y \in E, EdgeKey(x) = EdgeKey(y) PROVE x = y
  <2>1. x[1] = y[1] /\ x[2] = y[2]
      BY <1>2, <1>4, KeyDigits DEF EdgeKey
  <2> QED
      BY <1>2, <2>1
<1>5. \A x, y \in E : <<x, y>> \in KeyOrder(E) <=> EdgeKey(x) < EdgeKey(y)
    BY DEF KeyOrder
<1> QED
    BY <1>3, <1>4, <1>5 DEF StrictOrderOn

-----------------------------------------------------------------------------
(* The edges of a trie, and the search in their keys. *)

EdgeSet(S) == Edges(S, NodeOrder(S))
EdgeAt(S) == Sorted(EdgeSet(S), LAMBDA d, e : EdgeKey(d) < EdgeKey(e))

\* There are as many nodes as proper prefixes.
LEMMA NodesCounted ==
    ASSUME NEW S, IsFiniteSet(ProperPrefixes(S))
    PROVE  /\ Len(NodeOrder(S)) = Cardinality(ProperPrefixes(S))
           /\ Len(NodeOrder(S)) \in Nat
<1>1. Cardinality(ProperPrefixes(S)) \in Nat
    BY FS_CardinalityType
<1> QED
    BY <1>1 DEF NodeOrder, Sorted

\* An edge is a numbered node and a token of the range.
LEMMA EdgesFinite ==
    ASSUME NEW S, IsFiniteSet(ProperPrefixes(S))
    PROVE  /\ EdgeSet(S) \in SUBSET ((0 .. Len(NodeOrder(S))) \X (0 .. Vocab - 1))
           /\ IsFiniteSet(EdgeSet(S))
           /\ Cardinality(EdgeSet(S)) \in Nat
<1>1. Len(NodeOrder(S)) \in Nat /\ Vocab \in Nat
    BY NodesCounted, CodebooksInRange
<1>2. EdgeSet(S) \in SUBSET ((0 .. Len(NodeOrder(S))) \X (0 .. Vocab - 1))
    BY <1>1 DEF EdgeSet, Edges
<1>3. IsFiniteSet((0 .. Len(NodeOrder(S))) \X (0 .. Vocab - 1))
  <2>1. IsFiniteSet(0 .. Len(NodeOrder(S))) /\ IsFiniteSet(0 .. Vocab - 1)
      BY <1>1, FS_Interval
  <2> QED
      BY <2>1, FS_Product
<1>4. IsFiniteSet(EdgeSet(S))
    BY <1>2, <1>3, FS_Subset
<1> QED
    BY <1>2, <1>4, FS_CardinalityType

\* _build_csr_cache: position i + 1 holds the edge with i smaller keys.
LEMMA EdgesEnumerated ==
    ASSUME NEW S, IsFiniteSet(ProperPrefixes(S))
    PROVE  LET E == EdgeSet(S) IN
           /\ DOMAIN EdgeAt(S) = 1 .. Cardinality(E)
           /\ \A i \in 1 .. Cardinality(E) :
                EdgeAt(S)[i] \in E /\ Place(KeyOrder(E), E, EdgeAt(S)[i]) = i - 1
<1> DEFINE E == EdgeSet(S)
           R == KeyOrder(E)
<1>1. StrictOrderOn(R, E) /\ IsFiniteSet(E) /\ Cardinality(E) \in Nat
    BY EdgesFinite, NodesCounted, KeysOrder
<1>2. \A x \in E : Below(R, E, x) = {y \in E : EdgeKey(y) < EdgeKey(x)}
    BY DEF Below, KeyOrder
<1>3. DOMAIN EdgeAt(S) = 1 .. Cardinality(E)
    BY DEF EdgeAt, Sorted
<1>4. ASSUME NEW i \in 1 .. Cardinality(E)
      PROVE  EdgeAt(S)[i] \in E /\ Place(R, E, EdgeAt(S)[i]) = i - 1
  <2>1. i - 1 \in 0 .. Cardinality(E) - 1
      BY <1>1
  <2>2. \E x \in E : Place(R, E, x) = i - 1
      BY <1>1, <2>1, PlacesTaken
  <2>3. \E x \in E : Cardinality({y \in E : EdgeKey(y) < EdgeKey(x)}) = i - 1
      BY <1>2, <2>2 DEF Place
  <2> DEFINE Nth(j) == CHOOSE x \in E :
                           Cardinality({y \in E : EdgeKey(y) < EdgeKey(x)}) = j - 1
  <2>4. EdgeAt(S) = [j \in 1 .. Cardinality(E) |-> Nth(j)]
      BY Zenon DEF EdgeAt, Sorted
  <2>5. Nth(i) \in E /\ Cardinality({y \in E : EdgeKey(y) < EdgeKey(Nth(i))}) = i - 1
      BY <2>3, Zenon
  <2> HIDE DEF Nth
  <2> QED
      BY <1>2, <2>4, <2>5 DEF Place
<1> QED
    BY <1>3, <1>4

\* _build_csr_cache: the keys and the children of the edges, in their order.
LEMMA CsrFields ==
    ASSUME NEW S, IsFiniteSet(ProperPrefixes(S))
    PROVE  LET n == Cardinality(EdgeSet(S)) IN
           /\ CsrTrie(S).layout = "csr" /\ CsrTrie(S).invalid = Len(NodeOrder(S))
           /\ CsrTrie(S).keys = [i \in 1 .. n |-> EdgeKey(EdgeAt(S)[i])]
           /\ CsrTrie(S).child = [i \in 1 .. n |-> EdgeChild(S, NodeOrder(S), EdgeAt(S)[i])]
<1>1. DOMAIN EdgeAt(S) = 1 .. Cardinality(EdgeSet(S))
    BY EdgesEnumerated
<1>2. CsrTrie(S).keys = [i \in DOMAIN EdgeAt(S) |-> EdgeKey(EdgeAt(S)[i])]
    BY DEF CsrTrie, EdgeAt, EdgeSet, EdgeKey
<1>3. CsrTrie(S).child =
        [i \in DOMAIN EdgeAt(S) |-> EdgeChild(S, NodeOrder(S), EdgeAt(S)[i])]
    BY DEF CsrTrie, EdgeAt, EdgeSet, EdgeKey
<1> QED
    BY <1>1, <1>2, <1>3 DEF CsrTrie

\* The search finds an edge exactly if there is one, and then that edge; the clamped
\* index behind the last key is never taken for a hit.
LEMMA CsrFindsEdges ==
    ASSUME NEW S, IsFiniteSet(ProperPrefixes(S)),
           NEW node \in 0 .. Len(NodeOrder(S)), NEW tok \in Int, InRange(tok)
    PROVE  LET i == CsrFind(CsrTrie(S), node, tok)
               e == <<node, tok - Base>>
           IN  /\ e \in EdgeSet(S) <=> i # 0
               /\ i # 0 => i \in 1 .. Cardinality(EdgeSet(S)) /\ EdgeAt(S)[i] = e
<1> DEFINE E == EdgeSet(S)
           R == KeyOrder(E)
           n == Cardinality(E)
           t == CsrTrie(S)
           e == <<node, tok - Base>>
           key == EdgeKey(e)
           smaller == {i \in 1 .. n : t.keys[i] < key}
           idx == Cardinality(smaller)
<1>1. /\ Len(NodeOrder(S)) \in Nat /\ Vocab \in Nat \ {0} /\ Base \in Nat
      /\ E \in SUBSET ((0 .. Len(NodeOrder(S))) \X (0 .. Vocab - 1))
      /\ IsFiniteSet(E) /\ n \in Nat
    BY NodesCounted, CodebooksInRange, SizesAssumption, EdgesFinite
<1>2. /\ StrictOrderOn(R, E)
      /\ \A d \in E : EdgeKey(d) \in Nat
    BY <1>1, KeysOrder
<1>3. tok - Base \in 0 .. Vocab - 1 /\ node \in Nat
    BY <1>1 DEF InRange
<1>4. key \in Nat
  <2>1. node * Vocab \in Nat
      BY <1>1, <1>3
  <2> QED
      BY <1>1, <1>3, <2>1 DEF EdgeKey
<1>5. /\ t.keys = [i \in 1 .. n |-> EdgeKey(EdgeAt(S)[i])]
      /\ \A i \in 1 .. n : EdgeAt(S)[i] \in E /\ Place(R, E, EdgeAt(S)[i]) = i - 1
    BY CsrFields, EdgesEnumerated
<1>6. \A i \in 1 .. n : t.keys[i] \in Nat /\ t.keys[i] = EdgeKey(EdgeAt(S)[i])
    BY <1>2, <1>5
<1>7. Len(t.keys) = n
    BY <1>1, <1>5
<1>8. idx \in 0 .. n
  <2>1. IsFiniteSet(1 .. n) /\ Cardinality(1 .. n) = n
    <3> HIDE DEF n
    <3> QED
        BY <1>1, CountUpTo
  <2>2. smaller \in SUBSET (1 .. n)
      OBVIOUS
  <2>3. IsFiniteSet(smaller) /\ Cardinality(smaller) <= n
      BY <2>1, <2>2, FS_Subset
  <2> QED
      BY <1>1, <2>3, FS_CardinalityType
<1>9. CsrFind(t, node, tok) =
        IF n > 0 /\ idx < n /\ t.keys[Clamp(idx, 0, n - 1) + 1] = key THEN idx + 1 ELSE 0
  <2>1. Clamp(tok - Base, 0, Vocab - 1) = tok - Base /\ ~(node < 0)
      BY <1>1, <1>3 DEF Clamp
  <2>2. (IF node < 0 THEN 0 ELSE node) * Vocab + Clamp(tok - Base, 0, Vocab - 1) = key
      BY <2>1 DEF EdgeKey
  <2> QED
      BY <1>7, <2>2 DEF CsrFind
<1>10. idx < n => Clamp(idx, 0, n - 1) = idx
    BY <1>1, <1>8 DEF Clamp
<1>11. ASSUME CsrFind(t, node, tok) # 0
       PROVE  /\ CsrFind(t, node, tok) \in 1 .. n
              /\ EdgeAt(S)[CsrFind(t, node, tok)] = e
  <2>1. idx < n /\ t.keys[idx + 1] = key /\ CsrFind(t, node, tok) = idx + 1
      BY <1>9, <1>10, <1>11
  <2>2. idx + 1 \in 1 .. n
      BY <1>1, <1>8, <2>1
  <2> DEFINE d == EdgeAt(S)[idx + 1]
  <2>3. d \in E /\ EdgeKey(d) = key
      BY <1>5, <1>6, <2>1, <2>2
  <2>4. d[1] \in Nat /\ d[2] \in 0 .. Vocab - 1 /\ d = <<d[1], d[2]>>
    <3>1. \A x \in E : /\ x[1] \in Nat /\ x[2] \in 0 .. Vocab - 1
                       /\ x = <<x[1], x[2]>>
        BY <1>1
    <3> QED
        BY <2>3, <3>1
  <2>5. d[1] = node /\ d[2] = tok - Base
      BY <1>3, <2>3, <2>4, KeyDigits DEF EdgeKey
  <2> QED
      BY <2>1, <2>2, <2>4, <2>5
<1>12. ASSUME e \in E PROVE CsrFind(t, node, tok) # 0
  <2> DEFINE r == Place(R, E, e)
  <2>1. r \in 0 .. n - 1
      BY <1>1, <1>2, <1>12, PlaceType
  <2>2. r + 1 \in 1 .. n
      BY <1>1, <2>1
  <2>3. EdgeAt(S)[r + 1] = e
    <3>1. EdgeAt(S)[r + 1] \in E /\ Place(R, E, EdgeAt(S)[r + 1]) = r
        BY <1>5, <2>1, <2>2
    <3>2. Place(R, E, e) = r
        OBVIOUS
    <3> HIDE DEF E, R, e, r
    <3>3. \A x, y \in E : Place(R, E, x) = Place(R, E, y) => x = y
        BY <1>1, <1>2, PlacesTaken
    <3> QED
        BY <1>12, <3>1, <3>2, <3>3
  <2>4. \A i \in 1 .. n : t.keys[i] < key <=> i \in 1 .. r
    <3> SUFFICES ASSUME NEW i \in 1 .. n PROVE t.keys[i] < key <=> i \in 1 .. r
        OBVIOUS
    <3> DEFINE d == EdgeAt(S)[i]
    <3>1. d \in E /\ Place(R, E, d) = i - 1 /\ t.keys[i] = EdgeKey(d)
        BY <1>5, <1>6
    <3>2. t.keys[i] < key <=> <<d, e>> \in R
        BY <1>12, <3>1 DEF KeyOrder
    <3>3. <<d, e>> \in R => i - 1 < r
        BY <1>1, <1>2, <1>12, <3>1, PlacesGrow
    <3>4. d # e => <<d, e>> \in R \/ <<e, d>> \in R
        BY <1>2, <1>12, <3>1 DEF StrictOrderOn
    <3>5. <<e, d>> \in R => r < i - 1
        BY <1>1, <1>2, <1>12, <3>1, PlacesGrow
    <3>6. i - 1 < r => <<d, e>> \in R
        BY <1>1, <2>1, <3>1, <3>4, <3>5
    <3> QED
        BY <1>1, <2>1, <3>2, <3>3, <3>6
  <2>5. smaller = 1 .. r
      BY <1>1, <2>1, <2>4
  <2>6. idx = r
    <3>1. r \in Nat
        BY <1>1, <2>1
    <3>2. Cardinality(1 .. r) = r
      <4> HIDE DEF r
      <4> QED
          BY <3>1, CountUpTo
    <3> QED
        BY <2>5, <3>2
  <2>7. t.keys[idx + 1] = key
      BY <1>6, <2>2, <2>3, <2>6
  <2> QED
    <3>1. n > 0 /\ idx < n /\ idx \in Nat
        BY <1>1, <1>8, <2>1, <2>6
    <3>2. CsrFind(t, node, tok) = idx + 1
        BY <1>9, <1>10, <2>7, <3>1
    <3> QED
        BY <3>1, <3>2
<1> QED
  <2>1. e \in E <=> CsrFind(t, node, tok) # 0
    <3>1. CsrFind(t, node, tok) # 0 => e \in E
        BY <1>5, <1>11
    <3> QED
        BY <1>12, <3>1
  <2> QED
      BY <1>11, <2>1

-----------------------------------------------------------------------------
(* The order of the prefixes. *)

\* Prefixes of two sequences are equal if their members are.
LEMMA SamePrefix ==
    ASSUME NEW p \in Seq(Int), NEW q \in Seq(Int), Len(p) = Len(q), NEW i \in 1 .. Len(p)
    PROVE  SubSeq(p, 1, i - 1) = SubSeq(q, 1, i - 1) <=> \A k \in 1 .. i - 1 : p[k] = q[k]
<1>1. /\ SubSeq(p, 1, i - 1) \in Seq(Int) /\ Len(SubSeq(p, 1, i - 1)) = i - 1
      /\ \A k \in 1 .. i - 1 : SubSeq(p, 1, i - 1)[k] = p[k]
    OBVIOUS
<1>2. /\ SubSeq(q, 1, i - 1) \in Seq(Int) /\ Len(SubSeq(q, 1, i - 1)) = i - 1
      /\ \A k \in 1 .. i - 1 : SubSeq(q, 1, i - 1)[k] = q[k]
    OBVIOUS
<1>3. \A u, v \in Seq(Int) :
          Len(u) = Len(v) /\ (\A k \in 1 .. Len(u) : u[k] = v[k]) => u = v
    BY SameMembers
<1>4. (\A k \in 1 .. i - 1 : p[k] = q[k]) => SubSeq(p, 1, i - 1) = SubSeq(q, 1, i - 1)
  <2>1. HAVE \A k \in 1 .. i - 1 : p[k] = q[k]
  <2>2. \A k \in 1 .. i - 1 : SubSeq(p, 1, i - 1)[k] = SubSeq(q, 1, i - 1)[k]
      BY <1>1, <1>2, <2>1
  <2> QED
      BY ONLY <1>1, <1>2, <1>3, <2>2
<1>5. SubSeq(p, 1, i - 1) = SubSeq(q, 1, i - 1) => \A k \in 1 .. i - 1 : p[k] = q[k]
    BY <1>1, <1>2
<1> QED
    BY <1>4, <1>5

\* Two different sequences of one length differ first somewhere.
LEMMA FirstDifference ==
    ASSUME NEW p \in Seq(Int), NEW q \in Seq(Int), Len(p) = Len(q), p # q
    PROVE  \E i \in 1 .. Len(p) : p[i] # q[i] /\ \A k \in 1 .. i - 1 : p[k] = q[k]
<1> DEFINE D == {i \in 1 .. Len(p) : p[i] # q[i]}
<1>1. D # {}
    OBVIOUS
<1>2. D \in SUBSET Nat /\ D \in SUBSET (1 .. Len(p))
    OBVIOUS
<1>3. IsFiniteSet(D)
  <2>1. IsFiniteSet(1 .. Len(p))
      BY FS_Interval
  <2> QED
      BY <1>2, <2>1, FS_Subset
<1>4. PICK i \in D : \A y \in D : i <= y
    BY <1>1, <1>2, <1>3, LeastMember
<1>5. \A k \in 1 .. i - 1 : p[k] = q[k]
  <2> SUFFICES ASSUME NEW k \in 1 .. i - 1, p[k] # q[k] PROVE FALSE
      OBVIOUS
  <2>1. k \in D /\ k < i
      BY <1>2
  <2> QED
      BY <1>2, <1>4, <2>1
<1> QED
    BY <1>4, <1>5

PrefixOrder(T) == {e \in T \X T : PrefixBefore(e[1], e[2])}

\* By length and then by the first difference: any two prefixes are ordered.
LEMMA PrefixesOrdered ==
    ASSUME NEW T \in SUBSET Seq(Int)
    PROVE  StrictOrderOn(PrefixOrder(T), T)
<1> DEFINE Lower(p, q, i) == /\ i \in 1 .. Len(p) /\ p[i] < q[i]
                             /\ \A k \in 1 .. i - 1 : p[k] = q[k]
<1>1. ASSUME NEW p \in T, NEW q \in T
      PROVE  <<p, q>> \in PrefixOrder(T) <=>
                 \/ Len(p) < Len(q)
                 \/ Len(p) = Len(q) /\ \E i \in 1 .. Len(p) : Lower(p, q, i)
  <2>1. <<p, q>> \in PrefixOrder(T) <=> PrefixBefore(p, q)
      BY DEF PrefixOrder
  <2>2. /\ p \in Seq(Int) /\ q \in Seq(Int)
        /\ DOMAIN p = 1 .. Len(p)
      OBVIOUS
  <2>3. Len(p) = Len(q) => \A i \in 1 .. Len(p) :
            SubSeq(p, 1, i - 1) = SubSeq(q, 1, i - 1) <=> \A k \in 1 .. i - 1 : p[k] = q[k]
      BY <2>2, SamePrefix
  <2> QED
      BY <2>1, <2>2, <2>3 DEF PrefixBefore
<1>2. ASSUME NEW p \in T PROVE <<p, p>> \notin PrefixOrder(T)
  <2>1. Len(p) \in Nat /\ \A i \in 1 .. Len(p) : p[i] \in Int
      OBVIOUS
  <2> QED
      BY <1>1, <2>1
<1>3. ASSUME NEW p \in T, NEW q \in T, NEW r \in T,
             <<p, q>> \in PrefixOrder(T), <<q, r>> \in PrefixOrder(T)
      PROVE  <<p, r>> \in PrefixOrder(T)
  <2>1. Len(p) \in Nat /\ Len(q) \in Nat /\ Len(r) \in Nat
      OBVIOUS
  <2>2. CASE Len(p) < Len(q) \/ Len(q) < Len(r)
    <3>1. Len(p) <= Len(q) /\ Len(q) <= Len(r)
        BY <1>1, <1>3, <2>1
    <3> QED
        BY <1>1, <2>1, <2>2, <3>1
  <2>3. CASE Len(p) = Len(q) /\ Len(q) = Len(r)
    <3>0. ~(Len(p) < Len(q)) /\ ~(Len(q) < Len(r))
        BY <2>1, <2>3
    <3>1. PICK i \in 1 .. Len(p) : Lower(p, q, i)
      <4>1. \E i \in 1 .. Len(p) : Lower(p, q, i)
          BY <1>1, <1>3, <3>0
      <4> QED
          BY <4>1
    <3>2. PICK j \in 1 .. Len(p) : Lower(q, r, j)
      <4>1. \E j \in 1 .. Len(q) : Lower(q, r, j)
          BY <1>1, <1>3, <3>0
      <4> QED
          BY <2>3, <4>1
    <3>3. \A k \in 1 .. Len(p) : p[k] \in Int /\ q[k] \in Int /\ r[k] \in Int
        BY <2>3
    <3>4. CASE i < j
      <4>1. Lower(p, r, i)
          BY <2>1, <3>1, <3>2, <3>3, <3>4
      <4> QED
          BY <1>1, <2>3, <4>1
    <3>5. CASE i = j
      <4>1. Lower(p, r, i)
          BY <2>1, <3>1, <3>2, <3>3, <3>5
      <4> QED
          BY <1>1, <2>3, <4>1
    <3>6. CASE j < i
      <4>1. Lower(p, r, j)
          BY <2>1, <3>1, <3>2, <3>3, <3>6
      <4> QED
          BY <1>1, <2>3, <4>1
    <3> QED
        BY <3>4, <3>5, <3>6
  <2> QED
      BY <1>1, <1>3, <2>1, <2>2, <2>3
<1>4. ASSUME NEW p \in T, NEW q \in T, p # q
      PROVE  <<p, q>> \in PrefixOrder(T) \/ <<q, p>> \in PrefixOrder(T)
  <2>1. Len(p) \in Nat /\ Len(q) \in Nat
      OBVIOUS
  <2>2. CASE Len(p) # Len(q)
      BY <1>1, <2>1, <2>2
  <2>3. CASE Len(p) = Len(q)
    <3>1. PICK i \in 1 .. Len(p) : p[i] # q[i] /\ \A k \in 1 .. i - 1 : p[k] = q[k]
        BY <1>4, <2>3, FirstDifference
    <3>2. p[i] \in Int /\ q[i] \in Int
        BY <2>3
    <3>3. Lower(p, q, i) \/ Lower(q, p, i)
        BY <2>3, <3>1, <3>2
    <3> QED
        BY <1>1, <2>3, <3>3
  <2> QED
      BY <2>2, <2>3
<1> QED
    BY <1>2, <1>3, <1>4 DEF StrictOrderOn

-----------------------------------------------------------------------------
(* What a catalog gives. *)

\* Only codes of the codebooks get into the trie, so all its tokens are in the range.
LEMMA SequencesInRange ==
    ASSUME NEW given \in SUBSET Seq(Nat), IsFiniteSet(given)
    PROVE  /\ IsFiniteSet(ValidSequences(given))
           /\ ValidSequences(given) \subseteq Seq(AllTokens)
<1> DEFINE C == {c \in given : ValidCodes(c)}
           f == [c \in C |-> TokensOf(c)]
<1>1. IsFiniteSet(C)
    BY FS_Subset
<1>2. f \in Surjection(C, ValidSequences(given))
    BY DEF Surjection, ValidSequences
<1>3. ASSUME NEW c \in C PROVE TokensOf(c) \in Seq(AllTokens)
  <2>1. c \in Seq(Nat) /\ Len(c) \in Nat /\ DOMAIN c = 1 .. Len(c) /\ Len(c) <= Levels
      BY DEF ValidCodes
  <2>2. Levels \in Nat /\ Base \in Nat /\ Vocab \in Nat
      BY SizesAssumption, CodebooksInRange DEF Levels
  <2>3. ASSUME NEW i \in 1 .. Len(c)
        PROVE  Base + Offset(i - 1) + c[i] \in AllTokens
    <3>1. i - 1 \in 0 .. Levels - 1 /\ (i - 1) + 1 = i
        BY <2>1, <2>2
    <3>2. Offset(i - 1) \in Nat /\ Offset(i - 1) + Sizes[i] <= Vocab
        BY <3>1, CodebooksInRange
    <3>3. c[i] \in 0 .. Sizes[i] - 1 /\ Sizes[i] \in Nat
      <4>1. c[i] \in 0 .. Sizes[i] - 1
          BY <2>1 DEF ValidCodes
      <4>2. Sizes[i] \in Nat
          BY <3>1, SizesAssumption DEF Levels
      <4> QED
          BY <4>1, <4>2
    <3> QED
        BY <2>2, <3>2, <3>3 DEF AllTokens
  <2> QED
      BY <2>1, <2>3 DEF TokensOf
<1> QED
    BY <1>1, <1>2, <1>3, FS_Surjection DEF ValidSequences

\* A finite catalog has finitely many proper prefixes.
LEMMA PrefixesFinite ==
    ASSUME NEW S \in SUBSET Seq(Int), IsFiniteSet(S)
    PROVE  /\ IsFiniteSet(ProperPrefixes(S))
           /\ ProperPrefixes(S) \in SUBSET Seq(Int)
<1> DEFINE Of(s) == {SubSeq(s, 1, i) : i \in 0 .. Len(s) - 1}
           all == {Of(s) : s \in S}
<1>1. ASSUME NEW s \in S PROVE IsFiniteSet(Of(s)) /\ Of(s) \in SUBSET Seq(Int)
  <2> DEFINE f == [i \in 0 .. Len(s) - 1 |-> SubSeq(s, 1, i)]
  <2>1. f \in Surjection(0 .. Len(s) - 1, Of(s))
      BY DEF Surjection
  <2>2. IsFiniteSet(0 .. Len(s) - 1)
      BY FS_Interval
  <2>3. \A i \in 0 .. Len(s) - 1 : SubSeq(s, 1, i) \in Seq(Int)
      OBVIOUS
  <2>4. Of(s) \in SUBSET Seq(Int)
      BY <2>3
  <2> HIDE DEF Of, f
  <2> QED
      BY <2>1, <2>2, <2>4, FS_Surjection
<1>2. IsFiniteSet(all)
  <2> DEFINE g == [s \in S |-> Of(s)]
  <2>1. g \in Surjection(S, all)
      BY DEF Surjection
  <2> QED
      BY <2>1, FS_Surjection
<1>3. \A T \in all : IsFiniteSet(T) /\ T \in SUBSET Seq(Int)
    BY <1>1
<1>4. IsFiniteSet(UNION all) /\ UNION all \in SUBSET Seq(Int)
    BY <1>2, <1>3, FS_UNION
<1>5. IsFiniteSet({<<>>})
    BY FS_Singleton
<1>6. {<<>>} \in SUBSET Seq(Int)
    OBVIOUS
<1>7. ProperPrefixes(S) = {<<>>} \cup UNION all
    BY DEF ProperPrefixes
<1>8. IsFiniteSet({<<>>} \cup UNION all)
  <2>1. IsFiniteSet(UNION all)
      BY <1>4
  <2> HIDE DEF all
  <2> QED
      BY <1>5, <2>1, FS_Union
<1>9. {<<>>} \cup UNION all \in SUBSET Seq(Int)
  <2>1. UNION all \in SUBSET Seq(Int)
      BY <1>4
  <2> HIDE DEF all
  <2> QED
      BY <1>6, <2>1
<1> QED
    BY <1>7, <1>8, <1>9

\* finalize_index: node i stands for the proper prefix with i others before it.
LEMMA NodesEnumerated ==
    ASSUME NEW S \in SUBSET Seq(Int), IsFiniteSet(S), NEW i \in 1 .. Len(NodeOrder(S))
    PROVE  LET P == ProperPrefixes(S) IN
           NodeOrder(S)[i] \in P /\ Place(PrefixOrder(P), P, NodeOrder(S)[i]) = i - 1
<1> DEFINE P == ProperPrefixes(S)
           R == PrefixOrder(P)
<1>1. IsFiniteSet(P) /\ P \in SUBSET Seq(Int) /\ StrictOrderOn(R, P)
    BY PrefixesFinite, PrefixesOrdered
<1>2. Len(NodeOrder(S)) = Cardinality(P) /\ Cardinality(P) \in Nat
    BY <1>1, NodesCounted
<1>3. \A x \in P : Below(R, P, x) = {y \in P : PrefixBefore(y, x)}
    BY DEF Below, PrefixOrder
<1>4. i - 1 \in 0 .. Cardinality(P) - 1
    BY <1>2
<1>5. \E x \in P : Place(R, P, x) = i - 1
  <2> HIDE DEF P, R
  <2> QED
      BY <1>1, <1>4, PlacesTaken
<1>6. \E x \in P : Cardinality({y \in P : PrefixBefore(y, x)}) = i - 1
    BY <1>3, <1>5 DEF Place
<1> DEFINE Nth(j) == CHOOSE x \in P : Cardinality({y \in P : PrefixBefore(y, x)}) = j - 1
<1>7. NodeOrder(S) = [j \in 1 .. Cardinality(P) |-> Nth(j)]
    BY Zenon DEF NodeOrder, Sorted
<1>8. Nth(i) \in P /\ Cardinality({y \in P : PrefixBefore(y, Nth(i))}) = i - 1
    BY <1>6, Zenon
<1> HIDE DEF Nth
<1>9. NodeOrder(S)[i] = Nth(i)
    BY <1>2, <1>7
<1> QED
    BY <1>3, <1>8, <1>9 DEF Place

-----------------------------------------------------------------------------
(* The lookups. *)

Nodes(S) == 0 .. Len(NodeOrder(S))

\* What is read from the dense tables, at every node and for every token of the
\* range: the clamps change nothing there.
LEMMA DenseReads ==
    ASSUME NEW S, IsFiniteSet(ProperPrefixes(S)),
           NEW node \in Nodes(S), NEW tok \in Int, InRange(tok)
    PROVE  LET t == DenseTrie(S)
               e == <<node, tok - Base>>
           IN  /\ t.allow[DenseCell(t, node, tok)] = (e \in EdgeSet(S))
               /\ t.next[DenseCell(t, node, tok)] =
                    IF e \in EdgeSet(S) THEN EdgeChild(S, NodeOrder(S), e)
                    ELSE Len(NodeOrder(S))
<1> DEFINE t == DenseTrie(S)
           e == <<node, tok - Base>>
           cells == Nodes(S) \X (0 .. Vocab - 1)
<1>1. Len(NodeOrder(S)) \in Nat /\ Vocab \in Nat \ {0} /\ Base \in Nat
    BY NodesCounted, CodebooksInRange, SizesAssumption
<1>2. tok - Base \in 0 .. Vocab - 1 /\ node \in 0 .. Len(NodeOrder(S))
    BY DEF InRange, Nodes
<1>3. t.invalid = Len(NodeOrder(S))
    BY DEF DenseTrie
<1>4. DenseCell(t, node, tok) = e
    BY <1>1, <1>2, <1>3 DEF DenseCell, Clamp
<1>5. e \in cells
    BY <1>2 DEF Nodes
<1>6. /\ t.allow = [c \in cells |-> c \in EdgeSet(S)]
      /\ t.next = [c \in cells |-> IF c \in EdgeSet(S) THEN EdgeChild(S, NodeOrder(S), c)
                                   ELSE Len(NodeOrder(S))]
    BY DEF DenseTrie, EdgeSet, Nodes
<1> QED
    BY <1>4, <1>5, <1>6

\* What the search in the sorted keys reads there.
LEMMA CsrReads ==
    ASSUME NEW S, IsFiniteSet(ProperPrefixes(S)),
           NEW node \in Nodes(S), NEW tok \in Int, InRange(tok)
    PROVE  LET t == CsrTrie(S)
               e == <<node, tok - Base>>
           IN  /\ CsrFind(t, node, tok) # 0 <=> e \in EdgeSet(S)
               /\ NextNode(t, node, tok) =
                    IF e \in EdgeSet(S) THEN EdgeChild(S, NodeOrder(S), e)
                    ELSE Len(NodeOrder(S))
<1> DEFINE t == CsrTrie(S)
           e == <<node, tok - Base>>
           i == CsrFind(t, node, tok)
<1>1. /\ e \in EdgeSet(S) <=> i # 0
      /\ i # 0 => i \in 1 .. Cardinality(EdgeSet(S)) /\ EdgeAt(S)[i] = e
    BY CsrFindsEdges DEF Nodes
<1>2. /\ t.layout = "csr" /\ t.invalid = Len(NodeOrder(S))
      /\ t.child = [k \in 1 .. Cardinality(EdgeSet(S)) |->
                        EdgeChild(S, NodeOrder(S), EdgeAt(S)[k])]
    BY CsrFields
<1>3. NextNode(t, node, tok) = IF i # 0 THEN t.child[i] ELSE Len(NodeOrder(S))
    BY <1>2 DEF NextNode
<1>4. i # 0 => t.child[i] = EdgeChild(S, NodeOrder(S), e)
    BY <1>1, <1>2
<1> QED
    BY <1>1, <1>3, <1>4

\* At a node, both layouts allow the tokens of the range with an edge there.
LEMMA MasksAreEdges ==
    ASSUME NEW S, IsFiniteSet(ProperPrefixes(S)),
           NEW node \in Nodes(S), NEW tok \in Int, NEW level
    PROVE  LET edge == InRange(tok) /\ <<node, tok - Base>> \in EdgeSet(S) IN
           /\ MaskOk(DenseTrie(S), node, tok, level) <=> edge
           /\ MaskOk(CsrTrie(S), node, tok, level) <=> edge
<1>1. ~(node < 0)
    BY NodesCounted DEF Nodes
<1>2. DenseTrie(S).layout = "dense" /\ CsrTrie(S).layout = "csr"
    BY DEF DenseTrie, CsrTrie
<1>3. MaskOk(DenseTrie(S), node, tok, level) <=> DenseAllows(DenseTrie(S), node, tok)
    BY <1>1, <1>2 DEF MaskOk
<1>4. MaskOk(CsrTrie(S), node, tok, level) <=>
        InRange(tok) /\ CsrFind(CsrTrie(S), node, tok) # 0
    BY <1>1, <1>2 DEF MaskOk
<1>5. CASE InRange(tok)
  <2>1. DenseAllows(DenseTrie(S), node, tok) <=> <<node, tok - Base>> \in EdgeSet(S)
      BY <1>5, DenseReads DEF DenseAllows
  <2>2. CsrFind(CsrTrie(S), node, tok) # 0 <=> <<node, tok - Base>> \in EdgeSet(S)
      BY <1>5, CsrReads
  <2> QED
      BY <1>3, <1>4, <1>5, <2>1, <2>2
<1>6. CASE ~InRange(tok)
    BY <1>3, <1>4, <1>6 DEF DenseAllows
<1> QED
    BY <1>5, <1>6

\* For every catalog, the layout is a matter of speed: the mask kernel and the
\* advance of the node ids (mask_candidates, advance_node_ids) answer the same from
\* the dense tables and from the sorted keys, at every node, at the row for "no such
\* prefix", on a path that has left the trie, and for tokens outside the SID range.
THEOREM LayoutsAgree ==
    ASSUME NEW S \in SUBSET Seq(Int), IsFiniteSet(S),
           NEW node \in Nodes(S) \cup {Unconstrained}, NEW tok \in Int, NEW level
    PROVE  /\ MaskOk(DenseTrie(S), node, tok, level) <=> MaskOk(CsrTrie(S), node, tok, level)
           /\ Transition(DenseTrie(S), node, tok) = Transition(CsrTrie(S), node, tok)
<1>1. IsFiniteSet(ProperPrefixes(S))
    BY PrefixesFinite
<1>2. /\ DenseTrie(S).layout = "dense" /\ CsrTrie(S).layout = "csr"
      /\ DenseTrie(S).invalid = CsrTrie(S).invalid
    BY DEF DenseTrie, CsrTrie
<1>3. CASE node = Unconstrained
  <2>1. node < 0
      BY <1>3 DEF Unconstrained
  <2> QED
      BY <1>2, <2>1 DEF MaskOk, Transition
<1>4. CASE node \in Nodes(S)
  <2>1. MaskOk(DenseTrie(S), node, tok, level) <=> MaskOk(CsrTrie(S), node, tok, level)
      BY <1>1, <1>4, MasksAreEdges
  <2>2. ~(node < 0)
      BY <1>1, <1>4, NodesCounted DEF Nodes
  <2>3. CASE InRange(tok)
    <3>1. NextNode(DenseTrie(S), node, tok) = NextNode(CsrTrie(S), node, tok)
      <4>1. NextNode(DenseTrie(S), node, tok) =
                DenseTrie(S).next[DenseCell(DenseTrie(S), node, tok)]
          BY <1>2 DEF NextNode
      <4> QED
          BY <1>1, <1>4, <2>3, <4>1, DenseReads, CsrReads
    <3> QED
        BY <1>2, <2>1, <2>2, <2>3, <3>1 DEF Transition
  <2>4. CASE ~InRange(tok)
      BY <1>2, <2>1, <2>2, <2>4 DEF Transition
  <2> QED
      BY <2>3, <2>4
<1> QED
    BY <1>3, <1>4

\* The mask at a node: the next tokens of the catalog's sequences with that prefix.
LEMMA MasksFollowSequences ==
    ASSUME NEW S \in SUBSET Seq(AllTokens), IsFiniteSet(S),
           NEW node \in Nodes(S), NEW tok \in Int, NEW level
    PROVE  LET legal == /\ node < Len(NodeOrder(S))
                        /\ tok \in Children(S, NodeOrder(S)[node + 1])
           IN  /\ MaskOk(DenseTrie(S), node, tok, level) <=> legal
               /\ MaskOk(CsrTrie(S), node, tok, level) <=> legal
<1>1. /\ Vocab \in Nat \ {0} /\ Base \in Nat
      /\ S \in SUBSET Seq(Int)
  <2>1. Vocab \in Nat \ {0} /\ Base \in Nat
      BY CodebooksInRange, SizesAssumption
  <2>2. ASSUME NEW s \in S PROVE s \in Seq(Int)
    <3>1. AllTokens \subseteq Int
        BY <2>1 DEF AllTokens
    <3>2. s \in Seq(AllTokens) /\ Len(s) \in Nat /\ s = [i \in 1 .. Len(s) |-> s[i]]
        OBVIOUS
    <3>3. \A i \in 1 .. Len(s) : s[i] \in Int
        BY <3>1, <3>2
    <3> QED
        BY <3>2, <3>3
  <2> QED
      BY <2>1, <2>2
<1>2. /\ IsFiniteSet(ProperPrefixes(S)) /\ ProperPrefixes(S) \in SUBSET Seq(Int)
      /\ Len(NodeOrder(S)) \in Nat
    BY <1>1, PrefixesFinite, NodesCounted
<1>3. <<node, tok - Base>> \in EdgeSet(S) /\ InRange(tok) <=>
        /\ node < Len(NodeOrder(S)) /\ InRange(tok)
        /\ tok \in Children(S, NodeOrder(S)[node + 1])
  <2>1. node \in 0 .. Len(NodeOrder(S)) /\ tok - Base \in Int
      BY <1>1 DEF Nodes
  <2>2. Base + (tok - Base) = tok
      BY <1>1
  <2> QED
      BY <1>1, <1>2, <2>1, <2>2 DEF EdgeSet, Edges, InRange
<1>4. ASSUME node < Len(NodeOrder(S)), tok \in Children(S, NodeOrder(S)[node + 1])
      PROVE  InRange(tok)
  <2> DEFINE p == NodeOrder(S)[node + 1]
  <2>1. node + 1 \in 1 .. Len(NodeOrder(S))
      BY <1>2, <1>4 DEF Nodes
  <2>2. p \in ProperPrefixes(S)
      BY <1>1, <2>1, NodesEnumerated
  <2>3. Len(p) \in Nat
      BY <1>2, <2>2
  <2>4. PICK s \in S : Len(s) > Len(p) /\ tok = s[Len(p) + 1]
      BY <1>4 DEF Children
  <2>5. s \in Seq(AllTokens) /\ Len(p) + 1 \in 1 .. Len(s)
      BY <2>3, <2>4
  <2>6. tok \in AllTokens
      BY <2>4, <2>5
  <2> QED
      BY <1>1, <2>6 DEF AllTokens, InRange
<1> QED
    BY <1>2, <1>3, <1>4, MasksAreEdges

-----------------------------------------------------------------------------
(* The tables of a request. *)

\* The request's tables are those of its catalog, in the layout it asked for.
BuiltFromCatalog ==
    /\ catalog \in Catalogs /\ logprob \in LogProbs /\ cfg \in Configs
    /\ trie = BuildTrie(ValidSequences(catalog), cfg.layout)

\* build_beam_valid_path runs before the first request.
LEMMA InitBuilds == Init => BuiltFromCatalog
    BY DEF Init, BuiltFromCatalog

\* No step of the search changes the catalog, the configuration or the tables.
LEMMA StepsKeepTables == BuiltFromCatalog /\ [Next]_vars => BuiltFromCatalog'
<1> SUFFICES ASSUME BuiltFromCatalog, [Next]_vars PROVE BuiltFromCatalog'
    OBVIOUS
<1>1. ASSUME UNCHANGED request PROVE BuiltFromCatalog'
    BY <1>1 DEF BuiltFromCatalog, request
<1>2. CASE Prefill
    BY <1>1, <1>2 DEF Prefill
<1>3. CASE PrefillFails
    BY <1>1, <1>3 DEF PrefillFails
<1>4. CASE ExpandKernel
  <2>1. UNCHANGED request
      BY <1>4, Zenon DEF ExpandKernel
  <2> QED
      BY <1>1, <2>1
<1>5. CASE ExpandTopk
    BY <1>1, <1>5 DEF ExpandTopk
<1>6. CASE ExpandLast
    BY <1>1, <1>6 DEF ExpandLast
<1>7. CASE ExpandJoint
    BY <1>1, <1>7 DEF ExpandJoint
<1>8. CASE Finalize
    BY <1>1, <1>8 DEF Finalize
<1>9. CASE UNCHANGED vars
    BY <1>1, <1>9 DEF vars, request
<1> QED
    BY <1>2, <1>3, <1>4, <1>5, <1>6, <1>7, <1>8, <1>9 DEF Next

\* A nonempty set of items.
ItemSet(S) == S \in SUBSET (Seq(AllTokens) \ {<<>>}) /\ IsFiniteSet(S) /\ S # {}

\* The request's items, and the tables it is searched with.
LEMMA TablesOfItems ==
    ASSUME BuiltFromCatalog
    PROVE  /\ Constrained => /\ ItemSet(Items) /\ trie \in {DenseTrie(Items), CsrTrie(Items)}
                             /\ trie.invalid = Len(NodeOrder(Items))
           /\ ~Constrained => trie.layout = "codebook"
<1>1. IsFiniteSet(Items) /\ Items \subseteq Seq(AllTokens)
  <2>1. IsFiniteSet(catalog) /\ catalog \in SUBSET Seq(Nat)
      BY RequestAssumption DEF BuiltFromCatalog
  <2> QED
      BY <2>1, SequencesInRange DEF Items
<1>2. \A s \in Items : s # <<>>
  <2> SUFFICES ASSUME NEW codes \in catalog, ValidCodes(codes) PROVE TokensOf(codes) # <<>>
      BY DEF Items, ValidSequences
  <2>1. codes \in Seq(Nat) /\ codes # <<>>
      BY RequestAssumption DEF BuiltFromCatalog, ValidCodes
  <2>2. 1 \in DOMAIN codes
      BY <2>1
  <2>3. 1 \in DOMAIN TokensOf(codes)
      BY <2>2 DEF TokensOf
  <2> QED
      BY <2>3
<1>3. ASSUME Constrained
      PROVE  /\ Items # {} /\ trie \in {DenseTrie(Items), CsrTrie(Items)}
             /\ trie.invalid = Len(NodeOrder(Items))
  <2>1. cfg.layout \in {"dense", "csr", "codebook"} /\ trie = BuildTrie(Items, cfg.layout)
      BY RequestAssumption DEF BuiltFromCatalog, Items
  <2>2. cfg.layout # "codebook" /\ Items # {}
    <3>1. CodebookTrie.layout = "codebook"
        BY DEF CodebookTrie
    <3> QED
        BY <1>3, <2>1, <3>1 DEF BuildTrie, Constrained
  <2>3. DenseTrie(Items).invalid = Len(NodeOrder(Items))
      BY DEF DenseTrie
  <2>4. CsrTrie(Items).invalid = Len(NodeOrder(Items))
      BY DEF CsrTrie
  <2> QED
      BY <2>1, <2>2, <2>3, <2>4 DEF BuildTrie
<1> QED
    BY <1>1, <1>2, <1>3 DEF ItemSet, Constrained

\* Tables built from a catalog allow at every node its continuations and no others.
LEMMA TablesOfCatalog == BuiltFromCatalog => TablesFollowCatalog
<1> SUFFICES ASSUME BuiltFromCatalog, Constrained,
                    NEW node \in 0 .. trie.invalid, NEW tok \in Base - 1 .. Base + Vocab
             PROVE  MaskOk(trie, node, tok, 0) <=>
                        node < trie.invalid /\ tok \in Children(Items, NodeOrder(Items)[node + 1])
    BY DEF TablesFollowCatalog
<1>1. /\ IsFiniteSet(Items) /\ Items \subseteq Seq(AllTokens)
      /\ trie \in {DenseTrie(Items), CsrTrie(Items)} /\ trie.invalid = Len(NodeOrder(Items))
    BY TablesOfItems DEF ItemSet
<1>2. tok \in Int
    BY CodebooksInRange, SizesAssumption
<1>3. node \in Nodes(Items)
    BY <1>1 DEF Nodes
<1> QED
    BY <1>1, <1>2, <1>3, MasksFollowSequences

\* Every request, at every step: the mask kernel (mask_candidates) allows at a node
\* exactly the tokens that continue the node's prefix to an item of the catalog,
\* clamped lookups, the last key and the row for "no such prefix" included.
THEOREM TablesAlwaysFollow == Spec => []TablesFollowCatalog
    BY InitBuilds, StepsKeepTables, TablesOfCatalog, PTL DEF Spec

-----------------------------------------------------------------------------
(* Where a path stands. *)

\* Sequence p continues to s.
Agree(p, s) == Len(p) <= Len(s) /\ \A k \in 1 .. Len(p) : p[k] = s[k]

\* The mask of a level is a finite set of tokens of the SID range.
LEMMA TokensAreNumbers ==
    /\ AllTokens \subseteq Nat
    /\ \A p \in Seq(AllTokens) : p \in Seq(Int)
    /\ \A l \in Nat : LevelTokens(l) \subseteq AllTokens /\ IsFiniteSet(LevelTokens(l))
<1>1. Base \in Nat /\ Vocab \in Nat \ {0}
    BY SizesAssumption, CodebooksInRange
<1>2. AllTokens \subseteq Nat
    BY <1>1 DEF AllTokens
<1>3. ASSUME NEW p \in Seq(AllTokens) PROVE p \in Seq(Int)
  <2>1. Len(p) \in Nat /\ p = [i \in 1 .. Len(p) |-> p[i]] /\ \A i \in 1 .. Len(p) : p[i] \in AllTokens
      OBVIOUS
  <2>2. \A i \in 1 .. Len(p) : p[i] \in Int
      BY <1>2, <2>1
  <2> QED
      BY <2>1, <2>2
<1>4. ASSUME NEW l \in Nat, l < Levels
      PROVE  Codebook(l) \subseteq AllTokens /\ IsFiniteSet(Codebook(l))
  <2>1. l \in 0 .. Levels - 1
      BY <1>4, OffsetStep
  <2>2. PICK a, b \in Nat : /\ a = Offset(l) /\ b = Offset(l + 1) /\ b <= Vocab
    <3>1. /\ Offset(l) \in Nat /\ Offset(l) + Sizes[l + 1] <= Vocab
          /\ Sizes[l + 1] \in Nat /\ Offset(l + 1) = Offset(l) + Sizes[l + 1]
        BY <2>1, OffsetStep, CodebooksInRange
    <3> QED
        BY <3>1
  <2>3. Codebook(l) = Base + a .. Base + b - 1
      BY <2>2 DEF Codebook
  <2>4. IsFiniteSet(Base + a .. Base + b - 1)
    <3>1. Base + a \in Int /\ Base + b - 1 \in Int
        BY <1>1, <2>2
    <3> QED
        BY <3>1, FS_Interval
  <2> QED
      BY <1>1, <2>2, <2>3, <2>4 DEF AllTokens
<1>5. IsFiniteSet(AllTokens)
  <2>1. Base \in Int /\ Base + Vocab - 1 \in Int
      BY <1>1
  <2> QED
      BY <2>1, FS_Interval DEF AllTokens
<1> QED
    BY <1>2, <1>3, <1>4, <1>5 DEF LevelTokens

\* A prefix agrees with the sequence where it is defined.
LEMMA PrefixAgrees ==
    ASSUME NEW p \in Seq(Int), NEW s \in Seq(Int)
    PROVE  IsPrefix(p, s) <=> Agree(p, s)
<1>1. Len(p) \in Nat /\ Len(s) \in Nat
    OBVIOUS
<1>2. ASSUME Len(p) <= Len(s)
      PROVE  SubSeq(p, 1, Len(p)) = SubSeq(s, 1, Len(p)) <=> \A k \in 1 .. Len(p) : p[k] = s[k]
  <2>1. /\ SubSeq(p, 1, Len(p)) \in Seq(Int) /\ Len(SubSeq(p, 1, Len(p))) = Len(p)
        /\ \A k \in 1 .. Len(p) : SubSeq(p, 1, Len(p))[k] = p[k]
      OBVIOUS
  <2>2. /\ SubSeq(s, 1, Len(p)) \in Seq(Int) /\ Len(SubSeq(s, 1, Len(p))) = Len(p)
        /\ \A k \in 1 .. Len(p) : SubSeq(s, 1, Len(p))[k] = s[k]
      BY <1>2
  <2>3. PICK u, v \in Seq(Int) : u = SubSeq(p, 1, Len(p)) /\ v = SubSeq(s, 1, Len(p))
      BY <2>1, <2>2
  <2>4. (\A k \in 1 .. Len(p) : p[k] = s[k]) => u = v
    <3>1. HAVE \A k \in 1 .. Len(p) : p[k] = s[k]
    <3>2. Len(u) = Len(v) /\ \A k \in 1 .. Len(u) : u[k] = v[k]
        BY <2>1, <2>2, <2>3, <3>1
    <3> QED
        BY <3>2, SameMembers
  <2>5. u = v => \A k \in 1 .. Len(p) : p[k] = s[k]
      BY <2>1, <2>2, <2>3
  <2> QED
      BY <2>3, <2>4, <2>5
<1> QED
    BY <1>1, <1>2 DEF IsPrefix, Agree

\* The nodes of the trie are the paths that agree with a longer item.
LEMMA ProperAgrees ==
    ASSUME NEW S, ItemSet(S), NEW p \in Seq(Int)
    PROVE  p \in ProperPrefixes(S) <=> \E s \in S : Len(p) < Len(s) /\ Agree(p, s)
<1>1. \A s \in S : s \in Seq(Int) /\ s # <<>> /\ Len(s) \in Nat /\ Len(s) > 0
  <2>1. \A s \in S : s \in Seq(Int) /\ s # <<>>
      BY TokensAreNumbers DEF ItemSet
  <2>2. \A s \in Seq(Int) : s # <<>> => Len(s) \in Nat /\ Len(s) > 0
      OBVIOUS
  <2> QED
      BY <2>1, <2>2
<1>2. ASSUME p \in ProperPrefixes(S)
      PROVE  \E s \in S : Len(p) < Len(s) /\ Agree(p, s)
  <2>1. CASE p = <<>>
    <3>1. PICK s \in S : TRUE
        BY DEF ItemSet
    <3>2. Len(p) = 0
        BY <2>1
    <3>3. Len(p) < Len(s) /\ Agree(p, s)
        BY <1>1, <3>2 DEF Agree
    <3> QED
        BY <3>3
  <2>2. CASE p # <<>>
    <3>1. PICK s \in S : \E i \in 0 .. Len(s) - 1 : p = SubSeq(s, 1, i)
        BY <1>2, <2>2 DEF ProperPrefixes
    <3> PICK i \in 0 .. Len(s) - 1 : p = SubSeq(s, 1, i)
        BY <3>1
    <3>2. s \in Seq(Int) /\ Len(s) \in Nat /\ i \in 0 .. Len(s)
        BY <1>1, <3>1
    <3>3. Len(SubSeq(s, 1, i)) = i /\ \A k \in 1 .. i : SubSeq(s, 1, i)[k] = s[k]
        BY <3>2
    <3>4. Len(p) < Len(s) /\ Agree(p, s)
        BY <3>1, <3>2, <3>3 DEF Agree
    <3> QED
        BY <3>4
  <2> QED
      BY <2>1, <2>2
<1>3. ASSUME NEW s \in S, Len(p) < Len(s), Agree(p, s)
      PROVE  p \in ProperPrefixes(S)
  <2>1. PICK n \in Nat : n = Len(p) /\ n \in 0 .. Len(s) - 1 /\ n <= Len(s)
      BY <1>1, <1>3
  <2>2. /\ SubSeq(s, 1, n) \in Seq(Int) /\ Len(SubSeq(s, 1, n)) = n
        /\ \A k \in 1 .. n : SubSeq(s, 1, n)[k] = s[k]
      BY <1>1, <2>1
  <2>3. PICK u \in Seq(Int) : u = SubSeq(s, 1, n)
      BY <2>2
  <2>4. Len(u) = Len(p) /\ \A k \in 1 .. Len(u) : u[k] = p[k]
      BY <1>3, <2>1, <2>2, <2>3 DEF Agree
  <2>5. u = p
      BY <2>4, SameMembers
  <2> QED
      BY <2>1, <2>3, <2>5 DEF ProperPrefixes
<1> QED
    BY <1>2, <1>3

\* The children of a path are the tokens its items go on with.
LEMMA ChildrenAgree ==
    ASSUME NEW S, ItemSet(S), NEW p \in Seq(Int), NEW tok
    PROVE  tok \in Children(S, p) <=>
               \E s \in S : Len(p) < Len(s) /\ Agree(p, s) /\ s[Len(p) + 1] = tok
<1>1. \A s \in S : s \in Seq(Int) /\ Len(s) \in Nat
    BY TokensAreNumbers DEF ItemSet
<1>2. \A s \in S : IsPrefix(p, s) <=> Agree(p, s)
    BY <1>1, PrefixAgrees
<1>3. Len(p) \in Nat
    OBVIOUS
<1> QED
    BY <1>1, <1>2, <1>3 DEF Children

\* No item is longer than the trie is deep.
LEMMA DepthBounds ==
    ASSUME NEW S, ItemSet(S)
    PROVE  Depth(S) \in Nat /\ \A s \in S : Len(s) <= Depth(S)
<1> DEFINE L == {Len(s) : s \in S}
<1>1. L \in SUBSET Nat
    BY DEF ItemSet
<1>2. IsFiniteSet(L)
  <2> DEFINE f == [s \in S |-> Len(s)]
  <2>1. f \in Surjection(S, L)
      BY DEF Surjection
  <2> QED
      BY <2>1, FS_Surjection DEF ItemSet
<1>3. L # {}
    BY DEF ItemSet
<1>4. PICK m \in L : \A x \in L : x <= m
  <2> DEFINE R == {e \in L \X L : e[1] > e[2]}
  <2>1. StrictOrderOn(R, L)
    <3>1. \A x, y \in L : <<x, y>> \in R <=> x > y
        OBVIOUS
    <3>2. \A x \in L : x \in Int
        BY <1>1
    <3> HIDE DEF L, R
    <3> QED
        BY <3>1, <3>2 DEF StrictOrderOn
  <2>2. PICK m \in L : Below(R, L, m) = {}
    <3> HIDE DEF L, R
    <3> QED
      BY <1>2, <1>3, <2>1, SomeFirst
  <2>3. \A x \in L : x \in Nat /\ ~(x > m)
      BY <1>1, <2>2 DEF Below
  <2>4. \A x \in L : x <= m
    <3> HIDE DEF L
    <3> QED
      BY <1>1, <2>2, <2>3
  <2> QED
      BY <2>2, <2>4
<1>5. \E n \in L : \A s \in S : Len(s) <= n
    BY <1>4
<1> DEFINE longest == CHOOSE n \in L : \A s \in S : Len(s) <= n
<1>6. Depth(S) = longest
  <2>1. S # {}
    BY DEF ItemSet
  <2> QED
    BY <2>1, Zenon DEF Depth
<1>7. longest \in L /\ \A s \in S : Len(s) <= longest
    BY <1>5, Zenon
<1> HIDE DEF longest, L
<1>8. Depth(S) \in L /\ \A s \in S : Len(s) <= Depth(S)
    BY <1>6, <1>7
<1> QED
    BY <1>1, <1>8 DEF L

\* Every node of the trie has one number.
LEMMA NodeNumbers ==
    ASSUME NEW S, ItemSet(S), NEW p \in ProperPrefixes(S)
    PROVE  /\ \E i \in 1 .. Len(NodeOrder(S)) : NodeOrder(S)[i] = p
           /\ \A i, j \in 1 .. Len(NodeOrder(S)) : NodeOrder(S)[i] = NodeOrder(S)[j] => i = j
           /\ DOMAIN NodeOrder(S) = 1 .. Len(NodeOrder(S))
           /\ Len(NodeOrder(S)) \in Nat
<1> DEFINE P == ProperPrefixes(S)
           R == PrefixOrder(P)
<1>1. S \in SUBSET Seq(Int) /\ IsFiniteSet(S)
    BY TokensAreNumbers DEF ItemSet
<1>2. IsFiniteSet(P) /\ P \in SUBSET Seq(Int) /\ StrictOrderOn(R, P)
    BY <1>1, PrefixesFinite, PrefixesOrdered
<1>3. PICK n \in Nat : n = Len(NodeOrder(S)) /\ n = Cardinality(P)
    BY <1>2, NodesCounted
<1>4. \A i \in 1 .. n : NodeOrder(S)[i] \in P /\ Place(R, P, NodeOrder(S)[i]) = i - 1
    BY <1>1, <1>3, NodesEnumerated
<1>5. DOMAIN NodeOrder(S) = 1 .. n
    BY <1>3 DEF NodeOrder, Sorted
<1>6. \E i \in 1 .. n : NodeOrder(S)[i] = p
  <2>1. PICK k \in 0 .. n - 1 : k = Place(R, P, p)
    <3> HIDE DEF P, R
    <3>1. p \in P
        BY DEF P
    <3> QED
        BY <1>2, <1>3, <3>1, PlaceType
  <2>2. k + 1 \in 1 .. n /\ k + 1 - 1 = k
      BY <1>3
  <2>3. NodeOrder(S)[k + 1] \in P /\ Place(R, P, NodeOrder(S)[k + 1]) = Place(R, P, p)
      BY <1>4, <2>1, <2>2
  <2>4. \A x, y \in P : Place(R, P, x) = Place(R, P, y) => x = y
    <3> HIDE DEF P, R
    <3> QED
        BY <1>2, PlacesTaken
  <2>5. NodeOrder(S)[k + 1] = p
      BY <2>3, <2>4
  <2> QED
      BY <2>2, <2>5
<1>7. ASSUME NEW i \in 1 .. n, NEW j \in 1 .. n, NodeOrder(S)[i] = NodeOrder(S)[j] PROVE i = j
  <2>1. i - 1 = j - 1
      BY <1>4, <1>7
  <2> QED
      BY <1>3, <2>1
<1> QED
    BY <1>3, <1>5, <1>6, <1>7

\* A path may be served if it begins an item, or goes on beyond one of full depth.
Served(S, p) == \E s \in S : IsPrefix(p, s) \/ (Len(s) = Depth(S) /\ IsPrefix(s, p))

\* The number of the node a path stands at.
StandsAt(S, p) ==
    IF p \in ProperPrefixes(S)
    THEN (CHOOSE i \in DOMAIN NodeOrder(S) : NodeOrder(S)[i] = p) - 1
    ELSE IF Len(p) >= Depth(S) /\ Served(S, p) THEN Unconstrained ELSE Len(NodeOrder(S))

LEMMA StandsOutside ==
    \A S, p : p \notin ProperPrefixes(S) =>
        StandsAt(S, p) = IF Len(p) >= Depth(S) /\ Served(S, p) THEN Unconstrained
                         ELSE Len(NodeOrder(S))
    BY Zenon DEF StandsAt

\* A path with one token more agrees as the path does and in the token.
LEMMA AgreeAppend ==
    ASSUME NEW p \in Seq(Int), NEW tok \in Int, NEW s \in Seq(Int)
    PROVE  /\ Append(p, tok) \in Seq(Int) /\ Len(Append(p, tok)) = Len(p) + 1
           /\ Agree(Append(p, tok), s) <=>
                  Len(p) < Len(s) /\ Agree(p, s) /\ s[Len(p) + 1] = tok
           /\ Agree(s, Append(p, tok)) <=>
                  Agree(s, p) \/ (Len(s) = Len(p) + 1 /\ Agree(Append(p, tok), s))
<1>1. PICK q \in Seq(Int), n \in Nat : /\ q = Append(p, tok) /\ n = Len(p) /\ Len(q) = n + 1
                                       /\ q[n + 1] = tok /\ \A k \in 1 .. n : q[k] = p[k]
  <2> DEFINE q == Append(p, tok)
  <2>1. q \in Seq(Int) /\ Len(p) \in Nat /\ Len(q) = Len(p) + 1
      OBVIOUS
  <2>2. q[Len(p) + 1] = tok /\ \A k \in 1 .. Len(p) : q[k] = p[k]
      OBVIOUS
  <2> HIDE DEF q
  <2> QED
      BY <2>1, <2>2 DEF q
<1>2. PICK m \in Nat : m = Len(s)
    OBVIOUS
<1>3. Agree(q, s) <=> n < m /\ Agree(p, s) /\ s[n + 1] = tok
  <2>1. (\A k \in 1 .. n + 1 : q[k] = s[k]) <=> (\A k \in 1 .. n : q[k] = s[k]) /\ q[n + 1] = s[n + 1]
    <3>1. \A k : k \in 1 .. n + 1 <=> k \in 1 .. n \/ k = n + 1
        OBVIOUS
    <3> QED
        BY <3>1
  <2>2. n + 1 <= m <=> n < m
      OBVIOUS
  <2>3. n < m => n <= m
      OBVIOUS
  <2>4. Agree(q, s) <=> n + 1 <= m /\ \A k \in 1 .. n + 1 : q[k] = s[k]
      BY <1>1, <1>2 DEF Agree
  <2>5. Agree(p, s) <=> n <= m /\ \A k \in 1 .. n : p[k] = s[k]
      BY <1>1, <1>2 DEF Agree
  <2> QED
      BY <1>1, <2>1, <2>2, <2>3, <2>4, <2>5
<1>4. Agree(s, q) <=> Agree(s, p) \/ (m = n + 1 /\ Agree(q, s))
  <2>1. Agree(s, q) <=> m <= n + 1 /\ \A k \in 1 .. m : s[k] = q[k]
      BY <1>1, <1>2 DEF Agree
  <2>2. Agree(s, p) <=> m <= n /\ \A k \in 1 .. m : s[k] = p[k]
      BY <1>1, <1>2 DEF Agree
  <2>3. CASE m <= n
    <3>1. \A k \in 1 .. m : q[k] = p[k]
        BY <1>1, <2>3
    <3>2. m <= n + 1 /\ ~(m = n + 1)
        BY <2>3
    <3> QED
        BY <2>1, <2>2, <2>3, <3>1, <3>2
  <2>4. CASE m = n + 1
    <3>1. Agree(q, s) <=> \A k \in 1 .. n + 1 : q[k] = s[k]
        BY <1>1, <1>2, <2>4 DEF Agree
    <3>2. ~(m <= n) /\ m <= n + 1
        BY <2>4
    <3> QED
        BY <2>1, <2>2, <2>4, <3>1, <3>2
  <2>5. CASE m > n + 1
    <3>1. ~(m <= n) /\ ~(m <= n + 1) /\ m # n + 1
        BY <2>5
    <3> QED
        BY <2>1, <2>2, <3>1
  <2> QED
      BY <2>3, <2>4, <2>5
<1> QED
    BY <1>1, <1>2, <1>3, <1>4

\* How one token more changes where a path stands.
LEMMA PathSteps ==
    ASSUME NEW S, ItemSet(S), NEW p \in Seq(Int), NEW tok \in Int
    PROVE  LET q == Append(p, tok)
               inside == p \in ProperPrefixes(S)
               child == tok \in Children(S, p)
               past(r) == Len(r) >= Depth(S) /\ Served(S, r)
           IN  /\ child => Served(S, q)
               /\ q \in ProperPrefixes(S) => inside /\ child
               /\ inside /\ ~child => ~Served(S, q)
               /\ ~inside => (past(p) <=> past(q))
               /\ ~inside /\ past(p) => Served(S, q)
<1> DEFINE q == Append(p, tok)
           d == Depth(S)
<1>1. \A s \in S : s \in Seq(Int) /\ Len(s) \in Nat /\ Len(s) <= d
    BY TokensAreNumbers, DepthBounds DEF ItemSet
<1>2. q \in Seq(Int) /\ Len(p) \in Nat /\ Len(q) = Len(p) + 1 /\ d \in Nat
    BY AgreeAppend, DepthBounds
<1>3. \A s \in S : /\ Agree(q, s) <=> Len(p) < Len(s) /\ Agree(p, s) /\ s[Len(p) + 1] = tok
                   /\ Agree(s, q) <=> Agree(s, p) \/ (Len(s) = Len(p) + 1 /\ Agree(q, s))
    BY <1>1, AgreeAppend
<1>4. ASSUME NEW r \in Seq(Int)
      PROVE  /\ r \in ProperPrefixes(S) <=> \E s \in S : Len(r) < Len(s) /\ Agree(r, s)
             /\ Served(S, r) <=> \E s \in S : Agree(r, s) \/ (Len(s) = d /\ Agree(s, r))
  <2>1. \A s \in S : (IsPrefix(r, s) <=> Agree(r, s)) /\ (IsPrefix(s, r) <=> Agree(s, r))
      BY <1>1, PrefixAgrees
  <2> QED
      BY <2>1, ProperAgrees DEF Served
<1>5. tok \in Children(S, p) <=> \E s \in S : Agree(q, s)
    BY <1>3, ChildrenAgree
<1>6. \A s \in S : Agree(p, s) /\ Len(p) >= Len(s) => Len(s) = Len(p) /\ Agree(s, p)
    BY <1>1, <1>2 DEF Agree
<1>7. \A s \in S : Agree(s, p) => Len(s) <= Len(p)
    BY DEF Agree
<1> HIDE DEF q, d
<1>8. tok \in Children(S, p) => Served(S, q)
    BY <1>2, <1>4, <1>5
<1>9. q \in ProperPrefixes(S) => p \in ProperPrefixes(S) /\ tok \in Children(S, p)
    BY <1>2, <1>3, <1>4, <1>5
<1>10. ASSUME p \in ProperPrefixes(S), tok \notin Children(S, p), Served(S, q)
       PROVE  FALSE
  <2>1. PICK t \in S : Len(t) = d /\ Agree(t, q)
      BY <1>2, <1>4, <1>5, <1>10
  <2>2. Agree(t, p)
      BY <1>3, <1>5, <1>10, <2>1
  <2>3. PICK s \in S : Len(p) < Len(s)
      BY <1>4, <1>10
  <2> QED
      BY <1>1, <1>2, <1>7, <2>1, <2>2, <2>3
<1>11. ASSUME p \notin ProperPrefixes(S), Len(p) >= d, Served(S, p)
       PROVE  Len(q) >= d /\ Served(S, q)
  <2>1. PICK s \in S : Agree(p, s) \/ (Len(s) = d /\ Agree(s, p))
      BY <1>4, <1>11
  <2>2. Len(s) = d /\ Agree(s, p)
      BY <1>1, <1>2, <1>6, <1>11, <2>1
  <2> QED
      BY <1>2, <1>3, <1>4, <1>11, <2>2
<1>12. ASSUME p \notin ProperPrefixes(S), Len(q) >= d, Served(S, q)
       PROVE  Len(p) >= d /\ Served(S, p)
  <2>1. PICK s \in S : Agree(q, s) \/ (Len(s) = d /\ Agree(s, q))
      BY <1>2, <1>4, <1>12
  <2>2. ~Agree(q, s)
      BY <1>3, <1>4, <1>12
  <2>3. Len(s) = d /\ Agree(s, p)
      BY <1>3, <2>1, <2>2
  <2> QED
      BY <1>1, <1>2, <1>4, <1>7, <2>3
<1> QED
    BY <1>8, <1>9, <1>10, <1>11, <1>12 DEF q, d

-----------------------------------------------------------------------------
(* Where the tables lead. *)

\* A row of the dense tables and a run of the CSR keys lead where the path leads.
LEMMA TablesLead ==
    ASSUME NEW S, ItemSet(S), NEW p \in Seq(AllTokens), NEW tok \in AllTokens,
           NEW t, t \in {DenseTrie(S), CsrTrie(S)}
    PROVE  Transition(t, StandsAt(S, p), tok) = StandsAt(S, Append(p, tok))
<1> DEFINE q == Append(p, tok)
           node == StandsAt(S, p)
           n == Len(NodeOrder(S))
           inside == p \in ProperPrefixes(S)
           child == tok \in Children(S, p)
           past(r) == Len(r) >= Depth(S) /\ Served(S, r)
<1>1. p \in Seq(Int) /\ tok \in Int /\ InRange(tok)
  <2>1. p \in Seq(Int) /\ tok \in Nat
      BY TokensAreNumbers
  <2>2. Base \in Nat /\ Vocab \in Nat
      BY SizesAssumption, CodebooksInRange
  <2> QED
      BY <2>1, <2>2 DEF AllTokens, InRange
<1>2. S \in SUBSET Seq(Int) /\ IsFiniteSet(S) /\ IsFiniteSet(ProperPrefixes(S)) /\ n \in Nat
  <2>1. S \in SUBSET Seq(Int) /\ IsFiniteSet(S)
      BY TokensAreNumbers DEF ItemSet
  <2> QED
      BY <2>1, PrefixesFinite, NodesCounted
<1>3. /\ child => Served(S, q)
      /\ q \in ProperPrefixes(S) => inside /\ child
      /\ inside /\ ~child => ~Served(S, q)
      /\ ~inside => (past(p) <=> past(q))
    BY <1>1, PathSteps
<1>4. t.layout \in {"dense", "csr"} /\ t.invalid = n
  <2>1. DenseTrie(S).layout = "dense" /\ DenseTrie(S).invalid = n
      BY DEF DenseTrie
  <2>2. CsrTrie(S).layout = "csr" /\ CsrTrie(S).invalid = n
      BY <1>2, CsrFields
  <2> QED
      BY <2>1, <2>2
<1>5. ASSUME node \in 0 .. n
      PROVE  Transition(t, node, tok) =
                 IF <<node, tok - Base>> \in EdgeSet(S)
                 THEN EdgeChild(S, NodeOrder(S), <<node, tok - Base>>) ELSE n
  <2>1. ~(node < 0) /\ node \in Nodes(S)
      BY <1>2, <1>5 DEF Nodes
  <2>2. Transition(t, node, tok) = NextNode(t, node, tok)
      BY <1>1, <1>4, <2>1 DEF Transition
  <2> HIDE DEF node
  <2>3. CASE t = DenseTrie(S)
    <3>1. t.layout = "dense"
        BY <2>3 DEF DenseTrie
    <3> QED
        BY <1>1, <1>2, <2>1, <2>2, <2>3, <3>1, DenseReads DEF NextNode
  <2>4. CASE t = CsrTrie(S)
      BY <1>1, <1>2, <2>1, <2>2, <2>4, CsrReads
  <2> QED
      BY <2>3, <2>4
<1>6. CASE inside
  <2>1. PICK i \in 1 .. n : NodeOrder(S)[i] = p /\ node = i - 1
    <3>1. /\ DOMAIN NodeOrder(S) = 1 .. n
          /\ \E i \in 1 .. n : NodeOrder(S)[i] = p
        BY <1>6, NodeNumbers
    <3>2. node = (CHOOSE i \in DOMAIN NodeOrder(S) : NodeOrder(S)[i] = p) - 1
        BY <1>6 DEF StandsAt
    <3> HIDE DEF node, n
    <3> QED
        BY <3>1, <3>2
  <2> HIDE DEF node
  <2>2. node \in 0 .. n /\ node + 1 = i /\ node \in 0 .. n - 1
      BY <1>2, <2>1
  <2>3. Base \in Nat /\ Vocab \in Nat \ {0} /\ Base + (tok - Base) = tok
      BY <1>1, SizesAssumption, CodebooksInRange
  <2>4. <<node, tok - Base>> \in EdgeSet(S) <=> child
      BY <1>1, <2>1, <2>2, <2>3 DEF EdgeSet, Edges, InRange
  <2>5. EdgeChild(S, NodeOrder(S), <<node, tok - Base>>) = ChildId(S, NodeOrder(S), p, tok)
      BY <2>1, <2>2, <2>3 DEF EdgeChild
  <2>6. CASE ~child
    <3>1. StandsAt(S, q) = n
        BY <1>3, <1>6, <2>6 DEF StandsAt
    <3> QED
        BY <1>5, <2>2, <2>4, <2>6, <3>1 DEF node
  <2>7. CASE child /\ q \in ProperPrefixes(S)
    <3>1. Contains(NodeOrder(S), q)
        BY <2>7, NodeNumbers DEF Contains
    <3> DEFINE at == CHOOSE j \in DOMAIN NodeOrder(S) : NodeOrder(S)[j] = q
    <3>2. ChildId(S, NodeOrder(S), p, tok) = at - 1
        BY <3>1, Zenon DEF ChildId
    <3>3. StandsAt(S, q) = at - 1
        BY <2>7, Zenon DEF StandsAt
    <3> HIDE DEF at
    <3> QED
        BY <1>5, <2>2, <2>4, <2>5, <2>7, <3>2, <3>3 DEF node
  <2>8. CASE child /\ q \notin ProperPrefixes(S)
    <3>1. ~Contains(NodeOrder(S), q)
        BY <1>2, <2>8, NodesEnumerated DEF Contains
    <3>2. ChildId(S, NodeOrder(S), p, tok) = IF Len(q) >= Depth(S) THEN Unconstrained ELSE n
        BY <3>1 DEF ChildId
    <3>3. StandsAt(S, q) = IF Len(q) >= Depth(S) THEN Unconstrained ELSE n
        BY <1>3, <2>8 DEF StandsAt
    <3> QED
        BY <1>5, <2>2, <2>4, <2>5, <2>8, <3>2, <3>3 DEF node
  <2> QED
      BY <2>6, <2>7, <2>8 DEF node
<1>7. CASE ~inside /\ past(p)
  <2>1. node = -1 /\ StandsAt(S, q) = -1
      BY <1>3, <1>7, StandsOutside DEF Unconstrained
  <2> QED
      BY <1>4, <2>1 DEF Transition
<1>8. CASE ~inside /\ ~past(p)
  <2>1. node = n /\ StandsAt(S, q) = n
      BY <1>3, <1>8 DEF StandsAt
  <2>2. <<n, tok - Base>> \notin EdgeSet(S)
      BY <1>2 DEF EdgeSet, Edges
  <2> HIDE DEF node
  <2>3. node \in 0 .. n
      BY <1>2, <2>1
  <2> QED
      BY <1>5, <2>1, <2>2, <2>3 DEF node
<1> QED
    BY <1>6, <1>7, <1>8

\* What the tables allow where a path stands may be served.
LEMMA TablesAllow ==
    ASSUME NEW S, ItemSet(S), NEW p \in Seq(AllTokens), NEW tok \in AllTokens, NEW level,
           NEW t, t \in {DenseTrie(S), CsrTrie(S)}, MaskOk(t, StandsAt(S, p), tok, level)
    PROVE  Served(S, Append(p, tok))
<1> DEFINE node == StandsAt(S, p)
           n == Len(NodeOrder(S))
           past == Len(p) >= Depth(S) /\ Served(S, p)
<1>1. p \in Seq(Int) /\ tok \in Int
    BY TokensAreNumbers
<1>2. S \in SUBSET Seq(AllTokens) /\ IsFiniteSet(S) /\ n \in Nat
  <2>1. S \in SUBSET Seq(Int) /\ IsFiniteSet(S) /\ S \in SUBSET Seq(AllTokens)
      BY TokensAreNumbers DEF ItemSet
  <2> QED
      BY <2>1, PrefixesFinite, NodesCounted
<1>3. /\ tok \in Children(S, p) => Served(S, Append(p, tok))
      /\ p \notin ProperPrefixes(S) /\ past => Served(S, Append(p, tok))
    BY <1>1, PathSteps
<1>4. ASSUME node \in 0 .. n
      PROVE  node < n /\ tok \in Children(S, NodeOrder(S)[node + 1])
  <2>1. node \in Nodes(S)
      BY <1>4 DEF Nodes
  <2> HIDE DEF node
  <2>2. MaskOk(t, node, tok, level)
      BY DEF node
  <2> QED
      BY <1>1, <1>2, <2>1, <2>2, MasksFollowSequences
<1>5. CASE p \in ProperPrefixes(S)
  <2>1. PICK i \in 1 .. n : NodeOrder(S)[i] = p /\ node = i - 1
    <3>1. /\ DOMAIN NodeOrder(S) = 1 .. n
          /\ \E i \in 1 .. n : NodeOrder(S)[i] = p
        BY <1>5, NodeNumbers
    <3>2. node = (CHOOSE i \in DOMAIN NodeOrder(S) : NodeOrder(S)[i] = p) - 1
        BY <1>5 DEF StandsAt
    <3> HIDE DEF node, n
    <3> QED
        BY <3>1, <3>2
  <2> HIDE DEF node
  <2>2. node \in 0 .. n /\ node + 1 = i
      BY <1>2, <2>1
  <2> QED
      BY <1>3, <1>4, <2>1, <2>2 DEF node
<1>6. CASE p \notin ProperPrefixes(S) /\ past
    BY <1>3, <1>6
<1>7. CASE p \notin ProperPrefixes(S) /\ ~past
  <2>1. node = n
      BY <1>7 DEF StandsAt
  <2> QED
      BY <1>2, <1>4, <2>1
<1> QED
    BY <1>5, <1>6, <1>7

-----------------------------------------------------------------------------
(* What a row means. *)

\* In the tables of a catalog a path stands at the node looked up for it.
LEMMA NodesLookedUp ==
    ASSUME BuiltFromCatalog, NEW p \in Seq(AllTokens)
    PROVE  /\ Constrained => NodeOf(p) = StandsAt(Items, p) /\ (Legal(p) <=> Served(Items, p))
           /\ ~Constrained => NodeOf(p) = 0
<1> DEFINE at == CHOOSE i \in DOMAIN NodeOrder(Items) : NodeOrder(Items)[i] = p
           inside == p \in ProperPrefixes(Items)
<1>1. Constrained /\ inside => NodeOf(p) = at - 1
    BY Zenon DEF NodeOf
<1>2. inside => StandsAt(Items, p) = at - 1
    BY Zenon DEF StandsAt
<1> HIDE DEF at
<1>3. ~inside => StandsAt(Items, p) =
          IF Len(p) >= Depth(Items) /\ Served(Items, p) THEN Unconstrained
          ELSE Len(NodeOrder(Items))
    BY Zenon DEF StandsAt
<1>4. Constrained /\ ~inside =>
          NodeOf(p) = IF Len(p) >= Depth(Items) /\ Legal(p) THEN Unconstrained ELSE trie.invalid
    BY Zenon DEF NodeOf
<1>5. ~Constrained => NodeOf(p) = 0
    BY Zenon DEF NodeOf
<1>6. Constrained => (Legal(p) <=> Served(Items, p))
    BY DEF Legal, Served
<1> HIDE DEF inside
<1>7. CASE Constrained /\ inside
    BY <1>1, <1>2, <1>6, <1>7
<1>8. CASE Constrained /\ ~inside
    BY <1>3, <1>4, <1>6, <1>8, TablesOfItems
<1> QED
    BY <1>5, <1>7, <1>8

\* The empty path stands at the root, and may be served.
LEMMA RootFirst ==
    ASSUME BuiltFromCatalog
    PROVE  NodeOf(<<>>) = 0 /\ Legal(<<>>)
<1>1. <<>> \in Seq(AllTokens) /\ <<>> \in Seq(Int) /\ Len(<<>>) = 0 /\ DOMAIN <<>> = {}
    OBVIOUS
<1>2. CASE ~Constrained
    BY <1>1, <1>2, NodesLookedUp DEF Legal
<1>3. CASE Constrained
  <2> DEFINE P == ProperPrefixes(Items)
             R == PrefixOrder(P)
             n == Len(NodeOrder(Items))
  <2>1. ItemSet(Items) /\ <<>> \in P
      BY <1>3, TablesOfItems DEF ProperPrefixes
  <2>2. Items \in SUBSET Seq(Int) /\ IsFiniteSet(Items) /\ P \in SUBSET Seq(Int) /\ n \in Nat
    <3>1. Items \in SUBSET Seq(Int) /\ IsFiniteSet(Items)
        BY <2>1, TokensAreNumbers DEF ItemSet
    <3> QED
        BY <3>1, PrefixesFinite, NodesCounted
  <2>3. Below(R, P, <<>>) = {}
    <3> SUFFICES ASSUME NEW q \in P, PrefixBefore(q, <<>>) PROVE FALSE
        BY DEF Below, PrefixOrder
    <3>1. Len(q) \in Nat /\ DOMAIN q = 1 .. Len(q)
        BY <2>2
    <3> QED
        BY <1>1, <3>1 DEF PrefixBefore
  <2>4. Place(R, P, <<>>) = 0
      BY <2>3, FS_EmptySet DEF Place
  <2>5. \A i \in 1 .. n : NodeOrder(Items)[i] = <<>> => i = 1
    <3> TAKE i \in 1 .. n
    <3>1. Place(R, P, NodeOrder(Items)[i]) = i - 1
        BY <2>2, NodesEnumerated
    <3> QED
        BY <2>4, <3>1
  <2>6. StandsAt(Items, <<>>) = 0
    <3>1. DOMAIN NodeOrder(Items) = 1 .. n /\ \E i \in 1 .. n : NodeOrder(Items)[i] = <<>>
        BY <2>1, NodeNumbers
    <3> DEFINE at == CHOOSE i \in DOMAIN NodeOrder(Items) : NodeOrder(Items)[i] = <<>>
    <3>2. at \in 1 .. n /\ NodeOrder(Items)[at] = <<>>
        BY <3>1, Zenon
    <3>3. StandsAt(Items, <<>>) = at - 1
        BY <2>1, Zenon DEF StandsAt
    <3> HIDE DEF at
    <3> QED
        BY <2>5, <3>2, <3>3
  <2>7. Served(Items, <<>>)
    <3>1. PICK s \in Items : TRUE
        BY <2>1 DEF ItemSet
    <3>2. s \in Seq(Int) /\ Len(s) \in Nat
        BY <2>2
    <3>3. Agree(<<>>, s)
        BY <1>1, <3>2 DEF Agree
    <3>4. IsPrefix(<<>>, s)
        BY <1>1, <3>2, <3>3, PrefixAgrees
    <3> QED
        BY <3>4 DEF Served
  <2> QED
      BY <1>1, <1>3, <2>6, <2>7, NodesLookedUp
<1> QED
    BY <1>2, <1>3

\* A token more leads to the node of the longer path.
LEMMA NodeSteps ==
    ASSUME BuiltFromCatalog, NEW p \in Seq(AllTokens), NEW tok \in AllTokens
    PROVE  Transition(trie, NodeOf(p), tok) = NodeOf(Append(p, tok))
<1>1. Append(p, tok) \in Seq(AllTokens)
    OBVIOUS
<1>2. CASE ~Constrained
    BY <1>1, <1>2, NodesLookedUp DEF Constrained, Transition
<1>3. CASE Constrained
  <2>1. NodeOf(p) = StandsAt(Items, p) /\ NodeOf(Append(p, tok)) = StandsAt(Items, Append(p, tok))
      BY <1>1, <1>3, NodesLookedUp
  <2>2. ItemSet(Items) /\ trie \in {DenseTrie(Items), CsrTrie(Items)}
      BY <1>3, TablesOfItems
  <2> QED
      BY <2>1, <2>2, TablesLead
<1> QED
    BY <1>2, <1>3

\* A legal path goes on legally with what the mask allows.
LEMMA LegalSteps ==
    ASSUME BuiltFromCatalog, NEW p \in Seq(AllTokens), NEW tok \in AllTokens,
           Legal(p), MaskOk(trie, NodeOf(p), tok, Len(p))
    PROVE  Legal(Append(p, tok))
<1>1. Append(p, tok) \in Seq(AllTokens) /\ Len(p) \in Nat
    OBVIOUS
<1>2. CASE ~Constrained
  <2>1. tok \in LevelTokens(Len(p))
      BY <1>2 DEF Constrained, MaskOk, StepAllow, LevelTokens
  <2>2. \A i \in DOMAIN p : p[i] \in LevelTokens(i - 1)
      BY <1>2 DEF Legal
  <2>3. \A i \in DOMAIN Append(p, tok) :
            \/ i \in DOMAIN p /\ Append(p, tok)[i] = p[i]
            \/ i - 1 = Len(p) /\ Append(p, tok)[i] = tok
      OBVIOUS
  <2>4. \A i \in DOMAIN Append(p, tok) : Append(p, tok)[i] \in LevelTokens(i - 1)
      BY <2>1, <2>2, <2>3
  <2> QED
      BY <1>2, <2>4 DEF Legal
<1>3. CASE Constrained
  <2>1. NodeOf(p) = StandsAt(Items, p) /\ (Legal(Append(p, tok)) <=> Served(Items, Append(p, tok)))
      BY <1>1, <1>3, NodesLookedUp
  <2>2. ItemSet(Items) /\ trie \in {DenseTrie(Items), CsrTrie(Items)}
      BY <1>3, TablesOfItems
  <2> QED
      BY <2>1, <2>2, TablesAllow
<1> QED
    BY <1>2, <1>3

\* The token before the next one: 0 stands for the prompt.
Preceding(p) == IF p = <<>> THEN 0 ELSE Last(p)

\* The score of a path is the sum along it.
LEMMA ScoreSteps ==
    ASSUME BuiltFromCatalog
    PROVE  /\ PathScore(<<>>) = 0
           /\ \A p \in Seq(AllTokens) : PathScore(p) \in Int
           /\ \A p \in Seq(AllTokens), tok \in AllTokens :
                /\ Preceding(p) \in AllTokens \cup {0} /\ logprob[Preceding(p)][tok] \in Int
                /\ PathScore(Append(p, tok)) = PathScore(p) + logprob[Preceding(p)][tok]
<1> DEFINE Prev(p, i) == IF i = 1 THEN 0 ELSE p[i - 1]
           Scores(p) == [i \in DOMAIN p |-> logprob[Prev(p, i)][p[i]]]
<1>1. \A p : PathScore(p) = Summed(Scores(p))
    BY DEF PathScore, Summed
<1>2. \A u \in AllTokens \cup {0}, v \in AllTokens : logprob[u][v] \in Int
    BY RequestAssumption DEF BuiltFromCatalog
<1>3. ASSUME NEW p \in Seq(AllTokens)
      PROVE  /\ Scores(p) \in Seq(Int) /\ Len(Scores(p)) = Len(p)
             /\ \A i \in 1 .. Len(p) : Scores(p)[i] = logprob[Prev(p, i)][p[i]]
  <2>1. Len(p) \in Nat /\ DOMAIN p = 1 .. Len(p) /\ \A i \in 1 .. Len(p) : p[i] \in AllTokens
      OBVIOUS
  <2>2. \A i \in 1 .. Len(p) : Prev(p, i) \in AllTokens \cup {0}
      BY <2>1
  <2> HIDE DEF Prev
  <2>3. \A i \in 1 .. Len(p) : logprob[Prev(p, i)][p[i]] \in Int
      BY <1>2, <2>1, <2>2
  <2>4. Scores(p) = [i \in 1 .. Len(p) |-> logprob[Prev(p, i)][p[i]]]
      BY <2>1
  <2>5. Scores(p) \in [1 .. Len(p) -> Int]
      BY <2>3, <2>4
  <2>6. \A i \in 1 .. Len(p) : Scores(p)[i] = logprob[Prev(p, i)][p[i]]
      BY <2>4
  <2>7. \A n \in Nat : \A g \in [1 .. n -> Int] : g \in Seq(Int) /\ Len(g) = n
      OBVIOUS
  <2> HIDE DEF Scores
  <2> QED
      BY <2>1, <2>5, <2>6, <2>7
<1>4. ASSUME NEW p \in Seq(AllTokens), NEW tok \in AllTokens
      PROVE  /\ Preceding(p) \in AllTokens \cup {0} /\ logprob[Preceding(p)][tok] \in Int
             /\ PathScore(Append(p, tok)) = PathScore(p) + logprob[Preceding(p)][tok]
  <2> DEFINE q == Append(p, tok)
             n == Len(p)
  <2>1. q \in Seq(AllTokens) /\ n \in Nat /\ Len(q) = n + 1 /\ q[n + 1] = tok
        /\ \A i \in 1 .. n : q[i] = p[i]
      OBVIOUS
  <2>2. Preceding(p) = Prev(q, n + 1)
    <3>1. p = <<>> <=> n = 0
        OBVIOUS
    <3>2. n # 0 => Last(p) = q[n] /\ n + 1 # 1 /\ n + 1 - 1 = n
        BY <2>1 DEF Last
    <3> QED
        BY <3>1, <3>2 DEF Preceding
  <2>3. Preceding(p) \in AllTokens \cup {0}
      BY DEF Preceding, Last
  <2>4. logprob[Preceding(p)][tok] \in Int
      BY <1>2, <2>3
  <2>5. \A i \in 1 .. n : Prev(q, i) = Prev(p, i)
      BY <2>1
  <2>6. /\ Scores(p) \in Seq(Int) /\ Len(Scores(p)) = n
        /\ Scores(q) \in Seq(Int) /\ Len(Scores(q)) = n + 1
        /\ \A i \in 1 .. n : Scores(p)[i] = logprob[Prev(p, i)][p[i]]
        /\ \A i \in 1 .. n + 1 : Scores(q)[i] = logprob[Prev(q, i)][q[i]]
      BY <1>3, <2>1
  <2> HIDE DEF q, n, Prev, Scores
  <2>7. \A i \in 1 .. n : Scores(q)[i] = Scores(p)[i]
    <3> TAKE i \in 1 .. n
    <3>1. i \in 1 .. n + 1
        BY <2>1
    <3> QED
        BY <2>1, <2>5, <2>6, <3>1
  <2>8. Scores(q)[n + 1] = logprob[Preceding(p)][tok]
    <3>1. n + 1 \in 1 .. n + 1
        BY <2>1
    <3> QED
        BY <2>1, <2>2, <2>6, <3>1
  <2>9. Summed(Scores(q)) = Summed(Scores(p)) + Scores(q)[n + 1]
      BY <2>6, <2>7, SumStep
  <2> QED
      BY <1>1, <2>3, <2>4, <2>8, <2>9 DEF q
<1>5. PathScore(<<>>) = 0
  <2>1. Scores(<<>>) = <<>>
      OBVIOUS
  <2> HIDE DEF Scores
  <2> QED
      BY <1>1, <2>1, SumStep
<1>6. \A p \in Seq(AllTokens) : PathScore(p) \in Int
  <2> HIDE DEF Scores
  <2> QED
      BY <1>1, <1>3, SumStep
<1> QED
    BY <1>4, <1>5, <1>6

\* The walk from the root with one token is one transition.
LEMMA FirstWalk ==
    ASSUME NEW tok
    PROVE  Resolved(trie, <<tok>>) = Transition(trie, 0, tok)
<1> DEFINE Op(a, b) == Transition(trie, a, b)
           Rec(f) == f = [t \in SUBSET (1 .. 1) |->
                            IF t = {} THEN 0 ELSE Transition(trie, f[t \ {Max(t)}], <<tok>>[Max(t)])]
           c == [t \in SUBSET (1 .. 1) |-> IF t = {} THEN 0 ELSE Transition(trie, 0, tok)]
<1>1. Max({1}) = 1
    BY DEF Max
<1>2. 1 .. 1 = {1} /\ SUBSET (1 .. 1) = {{}, {1}} /\ {1} \ {1} = {} /\ {1} # {}
    OBVIOUS
<1>3. Rec(c)
  <2>1. c[{}] = 0 /\ <<tok>>[1] = tok
      OBVIOUS
  <2>2. \A t \in SUBSET (1 .. 1) : t # {} => t = {1} /\ Max(t) = 1 /\ t \ {1} = {}
      BY <1>1, <1>2
  <2>3. \A t \in SUBSET (1 .. 1) : t # {} =>
            Transition(trie, c[t \ {Max(t)}], <<tok>>[Max(t)]) = Transition(trie, 0, tok)
      BY <2>1, <2>2
  <2>4. \A t \in SUBSET (1 .. 1) :
            c[t] = IF t = {} THEN 0 ELSE Transition(trie, c[t \ {Max(t)}], <<tok>>[Max(t)])
      BY <2>3
  <2>5. c = [t \in SUBSET (1 .. 1) |-> c[t]]
      OBVIOUS
  <2> HIDE DEF c
  <2> QED
      BY <2>4, <2>5
<1>4. PICK f : f = (CHOOSE g : Rec(g)) /\ Rec(f)
  <2> HIDE DEF Rec
  <2> QED
      BY <1>3, Zenon
<1>5. f[{}] = 0 /\ f[{1}] = Transition(trie, f[{1} \ {Max({1})}], <<tok>>[Max({1})])
    BY <1>2, <1>4
<1>6. f[1 .. 1] = Transition(trie, 0, tok)
    BY <1>1, <1>2, <1>5
<1>7. Resolved(trie, <<tok>>) = (CHOOSE g : Rec(g))[1 .. 1]
  <2>1. Len(<<tok>>) = 1 /\ DOMAIN <<tok>> = 1 .. 1
      OBVIOUS
  <2> QED
      BY <2>1 DEF Resolved, FoldLeft, MapThenFoldSet
<1> QED
    BY <1>4, <1>6, <1>7

-----------------------------------------------------------------------------
(* Candidates. *)

\* The members of T, each at one place of s.
Enumerates(s, T) ==
    /\ s \in Seq(T) /\ DOMAIN s = 1 .. Cardinality(T) /\ Len(s) = Cardinality(T)
    /\ \A i, j \in DOMAIN s : s[i] = s[j] => i = j

\* Every place that is taken lists its member.
Lists(s, R, T) ==
    /\ s = [i \in 1 .. Cardinality(T) |-> s[i]]
    /\ \A i \in 1 .. Cardinality(T) :
           (\E x \in T : Place(R, T, x) = i - 1) => s[i] \in T /\ Place(R, T, s[i]) = i - 1

\* Sorting lists every member once.
LEMMA OrderEnumerates ==
    ASSUME NEW T, IsFiniteSet(T), NEW R, StrictOrderOn(R, T), NEW s, Lists(s, R, T)
    PROVE  Enumerates(s, T)
<1>1. PICK n \in Nat : n = Cardinality(T)
    BY FS_CardinalityType
<1>3. \A i \in 0 .. n - 1 : \E x \in T : Place(R, T, x) = i
    BY <1>1, PlacesTaken
<1>4. \A i \in 1 .. n : s[i] \in T /\ Place(R, T, s[i]) = i - 1
  <2> TAKE i \in 1 .. n
  <2>1. i - 1 \in 0 .. n - 1
      BY <1>1
  <2>2. \E x \in T : Place(R, T, x) = i - 1
      BY <1>3, <2>1
  <2> QED
      BY <1>1, <2>2 DEF Lists
<1>5. s = [i \in 1 .. n |-> s[i]]
    BY <1>1 DEF Lists
<1>6. s \in Seq(T) /\ DOMAIN s = 1 .. n /\ Len(s) = n
  <2>1. s \in [1 .. n -> T]
      BY <1>4, <1>5
  <2> QED
      BY <1>1, <2>1
<1>7. ASSUME NEW i \in 1 .. n, NEW j \in 1 .. n, s[i] = s[j] PROVE i = j
  <2>1. i - 1 = j - 1
      BY <1>4, <1>7
  <2> QED
      BY <1>1, <2>1
<1> QED
    BY <1>1, <1>6, <1>7 DEF Enumerates

\* The best tokens of a row: tokens of the codebook, each once, and at least one.
LEMMA PoolMembers ==
    ASSUME BuiltFromCatalog, NEW prev \in AllTokens \cup {0}, NEW level \in Nat
    PROVE  /\ Pool(prev, level) \in Seq(AllTokens) /\ Len(Pool(prev, level)) >= 1
           /\ DOMAIN Pool(prev, level) = 1 .. Len(Pool(prev, level))
           /\ \A i, j \in DOMAIN Pool(prev, level) :
                  Pool(prev, level)[i] = Pool(prev, level)[j] => i = j
<1> DEFINE T == LevelTokens(level)
           R == {e \in T \X T : logprob[prev][e[1]] > logprob[prev][e[2]]}
           toks == Sorted(T, LAMBDA t, u : logprob[prev][t] > logprob[prev][u])
<1>1. T \subseteq AllTokens /\ IsFiniteSet(T)
    BY TokensAreNumbers
<1>2. T # {}
  <2>1. Base \in Nat /\ Vocab \in Nat \ {0}
      BY SizesAssumption, CodebooksInRange
  <2>2. CASE level < Levels
    <3>1. level \in 0 .. Levels - 1
        BY <2>2, OffsetStep
    <3>2. PICK a, b \in Nat : a = Offset(level) /\ b = Offset(level + 1) /\ a < b
      <4>1. /\ Offset(level) \in Nat /\ Sizes[level + 1] \in Nat \ {0}
            /\ Offset(level + 1) = Offset(level) + Sizes[level + 1]
          BY <3>1, OffsetStep, CodebooksInRange
      <4> QED
          BY <4>1
    <3>3. Base + a \in Codebook(level)
        BY <2>1, <3>2 DEF Codebook
    <3> QED
        BY <2>2, <3>3 DEF LevelTokens
  <2>3. CASE ~(level < Levels)
      BY <2>1, <2>3 DEF LevelTokens, AllTokens
  <2> QED
      BY <2>2, <2>3
<1>3. \A t \in T : logprob[prev][t] \in Int
    BY <1>1, RequestAssumption DEF BuiltFromCatalog
<1>4. \A t, u \in T : t # u => logprob[prev][t] # logprob[prev][u]
    BY <1>1, NoTies DEF BuiltFromCatalog
<1>5. StrictOrderOn(R, T)
  <2>1. \A t, u \in T : <<t, u>> \in R <=> logprob[prev][t] > logprob[prev][u]
      OBVIOUS
  <2> HIDE DEF R, T
  <2> QED
      BY <1>3, <1>4, <2>1 DEF StrictOrderOn
<1>6. Lists(toks, R, T)
  <2>1. \A x \in T : {y \in T : logprob[prev][y] > logprob[prev][x]} = Below(R, T, x)
      BY DEF Below
  <2> DEFINE First(i) == CHOOSE x \in T :
                             Cardinality({y \in T : logprob[prev][y] > logprob[prev][x]}) = i - 1
  <2>a. toks = [i \in 1 .. Cardinality(T) |-> First(i)]
      BY Zenon DEF Sorted
  <2>2. toks = [i \in 1 .. Cardinality(T) |-> toks[i]]
    <3> HIDE DEF First, toks
    <3> QED
        BY <2>a
  <2>3. ASSUME NEW i \in 1 .. Cardinality(T), \E x \in T : Place(R, T, x) = i - 1
        PROVE  toks[i] \in T /\ Place(R, T, toks[i]) = i - 1
    <3> HIDE DEF T, R, toks
    <3>1. \E x \in T : Cardinality({y \in T : logprob[prev][y] > logprob[prev][x]}) = i - 1
        BY <2>1, <2>3 DEF Place
    <3>2. /\ First(i) \in T
          /\ Cardinality({y \in T : logprob[prev][y] > logprob[prev][First(i)]}) = i - 1
        BY <3>1, Zenon
    <3> HIDE DEF First
    <3>3. /\ toks[i] \in T
          /\ Cardinality({y \in T : logprob[prev][y] > logprob[prev][toks[i]]}) = i - 1
        BY <2>a, <3>2
    <3> QED
        BY <2>1, <3>3 DEF Place
  <2> HIDE DEF toks, R, T
  <2> QED
      BY <2>2, <2>3 DEF Lists
<1>7. Enumerates(toks, T)
  <2> HIDE DEF T, R, toks
  <2> QED
      BY <1>1, <1>5, <1>6, OrderEnumerates
<1>8. PICK n \in Nat : n = Cardinality(T) /\ n >= 1
  <2> HIDE DEF T
  <2> QED
      BY <1>1, <1>2, FS_CardinalityType, FS_EmptySet
<1>9. PICK s \in Seq(T) : /\ s = toks /\ Len(s) = n /\ DOMAIN s = 1 .. n
                          /\ \A i, j \in 1 .. n : s[i] = s[j] => i = j
  <2> HIDE DEF T, toks
  <2> QED
      BY <1>7, <1>8 DEF Enumerates
<1>10. PICK m \in Nat : m = Smaller(Candidates, n) /\ m >= 1 /\ m <= n
  <2>1. cfg.bw \in Nat \ {0}
      BY RequestAssumption DEF BuiltFromCatalog
  <2>2. Candidates \in Nat /\ Candidates >= 1
      BY <2>1 DEF Candidates, BW
  <2> QED
      BY <1>8, <2>2 DEF Smaller
<1>11. Pool(prev, level) = SubSeq(s, 1, m)
    BY <1>9, <1>10 DEF Pool
<1>12. \A i \in 1 .. n : s[i] \in AllTokens
  <2>1. \A i \in 1 .. n : s[i] \in T
    <3> HIDE DEF T, toks
    <3>1. \A i \in 1 .. Len(s) : s[i] \in T
        OBVIOUS
    <3> QED
        BY <1>9, <3>1
  <2> QED
      BY <1>1, <2>1
<1> HIDE DEF T, R, toks
<1>13. PICK f \in [1 .. m -> AllTokens] : f = SubSeq(s, 1, m) /\ \A i \in 1 .. m : f[i] = s[i]
  <2>1. SubSeq(s, 1, m) = [i \in 1 .. m |-> s[i]]
      BY <1>9, <1>10
  <2>2. \A i \in 1 .. m : s[i] \in AllTokens
      BY <1>10, <1>12
  <2> QED
      BY <2>1, <2>2
<1>14. f \in Seq(AllTokens) /\ DOMAIN f = 1 .. m /\ Len(f) = m
  <2>1. \A k \in Nat : \A g \in [1 .. k -> AllTokens] :
            g \in Seq(AllTokens) /\ DOMAIN g = 1 .. k /\ Len(g) = k
      OBVIOUS
  <2> QED
      BY <1>10, <1>13, <2>1
<1>15. \A i, j \in 1 .. m : f[i] = f[j] => i = j
    BY <1>9, <1>10, <1>13
<1> QED
    BY <1>10, <1>11, <1>13, <1>14, <1>15

\* A candidate extends its row legally and with the right score, or is dead.
Candidate == [row : Nat, place : Nat, tok : AllTokens, score : Int]
Sound(c, p, cum) ==
    /\ c \in Candidate
    /\ ~Dead(c.score) => /\ ~Dead(cum) /\ Legal(Append(p, c.tok))
                         /\ c.score = PathScore(Append(p, c.tok))

\* The floats' sum of two finite numbers is their sum, unless it is dead itself.
LEMMA PlusFinite ==
    ASSUME NEW a \in Int, NEW b \in Int
    PROVE  Plus(a, b) \in Int /\ (~Dead(Plus(a, b)) => ~Dead(a) /\ ~Dead(b) /\ Plus(a, b) = a + b)
    BY DEF Plus, Dead, NaN, NegInf

\* The candidates of one row.
LEMMA RowCandsSound ==
    ASSUME BuiltFromCatalog, NEW i \in Nat, NEW p \in Seq(AllTokens), NEW cum \in Int,
           ~Dead(cum) => Legal(p) /\ cum = PathScore(p)
    PROVE  LET C == RowCands(i, Preceding(p), cum, NodeOf(p), Len(p)) IN
           /\ IsFiniteSet(C)
           /\ \A c \in C : c.row = i /\ Sound(c, p, cum)
           /\ \A c, d \in C : c.place = d.place \/ c.tok = d.tok => c = d
           /\ \E c \in C : c.place = 1
<1> DEFINE prev == Preceding(p)
           pool == Pool(prev, Len(p))
           cand(j) == [row |-> i, place |-> j, tok |-> pool[j],
                       score |-> IF MaskOk(trie, NodeOf(p), pool[j], Len(p))
                                 THEN Plus(cum, logprob[prev][pool[j]]) ELSE NegInf]
           C == RowCands(i, prev, cum, NodeOf(p), Len(p))
<1>1. prev \in AllTokens \cup {0} /\ Len(p) \in Nat
    BY DEF Preceding, Last
<1>2. PICK n \in Nat : n = Len(pool) /\ n >= 1 /\ DOMAIN pool = 1 .. n
    BY <1>1, PoolMembers
<1>3. /\ \A j \in 1 .. n : pool[j] \in AllTokens
      /\ \A j, k \in 1 .. n : pool[j] = pool[k] => j = k
  <2>1. pool \in Seq(AllTokens) /\ \A j, k \in DOMAIN pool : pool[j] = pool[k] => j = k
    <3> HIDE DEF prev
    <3> QED
        BY <1>1, PoolMembers
  <2> HIDE DEF pool
  <2> QED
      BY <1>2, <2>1
<1>4. C = {cand(j) : j \in 1 .. n}
    BY <1>2 DEF RowCands
<1>5. ASSUME NEW j \in 1 .. n PROVE cand(j).row = i /\ Sound(cand(j), p, cum)
  <2>1. PICK tok \in AllTokens : tok = pool[j]
      BY <1>3
  <2>2. /\ logprob[prev][tok] \in Int
        /\ PathScore(Append(p, tok)) = PathScore(p) + logprob[prev][tok]
      BY ScoreSteps
  <2>3. CASE ~MaskOk(trie, NodeOf(p), tok, Len(p))
    <3>1. cand(j).score = NegInf
        BY <2>1, <2>3
    <3> QED
        BY <1>2, <2>1, <3>1 DEF Sound, Candidate, Dead, NegInf
  <2>4. CASE MaskOk(trie, NodeOf(p), tok, Len(p))
    <3>1. cand(j).score = Plus(cum, logprob[prev][tok])
        BY <2>1, <2>4
    <3>2. Legal(p) => Legal(Append(p, tok))
        BY <2>4, LegalSteps
    <3>3. PICK x \in Int : x = logprob[prev][tok]
        BY <2>2
    <3>4. Plus(cum, x) \in Int /\ (~Dead(Plus(cum, x)) => ~Dead(cum) /\ Plus(cum, x) = cum + x)
        BY PlusFinite
    <3>5. cand(j) = [row |-> i, place |-> j, tok |-> tok, score |-> Plus(cum, x)]
        BY <2>1, <3>1, <3>3
    <3>6. cand(j) \in Candidate
        BY <1>2, <3>4, <3>5 DEF Candidate
    <3>7. cand(j).row = i /\ cand(j).tok = tok /\ cand(j).score = Plus(cum, x)
        BY <3>5
    <3> HIDE DEF cand, prev, pool
    <3> QED
        BY <2>2, <3>2, <3>3, <3>4, <3>6, <3>7 DEF Sound
  <2> QED
      BY <2>3, <2>4
<1>6. IsFiniteSet(C)
  <2>1. [j \in 1 .. n |-> cand(j)] \in Surjection(1 .. n, C)
    <3> HIDE DEF cand, C
    <3> QED
        BY <1>4 DEF Surjection
  <2>2. IsFiniteSet(1 .. n)
      BY <1>2, FS_Interval
  <2> QED
      BY <2>1, <2>2, FS_Surjection
<1>7. ASSUME NEW j \in 1 .. n, NEW k \in 1 .. n, cand(j).place = cand(k).place \/ cand(j).tok = cand(k).tok
      PROVE  j = k
  <2>1. cand(j).place = j /\ cand(k).place = k /\ cand(j).tok = pool[j] /\ cand(k).tok = pool[k]
      OBVIOUS
  <2> QED
      BY <1>3, <1>7, <2>1
<1>8. 1 \in 1 .. n /\ cand(1).place = 1
    BY <1>2
<1> HIDE DEF cand, C
<1> QED
    BY <1>4, <1>5, <1>6, <1>7, <1>8 DEF C, prev

-----------------------------------------------------------------------------
(* Selection. *)

\* No two candidates at one place, and scores that can be compared.
Rankable(T) ==
    /\ IsFiniteSet(T) /\ T \subseteq Candidate
    /\ \A c, d \in T : c.row = d.row /\ c.place = d.place => c = d

\* The order Ranked sorts by.
Outranks(c, d) ==
    \/ c.score > d.score
    \/ c.score = d.score /\ (c.row < d.row \/ (c.row = d.row /\ c.place < d.place))

\* Ranking lists every candidate once.
LEMMA RankedEnumerates ==
    ASSUME NEW T, Rankable(T)
    PROVE  Enumerates(Ranked(T), T)
<1> DEFINE R == {e \in T \X T : Outranks(e[1], e[2])}
           First(i) == CHOOSE x \in T : Cardinality({y \in T : Outranks(y, x)}) = i - 1
<1>1. IsFiniteSet(T)
    BY DEF Rankable
<1>2. StrictOrderOn(R, T)
  <2>1. \A c, d \in T : <<c, d>> \in R <=> Outranks(c, d)
      OBVIOUS
  <2>2. \A c \in T : c.score \in Int /\ c.row \in Int /\ c.place \in Int
      BY DEF Rankable, Candidate
  <2>3. \A c \in T : ~Outranks(c, c)
      BY <2>2 DEF Outranks
  <2>4. \A c, d, e \in T : Outranks(c, d) /\ Outranks(d, e) => Outranks(c, e)
      BY <2>2 DEF Outranks
  <2>5. \A c, d \in T : c # d => Outranks(c, d) \/ Outranks(d, c)
      BY <2>2 DEF Outranks, Rankable
  <2> HIDE DEF R
  <2> QED
      BY <2>1, <2>3, <2>4, <2>5 DEF StrictOrderOn
<1>3. Ranked(T) = [i \in 1 .. Cardinality(T) |-> First(i)]
    BY Zenon DEF Ranked, Sorted, Outranks
<1>4. \A x \in T : {y \in T : Outranks(y, x)} = Below(R, T, x)
    BY DEF Below
<1> HIDE DEF R
<1>5. Lists(Ranked(T), R, T)
  <2>1. Ranked(T) = [i \in 1 .. Cardinality(T) |-> Ranked(T)[i]]
    <3> HIDE DEF First
    <3> QED
        BY <1>3
  <2>2. ASSUME NEW i \in 1 .. Cardinality(T), \E x \in T : Place(R, T, x) = i - 1
        PROVE  Ranked(T)[i] \in T /\ Place(R, T, Ranked(T)[i]) = i - 1
    <3>1. \E x \in T : Cardinality({y \in T : Outranks(y, x)}) = i - 1
        BY <1>4, <2>2 DEF Place
    <3>2. First(i) \in T /\ Cardinality({y \in T : Outranks(y, First(i))}) = i - 1
        BY <3>1, Zenon
    <3> HIDE DEF First
    <3>3. PICK c : c = First(i) /\ c = Ranked(T)[i]
        BY <1>3
    <3>4. c \in T /\ Place(R, T, c) = i - 1
        BY <1>4, <3>2, <3>3 DEF Place
    <3> QED
        BY <3>3, <3>4
  <2> QED
      BY <2>1, <2>2 DEF Lists
<1> QED
    BY <1>1, <1>2, <1>5, OrderEnumerates

\* topk returns k of the candidates.
LEMMA TopTaken ==
    ASSUME NEW C, IsFiniteSet(C), NEW k \in Nat, NEW T \in TopSets(C, Rank, k)
    PROVE  T \subseteq C /\ IsFiniteSet(T) /\ Cardinality(T) = k
<1> DEFINE above == {c \in C : Cardinality({d \in C : Rank(d) >= Rank(c)}) <= k}
           ties == {c \in C \ above : Cardinality({d \in C : Rank(d) > Rank(c)}) < k}
<1>1. PICK U \in kSubset(k - Cardinality(above), ties) : T = above \cup U
    BY DEF TopSets
<1>2. U \in SUBSET ties /\ Cardinality(U) = k - Cardinality(above)
  <2> HIDE DEF above, ties
  <2> QED
      BY DEF kSubset
<1>3. above \subseteq C /\ U \subseteq C /\ above \cap U = {}
    BY <1>2
<1> HIDE DEF above, ties
<1>4. IsFiniteSet(above) /\ IsFiniteSet(U)
    BY <1>3, FS_Subset
<1>5. Cardinality(above) \in Nat /\ Cardinality(U) \in Nat
    BY <1>4, FS_CardinalityType
<1>6. IsFiniteSet(T) /\ Cardinality(T) = Cardinality(above) + Cardinality(U) - Cardinality(above \cap U)
    BY <1>1, <1>4, FS_Union
<1>7. Cardinality(above \cap U) = 0
    BY <1>3, FS_EmptySet
<1> QED
    BY <1>1, <1>2, <1>3, <1>5, <1>6, <1>7

-----------------------------------------------------------------------------
(* The frontier. *)

\* A row's node and score are those of its tokens.
RowOk(b) ==
    /\ b.toks \in Seq(AllTokens) /\ b.toks # <<>> /\ b.cum \in Int
    /\ b.node = NodeOf(b.toks)
    /\ Live(b) => Legal(b.toks) /\ b.cum = PathScore(b.toks)

\* The rows of the frontier and what has ended are sound; all rows have one length.
RowsOk ==
    /\ Len(beams) \in Nat /\ DOMAIN beams = 1 .. Len(beams)
    /\ \A b \in Range(beams) \cup completed : RowOk(b)
    /\ \A b \in Range(beams) : Len(b.toks) = Level

\* The width of a request that ignores EOS, and its KV.
Whole ==
    /\ phase \in {"prefill", "failed"} => beams = <<>>
    /\ phase = "decode" => Len(beams) >= 1
    /\ ~cfg.eos /\ phase \notin {"prefill", "failed"} => Len(beams) = BW
    /\ ~cfg.eos /\ phase = "decode" =>
           /\ DOMAIN kv = DOMAIN beams /\ Len(kv) = Len(beams)
           /\ \A i \in DOMAIN beams : kv[i] = Front(beams[i].toks)

\* The inductive invariant.
Inv == BuiltFromCatalog /\ RowsOk /\ NothingTwice /\ Whole

\* One row of the frontier.
LEMMA FrontierRows ==
    ASSUME RowsOk, NEW i \in DOMAIN beams
    PROVE  RowOk(beams[i]) /\ Len(beams[i].toks) = Level
    BY DEF RowsOk, Range

\* The row a candidate extends is in the frontier.
Extends(c) == c.row \in DOMAIN beams /\ Sound(c, beams[c.row].toks, beams[c.row].cum)

\* What a pool offers: each place and each token of a row once.
Offered(C) ==
    /\ Rankable(C)
    /\ \A c \in C : Extends(c)
    /\ \A c, d \in C : c.row = d.row /\ c.tok = d.tok => c = d

\* What is offered may be thinned.
LEMMA OfferedSubset ==
    ASSUME NEW C, Offered(C), NEW D \in SUBSET C
    PROVE  Offered(D)
<1>1. IsFiniteSet(D)
    BY FS_Subset DEF Offered, Rankable
<1> QED
    BY <1>1 DEF Offered, Rankable

\* The candidates of a decode step, with at least one of the first row.
LEMMA CandsOffered ==
    ASSUME Inv, phase = "decode"
    PROVE  Offered(Cands) /\ \E c \in Cands : c.row = 1 /\ c.place = 1
<1> DEFINE n == Len(beams)
           RowsC(i) == RowCands(i, Last(beams[i].toks), beams[i].cum, beams[i].node, Level)
<1>1. n \in Nat /\ n >= 1 /\ DOMAIN beams = 1 .. n
    BY DEF Inv, RowsOk, Whole
<1>2. Cands = UNION {RowsC(i) : i \in 1 .. n}
    BY <1>1 DEF Cands
<1>3. ASSUME NEW i \in 1 .. n
      PROVE  /\ IsFiniteSet(RowsC(i))
             /\ \A c \in RowsC(i) : c.row = i /\ Sound(c, beams[i].toks, beams[i].cum)
             /\ \A c, d \in RowsC(i) : c.place = d.place \/ c.tok = d.tok => c = d
             /\ \E c \in RowsC(i) : c.place = 1
  <2>1. RowOk(beams[i]) /\ Len(beams[i].toks) = Level /\ i \in Nat
      BY <1>1, FrontierRows DEF Inv
  <2>2. PICK p, cum : p = beams[i].toks /\ cum = beams[i].cum
      OBVIOUS
  <2>3. /\ p \in Seq(AllTokens) /\ p # <<>> /\ cum \in Int /\ beams[i].node = NodeOf(p)
        /\ ~Dead(cum) => Legal(p) /\ cum = PathScore(p)
      BY <2>1, <2>2 DEF RowOk, Live
  <2>4. RowsC(i) = RowCands(i, Preceding(p), cum, NodeOf(p), Len(p))
      BY <2>1, <2>2, <2>3 DEF Preceding
  <2> HIDE DEF RowsC
  <2> QED
      BY <2>1, <2>2, <2>3, <2>4, RowCandsSound DEF Inv
<1> HIDE DEF RowsC, n
<1>4. IsFiniteSet(Cands)
  <2> DEFINE all == {RowsC(i) : i \in 1 .. n}
  <2>1. IsFiniteSet(1 .. n)
      BY <1>1, FS_Interval
  <2>2. [i \in 1 .. n |-> RowsC(i)] \in Surjection(1 .. n, all)
      BY DEF Surjection
  <2>3. IsFiniteSet(all)
      BY <2>1, <2>2, FS_Surjection
  <2>4. \A C \in all : IsFiniteSet(C)
      BY <1>3
  <2> HIDE DEF all
  <2>5. IsFiniteSet(UNION all)
      BY <2>3, <2>4, FS_UNION
  <2> QED
      BY <1>2, <2>5 DEF all
<1>5. \A c \in Cands : c.row \in 1 .. n /\ c \in RowsC(c.row)
    BY <1>2, <1>3
<1>6. \A c \in Cands : c \in Candidate /\ Extends(c)
    BY <1>1, <1>3, <1>5 DEF Extends, Sound
<1>7. \A c, d \in Cands : c.row = d.row /\ (c.place = d.place \/ c.tok = d.tok) => c = d
    BY <1>3, <1>5
<1>8. \E c \in Cands : c.row = 1 /\ c.place = 1
  <2>1. 1 \in 1 .. n
      BY <1>1
  <2>2. PICK c \in RowsC(1) : c.place = 1 /\ c.row = 1
      BY <1>3, <2>1
  <2> QED
      BY <1>2, <2>1, <2>2
<1> QED
    BY <1>4, <1>6, <1>7, <1>8 DEF Offered, Rankable

\* Adding again what was taken off changes no score of a live candidate.
LEMMA RescoreFinite ==
    ASSUME NEW x \in Int, NEW cum \in Int
    PROVE  /\ Plus(cum, Minus(x, cum)) \in Int
           /\ ~Dead(Plus(cum, Minus(x, cum))) => ~Dead(x) /\ Plus(cum, Minus(x, cum)) = x
    BY DEF Plus, Minus, Dead, NaN, NegInf

\* select_final_topk and joint_select are offered the candidates of the others.
LEMMA RescoredOffered ==
    ASSUME Inv, NEW C, Offered(C)
    PROVE  Offered(Rescored(C))
<1> DEFINE re(c) == [c EXCEPT !.score = Plus(beams[c.row].cum, Minus(c.score, beams[c.row].cum))]
<1>1. Rescored(C) = {re(c) : c \in C}
    BY DEF Rescored
<1>2. ASSUME NEW c \in C
      PROVE  /\ re(c) \in Candidate /\ Extends(re(c))
             /\ re(c).row = c.row /\ re(c).place = c.place /\ re(c).tok = c.tok
  <2>1. /\ c \in Candidate /\ c.row \in DOMAIN beams
        /\ ~Dead(c.score) => /\ ~Dead(beams[c.row].cum) /\ Legal(Append(beams[c.row].toks, c.tok))
                             /\ c.score = PathScore(Append(beams[c.row].toks, c.tok))
      BY DEF Offered, Rankable, Extends, Sound
  <2>2. PICK cum \in Int : cum = beams[c.row].cum
      BY <2>1, FrontierRows DEF Inv, RowOk
  <2>3. PICK x : x = Plus(cum, Minus(c.score, cum))
      OBVIOUS
  <2>4. x \in Int /\ (~Dead(x) => ~Dead(c.score) /\ x = c.score)
      BY <2>1, <2>2, <2>3, RescoreFinite DEF Candidate
  <2>5. re(c) = [row |-> c.row, place |-> c.place, tok |-> c.tok, score |-> x]
      BY <2>1, <2>2, <2>3 DEF Candidate
  <2>6. /\ re(c) \in Candidate /\ re(c).row = c.row /\ re(c).place = c.place
        /\ re(c).tok = c.tok /\ re(c).score = x
      BY <2>1, <2>4, <2>5 DEF Candidate
  <2> HIDE DEF re
  <2> QED
      BY <2>1, <2>4, <2>6 DEF Extends, Sound
<1> HIDE DEF re
<1>3. IsFiniteSet(Rescored(C))
  <2>1. [c \in C |-> re(c)] \in Surjection(C, Rescored(C))
      BY <1>1 DEF Surjection
  <2> QED
      BY <2>1, FS_Surjection DEF Offered, Rankable
<1> QED
    BY <1>1, <1>2, <1>3 DEF Offered, Rankable

-----------------------------------------------------------------------------
(* The next frontier. *)

\* What a request's rows mean depends on nothing that changes.
LEMMA MeaningsKept ==
    ASSUME request' = request, NEW p
    PROVE  /\ NodeOf(p)' = NodeOf(p) /\ (Legal(p)' <=> Legal(p))
           /\ PathScore(p)' = PathScore(p)
<1> DEFINE Scores(f) == [i \in DOMAIN p |-> f[IF i = 1 THEN 0 ELSE p[i - 1]][p[i]]]
<1>1. catalog' = catalog /\ logprob' = logprob /\ cfg' = cfg /\ trie' = trie
    BY DEF request
<1>2. Items' = Items
    BY <1>1 DEF Items
<1>3. Constrained' <=> Constrained
    BY <1>1 DEF Constrained
<1>4. Legal(p)' <=> Legal(p)
    BY <1>2, <1>3 DEF Legal
<1>5. NodeOf(p)' = NodeOf(p)
    BY <1>1, <1>2, <1>3, <1>4 DEF NodeOf
<1>6. PathScore(p) = Summed(Scores(logprob)) /\ PathScore(p)' = Summed(Scores(logprob'))
    BY DEF PathScore, Summed, FoldLeft, MapThenFoldSet
<1> HIDE DEF Scores
<1> QED
    BY <1>1, <1>4, <1>5, <1>6

\* A sound row stays sound while the request is the same.
LEMMA RowsKept ==
    ASSUME request' = request, NEW b, RowOk(b)
    PROVE  RowOk(b)'
<1>1. PICK p : p = b.toks
    OBVIOUS
<1>2. NodeOf(p)' = NodeOf(p) /\ (Legal(p)' <=> Legal(p)) /\ PathScore(p)' = PathScore(p)
    BY MeaningsKept
<1> QED
    BY <1>1, <1>2 DEF RowOk, Live

\* The row a candidate makes.
LEMMA ExtendOk ==
    ASSUME Inv, NEW c, Extends(c)
    PROVE  /\ RowOk(Extend(c)) /\ Len(Extend(c).toks) = Level + 1
           /\ Extend(c).toks = Append(beams[c.row].toks, c.tok) /\ Extend(c).cum = c.score
           /\ Front(Extend(c).toks) = beams[c.row].toks
<1>1. PICK p, tok : p = beams[c.row].toks /\ tok = c.tok
    OBVIOUS
<1>2. /\ p \in Seq(AllTokens) /\ Len(p) = Level /\ beams[c.row].node = NodeOf(p)
      /\ tok \in AllTokens /\ c.score \in Int
      /\ ~Dead(c.score) => Legal(Append(p, tok)) /\ c.score = PathScore(Append(p, tok))
    BY <1>1, FrontierRows DEF Inv, RowOk, Extends, Sound, Candidate
<1>3. Transition(trie, NodeOf(p), tok) = NodeOf(Append(p, tok))
    BY <1>2, NodeSteps DEF Inv
<1>4. /\ Append(p, tok) \in Seq(AllTokens) /\ Append(p, tok) # <<>>
      /\ Len(Append(p, tok)) = Len(p) + 1
  <2>1. PICK q : q = Append(p, tok)
      OBVIOUS
  <2>2. q \in Seq(AllTokens) /\ Len(q) = Len(p) + 1 /\ Len(p) \in Nat
      BY <1>2, <2>1
  <2>3. q # <<>>
      BY <2>2
  <2> QED
      BY <2>1, <2>2, <2>3
<1>5. Front(Append(p, tok)) = p
  <2>1. SubSeq(Append(p, tok), 1, Len(p)) = p
      BY <1>2
  <2> QED
      BY <1>2, <1>4, <2>1 DEF Front
<1>6. /\ Extend(c).toks = Append(p, tok) /\ Extend(c).cum = c.score
      /\ Extend(c).node = NodeOf(Append(p, tok))
    BY <1>1, <1>2, <1>3 DEF Extend
<1> QED
    BY <1>1, <1>2, <1>4, <1>5, <1>6 DEF RowOk, Live

\* m candidates, of which no two live ones extend one row with one token.
Chosen(chosen, m) ==
    /\ DOMAIN chosen = 1 .. m
    /\ \A i \in 1 .. m : Extends(chosen[i])
    /\ \A i, j \in 1 .. m :
           /\ i # j /\ ~Dead(chosen[i].score) /\ ~Dead(chosen[j].score)
           => chosen[i].row # chosen[j].row \/ chosen[i].tok # chosen[j].tok

\* A ranked selection of what is offered is one.
LEMMA RankedChosen ==
    ASSUME Inv, NEW C, Offered(C), NEW T \in SUBSET C, NEW m \in Nat, m = Cardinality(T)
    PROVE  Chosen(Ranked(T), m)
<1>1. Offered(T)
    BY OfferedSubset
<1>2. Enumerates(Ranked(T), T)
    BY <1>1, RankedEnumerates DEF Offered
<1>3. DOMAIN Ranked(T) = 1 .. m /\ \A i \in 1 .. m : Ranked(T)[i] \in T
  <2>1. Ranked(T) \in Seq(T) /\ DOMAIN Ranked(T) = 1 .. m /\ Len(Ranked(T)) = m
      BY <1>2 DEF Enumerates
  <2>2. \A s \in Seq(T) : \A i \in 1 .. Len(s) : s[i] \in T
      OBVIOUS
  <2> QED
      BY <2>1, <2>2
<1> QED
    BY <1>1, <1>2, <1>3 DEF Offered, Chosen, Enumerates

\* What the next step reads: the rows of the chosen candidates, with their nodes,
\* scores and KV.
LEMMA ApplySound ==
    ASSUME Inv, phase = "decode", NEW chosen, NEW m \in Nat, m >= 1, Chosen(chosen, m),
           NEW last \in BOOLEAN, Apply(chosen, last), request' = request,
           ~cfg.eos => m = BW,
           phase' \in {"decode", "finished"}, phase' = "decode" => ~last,
           \A b \in completed' : RowOk(b)
    PROVE  Inv'
<1>1. catalog' = catalog /\ logprob' = logprob /\ cfg' = cfg /\ trie' = trie
    BY DEF request
<1>2. BuiltFromCatalog'
    BY <1>1 DEF Inv, BuiltFromCatalog
<1>3. /\ beams' = [i \in 1 .. m |-> Extend(chosen[i])]
      /\ DOMAIN beams' = 1 .. m /\ Len(beams') = m
      /\ \A i \in 1 .. m : beams'[i] = Extend(chosen[i])
  <2>1. beams' = [i \in 1 .. m |-> Extend(chosen[i])]
      BY DEF Apply, Chosen
  <2> QED
      BY <2>1
<1>4. ASSUME NEW i \in 1 .. m
      PROVE  /\ \A b : b = beams'[i] => RowOk(b)'
             /\ Len(beams'[i].toks) = Level + 1
             /\ beams'[i].toks = Append(beams[chosen[i].row].toks, chosen[i].tok)
             /\ beams'[i].cum = chosen[i].score
             /\ Front(beams'[i].toks) = beams[chosen[i].row].toks
  <2>1. Extends(chosen[i])
      BY DEF Chosen
  <2>2. PICK b : b = Extend(chosen[i]) /\ RowOk(b)
      BY <2>1, ExtendOk
  <2>3. RowOk(b)'
      BY <2>2, RowsKept
  <2>4. beams'[i] = b
      BY <1>3, <2>2
  <2>5. \A r : r = beams'[i] => RowOk(r)'
      BY <2>3, <2>4
  <2> QED
      BY <2>1, <2>2, <2>4, <2>5, ExtendOk
<1>5. Level' = Level + 1
  <2>1. 1 \in 1 .. m
      OBVIOUS
  <2> QED
      BY <1>4, <2>1 DEF Level
<1>6. \A b \in completed' : RowOk(b)'
    BY RowsKept
<1>7. RowsOk'
  <2>1. \A b \in Range(beams') : RowOk(b)' /\ Len(b.toks) = Level'
    <3> TAKE b \in Range(beams')
    <3>1. PICK i \in 1 .. m : b = beams'[i]
        BY <1>3 DEF Range
    <3> QED
        BY <1>4, <1>5, <3>1
  <2> QED
      BY <1>3, <1>6, <2>1 DEF RowsOk
<1>8. NothingTwice'
  <2> SUFFICES ASSUME NEW i \in 1 .. m, NEW j \in 1 .. m, i # j,
                      ~Dead(beams'[i].cum), ~Dead(beams'[j].cum), beams'[i].toks = beams'[j].toks
               PROVE  FALSE
      BY <1>3 DEF NothingTwice, Live
  <2>1. PICK c, d : c = chosen[i] /\ d = chosen[j]
      OBVIOUS
  <2>2. /\ Extends(c) /\ Extends(d) /\ ~Dead(c.score) /\ ~Dead(d.score)
        /\ c.row # d.row \/ c.tok # d.tok
        /\ Append(beams[c.row].toks, c.tok) = Append(beams[d.row].toks, d.tok)
      BY <1>4, <2>1 DEF Chosen
  <2>3. /\ c.row \in DOMAIN beams /\ d.row \in DOMAIN beams
        /\ Live(beams[c.row]) /\ Live(beams[d.row])
        /\ beams[c.row].toks \in Seq(AllTokens) /\ beams[d.row].toks \in Seq(AllTokens)
        /\ c.tok \in AllTokens /\ d.tok \in AllTokens
      BY <2>2, FrontierRows DEF Extends, Sound, Candidate, Live, Inv, RowOk
  <2>4. \A p, q \in Seq(AllTokens), t, u \in AllTokens : Append(p, t) = Append(q, u) => t = u
    <3> TAKE p, q \in Seq(AllTokens), t, u \in AllTokens
    <3>1. Len(Append(p, t)) = Len(p) + 1 /\ Append(p, t)[Len(p) + 1] = t
        OBVIOUS
    <3>2. Len(Append(q, u)) = Len(q) + 1 /\ Append(q, u)[Len(q) + 1] = u
        OBVIOUS
    <3>3. Len(p) \in Nat /\ Len(q) \in Nat
        OBVIOUS
    <3> QED
        BY <3>1, <3>2, <3>3
  <2>5. beams[c.row].toks = beams[d.row].toks
      BY <1>4, <2>1, <2>2
  <2>6. c.tok = d.tok
      BY <2>2, <2>3, <2>4
  <2> QED
      BY <2>2, <2>3, <2>5, <2>6 DEF Inv, NothingTwice
<1>9. ASSUME ~cfg.eos, phase' = "decode"
      PROVE  /\ DOMAIN kv' = 1 .. m /\ Len(kv') = m
             /\ \A i \in 1 .. m : kv'[i] = Front(beams'[i].toks)
  <2>1. /\ Len(beams) = m /\ DOMAIN beams = 1 .. m /\ DOMAIN kv = 1 .. m /\ Len(kv) = m
        /\ \A i \in 1 .. m : kv[i] = Front(beams[i].toks)
      BY <1>9 DEF Inv, RowsOk, Whole
  <2>2. ASSUME NEW i \in 1 .. m PROVE Append(kv[i], Last(beams[i].toks)) = beams[i].toks
    <3>1. beams[i].toks \in Seq(AllTokens) /\ beams[i].toks # <<>>
        BY <2>1, FrontierRows DEF Inv, RowOk
    <3>2. \A s \in Seq(AllTokens) : s # <<>> => Append(SubSeq(s, 1, Len(s) - 1), s[Len(s)]) = s
        OBVIOUS
    <3> QED
        BY <2>1, <3>1, <3>2 DEF Front, Last
  <2>3. Forwarded = [i \in 1 .. m |-> beams[i].toks]
      BY <2>1, <2>2 DEF Forwarded
  <2> DEFINE parents == [i \in 1 .. m |-> chosen[i].row]
  <2>4. kv' = Remapped(parents) /\ Len(parents) = m
      BY <1>9 DEF Apply, Chosen
  <2>5. kv' = [i \in 1 .. m |-> Forwarded[chosen[i].row]]
      BY <2>1, <2>4 DEF Remapped
  <2>6. \A i \in 1 .. m : chosen[i].row \in 1 .. m
      BY <2>1 DEF Chosen, Extends
  <2>7. \A i \in 1 .. m : kv'[i] = beams[chosen[i].row].toks
      BY <2>3, <2>5, <2>6
  <2> QED
      BY <1>4, <2>5, <2>7
<1>10. Whole'
  <2>1. BW' = BW
      BY <1>1 DEF BW
  <2> QED
      BY <1>1, <1>3, <1>9, <2>1 DEF Whole
<1> QED
    BY <1>2, <1>7, <1>8, <1>10 DEF Inv

-----------------------------------------------------------------------------
(* The steps. *)

\* The first beams: the candidates of the prompt's row.
LEMMA PrefillSound ==
    ASSUME Inv, Prefill
    PROVE  Inv'
<1> DEFINE C == RowCands(1, 0, 0, 0, 0)
           Beam(c) == [toks |-> <<c.tok>>, cum |-> c.score, node |-> Resolved(trie, <<c.tok>>)]
<1>1. /\ phase = "prefill" /\ request' = request /\ completed' = completed
      /\ phase' \in {"decode", "finished"} /\ kv' = [i \in 1 .. BW |-> <<>>]
      /\ beams' \in FirstBeams /\ beams = <<>>
    BY DEF Prefill, Inv, Whole
<1>2. catalog' = catalog /\ logprob' = logprob /\ cfg' = cfg /\ trie' = trie
    BY <1>1 DEF request
<1>3. PICK n \in Nat : n = BW /\ n >= 1
    BY RequestAssumption DEF Inv, BuiltFromCatalog, BW
<1>4. /\ IsFiniteSet(C)
      /\ \A c \in C : c.row = 1 /\ Sound(c, <<>>, 0)
      /\ \A c, d \in C : c.place = d.place \/ c.tok = d.tok => c = d
  <2>1. NodeOf(<<>>) = 0 /\ Legal(<<>>) /\ PathScore(<<>>) = 0
      BY RootFirst, ScoreSteps DEF Inv
  <2>2. <<>> \in Seq(AllTokens) /\ Len(<<>>) = 0 /\ Preceding(<<>>) = 0 /\ 1 \in Nat /\ 0 \in Int
      BY DEF Preceding
  <2>3. PICK p, i, cum : p = <<>> /\ i = 1 /\ cum = 0
      OBVIOUS
  <2>4. /\ i \in Nat /\ p \in Seq(AllTokens) /\ cum \in Int
        /\ ~Dead(cum) => Legal(p) /\ cum = PathScore(p)
      BY <2>1, <2>2, <2>3
  <2>5. C = RowCands(i, Preceding(p), cum, NodeOf(p), Len(p))
      BY <2>1, <2>2, <2>3
  <2> HIDE DEF C
  <2>6. /\ IsFiniteSet(C)
        /\ \A c \in C : c.row = i /\ Sound(c, p, cum)
        /\ \A c, d \in C : c.place = d.place \/ c.tok = d.tok => c = d
      BY <2>4, <2>5, RowCandsSound DEF Inv
  <2> QED
      BY <2>3, <2>6
<1>5. PICK T \in TopSets(C, Rank, n) : beams' = [i \in 1 .. n |-> Beam(Ranked(T)[i])]
    BY <1>1, <1>3 DEF FirstBeams
<1> HIDE DEF C, Beam
<1>6. T \in SUBSET C /\ IsFiniteSet(T) /\ Cardinality(T) = n
    BY <1>4, <1>5, TopTaken
<1>7. Rankable(T)
    BY <1>4, <1>6 DEF Rankable, Sound
<1>8. PICK best : best = Ranked(T) /\ Enumerates(best, T)
    BY <1>7, RankedEnumerates
<1>9. /\ \A i \in 1 .. n : best[i] \in T
      /\ \A i, j \in 1 .. n : best[i] = best[j] => i = j
  <2>1. best \in Seq(T) /\ DOMAIN best = 1 .. n /\ Len(best) = n
      BY <1>6, <1>8 DEF Enumerates
  <2>2. \A s \in Seq(T) : \A i \in 1 .. Len(s) : s[i] \in T
      OBVIOUS
  <2> QED
      BY <1>8, <2>1, <2>2 DEF Enumerates
<1>10. /\ DOMAIN beams' = 1 .. n /\ Len(beams') = n
       /\ \A i \in 1 .. n : beams'[i] = Beam(best[i])
    BY <1>5, <1>8
<1>11. ASSUME NEW i \in 1 .. n
       PROVE  /\ \A b : b = beams'[i] => RowOk(b)'
              /\ beams'[i].toks = <<best[i].tok>> /\ beams'[i].cum = best[i].score
              /\ Len(beams'[i].toks) = 1 /\ Front(beams'[i].toks) = <<>>
  <2>1. PICK c \in T : c = best[i]
      BY <1>9
  <2>2. /\ c \in Candidate
        /\ ~Dead(c.score) => Legal(Append(<<>>, c.tok)) /\ c.score = PathScore(Append(<<>>, c.tok))
      BY <1>4, <1>6 DEF Sound
  <2>3. PICK tok \in AllTokens : tok = c.tok
      BY <2>2 DEF Candidate
  <2>4. /\ Append(<<>>, tok) = <<tok>> /\ <<tok>> \in Seq(AllTokens) /\ <<tok>> # <<>>
        /\ <<>> \in Seq(AllTokens) /\ Len(<<tok>>) = 1
      OBVIOUS
  <2>5. Resolved(trie, <<tok>>) = NodeOf(<<tok>>)
    <3>1. Resolved(trie, <<tok>>) = Transition(trie, NodeOf(<<>>), tok)
        BY FirstWalk, RootFirst DEF Inv
    <3> QED
        BY <2>4, <3>1, NodeSteps DEF Inv
  <2>6. PICK b : b = Beam(c)
      OBVIOUS
  <2>7. b.toks = <<tok>> /\ b.cum = c.score /\ b.node = NodeOf(<<tok>>)
      BY <2>3, <2>5, <2>6 DEF Beam
  <2>8. RowOk(b)
      BY <2>2, <2>3, <2>4, <2>7 DEF RowOk, Live, Candidate
  <2>9. RowOk(b)'
      BY <1>1, <2>8, RowsKept
  <2>10. beams'[i] = b
      BY <1>10, <2>1, <2>6
  <2>11. Front(<<tok>>) = <<>>
    <3>1. SubSeq(<<tok>>, 1, 0) = <<>>
        OBVIOUS
    <3> QED
        BY <2>4, <3>1 DEF Front
  <2> QED
      BY <2>1, <2>3, <2>4, <2>7, <2>9, <2>10, <2>11
<1>12. Level' = 1
  <2>1. 1 \in 1 .. n
      BY <1>3
  <2> QED
      BY <1>11, <2>1 DEF Level
<1>13. RowsOk'
  <2>1. \A b \in Range(beams') : RowOk(b)' /\ Len(b.toks) = Level'
    <3> TAKE b \in Range(beams')
    <3>1. PICK i \in 1 .. n : b = beams'[i]
        BY <1>10 DEF Range
    <3> QED
        BY <1>11, <1>12, <3>1
  <2>2. \A b \in completed' : RowOk(b)'
      BY <1>1, RowsKept DEF Inv, RowsOk
  <2> QED
      BY <1>10, <2>1, <2>2 DEF RowsOk
<1>14. NothingTwice'
  <2> SUFFICES ASSUME NEW i \in 1 .. n, NEW j \in 1 .. n, i # j PROVE beams'[i].toks # beams'[j].toks
      BY <1>10 DEF NothingTwice
  <2>1. best[i] # best[j] /\ best[i] \in C /\ best[j] \in C
      BY <1>6, <1>9
  <2>2. best[i].tok # best[j].tok
      BY <1>4, <2>1
  <2>3. \A t, u : <<t>> = <<u>> => t = u
      OBVIOUS
  <2> QED
      BY <1>11, <2>2, <2>3
<1>15. Whole'
  <2>1. /\ DOMAIN kv' = 1 .. n /\ Len(kv') = n /\ \A i \in 1 .. n : kv'[i] = <<>>
      BY <1>1, <1>3
  <2>2. BW' = BW
      BY <1>2 DEF BW
  <2> QED
      BY <1>1, <1>2, <1>3, <1>10, <1>11, <2>1, <2>2 DEF Whole
<1>16. BuiltFromCatalog'
    BY <1>2 DEF Inv, BuiltFromCatalog
<1> QED
    BY <1>13, <1>14, <1>15, <1>16 DEF Inv

\* The best of what is offered become the frontier.
LEMMA KeepBestSound ==
    ASSUME Inv, phase = "decode", NEW C, Offered(C), KeepBest(C),
           request' = request, completed' = completed,
           phase' = IF WillFinish THEN "finished" ELSE "decode"
    PROVE  Inv'
<1>1. PICK m \in Nat : m = BW /\ m >= 1
    BY RequestAssumption DEF Inv, BuiltFromCatalog, BW
<1>2. PICK T \in TopSets(C, Rank, m) : Apply(Ranked(T), WillFinish)
    BY <1>1 DEF KeepBest
<1>3. T \in SUBSET C /\ Cardinality(T) = m
    BY <1>1, <1>2, TopTaken DEF Offered, Rankable
<1>4. Chosen(Ranked(T), m)
    BY <1>3, RankedChosen
<1>5. WillFinish \in BOOLEAN
    BY DEF WillFinish
<1>6. \A b \in completed' : RowOk(b)
    BY DEF Inv, RowsOk
<1> QED
    BY <1>1, <1>2, <1>4, <1>5, <1>6, ApplySound

\* The CUDA kernel: the survivors of the mask, and dead copies of a first candidate.
LEMMA KernelSound ==
    ASSUME Inv, ExpandKernel
    PROVE  Inv'
<1>1. /\ phase = "decode" /\ request' = request /\ completed' = completed
      /\ phase' = IF WillFinish THEN "finished" ELSE "decode"
    BY Zenon DEF ExpandKernel
<1>2. PICK m \in Nat : m = BW /\ m >= 1
    BY RequestAssumption DEF Inv, BuiltFromCatalog, BW
<1>3. Offered(Cands) /\ \E c \in Cands : c.row = 1 /\ c.place = 1
    BY <1>1, CandsOffered
<1> DEFINE live == {c \in Cands : c.score # NegInf}
           n == Smaller(BW, Cardinality(live))
           first == CHOOSE c \in Cands : c.row = 1 /\ c.place = 1
           dead == [first EXCEPT !.score = NegInf]
           fill(T) == [i \in 1 .. BW |-> IF i <= n THEN Ranked(T)[i] ELSE dead]
<1>4. PICK T \in TopSets(live, Rank, n) : Apply(fill(T), WillFinish)
    BY Zenon DEF ExpandKernel
<1>5. Offered(live) /\ live \in SUBSET Cands
    BY <1>3, OfferedSubset
<1>6. n \in Nat /\ n <= m
  <2>1. Cardinality(live) \in Nat
      BY <1>5, FS_CardinalityType DEF Offered, Rankable
  <2> HIDE DEF live
  <2> QED
      BY <1>2, <2>1 DEF Smaller
<1>7. Extends(dead) /\ Dead(dead.score)
  <2>1. first \in Cands
      BY <1>3
  <2>2. first \in Candidate /\ Extends(first)
      BY <1>3, <2>1 DEF Offered, Rankable
  <2> HIDE DEF first
  <2>3. /\ dead \in Candidate /\ dead.row = first.row /\ dead.score = NegInf
      BY <2>2 DEF Candidate, NegInf
  <2> QED
      BY <2>2, <2>3 DEF Extends, Sound, Dead
<1> HIDE DEF live, n, first, dead
<1>8. T \in SUBSET live /\ Cardinality(T) = n
    BY <1>4, <1>5, <1>6, TopTaken DEF Offered, Rankable
<1>9. PICK best : best = Ranked(T) /\ Chosen(best, n)
    BY <1>5, <1>6, <1>8, RankedChosen
<1>10. PICK chosen : chosen = fill(T) /\ Apply(chosen, WillFinish)
    BY <1>4
<1>11. /\ DOMAIN chosen = 1 .. m
       /\ \A i \in 1 .. m : \/ i \in 1 .. n /\ chosen[i] = best[i]
                            \/ i \notin 1 .. n /\ chosen[i] = dead
    BY <1>2, <1>6, <1>9, <1>10
<1>12. Chosen(chosen, m)
    BY <1>7, <1>9, <1>11 DEF Chosen
<1>13. WillFinish \in BOOLEAN
    BY DEF WillFinish
<1>14. \A b \in completed' : RowOk(b)
    BY <1>1 DEF Inv, RowsOk
<1> QED
    BY <1>1, <1>2, <1>10, <1>12, <1>13, <1>14, ApplySound

\* With stop tokens: what ends is as sound as what goes on.
LEMMA JointSound ==
    ASSUME Inv, ExpandJoint
    PROVE  Inv'
<1>1. /\ phase = "decode" /\ request' = request /\ cfg.eos
    BY DEF ExpandJoint, Joint
<1>2. catalog' = catalog /\ logprob' = logprob /\ cfg' = cfg /\ trie' = trie
    BY <1>1 DEF request
<1> DEFINE C == Rescored(Cands)
           k == Len(Pool(Last(beams[1].toks), Level))
           IsStop(c) == c.tok \in StopTokens
           Ahead(ranked, i) == {j \in 1 .. i - 1 : ~IsStop(ranked[j])}
           examined(ranked) == {i \in DOMAIN ranked : Cardinality(Ahead(ranked, i)) < BW}
           ended(ranked) == {ranked[i] : i \in {j \in examined(ranked) : IsStop(ranked[j])}}
           survivors(ranked) == {ranked[i] : i \in {j \in examined(ranked) : ~IsStop(ranked[j])}}
<1>3. Offered(C)
    BY <1>1, CandsOffered, RescoredOffered
<1>4. k \in Nat
  <2>1. Len(beams) >= 1 /\ DOMAIN beams = 1 .. Len(beams) /\ Len(beams) \in Nat
      BY <1>1 DEF Inv, Whole, RowsOk
  <2>2. RowOk(beams[1]) /\ Len(beams[1].toks) = Level
      BY <2>1, FrontierRows DEF Inv
  <2>3. Last(beams[1].toks) \in AllTokens \cup {0} /\ Level \in Nat
      BY <2>2 DEF RowOk, Last
  <2>4. Len(Pool(Last(beams[1].toks), Level)) \in Nat
      BY <2>3, PoolMembers DEF Inv
  <2> QED
      BY <2>4
<1>5. PICK T \in TopSets(C, Rank, k) :
        LET ranked == Ranked(T) IN
        /\ completed' = completed \cup {Extend(c) : c \in ended(ranked)}
        /\ IF survivors(ranked) = {} THEN beams' = beams /\ kv' = Forwarded
           ELSE Apply(Ranked(survivors(ranked)), FALSE)
        /\ phase' = IF survivors(ranked) = {} THEN "finished" ELSE "decode"
    BY DEF ExpandJoint
<1> HIDE DEF C, k
<1>6. T \in SUBSET C /\ IsFiniteSet(T)
    BY <1>3, <1>4, <1>5, TopTaken DEF Offered, Rankable
<1>7. PICK ranked : ranked = Ranked(T) /\ Enumerates(ranked, T)
    BY <1>3, <1>6, OfferedSubset, RankedEnumerates DEF Offered
<1>8. \A i \in DOMAIN ranked : ranked[i] \in T
  <2>1. ranked \in Seq(T)
      BY <1>7 DEF Enumerates
  <2> QED
      BY <2>1
<1>9. ended(ranked) \in SUBSET T /\ survivors(ranked) \in SUBSET T
    BY <1>8
<1>10. \A b \in completed' : RowOk(b)
  <2>1. \A c \in ended(ranked) : Extends(c)
      BY <1>3, <1>6, <1>9 DEF Offered
  <2>2. completed' = completed \cup {Extend(c) : c \in ended(ranked)}
      BY <1>5, <1>7
  <2> HIDE DEF ended
  <2> QED
      BY <2>1, <2>2, ExtendOk DEF Inv, RowsOk
<1>11. CASE survivors(ranked) = {}
  <2>1. beams' = beams /\ phase' = "finished"
      BY <1>5, <1>7, <1>11
  <2>2. \A b \in Range(beams') \cup completed' : RowOk(b)'
      BY <1>1, <1>10, <2>1, RowsKept DEF Inv, RowsOk
  <2>3. RowsOk' /\ NothingTwice'
      BY <2>1, <2>2 DEF Inv, RowsOk, NothingTwice, Level, Live
  <2>4. Whole'
      BY <1>1, <1>2, <2>1 DEF Whole
  <2>5. BuiltFromCatalog'
      BY <1>2 DEF Inv, BuiltFromCatalog
  <2> QED
      BY <2>3, <2>4, <2>5 DEF Inv
<1>12. CASE survivors(ranked) # {}
  <2>1. Apply(Ranked(survivors(ranked)), FALSE) /\ phase' = "decode"
      BY <1>5, <1>7, <1>12
  <2> HIDE DEF survivors
  <2>2. PICK S \in SUBSET C : S = survivors(ranked) /\ S # {}
      BY <1>6, <1>9, <1>12
  <2>3. IsFiniteSet(S)
      BY <1>6, <1>9, <2>2, FS_Subset
  <2>4. Cardinality(S) \in Nat /\ Cardinality(S) # 0
      BY <2>2, <2>3, FS_CardinalityType, FS_EmptySet
  <2>5. PICK m \in Nat : m = Cardinality(S) /\ m >= 1
      BY <2>4
  <2>6. Chosen(Ranked(S), m)
      BY <1>3, <2>2, <2>5, RankedChosen
  <2>7. Apply(Ranked(S), FALSE)
      BY <2>1, <2>2
  <2> QED
      BY <1>1, <1>10, <2>1, <2>5, <2>6, <2>7, ApplySound
<1> QED
    BY <1>11, <1>12

\* Steps that leave the rows alone.
LEMMA RowsUntouched ==
    ASSUME Inv, request' = request, beams' = beams, kv' = kv, completed' = completed,
           \/ phase' = phase
           \/ phase = "prefill" /\ phase' = "failed"
           \/ phase = "finished" /\ phase' = "answered"
    PROVE  Inv'
<1>1. catalog' = catalog /\ logprob' = logprob /\ cfg' = cfg /\ trie' = trie
    BY DEF request
<1>2. \A b \in Range(beams') \cup completed' : RowOk(b)'
    BY RowsKept DEF Inv, RowsOk
<1>3. RowsOk' /\ NothingTwice'
    BY <1>2 DEF Inv, RowsOk, NothingTwice, Level, Live
<1>4. BW' = BW
    BY <1>1 DEF BW
<1>5. Whole'
    BY <1>1, <1>4 DEF Inv, Whole
<1>6. BuiltFromCatalog'
    BY <1>1 DEF Inv, BuiltFromCatalog
<1> QED
    BY <1>3, <1>5, <1>6 DEF Inv

\* No row before the prefill.
LEMMA InitSound == Init => Inv
<1> SUFFICES ASSUME Init PROVE Inv
    OBVIOUS
<1>1. beams = <<>> /\ completed = {} /\ phase = "prefill" /\ BuiltFromCatalog
    BY InitBuilds DEF Init
<1>2. DOMAIN <<>> = {} /\ Len(<<>>) = 0
    OBVIOUS
<1>3. RowsOk /\ NothingTwice
    BY <1>1, <1>2 DEF RowsOk, NothingTwice, Range
<1> QED
    BY <1>1, <1>3 DEF Inv, Whole

\* Every step of a request keeps the invariant.
LEMMA StepSound == Inv /\ [Next]_vars => Inv'
<1> SUFFICES ASSUME Inv, [Next]_vars PROVE Inv'
    OBVIOUS
<1>1. CASE Prefill
    BY <1>1, PrefillSound
<1>2. CASE PrefillFails
    BY <1>2, RowsUntouched DEF PrefillFails
<1>3. CASE ExpandKernel
    BY <1>3, KernelSound
<1>4. CASE ExpandTopk
    BY <1>4, CandsOffered, KeepBestSound DEF ExpandTopk
<1>5. CASE ExpandLast
  <2>1. phase = "decode" /\ Offered(Rescored(Cands)) /\ KeepBest(Rescored(Cands)) /\ WillFinish
      BY <1>5, CandsOffered, RescoredOffered DEF ExpandLast
  <2> QED
      BY <1>5, <2>1, KeepBestSound DEF ExpandLast
<1>6. CASE ExpandJoint
    BY <1>6, JointSound
<1>7. CASE Finalize
    BY <1>7, RowsUntouched DEF Finalize
<1>8. CASE UNCHANGED vars
    BY <1>8, RowsUntouched DEF vars, request
<1> QED
    BY <1>1, <1>2, <1>3, <1>4, <1>5, <1>6, <1>7, <1>8 DEF Next

\* The invariant says what the runs check.
LEMMA InvMeans ==
    Inv => NodesFollow /\ LiveAreSound /\ NothingTwice
           /\ (~cfg.eos => RowsFollowTokens /\ FrontierSound)
<1> SUFFICES ASSUME Inv
             PROVE  NodesFollow /\ LiveAreSound /\ NothingTwice
                    /\ (~cfg.eos => RowsFollowTokens /\ FrontierSound)
    OBVIOUS
<1>1. NodesFollow
    BY FrontierRows DEF Inv, NodesFollow, RowOk
<1>2. LiveAreSound
    BY DEF Inv, RowsOk, RowOk, LiveAreSound
<1>3. ~cfg.eos => KVFollows /\ WidthKept
    BY DEF Inv, Whole, KVFollows, WidthKept
<1> QED
    BY <1>1, <1>2, <1>3 DEF Inv, RowsFollowTokens, FrontierSound

\* Every request, whatever its stop tokens and its noise: each row's trie node is the
\* one its tokens lead to, a beam that can win is a prefix of an item and has the
\* score of its tokens, and no item is found twice.  Rows, scores and nodes are
\* gathered separately, by the kernel or by expand_token_ids and advance_node_ids.
THEOREM RowsAlwaysSound == Spec => [](NodesFollow /\ LiveAreSound /\ NothingTwice)
    BY InitSound, StepSound, InvMeans, PTL DEF Spec

\* Requests that ignore EOS, the only ones the scheduler makes (scheduler.py:560): what
\* is gathered by parent, node ids and KV rows, is that of the row's tokens.  With
\* stop tokens fewer rows than before may survive, and then remap_by_parents leaves
\* the KV where it was (kv_remap.py:54).
THEOREM ServedRowsFollow == Spec => [](~cfg.eos => RowsFollowTokens)
    BY InitSound, StepSound, InvMeans, PTL DEF Spec

\* Requests that ignore EOS: the frontier holds legal beams with their scores, no item
\* twice, and is as wide after every expand (the kernel, topk and select_final_topk) as
\* the request asks, whatever the catalog leaves.
THEOREM ServedFrontierSound == Spec => [](~cfg.eos => FrontierSound)
    BY InitSound, StepSound, InvMeans, PTL DEF Spec
=============================================================================
