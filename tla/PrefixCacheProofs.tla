-------------------------- MODULE PrefixCacheProofs --------------------------
(***************************************************************************)
(* The prefix cache keeps its invariants, and implements LRUCache, for any *)
(* prompts, clients, slots and clock bound.                                *)
(***************************************************************************)
EXTENDS PrefixCache, SharedLemmas

USE DEF Idle

\* The paths of the model are token paths, closed under prefixes, and finitely
\* many.
LEMMA PathsFacts ==
    /\ Paths \subseteq Path
    /\ \A p \in Prompts : p \in Path /\ p \in Paths
    /\ \A p \in Paths : PathNodes(p) \subseteq Paths
    /\ IsFiniteSet(Paths)
<1>1. \A p \in Prompts : p \in Path
  BY PromptsAssumption DEF Path
<1>2. Paths \subseteq Path
  BY <1>1, PrefixFacts DEF Paths
<1>3. \A p \in Prompts : p \in Paths
  BY <1>1, PrefixIntro DEF Paths
<1>4. \A p \in Paths : PathNodes(p) \subseteq Paths
  <2> SUFFICES ASSUME NEW s \in Prompts, NEW p \in PathNodes(s), NEW q \in PathNodes(p)
               PROVE  q \in PathNodes(s)
    BY DEF Paths
  <2> QED
    BY <1>1, PrefixTrans
<1>5. ASSUME NEW p \in Prompts
      PROVE  IsFiniteSet(PathNodes(p))
  <2>1. IsFiniteSet(1 .. Len(p))
    BY <1>1, FS_Interval, PrefixIntro
  <2>2. [i \in 1 .. Len(p) |-> Pre(p, i)] \in Surjection(1 .. Len(p), PathNodes(p))
    BY DEF Surjection, PathNodes
  <2> QED
    BY <2>1, <2>2, FS_Surjection
<1>6. IsFiniteSet({PathNodes(p) : p \in Prompts})
  <2> DEFINE Sets == {PathNodes(p) : p \in Prompts}
  <2>1. [p \in Prompts |-> PathNodes(p)] \in Surjection(Prompts, Sets)
    BY DEF Surjection
  <2> QED
    BY <2>1, PromptsAssumption, FS_Surjection
<1>7. IsFiniteSet(Paths)
  BY <1>5, <1>6, FS_UNION, Zenon DEF Paths
<1> QED
  BY <1>1, <1>2, <1>3, <1>4, <1>7

\* The cached paths are paths of the model, so finitely many, each a nonempty
\* sequence of tokens.
LEMMA TreeFacts ==
    ASSUME TypeOK, PrefixClosed
    PROVE  /\ Closed(tree)
           /\ IsFiniteSet(DOMAIN tree)
           /\ Cardinality(DOMAIN tree) \in Nat
           /\ \A q \in DOMAIN tree : tree[q] \in NodeRec
<1>1. Closed(tree)
  BY PathsFacts DEF Closed, TypeOK, PrefixClosed
<1>2. IsFiniteSet(DOMAIN tree)
  BY PathsFacts, FS_Subset DEF TypeOK
<1>3. Cardinality(DOMAIN tree) \in Nat
  BY <1>2, FS_CardinalityType
<1> QED
  BY <1>1, <1>2, <1>3 DEF TypeOK

\* Counting disjoint finite sets.
LEMMA CardDisjoint ==
    ASSUME NEW S, NEW T, IsFiniteSet(S), IsFiniteSet(T), S \cap T = {}
    PROVE  Cardinality(S \cup T) = Cardinality(S) + Cardinality(T)
<1>1. Cardinality(S \cup T) = Cardinality(S) + Cardinality(T) - Cardinality(S \cap T)
  BY FS_Union
<1>2. Cardinality(S \cap T) = 0 /\ Cardinality(S) \in Nat /\ Cardinality(T) \in Nat
  BY FS_EmptySet, FS_CardinalityType
<1> QED
  BY <1>1, <1>2

\* The walk over a path some client holds is the whole path.
LEMMA HeldFacts ==
    ASSUME TypeOK, PrefixClosed, HeldStaysCached,
           NEW c \in Clients, held[c] # <<>>
    PROVE  /\ held[c] \in Path
           /\ held[c] \in DOMAIN tree
           /\ Walk(tree, held[c]) = PathNodes(held[c])
<1>1. held[c] \in Path
  BY PathsFacts DEF TypeOK
<1>2. held[c] \in DOMAIN tree
  BY <1>1, PrefixIntro DEF HeldStaysCached
<1> QED
  BY <1>1, <1>2, WalkCached, TreeFacts

\* The clients that hold a path through a node are finitely many.
LEMMA HoldersFacts ==
    ASSUME NEW q
    PROVE  /\ IsFiniteSet(Holders(q))
           /\ Cardinality(Holders(q)) \in Nat
           /\ Cardinality(Holders(q)) = 0 <=> Holders(q) = {}
<1>1. IsFiniteSet(Clients) /\ Holders(q) \subseteq Clients
  BY PromptsAssumption DEF Holders
<1>2. IsFiniteSet(Holders(q))
  BY <1>1, FS_Subset
<1> QED
  BY <1>2, FS_CardinalityType, FS_EmptySet

-----------------------------------------------------------------------------
\* The empty cache satisfies the invariant.
LEMMA InitInv == Init => IInv
<1> SUFFICES ASSUME Init PROVE IInv
  OBVIOUS
<1>1. DOMAIN tree = {} /\ tree = [q \in {} |-> tree[q]]
  BY DEF Init, EmptyTree
<1>2. TypeOK
  BY <1>1 DEF Init, TypeOK
<1>3. BookkeepingExact
  BY <1>1, FS_EmptySet DEF Init, BookkeepingExact, EvictableNodes
<1> QED
  BY <1>1, <1>2, <1>3 DEF IInv, Init, PrefixClosed, HeldStaysCached, LockCountsHolders,
     HeapCovers, Stamped, SlotsConserved

\* match_cpu changes nothing but the stamps, and stamps only grow.
LEMMA MatchStep ==
    ASSUME IInv, NEW p \in Prompts, Match(p)
    PROVE  IInv'
<1> DEFINE now == clock + 1
<1> USE DEF IInv
<1>0. clock \in Nat /\ clock' = now
  BY DEF Match, Tick, TypeOK
<1>1. DOMAIN tree' = DOMAIN tree
  BY DEF Match, Touch
<1>2. \A q \in DOMAIN tree :
        /\ tree'[q] \in NodeRec
        /\ tree'[q].kv = tree[q].kv
        /\ tree'[q].lock = tree[q].lock
        /\ tree'[q].born = tree[q].born
        /\ tree'[q].last \in {tree[q].last, now}
  <2> SUFFICES ASSUME NEW q \in DOMAIN tree
               PROVE  /\ tree'[q] \in NodeRec
                      /\ tree'[q].kv = tree[q].kv
                      /\ tree'[q].lock = tree[q].lock
                      /\ tree'[q].born = tree[q].born
                      /\ tree'[q].last \in {tree[q].last, now}
    OBVIOUS
  <2>1. tree[q] \in NodeRec
    BY TreeFacts
  <2>2. tree'[q] = IF q \in Walk(tree, p) THEN [tree[q] EXCEPT !.last = now] ELSE tree[q]
    BY DEF Match, Touch
  <2> QED
    BY <1>0, <2>1, <2>2 DEF NodeRec
<1>3. TypeOK'
  <2>1. tree' = [q \in DOMAIN tree' |-> tree'[q]]
    BY DEF Match, Touch
  <2> QED
    BY <1>0, <1>1, <1>2, <2>1 DEF Match, Tick, TypeOK
<1>4. PrefixClosed' /\ HeldStaysCached'
  BY <1>1 DEF PrefixClosed, HeldStaysCached, Match
<1>5. LockCountsHolders'
  BY <1>1, <1>2 DEF LockCountsHolders, Holders, Match
<1>6. BookkeepingExact'
  BY <1>1, <1>2 DEF BookkeepingExact, EvictableNodes, HasChild, Match
<1>7. \A q \in DOMAIN tree : tree[q].last <= tree'[q].last /\ tree'[q].last <= clock'
  BY <1>0, <1>2, TreeFacts DEF Stamped, NodeRec
<1>8. HeapCovers'
  <2> SUFFICES ASSUME NEW q \in evictable_leaves
               PROVE  \E e \in heap : /\ e.path = q /\ e.born = tree'[q].born
                                      /\ e.prio <= tree'[q].last
    BY DEF HeapCovers, Match
  <2>1. q \in DOMAIN tree
    BY DEF TypeOK
  <2>2. PICK e \in heap : e.path = q /\ e.born = tree[q].born /\ e.prio <= tree[q].last
    BY DEF HeapCovers
  <2>3. e.prio \in Nat /\ tree[q].last \in Nat /\ tree'[q].last \in Nat
    BY <1>2, <2>1, TreeFacts DEF TypeOK, NodeRec
  <2> QED
    BY <1>2, <1>7, <2>1, <2>2, <2>3
<1>9. Stamped'
  BY <1>1, <1>7 DEF Stamped, Match
<1>10. SlotsConserved'
  <2>1. {tree'[q].kv : q \in DOMAIN tree'} = {tree[q].kv : q \in DOMAIN tree}
    BY <1>1, <1>2
  <2> QED
    BY <1>1, <1>2, <2>1 DEF SlotsConserved, Match
<1> QED
  BY <1>3, <1>4, <1>5, <1>6, <1>8, <1>9, <1>10

\* insert_cpu and insert_after hang the missing nodes under the cached prefix,
\* each with a slot of the caller's.
LEMMA InsertStep ==
    ASSUME IInv, NEW p \in Prompts, NEW from \in 0 .. Len(p) - 1,
           NEW kvs \in FreshSlots(tree, p, outside), InsertPath(p, from, kvs)
    PROVE  IInv'
<1> DEFINE now == clock + 1
           new == PathNodes(p) \ DOMAIN tree
           handed == {kvs[Len(q)] : q \in new}
<1> USE DEF IInv
<1>0. clock \in Nat /\ clock' = now
  BY DEF InsertPath, Tick, TypeOK
<1>1. p \in Path /\ p \in Paths /\ PathNodes(p) \subseteq Paths
  BY PathsFacts
<1>2. Closed(tree) /\ IsFiniteSet(DOMAIN tree)
  BY TreeFacts
<1>3. /\ DOMAIN tree' = DOMAIN tree \cup new
      /\ Closed(tree')
  BY <1>1, <1>2, InsertClosed DEF InsertPath
<1>4. \A q \in new : Len(q) \in 1 .. Len(p) /\ q = Pre(p, Len(q))
  BY <1>1, PrefixFacts
<1>5. /\ \A q \in new : kvs[Len(q)] \in outside
      /\ \A q, r \in new : kvs[Len(q)] = kvs[Len(r)] => q = r
  <2> DEFINE at == {i \in 1 .. Len(p) : Pre(p, i) \notin DOMAIN tree}
  <2>1. \A q \in new : Len(q) \in at
    BY <1>4
  <2>2. kvs \in [at -> outside] /\ \A i, j \in at : i # j => kvs[i] # kvs[j]
    BY DEF FreshSlots
  <2> HIDE DEF at
  <2> QED
    BY <1>4, <2>1, <2>2
<1>6. \A q \in new : tree'[q] = NewNode(kvs[Len(q)], now)
  BY <1>3 DEF InsertPath, InsertFrom
<1>7. \A q \in new :
        /\ tree'[q] \in NodeRec
        /\ tree'[q].kv = kvs[Len(q)]
        /\ tree'[q].lock = 0
        /\ tree'[q].born = now
        /\ tree'[q].last = now
  <2>1. ASSUME NEW q \in new
        PROVE  kvs[Len(q)] \in Slots
    BY <1>5, <2>1 DEF TypeOK
  <2>2. ASSUME NEW s \in Slots
        PROVE  /\ NewNode(s, now) \in NodeRec
               /\ NewNode(s, now).kv = s
               /\ NewNode(s, now).lock = 0
               /\ NewNode(s, now).born = now
               /\ NewNode(s, now).last = now
    BY <1>0 DEF NewNode, NodeRec
  <2> HIDE DEF now, new
  <2> QED
    BY <1>6, <2>1, <2>2
<1>8. \A q \in DOMAIN tree :
        /\ tree'[q] \in NodeRec
        /\ tree'[q].kv = tree[q].kv
        /\ tree'[q].lock = tree[q].lock
        /\ tree'[q].born = tree[q].born
        /\ tree'[q].last \in {tree[q].last, now}
  <2> SUFFICES ASSUME NEW q \in DOMAIN tree
               PROVE  /\ tree'[q] \in NodeRec
                      /\ tree'[q].kv = tree[q].kv
                      /\ tree'[q].lock = tree[q].lock
                      /\ tree'[q].born = tree[q].born
                      /\ tree'[q].last \in {tree[q].last, now}
    OBVIOUS
  <2>1. tree[q] \in NodeRec
    BY TreeFacts
  <2>2. tree'[q] = IF q \in PathNodes(p) /\ Len(q) > from
                   THEN [tree[q] EXCEPT !.last = now] ELSE tree[q]
    BY DEF InsertPath, InsertFrom
  <2> QED
    BY <1>0, <2>1, <2>2 DEF NodeRec
<1>9. TypeOK'
  <2>1. tree' = [q \in DOMAIN tree' |-> tree'[q]]
    BY DEF InsertPath, InsertFrom
  <2>2. tree' \in [DOMAIN tree' -> NodeRec]
    BY <1>3, <1>7, <1>8, <2>1
  <2>3. DOMAIN tree' \subseteq Paths
    BY <1>1, <1>3 DEF TypeOK
  <2>4. evictable_leaves' \subseteq DOMAIN tree'
    <3>1. p \in PathNodes(p)
      BY <1>1, PrefixIntro
    <3> QED
      BY <1>3, <3>1 DEF InsertPath, TypeOK
  <2>5. heap' \subseteq [prio : Nat, path : Paths, born : Nat]
    <3>1. \A q \in new : Entry(tree', q) \in [prio : Nat, path : Paths, born : Nat]
      BY <1>0, <1>1, <1>7 DEF Entry
    <3>2. heap' = heap \cup {Entry(tree', q) : q \in new}
      BY DEF InsertPath
    <3> QED
      BY <3>1, <3>2 DEF TypeOK
  <2>6. num_cached_tokens' \in Nat
    <3>1. IsFiniteSet(new)
      BY <1>1, PathsFacts, FS_Subset
    <3> QED
      BY <3>1, FS_CardinalityType DEF InsertPath, TypeOK
  <2> QED
    BY <1>0, <2>2, <2>3, <2>4, <2>5, <2>6 DEF InsertPath, TypeOK
<1>10. PrefixClosed' /\ HeldStaysCached'
  BY <1>3 DEF PrefixClosed, HeldStaysCached, InsertPath, Closed
<1>11. LockCountsHolders'
  <2>1. \A q : Holders(q)' = Holders(q)
    BY DEF Holders, InsertPath
  <2>2. \A q \in new : Holders(q) = {}
    BY DEF Holders, HeldStaysCached
  <2>3. \A q \in new : Cardinality(Holders(q)') = 0
    BY <2>1, <2>2, HoldersFacts
  <2> QED
    BY <1>3, <1>7, <1>8, <2>1, <2>3 DEF LockCountsHolders
<1>12. BookkeepingExact'
  <2>1. CASE new = {}
    <3>1. evictable_leaves' = evictable_leaves /\ DOMAIN tree' = DOMAIN tree
      BY <1>3, <2>1 DEF InsertPath
    <3>2. num_cached_tokens' = num_cached_tokens
      <4>1. num_cached_tokens' = num_cached_tokens + Cardinality(new)
        BY DEF InsertPath
      <4>2. Cardinality(new) = 0
        BY <2>1, FS_EmptySet
      <4> QED
        BY <4>1, <4>2 DEF TypeOK
    <3> QED
      BY <1>8, <3>1, <3>2 DEF BookkeepingExact, EvictableNodes, HasChild
  <2>2. CASE new # {}
    <3> DEFINE parents == {Parent(r) : r \in new}
    <3>1. /\ p \in new
          /\ ~HasChild(tree', p)
          /\ \A q \in new : q # p => HasChild(tree', q) /\ q \in parents
          /\ \A q \in DOMAIN tree : HasChild(tree', q) <=> HasChild(tree, q) \/ q \in parents
      <4>1. DOMAIN tree' = DOMAIN tree \cup PathNodes(p)
        BY <1>3
      <4> QED
        BY <1>1, <1>2, <2>2, <4>1, InsertHasChild
    <3>2. evictable_leaves' = (evictable_leaves \ parents) \cup {p}
      BY <2>2 DEF InsertPath
    <3>3. evictable_leaves' = EvictableNodes(tree')
      <4> HIDE DEF parents
      <4> QED
        BY <1>3, <1>7, <1>8, <3>1, <3>2 DEF BookkeepingExact, EvictableNodes
    <3>4. num_cached_tokens' = Cardinality(DOMAIN tree')
      <4>1. IsFiniteSet(new)
        BY <1>1, PathsFacts, FS_Subset
      <4>2. DOMAIN tree \cap new = {}
        OBVIOUS
      <4>3. Cardinality(DOMAIN tree \cup new) = Cardinality(DOMAIN tree) + Cardinality(new)
        BY <1>2, <4>1, <4>2, CardDisjoint
      <4> QED
        BY <1>3, <4>3 DEF InsertPath, BookkeepingExact
    <3> QED
      BY <3>3, <3>4 DEF BookkeepingExact
  <2> QED
    BY <2>1, <2>2
<1>13. \A q \in DOMAIN tree : tree[q].last <= tree'[q].last /\ tree'[q].last <= clock'
  BY <1>0, <1>8, TreeFacts DEF Stamped, NodeRec
<1>14. HeapCovers'
  <2> SUFFICES ASSUME NEW q \in evictable_leaves'
               PROVE  \E e \in heap' : /\ e.path = q /\ e.born = tree'[q].born
                                       /\ e.prio <= tree'[q].last
    BY DEF HeapCovers
  <2>1. CASE q \in new
    <3>1. Entry(tree', q) \in heap'
      BY <2>1 DEF InsertPath
    <3> QED
      BY <1>0, <1>7, <2>1, <3>1 DEF Entry
  <2>2. CASE q \notin new
    <3>1. q \in evictable_leaves /\ q \in DOMAIN tree
      <4>1. p \in PathNodes(p)
        BY <1>1, PrefixIntro
      <4>2. new # {} => p \in new
        BY <1>2, <4>1 DEF Closed
      <4> QED
        BY <2>2, <4>2 DEF InsertPath, TypeOK
    <3>2. PICK e \in heap : e.path = q /\ e.born = tree[q].born /\ e.prio <= tree[q].last
      BY <3>1 DEF HeapCovers
    <3>3. e.prio \in Nat /\ tree[q].last \in Nat /\ tree'[q].last \in Nat
      BY <1>8, <3>1, TreeFacts DEF TypeOK, NodeRec
    <3>4. e \in heap'
      BY DEF InsertPath
    <3> QED
      BY <1>8, <1>13, <3>1, <3>2, <3>3, <3>4
  <2> QED
    BY <2>1, <2>2
<1>15. Stamped'
  BY <1>0, <1>3, <1>7, <1>13 DEF Stamped, InsertPath
<1>16. SlotsConserved'
  <2>1. {tree'[q].kv : q \in DOMAIN tree'} = {tree[q].kv : q \in DOMAIN tree} \cup handed
    BY <1>3, <1>7, <1>8
  <2>2. handed \subseteq outside /\ outside' = outside \ handed
    BY <1>5 DEF InsertPath
  <2>3. \A q, r \in DOMAIN tree' : tree'[q].kv = tree'[r].kv => q = r
    <3>1. \A q \in DOMAIN tree : tree[q].kv \notin outside
      BY DEF SlotsConserved
    <3>2. \A q \in new : tree'[q].kv \in outside
      BY <1>5, <1>7
    <3> QED
      BY <1>3, <1>5, <1>7, <1>8, <3>1, <3>2 DEF SlotsConserved
  <2> HIDE DEF handed
  <2> QED
    BY <2>1, <2>2, <2>3 DEF SlotsConserved, InsertPath
<1> QED
  BY <1>9, <1>10, <1>11, <1>12, <1>14, <1>15, <1>16

-----------------------------------------------------------------------------
\* lock and unlock change the lock counts of the walked nodes Q alone, and
\* _update_leaf_status on those nodes keeps the bookkeeping exact.
LEMMA RelockStep ==
    ASSUME IInv, NEW Q, Q \subseteq DOMAIN tree,
           tree' = [q \in DOMAIN tree |-> tree'[q]],
           \A q \in DOMAIN tree :
              /\ tree'[q] \in NodeRec
              /\ tree'[q].kv = tree[q].kv
              /\ tree'[q].last = tree[q].last
              /\ tree'[q].born = tree[q].born
              /\ q \notin Q => tree'[q].lock = tree[q].lock,
           evictable_leaves' = Leaves(tree', evictable_leaves, Q),
           heap' = heap \cup Pushes(tree', evictable_leaves, Q),
           held' \in [Clients -> Paths \cup {<<>>}],
           UNCHANGED <<num_cached_tokens, clock, need, freed, outside>>
    PROVE  /\ TypeOK' /\ PrefixClosed' /\ BookkeepingExact' /\ HeapCovers'
           /\ Stamped' /\ SlotsConserved'
<1> USE DEF IInv
<1>1. DOMAIN tree' = DOMAIN tree
  OBVIOUS
<1>2. \A q : HasChild(tree', q) <=> HasChild(tree, q)
  BY <1>1 DEF HasChild
<1>3. evictable_leaves' = EvictableNodes(tree')
  <2>1. evictable_leaves = EvictableNodes(tree)
    BY DEF BookkeepingExact
  <2> QED
    BY <1>1, <1>2, <2>1 DEF Leaves, IsFreeLeaf, EvictableNodes
<1>4. TypeOK'
  <2>1. tree' \in [DOMAIN tree' -> NodeRec]
    BY <1>1
  <2>2. evictable_leaves' \subseteq DOMAIN tree'
    BY <1>3 DEF EvictableNodes
  <2>3. \A q \in Q : Entry(tree', q) \in [prio : Nat, path : Paths, born : Nat]
    BY <1>1 DEF Entry, TypeOK, NodeRec
  <2>4. heap' \subseteq [prio : Nat, path : Paths, born : Nat]
    BY <2>3 DEF Pushes, TypeOK
  <2> QED
    BY <1>1, <2>1, <2>2, <2>4 DEF TypeOK
<1>5. PrefixClosed'
  BY <1>1 DEF PrefixClosed
<1>6. BookkeepingExact'
  BY <1>1, <1>3 DEF BookkeepingExact
<1>7. HeapCovers'
  <2> SUFFICES ASSUME NEW q \in evictable_leaves'
               PROVE  \E e \in heap' : /\ e.path = q /\ e.born = tree'[q].born
                                       /\ e.prio <= tree'[q].last
    BY DEF HeapCovers
  <2>1. CASE q \in evictable_leaves
    BY <2>1 DEF HeapCovers, TypeOK
  <2>2. CASE q \notin evictable_leaves
    <3>1. q \in Q /\ IsFreeLeaf(tree', q) /\ q \in DOMAIN tree
      BY <2>2 DEF Leaves
    <3>2. Entry(tree', q) \in heap'
      BY <2>2, <3>1 DEF Pushes
    <3>3. tree'[q].last \in Nat
      BY <3>1 DEF NodeRec
    <3> QED
      BY <3>2, <3>3 DEF Entry
  <2> QED
    BY <2>1, <2>2
<1>8. Stamped'
  BY <1>1 DEF Stamped
<1>9. SlotsConserved'
  <2>1. {tree'[q].kv : q \in DOMAIN tree'} = {tree[q].kv : q \in DOMAIN tree}
    BY <1>1
  <2> QED
    BY <1>1, <2>1 DEF SlotsConserved
<1> QED
  BY <1>4, <1>5, <1>6, <1>7, <1>8, <1>9

\* Changing the lock of a node record changes nothing else of it.
LEMMA RelockNode ==
    ASSUME NEW n \in NodeRec, NEW k \in Nat
    PROVE  /\ [n EXCEPT !.lock = k] \in NodeRec
           /\ [n EXCEPT !.lock = k].lock = k
           /\ [n EXCEPT !.lock = k].kv = n.kv
           /\ [n EXCEPT !.lock = k].last = n.last
           /\ [n EXCEPT !.lock = k].born = n.born
BY DEF NodeRec

\* Locking a path adds its client to the holders of exactly the walked nodes.
LEMMA LockStep ==
    ASSUME IInv, NEW c \in Clients, NEW p \in DOMAIN tree, LockPath(c, p)
    PROVE  IInv'
<1> USE DEF IInv
<1>1. Walk(tree, p) = PathNodes(p) /\ PathNodes(p) \subseteq DOMAIN tree
  BY WalkCached, TreeFacts DEF PrefixClosed
<1>2. \A q \in DOMAIN tree :
        tree'[q] = IF q \in PathNodes(p) THEN [tree[q] EXCEPT !.lock = tree[q].lock + 1]
                   ELSE tree[q]
  BY <1>1 DEF LockPath, Lock
<1>3. \A q \in DOMAIN tree :
        /\ tree'[q] \in NodeRec
        /\ tree'[q].kv = tree[q].kv
        /\ tree'[q].last = tree[q].last
        /\ tree'[q].born = tree[q].born
        /\ tree'[q].lock = IF q \in PathNodes(p) THEN tree[q].lock + 1 ELSE tree[q].lock
  <2> SUFFICES ASSUME NEW q \in DOMAIN tree
               PROVE  /\ tree'[q] \in NodeRec
                      /\ tree'[q].kv = tree[q].kv
                      /\ tree'[q].last = tree[q].last
                      /\ tree'[q].born = tree[q].born
                      /\ tree'[q].lock = IF q \in PathNodes(p) THEN tree[q].lock + 1
                                         ELSE tree[q].lock
    OBVIOUS
  <2>1. tree[q] \in NodeRec
    BY TreeFacts
  <2>2. tree[q].lock + 1 \in Nat
    BY <2>1 DEF NodeRec
  <2>3. CASE q \in PathNodes(p)
    <3>1. tree'[q] = [tree[q] EXCEPT !.lock = tree[q].lock + 1]
      BY <1>2, <2>3
    <3> QED
      BY <2>1, <2>2, <2>3, <3>1, RelockNode
  <2>4. CASE q \notin PathNodes(p)
    BY <1>2, <2>1, <2>4
  <2> QED
    BY <2>3, <2>4
<1>4. held \in [Clients -> Paths \cup {<<>>}] /\ p \in Paths
  BY DEF TypeOK
<1>5. /\ held' = [held EXCEPT ![c] = p]
      /\ held[c] = <<>>
      /\ tree' = Lock(tree, p)
      /\ UNCHANGED <<num_cached_tokens, clock, need, freed, outside>>
  BY DEF LockPath
<1>6. p # <<>>
  BY <1>4, PathsFacts DEF Path
<1>7. /\ TypeOK' /\ PrefixClosed' /\ BookkeepingExact' /\ HeapCovers'
      /\ Stamped' /\ SlotsConserved'
  <2>1. tree' = [q \in DOMAIN tree |-> tree'[q]]
    BY <1>5 DEF Lock
  <2>2. /\ evictable_leaves' = Leaves(tree', evictable_leaves, PathNodes(p))
        /\ heap' = heap \cup Pushes(tree', evictable_leaves, PathNodes(p))
    BY <1>1 DEF LockPath
  <2>3. held' \in [Clients -> Paths \cup {<<>>}]
    BY <1>4, <1>5
  <2> QED
    BY <1>1, <1>3, <1>5, <2>1, <2>2, <2>3, RelockStep
<1>8. DOMAIN tree' = DOMAIN tree
  BY <1>5 DEF Lock
<1>9. HeldStaysCached'
  <2> SUFFICES ASSUME NEW d \in Clients, held'[d] # <<>>
               PROVE  PathNodes(held'[d]) \subseteq DOMAIN tree
    BY <1>8 DEF HeldStaysCached
  <2> QED
    BY <1>1, <1>4, <1>5 DEF HeldStaysCached
<1>10. LockCountsHolders'
  <2> SUFFICES ASSUME NEW q \in DOMAIN tree
               PROVE  tree'[q].lock = Cardinality(Holders(q)')
    BY <1>8 DEF LockCountsHolders
  <2>1. Holders(q)' = IF q \in PathNodes(p) THEN Holders(q) \cup {c} ELSE Holders(q)
    BY <1>4, <1>5, <1>6 DEF Holders
  <2>2. c \notin Holders(q)
    BY <1>5 DEF Holders
  <2>3. Cardinality(Holders(q) \cup {c}) = Cardinality(Holders(q)) + 1
    BY <2>2, HoldersFacts, FS_AddElement
  <2> QED
    BY <1>3, <2>1, <2>3 DEF LockCountsHolders
<1> QED
  BY <1>7, <1>9, <1>10

\* Unlocking takes the client from the holders of exactly the walked nodes; the
\* count of each was positive, so max(0, ..) loses nothing.
LEMMA UnlockStep ==
    ASSUME IInv, NEW c \in Clients, UnlockPath(c)
    PROVE  IInv'
<1> DEFINE p == held[c]
<1> USE DEF IInv
<1>0. /\ held' = [held EXCEPT ![c] = <<>>]
      /\ held[c] # <<>>
      /\ tree' = Unlock(tree, held[c])
      /\ evictable_leaves' = Leaves(tree', evictable_leaves, Walk(tree, held[c]))
      /\ heap' = heap \cup Pushes(tree', evictable_leaves, Walk(tree, held[c]))
      /\ UNCHANGED <<num_cached_tokens, clock, need, freed, outside>>
  BY DEF UnlockPath
<1>1. Walk(tree, p) = PathNodes(p) /\ PathNodes(p) \subseteq DOMAIN tree
  BY <1>0, HeldFacts DEF HeldStaysCached
<1>2. held \in [Clients -> Paths \cup {<<>>}]
  BY DEF TypeOK
<1> HIDE DEF p
<1>3. \A q \in PathNodes(p) : q \in DOMAIN tree /\ tree[q].lock \in Nat \ {0}
  <2> SUFFICES ASSUME NEW q \in PathNodes(p)
               PROVE  q \in DOMAIN tree /\ tree[q].lock \in Nat \ {0}
    OBVIOUS
  <2>1. q \in DOMAIN tree /\ c \in Holders(q)
    BY <1>0, <1>1 DEF Holders, p
  <2>2. Cardinality(Holders(q)) # 0
    BY <2>1, HoldersFacts
  <2> QED
    BY <2>1, <2>2, HoldersFacts DEF LockCountsHolders
<1>4. \A q \in DOMAIN tree :
        tree'[q] = IF q \in PathNodes(p)
                   THEN [tree[q] EXCEPT !.lock = IF tree[q].lock > 0 THEN tree[q].lock - 1 ELSE 0]
                   ELSE tree[q]
  BY <1>0, <1>1 DEF Unlock, p
<1>5. \A q \in DOMAIN tree :
        /\ tree'[q] \in NodeRec
        /\ tree'[q].kv = tree[q].kv
        /\ tree'[q].last = tree[q].last
        /\ tree'[q].born = tree[q].born
        /\ tree'[q].lock = IF q \in PathNodes(p) THEN tree[q].lock - 1 ELSE tree[q].lock
  <2> SUFFICES ASSUME NEW q \in DOMAIN tree
               PROVE  /\ tree'[q] \in NodeRec
                      /\ tree'[q].kv = tree[q].kv
                      /\ tree'[q].last = tree[q].last
                      /\ tree'[q].born = tree[q].born
                      /\ tree'[q].lock = IF q \in PathNodes(p) THEN tree[q].lock - 1
                                         ELSE tree[q].lock
    OBVIOUS
  <2>1. tree[q] \in NodeRec
    BY TreeFacts
  <2>2. CASE q \in PathNodes(p)
    <3>1. tree[q].lock > 0 /\ tree[q].lock - 1 \in Nat
      <4>1. \A x \in Nat \ {0} : x > 0 /\ x - 1 \in Nat
        OBVIOUS
      <4> QED
        BY <1>3, <2>2, <4>1
    <3>2. tree'[q] = [tree[q] EXCEPT !.lock = tree[q].lock - 1]
      BY <1>4, <2>2, <3>1
    <3> QED
      BY <2>1, <2>2, <3>1, <3>2, RelockNode
  <2>3. CASE q \notin PathNodes(p)
    BY <1>4, <2>1, <2>3
  <2> QED
    BY <2>2, <2>3
<1>6. DOMAIN tree' = DOMAIN tree /\ tree' = [q \in DOMAIN tree |-> tree'[q]]
  BY <1>0 DEF Unlock
<1>7. /\ TypeOK' /\ PrefixClosed' /\ BookkeepingExact' /\ HeapCovers'
      /\ Stamped' /\ SlotsConserved'
  <2>1. held' \in [Clients -> Paths \cup {<<>>}]
    BY <1>0, <1>2
  <2>2. /\ evictable_leaves' = Leaves(tree', evictable_leaves, PathNodes(p))
        /\ heap' = heap \cup Pushes(tree', evictable_leaves, PathNodes(p))
    BY <1>0, <1>1 DEF p
  <2> QED
    BY <1>0, <1>1, <1>5, <1>6, <2>1, <2>2, RelockStep
<1>8. HeldStaysCached'
  BY <1>0, <1>2, <1>6 DEF HeldStaysCached
<1>9. LockCountsHolders'
  <2> SUFFICES ASSUME NEW q \in DOMAIN tree
               PROVE  tree'[q].lock = Cardinality(Holders(q)')
    BY <1>6 DEF LockCountsHolders
  <2>1. Holders(q)' = Holders(q) \ {c}
    BY <1>0, <1>2 DEF Holders
  <2>2. c \in Holders(q) <=> q \in PathNodes(p)
    BY <1>0 DEF Holders, p
  <2>3. Cardinality(Holders(q) \ {c})
          = IF q \in PathNodes(p) THEN Cardinality(Holders(q)) - 1 ELSE Cardinality(Holders(q))
    BY <2>2, HoldersFacts, FS_RemoveElement
  <2> QED
    BY <1>5, <2>1, <2>3 DEF LockCountsHolders
<1> QED
  BY <1>7, <1>8, <1>9

-----------------------------------------------------------------------------
\* An evict call starts with nothing freed.
LEMMA EvictCallStep ==
    ASSUME IInv, NEW n \in Nat, EvictCall(n)
    PROVE  IInv'
<1> USE DEF IInv, EvictCall
<1>1. TypeOK'
  BY DEF TypeOK
<1>2. Stamped'
  BY DEF Stamped
<1>3. SlotsConserved'
  BY DEF SlotsConserved, Stamped
<1> QED
  BY <1>1, <1>2, <1>3 DEF PrefixClosed, HeldStaysCached, LockCountsHolders, Holders,
     BookkeepingExact, HeapCovers

\* Popping a stale entry loses no cover: a live entry of the same leaf is
\* another entry.
LEMMA PopStaleStep ==
    ASSUME IInv, NEW e \in heap, PopStale(e)
    PROVE  IInv'
<1> USE DEF IInv, PopStale
<1>1. TypeOK'
  BY DEF TypeOK
<1>2. HeapCovers'
  BY DEF HeapCovers, IsStale
<1>3. Stamped' /\ SlotsConserved'
  BY DEF Stamped, SlotsConserved
<1> QED
  BY <1>1, <1>2, <1>3 DEF PrefixClosed, HeldStaysCached, LockCountsHolders, Holders,
     BookkeepingExact

\* Re-pushing an outdated entry leaves the leaf covered by the new entry.
LEMMA PopReaccessedStep ==
    ASSUME IInv, NEW e \in heap, PopReaccessed(e)
    PROVE  IInv'
<1> USE DEF IInv, PopReaccessed, Repushed
<1>0. /\ e.path \in evictable_leaves /\ e.path \in DOMAIN tree
      /\ tree[e.path] \in NodeRec /\ e.path \in Paths
      /\ tree[e.path].born = e.born
  BY TreeFacts DEF IsStale, TypeOK
<1>1. TypeOK'
  <2>1. Entry(tree, e.path) \in [prio : Nat, path : Paths, born : Nat]
    BY <1>0 DEF Entry, NodeRec
  <2> QED
    BY <2>1 DEF TypeOK
<1>2. HeapCovers'
  <2> SUFFICES ASSUME NEW q \in evictable_leaves
               PROVE  \E f \in heap' : /\ f.path = q /\ f.born = tree[q].born
                                       /\ f.prio <= tree[q].last
    BY DEF HeapCovers
  <2>1. CASE q = e.path
    <3>1. tree[q].last \in Nat
      BY <1>0, <2>1 DEF NodeRec
    <3>2. Entry(tree, q) \in heap'
      BY <2>1
    <3> QED
      BY <3>1, <3>2 DEF Entry
  <2>2. CASE q # e.path
    BY <2>2 DEF HeapCovers
  <2> QED
    BY <2>1, <2>2
<1>3. Stamped' /\ SlotsConserved'
  BY DEF Stamped, SlotsConserved
<1> QED
  BY <1>1, <1>2, <1>3 DEF PrefixClosed, HeldStaysCached, LockCountsHolders, Holders,
     BookkeepingExact

\* The victim is an unlocked leaf, so no client holds a path through it and the
\* tree stays closed; its parent, if it became an unlocked leaf, is pushed.
LEMMA PopVictimStep ==
    ASSUME IInv, NEW e \in heap, PopVictim(e)
    PROVE  IInv'
<1> DEFINE v == e.path
           up == {Parent(v)} \cap DOMAIN tree'
           E == evictable_leaves \ {v}
<1> USE DEF IInv
<1>1. /\ tree' = RemoveLeaf(tree, v)
      /\ num_cached_tokens' = IF num_cached_tokens > 0 THEN num_cached_tokens - 1 ELSE 0
      /\ freed' = freed \cup {tree[v].kv}
      /\ evictable_leaves' = Leaves(tree', E, up)
      /\ heap' = (heap \ {e}) \cup Pushes(tree', E, up)
      /\ need > 0
      /\ UNCHANGED <<clock, need, held, outside>>
  BY DEF PopVictim, Popped, MoreToEvict
<1>2. /\ v \in DOMAIN tree /\ v \in evictable_leaves
      /\ ~HasChild(tree, v) /\ tree[v].lock = 0
      /\ tree[v] \in NodeRec
  BY TreeFacts DEF PopVictim, IsStale, BookkeepingExact, EvictableNodes
<1>3. Closed(tree) /\ IsFiniteSet(DOMAIN tree) /\ v \in Path
  BY <1>2, TreeFacts DEF Closed
<1>4. /\ DOMAIN tree' = DOMAIN tree \ {v}
      /\ Closed(tree')
      /\ \A r \in DOMAIN tree' : tree'[r] = tree[r]
  BY <1>1, <1>2, <1>3, RemoveClosed
<1>5. \A r \in DOMAIN tree' : r # Parent(v) => (HasChild(tree', r) <=> HasChild(tree, r))
  BY <1>1, <1>2, <1>3, <1>4, RemoveHasChild
<1> HIDE DEF v
<1>6. evictable_leaves' = EvictableNodes(tree')
  <2>1. evictable_leaves = EvictableNodes(tree)
    BY DEF BookkeepingExact
  <2>2. Parent(v) \in DOMAIN tree => HasChild(tree, Parent(v))
    <3>1. ASSUME Parent(v) \in DOMAIN tree
          PROVE  Len(v) = Len(Parent(v)) + 1
      BY <1>3, <3>1, ParentLen DEF Closed
    <3> QED
      BY <1>2, <3>1 DEF HasChild
  <2>3. Parent(v) \notin evictable_leaves
    BY <2>1, <2>2 DEF EvictableNodes
  <2> QED
    BY <1>1, <1>4, <1>5, <2>1, <2>3 DEF Leaves, IsFreeLeaf, EvictableNodes
<1>7. num_cached_tokens' = Cardinality(DOMAIN tree')
  <2>1. Cardinality(DOMAIN tree \ {v}) = Cardinality(DOMAIN tree) - 1
    BY <1>2, <1>3, FS_RemoveElement
  <2>2. Cardinality(DOMAIN tree) \in Nat /\ Cardinality(DOMAIN tree) # 0
    BY <1>2, <1>3, FS_CardinalityType, FS_EmptySet
  <2>3. num_cached_tokens = Cardinality(DOMAIN tree)
    BY DEF BookkeepingExact
  <2> QED
    BY <1>1, <1>4, <2>1, <2>2, <2>3
<1>8. TypeOK'
  <2>1. tree' \in [DOMAIN tree' -> NodeRec] /\ DOMAIN tree' \subseteq Paths
    <3>1. tree' = [r \in DOMAIN tree' |-> tree'[r]]
      BY <1>1 DEF RemoveLeaf
    <3>2. \A r \in DOMAIN tree' : tree'[r] \in NodeRec
      BY <1>4, TreeFacts
    <3> QED
      BY <1>4, <3>1, <3>2 DEF TypeOK
  <2>2. evictable_leaves' \subseteq DOMAIN tree'
    BY <1>6 DEF EvictableNodes
  <2>3. Pushes(tree', E, up) \subseteq [prio : Nat, path : Paths, born : Nat]
    BY <2>1 DEF Pushes, Entry, NodeRec
  <2>4. num_cached_tokens' \in Nat
    BY <1>1 DEF TypeOK
  <2>5. tree[v].kv \in Slots
    BY <1>2 DEF NodeRec
  <2> QED
    BY <1>1, <2>1, <2>2, <2>3, <2>4, <2>5 DEF TypeOK
<1>9. PrefixClosed'
  BY <1>4 DEF PrefixClosed, Closed
<1>10. HeldStaysCached'
  <2> SUFFICES ASSUME NEW c \in Clients, held[c] # <<>>, v \in PathNodes(held[c])
               PROVE  FALSE
    BY <1>1, <1>4 DEF HeldStaysCached
  <2>1. c \in Holders(v)
    BY DEF Holders
  <2> QED
    BY <1>2, <2>1, HoldersFacts DEF LockCountsHolders
<1>11. LockCountsHolders'
  BY <1>1, <1>4 DEF LockCountsHolders, Holders
<1>12. HeapCovers'
  <2> SUFFICES ASSUME NEW q \in evictable_leaves'
               PROVE  \E f \in heap' : /\ f.path = q /\ f.born = tree'[q].born
                                       /\ f.prio <= tree'[q].last
    BY DEF HeapCovers
  <2>0. q \in DOMAIN tree' /\ q # v
    BY <1>4, <1>6 DEF EvictableNodes
  <2>1. CASE q \in evictable_leaves
    <3>1. PICK f \in heap : f.path = q /\ f.born = tree[q].born /\ f.prio <= tree[q].last
      BY <2>1 DEF HeapCovers
    <3>2. f # e
      BY <2>0, <3>1 DEF v
    <3> QED
      BY <1>1, <1>4, <2>0, <3>1, <3>2
  <2>2. CASE q \notin evictable_leaves
    <3>1. q \in up \ E /\ IsFreeLeaf(tree', q)
      BY <1>1, <2>2 DEF Leaves
    <3>2. Entry(tree', q) \in heap'
      BY <1>1, <3>1 DEF Pushes
    <3>3. tree'[q].last \in Nat
      BY <1>8, <2>0 DEF TypeOK, NodeRec
    <3> QED
      BY <3>2, <3>3 DEF Entry
  <2> QED
    BY <2>1, <2>2
<1>13. Stamped'
  BY <1>1, <1>4 DEF Stamped, TypeOK
<1>14. SlotsConserved'
  <2>1. {tree[q].kv : q \in DOMAIN tree} = {tree'[q].kv : q \in DOMAIN tree'} \cup {tree[v].kv}
    BY <1>2, <1>4
  <2>2. tree[v].kv \notin {tree'[q].kv : q \in DOMAIN tree'}
    BY <1>2, <1>4 DEF SlotsConserved
  <2>3. \A q, r \in DOMAIN tree' : tree'[q].kv = tree'[r].kv => q = r
    BY <1>4 DEF SlotsConserved
  <2> QED
    BY <1>1, <2>1, <2>2, <2>3 DEF SlotsConserved
<1> QED
  BY <1>6, <1>7, <1>8, <1>9, <1>10, <1>11, <1>12, <1>13, <1>14 DEF BookkeepingExact

\* The slots an evict call freed pass to the allocator.
LEMMA EvictReturnStep ==
    ASSUME IInv, EvictReturn
    PROVE  IInv'
<1> USE DEF IInv, EvictReturn
<1>1. TypeOK'
  BY DEF TypeOK
<1>2. Stamped' /\ SlotsConserved'
  BY DEF Stamped, SlotsConserved
<1> QED
  BY <1>1, <1>2 DEF PrefixClosed, HeldStaysCached, LockCountsHolders, Holders,
     BookkeepingExact, HeapCovers

-----------------------------------------------------------------------------
\* Every step preserves the invariant.
LEMMA NextInv == IInv /\ [Next]_vars => IInv'
<1> SUFFICES ASSUME IInv, [Next]_vars PROVE IInv'
  OBVIOUS
<1>1. ASSUME NEW p \in Prompts, Match(p) PROVE IInv'
  BY <1>1, MatchStep
<1>2. ASSUME NEW p \in Prompts, NEW from \in 0 .. Len(p) - 1, InsertCpu(p, from)
      PROVE  IInv'
  BY <1>2, InsertStep DEF InsertCpu
<1>3. ASSUME NEW c \in Clients, NEW p \in DOMAIN tree, LockPath(c, p) PROVE IInv'
  BY <1>3, LockStep
<1>4. ASSUME NEW c \in Clients, UnlockPath(c) PROVE IInv'
  BY <1>4, UnlockStep
<1>5. ASSUME NEW n \in 1 .. Cardinality(Slots), EvictCall(n) PROVE IInv'
  <2>1. Cardinality(Slots) \in Nat
    BY PromptsAssumption, FS_CardinalityType
  <2>2. n \in Nat
    BY <2>1
  <2> QED
    BY <1>5, <2>2, EvictCallStep
<1>6. ASSUME NEW e \in heap, PopStale(e) \/ PopReaccessed(e) \/ PopVictim(e) PROVE IInv'
  BY <1>6, PopStaleStep, PopReaccessedStep, PopVictimStep
<1>7. CASE EvictReturn
  BY <1>7, EvictReturnStep
<1>8. CASE UNCHANGED vars
  BY <1>8 DEF vars, IInv, TypeOK, PrefixClosed, HeldStaysCached, LockCountsHolders,
     Holders, BookkeepingExact, HeapCovers, Stamped, SlotsConserved
<1> QED
  BY <1>1, <1>2, <1>3, <1>4, <1>5, <1>6, <1>7, <1>8 DEF Next, Call, EvictStep

\* Every reachable state of the cache satisfies the inductive invariant.
THEOREM Invariance == Spec => []IInv
<1> QED
  BY InitInv, NextInv, PTL DEF Spec

\* The variables keep the types the code gives them, and the bookkeeping that
\* _update_leaf_status keeps by increments (radix.py:51-61) equals, at every
\* moment, the set of unlocked leaves and the number of nodes.
THEOREM TypeCorrect == Spec => [](TypeOK /\ BookkeepingExact)
<1>1. IInv => TypeOK /\ BookkeepingExact
  BY DEF IInv
<1> QED
  BY <1>1, Invariance, PTL

\* "Live requests are not evicted" (radix.py:4): as long as callers lock paths
\* that are cached, no node of a locked path leaves the tree, and a node's lock
\* counts exactly the live requests whose path runs through it.
THEOREM LiveRequestsNotEvicted == Spec => [](HeldStaysCached /\ LockCountsHolders)
<1>1. IInv => HeldStaysCached /\ LockCountsHolders
  BY DEF IInv
<1> QED
  BY <1>1, Invariance, PTL

\* No KV slot is lost by the cache, owned by two nodes, or handed back to the
\* allocator while a node still has it (radix.py:207-235).
THEOREM SlotsNeverLost == Spec => [](SlotsConserved /\ PrefixClosed)
<1>1. IInv => SlotsConserved /\ PrefixClosed
  BY DEF IInv
<1> QED
  BY <1>1, Invariance, PTL

\* An evict call that returns has freed what was asked, or left nothing that
\* could be evicted: no evictable leaf ever lacks an entry in the lazy heap.
THEOREM EvictNeverShort == Spec => EvictDelivers
<1>1. IInv /\ [Next]_vars => (need > 0 /\ need' = 0 =>
         Cardinality(freed) >= need \/ EvictableNodes(tree) = {})
  <2> SUFFICES ASSUME IInv, [Next]_vars, need > 0, need' = 0
               PROVE  Cardinality(freed) >= need \/ EvictableNodes(tree) = {}
    OBVIOUS
  <2>1. need \in Nat /\ need' # need
    BY DEF IInv, TypeOK
  <2>2. EvictReturn
    BY <2>1 DEF Next, Call, EvictStep, vars, Match, InsertCpu, InsertPath, Tick, LockPath,
       UnlockPath, EvictCall, PopStale, PopReaccessed, PopVictim
  <2>3. heap = {} => EvictableNodes(tree) = {}
    BY DEF IInv, HeapCovers, BookkeepingExact
  <2> QED
    BY <2>2, <2>3 DEF EvictReturn
<1> QED
  BY <1>1, Invariance, PTL DEF Spec, EvictDelivers

\* A node's lock is the number of live requests whose path runs through it: no
\* unlock is lost in max(0, ..), none releases another request's lock, however
\* inserts and evictions fall between a lock and its unlock (radix.py:185-205).
THEOREM LocksAreCounted == Spec => []LockCountsHolders
<1>1. IInv => LockCountsHolders
  BY DEF IInv
<1> QED
  BY <1>1, Invariance, PTL

-----------------------------------------------------------------------------
\* LRUCache speaks of the same trees: its operators are those of RadixTree.
LEMMA LRUOperators ==
    /\ LRU!EmptyTree = EmptyTree
    /\ \A p : LRU!PathNodes(p) = PathNodes(p)
    /\ \A t, p, now : LRU!Touch(t, p, now) = Touch(t, p, now)
    /\ \A t, p, own : LRU!FreshSlots(t, p, own) = FreshSlots(t, p, own)
    /\ \A t, p, from, kvs, now :
          LRU!InsertFrom(t, p, from, kvs, now) = InsertFrom(t, p, from, kvs, now)
    /\ \A t, q : LRU!RemoveLeaf(t, q) = RemoveLeaf(t, q)
    /\ \A t, q : LRU!IsLRU(t, q) <=> IsLRU(t, q)
<1>1. LRU!EmptyTree = EmptyTree
  BY DEF LRU!EmptyTree, EmptyTree
<1>2. \A p : LRU!PathNodes(p) = PathNodes(p)
  BY DEF LRU!PathNodes, LRU!Pre, PathNodes, Pre
<1>3. \A t, p, now : LRU!Touch(t, p, now) = Touch(t, p, now)
  BY DEF LRU!Touch, LRU!Walk, LRU!Pre, Touch, Walk, Pre
<1>4. \A t, p, own : LRU!FreshSlots(t, p, own) = FreshSlots(t, p, own)
  BY DEF LRU!FreshSlots, LRU!Pre, FreshSlots, Pre
<1>5. \A t, p, from, kvs, now :
        LRU!InsertFrom(t, p, from, kvs, now) = InsertFrom(t, p, from, kvs, now)
  BY <1>2 DEF LRU!InsertFrom, LRU!NewNode, InsertFrom, NewNode
<1>6. \A t, q : LRU!RemoveLeaf(t, q) = RemoveLeaf(t, q)
  BY DEF LRU!RemoveLeaf, RemoveLeaf
<1>7. \A t, q : LRU!IsLRU(t, q) <=> IsLRU(t, q)
  BY DEF LRU!IsLRU, LRU!EvictableNodes, LRU!HasChild, LRU!Parent, LRU!Pre,
         IsLRU, EvictableNodes, HasChild, Parent, Pre
<1> QED
  BY <1>1, <1>2, <1>3, <1>4, <1>5, <1>6, <1>7

\* The entry that evict takes as a victim is of a leaf that was not used for
\* longest: every other evictable leaf has an entry that is popped no earlier,
\* and of a priority no later than its last access.
LEMMA VictimIsLRU ==
    ASSUME IInv, NEW e \in heap, PopVictim(e)
    PROVE  e.path \in DOMAIN tree /\ IsLRU(tree, e.path)
<1>1. /\ e.path \in evictable_leaves
      /\ tree[e.path].last = e.prio
      /\ \A f \in heap : e.prio <= f.prio
  BY DEF PopVictim, IsStale, IsOutdated, Popped
<1>2. evictable_leaves = EvictableNodes(tree)
  BY DEF IInv, BookkeepingExact
<1>3. ASSUME NEW r \in evictable_leaves
      PROVE  tree[e.path].last <= tree[r].last
  <2>1. PICK f \in heap : f.path = r /\ f.prio <= tree[r].last
    BY DEF IInv, HeapCovers
  <2>2. e.prio \in Nat /\ f.prio \in Nat
    BY DEF IInv, TypeOK
  <2>3. tree[r].last \in Nat
    BY TreeFacts DEF IInv, TypeOK, NodeRec
  <2> QED
    BY <1>1, <2>1, <2>2, <2>3
<1> QED
  BY <1>1, <1>2, <1>3 DEF IsLRU, EvictableNodes

\* match_cpu is LRUCache's.
LEMMA MatchImplements ==
    ASSUME IInv, NEW p \in Prompts, Match(p)
    PROVE  LRU!Match(p)
BY LRUOperators DEF Match, Tick, LRU!Match

\* insert_cpu and insert_after take from the slots outside exactly those they
\* hang into the tree; between calls no freed slot is on its way back.
LEMMA InsertImplements ==
    ASSUME IInv, NEW p \in Prompts, NEW from \in 0 .. Len(p) - 1, InsertCpu(p, from)
    PROVE  LRU!InsertCpu(p, from)
<1>1. PICK kvs \in FreshSlots(tree, p, outside) : InsertPath(p, from, kvs)
  BY DEF InsertCpu
<1>2. freed = {} /\ freed' = {} /\ need = 0
  BY <1>1 DEF InsertPath, Tick, IInv, Stamped
<1>3. p \in Path
  BY PathsFacts
<1> DEFINE new == PathNodes(p) \ DOMAIN tree
           at == {i \in 1 .. Len(p) : Pre(p, i) \notin DOMAIN tree}
<1>4. {kvs[Len(q)] : q \in new} = {kvs[i] : i \in DOMAIN kvs}
  <2>1. DOMAIN kvs = at
    BY <1>1 DEF FreshSlots
  <2>2. \A q \in new : Len(q) \in at
    BY <1>3, PrefixFacts
  <2>3. \A i \in at : Pre(p, i) \in new /\ Len(Pre(p, i)) = i
    <3> SUFFICES ASSUME NEW i \in at PROVE Pre(p, i) \in new /\ Len(Pre(p, i)) = i
      OBVIOUS
    <3>1. i \in 0 .. Len(p) /\ p \in Seq(Nat)
      BY <1>3 DEF Path
    <3> QED
      BY <1>3, <3>1, PrefixIntro, PreFacts
  <2> HIDE DEF new, at
  <2> QED
    BY <2>1, <2>2, <2>3
<1>5. /\ clock' = clock + 1
      /\ tree' = InsertFrom(tree, p, from, kvs, clock')
      /\ outside' = outside \ {kvs[i] : i \in DOMAIN kvs}
      /\ UNCHANGED held
  BY <1>1, <1>4 DEF InsertPath, Tick
<1>6. outside \cup freed = outside /\ (outside \cup freed)' = outside'
  BY <1>2
<1>7. kvs \in FreshSlots(tree, p, outside \cup freed)
  BY <1>1, <1>6
<1> QED
  BY <1>5, <1>6, <1>7, LRUOperators DEF LRU!InsertCpu

\* A lock on a cached path walks all of it.
LEMMA LockImplements ==
    ASSUME IInv, NEW c \in Clients, NEW p \in DOMAIN tree, LockPath(c, p)
    PROVE  LRU!LockPath(c, p)
<1>1. Walk(tree, p) = PathNodes(p)
  BY TreeFacts, WalkCached DEF IInv, Closed
<1> QED
  BY <1>1, LRUOperators DEF LockPath, Lock, LRU!LockPath

\* An unlock finds every node of its path still there, with a positive count.
LEMMA UnlockImplements ==
    ASSUME IInv, NEW c \in Clients, UnlockPath(c)
    PROVE  LRU!UnlockPath(c)
<1>1. held[c] # <<>> /\ held' = [held EXCEPT ![c] = <<>>]
  BY DEF UnlockPath
<1>2. Walk(tree, held[c]) = PathNodes(held[c]) /\ PathNodes(held[c]) \subseteq DOMAIN tree
  BY <1>1, HeldFacts DEF IInv, HeldStaysCached
<1>3. \A q \in PathNodes(held[c]) : tree[q].lock > 0
  <2> SUFFICES ASSUME NEW q \in PathNodes(held[c]) PROVE tree[q].lock > 0
    OBVIOUS
  <2>1. c \in Holders(q)
    BY <1>1 DEF Holders
  <2>2. Cardinality(Holders(q)) \in Nat /\ Cardinality(Holders(q)) # 0
    BY <2>1, HoldersFacts
  <2>3. tree[q].lock = Cardinality(Holders(q))
    BY <1>2 DEF IInv, LockCountsHolders
  <2> QED
    BY <2>2, <2>3
<1>4. tree' = [q \in DOMAIN tree |->
                 IF q \in PathNodes(held[c]) THEN [tree[q] EXCEPT !.lock = @ - 1] ELSE tree[q]]
  <2>1. tree' = [q \in DOMAIN tree |->
                   IF q \in PathNodes(held[c])
                   THEN [tree[q] EXCEPT !.lock = IF @ > 0 THEN @ - 1 ELSE 0] ELSE tree[q]]
    BY <1>2 DEF UnlockPath, Unlock
  <2> QED
    BY <1>3, <2>1
<1> QED
  BY <1>1, <1>4, LRUOperators DEF UnlockPath, LRU!UnlockPath

\* One round of evict that removes a leaf is an LRU eviction; its slot counts as
\* outside from then on, though evict hands it over only when it returns.
LEMMA VictimImplements ==
    ASSUME IInv, NEW e \in heap, PopVictim(e)
    PROVE  LRU!EvictLRU(e.path)
BY VictimIsLRU, LRUOperators DEF PopVictim, LRU!EvictLRU

\* Starting an evict call, popping a stale entry, pushing an outdated one again
\* and returning are invisible: only the bookkeeping changes.
LEMMA BookkeepingStutters ==
    ASSUME IInv,
           \/ \E n \in Nat : EvictCall(n)
           \/ \E e \in heap : PopStale(e) \/ PopReaccessed(e)
           \/ EvictReturn
    PROVE  UNCHANGED LRU!lruVars
<1>1. ASSUME NEW n \in Nat, EvictCall(n) PROVE UNCHANGED LRU!lruVars
  BY <1>1 DEF EvictCall, IInv, Stamped, LRU!lruVars
<1>2. ASSUME NEW e \in heap, PopStale(e) \/ PopReaccessed(e) PROVE UNCHANGED LRU!lruVars
  BY <1>2 DEF PopStale, PopReaccessed, LRU!lruVars
<1>3. CASE EvictReturn
  BY <1>3 DEF EvictReturn, LRU!lruVars
<1> QED
  BY <1>1, <1>2, <1>3

\* Every step of the cache is a step of LRUCache or leaves what it sees alone.
LEMMA StepImplements ==
    IInv /\ [Next]_vars => [LRU!Next]_(LRU!lruVars)
<1> SUFFICES ASSUME IInv, [Next]_vars PROVE LRU!Next \/ UNCHANGED LRU!lruVars
  OBVIOUS
<1>1. ASSUME NEW p \in Prompts, Match(p) PROVE LRU!Next
  BY <1>1, MatchImplements DEF LRU!Next
<1>2. ASSUME NEW p \in Prompts, NEW from \in 0 .. Len(p) - 1, InsertCpu(p, from)
      PROVE  LRU!Next
  BY <1>2, InsertImplements DEF LRU!Next
<1>3. ASSUME NEW c \in Clients, NEW p \in DOMAIN tree, LockPath(c, p) PROVE LRU!Next
  BY <1>3, LockImplements DEF LRU!Next
<1>4. ASSUME NEW c \in Clients, UnlockPath(c) PROVE LRU!Next
  BY <1>4, UnlockImplements DEF LRU!Next
<1>5. ASSUME NEW n \in 1 .. Cardinality(Slots), EvictCall(n) PROVE UNCHANGED LRU!lruVars
  <2>1. Cardinality(Slots) \in Nat
    BY PromptsAssumption, FS_CardinalityType
  <2>2. n \in Nat
    BY <2>1
  <2> QED
    BY <1>5, <2>2, BookkeepingStutters
<1>6. ASSUME NEW e \in heap, PopStale(e) \/ PopReaccessed(e) PROVE UNCHANGED LRU!lruVars
  BY <1>6, BookkeepingStutters
<1>7. ASSUME NEW e \in heap, PopVictim(e) PROVE LRU!Next
  BY <1>7, VictimIsLRU, VictimImplements DEF LRU!Next
<1>8. CASE EvictReturn
  BY <1>8, BookkeepingStutters
<1>9. CASE UNCHANGED vars
  BY <1>9 DEF vars, LRU!lruVars
<1> QED
  BY <1>1, <1>2, <1>3, <1>4, <1>5, <1>6, <1>7, <1>8, <1>9 DEF Next, Call, EvictStep

\* The lazy heap, the incremental leaf set and the lock counts implement the
\* cache a caller reasons about: least-recently-used eviction of unlocked leaves,
\* each evicted slot leaving the tree once (radix.py:207-235).
THEOREM Refinement == Spec => ImplementsLRU
<1>1. Init => LRU!Init
  BY LRUOperators DEF Init, LRU!Init
<1> QED
  BY <1>1, StepImplements, Invariance, PTL DEF Spec, ImplementsLRU, LRU!Spec
=============================================================================
