-------------------------- MODULE KVLifecycleProofs --------------------------
(***************************************************************************)
(* Proofs about KVLifecycle.                                               *)
(***************************************************************************)
EXTENDS KVLifecycle, SharedLemmas

-----------------------------------------------------------------------------
(* Lists. *)

\* For a list, IsInjective and NoRepeats are one.
LEMMA InjectiveList ==
    ASSUME NEW T, NEW s \in Seq(T)
    PROVE  IsInjective(s) <=> NoRepeats(s)
BY DEF IsInjective, NoRepeats

\* A slice of a list has the members between its ends.
LEMMA SliceMembers ==
    ASSUME NEW T, NEW s \in Seq(T), NEW a \in Nat \ {0}, NEW b \in Nat, b <= Len(s)
    PROVE  /\ SubSeq(s, a, b) \in Seq(T)
           /\ ToSet(SubSeq(s, a, b)) = {s[i] : i \in a .. b}
           /\ NoRepeats(s) => NoRepeats(SubSeq(s, a, b))
           /\ Len(SubSeq(s, a, b)) = IF a <= b THEN b - a + 1 ELSE 0
           /\ \A i \in 1 .. Len(SubSeq(s, a, b)) : SubSeq(s, a, b)[i] = s[a + i - 1]
<1> DEFINE u == SubSeq(s, a, b)
<1>1. /\ Len(s) \in Nat
      /\ u \in Seq(T)
      /\ Len(u) = IF a <= b THEN b - a + 1 ELSE 0
      /\ \A i \in 1 .. Len(u) : u[i] = s[a + i - 1]
  OBVIOUS
<1> HIDE DEF u
<1>2. ToSet(u) = {u[i] : i \in 1 .. Len(u)}
  BY <1>1, Members
<1>3. ASSUME NEW i \in a .. b
      PROVE  i - a + 1 \in 1 .. Len(u) /\ u[i - a + 1] = s[i]
  <2>1. i - a + 1 \in 1 .. Len(u) /\ a + (i - a + 1) - 1 = i
    BY <1>1
  <2> QED
    BY <1>1, <2>1
<1>4. ASSUME NEW i \in 1 .. Len(u)
      PROVE  a + i - 1 \in a .. b /\ u[i] = s[a + i - 1] /\ a + i - 1 \in 1 .. Len(s)
  BY <1>1
<1>5. ToSet(u) = {s[i] : i \in a .. b}
  <2>1. \A x \in ToSet(u) : x \in {s[i] : i \in a .. b}
    BY <1>2, <1>4
  <2>2. \A i \in a .. b : s[i] \in ToSet(u)
    BY <1>2, <1>3
  <2> QED
    BY <2>1, <2>2
<1>6. ASSUME NoRepeats(s), NEW i \in 1 .. Len(u), NEW j \in 1 .. Len(u), u[i] = u[j]
      PROVE  i = j
  <2>1. a + i - 1 = a + j - 1
    BY <1>4, <1>6 DEF NoRepeats
  <2> QED
    BY <1>1, <2>1
<1> QED
  BY <1>1, <1>5, <1>6 DEF u, NoRepeats

\* Looking up each member of a list in another: the members it leads to, and no
\* repeats if neither has any.
LEMMA MapMembers ==
    ASSUME NEW T, NEW s \in Seq(T), NEW d, NEW at \in Seq(d), d \subseteq 1 .. Len(s)
    PROVE  LET u == [k \in 1 .. Len(at) |-> s[at[k]]]
           IN  /\ u \in Seq(T)
               /\ ToSet(u) = {s[i] : i \in ToSet(at)}
               /\ NoRepeats(s) /\ NoRepeats(at) => NoRepeats(u)
<1> DEFINE u == [k \in 1 .. Len(at) |-> s[at[k]]]
<1>1. /\ Len(at) \in Nat /\ Len(s) \in Nat
      /\ \A k \in 1 .. Len(at) : at[k] \in 1 .. Len(s) /\ s[at[k]] \in T
  <2>1. \A i \in 1 .. Len(s) : s[i] \in T
    OBVIOUS
  <2>2. ASSUME NEW k \in 1 .. Len(at) PROVE at[k] \in 1 .. Len(s)
    <3>1. at[k] \in d
      OBVIOUS
    <3> QED
      BY <3>1
  <2> QED
    BY <2>1, <2>2
<1>2. u \in Seq(T) /\ Len(u) = Len(at) /\ \A k \in 1 .. Len(at) : u[k] = s[at[k]]
  BY <1>1
<1> HIDE DEF u
<1>3. ToSet(u) = {u[i] : i \in 1 .. Len(u)} /\ ToSet(at) = {at[i] : i \in 1 .. Len(at)}
  BY <1>2, Members
<1>4. ToSet(u) = {s[i] : i \in ToSet(at)}
  BY <1>2, <1>3
<1>5. NoRepeats(s) /\ NoRepeats(at) => NoRepeats(u)
  BY <1>1, <1>2 DEF NoRepeats
<1> QED
  BY <1>2, <1>4, <1>5 DEF u

-----------------------------------------------------------------------------
(* Trees. *)

Node == [kv : Nat, lock : Nat, last : Nat, born : Nat]

\* A tree the code can have.
GoodTree(t) ==
    /\ Closed(t)
    /\ IsFiniteSet(DOMAIN t)
    /\ t = [q \in DOMAIN t |-> t[q]]
    /\ \A q \in DOMAIN t : t[q] \in Node

\* The slots in a tree, and that no two nodes have the same.
SlotsIn(t) == {t[q].kv : q \in DOMAIN t}
Distinct(t) == \A q, u \in DOMAIN t : t[q].kv = t[u].kv => q = u

\* u has the nodes of t, with their slots.
SameSlots(t, u) == DOMAIN u = DOMAIN t /\ \A q \in DOMAIN t : u[q].kv = t[q].kv

\* u has some of the nodes of t as they are, the locked ones among them.
LeftOf(u, t) ==
    /\ DOMAIN u \subseteq DOMAIN t
    /\ \A q \in DOMAIN u : u[q].kv = t[q].kv /\ u[q].lock = t[q].lock
    /\ \A q \in DOMAIN t : t[q].lock # 0 => q \in DOMAIN u

LEMMA EmptyIsGood == GoodTree(EmptyTree) /\ DOMAIN EmptyTree = {}
BY FS_EmptySet DEF EmptyTree, GoodTree, Closed

\* The nodes on the way to a path form a finite set of paths.
LEMMA PathNodesFinite ==
    ASSUME NEW p \in Seq(Nat)
    PROVE  /\ IsFiniteSet(PathNodes(p)) /\ Cardinality(PathNodes(p)) = Len(p)
           /\ PathNodes(p) \subseteq Path
           /\ \A q \in PathNodes(p) : PathNodes(q) \subseteq PathNodes(p)
           /\ \A q \in PathNodes(p) : Len(q) \in 1 .. Len(p) /\ q = Pre(p, Len(q))
           /\ \A i \in 1 .. Len(p) : Pre(p, i) \in PathNodes(p) /\ Len(Pre(p, i)) = i
<1>0. Len(p) \in Nat
  OBVIOUS
<1>1. \A i \in 1 .. Len(p) : Pre(p, i) \in PathNodes(p) /\ Len(Pre(p, i)) = i
  BY PreFacts DEF PathNodes
<1>2. CASE p = <<>>
  <2>1. PathNodes(p) = {} /\ Len(p) = 0
    BY <1>2 DEF PathNodes
  <2> QED
    BY <1>1, <2>1, FS_EmptySet
<1>3. CASE p # <<>>
  <2>1. p \in Path
    BY <1>3 DEF Path
  <2>2. \A q \in PathNodes(p) : q \in Path /\ Len(q) \in 1 .. Len(p) /\ q = Pre(p, Len(q))
    BY <2>1, PrefixFacts
  <2>3. \A q \in PathNodes(p) : PathNodes(q) \subseteq PathNodes(p)
    BY <2>1, PrefixTrans
  <2> DEFINE f == [i \in 1 .. Len(p) |-> Pre(p, i)]
  <2>4. f \in Bijection(1 .. Len(p), PathNodes(p))
    <3>1. f \in [1 .. Len(p) -> PathNodes(p)]
      BY <1>1
    <3>2. \A i, j \in 1 .. Len(p) : f[i] = f[j] => i = j
      BY <1>1
    <3>3. \A q \in PathNodes(p) : \E i \in 1 .. Len(p) : f[i] = q
      BY <2>2
    <3> HIDE DEF f
    <3>4. f \in Injection(1 .. Len(p), PathNodes(p))
      BY <3>1, <3>2 DEF Injection, IsInjective
    <3>5. f \in Surjection(1 .. Len(p), PathNodes(p))
      BY <3>1, <3>3 DEF Surjection
    <3> QED
      BY <3>4, <3>5 DEF Bijection
  <2>5. ExistsBijection(1 .. Len(p), PathNodes(p))
    BY <2>4 DEF ExistsBijection
  <2>6. IsFiniteSet(1 .. Len(p)) /\ Cardinality(1 .. Len(p)) = Len(p)
    BY <1>0, CountUpTo
  <2> QED
    BY <1>1, <2>2, <2>3, <2>5, <2>6, FS_Bijection
<1> QED
  BY <1>2, <1>3

\* A walk visits the cached prefixes.
LEMMA WalkAny ==
    ASSUME NEW t, Closed(t), NEW p \in Seq(Nat)
    PROVE  Walk(t, p) = PathNodes(p) \cap DOMAIN t
<1>1. CASE p = <<>>
  BY <1>1 DEF Walk, PathNodes
<1>2. CASE p # <<>>
  BY <1>2, WalkClosed DEF Path
<1> QED
  BY <1>1, <1>2

\* A lookup finds the slots of the cached prefixes, in order.
LEMMA HitFacts ==
    ASSUME NEW t, GoodTree(t), NEW p \in Seq(Nat)
    PROVE  /\ HitLen(t, p) \in 0 .. Len(p)
           /\ \A i \in 1 .. Len(p) : Pre(p, i) \in DOMAIN t <=> i <= HitLen(t, p)
           /\ MatchKV(t, p) \in Seq(Nat)
           /\ Len(MatchKV(t, p)) = HitLen(t, p)
           /\ \A i \in 1 .. HitLen(t, p) : MatchKV(t, p)[i] = t[Pre(p, i)].kv
<1>0. Len(p) \in Nat
  OBVIOUS
<1> DEFINE D == {k \in 0 .. Len(p) : Len(p) - k = 0 \/ Pre(p, Len(p) - k) \in DOMAIN t}
<1>1. PICK m \in D : m \in 0 .. Len(p) /\ \A k \in 0 .. Len(p) : k < m => k \notin D
  <2>1. D \in SUBSET (0 .. Len(p)) /\ Len(p) \in D
    BY <1>0
  <2> HIDE DEF D
  <2> QED
    BY <1>0, <2>1, LeastUpTo
<1> DEFINE h == Len(p) - m
<1>2. h \in 0 .. Len(p) /\ (h = 0 \/ Pre(p, h) \in DOMAIN t)
  BY <1>0, <1>1
<1>3. ASSUME NEW i \in 1 .. Len(p) PROVE Pre(p, i) \in DOMAIN t <=> i <= h
  <2>1. CASE i > h
    <3>1. Len(p) - i \in 0 .. Len(p) /\ Len(p) - i < m /\ Len(p) - (Len(p) - i) = i
      BY <1>0, <1>1, <2>1
    <3>2. Len(p) - i \notin D
      BY <1>1, <3>1
    <3> QED
      BY <1>0, <2>1, <3>1, <3>2
  <2>2. CASE i <= h
    <3>1. h # 0 /\ h \in 1 .. Len(p) /\ i \in 1 .. h
      BY <1>2, <2>2
    <3>2. Pre(p, h) \in DOMAIN t /\ Pre(p, h) \in Seq(Nat) /\ Len(Pre(p, h)) = h
      BY <1>2, <3>1, PreFacts
    <3>3. Pre(Pre(p, h), i) \in PathNodes(Pre(p, h))
      BY <3>1, <3>2, PathNodesFinite
    <3>4. Pre(Pre(p, h), i) = Pre(p, i)
      BY <3>1, PrePre
    <3> QED
      BY <2>2, <3>2, <3>3, <3>4 DEF GoodTree, Closed
  <2> QED
    BY <1>0, <1>2, <2>1, <2>2
<1> HIDE DEF h
<1>4. HitLen(t, p) = h
  <2> DEFINE q == Pre(p, h)
  <2>1. q \in Seq(Nat) /\ Len(q) = h
    BY <1>2, PreFacts
  <2>2. \A i \in 1 .. h : Pre(q, i) = Pre(p, i)
    BY <1>2, PrePre
  <2>3. Walk(t, p) = PathNodes(p) \cap DOMAIN t
    BY WalkAny DEF GoodTree
  <2>4. PathNodes(q) = {Pre(p, i) : i \in 1 .. h}
    <3> HIDE DEF q
    <3> QED
      BY <2>1, <2>2 DEF PathNodes
  <2>5. Walk(t, p) = PathNodes(q)
    <3>1. ASSUME NEW i \in 1 .. Len(p), Pre(p, i) \in DOMAIN t
          PROVE  Pre(p, i) \in {Pre(p, j) : j \in 1 .. h}
      BY <1>2, <1>3, <3>1
    <3>2. ASSUME NEW i \in 1 .. h
          PROVE  Pre(p, i) \in PathNodes(p) \cap DOMAIN t
      BY <1>2, <1>3, <3>2, PathNodesFinite
    <3> QED
      BY <2>3, <2>4, <3>1, <3>2 DEF PathNodes
  <2> QED
    BY <2>1, <2>5, PathNodesFinite DEF HitLen
<1>5. ASSUME NEW i \in 1 .. h PROVE t[Pre(p, i)].kv \in Nat
  BY <1>2, <1>3 DEF GoodTree, Node
<1>6. /\ MatchKV(t, p) \in Seq(Nat)
      /\ Len(MatchKV(t, p)) = h
      /\ \A i \in 1 .. h : MatchKV(t, p)[i] = t[Pre(p, i)].kv
  BY <1>2, <1>4, <1>5 DEF MatchKV
<1> QED
  BY <1>2, <1>3, <1>4, <1>6

\* Changing the fields of the nodes keeps a tree good.
LEMMA RelabelGood ==
    ASSUME NEW t, GoodTree(t), NEW u, DOMAIN u = DOMAIN t, u = [q \in DOMAIN u |-> u[q]],
           \A q \in DOMAIN u : u[q] \in Node
    PROVE  GoodTree(u)
BY DEF GoodTree, Closed

\* Touch changes neither slots nor locks.
LEMMA TouchFacts ==
    ASSUME NEW t, GoodTree(t), NEW p \in Seq(Nat), NEW now \in Nat
    PROVE  /\ GoodTree(Touch(t, p, now))
           /\ DOMAIN Touch(t, p, now) = DOMAIN t
           /\ \A q \in DOMAIN t : /\ Touch(t, p, now)[q].kv = t[q].kv
                                  /\ Touch(t, p, now)[q].lock = t[q].lock
<1> DEFINE u == Touch(t, p, now)
<1>1. DOMAIN u = DOMAIN t /\ u = [q \in DOMAIN u |-> u[q]]
  BY DEF Touch
<1>2. ASSUME NEW q \in DOMAIN t
      PROVE  u[q] \in Node /\ u[q].kv = t[q].kv /\ u[q].lock = t[q].lock
  <2>1. t[q] \in Node
    BY DEF GoodTree
  <2>2. u[q] = IF q \in Walk(t, p) THEN [t[q] EXCEPT !.last = now] ELSE t[q]
    BY DEF Touch
  <2> QED
    BY <2>1, <2>2 DEF Node
<1> HIDE DEF u
<1>3. GoodTree(u)
  BY <1>1, <1>2, RelabelGood
<1> QED
  BY <1>1, <1>2, <1>3 DEF u

\* Lock adds one to the cached nodes on the path.
LEMMA LockFacts ==
    ASSUME NEW t, GoodTree(t), NEW p \in Seq(Nat)
    PROVE  /\ GoodTree(Lock(t, p))
           /\ SameSlots(t, Lock(t, p))
           /\ \A q \in DOMAIN t :
                Lock(t, p)[q].lock = t[q].lock + (IF q \in PathNodes(p) THEN 1 ELSE 0)
<1> DEFINE u == Lock(t, p)
<1>1. DOMAIN u = DOMAIN t /\ u = [q \in DOMAIN u |-> u[q]]
  BY DEF Lock
<1>2. Walk(t, p) = PathNodes(p) \cap DOMAIN t
  BY WalkAny DEF GoodTree
<1>3. ASSUME NEW q \in DOMAIN t
      PROVE  /\ u[q] \in Node /\ u[q].kv = t[q].kv
             /\ u[q].lock = t[q].lock + (IF q \in PathNodes(p) THEN 1 ELSE 0)
  <2>1. t[q] \in Node
    BY DEF GoodTree
  <2>2. u[q] = IF q \in PathNodes(p) THEN [t[q] EXCEPT !.lock = @ + 1] ELSE t[q]
    BY <1>2 DEF Lock
  <2> QED
    BY <2>1, <2>2 DEF Node
<1> HIDE DEF u
<1>4. GoodTree(u)
  BY <1>1, <1>3, RelabelGood
<1> QED
  BY <1>1, <1>3, <1>4 DEF u, SameSlots

\* Unlock takes one off the locked nodes on the path.
LEMMA UnlockFacts ==
    ASSUME NEW t, GoodTree(t), NEW p \in Seq(Nat)
    PROVE  /\ GoodTree(Unlock(t, p))
           /\ SameSlots(t, Unlock(t, p))
           /\ \A q \in DOMAIN t :
                Unlock(t, p)[q].lock = IF q \in PathNodes(p) /\ t[q].lock > 0
                                       THEN t[q].lock - 1 ELSE t[q].lock
<1> DEFINE u == Unlock(t, p)
<1>1. DOMAIN u = DOMAIN t /\ u = [q \in DOMAIN u |-> u[q]]
  BY DEF Unlock
<1>2. Walk(t, p) = PathNodes(p) \cap DOMAIN t
  BY WalkAny DEF GoodTree
<1>3. ASSUME NEW q \in DOMAIN t
      PROVE  /\ u[q] \in Node /\ u[q].kv = t[q].kv
             /\ u[q].lock = IF q \in PathNodes(p) /\ t[q].lock > 0
                            THEN t[q].lock - 1 ELSE t[q].lock
  <2>1. t[q] \in Node
    BY DEF GoodTree
  <2>2. u[q] = IF q \in PathNodes(p)
               THEN [t[q] EXCEPT !.lock = IF @ > 0 THEN @ - 1 ELSE 0] ELSE t[q]
    BY <1>2 DEF Unlock
  <2> QED
    BY <2>1, <2>2 DEF Node
<1> HIDE DEF u
<1>4. GoodTree(u)
  BY <1>1, <1>3, RelabelGood
<1> QED
  BY <1>1, <1>3, <1>4 DEF u, SameSlots

\* u is t with the missing nodes on the way to p, unlocked, on the slots kvs.
Grown(u, t, p, kvs) ==
    /\ GoodTree(u)
    /\ DOMAIN u = DOMAIN t \cup PathNodes(p)
    /\ \A q \in DOMAIN t : u[q].kv = t[q].kv /\ u[q].lock = t[q].lock
    /\ \A q \in PathNodes(p) \ DOMAIN t : u[q].kv = kvs[Len(q)] /\ u[q].lock = 0

\* Insert keeps the slots and locks of the nodes that are there and gives each
\* missing one the caller's slot, unlocked.
LEMMA InsertFacts ==
    ASSUME NEW t, GoodTree(t), NEW p \in Path, NEW kvs, \A i \in 1 .. Len(p) : kvs[i] \in Nat,
           NEW now \in Nat
    PROVE  Grown(Insert(t, p, kvs, now), t, p, kvs)
<1> DEFINE u == Insert(t, p, kvs, now)
<1>1. p \in Seq(Nat)
  BY DEF Path
<1>2. DOMAIN u = DOMAIN t \cup PathNodes(p) /\ Closed(u)
  BY InsertClosed DEF GoodTree, Insert
<1>3. u = [q \in DOMAIN u |-> u[q]]
  BY DEF Insert, InsertFrom
<1>4. IsFiniteSet(DOMAIN u)
  <2>1. IsFiniteSet(PathNodes(p)) /\ IsFiniteSet(DOMAIN t)
    BY <1>1, PathNodesFinite DEF GoodTree
  <2>2. IsFiniteSet(DOMAIN t \cup PathNodes(p))
    BY <2>1, FS_Union
  <2> HIDE DEF u
  <2> QED
    BY <1>2, <2>2
<1>5. ASSUME NEW q \in DOMAIN t
      PROVE  u[q] \in Node /\ u[q].kv = t[q].kv /\ u[q].lock = t[q].lock
  <2>1. t[q] \in Node
    BY DEF GoodTree
  <2>2. u[q] = t[q] \/ u[q] = [t[q] EXCEPT !.last = now]
    BY DEF Insert, InsertFrom
  <2> QED
    BY <2>1, <2>2 DEF Node
<1>6. ASSUME NEW q \in PathNodes(p) \ DOMAIN t
      PROVE  u[q] \in Node /\ u[q].kv = kvs[Len(q)] /\ u[q].lock = 0
  <2>1. u[q] = NewNode(kvs[Len(q)], now)
    BY DEF Insert, InsertFrom
  <2>2. kvs[Len(q)] \in Nat
    BY <1>1, PathNodesFinite
  <2> QED
    BY <2>1, <2>2 DEF NewNode, Node
<1> HIDE DEF u
<1>7. GoodTree(u)
  BY <1>2, <1>3, <1>4, <1>5, <1>6 DEF GoodTree
<1>8. Grown(u, t, p, kvs)
  BY <1>2, <1>5, <1>6, <1>7 DEF Grown
<1> QED
  BY <1>8 DEF u

-----------------------------------------------------------------------------
(* Eviction. *)

\* What eviction may make of the tree t, x.tree with the slots x.freed.
Outcome(x, t) ==
    /\ GoodTree(x.tree)
    /\ DOMAIN x.tree \subseteq DOMAIN t
    /\ \A q \in DOMAIN x.tree : x.tree[q] = t[q]
    /\ \A q \in DOMAIN t : t[q].lock # 0 => q \in DOMAIN x.tree
    /\ x.freed \in Seq(Nat)
    /\ Distinct(t) => /\ NoRepeats(x.freed)
                      /\ ToSet(x.freed) = {t[q].kv : q \in DOMAIN t \ DOMAIN x.tree}

\* It took off k nodes, unless nothing more could go.
TookOff(x, t, k) ==
    \/ Cardinality(DOMAIN x.tree) + k = Cardinality(DOMAIN t)
    \/ EvictableNodes(x.tree) = {}

Untouched(t) == [tree |-> t, freed |-> <<>>]

LEMMA UntouchedOutcome ==
    ASSUME NEW t, GoodTree(t)
    PROVE  Outcome(Untouched(t), t) /\ TookOff(Untouched(t), t, 0)
<1>1. <<>> \in Seq(Nat) /\ NoRepeats(<<>>) /\ ToSet(<<>>) = {}
  <2>1. <<>> \in Seq(Nat) /\ Len(<<>>) = 0
    OBVIOUS
  <2>2. ToSet(<<>>) = {}
    BY <2>1, Members
  <2> QED
    BY <2>1, <2>2 DEF NoRepeats
<1>2. Cardinality(DOMAIN t) \in Nat
  BY FS_CardinalityType DEF GoodTree
<1> QED
  BY <1>1, <1>2 DEF Outcome, TookOff, Untouched

\* Among the evictable leaves one is the least recently used.
LEMMA SomeVictim ==
    ASSUME NEW t, GoodTree(t), EvictableNodes(t) # {}
    PROVE  \E q \in DOMAIN t : IsLRU(t, q)
<1> DEFINE f == [q \in EvictableNodes(t) |-> t[q].last]
           D == {t[q].last : q \in EvictableNodes(t)}
<1>1. EvictableNodes(t) \subseteq DOMAIN t
  BY DEF EvictableNodes
<1>2. IsFiniteSet(EvictableNodes(t))
  BY <1>1, FS_Subset DEF GoodTree
<1>3. f \in Surjection(EvictableNodes(t), D)
  BY DEF Surjection
<1>4. IsFiniteSet(D)
  <2> HIDE DEF f, D
  <2> QED
    BY <1>2, <1>3, FS_Surjection
<1>5. D \subseteq Nat /\ D # {}
  BY <1>1 DEF GoodTree, Node
<1>6. PICK x \in D : \A y \in D : x <= y
  <2> HIDE DEF D
  <2> QED
    BY <1>4, <1>5, LeastMember
<1>7. PICK q \in EvictableNodes(t) : x = t[q].last
  BY <1>6
<1> QED
  BY <1>1, <1>6, <1>7 DEF IsLRU

\* A round takes off one node, if it can.
LEMMA RoundFacts ==
    ASSUME NEW t, GoodTree(t), NEW x, Outcome(x, t), NEW y \in EvictOne(x), NEW k \in Nat,
           TookOff(x, t, k)
    PROVE  Outcome(y, t) /\ TookOff(y, t, k + 1)
<1> DEFINE V == {q \in DOMAIN x.tree : IsLRU(x.tree, q)}
<1>1. CASE V = {}
  <2>1. y = x
    BY <1>1 DEF EvictOne
  <2>2. EvictableNodes(x.tree) = {}
    BY <1>1, SomeVictim DEF Outcome
  <2> QED
    BY <2>1, <2>2 DEF TookOff
<1>2. CASE V # {}
  <2>1. PICK q \in DOMAIN x.tree :
           /\ IsLRU(x.tree, q)
           /\ y = [tree |-> RemoveLeaf(x.tree, q), freed |-> Append(x.freed, x.tree[q].kv)]
    BY <1>2 DEF EvictOne
  <2>2. x.tree[q].lock = 0 /\ ~HasChild(x.tree, q)
    BY <2>1 DEF IsLRU, EvictableNodes
  <2>3. /\ y.tree = RemoveLeaf(x.tree, q) /\ y.freed = Append(x.freed, x.tree[q].kv)
        /\ q \in DOMAIN t /\ x.tree[q] = t[q] /\ t[q] \in Node
    BY <2>1 DEF Outcome, GoodTree
  <2>4. /\ DOMAIN y.tree = DOMAIN x.tree \ {q} /\ Closed(y.tree)
        /\ \A r \in DOMAIN y.tree : y.tree[r] = x.tree[r]
    <3>1. Closed(x.tree)
      BY DEF Outcome, GoodTree
    <3>2. /\ DOMAIN RemoveLeaf(x.tree, q) = DOMAIN x.tree \ {q}
          /\ Closed(RemoveLeaf(x.tree, q))
          /\ \A r \in DOMAIN x.tree \ {q} : RemoveLeaf(x.tree, q)[r] = x.tree[r]
      BY <2>2, <3>1, RemoveClosed
    <3> QED
      BY <2>3, <3>2
  <2>5. /\ IsFiniteSet(DOMAIN y.tree)
        /\ Cardinality(DOMAIN y.tree) + 1 = Cardinality(DOMAIN x.tree)
    <3>1. IsFiniteSet(DOMAIN x.tree) /\ Cardinality(DOMAIN x.tree) \in Nat
      BY FS_CardinalityType DEF Outcome, GoodTree
    <3> QED
      <4>1. /\ IsFiniteSet(DOMAIN x.tree \ {q})
            /\ Cardinality(DOMAIN x.tree \ {q}) = Cardinality(DOMAIN x.tree) - 1
        BY <3>1, FS_RemoveElement
      <4> QED
        BY <2>4, <3>1, <4>1
  <2>6. y.tree = [r \in DOMAIN y.tree |-> y.tree[r]]
    BY <2>3 DEF RemoveLeaf
  <2>7. GoodTree(y.tree)
    BY <2>4, <2>5, <2>6 DEF Outcome, GoodTree
  <2>8. x.freed \in Seq(Nat) /\ t[q].kv \in Nat
    BY <2>3 DEF Outcome, Node
  <2>9. ASSUME Distinct(t)
        PROVE  NoRepeats(y.freed) /\ ToSet(y.freed) = {t[r].kv : r \in DOMAIN t \ DOMAIN y.tree}
    <3>1. NoRepeats(x.freed) /\ ToSet(x.freed) = {t[r].kv : r \in DOMAIN t \ DOMAIN x.tree}
      BY <2>9 DEF Outcome
    <3>2. t[q].kv \notin ToSet(x.freed)
      BY <2>1, <2>3, <2>9, <3>1 DEF Distinct
    <3>3. NoRepeats(y.freed) /\ ToSet(y.freed) = ToSet(x.freed) \cup {t[q].kv}
      BY <2>3, <2>8, <3>1, <3>2, AppendMembers
    <3>4. DOMAIN t \ DOMAIN y.tree = (DOMAIN t \ DOMAIN x.tree) \cup {q}
      BY <2>1, <2>3, <2>4
    <3> QED
      BY <3>1, <3>3, <3>4
  <2>10. Outcome(y, t)
    <3>1. y.freed \in Seq(Nat)
      BY <2>3, <2>8, AppendMembers
    <3>2. \A r \in DOMAIN t : t[r].lock # 0 => r \in DOMAIN y.tree
      BY <2>2, <2>3, <2>4 DEF Outcome
    <3>3. DOMAIN y.tree \subseteq DOMAIN t /\ \A r \in DOMAIN y.tree : y.tree[r] = t[r]
      BY <2>4 DEF Outcome
    <3> QED
      BY <2>7, <2>9, <3>1, <3>2, <3>3 DEF Outcome
  <2>11. TookOff(y, t, k + 1)
    <3>1. EvictableNodes(x.tree) # {}
      BY <2>1 DEF IsLRU
    <3>2. Cardinality(DOMAIN x.tree) + k = Cardinality(DOMAIN t)
      BY <3>1 DEF TookOff
    <3>3. Cardinality(DOMAIN y.tree) \in Nat /\ Cardinality(DOMAIN x.tree) \in Nat
      BY <2>5, FS_CardinalityType DEF Outcome, GoodTree
    <3> QED
      BY <2>5, <3>2, <3>3 DEF TookOff
  <2> QED
    BY <2>10, <2>11
<1> QED
  BY <1>1, <1>2

\* The trees and slot lists that eviction on t can come to.
Trees(t) == UNION {[D -> Node] : D \in SUBSET (DOMAIN t)}
States(t) == [tree : Trees(t), freed : Seq(Nat)]

\* One round stays among them.
LEMMA RoundInStates ==
    ASSUME NEW t, NEW x \in States(t)
    PROVE  EvictOne(x) \subseteq States(t)
<1>1. PICK D \in SUBSET (DOMAIN t) : x.tree \in [D -> Node]
  BY DEF States, Trees
<1>2. x.freed \in Seq(Nat)
  BY DEF States
<1>3. ASSUME NEW q \in DOMAIN x.tree
      PROVE  [tree |-> RemoveLeaf(x.tree, q), freed |-> Append(x.freed, x.tree[q].kv)] \in States(t)
  <2>1. RemoveLeaf(x.tree, q) \in [D \ {q} -> Node]
    BY <1>1 DEF RemoveLeaf
  <2>2. RemoveLeaf(x.tree, q) \in Trees(t)
    BY <2>1 DEF Trees
  <2>3. x.tree[q].kv \in Nat
    BY <1>1 DEF Node
  <2> QED
    BY <1>2, <2>2, <2>3 DEF States
<1> QED
  BY <1>3 DEF EvictOne

\* What evict(n) does to a tree: it leaves the locked nodes, frees the slots of
\* the others it removes, and removes n of them unless it runs out of leaves.
LEMMA EvictionFacts ==
    ASSUME NEW t, GoodTree(t), NEW n \in Nat, NEW e \in Evictions(t, n)
    PROVE  Outcome(e, t) /\ TookOff(e, t, Lesser(n, Cardinality(DOMAIN t)))
<1> DEFINE m == Cardinality(DOMAIN t)
           base == {[tree |-> t, freed |-> <<>>]}
           Rec(f) == f = [k \in 0 .. m |-> IF k = 0 THEN base
                                           ELSE UNION {EvictOne(x) : x \in f[k - 1]}]
           A == SUBSET States(t)
<1>1. m \in Nat
  BY FS_CardinalityType DEF GoodTree
<1>2. base \in A
  <2>1. t \in [DOMAIN t -> Node]
    BY DEF GoodTree
  <2> QED
    BY <2>1 DEF States, Trees
<1>3. PICK G : G = [a \in A \X (1 .. m) |-> UNION {EvictOne(x) : x \in a[1]}]
  OBVIOUS
<1>4. ASSUME NEW a \in A, NEW k \in 1 .. m
      PROVE  G[<<a, k>>] = UNION {EvictOne(x) : x \in a} /\ G[<<a, k>>] \in A
  <2>1. G[<<a, k>>] = UNION {EvictOne(x) : x \in a}
    BY <1>3
  <2> QED
    BY <2>1, RoundInStates
<1>5. G \in [A \X (1 .. m) -> A]
  <2>1. DOMAIN G = A \X (1 .. m) /\ G = [a \in DOMAIN G |-> G[a]]
    BY <1>3
  <2>2. ASSUME NEW a \in A \X (1 .. m) PROVE G[a] \in A
    <3>1. a = <<a[1], a[2]>> /\ a[1] \in A /\ a[2] \in 1 .. m
      OBVIOUS
    <3> QED
      BY <1>4, <3>1
  <2> QED
    BY <2>1, <2>2
<1>6. PICK h : Recursion(h, A, base, m, G)
  <2> HIDE DEF A, m, base
  <2> QED
    BY <1>1, <1>2, <1>5, PrefixRecursion
<1>7. Rec(h)
  <2>1. h = [k \in 0 .. m |-> h[k]] /\ h[0] = base
    BY <1>6 DEF Recursion
  <2>2. ASSUME NEW k \in 0 .. m, k # 0
        PROVE  h[k] = UNION {EvictOne(x) : x \in h[k - 1]}
    <3>1. k \in 1 .. m /\ k - 1 \in 0 .. m
      BY <1>1, <2>2
    <3>2. h[k] = G[<<h[k - 1], k>>] /\ h[k - 1] \in A
      BY <1>6, <3>1 DEF Recursion
    <3> QED
      BY <1>4, <3>1, <3>2
  <2> HIDE DEF base, m
  <2> QED
    BY <2>1, <2>2
<1>8. PICK f : f = (CHOOSE g : Rec(g)) /\ Rec(f)
  <2>1. \E g : Rec(g)
    BY <1>7
  <2> HIDE DEF Rec
  <2> QED
    BY <2>1, Zenon
<1>9. Evictions(t, n) = f[Lesser(n, m)]
  <2>1. Evictions(t, n) = (CHOOSE g : Rec(g))[Lesser(n, m)]
    BY DEF Evictions
  <2> HIDE DEF Rec
  <2> QED
    BY <1>8, <2>1
<1> HIDE DEF A
<1>10. /\ f[0] = {Untouched(t)}
       /\ \A k \in 0 .. m : k # 0 => f[k] = UNION {EvictOne(x) : x \in f[k - 1]}
  <2>1. 0 \in 0 .. m
    BY <1>1
  <2>0. Rec(f)
    <3> HIDE DEF Rec
    <3> QED
      BY <1>8, Zenon
  <2> HIDE DEF m
  <2>2. f[0] = base
    BY <2>0, <2>1
  <2>3. \A k \in 0 .. m : k # 0 => f[k] = UNION {EvictOne(x) : x \in f[k - 1]}
    BY <2>0
  <2> QED
    BY <2>2, <2>3 DEF Untouched
<1> HIDE DEF Rec, m
<1> DEFINE Bad == {k \in 0 .. m : ~ \A x \in f[k] : Outcome(x, t) /\ TookOff(x, t, k)}
<1>11. Bad = {}
  <2> SUFFICES ASSUME Bad # {} PROVE FALSE
    OBVIOUS
  <2>1. PICK k \in Bad : k \in 0 .. m /\ \A j \in 0 .. m : j < k => j \notin Bad
    <3>1. Bad \in SUBSET (0 .. m)
      OBVIOUS
    <3> HIDE DEF Bad
    <3> QED
      BY <1>1, <3>1, LeastUpTo
  <2>2. PICK y \in f[k] : ~(Outcome(y, t) /\ TookOff(y, t, k))
    BY <2>1
  <2>3. k # 0
    BY <1>10, <2>2, UntouchedOutcome
  <2>4. PICK x \in f[k - 1] : y \in EvictOne(x)
    BY <1>10, <2>1, <2>2, <2>3
  <2>5. k - 1 \in 0 .. m /\ k - 1 < k /\ k - 1 \in Nat /\ k - 1 + 1 = k
    BY <1>1, <2>1, <2>3
  <2>6. Outcome(x, t) /\ TookOff(x, t, k - 1)
    BY <2>1, <2>4, <2>5
  <2>7. Outcome(y, t) /\ TookOff(y, t, k - 1 + 1)
    BY <2>4, <2>5, <2>6, RoundFacts
  <2> QED
    BY <2>2, <2>5, <2>7
<1>12. Lesser(n, m) \in 0 .. m
  BY <1>1 DEF Lesser
<1> QED
  BY <1>9, <1>11, <1>12 DEF m

-----------------------------------------------------------------------------
(* Allocation. *)

\* alloc splits the free list: what it takes and what it leaves.
LEMMA AllocFacts ==
    ASSUME NEW pool \in Seq(Nat), NEW n \in Nat, Room(pool, n)
    PROVE  /\ Rest(pool, n) \in Seq(Nat)
           /\ Taken(pool, n) \in Seq(Nat)
           /\ Len(Taken(pool, n)) = n
           /\ ToSet(pool) = ToSet(Rest(pool, n)) \cup ToSet(Taken(pool, n))
           /\ NoRepeats(pool) => /\ NoRepeats(Rest(pool, n))
                                 /\ NoRepeats(Taken(pool, n))
                                 /\ ToSet(Rest(pool, n)) \cap ToSet(Taken(pool, n)) = {}
<1>1. Len(pool) \in Nat /\ Len(pool) - n \in 0 .. Len(pool)
  BY DEF Room
<1> DEFINE m == Len(pool) - n
<1>2. Rest(pool, n) = SubSeq(pool, 1, m) /\ Taken(pool, n) = SubSeq(pool, m + 1, Len(pool))
  BY DEF Rest, Taken, Upto, From
<1>3. Len(SubSeq(pool, m + 1, Len(pool))) = n
  BY <1>1
<1> HIDE DEF m
<1> QED
  BY <1>1, <1>2, <1>3, CutMembers DEF m

\* One list for every request.
Lists == [Reqs -> Seq(Nat)]

\* All that the lists list.
Listed(lists) == UNION {ToSet(lists[r]) : r \in Reqs}

\* OnceEach, with the lists' own predicate for having no repeats.
Once(pool, lists, others, all) ==
    /\ NoRepeats(pool)
    /\ ToSet(pool) \cap others = {}
    /\ \A r \in Reqs : NoRepeats(lists[r]) /\ ToSet(lists[r]) \cap (ToSet(pool) \cup others) = {}
    /\ \A r, q \in Reqs : r # q => ToSet(lists[r]) \cap ToSet(lists[q]) = {}
    /\ ToSet(pool) \cup others \cup Listed(lists) = all

LEMMA OnceEachFacts ==
    ASSUME NEW pool \in Seq(Nat), NEW lists \in Lists, NEW others, NEW all
    PROVE  OnceEach(pool, lists, others, all) <=> Once(pool, lists, others, all)
<1>1. IsInjective(pool) <=> NoRepeats(pool)
  BY InjectiveList
<1>2. \A r \in Reqs : lists[r] \in Seq(Nat)
  BY DEF Lists
<1>3. \A r \in Reqs : IsInjective(lists[r]) <=> NoRepeats(lists[r])
  BY <1>2, InjectiveList
<1> QED
  BY <1>1, <1>3 DEF OnceEach, Once, Listed

\* Moving members between the pool and the others keeps each in one place.
LEMMA Moved ==
    ASSUME NEW pool \in Seq(Nat), NEW lists \in Lists, NEW others, NEW all,
           Once(pool, lists, others, all),
           NEW pool2 \in Seq(Nat), NEW others2, NoRepeats(pool2),
           ToSet(pool2) \cap others2 = {},
           ToSet(pool2) \cup others2 = ToSet(pool) \cup others
    PROVE  Once(pool2, lists, others2, all)
<1>1. \A r \in Reqs : NoRepeats(lists[r]) /\ ToSet(lists[r]) \cap (ToSet(pool) \cup others) = {}
  BY DEF Once
<1>2. \A r, q \in Reqs : r # q => ToSet(lists[r]) \cap ToSet(lists[q]) = {}
  BY DEF Once
<1>3. ToSet(pool) \cup others \cup Listed(lists) = all
  BY DEF Once
<1>4. ToSet(pool2) \cup others2 \cup Listed(lists) = all
  BY <1>3
<1> QED
  BY <1>1, <1>2, <1>4 DEF Once

\* So does taking back all that one request has.
LEMMA TakenBack ==
    ASSUME NEW pool \in Seq(Nat), NEW lists \in Lists, NEW others, NEW all,
           Once(pool, lists, others, all), NEW x \in Reqs,
           NEW pool2 \in Seq(Nat), NEW others2, NoRepeats(pool2),
           ToSet(pool2) \cap others2 = {},
           ToSet(pool2) \cup others2 = ToSet(pool) \cup others \cup ToSet(lists[x]),
           NEW lists2 \in Lists, lists2[x] = <<>>,
           \A r \in Reqs : r # x => lists2[r] = lists[r]
    PROVE  Once(pool2, lists2, others2, all)
<1>0. NoRepeats(<<>>) /\ ToSet(<<>>) = {}
  <2>1. <<>> \in Seq(Nat) /\ Len(<<>>) = 0
    OBVIOUS
  <2>2. ToSet(<<>>) = {}
    BY <2>1, Members
  <2> QED
    BY <2>1, <2>2 DEF NoRepeats
<1>1. \A r \in Reqs : NoRepeats(lists[r]) /\ ToSet(lists[r]) \cap (ToSet(pool) \cup others) = {}
  BY DEF Once
<1>2. \A r, q \in Reqs : r # q => ToSet(lists[r]) \cap ToSet(lists[q]) = {}
  BY DEF Once
<1>3. ToSet(pool) \cup others \cup Listed(lists) = all
  BY DEF Once
<1>4. Listed(lists) = ToSet(lists[x]) \cup Listed(lists2)
  <2>1. \A r \in Reqs : ToSet(lists2[r]) = IF r = x THEN {} ELSE ToSet(lists[r])
    BY <1>0
  <2> QED
    BY <2>1 DEF Listed
<1>5. ToSet(pool2) \cup others2 \cup Listed(lists2) = all
  BY <1>3, <1>4
<1>6. ASSUME NEW r \in Reqs
      PROVE  NoRepeats(lists2[r]) /\ ToSet(lists2[r]) \cap (ToSet(pool2) \cup others2) = {}
  <2>1. CASE r = x
    BY <1>0, <2>1
  <2>2. CASE r # x
    BY <1>1, <1>2, <2>2
  <2> QED
    BY <2>1, <2>2
<1>7. ASSUME NEW r \in Reqs, NEW q \in Reqs, r # q
      PROVE  ToSet(lists2[r]) \cap ToSet(lists2[q]) = {}
  BY <1>0, <1>2, <1>7
<1> QED
  BY <1>5, <1>6, <1>7 DEF Once

\* So does handing each request a part of what is taken from the pool.
LEMMA HandedOut ==
    ASSUME NEW pool \in Seq(Nat), NEW lists \in Lists, NEW others, NEW all,
           Once(pool, lists, others, all),
           NEW rest \in Seq(Nat), NEW given \in Lists, Once(rest, given, {}, ToSet(pool)),
           NEW lists2 \in Lists, \A r \in Reqs : lists2[r] = lists[r] \o given[r]
    PROVE  Once(rest, lists2, others, all)
<1>1. /\ ToSet(pool) \cap others = {}
      /\ \A r \in Reqs : NoRepeats(lists[r]) /\ ToSet(lists[r]) \cap (ToSet(pool) \cup others) = {}
      /\ \A r, q \in Reqs : r # q => ToSet(lists[r]) \cap ToSet(lists[q]) = {}
  BY DEF Once
<1>2. ToSet(pool) \cup others \cup Listed(lists) = all
  BY DEF Once
<1>3. /\ NoRepeats(rest)
      /\ \A r \in Reqs : NoRepeats(given[r]) /\ ToSet(given[r]) \cap ToSet(rest) = {}
      /\ \A r, q \in Reqs : r # q => ToSet(given[r]) \cap ToSet(given[q]) = {}
  BY DEF Once
<1>4. ToSet(rest) \cup Listed(given) = ToSet(pool)
  BY DEF Once
<1>5. ToSet(rest) \subseteq ToSet(pool) /\ \A r \in Reqs : ToSet(given[r]) \subseteq ToSet(pool)
  BY <1>4 DEF Listed
<1>6. ASSUME NEW r \in Reqs
      PROVE  /\ ToSet(lists2[r]) = ToSet(lists[r]) \cup ToSet(given[r])
             /\ NoRepeats(lists2[r])
  <2>1. lists[r] \in Seq(Nat) /\ given[r] \in Seq(Nat)
    BY DEF Lists
  <2>2. ToSet(lists[r]) \cap ToSet(given[r]) = {}
    BY <1>1, <1>5
  <2>3. lists2[r] = lists[r] \o given[r]
    OBVIOUS
  <2> QED
    BY <1>1, <1>3, <2>1, <2>2, <2>3, ConcatMembers
<1>7. ASSUME NEW r \in Reqs
      PROVE  ToSet(lists2[r]) \cap (ToSet(rest) \cup others) = {}
  BY <1>1, <1>3, <1>5, <1>6
<1>8. ASSUME NEW r \in Reqs, NEW q \in Reqs, r # q
      PROVE  ToSet(lists2[r]) \cap ToSet(lists2[q]) = {}
  BY <1>1, <1>3, <1>5, <1>6, <1>8
<1>9. Listed(lists2) = Listed(lists) \cup Listed(given)
  <2>1. \A r \in Reqs : ToSet(lists2[r]) = ToSet(lists[r]) \cup ToSet(given[r])
    BY <1>6
  <2>2. \A x \in Listed(lists2) : x \in Listed(lists) \cup Listed(given)
    BY <2>1 DEF Listed
  <2>3. \A x \in Listed(lists) \cup Listed(given) : x \in Listed(lists2)
    BY <2>1 DEF Listed
  <2> QED
    BY <2>2, <2>3
<1>10. ToSet(rest) \cup others \cup Listed(lists2) = all
  BY <1>2, <1>4, <1>9
<1>11. ToSet(rest) \cap others = {}
  BY <1>1, <1>5
<1> QED
  BY <1>3, <1>6, <1>7, <1>8, <1>10, <1>11 DEF Once

\* All that is taken goes to one request.
ToOne(x, s) == [r \in Reqs |-> IF r = x THEN s ELSE <<>>]

LEMMA OneTaker ==
    ASSUME NEW pool \in Seq(Nat), NEW n \in Nat, Room(pool, n), NoRepeats(pool), NEW x \in Reqs
    PROVE  /\ ToOne(x, Taken(pool, n)) \in Lists
           /\ Once(Rest(pool, n), ToOne(x, Taken(pool, n)), {}, ToSet(pool))
<1> DEFINE t == Taken(pool, n)
           g == ToOne(x, t)
<1>0. <<>> \in Seq(Nat) /\ NoRepeats(<<>>) /\ ToSet(<<>>) = {}
  <2>1. <<>> \in Seq(Nat) /\ Len(<<>>) = 0
    OBVIOUS
  <2>2. ToSet(<<>>) = {}
    BY <2>1, Members
  <2> QED
    BY <2>1, <2>2 DEF NoRepeats
<1>1. /\ Rest(pool, n) \in Seq(Nat) /\ t \in Seq(Nat)
      /\ ToSet(pool) = ToSet(Rest(pool, n)) \cup ToSet(t)
      /\ NoRepeats(Rest(pool, n)) /\ NoRepeats(t)
      /\ ToSet(Rest(pool, n)) \cap ToSet(t) = {}
  BY AllocFacts
<1> HIDE DEF t
<1>2. g \in Lists /\ \A r \in Reqs : g[r] = IF r = x THEN t ELSE <<>>
  BY <1>0, <1>1 DEF Lists, ToOne
<1> HIDE DEF g
<1>3. Listed(g) = ToSet(t)
  BY <1>0, <1>2 DEF Listed
<1>4. \A r \in Reqs : NoRepeats(g[r]) /\ ToSet(g[r]) \cap ToSet(Rest(pool, n)) = {}
  BY <1>0, <1>1, <1>2
<1>5. \A r, q \in Reqs : r # q => ToSet(g[r]) \cap ToSet(g[q]) = {}
  BY <1>0, <1>2
<1>6. Once(Rest(pool, n), g, {}, ToSet(pool))
  BY <1>1, <1>2, <1>3, <1>4, <1>5 DEF Once
<1> QED
  BY <1>2, <1>6 DEF g, t

\* Total adds the widths up one after the other.
LEMMA TotalFacts ==
    ASSUME NEW rs \in Seq(Reqs)
    PROVE  /\ Total(Upto(rs, 0)) = 0
           /\ \A k \in 0 .. Len(rs) : Total(Upto(rs, k)) \in Int
           /\ \A k \in 0 .. Len(rs) - 1 :
                Total(Upto(rs, k + 1)) = Total(Upto(rs, k)) + Width[rs[k + 1]]
           /\ Total(Upto(rs, Len(rs))) = Total(rs)
<1> DEFINE W(u) == [i \in 1 .. Len(u) |-> Width[u[i]]]
<1>0. Len(rs) \in Nat /\ \A r \in Reqs : Width[r] \in Int
  BY ParametersAssumption
<1>1. ASSUME NEW k \in 0 .. Len(rs)
      PROVE  /\ Upto(rs, k) \in Seq(Reqs) /\ Len(Upto(rs, k)) = k
             /\ \A i \in 1 .. k : Upto(rs, k)[i] = rs[i]
  BY <1>0 DEF Upto
<1>2. ASSUME NEW u \in Seq(Reqs)
      PROVE  /\ W(u) \in Seq(Int) /\ Len(W(u)) = Len(u)
             /\ \A i \in 1 .. Len(u) : W(u)[i] = Width[u[i]]
             /\ Total(u) = Summed(W(u))
  <2>1. Len(u) \in Nat /\ \A i \in 1 .. Len(u) : Width[u[i]] \in Int
    BY <1>0
  <2>2. Total(u) = Summed(W(u))
    BY DEF Total, Summed
  <2> QED
    BY <2>1, <2>2
<1> HIDE DEF W
<1>3. ASSUME NEW k \in 0 .. Len(rs) PROVE Total(Upto(rs, k)) \in Int
  BY <1>1, <1>2, SumStep
<1>4. Total(Upto(rs, 0)) = 0
  <2>1. 0 \in 0 .. Len(rs)
    BY <1>0
  <2>2. Upto(rs, 0) \in Seq(Reqs) /\ Len(Upto(rs, 0)) = 0
    BY <1>1, <2>1
  <2>3. W(Upto(rs, 0)) \in Seq(Int) /\ Len(W(Upto(rs, 0))) = 0
    BY <1>2, <2>2
  <2>4. W(Upto(rs, 0)) = <<>>
    BY <2>3
  <2> QED
    BY <1>2, <2>2, <2>4, SumStep
<1>5. ASSUME NEW k \in 0 .. Len(rs) - 1
      PROVE  Total(Upto(rs, k + 1)) = Total(Upto(rs, k)) + Width[rs[k + 1]]
  <2> DEFINE s == W(Upto(rs, k))
             t == W(Upto(rs, k + 1))
  <2>1. k \in 0 .. Len(rs) /\ k + 1 \in 0 .. Len(rs) /\ k \in Nat
    BY <1>0
  <2>2. /\ Upto(rs, k) \in Seq(Reqs) /\ Len(Upto(rs, k)) = k
        /\ \A i \in 1 .. k : Upto(rs, k)[i] = rs[i]
    BY <1>1, <2>1
  <2>3. /\ Upto(rs, k + 1) \in Seq(Reqs) /\ Len(Upto(rs, k + 1)) = k + 1
        /\ \A i \in 1 .. k + 1 : Upto(rs, k + 1)[i] = rs[i]
    BY <1>1, <2>1
  <2>4. s \in Seq(Int) /\ Len(s) = k /\ \A i \in 1 .. k : s[i] = Width[rs[i]]
    BY <1>2, <2>2
  <2>5. t \in Seq(Int) /\ Len(t) = k + 1 /\ \A i \in 1 .. k + 1 : t[i] = Width[rs[i]]
    BY <1>2, <2>3
  <2>6. Total(Upto(rs, k)) = Summed(s) /\ Total(Upto(rs, k + 1)) = Summed(t)
    BY <1>2, <2>2, <2>3
  <2> HIDE DEF s, t
  <2>7. Summed(t) = Summed(s) + t[Len(t)]
    <3>1. Len(t) = Len(s) + 1 /\ \A i \in 1 .. Len(s) : t[i] = s[i]
      BY <2>1, <2>4, <2>5
    <3> QED
      BY <2>4, <2>5, <3>1, SumStep
  <2> QED
    BY <2>1, <2>5, <2>6, <2>7
<1>6. Upto(rs, Len(rs)) = rs
  BY <1>0 DEF Upto
<1> QED
  BY <1>3, <1>4, <1>5, <1>6

\* A total is a number of slots or rows.
LEMMA TotalNat ==
    ASSUME NEW rs \in Seq(Reqs)
    PROVE  Total(rs) \in Nat
<1> DEFINE n == Len(rs)
           Bad == {k \in 0 .. n : Total(Upto(rs, k)) \notin Nat}
<1>0. n \in Nat /\ n \in 0 .. n /\ \A r \in Reqs : Width[r] \in Nat
  BY ParametersAssumption
<1>1. Bad = {}
  <2> SUFFICES ASSUME Bad # {} PROVE FALSE
    OBVIOUS
  <2>1. PICK k \in Bad : k \in 0 .. n /\ \A m \in 0 .. n : m < k => m \notin Bad
    <3>1. Bad \in SUBSET (0 .. n)
      OBVIOUS
    <3> HIDE DEF Bad, n
    <3> QED
      BY <1>0, <3>1, LeastUpTo
  <2>2. k # 0
    BY <2>1, TotalFacts
  <2>3. k - 1 \in 0 .. n /\ k - 1 \in 0 .. n - 1 /\ k - 1 + 1 = k /\ k - 1 < k /\ rs[k] \in Reqs
    BY <1>0, <2>1, <2>2
  <2>4. Total(Upto(rs, k - 1)) \in Nat
    BY <2>1, <2>3
  <2>5. Total(Upto(rs, k - 1 + 1)) = Total(Upto(rs, k - 1)) + Width[rs[k - 1 + 1]]
    BY <2>3, TotalFacts
  <2> QED
    BY <1>0, <2>1, <2>3, <2>4, <2>5
<1> QED
  BY <1>0, <1>1, TotalFacts

\* The parts of an allocation: each request of rs has one, they have nothing in
\* common, and together they are all of it.
LEMMA SharesApart ==
    ASSUME NEW rs \in Seq(Reqs), NoRepeats(rs),
           NEW loc \in Seq(Nat), Len(loc) = Total(rs)
    PROVE  /\ \A r \in ToSet(rs) : Share(loc, rs, r) \in Seq(Nat)
           /\ NoRepeats(loc) =>
                /\ \A r \in ToSet(rs) : NoRepeats(Share(loc, rs, r))
                /\ \A r, q \in ToSet(rs) :
                     r # q => ToSet(Share(loc, rs, r)) \cap ToSet(Share(loc, rs, q)) = {}
           /\ UNION {ToSet(Share(loc, rs, r)) : r \in ToSet(rs)} = ToSet(loc)
<1> DEFINE n == Len(rs)
           P == [k \in 0 .. n |-> Total(Upto(rs, k))]
<1>0. n \in Nat /\ Len(loc) \in Nat /\ \A r \in Reqs : Width[r] \in Nat
  BY ParametersAssumption
<1>1. /\ P[0] = 0
      /\ \A k \in 0 .. n : P[k] \in Int
      /\ \A k \in 0 .. n - 1 : P[k + 1] = P[k] + Width[rs[k + 1]]
      /\ P[n] = Len(loc)
  BY <1>0, TotalFacts
<1>2. ToSet(rs) = {rs[k] : k \in 1 .. n}
  BY Members
<1>3. \A k \in 0 .. n : Total(Upto(rs, k)) = P[k]
  OBVIOUS
<1>4. \A k \in 1 .. n : rs[k] \in Reqs
  OBVIOUS
<1> HIDE DEF P
<1>5. ASSUME NEW i \in 0 .. n, NEW j \in 0 .. n, i <= j
      PROVE  P[i] <= P[j]
  <2> DEFINE Bad == {k \in 0 .. n : i <= k /\ ~(P[i] <= P[k])}
  <2>1. Bad = {}
    <3> SUFFICES ASSUME Bad # {} PROVE FALSE
      OBVIOUS
    <3>1. PICK k \in Bad : k \in 0 .. n /\ \A m \in 0 .. n : m < k => m \notin Bad
      <4>1. Bad \in SUBSET (0 .. n)
        OBVIOUS
      <4> HIDE DEF Bad, n
      <4> QED
        BY <1>0, <4>1, LeastUpTo
    <3>2. k # i
      BY <1>1, <3>1
    <3>3. k - 1 \in 0 .. n /\ k - 1 \in 0 .. n - 1 /\ i <= k - 1 /\ k - 1 + 1 = k
      BY <1>0, <3>1, <3>2
    <3>4. P[i] <= P[k - 1]
      BY <3>1, <3>3
    <3>5. P[k] = P[k - 1] + Width[rs[k]] /\ Width[rs[k]] \in Nat
      BY <1>0, <1>1, <1>4, <3>1, <3>3
    <3>6. P[i] \in Int /\ P[k - 1] \in Int /\ i <= k /\ ~(P[i] <= P[k])
      BY <1>1, <3>1, <3>3
    <3> QED
      BY <3>4, <3>5, <3>6
  <2> QED
    BY <1>5, <2>1
<1>6. ASSUME NEW k \in 0 .. n - 1
      PROVE  /\ Share(loc, rs, rs[k + 1]) \in Seq(Nat)
             /\ NoRepeats(loc) => NoRepeats(Share(loc, rs, rs[k + 1]))
             /\ ToSet(Share(loc, rs, rs[k + 1])) = {loc[i] : i \in P[k] + 1 .. P[k + 1]}
             /\ P[k + 1] <= Len(loc) /\ P[k] \in Nat /\ P[k + 1] \in Nat
  <2> DEFINE r == rs[k + 1]
  <2>1. k \in 0 .. n /\ k + 1 \in 0 .. n /\ k + 1 \in 1 .. n /\ 0 \in 0 .. n /\ n \in 0 .. n
    BY <1>0
  <2>2. (CHOOSE m \in 0 .. n - 1 : rs[m + 1] = r) = k
    <3>1. \A m \in 0 .. n - 1 : rs[m + 1] = r => m = k
      <4> SUFFICES ASSUME NEW m \in 0 .. n - 1, rs[m + 1] = r PROVE m = k
        OBVIOUS
      <4>1. m + 1 \in 1 .. n
        BY <1>0
      <4>2. m + 1 = k + 1
        BY <2>1, <4>1 DEF NoRepeats
      <4> QED
        BY <4>2
    <3>2. k \in 0 .. n - 1 /\ rs[k + 1] = r
      OBVIOUS
    <3> HIDE DEF r, n
    <3> QED
      BY <3>1, <3>2, Zenon
  <2>3. P[k] \in Nat /\ P[k + 1] \in Nat /\ P[k + 1] = P[k] + Width[r] /\ P[k + 1] <= Len(loc)
    BY <1>1, <1>5, <2>1
  <2>4. Share(loc, rs, r) = SubSeq(loc, P[k] + 1, P[k + 1])
    <3> DEFINE c == CHOOSE m \in 0 .. n - 1 : rs[m + 1] = r
    <3>1. Share(loc, rs, r) =
            LET before == Total(Upto(rs, c))
            IN  SubSeq(loc, before + 1, before + Width[r])
      BY DEF Share
    <3>2. c = k
      BY <2>2, Zenon
    <3> HIDE DEF r, n, c
    <3> QED
      BY <1>3, <2>1, <2>3, <3>1, <3>2
  <2> HIDE DEF r
  <2>5. /\ SubSeq(loc, P[k] + 1, P[k + 1]) \in Seq(Nat)
        /\ ToSet(SubSeq(loc, P[k] + 1, P[k + 1])) = {loc[i] : i \in P[k] + 1 .. P[k + 1]}
        /\ NoRepeats(loc) => NoRepeats(SubSeq(loc, P[k] + 1, P[k + 1]))
    <3>1. \A a \in Nat \ {0}, b \in Nat : b <= Len(loc) =>
             /\ SubSeq(loc, a, b) \in Seq(Nat)
             /\ ToSet(SubSeq(loc, a, b)) = {loc[i] : i \in a .. b}
             /\ NoRepeats(loc) => NoRepeats(SubSeq(loc, a, b))
      BY SliceMembers
    <3>2. P[k] + 1 \in Nat \ {0} /\ P[k + 1] \in Nat /\ P[k + 1] <= Len(loc)
      BY <2>3
    <3> QED
      BY <3>1, <3>2
  <2> QED
    BY <2>3, <2>4, <2>5 DEF r
<1>7. ASSUME NEW r \in ToSet(rs)
      PROVE  \E k \in 0 .. n - 1 : r = rs[k + 1]
  <2>1. PICK k \in 1 .. n : r = rs[k]
    BY <1>2
  <2>2. k - 1 \in 0 .. n - 1 /\ k - 1 + 1 = k
    BY <1>0
  <2> QED
    BY <2>1, <2>2
<1>8. /\ \A r \in ToSet(rs) : Share(loc, rs, r) \in Seq(Nat)
      /\ NoRepeats(loc) => \A r \in ToSet(rs) : NoRepeats(Share(loc, rs, r))
  BY <1>6, <1>7
<1>9. ASSUME NoRepeats(loc), NEW k \in 0 .. n - 1, NEW m \in 0 .. n - 1, k < m
      PROVE  ToSet(Share(loc, rs, rs[k + 1])) \cap ToSet(Share(loc, rs, rs[m + 1])) = {}
  <2>1. P[k + 1] <= P[m]
    BY <1>0, <1>5, <1>9
  <2>2. /\ P[k] \in Nat /\ P[k + 1] \in Nat /\ P[m] \in Nat /\ P[m + 1] \in Nat
        /\ P[k + 1] <= Len(loc) /\ P[m + 1] <= Len(loc)
    BY <1>6
  <2>3. ASSUME NEW i \in P[k] + 1 .. P[k + 1], NEW j \in P[m] + 1 .. P[m + 1]
        PROVE  loc[i] # loc[j]
    <3>1. i \in 1 .. Len(loc) /\ j \in 1 .. Len(loc) /\ i # j
      <4> DEFINE a == P[k]
                 b == P[k + 1]
                 c == P[m]
                 d == P[m + 1]
      <4>1. /\ a \in Nat /\ b \in Nat /\ c \in Nat /\ d \in Nat /\ b <= c
            /\ b <= Len(loc) /\ d <= Len(loc) /\ i \in a + 1 .. b /\ j \in c + 1 .. d
        BY <2>1, <2>2
      <4> HIDE DEF a, b, c, d
      <4> QED
        BY <1>0, <4>1
    <3> QED
      BY <1>9, <3>1 DEF NoRepeats
  <2>4. /\ ToSet(Share(loc, rs, rs[k + 1])) = {loc[i] : i \in P[k] + 1 .. P[k + 1]}
        /\ ToSet(Share(loc, rs, rs[m + 1])) = {loc[i] : i \in P[m] + 1 .. P[m + 1]}
    BY <1>6
  <2> QED
    BY <2>3, <2>4
<1>10. ASSUME NoRepeats(loc), NEW r \in ToSet(rs), NEW q \in ToSet(rs), r # q
       PROVE  ToSet(Share(loc, rs, r)) \cap ToSet(Share(loc, rs, q)) = {}
  <2>1. PICK k \in 0 .. n - 1 : r = rs[k + 1]
    BY <1>7
  <2>2. PICK m \in 0 .. n - 1 : q = rs[m + 1]
    BY <1>7
  <2>3. k < m \/ m < k
    BY <1>0, <1>10, <2>1, <2>2
  <2> QED
    BY <1>9, <1>10, <2>1, <2>2, <2>3
<1>11. ToSet(loc) = {loc[i] : i \in 1 .. Len(loc)}
  BY Members
<1>12. ASSUME NEW x \in ToSet(loc)
       PROVE  \E r \in ToSet(rs) : x \in ToSet(Share(loc, rs, r))
  <2>1. PICK i \in 1 .. Len(loc) : x = loc[i]
    BY <1>11
  <2> DEFINE D == {k \in 0 .. n : i <= P[k]}
  <2>2. PICK k \in D : k \in 0 .. n /\ \A m \in 0 .. n : m < k => m \notin D
    <3>1. D \in SUBSET (0 .. n) /\ n \in D
      BY <1>0, <1>1, <2>1
    <3> HIDE DEF D, n
    <3> QED
      BY <1>0, <3>1, LeastUpTo
  <2>3. k # 0
    BY <1>1, <2>2
  <2>4. k - 1 \in 0 .. n - 1 /\ k - 1 \in 0 .. n /\ k - 1 + 1 = k /\ k - 1 < k
    BY <1>0, <2>2, <2>3
  <2>5. i \in P[k - 1] + 1 .. P[k]
    BY <1>0, <1>1, <2>2, <2>4
  <2>6. ToSet(Share(loc, rs, rs[k])) = {loc[j] : j \in P[k - 1] + 1 .. P[k]}
    <3>1. ToSet(Share(loc, rs, rs[k - 1 + 1])) = {loc[j] : j \in P[k - 1] + 1 .. P[k - 1 + 1]}
      BY <1>6, <2>4
    <3> QED
      BY <2>4, <3>1
  <2>7. rs[k] \in ToSet(rs)
    BY <1>0, <1>2, <2>2, <2>3
  <2> QED
    BY <2>1, <2>5, <2>6, <2>7
<1>13. ASSUME NEW r \in ToSet(rs)
       PROVE  ToSet(Share(loc, rs, r)) \subseteq ToSet(loc)
  <2>1. PICK k \in 0 .. n - 1 : r = rs[k + 1]
    BY <1>7
  <2>2. /\ ToSet(Share(loc, rs, rs[k + 1])) = {loc[i] : i \in P[k] + 1 .. P[k + 1]}
        /\ P[k + 1] <= Len(loc) /\ P[k] \in Nat /\ P[k + 1] \in Nat
    BY <1>6
  <2>3. \A i \in P[k] + 1 .. P[k + 1] : i \in 1 .. Len(loc)
    BY <1>0, <2>2
  <2> QED
    BY <1>11, <2>1, <2>2, <2>3
<1> QED
  BY <1>8, <1>10, <1>12, <1>13

\* What is taken is dealt to the requests S, each its share.
Dealt(loc, rs, S) == [r \in Reqs |-> IF r \in S THEN Share(loc, rs, r) ELSE <<>>]

LEMMA DealtType ==
    ASSUME NEW pool \in Seq(Nat),
           NEW rs \in Seq(Reqs), NoRepeats(rs), Room(pool, Total(rs))
    PROVE  /\ Total(rs) \in Nat
           /\ Dealt(Taken(pool, Total(rs)), rs, ToSet(rs)) \in Lists
<1> DEFINE n == Total(rs)
<1>1. n \in Nat
  BY TotalNat
<1> HIDE DEF n
<1>2. Taken(pool, n) \in Seq(Nat) /\ Len(Taken(pool, n)) = n
  BY <1>1, AllocFacts DEF n
<1>3. \A r \in ToSet(rs) : Share(Taken(pool, n), rs, r) \in Seq(Nat)
  BY <1>2, SharesApart DEF n
<1>4. <<>> \in Seq(Nat)
  OBVIOUS
<1> QED
  BY <1>1, <1>3, <1>4 DEF Dealt, Lists, n

LEMMA ManyTakers ==
    ASSUME NEW pool \in Seq(Nat), NoRepeats(pool),
           NEW rs \in Seq(Reqs), NoRepeats(rs), Room(pool, Total(rs))
    PROVE  /\ Total(rs) \in Nat
           /\ Dealt(Taken(pool, Total(rs)), rs, ToSet(rs)) \in Lists
           /\ Once(Rest(pool, Total(rs)), Dealt(Taken(pool, Total(rs)), rs, ToSet(rs)), {}, ToSet(pool))
<1> DEFINE n == Total(rs)
           t == Taken(pool, n)
           g == Dealt(t, rs, ToSet(rs))
<1>0. <<>> \in Seq(Nat) /\ NoRepeats(<<>>) /\ ToSet(<<>>) = {}
  <2>1. <<>> \in Seq(Nat) /\ Len(<<>>) = 0
    OBVIOUS
  <2>2. ToSet(<<>>) = {}
    BY <2>1, Members
  <2> QED
    BY <2>1, <2>2 DEF NoRepeats
<1>1. n \in Nat
  BY TotalNat
<1> HIDE DEF n
<1>2. /\ Rest(pool, n) \in Seq(Nat) /\ t \in Seq(Nat) /\ Len(t) = n
      /\ ToSet(pool) = ToSet(Rest(pool, n)) \cup ToSet(t)
      /\ NoRepeats(Rest(pool, n)) /\ NoRepeats(t)
      /\ ToSet(Rest(pool, n)) \cap ToSet(t) = {}
  BY <1>1, AllocFacts DEF n
<1> HIDE DEF t
<1>3. ToSet(rs) \subseteq Reqs
  BY Members
<1>4. /\ \A r \in ToSet(rs) : Share(t, rs, r) \in Seq(Nat) /\ NoRepeats(Share(t, rs, r))
      /\ \A r, q \in ToSet(rs) : r # q => ToSet(Share(t, rs, r)) \cap ToSet(Share(t, rs, q)) = {}
      /\ UNION {ToSet(Share(t, rs, r)) : r \in ToSet(rs)} = ToSet(t)
  BY <1>2, SharesApart DEF n
<1>5. g \in Lists /\ \A r \in Reqs : g[r] = IF r \in ToSet(rs) THEN Share(t, rs, r) ELSE <<>>
  BY <1>0, <1>4 DEF Lists, Dealt
<1> HIDE DEF g
<1>6. Listed(g) = ToSet(t)
  <2>1. \A r \in Reqs : ToSet(g[r]) = IF r \in ToSet(rs) THEN ToSet(Share(t, rs, r)) ELSE {}
    BY <1>0, <1>5
  <2> QED
    BY <1>3, <1>4, <2>1 DEF Listed
<1>7. \A r \in Reqs : NoRepeats(g[r]) /\ ToSet(g[r]) \cap ToSet(Rest(pool, n)) = {}
  <2> SUFFICES ASSUME NEW r \in Reqs
               PROVE  NoRepeats(g[r]) /\ ToSet(g[r]) \cap ToSet(Rest(pool, n)) = {}
    OBVIOUS
  <2>1. ToSet(g[r]) \subseteq ToSet(t)
    BY <1>6 DEF Listed
  <2> QED
    BY <1>0, <1>2, <1>4, <1>5, <2>1
<1>8. \A r, q \in Reqs : r # q => ToSet(g[r]) \cap ToSet(g[q]) = {}
  BY <1>0, <1>4, <1>5
<1>9. Once(Rest(pool, n), g, {}, ToSet(pool))
  BY <1>2, <1>5, <1>6, <1>7, <1>8 DEF Once
<1> QED
  BY <1>1, <1>5, <1>9 DEF g, t, n

-----------------------------------------------------------------------------
(* The worker and its requests. *)

Phases == {"new", "matched", "running", "finished", "dropped", "done"}

Request == [phase : Phases, hit : Nat, full : Seq(Nat), locked : Seq(Nat), owned : Seq(Nat),
            row : Seq(Nat), beams : Seq(Nat), steps : Nat]

\* What the fields of a request with the prompt p say in each phase.
Typed(rec) == rec \in Request /\ rec.hit <= Len(rec.full)

Sound(rec, p) ==
    /\ Typed(rec)
    /\ rec.phase = "new" => rec = NewReq
    /\ rec.phase = "matched" => rec.locked = <<>> /\ rec.owned = <<>> /\ rec.beams = <<>>
    /\ rec.phase \in {"running", "finished"} => rec.locked = Upto(p, rec.hit)
    /\ rec.phase \in {"matched", "running", "finished"} => /\ Len(rec.full) = Len(p)
                                                           /\ rec.hit < Len(p)

\* The stages, and the requests that the worker has in hand in each.
Worker ==
    /\ batch \in Seq(Reqs) /\ NoRepeats(batch)
    /\ prepared \in Seq(Reqs) /\ NoRepeats(prepared)
    /\ stage \in {"warmup", "idle", "match", "wave", "each"}
    /\ \A r \in ToSet(batch) : req[r].phase = "new"
    /\ \A r \in Reqs : req[r].phase = "matched" <=> r \in ToSet(prepared)
    /\ stage # "match" => batch = <<>>
    /\ stage \in {"warmup", "idle"} => prepared = <<>>
    /\ stage = "each" => prepared # <<>>
    /\ stage = "warmup" => \A r \in Reqs : req[r].phase = "new"

RowLists == [r \in Reqs |-> RowsOf(r)]

BaseInv ==
    /\ setup \in Setups
    /\ free \in Seq(Nat)
    /\ free_rows \in Seq(Nat)
    /\ GoodTree(tree)
    /\ clock \in Nat
    /\ req = [r \in Reqs |-> req[r]]
    /\ \A r \in Reqs : Sound(req[r], Prompt[r])
    /\ Worker
    /\ Once(free_rows, RowLists, {}, 1 .. NumRows)

\* The parameters of the deployment.
LEMMA SetupFacts ==
    ASSUME setup \in Setups
    PROVE  /\ \A r \in Reqs : Prompt[r] \in Path /\ Prompt[r] \in Seq(Nat) /\ Len(Prompt[r]) \in Nat \ {0}
           /\ Pinned \in Seq(Nat)
           /\ NumSlots \in Nat /\ NumRows \in Nat /\ Cap \in Nat
<1>1. ASSUME NEW r \in Reqs
      PROVE  Prompt[r] \in Path /\ Prompt[r] \in Seq(Nat) /\ Len(Prompt[r]) \in Nat \ {0}
  <2>1. Prompt[r] \in Seq(Nat) \ {<<>>}
    BY ParametersAssumption DEF Prompt
  <2> QED
    BY <2>1 DEF Path
<1>2. Pinned \in Seq(Nat) /\ NumSlots \in Nat /\ NumRows \in Nat /\ Cap \in Nat
  BY ParametersAssumption DEF Pinned, NumSlots, NumRows, Cap
<1> QED
  BY <1>1, <1>2

LEMMA SetupSame ==
    ASSUME setup' = setup
    PROVE  /\ Prompt' = Prompt /\ Pinned' = Pinned
           /\ NumSlots' = NumSlots /\ NumRows' = NumRows /\ Cap' = Cap
BY DEF Prompt, Pinned, NumSlots, NumRows, Cap

\* A request's lists.
LEMMA RequestLists ==
    ASSUME NEW rec, Typed(rec)
    PROVE  /\ rec.row \in Seq(Nat) /\ rec.beams \in Seq(Nat) /\ rec.row \o rec.beams \in Seq(Nat)
           /\ rec.full \in Seq(Nat) /\ rec.owned \in Seq(Nat) /\ rec.locked \in Seq(Nat)
           /\ rec.hit \in 0 .. Len(rec.full) /\ Len(rec.full) \in Nat
           /\ From(rec.full, rec.hit + 1) \in Seq(Nat)
           /\ From(rec.full, rec.hit + 1) \o rec.owned \in Seq(Nat)
<1>1. /\ rec.row \in Seq(Nat) /\ rec.beams \in Seq(Nat)
      /\ rec.full \in Seq(Nat) /\ rec.owned \in Seq(Nat) /\ rec.locked \in Seq(Nat)
      /\ rec.hit \in Nat /\ rec.hit <= Len(rec.full)
  BY DEF Typed, Request
<1>2. rec.row \o rec.beams \in Seq(Nat)
  BY <1>1, ConcatMembers
<1>3. rec.hit \in 0 .. Len(rec.full) /\ Len(rec.full) \in Nat
  BY <1>1
<1>4. From(rec.full, rec.hit + 1) \in Seq(Nat)
  BY <1>1, <1>3, CutMembers DEF From
<1>5. From(rec.full, rec.hit + 1) \o rec.owned \in Seq(Nat)
  BY <1>1, <1>4, ConcatMembers
<1> QED
  BY <1>1, <1>2, <1>3, <1>4, <1>5

LEMMA RowListsType ==
    ASSUME \A r \in Reqs : Typed(req[r])
    PROVE  RowLists \in Lists /\ \A r \in Reqs : RowLists[r] = req[r].row \o req[r].beams
BY RequestLists DEF RowLists, RowsOf, Lists

LEMMA EmptyList == <<>> \in Seq(Nat) /\ Len(<<>>) = 0 /\ NoRepeats(<<>>) /\ ToSet(<<>>) = {}
<1>1. <<>> \in Seq(Nat) /\ Len(<<>>) = 0
  OBVIOUS
<1>2. ToSet(<<>>) = {}
  BY <1>1, Members
<1> QED
  BY <1>1, <1>2 DEF NoRepeats

\* Concatenating two lists.
LEMMA ConcatLen ==
    ASSUME NEW s \in Seq(Nat), NEW t \in Seq(Nat)
    PROVE  /\ Len(s \o t) = Len(s) + Len(t)
           /\ \A i \in 1 .. Len(s) : (s \o t)[i] = s[i]
           /\ \A k \in 1 .. Len(t) : (s \o t)[Len(s) + k] = t[k]
           /\ SubSeq(s \o t, Len(s) + 1, Len(s \o t)) = t
<1>1. /\ s \o t \in Seq(Nat) /\ Len(s \o t) = Len(s) + Len(t)
      /\ Len(s) \in Nat /\ Len(t) \in Nat
      /\ \A i \in 1 .. Len(s) : (s \o t)[i] = s[i]
  BY ConcatMembers
<1>2. \A k \in 1 .. Len(t) : (s \o t)[Len(s) + k] = t[k]
  BY <1>1
<1>3. PICK u \in Seq(Nat) : u = s \o t
  BY <1>1
<1>4. /\ SubSeq(u, Len(s) + 1, Len(u)) \in Seq(Nat)
      /\ Len(SubSeq(u, Len(s) + 1, Len(u))) = Len(t)
      /\ \A k \in 1 .. Len(t) : SubSeq(u, Len(s) + 1, Len(u))[k] = u[Len(s) + k]
  BY <1>1, <1>3
<1>5. \A k \in 1 .. Len(t) : SubSeq(u, Len(s) + 1, Len(u))[k] = t[k]
  BY <1>2, <1>3, <1>4
<1>6. SubSeq(u, Len(s) + 1, Len(u)) = t
  BY <1>4, <1>5, SameMembers
<1> QED
  BY <1>1, <1>2, <1>3, <1>6

LEMMA EmptyAdded ==
    ASSUME NEW s \in Seq(Nat)
    PROVE  s \o <<>> = s /\ <<>> \o s = s
OBVIOUS

LEMMA NewReqFacts ==
    /\ NewReq \in Request /\ Typed(NewReq)
    /\ NewReq.phase = "new" /\ NewReq.hit = 0 /\ NewReq.full = <<>> /\ NewReq.locked = <<>>
    /\ NewReq.owned = <<>> /\ NewReq.row = <<>> /\ NewReq.beams = <<>>
<1>1. NewReq \in Request
  BY DEF NewReq, Request, Phases
<1>2. /\ NewReq.phase = "new" /\ NewReq.hit = 0 /\ NewReq.full = <<>> /\ NewReq.locked = <<>>
      /\ NewReq.owned = <<>> /\ NewReq.row = <<>> /\ NewReq.beams = <<>>
  BY DEF NewReq
<1> QED
  BY <1>1, <1>2 DEF Typed

-----------------------------------------------------------------------------
(* What the steps do to the requests. *)

\* The fields of two requests that name resources are the same.
SameHoldings(a, b) ==
    /\ a.hit = b.hit /\ a.full = b.full /\ a.locked = b.locked /\ a.owned = b.owned
    /\ a.row = b.row /\ a.beams = b.beams

\* A new request waits or has been dropped, and a done one stays.
LEMMA GiveUpFacts ==
    ASSUME NEW rq, \A r \in Reqs : Typed(rq[r]),
           \A r \in Reqs : rq[r].phase = "new" => rq[r] = NewReq,
           GiveUp(rq)
    PROVE  /\ req' = [r \in Reqs |-> req'[r]]
           /\ \A r \in Reqs : /\ Sound(req'[r], Prompt[r])
                              /\ SameHoldings(req'[r], rq[r])
                              /\ req'[r].phase \in {"new", "done", "dropped"}
           /\ batch' = <<>> /\ prepared' = <<>> /\ stage' = "idle"
           /\ Worker'
<1>1. /\ req' = [r \in Reqs |->
                   IF rq[r].phase \in {"matched", "running", "finished"} \/ r \in ToSet(batch)
                   THEN [rq[r] EXCEPT !.phase = "dropped"] ELSE rq[r]]
      /\ batch' = <<>> /\ prepared' = <<>> /\ stage' = "idle"
  BY DEF GiveUp
<1>2. req' = [r \in Reqs |-> req'[r]]
  BY <1>1
<1>3. ASSUME NEW r \in Reqs
      PROVE  /\ Sound(req'[r], Prompt[r])
             /\ SameHoldings(req'[r], rq[r])
             /\ req'[r].phase \in {"new", "done", "dropped"}
  <2>1. rq[r] \in Request /\ rq[r].hit <= Len(rq[r].full)
    BY DEF Typed
  <2>2. CASE rq[r].phase \in {"matched", "running", "finished"} \/ r \in ToSet(batch)
    <3>1. req'[r] = [rq[r] EXCEPT !.phase = "dropped"]
      BY <1>1, <2>2
    <3>2. /\ req'[r] \in Request /\ req'[r].phase = "dropped"
          /\ SameHoldings(req'[r], rq[r])
      BY <2>1, <3>1 DEF Request, Phases, SameHoldings
    <3> QED
      BY <2>1, <3>2 DEF Sound, Typed, SameHoldings
  <2>3. CASE ~(rq[r].phase \in {"matched", "running", "finished"} \/ r \in ToSet(batch))
    <3>1. req'[r] = rq[r]
      BY <1>1, <2>3
    <3>2. rq[r].phase \in {"new", "done", "dropped"}
      BY <2>1, <2>3 DEF Request, Phases
    <3> QED
      BY <2>1, <3>1, <3>2 DEF Sound, Typed, SameHoldings
  <2> QED
    BY <2>2, <2>3
<1>4. Worker'
  <2>1. <<>> \in Seq(Reqs) /\ NoRepeats(<<>>) /\ ToSet(<<>>) = {}
    BY EmptyList
  <2>2. \A r \in Reqs : req'[r].phase # "matched"
    BY <1>3
  <2> QED
    BY <1>1, <2>1, <2>2 DEF Worker
<1> QED
  BY <1>1, <1>2, <1>3, <1>4

\* Rows that nobody gives or takes.
LEMMA RowsUntouched ==
    ASSUME BaseInv, \A r \in Reqs : Typed(req'[r]), UNCHANGED <<setup, free_rows>>,
           \A r \in Reqs : SameHoldings(req'[r], req[r])
    PROVE  Once(free_rows, RowLists, {}, 1 .. NumRows)'
<1>1. RowLists' = RowLists
  BY DEF RowLists, RowsOf, SameHoldings
<1> QED
  BY <1>1, SetupSame DEF BaseInv, Once, Listed

\* The next states of the parts that a step may leave alone.
LEMMA TreesAfterEvict ==
    ASSUME NEW t, GoodTree(t), NEW n \in Nat, free \in Seq(Nat), NEW e \in AfterEvict(t, n)
    PROVE  Outcome(e, t)
<1>1. CASE Room(free, n)
  <2>1. e = Untouched(t)
    BY <1>1 DEF AfterEvict, Untouched
  <2> QED
    BY <2>1, UntouchedOutcome
<1>2. CASE ~Room(free, n)
  <2>1. e \in Evictions(t, Shortfall(t, n))
    BY <1>2 DEF AfterEvict
  <2>2. Shortfall(t, n) \in Nat
    <3>1. Cardinality(DOMAIN t) \in Nat /\ EvictBatch \in Nat
      BY ParametersAssumption, FS_CardinalityType DEF GoodTree
    <3> QED
      BY <3>1 DEF Shortfall, Greater, Lesser
  <2> QED
    BY <2>1, <2>2, EvictionFacts
<1> QED
  BY <1>1, <1>2

\* A step that changes no request keeps what is known of them.
LEMMA SameRequests ==
    ASSUME BaseInv, req' = req, setup' = setup
    PROVE  /\ req' = [r \in Reqs |-> req'[r]]
           /\ \A r \in Reqs : Sound(req'[r], Prompt'[r]) /\ SameHoldings(req'[r], req[r])
BY SetupSame DEF BaseInv, SameHoldings

\* The parts of the invariant put together.
LEMMA BaseParts ==
    ASSUME setup \in Setups, setup' = setup,
           free' \in Seq(Nat), free_rows' \in Seq(Nat), GoodTree(tree'), clock' \in Nat,
           req' = [r \in Reqs |-> req'[r]], \A r \in Reqs : Sound(req'[r], Prompt[r]),
           Worker', Once(free_rows', RowLists', {}, 1 .. NumRows)
    PROVE  BaseInv'
BY SetupSame DEF BaseInv, Once, Listed

-----------------------------------------------------------------------------
(* One step each. *)

LEMMA BaseInit == Init => BaseInv
<1> SUFFICES ASSUME Init PROVE BaseInv
  OBVIOUS
<1>1. setup \in Setups /\ NumSlots \in Nat /\ NumRows \in Nat
  BY SetupFacts DEF Init
<1>2. free \in Seq(Nat) /\ free_rows \in Seq(Nat) /\ clock \in Nat
  BY <1>1 DEF Init, AllSlots
<1>3. GoodTree(tree)
  BY EmptyIsGood DEF Init
<1>4. req = [r \in Reqs |-> req[r]] /\ \A r \in Reqs : req[r] = NewReq
  BY DEF Init
<1>5. \A r \in Reqs : Sound(req[r], Prompt[r])
  BY <1>4, NewReqFacts DEF Sound
<1>6. Worker
  <2>1. <<>> \in Seq(Reqs) /\ NoRepeats(<<>>) /\ ToSet(<<>>) = {}
    BY EmptyList
  <2> QED
    BY <1>4, <2>1, NewReqFacts DEF Init, Worker
<1>7. Once(free_rows, RowLists, {}, 1 .. NumRows)
  <2>1. \A r \in Reqs : RowLists[r] = <<>>
    BY <1>4, NewReqFacts DEF RowLists, RowsOf
  <2>2. free_rows = [i \in 1 .. NumRows |-> i] /\ Len(free_rows) = NumRows
    BY <1>1 DEF Init
  <2>3. NoRepeats(free_rows)
    BY <2>2 DEF NoRepeats
  <2>4. ToSet(free_rows) = 1 .. NumRows
    <3>1. ToSet(free_rows) = {free_rows[i] : i \in 1 .. Len(free_rows)}
      BY <1>2, Members
    <3> QED
      BY <2>2, <3>1
  <2>5. Listed(RowLists) = {}
    BY <2>1, EmptyList DEF Listed
  <2> QED
    BY <2>1, <2>3, <2>4, <2>5, EmptyList DEF Once
<1> QED
  BY <1>1, <1>2, <1>3, <1>4, <1>5, <1>6, <1>7 DEF BaseInv

\* The pinned prefix in the cache.
LEMMA PinFacts ==
    ASSUME BaseInv, WarmupPin
    PROVE  LET n == Len(Pinned)
               kvs == Taken(free, n)
               t == Insert(tree, Pinned, kvs, clock + 1)
           IN  /\ UNCHANGED <<free_rows, req, batch, prepared>>
               /\ stage = "warmup" /\ stage' = "idle"
               /\ \/ /\ n = 0 \/ ~Room(free, n)
                     /\ UNCHANGED <<free, tree, clock, content>>
                  \/ /\ n # 0 /\ Room(free, n) /\ Pinned \in Path
                     /\ free' = Rest(free, n) /\ free' \in Seq(Nat)
                     /\ clock' = clock + 1 /\ clock' \in Nat
                     /\ content' = Store(content, PromptWrites(Pinned, kvs, 1))
                     /\ tree' = Lock(t, Pinned) /\ GoodTree(t)
                     /\ \A i \in 1 .. n : kvs[i] \in Nat
                     /\ kvs \in Seq(Nat) /\ Len(kvs) = n
               /\ GoodTree(tree')
<1> DEFINE n == Len(Pinned)
           kvs == Taken(free, n)
           t == Insert(tree, Pinned, kvs, clock + 1)
<1>1. Pinned \in Seq(Nat) /\ n \in Nat /\ free \in Seq(Nat) /\ GoodTree(tree) /\ clock \in Nat
  BY SetupFacts DEF BaseInv
<1>2. /\ UNCHANGED <<free_rows, req, batch, prepared>>
      /\ stage = "warmup" /\ stage' = "idle"
  BY DEF WarmupPin
<1>3. CASE n = 0 \/ ~Room(free, n)
  BY <1>1, <1>2, <1>3 DEF WarmupPin
<1>4. CASE ~(n = 0 \/ ~Room(free, n))
  <2>1. n # 0 /\ Room(free, n)
    BY <1>4
  <2>2. /\ free' = Rest(free, n) /\ clock' = clock + 1 /\ tree' = Lock(t, Pinned)
        /\ content' = Store(content, PromptWrites(Pinned, kvs, 1))
    BY <2>1 DEF WarmupPin
  <2>3. free' \in Seq(Nat) /\ kvs \in Seq(Nat) /\ Len(kvs) = n
    BY <1>1, <2>1, <2>2, AllocFacts
  <2>4. \A i \in 1 .. n : kvs[i] \in Nat
    BY <2>3
  <2>5. Pinned \in Path /\ clock + 1 \in Nat
    BY <1>1, <2>1 DEF Path
  <2>6. GoodTree(t)
    BY <1>1, <2>4, <2>5, InsertFacts DEF Grown
  <2>7. GoodTree(tree')
    BY <1>1, <2>2, <2>6, LockFacts
  <2> QED
    BY <1>2, <2>1, <2>2, <2>3, <2>4, <2>5, <2>6, <2>7
<1> QED
  BY <1>3, <1>4

LEMMA BaseWarmupPin ==
    ASSUME BaseInv, WarmupPin, setup' = setup
    PROVE  BaseInv'
<1>1. /\ UNCHANGED <<free_rows, req, batch, prepared>>
      /\ stage = "warmup" /\ stage' = "idle"
      /\ GoodTree(tree') /\ free' \in Seq(Nat) /\ clock' \in Nat
  BY PinFacts DEF BaseInv
<1>2. Worker'
  BY <1>1 DEF BaseInv, Worker
<1>3. Once(free_rows', RowLists', {}, 1 .. NumRows)
  BY <1>1, SameRequests, RowsUntouched, SetupSame DEF BaseInv, Sound
<1> QED
  BY <1>1, <1>2, <1>3, BaseParts DEF BaseInv

LEMMA BaseStartPrefill ==
    ASSUME BaseInv, NEW rs \in SetToAllKPermutations(In("new")) \ {<<>>}, StartPrefill(rs),
           setup' = setup
    PROVE  BaseInv'
<1>1. rs \in Seq(Reqs) /\ NoRepeats(rs) /\ \A r \in ToSet(rs) : req[r].phase = "new"
  <2>1. PICK S \in SUBSET In("new") : rs \in SetToSeqs(S)
    BY DEF SetToAllKPermutations
  <2>2. In("new") \subseteq Reqs /\ IsFiniteSet(Reqs)
    BY ParametersAssumption DEF In
  <2>3. IsFiniteSet(S) /\ Cardinality(S) \in Nat
    BY <2>2, FS_Subset, FS_CardinalityType
  <2>4. PICK n \in Nat : n = Cardinality(S)
    BY <2>3
  <2>5. rs \in [1 .. n -> S] /\ \A i, j \in 1 .. n : i # j => rs[i] # rs[j]
    BY <2>1, <2>4 DEF SetToSeqs
  <2>6. rs \in Seq(S) /\ Len(rs) = n
    BY <2>5
  <2>7. ToSet(rs) \subseteq S
    BY <2>6, Members
  <2>8. rs \in Seq(Reqs)
    BY <2>2, <2>6
  <2> QED
    BY <2>5, <2>6, <2>7, <2>8 DEF NoRepeats, In
<1>2. /\ stage = "idle" /\ stage' = "match" /\ batch' = rs
      /\ UNCHANGED <<free, free_rows, tree, clock, content, req, prepared>>
  BY DEF StartPrefill
<1>3. Worker'
  BY <1>1, <1>2 DEF BaseInv, Worker
<1>4. Once(free_rows', RowLists', {}, 1 .. NumRows)
  BY <1>2, SameRequests, RowsUntouched, SetupSame DEF BaseInv, Sound
<1> QED
  BY <1>2, <1>3, <1>4, BaseParts DEF BaseInv

LEMMA BasePrefillForward ==
    ASSUME BaseInv, PrefillForward, setup' = setup
    PROVE  BaseInv'
<1>1. /\ stage = "match" /\ batch = <<>> /\ stage' \in {"wave", "each"}
      /\ stage' = "each" => prepared # <<>>
      /\ UNCHANGED <<free, free_rows, tree, clock, req, batch, prepared>>
  <2>1. prepared = <<>> => ToSet(prepared) = {}
    BY EmptyList
  <2> QED
    BY <2>1 DEF PrefillForward, Homogeneous
<1>2. Worker'
  BY <1>1 DEF BaseInv, Worker
<1>3. Once(free_rows', RowLists', {}, 1 .. NumRows)
  BY <1>1, SameRequests, RowsUntouched, SetupSame DEF BaseInv, Sound
<1> QED
  BY <1>1, <1>2, <1>3, BaseParts DEF BaseInv

-----------------------------------------------------------------------------
(* Matching. *)

\* A request that has its slots and perhaps its row.
MatchedReq(hit, full, row) ==
    [phase |-> "matched", hit |-> hit, full |-> full, locked |-> <<>>, owned |-> <<>>,
     row |-> row, beams |-> <<>>, steps |-> 0]

LEMMA MatchedFromNew ==
    ASSUME NEW rec, rec = NewReq, NEW hit, NEW full
    PROVE  [rec EXCEPT !.phase = "matched", !.hit = hit, !.full = full] = MatchedReq(hit, full, <<>>)
<1> DEFINE a == [rec EXCEPT !.phase = "matched"]
           b == [a EXCEPT !.hit = hit]
           c == [b EXCEPT !.full = full]
<1>1. a = [phase |-> "matched", hit |-> 0, full |-> <<>>, locked |-> <<>>,
           owned |-> <<>>, row |-> <<>>, beams |-> <<>>, steps |-> 0]
  BY DEF NewReq
<1>2. [rec EXCEPT !.phase = "matched", !.hit = hit, !.full = full] = c
  OBVIOUS
<1> HIDE DEF a
<1>3. b = [phase |-> "matched", hit |-> hit, full |-> <<>>, locked |-> <<>>,
           owned |-> <<>>, row |-> <<>>, beams |-> <<>>, steps |-> 0]
  BY <1>1
<1> HIDE DEF b
<1>4. c = MatchedReq(hit, full, <<>>)
  BY <1>3 DEF MatchedReq
<1> QED
  BY <1>2, <1>4

With(r, rec) == [req EXCEPT ![r] = rec]

Hits(r) == MatchKV(tree, Looked(Prompt[r]))
Need(r) == Len(Prompt[r]) - Len(Hits(r))

\* A match whose request got its slots and its row, only its slots, or neither.
MatchGot(r, pool) ==
    LET full == Hits(r) \o Taken(pool, Need(r))
    IN  /\ Room(pool, Need(r)) /\ Room(free_rows, 1)
        /\ free' = Rest(pool, Need(r))
        /\ free_rows' = Rest(free_rows, 1)
        /\ req' = With(r, MatchedReq(Len(Hits(r)), full, Taken(free_rows, 1)))
        /\ batch' = Tail(batch)
        /\ prepared' = Append(prepared, r)
        /\ stage' = stage

MatchNoRow(r, pool) ==
    LET full == Hits(r) \o Taken(pool, Need(r))
    IN  /\ Room(pool, Need(r))
        /\ free' = Rest(pool, Need(r))
        /\ free_rows' = free_rows
        /\ GiveUp(With(r, MatchedReq(Len(Hits(r)), full, <<>>)))

MatchNoSlots(pool) ==
    /\ free' = pool
    /\ free_rows' = free_rows
    /\ GiveUp(req)

LEMMA MatchFacts ==
    ASSUME BaseInv, MatchAndAlloc
    PROVE  LET r == Head(batch)
               p == Prompt[r]
           IN  /\ stage = "match" /\ batch # <<>>
               /\ r \in Reqs /\ r \in ToSet(batch) /\ r \notin ToSet(prepared)
               /\ req[r] = NewReq
               /\ content' = content
               /\ Looked(p) \in Seq(Nat) /\ Len(Looked(p)) = Len(p) - 1
               /\ \A i \in 1 .. Len(p) - 1 : Pre(Looked(p), i) = Pre(p, i)
               /\ Hits(r) \in Seq(Nat) /\ Len(Hits(r)) < Len(p) /\ Len(Hits(r)) \in Nat
               /\ Need(r) \in Nat
               /\ \E now \in Nat : \E e \in AfterEvict(Touch(tree, Looked(p), now), Need(r)) :
                    /\ clock' = now
                    /\ GoodTree(Touch(tree, Looked(p), now))
                    /\ Outcome(e, Touch(tree, Looked(p), now))
                    /\ tree' = e.tree
                    /\ free \o e.freed \in Seq(Nat)
                    /\ \/ MatchGot(r, free \o e.freed)
                       \/ MatchNoRow(r, free \o e.freed)
                       \/ MatchNoSlots(free \o e.freed)
<1> DEFINE r == Head(batch)
           p == Prompt[r]
           now == IF Looked(p) # <<>> THEN clock + 1 ELSE clock
<1>1. stage = "match" /\ batch # <<>> /\ content' = content /\ clock' = now
  BY DEF MatchAndAlloc
<1>2. r \in Reqs /\ r \in ToSet(batch)
  BY <1>1, HeadMembers DEF BaseInv, Worker
<1>3. req[r] = NewReq /\ req[r].phase = "new"
  BY <1>2 DEF BaseInv, Worker, Sound
<1>4. r \notin ToSet(prepared)
  BY <1>2, <1>3 DEF BaseInv, Worker
<1>5. p \in Seq(Nat) /\ Len(p) \in Nat \ {0}
  BY <1>2, SetupFacts DEF BaseInv
<1> HIDE DEF r, p
<1>6. /\ Looked(p) \in Seq(Nat) /\ Len(Looked(p)) = Len(p) - 1
      /\ \A i \in 1 .. Len(p) - 1 : Pre(Looked(p), i) = Pre(p, i)
  <2>1. CASE Len(p) > 1
    <3>1. Looked(p) = Pre(p, Len(p) - 1) /\ Len(p) - 1 \in 0 .. Len(p)
      BY <1>5, <2>1 DEF Looked, Upto, Pre
    <3>2. Pre(p, Len(p) - 1) \in Seq(Nat) /\ Len(Pre(p, Len(p) - 1)) = Len(p) - 1
      BY <1>5, <3>1, PreFacts
    <3>3. \A i \in 0 .. Len(p) : \A j \in 0 .. i : Pre(Pre(p, i), j) = Pre(p, j)
      BY <1>5, PrePre
    <3>4. \A i \in 1 .. Len(p) - 1 : i \in 0 .. Len(p) - 1
      OBVIOUS
    <3> QED
      BY <3>1, <3>2, <3>3, <3>4
  <2>2. CASE Len(p) = 1
    <3>1. Looked(p) = <<>>
      BY <2>2 DEF Looked
    <3> QED
      BY <2>2, <3>1
  <2>3. Len(p) > 1 \/ Len(p) = 1
    <3>1. \A n \in Nat \ {0} : n > 1 \/ n = 1
      OBVIOUS
    <3> QED
      BY <1>5, <3>1
  <2> QED
    BY <2>1, <2>2, <2>3
<1>7. Hits(r) = MatchKV(tree, Looked(p))
  BY DEF Hits, p
<1>8. Hits(r) \in Seq(Nat) /\ Len(Hits(r)) \in 0 .. Len(p) - 1
  BY <1>6, <1>7, HitFacts DEF BaseInv
<1>9. Len(Hits(r)) < Len(p) /\ Len(Hits(r)) \in Nat
  BY <1>5, <1>8
<1>10. Need(r) \in Nat /\ Need(r) = Len(p) - Len(Hits(r))
  BY <1>5, <1>9 DEF Need, p
<1>11. now \in Nat
  BY DEF BaseInv
<1>12. PICK e \in AfterEvict(Touch(tree, Looked(p), now), Need(r)) :
         LET pool == free \o e.freed
             rq == [req EXCEPT ![r].phase = "matched", ![r].hit = Len(Hits(r)),
                               ![r].full = Hits(r) \o Taken(pool, Need(r))]
         IN /\ tree' = e.tree
            /\ free' = IF Room(pool, Need(r)) THEN Rest(pool, Need(r)) ELSE pool
            /\ \/ /\ Room(pool, Need(r)) /\ Room(free_rows, 1)
                  /\ free_rows' = Rest(free_rows, 1)
                  /\ req' = [rq EXCEPT ![r].row = Taken(free_rows, 1)]
                  /\ batch' = Tail(batch)
                  /\ prepared' = Append(prepared, r)
                  /\ UNCHANGED stage
               \/ /\ ~(Room(pool, Need(r)) /\ Room(free_rows, 1))
                  /\ GiveUp(IF Room(pool, Need(r)) THEN rq ELSE req)
                  /\ UNCHANGED free_rows
  BY <1>7, <1>10 DEF MatchAndAlloc, r, p, Hits, Need
<1> HIDE DEF now
<1> DEFINE pool == free \o e.freed
           full == Hits(r) \o Taken(pool, Need(r))
           rq == [req EXCEPT ![r].phase = "matched", ![r].hit = Len(Hits(r)), ![r].full = full]
<1>13. GoodTree(Touch(tree, Looked(p), now))
  BY <1>6, <1>11, TouchFacts DEF BaseInv
<1>14. Outcome(e, Touch(tree, Looked(p), now))
  BY <1>10, <1>13, TreesAfterEvict DEF BaseInv
<1>15. pool \in Seq(Nat)
  BY <1>14, ConcatMembers DEF BaseInv, Outcome
<1>16. req = [q \in Reqs |-> req[q]]
  BY DEF BaseInv
<1>17. rq = With(r, MatchedReq(Len(Hits(r)), full, <<>>))
  <2>1. rq = [req EXCEPT ![r] = [req[r] EXCEPT !.phase = "matched", !.hit = Len(Hits(r)), !.full = full]]
    BY <1>2, <1>16
  <2>2. [req[r] EXCEPT !.phase = "matched", !.hit = Len(Hits(r)), !.full = full]
          = MatchedReq(Len(Hits(r)), full, <<>>)
    BY <1>3, MatchedFromNew
  <2> QED
    BY <2>1, <2>2 DEF With
<1>18. [rq EXCEPT ![r].row = Taken(free_rows, 1)]
         = With(r, MatchedReq(Len(Hits(r)), full, Taken(free_rows, 1)))
  <2> HIDE DEF full
  <2>1. With(r, MatchedReq(Len(Hits(r)), full, <<>>))[r] = MatchedReq(Len(Hits(r)), full, <<>>)
    BY <1>2, <1>16 DEF With
  <2> HIDE DEF rq
  <2>2. [rq EXCEPT ![r].row = Taken(free_rows, 1)]
          = [rq EXCEPT ![r] = [MatchedReq(Len(Hits(r)), full, <<>>) EXCEPT !.row = Taken(free_rows, 1)]]
    BY <1>17, <2>1
  <2>3. [MatchedReq(Len(Hits(r)), full, <<>>) EXCEPT !.row = Taken(free_rows, 1)]
          = MatchedReq(Len(Hits(r)), full, Taken(free_rows, 1))
    BY DEF MatchedReq
  <2> QED
    BY <1>16, <1>17, <2>2, <2>3 DEF With
<1>19. tree' = e.tree
  BY <1>12
<1>20. MatchGot(r, pool) \/ MatchNoRow(r, pool) \/ MatchNoSlots(pool)
  <2>1. CASE Room(pool, Need(r)) /\ Room(free_rows, 1)
    BY <1>12, <1>18, <2>1 DEF MatchGot
  <2>2. CASE Room(pool, Need(r)) /\ ~Room(free_rows, 1)
    BY <1>12, <1>17, <2>2 DEF MatchNoRow
  <2>3. CASE ~Room(pool, Need(r))
    BY <1>12, <2>3 DEF MatchNoSlots
  <2> QED
    BY <2>1, <2>2, <2>3
<1> HIDE DEF rq
<1> QED
  BY <1>1, <1>2, <1>3, <1>4, <1>6, <1>8, <1>9, <1>10, <1>11, <1>13, <1>14, <1>15, <1>19, <1>20 DEF r, p

\* The request of a match, and the rest as they were.
LEMMA WithFacts ==
    ASSUME BaseInv, NEW r \in Reqs, NEW rec
    PROVE  /\ With(r, rec) = [q \in Reqs |-> With(r, rec)[q]]
           /\ With(r, rec)[r] = rec
           /\ \A q \in Reqs : q # r => With(r, rec)[q] = req[q]
<1>1. req = [q \in Reqs |-> req[q]]
  BY DEF BaseInv
<1> QED
  BY <1>1 DEF With

LEMMA MatchedSound ==
    ASSUME NEW p \in Seq(Nat), NEW hits \in Seq(Nat), Len(hits) < Len(p),
           NEW pool \in Seq(Nat), Room(pool, Len(p) - Len(hits)), NEW row \in Seq(Nat)
    PROVE  LET full == hits \o Taken(pool, Len(p) - Len(hits))
           IN  /\ Sound(MatchedReq(Len(hits), full, row), p)
               /\ full \in Seq(Nat) /\ Len(full) = Len(p)
               /\ From(full, Len(hits) + 1) = Taken(pool, Len(p) - Len(hits))
               /\ \A i \in 1 .. Len(hits) : full[i] = hits[i]
<1> DEFINE n == Len(p) - Len(hits)
           t == Taken(pool, n)
           full == hits \o t
           rec == MatchedReq(Len(hits), full, row)
<1>1. Len(p) \in Nat /\ Len(hits) \in Nat /\ n \in Nat
  OBVIOUS
<1>2. t \in Seq(Nat) /\ Len(t) = n
  BY <1>1, AllocFacts
<1>3. Len(p) = Len(hits) + n
  BY <1>1
<1> HIDE DEF n
<1> HIDE DEF t
<1>4. full \in Seq(Nat) /\ Len(full) = Len(p)
  <2>1. full \in Seq(Nat) /\ Len(full) = Len(hits) + Len(t)
    BY <1>2, ConcatMembers, ConcatLen
  <2> HIDE DEF full
  <2> QED
    BY <1>2, <1>3, <2>1
<1>5. From(full, Len(hits) + 1) = t
  BY <1>2, ConcatLen DEF From
<1>6. \A i \in 1 .. Len(hits) : full[i] = hits[i]
  BY <1>2, ConcatLen
<1> HIDE DEF full
<1>7. rec \in Request
  BY <1>1, <1>4, EmptyList DEF MatchedReq, Request, Phases
<1>8. /\ rec.phase = "matched" /\ rec.hit = Len(hits) /\ rec.full = full
      /\ rec.locked = <<>> /\ rec.owned = <<>> /\ rec.beams = <<>>
  BY DEF MatchedReq
<1> HIDE DEF rec
<1>9. Sound(rec, p)
  BY <1>1, <1>4, <1>7, <1>8 DEF Sound, Typed
<1> QED
  BY <1>4, <1>5, <1>6, <1>9 DEF rec, full, t, n

LEMMA BaseMatchAndAlloc ==
    ASSUME BaseInv, MatchAndAlloc, setup' = setup
    PROVE  BaseInv'
<1> DEFINE r == Head(batch)
           p == Prompt[r]
           n == Need(r)
           hits == Hits(r)
<1>1. PICK now \in Nat : \E e \in AfterEvict(Touch(tree, Looked(p), now), Need(r)) :
                    /\ clock' = now
                    /\ Outcome(e, Touch(tree, Looked(p), now))
                    /\ tree' = e.tree
                    /\ free \o e.freed \in Seq(Nat)
                    /\ \/ MatchGot(r, free \o e.freed)
                       \/ MatchNoRow(r, free \o e.freed)
                       \/ MatchNoSlots(free \o e.freed)
  BY MatchFacts
<1>2. PICK e : /\ clock' = now
               /\ Outcome(e, Touch(tree, Looked(p), now))
               /\ tree' = e.tree
               /\ free \o e.freed \in Seq(Nat)
               /\ \/ MatchGot(r, free \o e.freed)
                  \/ MatchNoRow(r, free \o e.freed)
                  \/ MatchNoSlots(free \o e.freed)
  BY <1>1
<1>3. /\ stage = "match" /\ batch # <<>>
      /\ r \in Reqs /\ r \in ToSet(batch) /\ r \notin ToSet(prepared)
      /\ req[r] = NewReq
      /\ hits \in Seq(Nat) /\ Len(hits) < Len(p) /\ Len(hits) \in Nat
      /\ n \in Nat /\ n = Len(p) - Len(hits)
  BY MatchFacts DEF Need
<1>4. p \in Seq(Nat)
  BY <1>3, SetupFacts DEF BaseInv
<1> DEFINE pool == free \o e.freed
           full == hits \o Taken(pool, n)
<1>5. GoodTree(tree') /\ clock' \in Nat /\ setup \in Setups
  BY <1>2 DEF Outcome, BaseInv
<1>6. pool \in Seq(Nat) /\ free_rows \in Seq(Nat)
  BY <1>2 DEF BaseInv
<1>7. \A q \in Reqs : Sound(req[q], Prompt[q])
  BY DEF BaseInv
<1> HIDE DEF p, pool, hits, n
<1>8. ASSUME NEW row \in Seq(Nat), Room(pool, n)
      PROVE  Sound(MatchedReq(Len(hits), full, row), p)
  BY <1>3, <1>4, <1>6, <1>8, MatchedSound
<1>9. CASE MatchGot(r, pool)
  <2> DEFINE row == Taken(free_rows, 1)
             rec == MatchedReq(Len(hits), full, row)
  <2>1. /\ Room(pool, n) /\ Room(free_rows, 1)
        /\ free' = Rest(pool, n) /\ free_rows' = Rest(free_rows, 1)
        /\ req' = With(r, rec)
        /\ batch' = Tail(batch) /\ prepared' = Append(prepared, r) /\ stage' = stage
    BY <1>9 DEF MatchGot, hits, n
  <2>2. /\ free' \in Seq(Nat) /\ free_rows' \in Seq(Nat) /\ row \in Seq(Nat)
    BY <1>3, <1>6, <2>1, AllocFacts
  <2>3. Sound(rec, p)
    BY <1>8, <2>1, <2>2
  <2>4. rec.phase = "matched" /\ rec.row = row /\ rec.beams = <<>>
    BY DEF MatchedReq
  <2> HIDE DEF rec
  <2>5. /\ req' = [q \in Reqs |-> req'[q]]
        /\ req'[r] = rec
        /\ \A q \in Reqs : q # r => req'[q] = req[q]
    BY <1>3, <2>1, WithFacts
  <2>6. \A q \in Reqs : Sound(req'[q], Prompt[q])
    BY <1>7, <2>3, <2>5 DEF p
  <2>7. Worker'
    <3>1. /\ batch' \in Seq(Reqs) /\ NoRepeats(batch') /\ r \notin ToSet(batch')
          /\ ToSet(batch') \subseteq ToSet(batch)
      BY <1>3, <2>1, HeadMembers DEF BaseInv, Worker
    <3>2. /\ prepared' \in Seq(Reqs) /\ NoRepeats(prepared')
          /\ ToSet(prepared') = ToSet(prepared) \cup {r}
      BY <1>3, <2>1, AppendMembers DEF BaseInv, Worker
    <3>3. \A q \in ToSet(batch) : q \in Reqs
      BY Members DEF BaseInv, Worker
    <3>4. \A q \in ToSet(batch') : req'[q].phase = "new"
      BY <2>5, <3>1, <3>3 DEF BaseInv, Worker
    <3>5. \A q \in Reqs : req'[q].phase = "matched" <=> q \in ToSet(prepared')
      BY <2>4, <2>5, <3>2 DEF BaseInv, Worker
    <3> QED
      BY <1>3, <2>1, <3>1, <3>2, <3>4, <3>5 DEF Worker
  <2>8. Once(free_rows', RowLists', {}, 1 .. NumRows)
    <3>1. RowLists \in Lists /\ \A q \in Reqs : RowLists[q] = req[q].row \o req[q].beams
      BY <1>7, RowListsType DEF Sound
    <3>2. RowLists' \in Lists /\ \A q \in Reqs : RowLists'[q] = req'[q].row \o req'[q].beams
      <4>1. \A q \in Reqs : Typed(req'[q])
        BY <2>6 DEF Sound
      <4> QED
        BY <4>1, RequestLists DEF RowLists, RowsOf, Lists
    <3>3. NoRepeats(free_rows)
      BY DEF BaseInv, Once
    <3>4. /\ ToOne(r, row) \in Lists
          /\ Once(free_rows', ToOne(r, row), {}, ToSet(free_rows))
      BY <1>3, <1>6, <2>1, <3>3, OneTaker
    <3>5. ASSUME NEW q \in Reqs PROVE RowLists'[q] = RowLists[q] \o ToOne(r, row)[q]
      <4>1. RowLists[q] \in Seq(Nat)
        BY <3>1 DEF Lists
      <4>2. CASE q = r
        <5>1. RowLists[q] = <<>>
          BY <1>3, <3>1, <4>2, NewReqFacts, EmptyAdded, EmptyList
        <5>2. RowLists'[q] = row
          BY <2>2, <2>4, <2>5, <3>2, <4>2, EmptyAdded
        <5>3. ToOne(r, row)[q] = row
          BY <4>2 DEF ToOne
        <5> QED
          BY <2>2, <5>1, <5>2, <5>3, EmptyAdded
      <4>3. CASE q # r
        <5>1. RowLists'[q] = RowLists[q] /\ ToOne(r, row)[q] = <<>>
          BY <2>5, <3>1, <3>2, <4>3 DEF ToOne
        <5> QED
          BY <4>1, <5>1, EmptyAdded
      <4> QED
        BY <4>2, <4>3
    <3>6. Once(free_rows, RowLists, {}, 1 .. NumRows)
      BY DEF BaseInv
    <3> QED
      BY <1>6, <2>2, <3>1, <3>2, <3>4, <3>5, <3>6, HandedOut
  <2> QED
    BY <1>5, <2>2, <2>5, <2>6, <2>7, <2>8, BaseParts
<1>10. CASE MatchNoRow(r, pool)
  <2> DEFINE rec == MatchedReq(Len(hits), full, <<>>)
             rq == With(r, rec)
  <2>1. /\ Room(pool, n) /\ free' = Rest(pool, n) /\ free_rows' = free_rows
        /\ GiveUp(rq)
    BY <1>10 DEF MatchNoRow, hits, n
  <2>2. free' \in Seq(Nat)
    BY <1>3, <1>6, <2>1, AllocFacts
  <2>3. Sound(rec, p)
    BY <1>8, <2>1, EmptyList
  <2>4. rec.phase = "matched" /\ rec.row = <<>> /\ rec.beams = <<>>
    BY DEF MatchedReq
  <2> HIDE DEF rec
  <2>5. rq[r] = rec /\ \A q \in Reqs : q # r => rq[q] = req[q]
    BY <1>3, WithFacts
  <2> HIDE DEF rq
  <2>6. \A q \in Reqs : Typed(rq[q]) /\ (rq[q].phase = "new" => rq[q] = NewReq)
    BY <1>7, <2>3, <2>4, <2>5 DEF Sound
  <2>7. /\ req' = [q \in Reqs |-> req'[q]]
        /\ \A q \in Reqs : Sound(req'[q], Prompt[q]) /\ SameHoldings(req'[q], rq[q])
        /\ Worker'
    BY <2>1, <2>6, GiveUpFacts
  <2>8. Once(free_rows', RowLists', {}, 1 .. NumRows)
    <3>1. \A q \in Reqs : req'[q].row = req[q].row /\ req'[q].beams = req[q].beams
      BY <1>3, <2>4, <2>5, <2>7, NewReqFacts DEF SameHoldings
    <3>2. RowLists' = RowLists
      BY <3>1 DEF RowLists, RowsOf
    <3> QED
      BY <2>1, <3>2 DEF BaseInv
  <2> QED
    BY <1>5, <1>6, <2>1, <2>2, <2>7, <2>8, BaseParts
<1>11. CASE MatchNoSlots(pool)
  <2>1. free' = pool /\ free_rows' = free_rows /\ GiveUp(req)
    BY <1>11 DEF MatchNoSlots
  <2>2. /\ req' = [q \in Reqs |-> req'[q]]
        /\ \A q \in Reqs : Sound(req'[q], Prompt[q]) /\ SameHoldings(req'[q], req[q])
        /\ Worker'
    BY <1>7, <2>1, GiveUpFacts DEF Sound
  <2>3. Once(free_rows', RowLists', {}, 1 .. NumRows)
    BY <2>1, <2>2, RowsUntouched, SetupSame DEF Sound
  <2> QED
    BY <1>5, <1>6, <2>1, <2>2, <2>3, BaseParts
<1> QED
  BY <1>2, <1>9, <1>10, <1>11 DEF pool

-----------------------------------------------------------------------------
(* Starting to decode. *)

\* A request that has locked the path and been given the beams.
Began(a, b, phase, path, beams) ==
    /\ a \in Request
    /\ a.phase = phase /\ a.locked = path /\ a.beams = beams
    /\ a.hit = b.hit /\ a.full = b.full /\ a.owned = b.owned /\ a.row = b.row

\* The path that a matched request locks.
LEMMA LockedPathFacts ==
    ASSUME BaseInv, NEW r \in Reqs, req[r].phase = "matched"
    PROVE  /\ LockedPath(r) \in Seq(Nat) /\ LockedPath(r) = Upto(Prompt[r], req[r].hit)
           /\ req[r].hit \in Nat /\ Len(LockedPath(r)) = req[r].hit
           /\ req[r].hit < Len(Prompt[r]) /\ Len(req[r].full) = Len(Prompt[r])
           /\ \A i \in 1 .. req[r].hit : Pre(LockedPath(r), i) = Pre(Prompt[r], i)
           /\ PathNodes(LockedPath(r)) = {Pre(Prompt[r], i) : i \in 1 .. req[r].hit}
<1>1. Prompt[r] \in Seq(Nat) /\ Len(Prompt[r]) \in Nat
  BY SetupFacts DEF BaseInv
<1>2. req[r].hit \in Nat /\ req[r].hit < Len(Prompt[r]) /\ Len(req[r].full) = Len(Prompt[r])
  BY DEF BaseInv, Sound, Typed, Request
<1>3. PICK p \in Seq(Nat) : p = Prompt[r]
  BY <1>1
<1>4. PICK h \in 0 .. Len(p) : h = req[r].hit
  BY <1>1, <1>2, <1>3
<1>5. LockedPath(r) = Pre(p, h)
  BY <1>3, <1>4 DEF LockedPath, Upto, Pre
<1>6. Pre(p, h) \in Seq(Nat) /\ Len(Pre(p, h)) = h
  BY PreFacts
<1>7. \A i \in 1 .. h : Pre(Pre(p, h), i) = Pre(p, i)
  <2>1. \A i \in 1 .. h : i \in 0 .. h
    OBVIOUS
  <2> QED
    BY <2>1, PrePre
<1>8. PathNodes(Pre(p, h)) = {Pre(p, i) : i \in 1 .. h}
  BY <1>6, <1>7 DEF PathNodes
<1> QED
  BY <1>2, <1>3, <1>4, <1>5, <1>6, <1>7, <1>8 DEF LockedPath

LEMMA LockHitsFacts ==
    ASSUME NEW t, GoodTree(t), NEW rs \in SUBSET Reqs, \A r \in rs : LockedPath(r) \in Seq(Nat)
    PROVE  /\ GoodTree(LockHits(t, rs))
           /\ SameSlots(t, LockHits(t, rs))
           /\ \A q \in DOMAIN t :
                LockHits(t, rs)[q].lock
                  = t[q].lock + Cardinality({r \in rs : q \in PathNodes(LockedPath(r))})
<1> DEFINE u == LockHits(t, rs)
           at(q) == {r \in rs : q \in PathNodes(LockedPath(r))}
<1>1. \A r \in rs : Walk(t, LockedPath(r)) = PathNodes(LockedPath(r)) \cap DOMAIN t
  BY WalkAny DEF GoodTree
<1>2. ASSUME NEW q \in DOMAIN t PROVE {r \in rs : q \in Walk(t, LockedPath(r))} = at(q)
  BY <1>1
<1>3. u = [q \in DOMAIN t |-> [t[q] EXCEPT !.lock = @ + Cardinality(at(q))]]
  BY <1>2 DEF LockHits
<1>4. ASSUME NEW q \in DOMAIN t
      PROVE  Cardinality(at(q)) \in Nat
  <2>1. IsFiniteSet(rs)
    BY ParametersAssumption, FS_Subset
  <2>2. IsFiniteSet(at(q))
    BY <2>1, FS_Subset
  <2> QED
    BY <2>2, FS_CardinalityType
<1> HIDE DEF at
<1>5. ASSUME NEW q \in DOMAIN t
      PROVE  /\ u[q] \in Node /\ u[q].kv = t[q].kv
             /\ u[q].lock = t[q].lock + Cardinality(at(q))
  <2>1. t[q] \in Node
    BY DEF GoodTree
  <2>2. u[q] = [t[q] EXCEPT !.lock = @ + Cardinality(at(q))]
    BY <1>3
  <2> QED
    BY <1>4, <2>1, <2>2 DEF Node
<1>6. DOMAIN u = DOMAIN t /\ u = [q \in DOMAIN u |-> u[q]]
  BY <1>3
<1> HIDE DEF u
<1>7. GoodTree(u)
  BY <1>5, <1>6, RelabelGood
<1> QED
  BY <1>5, <1>6, <1>7 DEF SameSlots, u, at

WaveGot ==
    LET n == Total(prepared)
    IN  /\ Room(free_rows, n)
        /\ free_rows' = Rest(free_rows, n)
        /\ tree' = LockHits(tree, ToSet(prepared))
        /\ req' = [r \in Reqs |-> req'[r]]
        /\ \A r \in Reqs :
             IF r \in ToSet(prepared)
             THEN Began(req'[r], req[r], "running", LockedPath(r),
                        Dealt(Taken(free_rows, n), prepared, ToSet(prepared))[r])
             ELSE req'[r] = req[r]
        /\ prepared' = <<>> /\ stage' = "idle" /\ batch' = batch

LEMMA WaveFacts ==
    ASSUME BaseInv, InitWave
    PROVE  /\ stage = "wave" /\ UNCHANGED <<free, clock, content>>
           /\ ToSet(prepared) \subseteq Reqs /\ \A r \in ToSet(prepared) : req[r].phase = "matched"
           /\ GoodTree(tree')
           /\ \/ WaveGot
              \/ GiveUp(req) /\ UNCHANGED <<free_rows, tree>>
<1> DEFINE n == Total(prepared)
           d == Dealt(Taken(free_rows, n), prepared, ToSet(prepared))
<1>1. stage = "wave" /\ UNCHANGED <<free, clock, content>>
  BY DEF InitWave
<1>2. prepared \in Seq(Reqs) /\ NoRepeats(prepared) /\ ToSet(prepared) \subseteq Reqs
  BY Members DEF BaseInv, Worker
<1>3. \A r \in ToSet(prepared) : req[r].phase = "matched" /\ LockedPath(r) \in Seq(Nat)
  BY <1>2, LockedPathFacts DEF BaseInv, Worker
<1>4. CASE ~Room(free_rows, n)
  BY <1>1, <1>2, <1>3, <1>4 DEF InitWave, BaseInv
<1>5. CASE Room(free_rows, n)
  <2>1. /\ free_rows' = Rest(free_rows, n)
        /\ tree' = LockHits(tree, ToSet(prepared))
        /\ req' = [r \in Reqs |->
                    IF r \notin ToSet(prepared) THEN req[r]
                    ELSE [req[r] EXCEPT !.phase = "running", !.locked = LockedPath(r),
                                        !.beams = Share(Taken(free_rows, n), prepared, r)]]
        /\ prepared' = <<>> /\ stage' = "idle" /\ batch' = batch
    BY <1>5 DEF InitWave
  <2>2. req' = [r \in Reqs |-> req'[r]]
    BY <2>1
  <2>3. d \in Lists
    BY <1>2, <1>5, ManyTakers DEF BaseInv, Once
  <2>4. \A r \in ToSet(prepared) : d[r] = Share(Taken(free_rows, n), prepared, r)
    BY <1>2 DEF Dealt
  <2> HIDE DEF d
  <2>5. ASSUME NEW r \in ToSet(prepared)
        PROVE  Began(req'[r], req[r], "running", LockedPath(r), d[r])
    <3>1. req'[r] = [req[r] EXCEPT !.phase = "running", !.locked = LockedPath(r), !.beams = d[r]]
      BY <1>2, <2>1, <2>4
    <3>2. req[r] \in Request /\ LockedPath(r) \in Seq(Nat) /\ d[r] \in Seq(Nat)
      BY <1>2, <1>3, <2>3 DEF BaseInv, Sound, Typed, Lists
    <3> QED
      BY <3>1, <3>2 DEF Began, Request, Phases
  <2>6. \A r \in Reqs : r \notin ToSet(prepared) => req'[r] = req[r]
    BY <2>1
  <2>7. WaveGot
    BY <1>5, <2>1, <2>2, <2>5, <2>6 DEF WaveGot, d
  <2>8. GoodTree(tree')
    BY <1>2, <1>3, <2>1, LockHitsFacts DEF BaseInv
  <2> QED
    BY <1>1, <1>2, <1>3, <2>7, <2>8
<1> QED
  BY <1>4, <1>5

\* A request that begins is sound.
LEMMA BeganSound ==
    ASSUME BaseInv, NEW r \in Reqs, req[r].phase = "matched",
           NEW rec, NEW phase \in {"running", "finished"}, NEW beams,
           Began(rec, req[r], phase, LockedPath(r), beams)
    PROVE  Sound(rec, Prompt[r])
<1>1. /\ LockedPath(r) = Upto(Prompt[r], req[r].hit) /\ req[r].hit \in Nat
      /\ req[r].hit < Len(Prompt[r]) /\ Len(req[r].full) = Len(Prompt[r])
  BY LockedPathFacts
<1>2. req[r].hit <= Len(req[r].full)
  BY DEF BaseInv, Sound, Typed
<1> QED
  BY <1>1, <1>2 DEF Began, Sound, Typed

LEMMA BaseInitWave ==
    ASSUME BaseInv, InitWave, setup' = setup
    PROVE  BaseInv'
<1> DEFINE n == Total(prepared)
           d == Dealt(Taken(free_rows, n), prepared, ToSet(prepared))
<1>1. /\ stage = "wave" /\ UNCHANGED <<free, clock, content>>
      /\ ToSet(prepared) \subseteq Reqs /\ \A r \in ToSet(prepared) : req[r].phase = "matched"
      /\ GoodTree(tree')
  BY WaveFacts
<1>2. /\ free' \in Seq(Nat) /\ clock' \in Nat /\ setup \in Setups /\ free_rows \in Seq(Nat)
      /\ prepared \in Seq(Reqs) /\ NoRepeats(prepared)
      /\ \A q \in Reqs : Sound(req[q], Prompt[q])
  BY <1>1 DEF BaseInv, Worker
<1>3. CASE WaveGot
  <2>1. /\ Room(free_rows, n)
        /\ free_rows' = Rest(free_rows, n)
        /\ req' = [r \in Reqs |-> req'[r]]
        /\ \A r \in ToSet(prepared) : Began(req'[r], req[r], "running", LockedPath(r), d[r])
        /\ \A r \in Reqs : r \notin ToSet(prepared) => req'[r] = req[r]
        /\ prepared' = <<>> /\ stage' = "idle" /\ batch' = batch
    BY <1>1, <1>3 DEF WaveGot
  <2>2. /\ n \in Nat /\ d \in Lists
        /\ Once(Rest(free_rows, n), d, {}, ToSet(free_rows))
    BY <1>2, <2>1, ManyTakers DEF BaseInv, Once
  <2>3. \A r \in Reqs : r \notin ToSet(prepared) => d[r] = <<>>
    BY DEF Dealt
  <2> HIDE DEF n, d
  <2>4. free_rows' \in Seq(Nat)
    BY <1>2, <2>1, <2>2, AllocFacts
  <2>5. \A r \in Reqs : Sound(req'[r], Prompt[r])
    BY <1>1, <1>2, <2>1, BeganSound
  <2>6. Worker'
    <3>1. <<>> \in Seq(Reqs) /\ NoRepeats(<<>>) /\ ToSet(<<>>) = {}
      BY EmptyList
    <3>2. \A r \in Reqs : req'[r].phase # "matched"
      <4> SUFFICES ASSUME NEW r \in Reqs PROVE req'[r].phase # "matched"
        OBVIOUS
      <4>1. CASE r \in ToSet(prepared)
        BY <2>1, <4>1 DEF Began
      <4>2. CASE r \notin ToSet(prepared)
        BY <2>1, <4>2 DEF BaseInv, Worker
      <4> QED
        BY <4>1, <4>2
    <3>3. batch = <<>>
      BY <1>1 DEF BaseInv, Worker
    <3> QED
      BY <2>1, <3>1, <3>2, <3>3 DEF Worker
  <2>7. Once(free_rows', RowLists', {}, 1 .. NumRows)
    <3>1. RowLists \in Lists /\ \A q \in Reqs : RowLists[q] = req[q].row \o req[q].beams
      BY <1>2, RowListsType DEF Sound
    <3>2. RowLists' \in Lists /\ \A q \in Reqs : RowLists'[q] = req'[q].row \o req'[q].beams
      <4>1. \A q \in Reqs : Typed(req'[q])
        BY <2>5 DEF Sound
      <4> QED
        BY <4>1, RequestLists DEF RowLists, RowsOf, Lists
    <3>3. ASSUME NEW q \in Reqs PROVE RowLists'[q] = RowLists[q] \o d[q]
      <4>1. RowLists[q] \in Seq(Nat)
        BY <3>1 DEF Lists
      <4>2. CASE q \in ToSet(prepared)
        <5>1. req[q].beams = <<>> /\ req[q].row \in Seq(Nat)
          BY <1>1, <1>2, <4>2, RequestLists DEF Sound
        <5>2. RowLists[q] = req[q].row
          BY <3>1, <5>1, EmptyAdded
        <5>3. req'[q].row = req[q].row /\ req'[q].beams = d[q]
          BY <2>1, <4>2 DEF Began
        <5> QED
          BY <3>2, <5>2, <5>3
      <4>3. CASE q \notin ToSet(prepared)
        <5>1. RowLists'[q] = RowLists[q]
          BY <2>1, <3>1, <3>2, <4>3
        <5> QED
          BY <2>3, <4>1, <4>3, <5>1, EmptyAdded
      <4> QED
        BY <4>2, <4>3
    <3>4. Once(free_rows, RowLists, {}, 1 .. NumRows)
      BY DEF BaseInv
    <3> QED
      BY <1>2, <2>1, <2>2, <2>4, <3>1, <3>2, <3>3, <3>4, HandedOut
  <2> QED
    BY <1>1, <1>2, <2>1, <2>4, <2>5, <2>6, <2>7, BaseParts
<1>4. CASE GiveUp(req) /\ UNCHANGED <<free_rows, tree>>
  <2>1. /\ req' = [q \in Reqs |-> req'[q]]
        /\ \A q \in Reqs : Sound(req'[q], Prompt[q]) /\ SameHoldings(req'[q], req[q])
        /\ Worker'
    BY <1>2, <1>4, GiveUpFacts DEF Sound
  <2>2. Once(free_rows', RowLists', {}, 1 .. NumRows)
    BY <1>4, <2>1, RowsUntouched, SetupSame DEF Sound
  <2> QED
    BY <1>1, <1>2, <1>4, <2>1, <2>2, BaseParts
<1> QED
  BY <1>3, <1>4, WaveFacts

\* The same for one request, which may be finished at once.
OneGot(r) ==
    LET bw == IF Limit[r] <= 1 THEN 0 ELSE Width[r]
        phase == IF Limit[r] <= 1 THEN "finished" ELSE "running"
    IN  /\ Room(free_rows, bw) /\ bw \in Nat
        /\ free_rows' = Rest(free_rows, bw)
        /\ req' = [q \in Reqs |-> req'[q]]
        /\ Began(req'[r], req[r], phase, LockedPath(r), Taken(free_rows, bw))
        /\ \A q \in Reqs : q # r => req'[q] = req[q]
        /\ prepared' = Tail(prepared)
        /\ stage' \in {"idle", "each"} /\ (stage' = "idle" <=> Len(prepared) = 1)
        /\ batch' = batch

\* It has locked its hit and is dropped: every request in hand is.
OneDropped(r) ==
    /\ free_rows' = free_rows
    /\ req' = [q \in Reqs |-> req'[q]]
    /\ Began(req'[r], req[r], "dropped", LockedPath(r), <<>>)
    /\ \A q \in Reqs : /\ Sound(req'[q], Prompt[q])
                       /\ q # r => SameHoldings(req'[q], req[q])
                       /\ req'[q].phase \in {"new", "done", "dropped"}
    /\ stage' = "idle"
    /\ Worker'

LEMMA OneFacts ==
    ASSUME BaseInv, InitOne
    PROVE  LET r == Head(prepared)
           IN  /\ stage = "each" /\ UNCHANGED <<free, clock, content>>
               /\ r \in Reqs /\ r \in ToSet(prepared) /\ req[r].phase = "matched"
               /\ tree' = Lock(tree, LockedPath(r)) /\ GoodTree(tree')
               /\ OneGot(r) \/ OneDropped(r)
<1> DEFINE r == Head(prepared)
           bw == IF Limit[r] <= 1 THEN 0 ELSE Width[r]
           phase == IF Limit[r] <= 1 THEN "finished" ELSE "running"
           rq == [req EXCEPT ![r].locked = LockedPath(r)]
<1>1. stage = "each" /\ UNCHANGED <<free, clock, content>> /\ tree' = Lock(tree, LockedPath(r))
  BY DEF InitOne
<1>2. prepared # <<>> /\ prepared \in Seq(Reqs)
  BY <1>1 DEF BaseInv, Worker
<1>3. r \in Reqs /\ r \in ToSet(prepared)
  BY <1>2, HeadMembers
<1>4. req[r].phase = "matched"
  BY <1>3 DEF BaseInv, Worker
<1>5. LockedPath(r) \in Seq(Nat)
  BY <1>3, <1>4, LockedPathFacts
<1>6. GoodTree(tree')
  BY <1>1, <1>5, LockFacts DEF BaseInv
<1>7. bw \in Nat
  BY <1>3, ParametersAssumption
<1>8. req = [q \in Reqs |-> req[q]] /\ req[r] \in Request /\ free_rows \in Seq(Nat)
  BY <1>3 DEF BaseInv, Sound, Typed
<1>9. \/ /\ Room(free_rows, bw)
         /\ free_rows' = Rest(free_rows, bw)
         /\ req' = [rq EXCEPT ![r].phase = phase, ![r].beams = Taken(free_rows, bw)]
         /\ prepared' = Tail(prepared)
         /\ stage' = IF Len(prepared) = 1 THEN "idle" ELSE stage
         /\ batch' = batch
      \/ ~Room(free_rows, bw) /\ GiveUp(rq) /\ free_rows' = free_rows
  BY DEF InitOne
<1> HIDE DEF bw, phase, r
<1>10. CASE /\ Room(free_rows, bw)
            /\ free_rows' = Rest(free_rows, bw)
            /\ req' = [rq EXCEPT ![r].phase = phase, ![r].beams = Taken(free_rows, bw)]
            /\ prepared' = Tail(prepared)
            /\ stage' = IF Len(prepared) = 1 THEN "idle" ELSE stage
            /\ batch' = batch
  <2> DEFINE beams == Taken(free_rows, bw)
  <2>1. beams \in Seq(Nat)
    BY <1>7, <1>8, <1>10, AllocFacts
  <2> HIDE DEF beams
  <2>2. req' = [rq EXCEPT ![r].phase = phase, ![r].beams = beams]
    BY <1>10 DEF beams
  <2>3. rq = [q \in Reqs |-> IF q = r THEN [req[r] EXCEPT !.locked = LockedPath(r)] ELSE req[q]]
    BY <1>3, <1>8
  <2> HIDE DEF rq
  <2>4. req' = [q \in Reqs |-> IF q = r THEN [rq[r] EXCEPT !.phase = phase, !.beams = beams]
                                        ELSE rq[q]]
    BY <1>3, <2>2, <2>3
  <2>5. rq[r] = [req[r] EXCEPT !.locked = LockedPath(r)] /\ \A q \in Reqs : q # r => rq[q] = req[q]
    BY <1>3, <2>3
  <2>6. /\ req' = [q \in Reqs |-> req'[q]]
        /\ \A q \in Reqs : q # r => req'[q] = req[q]
    BY <2>4, <2>5
  <2>7. req'[r] = [rq[r] EXCEPT !.phase = phase, !.beams = beams]
    BY <1>3, <2>4
  <2>8. phase \in Phases
    BY DEF phase, Phases
  <2>9. /\ rq[r] \in Request /\ rq[r].locked = LockedPath(r)
        /\ rq[r].hit = req[r].hit /\ rq[r].full = req[r].full
        /\ rq[r].owned = req[r].owned /\ rq[r].row = req[r].row
    BY <1>5, <1>8, <2>5 DEF Request
  <2>10. Began(req'[r], req[r], phase, LockedPath(r), beams)
    BY <2>1, <2>7, <2>8, <2>9 DEF Began, Request
  <2>11. OneGot(r)
    BY <1>1, <1>7, <1>10, <2>6, <2>10 DEF OneGot, beams, bw, phase
  <2> QED
    BY <1>1, <1>3, <1>4, <1>6, <2>11 DEF r
<1>11. CASE ~Room(free_rows, bw) /\ GiveUp(rq) /\ free_rows' = free_rows
  <2>1. rq = [q \in Reqs |-> IF q = r THEN [req[r] EXCEPT !.locked = LockedPath(r)] ELSE req[q]]
    BY <1>3, <1>8
  <2> HIDE DEF rq
  <2>2. rq[r] = [req[r] EXCEPT !.locked = LockedPath(r)] /\ \A q \in Reqs : q # r => rq[q] = req[q]
    BY <1>3, <2>1
  <2>3. /\ rq[r] \in Request /\ rq[r].locked = LockedPath(r) /\ rq[r].phase = "matched"
        /\ rq[r].hit = req[r].hit /\ rq[r].full = req[r].full /\ rq[r].beams = req[r].beams
        /\ rq[r].owned = req[r].owned /\ rq[r].row = req[r].row
    BY <1>4, <1>5, <1>8, <2>2 DEF Request
  <2>4. req[r].hit <= Len(req[r].full) /\ req[r].beams = <<>>
    BY <1>3, <1>4 DEF BaseInv, Sound, Typed
  <2>5. Typed(rq[r]) /\ rq[r].phase # "new"
    BY <2>3, <2>4 DEF Typed
  <2>6. \A q \in Reqs : Typed(req[q]) /\ (req[q].phase = "new" => req[q] = NewReq)
    BY DEF BaseInv, Sound
  <2>7. \A q \in Reqs : Typed(rq[q])
    BY <2>2, <2>5, <2>6
  <2>8. \A q \in Reqs : rq[q].phase = "new" => rq[q] = NewReq
    BY <2>2, <2>5, <2>6
  <2>9. /\ req' = [q \in Reqs |-> req'[q]]
        /\ \A q \in Reqs : /\ Sound(req'[q], Prompt[q])
                           /\ SameHoldings(req'[q], rq[q])
                           /\ req'[q].phase \in {"new", "done", "dropped"}
        /\ stage' = "idle" /\ Worker'
    BY <1>11, <2>7, <2>8, GiveUpFacts
  <2>10. req'[r].phase = "dropped"
    <3>1. req' = [q \in Reqs |->
                   IF rq[q].phase \in {"matched", "running", "finished"} \/ q \in ToSet(batch)
                   THEN [rq[q] EXCEPT !.phase = "dropped"] ELSE rq[q]]
      BY <1>11 DEF GiveUp
    <3>2. req'[r] = [rq[r] EXCEPT !.phase = "dropped"]
      BY <1>3, <2>3, <3>1
    <3> QED
      BY <2>3, <3>2 DEF Request
  <2>11. Began(req'[r], req[r], "dropped", LockedPath(r), <<>>)
    <3>1. Sound(req'[r], Prompt[r]) /\ SameHoldings(req'[r], rq[r])
      BY <1>3, <2>9
    <3>2. req'[r] \in Request
      BY <3>1 DEF Sound, Typed
    <3> QED
      BY <2>3, <2>4, <2>10, <3>1, <3>2 DEF Began, SameHoldings
  <2>12. \A q \in Reqs : q # r => SameHoldings(req'[q], req[q])
    BY <2>2, <2>9
  <2>13. OneDropped(r)
    BY <1>11, <2>9, <2>11, <2>12 DEF OneDropped
  <2> QED
    BY <1>1, <1>3, <1>4, <1>6, <2>13 DEF r
<1> QED
  BY <1>9, <1>10, <1>11

LEMMA BaseInitOne ==
    ASSUME BaseInv, InitOne, setup' = setup
    PROVE  BaseInv'
<1> DEFINE r == Head(prepared)
<1>1. /\ stage = "each" /\ UNCHANGED <<free, clock, content>>
      /\ r \in Reqs /\ r \in ToSet(prepared) /\ req[r].phase = "matched"
      /\ GoodTree(tree')
      /\ OneGot(r) \/ OneDropped(r)
  BY OneFacts
<1>2. /\ free' \in Seq(Nat) /\ clock' \in Nat /\ setup \in Setups /\ free_rows \in Seq(Nat)
      /\ prepared \in Seq(Reqs) /\ NoRepeats(prepared) /\ prepared # <<>>
      /\ \A q \in Reqs : Sound(req[q], Prompt[q])
      /\ batch = <<>>
  BY <1>1 DEF BaseInv, Worker
<1>3. RowLists \in Lists /\ \A q \in Reqs : RowLists[q] = req[q].row \o req[q].beams
  BY <1>2, RowListsType DEF Sound
<1>4. Once(free_rows, RowLists, {}, 1 .. NumRows)
  BY DEF BaseInv
<1>5. req[r].beams = <<>> /\ req[r].row \in Seq(Nat)
  BY <1>1, <1>2, RequestLists DEF Sound
<1>6. /\ Tail(prepared) \in Seq(Reqs) /\ NoRepeats(Tail(prepared)) /\ r \notin ToSet(Tail(prepared))
      /\ ToSet(prepared) = ToSet(Tail(prepared)) \cup {r}
      /\ (Tail(prepared) = <<>> <=> Len(prepared) = 1)
  <2>1. Tail(prepared) \in Seq(Reqs) /\ Len(Tail(prepared)) = Len(prepared) - 1
    BY <1>2
  <2>2. Tail(prepared) = <<>> <=> Len(Tail(prepared)) = 0
    <3>1. \A u \in Seq(Reqs) : u = <<>> <=> Len(u) = 0
      OBVIOUS
    <3> QED
      BY <2>1, <3>1
  <2>3. Tail(prepared) = <<>> <=> Len(prepared) = 1
    BY <1>2, <2>1, <2>2
  <2> QED
    BY <1>2, <2>3, HeadMembers
<1> HIDE DEF r
<1>7. CASE OneGot(r)
  <2>1. PICK bw \in Nat, phase \in {"running", "finished"} :
          /\ Room(free_rows, bw)
          /\ free_rows' = Rest(free_rows, bw)
          /\ Began(req'[r], req[r], phase, LockedPath(r), Taken(free_rows, bw))
    BY <1>7 DEF OneGot
  <2>2. /\ req' = [q \in Reqs |-> req'[q]]
        /\ \A q \in Reqs : q # r => req'[q] = req[q]
        /\ prepared' = Tail(prepared) /\ batch' = <<>>
        /\ stage' \in {"idle", "each"} /\ (stage' = "idle" <=> prepared' = <<>>)
    BY <1>2, <1>6, <1>7 DEF OneGot
  <2> DEFINE beams == Taken(free_rows, bw)
  <2>3. /\ ToOne(r, beams) \in Lists
        /\ Once(free_rows', ToOne(r, beams), {}, ToSet(free_rows))
    BY <1>1, <1>2, <1>4, <2>1, OneTaker DEF Once
  <2>4. free_rows' \in Seq(Nat) /\ beams \in Seq(Nat)
    BY <1>2, <2>1, AllocFacts
  <2> HIDE DEF beams
  <2>5. \A q \in Reqs : Sound(req'[q], Prompt[q])
    BY <1>1, <1>2, <2>1, <2>2, BeganSound
  <2>6. Worker'
    <3>1. <<>> \in Seq(Reqs) /\ NoRepeats(<<>>) /\ ToSet(<<>>) = {}
      BY EmptyList
    <3>2. req'[r].phase # "matched"
      BY <2>1 DEF Began
    <3>3. \A q \in Reqs : req'[q].phase = "matched" <=> q \in ToSet(prepared')
      BY <1>6, <2>2, <3>2 DEF BaseInv, Worker
    <3> QED
      BY <1>6, <2>2, <3>1, <3>3 DEF Worker
  <2>7. Once(free_rows', RowLists', {}, 1 .. NumRows)
    <3>1. RowLists' \in Lists /\ \A q \in Reqs : RowLists'[q] = req'[q].row \o req'[q].beams
      <4>1. \A q \in Reqs : Typed(req'[q])
        BY <2>5 DEF Sound
      <4> QED
        BY <4>1, RequestLists DEF RowLists, RowsOf, Lists
    <3>2. ASSUME NEW q \in Reqs PROVE RowLists'[q] = RowLists[q] \o ToOne(r, beams)[q]
      <4>1. RowLists[q] \in Seq(Nat)
        BY <1>3 DEF Lists
      <4>2. CASE q = r
        <5>1. RowLists[q] = req[q].row
          BY <1>3, <1>5, <4>2, EmptyAdded
        <5>2. req'[q].row = req[q].row /\ req'[q].beams = beams
          BY <2>1, <4>2 DEF Began, beams
        <5>3. ToOne(r, beams)[q] = beams
          BY <4>2 DEF ToOne
        <5> QED
          BY <3>1, <5>1, <5>2, <5>3
      <4>3. CASE q # r
        <5>1. RowLists'[q] = RowLists[q] /\ ToOne(r, beams)[q] = <<>>
          BY <1>3, <2>2, <3>1, <4>3 DEF ToOne
        <5> QED
          BY <4>1, <5>1, EmptyAdded
      <4> QED
        BY <4>2, <4>3
    <3> QED
      BY <1>2, <1>3, <1>4, <2>3, <2>4, <3>1, <3>2, HandedOut
  <2> QED
    BY <1>1, <1>2, <2>2, <2>4, <2>5, <2>6, <2>7, BaseParts
<1>8. CASE OneDropped(r)
  <2>1. /\ free_rows' = free_rows
        /\ req' = [q \in Reqs |-> req'[q]]
        /\ \A q \in Reqs : Sound(req'[q], Prompt[q])
        /\ Worker'
    BY <1>8 DEF OneDropped
  <2>2. \A q \in Reqs : req'[q].row = req[q].row /\ req'[q].beams = req[q].beams
    <3>1. req'[r].row = req[r].row /\ req'[r].beams = <<>>
      BY <1>8 DEF OneDropped, Began
    <3>2. \A q \in Reqs : q # r => req'[q].row = req[q].row /\ req'[q].beams = req[q].beams
      BY <1>8 DEF OneDropped, SameHoldings
    <3> QED
      BY <1>5, <3>1, <3>2
  <2>3. RowLists' = RowLists
    BY <2>2 DEF RowLists, RowsOf
  <2> QED
    BY <1>1, <1>2, <1>4, <2>1, <2>3, BaseParts
<1> QED
  BY <1>1, <1>7, <1>8

-----------------------------------------------------------------------------
(* Decoding. *)

\* A request that owns more slots and may have all its tokens.
Decoded(a, b, more) ==
    /\ a \in Request
    /\ a.phase \in {b.phase, "finished"}
    /\ a.owned = b.owned \o more
    /\ a.hit = b.hit /\ a.full = b.full /\ a.locked = b.locked
    /\ a.row = b.row /\ a.beams = b.beams

\* The slots for S out of the pool.
Shares(pool, S) == Dealt(Taken(pool, Total(SetToSeq(S))), SetToSeq(S), S)

DecodeGot(S, pool) ==
    LET n == Total(SetToSeq(S))
    IN  /\ Room(pool, n)
        /\ free' = Rest(pool, n)
        /\ req' = [r \in Reqs |-> req'[r]]
        /\ \A r \in Reqs : IF r \in S THEN Decoded(req'[r], req[r], Shares(pool, S)[r])
                                      ELSE req'[r] = req[r]
        /\ content' = Store(content, UNION {StepKV(r, Shares(pool, S)[r]) : r \in S})
        /\ UNCHANGED <<batch, prepared, stage>>

DecodeShort(pool) == free' = pool /\ GiveUp(req) /\ content' = content

LEMMA SharesFacts ==
    ASSUME NEW S \in SUBSET Reqs, NEW pool \in Seq(Nat), NoRepeats(pool),
           Room(pool, Total(SetToSeq(S)))
    PROVE  /\ Once(Rest(pool, Total(SetToSeq(S))), Shares(pool, S), {}, ToSet(pool))
           /\ \A r \in Reqs : r \notin S => Shares(pool, S)[r] = <<>>
<1>1. IsFiniteSet(S)
  BY ParametersAssumption, FS_Subset
<1>2. SetToSeq(S) \in Seq(Reqs) /\ ToSet(SetToSeq(S)) = S /\ NoRepeats(SetToSeq(S))
  BY <1>1, ListedSet
<1>3. \A r \in Reqs : r \notin S => Shares(pool, S)[r] = <<>>
  BY DEF Shares, Dealt
<1> QED
  BY <1>2, <1>3, ManyTakers DEF Shares

LEMMA ShareType ==
    ASSUME NEW S \in SUBSET Reqs, NEW pool \in Seq(Nat), Room(pool, Total(SetToSeq(S)))
    PROVE  /\ Total(SetToSeq(S)) \in Nat
           /\ Shares(pool, S) \in Lists
           /\ \A r \in S : Shares(pool, S)[r] = Share(Taken(pool, Total(SetToSeq(S))), SetToSeq(S), r)
<1>1. IsFiniteSet(S)
  BY ParametersAssumption, FS_Subset
<1>2. SetToSeq(S) \in Seq(Reqs) /\ ToSet(SetToSeq(S)) = S /\ NoRepeats(SetToSeq(S))
  BY <1>1, ListedSet
<1>3. Total(SetToSeq(S)) \in Nat /\ Shares(pool, S) \in Lists
  BY <1>2, DealtType DEF Shares
<1>4. \A r \in S : Shares(pool, S)[r] = Share(Taken(pool, Total(SetToSeq(S))), SetToSeq(S), r)
  BY DEF Shares, Dealt
<1> QED
  BY <1>3, <1>4

LEMMA DecodeFacts ==
    ASSUME BaseInv, NEW S \in SUBSET In("running"), Decode(S)
    PROVE  /\ stage = "idle" /\ S \subseteq Reqs /\ UNCHANGED <<free_rows, clock>>
           /\ \A r \in S : req[r].phase = "running"
           /\ \E e : /\ Outcome(e, tree) /\ tree' = e.tree
                     /\ free \o e.freed \in Seq(Nat)
                     /\ \/ DecodeGot(S, free \o e.freed)
                        \/ DecodeShort(free \o e.freed)
<1>1. /\ S \subseteq Reqs /\ \A r \in S : req[r].phase = "running"
  BY DEF In
<1>2. SetToSeq(S) \in Seq(Reqs)
  BY <1>1, ParametersAssumption, FS_Subset, ListedSet
<1>3. Total(SetToSeq(S)) \in Nat
  BY <1>2, TotalNat
<1>4. PICK e \in AfterEvict(tree, Total(SetToSeq(S))) :
        LET rs == SetToSeq(S)
            n == Total(rs)
            pool == free \o e.freed
            loc == Taken(pool, n)
        IN /\ tree' = e.tree
           /\ \/ /\ Room(pool, n)
                 /\ free' = Rest(pool, n)
                 /\ req' = [r \in Reqs |->
                       IF r \notin S THEN req[r]
                       ELSE [req[r] EXCEPT
                               !.owned = @ \o Share(loc, rs, r),
                               !.steps = @ + 1,
                               !.phase = IF req[r].steps + 2 >= Limit[r]
                                         THEN "finished" ELSE @]]
                 /\ content' = Store(content, UNION {StepKV(r, Share(loc, rs, r)) : r \in S})
                 /\ UNCHANGED <<batch, prepared, stage>>
              \/ /\ ~Room(pool, n)
                 /\ free' = pool
                 /\ GiveUp(req)
                 /\ UNCHANGED content
  BY DEF Decode
<1>5. stage = "idle" /\ UNCHANGED <<free_rows, clock>>
  BY DEF Decode
<1>6. Outcome(e, tree)
  BY <1>3, TreesAfterEvict DEF BaseInv
<1> DEFINE n == Total(SetToSeq(S))
           pool == free \o e.freed
<1>7. pool \in Seq(Nat)
  BY <1>6, ConcatMembers DEF BaseInv, Outcome
<1>8. CASE Room(pool, n)
  <2>1. /\ free' = Rest(pool, n)
        /\ req' = [r \in Reqs |->
              IF r \notin S THEN req[r]
              ELSE [req[r] EXCEPT
                      !.owned = @ \o Share(Taken(pool, n), SetToSeq(S), r),
                      !.steps = @ + 1,
                      !.phase = IF req[r].steps + 2 >= Limit[r]
                                THEN "finished" ELSE @]]
        /\ content' = Store(content, UNION {StepKV(r, Share(Taken(pool, n), SetToSeq(S), r)) : r \in S})
        /\ UNCHANGED <<batch, prepared, stage>>
    BY <1>4, <1>8
  <2> HIDE DEF pool
  <2>2. \A r \in S : Shares(pool, S)[r] = Share(Taken(pool, n), SetToSeq(S), r)
    BY <1>1, <1>7, <1>8, ShareType
  <2>3. ASSUME NEW r \in S
        PROVE  Decoded(req'[r], req[r], Shares(pool, S)[r])
    <3> DEFINE more == Shares(pool, S)[r]
    <3>1. Shares(pool, S) \in Lists
      BY <1>1, <1>7, <1>8, ShareType
    <3>2. more \in Seq(Nat) /\ req[r] \in Request
      BY <1>1, <3>1 DEF Lists, BaseInv, Sound, Typed
    <3>3. req'[r] = [req[r] EXCEPT !.owned = @ \o more, !.steps = @ + 1,
                                   !.phase = IF req[r].steps + 2 >= Limit[r] THEN "finished" ELSE @]
      BY <1>1, <2>1, <2>2
    <3> HIDE DEF more
    <3>4. req[r].owned \o more \in Seq(Nat)
      BY <3>2, ConcatMembers DEF Request
    <3>5. PICK phase \in {req[r].phase, "finished"} :
             phase = IF req[r].steps + 2 >= Limit[r] THEN "finished" ELSE req[r].phase
      OBVIOUS
    <3>6. phase \in Phases /\ req[r].steps + 1 \in Nat
      BY <3>2, <3>5 DEF Request, Phases
    <3>7. req'[r] = [req[r] EXCEPT !.owned = req[r].owned \o more, !.steps = req[r].steps + 1,
                                   !.phase = phase]
      BY <3>2, <3>3, <3>5 DEF Request
    <3> QED
      BY <3>2, <3>4, <3>5, <3>6, <3>7 DEF Decoded, Request, more
  <2>4. {StepKV(r, Share(Taken(pool, n), SetToSeq(S), r)) : r \in S}
          = {StepKV(r, Shares(pool, S)[r]) : r \in S}
    BY <2>2
  <2>5. req' = [r \in Reqs |-> req'[r]] /\ \A r \in Reqs : r \notin S => req'[r] = req[r]
    BY <2>1
  <2>6. DecodeGot(S, pool)
    BY <1>8, <2>1, <2>3, <2>4, <2>5 DEF DecodeGot
  <2> QED
    BY <1>1, <1>4, <1>5, <1>6, <1>7, <2>6 DEF pool
<1>9. CASE ~Room(pool, n)
  BY <1>1, <1>4, <1>5, <1>6, <1>7, <1>9 DEF DecodeShort
<1> QED
  BY <1>8, <1>9

LEMMA DecodedSound ==
    ASSUME NEW p, NEW b, Sound(b, p), b.phase = "running", NEW a, NEW more, Decoded(a, b, more)
    PROVE  Sound(a, p) /\ a.phase \in {"running", "finished"}
BY DEF Decoded, Sound, Typed

LEMMA BaseDecode ==
    ASSUME BaseInv, NEW S \in SUBSET In("running"), Decode(S), setup' = setup
    PROVE  BaseInv'
<1>1. /\ stage = "idle" /\ S \subseteq Reqs /\ UNCHANGED <<free_rows, clock>>
      /\ \A r \in S : req[r].phase = "running"
  BY DecodeFacts
<1>2. PICK e : /\ Outcome(e, tree) /\ tree' = e.tree
               /\ free \o e.freed \in Seq(Nat)
               /\ \/ DecodeGot(S, free \o e.freed)
                  \/ DecodeShort(free \o e.freed)
  BY DecodeFacts
<1> DEFINE pool == free \o e.freed
<1>3. GoodTree(tree') /\ pool \in Seq(Nat)
  BY <1>2 DEF Outcome
<1> HIDE DEF pool
<1>4. /\ clock' \in Nat /\ setup \in Setups /\ free_rows' \in Seq(Nat)
      /\ \A q \in Reqs : Sound(req[q], Prompt[q])
  BY <1>1 DEF BaseInv
<1>5. CASE DecodeGot(S, pool)
  <2>1. /\ free' \in Seq(Nat)
    <3>1. Room(pool, Total(SetToSeq(S))) /\ free' = Rest(pool, Total(SetToSeq(S)))
      BY <1>5 DEF DecodeGot
    <3>2. Total(SetToSeq(S)) \in Nat
      BY <1>1, <1>3, <3>1, ShareType
    <3> QED
      BY <1>3, <3>1, <3>2, AllocFacts
  <2>2. /\ req' = [r \in Reqs |-> req'[r]]
        /\ \A r \in S : Decoded(req'[r], req[r], Shares(pool, S)[r])
        /\ \A r \in Reqs : r \notin S => req'[r] = req[r]
        /\ UNCHANGED <<batch, prepared, stage>>
    BY <1>1, <1>5 DEF DecodeGot
  <2>3. \A r \in S : Sound(req'[r], Prompt[r]) /\ req'[r].phase \in {"running", "finished"}
    BY <1>1, <1>4, <2>2, DecodedSound
  <2>4. \A r \in Reqs : Sound(req'[r], Prompt[r])
    BY <1>4, <2>2, <2>3
  <2>5. Worker'
    <3>1. batch = <<>> /\ prepared = <<>>
      BY <1>1 DEF BaseInv, Worker
    <3>2. \A r \in Reqs : req'[r].phase = "matched" <=> req[r].phase = "matched"
      BY <1>1, <2>2, <2>3
    <3>3. ToSet(<<>>) = {}
      BY EmptyList
    <3> QED
      BY <1>1, <2>2, <3>1, <3>2, <3>3 DEF BaseInv, Worker
  <2>6. Once(free_rows', RowLists', {}, 1 .. NumRows)
    <3>1. \A r \in Reqs : req'[r].row = req[r].row /\ req'[r].beams = req[r].beams
      BY <2>2 DEF Decoded
    <3>2. RowLists' = RowLists
      BY <3>1 DEF RowLists, RowsOf
    <3> QED
      BY <1>1, <3>2 DEF BaseInv
  <2> QED
    BY <1>3, <1>4, <2>1, <2>2, <2>4, <2>5, <2>6, BaseParts
<1>6. CASE DecodeShort(pool)
  <2>1. free' = pool /\ GiveUp(req)
    BY <1>6 DEF DecodeShort
  <2>2. /\ req' = [q \in Reqs |-> req'[q]]
        /\ \A q \in Reqs : Sound(req'[q], Prompt[q]) /\ SameHoldings(req'[q], req[q])
        /\ Worker'
    BY <1>4, <2>1, GiveUpFacts DEF Sound
  <2>3. Once(free_rows', RowLists', {}, 1 .. NumRows)
    BY <1>1, <2>2, RowsUntouched, SetupSame DEF Sound
  <2> QED
    BY <1>3, <1>4, <2>1, <2>2, <2>3, BaseParts
<1> QED
  BY <1>2, <1>5, <1>6 DEF pool

-----------------------------------------------------------------------------
(* Completing. *)

\* The slots that the tree does not take: those of the positions past the
\* inserted path and of the positions where it has another slot.
LEMMA NotTakenFacts ==
    ASSUME BaseInv, NEW r \in Reqs, req[r].phase = "finished", Len(Prompt[r]) >= 2, NEW t
    PROVE  LET p == Prompt[r]
               full == req[r].full
               m == Len(Inserted(p))
               left == {i \in 1 .. Len(p) : i > m \/ full[i] # t[Pre(p, i)].kv}
           IN  /\ Inserted(p) \in Path /\ m \in 1 .. Len(p) - 1 /\ m = Lesser(Len(p) - 1, MaxIns)
               /\ \A i \in 1 .. m : Pre(Inserted(p), i) = Pre(p, i)
               /\ PathNodes(Inserted(p)) = {Pre(p, i) : i \in 1 .. m}
               /\ full \in Seq(Nat) /\ Len(full) = Len(p)
               /\ NotTaken(t, r) \in Seq(Nat)
               /\ ToSet(NotTaken(t, r)) = {full[i] : i \in left}
               /\ NoRepeats(full) => NoRepeats(NotTaken(t, r))
<1> DEFINE p == Prompt[r]
           full == req[r].full
           ins == Inserted(p)
           m == Len(ins)
           n == Len(full)
           left == {i \in 1 .. Len(p) : i > m \/ full[i] # t[Pre(p, i)].kv}
<1>1. p \in Seq(Nat) /\ Len(p) \in Nat /\ Len(p) >= 2
  BY SetupFacts DEF BaseInv
<1>2. full \in Seq(Nat) /\ n = Len(p)
  BY DEF BaseInv, Sound, Typed, Request
<1>3. PICK k \in Nat : k = Lesser(Len(p) - 1, MaxIns)
  <2>1. Len(p) - 1 \in Nat /\ MaxIns \in Nat
    BY <1>1, ParametersAssumption
  <2>2. \A a, b \in Nat : Lesser(a, b) \in Nat
    BY DEF Lesser
  <2> QED
    BY <2>1, <2>2
<1>4. /\ k \in 1 .. Len(p) - 1 /\ k \in 0 .. Len(p) /\ k <= MaxIns
      /\ (k < Len(p) - 1 => k = MaxIns) /\ MaxIns \in Nat /\ MaxIns >= 1
  BY <1>1, <1>3, ParametersAssumption DEF Lesser
<1> HIDE DEF p
<1>5. ins = Pre(p, k)
  BY <1>3 DEF Inserted, Upto, Pre
<1>6. ins \in Seq(Nat) /\ m = k
  BY <1>1, <1>4, <1>5, PreFacts
<1>7. \A i \in 1 .. m : Pre(ins, i) = Pre(p, i)
  <2>1. \A i \in 1 .. m : i \in 0 .. k
    BY <1>6
  <2> QED
    BY <1>1, <1>4, <1>5, <2>1, PrePre
<1>8. ins \in Path
  BY <1>4, <1>6 DEF Path
<1>9. PathNodes(ins) = {Pre(p, i) : i \in 1 .. m}
  BY <1>7 DEF PathNodes
<1> DEFINE first == <<full[n]>>
           mid == SubSeq(full, MaxIns + 1, n - 1)
           at == Duplicated(t, r)
           dups == [j \in 1 .. Len(at) |-> full[at[j]]]
<1>10. NotTaken(t, r) = first \o mid \o dups
  BY DEF NotTaken
<1> HIDE DEF ins, full
<1>11. /\ at \in Seq(1 .. m) /\ NoRepeats(at)
       /\ ToSet(at) = {i \in 1 .. m : full[i] # t[Pre(p, i)].kv}
  <2> DEFINE count == [i \in 1 .. m |-> i]
             D == {i \in 1 .. m : full[i] # Canonical(t, ins)[i]}
  <2>1. at = Only(count, D)
    BY DEF Duplicated, p, ins, full
  <2>2. m \in Nat
    BY <1>4, <1>6
  <2>3. count \in Seq(1 .. m) /\ Len(count) = m /\ NoRepeats(count)
    BY <2>2 DEF NoRepeats
  <2>4. ToSet(count) = 1 .. m
    <3>1. ToSet(count) = {count[i] : i \in 1 .. m}
      <4> HIDE DEF count, m
      <4> QED
        BY <2>3, Members
    <3> QED
      BY <3>1
  <2> HIDE DEF count
  <2>5. \A i \in 1 .. m : Canonical(t, ins)[i] = t[Pre(p, i)].kv
    BY <1>7 DEF Canonical
  <2>6. D = {i \in 1 .. m : full[i] # t[Pre(p, i)].kv}
    BY <2>5
  <2> HIDE DEF D
  <2>7. at \in Seq(1 .. m) /\ NoRepeats(at) /\ ToSet(at) = (1 .. m) \cap D
    BY <2>1, <2>3, <2>4, OnlyMembers
  <2> QED
    BY <2>6, <2>7
<1>12. /\ dups \in Seq(Nat)
       /\ ToSet(dups) = {full[i] : i \in ToSet(at)}
       /\ NoRepeats(full) => NoRepeats(dups)
  <2>1. 1 .. m \subseteq 1 .. Len(full)
    BY <1>1, <1>2, <1>4, <1>6
  <2> HIDE DEF at
  <2>2. PICK d : d = 1 .. m /\ d \subseteq 1 .. Len(full)
    BY <2>1
  <2>3. PICK w \in Seq(d) : w = at /\ NoRepeats(w)
    BY <1>11, <2>2
  <2>4. PICK g \in Seq(Nat) : g = full
    BY <1>2
  <2>5. w \in Seq(d) /\ g \in Seq(Nat) /\ d \subseteq 1 .. Len(g)
    BY <2>2, <2>3, <2>4
  <2>6. /\ [x \in 1 .. Len(w) |-> g[w[x]]] \in Seq(Nat)
        /\ ToSet([x \in 1 .. Len(w) |-> g[w[x]]]) = {g[i] : i \in ToSet(w)}
        /\ NoRepeats(g) /\ NoRepeats(w) => NoRepeats([x \in 1 .. Len(w) |-> g[w[x]]])
    BY <2>5, MapMembers
  <2> QED
    BY <2>3, <2>4, <2>6
<1>13. /\ mid \in Seq(Nat)
       /\ ToSet(mid) = {full[i] : i \in MaxIns + 1 .. n - 1}
       /\ NoRepeats(full) => NoRepeats(mid)
  <2>1. MaxIns + 1 \in Nat \ {0} /\ n - 1 \in Nat /\ n - 1 <= Len(full)
    BY <1>1, <1>2, <1>4
  <2>2. \A a \in Nat \ {0}, b \in Nat : b <= Len(full) =>
           /\ SubSeq(full, a, b) \in Seq(Nat)
           /\ ToSet(SubSeq(full, a, b)) = {full[i] : i \in a .. b}
           /\ NoRepeats(full) => NoRepeats(SubSeq(full, a, b))
    <3>1. PICK g \in Seq(Nat) : g = full
      BY <1>2
    <3> SUFFICES ASSUME NEW a \in Nat \ {0}, NEW b \in Nat, b <= Len(g)
                 PROVE  /\ SubSeq(g, a, b) \in Seq(Nat)
                        /\ ToSet(SubSeq(g, a, b)) = {g[i] : i \in a .. b}
                        /\ NoRepeats(g) => NoRepeats(SubSeq(g, a, b))
      BY <3>1
    <3> QED
      BY <3>1, SliceMembers
  <2> QED
    BY <2>1, <2>2
<1>14. /\ first \in Seq(Nat) /\ ToSet(first) = {full[n]} /\ NoRepeats(first)
  <2>1. full[n] \in Nat
    BY <1>1, <1>2
  <2>2. PICK x \in Nat : x = full[n]
    BY <2>1
  <2>3. <<x>> \in Seq(Nat) /\ Len(<<x>>) = 1 /\ <<x>>[1] = x
    OBVIOUS
  <2>4. ToSet(<<x>>) = {<<x>>[i] : i \in 1 .. Len(<<x>>)}
    BY <2>3, Members
  <2>5. ToSet(<<x>>) = {x}
    BY <2>3, <2>4
  <2>6. NoRepeats(<<x>>)
    BY <2>3 DEF NoRepeats
  <2> QED
    BY <2>2, <2>3, <2>5, <2>6
<1> HIDE DEF first, mid, dups, at
<1>15. first \o mid \in Seq(Nat) /\ ToSet(first \o mid) = ToSet(first) \cup ToSet(mid)
  BY <1>13, <1>14, ConcatMembers
<1>16. /\ NotTaken(t, r) \in Seq(Nat)
       /\ ToSet(NotTaken(t, r)) = ToSet(first) \cup ToSet(mid) \cup ToSet(dups)
  <2>1. PICK u \in Seq(Nat) : u = first \o mid
    BY <1>15
  <2>2. PICK v \in Seq(Nat) : v = dups
    BY <1>12
  <2>3. u \o v \in Seq(Nat) /\ ToSet(u \o v) = ToSet(u) \cup ToSet(v)
    BY ConcatMembers
  <2> QED
    BY <1>10, <1>15, <2>1, <2>2, <2>3
<1>17. left = {n} \cup (MaxIns + 1 .. n - 1) \cup ToSet(at)
  <2>1. PICK l \in Nat : l = n /\ l = Len(p) /\ k <= l - 1 /\ l >= 2
    BY <1>1, <1>2, <1>4
  <2>2. \A i : i \in ToSet(at) <=> i \in 1 .. k /\ full[i] # t[Pre(p, i)].kv
    BY <1>6, <1>11
  <2>3. \A i : i \in left <=> i \in 1 .. l /\ (i > k \/ full[i] # t[Pre(p, i)].kv)
    BY <1>6, <2>1
  <2>4. \A i : i \in 1 .. l /\ i > k <=> i = l \/ i \in MaxIns + 1 .. l - 1
    BY <1>4, <2>1
  <2>5. \A i : i \in 1 .. k <=> i \in 1 .. l /\ ~(i > k)
    BY <1>4, <2>1
  <2> HIDE DEF left
  <2>6. \A i : i \in left <=> i = l \/ i \in MaxIns + 1 .. l - 1 \/ i \in ToSet(at)
    BY <2>2, <2>3, <2>4, <2>5
  <2> QED
    BY <2>1, <2>6
<1>18. ToSet(NotTaken(t, r)) = {full[i] : i \in left}
  <2> HIDE DEF left
  <2> QED
    BY <1>12, <1>13, <1>14, <1>16, <1>17
<1>19. ASSUME NoRepeats(full) PROVE NoRepeats(NotTaken(t, r))
  <2>1. \A i, j \in 1 .. n : full[i] = full[j] => i = j
    BY <1>19 DEF NoRepeats
  <2>2. \A i \in MaxIns + 1 .. n - 1 : i \in 1 .. n /\ i # n /\ i > m
    BY <1>1, <1>2, <1>4, <1>6
  <2>3. \A i \in ToSet(at) : i \in 1 .. n /\ i # n /\ ~(i > m)
    <3>1. ToSet(at) \subseteq 1 .. k
      BY <1>6, <1>11
    <3>2. \A i \in 1 .. k : i \in 1 .. n /\ i # n /\ ~(i > k)
      BY <1>1, <1>2, <1>4
    <3> QED
      BY <1>6, <3>1, <3>2
  <2>4. n \in 1 .. n
    BY <1>1, <1>2
  <2>5. ToSet(first) \cap ToSet(mid) = {}
    BY <1>13, <1>14, <2>1, <2>2, <2>4
  <2>6. ToSet(first \o mid) \cap ToSet(dups) = {}
    BY <1>12, <1>13, <1>14, <1>15, <2>1, <2>2, <2>3, <2>4
  <2>7. NoRepeats(first \o mid)
    BY <1>13, <1>14, <1>19, <2>5, ConcatMembers
  <2>8. PICK u \in Seq(Nat) : u = first \o mid
    BY <1>15
  <2>9. PICK v \in Seq(Nat) : v = dups
    BY <1>12
  <2>10. NoRepeats(u) /\ NoRepeats(v) /\ ToSet(u) \cap ToSet(v) = {} => NoRepeats(u \o v)
    BY ConcatMembers
  <2> QED
    BY <1>10, <1>12, <1>19, <2>6, <2>7, <2>8, <2>9, <2>10
<1> QED
  BY <1>1, <1>2, <1>3, <1>4, <1>6, <1>7, <1>8, <1>9, <1>16, <1>18, <1>19 DEF p, full, ins

\* The tree with the hit unlocked, and then with the prompt inserted.
Unlocked(r) == Unlock(tree, req[r].locked)
Filled(r) == Insert(Unlocked(r), Inserted(Prompt[r]), req[r].full, clock + 1)

\* What a completion has to evict.
Quota(r) == Lesser(Greater(OverCap(Filled(r)), 0), CapBatch)

DoneReq == [NewReq EXCEPT !.phase = "done"]

LEMMA DoneReqFacts ==
    /\ DoneReq \in Request /\ \A p : Sound(DoneReq, p)
    /\ DoneReq.phase = "done" /\ DoneReq.hit = 0 /\ DoneReq.full = <<>> /\ DoneReq.locked = <<>>
    /\ DoneReq.owned = <<>> /\ DoneReq.row = <<>> /\ DoneReq.beams = <<>>
<1>1. DoneReq \in Request
  <2>1. PICK rec \in Request : rec = NewReq
    BY NewReqFacts
  <2>2. [rec EXCEPT !.phase = "done"] \in Request
    BY DEF Request, Phases
  <2> QED
    BY <2>1, <2>2 DEF DoneReq
<1>2. /\ DoneReq.phase = "done" /\ DoneReq.hit = 0 /\ DoneReq.full = <<>> /\ DoneReq.locked = <<>>
      /\ DoneReq.owned = <<>> /\ DoneReq.row = <<>> /\ DoneReq.beams = <<>>
  BY DEF DoneReq, NewReq
<1> QED
  BY <1>1, <1>2 DEF Sound, Typed

\* A one-token prompt is not cached; of another the tree takes what it can.
FinishShort(r) ==
    /\ Len(Prompt[r]) = 1
    /\ free' = free \o req[r].owned \o req[r].full
    /\ UNCHANGED <<tree, clock>>

FinishLong(r, e) ==
    /\ Len(Prompt[r]) >= 2
    /\ Outcome(e, Filled(r))
    /\ TookOff(e, Filled(r), Lesser(Quota(r), Cardinality(DOMAIN Filled(r))))
    /\ tree' = e.tree
    /\ free' = free \o req[r].owned \o e.freed \o NotTaken(Filled(r), r)

LEMMA FinishFacts ==
    ASSUME BaseInv, NEW r \in Reqs, Finish(r)
    PROVE  /\ stage = "idle" /\ req[r].phase = "finished"
           /\ UNCHANGED <<content, batch, prepared, stage>>
           /\ clock' \in Nat
           /\ free_rows' = free_rows \o RowsOf(r)
           /\ req' = With(r, DoneReq)
           /\ GoodTree(Unlocked(r)) /\ SameSlots(tree, Unlocked(r))
           /\ Len(Prompt[r]) >= 2 =>
                /\ GoodTree(Filled(r))
                /\ DOMAIN Filled(r) = DOMAIN tree \cup PathNodes(Inserted(Prompt[r]))
                /\ \A q \in DOMAIN tree : /\ Filled(r)[q].kv = tree[q].kv
                                          /\ Filled(r)[q].lock = Unlocked(r)[q].lock
                /\ \A q \in PathNodes(Inserted(Prompt[r])) \ DOMAIN tree :
                     Filled(r)[q].kv = req[r].full[Len(q)] /\ Filled(r)[q].lock = 0
           /\ FinishShort(r) \/ \E e : FinishLong(r, e)
           /\ free' \in Seq(Nat) /\ GoodTree(tree')
<1>1. /\ stage = "idle" /\ req[r].phase = "finished"
      /\ UNCHANGED <<content, batch, prepared, stage>>
      /\ free_rows' = free_rows \o RowsOf(r)
      /\ req' = With(r, DoneReq)
  BY DEF Finish, With, DoneReq
<1>2. /\ free \in Seq(Nat) /\ GoodTree(tree) /\ clock \in Nat /\ clock + 1 \in Nat
      /\ Typed(req[r])
  BY DEF BaseInv, Sound
<1>3. req[r].owned \in Seq(Nat) /\ req[r].full \in Seq(Nat) /\ req[r].locked \in Seq(Nat)
  BY <1>2, RequestLists
<1>4. free \o req[r].owned \in Seq(Nat)
  BY <1>2, <1>3, ConcatMembers
<1>5. GoodTree(Unlocked(r)) /\ SameSlots(tree, Unlocked(r))
  BY <1>2, <1>3, UnlockFacts DEF Unlocked
<1>6. Len(Prompt[r]) \in Nat \ {0}
  BY SetupFacts DEF BaseInv
<1>7. CASE Len(Prompt[r]) < 2
  <2>1. Len(Prompt[r]) = 1 /\ ~(Len(Prompt[r]) >= 2)
    <3>1. \A n \in Nat \ {0} : n < 2 => n = 1 /\ ~(n >= 2)
      OBVIOUS
    <3> QED
      BY <1>6, <1>7, <3>1
  <2>2. FinishShort(r)
    BY <2>1 DEF Finish, FinishShort
  <2>3. free' \in Seq(Nat) /\ tree' = tree /\ clock' = clock
    BY <1>3, <1>4, <2>2, ConcatMembers DEF FinishShort
  <2> QED
    BY <1>1, <1>2, <1>5, <2>1, <2>2, <2>3
<1>8. CASE ~(Len(Prompt[r]) < 2)
  <2>1. Len(Prompt[r]) >= 2
    <3>1. \A n \in Nat \ {0} : ~(n < 2) => n >= 2
      OBVIOUS
    <3> QED
      BY <1>6, <1>8, <3>1
  <2>2. /\ Inserted(Prompt[r]) \in Path
        /\ Len(Inserted(Prompt[r])) \in 1 .. Len(Prompt[r]) - 1
        /\ Len(req[r].full) = Len(Prompt[r])
    BY <1>1, <2>1, NotTakenFacts
  <2>3. NotTaken(Filled(r), r) \in Seq(Nat)
    BY <1>1, <2>1, NotTakenFacts
  <2>4. \A i \in 1 .. Len(Inserted(Prompt[r])) : req[r].full[i] \in Nat
    <3>1. \A n, m \in Nat : \A i \in 1 .. m : m \in 1 .. n - 1 => i \in 1 .. n
      OBVIOUS
    <3>2. Len(Prompt[r]) \in Nat /\ Len(Inserted(Prompt[r])) \in Nat
      BY <1>6, <2>2
    <3>3. \A i \in 1 .. Len(req[r].full) : req[r].full[i] \in Nat
      BY <1>3
    <3> QED
      BY <2>2, <3>1, <3>2, <3>3
  <2>5. /\ GoodTree(Filled(r))
        /\ DOMAIN Filled(r) = DOMAIN Unlocked(r) \cup PathNodes(Inserted(Prompt[r]))
        /\ \A q \in DOMAIN Unlocked(r) : /\ Filled(r)[q].kv = Unlocked(r)[q].kv
                                         /\ Filled(r)[q].lock = Unlocked(r)[q].lock
        /\ \A q \in PathNodes(Inserted(Prompt[r])) \ DOMAIN Unlocked(r) :
              Filled(r)[q].kv = req[r].full[Len(q)] /\ Filled(r)[q].lock = 0
    <3>1. PICK t : t = Unlocked(r) /\ GoodTree(t)
      BY <1>5
    <3>2. PICK p \in Path : p = Inserted(Prompt[r])
      BY <2>2
    <3>3. PICK kvs : kvs = req[r].full
      OBVIOUS
    <3>4. PICK now \in Nat : now = clock + 1
      BY <1>2
    <3>5. \A i \in 1 .. Len(p) : kvs[i] \in Nat
      BY <2>4, <3>2, <3>3
    <3>6. Len(p) \in Nat
      BY DEF Path
    <3>7. Grown(Insert(t, p, kvs, now), t, p, kvs)
      BY <3>1, <3>2, <3>4, <3>5, <3>6, InsertFacts
    <3>8. Filled(r) = Insert(t, p, kvs, now)
      BY <3>1, <3>2, <3>3, <3>4 DEF Filled
    <3> QED
      BY <3>1, <3>2, <3>3, <3>7, <3>8 DEF Grown
  <2>6. Quota(r) \in Nat
    <3>1. Cardinality(DOMAIN Filled(r)) \in Nat /\ Cap \in Nat /\ CapBatch \in Nat
      BY <2>5, SetupFacts, ParametersAssumption, FS_CardinalityType DEF GoodTree, BaseInv
    <3> QED
      BY <3>1 DEF Quota, OverCap, Lesser, Greater
  <2>7. /\ clock' = clock + 1
        /\ \E e \in Evictions(Filled(r), Quota(r)) :
              tree' = e.tree /\ free' = free \o req[r].owned \o e.freed \o NotTaken(Filled(r), r)
    BY <1>8 DEF Finish, Filled, Unlocked, Quota
  <2>8. PICK e \in Evictions(Filled(r), Quota(r)) :
              tree' = e.tree /\ free' = free \o req[r].owned \o e.freed \o NotTaken(Filled(r), r)
    BY <2>7
  <2>9. /\ Outcome(e, Filled(r))
        /\ TookOff(e, Filled(r), Lesser(Quota(r), Cardinality(DOMAIN Filled(r))))
    BY <2>5, <2>6, EvictionFacts
  <2>10. FinishLong(r, e) /\ GoodTree(tree') /\ e.freed \in Seq(Nat)
    BY <2>1, <2>8, <2>9 DEF FinishLong, Outcome
  <2>11. free' \in Seq(Nat)
    <3>1. PICK u \in Seq(Nat) : u = free \o req[r].owned
      BY <1>4
    <3>2. PICK v \in Seq(Nat) : v = u \o e.freed
      BY <2>10, ConcatMembers
    <3> QED
      BY <2>3, <2>8, <3>1, <3>2, ConcatMembers
  <2>12. \A q \in DOMAIN tree : Unlocked(r)[q].kv = tree[q].kv
    BY <1>5 DEF SameSlots
  <2>13. DOMAIN Unlocked(r) = DOMAIN tree
    BY <1>5 DEF SameSlots
  <2> QED
    BY <1>1, <1>2, <1>5, <2>1, <2>5, <2>7, <2>10, <2>11, <2>12, <2>13
<1> QED
  BY <1>7, <1>8

LEMMA BaseFinish ==
    ASSUME BaseInv, NEW r \in Reqs, Finish(r), setup' = setup
    PROVE  BaseInv'
<1>1. /\ stage = "idle" /\ req[r].phase = "finished"
      /\ UNCHANGED <<content, batch, prepared, stage>>
      /\ clock' \in Nat
      /\ free_rows' = free_rows \o RowsOf(r)
      /\ req' = With(r, DoneReq)
      /\ free' \in Seq(Nat) /\ GoodTree(tree')
  BY FinishFacts
<1>2. /\ req' = [q \in Reqs |-> req'[q]] /\ req'[r] = DoneReq
      /\ \A q \in Reqs : q # r => req'[q] = req[q]
  BY <1>1, WithFacts
<1>3. setup \in Setups /\ \A q \in Reqs : Sound(req[q], Prompt[q])
  BY DEF BaseInv
<1>4. \A q \in Reqs : Sound(req'[q], Prompt[q])
  BY <1>2, <1>3, DoneReqFacts
<1>5. Worker'
  <2>1. batch = <<>> /\ prepared = <<>> /\ ToSet(<<>>) = {}
    BY <1>1, EmptyList DEF BaseInv, Worker
  <2>2. \A q \in Reqs : req'[q].phase # "matched"
    BY <1>2, <2>1, DoneReqFacts DEF BaseInv, Worker
  <2> QED
    BY <1>1, <2>1, <2>2 DEF BaseInv, Worker
<1>6. Once(free_rows', RowLists', {}, 1 .. NumRows) /\ free_rows' \in Seq(Nat)
  <2>1. RowLists \in Lists /\ \A q \in Reqs : RowLists[q] = req[q].row \o req[q].beams
    BY <1>3, RowListsType DEF Sound
  <2>2. RowLists' \in Lists /\ \A q \in Reqs : RowLists'[q] = req'[q].row \o req'[q].beams
    <3>1. \A q \in Reqs : Typed(req'[q])
      BY <1>4 DEF Sound
    <3> QED
      BY <3>1, RequestLists DEF RowLists, RowsOf, Lists
  <2>3. RowLists'[r] = <<>>
    BY <1>2, <2>2, DoneReqFacts, EmptyList, EmptyAdded
  <2>4. \A q \in Reqs : q # r => RowLists'[q] = RowLists[q]
    BY <1>2, <2>1, <2>2
  <2>5. RowsOf(r) = RowLists[r] /\ RowLists[r] \in Seq(Nat)
    BY <2>1 DEF RowLists, Lists
  <2>6. Once(free_rows, RowLists, {}, 1 .. NumRows) /\ free_rows \in Seq(Nat)
    BY DEF BaseInv
  <2>7. NoRepeats(free_rows) /\ NoRepeats(RowLists[r]) /\ ToSet(free_rows) \cap ToSet(RowLists[r]) = {}
    BY <2>6 DEF Once
  <2>8. /\ free_rows' \in Seq(Nat) /\ NoRepeats(free_rows')
        /\ ToSet(free_rows') = ToSet(free_rows) \cup ToSet(RowLists[r])
    BY <1>1, <2>5, <2>6, <2>7, ConcatMembers
  <2> QED
    BY <2>1, <2>2, <2>3, <2>4, <2>6, <2>8, TakenBack
<1> QED
  BY <1>1, <1>2, <1>3, <1>4, <1>5, <1>6, BaseParts

-----------------------------------------------------------------------------
(* The rows of the request table. *)

LEMMA BaseNext == BaseInv /\ [Next]_vars => BaseInv'
<1> SUFFICES ASSUME BaseInv, [Next]_vars PROVE BaseInv'
  OBVIOUS
<1>1. CASE UNCHANGED vars
  <2>1. UNCHANGED <<setup, free, free_rows, tree, clock, content, req, batch, prepared, stage>>
    BY <1>1 DEF vars
  <2>2. Worker'
    BY <2>1 DEF BaseInv, Worker
  <2>3. Once(free_rows', RowLists', {}, 1 .. NumRows)
    BY <2>1, SameRequests, RowsUntouched, SetupSame DEF BaseInv, Sound
  <2> QED
    BY <2>1, <2>2, <2>3, BaseParts DEF BaseInv
<1>2. CASE Next
  <2>1. setup' = setup
    BY <1>2 DEF Next
  <2>2. CASE WarmupPin
    BY <2>1, <2>2, BaseWarmupPin
  <2>3. CASE \E rs \in SetToAllKPermutations(In("new")) \ {<<>>} : StartPrefill(rs)
    BY <2>1, <2>3, BaseStartPrefill
  <2>4. CASE MatchAndAlloc
    BY <2>1, <2>4, BaseMatchAndAlloc
  <2>5. CASE PrefillForward
    BY <2>1, <2>5, BasePrefillForward
  <2>6. CASE InitWave
    BY <2>1, <2>6, BaseInitWave
  <2>7. CASE InitOne
    BY <2>1, <2>7, BaseInitOne
  <2>8. CASE \E S \in SUBSET In("running") \ {{}} : Decode(S)
    BY <2>1, <2>8, BaseDecode
  <2>9. CASE \E r \in Reqs : Finish(r)
    BY <2>1, <2>9, BaseFinish
  <2> QED
    BY <1>2, <2>2, <2>3, <2>4, <2>5, <2>6, <2>7, <2>8, <2>9 DEF Next, Step
<1> QED
  BY <1>1, <1>2

\* What is known of the worker and its requests at every point, rows included:
\* it takes no premise.
THEOREM BaseAlways == Spec => []BaseInv
<1>1. Init => BaseInv
  BY BaseInit
<1>2. BaseInv /\ [Next]_vars => BaseInv'
  BY BaseNext
<1> QED
  BY <1>1, <1>2, PTL DEF Spec

\* Every row of the request table is in its free list or with one request, and
\* there once, in whichever way requests end (pool.py:159-182).
THEOREM RowsAlwaysAccounted == Spec => []RowsAccounted
<1>1. BaseInv => RowsAccounted
  <2> SUFFICES ASSUME BaseInv PROVE RowsAccounted
    OBVIOUS
  <2>1. RowLists \in Lists /\ free_rows \in Seq(Nat) /\ Once(free_rows, RowLists, {}, 1 .. NumRows)
    BY RowListsType DEF BaseInv, Sound
  <2> QED
    BY <2>1, OnceEachFacts DEF RowsAccounted, RowLists
<1> QED
  BY <1>1, BaseAlways, PTL

-----------------------------------------------------------------------------
(* The cap. *)

\* Only a completion makes a finished request done.
LEMMA OnlyFinish ==
    ASSUME BaseInv, Next, NEW r \in Reqs, req[r].phase = "finished", req'[r].phase = "done"
    PROVE  Finish(r)
<1>1. ASSUME NEW rq, GiveUp(rq), rq[r].phase = "finished", rq[r] \in Request PROVE FALSE
  <2>1. req'[r] = [rq[r] EXCEPT !.phase = "dropped"]
    BY <1>1 DEF GiveUp
  <2> QED
    BY <1>1, <2>1 DEF Request
<1>2. req[r] \in Request /\ NewReq.phase = "new"
  BY NewReqFacts DEF BaseInv, Sound, Typed
<1>3. CASE UNCHANGED req
  BY <1>3
<1>4. CASE MatchAndAlloc
  <2>1. /\ Head(batch) \in Reqs /\ req[Head(batch)] = NewReq
        /\ \E pool : \/ MatchGot(Head(batch), pool) \/ MatchNoRow(Head(batch), pool)
                     \/ MatchNoSlots(pool)
    BY <1>4, MatchFacts
  <2>2. r # Head(batch)
    BY <1>2, <2>1
  <2>3. \A rec : With(Head(batch), rec)[r] = req[r]
    BY <2>1, <2>2, WithFacts
  <2>4. PICK pool : \/ MatchGot(Head(batch), pool) \/ MatchNoRow(Head(batch), pool)
                    \/ MatchNoSlots(pool)
    BY <2>1
  <2>5. CASE MatchGot(Head(batch), pool)
    <3>1. req'[r] = req[r]
      BY <2>3, <2>5 DEF MatchGot
    <3> QED
      BY <3>1
  <2>6. CASE MatchNoRow(Head(batch), pool)
    <3>1. PICK rec : GiveUp(With(Head(batch), rec))
      BY <2>6 DEF MatchNoRow
    <3> QED
      BY <1>1, <1>2, <2>3, <3>1
  <2>7. CASE MatchNoSlots(pool)
    BY <1>1, <1>2, <2>7 DEF MatchNoSlots
  <2> QED
    BY <2>4, <2>5, <2>6, <2>7
<1>5. CASE InitWave
  <2>1. CASE WaveGot
    <3>1. \/ Began(req'[r], req[r], "running", LockedPath(r),
                   Dealt(Taken(free_rows, Total(prepared)), prepared, ToSet(prepared))[r])
          \/ req'[r] = req[r]
      BY <2>1 DEF WaveGot
    <3> QED
      BY <3>1 DEF Began
  <2>2. CASE GiveUp(req)
    BY <1>1, <1>2, <2>2
  <2> QED
    BY <1>5, <2>1, <2>2, WaveFacts
<1>6. CASE InitOne
  <2>1. OneGot(Head(prepared)) \/ OneDropped(Head(prepared))
    BY <1>6, OneFacts
  <2>2. /\ req[Head(prepared)].phase = "matched" /\ Head(prepared) \in Reqs
        /\ r # Head(prepared)
    BY <1>6, OneFacts
  <2>3. CASE OneGot(Head(prepared))
    <3>1. req'[r] = req[r]
      BY <2>2, <2>3 DEF OneGot
    <3> QED
      BY <3>1
  <2>4. CASE ~OneGot(Head(prepared))
    <3>1. PICK rq : rq = [req EXCEPT ![Head(prepared)].locked = LockedPath(Head(prepared))]
      OBVIOUS
    <3>2. rq[r] = req[r]
      BY <2>2, <3>1 DEF BaseInv
    <3>3. GiveUp(rq) \/ req'[r] = req[r]
      BY <1>6, <2>2, <3>1 DEF InitOne, BaseInv
    <3> QED
      BY <1>1, <1>2, <3>2, <3>3
  <2> QED
    BY <2>3, <2>4
<1>7. ASSUME NEW S \in SUBSET In("running") \ {{}}, Decode(S) PROVE FALSE
  <2>1. /\ \A q \in S : req[q].phase = "running"
        /\ \E pool : DecodeGot(S, pool) \/ DecodeShort(pool)
    BY <1>7, DecodeFacts
  <2>2. PICK pool : DecodeGot(S, pool) \/ DecodeShort(pool)
    BY <2>1
  <2>3. CASE DecodeGot(S, pool)
    <3>1. req'[r] = req[r]
      BY <2>1, <2>3 DEF DecodeGot
    <3> QED
      BY <3>1
  <2>4. CASE DecodeShort(pool)
    BY <1>1, <1>2, <2>4 DEF DecodeShort
  <2> QED
    BY <2>2, <2>3, <2>4
<1>8. ASSUME NEW x \in Reqs, Finish(x), x # r PROVE FALSE
  <2>1. req' = With(x, DoneReq)
    BY <1>8, FinishFacts
  <2>2. req'[r] = req[r]
    BY <1>8, <2>1, WithFacts
  <2> QED
    BY <2>2
<1>9. CASE WarmupPin
  BY <1>3, <1>9 DEF WarmupPin
<1>10. CASE \E rs \in SetToAllKPermutations(In("new")) \ {<<>>} : StartPrefill(rs)
  BY <1>3, <1>10 DEF StartPrefill
<1>11. CASE PrefillForward
  BY <1>3, <1>11 DEF PrefillForward
<1> QED
  BY <1>4, <1>5, <1>6, <1>7, <1>8, <1>9, <1>10, <1>11 DEF Next, Step

\* A completion evicts enough if it may evict what it inserts, 128 nodes of the
\* 512 it may: then the cache is never above the cap and larger than before
\* (scheduler.py:1646).
THEOREM CapAlwaysKeepsUp ==
    ASSUME MaxIns <= CapBatch
    PROVE  Spec => CapKeepsUp
<1> DEFINE Keeps == \A r \in Reqs : req[r].phase = "finished" /\ req'[r].phase = "done" =>
                      \/ Cardinality(DOMAIN tree') <= Greater(Cap, Cardinality(DOMAIN tree))
                      \/ EvictableNodes(tree') = {}
<1>1. BaseInv /\ [Next]_vars => [Keeps]_vars
  <2> SUFFICES ASSUME BaseInv, Next, NEW r \in Reqs,
                      req[r].phase = "finished", req'[r].phase = "done"
               PROVE  \/ Cardinality(DOMAIN tree') <= Greater(Cap, Cardinality(DOMAIN tree))
                      \/ EvictableNodes(tree') = {}
    BY DEF Keeps
  <2>1. Finish(r)
    BY OnlyFinish
  <2>2. PICK c \in Nat, cap \in Nat, max \in Nat, quota \in Nat :
           /\ c = Cardinality(DOMAIN tree) /\ cap = Cap /\ max = MaxIns /\ quota = CapBatch
    BY FS_CardinalityType, SetupFacts, ParametersAssumption DEF BaseInv, GoodTree
  <2>3. CASE FinishShort(r)
    <3>1. tree' = tree
      BY <2>3 DEF FinishShort
    <3> QED
      BY <2>2, <3>1 DEF Greater
  <2>4. ASSUME NEW e, FinishLong(r, e)
        PROVE  \/ Cardinality(DOMAIN tree') <= Greater(Cap, Cardinality(DOMAIN tree))
               \/ EvictableNodes(tree') = {}
    <3>1. /\ Len(Prompt[r]) >= 2 /\ tree' = e.tree
          /\ TookOff(e, Filled(r), Lesser(Quota(r), Cardinality(DOMAIN Filled(r))))
      BY <2>4 DEF FinishLong
    <3>2. /\ GoodTree(tree') /\ GoodTree(Filled(r))
          /\ DOMAIN Filled(r) = DOMAIN tree \cup PathNodes(Inserted(Prompt[r]))
      BY <2>1, <3>1, FinishFacts
    <3>3. PICK d \in Nat, t \in Nat : d = Cardinality(DOMAIN tree') /\ t = Cardinality(DOMAIN Filled(r))
      BY <3>2, FS_CardinalityType DEF GoodTree
    <3>4. PICK m \in Nat : m = Len(Inserted(Prompt[r])) /\ m <= max
      <4>1. Len(Inserted(Prompt[r])) = Lesser(Len(Prompt[r]) - 1, MaxIns)
        BY <3>1, NotTakenFacts
      <4>2. Len(Inserted(Prompt[r])) \in Nat
        BY <3>1, NotTakenFacts DEF Path
      <4>3. Len(Prompt[r]) - 1 \in Int
        BY SetupFacts DEF BaseInv
      <4>4. \A a \in Int, b \in Nat : Lesser(a, b) <= b
        BY DEF Lesser
      <4> QED
        BY <2>2, <4>1, <4>2, <4>3, <4>4
    <3>5. t <= c + m
      <4>1. Inserted(Prompt[r]) \in Seq(Nat)
        BY <3>1, NotTakenFacts DEF Path
      <4>2. /\ IsFiniteSet(PathNodes(Inserted(Prompt[r])))
            /\ Cardinality(PathNodes(Inserted(Prompt[r]))) = m
        BY <3>4, <4>1, PathNodesFinite
      <4>3. IsFiniteSet(DOMAIN tree)
        BY DEF BaseInv, GoodTree
      <4>4. PICK i \in Nat : i = Cardinality(DOMAIN tree \cap PathNodes(Inserted(Prompt[r])))
        BY <4>3, FS_Intersection, FS_CardinalityType
      <4>5. t = c + m - i
        BY <2>2, <3>2, <3>3, <4>2, <4>3, <4>4, FS_Union
      <4> QED
        BY <4>4, <4>5
    <3>6. Quota(r) = Lesser(Greater(t - cap, 0), quota)
      BY <2>2, <3>3 DEF Quota, OverCap
    <3>7. CASE EvictableNodes(tree') = {}
      BY <3>7
    <3>8. CASE d + Lesser(Quota(r), t) = t
      <4>1. max <= quota
        BY <2>2
      <4>2. d <= Greater(cap, c)
        BY <3>4, <3>5, <3>6, <3>8, <4>1 DEF Lesser, Greater
      <4> QED
        BY <2>2, <3>3, <4>2
    <3> QED
      BY <3>1, <3>3, <3>7, <3>8 DEF TookOff
  <2> QED
    BY <2>1, <2>3, <2>4, FinishFacts
<1> QED
  BY <1>1, BaseAlways, PTL DEF Spec, CapKeepsUp

-----------------------------------------------------------------------------
(* The slots.  The invariant is about the tree t, the free list fr, the      *)
(* requests rq and the contents c; st says where the worker is.              *)

Active == {"matched", "running", "finished"}

\* The slots that each request has to itself.
OwnPart(rec) == From(rec.full, rec.hit + 1) \o rec.owned
OwnOf(rq) == [r \in Reqs |-> OwnPart(rq[r])]

\* Every slot is in one place, and one node has it.
SlotsOK(t, fr, rq) == Distinct(t) /\ Once(fr, OwnOf(rq), SlotsIn(t), SlotIds)

\* The pinned path is in the tree once warmup is over, if it fits.
Pins(on) == on /\ Pinned # <<>> /\ Len(Pinned) <= NumSlots
PinCount(q, on) == IF Pins(on) /\ q \in PathNodes(Pinned) THEN 1 ELSE 0

Lockers(rq, q) == {r \in Reqs : q \in PathNodes(rq[r].locked)}

\* A node's lock counts the requests that hold it, and the pin.
LocksOK(t, rq, on) ==
    /\ \A r \in Reqs : PathNodes(rq[r].locked) \subseteq DOMAIN t
    /\ Pins(on) => PathNodes(Pinned) \subseteq DOMAIN t
    /\ \A q \in DOMAIN t : t[q].lock = Cardinality(Lockers(rq, q)) + PinCount(q, on)

\* A hit that is still cached is on the slots that were matched.
HitsOK(t, rq) ==
    \A r \in Reqs : rq[r].phase \in Active =>
        /\ rq[r].hit <= MaxIns
        /\ \A i \in 1 .. rq[r].hit :
             Pre(Prompt[r], i) \in DOMAIN t => t[Pre(Prompt[r], i)].kv = rq[r].full[i]

SizesOK(t) == \A q \in DOMAIN t : Len(q) <= MaxIns

ServesOK(t, c) == \A q \in DOMAIN t : c[t[q].kv] = KV(q, 0)

\* Whether the KV of a request's suffix has been written.
Written(rec, st) ==
    \/ rec.phase \in {"running", "finished"}
    \/ rec.phase = "matched" /\ st \in {"wave", "each"}

SuffixOK(c, rq, st) ==
    \A r \in Reqs : Written(rq[r], st) =>
        \A i \in rq[r].hit + 1 .. Len(Prompt[r]) : c[rq[r].full[i]] = KV(Pre(Prompt[r], i), 0)

KInv ==
    /\ BaseInv
    /\ SlotsOK(tree, free, req)
    /\ LocksOK(tree, req, stage # "warmup")
    /\ HitsOK(tree, req)
    /\ SizesOK(tree)
    /\ DOMAIN content = SlotIds
    /\ ServesOK(tree, content)
    /\ SuffixOK(content, req, stage)
    /\ stage = "warmup" => DOMAIN tree = {} /\ free = AllSlots

\* The pinned prefix is no longer than an insert.
PinFits == Len(Pinned) <= MaxIns

\* A prefix that a request has matched stays cached until the request locks it,
\* whatever its batch-mates evict meanwhile (scheduler.py:677-695).
HitsStayCached ==
    \A r \in In("matched") : \A i \in 1 .. req[r].hit : Pre(Prompt[r], i) \in DOMAIN tree

\* What the theorems about the slots take as given: that, and that hits are still
\* cached when they are locked.
Premise == PinFits /\ HitsStayCached

LEMMA OwnType ==
    ASSUME NEW rq, \A r \in Reqs : Typed(rq[r])
    PROVE  /\ OwnOf(rq) \in Lists
           /\ \A r \in Reqs : OwnOf(rq)[r] = OwnPart(rq[r]) /\ OwnPart(rq[r]) \in Seq(Nat)
BY RequestLists DEF OwnOf, OwnPart, Lists

\* The invariant after a step, part by part.
LEMMA KParts ==
    ASSUME BaseInv', setup' = setup, stage' # "warmup",
           SlotsOK(tree', free', req'), LocksOK(tree', req', TRUE), HitsOK(tree', req'),
           SizesOK(tree'), DOMAIN content' = SlotIds, ServesOK(tree', content'),
           SuffixOK(content', req', stage')
    PROVE  KInv'
<1>1. Prompt' = Prompt /\ Pinned' = Pinned /\ NumSlots' = NumSlots
  BY SetupSame
<1>2. SlotsOK(tree, free, req)'
  BY <1>1 DEF SlotsOK, Once, Listed, OwnOf, SlotIds
<1>3. (stage # "warmup")' = TRUE
  OBVIOUS
<1>4. LocksOK(tree, req, stage # "warmup")'
  BY <1>1, <1>3 DEF LocksOK, Pins, PinCount, Lockers
<1>5. HitsOK(tree, req)'
  BY <1>1 DEF HitsOK
<1>6. SizesOK(tree)' /\ (DOMAIN content = SlotIds)' /\ ServesOK(tree, content)'
  BY <1>1 DEF SizesOK, SlotIds, ServesOK, KV
<1>7. SuffixOK(content, req, stage)'
  BY <1>1 DEF SuffixOK, Written, KV
<1> QED
  BY <1>2, <1>4, <1>5, <1>6, <1>7 DEF KInv

\* Requests that hold what they held and are no livelier.
Kept(a, b) ==
    \A r \in Reqs : /\ a[r].hit = b[r].hit /\ a[r].full = b[r].full
                    /\ a[r].locked = b[r].locked /\ a[r].owned = b[r].owned
                    /\ a[r].phase \in Active => b[r].phase \in Active

LEMMA KeptFacts ==
    ASSUME NEW rq, NEW rq2, Kept(rq2, rq), NEW t, NEW fr, NEW on
    PROVE  /\ SlotsOK(t, fr, rq) => SlotsOK(t, fr, rq2)
           /\ LocksOK(t, rq, on) => LocksOK(t, rq2, on)
           /\ HitsOK(t, rq) => HitsOK(t, rq2)
<1>1. OwnOf(rq2) = OwnOf(rq)
  BY DEF Kept, OwnOf, OwnPart
<1>2. \A q : Lockers(rq2, q) = Lockers(rq, q)
  BY DEF Kept, Lockers
<1>3. HitsOK(t, rq) => HitsOK(t, rq2)
  BY DEF Kept, HitsOK
<1>4. \A r \in Reqs : rq2[r].locked = rq[r].locked
  BY DEF Kept
<1>5. LocksOK(t, rq, on) => LocksOK(t, rq2, on)
  BY <1>2, <1>4 DEF LocksOK
<1> QED
  BY <1>1, <1>3, <1>5 DEF SlotsOK

\* Relabelling the nodes.
LEMMA RelabelFacts ==
    ASSUME NEW t, NEW u, SameSlots(t, u), NEW fr, NEW rq, NEW c
    PROVE  /\ SlotsIn(u) = SlotsIn(t)
           /\ Distinct(t) => Distinct(u)
           /\ SlotsOK(t, fr, rq) => SlotsOK(u, fr, rq)
           /\ HitsOK(t, rq) => HitsOK(u, rq)
           /\ SizesOK(t) => SizesOK(u)
           /\ ServesOK(t, c) => ServesOK(u, c)
<1>1. DOMAIN u = DOMAIN t /\ \A q \in DOMAIN t : u[q].kv = t[q].kv
  BY DEF SameSlots
<1>2. SlotsIn(u) = SlotsIn(t)
  BY <1>1 DEF SlotsIn
<1>3. Distinct(t) => Distinct(u)
  BY <1>1 DEF Distinct
<1>4. HitsOK(t, rq) => HitsOK(u, rq)
  BY <1>1 DEF HitsOK
<1>5. (SizesOK(t) => SizesOK(u)) /\ (ServesOK(t, c) => ServesOK(u, c))
  BY <1>1 DEF SizesOK, ServesOK
<1> QED
  BY <1>2, <1>3, <1>4, <1>5 DEF SlotsOK

LEMMA SameLocks ==
    ASSUME NEW t, NEW u, DOMAIN u = DOMAIN t, \A q \in DOMAIN t : u[q].lock = t[q].lock,
           NEW rq, NEW on, LocksOK(t, rq, on)
    PROVE  LocksOK(u, rq, on)
BY DEF LocksOK

\* How many hold a lock.
LEMMA LockersCount ==
    ASSUME NEW rq, NEW q
    PROVE  /\ IsFiniteSet(Lockers(rq, q)) /\ Cardinality(Lockers(rq, q)) \in Nat
           /\ Cardinality(Lockers(rq, q)) = 0 <=> Lockers(rq, q) = {}
<1>1. IsFiniteSet(Lockers(rq, q))
  BY ParametersAssumption, FS_Subset DEF Lockers
<1> QED
  BY <1>1, FS_CardinalityType, FS_EmptySet

\* Eviction takes nothing that is locked, and frees the slots of what it takes.
LEMMA EvictedFacts ==
    ASSUME NEW t, NEW e, Outcome(e, t), NEW fr \in Seq(Nat), NEW rq, \A r \in Reqs : Typed(rq[r]),
           NEW c, NEW on, SlotsOK(t, fr, rq), LocksOK(t, rq, on), HitsOK(t, rq), SizesOK(t), ServesOK(t, c)
    PROVE  /\ fr \o e.freed \in Seq(Nat) /\ NoRepeats(fr \o e.freed)
           /\ ToSet(fr \o e.freed) \cap SlotsIn(e.tree) = {}
           /\ SlotsOK(e.tree, fr \o e.freed, rq)
           /\ LocksOK(e.tree, rq, on) /\ HitsOK(e.tree, rq) /\ SizesOK(e.tree)
           /\ ServesOK(e.tree, c)
<1>1. /\ DOMAIN e.tree \subseteq DOMAIN t
      /\ \A q \in DOMAIN e.tree : e.tree[q] = t[q]
      /\ \A q \in DOMAIN t : t[q].lock # 0 => q \in DOMAIN e.tree
      /\ e.freed \in Seq(Nat)
      /\ NoRepeats(e.freed)
      /\ ToSet(e.freed) = {t[q].kv : q \in DOMAIN t \ DOMAIN e.tree}
  BY DEF Outcome, SlotsOK
<1>2. Distinct(t) /\ Once(fr, OwnOf(rq), SlotsIn(t), SlotIds)
  BY DEF SlotsOK
<1> DEFINE u == e.tree
           pool == fr \o e.freed
<1> HIDE DEF u
<1>3. /\ DOMAIN u \subseteq DOMAIN t
      /\ \A q \in DOMAIN u : u[q] = t[q]
      /\ \A q \in DOMAIN t : t[q].lock # 0 => q \in DOMAIN u
      /\ ToSet(e.freed) = {t[q].kv : q \in DOMAIN t \ DOMAIN u}
  BY <1>1 DEF u
<1>4. Distinct(u)
  BY <1>2, <1>3 DEF Distinct
<1>5. SlotsIn(t) = SlotsIn(u) \cup ToSet(e.freed) /\ SlotsIn(u) \cap ToSet(e.freed) = {}
  BY <1>2, <1>3 DEF Distinct, SlotsIn
<1>6. NoRepeats(fr) /\ ToSet(fr) \cap SlotsIn(t) = {}
  BY <1>2 DEF Once
<1>7. /\ pool \in Seq(Nat) /\ NoRepeats(pool)
      /\ ToSet(pool) = ToSet(fr) \cup ToSet(e.freed)
  BY <1>1, <1>5, <1>6, ConcatMembers
<1> HIDE DEF pool
<1>8. ToSet(pool) \cap SlotsIn(u) = {} /\ ToSet(pool) \cup SlotsIn(u) = ToSet(fr) \cup SlotsIn(t)
  BY <1>5, <1>6, <1>7
<1>9. OwnOf(rq) \in Lists
  BY OwnType
<1>10. Once(pool, OwnOf(rq), SlotsIn(u), SlotIds)
  BY <1>2, <1>7, <1>8, <1>9, Moved
<1>11. LocksOK(u, rq, on)
  <2>1. \A q \in DOMAIN u : u[q].lock = Cardinality(Lockers(rq, q)) + PinCount(q, on)
    BY <1>3 DEF LocksOK
  <2>2. ASSUME NEW r \in Reqs, NEW q \in PathNodes(rq[r].locked) PROVE q \in DOMAIN u
    <3>1. q \in DOMAIN t /\ t[q].lock = Cardinality(Lockers(rq, q)) + PinCount(q, on)
      BY DEF LocksOK
    <3>2. Lockers(rq, q) # {}
      BY DEF Lockers
    <3>3. PinCount(q, on) \in Nat
      BY DEF PinCount
    <3>4. t[q].lock # 0
      BY <3>1, <3>2, <3>3, LockersCount
    <3> QED
      BY <1>3, <3>1, <3>4
  <2>3. ASSUME Pins(on), NEW q \in PathNodes(Pinned) PROVE q \in DOMAIN u
    <3>1. q \in DOMAIN t /\ t[q].lock = Cardinality(Lockers(rq, q)) + PinCount(q, on)
      BY <2>3 DEF LocksOK
    <3>2. PinCount(q, on) = 1
      BY <2>3 DEF PinCount
    <3>3. t[q].lock # 0
      BY <3>1, <3>2, LockersCount
    <3> QED
      BY <1>3, <3>1, <3>3
  <2> QED
    BY <2>1, <2>2, <2>3 DEF LocksOK
<1>12. HitsOK(u, rq)
  BY <1>3 DEF HitsOK
<1>13. SizesOK(u) /\ ServesOK(u, c)
  BY <1>3 DEF SizesOK, ServesOK
<1> QED
  BY <1>4, <1>7, <1>8, <1>10, <1>11, <1>12, <1>13 DEF SlotsOK, u, pool

\* A forward changes no slots but by writing them: what it writes is there, and
\* what it does not write stays.
LEMMA StoreDomain ==
    ASSUME NEW c, NEW writes
    PROVE  DOMAIN Store(c, writes) = DOMAIN c
BY Zenon DEF Store

LEMMA StoreKeeps ==
    ASSUME NEW c, NEW writes, NEW s \in DOMAIN c, \A w \in writes : w.slot # s
    PROVE  Store(c, writes)[s] = c[s]
BY DEF Store

LEMMA StoreWrites ==
    ASSUME NEW c, NEW writes, NEW w \in writes, w.slot \in DOMAIN c,
           \A v \in writes : v.slot = w.slot => v = w
    PROVE  Store(c, writes)[w.slot] = w.kv
<1>1. (CHOOSE v \in writes : v.slot = w.slot) = w
  BY Zenon
<1>2. Store(c, writes)[w.slot] = (CHOOSE v \in writes : v.slot = w.slot).kv
  <2>1. \E v \in writes : v.slot = w.slot
    OBVIOUS
  <2> QED
    BY <2>1, Zenon DEF Store
<1> QED
  BY <1>1, <1>2

\* The slots of a request's suffix are its own, and different.
LEMMA OwnSuffix ==
    ASSUME NEW rec, Typed(rec)
    PROVE  /\ ToSet(OwnPart(rec))
                = {rec.full[i] : i \in rec.hit + 1 .. Len(rec.full)} \cup ToSet(rec.owned)
           /\ NoRepeats(OwnPart(rec)) =>
                \A i, j \in rec.hit + 1 .. Len(rec.full) : rec.full[i] = rec.full[j] => i = j
<1>1. /\ rec.full \in Seq(Nat) /\ rec.owned \in Seq(Nat)
      /\ rec.hit \in 0 .. Len(rec.full) /\ Len(rec.full) \in Nat
  BY RequestLists
<1>2. PICK h \in 0 .. Len(rec.full) : h = rec.hit
  BY <1>1
<1>3. PICK f \in Seq(Nat) : f = rec.full
  BY <1>1
<1> DEFINE u == SubSeq(f, h + 1, Len(f))
<1>4. u = From(rec.full, rec.hit + 1)
  BY <1>2, <1>3 DEF From
<1>5. h + 1 \in Nat \ {0} /\ Len(f) \in Nat /\ h <= Len(f) /\ h \in Nat
  BY <1>1, <1>2, <1>3
<1>6. /\ SubSeq(f, h + 1, Len(f)) \in Seq(Nat)
      /\ ToSet(SubSeq(f, h + 1, Len(f))) = {f[i] : i \in h + 1 .. Len(f)}
      /\ Len(SubSeq(f, h + 1, Len(f))) = IF h + 1 <= Len(f) THEN Len(f) - (h + 1) + 1 ELSE 0
      /\ \A i \in 1 .. Len(SubSeq(f, h + 1, Len(f))) :
            SubSeq(f, h + 1, Len(f))[i] = f[(h + 1) + i - 1]
  <2>1. PICK a \in Nat \ {0} : a = h + 1
    BY <1>5
  <2>2. PICK b \in Nat : b = Len(f)
    BY <1>5
  <2>3. b <= Len(f)
    BY <2>2
  <2>4. /\ SubSeq(f, a, b) \in Seq(Nat)
        /\ ToSet(SubSeq(f, a, b)) = {f[i] : i \in a .. b}
        /\ Len(SubSeq(f, a, b)) = IF a <= b THEN b - a + 1 ELSE 0
        /\ \A i \in 1 .. Len(SubSeq(f, a, b)) : SubSeq(f, a, b)[i] = f[a + i - 1]
    BY <2>1, <2>2, <2>3, SliceMembers
  <2> QED
    BY <2>1, <2>2, <2>4
<1>7. /\ u \in Seq(Nat) /\ ToSet(u) = {f[i] : i \in h + 1 .. Len(f)}
      /\ Len(u) = Len(f) - h
      /\ \A i \in 1 .. Len(u) : u[i] = f[h + i]
  <2>1. /\ u \in Seq(Nat) /\ ToSet(u) = {f[i] : i \in h + 1 .. Len(f)}
        /\ Len(u) = (IF h + 1 <= Len(f) THEN Len(f) - (h + 1) + 1 ELSE 0)
        /\ \A i \in 1 .. Len(u) : u[i] = f[(h + 1) + i - 1]
    BY <1>5, <1>6
  <2> HIDE DEF u
  <2>2. Len(u) = Len(f) - h
    BY <1>5, <2>1
  <2>3. \A i \in 1 .. Len(u) : u[i] = f[h + i]
    <3>1. \A i \in 1 .. Len(u) : (h + 1) + i - 1 = h + i
      BY <1>5
    <3> QED
      BY <2>1, <3>1
  <2> QED
    BY <2>1, <2>2, <2>3
<1> HIDE DEF u
<1>8. ToSet(OwnPart(rec)) = ToSet(u) \cup ToSet(rec.owned)
  BY <1>1, <1>4, <1>7, ConcatMembers DEF OwnPart
<1>9. ASSUME NoRepeats(OwnPart(rec)), NEW i \in h + 1 .. Len(f), NEW j \in h + 1 .. Len(f), f[i] = f[j]
      PROVE  i = j
  <2>1. PICK v \in Seq(Nat) : v = rec.owned
    BY <1>1
  <2>2. OwnPart(rec) = u \o v
    BY <1>4, <2>1 DEF OwnPart
  <2>3. /\ Len(u \o v) = Len(u) + Len(v)
        /\ \A k \in 1 .. Len(u) : (u \o v)[k] = u[k]
    BY <1>7, ConcatLen
  <2>4. Len(u) \in Nat /\ Len(v) \in Nat
    BY <1>7
  <2>5. i - h \in 1 .. Len(u) /\ j - h \in 1 .. Len(u) /\ h + (i - h) = i /\ h + (j - h) = j
    BY <1>5, <1>7
  <2>6. (u \o v)[i - h] = (u \o v)[j - h]
    BY <1>7, <1>9, <2>3, <2>5
  <2>7. i - h \in 1 .. Len(u \o v) /\ j - h \in 1 .. Len(u \o v)
    BY <2>3, <2>4, <2>5
  <2>8. i - h = j - h
    <3>1. \A k, l \in 1 .. Len(u \o v) : (u \o v)[k] = (u \o v)[l] => k = l
      BY <1>9, <2>2 DEF NoRepeats
    <3> QED
      BY <2>6, <2>7, <3>1
  <2> QED
    BY <1>5, <2>8
<1> QED
  BY <1>2, <1>3, <1>7, <1>8, <1>9

\* The slots of one request are not another's, not free and not cached.
LEMMA OwnApart ==
    ASSUME NEW t, NEW fr \in Seq(Nat), NEW rq, \A r \in Reqs : Typed(rq[r]), SlotsOK(t, fr, rq)
    PROVE  /\ \A r \in Reqs : NoRepeats(OwnPart(rq[r]))
           /\ \A r \in Reqs : ToSet(OwnPart(rq[r])) \subseteq SlotIds
           /\ \A r \in Reqs : ToSet(OwnPart(rq[r])) \cap ToSet(fr) = {}
           /\ \A r \in Reqs : ToSet(OwnPart(rq[r])) \cap SlotsIn(t) = {}
           /\ \A r, q \in Reqs : r # q => ToSet(OwnPart(rq[r])) \cap ToSet(OwnPart(rq[q])) = {}
           /\ ToSet(fr) \cap SlotsIn(t) = {}
           /\ ToSet(fr) \subseteq SlotIds /\ SlotsIn(t) \subseteq SlotIds
           /\ NoRepeats(fr) /\ Distinct(t)
<1>1. \A r \in Reqs : OwnOf(rq)[r] = OwnPart(rq[r])
  BY OwnType
<1>2. Once(fr, OwnOf(rq), SlotsIn(t), SlotIds) /\ Distinct(t)
  BY DEF SlotsOK
<1>3. /\ \A r \in Reqs : NoRepeats(OwnOf(rq)[r])
      /\ \A r \in Reqs : ToSet(OwnOf(rq)[r]) \cap (ToSet(fr) \cup SlotsIn(t)) = {}
      /\ \A r, q \in Reqs : r # q => ToSet(OwnOf(rq)[r]) \cap ToSet(OwnOf(rq)[q]) = {}
      /\ ToSet(fr) \cup SlotsIn(t) \cup Listed(OwnOf(rq)) = SlotIds
      /\ ToSet(fr) \cap SlotsIn(t) = {} /\ NoRepeats(fr)
  BY <1>2 DEF Once
<1>4. \A r \in Reqs : ToSet(OwnOf(rq)[r]) \subseteq SlotIds
  BY <1>3 DEF Listed
<1>5. ToSet(fr) \subseteq SlotIds /\ SlotsIn(t) \subseteq SlotIds
  BY <1>3
<1>6. \A r \in Reqs : ToSet(OwnOf(rq)[r]) \cap ToSet(fr) = {} /\ ToSet(OwnOf(rq)[r]) \cap SlotsIn(t) = {}
  BY <1>3
<1> QED
  BY <1>1, <1>2, <1>3, <1>4, <1>5, <1>6

\* What the writes of a prompt's KV are.
LEMMA PromptWritesFacts ==
    ASSUME NEW p, NEW kvs, NEW from
    PROVE  /\ \A w \in PromptWrites(p, kvs, from) :
                \E i \in from .. Len(p) : w = [slot |-> kvs[i], kv |-> KV(Pre(p, i), 0)]
           /\ \A i \in from .. Len(p) :
                [slot |-> kvs[i], kv |-> KV(Pre(p, i), 0)] \in PromptWrites(p, kvs, from)
BY DEF PromptWrites

LEMMA NoNodes == PathNodes(<<>>) = {}
<1>1. Len(<<>>) = 0
  OBVIOUS
<1> QED
  BY <1>1 DEF PathNodes

\* A waiting request has nothing.
LEMMA NewHoldsNothing == OwnPart(NewReq) = <<>>
<1>1. NewReq.full = <<>> /\ NewReq.hit = 0 /\ NewReq.owned = <<>>
  BY NewReqFacts
<1>2. From(<<>>, 1) = <<>>
  <2>1. Len(<<>>) = 0
    OBVIOUS
  <2>2. SubSeq(<<>>, 1, 0) \in Seq(Nat) /\ Len(SubSeq(<<>>, 1, 0)) = 0
    OBVIOUS
  <2>3. \A u \in Seq(Nat) : Len(u) = 0 => u = <<>>
    OBVIOUS
  <2> QED
    BY <2>1, <2>2, <2>3 DEF From
<1>3. OwnPart(NewReq) = From(<<>>, 0 + 1) \o <<>>
  BY <1>1 DEF OwnPart
<1>4. From(<<>>, 0 + 1) = <<>>
  BY <1>2
<1> QED
  BY <1>3, <1>4, EmptyList, EmptyAdded

LEMMA AllNew ==
    ASSUME NEW rq, \A r \in Reqs : rq[r] = NewReq, NEW t, NEW c, NEW st
    PROVE  /\ \A r \in Reqs : OwnOf(rq)[r] = <<>>
           /\ \A q : Lockers(rq, q) = {}
           /\ \A r \in Reqs : PathNodes(rq[r].locked) = {}
           /\ HitsOK(t, rq)
           /\ SuffixOK(c, rq, st)
<1>1. \A r \in Reqs : rq[r].phase = "new" /\ rq[r].locked = <<>> /\ OwnPart(rq[r]) = <<>>
  BY NewReqFacts, NewHoldsNothing
<1> QED
  BY <1>1, NoNodes DEF OwnOf, Lockers, HitsOK, SuffixOK, Active, Written

LEMMA KInit == Init => KInv
<1> SUFFICES ASSUME Init PROVE KInv
  OBVIOUS
<1>1. BaseInv
  BY BaseInit
<1>2. \A r \in Reqs : req[r] = NewReq
  BY DEF Init
<1>3. DOMAIN tree = {} /\ free = AllSlots /\ stage = "warmup"
  BY EmptyIsGood DEF Init
<1>4. NumSlots \in Nat
  BY <1>1, SetupFacts DEF BaseInv
<1>5. SlotsOK(tree, free, req)
  <2>1. AllSlots \in Seq(Nat) /\ Len(AllSlots) = NumSlots /\ NoRepeats(AllSlots)
    BY <1>4 DEF AllSlots, NoRepeats
  <2>2. ToSet(AllSlots) = SlotIds
    <3>1. ToSet(AllSlots) = {AllSlots[i] : i \in 1 .. NumSlots}
      BY <2>1, Members
    <3> QED
      BY <3>1 DEF AllSlots, SlotIds
  <2>3. SlotsIn(tree) = {} /\ Distinct(tree)
    BY <1>3 DEF SlotsIn, Distinct
  <2>4. \A r \in Reqs : OwnOf(req)[r] = <<>>
    BY <1>2, AllNew
  <2>5. Listed(OwnOf(req)) = {}
    BY <2>4, EmptyList DEF Listed
  <2> QED
    BY <1>3, <2>1, <2>2, <2>3, <2>4, <2>5, EmptyList DEF SlotsOK, Once
<1>6. LocksOK(tree, req, stage # "warmup")
  <2>1. \A r \in Reqs : PathNodes(req[r].locked) = {}
    BY <1>2, AllNew
  <2> QED
    BY <1>3, <2>1 DEF LocksOK, Pins
<1>7. HitsOK(tree, req) /\ SuffixOK(content, req, stage)
  BY <1>2, AllNew
<1>8. SizesOK(tree) /\ ServesOK(tree, content)
  BY <1>3 DEF SizesOK, ServesOK
<1>9. DOMAIN content = SlotIds
  BY DEF Init, SlotIds
<1> QED
  BY <1>1, <1>3, <1>5, <1>6, <1>7, <1>8, <1>9 DEF KInv

LEMMA KWarmupPin ==
    ASSUME KInv, Premise, WarmupPin, setup' = setup
    PROVE  KInv'
<1> DEFINE n == Len(Pinned)
           kvs == Taken(free, n)
           t == Insert(tree, Pinned, kvs, clock + 1)
<1>1. BaseInv /\ BaseInv'
  BY BaseWarmupPin DEF KInv
<1>2. /\ UNCHANGED <<req, batch, prepared>> /\ stage = "warmup" /\ stage' = "idle"
      /\ \/ /\ n = 0 \/ ~Room(free, n)
            /\ UNCHANGED <<free, tree, clock, content>>
         \/ /\ n # 0 /\ Room(free, n) /\ Pinned \in Path
            /\ free' = Rest(free, n)
            /\ clock \in Nat
            /\ content' = Store(content, PromptWrites(Pinned, kvs, 1))
            /\ tree' = Lock(t, Pinned)
            /\ \A i \in 1 .. n : kvs[i] \in Nat
            /\ kvs \in Seq(Nat) /\ Len(kvs) = n
  BY <1>1, PinFacts DEF BaseInv
<1>3. \A r \in Reqs : req[r] = NewReq
  BY <1>1, <1>2 DEF BaseInv, Worker, Sound
<1>4. DOMAIN tree = {} /\ free = AllSlots
  BY <1>2 DEF KInv
<1>5. Pinned \in Seq(Nat) /\ n \in Nat /\ NumSlots \in Nat /\ free \in Seq(Nat)
  BY <1>1, SetupFacts DEF BaseInv
<1>6. Room(free, n) <=> n <= NumSlots
  <2>1. Len(AllSlots) = NumSlots
    BY <1>5 DEF AllSlots
  <2> QED
    BY <1>4, <2>1 DEF Room
<1>7. /\ \A r \in Reqs : OwnOf(req)[r] = <<>>
      /\ \A q : Lockers(req, q) = {}
      /\ \A r \in Reqs : PathNodes(req[r].locked) = {}
      /\ \A u : HitsOK(u, req)
      /\ \A c : SuffixOK(c, req, "idle")
  BY <1>3, AllNew
<1>8. \A r \in Reqs : Typed(req[r])
  BY <1>1 DEF BaseInv, Sound
<1>9. SlotsOK(tree, free, req) /\ DOMAIN content = SlotIds
  BY DEF KInv
<1>10. CASE /\ n = 0 \/ ~Room(free, n)
            /\ UNCHANGED <<free, tree, clock, content>>
  <2>1. ~Pins(TRUE)
    <3>1. n = 0 => Pinned = <<>>
      <4>1. \A s \in Seq(Nat) : Len(s) = 0 => s = <<>>
        OBVIOUS
      <4> QED
        BY <1>5, <4>1
    <3> QED
      BY <1>6, <1>10, <3>1 DEF Pins
  <2>2. LocksOK(tree', req', TRUE)
    BY <1>2, <1>4, <1>7, <1>10, <2>1 DEF LocksOK
  <2>3. SizesOK(tree') /\ ServesOK(tree', content')
    BY <1>4, <1>10 DEF SizesOK, ServesOK
  <2>4. SlotsOK(tree', free', req') /\ DOMAIN content' = SlotIds
    BY <1>2, <1>9, <1>10
  <2>5. HitsOK(tree', req') /\ SuffixOK(content', req', stage')
    BY <1>2, <1>7
  <2> QED
    BY <1>1, <1>2, <2>2, <2>3, <2>4, <2>5, KParts
<1>11. CASE /\ n # 0 /\ Room(free, n) /\ Pinned \in Path
            /\ free' = Rest(free, n)
            /\ clock \in Nat
            /\ content' = Store(content, PromptWrites(Pinned, kvs, 1))
            /\ tree' = Lock(t, Pinned)
            /\ \A i \in 1 .. n : kvs[i] \in Nat
            /\ kvs \in Seq(Nat) /\ Len(kvs) = n
  <2>1. /\ free' \in Seq(Nat)
        /\ ToSet(free) = ToSet(free') \cup ToSet(kvs)
        /\ NoRepeats(free') /\ NoRepeats(kvs) /\ ToSet(free') \cap ToSet(kvs) = {}
    <3>1. NoRepeats(free)
      BY <1>5, <1>8, <1>9, OwnApart
    <3> QED
      BY <1>5, <1>11, <3>1, AllocFacts
  <2> HIDE DEF kvs
  <2>2. Grown(t, tree, Pinned, kvs)
    <3>1. GoodTree(tree) /\ clock + 1 \in Nat
      BY <1>1, <1>11 DEF BaseInv
    <3> QED
      BY <1>5, <1>11, <3>1, InsertFacts
  <2> HIDE DEF t
  <2>3. /\ GoodTree(t) /\ DOMAIN t = PathNodes(Pinned)
        /\ \A q \in PathNodes(Pinned) : t[q].kv = kvs[Len(q)] /\ t[q].lock = 0
    BY <1>4, <2>2 DEF Grown
  <2>4. /\ SameSlots(t, tree')
        /\ \A q \in DOMAIN t : tree'[q].lock = t[q].lock + (IF q \in PathNodes(Pinned) THEN 1 ELSE 0)
    BY <1>5, <1>11, <2>3, LockFacts
  <2>5. /\ DOMAIN tree' = PathNodes(Pinned)
        /\ \A q \in PathNodes(Pinned) : tree'[q].kv = kvs[Len(q)] /\ tree'[q].lock = 1
    BY <2>3, <2>4 DEF SameSlots
  <2>6. /\ \A q \in PathNodes(Pinned) : Len(q) \in 1 .. n /\ q = Pre(Pinned, Len(q))
        /\ \A i \in 1 .. n : Pre(Pinned, i) \in PathNodes(Pinned) /\ Len(Pre(Pinned, i)) = i
    BY <1>5, PathNodesFinite
  <2>7. ToSet(kvs) = {kvs[i] : i \in 1 .. n}
    BY <1>11, Members
  <2>8. SlotsIn(tree') = ToSet(kvs)
    <3>1. SlotsIn(tree') = {kvs[Len(q)] : q \in PathNodes(Pinned)}
      BY <2>5 DEF SlotsIn
    <3> QED
      BY <2>6, <2>7, <3>1
  <2>9. \A i, j \in 1 .. n : kvs[i] = kvs[j] => i = j
    BY <1>11, <2>1 DEF NoRepeats
  <2>10. Distinct(tree')
    <3> SUFFICES ASSUME NEW q \in PathNodes(Pinned), NEW u \in PathNodes(Pinned),
                        tree'[q].kv = tree'[u].kv
                 PROVE  q = u
      BY <2>5 DEF Distinct
    <3>1. Len(q) = Len(u)
      BY <2>5, <2>6, <2>9
    <3> QED
      BY <2>6, <3>1
  <2>11. SlotsOK(tree', free', req')
    <3>1. Once(free, OwnOf(req), SlotsIn(tree), SlotIds)
      BY <1>9 DEF SlotsOK
    <3>2. SlotsIn(tree) = {}
      BY <1>4 DEF SlotsIn
    <3>3. Once(free', OwnOf(req), SlotsIn(tree'), SlotIds)
      <4>1. OwnOf(req) \in Lists
        BY <1>8, OwnType
      <4> QED
        BY <1>5, <2>1, <2>8, <3>1, <3>2, <4>1, Moved
    <3> QED
      BY <1>2, <2>10, <3>3 DEF SlotsOK
  <2>12. LocksOK(tree', req', TRUE)
    <3>1. Pins(TRUE)
      <4>1. Len(<<>>) = 0
        OBVIOUS
      <4> QED
        BY <1>6, <1>11, <4>1 DEF Pins
    <3>2. \A q \in PathNodes(Pinned) : PinCount(q, TRUE) = 1 /\ Cardinality(Lockers(req, q)) = 0
      BY <1>7, <3>1, LockersCount DEF PinCount
    <3>3. req' = req
      BY <1>2
    <3>4. \A r \in Reqs : PathNodes(req'[r].locked) \subseteq DOMAIN tree'
      BY <1>7, <3>3
    <3>5. ASSUME NEW q \in DOMAIN tree'
          PROVE  tree'[q].lock = Cardinality(Lockers(req', q)) + PinCount(q, TRUE)
      <4>1. tree'[q].lock = 1
        BY <2>5
      <4>2. PinCount(q, TRUE) = 1 /\ Cardinality(Lockers(req, q)) = 0
        BY <2>5, <3>2
      <4>3. Cardinality(Lockers(req', q)) = 0
        BY <3>3, <4>2
      <4>4. 1 = 0 + 1
        OBVIOUS
      <4> QED
        BY <4>1, <4>2, <4>3, <4>4, Zenon
    <3> QED
      BY <2>5, <3>4, <3>5 DEF LocksOK
  <2>13. SizesOK(tree')
    <3>1. n <= MaxIns /\ MaxIns \in Nat
      BY ParametersAssumption DEF Premise, PinFits
    <3> QED
      BY <1>5, <2>5, <2>6, <3>1 DEF SizesOK
  <2>14. DOMAIN content' = SlotIds /\ ServesOK(tree', content')
    <3>1. content' = Store(content, PromptWrites(Pinned, kvs, 1))
      BY <1>11
    <3>2. DOMAIN content' = SlotIds
      BY <1>9, <3>1, StoreDomain
    <3>3. ASSUME NEW q \in PathNodes(Pinned)
          PROVE  content'[kvs[Len(q)]] = KV(q, 0)
      <4> DEFINE w == [slot |-> kvs[Len(q)], kv |-> KV(Pre(Pinned, Len(q)), 0)]
      <4>1. w \in PromptWrites(Pinned, kvs, 1)
        BY <2>6, PromptWritesFacts
      <4>2. w.slot \in DOMAIN content
        <5>1. w.slot = kvs[Len(q)]
          OBVIOUS
        <5>2. kvs[Len(q)] \in ToSet(kvs)
          BY <2>6, <2>7
        <5>3. ToSet(free) \subseteq SlotIds
          BY <1>5, <1>8, <1>9, OwnApart
        <5> QED
          BY <1>9, <2>1, <5>1, <5>2, <5>3
      <4>3. ASSUME NEW v \in PromptWrites(Pinned, kvs, 1), v.slot = w.slot PROVE v = w
        <5>1. PICK i \in 1 .. n : v = [slot |-> kvs[i], kv |-> KV(Pre(Pinned, i), 0)]
          BY PromptWritesFacts
        <5>2. kvs[i] = kvs[Len(q)]
          BY <4>3, <5>1
        <5>3. i = Len(q)
          BY <2>6, <2>9, <5>2
        <5> QED
          BY <5>1, <5>3
      <4>4. w.slot = kvs[Len(q)] /\ w.kv = KV(q, 0)
        BY <2>6
      <4> HIDE DEF w
      <4> QED
        BY <3>1, <4>1, <4>2, <4>3, <4>4, StoreWrites
    <3> QED
      BY <2>5, <3>2, <3>3 DEF ServesOK
  <2>15. HitsOK(tree', req') /\ SuffixOK(content', req', stage')
    BY <1>2, <1>7
  <2> QED
    BY <1>1, <1>2, <2>11, <2>12, <2>13, <2>14, <2>15, KParts
<1> QED
  BY <1>2, <1>10, <1>11

\* A step that changes neither slots nor trees nor contents, once warmup is over.
LEMMA KSame ==
    ASSUME KInv, BaseInv', setup' = setup, UNCHANGED <<free, tree, content>>,
           stage # "warmup", stage' # "warmup", Kept(req', req),
           \A r \in Reqs : Written(req'[r], stage') => Written(req[r], stage)
    PROVE  KInv'
<1>1. (stage # "warmup") = TRUE
  OBVIOUS
<1>2. /\ SlotsOK(tree, free, req) /\ LocksOK(tree, req, TRUE) /\ HitsOK(tree, req)
      /\ SizesOK(tree) /\ DOMAIN content = SlotIds /\ ServesOK(tree, content)
      /\ SuffixOK(content, req, stage)
  BY <1>1 DEF KInv
<1>3. /\ SlotsOK(tree, free, req') /\ LocksOK(tree, req', TRUE) /\ HitsOK(tree, req')
  BY <1>2, KeptFacts
<1>4. SuffixOK(content, req', stage')
  BY <1>2 DEF SuffixOK, Kept
<1> QED
  BY <1>2, <1>3, <1>4, KParts

LEMMA KStartPrefill ==
    ASSUME KInv, NEW rs \in SetToAllKPermutations(In("new")) \ {<<>>}, StartPrefill(rs),
           setup' = setup
    PROVE  KInv'
<1>1. BaseInv /\ BaseInv'
  BY BaseStartPrefill DEF KInv
<1>2. /\ stage = "idle" /\ stage' = "match"
      /\ UNCHANGED <<free, tree, content, req>>
  BY DEF StartPrefill
<1>3. Kept(req', req)
  BY <1>2 DEF Kept
<1>4. \A r \in Reqs : Written(req'[r], stage') => Written(req[r], stage)
  BY <1>2 DEF Written
<1> QED
  BY <1>1, <1>2, <1>3, <1>4, KSame

LEMMA KPrefillForward ==
    ASSUME KInv, PrefillForward, setup' = setup
    PROVE  KInv'
<1> DEFINE writes == UNION {SuffixKV(r) : r \in ToSet(prepared)}
<1>1. BaseInv /\ BaseInv'
  BY BasePrefillForward DEF KInv
<1>2. /\ stage = "match" /\ stage' \in {"wave", "each"}
      /\ UNCHANGED <<free, tree, req, batch, prepared>>
      /\ content' = Store(content, writes)
  BY DEF PrefillForward
<1>3. /\ SlotsOK(tree, free, req) /\ LocksOK(tree, req, TRUE) /\ HitsOK(tree, req)
      /\ SizesOK(tree) /\ DOMAIN content = SlotIds /\ ServesOK(tree, content)
      /\ SuffixOK(content, req, stage)
  <2>1. (stage # "warmup") = TRUE
    BY <1>2
  <2> QED
    BY <2>1 DEF KInv
<1>4. \A r \in Reqs : Typed(req[r])
  BY <1>1 DEF BaseInv, Sound
<1>5. /\ \A r \in Reqs : req[r].phase = "matched" <=> r \in ToSet(prepared)
      /\ ToSet(prepared) \subseteq Reqs
  BY <1>1, Members DEF BaseInv, Worker
<1>6. \A r \in Reqs : req[r].phase \in Active => Len(req[r].full) = Len(Prompt[r])
  BY <1>1 DEF BaseInv, Sound, Active
<1>7. /\ \A r \in Reqs : NoRepeats(OwnPart(req[r]))
      /\ \A r \in Reqs : ToSet(OwnPart(req[r])) \subseteq SlotIds
      /\ \A r \in Reqs : ToSet(OwnPart(req[r])) \cap SlotsIn(tree) = {}
      /\ \A r, q \in Reqs : r # q => ToSet(OwnPart(req[r])) \cap ToSet(OwnPart(req[q])) = {}
      /\ SlotsIn(tree) \subseteq SlotIds
  BY <1>1, <1>3, <1>4, OwnApart DEF BaseInv
<1>8. ASSUME NEW r \in Reqs, req[r].phase \in Active
      PROVE  /\ \A i \in req[r].hit + 1 .. Len(Prompt[r]) : req[r].full[i] \in ToSet(OwnPart(req[r]))
             /\ \A i, j \in req[r].hit + 1 .. Len(Prompt[r]) : req[r].full[i] = req[r].full[j] => i = j
  BY <1>4, <1>6, <1>7, <1>8, OwnSuffix
<1>9. ASSUME NEW w \in writes
      PROVE  \E r \in ToSet(prepared) : \E i \in req[r].hit + 1 .. Len(Prompt[r]) :
                w = [slot |-> req[r].full[i], kv |-> KV(Pre(Prompt[r], i), 0)]
  <2>1. PICK r \in ToSet(prepared) : w \in SuffixKV(r)
    OBVIOUS
  <2> QED
    BY <2>1, PromptWritesFacts DEF SuffixKV
<1>10. ASSUME NEW r \in ToSet(prepared), NEW i \in req[r].hit + 1 .. Len(Prompt[r])
       PROVE  [slot |-> req[r].full[i], kv |-> KV(Pre(Prompt[r], i), 0)] \in writes
  <2>1. [slot |-> req[r].full[i], kv |-> KV(Pre(Prompt[r], i), 0)] \in SuffixKV(r)
    BY PromptWritesFacts DEF SuffixKV
  <2> QED
    BY <2>1
<1> HIDE DEF writes
<1>11. DOMAIN content' = SlotIds
  BY <1>2, <1>3, StoreDomain
<1>12. ASSUME NEW r \in ToSet(prepared), NEW i \in req[r].hit + 1 .. Len(Prompt[r])
       PROVE  content'[req[r].full[i]] = KV(Pre(Prompt[r], i), 0)
  <2> DEFINE w == [slot |-> req[r].full[i], kv |-> KV(Pre(Prompt[r], i), 0)]
  <2>1. w \in writes /\ w.slot = req[r].full[i] /\ w.kv = KV(Pre(Prompt[r], i), 0)
    BY <1>10
  <2>2. r \in Reqs /\ req[r].phase \in Active
    BY <1>5 DEF Active
  <2>3. req[r].full[i] \in ToSet(OwnPart(req[r]))
    BY <1>8, <2>2
  <2>4. w.slot \in DOMAIN content
    BY <1>3, <1>7, <2>1, <2>2, <2>3
  <2>5. ASSUME NEW v \in writes, v.slot = w.slot PROVE v = w
    <3>1. PICK q \in ToSet(prepared) : \E j \in req[q].hit + 1 .. Len(Prompt[q]) :
                v = [slot |-> req[q].full[j], kv |-> KV(Pre(Prompt[q], j), 0)]
      BY <1>9
    <3>2. PICK j \in req[q].hit + 1 .. Len(Prompt[q]) :
                v = [slot |-> req[q].full[j], kv |-> KV(Pre(Prompt[q], j), 0)]
      BY <3>1
    <3>3. req[q].full[j] = req[r].full[i]
      BY <2>1, <2>5, <3>2
    <3>4. q \in Reqs /\ req[q].phase \in Active
      BY <1>5 DEF Active
    <3>5. req[q].full[j] \in ToSet(OwnPart(req[q]))
      BY <1>8, <3>4
    <3>6. q = r
      BY <1>7, <2>2, <2>3, <3>3, <3>4, <3>5
    <3>7. j = i
      BY <1>8, <2>2, <3>3, <3>6
    <3> QED
      BY <3>2, <3>6, <3>7
  <2> HIDE DEF w
  <2> QED
    BY <1>2, <2>1, <2>4, <2>5, StoreWrites
<1>13. ASSUME NEW s \in SlotIds, \A r \in ToSet(prepared) : s \notin ToSet(OwnPart(req[r]))
       PROVE  content'[s] = content[s]
  <2>1. ASSUME NEW w \in writes PROVE w.slot # s
    <3>1. PICK r \in ToSet(prepared) : \E i \in req[r].hit + 1 .. Len(Prompt[r]) :
                w = [slot |-> req[r].full[i], kv |-> KV(Pre(Prompt[r], i), 0)]
      BY <1>9
    <3>2. PICK i \in req[r].hit + 1 .. Len(Prompt[r]) :
                w = [slot |-> req[r].full[i], kv |-> KV(Pre(Prompt[r], i), 0)]
      BY <3>1
    <3>3. r \in Reqs /\ req[r].phase \in Active
      BY <1>5 DEF Active
    <3>4. req[r].full[i] \in ToSet(OwnPart(req[r]))
      BY <1>8, <3>3
    <3> QED
      BY <1>13, <3>2, <3>4
  <2> QED
    BY <1>2, <1>3, <2>1, StoreKeeps
<1>14. ServesOK(tree', content')
  <2> SUFFICES ASSUME NEW q \in DOMAIN tree PROVE content'[tree[q].kv] = KV(q, 0)
    BY <1>2 DEF ServesOK
  <2>1. tree[q].kv \in SlotsIn(tree)
    BY DEF SlotsIn
  <2>2. content'[tree[q].kv] = content[tree[q].kv]
    BY <1>5, <1>7, <1>13, <2>1
  <2> QED
    BY <1>3, <2>2 DEF ServesOK
<1>15. SuffixOK(content', req', stage')
  <2> SUFFICES ASSUME NEW r \in Reqs, Written(req[r], stage'),
                      NEW i \in req[r].hit + 1 .. Len(Prompt[r])
               PROVE  content'[req[r].full[i]] = KV(Pre(Prompt[r], i), 0)
    BY <1>2 DEF SuffixOK
  <2>1. CASE r \in ToSet(prepared)
    BY <1>12, <2>1
  <2>2. CASE r \notin ToSet(prepared)
    <3>1. req[r].phase \in {"running", "finished"}
      BY <1>5, <2>2 DEF Written
    <3>2. req[r].full[i] \in ToSet(OwnPart(req[r]))
      BY <1>8, <3>1 DEF Active
    <3>3. content'[req[r].full[i]] = content[req[r].full[i]]
      BY <1>5, <1>7, <1>13, <2>2, <3>2
    <3>4. content[req[r].full[i]] = KV(Pre(Prompt[r], i), 0)
      BY <1>3, <3>1 DEF SuffixOK, Written
    <3> QED
      BY <3>3, <3>4
  <2> QED
    BY <2>1, <2>2
<1>16. SlotsOK(tree', free', req') /\ LocksOK(tree', req', TRUE) /\ HitsOK(tree', req') /\ SizesOK(tree')
  BY <1>2, <1>3
<1> QED
  BY <1>1, <1>2, <1>11, <1>14, <1>15, <1>16, KParts
\* What is known once warmup is over.
LEMMA KHas ==
    ASSUME KInv, stage # "warmup"
    PROVE  /\ SlotsOK(tree, free, req) /\ LocksOK(tree, req, TRUE) /\ HitsOK(tree, req)
           /\ SizesOK(tree) /\ DOMAIN content = SlotIds /\ ServesOK(tree, content)
           /\ SuffixOK(content, req, stage)
           /\ BaseInv /\ GoodTree(tree) /\ setup \in Setups
           /\ free \in Seq(Nat)
           /\ \A r \in Reqs : Typed(req[r]) /\ Sound(req[r], Prompt[r])
           /\ \A r \in Reqs : req[r].phase = "new" => req[r] = NewReq
<1>1. (stage # "warmup") = TRUE
  OBVIOUS
<1>2. BaseInv
  BY DEF KInv
<1> QED
  BY <1>1, <1>2 DEF KInv, BaseInv, Sound

\* Giving up drops the requests in hand with all that they hold.
LEMMA KGaveUp ==
    ASSUME BaseInv', setup' = setup, NEW rq, \A r \in Reqs : Typed(rq[r]),
           \A r \in Reqs : rq[r].phase = "new" => rq[r] = NewReq, GiveUp(rq),
           SlotsOK(tree', free', rq), LocksOK(tree', rq, TRUE), SizesOK(tree'),
           DOMAIN content' = SlotIds, ServesOK(tree', content')
    PROVE  KInv'
<1>1. /\ \A r \in Reqs : /\ SameHoldings(req'[r], rq[r])
                         /\ req'[r].phase \in {"new", "done", "dropped"}
      /\ stage' = "idle"
  BY GiveUpFacts
<1>2. \A r \in Reqs : req'[r].phase \notin Active
  BY <1>1 DEF Active
<1>3. Kept(req', rq)
  BY <1>1, <1>2 DEF Kept, SameHoldings
<1>4. SlotsOK(tree', free', req') /\ LocksOK(tree', req', TRUE)
  BY <1>3, KeptFacts
<1>5. HitsOK(tree', req')
  BY <1>2 DEF HitsOK
<1>6. SuffixOK(content', req', stage')
  BY <1>1 DEF SuffixOK, Written
<1> QED
  BY <1>1, <1>4, <1>5, <1>6, KParts

\* What a match finds is in the tree, on the slots it finds.
LEMMA FoundCached ==
    ASSUME BaseInv, MatchAndAlloc
    PROVE  LET r == Head(batch)
           IN  \A i \in 1 .. Len(Hits(r)) :
                 Pre(Prompt[r], i) \in DOMAIN tree /\ Hits(r)[i] = tree[Pre(Prompt[r], i)].kv
<1> DEFINE r == Head(batch)
           p == Prompt[r]
           hits == Hits(r)
<1>1. /\ Looked(p) \in Seq(Nat) /\ Len(Looked(p)) = Len(p) - 1
      /\ \A i \in 1 .. Len(p) - 1 : Pre(Looked(p), i) = Pre(p, i)
      /\ Len(hits) < Len(p) /\ Len(hits) \in Nat
      /\ r \in Reqs
  BY MatchFacts
<1>2. GoodTree(tree) /\ Len(p) \in Nat
  BY <1>1, SetupFacts DEF BaseInv
<1>3. PICK look \in Seq(Nat) : look = Looked(p)
  BY <1>1
<1>4. /\ HitLen(tree, look) \in 0 .. Len(look)
      /\ \A i \in 1 .. Len(look) : Pre(look, i) \in DOMAIN tree <=> i <= HitLen(tree, look)
      /\ Len(hits) = HitLen(tree, look)
      /\ \A i \in 1 .. HitLen(tree, look) : hits[i] = tree[Pre(look, i)].kv
  BY <1>2, <1>3, HitFacts DEF Hits
<1> HIDE DEF p, hits
<1>5. \A i \in 1 .. Len(hits) : i \in 1 .. Len(p) - 1 /\ Pre(look, i) \in DOMAIN tree
  BY <1>1, <1>2, <1>3, <1>4
<1>6. \A i \in 1 .. Len(hits) : Pre(p, i) \in DOMAIN tree /\ hits[i] = tree[Pre(p, i)].kv
  BY <1>1, <1>3, <1>4, <1>5
<1> QED
  BY <1>6 DEF p, hits

LEMMA KMatchAndAlloc ==
    ASSUME KInv, MatchAndAlloc, setup' = setup
    PROVE  KInv'
<1> DEFINE r == Head(batch)
           p == Prompt[r]
           n == Need(r)
           hits == Hits(r)
<1>1. BaseInv /\ BaseInv'
  BY BaseMatchAndAlloc DEF KInv
<1>2. PICK now \in Nat : \E e \in AfterEvict(Touch(tree, Looked(p), now), Need(r)) :
                    /\ clock' = now
                    /\ GoodTree(Touch(tree, Looked(p), now))
                    /\ Outcome(e, Touch(tree, Looked(p), now))
                    /\ tree' = e.tree
                    /\ free \o e.freed \in Seq(Nat)
                    /\ \/ MatchGot(r, free \o e.freed)
                       \/ MatchNoRow(r, free \o e.freed)
                       \/ MatchNoSlots(free \o e.freed)
  BY <1>1, MatchFacts
<1> DEFINE t == Touch(tree, Looked(p), now)
<1>3. PICK e : /\ Outcome(e, t)
               /\ tree' = e.tree
               /\ free \o e.freed \in Seq(Nat)
               /\ \/ MatchGot(r, free \o e.freed)
                  \/ MatchNoRow(r, free \o e.freed)
                  \/ MatchNoSlots(free \o e.freed)
  BY <1>2
<1>4. /\ stage = "match" /\ batch # <<>>
      /\ r \in Reqs /\ req[r] = NewReq
      /\ content' = content
      /\ Looked(p) \in Seq(Nat) /\ Len(Looked(p)) = Len(p) - 1
      /\ \A i \in 1 .. Len(p) - 1 : Pre(Looked(p), i) = Pre(p, i)
      /\ hits \in Seq(Nat) /\ Len(hits) < Len(p) /\ Len(hits) \in Nat
      /\ n \in Nat /\ n = Len(p) - Len(hits)
  BY <1>1, MatchFacts DEF Need
<1>5. /\ SlotsOK(tree, free, req) /\ LocksOK(tree, req, TRUE) /\ HitsOK(tree, req)
      /\ SizesOK(tree) /\ DOMAIN content = SlotIds /\ ServesOK(tree, content)
      /\ SuffixOK(content, req, stage) /\ GoodTree(tree) /\ setup \in Setups
      /\ free \in Seq(Nat)
      /\ \A q \in Reqs : Typed(req[q]) /\ Sound(req[q], Prompt[q])
      /\ \A q \in Reqs : req[q].phase = "new" => req[q] = NewReq
  BY <1>4, KHas
<1>6. p \in Seq(Nat) /\ Len(p) \in Nat \ {0}
  BY <1>4, <1>5, SetupFacts
<1>7. SameSlots(tree, t) /\ DOMAIN t = DOMAIN tree /\ \A q \in DOMAIN tree : t[q].lock = tree[q].lock
  BY <1>4, <1>5, TouchFacts DEF SameSlots
<1> HIDE DEF t
<1>8. /\ SlotsOK(t, free, req) /\ LocksOK(t, req, TRUE) /\ HitsOK(t, req)
      /\ SizesOK(t) /\ ServesOK(t, content)
  BY <1>5, <1>7, RelabelFacts, SameLocks
<1> DEFINE pool == free \o e.freed
           full == hits \o Taken(pool, n)
<1>9. /\ pool \in Seq(Nat) /\ NoRepeats(pool)
      /\ SlotsOK(tree', pool, req) /\ LocksOK(tree', req, TRUE) /\ HitsOK(tree', req)
      /\ SizesOK(tree') /\ ServesOK(tree', content)
  BY <1>3, <1>5, <1>8, EvictedFacts
<1>10. /\ Len(hits) <= MaxIns
       /\ \A i \in 1 .. Len(hits) : Pre(p, i) \in DOMAIN tree /\ hits[i] = tree[Pre(p, i)].kv
  <2>4. \A i \in 1 .. Len(hits) : Pre(p, i) \in DOMAIN tree /\ hits[i] = tree[Pre(p, i)].kv
    BY <1>1, FoundCached
  <2>5. CASE Len(hits) = 0
    BY <2>4, <2>5, ParametersAssumption
  <2>6. CASE Len(hits) # 0
    <3>1. Len(hits) \in 1 .. Len(p)
      BY <1>4, <1>6, <2>6
    <3>2. Len(Pre(p, Len(hits))) = Len(hits)
      BY <1>6, <3>1, PathNodesFinite
    <3>3. Len(hits) \in 1 .. Len(hits)
      BY <3>1
    <3> QED
      BY <1>5, <2>4, <3>2, <3>3 DEF SizesOK
  <2> QED
    BY <2>4, <2>5, <2>6
<1> HIDE DEF p, pool, hits, n
<1>11. ASSUME NEW row \in Seq(Nat), Room(pool, n),
              NEW rec, rec = MatchedReq(Len(hits), full, row)
       PROVE  /\ Rest(pool, n) \in Seq(Nat)
              /\ Typed(rec) /\ rec.phase = "matched"
              /\ \A q \in Reqs : Typed(With(r, rec)[q])
              /\ \A q \in Reqs : With(r, rec)[q].phase = "new" => With(r, rec)[q] = NewReq
              /\ SlotsOK(tree', Rest(pool, n), With(r, rec))
              /\ LocksOK(tree', With(r, rec), TRUE)
              /\ HitsOK(tree', With(r, rec))
  <2> DEFINE rq == With(r, rec)
  <2>1. /\ Sound(rec, p)
        /\ From(full, Len(hits) + 1) = Taken(pool, n)
        /\ \A i \in 1 .. Len(hits) : full[i] = hits[i]
    BY <1>4, <1>6, <1>9, <1>11, MatchedSound
  <2>2. /\ rec.phase = "matched" /\ rec.hit = Len(hits) /\ rec.full = full
        /\ rec.locked = <<>> /\ rec.owned = <<>>
    BY <1>11 DEF MatchedReq
  <2>3. rq[r] = rec /\ \A q \in Reqs : q # r => rq[q] = req[q]
    BY <1>1, <1>4, WithFacts
  <2> HIDE DEF rq
  <2>4. \A q \in Reqs : Typed(rq[q])
    BY <1>5, <2>1, <2>3 DEF Sound
  <2>5. \A q \in Reqs : rq[q].phase = "new" => rq[q] = NewReq
    BY <1>5, <2>2, <2>3
  <2>6. SlotsOK(tree', Rest(pool, n), rq)
    <3>1. /\ Rest(pool, n) \in Seq(Nat) /\ Taken(pool, n) \in Seq(Nat)
      BY <1>4, <1>9, <1>11, AllocFacts
    <3>2. /\ ToOne(r, Taken(pool, n)) \in Lists
          /\ Once(Rest(pool, n), ToOne(r, Taken(pool, n)), {}, ToSet(pool))
      BY <1>4, <1>9, <1>11, OneTaker
    <3>3. OwnOf(req) \in Lists /\ \A q \in Reqs : OwnOf(req)[q] = OwnPart(req[q])
      BY <1>5, OwnType
    <3>4. OwnOf(rq) \in Lists /\ \A q \in Reqs : OwnOf(rq)[q] = OwnPart(rq[q])
      BY <2>4, OwnType
    <3>5. ASSUME NEW q \in Reqs PROVE OwnOf(rq)[q] = OwnOf(req)[q] \o ToOne(r, Taken(pool, n))[q]
      <4>1. CASE q = r
        <5>1. OwnOf(req)[q] = <<>>
          BY <1>4, <3>3, <4>1, NewHoldsNothing
        <5>2. OwnOf(rq)[q] = Taken(pool, n) \o <<>>
          BY <1>4, <2>1, <2>2, <2>3, <3>4, <4>1 DEF OwnPart
        <5>3. ToOne(r, Taken(pool, n))[q] = Taken(pool, n)
          BY <4>1 DEF ToOne
        <5> QED
          BY <3>1, <5>1, <5>2, <5>3, EmptyAdded
      <4>2. CASE q # r
        <5>1. OwnOf(rq)[q] = OwnOf(req)[q] /\ OwnOf(req)[q] \in Seq(Nat)
          BY <2>3, <3>3, <3>4, <4>2 DEF Lists
        <5>2. ToOne(r, Taken(pool, n))[q] = <<>>
          BY <4>2 DEF ToOne
        <5> QED
          BY <5>1, <5>2, EmptyAdded
      <4> QED
        BY <4>1, <4>2
    <3>6. Once(pool, OwnOf(req), SlotsIn(tree'), SlotIds) /\ Distinct(tree')
      BY <1>9 DEF SlotsOK
    <3>7. Once(Rest(pool, n), OwnOf(rq), SlotsIn(tree'), SlotIds)
      BY <1>9, <3>1, <3>2, <3>3, <3>4, <3>5, <3>6, HandedOut
    <3> QED
      BY <3>6, <3>7 DEF SlotsOK
  <2>7. LocksOK(tree', rq, TRUE)
    <3>1. \A q \in Reqs : rq[q].locked = req[q].locked
      BY <1>4, <2>2, <2>3, NewReqFacts
    <3>2. \A q : Lockers(rq, q) = Lockers(req, q)
      BY <3>1 DEF Lockers
    <3> QED
      BY <1>9, <3>1, <3>2 DEF LocksOK
  <2>8. HitsOK(tree', rq)
    <3> SUFFICES ASSUME NEW q \in Reqs, rq[q].phase \in Active
                 PROVE  /\ rq[q].hit <= MaxIns
                        /\ \A i \in 1 .. rq[q].hit :
                             Pre(Prompt[q], i) \in DOMAIN tree'
                               => tree'[Pre(Prompt[q], i)].kv = rq[q].full[i]
      BY DEF HitsOK
    <3>1. CASE q # r
      BY <1>9, <2>3, <3>1 DEF HitsOK
    <3>2. CASE q = r
      <4>1. rq[q].hit = Len(hits) /\ rq[q].full = full
        BY <2>2, <2>3, <3>2
      <4>2. \A u \in DOMAIN tree' : tree'[u].kv = tree[u].kv
        <5>1. DOMAIN tree' \subseteq DOMAIN t /\ \A u \in DOMAIN tree' : tree'[u] = t[u]
          BY <1>3 DEF Outcome
        <5> QED
          BY <1>7, <5>1 DEF SameSlots
      <4> QED
        BY <1>10, <2>1, <3>2, <4>1, <4>2 DEF p
    <3> QED
      BY <3>1, <3>2
  <2>9. Typed(rec) /\ Rest(pool, n) \in Seq(Nat)
    BY <1>4, <1>9, <1>11, <2>1, AllocFacts DEF Sound
  <2> QED
    BY <2>2, <2>4, <2>5, <2>6, <2>7, <2>8, <2>9 DEF rq
<1>12. CASE MatchGot(r, pool)
  <2>1. /\ Room(pool, n) /\ Room(free_rows, 1)
        /\ free' = Rest(pool, n)
        /\ req' = With(r, MatchedReq(Len(hits), full, Taken(free_rows, 1)))
        /\ stage' = stage
    BY <1>12 DEF MatchGot, hits, n
  <2>2. PICK row \in Seq(Nat) : row = Taken(free_rows, 1)
    BY <1>1, <2>1, AllocFacts DEF BaseInv
  <2>3. PICK rec : rec = MatchedReq(Len(hits), full, row)
    OBVIOUS
  <2>4. /\ req' = With(r, rec) /\ rec.phase = "matched"
        /\ SlotsOK(tree', free', req') /\ LocksOK(tree', req', TRUE) /\ HitsOK(tree', req')
    BY <1>11, <2>1, <2>2, <2>3
  <2>5. req'[r] = rec /\ \A q \in Reqs : q # r => req'[q] = req[q]
    BY <1>1, <1>4, <2>4, WithFacts
  <2>6. SuffixOK(content', req', stage')
    <3> SUFFICES ASSUME NEW q \in Reqs, Written(req'[q], stage')
                 PROVE  \A i \in req'[q].hit + 1 .. Len(Prompt[q]) :
                          content[req'[q].full[i]] = KV(Pre(Prompt[q], i), 0)
      BY <1>4 DEF SuffixOK
    <3>1. q # r
      BY <1>4, <2>1, <2>4, <2>5 DEF Written
    <3>2. Written(req[q], stage) /\ req'[q] = req[q]
      BY <1>4, <2>1, <2>5, <3>1
    <3> QED
      BY <1>5, <3>2 DEF SuffixOK
  <2>7. stage' # "warmup"
    BY <1>4, <2>1
  <2> QED
    BY <1>1, <1>4, <1>5, <1>9, <2>4, <2>6, <2>7, KParts
<1>13. CASE MatchNoRow(r, pool)
  <2>1. /\ Room(pool, n) /\ free' = Rest(pool, n)
        /\ GiveUp(With(r, MatchedReq(Len(hits), full, <<>>)))
    BY <1>13 DEF MatchNoRow, hits, n
  <2>2. PICK rec : rec = MatchedReq(Len(hits), full, <<>>)
    OBVIOUS
  <2>3. PICK rq : rq = With(r, rec)
    OBVIOUS
  <2>4. /\ \A q \in Reqs : Typed(rq[q])
        /\ \A q \in Reqs : rq[q].phase = "new" => rq[q] = NewReq
        /\ SlotsOK(tree', free', rq) /\ LocksOK(tree', rq, TRUE)
    BY <1>11, <2>1, <2>2, <2>3, EmptyList
  <2>5. GiveUp(rq)
    BY <2>1, <2>2, <2>3
  <2> QED
    BY <1>1, <1>4, <1>5, <1>9, <2>4, <2>5, KGaveUp
<1>14. CASE MatchNoSlots(pool)
  <2>1. free' = pool /\ GiveUp(req)
    BY <1>14 DEF MatchNoSlots
  <2> QED
    BY <1>1, <1>4, <1>5, <1>9, <2>1, KGaveUp
<1> QED
  BY <1>3, <1>12, <1>13, <1>14 DEF pool
\* Requests in hand lock their hits: a node's lock counts them then, as what they
\* lock is cached.
LEMMA KLocking ==
    ASSUME KInv, Premise, BaseInv', setup' = setup, UNCHANGED <<free, content>>,
           stage \in {"wave", "each"}, stage' # "warmup",
           NEW D \in SUBSET Reqs, \A r \in D : req[r].phase = "matched",
           SameSlots(tree, tree'),
           \A q \in DOMAIN tree :
             tree'[q].lock = tree[q].lock + Cardinality({r \in D : q \in PathNodes(LockedPath(r))}),
           \A r \in D : req'[r].locked = LockedPath(r),
           \A r \in Reqs \ D : req'[r].locked = req[r].locked,
           \A r \in Reqs : /\ req'[r].hit = req[r].hit /\ req'[r].full = req[r].full
                           /\ req'[r].owned = req[r].owned
                           /\ req'[r].phase \in Active => req[r].phase \in Active
                           /\ Written(req'[r], stage') => Written(req[r], stage)
    PROVE  KInv'
<1>1. /\ SlotsOK(tree, free, req) /\ LocksOK(tree, req, TRUE) /\ HitsOK(tree, req)
      /\ SizesOK(tree) /\ DOMAIN content = SlotIds /\ ServesOK(tree, content)
      /\ SuffixOK(content, req, stage) /\ BaseInv
      /\ \A r \in Reqs : Typed(req[r]) /\ Sound(req[r], Prompt[r])
  BY KHas
<1>2. DOMAIN tree' = DOMAIN tree
  BY DEF SameSlots
<1>3. SlotsOK(tree', free', req')
  <2>1. OwnOf(req') = OwnOf(req)
    BY DEF OwnOf, OwnPart
  <2>2. SlotsOK(tree', free, req)
    BY <1>1, RelabelFacts
  <2> QED
    BY <2>1, <2>2 DEF SlotsOK
<1>4. SizesOK(tree') /\ ServesOK(tree', content')
  BY <1>1, RelabelFacts
<1>5. HitsOK(tree', req')
  <2>1. HitsOK(tree', req)
    BY <1>1, RelabelFacts
  <2> QED
    BY <2>1 DEF HitsOK
<1>6. SuffixOK(content', req', stage')
  BY <1>1 DEF SuffixOK
<1>7. ASSUME NEW r \in D PROVE PathNodes(LockedPath(r)) \subseteq DOMAIN tree
  <2>1. PathNodes(LockedPath(r)) = {Pre(Prompt[r], i) : i \in 1 .. req[r].hit}
    BY <1>1, LockedPathFacts
  <2>2. \A i \in 1 .. req[r].hit : Pre(Prompt[r], i) \in DOMAIN tree
    BY DEF Premise, HitsStayCached, In
  <2> QED
    BY <2>1, <2>2
<1>8. LocksOK(tree', req', TRUE)
  <2>1. ASSUME NEW r \in Reqs PROVE PathNodes(req'[r].locked) \subseteq DOMAIN tree'
    <3>1. CASE r \in D
      BY <1>2, <1>7, <3>1
    <3>2. CASE r \notin D
      BY <1>1, <1>2, <3>2 DEF LocksOK
    <3> QED
      BY <3>1, <3>2
  <2>2. Pins(TRUE) => PathNodes(Pinned) \subseteq DOMAIN tree'
    BY <1>1, <1>2 DEF LocksOK
  <2>3. ASSUME NEW q \in DOMAIN tree
        PROVE  tree'[q].lock = Cardinality(Lockers(req', q)) + PinCount(q, TRUE)
    <3> DEFINE new == {r \in D : q \in PathNodes(LockedPath(r))}
    <3>1. new \subseteq D /\ IsFiniteSet(new) /\ Cardinality(new) \in Nat
      <4>1. IsFiniteSet(Reqs) /\ new \subseteq Reqs
        BY ParametersAssumption
      <4>2. IsFiniteSet(new)
        BY <4>1, FS_Subset
      <4> QED
        BY <4>2, FS_CardinalityType
    <3>2. IsFiniteSet(Lockers(req, q)) /\ Cardinality(Lockers(req, q)) \in Nat
      BY LockersCount
    <3>3. \A r \in D : q \notin PathNodes(req[r].locked)
      <4>1. \A r \in D : req[r].locked = <<>>
        BY <1>1 DEF Sound
      <4> QED
        BY <4>1, NoNodes
    <3>4. Lockers(req', q) = Lockers(req, q) \cup new
      BY <3>3 DEF Lockers
    <3>5. Lockers(req, q) \cap new = {}
      BY <3>3 DEF Lockers
    <3>6. tree'[q].lock = tree[q].lock + Cardinality(new)
      OBVIOUS
    <3>7. tree[q].lock = Cardinality(Lockers(req, q)) + PinCount(q, TRUE)
      BY <1>1 DEF LocksOK
    <3> HIDE DEF new
    <3>8. Cardinality(Lockers(req', q)) = Cardinality(Lockers(req, q)) + Cardinality(new)
      <4>1. PICK A : A = Lockers(req, q) /\ IsFiniteSet(A) /\ Cardinality(A) \in Nat
        BY <3>2
      <4>2. PICK B : B = new /\ IsFiniteSet(B) /\ Cardinality(B) \in Nat
        BY <3>1
      <4>3. Cardinality(A \cup B) = Cardinality(A) + Cardinality(B) - Cardinality(A \cap B)
        BY <4>1, <4>2, FS_Union
      <4>4. Cardinality(A \cap B) = 0
        BY <3>5, <4>1, <4>2, FS_EmptySet
      <4>5. Cardinality(A \cup B) = Cardinality(A) + Cardinality(B)
        BY <4>1, <4>2, <4>3, <4>4
      <4> QED
        BY <3>4, <4>1, <4>2, <4>5
    <3>9. PICK x \in Nat : x = Cardinality(Lockers(req, q))
      BY <3>2
    <3>10. PICK y \in Nat : y = Cardinality(new)
      BY <3>1
    <3>11. PICK z \in Nat : z = PinCount(q, TRUE)
      BY DEF PinCount
    <3>12. tree'[q].lock = (x + z) + y /\ Cardinality(Lockers(req', q)) = x + y
      BY <3>6, <3>7, <3>8, <3>9, <3>10, <3>11
    <3>13. (x + z) + y = (x + y) + z
      <4>1. \A a, b, c \in Nat : (a + c) + b = (a + b) + c
        OBVIOUS
      <4> QED
        BY <3>9, <3>10, <3>11, <4>1
    <3> QED
      BY <3>11, <3>12, <3>13, Zenon
  <2> QED
    BY <1>2, <2>1, <2>2, <2>3 DEF LocksOK
<1> QED
  BY <1>1, <1>3, <1>4, <1>5, <1>6, <1>8, KParts

LEMMA KInitWave ==
    ASSUME KInv, Premise, InitWave, setup' = setup
    PROVE  KInv'
<1>1. BaseInv /\ BaseInv'
  BY BaseInitWave DEF KInv
<1>2. /\ stage = "wave" /\ UNCHANGED <<free, clock, content>>
      /\ ToSet(prepared) \subseteq Reqs /\ \A r \in ToSet(prepared) : req[r].phase = "matched"
      /\ \/ WaveGot
         \/ GiveUp(req) /\ UNCHANGED <<free_rows, tree>>
  BY <1>1, WaveFacts
<1>3. CASE WaveGot
  <2> DEFINE D == ToSet(prepared)
             share(r) == Dealt(Taken(free_rows, Total(prepared)), prepared, D)[r]
  <2>1. /\ tree' = LockHits(tree, D)
        /\ \A r \in Reqs :
             IF r \in D
             THEN Began(req'[r], req[r], "running", LockedPath(r), share(r))
             ELSE req'[r] = req[r]
        /\ stage' = "idle"
    BY <1>3 DEF WaveGot
  <2> HIDE DEF share
  <2>2. \A r \in D : LockedPath(r) \in Seq(Nat)
    BY <1>1, <1>2, LockedPathFacts
  <2>3. /\ SameSlots(tree, tree')
        /\ \A q \in DOMAIN tree :
             tree'[q].lock = tree[q].lock + Cardinality({r \in D : q \in PathNodes(LockedPath(r))})
    <3>1. PICK d \in SUBSET Reqs : d = D
      BY <1>2
    <3>2. GoodTree(tree)
      BY <1>1 DEF BaseInv
    <3> QED
      BY <2>1, <2>2, <3>1, <3>2, LockHitsFacts
  <2>4. \A r \in D : req'[r].locked = LockedPath(r)
    BY <1>2, <2>1 DEF Began
  <2>5. \A r \in Reqs \ D : req'[r].locked = req[r].locked
    BY <2>1
  <2>6. ASSUME NEW r \in Reqs
        PROVE  /\ req'[r].hit = req[r].hit /\ req'[r].full = req[r].full
               /\ req'[r].owned = req[r].owned
               /\ req'[r].phase \in Active => req[r].phase \in Active
               /\ Written(req'[r], stage') => Written(req[r], stage)
    <3>1. CASE r \in D
      BY <1>2, <2>1, <3>1 DEF Began, Active, Written
    <3>2. CASE r \notin D
      BY <1>2, <2>1, <3>2 DEF Written
    <3> QED
      BY <3>1, <3>2
  <2>7. D \in SUBSET Reqs /\ \A r \in D : req[r].phase = "matched"
    BY <1>2
  <2> HIDE DEF D
  <2>8. stage' # "warmup" /\ stage \in {"wave", "each"} /\ UNCHANGED <<free, content>>
    BY <1>2, <2>1
  <2> QED
    BY <1>1, <2>3, <2>4, <2>5, <2>6, <2>7, <2>8, KLocking
<1>4. CASE GiveUp(req) /\ UNCHANGED <<free_rows, tree>>
  BY <1>1, <1>2, <1>4, KHas, KGaveUp
<1> QED
  BY <1>2, <1>3, <1>4

LEMMA KInitOne ==
    ASSUME KInv, Premise, InitOne, setup' = setup
    PROVE  KInv'
<1> DEFINE r == Head(prepared)
<1>1. BaseInv /\ BaseInv'
  BY BaseInitOne DEF KInv
<1>2. /\ stage = "each" /\ UNCHANGED <<free, clock, content>>
      /\ r \in Reqs /\ r \in ToSet(prepared) /\ req[r].phase = "matched"
      /\ tree' = Lock(tree, LockedPath(r))
      /\ OneGot(r) \/ OneDropped(r)
  BY <1>1, OneFacts
<1> HIDE DEF r
<1>3. /\ SameSlots(tree, tree')
      /\ \A q \in DOMAIN tree :
           tree'[q].lock = tree[q].lock + (IF q \in PathNodes(LockedPath(r)) THEN 1 ELSE 0)
  <2>1. LockedPath(r) \in Seq(Nat) /\ GoodTree(tree)
    BY <1>1, <1>2, LockedPathFacts DEF BaseInv
  <2> QED
    BY <1>2, <2>1, LockFacts
<1>4. ASSUME NEW q \in DOMAIN tree
      PROVE  tree'[q].lock = tree[q].lock + Cardinality({x \in {r} : q \in PathNodes(LockedPath(x))})
  <2>1. CASE q \in PathNodes(LockedPath(r))
    <3>1. {x \in {r} : q \in PathNodes(LockedPath(x))} = {r}
      BY <2>1
    <3> QED
      BY <1>3, <2>1, <3>1, FS_Singleton
  <2>2. CASE q \notin PathNodes(LockedPath(r))
    <3>1. {x \in {r} : q \in PathNodes(LockedPath(x))} = {}
      BY <2>2
    <3> QED
      BY <1>3, <2>2, <3>1, FS_EmptySet
  <2> QED
    BY <2>1, <2>2
<1>5. /\ req'[r].locked = LockedPath(r)
      /\ req'[r].hit = req[r].hit /\ req'[r].full = req[r].full /\ req'[r].owned = req[r].owned
      /\ \A q \in Reqs : q # r => SameHoldings(req'[q], req[q])
      /\ stage' \in {"idle", "each"}
  <2>1. CASE OneGot(r)
    BY <2>1 DEF OneGot, Began, SameHoldings
  <2>2. CASE OneDropped(r)
    BY <2>2 DEF OneDropped, Began, SameHoldings
  <2> QED
    BY <1>2, <2>1, <2>2
<1>6. ASSUME NEW q \in Reqs
      PROVE  /\ req'[q].phase \in Active => req[q].phase \in Active
             /\ Written(req'[q], stage') => Written(req[q], stage)
  <2>1. CASE q = r
    BY <1>2, <2>1 DEF Active, Written
  <2>2. CASE q # r /\ OneGot(r)
    BY <1>2, <1>5, <2>2 DEF OneGot, Written
  <2>3. CASE q # r /\ OneDropped(r)
    BY <2>3 DEF OneDropped, Written, Active
  <2> QED
    BY <1>2, <2>1, <2>2, <2>3
<1>7. \A q \in Reqs : /\ req'[q].hit = req[q].hit /\ req'[q].full = req[q].full
                      /\ req'[q].owned = req[q].owned
  BY <1>5 DEF SameHoldings
<1>8. \A q \in Reqs \ {r} : req'[q].locked = req[q].locked
  BY <1>5 DEF SameHoldings
<1>9. /\ {r} \in SUBSET Reqs /\ \A x \in {r} : req[x].phase = "matched"
      /\ \A x \in {r} : req'[x].locked = LockedPath(x)
      /\ stage \in {"wave", "each"} /\ stage' # "warmup" /\ UNCHANGED <<free, content>>
  BY <1>2, <1>5
<1>10. PICK D : D = {r}
  OBVIOUS
<1>11. /\ D \in SUBSET Reqs /\ \A x \in D : req[x].phase = "matched"
       /\ \A x \in D : req'[x].locked = LockedPath(x)
       /\ \A q \in Reqs \ D : req'[q].locked = req[q].locked
       /\ \A q \in DOMAIN tree :
            tree'[q].lock = tree[q].lock + Cardinality({x \in D : q \in PathNodes(LockedPath(x))})
  BY <1>4, <1>8, <1>9, <1>10
<1> QED
  BY <1>1, <1>3, <1>6, <1>7, <1>9, <1>11, KLocking
LEMMA ConcatAssoc ==
    ASSUME NEW s \in Seq(Nat), NEW t \in Seq(Nat), NEW u \in Seq(Nat)
    PROVE  (s \o t) \o u = s \o (t \o u)
OBVIOUS

\* A decode step writes only slots that were free, or that nothing used.
LEMMA KDecode ==
    ASSUME KInv, NEW S \in SUBSET In("running"), Decode(S), setup' = setup
    PROVE  KInv'
<1>1. BaseInv /\ BaseInv'
  BY BaseDecode DEF KInv
<1>2. /\ stage = "idle" /\ S \subseteq Reqs
      /\ \A r \in S : req[r].phase = "running"
      /\ \E e : /\ Outcome(e, tree) /\ tree' = e.tree
                /\ free \o e.freed \in Seq(Nat)
                /\ \/ DecodeGot(S, free \o e.freed)
                   \/ DecodeShort(free \o e.freed)
  BY <1>1, DecodeFacts
<1>3. PICK e : /\ Outcome(e, tree) /\ tree' = e.tree
               /\ free \o e.freed \in Seq(Nat)
               /\ \/ DecodeGot(S, free \o e.freed)
                  \/ DecodeShort(free \o e.freed)
  BY <1>2
<1>4. /\ SlotsOK(tree, free, req) /\ LocksOK(tree, req, TRUE) /\ HitsOK(tree, req)
      /\ SizesOK(tree) /\ DOMAIN content = SlotIds /\ ServesOK(tree, content)
      /\ SuffixOK(content, req, stage) /\ free \in Seq(Nat)
      /\ \A r \in Reqs : Typed(req[r]) /\ Sound(req[r], Prompt[r])
      /\ \A r \in Reqs : req[r].phase = "new" => req[r] = NewReq
  BY <1>2, KHas
<1>5. PICK pool \in Seq(Nat) : pool = free \o e.freed
  BY <1>3
<1>6. /\ NoRepeats(pool)
      /\ ToSet(pool) \cap SlotsIn(tree') = {}
      /\ SlotsOK(tree', pool, req) /\ LocksOK(tree', req, TRUE) /\ HitsOK(tree', req)
      /\ SizesOK(tree') /\ ServesOK(tree', content)
  BY <1>3, <1>4, <1>5, EvictedFacts
<1>7. CASE DecodeShort(pool)
  BY <1>1, <1>4, <1>6, <1>7, KGaveUp DEF DecodeShort
<1>8. CASE DecodeGot(S, pool)
  <2> DEFINE n == Total(SetToSeq(S))
             given == Shares(pool, S)
             writes == UNION {StepKV(r, given[r]) : r \in S}
  <2>1. /\ Room(pool, n) /\ free' = Rest(pool, n)
        /\ \A r \in Reqs : IF r \in S THEN Decoded(req'[r], req[r], given[r])
                                      ELSE req'[r] = req[r]
        /\ content' = Store(content, writes) /\ stage' = stage
    BY <1>8 DEF DecodeGot
  <2>2. /\ given \in Lists /\ n \in Nat
        /\ Once(Rest(pool, n), given, {}, ToSet(pool))
        /\ \A r \in Reqs : r \notin S => given[r] = <<>>
    BY <1>2, <1>6, <2>1, SharesFacts, ShareType
  <2>3. \A r \in Reqs : ToSet(given[r]) \subseteq ToSet(pool)
    BY <2>2 DEF Once, Listed
  <2>4. \A w \in writes : w.slot \in ToSet(pool)
    <3> SUFFICES ASSUME NEW r \in S, NEW w \in StepKV(r, given[r]) PROVE w.slot \in ToSet(pool)
      OBVIOUS
    <3>1. w.slot \in ToSet(given[r])
      BY DEF StepKV
    <3> QED
      BY <1>2, <2>3, <3>1
  <2> HIDE DEF n, given, writes
  <2>5. \A s \in SlotIds : s \notin ToSet(pool) => content'[s] = content[s]
    <3> SUFFICES ASSUME NEW s \in SlotIds, s \notin ToSet(pool) PROVE content'[s] = content[s]
      OBVIOUS
    <3>1. \A w \in writes : w.slot # s
      BY <2>4
    <3> QED
      BY <1>4, <2>1, <3>1, StoreKeeps
  <2>6. DOMAIN content' = SlotIds
    BY <1>4, <2>1, StoreDomain
  <2>7. ASSUME NEW r \in Reqs
        PROVE  /\ req'[r].hit = req[r].hit /\ req'[r].full = req[r].full
               /\ req'[r].locked = req[r].locked
               /\ req'[r].owned = req[r].owned \o given[r]
               /\ req'[r].phase \in Active => req[r].phase \in Active
               /\ Written(req'[r], stage') => Written(req[r], stage)
    <3>1. CASE r \in S
      BY <1>2, <2>1, <3>1 DEF Decoded, Active, Written
    <3>2. CASE r \notin S
      <4>1. req[r].owned \o <<>> = req[r].owned
        BY <1>4, RequestLists, EmptyAdded
      <4> QED
        BY <2>1, <2>2, <3>2, <4>1
    <3> QED
      BY <3>1, <3>2
  <2>8. SlotsOK(tree', free', req')
    <3>1. Rest(pool, n) \in Seq(Nat)
      BY <2>1, <2>2, AllocFacts
    <3>2. OwnOf(req) \in Lists /\ \A r \in Reqs : OwnOf(req)[r] = OwnPart(req[r])
      BY <1>4, OwnType
    <3>3. OwnOf(req') \in Lists /\ \A r \in Reqs : OwnOf(req')[r] = OwnPart(req'[r])
      <4>1. \A r \in Reqs : Typed(req'[r])
        BY <1>1 DEF BaseInv, Sound
      <4> QED
        BY <4>1, OwnType
    <3>4. ASSUME NEW r \in Reqs PROVE OwnOf(req')[r] = OwnOf(req)[r] \o given[r]
      <4>1. PICK a \in Seq(Nat) : a = From(req[r].full, req[r].hit + 1)
        BY <1>4, RequestLists
      <4>2. PICK b \in Seq(Nat) : b = req[r].owned
        BY <1>4, RequestLists
      <4>3. PICK d \in Seq(Nat) : d = given[r]
        BY <2>2 DEF Lists
      <4>4. OwnOf(req')[r] = a \o (b \o d)
        BY <2>7, <3>3, <4>1, <4>2, <4>3 DEF OwnPart
      <4>5. OwnOf(req)[r] = a \o b
        BY <3>2, <4>1, <4>2 DEF OwnPart
      <4>6. (a \o b) \o d = a \o (b \o d)
        BY <4>1, <4>2, <4>3, ConcatAssoc
      <4> QED
        BY <4>3, <4>4, <4>5, <4>6
    <3>5. Once(pool, OwnOf(req), SlotsIn(tree'), SlotIds) /\ Distinct(tree')
      BY <1>6 DEF SlotsOK
    <3>6. Once(Rest(pool, n), OwnOf(req'), SlotsIn(tree'), SlotIds)
      BY <2>2, <3>1, <3>2, <3>3, <3>4, <3>5, HandedOut
    <3> QED
      BY <2>1, <3>5, <3>6 DEF SlotsOK
  <2>9. LocksOK(tree', req', TRUE)
    <3>1. \A q : Lockers(req', q) = Lockers(req, q)
      BY <2>7 DEF Lockers
    <3> QED
      BY <1>6, <2>7, <3>1 DEF LocksOK
  <2>10. HitsOK(tree', req')
    BY <1>6, <2>7 DEF HitsOK
  <2>11. ServesOK(tree', content')
    <3> SUFFICES ASSUME NEW q \in DOMAIN tree' PROVE content'[tree'[q].kv] = KV(q, 0)
      BY DEF ServesOK
    <3>1. tree'[q].kv \in SlotsIn(tree')
      BY DEF SlotsIn
    <3>2. SlotsIn(tree') \subseteq SlotIds
      BY <1>4, <1>6, OwnApart
    <3> QED
      BY <1>6, <2>5, <3>1, <3>2 DEF ServesOK
  <2>12. SuffixOK(content', req', stage')
    <3> SUFFICES ASSUME NEW r \in Reqs, Written(req'[r], stage'),
                        NEW i \in req'[r].hit + 1 .. Len(Prompt[r])
                 PROVE  content'[req'[r].full[i]] = KV(Pre(Prompt[r], i), 0)
      BY DEF SuffixOK
    <3>1. Written(req[r], stage) /\ i \in req[r].hit + 1 .. Len(Prompt[r])
      BY <2>7
    <3>2. req[r].phase \in Active /\ Len(req[r].full) = Len(Prompt[r])
      BY <1>4, <3>1 DEF Written, Active, Sound
    <3>3. req[r].full[i] \in ToSet(OwnPart(req[r]))
      BY <1>4, <3>1, <3>2, OwnSuffix
    <3>4. req[r].full[i] \in SlotIds /\ req[r].full[i] \notin ToSet(pool)
      BY <1>4, <1>6, <3>3, OwnApart
    <3> QED
      BY <1>4, <2>5, <2>7, <3>1, <3>4 DEF SuffixOK
  <2>13. stage' # "warmup"
    BY <1>2, <2>1
  <2> QED
    BY <1>1, <1>6, <2>6, <2>8, <2>9, <2>10, <2>11, <2>12, <2>13, KParts
<1> QED
  BY <1>3, <1>5, <1>7, <1>8
\* Two lists that make one without repeats have none, and nothing in common.
LEMMA ConcatApart ==
    ASSUME NEW s \in Seq(Nat), NEW t \in Seq(Nat), NoRepeats(s \o t)
    PROVE  NoRepeats(s) /\ NoRepeats(t) /\ ToSet(s) \cap ToSet(t) = {}
<1>1. PICK n \in Nat : n = Len(s)
  OBVIOUS
<1>2. PICK m \in Nat : m = Len(t)
  OBVIOUS
<1>3. PICK u : u = s \o t
  OBVIOUS
<1>4. /\ Len(u) = n + m
      /\ \A i \in 1 .. n : u[i] = s[i]
      /\ \A k \in 1 .. m : u[n + k] = t[k]
  BY <1>1, <1>2, <1>3, ConcatLen
<1>5. \A i, j \in 1 .. n + m : u[i] = u[j] => i = j
  BY <1>3, <1>4 DEF NoRepeats
<1>6. NoRepeats(s)
  <2>1. \A i \in 1 .. n : i \in 1 .. n + m
    OBVIOUS
  <2> QED
    BY <1>1, <1>4, <1>5, <2>1 DEF NoRepeats
<1>7. \A k \in 1 .. m : n + k \in 1 .. n + m
  OBVIOUS
<1>8. NoRepeats(t)
  <2> SUFFICES ASSUME NEW i \in 1 .. m, NEW j \in 1 .. m, t[i] = t[j] PROVE i = j
    BY <1>2 DEF NoRepeats
  <2>1. n + i = n + j
    BY <1>4, <1>5, <1>7
  <2> QED
    BY <2>1
<1>9. ToSet(s) \cap ToSet(t) = {}
  <2>1. ToSet(s) = {s[i] : i \in 1 .. n} /\ ToSet(t) = {t[i] : i \in 1 .. m}
    BY <1>1, <1>2, Members
  <2>2. ASSUME NEW i \in 1 .. n, NEW k \in 1 .. m PROVE s[i] # t[k]
    <3>1. i \in 1 .. n + m /\ i # n + k
      OBVIOUS
    <3> QED
      BY <1>4, <1>5, <1>7, <3>1
  <2> QED
    BY <2>1, <2>2
<1> QED
  BY <1>6, <1>8, <1>9

\* Two lists with nothing in common make one without repeats.
LEMMA Joined ==
    ASSUME NEW s \in Seq(Nat), NEW t \in Seq(Nat), NoRepeats(s), NoRepeats(t),
           ToSet(s) \cap ToSet(t) = {}
    PROVE  s \o t \in Seq(Nat) /\ NoRepeats(s \o t) /\ ToSet(s \o t) = ToSet(s) \cup ToSet(t)
BY ConcatMembers

\* The nodes on the way to the first h tokens of a path.
LEMMA UptoNodes ==
    ASSUME NEW p \in Seq(Nat), NEW h \in 0 .. Len(p)
    PROVE  Upto(p, h) \in Seq(Nat) /\ PathNodes(Upto(p, h)) = {Pre(p, i) : i \in 1 .. h}
<1>1. Upto(p, h) = Pre(p, h)
  BY DEF Upto, Pre
<1>2. Pre(p, h) \in Seq(Nat) /\ Len(Pre(p, h)) = h
  BY PreFacts
<1>3. \A i \in 1 .. h : Pre(Pre(p, h), i) = Pre(p, i)
  <2>1. \A i \in 1 .. h : i \in 0 .. h
    OBVIOUS
  <2> QED
    BY <2>1, PrePre
<1> QED
  BY <1>1, <1>2, <1>3 DEF PathNodes

\* A request that has locked its hit has it cached, on the slots it was given.
LEMMA LiveHits ==
    ASSUME KInv, NEW r \in Reqs, req[r].phase \in {"running", "finished"}
    PROVE  /\ stage # "warmup"
           /\ Prompt[r] \in Seq(Nat) /\ Len(Prompt[r]) \in Nat
           /\ req[r].hit \in Nat /\ req[r].hit < Len(Prompt[r]) /\ req[r].hit <= MaxIns
           /\ req[r].full \in Seq(Nat) /\ Len(req[r].full) = Len(Prompt[r])
           /\ req[r].locked \in Seq(Nat)
           /\ PathNodes(req[r].locked) = {Pre(Prompt[r], i) : i \in 1 .. req[r].hit}
           /\ \A i \in 1 .. req[r].hit : /\ Pre(Prompt[r], i) \in DOMAIN tree
                                         /\ tree[Pre(Prompt[r], i)].kv = req[r].full[i]
<1>1. stage # "warmup"
  BY DEF KInv, BaseInv, Worker
<1>2. /\ LocksOK(tree, req, TRUE) /\ HitsOK(tree, req)
      /\ setup \in Setups /\ Typed(req[r]) /\ Sound(req[r], Prompt[r])
  BY <1>1, KHas
<1>3. Prompt[r] \in Seq(Nat) /\ Len(Prompt[r]) \in Nat
  BY <1>2, SetupFacts
<1>4. /\ req[r].hit \in Nat /\ req[r].hit < Len(Prompt[r])
      /\ req[r].full \in Seq(Nat) /\ Len(req[r].full) = Len(Prompt[r])
      /\ req[r].locked = Upto(Prompt[r], req[r].hit)
  BY <1>2 DEF Sound, Typed, Request
<1>5. PICK p \in Seq(Nat) : p = Prompt[r]
  BY <1>3
<1>6. PICK h \in 0 .. Len(p) : h = req[r].hit
  BY <1>3, <1>4, <1>5
<1>7. /\ req[r].locked \in Seq(Nat)
      /\ PathNodes(req[r].locked) = {Pre(Prompt[r], i) : i \in 1 .. req[r].hit}
  BY <1>4, <1>5, <1>6, UptoNodes
<1>8. \A i \in 1 .. req[r].hit : Pre(Prompt[r], i) \in DOMAIN tree
  BY <1>2, <1>7 DEF LocksOK
<1>9. /\ req[r].hit <= MaxIns
      /\ \A i \in 1 .. req[r].hit : tree[Pre(Prompt[r], i)].kv = req[r].full[i]
  BY <1>2, <1>8 DEF HitsOK, Active
<1> QED
  BY <1>1, <1>3, <1>4, <1>7, <1>8, <1>9

\* The slots of a prompt are the cached ones of its hit and its own, once each.
LEMMA LiveFull ==
    ASSUME KInv, NEW r \in Reqs, req[r].phase \in {"running", "finished"}
    PROVE  /\ NoRepeats(req[r].full)
           /\ \A i \in 1 .. req[r].hit : req[r].full[i] \in SlotsIn(tree)
           /\ \A i \in req[r].hit + 1 .. Len(Prompt[r]) : req[r].full[i] \in ToSet(OwnPart(req[r]))
<1>1. /\ stage # "warmup"
      /\ req[r].hit \in Nat /\ req[r].hit < Len(Prompt[r]) /\ Len(Prompt[r]) \in Nat
      /\ Prompt[r] \in Seq(Nat)
      /\ req[r].full \in Seq(Nat) /\ Len(req[r].full) = Len(Prompt[r])
      /\ \A i \in 1 .. req[r].hit : /\ Pre(Prompt[r], i) \in DOMAIN tree
                                    /\ tree[Pre(Prompt[r], i)].kv = req[r].full[i]
  BY LiveHits
<1>2. SlotsOK(tree, free, req) /\ free \in Seq(Nat) /\ \A q \in Reqs : Typed(req[q])
  BY <1>1, KHas
<1>3. /\ Distinct(tree) /\ NoRepeats(OwnPart(req[r]))
      /\ ToSet(OwnPart(req[r])) \cap SlotsIn(tree) = {}
  BY <1>2, OwnApart
<1>4. PICK h \in Nat : h = req[r].hit
  BY <1>1
<1>5. PICK f \in Seq(Nat) : f = req[r].full
  BY <1>1
<1>6. PICK n \in Nat : n = Len(f) /\ n = Len(Prompt[r]) /\ h < n
  BY <1>1, <1>4, <1>5
<1>7. /\ \A i \in h + 1 .. n : f[i] \in ToSet(OwnPart(req[r]))
      /\ \A i, j \in h + 1 .. n : f[i] = f[j] => i = j
  <2>1. /\ ToSet(OwnPart(req[r]))
             = {req[r].full[i] : i \in req[r].hit + 1 .. Len(req[r].full)} \cup ToSet(req[r].owned)
        /\ \A i, j \in req[r].hit + 1 .. Len(req[r].full) : req[r].full[i] = req[r].full[j] => i = j
    BY <1>2, <1>3, OwnSuffix
  <2>2. ToSet(OwnPart(req[r])) = {f[i] : i \in h + 1 .. n} \cup ToSet(req[r].owned)
    BY <1>4, <1>5, <1>6, <2>1
  <2>3. \A i, j \in h + 1 .. n : f[i] = f[j] => i = j
    BY <1>4, <1>5, <1>6, <2>1
  <2> QED
    BY <2>2, <2>3
<1>8. \A i \in 1 .. h : f[i] \in SlotsIn(tree)
  BY <1>1, <1>4, <1>5 DEF SlotsIn
<1>9. ASSUME NEW i \in 1 .. h, NEW j \in 1 .. h, f[i] = f[j] PROVE i = j
  <2>1. Pre(Prompt[r], i) = Pre(Prompt[r], j)
    BY <1>1, <1>3, <1>4, <1>5, <1>9 DEF Distinct
  <2>2. i \in 1 .. Len(Prompt[r]) /\ j \in 1 .. Len(Prompt[r])
    BY <1>6
  <2> QED
    BY <1>1, <2>1, <2>2, PathNodesFinite
<1>10. ASSUME NEW i \in 1 .. n, NEW j \in 1 .. n, f[i] = f[j] PROVE i = j
  <2>1. i \in 1 .. h \/ i \in h + 1 .. n
    BY <1>6
  <2>2. j \in 1 .. h \/ j \in h + 1 .. n
    BY <1>6
  <2> QED
    BY <1>3, <1>7, <1>8, <1>9, <1>10, <2>1, <2>2
<1> QED
  BY <1>4, <1>5, <1>6, <1>7, <1>8, <1>10 DEF NoRepeats

\* A completion gives up its own locks and no other's.
LEMMA FinishLocks ==
    ASSUME KInv, NEW r \in Reqs, req[r].phase = "finished",
           NEW rq, rq[r] = DoneReq, \A q \in Reqs : q # r => rq[q] = req[q]
    PROVE  LocksOK(Unlocked(r), rq, TRUE)
<1>1. stage # "warmup" /\ req[r].locked \in Seq(Nat)
  BY LiveHits
<1>2. LocksOK(tree, req, TRUE) /\ GoodTree(tree)
  BY <1>1, KHas
<1>3. /\ DOMAIN Unlocked(r) = DOMAIN tree
      /\ \A q \in DOMAIN tree :
           Unlocked(r)[q].lock = IF q \in PathNodes(req[r].locked) /\ tree[q].lock > 0
                                 THEN tree[q].lock - 1 ELSE tree[q].lock
  <2>1. PICK p \in Seq(Nat) : p = req[r].locked
    BY <1>1
  <2> QED
    BY <1>2, <2>1, UnlockFacts DEF Unlocked, SameSlots
<1>4. PathNodes(rq[r].locked) = {}
  BY DoneReqFacts, NoNodes
<1>5. \A q \in Reqs : PathNodes(rq[q].locked) \subseteq DOMAIN tree
  BY <1>2, <1>4 DEF LocksOK
<1>6. ASSUME NEW q \in DOMAIN tree
      PROVE  Unlocked(r)[q].lock = Cardinality(Lockers(rq, q)) + PinCount(q, TRUE)
  <2>1. Lockers(rq, q) = Lockers(req, q) \ {r}
    BY <1>4 DEF Lockers
  <2>2. IsFiniteSet(Lockers(req, q)) /\ Cardinality(Lockers(req, q)) \in Nat
    BY LockersCount
  <2>3. tree[q].lock = Cardinality(Lockers(req, q)) + PinCount(q, TRUE)
    BY <1>2 DEF LocksOK
  <2>4. PinCount(q, TRUE) \in Nat
    BY DEF PinCount
  <2>5. CASE q \in PathNodes(req[r].locked)
    <3>1. r \in Lockers(req, q)
      BY <2>5 DEF Lockers
    <3>2. Cardinality(Lockers(req, q)) # 0
      BY <3>1, LockersCount
    <3>3. Cardinality(Lockers(rq, q)) = Cardinality(Lockers(req, q)) - 1
      <4>1. PICK A : A = Lockers(req, q) /\ IsFiniteSet(A) /\ r \in A
        BY <2>2, <3>1
      <4>2. Cardinality(A \ {r}) = Cardinality(A) - 1
        BY <4>1, FS_RemoveElement
      <4> QED
        BY <2>1, <4>1, <4>2
    <3>4. PICK x \in Nat : x = Cardinality(Lockers(req, q)) /\ x > 0
      BY <2>2, <3>2
    <3>5. PICK z \in Nat : z = PinCount(q, TRUE)
      BY <2>4
    <3>6. tree[q].lock = x + z /\ x + z > 0
      <4>1. \A a, b \in Nat : a > 0 => a + b > 0
        OBVIOUS
      <4>2. x + z > 0
        BY <3>4, <3>5, <4>1
      <4> QED
        BY <2>3, <3>4, <3>5, <4>2
    <3>7. Unlocked(r)[q].lock = (x + z) - 1
      BY <1>3, <2>5, <3>6
    <3>8. (x + z) - 1 = (x - 1) + z
      <4>1. \A a, b \in Nat : (a + b) - 1 = (a - 1) + b
        OBVIOUS
      <4> QED
        BY <3>4, <3>5, <4>1
    <3>9. Cardinality(Lockers(rq, q)) = x - 1
      BY <3>3, <3>4
    <3> QED
      BY <3>5, <3>7, <3>8, <3>9, Zenon
  <2>6. CASE q \notin PathNodes(req[r].locked)
    <3>1. Lockers(rq, q) = Lockers(req, q)
      BY <2>1, <2>6 DEF Lockers
    <3> QED
      BY <1>3, <2>3, <2>6, <3>1
  <2> QED
    BY <2>5, <2>6
<1> QED
  BY <1>2, <1>3, <1>5, <1>6 DEF LocksOK
\* The tree takes, of the slots of a prompt, exactly those that it lacked; what
\* it does not take is the rest of the request's own.
LEMMA FilledFacts ==
    ASSUME KInv, NEW r \in Reqs, Finish(r), Len(Prompt[r]) >= 2
    PROVE  /\ GoodTree(Filled(r)) /\ Distinct(Filled(r)) /\ SizesOK(Filled(r))
           /\ ServesOK(Filled(r), content)
           /\ NotTaken(Filled(r), r) \in Seq(Nat) /\ NoRepeats(NotTaken(Filled(r), r))
           /\ ToSet(NotTaken(Filled(r), r)) \cap SlotsIn(Filled(r)) = {}
           /\ ToSet(NotTaken(Filled(r), r)) \cap ToSet(req[r].owned) = {}
           /\ ToSet(NotTaken(Filled(r), r)) \subseteq ToSet(OwnPart(req[r]))
           /\ SlotsIn(Filled(r)) \cap (ToSet(free) \cup ToSet(req[r].owned)) = {}
           /\ SlotsIn(Filled(r)) \cup ToSet(NotTaken(Filled(r), r)) \cup ToSet(req[r].owned)
                = SlotsIn(tree) \cup ToSet(OwnPart(req[r]))
<1> DEFINE p == Prompt[r]
           f == req[r].full
           t == Filled(r)
           new == {i \in 1 .. Len(Inserted(p)) : Pre(p, i) \notin DOMAIN tree}
           rest == NotTaken(t, r)
           own == ToSet(OwnPart(req[r]))
<1>1. BaseInv /\ stage = "idle" /\ req[r].phase = "finished"
  BY FinishFacts DEF KInv
<1>2. /\ SlotsOK(tree, free, req) /\ SizesOK(tree) /\ ServesOK(tree, content)
      /\ SuffixOK(content, req, stage) /\ free \in Seq(Nat)
      /\ \A q \in Reqs : Typed(req[q])
  BY <1>1, KHas
<1>3. /\ p \in Seq(Nat) /\ f \in Seq(Nat) /\ Len(f) = Len(p)
      /\ \A i \in 1 .. req[r].hit : Pre(p, i) \in DOMAIN tree /\ tree[Pre(p, i)].kv = f[i]
  BY <1>1, LiveHits
<1>4. PICK h \in Nat : h = req[r].hit /\ h < Len(p) /\ h <= MaxIns
  BY <1>1, LiveHits
<1>5. /\ NoRepeats(f)
      /\ \A i \in h + 1 .. Len(p) : f[i] \in own
  BY <1>1, <1>4, LiveFull
<1>6. PICK n \in Nat : n = Len(p) /\ n = Len(f) /\ n >= 2
  BY <1>3
<1>7. PICK m \in 1 .. n - 1 : m = Len(Inserted(p)) /\ m = Lesser(n - 1, MaxIns)
  BY <1>1, <1>6, NotTakenFacts
<1>8. /\ \A i \in 1 .. m : Pre(Inserted(p), i) = Pre(p, i)
      /\ PathNodes(Inserted(p)) = {Pre(p, i) : i \in 1 .. m}
      /\ rest \in Seq(Nat)
      /\ ToSet(rest) = {f[i] : i \in {j \in 1 .. n : j > m \/ f[j] # t[Pre(p, j)].kv}}
      /\ NoRepeats(rest)
  <2>1. PICK u : u = Filled(r)
    OBVIOUS
  <2>2. /\ \A i \in 1 .. m : Pre(Inserted(p), i) = Pre(p, i)
        /\ PathNodes(Inserted(p)) = {Pre(p, i) : i \in 1 .. m}
        /\ NotTaken(u, r) \in Seq(Nat)
        /\ ToSet(NotTaken(u, r)) = {f[i] : i \in {j \in 1 .. n : j > m \/ f[j] # u[Pre(p, j)].kv}}
        /\ NoRepeats(NotTaken(u, r))
    <3>1. /\ \A i \in 1 .. Len(Inserted(p)) : Pre(Inserted(p), i) = Pre(p, i)
          /\ PathNodes(Inserted(p)) = {Pre(p, i) : i \in 1 .. Len(Inserted(p))}
          /\ NotTaken(u, r) \in Seq(Nat)
          /\ ToSet(NotTaken(u, r))
               = {f[i] : i \in {j \in 1 .. Len(p) : \/ j > Len(Inserted(p))
                                                  \/ f[j] # u[Pre(p, j)].kv}}
          /\ NoRepeats(NotTaken(u, r))
      BY <1>1, <1>5, <1>6, NotTakenFacts
    <3> QED
      BY <1>6, <1>7, <3>1
  <2> QED
    BY <2>1, <2>2
<1>9. /\ GoodTree(t)
      /\ DOMAIN t = DOMAIN tree \cup PathNodes(Inserted(p))
      /\ \A q \in DOMAIN tree : t[q].kv = tree[q].kv
      /\ \A q \in PathNodes(Inserted(p)) \ DOMAIN tree : t[q].kv = f[Len(q)]
  BY <1>1, FinishFacts
<1>10. \A i \in 1 .. n : Pre(p, i) \in PathNodes(p) /\ Len(Pre(p, i)) = i
  BY <1>3, <1>6, PathNodesFinite
<1>11. /\ h <= m /\ m < n /\ m <= MaxIns /\ MaxIns \in Nat /\ \A i \in 1 .. m : i \in 1 .. n
  BY <1>4, <1>6, <1>7, ParametersAssumption DEF Lesser
<1>12. /\ Distinct(tree) /\ own \cap SlotsIn(tree) = {} /\ own \cap ToSet(free) = {}
       /\ ToSet(free) \cap SlotsIn(tree) = {}
       /\ NoRepeats(OwnPart(req[r]))
       /\ own = {f[i] : i \in h + 1 .. n} \cup ToSet(req[r].owned)
       /\ \A i \in h + 1 .. n : f[i] \notin ToSet(req[r].owned)
  <2>1. /\ Distinct(tree) /\ own \cap SlotsIn(tree) = {} /\ own \cap ToSet(free) = {}
        /\ ToSet(free) \cap SlotsIn(tree) = {}
        /\ NoRepeats(OwnPart(req[r]))
    BY <1>2, OwnApart
  <2>2. own = {f[i] : i \in h + 1 .. n} \cup ToSet(req[r].owned)
    BY <1>2, <1>4, <1>6, OwnSuffix
  <2>3. ToSet(From(f, req[r].hit + 1)) \cap ToSet(req[r].owned) = {}
    BY <1>2, <2>1, RequestLists, ConcatApart DEF OwnPart
  <2>4. ToSet(From(f, req[r].hit + 1)) = {f[i] : i \in h + 1 .. n}
    <3>1. PICK a \in Nat \ {0} : a = h + 1
      BY <1>4
    <3>2. PICK g \in Seq(Nat) : g = f
      BY <1>3
    <3>3. PICK b \in Nat : b = n /\ b <= Len(g)
      BY <1>6, <3>2
    <3>6. a \in Nat \ {0} /\ b \in Nat /\ b <= Len(g) /\ g \in Seq(Nat)
      BY <3>1, <3>2, <3>3
    <3>4. ToSet(SubSeq(g, a, b)) = {g[i] : i \in a .. b}
      BY <3>6, SliceMembers
    <3>5. From(f, req[r].hit + 1) = SubSeq(g, a, b)
      BY <1>4, <1>6, <3>1, <3>2, <3>3 DEF From
    <3> QED
      BY <3>1, <3>2, <3>3, <3>4, <3>5
  <2> QED
    BY <2>1, <2>2, <2>3, <2>4
<1> HIDE DEF p, f, t, rest, own, new
<1>13. /\ new \subseteq h + 1 .. m
       /\ \A i \in new : Pre(p, i) \in DOMAIN t \ DOMAIN tree /\ t[Pre(p, i)].kv = f[i]
       /\ \A q \in DOMAIN t \ DOMAIN tree : \E i \in new : q = Pre(p, i)
  <2>1. new = {i \in 1 .. m : Pre(p, i) \notin DOMAIN tree}
    BY <1>7 DEF new
  <2>2. new \subseteq h + 1 .. m
    BY <1>3, <1>4, <2>1
  <2>3. \A i \in new : Pre(p, i) \in PathNodes(Inserted(p)) \ DOMAIN tree
    BY <1>8, <2>1
  <2>4. \A i \in new : Len(Pre(p, i)) = i
    BY <1>10, <1>11, <2>1
  <2> QED
    BY <1>8, <1>9, <2>1, <2>2, <2>3, <2>4
<1>14. \A i, j \in 1 .. n : f[i] = f[j] => i = j
  BY <1>5, <1>6 DEF NoRepeats
<1>15. SlotsIn(t) = SlotsIn(tree) \cup {f[i] : i \in new}
  <2>1. ASSUME NEW q \in DOMAIN t PROVE t[q].kv \in SlotsIn(tree) \cup {f[i] : i \in new}
    BY <1>9, <1>13 DEF SlotsIn
  <2>2. SlotsIn(tree) \subseteq SlotsIn(t)
    BY <1>9 DEF SlotsIn
  <2>3. \A i \in new : f[i] \in SlotsIn(t)
    BY <1>13 DEF SlotsIn
  <2>4. \A s \in SlotsIn(t) : s \in SlotsIn(tree) \cup {f[i] : i \in new}
    BY <2>1 DEF SlotsIn
  <2> QED
    BY <2>2, <2>3, <2>4
<1>16. \A i \in new : i \in h + 1 .. n /\ f[i] \in own /\ f[i] \notin SlotsIn(tree)
  <2> SUFFICES ASSUME NEW i \in new
               PROVE  i \in h + 1 .. n /\ f[i] \in own /\ f[i] \notin SlotsIn(tree)
    OBVIOUS
  <2>1. i \in h + 1 .. m
    BY <1>13
  <2>2. i \in h + 1 .. n
    BY <1>4, <1>6, <1>7, <1>11, <2>1
  <2>3. f[i] \in own
    BY <1>5, <1>6, <2>2
  <2> QED
    BY <1>12, <2>2, <2>3
<1>17. Distinct(t)
  <2> SUFFICES ASSUME NEW q \in DOMAIN t, NEW u \in DOMAIN t, t[q].kv = t[u].kv PROVE q = u
    BY DEF Distinct
  <2>1. CASE q \in DOMAIN tree /\ u \in DOMAIN tree
    BY <1>9, <1>12, <2>1 DEF Distinct
  <2>2. CASE q \notin DOMAIN tree /\ u \notin DOMAIN tree
    <3>1. PICK i \in new : q = Pre(p, i)
      BY <1>13, <2>2
    <3>2. PICK j \in new : u = Pre(p, j)
      BY <1>13, <2>2
    <3>3. f[i] = f[j] /\ i \in 1 .. n /\ j \in 1 .. n
      BY <1>11, <1>13, <1>16, <3>1, <3>2
    <3> QED
      BY <1>14, <3>1, <3>2, <3>3
  <2>3. ASSUME NEW v \in DOMAIN tree, NEW w \in DOMAIN t \ DOMAIN tree PROVE t[v].kv # t[w].kv
    <3>1. t[v].kv \in SlotsIn(tree)
      BY <1>9 DEF SlotsIn
    <3>2. PICK j \in new : w = Pre(p, j)
      BY <1>13
    <3> QED
      BY <1>13, <1>16, <3>1, <3>2
  <2> QED
    BY <2>1, <2>2, <2>3
<1>18. ToSet(rest) = {f[i] : i \in (h + 1 .. n) \ new}
  <2> DEFINE left == {j \in 1 .. n : j > m \/ f[j] # t[Pre(p, j)].kv}
  <2>1. ASSUME NEW j \in 1 .. n PROVE j \in left <=> j \in (h + 1 .. n) \ new
    <3>1. CASE j \in 1 .. h
      <4>1. j <= m /\ Pre(p, j) \in DOMAIN tree /\ tree[Pre(p, j)].kv = f[j]
        BY <1>3, <1>4, <1>11, <3>1
      <4>2. f[j] = t[Pre(p, j)].kv
        BY <1>9, <4>1
      <4> QED
        BY <1>11, <3>1, <4>1, <4>2
    <3>2. CASE j \in new
      <4>1. j <= m /\ t[Pre(p, j)].kv = f[j]
        BY <1>13, <3>2
      <4> QED
        BY <1>11, <3>2, <4>1
    <3>3. CASE j \in (h + 1 .. m) \ new
      <4>1. Pre(p, j) \in DOMAIN tree
        BY <1>7, <3>3 DEF new
      <4>2. t[Pre(p, j)].kv \in SlotsIn(tree)
        BY <1>9, <4>1 DEF SlotsIn
      <4>3. f[j] \in own
        BY <1>5, <1>6, <1>11, <3>3
      <4>4. f[j] # t[Pre(p, j)].kv
        BY <1>12, <4>2, <4>3
      <4> QED
        BY <1>11, <3>3, <4>4
    <3>4. CASE j > m
      BY <1>11, <1>13, <3>4
    <3> QED
      BY <1>11, <3>1, <3>2, <3>3, <3>4
  <2>2. left \subseteq 1 .. n /\ (h + 1 .. n) \ new \subseteq 1 .. n
    OBVIOUS
  <2>3. ToSet(rest) = {f[i] : i \in left}
    BY <1>8
  <2> HIDE DEF left
  <2>4. left = (h + 1 .. n) \ new
    BY <2>1, <2>2
  <2> QED
    BY <2>3, <2>4
<1>19. SizesOK(t)
  <2> SUFFICES ASSUME NEW q \in DOMAIN t PROVE Len(q) <= MaxIns
    BY DEF SizesOK
  <2>1. CASE q \in DOMAIN tree
    BY <1>2, <2>1 DEF SizesOK
  <2>2. CASE q \notin DOMAIN tree
    <3>1. PICK i \in new : q = Pre(p, i)
      BY <1>13, <2>2
    <3>2. i \in h + 1 .. m /\ i \in 1 .. n
      BY <1>11, <1>13
    <3> QED
      BY <1>10, <1>11, <3>1, <3>2
  <2> QED
    BY <2>1, <2>2
<1>20. ServesOK(t, content)
  <2> SUFFICES ASSUME NEW q \in DOMAIN t PROVE content[t[q].kv] = KV(q, 0)
    BY DEF ServesOK
  <2>1. CASE q \in DOMAIN tree
    BY <1>2, <1>9, <2>1 DEF ServesOK
  <2>2. CASE q \notin DOMAIN tree
    <3>1. PICK i \in new : q = Pre(p, i)
      BY <1>13, <2>2
    <3>2. t[q].kv = f[i] /\ i \in h + 1 .. n
      BY <1>13, <1>16, <3>1
    <3>3. Written(req[r], stage)
      BY <1>1 DEF Written
    <3>4. content[f[i]] = KV(Pre(p, i), 0)
      BY <1>2, <1>4, <1>6, <3>2, <3>3 DEF SuffixOK, p, f
    <3> QED
      BY <3>1, <3>2, <3>4
  <2> QED
    BY <2>1, <2>2
<1>21. ToSet(rest) \cap SlotsIn(t) = {}
  <2>1. ASSUME NEW i \in (h + 1 .. n) \ new PROVE f[i] \notin SlotsIn(t)
    <3>1. f[i] \notin SlotsIn(tree)
      BY <1>5, <1>6, <1>12
    <3>2. \A j \in new : f[i] # f[j]
      <4>1. \A j \in new : j \in 1 .. n /\ j # i
        BY <1>16
      <4>2. i \in 1 .. n
        OBVIOUS
      <4> QED
        BY <1>14, <4>1, <4>2
    <3> QED
      BY <1>15, <3>1, <3>2
  <2> QED
    BY <1>18, <2>1
<1>22. ToSet(rest) \subseteq own /\ ToSet(rest) \cap ToSet(req[r].owned) = {}
  BY <1>12, <1>18
<1>23. SlotsIn(t) \cap (ToSet(free) \cup ToSet(req[r].owned)) = {}
  <2>1. SlotsIn(tree) \cap ToSet(req[r].owned) = {}
    BY <1>12
  <2>2. \A i \in new : f[i] \notin ToSet(req[r].owned) /\ f[i] \notin ToSet(free)
    BY <1>12, <1>16
  <2> QED
    BY <1>12, <1>15, <2>1, <2>2
<1>24. SlotsIn(t) \cup ToSet(rest) \cup ToSet(req[r].owned) = SlotsIn(tree) \cup own
  <2>1. {f[i] : i \in new} \cup {f[i] : i \in (h + 1 .. n) \ new} = {f[i] : i \in h + 1 .. n}
    BY <1>16
  <2> QED
    BY <1>12, <1>15, <1>18, <2>1
<1> QED
  BY <1>8, <1>9, <1>17, <1>19, <1>20, <1>21, <1>22, <1>23, <1>24 DEF t, rest, own
\* A completion changes nothing of the other requests.
LEMMA FinishOthers ==
    ASSUME KInv, NEW r \in Reqs, Finish(r)
    PROVE  /\ stage = "idle" /\ stage' = "idle" /\ content' = content
           /\ req[r].phase = "finished"
           /\ req'[r] = DoneReq /\ \A q \in Reqs : q # r => req'[q] = req[q]
           /\ \A q \in Reqs : req'[q].phase \in Active =>
                 q # r /\ req[q].phase \in {"running", "finished"}
           /\ OwnOf(req) \in Lists /\ OwnOf(req') \in Lists
           /\ OwnOf(req)[r] = OwnPart(req[r])
           /\ OwnOf(req')[r] = <<>> /\ \A q \in Reqs : q # r => OwnOf(req')[q] = OwnOf(req)[q]
           /\ \A q \in Reqs : Typed(req'[q])
<1>1. BaseInv
  BY DEF KInv
<1>2. /\ stage = "idle" /\ stage' = stage /\ req[r].phase = "finished" /\ content' = content
      /\ req' = With(r, DoneReq)
  BY <1>1, FinishFacts
<1>3. req'[r] = DoneReq /\ \A q \in Reqs : q # r => req'[q] = req[q]
  BY <1>1, <1>2, WithFacts
<1>4. \A q \in Reqs : req[q].phase # "matched"
  <2>1. prepared = <<>>
    BY <1>1, <1>2 DEF BaseInv, Worker
  <2> QED
    BY <1>1, <2>1, EmptyList DEF BaseInv, Worker
<1>5. \A q \in Reqs : req'[q].phase \in Active =>
         q # r /\ req[q].phase \in {"running", "finished"}
  BY <1>3, <1>4, DoneReqFacts DEF Active
<1>6. \A q \in Reqs : Typed(req[q])
  BY <1>2, KHas
<1>7. Typed(DoneReq)
  BY DoneReqFacts DEF Sound
<1>8. \A q \in Reqs : Typed(req'[q])
  BY <1>3, <1>6, <1>7
<1>9. OwnOf(req) \in Lists /\ \A q \in Reqs : OwnOf(req)[q] = OwnPart(req[q])
  BY <1>6, OwnType
<1>10. OwnOf(req') \in Lists /\ \A q \in Reqs : OwnOf(req')[q] = OwnPart(req'[q])
  BY <1>8, OwnType
<1>11. OwnPart(DoneReq) = <<>>
  BY DoneReqFacts, NewReqFacts, NewHoldsNothing DEF OwnPart
<1> QED
  BY <1>2, <1>3, <1>5, <1>8, <1>9, <1>10, <1>11

\* A one-token prompt gives back everything it has.
LEMMA KFinishShort ==
    ASSUME KInv, NEW r \in Reqs, Finish(r), FinishShort(r), setup' = setup, BaseInv'
    PROVE  KInv'
<1>1. /\ stage = "idle" /\ stage' = "idle" /\ content' = content
      /\ req[r].phase = "finished"
      /\ req'[r] = DoneReq /\ \A q \in Reqs : q # r => req'[q] = req[q]
      /\ \A q \in Reqs : req'[q].phase \in Active =>
            q # r /\ req[q].phase \in {"running", "finished"}
      /\ OwnOf(req) \in Lists /\ OwnOf(req') \in Lists
      /\ OwnOf(req)[r] = OwnPart(req[r])
      /\ OwnOf(req')[r] = <<>> /\ \A q \in Reqs : q # r => OwnOf(req')[q] = OwnOf(req)[q]
  BY FinishOthers
<1>2. /\ SlotsOK(tree, free, req) /\ LocksOK(tree, req, TRUE) /\ HitsOK(tree, req)
      /\ SizesOK(tree) /\ DOMAIN content = SlotIds /\ ServesOK(tree, content)
      /\ SuffixOK(content, req, stage) /\ free \in Seq(Nat)
      /\ \A q \in Reqs : Typed(req[q])
  BY <1>1, KHas
<1>3. Len(Prompt[r]) = 1 /\ free' = free \o req[r].owned \o req[r].full /\ tree' = tree
  BY DEF FinishShort
<1>4. PICK a \in Seq(Nat) : a = req[r].owned
  BY <1>2, RequestLists
<1>5. PICK f \in Seq(Nat) : f = req[r].full /\ NoRepeats(f) /\ Len(f) = 1
  BY <1>1, <1>3, LiveHits, LiveFull
<1>6. req[r].hit = 0
  <2>1. req[r].hit \in Nat /\ req[r].hit < Len(Prompt[r])
    BY <1>1, LiveHits
  <2>2. \A h \in Nat : h < 1 => h = 0
    OBVIOUS
  <2> QED
    BY <1>3, <2>1, <2>2
<1>7. SubSeq(f, 1, Len(f)) = f
  BY <1>5
<1>8. OwnPart(req[r]) = f \o a
  <2>1. req[r].hit + 1 = 1
    BY <1>6
  <2>2. From(req[r].full, req[r].hit + 1) = f
    BY <1>5, <1>7, <2>1 DEF From
  <2> QED
    BY <1>4, <2>2 DEF OwnPart
<1>9. /\ NoRepeats(f \o a) /\ NoRepeats(free)
      /\ ToSet(f \o a) \cap ToSet(free) = {} /\ ToSet(f \o a) \cap SlotsIn(tree) = {}
      /\ ToSet(free) \cap SlotsIn(tree) = {}
  BY <1>2, <1>8, OwnApart
<1>10. /\ ToSet(f \o a) = ToSet(f) \cup ToSet(a)
       /\ NoRepeats(f) /\ NoRepeats(a) /\ ToSet(f) \cap ToSet(a) = {}
  BY <1>9, ConcatMembers, ConcatApart
<1>11. /\ free \o a \in Seq(Nat) /\ NoRepeats(free \o a)
       /\ ToSet(free \o a) = ToSet(free) \cup ToSet(a)
  BY <1>2, <1>9, <1>10, ConcatMembers
<1>12. /\ free' \in Seq(Nat) /\ NoRepeats(free')
       /\ ToSet(free') = ToSet(free) \cup ToSet(f \o a)
  <2>1. PICK b \in Seq(Nat) : b = free \o a
    BY <1>11
  <2>2. ToSet(b) \cap ToSet(f) = {}
    BY <1>9, <1>10, <1>11, <2>1
  <2>3. b \o f \in Seq(Nat) /\ NoRepeats(b \o f) /\ ToSet(b \o f) = ToSet(b) \cup ToSet(f)
    BY <1>5, <1>10, <1>11, <2>1, <2>2, Joined
  <2> QED
    BY <1>3, <1>4, <1>5, <1>10, <1>11, <2>1, <2>3
<1>13. SlotsOK(tree', free', req')
  <2>1. Once(free, OwnOf(req), SlotsIn(tree), SlotIds) /\ Distinct(tree)
    BY <1>2 DEF SlotsOK
  <2>2. ToSet(free') \cap SlotsIn(tree) = {}
    BY <1>9, <1>12
  <2>3. ToSet(free') \cup SlotsIn(tree) = ToSet(free) \cup SlotsIn(tree) \cup ToSet(OwnOf(req)[r])
    BY <1>1, <1>8, <1>12
  <2>4. PICK l \in Lists : l = OwnOf(req)
    BY <1>1
  <2>5. PICK k \in Lists : k = OwnOf(req')
    BY <1>1
  <2>6. PICK pool \in Seq(Nat) : pool = free' /\ NoRepeats(pool)
    BY <1>12
  <2>7. k[r] = <<>> /\ \A q \in Reqs : q # r => k[q] = l[q]
    BY <1>1, <2>4, <2>5
  <2>8. Once(free, l, SlotsIn(tree), SlotIds)
    BY <2>1, <2>4
  <2>9. ToSet(pool) \cup SlotsIn(tree) = ToSet(free) \cup SlotsIn(tree) \cup ToSet(l[r])
    BY <2>3, <2>4, <2>6
  <2>10. ToSet(pool) \cap SlotsIn(tree) = {}
    BY <2>2, <2>6
  <2>11. Once(pool, k, SlotsIn(tree), SlotIds)
    <3>1. PICK o, all : o = SlotsIn(tree) /\ all = SlotIds
      OBVIOUS
    <3>2. PICK fr \in Seq(Nat) : fr = free
      BY <1>2
    <3>3. /\ Once(fr, l, o, all) /\ ToSet(pool) \cap o = {} /\ NoRepeats(pool)
          /\ ToSet(pool) \cup o = ToSet(fr) \cup o \cup ToSet(l[r])
      BY <2>6, <2>8, <2>9, <2>10, <3>1, <3>2
    <3>4. l \in Lists /\ k \in Lists /\ pool \in Seq(Nat) /\ fr \in Seq(Nat)
      BY <2>4, <2>5, <2>6, <3>2
    <3>5. Once(pool, k, o, all)
      BY <2>7, <3>3, <3>4, TakenBack
    <3> QED
      BY <3>1, <3>5
  <2> QED
    BY <1>3, <2>1, <2>5, <2>6, <2>11 DEF SlotsOK
<1>14. LocksOK(tree', req', TRUE)
  <2>1. PathNodes(req[r].locked) = {}
    <3>1. PathNodes(req[r].locked) = {Pre(Prompt[r], i) : i \in 1 .. req[r].hit}
      BY <1>1, LiveHits
    <3>2. 1 .. req[r].hit = {}
      BY <1>6
    <3> QED
      BY <3>1, <3>2
  <2>2. PathNodes(req'[r].locked) = {}
    BY <1>1, DoneReqFacts, NoNodes
  <2>3. \A q \in Reqs : PathNodes(req'[q].locked) = PathNodes(req[q].locked)
    BY <1>1, <2>1, <2>2
  <2>4. \A q : Lockers(req', q) = Lockers(req, q)
    BY <2>3 DEF Lockers
  <2> QED
    BY <1>2, <1>3, <2>3, <2>4 DEF LocksOK
<1>15. HitsOK(tree', req')
  <2> SUFFICES ASSUME NEW q \in Reqs, req'[q].phase \in Active
               PROVE  /\ req'[q].hit <= MaxIns
                      /\ \A i \in 1 .. req'[q].hit :
                           Pre(Prompt[q], i) \in DOMAIN tree
                             => tree[Pre(Prompt[q], i)].kv = req'[q].full[i]
    BY <1>3 DEF HitsOK
  <2>1. req'[q] = req[q] /\ req[q].phase \in Active
    BY <1>1 DEF Active
  <2> QED
    BY <1>2, <2>1 DEF HitsOK
<1>16. SuffixOK(content', req', stage')
  <2>1. \A q \in Reqs : Written(req'[q], stage') => q # r /\ Written(req[q], stage)
    BY <1>1 DEF Written, Active
  <2> QED
    BY <1>1, <1>2, <2>1 DEF SuffixOK
<1> QED
  BY <1>1, <1>2, <1>3, <1>13, <1>14, <1>15, <1>16, KParts

\* Any other leaves in the tree what the tree took and gives back the rest.
LEMMA KFinishLong ==
    ASSUME KInv, NEW r \in Reqs, Finish(r), NEW e, FinishLong(r, e), setup' = setup, BaseInv'
    PROVE  KInv'
<1>1. /\ stage = "idle" /\ stage' = "idle" /\ content' = content
      /\ req[r].phase = "finished"
      /\ req'[r] = DoneReq /\ \A q \in Reqs : q # r => req'[q] = req[q]
      /\ \A q \in Reqs : req'[q].phase \in Active =>
            q # r /\ req[q].phase \in {"running", "finished"}
      /\ OwnOf(req) \in Lists /\ OwnOf(req') \in Lists
      /\ OwnOf(req)[r] = OwnPart(req[r])
      /\ OwnOf(req')[r] = <<>> /\ \A q \in Reqs : q # r => OwnOf(req')[q] = OwnOf(req)[q]
      /\ \A q \in Reqs : Typed(req'[q])
  BY FinishOthers
<1>2. /\ SlotsOK(tree, free, req) /\ LocksOK(tree, req, TRUE) /\ HitsOK(tree, req)
      /\ DOMAIN content = SlotIds /\ SuffixOK(content, req, stage) /\ free \in Seq(Nat)
      /\ \A q \in Reqs : Typed(req[q])
  BY <1>1, KHas
<1>3. PICK t : t = Filled(r)
  OBVIOUS
<1>4. PICK rest : rest = NotTaken(t, r)
  OBVIOUS
<1>5. /\ Len(Prompt[r]) >= 2 /\ Outcome(e, t) /\ tree' = e.tree
      /\ free' = free \o req[r].owned \o e.freed \o rest
  BY <1>3, <1>4 DEF FinishLong
<1>6. /\ GoodTree(t) /\ Distinct(t) /\ SizesOK(t) /\ ServesOK(t, content)
      /\ rest \in Seq(Nat) /\ NoRepeats(rest)
      /\ ToSet(rest) \cap SlotsIn(t) = {}
      /\ ToSet(rest) \cap ToSet(req[r].owned) = {}
      /\ ToSet(rest) \subseteq ToSet(OwnPart(req[r]))
      /\ SlotsIn(t) \cap (ToSet(free) \cup ToSet(req[r].owned)) = {}
      /\ SlotsIn(t) \cup ToSet(rest) \cup ToSet(req[r].owned)
           = SlotsIn(tree) \cup ToSet(OwnPart(req[r]))
  BY <1>3, <1>4, <1>5, FilledFacts
<1>7. /\ DOMAIN tree \subseteq DOMAIN t
      /\ \A q \in DOMAIN tree : t[q].kv = tree[q].kv /\ t[q].lock = Unlocked(r)[q].lock
      /\ \A q \in DOMAIN t \ DOMAIN tree : t[q].lock = 0
      /\ DOMAIN Unlocked(r) = DOMAIN tree
  BY <1>3, <1>5, FinishFacts DEF KInv, SameSlots
<1>8. /\ NoRepeats(OwnPart(req[r])) /\ NoRepeats(free)
      /\ ToSet(OwnPart(req[r])) \cap ToSet(free) = {}
  BY <1>2, OwnApart
<1>9. PICK a \in Seq(Nat) : a = req[r].owned
  BY <1>2, RequestLists
<1>10. NoRepeats(a) /\ ToSet(a) \subseteq ToSet(OwnPart(req[r]))
  BY <1>2, <1>8, <1>9, RequestLists, ConcatApart, ConcatMembers DEF OwnPart
<1>11. PICK fr \in Seq(Nat) : /\ fr = (free \o a) \o rest /\ NoRepeats(fr)
                              /\ ToSet(fr) = ToSet(free) \cup ToSet(a) \cup ToSet(rest)
  <2>1. PICK b \in Seq(Nat) : b = free \o a /\ NoRepeats(b) /\ ToSet(b) = ToSet(free) \cup ToSet(a)
    BY <1>2, <1>8, <1>10, ConcatMembers
  <2>2. ToSet(b) \cap ToSet(rest) = {}
    BY <1>6, <1>8, <1>9, <2>1
  <2>3. b \o rest \in Seq(Nat) /\ NoRepeats(b \o rest) /\ ToSet(b \o rest) = ToSet(b) \cup ToSet(rest)
    BY <1>6, <2>1, <2>2, Joined
  <2> QED
    BY <2>1, <2>3
<1>12. SlotsOK(t, fr, req')
  <2>1. Once(free, OwnOf(req), SlotsIn(tree), SlotIds)
    BY <1>2 DEF SlotsOK
  <2>2. ToSet(fr) \cap SlotsIn(t) = {}
    BY <1>6, <1>9, <1>11
  <2>3. ToSet(fr) \cup SlotsIn(t) = ToSet(free) \cup SlotsIn(tree) \cup ToSet(OwnOf(req)[r])
    BY <1>1, <1>6, <1>9, <1>11
  <2>4. PICK l \in Lists : l = OwnOf(req)
    BY <1>1
  <2>5. PICK k \in Lists : k = OwnOf(req')
    BY <1>1
  <2>6. k[r] = <<>> /\ \A q \in Reqs : q # r => k[q] = l[q]
    BY <1>1, <2>4, <2>5
  <2>7. Once(free, l, SlotsIn(tree), SlotIds)
    BY <2>1, <2>4
  <2>8. ToSet(fr) \cup SlotsIn(t) = ToSet(free) \cup SlotsIn(tree) \cup ToSet(l[r])
    BY <2>3, <2>4
  <2>9. NoRepeats(fr)
    BY <1>11
  <2>10. Once(fr, k, SlotsIn(t), SlotIds)
    <3>1. PICK o, o2, all : o = SlotsIn(tree) /\ o2 = SlotsIn(t) /\ all = SlotIds
      OBVIOUS
    <3>2. PICK pool \in Seq(Nat) : pool = free
      BY <1>2
    <3>3. /\ Once(pool, l, o, all) /\ ToSet(fr) \cap o2 = {} /\ NoRepeats(fr)
          /\ ToSet(fr) \cup o2 = ToSet(pool) \cup o \cup ToSet(l[r])
      BY <2>2, <2>7, <2>8, <2>9, <3>1, <3>2
    <3>4. l \in Lists /\ k \in Lists /\ pool \in Seq(Nat) /\ fr \in Seq(Nat)
      BY <1>11, <2>4, <2>5, <3>2
    <3>5. Once(fr, k, o2, all)
      BY <2>6, <3>3, <3>4, TakenBack
    <3> QED
      BY <3>1, <3>5
  <2> QED
    BY <1>6, <2>5, <2>10 DEF SlotsOK
<1>13. LocksOK(t, req', TRUE)
  <2>1. LocksOK(Unlocked(r), req', TRUE)
    BY <1>1, FinishLocks
  <2>2. \A q \in Reqs : PathNodes(req'[q].locked) \subseteq DOMAIN tree
    BY <1>7, <2>1 DEF LocksOK
  <2>3. Pins(TRUE) => PathNodes(Pinned) \subseteq DOMAIN tree
    BY <1>7, <2>1 DEF LocksOK
  <2>4. ASSUME NEW q \in DOMAIN t \ DOMAIN tree
        PROVE  t[q].lock = Cardinality(Lockers(req', q)) + PinCount(q, TRUE)
    <3>1. Lockers(req', q) = {}
      BY <2>2 DEF Lockers
    <3>2. PinCount(q, TRUE) = 0
      BY <2>3 DEF PinCount
    <3>3. Cardinality(Lockers(req', q)) = 0
      BY <3>1, FS_EmptySet
    <3>4. t[q].lock = 0
      BY <1>7
    <3>5. 0 = 0 + 0
      OBVIOUS
    <3> QED
      BY <3>2, <3>3, <3>4, <3>5, Zenon
  <2>5. ASSUME NEW q \in DOMAIN tree
        PROVE  t[q].lock = Cardinality(Lockers(req', q)) + PinCount(q, TRUE)
    BY <1>7, <2>1 DEF LocksOK
  <2> QED
    BY <1>7, <2>2, <2>3, <2>4, <2>5 DEF LocksOK
<1>14. HitsOK(t, req')
  <2> SUFFICES ASSUME NEW q \in Reqs, req'[q].phase \in Active
               PROVE  /\ req'[q].hit <= MaxIns
                      /\ \A i \in 1 .. req'[q].hit : t[Pre(Prompt[q], i)].kv = req'[q].full[i]
    BY DEF HitsOK
  <2>1. req'[q] = req[q] /\ req[q].phase \in {"running", "finished"}
    BY <1>1
  <2>2. /\ req[q].hit <= MaxIns
        /\ \A i \in 1 .. req[q].hit : /\ Pre(Prompt[q], i) \in DOMAIN tree
                                      /\ tree[Pre(Prompt[q], i)].kv = req[q].full[i]
    BY <2>1, LiveHits
  <2> QED
    BY <1>7, <2>1, <2>2
<1>15. /\ NoRepeats(fr \o e.freed) /\ fr \o e.freed \in Seq(Nat)
       /\ SlotsOK(tree', fr \o e.freed, req') /\ LocksOK(tree', req', TRUE)
       /\ HitsOK(tree', req') /\ SizesOK(tree') /\ ServesOK(tree', content)
  BY <1>1, <1>5, <1>6, <1>11, <1>12, <1>13, <1>14, EvictedFacts
<1>16. PICK v \in Seq(Nat) : v = e.freed
  BY <1>5 DEF Outcome
<1>17. /\ free' \in Seq(Nat) /\ NoRepeats(free')
       /\ ToSet(free') = ToSet(fr \o v)
  <2>1. NoRepeats(fr) /\ NoRepeats(v) /\ ToSet(fr) \cap ToSet(v) = {}
    BY <1>11, <1>15, <1>16, ConcatApart
  <2>2. PICK b \in Seq(Nat) : b = free \o a /\ NoRepeats(b) /\ ToSet(b) = ToSet(free) \cup ToSet(a)
    BY <1>2, <1>8, <1>10, ConcatMembers
  <2>3. ToSet(b) \cap ToSet(v) = {}
    BY <1>11, <2>1, <2>2
  <2>4. PICK d \in Seq(Nat) : d = b \o v /\ NoRepeats(d) /\ ToSet(d) = ToSet(b) \cup ToSet(v)
    <3>1. b \o v \in Seq(Nat) /\ NoRepeats(b \o v) /\ ToSet(b \o v) = ToSet(b) \cup ToSet(v)
      BY <1>16, <2>1, <2>2, <2>3, Joined
    <3> QED
      BY <3>1
  <2>5. ToSet(d) \cap ToSet(rest) = {}
    BY <1>6, <1>8, <1>9, <1>11, <2>1, <2>2, <2>4
  <2>6. d \o rest \in Seq(Nat) /\ NoRepeats(d \o rest) /\ ToSet(d \o rest) = ToSet(d) \cup ToSet(rest)
    BY <1>6, <2>4, <2>5, Joined
  <2>7. free' = d \o rest
    BY <1>5, <1>9, <1>16, <2>2, <2>4
  <2>8. ToSet(fr \o v) = ToSet(fr) \cup ToSet(v)
    <3>1. NoRepeats(fr) /\ NoRepeats(v) /\ ToSet(fr) \cap ToSet(v) = {}
      BY <2>1
    <3> QED
      BY <1>11, <1>16, <3>1, Joined
  <2> QED
    BY <1>11, <2>2, <2>4, <2>6, <2>7, <2>8
<1>18. SlotsOK(tree', free', req')
  <2>1. PICK w \in Seq(Nat) : w = fr \o v
    BY <1>15, <1>16
  <2>2. Once(w, OwnOf(req'), SlotsIn(tree'), SlotIds) /\ Distinct(tree')
    BY <1>15, <1>16, <2>1 DEF SlotsOK
  <2>3. ToSet(free') = ToSet(w)
    BY <1>17, <2>1
  <2>4. ToSet(w) \cap SlotsIn(tree') = {}
    BY <2>2 DEF Once
  <2>5. Once(free', OwnOf(req'), SlotsIn(tree'), SlotIds)
    BY <1>1, <1>17, <2>2, <2>3, <2>4, Moved
  <2> QED
    BY <2>2, <2>5 DEF SlotsOK
<1>19. SuffixOK(content', req', stage')
  <2>1. \A q \in Reqs : Written(req'[q], stage') => q # r /\ Written(req[q], stage)
    BY <1>1 DEF Written, Active
  <2> QED
    BY <1>1, <1>2, <2>1 DEF SuffixOK
<1> QED
  BY <1>1, <1>2, <1>15, <1>18, <1>19, KParts

LEMMA KFinish ==
    ASSUME KInv, NEW r \in Reqs, Finish(r), setup' = setup
    PROVE  KInv'
<1>1. BaseInv /\ BaseInv'
  BY BaseFinish DEF KInv
<1>2. FinishShort(r) \/ \E e : FinishLong(r, e)
  BY <1>1, FinishFacts
<1>3. CASE FinishShort(r)
  BY <1>1, <1>3, KFinishShort
<1>4. CASE \E e : FinishLong(r, e)
  <2>1. PICK e : FinishLong(r, e)
    BY <1>4
  <2> QED
    BY <1>1, <2>1, KFinishLong
<1> QED
  BY <1>2, <1>3, <1>4
\* Every step keeps the invariant if the hits that it locks are cached.
LEMMA KNext == KInv /\ Premise /\ [Next]_vars => KInv'
<1> SUFFICES ASSUME KInv, Premise, [Next]_vars PROVE KInv'
  OBVIOUS
<1>1. CASE UNCHANGED vars
  <2>1. /\ UNCHANGED <<setup, free, free_rows, tree, clock, content, req, batch, prepared, stage>>
    BY <1>1 DEF vars
  <2>2. BaseInv'
    BY <1>1, BaseNext DEF KInv
  <2>3. CASE stage # "warmup"
    BY <2>1, <2>2, <2>3, KSame DEF Kept
  <2>4. CASE stage = "warmup"
    <3>1. Prompt' = Prompt /\ Pinned' = Pinned /\ NumSlots' = NumSlots
      BY <2>1, SetupSame
    <3>2. SlotsOK(tree, free, req)'
      <4>1. SlotsOK(tree', free', req')
        BY <2>1 DEF KInv
      <4> QED
        BY <3>1, <4>1 DEF SlotsOK, Once, Listed, OwnOf, SlotIds
    <3>3. LocksOK(tree, req, stage # "warmup")'
      BY <2>1, <3>1 DEF KInv, LocksOK, PinCount, Pins, Lockers
    <3>4. HitsOK(tree, req)' /\ SuffixOK(content, req, stage)'
      BY <2>1, <3>1 DEF KInv, HitsOK, SuffixOK, Written
    <3>5. SizesOK(tree)' /\ ServesOK(tree, content)'
      BY <2>1 DEF KInv, SizesOK, ServesOK
    <3>6. /\ (DOMAIN content = SlotIds)'
          /\ (stage = "warmup" => DOMAIN tree = {} /\ free = AllSlots)'
      BY <2>1, <3>1 DEF KInv, SlotIds, AllSlots
    <3> QED
      BY <2>2, <3>2, <3>3, <3>4, <3>5, <3>6 DEF KInv
  <2> QED
    BY <2>3, <2>4
<1>2. CASE Next
  <2>1. setup' = setup /\ Step
    BY <1>2 DEF Next
  <2>2. CASE WarmupPin
    BY <2>1, <2>2, KWarmupPin
  <2>3. CASE \E rs \in SetToAllKPermutations(In("new")) \ {<<>>} : StartPrefill(rs)
    BY <2>1, <2>3, KStartPrefill
  <2>4. CASE MatchAndAlloc
    BY <2>1, <2>4, KMatchAndAlloc
  <2>5. CASE PrefillForward
    BY <2>1, <2>5, KPrefillForward
  <2>6. CASE InitWave
    BY <2>1, <2>6, KInitWave
  <2>7. CASE InitOne
    BY <2>1, <2>7, KInitOne
  <2>8. CASE \E S \in SUBSET In("running") \ {{}} : Decode(S)
    BY <2>1, <2>8, KDecode
  <2>9. CASE \E r \in Reqs : Finish(r)
    BY <2>1, <2>9, KFinish
  <2> QED
    BY <2>1, <2>2, <2>3, <2>4, <2>5, <2>6, <2>7, <2>8, <2>9 DEF Step
<1> QED
  BY <1>1, <1>2

LEMMA KAlways == Spec /\ []Premise => []KInv
<1>1. Init => KInv
  BY KInit
<1>2. KInv /\ Premise /\ [Next]_vars => KInv'
  BY KNext
<1> QED
  BY <1>1, <1>2, PTL DEF Spec

\* What the invariant says of the slots, in the properties' words.
LEMMA KSlots == KInv => SlotsAccounted
<1> SUFFICES ASSUME KInv PROVE SlotsAccounted
  OBVIOUS
<1>1. BaseInv
  BY DEF KInv
<1>2. free \in Seq(Nat) /\ \A r \in Reqs : Typed(req[r])
  BY <1>1 DEF BaseInv, Sound
<1>3. Once(free, OwnOf(req), SlotsIn(tree), SlotIds) /\ Distinct(tree)
  BY DEF KInv, SlotsOK
<1>4. OwnOf(req) \in Lists
  BY <1>2, OwnType
<1>5. OnceEach(free, OwnOf(req), SlotsIn(tree), SlotIds)
  BY <1>2, <1>3, <1>4, OnceEachFacts
<1>6. OwnOf(req) = [r \in Reqs |-> Own(r)] /\ SlotsIn(tree) = Cached
  BY DEF OwnOf, OwnPart, Own, SlotsIn, Cached
<1> QED
  BY <1>3, <1>5, <1>6 DEF SlotsAccounted, Distinct

LEMMA KServes == KInv => CacheServesItsTokens
BY DEF KInv, ServesOK, CacheServesItsTokens

LEMMA KLive == KInv => LiveNotEvicted
BY LiveHits DEF LiveNotEvicted, In

LEMMA KPrompts == KInv => PromptKVIntact
<1> SUFFICES ASSUME KInv, NEW r \in In("running"), NEW i \in 1 .. Len(Prompt[r])
             PROVE  content[req[r].full[i]] = KV(Pre(Prompt[r], i), 0)
  BY DEF PromptKVIntact
<1>1. r \in Reqs /\ req[r].phase = "running"
  BY DEF In
<1>2. /\ req[r].hit \in Nat /\ Len(Prompt[r]) \in Nat
      /\ \A j \in 1 .. req[r].hit : /\ Pre(Prompt[r], j) \in DOMAIN tree
                                    /\ tree[Pre(Prompt[r], j)].kv = req[r].full[j]
  BY <1>1, LiveHits
<1>3. ServesOK(tree, content) /\ SuffixOK(content, req, stage)
  BY DEF KInv
<1>4. CASE i <= req[r].hit
  <2>1. i \in 1 .. req[r].hit
    BY <1>2, <1>4
  <2> QED
    BY <1>2, <1>3, <2>1 DEF ServesOK
<1>5. CASE i > req[r].hit
  <2>1. i \in req[r].hit + 1 .. Len(Prompt[r])
    BY <1>2, <1>5
  <2> QED
    BY <1>1, <1>3, <2>1 DEF SuffixOK, Written
<1> QED
  BY <1>2, <1>4, <1>5

\* As long as a matched prefix stays cached until it is locked, and the pinned
\* one is no longer than an insert, nothing that the pools hand out is lost,
\* freed twice or shared (pool.py:103-119, scheduler.py:1610-1681).
THEOREM ResourcesAlwaysAccounted == Spec /\ []Premise => []ResourcesAccounted
<1>1. KInv => SlotsAccounted
  BY KSlots
<1> QED
  BY <1>1, KAlways, RowsAlwaysAccounted, PTL DEF ResourcesAccounted

\* Under the same premise a running request reads the KV of its own prompt
\* (scheduler.py:667-764, engine.py:235-274).
THEOREM PromptsAlwaysIntact == Spec /\ []Premise => []PromptKVIntact
BY KAlways, KPrompts, PTL

\* And the cache holds the KV of the tokens it is looked up by (radix.py:1-5).
THEOREM CacheAlwaysServes == Spec /\ []Premise => []CacheServesItsTokens
BY KAlways, KServes, PTL

\* And no live request's prefix is evicted: "refcount via lock" (radix.py:4).
THEOREM LiveNeverEvicted == Spec /\ []Premise => []LiveNotEvicted
BY KAlways, KLive, PTL

-----------------------------------------------------------------------------
(* Where the premise comes from. *)

\* The request about to be matched finds its slots in the free list.
NoShortfall == stage = "match" /\ batch # <<>> => Room(free, Need(Head(batch)))

\* A match that has its slots evicts nothing.
LEMMA MatchKeepsAll ==
    ASSUME BaseInv, MatchAndAlloc, NoShortfall
    PROVE  DOMAIN tree' = DOMAIN tree
<1> DEFINE r == Head(batch)
<1>1. /\ stage = "match" /\ batch # <<>> /\ Looked(Prompt[r]) \in Seq(Nat)
      /\ \E now \in Nat : \E e \in AfterEvict(Touch(tree, Looked(Prompt[r]), now), Need(r)) :
           tree' = e.tree
  BY MatchFacts
<1>2. PICK now \in Nat : \E e \in AfterEvict(Touch(tree, Looked(Prompt[r]), now), Need(r)) :
           tree' = e.tree
  BY <1>1
<1>3. Room(free, Need(r))
  BY <1>1 DEF NoShortfall
<1>4. AfterEvict(Touch(tree, Looked(Prompt[r]), now), Need(r))
        = {[tree |-> Touch(tree, Looked(Prompt[r]), now), freed |-> <<>>]}
  BY <1>3 DEF AfterEvict
<1>5. tree' = Touch(tree, Looked(Prompt[r]), now)
  BY <1>2, <1>4
<1> QED
  BY <1>1, <1>5, TouchFacts DEF BaseInv

\* A match that evicts nothing leaves every matched prefix in the cache, its own
\* among them; so does every other step while a prefill batch is in hand.
LEMMA HitsKept == KInv /\ NoShortfall /\ HitsStayCached /\ [Next]_vars => HitsStayCached'
<1> SUFFICES ASSUME KInv, NoShortfall, HitsStayCached, [Next]_vars,
                    NEW r \in Reqs, req'[r].phase = "matched",
                    NEW i \in 1 .. req'[r].hit
             PROVE  Pre(Prompt'[r], i) \in DOMAIN tree'
  BY DEF HitsStayCached, In
<1>1. BaseInv /\ BaseInv'
  BY BaseNext DEF KInv
<1>2. stage' \in {"match", "wave", "each"}
  <2>1. r \in ToSet(prepared')
    BY <1>1 DEF BaseInv, Worker
  <2>2. prepared' # <<>>
    BY <2>1, EmptyList
  <2> QED
    BY <1>1, <2>2 DEF BaseInv, Worker
<1>3. Prompt' = Prompt
  BY SetupSame DEF Next, vars
<1>4. (req'[r] = req[r] /\ DOMAIN tree \subseteq DOMAIN tree') => Pre(Prompt'[r], i) \in DOMAIN tree'
  BY <1>3 DEF HitsStayCached, In
<1>5. CASE MatchAndAlloc
  <2>1. PICK b : b = Head(batch)
    OBVIOUS
  <2>2. /\ stage = "match" /\ batch # <<>> /\ b \in Reqs
        /\ \E now \in Nat : \E e \in AfterEvict(Touch(tree, Looked(Prompt[b]), now), Need(b)) :
              \/ MatchGot(b, free \o e.freed)
              \/ MatchNoRow(b, free \o e.freed)
              \/ MatchNoSlots(free \o e.freed)
    BY <1>1, <1>5, <2>1, MatchFacts
  <2>3. PICK pool : MatchGot(b, pool) \/ MatchNoRow(b, pool) \/ MatchNoSlots(pool)
    BY <2>2
  <2>4. MatchGot(b, pool)
    BY <1>2, <2>3 DEF MatchNoRow, MatchNoSlots, GiveUp
  <2>5. DOMAIN tree' = DOMAIN tree
    BY <1>1, <1>5, MatchKeepsAll
  <2>6. PICK rec : /\ req' = With(b, rec)
                   /\ \E full, row : rec = MatchedReq(Len(Hits(b)), full, row)
    BY <2>4 DEF MatchGot
  <2>7. req'[b] = rec /\ \A q \in Reqs : q # b => req'[q] = req[q]
    BY <1>1, <2>2, <2>6, WithFacts
  <2>8. rec.hit = Len(Hits(b))
    BY <2>6 DEF MatchedReq
  <2>9. CASE r = b
    <3>1. \A j \in 1 .. Len(Hits(b)) : Pre(Prompt[b], j) \in DOMAIN tree
      BY <1>1, <1>5, <2>1, FoundCached
    <3> QED
      BY <1>3, <2>5, <2>7, <2>8, <2>9, <3>1
  <2>10. CASE r # b
    BY <1>4, <2>5, <2>7, <2>10
  <2> QED
    BY <2>9, <2>10
<1>6. CASE InitOne
  <2>1. PICK b : b = Head(prepared)
    OBVIOUS
  <2>2. /\ b \in Reqs /\ tree' = Lock(tree, LockedPath(b)) /\ req[b].phase = "matched"
        /\ OneGot(b) \/ OneDropped(b)
    BY <1>1, <1>6, <2>1, OneFacts
  <2>3. OneGot(b)
    BY <1>2, <2>2 DEF OneDropped
  <2>4. req'[r] = req[r]
    BY <2>3 DEF OneGot, Began
  <2>5. DOMAIN tree' = DOMAIN tree
    BY <2>2 DEF Lock
  <2> QED
    BY <1>4, <2>4, <2>5
<1>7. CASE InitWave
  BY <1>2, <1>7 DEF InitWave, GiveUp
<1>8. CASE \E q \in Reqs : Finish(q)
  BY <1>2, <1>8 DEF Finish
<1>9. CASE \E S \in SUBSET In("running") \ {{}} : Decode(S)
  <2>1. PICK S \in SUBSET In("running") : Decode(S)
    BY <1>9
  <2>2. PICK e : /\ stage = "idle"
                 /\ DecodeGot(S, free \o e.freed) \/ DecodeShort(free \o e.freed)
    BY <1>1, <2>1, DecodeFacts
  <2> QED
    BY <1>2, <2>2 DEF DecodeGot, DecodeShort, GiveUp
<1>10. CASE \/ PrefillForward \/ UNCHANGED vars
            \/ \E rs \in SetToAllKPermutations(In("new")) \ {<<>>} : StartPrefill(rs)
  BY <1>4, <1>10 DEF PrefillForward, StartPrefill, vars
<1>11. CASE WarmupPin
  BY <1>2, <1>11 DEF WarmupPin
<1> QED
  BY <1>5, <1>6, <1>7, <1>8, <1>9, <1>10, <1>11 DEF Next, Step

\* Hits can be lost only where a prefill batch has to evict: if each of its
\* requests finds its slots free, a matched prefix stays cached until it is
\* locked (scheduler.py:677-695).
THEOREM HitsStay == Spec /\ PinFits /\ []NoShortfall => []HitsStayCached
<1>1. Init => KInv /\ HitsStayCached
  <2>1. Init => HitsStayCached
    BY DEF Init, HitsStayCached, In, NewReq
  <2> QED
    BY <2>1, KInit
<1>2. KInv /\ PinFits /\ NoShortfall /\ HitsStayCached /\ [Next]_vars
        => KInv' /\ HitsStayCached'
  BY KNext, HitsKept DEF Premise
<1>3. PinFits /\ [Next]_vars => PinFits'
  BY SetupSame DEF PinFits, Next, vars
<1> QED
  BY <1>1, <1>2, <1>3, PTL DEF Spec

\* So in a deployment with a short pinned prefix whose pool never runs short
\* while a prefill batch is matched, all four hold without more.
THEOREM EnoughSlots ==
    Spec /\ PinFits /\ []NoShortfall
      => [](ResourcesAccounted /\ PromptKVIntact /\ CacheServesItsTokens /\ LiveNotEvicted)
<1>1. PinFits /\ [Next]_vars => PinFits'
  BY SetupSame DEF PinFits, Next, vars
<1>2. Spec /\ PinFits => []PinFits
  BY <1>1, PTL DEF Spec
<1>3. PinFits /\ HitsStayCached => Premise
  BY DEF Premise
<1> QED
  BY <1>2, <1>3, HitsStay, ResourcesAlwaysAccounted, PromptsAlwaysIntact, CacheAlwaysServes,
     LiveNeverEvicted, PTL
=============================================================================
