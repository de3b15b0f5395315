---------------------------- MODULE SharedLemmas ----------------------------
(***************************************************************************)
(* What the proofs about several components need: of numbers, folds over   *)
(* sequences and selections from them, and of the operators of RadixTree   *)
(* (prefixes of token paths, walks over a prefix-closed tree, and what     *)
(* each operation does to the set of evictable nodes).  The provers cannot *)
(* instantiate an induction principle; an induction here is the least      *)
(* counterexample.                                                         *)
(***************************************************************************)
EXTENDS RadixTree, Selection, FiniteSetTheorems, TLAPS

-----------------------------------------------------------------------------
(* Places in an order. *)

StrictOrderOn(R, T) ==
    /\ \A x \in T : <<x, x>> \notin R
    /\ \A x, y, z \in T : <<x, y>> \in R /\ <<y, z>> \in R => <<x, z>> \in R
    /\ \A x, y \in T : x # y => <<x, y>> \in R \/ <<y, x>> \in R

Below(R, T, x) == {y \in T : <<y, x>> \in R}
Place(R, T, x) == Cardinality(Below(R, T, x))

\* Of two members the smaller one has the smaller place.
LEMMA PlacesGrow ==
    ASSUME NEW T, IsFiniteSet(T), NEW R, StrictOrderOn(R, T),
           NEW x \in T, NEW y \in T, <<x, y>> \in R
    PROVE  Place(R, T, x) < Place(R, T, y)
<1>1. Below(R, T, x) \subseteq Below(R, T, y)
    BY DEF StrictOrderOn, Below
<1>2. x \in Below(R, T, y) /\ x \notin Below(R, T, x)
    BY DEF StrictOrderOn, Below
<1>3. IsFiniteSet(Below(R, T, y))
    BY FS_Subset DEF Below
<1>4. /\ IsFiniteSet(Below(R, T, x))
      /\ Cardinality(Below(R, T, x)) <= Cardinality(Below(R, T, y))
      /\ Cardinality(Below(R, T, x)) # Cardinality(Below(R, T, y))
    BY <1>1, <1>2, <1>3, FS_Subset
<1> QED
    BY <1>3, <1>4, FS_CardinalityType DEF Place

\* A place is below the number of members.
LEMMA PlaceType ==
    ASSUME NEW T, IsFiniteSet(T), NEW R, StrictOrderOn(R, T), NEW x \in T
    PROVE  Place(R, T, x) \in 0 .. Cardinality(T) - 1
<1>1. Below(R, T, x) \subseteq T \ {x}
    BY DEF StrictOrderOn, Below
<1>2. IsFiniteSet(T \ {x}) /\ Cardinality(T \ {x}) = Cardinality(T) - 1
    BY FS_RemoveElement
<1>3. IsFiniteSet(Below(R, T, x)) /\ Cardinality(Below(R, T, x)) <= Cardinality(T) - 1
    BY <1>1, <1>2, FS_Subset
<1> QED
    BY <1>3, FS_CardinalityType DEF Place

\* Each place up to the number of members is some member's, and only one's.
LEMMA PlacesTaken ==
    ASSUME NEW T, IsFiniteSet(T), NEW R, StrictOrderOn(R, T)
    PROVE  /\ \A x, y \in T : Place(R, T, x) = Place(R, T, y) => x = y
           /\ \A i \in 0 .. Cardinality(T) - 1 : \E x \in T : Place(R, T, x) = i
<1> DEFINE n == Cardinality(T)
           f == [x \in T |-> Place(R, T, x)]
<1>1. n \in Nat
    BY FS_CardinalityType
<1>2. \A x \in T : Place(R, T, x) \in 0 .. n - 1
    BY PlaceType
<1>3. \A x, y \in T : Place(R, T, x) = Place(R, T, y) => x = y
  <2> SUFFICES ASSUME NEW x \in T, NEW y \in T, x # y PROVE Place(R, T, x) # Place(R, T, y)
      OBVIOUS
  <2>1. <<x, y>> \in R \/ <<y, x>> \in R
      BY DEF StrictOrderOn
  <2> QED
      BY <2>1, <1>1, <1>2, PlacesGrow
<1>4. f \in Injection(T, 0 .. n - 1)
    BY <1>2, <1>3 DEF Injection, IsInjective
<1>5. IsFiniteSet(0 .. n - 1) /\ Cardinality(0 .. n - 1) = n
    BY <1>1, FS_Interval
<1>6. f \in Surjection(T, 0 .. n - 1)
    BY <1>4, <1>5, FS_Injection
<1> QED
    BY <1>3, <1>6 DEF Surjection

\* Some member of a nonempty finite set has nothing below it.
LEMMA SomeFirst ==
    ASSUME NEW T, IsFiniteSet(T), NEW R, StrictOrderOn(R, T), T # {}
    PROVE  \E x \in T : Below(R, T, x) = {}
<1>1. Cardinality(T) \in Nat /\ Cardinality(T) # 0
    BY FS_CardinalityType, FS_EmptySet
<1>2. 0 \in 0 .. Cardinality(T) - 1
    BY <1>1
<1>3. \A i \in 0 .. Cardinality(T) - 1 : \E x \in T : Place(R, T, x) = i
    BY PlacesTaken
<1>4. PICK x \in T : Place(R, T, x) = 0
    BY <1>2, <1>3
<1>5. IsFiniteSet(Below(R, T, x))
    BY FS_Subset DEF Below
<1> QED
    BY <1>4, <1>5, FS_EmptySet DEF Place

NumberOrder(D) == {p \in D \X D : p[1] < p[2]}

\* Every nonempty finite set of numbers has a least one.
LEMMA LeastMember ==
    ASSUME NEW D, D \subseteq Nat, IsFiniteSet(D), D # {}
    PROVE  \E x \in D : \A y \in D : x <= y
<1>1. StrictOrderOn(NumberOrder(D), D)
    BY DEF StrictOrderOn, NumberOrder
<1>2. PICK x \in D : Below(NumberOrder(D), D, x) = {}
    BY <1>1, SomeFirst
<1>3. \A y \in D : ~(y < x)
    BY <1>2 DEF Below, NumberOrder
<1> QED
    BY <1>3

\* There are n numbers from 1 to n.
LEMMA CountUpTo ==
    ASSUME NEW n \in Nat
    PROVE  IsFiniteSet(1 .. n) /\ Cardinality(1 .. n) = n
BY FS_Interval

\* A nonempty set of numbers up to a bound has a least one.
LEMMA LeastUpTo ==
    ASSUME NEW n \in Nat, NEW D \in SUBSET (0 .. n), D # {}
    PROVE  \E m \in D : m \in 0 .. n /\ \A k \in 0 .. n : k < m => k \notin D
<1>1. IsFiniteSet(0 .. n)
  BY FS_Interval
<1>2. IsFiniteSet(D)
  BY <1>1, FS_Subset
<1>3. D \subseteq Nat
  OBVIOUS
<1>4. PICK m \in D : \A y \in D : m <= y
  BY <1>2, <1>3, LeastMember
<1> QED
  BY <1>3, <1>4

\* Every nonempty set of numbers up to a bound has a greatest one, its Max.
LEMMA GreatestMember ==
    ASSUME NEW n \in Nat, NEW D \in SUBSET (0 .. n), D # {}
    PROVE  Max(D) \in D /\ \A y \in D : Max(D) >= y
<1> DEFINE E == {k \in 0 .. n : n - k \in D}
<1>1. PICK d \in D : TRUE
  OBVIOUS
<1>2. n - d \in E
  BY <1>1
<1>3. E \in SUBSET (0 .. n) /\ E # {}
  BY <1>2
<1> HIDE DEF E
<1>4. PICK e \in E : e \in 0 .. n /\ \A y \in 0 .. n : y < e => y \notin E
  BY <1>3, LeastUpTo
<1>5. e \in 0 .. n /\ n - e \in D
  BY <1>4 DEF E
<1>6. \A y \in D : n - e >= y
  <2> SUFFICES ASSUME NEW y \in D PROVE n - e >= y
    OBVIOUS
  <2>1. y \in 0 .. n /\ n - y \in E
    BY DEF E
  <2>2. e <= n - y
    BY <1>4, <2>1
  <2> QED
    BY <1>5, <2>1, <2>2
<1> QED
  BY <1>5, <1>6 DEF Max

-----------------------------------------------------------------------------
(* Folds. *)

Recursion(h, A, base, n, G) ==
    /\ h \in [0 .. n -> A]
    /\ h[0] = base
    /\ \A k \in 1 .. n : h[k] = G[<<h[k - 1], k>>]

\* A recursion over 1 .. n has a solution.
LEMMA PrefixRecursion ==
    ASSUME NEW A, NEW base \in A, NEW n \in Nat, NEW G \in [A \X (1 .. n) -> A]
    PROVE  \E h : Recursion(h, A, base, n, G)
<1> DEFINE Solves(h, m) == /\ h[0] = base
                           /\ \A k \in 1 .. m : h[k] = G[<<h[k - 1], k>>]
           D == {m \in 0 .. n : ~ \E h \in [0 .. m -> A] : Solves(h, m)}
<1>1. D = {}
  <2> SUFFICES ASSUME D # {} PROVE FALSE
    OBVIOUS
  <2>1. D \in SUBSET (0 .. n)
    OBVIOUS
  <2>2. PICK m \in D : m \in 0 .. n /\ \A y \in 0 .. n : y < m => y \notin D
    <3> HIDE DEF D
    <3> QED
      BY <2>1, LeastUpTo
  <2>3. m # 0
    <3>1. [k \in 0 .. 0 |-> base] \in [0 .. 0 -> A] /\ Solves([k \in 0 .. 0 |-> base], 0)
      OBVIOUS
    <3> QED
      BY <3>1
  <2>4. m - 1 \in 0 .. n /\ m - 1 \notin D
    BY <2>2, <2>3
  <2>5. PICK h \in [0 .. m - 1 -> A] : Solves(h, m - 1)
    BY <2>4
  <2> DEFINE g == [k \in 0 .. m |-> IF k = m THEN G[<<h[m - 1], m>>] ELSE h[k]]
  <2>6. g \in [0 .. m -> A]
    <3>1. m \in 1 .. n
      BY <2>2, <2>3
    <3>2. G[<<h[m - 1], m>>] \in A
      BY <2>5, <3>1
    <3>3. \A k \in 0 .. m : k # m => k \in 0 .. m - 1
      BY <3>1
    <3> QED
      BY <2>5, <3>2, <3>3
  <2>7. Solves(g, m)
    <3>1. m \in 1 .. n
      BY <2>2, <2>3
    <3>2. g[0] = base
      BY <2>5, <3>1
    <3>3. ASSUME NEW k \in 1 .. m PROVE g[k] = G[<<g[k - 1], k>>]
      <4>1. g[k - 1] = h[k - 1]
        BY <3>1
      <4>2. CASE k = m
        <5>1. g[m] = G[<<h[m - 1], m>>]
          BY <3>1
        <5> HIDE DEF g
        <5> QED
          BY <4>1, <4>2, <5>1
      <4>3. CASE k # m
        <5>1. k \in 1 .. m - 1 /\ k \in 0 .. m
          BY <3>1, <4>3
        <5>2. g[k] = h[k]
          BY <4>3, <5>1
        <5> HIDE DEF g
        <5> QED
          BY <2>5, <4>1, <5>1, <5>2
      <4> QED
        BY <4>2, <4>3
    <3> HIDE DEF g
    <3> QED
      BY <3>2, <3>3
  <2> QED
    BY <2>2, <2>6, <2>7
<1>2. n \in 0 .. n
  OBVIOUS
<1> QED
  BY <1>1, <1>2 DEF Recursion

\* The recursion of FoldLeft goes over all subsets of 1 .. n, and takes off their
\* greatest member.
FoldRecursion(c, A, base, n, G) ==
    /\ c \in [SUBSET (1 .. n) -> A]
    /\ c[{}] = base
    /\ \A s \in SUBSET (1 .. n) : s # {} => c[s] = G[<<c[s \ {Max(s)}], Max(s)>>]

\* It has a solution.
LEMMA SubsetRecursion ==
    ASSUME NEW A, NEW base \in A, NEW n \in Nat, NEW G \in [A \X (1 .. n) -> A]
    PROVE  \E c : FoldRecursion(c, A, base, n, G)
<1> DEFINE Solves(h, s) == /\ h \in [0 .. n -> A]
                           /\ h[0] = base
                           /\ \A k \in 1 .. n :
                                 h[k] = IF k \in s THEN G[<<h[k - 1], k>>] ELSE h[k - 1]
           Sol(s) == CHOOSE h : Solves(h, s)
           c == [s \in SUBSET (1 .. n) |-> Sol(s)[n]]
<1>1. ASSUME NEW s \in SUBSET (1 .. n) PROVE Solves(Sol(s), s)
  <2>1. PICK P : P = [e \in A \X (1 .. n) |-> IF e[2] \in s THEN G[e] ELSE e[1]]
    OBVIOUS
  <2>2. PICK h : Recursion(h, A, base, n, P)
    <3>1. P \in [A \X (1 .. n) -> A]
      BY <2>1
    <3> HIDE DEF Solves, Sol, c
    <3> QED
      BY <3>1, PrefixRecursion
  <2>3. \A k \in 1 .. n : <<h[k - 1], k>> \in A \X (1 .. n)
    BY <2>2 DEF Recursion
  <2>4. Solves(h, s)
    BY <2>1, <2>2, <2>3 DEF Recursion
  <2> HIDE DEF Solves
  <2> QED
    BY <2>4
<1> HIDE DEF Sol
<1>2. ASSUME NEW s \in SUBSET (1 .. n), NEW t \in SUBSET (1 .. n), NEW m \in 0 .. n,
             \A k \in 1 .. m : k \in s <=> k \in t
      PROVE  Sol(s)[m] = Sol(t)[m]
  <2> DEFINE D == {k \in 0 .. m : Sol(s)[k] # Sol(t)[k]}
  <2>1. D = {}
    <3> SUFFICES ASSUME D # {} PROVE FALSE
      OBVIOUS
    <3>1. D \in SUBSET (0 .. n)
      OBVIOUS
    <3>2. PICK k \in D : k \in 0 .. n /\ \A y \in 0 .. n : y < k => y \notin D
      <4> HIDE DEF D
      <4> QED
        BY <3>1, LeastUpTo
    <3>3. k \in 0 .. m /\ Sol(s)[k] # Sol(t)[k]
      BY <3>2
    <3>4. k # 0
      BY <1>1, <3>3
    <3>5. k \in 1 .. m /\ k \in 1 .. n /\ k - 1 \in 0 .. m /\ ~(k <= k - 1)
      BY <3>3, <3>4
    <3>6. Sol(s)[k - 1] = Sol(t)[k - 1]
      BY <3>2, <3>5
    <3>7. k \in s <=> k \in t
      BY <1>2, <3>5
    <3>8. Sol(s)[k] = IF k \in s THEN G[<<Sol(s)[k - 1], k>>] ELSE Sol(s)[k - 1]
      BY <1>1, <3>5
    <3>9. Sol(t)[k] = IF k \in t THEN G[<<Sol(t)[k - 1], k>>] ELSE Sol(t)[k - 1]
      BY <1>1, <3>5
    <3> HIDE DEF D
    <3> QED
      BY <3>3, <3>6, <3>7, <3>8, <3>9
  <2> QED
    BY <2>1
<1>3. ASSUME NEW s \in SUBSET (1 .. n), NEW m \in 0 .. n, \A k \in s : k <= m
      PROVE  Sol(s)[n] = Sol(s)[m]
  <2> DEFINE D == {k \in m .. n : Sol(s)[k] # Sol(s)[m]}
  <2>1. D = {}
    <3> SUFFICES ASSUME D # {} PROVE FALSE
      OBVIOUS
    <3>1. D \in SUBSET (0 .. n)
      OBVIOUS
    <3>2. PICK k \in D : k \in 0 .. n /\ \A y \in 0 .. n : y < k => y \notin D
      <4> HIDE DEF D
      <4> QED
        BY <3>1, LeastUpTo
    <3>3. k \in m .. n /\ Sol(s)[k] # Sol(s)[m]
      BY <3>2
    <3>4. k # m
      BY <3>3
    <3>5. k \in 1 .. n /\ k - 1 \in m .. n /\ ~(k <= k - 1) /\ ~(k <= m)
      BY <3>3, <3>4
    <3>6. Sol(s)[k - 1] = Sol(s)[m]
      BY <3>2, <3>5
    <3>7. k \notin s
      BY <1>3, <3>5
    <3> HIDE DEF D
    <3> QED
      BY <1>1, <3>3, <3>5, <3>6, <3>7
  <2> QED
    BY <2>1
<1>4. c \in [SUBSET (1 .. n) -> A]
  BY <1>1
<1>5. c[{}] = base
  <2>1. {} \in SUBSET (1 .. n) /\ 0 \in 0 .. n
    OBVIOUS
  <2>2. Sol({})[n] = Sol({})[0]
    BY <1>3, <2>1
  <2> QED
    BY <1>1, <2>1, <2>2
<1>6. ASSUME NEW s \in SUBSET (1 .. n), s # {}
      PROVE  c[s] = G[<<c[s \ {Max(s)}], Max(s)>>]
  <2> DEFINE x == Max(s)
             t == s \ {x}
  <2>1. x \in s /\ \A y \in s : x >= y
    <3>1. s \in SUBSET (0 .. n)
      OBVIOUS
    <3> QED
      BY <1>6, <3>1, GreatestMember
  <2> HIDE DEF x
  <2>2. x \in 1 .. n /\ x \in 0 .. n /\ x - 1 \in 0 .. n /\ t \in SUBSET (1 .. n)
    BY <2>1
  <2>3. Sol(s)[n] = Sol(s)[x]
    BY <1>3, <2>1, <2>2
  <2>4. Sol(s)[x] = G[<<Sol(s)[x - 1], x>>]
    BY <1>1, <2>1, <2>2
  <2>5. \A k \in 1 .. x - 1 : k \in s <=> k \in t
    BY <2>2
  <2>6. Sol(s)[x - 1] = Sol(t)[x - 1]
    <3> HIDE DEF t
    <3> QED
      BY <1>2, <2>2, <2>5
  <2>7. \A k \in t : k <= x - 1
    BY <2>1, <2>2
  <2>8. Sol(t)[n] = Sol(t)[x - 1]
    <3> HIDE DEF t
    <3> QED
      BY <1>3, <2>2, <2>7
  <2> QED
    BY <2>2, <2>3, <2>4, <2>6, <2>8 DEF x
<1> HIDE DEF c
<1> QED
  BY <1>4, <1>5, <1>6 DEF FoldRecursion

SameRecursion(f, c, n) ==
    /\ f[{}] = c[{}]
    /\ \A s \in SUBSET (1 .. n) :
          s # {} /\ f[s \ {Max(s)}] = c[s \ {Max(s)}] => f[s] = c[s]

\* A function on the subsets of 1 .. n is determined by such a recursion.
LEMMA SubsetRecursionUnique ==
    ASSUME NEW n \in Nat, NEW f, NEW c, SameRecursion(f, c, n)
    PROVE  \A s \in SUBSET (1 .. n) : f[s] = c[s]
<1> DEFINE D == {m \in 0 .. n : \E s \in SUBSET (1 .. m) : f[s] # c[s]}
<1>1. D = {}
  <2> SUFFICES ASSUME D # {} PROVE FALSE
    OBVIOUS
  <2>1. D \in SUBSET (0 .. n)
    OBVIOUS
  <2>2. PICK m \in D : m \in 0 .. n /\ \A y \in 0 .. n : y < m => y \notin D
    <3> HIDE DEF D
    <3> QED
      BY <2>1, LeastUpTo
  <2> USE DEF SameRecursion
  <2>3. PICK s \in SUBSET (1 .. m) : f[s] # c[s]
    BY <2>2
  <2>4. m \in 0 .. n /\ s \in SUBSET (1 .. n) /\ s \in SUBSET (0 .. n) /\ s # {}
    <3>1. m \in 0 .. n
      BY <2>2
    <3>2. \A y \in s : y \in 1 .. m
      BY <2>3
    <3>3. \A y \in s : y \in 1 .. n /\ y \in 0 .. n
      BY <3>1, <3>2
    <3>4. s # {}
      BY <2>3
    <3> HIDE DEF D
    <3> QED
      BY <3>1, <3>3, <3>4
  <2>5. Max(s) \in s /\ \A y \in s : Max(s) >= y
    BY <2>4, GreatestMember
  <2> DEFINE x == Max(s)
             t == s \ {x}
  <2>6. x \in 1 .. m /\ \A y \in s : x >= y
    BY <2>3, <2>5
  <2> HIDE DEF x
  <2>7. t \in SUBSET (1 .. x - 1)
    <3> SUFFICES ASSUME NEW y \in t PROVE y \in 1 .. x - 1
      OBVIOUS
    <3>1. y \in 1 .. m /\ y # x /\ x >= y
      BY <2>3, <2>6
    <3> QED
      BY <2>4, <2>6, <3>1
  <2>8. x - 1 \in 0 .. n /\ ~(m <= x - 1)
    BY <2>4, <2>6
  <2>9. x - 1 \notin D
    <3> HIDE DEF D
    <3> QED
      BY <2>2, <2>8
  <2>10. f[t] = c[t]
    <3> HIDE DEF t
    <3> QED
      BY <2>7, <2>8, <2>9
  <2> QED
    BY <2>3, <2>4, <2>10 DEF x
<1> QED
  <2> SUFFICES ASSUME NEW s \in SUBSET (1 .. n) PROVE f[s] = c[s]
    OBVIOUS
  <2>1. n \in 0 .. n /\ n \notin D
    BY <1>1
  <2> QED
    BY <2>1

\* On the sets 1 .. k it is the recursion along the sequence.
LEMMA FoldAlong ==
    ASSUME NEW A, NEW base \in A, NEW n \in Nat, NEW G, NEW c,
           FoldRecursion(c, A, base, n, G)
    PROVE  Recursion([k \in 0 .. n |-> c[1 .. k]], A, base, n, G)
<1> DEFINE h == [k \in 0 .. n |-> c[1 .. k]]
<1>1. ASSUME NEW k \in 0 .. n PROVE h[k] = c[1 .. k] /\ h[k] \in A
  <2>1. 1 .. k \in SUBSET (1 .. n)
    OBVIOUS
  <2> QED
    BY <2>1 DEF FoldRecursion
<1>2. h[0] = base
  <2>1. 1 .. 0 = {}
    OBVIOUS
  <2> QED
    BY <2>1 DEF FoldRecursion
<1>3. ASSUME NEW k \in 1 .. n PROVE h[k] = G[<<h[k - 1], k>>]
  <2>1. 1 .. k \in SUBSET (1 .. n) /\ 1 .. k # {} /\ 1 .. k \in SUBSET (0 .. k) /\ k \in Nat
    OBVIOUS
  <2>2. Max(1 .. k) \in 1 .. k /\ \A y \in 1 .. k : Max(1 .. k) >= y
    BY <2>1, GreatestMember
  <2>3. Max(1 .. k) = k
    BY <2>1, <2>2
  <2>4. (1 .. k) \ {k} = 1 .. k - 1
    OBVIOUS
  <2>5. c[1 .. k] = G[<<c[1 .. k - 1], k>>]
    BY <2>1, <2>3, <2>4 DEF FoldRecursion
  <2>6. k \in 0 .. n /\ k - 1 \in 0 .. n
    OBVIOUS
  <2> QED
    BY <1>1, <2>5, <2>6
<1> HIDE DEF h
<1>4. h = [k \in 0 .. n |-> h[k]]
  BY DEF h
<1>5. h \in [0 .. n -> A]
  BY <1>1, <1>4
<1>6. Recursion(h, A, base, n, G)
  BY <1>2, <1>3, <1>5 DEF Recursion
<1> QED
  BY <1>6 DEF h

FoldStep(f, A, base, n, G) ==
    /\ f[{}] = base
    /\ \A t \in SUBSET (1 .. n) : t # {} /\ f[t \ {Max(t)}] \in A =>
          f[t] = G[<<f[t \ {Max(t)}], Max(t)>>]

EndsIn(x, A, base, n, G) == \E h : Recursion(h, A, base, n, G) /\ h[n] = x

\* Whatever steps as a fold does is that recursion along the sequence.
LEMMA FoldIdentified ==
    ASSUME NEW A, NEW base \in A, NEW n \in Nat, NEW G \in [A \X (1 .. n) -> A],
           NEW f, FoldStep(f, A, base, n, G)
    PROVE  EndsIn(f[1 .. n], A, base, n, G)
<1>1. PICK c : FoldRecursion(c, A, base, n, G)
  BY SubsetRecursion
<1>2. f[{}] = c[{}]
  BY <1>1 DEF FoldRecursion, FoldStep
<1>3. ASSUME NEW t \in SUBSET (1 .. n), t # {}, f[t \ {Max(t)}] = c[t \ {Max(t)}]
      PROVE  f[t] = c[t]
  <2>1. t \ {Max(t)} \in SUBSET (1 .. n)
    OBVIOUS
  <2>2. c[t \ {Max(t)}] \in A
    BY <1>1, <2>1 DEF FoldRecursion
  <2>3. f[t] = G[<<f[t \ {Max(t)}], Max(t)>>]
    BY <1>3, <2>2 DEF FoldStep
  <2>4. c[t] = G[<<c[t \ {Max(t)}], Max(t)>>]
    BY <1>1, <1>3 DEF FoldRecursion
  <2> QED
    BY <1>3, <2>3, <2>4
<1>4. SameRecursion(f, c, n)
  BY <1>2, <1>3 DEF SameRecursion
<1>5. f[1 .. n] = c[1 .. n]
  <2>1. 1 .. n \in SUBSET (1 .. n)
    OBVIOUS
  <2>2. \A t \in SUBSET (1 .. n) : f[t] = c[t]
    BY <1>4, SubsetRecursionUnique
  <2> QED
    BY <2>1, <2>2
<1>6. Recursion([k \in 0 .. n |-> c[1 .. k]], A, base, n, G)
  BY <1>1, FoldAlong
<1>7. [k \in 0 .. n |-> c[1 .. k]][n] = c[1 .. n]
  BY n \in 0 .. n
<1> QED
  BY <1>5, <1>6, <1>7 DEF EndsIn

-----------------------------------------------------------------------------
(* Selections. *)

SelectsAlong(h, T, s, S) ==
    /\ h \in [0 .. Len(s) -> Seq(T)]
    /\ h[0] = <<>>
    /\ \A k \in 1 .. Len(s) :
          h[k] = IF s[k] \in S THEN Append(h[k - 1], s[k]) ELSE h[k - 1]

\* Only goes along the sequence and appends the members of S.
LEMMA OnlyAlong ==
    ASSUME NEW T, NEW s \in Seq(T), NEW S
    PROVE  \E h : SelectsAlong(h, T, s, S) /\ Only(s, S) = h[Len(s)]
<1> DEFINE n == Len(s)
           Rec(f) == f = [t \in SUBSET (1 .. n) |->
                            IF t = {} THEN <<>>
                            ELSE IF s[Max(t)] \in S
                                 THEN Append(f[t \ {Max(t)}], s[Max(t)])
                                 ELSE f[t \ {Max(t)}]]
<1>1. n \in Nat /\ DOMAIN s = 1 .. n /\ <<>> \in Seq(T) /\ \A k \in 1 .. n : s[k] \in T
  OBVIOUS
<1>2. PICK G : G = [e \in Seq(T) \X (1 .. n) |->
                      IF s[e[2]] \in S THEN Append(e[1], s[e[2]]) ELSE e[1]]
  OBVIOUS
<1>3. G \in [Seq(T) \X (1 .. n) -> Seq(T)]
  BY <1>1, <1>2
<1>4. \A x \in Seq(T), k \in 1 .. n :
        G[<<x, k>>] = IF s[k] \in S THEN Append(x, s[k]) ELSE x
  BY <1>2
<1>5. PICK c : FoldRecursion(c, Seq(T), <<>>, n, G)
  <2> HIDE DEF n, Rec
  <2> QED
    BY <1>1, <1>3, SubsetRecursion
<1>6. ASSUME NEW t \in SUBSET (1 .. n), t # {} PROVE Max(t) \in 1 .. n
  <2>1. t \in SUBSET (0 .. n)
    OBVIOUS
  <2> QED
    BY <1>1, <1>6, <2>1, GreatestMember
<1> HIDE DEF n
<1>7. ASSUME NEW t \in SUBSET (1 .. n), t # {}
      PROVE  c[t] = IF s[Max(t)] \in S THEN Append(c[t \ {Max(t)}], s[Max(t)])
                    ELSE c[t \ {Max(t)}]
  <2>1. c[t \ {Max(t)}] \in Seq(T)
    BY <1>5, <1>7 DEF FoldRecursion
  <2> QED
    BY <1>4, <1>5, <1>6, <1>7, <2>1 DEF FoldRecursion
<1>8. Rec(c)
  <2>1. c = [t \in SUBSET (1 .. n) |-> c[t]] /\ c[{}] = <<>>
    BY <1>5 DEF FoldRecursion
  <2> QED
    BY <1>7, <2>1
<1>9. PICK f : f = (CHOOSE g : Rec(g)) /\ Rec(f)
  <2>1. \E g : Rec(g)
    BY <1>8
  <2> HIDE DEF Rec
  <2> QED
    BY <2>1, Zenon
<1>10. Only(s, S) = f[1 .. n]
  <2>1. Only(s, S) = (CHOOSE g : Rec(g))[1 .. n]
    BY <1>1 DEF Only, FoldLeft, MapThenFoldSet
  <2> HIDE DEF Rec
  <2> QED
    BY <1>9, <2>1
<1>11. FoldStep(f, Seq(T), <<>>, n, G)
  <2>1. f[{}] = <<>>
    BY <1>9
  <2>2. ASSUME NEW t \in SUBSET (1 .. n), t # {}, f[t \ {Max(t)}] \in Seq(T)
        PROVE  f[t] = G[<<f[t \ {Max(t)}], Max(t)>>]
    <3>1. f[t] = IF s[Max(t)] \in S THEN Append(f[t \ {Max(t)}], s[Max(t)])
                 ELSE f[t \ {Max(t)}]
      BY <1>9, <2>2
    <3> HIDE DEF Rec
    <3> QED
      BY <1>4, <1>6, <2>2, <3>1
  <2> HIDE DEF Rec
  <2> QED
    BY <2>1, <2>2 DEF FoldStep
<1>12. PICK h : Recursion(h, Seq(T), <<>>, n, G) /\ h[n] = f[1 .. n]
  <2>1. EndsIn(f[1 .. n], Seq(T), <<>>, n, G)
    <3> HIDE DEF Rec
    <3> QED
      BY <1>1, <1>3, <1>11, FoldIdentified
  <2> HIDE DEF Rec
  <2> QED
    BY <2>1 DEF EndsIn
<1>13. \A k \in 1 .. n : h[k - 1] \in Seq(T)
  BY <1>1, <1>12 DEF Recursion
<1>14. SelectsAlong(h, T, s, S)
  BY <1>4, <1>12, <1>13 DEF Recursion, SelectsAlong, n
<1> QED
  BY <1>10, <1>12, <1>14 DEF n

NoRepeats(s) == \A i, j \in 1 .. Len(s) : s[i] = s[j] => i = j

\* Two sequences of one length with the same members are equal.
LEMMA SameMembers ==
    ASSUME NEW X
    PROVE  \A u, v \in Seq(X) : Len(u) = Len(v) /\ (\A k \in 1 .. Len(u) : u[k] = v[k]) => u = v
    OBVIOUS

\* Members of a sequence, by their positions.
LEMMA Members ==
    ASSUME NEW T, NEW s \in Seq(T)
    PROVE  /\ ToSet(s) = {s[i] : i \in 1 .. Len(s)}
           /\ ToSet(s) \subseteq T
           /\ s = <<>> <=> ToSet(s) = {}
<1>1. DOMAIN s = 1 .. Len(s) /\ Len(s) \in Nat /\ \A i \in 1 .. Len(s) : s[i] \in T
  OBVIOUS
<1>2. ToSet(s) = {s[i] : i \in 1 .. Len(s)}
  BY <1>1 DEF ToSet
<1>3. s = <<>> <=> Len(s) = 0
  OBVIOUS
<1>4. Len(s) # 0 => 1 \in 1 .. Len(s)
  BY <1>1
<1> QED
  BY <1>1, <1>2, <1>3, <1>4

\* Appending a member.
LEMMA AppendMembers ==
    ASSUME NEW T, NEW s \in Seq(T), NEW x \in T
    PROVE  /\ Append(s, x) \in Seq(T)
           /\ ToSet(Append(s, x)) = ToSet(s) \cup {x}
           /\ NoRepeats(s) /\ x \notin ToSet(s) => NoRepeats(Append(s, x))
<1>1. /\ Append(s, x) \in Seq(T) /\ Len(Append(s, x)) = Len(s) + 1 /\ Len(s) \in Nat
      /\ \A i \in 1 .. Len(s) : Append(s, x)[i] = s[i]
      /\ Append(s, x)[Len(s) + 1] = x
  OBVIOUS
<1>2. /\ ToSet(s) = {s[i] : i \in 1 .. Len(s)}
      /\ ToSet(Append(s, x)) = {Append(s, x)[i] : i \in 1 .. Len(Append(s, x))}
  BY <1>1, Members
<1> DEFINE a == Append(s, x)
<1> HIDE DEF a
<1>3. \A i \in 1 .. Len(s) + 1 : i \in 1 .. Len(s) \/ i = Len(s) + 1
  BY <1>1
<1>4. ToSet(a) = ToSet(s) \cup {x}
  <2>1. ASSUME NEW y \in ToSet(a) PROVE y \in ToSet(s) \cup {x}
    BY <1>1, <1>2, <1>3, <2>1 DEF a
  <2>2. ASSUME NEW y \in ToSet(s) PROVE y \in ToSet(a)
    <3>1. PICK i \in 1 .. Len(s) : y = s[i]
      BY <1>2
    <3>2. i \in 1 .. Len(a) /\ a[i] = y
      BY <1>1, <3>1 DEF a
    <3> QED
      BY <1>2, <3>2 DEF a
  <2>3. x \in ToSet(a)
    <3>1. Len(s) + 1 \in 1 .. Len(a) /\ a[Len(s) + 1] = x
      BY <1>1 DEF a
    <3> QED
      BY <1>2, <3>1 DEF a
  <2> QED
    BY <2>1, <2>2, <2>3
<1>5. ASSUME NoRepeats(s), x \notin ToSet(s) PROVE NoRepeats(a)
  <2> SUFFICES ASSUME NEW i \in 1 .. Len(s) + 1, NEW j \in 1 .. Len(s) + 1, a[i] = a[j]
               PROVE  i = j
    BY <1>1 DEF NoRepeats, a
  <2>1. \A k \in 1 .. Len(s) : s[k] # x /\ a[k] = s[k]
    BY <1>1, <1>2, <1>5 DEF a
  <2>2. a[Len(s) + 1] = x
    BY <1>1 DEF a
  <2> QED
    BY <1>3, <1>5, <2>1, <2>2 DEF NoRepeats
<1> QED
  BY <1>1, <1>4, <1>5 DEF a

\* Joining two sequences.
LEMMA ConcatMembers ==
    ASSUME NEW T, NEW s \in Seq(T), NEW t \in Seq(T)
    PROVE  /\ s \o t \in Seq(T)
           /\ ToSet(s \o t) = ToSet(s) \cup ToSet(t)
           /\ NoRepeats(s) /\ NoRepeats(t) /\ ToSet(s) \cap ToSet(t) = {} => NoRepeats(s \o t)
<1> DEFINE a == s \o t
<1>1. /\ a \in Seq(T) /\ Len(a) = Len(s) + Len(t) /\ Len(s) \in Nat /\ Len(t) \in Nat
      /\ \A i \in 1 .. Len(s) : a[i] = s[i]
      /\ \A i \in 1 .. Len(t) : a[Len(s) + i] = t[i]
  OBVIOUS
<1> HIDE DEF a
<1>2. /\ ToSet(s) = {s[i] : i \in 1 .. Len(s)}
      /\ ToSet(t) = {t[i] : i \in 1 .. Len(t)}
      /\ ToSet(a) = {a[i] : i \in 1 .. Len(a)}
  BY <1>1, Members
<1>3. ASSUME NEW i \in 1 .. Len(a)
      PROVE  \/ i \in 1 .. Len(s) /\ a[i] = s[i]
             \/ i - Len(s) \in 1 .. Len(t) /\ a[i] = t[i - Len(s)]
  <2>1. CASE i \in 1 .. Len(s)
    BY <1>1, <2>1
  <2>2. CASE i \notin 1 .. Len(s)
    <3>1. i - Len(s) \in 1 .. Len(t) /\ Len(s) + (i - Len(s)) = i
      BY <1>1, <2>2
    <3> QED
      BY <1>1, <3>1
  <2> QED
    BY <2>1, <2>2
<1>4. ToSet(a) = ToSet(s) \cup ToSet(t)
  <2>1. ASSUME NEW y \in ToSet(a) PROVE y \in ToSet(s) \cup ToSet(t)
    BY <1>2, <1>3, <2>1
  <2>2. ASSUME NEW y \in ToSet(s) PROVE y \in ToSet(a)
    <3>1. PICK i \in 1 .. Len(s) : y = s[i]
      BY <1>2
    <3>2. i \in 1 .. Len(a) /\ a[i] = y
      BY <1>1, <3>1
    <3> QED
      BY <1>2, <3>2
  <2>3. ASSUME NEW y \in ToSet(t) PROVE y \in ToSet(a)
    <3>1. PICK i \in 1 .. Len(t) : y = t[i]
      BY <1>2
    <3>2. Len(s) + i \in 1 .. Len(a) /\ a[Len(s) + i] = y
      BY <1>1, <3>1
    <3> QED
      BY <1>2, <3>2
  <2> QED
    BY <2>1, <2>2, <2>3
<1>5. ASSUME NoRepeats(s), NoRepeats(t), ToSet(s) \cap ToSet(t) = {} PROVE NoRepeats(a)
  <2> SUFFICES ASSUME NEW i \in 1 .. Len(a), NEW j \in 1 .. Len(a), a[i] = a[j]
               PROVE  i = j
    BY DEF NoRepeats
  <2>1. \A k \in 1 .. Len(s), l \in 1 .. Len(t) : s[k] # t[l]
    BY <1>2, <1>5
  <2>2. CASE i \in 1 .. Len(s) /\ a[i] = s[i]
    BY <1>3, <1>5, <2>1, <2>2 DEF NoRepeats
  <2>3. CASE i - Len(s) \in 1 .. Len(t) /\ a[i] = t[i - Len(s)]
    <3>1. j - Len(s) \in 1 .. Len(t) /\ a[j] = t[j - Len(s)]
      BY <1>3, <2>1, <2>3
    <3>2. i - Len(s) = j - Len(s)
      BY <1>5, <2>3, <3>1 DEF NoRepeats
    <3> QED
      BY <1>1, <3>2
  <2> QED
    BY <1>3, <2>2, <2>3
<1> QED
  BY <1>1, <1>4, <1>5 DEF a

\* Cutting a sequence in two.
LEMMA CutMembers ==
    ASSUME NEW T, NEW s \in Seq(T), NEW n \in 0 .. Len(s)
    PROVE  /\ SubSeq(s, 1, n) \in Seq(T) /\ SubSeq(s, n + 1, Len(s)) \in Seq(T)
           /\ ToSet(SubSeq(s, 1, n)) = {s[i] : i \in 1 .. n}
           /\ ToSet(SubSeq(s, n + 1, Len(s))) = {s[i] : i \in n + 1 .. Len(s)}
           /\ ToSet(s) = ToSet(SubSeq(s, 1, n)) \cup ToSet(SubSeq(s, n + 1, Len(s)))
           /\ NoRepeats(s) => /\ NoRepeats(SubSeq(s, 1, n))
                              /\ NoRepeats(SubSeq(s, n + 1, Len(s)))
                              /\ ToSet(SubSeq(s, 1, n)) \cap ToSet(SubSeq(s, n + 1, Len(s))) = {}
<1> DEFINE a == SubSeq(s, 1, n)
           b == SubSeq(s, n + 1, Len(s))
<1>1. /\ a \in Seq(T) /\ Len(a) = n /\ \A i \in 1 .. n : a[i] = s[i]
      /\ b \in Seq(T) /\ Len(b) = Len(s) - n /\ \A i \in 1 .. Len(s) - n : b[i] = s[n + i]
      /\ Len(s) \in Nat
  OBVIOUS
<1> HIDE DEF a, b
<1>2. /\ ToSet(a) = {a[i] : i \in 1 .. n}
      /\ ToSet(b) = {b[i] : i \in 1 .. Len(s) - n}
      /\ ToSet(s) = {s[i] : i \in 1 .. Len(s)}
  <2>1. ToSet(a) = {a[i] : i \in 1 .. Len(a)} /\ ToSet(b) = {b[i] : i \in 1 .. Len(b)}
    BY <1>1, Members
  <2>2. ToSet(s) = {s[i] : i \in 1 .. Len(s)}
    BY Members
  <2> QED
    BY <1>1, <2>1, <2>2
<1>3. ToSet(a) = {s[i] : i \in 1 .. n}
  BY <1>1, <1>2
<1>4. ToSet(b) = {s[i] : i \in n + 1 .. Len(s)}
  <2>1. \A i \in 1 .. Len(s) - n : n + i \in n + 1 .. Len(s)
    BY <1>1
  <2>2. \A i \in n + 1 .. Len(s) : i - n \in 1 .. Len(s) - n /\ n + (i - n) = i
    BY <1>1
  <2>3. ASSUME NEW y \in ToSet(b) PROVE y \in {s[i] : i \in n + 1 .. Len(s)}
    <3>1. PICK i \in 1 .. Len(s) - n : y = b[i]
      BY <1>2
    <3> QED
      BY <1>1, <2>1, <3>1
  <2>4. ASSUME NEW i \in n + 1 .. Len(s) PROVE s[i] \in ToSet(b)
    <3>1. b[i - n] = s[i]
      BY <1>1, <2>2
    <3> QED
      BY <1>2, <2>2, <3>1
  <2> QED
    BY <2>3, <2>4
<1>5. \A i \in 1 .. Len(s) : i \in 1 .. n \/ i \in n + 1 .. Len(s)
  BY <1>1
<1>6. /\ \A i \in 1 .. n : i \in 1 .. Len(s)
      /\ \A i \in n + 1 .. Len(s) : i \in 1 .. Len(s) /\ i \notin 1 .. n
  BY <1>1
<1>7. ToSet(s) = ToSet(a) \cup ToSet(b)
  BY <1>2, <1>3, <1>4, <1>5, <1>6
<1>8. ASSUME NoRepeats(s)
      PROVE  NoRepeats(a) /\ NoRepeats(b) /\ ToSet(a) \cap ToSet(b) = {}
  <2>1. NoRepeats(a)
    BY <1>1, <1>6, <1>8 DEF NoRepeats
  <2>2. NoRepeats(b)
    <3> SUFFICES ASSUME NEW i \in 1 .. Len(s) - n, NEW j \in 1 .. Len(s) - n, b[i] = b[j]
                 PROVE  i = j
      BY <1>1 DEF NoRepeats
    <3>1. n + i \in 1 .. Len(s) /\ n + j \in 1 .. Len(s) /\ s[n + i] = s[n + j]
      BY <1>1
    <3>2. n + i = n + j
      BY <1>8, <3>1 DEF NoRepeats
    <3> QED
      BY <1>1, <3>2
  <2>3. ToSet(a) \cap ToSet(b) = {}
    BY <1>3, <1>4, <1>6, <1>8 DEF NoRepeats
  <2> QED
    BY <2>1, <2>2, <2>3
<1> QED
  BY <1>1, <1>3, <1>4, <1>7, <1>8 DEF a, b

\* The head of a sequence and the rest.
LEMMA HeadMembers ==
    ASSUME NEW T, NEW s \in Seq(T), s # <<>>
    PROVE  /\ Head(s) \in T /\ Head(s) \in ToSet(s)
           /\ Tail(s) \in Seq(T)
           /\ ToSet(s) = ToSet(Tail(s)) \cup {Head(s)}
           /\ NoRepeats(s) => NoRepeats(Tail(s)) /\ Head(s) \notin ToSet(Tail(s))
<1>1. /\ 1 \in 0 .. Len(s) /\ 1 \in 1 .. Len(s) /\ Head(s) = s[1] /\ Head(s) \in T
      /\ Tail(s) \in Seq(T)
  OBVIOUS
<1>2. Tail(s) = SubSeq(s, 1 + 1, Len(s))
  OBVIOUS
<1>3. ToSet(SubSeq(s, 1, 1)) = {Head(s)}
  <2>1. ToSet(SubSeq(s, 1, 1)) = {s[i] : i \in 1 .. 1}
    BY <1>1, CutMembers
  <2> QED
    BY <1>1, <2>1
<1>4. /\ ToSet(s) = ToSet(SubSeq(s, 1, 1)) \cup ToSet(SubSeq(s, 1 + 1, Len(s)))
      /\ NoRepeats(s) => /\ NoRepeats(SubSeq(s, 1 + 1, Len(s)))
                         /\ ToSet(SubSeq(s, 1, 1)) \cap ToSet(SubSeq(s, 1 + 1, Len(s))) = {}
  BY <1>1, CutMembers
<1> QED
  BY <1>1, <1>2, <1>3, <1>4

\* A sequence without repeats has each member at one position.
LEMMA OccursOnce ==
    ASSUME NEW T, NEW s \in Seq(T), NoRepeats(s), NEW x
    PROVE  Cardinality({i \in 1 .. Len(s) : s[i] = x}) = IF x \in ToSet(s) THEN 1 ELSE 0
<1>1. CASE x \in ToSet(s)
  <2>1. PICK i \in 1 .. Len(s) : s[i] = x
    BY <1>1, Members
  <2>2. {k \in 1 .. Len(s) : s[k] = x} = {i}
    BY <2>1 DEF NoRepeats
  <2> QED
    BY <1>1, <2>2, FS_Singleton
<1>2. CASE x \notin ToSet(s)
  <2>1. {k \in 1 .. Len(s) : s[k] = x} = {}
    BY <1>2, Members
  <2> QED
    BY <1>2, <2>1, FS_EmptySet
<1> QED
  BY <1>1, <1>2

\* A selection keeps the members in S, each as often as before.
LEMMA OnlyMembers ==
    ASSUME NEW T, NEW s \in Seq(T), NEW S
    PROVE  /\ Only(s, S) \in Seq(T)
           /\ ToSet(Only(s, S)) = ToSet(s) \cap S
           /\ NoRepeats(s) => NoRepeats(Only(s, S))
<1>0. PICK h : SelectsAlong(h, T, s, S) /\ Only(s, S) = h[Len(s)]
  BY OnlyAlong
<1>1. /\ h \in [0 .. Len(s) -> Seq(T)]
      /\ h[0] = <<>>
      /\ \A k \in 1 .. Len(s) :
            h[k] = IF s[k] \in S THEN Append(h[k - 1], s[k]) ELSE h[k - 1]
      /\ Only(s, S) = h[Len(s)]
  BY <1>0 DEF SelectsAlong
<1>2. Len(s) \in Nat /\ \A i \in 1 .. Len(s) : s[i] \in T
  OBVIOUS
<1> DEFINE Upto(k) == {s[i] : i \in 1 .. k}
           Good(k) == /\ ToSet(h[k]) = Upto(k) \cap S
                      /\ NoRepeats(s) => NoRepeats(h[k])
           D == {k \in 0 .. Len(s) : ~Good(k)}
<1>3. D = {}
  <2> SUFFICES ASSUME D # {} PROVE FALSE
    OBVIOUS
  <2>1. D \in SUBSET (0 .. Len(s))
    OBVIOUS
  <2>2. PICK m \in D : m \in 0 .. Len(s) /\ \A y \in 0 .. Len(s) : y < m => y \notin D
    <3> HIDE DEF D
    <3> QED
      BY <1>2, <2>1, LeastUpTo
  <2>3. m # 0
    <3>1. Good(0)
      <4>1. Upto(0) = {} /\ ToSet(<<>>) = {} /\ NoRepeats(<<>>)
        BY DEF ToSet, NoRepeats
      <4> QED
        BY <1>1, <4>1
    <3> QED
      BY <2>2, <3>1
  <2>4. m \in 1 .. Len(s) /\ m - 1 \in 0 .. Len(s) /\ m - 1 < m
    BY <1>2, <2>2, <2>3
  <2>5. Good(m - 1)
    BY <2>2, <2>4
  <2>6. Upto(m) = Upto(m - 1) \cup {s[m]}
    <3>1. \A i \in 1 .. m : i \in 1 .. m - 1 \/ i = m
      BY <2>4
    <3>2. m \in 1 .. m /\ \A i \in 1 .. m - 1 : i \in 1 .. m
      BY <2>4
    <3> QED
      BY <3>1, <3>2
  <2>7. h[m - 1] \in Seq(T) /\ s[m] \in T
    BY <1>1, <1>2, <2>4
  <2>8. NoRepeats(s) => s[m] \notin Upto(m - 1)
    <3>1. \A i \in 1 .. m - 1 : i \in 1 .. Len(s) /\ i # m
      BY <1>2, <2>4
    <3> QED
      BY <2>4, <3>1 DEF NoRepeats
  <2> HIDE DEF Upto
  <2>9. CASE s[m] \in S
    <3>1. h[m] = Append(h[m - 1], s[m])
      BY <1>1, <2>4, <2>9
    <3>2. /\ ToSet(h[m]) = ToSet(h[m - 1]) \cup {s[m]}
          /\ NoRepeats(h[m - 1]) /\ s[m] \notin ToSet(h[m - 1]) => NoRepeats(h[m])
      BY <2>7, <3>1, AppendMembers
    <3>3. ToSet(h[m]) = Upto(m) \cap S
      BY <2>5, <2>6, <2>9, <3>2
    <3>4. NoRepeats(s) => NoRepeats(h[m])
      BY <2>5, <2>8, <3>2
    <3> QED
      BY <2>2, <3>3, <3>4
  <2>10. CASE s[m] \notin S
    <3>1. h[m] = h[m - 1]
      BY <1>1, <2>4, <2>10
    <3>2. ToSet(h[m]) = Upto(m) \cap S
      BY <2>5, <2>6, <2>10, <3>1
    <3>3. NoRepeats(s) => NoRepeats(h[m])
      BY <2>5, <3>1
    <3> QED
      BY <2>2, <3>2, <3>3
  <2> QED
    BY <2>9, <2>10
<1>4. Good(Len(s))
  <2>1. Len(s) \in 0 .. Len(s)
    BY <1>2
  <2> QED
    BY <1>3, <2>1
<1>5. Upto(Len(s)) = ToSet(s)
  BY Members
<1> QED
  BY <1>1, <1>2, <1>4, <1>5
TakesAlong(h, T, s) ==
    /\ h \in [0 .. Len(s) -> Seq(T)]
    /\ h[0] = <<>>
    /\ \A k \in 1 .. Len(s) : h[k] \in {h[k - 1], Append(h[k - 1], s[k])}

\* What appends some members on its way along a sequence has only members of
\* it, each as often as it.
LEMMA TakenMembers ==
    ASSUME NEW T, NEW s \in Seq(T), NEW h, TakesAlong(h, T, s)
    PROVE  /\ h[Len(s)] \in Seq(T)
           /\ ToSet(h[Len(s)]) \subseteq ToSet(s)
           /\ NoRepeats(s) => NoRepeats(h[Len(s)])
<1>1. /\ h \in [0 .. Len(s) -> Seq(T)] /\ h[0] = <<>>
      /\ \A k \in 1 .. Len(s) : h[k] \in {h[k - 1], Append(h[k - 1], s[k])}
  BY DEF TakesAlong
<1>2. Len(s) \in Nat /\ \A i \in 1 .. Len(s) : s[i] \in T
  OBVIOUS
<1> DEFINE Upto(k) == {s[i] : i \in 1 .. k}
           Good(k) == /\ ToSet(h[k]) \subseteq Upto(k)
                      /\ NoRepeats(s) => NoRepeats(h[k])
           D == {k \in 0 .. Len(s) : ~Good(k)}
<1>3. D = {}
  <2> SUFFICES ASSUME D # {} PROVE FALSE
    OBVIOUS
  <2>1. D \in SUBSET (0 .. Len(s))
    OBVIOUS
  <2>2. PICK m \in D : m \in 0 .. Len(s) /\ \A y \in 0 .. Len(s) : y < m => y \notin D
    <3> HIDE DEF D
    <3> QED
      BY <1>2, <2>1, LeastUpTo
  <2>3. m # 0
    <3>1. Good(0)
      BY <1>1 DEF ToSet, NoRepeats
    <3> QED
      BY <2>2, <3>1
  <2>4. m \in 1 .. Len(s) /\ m - 1 \in 0 .. Len(s) /\ m - 1 < m
    BY <1>2, <2>2, <2>3
  <2>5. Good(m - 1)
    BY <2>2, <2>4
  <2>6. Upto(m - 1) \subseteq Upto(m) /\ s[m] \in Upto(m)
    BY <2>4
  <2>7. h[m - 1] \in Seq(T) /\ s[m] \in T
    BY <1>1, <1>2, <2>4
  <2>8. NoRepeats(s) => s[m] \notin Upto(m - 1)
    <3>1. \A i \in 1 .. m - 1 : i \in 1 .. Len(s) /\ i # m
      BY <1>2, <2>4
    <3> QED
      BY <2>4, <3>1 DEF NoRepeats
  <2> HIDE DEF Upto
  <2>9. CASE h[m] = h[m - 1]
    <3>1. Good(m)
      BY <2>5, <2>6, <2>9
    <3> QED
      BY <2>2, <3>1
  <2>10. CASE h[m] = Append(h[m - 1], s[m])
    <3>1. /\ ToSet(h[m]) = ToSet(h[m - 1]) \cup {s[m]}
          /\ NoRepeats(h[m - 1]) /\ s[m] \notin ToSet(h[m - 1]) => NoRepeats(h[m])
      BY <2>7, <2>10, AppendMembers
    <3>2. Good(m)
      BY <2>5, <2>6, <2>8, <3>1
    <3> QED
      BY <2>2, <3>2
  <2> QED
    BY <1>1, <2>4, <2>9, <2>10
<1>4. Good(Len(s))
  <2>1. Len(s) \in 0 .. Len(s)
    BY <1>2
  <2> QED
    BY <1>3, <2>1
<1>5. Upto(Len(s)) = ToSet(s)
  BY Members
<1> QED
  BY <1>1, <1>2, <1>4, <1>5
\* SetToSeq lists a finite set without repeats.
LEMMA ListedSet ==
    ASSUME NEW T, NEW S \in SUBSET T, IsFiniteSet(S)
    PROVE  SetToSeq(S) \in Seq(T) /\ ToSet(SetToSeq(S)) = S /\ NoRepeats(SetToSeq(S))
<1> DEFINE n == Cardinality(S)
<1>1. n \in Nat /\ IsFiniteSet(1 .. n) /\ Cardinality(1 .. n) = n
  BY FS_CardinalityType, FS_Interval
<1>2. \E f \in [1 .. n -> S] : IsInjective(f)
  <2>1. PICK f \in Bijection(1 .. n, S) : TRUE
    <3>1. ExistsBijection(1 .. n, S)
      BY <1>1, FS_SameCardinalityBij
    <3> QED
      BY <3>1 DEF ExistsBijection
  <2> QED
    BY <2>1 DEF Bijection, Injection, IsInjective
<1>3. PICK f \in [1 .. n -> S] : f = SetToSeq(S) /\ IsInjective(f)
  BY <1>2, Zenon DEF SetToSeq
<1>4. f \in Surjection(1 .. n, S)
  <2>1. f \in Injection(1 .. n, S)
    BY <1>3 DEF Injection
  <2> QED
    BY <1>1, <2>1, FS_Injection
<1>5. f \in Seq(T) /\ Len(f) = n /\ DOMAIN f = 1 .. n
  BY <1>1
<1>6. ToSet(f) = S
  BY <1>4, <1>5 DEF ToSet, Surjection
<1>7. NoRepeats(f)
  BY <1>3, <1>5 DEF NoRepeats, IsInjective
<1> QED
  BY <1>3, <1>5, <1>6, <1>7

\* The members of a sequence are finitely many.
LEMMA MembersFinite ==
    ASSUME NEW T, NEW s \in Seq(T)
    PROVE  IsFiniteSet(ToSet(s))
<1>1. IsFiniteSet(1 .. Len(s))
  BY FS_Interval
<1>2. s \in Surjection(1 .. Len(s), ToSet(s))
  BY DEF Surjection, ToSet
<1> QED
  BY <1>1, <1>2, FS_Surjection

\* As many members as positions, when none comes twice.
LEMMA CountMembers ==
    ASSUME NEW T, NEW s \in Seq(T), NoRepeats(s)
    PROVE  IsFiniteSet(ToSet(s)) /\ Cardinality(ToSet(s)) = Len(s)
<1>1. Len(s) \in Nat /\ IsFiniteSet(1 .. Len(s)) /\ Cardinality(1 .. Len(s)) = Len(s)
  <2>1. Len(s) \in Nat
    OBVIOUS
  <2> QED
    BY <2>1, CountUpTo
<1>2. s \in Bijection(1 .. Len(s), ToSet(s))
  BY DEF Bijection, Injection, Surjection, IsInjective, ToSet, NoRepeats
<1>3. ExistsBijection(1 .. Len(s), ToSet(s))
  BY <1>2 DEF ExistsBijection
<1> QED
  BY <1>1, <1>3, FS_Bijection

\* Without repetition and with one member, it is the sequence of that member.
LEMMA OneMember ==
    ASSUME NEW T, NEW s \in Seq(T), NoRepeats(s), NEW x, ToSet(s) = {x}
    PROVE  s = <<x>>
<1>1. Len(s) = 1
  <2>1. Cardinality({x}) = 1
    BY FS_Singleton
  <2> QED
    BY <2>1, CountMembers
<1>2. s[1] = x /\ x \in T
  BY <1>1, Members
<1> QED
  BY <1>1, <1>2

\* Sets that agree on the members select the same.
LEMMA OnlySame ==
    ASSUME NEW T, NEW s \in Seq(T), NEW S, NEW R, \A x \in ToSet(s) : x \in S <=> x \in R
    PROVE  Only(s, S) = Only(s, R)
<1>1. PICK h : SelectsAlong(h, T, s, S) /\ Only(s, S) = h[Len(s)]
  BY OnlyAlong
<1>2. PICK g : SelectsAlong(g, T, s, R) /\ Only(s, R) = g[Len(s)]
  BY OnlyAlong
<1>3. Len(s) \in Nat /\ \A k \in 1 .. Len(s) : s[k] \in S <=> s[k] \in R
  BY Members
<1> DEFINE D == {k \in 0 .. Len(s) : h[k] # g[k]}
<1>4. D = {}
  <2>1. SUFFICES ASSUME D # {} PROVE FALSE
    OBVIOUS
  <2>2. D \in SUBSET (0 .. Len(s))
    OBVIOUS
  <2>3. PICK m \in D : m \in 0 .. Len(s) /\ \A k \in 0 .. Len(s) : k < m => k \notin D
    <3> HIDE DEF D
    <3> QED
      BY <1>3, <2>1, <2>2, LeastUpTo
  <2>4. m # 0
    <3>1. h[0] = <<>> /\ g[0] = <<>> /\ h[m] # g[m]
      BY <1>1, <1>2 DEF SelectsAlong
    <3> HIDE DEF D
    <3> QED
      BY <3>1
  <2>5. m \in 1 .. Len(s) /\ m - 1 \in 0 .. Len(s) /\ m - 1 < m
    BY <1>3, <2>3, <2>4
  <2>6. h[m - 1] = g[m - 1]
    BY <2>3, <2>5
  <2>7. h[m] = g[m]
    BY <1>1, <1>2, <1>3, <2>5, <2>6 DEF SelectsAlong
  <2> QED
    BY <2>3, <2>7
<1> QED
  <2>1. Len(s) \in 0 .. Len(s)
    BY <1>3
  <2> QED
    BY <1>1, <1>2, <1>4, <2>1

\* The selected members lie in the sequence in the same order.
InOrder(e, t, s) ==
    /\ e \in [1 .. Len(t) -> 1 .. Len(s)]
    /\ \A i \in 1 .. Len(t) : t[i] = s[e[i]]
    /\ \A i, j \in 1 .. Len(t) : i < j => e[i] < e[j]

LEMMA OnlyInOrder ==
    ASSUME NEW T, NEW s \in Seq(T), NEW S
    PROVE  \E e : InOrder(e, Only(s, S), s)
<1>1. PICK h : SelectsAlong(h, T, s, S) /\ Only(s, S) = h[Len(s)]
  BY OnlyAlong
<1>2. /\ Len(s) \in Nat
      /\ h \in [0 .. Len(s) -> Seq(T)] /\ h[0] = <<>>
      /\ \A k \in 1 .. Len(s) :
            h[k] = IF s[k] \in S THEN Append(h[k - 1], s[k]) ELSE h[k - 1]
  BY <1>1, Len(s) \in Nat DEF SelectsAlong
<1> DEFINE Good(k) == \E e \in [1 .. Len(h[k]) -> 1 .. k] :
                        /\ \A i \in 1 .. Len(h[k]) : h[k][i] = s[e[i]]
                        /\ \A i, j \in 1 .. Len(h[k]) : i < j => e[i] < e[j]
           D == {k \in 0 .. Len(s) : ~Good(k)}
<1>3. D = {}
  <2>1. SUFFICES ASSUME D # {} PROVE FALSE
    OBVIOUS
  <2>2. D \in SUBSET (0 .. Len(s))
    OBVIOUS
  <2>3. PICK m \in D : m \in 0 .. Len(s) /\ \A k \in 0 .. Len(s) : k < m => k \notin D
    <3> HIDE DEF D
    <3> QED
      BY <1>2, <2>1, <2>2, LeastUpTo
  <2>4. m # 0
    <3>1. Good(0)
      <4>1. Len(h[0]) = 0 /\ 1 .. 0 = {}
        BY <1>2
      <4>2. [i \in 1 .. 0 |-> i] \in [1 .. Len(h[0]) -> 1 .. 0]
        BY <4>1
      <4> QED
        BY <4>1, <4>2
    <3> QED
      BY <2>3, <3>1
  <2>5. m \in 1 .. Len(s) /\ m - 1 \in 0 .. Len(s) /\ m - 1 < m
    BY <1>2, <2>3, <2>4
  <2>6. Good(m - 1)
    BY <2>3, <2>5
  <2>7. PICK e \in [1 .. Len(h[m - 1]) -> 1 .. m - 1] :
            /\ \A i \in 1 .. Len(h[m - 1]) : h[m - 1][i] = s[e[i]]
            /\ \A i, j \in 1 .. Len(h[m - 1]) : i < j => e[i] < e[j]
    BY <2>6
  <2>8. h[m - 1] \in Seq(T) /\ Len(h[m - 1]) \in Nat /\ s[m] \in T
    BY <1>2, <2>5
  <2>9. Good(m)
    <3>1. CASE s[m] \in S
      <4> HIDE DEF Good, D
      <4>l. PICK l \in Nat : l = Len(h[m - 1])
        BY <2>8
      <4> DEFINE d == [i \in 1 .. l + 1 |-> IF i = l + 1 THEN m ELSE e[i]]
      <4>1. /\ Len(h[m]) = l + 1 /\ h[m][l + 1] = s[m]
            /\ \A i \in 1 .. l : h[m][i] = h[m - 1][i]
        <5>1. h[m] = Append(h[m - 1], s[m])
          BY <1>2, <2>5, <3>1
        <5>2. PICK u \in Seq(T) : u = h[m - 1] /\ Len(u) = l
          BY <2>8, <4>l
        <5>3. PICK y \in T : y = s[m]
          BY <2>8
        <5>4. Len(Append(u, y)) = l + 1 /\ Append(u, y)[l + 1] = y
              /\ \A i \in 1 .. l : Append(u, y)[i] = u[i]
          BY <5>2
        <5> QED
          BY <5>1, <5>2, <5>3, <5>4
      <4>2. \A i \in 1 .. l + 1 : i \in 1 .. l \/ i = l + 1
        OBVIOUS
      <4>3. \A i \in 1 .. l : e[i] \in 1 .. m - 1 /\ d[i] = e[i]
        BY <2>7, <4>l
      <4>4. d[l + 1] = m
        OBVIOUS
      <4>5. d \in [1 .. l + 1 -> 1 .. m]
        <5>1. \A i \in 1 .. l + 1 : d[i] \in 1 .. m
          <6> HIDE DEF d
          <6>1. m \in Nat /\ m \in 1 .. m
            BY <1>2, <2>5
          <6>2. \A i \in 1 .. l : d[i] \in 1 .. m
            BY <4>3, <6>1
          <6> QED
            BY <4>2, <4>4, <6>1, <6>2
        <5> QED
          BY <5>1
      <4> HIDE DEF d
      <4>6. \A i \in 1 .. l + 1 : h[m][i] = s[d[i]]
        BY <2>7, <4>l, <4>1, <4>2, <4>3, <4>4
      <4>7. \A i, j \in 1 .. l + 1 : i < j => d[i] < d[j]
        <5> SUFFICES ASSUME NEW i \in 1 .. l + 1, NEW j \in 1 .. l + 1, i < j
                     PROVE  d[i] < d[j]
          OBVIOUS
        <5>1. i \in 1 .. l
          OBVIOUS
        <5>2. CASE j \in 1 .. l
          BY <2>7, <4>l, <4>3, <5>1, <5>2
        <5>3. CASE j = l + 1
          BY <2>5, <4>3, <4>4, <5>1, <5>3
        <5> QED
          BY <4>2, <5>2, <5>3
      <4> QED
        BY <4>1, <4>5, <4>6, <4>7 DEF Good
    <3>2. CASE s[m] \notin S
      <4>1. h[m] = h[m - 1]
        BY <1>2, <2>5, <3>2
      <4>2. e \in [1 .. Len(h[m]) -> 1 .. m]
        BY <2>5, <2>7, <4>1
      <4> QED
        BY <2>7, <4>1, <4>2
    <3> QED
      BY <3>1, <3>2
  <2> QED
    BY <2>3, <2>9
<1>4. Good(Len(s))
  <2>1. Len(s) \in 0 .. Len(s)
    BY <1>2
  <2> HIDE DEF Good
  <2> QED
    BY <1>3, <2>1
<1> QED
  BY <1>1, <1>4 DEF InOrder

\* Increasing positions are never below the index.
LEMMA Increasing ==
    ASSUME NEW n \in Nat, NEW e \in [1 .. n -> Nat \ {0}],
           \A i, j \in 1 .. n : i < j => e[i] < e[j]
    PROVE  \A i \in 1 .. n : i <= e[i]
<1> DEFINE D == {i \in 0 .. n : i # 0 /\ ~(i <= e[i])}
<1>1. D = {}
  <2>1. SUFFICES ASSUME D # {} PROVE FALSE
    OBVIOUS
  <2>2. D \in SUBSET (0 .. n)
    OBVIOUS
  <2>3. PICK m \in D : m \in 0 .. n /\ \A k \in 0 .. n : k < m => k \notin D
    <3> HIDE DEF D
    <3> QED
      BY <2>1, <2>2, LeastUpTo
  <2>4. m \in 1 .. n /\ ~(m <= e[m]) /\ e[m] \in Nat \ {0}
    BY <2>3
  <2>5. m # 1
    BY <2>4
  <2>6. m - 1 \in 1 .. n /\ m - 1 \in 0 .. n /\ m - 1 < m
    BY <2>4, <2>5
  <2>7. m - 1 <= e[m - 1] /\ e[m - 1] < e[m] /\ e[m - 1] \in Nat
    BY <2>3, <2>4, <2>6
  <2> QED
    BY <2>4, <2>7
<1> QED
  BY <1>1

\* What keeps every member keeps the sequence.
LEMMA OnlyAll ==
    ASSUME NEW T, NEW s \in Seq(T), NEW S, ToSet(s) \subseteq S, NoRepeats(s)
    PROVE  Only(s, S) = s
<1>1. /\ Only(s, S) \in Seq(T) /\ ToSet(Only(s, S)) = ToSet(s) /\ NoRepeats(Only(s, S))
      /\ Len(s) \in Nat
  <2>1. ToSet(s) \cap S = ToSet(s)
    OBVIOUS
  <2> QED
    BY <2>1, OnlyMembers, Len(s) \in Nat
<1> DEFINE n == Len(s)
<1>2. Len(Only(s, S)) = n
  BY <1>1, CountMembers
<1>3. PICK e : InOrder(e, Only(s, S), s)
  BY OnlyInOrder
<1>4. /\ e \in [1 .. n -> 1 .. n]
      /\ \A i \in 1 .. n : Only(s, S)[i] = s[e[i]]
      /\ \A i, j \in 1 .. n : i < j => e[i] < e[j]
  BY <1>2, <1>3 DEF InOrder
<1>5. \A i \in 1 .. n : i <= e[i]
  <2>1. e \in [1 .. n -> Nat \ {0}]
    BY <1>4
  <2> HIDE DEF n
  <2> QED
    BY <1>1, <1>4, <2>1, Increasing DEF n
<1>6. \A i \in 1 .. n : e[i] = i
  <2> DEFINE d == [i \in 1 .. n |-> n + 1 - e[n + 1 - i]]
  <2>1. \A i \in 1 .. n : n + 1 - i \in 1 .. n /\ e[i] \in 1 .. n
    BY <1>1, <1>4
  <2>2. d \in [1 .. n -> Nat \ {0}]
    BY <1>1, <2>1
  <2>3. \A i, j \in 1 .. n : i < j => d[i] < d[j]
    <3> SUFFICES ASSUME NEW i \in 1 .. n, NEW j \in 1 .. n, i < j PROVE d[i] < d[j]
      OBVIOUS
    <3>1. n + 1 - j < n + 1 - i
      BY <1>1
    <3>2. e[n + 1 - j] < e[n + 1 - i]
      BY <1>4, <2>1, <3>1
    <3> QED
      BY <1>1, <2>1, <3>2
  <2>4. \A i \in 1 .. n : i <= d[i]
    <3> HIDE DEF d, n
    <3> QED
      BY <1>1, <2>2, <2>3, Increasing DEF n
  <2>5. ASSUME NEW i \in 1 .. n PROVE e[i] <= i
    <3>1. n + 1 - i <= d[n + 1 - i] /\ n + 1 - (n + 1 - i) = i
      BY <1>1, <2>1, <2>4
    <3>2. d[n + 1 - i] = n + 1 - e[i]
      BY <2>1, <3>1
    <3> QED
      BY <1>1, <2>1, <3>1, <3>2
  <2> QED
    BY <1>4, <1>5, <2>5
<1>7. \A i \in 1 .. n : Only(s, S)[i] = s[i]
  BY <1>4, <1>6
<1> QED
  BY <1>1, <1>2, <1>7, SameMembers

-----------------------------------------------------------------------------
(* Sequences side by side, as the pipes are. *)

ListedIn(ps, I) == UNION {ToSet(ps[i]) : i \in I}
ApartIn(ps, I) ==
    \A i \in I : /\ NoRepeats(ps[i])
                 /\ \A j \in I : j # i => ToSet(ps[i]) \cap ToSet(ps[j]) = {}

\* There is a shortest free pipe when there is a free one.
LEMMA ShortestIsFree ==
    ASSUME NEW I, I \subseteq Int, IsFiniteSet(I), NEW T, NEW ps \in [I -> Seq(T)],
           NEW F, F \subseteq I, F # {}
    PROVE  Shortest(ps, F) \in F
<1> DEFINE R == {e \in F \X F : \/ Len(ps[e[1]]) < Len(ps[e[2]])
                                \/ Len(ps[e[1]]) = Len(ps[e[2]]) /\ e[1] < e[2]}
<1>1. \A i \in F : i \in Int /\ Len(ps[i]) \in Nat
  OBVIOUS
<1>2. IsFiniteSet(F)
  BY FS_Subset
<1>3. StrictOrderOn(R, F)
  BY <1>1 DEF StrictOrderOn
<1>4. PICK i \in F : Below(R, F, i) = {}
  <2> HIDE DEF R
  <2> QED
    BY <1>1, <1>2, <1>3, SomeFirst
<1>5. \A j \in F : Len(ps[i]) < Len(ps[j]) \/ (Len(ps[i]) = Len(ps[j]) /\ i <= j)
  <2>1. \A j \in F : <<j, i>> \notin R
    BY <1>4 DEF Below
  <2>2. \A j \in F : ~(Len(ps[j]) < Len(ps[i])) /\ ~(Len(ps[j]) = Len(ps[i]) /\ j < i)
    BY <2>1
  <2> QED
    BY <1>1, <2>2
<1>6. \E m \in F : \A j \in F :
         Len(ps[m]) < Len(ps[j]) \/ (Len(ps[m]) = Len(ps[j]) /\ m <= j)
  BY <1>5
<1> QED
  BY <1>6 DEF Shortest

\* What dealing rs onto the pipes F of ps one by one gives.
DealsIn(out, ps, I, T, F, rs) ==
    /\ out \in [I -> Seq(T)]
    /\ \A i \in I \ F : out[i] = ps[i]
    /\ \A i \in I : ToSet(ps[i]) \subseteq ToSet(out[i])
    /\ ListedIn(out, I) = ListedIn(ps, I) \cup ToSet(rs)
    /\ ApartIn(ps, I) /\ NoRepeats(rs) /\ ListedIn(ps, I) \cap ToSet(rs) = {} => ApartIn(out, I)

\* One request more, on pipe d.
OneMore(out, ps, d, r) == out = [ps EXCEPT ![d] = Append(@, r)]
GrownIn(out, ps, I, T, d, r) ==
    /\ out \in [I -> Seq(T)]
    /\ \A i \in I : i # d => out[i] = ps[i]
    /\ \A i \in I : ToSet(ps[i]) \subseteq ToSet(out[i])
    /\ ListedIn(out, I) = ListedIn(ps, I) \cup {r}
    /\ ApartIn(ps, I) /\ r \notin ListedIn(ps, I) => ApartIn(out, I)

LEMMA PlaceOne ==
    ASSUME NEW I, NEW T, NEW ps \in [I -> Seq(T)], NEW d \in I, NEW r \in T,
           NEW out, OneMore(out, ps, d, r)
    PROVE  GrownIn(out, ps, I, T, d, r)
<1>1. PICK a : a = Append(ps[d], r)
  OBVIOUS
<1>2. /\ a \in Seq(T) /\ ToSet(a) = ToSet(ps[d]) \cup {r}
      /\ NoRepeats(ps[d]) /\ r \notin ToSet(ps[d]) => NoRepeats(a)
  BY <1>1, AppendMembers
<1>3. out = [ps EXCEPT ![d] = a]
  BY <1>1 DEF OneMore
<1>4. out \in [I -> Seq(T)] /\ out[d] = a /\ \A i \in I : i # d => out[i] = ps[i]
  BY <1>2, <1>3
<1>5. \A i \in I : ToSet(out[i]) = IF i = d THEN ToSet(ps[i]) \cup {r} ELSE ToSet(ps[i])
  BY <1>2, <1>4
<1>6. ListedIn(out, I) = ListedIn(ps, I) \cup {r}
  BY <1>5 DEF ListedIn
<1>7. ASSUME ApartIn(ps, I), r \notin ListedIn(ps, I) PROVE ApartIn(out, I)
  <2>1. \A i \in I : r \notin ToSet(ps[i])
    BY <1>7 DEF ListedIn
  <2>2. \A i \in I : NoRepeats(out[i])
    BY <1>2, <1>4, <1>7, <2>1 DEF ApartIn
  <2>3. ASSUME NEW i \in I, NEW j \in I, j # i
        PROVE  ToSet(out[i]) \cap ToSet(out[j]) = {}
    <3>1. ToSet(ps[i]) \cap ToSet(ps[j]) = {} /\ r \notin ToSet(ps[i]) /\ r \notin ToSet(ps[j])
      BY <1>7, <2>1, <2>3 DEF ApartIn
    <3>2. /\ ToSet(out[i]) = IF i = d THEN ToSet(ps[i]) \cup {r} ELSE ToSet(ps[i])
          /\ ToSet(out[j]) = IF j = d THEN ToSet(ps[j]) \cup {r} ELSE ToSet(ps[j])
      BY <1>5
    <3> QED
      BY <2>3, <3>1, <3>2
  <2> QED
    BY <2>2, <2>3 DEF ApartIn
<1> QED
  BY <1>4, <1>5, <1>6, <1>7 DEF GrownIn

\* _spread_reqs puts every request on one free pipe and disturbs nothing.
LEMMA SpreadIn ==
    ASSUME NEW I, I \subseteq Int, IsFiniteSet(I), NEW T, NEW ps \in [I -> Seq(T)],
           NEW F, F \subseteq I, F # {}, NEW rs \in Seq(T)
    PROVE  DealsIn(Spread(ps, F, rs), ps, I, T, F, rs)
<1> DEFINE n == Len(rs)
           A == [I -> Seq(T)]
           Put(x, r) == [x EXCEPT ![Shortest(x, F)] = Append(@, r)]
           Rec(f) == f = [t \in SUBSET (1 .. n) |->
                            IF t = {} THEN ps ELSE Put(f[t \ {Max(t)}], rs[Max(t)])]
<1>1. n \in Nat /\ DOMAIN rs = 1 .. n /\ \A k \in 1 .. n : rs[k] \in T
  OBVIOUS
<1>2. \A x \in A, r \in T : /\ Shortest(x, F) \in I /\ Shortest(x, F) \in F
                            /\ Put(x, r) \in A
  <2>1. \A x \in A : Shortest(x, F) \in I /\ Shortest(x, F) \in F
    BY ShortestIsFree
  <2>2. ASSUME NEW x \in A, NEW r \in T PROVE Put(x, r) \in A
    <3>1. PICK d \in I : d = Shortest(x, F)
      BY <2>1
    <3>2. x \in [I -> Seq(T)] /\ OneMore(Put(x, r), x, d, r)
      BY <3>1 DEF OneMore
    <3> HIDE DEF Put
    <3>3. GrownIn(Put(x, r), x, I, T, d, r)
      BY <3>2, PlaceOne
    <3> QED
      BY <3>3 DEF GrownIn
  <2> QED
    BY <2>1, <2>2
<1>3. Spread(ps, F, rs) = (CHOOSE g : Rec(g))[1 .. n]
  BY <1>1 DEF Spread, FoldLeft, MapThenFoldSet
<1> HIDE DEF Put
<1>4. PICK G : G = [e \in A \X (1 .. n) |-> Put(e[1], rs[e[2]])]
  OBVIOUS
<1>5. G \in [A \X (1 .. n) -> A]
  BY <1>1, <1>2, <1>4
<1>6. \A x \in A, k \in 1 .. n : G[<<x, k>>] = Put(x, rs[k])
  BY <1>4
<1>a. ps \in A
  OBVIOUS
<1> HIDE DEF A
<1>7. PICK c : FoldRecursion(c, A, ps, n, G)
  <2> HIDE DEF n, Rec
  <2> QED
    BY <1>1, <1>5, <1>a, SubsetRecursion
<1>8. ASSUME NEW t \in SUBSET (1 .. n), t # {} PROVE Max(t) \in 1 .. n
  <2>1. t \in SUBSET (0 .. n)
    OBVIOUS
  <2> QED
    BY <1>1, <1>8, <2>1, GreatestMember
<1> HIDE DEF n
<1>9. ASSUME NEW t \in SUBSET (1 .. n), t # {}
      PROVE  c[t] = Put(c[t \ {Max(t)}], rs[Max(t)])
  <2>1. c[t \ {Max(t)}] \in A
    BY <1>7, <1>9 DEF FoldRecursion
  <2> QED
    BY <1>6, <1>7, <1>8, <1>9, <2>1 DEF FoldRecursion
<1>10. \E g : Rec(g)
  <2>1. c = [t \in SUBSET (1 .. n) |-> c[t]] /\ c[{}] = ps
    BY <1>7 DEF FoldRecursion
  <2> QED
    BY <1>9, <2>1
<1>11. PICK f : f = (CHOOSE g : Rec(g)) /\ Rec(f)
  <2> HIDE DEF Rec
  <2> QED
    BY <1>10, Zenon
<1>12. FoldStep(f, A, ps, n, G)
  <2>1. f[{}] = ps
    BY <1>11
  <2>2. ASSUME NEW t \in SUBSET (1 .. n), t # {}, f[t \ {Max(t)}] \in A
        PROVE  f[t] = G[<<f[t \ {Max(t)}], Max(t)>>]
    <3>1. f[t] = Put(f[t \ {Max(t)}], rs[Max(t)])
      BY <1>11, <2>2
    <3> HIDE DEF Rec
    <3> QED
      BY <1>6, <1>8, <2>2, <3>1
  <2> HIDE DEF Rec
  <2> QED
    BY <2>1, <2>2 DEF FoldStep
<1>13. EndsIn(f[1 .. n], A, ps, n, G)
  <2> HIDE DEF Rec
  <2> QED
    BY <1>1, <1>5, <1>12, <1>a, FoldIdentified
<1> HIDE DEF Rec
<1>14. PICK h : Recursion(h, A, ps, n, G) /\ h[n] = f[1 .. n]
  BY <1>13 DEF EndsIn
<1>15. Spread(ps, F, rs) = h[n]
  BY <1>3, <1>11, <1>14
<1>16. /\ h \in [0 .. n -> A] /\ h[0] = ps
       /\ \A k \in 1 .. n : h[k] = Put(h[k - 1], rs[k]) /\ h[k - 1] \in A
  <2>1. \A k \in 1 .. n : k - 1 \in 0 .. n
    BY <1>1
  <2> QED
    BY <1>6, <1>14, <2>1 DEF Recursion
<1> DEFINE Dealt(k) == {rs[m] : m \in 1 .. k}
           Good(k) == /\ \A i \in I : ToSet(ps[i]) \subseteq ToSet(h[k][i])
                      /\ \A i \in I : i \notin F => h[k][i] = ps[i]
                      /\ ListedIn(h[k], I) = ListedIn(ps, I) \cup Dealt(k)
                      /\ ApartIn(ps, I) /\ NoRepeats(rs) /\ ListedIn(ps, I) \cap ToSet(rs) = {}
                            => ApartIn(h[k], I)
           D == {k \in 0 .. n : ~Good(k)}
<1>17. D = {}
  <2>1. SUFFICES ASSUME D # {} PROVE FALSE
    OBVIOUS
  <2>2. D \in SUBSET (0 .. n)
    OBVIOUS
  <2>3. PICK m \in D : \A k \in 0 .. n : k < m => k \notin D
    <3> HIDE DEF D
    <3> QED
      BY <1>1, <2>1, <2>2, LeastUpTo
  <2>4. m \in 0 .. n /\ ~Good(m)
    OBVIOUS
  <2>5. m # 0
    <3>1. Dealt(0) = {}
      OBVIOUS
    <3>2. Good(0)
      BY <1>16, <3>1
    <3> QED
      BY <2>4, <3>2
  <2>6. m - 1 \in 0 .. n /\ m - 1 < m /\ m \in 1 .. n
    BY <1>1, <2>4, <2>5
  <2>7. Good(m - 1)
    BY <2>3, <2>6
  <2>8. PICK d \in I : d \in F /\ OneMore(h[m], h[m - 1], d, rs[m])
    <3>1. h[m - 1] \in A /\ h[m] = Put(h[m - 1], rs[m]) /\ rs[m] \in T
      BY <1>1, <1>16, <2>6
    <3>2. Shortest(h[m - 1], F) \in I /\ Shortest(h[m - 1], F) \in F
      BY <1>2, <3>1
    <3> QED
      BY <3>1, <3>2 DEF Put, OneMore
  <2>9. /\ \A i \in I : ToSet(h[m - 1][i]) \subseteq ToSet(h[m][i])
        /\ \A i \in I : i \notin F => h[m][i] = h[m - 1][i]
        /\ ListedIn(h[m], I) = ListedIn(h[m - 1], I) \cup {rs[m]}
        /\ ApartIn(h[m - 1], I) /\ rs[m] \notin ListedIn(h[m - 1], I) => ApartIn(h[m], I)
    <3>1. h[m - 1] \in [I -> Seq(T)] /\ rs[m] \in T
      BY <1>1, <1>16, <2>6 DEF A
    <3> HIDE DEF Good, D
    <3>2. GrownIn(h[m], h[m - 1], I, T, d, rs[m])
      BY <2>8, <3>1, PlaceOne
    <3> QED
      BY <2>8, <3>2 DEF GrownIn
  <2>10. Dealt(m) = Dealt(m - 1) \cup {rs[m]}
    <3>1. 1 .. m = (1 .. m - 1) \cup {m}
      BY <2>6
    <3> QED
      BY <3>1
  <2>11. NoRepeats(rs) /\ ListedIn(ps, I) \cap ToSet(rs) = {}
            => rs[m] \notin ListedIn(ps, I) \cup Dealt(m - 1)
    <3>1. rs[m] \in ToSet(rs)
      BY <2>6, Members DEF n
    <3>2. NoRepeats(rs) => \A k \in 1 .. m - 1 : rs[k] # rs[m]
      BY <1>1, <2>6 DEF NoRepeats, n
    <3> QED
      BY <3>1, <3>2
  <2> HIDE DEF Dealt, D
  <2>12. Good(m)
    BY <2>7, <2>9, <2>10, <2>11
  <2> QED
    BY <2>4, <2>12
<1>18. Good(n)
  <2>1. n \in 0 .. n
    BY <1>1
  <2> HIDE DEF Good
  <2> QED
    BY <1>17, <2>1
<1>19. Dealt(n) = ToSet(rs)
  BY Members DEF n
<1>20. h[n] \in [I -> Seq(T)]
  BY <1>1, <1>16 DEF A
<1> QED
  BY <1>15, <1>18, <1>19, <1>20 DEF DealsIn

-----------------------------------------------------------------------------
(* Concatenations and removals. *)

FlattensAlong(h, T, ss) ==
    /\ h \in [0 .. Len(ss) -> Seq(T)]
    /\ h[0] = <<>>
    /\ \A k \in 1 .. Len(ss) : h[k] = h[k - 1] \o ss[k]

\* FlattenSeq goes along the sequences and concatenates them.
LEMMA FlattenAlong ==
    ASSUME NEW T, NEW ss \in Seq(Seq(T))
    PROVE  \E h : FlattensAlong(h, T, ss) /\ FlattenSeq(ss) = h[Len(ss)]
<1> DEFINE n == Len(ss)
           Cat(x, y) == x \o y
           Rec(f) == f = [k \in 1 .. n |-> IF k = 1 THEN ss[k] ELSE Cat(f[k - 1], ss[k])]
<1>1. n \in Nat /\ <<>> \in Seq(T) /\ \A k \in 1 .. n : ss[k] \in Seq(T)
  OBVIOUS
<1>a. \A x, y \in Seq(T) : Cat(x, y) \in Seq(T)
  OBVIOUS
<1>b. \A x \in Seq(T) : Cat(<<>>, x) = x
  OBVIOUS
<1>c. FlattenSeq(ss) = IF n = 0 THEN ss ELSE (CHOOSE f : Rec(f))[n]
  BY DEF FlattenSeq
<1>d. n = 0 => ss = <<>>
  OBVIOUS
<1> HIDE DEF Cat
<1>2. PICK G : G = [e \in Seq(T) \X (1 .. n) |-> Cat(e[1], ss[e[2]])]
  OBVIOUS
<1>3. G \in [Seq(T) \X (1 .. n) -> Seq(T)]
  BY <1>1, <1>a, <1>2
<1>4. \A x \in Seq(T), k \in 1 .. n : G[<<x, k>>] = Cat(x, ss[k])
  BY <1>2
<1>5. PICK h : Recursion(h, Seq(T), <<>>, n, G)
  <2> HIDE DEF n, Rec
  <2> QED
    BY <1>1, <1>3, PrefixRecursion
<1> HIDE DEF n
<1>6. /\ h \in [0 .. n -> Seq(T)] /\ h[0] = <<>>
      /\ \A k \in 1 .. n : h[k] = Cat(h[k - 1], ss[k])
  <2>1. \A k \in 1 .. n : k - 1 \in 0 .. n
    BY <1>1
  <2> QED
    BY <1>4, <1>5, <2>1 DEF Recursion
<1>7. FlattensAlong(h, T, ss)
  BY <1>6 DEF FlattensAlong, n, Cat
<1>8. CASE n = 0
  <2>1. FlattenSeq(ss) = ss /\ ss = <<>>
    BY <1>8, <1>c, <1>d
  <2> QED
    BY <1>6, <1>7, <1>8, <2>1 DEF n
<1>9. CASE n # 0
  <2>1. \E f : Rec(f)
    <3>1. PICK f : f = [k \in 1 .. n |-> h[k]]
      OBVIOUS
    <3>2. h[1] = ss[1]
      <4>1. 1 \in 1 .. n /\ 1 - 1 = 0
        BY <1>1, <1>9
      <4>2. h[1] = Cat(h[0], ss[1])
        BY <1>6, <4>1
      <4> QED
        BY <1>1, <1>6, <1>b, <4>1, <4>2
    <3>3. \A k \in 1 .. n : k # 1 => k - 1 \in 1 .. n /\ h[k] = Cat(h[k - 1], ss[k])
      <4>1. \A k \in 1 .. n : k # 1 => k - 1 \in 1 .. n
        BY <1>1
      <4> QED
        BY <1>6, <4>1
    <3>4. \A k \in 1 .. n : f[k] = IF k = 1 THEN ss[k] ELSE Cat(f[k - 1], ss[k])
      BY <3>1, <3>2, <3>3
    <3>5. Rec(f)
      BY <3>1, <3>4
    <3> QED
      BY <3>5
  <2>2. PICK f : f = (CHOOSE g : Rec(g)) /\ Rec(f)
    <3> HIDE DEF Rec
    <3> QED
      BY <2>1, Zenon
  <2>3. FlattenSeq(ss) = f[n]
    <3>1. FlattenSeq(ss) = (CHOOSE g : Rec(g))[n]
      BY <1>9, <1>c
    <3> HIDE DEF Rec
    <3> QED
      BY <2>2, <3>1
  <2>4. \A k \in 1 .. n : f[k] = IF k = 1 THEN ss[k] ELSE Cat(f[k - 1], ss[k])
    BY <2>2
  <2>5. \A k \in 1 .. n : f[k] = h[k]
    <3> DEFINE D == {k \in 1 .. n : f[k] # h[k]}
    <3>1. SUFFICES ASSUME D # {} PROVE FALSE
      OBVIOUS
    <3>2. D \in SUBSET (0 .. n)
      OBVIOUS
    <3>3. PICK m \in D : \A k \in 0 .. n : k < m => k \notin D
      <4> HIDE DEF D
      <4> QED
        BY <1>1, <3>1, <3>2, LeastUpTo
    <3>4. m \in 1 .. n /\ f[m] # h[m]
      OBVIOUS
    <3>5. m = 1
      <4>1. SUFFICES ASSUME m # 1 PROVE FALSE
        OBVIOUS
      <4>2. m - 1 \in 1 .. n /\ m - 1 < m /\ m - 1 \in 0 .. n
        BY <1>1, <3>4, <4>1
      <4>3. f[m - 1] = h[m - 1]
        BY <3>3, <4>2
      <4> QED
        BY <1>6, <2>4, <3>4, <4>1, <4>3
    <3>6. h[1] = Cat(<<>>, ss[1]) /\ f[1] = ss[1]
      <4>1. 1 \in 1 .. n /\ 1 - 1 = 0
        BY <3>4, <3>5
      <4> QED
        BY <1>6, <2>4, <4>1
    <3> QED
      BY <1>1, <1>b, <3>4, <3>5, <3>6
  <2>6. n \in 1 .. n
    BY <1>1, <1>9
  <2> QED
    BY <1>7, <2>3, <2>5, <2>6 DEF n
<1> QED
  BY <1>8, <1>9

\* It has the members of all of them.
LEMMA FlattenMembers ==
    ASSUME NEW T, NEW ss \in Seq(Seq(T))
    PROVE  /\ FlattenSeq(ss) \in Seq(T)
           /\ ToSet(FlattenSeq(ss)) = UNION {ToSet(ss[i]) : i \in 1 .. Len(ss)}
<1>1. PICK h : FlattensAlong(h, T, ss) /\ FlattenSeq(ss) = h[Len(ss)]
  BY FlattenAlong
<1> DEFINE Upto(k) == UNION {ToSet(ss[i]) : i \in 1 .. k}
           D == {k \in 0 .. Len(ss) : ToSet(h[k]) # Upto(k)}
<1>2. /\ Len(ss) \in Nat /\ h \in [0 .. Len(ss) -> Seq(T)] /\ h[0] = <<>>
      /\ \A k \in 1 .. Len(ss) : h[k] = h[k - 1] \o ss[k]
      /\ \A k \in 1 .. Len(ss) : ss[k] \in Seq(T)
  <2>1. Len(ss) \in Nat /\ \A k \in 1 .. Len(ss) : ss[k] \in Seq(T)
    OBVIOUS
  <2> QED
    BY <1>1, <2>1 DEF FlattensAlong
<1>3. D = {}
  <2>1. SUFFICES ASSUME D # {} PROVE FALSE
    OBVIOUS
  <2>2. D \in SUBSET (0 .. Len(ss))
    OBVIOUS
  <2>3. PICK m \in D : \A k \in 0 .. Len(ss) : k < m => k \notin D
    <3> HIDE DEF D
    <3> QED
      BY <1>2, <2>1, <2>2, LeastUpTo
  <2>4. m \in 0 .. Len(ss) /\ ToSet(h[m]) # Upto(m)
    OBVIOUS
  <2>5. m # 0
    <3>1. ToSet(<<>>) = {} /\ Upto(0) = {}
      BY DEF ToSet
    <3> QED
      BY <1>2, <2>4, <3>1
  <2>6. m - 1 \in 0 .. Len(ss) /\ m - 1 < m /\ m \in 1 .. Len(ss)
    BY <1>2, <2>4, <2>5
  <2>7. ToSet(h[m - 1]) = Upto(m - 1)
    BY <2>3, <2>6
  <2>8. ToSet(h[m]) = ToSet(h[m - 1]) \cup ToSet(ss[m])
    <3>1. h[m] = h[m - 1] \o ss[m] /\ h[m - 1] \in Seq(T) /\ ss[m] \in Seq(T)
      BY <1>2, <2>6
    <3>2. ToSet(h[m - 1] \o ss[m]) = ToSet(h[m - 1]) \cup ToSet(ss[m])
      BY <3>1, ConcatMembers
    <3> QED
      BY <3>1, <3>2
  <2>9. Upto(m) = Upto(m - 1) \cup ToSet(ss[m])
    <3>1. 1 .. m = (1 .. m - 1) \cup {m}
      BY <2>6
    <3> QED
      BY <3>1
  <2> QED
    BY <2>4, <2>7, <2>8, <2>9
<1>4. Len(ss) \in 0 .. Len(ss)
  BY <1>2
<1> QED
  BY <1>1, <1>2, <1>3, <1>4

LEMMA FlattenEmpty == FlattenSeq(<<>>) = <<>>
    BY DEF FlattenSeq

\* A single sequence is left as it is.
LEMMA FlattenSingle ==
    ASSUME NEW T, NEW s \in Seq(T)
    PROVE  FlattenSeq(<<s>>) = s
<1>1. <<s>> \in Seq(Seq(T)) /\ Len(<<s>>) = 1 /\ <<s>>[1] = s
  OBVIOUS
<1>2. PICK h : FlattensAlong(h, T, <<s>>) /\ FlattenSeq(<<s>>) = h[Len(<<s>>)]
  BY <1>1, FlattenAlong
<1>3. h[0] = <<>> /\ h[1] = h[0] \o s
  <2>1. h[0] = <<>> /\ \A k \in 1 .. Len(<<s>>) : h[k] = h[k - 1] \o <<s>>[k]
    BY <1>2 DEF FlattensAlong
  <2>2. 1 \in 1 .. Len(<<s>>) /\ 1 - 1 = 0
    BY <1>1
  <2>3. h[1] = h[1 - 1] \o <<s>>[1]
    BY <2>1, <2>2
  <2> QED
    BY <1>1, <2>1, <2>2, <2>3
<1>4. <<>> \o s = s
  OBVIOUS
<1> QED
  BY <1>1, <1>2, <1>3, <1>4

\* RemoveAt takes one position out.
LEMMA RemovedPosition ==
    ASSUME NEW T, NEW s \in Seq(T), NEW k \in 1 .. Len(s)
    PROVE  /\ RemoveAt(s, k) \in Seq(T)
           /\ Len(RemoveAt(s, k)) = Len(s) - 1
           /\ \A i \in 1 .. Len(s) - 1 :
                 RemoveAt(s, k)[i] = IF i < k THEN s[i] ELSE s[i + 1]
<1>1. SubSeq(s, 1, k - 1) \in Seq(T) /\ Len(SubSeq(s, 1, k - 1)) = k - 1
  OBVIOUS
<1>2. SubSeq(s, k + 1, Len(s)) \in Seq(T) /\ Len(SubSeq(s, k + 1, Len(s))) = Len(s) - k
  OBVIOUS
<1>3. \A i \in 1 .. k - 1 : SubSeq(s, 1, k - 1)[i] = s[i]
  OBVIOUS
<1>4. \A i \in 1 .. Len(s) - k : SubSeq(s, k + 1, Len(s))[i] = s[k + i]
  OBVIOUS
<1>5. PICK a, b : a = SubSeq(s, 1, k - 1) /\ b = SubSeq(s, k + 1, Len(s))
  OBVIOUS
<1>6. RemoveAt(s, k) = a \o b
  BY <1>5 DEF RemoveAt
<1>a. a \in Seq(T) /\ b \in Seq(T) /\ Len(a) = k - 1 /\ Len(b) = Len(s) - k
  BY <1>1, <1>2, <1>5
<1>7. /\ a \o b \in Seq(T) /\ Len(a \o b) = Len(s) - 1
      /\ \A i \in 1 .. Len(s) - 1 : (a \o b)[i] = IF i <= k - 1 THEN a[i] ELSE b[i - (k - 1)]
  BY <1>a
<1>8. ASSUME NEW i \in 1 .. Len(s) - 1
      PROVE  (a \o b)[i] = IF i < k THEN s[i] ELSE s[i + 1]
  <2>1. CASE i < k
    <3>1. i <= k - 1 /\ i \in 1 .. k - 1
      BY <2>1
    <3>2. a[i] = s[i]
      BY <1>3, <1>5, <3>1
    <3> QED
      BY <1>7, <2>1, <3>1, <3>2
  <2>2. CASE ~(i < k)
    <3>1. i - (k - 1) \in 1 .. Len(s) - k /\ k + (i - (k - 1)) = i + 1
      BY <2>2
    <3>2. b[i - (k - 1)] = s[i + 1]
      BY <1>4, <1>5, <3>1
    <3>3. ~(i <= k - 1)
      BY <2>2
    <3> QED
      BY <1>7, <2>2, <3>2, <3>3
  <2> QED
    BY <2>1, <2>2
<1> QED
  BY <1>6, <1>7, <1>8

-----------------------------------------------------------------------------
(* Sums. *)

Summed(s) == FoldLeft(LAMBDA a, b : a + b, 0, s)

SumsAlong(h, s) ==
    /\ h \in [0 .. Len(s) -> Int]
    /\ h[0] = 0
    /\ \A k \in 1 .. Len(s) : h[k] = h[k - 1] + s[k]

\* A sum adds the members one after the other.
LEMMA SumAlong ==
    ASSUME NEW s \in Seq(Int)
    PROVE  \E h : SumsAlong(h, s) /\ Summed(s) = h[Len(s)]
<1> DEFINE n == Len(s)
           Rec(f) == f = [t \in SUBSET (1 .. n) |->
                            IF t = {} THEN 0 ELSE f[t \ {Max(t)}] + s[Max(t)]]
<1>1. n \in Nat /\ 0 \in Int /\ DOMAIN s = 1 .. n /\ \A k \in 1 .. n : s[k] \in Int
  OBVIOUS
<1>2. PICK G : G = [e \in Int \X (1 .. n) |-> e[1] + s[e[2]]]
  OBVIOUS
<1>3. G \in [Int \X (1 .. n) -> Int]
  BY <1>1, <1>2
<1>4. \A x \in Int, k \in 1 .. n : G[<<x, k>>] = x + s[k]
  BY <1>2
<1>5. PICK c : FoldRecursion(c, Int, 0, n, G)
  <2> HIDE DEF n, Rec
  <2> QED
    BY <1>1, <1>3, SubsetRecursion
<1>6. ASSUME NEW t \in SUBSET (1 .. n), t # {} PROVE Max(t) \in 1 .. n
  <2>1. t \in SUBSET (0 .. n)
    OBVIOUS
  <2> QED
    BY <1>1, <1>6, <2>1, GreatestMember
<1> HIDE DEF n
<1>7. ASSUME NEW t \in SUBSET (1 .. n), t # {}
      PROVE  c[t] = c[t \ {Max(t)}] + s[Max(t)]
  <2>1. c[t \ {Max(t)}] \in Int
    BY <1>5, <1>7 DEF FoldRecursion
  <2> QED
    BY <1>4, <1>5, <1>6, <1>7, <2>1 DEF FoldRecursion
<1>8. Rec(c)
  <2>1. c = [t \in SUBSET (1 .. n) |-> c[t]] /\ c[{}] = 0
    BY <1>5 DEF FoldRecursion
  <2> QED
    BY <1>7, <2>1
<1>9. PICK f : f = (CHOOSE g : Rec(g)) /\ Rec(f)
  <2>1. \E g : Rec(g)
    BY <1>8
  <2> HIDE DEF Rec
  <2> QED
    BY <2>1, Zenon
<1>10. Summed(s) = f[1 .. n]
  <2>1. Summed(s) = (CHOOSE g : Rec(g))[1 .. n]
    BY <1>1 DEF Summed, FoldLeft, MapThenFoldSet
  <2> HIDE DEF Rec
  <2> QED
    BY <1>9, <2>1
<1>11. FoldStep(f, Int, 0, n, G)
  <2>1. f[{}] = 0
    BY <1>9
  <2>2. ASSUME NEW t \in SUBSET (1 .. n), t # {}, f[t \ {Max(t)}] \in Int
        PROVE  f[t] = G[<<f[t \ {Max(t)}], Max(t)>>]
    <3>1. f[t] = f[t \ {Max(t)}] + s[Max(t)]
      BY <1>9, <2>2
    <3> HIDE DEF Rec
    <3> QED
      BY <1>4, <1>6, <2>2, <3>1
  <2> HIDE DEF Rec
  <2> QED
    BY <2>1, <2>2 DEF FoldStep
<1>12. PICK h : Recursion(h, Int, 0, n, G) /\ h[n] = f[1 .. n]
  <2>1. EndsIn(f[1 .. n], Int, 0, n, G)
    <3> HIDE DEF Rec
    <3> QED
      BY <1>1, <1>3, <1>11, FoldIdentified
  <2> HIDE DEF Rec
  <2> QED
    BY <2>1 DEF EndsIn
<1>13. \A k \in 1 .. n : h[k - 1] \in Int
  BY <1>1, <1>12 DEF Recursion
<1>14. SumsAlong(h, s)
  BY <1>4, <1>12, <1>13 DEF Recursion, SumsAlong, n
<1> QED
  BY <1>10, <1>12, <1>14 DEF n

\* The empty sum, and a sum with one summand more.
LEMMA SumStep ==
    /\ Summed(<<>>) = 0
    /\ \A s \in Seq(Int) : Summed(s) \in Int
    /\ \A s, t \in Seq(Int) : Len(t) = Len(s) + 1 /\ (\A i \in 1 .. Len(s) : t[i] = s[i])
                                => Summed(t) = Summed(s) + t[Len(t)]
<1>1. Summed(<<>>) = 0
  <2>1. PICK h : SumsAlong(h, <<>>) /\ Summed(<<>>) = h[Len(<<>>)]
    <3>1. <<>> \in Seq(Int)
      OBVIOUS
    <3> QED
      BY <3>1, SumAlong
  <2> QED
    BY <2>1 DEF SumsAlong
<1>2. ASSUME NEW s \in Seq(Int) PROVE Summed(s) \in Int
  <2>1. PICK h : SumsAlong(h, s) /\ Summed(s) = h[Len(s)]
    BY SumAlong
  <2> QED
    BY <2>1 DEF SumsAlong
<1>3. ASSUME NEW s \in Seq(Int), NEW t \in Seq(Int), Len(t) = Len(s) + 1,
             \A i \in 1 .. Len(s) : t[i] = s[i]
      PROVE  Summed(t) = Summed(s) + t[Len(t)]
  <2>1. PICK g : SumsAlong(g, s) /\ Summed(s) = g[Len(s)]
    BY SumAlong
  <2>2. PICK h : SumsAlong(h, t) /\ Summed(t) = h[Len(t)]
    BY SumAlong
  <2>3. PICK n \in Nat : n = Len(s) /\ Len(t) = n + 1
    BY <1>3
  <2>4. /\ g[0] = 0 /\ h[0] = 0
        /\ \A k \in 1 .. n : g[k] = g[k - 1] + s[k]
        /\ \A k \in 1 .. n + 1 : h[k] = h[k - 1] + t[k]
    BY <2>1, <2>2, <2>3 DEF SumsAlong
  <2> DEFINE D == {k \in 0 .. n : h[k] # g[k]}
  <2>5. D = {}
    <3>1. SUFFICES ASSUME D # {} PROVE FALSE
      OBVIOUS
    <3>2. PICK m \in D : m \in 0 .. n /\ \A k \in 0 .. n : k < m => k \notin D
      <4>1. D \in SUBSET (0 .. n)
        OBVIOUS
      <4> HIDE DEF D
      <4> QED
        BY <3>1, <4>1, LeastUpTo
    <3>3. m # 0 /\ h[m] # g[m]
      BY <2>4, <3>2
    <3>4. m \in 1 .. n /\ m \in 1 .. n + 1 /\ h[m - 1] = g[m - 1]
      BY <3>2, <3>3
    <3>5. t[m] = s[m]
      BY <1>3, <2>3, <3>4
    <3> HIDE DEF D
    <3> QED
      BY <2>4, <3>3, <3>4, <3>5
  <2>6. h[n] = g[n] /\ h[n + 1] = h[n] + t[n + 1]
    BY <2>4, <2>5
  <2> QED
    BY <2>1, <2>2, <2>3, <2>6
<1> QED
  BY <1>1, <1>2, <1>3

-----------------------------------------------------------------------------
(* Prefix trees. *)

Path == Seq(Nat) \ {<<>>}

\* A tree none of whose nodes has lost an ancestor.
Closed(t) ==
    /\ DOMAIN t \subseteq Path
    /\ \A q \in DOMAIN t : PathNodes(q) \subseteq DOMAIN t

-----------------------------------------------------------------------------
\* Taking a prefix keeps the first tokens and has the length asked for.
LEMMA PreFacts ==
    ASSUME NEW p \in Seq(Nat), NEW i \in 0 .. Len(p)
    PROVE  /\ Pre(p, i) \in Seq(Nat)
           /\ Len(Pre(p, i)) = i
           /\ \A j \in 1 .. i : Pre(p, i)[j] = p[j]
BY DEF Pre

\* A prefix of a prefix is a prefix.
LEMMA PrePre ==
    ASSUME NEW p \in Seq(Nat), NEW i \in 0 .. Len(p), NEW j \in 0 .. i
    PROVE  Pre(Pre(p, i), j) = Pre(p, j)
BY DEF Pre

\* A path is its own longest prefix.
LEMMA PreSelf ==
    ASSUME NEW p \in Seq(Nat)
    PROVE  Pre(p, Len(p)) = p
BY DEF Pre

\* What membership in PathNodes means.
LEMMA PrefixFacts ==
    ASSUME NEW p \in Path, NEW q \in PathNodes(p)
    PROVE  /\ q \in Path
           /\ Len(q) \in 1 .. Len(p)
           /\ q = Pre(p, Len(q))
<1>1. PICK i \in 1 .. Len(p) : q = Pre(p, i)
  BY DEF PathNodes
<1>2. Len(p) \in Nat /\ i \in 0 .. Len(p)
  BY DEF Path
<1>3. q \in Seq(Nat) /\ Len(q) = i
  BY <1>1, <1>2, PreFacts DEF Path
<1> QED
  BY <1>1, <1>2, <1>3 DEF Path

\* Every nonempty prefix, the path included, is in PathNodes.
LEMMA PrefixIntro ==
    ASSUME NEW p \in Path
    PROVE  /\ \A i \in 1 .. Len(p) : Pre(p, i) \in PathNodes(p)
           /\ p \in PathNodes(p)
           /\ Len(p) \in Nat \ {0}
<1>1. Len(p) \in Nat /\ Len(p) # 0
  BY DEF Path
<1> QED
  BY <1>1, PreSelf DEF PathNodes, Path

\* PathNodes is transitive.
LEMMA PrefixTrans ==
    ASSUME NEW p \in Path, NEW q \in PathNodes(p), NEW r \in PathNodes(q)
    PROVE  r \in PathNodes(p)
<1>1. /\ q \in Path /\ Len(q) \in 1 .. Len(p) /\ q = Pre(p, Len(q))
  BY PrefixFacts
<1>2. /\ Len(r) \in 1 .. Len(q) /\ r = Pre(q, Len(r))
  BY <1>1, PrefixFacts
<1>3. Len(p) \in Nat
  BY PrefixIntro
<1>4. r = Pre(p, Len(r))
  BY <1>1, <1>2, <1>3, PrePre DEF Path
<1> QED
  BY <1>1, <1>2, <1>3, <1>4 DEF PathNodes

\* The parent of a node is its longest proper prefix, and every other proper
\* prefix is one of the parent.
LEMMA ParentFacts ==
    ASSUME NEW q \in Path
    PROVE  /\ Len(q) = 1 => Parent(q) \notin Path
           /\ Len(q) > 1 => /\ Parent(q) \in Path
                            /\ Parent(q) \in PathNodes(q)
                            /\ Len(Parent(q)) = Len(q) - 1
<1>1. Len(q) \in Nat \ {0}
  BY PrefixIntro
<1>2. Parent(q) \in Seq(Nat) /\ Len(Parent(q)) = Len(q) - 1
  BY <1>1, PreFacts DEF Parent, Path
<1>3. ASSUME Len(q) > 1
      PROVE  Parent(q) \in PathNodes(q)
  BY <1>1, <1>3, PrefixIntro DEF Parent
<1>4. \A s \in Seq(Nat) : Len(s) = 0 <=> s = <<>>
  OBVIOUS
<1>5. ASSUME Len(q) = 1
      PROVE  Parent(q) = <<>>
  BY <1>2, <1>4, <1>5
<1>6. ASSUME Len(q) > 1
      PROVE  Parent(q) # <<>>
  BY <1>1, <1>2, <1>4, <1>6
<1>7. Parent(q) \in Path <=> Parent(q) # <<>>
  BY <1>2 DEF Path
<1> QED
  BY <1>2, <1>3, <1>5, <1>6, <1>7

\* A node whose parent is not the root is one token longer than it.
LEMMA ParentLen ==
    ASSUME NEW r \in Path, Parent(r) \in Path
    PROVE  Len(r) = Len(Parent(r)) + 1
<1>1. Len(r) \in Nat /\ Len(r) # 0
  BY PrefixIntro
<1>2. Len(r) # 1
  BY ParentFacts
<1>3. Len(r) > 1
  <2>1. \A x \in Nat : x # 0 /\ x # 1 => x > 1
    OBVIOUS
  <2> QED
    BY <1>1, <1>2, <2>1
<1>4. Len(Parent(r)) = Len(r) - 1
  BY <1>3, ParentFacts
<1> QED
  BY <1>1, <1>4

\* The node one longer than a proper prefix of r, on the way to r, has that
\* prefix as its parent.
LEMMA NextOnPath ==
    ASSUME NEW r \in Path, NEW q \in PathNodes(r), q # r
    PROVE  /\ Len(q) + 1 \in 1 .. Len(r)
           /\ Pre(r, Len(q) + 1) \in PathNodes(r)
           /\ Len(Pre(r, Len(q) + 1)) = Len(q) + 1
           /\ Parent(Pre(r, Len(q) + 1)) = q
<1>1. /\ Len(q) \in 1 .. Len(r) /\ q = Pre(r, Len(q)) /\ Len(r) \in Nat
  BY PrefixFacts, PrefixIntro
<1>2. Len(q) # Len(r)
  BY <1>1, PreSelf DEF Path
<1>3. Len(q) + 1 \in 1 .. Len(r)
  BY <1>1, <1>2
<1>4. Len(Pre(r, Len(q) + 1)) = Len(q) + 1
  BY <1>3, PreFacts DEF Path
<1>5. Pre(Pre(r, Len(q) + 1), Len(q)) = Pre(r, Len(q))
  BY <1>1, <1>3, PrePre DEF Path
<1>6. Parent(Pre(r, Len(q) + 1)) = q
  BY <1>1, <1>4, <1>5 DEF Parent
<1> QED
  BY <1>3, <1>4, <1>6, PrefixIntro

-----------------------------------------------------------------------------
\* On a closed tree a walk visits exactly the cached prefixes.
LEMMA WalkClosed ==
    ASSUME NEW t, Closed(t), NEW p \in Path
    PROVE  Walk(t, p) = PathNodes(p) \cap DOMAIN t
<1>1. Walk(t, p) \subseteq PathNodes(p) \cap DOMAIN t
  <2> SUFFICES ASSUME NEW i \in 1 .. Len(p),
                      \A k \in 1 .. i : Pre(p, k) \in DOMAIN t
               PROVE  Pre(p, i) \in PathNodes(p) \cap DOMAIN t
    BY DEF Walk
  <2> QED
    BY PrefixIntro
<1>2. ASSUME NEW q \in PathNodes(p), q \in DOMAIN t
      PROVE  q \in Walk(t, p)
  <2>1. /\ Len(q) \in 1 .. Len(p) /\ q = Pre(p, Len(q)) /\ q \in Path
        /\ Len(p) \in Nat
    BY <1>2, PrefixFacts, PrefixIntro
  <2>2. ASSUME NEW k \in 1 .. Len(q)
        PROVE  Pre(p, k) \in DOMAIN t
    <3>1. Pre(q, k) \in PathNodes(q)
      BY <2>1, PrefixIntro
    <3>2. Pre(Pre(p, Len(q)), k) = Pre(p, k)
      BY <2>1, PrePre DEF Path
    <3> QED
      BY <1>2, <2>1, <3>1, <3>2 DEF Closed
  <2> QED
    BY <2>1, <2>2 DEF Walk
<1> QED
  BY <1>1, <1>2

\* A cached path is walked to its end.
LEMMA WalkCached ==
    ASSUME NEW t, Closed(t), NEW p \in DOMAIN t
    PROVE  Walk(t, p) = PathNodes(p)
<1>1. p \in Path /\ PathNodes(p) \subseteq DOMAIN t
  BY DEF Closed
<1> QED
  BY <1>1, WalkClosed

\* A node with a cached extension has a cached child.
LEMMA ExtensionGivesChild ==
    ASSUME NEW t, Closed(t), NEW r \in DOMAIN t, NEW q \in PathNodes(r), q # r
    PROVE  HasChild(t, q)
<1>1. r \in Path /\ PathNodes(r) \subseteq DOMAIN t
  BY DEF Closed
<1> DEFINE n == Pre(r, Len(q) + 1)
<1>2. n \in DOMAIN t /\ Len(n) = Len(q) + 1 /\ Parent(n) = q
  BY <1>1, NextOnPath
<1> QED
  BY <1>2 DEF HasChild

\* Whether a node is an inner one depends on the set of cached paths alone.
LEMMA HasChildDomain ==
    ASSUME NEW t, NEW u, DOMAIN t = DOMAIN u, NEW q
    PROVE  HasChild(t, q) <=> HasChild(u, q)
BY DEF HasChild

\* Removing a leaf keeps the tree closed.
LEMMA RemoveClosed ==
    ASSUME NEW t, Closed(t), NEW q \in DOMAIN t, ~HasChild(t, q)
    PROVE  /\ DOMAIN RemoveLeaf(t, q) = DOMAIN t \ {q}
           /\ Closed(RemoveLeaf(t, q))
           /\ \A r \in DOMAIN t \ {q} : RemoveLeaf(t, q)[r] = t[r]
<1>1. DOMAIN RemoveLeaf(t, q) = DOMAIN t \ {q}
  BY DEF RemoveLeaf
<1>2. ASSUME NEW r \in DOMAIN t \ {q}
      PROVE  PathNodes(r) \subseteq DOMAIN t \ {q}
  BY ExtensionGivesChild DEF Closed
<1> QED
  BY <1>1, <1>2 DEF Closed, RemoveLeaf

\* Removing a leaf makes a leaf of no node but its parent.
LEMMA RemoveHasChild ==
    ASSUME NEW t, Closed(t), NEW q \in DOMAIN t, ~HasChild(t, q),
           NEW r \in DOMAIN t \ {q}, r # Parent(q)
    PROVE  HasChild(RemoveLeaf(t, q), r) <=> HasChild(t, r)
<1>1. DOMAIN RemoveLeaf(t, q) = DOMAIN t \ {q}
  BY DEF RemoveLeaf
<1> QED
  BY <1>1 DEF HasChild

\* Inserting a path keeps the tree closed and adds the missing prefixes.
LEMMA InsertClosed ==
    ASSUME NEW t, Closed(t), NEW p \in Path, NEW from, NEW kvs, NEW now
    PROVE  /\ DOMAIN InsertFrom(t, p, from, kvs, now) = DOMAIN t \cup PathNodes(p)
           /\ Closed(InsertFrom(t, p, from, kvs, now))
<1> DEFINE u == InsertFrom(t, p, from, kvs, now)
<1>1. DOMAIN u = DOMAIN t \cup PathNodes(p)
  BY DEF InsertFrom
<1>2. PathNodes(p) \subseteq Path
  BY PrefixFacts
<1>3. \A q \in PathNodes(p) : PathNodes(q) \subseteq PathNodes(p)
  BY PrefixTrans
<1> QED
  BY <1>1, <1>2, <1>3 DEF Closed

\* After an insert that created nodes, a node is a leaf when it was one and no
\* new node hangs under it, or when it is the end of the path.
LEMMA InsertHasChild ==
    ASSUME NEW t, Closed(t), NEW p \in Path, NEW u,
           DOMAIN u = DOMAIN t \cup PathNodes(p), PathNodes(p) \ DOMAIN t # {}
    PROVE  LET new == PathNodes(p) \ DOMAIN t
           IN  /\ p \in new
               /\ ~HasChild(u, p)
               /\ \A q \in new : q # p => HasChild(u, q) /\ q \in {Parent(r) : r \in new}
               /\ \A q \in DOMAIN t :
                    HasChild(u, q) <=> HasChild(t, q) \/ q \in {Parent(r) : r \in new}
<1> DEFINE new == PathNodes(p) \ DOMAIN t
<1>0. p \in PathNodes(p) /\ Len(p) \in Nat \ {0}
  BY PrefixIntro
<1>1. p \in new
  BY <1>0 DEF Closed
<1>2. ASSUME NEW r \in DOMAIN u, Len(r) = Len(p) + 1, Parent(r) = p
      PROVE  FALSE
  <2>1. CASE r \in PathNodes(p)
    BY <1>0, <1>2, <2>1, PrefixFacts
  <2>2. CASE r \in DOMAIN t
    <3>1. r \in Path /\ PathNodes(r) \subseteq DOMAIN t
      BY <2>2 DEF Closed
    <3>2. p \in PathNodes(r)
      BY <1>0, <1>2, <3>1, ParentFacts
    <3> QED
      BY <1>1, <3>1, <3>2
  <2> QED
    BY <2>1, <2>2
<1>3. ASSUME NEW q \in new, q # p
      PROVE  HasChild(u, q) /\ q \in {Parent(r) : r \in new}
  <2> DEFINE n == Pre(p, Len(q) + 1)
  <2>1. n \in PathNodes(p) /\ Len(n) = Len(q) + 1 /\ Parent(n) = q
    BY <1>3, NextOnPath
  <2>2. n \in Path /\ Len(n) > 1
    BY <1>3, <2>1, PrefixFacts
  <2>3. q \in PathNodes(n)
    BY <2>1, <2>2, ParentFacts
  <2>4. n \notin DOMAIN t
    BY <2>3 DEF Closed
  <2> QED
    BY <2>1, <2>4 DEF HasChild
<1>4. ASSUME NEW q \in DOMAIN t
      PROVE  HasChild(u, q) <=> HasChild(t, q) \/ q \in {Parent(r) : r \in new}
  <2>1. ASSUME NEW r \in new, q = Parent(r)
        PROVE  Len(r) = Len(q) + 1
    <3>1. r \in Path /\ q \in Path
      BY PrefixFacts DEF Closed
    <3> QED
      BY <2>1, <3>1, ParentLen
  <2> QED
    BY <2>1 DEF HasChild
<1> QED
  BY <1>1, <1>2, <1>3, <1>4 DEF HasChild

-----------------------------------------------------------------------------
(* Places on a ring of n. *)

Forth(n, i, k) == IF i + k < n THEN i + k ELSE i + k - n
Back(n, i, d) == IF d <= i THEN i - d ELSE i - d + n

LEMMA ForthIsRemainder ==
    ASSUME NEW n \in Nat \ {0}, NEW i \in 0 .. n - 1, NEW k \in 0 .. n
    PROVE  (i + k) % n = Forth(n, i, k) /\ Forth(n, i, k) \in 0 .. n - 1
<1>1. \A x \in 0 .. n - 1 : x % n = x /\ (x + n) % n = x
  OBVIOUS
<1>2. CASE i + k < n
  BY <1>1, <1>2 DEF Forth
<1>3. CASE ~(i + k < n)
  <2>1. i + k - n \in 0 .. n - 1 /\ (i + k - n) + n = i + k
    BY <1>3
  <2>2. ((i + k - n) + n) % n = i + k - n
    BY <1>1, <2>1
  <2> QED
    BY <1>3, <2>1, <2>2 DEF Forth
<1> QED
  BY <1>2, <1>3

\* Once round, every place is met, and met once.
LEMMA ForthReaches ==
    ASSUME NEW n \in Nat \ {0}, NEW c \in 0 .. n - 1, NEW i \in 0 .. n - 1
    PROVE  \E j \in 1 .. n : i = Forth(n, c, j)
<1>1. CASE i > c
  <2>1. i - c \in 1 .. n /\ c + (i - c) = i /\ i < n
    BY <1>1
  <2>2. i = Forth(n, c, i - c)
    BY <2>1 DEF Forth
  <2> QED
    BY <2>1, <2>2
<1>2. CASE i <= c
  <2>1. i + n - c \in 1 .. n /\ c + (i + n - c) = i + n /\ ~(i + n < n)
    BY <1>2
  <2>2. i = Forth(n, c, i + n - c)
    BY <2>1 DEF Forth
  <2> QED
    BY <2>1, <2>2
<1> QED
  BY <1>1, <1>2

LEMMA ForthApart ==
    ASSUME NEW n \in Nat \ {0}, NEW i \in 0 .. n - 1, NEW k \in 1 .. n, NEW m \in 1 .. n,
           Forth(n, i, k) = Forth(n, i, m)
    PROVE  k = m
<1>1. i + k = i + m \/ i + k = i + m - n \/ i + k - n = i + m \/ i + k - n = i + m - n
  BY DEF Forth
<1> QED
  BY <1>1

LEMMA BackApart ==
    ASSUME NEW n \in Nat \ {0}, NEW i \in 0 .. n - 1, NEW d \in 0 .. n - 1
    PROVE  /\ Back(n, i, d) \in 0 .. n - 1
           /\ \A c \in 0 .. n - 1 : Back(n, i, c) = Back(n, i, d) => c = d
<1>1. Back(n, i, d) \in 0 .. n - 1
  BY DEF Back
<1>2. ASSUME NEW c \in 0 .. n - 1, Back(n, i, c) = Back(n, i, d) PROVE c = d
  <2>1. i - c = i - d \/ i - c = i - d + n \/ i - c + n = i - d \/ i - c + n = i - d + n
    BY <1>2 DEF Back
  <2> QED
    BY <2>1
<1> QED
  BY <1>1, <1>2

\* A place further on, everything is further back.
LEMMA BackForth ==
    ASSUME NEW n \in Nat \ {0}, NEW i \in 0 .. n - 1, NEW k \in 1 .. n
    PROVE  /\ Forth(n, i, k) = Back(n, i, n - k)
           /\ \A d \in k .. n - 1 : Back(n, Forth(n, i, k), d) = Back(n, i, d - k)
<1>1. CASE i + k < n
  <2>1. Forth(n, i, k) = i + k
    BY <1>1 DEF Forth
  <2> QED
    BY <1>1, <2>1 DEF Back
<1>2. CASE ~(i + k < n)
  <2>1. Forth(n, i, k) = i + k - n
    BY <1>2 DEF Forth
  <2>2. \A d \in k .. n - 1 : ~(d <= i + k - n) /\ d - k <= i
    BY <1>2
  <2> QED
    BY <1>2, <2>1, <2>2 DEF Back
<1> QED
  BY <1>1, <1>2

\* What is numbered by the members of a set and two more is no longer than they are many.
LEMMA FewNumbers ==
    ASSUME NEW F, IsFiniteSet(F), NEW a, NEW b, NEW c, NEW h \in Nat,
           \A d \in 0 .. h - 1 : (\E p \in F : a[p] = d) \/ b = d \/ c = d
    PROVE  Cardinality(F) \in Nat /\ h <= Cardinality(F) + 2
<1>1. PICK A : A = {a[p] : p \in F}
  OBVIOUS
<1>2. PICK f : f = [p \in F |-> a[p]]
  OBVIOUS
<1>3. f \in Surjection(F, A)
  BY <1>1, <1>2 DEF Surjection
<1>4. /\ IsFiniteSet(A) /\ Cardinality(A) <= Cardinality(F)
      /\ Cardinality(A) \in Nat /\ Cardinality(F) \in Nat
  BY <1>3, FS_Surjection, FS_CardinalityType
<1>5. PICK B : B = A \cup {b}
  OBVIOUS
<1>6. IsFiniteSet(B) /\ Cardinality(B) \in Nat /\ Cardinality(B) <= Cardinality(A) + 1
  <2>1. /\ IsFiniteSet(B)
        /\ Cardinality(B) = IF b \in A THEN Cardinality(A) ELSE Cardinality(A) + 1
    BY <1>4, <1>5, FS_AddElement
  <2>2. Cardinality(B) = Cardinality(A) \/ Cardinality(B) = Cardinality(A) + 1
    BY <2>1
  <2> QED
    BY <1>4, <2>1, <2>2
<1>7. PICK C : C = B \cup {c}
  OBVIOUS
<1>8. IsFiniteSet(C) /\ Cardinality(C) \in Nat /\ Cardinality(C) <= Cardinality(B) + 1
  <2>1. /\ IsFiniteSet(C)
        /\ Cardinality(C) = IF c \in B THEN Cardinality(B) ELSE Cardinality(B) + 1
    BY <1>6, <1>7, FS_AddElement
  <2>2. Cardinality(C) = Cardinality(B) \/ Cardinality(C) = Cardinality(B) + 1
    BY <2>1
  <2> QED
    BY <1>6, <2>1, <2>2
<1>9. 0 .. h - 1 \subseteq C
  BY <1>1, <1>5, <1>7
<1>10. Cardinality(0 .. h - 1) <= Cardinality(C)
  BY <1>8, <1>9, FS_Subset
<1>11. Cardinality(0 .. h - 1) = IF 0 > h - 1 THEN 0 ELSE (h - 1) - 0 + 1
  BY FS_Interval
<1> QED
  BY <1>4, <1>6, <1>8, <1>10, <1>11

-----------------------------------------------------------------------------
(* Short lists. *)

LEMMA PairParts ==
    ASSUME NEW T, NEW a \in T, NEW b \in T
    PROVE  /\ <<a>> \in Seq(T) /\ <<a, b>> \in Seq(T)
           /\ <<a, b>> = Append(<<a>>, b)
  OBVIOUS

LEMMA TripleParts ==
    ASSUME NEW T, NEW a \in T, NEW b \in T, NEW c \in T
    PROVE  <<a, b, c>> \in Seq(T) /\ <<a, b, c>> = Append(<<a, b>>, c)
<1>1. <<a, b, c>> \in Seq(T)
  OBVIOUS
<1>2. <<a, b, c>> = Append(<<a, b>>, c)
  OBVIOUS
<1> QED
  BY <1>1, <1>2

LEMMA FourParts ==
    ASSUME NEW T, NEW a \in T, NEW b \in T, NEW c \in T, NEW d \in T
    PROVE  <<a, b, c, d>> \in Seq(T) /\ <<a, b, c, d>> = Append(<<a, b, c>>, d)
<1>1. <<a, b, c, d>> \in Seq(T)
  OBVIOUS
<1>2. <<a, b, c, d>> = Append(<<a, b, c>>, d)
  OBVIOUS
<1> QED
  BY <1>1, <1>2

LEMMA FiveParts ==
    ASSUME NEW T, NEW a \in T, NEW b \in T, NEW c \in T, NEW d \in T, NEW e \in T
    PROVE  <<a, b, c, d, e>> \in Seq(T) /\ <<a, b, c, d, e>> = Append(<<a, b, c, d>>, e)
<1>1. <<a, b, c, d, e>> \in Seq(T)
  OBVIOUS
<1>2. <<a, b, c, d, e>> = Append(<<a, b, c, d>>, e)
  OBVIOUS
<1> QED
  BY <1>1, <1>2

LEMMA ShortMembers ==
    ASSUME NEW T, NEW a \in T, NEW b \in T, NEW c \in T, NEW d \in T, NEW e \in T
    PROVE  /\ <<>> \in Seq(T) /\ ToSet(<<>>) = {}
           /\ <<a>> \in Seq(T) /\ ToSet(<<a>>) = {a}
           /\ <<a, b>> \in Seq(T) /\ ToSet(<<a, b>>) = {a, b}
           /\ <<a, b, c>> \in Seq(T) /\ ToSet(<<a, b, c>>) = {a, b, c}
           /\ <<a, b, c, d, e>> \in Seq(T) /\ ToSet(<<a, b, c, d, e>>) = {a, b, c, d, e}
<1>1. <<>> \in Seq(T) /\ ToSet(<<>>) = {}
  BY DEF ToSet
<1>2. <<a>> \in Seq(T) /\ ToSet(<<a>>) = {a}
  BY DEF ToSet
<1>3. <<a, b>> \in Seq(T) /\ ToSet(<<a, b>>) = {a, b}
  <2>1. DOMAIN <<a, b>> = {1, 2}
    OBVIOUS
  <2> QED
    BY <2>1 DEF ToSet
<1>4. <<a, b, c>> \in Seq(T) /\ ToSet(<<a, b, c>>) = {a, b, c}
  <2>1. DOMAIN <<a, b, c>> = {1, 2, 3}
    OBVIOUS
  <2> QED
    BY <2>1 DEF ToSet
<1>5. <<a, b, c, d, e>> \in Seq(T) /\ ToSet(<<a, b, c, d, e>>) = {a, b, c, d, e}
  <2>1. DOMAIN <<a, b, c, d, e>> = {1, 2, 3, 4, 5}
    OBVIOUS
  <2> QED
    BY <2>1 DEF ToSet
<1> QED
  BY <1>1, <1>2, <1>3, <1>4, <1>5
=============================================================================
