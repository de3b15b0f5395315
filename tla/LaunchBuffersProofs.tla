------------------------ MODULE LaunchBuffersProofs ------------------------
(***************************************************************************)
(* What LaunchBuffers says of the buffers that launches share, for every   *)
(* number of requests, pipes and sizes.                                    *)
(*                                                                         *)
(* The inputs of a replay are padded in every mode (Marked).  Without      *)
(* mixed batches the requests of a pipe go through their steps together:   *)
(* a launch is then one group, of all requests of its pipe, and their      *)
(* tables lie in one buffer in the order of the pipe (Shape).  On that     *)
(* rest what the tables and the waiting results say (Content), and that a  *)
(* pack never writes over its inputs when a wave also ends together (Even).*)
(***************************************************************************)
EXTENDS LaunchBuffers, SharedLemmas

-----------------------------------------------------------------------------
(* Sizes and pads. *)

\* pad_bs picks a captured size that is large enough.
LEMMA BucketIs ==
    ASSUME mode \in Modes, NEW n \in Nat, Bucket(n) # 0
    PROVE  Bucket(n) \in Captured /\ Bucket(n) \in Sizes /\ Bucket(n) \in Nat /\ Bucket(n) >= n
<1> DEFINE Least(b) == b >= n /\ \A c \in Captured : c >= n => b <= c
           size == CHOOSE b \in Captured : Least(b)
<1>1. Captured \subseteq Nat /\ Captured \subseteq Sizes
  BY BuffersAssumption DEF BuffersAssumption, Captured, Sizes
<1>2. \E b \in Captured : b >= n
  BY Zenon DEF Bucket
<1>3. Bucket(n) = size
  BY <1>2, Zenon DEF Bucket
<1>4. \E b \in Captured : Least(b)
  <2>1. PICK k \in Nat : k \in Captured /\ k >= n
    BY <1>1, <1>2
  <2> DEFINE D == {b \in 0 .. k : b \in Captured /\ b >= n}
  <2>2. D \in SUBSET (0 .. k) /\ D # {}
    BY <2>1
  <2>3. PICK m \in D : \A c \in 0 .. k : c < m => c \notin D
    <3> HIDE DEF D
    <3> QED
      BY <2>2, LeastUpTo
  <2>4. m \in 0 .. k /\ m \in Captured /\ m >= n
    OBVIOUS
  <2>5. ASSUME NEW c \in Captured, c >= n PROVE m <= c
    <3>1. c \in Nat
      BY <1>1
    <3>2. CASE c > k
      BY <2>4, <3>1, <3>2
    <3>3. CASE ~(c > k)
      <4>1. c \in 0 .. k /\ c \in D
        BY <2>5, <3>1, <3>3
      <4> QED
        BY <2>3, <2>4, <3>1, <4>1
    <3> QED
      BY <3>2, <3>3
  <2> QED
    BY <2>4, <2>5
<1>5. size \in Captured /\ Least(size)
  <2> HIDE DEF Least
  <2> QED
    BY <1>4, Zenon
<1> HIDE DEF size
<1> QED
  BY <1>1, <1>3, <1>5

\* The sizes are fixed, every row of every size has a mark below or above it, and
\* the rows above the mark hold pads.
Marked ==
    /\ mode \in Modes
    /\ DOMAIN rows = Sizes /\ DOMAIN dirty = Sizes
    /\ \A b \in Sizes : dirty[b] \in Nat
    /\ RowsPadded

\* The number of requests in a launch is a number.
LEMMA NRowsType == \A p : NRows(p) \in Nat
<1> SUFFICES ASSUME NEW p PROVE NRows(p) \in Nat
    OBVIOUS
<1>1. {r \in Running : r \in Range(pipes[p])} \subseteq Reqs
    BY DEF Running
<1>2. IsFiniteSet({r \in Running : r \in Range(pipes[p])})
    BY <1>1, FS_Subset, BuffersAssumption DEF BuffersAssumption
<1> QED
    BY <1>2, FS_CardinalityType DEF NRows

\* Sizes are positive numbers.
LEMMA SizesType == mode \in Modes => Sizes \subseteq Nat \ {0}
    BY BuffersAssumption DEF BuffersAssumption, Sizes

\* A launch of size b that writes n rows keeps the marks true: what lies between
\* the new mark and the old one is cleaned, what lies above the old one was clean.
LEMMA InputsKeepMarks ==
    ASSUME Marked, mode' = mode, NEW b \in Sizes, NEW rs, NEW n \in Nat, Inputs(b, rs, n)
    PROVE  Marked'
<1>1. Sizes' = Sizes
    BY DEF Sizes
<1>2. /\ DOMAIN rows' = Sizes /\ DOMAIN dirty' = Sizes
      /\ \A c \in Sizes : dirty'[c] \in Nat
    BY DEF Marked, Inputs
<1>3. ASSUME NEW c \in Sizes, NEW i \in 1 .. c, i > dirty'[c]
      PROVE  rows'[c][i] = Pad
  <2>1. c \in Nat /\ i \in Nat /\ dirty[c] \in Nat
      BY SizesType DEF Marked
  <2>2. CASE c = b
    <3>1. rows'[c][i] = Written(b, rs, n)[i] /\ i > n
        BY <1>3, <2>2 DEF Inputs, Marked
    <3>2. n < b
        BY <2>1, <2>2, <3>1
    <3>3. CASE i <= dirty[b]
        BY <2>1, <2>2, <3>1, <3>2, <3>3 DEF Written
    <3>4. CASE i > dirty[b]
        BY <2>1, <2>2, <3>1, <3>2, <3>4 DEF Written, Marked, RowsPadded
    <3> QED
        BY <2>1, <2>2, <3>3, <3>4
  <2>3. CASE c # b
      BY <1>3, <2>3 DEF Inputs, Marked, RowsPadded
  <2> QED
      BY <2>2, <2>3
<1> QED
    BY <1>1, <1>2, <1>3 DEF Marked, RowsPadded

\* Before the first launch all rows are pads.
LEMMA MarkedInit == Init => Marked
<1> SUFFICES ASSUME Init PROVE Marked
    OBVIOUS
<1>1. Sizes \subseteq Nat
    BY SizesType DEF Init
<1> QED
    BY <1>1 DEF Init, Marked, RowsPadded

\* Only launches write rows, and they keep the marks true.
LEMMA MarkedStep == Marked /\ [Next]_vars => Marked'
<1> SUFFICES ASSUME Marked, [Next]_vars PROVE Marked'
    OBVIOUS
<1>1. ASSUME UNCHANGED <<mode, inputs>> PROVE Marked'
    BY <1>1 DEF Marked, RowsPadded, Sizes, inputs
<1>2. CASE LoopTurn
    BY <1>1, <1>2 DEF LoopTurn
<1>3. CASE NoLaunch
    BY <1>1, <1>3 DEF NoLaunch
<1>4. CASE Process
    BY <1>1, <1>4 DEF Process
<1>5. ASSUME NEW p \in PipeIds, LaunchEager(p) PROVE Marked'
    BY <1>1, <1>5 DEF LaunchEager
<1>6. ASSUME NEW p \in PipeIds, LaunchPlain(p) PROVE Marked'
  <2>1. /\ Bucket(NRows(p)) # 0 /\ mode' = mode
        /\ Inputs(Bucket(NRows(p)), Ordered(p), NRows(p))
      BY <1>6 DEF LaunchPlain
  <2>2. Bucket(NRows(p)) \in Sizes
      BY <2>1, BucketIs, NRowsType DEF Marked
  <2> QED
      BY <2>1, <2>2, NRowsType, InputsKeepMarks
<1>7. ASSUME NEW p \in PipeIds, LaunchExpand(p) PROVE Marked'
  <2>1. /\ Bucket(NRows(p)) # 0 /\ mode' = mode
        /\ Inputs(Bucket(NRows(p)), Ordered(p), NRows(p))
      BY <1>7 DEF LaunchExpand, WantsExpand
  <2>2. Bucket(NRows(p)) \in Sizes
      BY <2>1, BucketIs, NRowsType DEF Marked
  <2> QED
      BY <2>1, <2>2, NRowsType, InputsKeepMarks
<1>8. ASSUME NEW p \in PipeIds, PackRaises(p) PROVE Marked'
    BY <1>1, <1>8 DEF PackRaises
<1>9. CASE UNCHANGED vars
    BY <1>1, <1>9 DEF vars, inputs
<1> QED
    BY <1>2, <1>3, <1>4, <1>5, <1>6, <1>7, <1>8, <1>9 DEF Next

\* Whatever sizes were captured and however the batches grow and shrink, a pad row
\* never carries a request into the graph.
THEOREM PadsStayClean == Spec => []RowsPadded
<1>1. Marked => RowsPadded
    BY DEF Marked
<1> QED
    BY MarkedInit, MarkedStep, <1>1, PTL DEF Spec

-----------------------------------------------------------------------------
(* Values and places. *)

N == Cardinality(Reqs)
States == (Reqs \cup {0}) \X Nat
Refs == {Own(v) : v \in States} \cup {View(x, i) : x \in Places, i \in 1 .. N}
Memory == [Places -> [1 .. N -> States]]
Launches == [pid : PipeIds, reqs : Seq(Reqs), out : Seq(Refs), fused : BOOLEAN]

\* The requests are the numbers up to N, and no state of theirs is Junk.
LEMMA ReqsAreNumbers ==
    /\ IsFiniteSet(Reqs) /\ N \in Nat /\ Reqs = 1 .. N
    /\ Junk \in States
    /\ \A r \in Reqs, d \in Nat : <<r, d>> \in States /\ <<r, d>> # Junk
<1>1. IsFiniteSet(Reqs) /\ N \in Nat /\ Reqs = 1 .. N
  BY BuffersAssumption, FS_CardinalityType DEF BuffersAssumption, N
<1> QED
  BY <1>1 DEF States, Junk

\* A buffer is of one kind, size and plane.
LEMMA PlacesApart ==
    /\ \A b : Hidden(b) # <<"own">>
    /\ \A b, k : Plane(b, k) # <<"own">>
    /\ \A p, k : Workspace(p, k) # <<"own">>
    /\ \A b, c, k : Hidden(b) # Plane(c, k)
    /\ \A b, p, k : Hidden(b) # Workspace(p, k)
    /\ \A b, k, p, l : Plane(b, k) # Workspace(p, l)
    /\ \A b, k, c, l : Plane(b, k) = Plane(c, l) => b = c /\ k = l
    /\ \A p, k, q, l : Workspace(p, k) = Workspace(q, l) => p = q /\ k = l
    BY DEF Hidden, Plane, Workspace

\* A reference is a copy, or a row of a buffer.
LEMMA RefCases ==
    ASSUME NEW ref \in Refs
    PROVE  \/ /\ ref.at = <<"own">> /\ ref.value \in States
              /\ \A m : Deref(m, ref) = ref.value
           \/ /\ ref.at \in Places /\ ref.row \in 1 .. N /\ ref.at # <<"own">>
              /\ ref = View(ref.at, ref.row)
              /\ \A m : Deref(m, ref) = m[ref.at][ref.row]
<1>1. CASE \E v \in States : ref = Own(v)
  BY <1>1 DEF Own, Deref
<1>2. CASE \E x \in Places, i \in 1 .. N : ref = View(x, i)
  <2>1. PICK x \in Places, i \in 1 .. N : ref = View(x, i)
    BY <1>2
  <2>2. x # <<"own">>
    BY PlacesApart DEF Places
  <2>3. ref.at = x /\ ref.row = i
    BY <2>1 DEF View
  <2> QED
    BY <2>1, <2>2, <2>3 DEF Deref
<1> QED
  BY <1>1, <1>2 DEF Refs

\* Reading gives a state.
LEMMA DerefType ==
    ASSUME NEW m \in Memory, NEW ref \in Refs
    PROVE  Deref(m, ref) \in States
<1>1. \A x \in Places, i \in 1 .. N : m[x][i] \in States
  BY DEF Memory
<1> QED
  BY <1>1, RefCases

\* Copies and views are references, and read as what they hold.
LEMMA ViewsAreRefs ==
    /\ \A v \in States : Own(v) \in Refs /\ Own(v).at = <<"own">> /\ \A m : Deref(m, Own(v)) = v
    /\ \A x \in Places, i \in 1 .. N : /\ View(x, i) \in Refs
                                       /\ View(x, i).at = x /\ View(x, i).row = i
                                       /\ \A m : Deref(m, View(x, i)) = m[x][i]
<1>1. \A x \in Places : x # <<"own">>
  BY PlacesApart DEF Places
<1> QED
  BY <1>1 DEF Refs, Own, View, Deref

\* What Put changes.
LEMMA PutRows ==
    ASSUME NEW m \in Memory, NEW x \in Places, NEW v \in Seq(States), Len(v) <= N
    PROVE  /\ Put(m, x, v) \in Memory
           /\ \A y \in Places : y # x => Put(m, x, v)[y] = m[y]
           /\ \A i \in 1 .. N : Put(m, x, v)[x][i] = IF i <= Len(v) THEN v[i] ELSE m[x][i]
<1>1. N \in Nat /\ DOMAIN v = 1 .. Len(v) /\ Len(v) \in Nat /\ \A i \in 1 .. Len(v) : v[i] \in States
  BY ReqsAreNumbers
<1>2. PICK w : w = [i \in 1 .. N |-> IF i <= Len(v) THEN v[i] ELSE m[x][i]]
  OBVIOUS
<1>3. w \in [1 .. N -> States]
  BY <1>1, <1>2 DEF Memory
<1>4. DOMAIN m[x] = 1 .. N
  BY DEF Memory
<1>5. Put(m, x, v) = [m EXCEPT ![x] = w]
  <2>1. \A i \in 1 .. N : i \in DOMAIN v <=> i <= Len(v)
    BY <1>1
  <2>2. [i \in DOMAIN m[x] |-> IF i \in DOMAIN v THEN v[i] ELSE m[x][i]] = w
    BY <1>2, <1>4, <2>1
  <2> QED
    BY <2>2 DEF Put, Memory
<1> QED
  BY <1>2, <1>3, <1>5 DEF Memory

\* The expand keeps the type, and advances the tables it has the results of.
LEMMA ExpandType ==
    /\ \A x, y \in States : Expand(x, y) \in States
    /\ \A r \in Reqs, d \in Nat : Expand(<<r, d>>, <<r, d>>) = <<r, d + 1>>
<1>1. \A y \in States : <<y[1], y[2] + 1>> \in States
  BY DEF States
<1> QED
  BY <1>1, ReqsAreNumbers DEF Expand

-----------------------------------------------------------------------------
(* Packing rows one after the other. *)

\* A row that lies in the plane it is packed into is not above its destination.
RowsAhead(t, g, src) ==
    \A i \in 1 .. Len(g) : t[g[i]].at # src \/ i <= t[g[i]].row

PackStep(m, t, g, src, i) == [m EXCEPT ![src][i] = Deref(m, t[g[i]])]

PacksAlong(h, m, t, g, src) ==
    /\ h \in [0 .. Len(g) -> Memory]
    /\ h[0] = m
    /\ \A i \in 1 .. Len(g) : h[i] = PackStep(h[i - 1], t, g, src, i)

\* Packing one row writes that row only.
LEMMA PackStepType ==
    ASSUME NEW m \in Memory, NEW t \in [Reqs -> Refs], NEW g \in Seq(Reqs), Len(g) <= N,
           NEW src \in Places, NEW i \in 1 .. Len(g)
    PROVE  /\ PackStep(m, t, g, src, i) \in Memory
           /\ \A y \in Places : y # src => PackStep(m, t, g, src, i)[y] = m[y]
           /\ \A j \in 1 .. N : PackStep(m, t, g, src, i)[src][j]
                                    = IF j = i THEN Deref(m, t[g[i]]) ELSE m[src][j]
<1>1. i \in 1 .. N /\ g[i] \in Reqs
  BY ReqsAreNumbers
<1>2. PICK v \in States : v = Deref(m, t[g[i]])
  BY <1>1, DerefType
<1>3. PackStep(m, t, g, src, i) = [m EXCEPT ![src] = [m[src] EXCEPT ![i] = v]]
  BY <1>2 DEF PackStep
<1>4. m[src] \in [1 .. N -> States]
  BY DEF Memory
<1>5. [m[src] EXCEPT ![i] = v] \in [1 .. N -> States]
  BY <1>1, <1>4
<1> QED
  BY <1>1, <1>2, <1>3, <1>4, <1>5 DEF Memory

\* Packing goes along the group, row after row.
LEMMA PackAlong ==
    ASSUME NEW m \in Memory, NEW t \in [Reqs -> Refs], NEW g \in Seq(Reqs), Len(g) <= N,
           NEW src \in Places
    PROVE  \E h : PacksAlong(h, m, t, g, src) /\ Packing(m, t, g, src) = h[Len(g)]
<1> DEFINE n == Len(g)
           A == Memory
           Rec(f) == f = [s \in SUBSET (1 .. n) |->
                            IF s = {} THEN m
                            ELSE PackStep(f[s \ {Max(s)}], t, g, src, [i \in DOMAIN g |-> i][Max(s)])]
<1>1. n \in Nat /\ DOMAIN g = 1 .. n
  OBVIOUS
<1>2. \A x \in A, k \in 1 .. n : PackStep(x, t, g, src, k) \in A
  BY PackStepType
<1>3. Packing(m, t, g, src) = (CHOOSE f : Rec(f))[1 .. n]
  BY <1>1 DEF Packing, PackStep, FoldLeft, MapThenFoldSet
<1>4. PICK G : G = [e \in A \X (1 .. n) |-> PackStep(e[1], t, g, src, e[2])]
  OBVIOUS
<1> HIDE DEF A
<1>5. G \in [A \X (1 .. n) -> A] /\ m \in A
  BY <1>2, <1>4 DEF A
<1>6. \A x \in A, k \in 1 .. n : G[<<x, k>>] = PackStep(x, t, g, src, k)
  BY <1>4
<1>7. PICK c : FoldRecursion(c, A, m, n, G)
  <2> HIDE DEF n, Rec
  <2> QED
    BY <1>1, <1>5, SubsetRecursion
<1>8. ASSUME NEW s \in SUBSET (1 .. n), s # {}
      PROVE  Max(s) \in 1 .. n /\ [i \in DOMAIN g |-> i][Max(s)] = Max(s)
  <2>1. s \in SUBSET (0 .. n)
    OBVIOUS
  <2>2. Max(s) \in 1 .. n
    BY <1>1, <1>8, <2>1, GreatestMember
  <2> QED
    BY <1>1, <2>2
<1> HIDE DEF n
<1>9. ASSUME NEW s \in SUBSET (1 .. n), s # {}
      PROVE  c[s] = PackStep(c[s \ {Max(s)}], t, g, src, [i \in DOMAIN g |-> i][Max(s)])
  <2>1. c[s \ {Max(s)}] \in A
    BY <1>7, <1>9 DEF FoldRecursion
  <2> QED
    BY <1>6, <1>7, <1>8, <1>9, <2>1 DEF FoldRecursion
<1>10. \E f : Rec(f)
  <2>1. c = [s \in SUBSET (1 .. n) |-> c[s]] /\ c[{}] = m
    BY <1>7 DEF FoldRecursion
  <2> QED
    BY <1>9, <2>1
<1>11. PICK f : f = (CHOOSE x : Rec(x)) /\ Rec(f)
  <2> HIDE DEF Rec
  <2> QED
    BY <1>10, Zenon
<1>12. FoldStep(f, A, m, n, G)
  <2>1. f[{}] = m
    BY <1>11
  <2>2. ASSUME NEW s \in SUBSET (1 .. n), s # {}, f[s \ {Max(s)}] \in A
        PROVE  f[s] = G[<<f[s \ {Max(s)}], Max(s)>>]
    <3>1. f[s] = PackStep(f[s \ {Max(s)}], t, g, src, [i \in DOMAIN g |-> i][Max(s)])
      BY <1>11, <2>2
    <3> HIDE DEF Rec
    <3> QED
      BY <1>6, <1>8, <2>2, <3>1
  <2> HIDE DEF Rec
  <2> QED
    BY <2>1, <2>2 DEF FoldStep
<1>13. EndsIn(f[1 .. n], A, m, n, G)
  <2> HIDE DEF Rec
  <2> QED
    BY <1>1, <1>5, <1>12, FoldIdentified
<1> HIDE DEF Rec
<1>14. PICK h : Recursion(h, A, m, n, G) /\ h[n] = f[1 .. n]
  BY <1>13 DEF EndsIn
<1>15. Packing(m, t, g, src) = h[n]
  BY <1>3, <1>11, <1>14
<1>16. \A k \in 1 .. n : h[k - 1] \in A
  BY <1>1, <1>14 DEF Recursion
<1>17. PacksAlong(h, m, t, g, src)
  BY <1>6, <1>14, <1>16 DEF Recursion, PacksAlong, n, A
<1> QED
  BY <1>15, <1>17 DEF n

\* pick_pingpong_stack packs every row as it was before the first was written.
LEMMA PackedRows ==
    ASSUME NEW m \in Memory, NEW t \in [Reqs -> Refs], NEW g \in Seq(Reqs), Len(g) <= N,
           NEW src \in Places, RowsAhead(t, g, src)
    PROVE  /\ Packing(m, t, g, src) \in Memory
           /\ \A y \in Places : y # src => Packing(m, t, g, src)[y] = m[y]
           /\ \A i \in 1 .. Len(g) : Packing(m, t, g, src)[src][i] = Deref(m, t[g[i]])
<1>1. PICK h : PacksAlong(h, m, t, g, src) /\ Packing(m, t, g, src) = h[Len(g)]
  BY PackAlong
<1>2. PICK n \in Nat : n = Len(g) /\ n <= N
  OBVIOUS
<1>3. /\ h \in [0 .. n -> Memory] /\ h[0] = m
      /\ \A i \in 1 .. n : h[i] = PackStep(h[i - 1], t, g, src, i)
  BY <1>1, <1>2 DEF PacksAlong
<1> DEFINE Good(k) == /\ \A y \in Places : y # src => h[k][y] = m[y]
                      /\ \A i \in 1 .. k : h[k][src][i] = Deref(m, t[g[i]])
                      /\ \A j \in 1 .. N : k < j => h[k][src][j] = m[src][j]
           D == {k \in 0 .. n : ~Good(k)}
<1>4. D = {}
  <2>1. SUFFICES ASSUME D # {} PROVE FALSE
    OBVIOUS
  <2>2. D \in SUBSET (0 .. n)
    OBVIOUS
  <2>3. PICK k \in D : k \in 0 .. n /\ \A j \in 0 .. n : j < k => j \notin D
    <3> HIDE DEF D
    <3> QED
      BY <2>1, <2>2, LeastUpTo
  <2>4. k # 0
    <3>1. Good(0)
      BY <1>3
    <3> QED
      BY <2>3, <3>1
  <2>5. k \in 1 .. n /\ k - 1 \in 0 .. n /\ k - 1 < k /\ k \in 1 .. N
    BY <1>2, <2>3, <2>4, ReqsAreNumbers
  <2>6. Good(k - 1)
    BY <2>3, <2>5
  <2> PICK x \in Memory : x = h[k - 1]
    BY <1>3, <2>5
  <2> HIDE DEF D
  <2>7. h[k] = PackStep(x, t, g, src, k)
    BY <1>3, <2>5
  <2>8. /\ \A y \in Places : y # src => h[k][y] = x[y]
        /\ \A j \in 1 .. N : h[k][src][j] = IF j = k THEN Deref(x, t[g[k]]) ELSE x[src][j]
    BY <1>2, <2>5, <2>7, PackStepType
  <2>9. Deref(x, t[g[k]]) = Deref(m, t[g[k]])
    <3>1. t[g[k]] \in Refs
      BY <1>2, <2>5
    <3>2. PICK ref \in Refs : ref = t[g[k]]
      BY <3>1
    <3>3. ref.at # src \/ k <= ref.row
      BY <1>2, <2>5, <3>2 DEF RowsAhead
    <3>4. CASE ref.at = <<"own">>
      BY <3>2, <3>4, RefCases
    <3>5. CASE ref.at # <<"own">>
      <4>1. /\ ref.at \in Places /\ ref.row \in 1 .. N
            /\ Deref(x, ref) = x[ref.at][ref.row] /\ Deref(m, ref) = m[ref.at][ref.row]
        BY <3>5, RefCases
      <4>2. CASE ref.at # src
        BY <2>6, <3>2, <4>1, <4>2
      <4>3. CASE ref.at = src
        <5>1. k - 1 < ref.row
          BY <2>5, <3>3, <4>1, <4>3, ReqsAreNumbers
        <5> QED
          BY <2>6, <3>2, <4>1, <4>3, <5>1
      <4> QED
        BY <4>2, <4>3
    <3> QED
      BY <3>4, <3>5
  <2>10. \A i \in 1 .. k : h[k][src][i] = Deref(m, t[g[i]])
    <3> SUFFICES ASSUME NEW i \in 1 .. k PROVE h[k][src][i] = Deref(m, t[g[i]])
      OBVIOUS
    <3>1. i \in 1 .. N /\ (i = k \/ i \in 1 .. k - 1)
      BY <2>5, ReqsAreNumbers
    <3> QED
      BY <2>6, <2>8, <2>9, <3>1
  <2>11. \A j \in 1 .. N : k < j => h[k][src][j] = m[src][j]
    <3> SUFFICES ASSUME NEW j \in 1 .. N, k < j PROVE h[k][src][j] = m[src][j]
      OBVIOUS
    <3>1. j # k /\ k - 1 < j
      BY <2>5, ReqsAreNumbers
    <3> QED
      BY <2>6, <2>8, <3>1
  <2>12. Good(k)
    BY <2>6, <2>8, <2>10, <2>11
  <2> QED
    BY <2>3, <2>12 DEF D
<1>5. Good(n) /\ h[n] \in Memory
  <2>1. n \in 0 .. n
    OBVIOUS
  <2> HIDE DEF Good
  <2> QED
    BY <1>3, <1>4, <2>1
<1> QED
  BY <1>1, <1>2, <1>5

\* Where requests lie in one buffer, they lie there in the order of s.
InLine(t, s, S) ==
    \A i, j \in 1 .. Len(s) :
        i < j /\ s[i] \in S /\ s[j] \in S =>
            /\ t[s[i]].at = t[s[j]].at
            /\ t[s[i]].at = <<"own">> \/ t[s[i]].row < t[s[j]].row

\* Rows in the order of the group are never packed over one still to be read.
LEMMA InLineIsAhead ==
    ASSUME NEW t \in [Reqs -> Refs], NEW g \in Seq(Reqs), InLine(t, g, Reqs), NEW src \in Places
    PROVE  RowsAhead(t, g, src)
<1>1. PICK n \in Nat : n = Len(g)
  OBVIOUS
<1>2. \A i \in 1 .. n : g[i] \in Reqs /\ t[g[i]] \in Refs
  BY <1>1
<1>3. CASE \A i \in 1 .. n : t[g[i]].at # src
  BY <1>1, <1>3 DEF RowsAhead
<1>4. CASE \E i \in 1 .. n : t[g[i]].at = src
  <2>1. PICK k \in 1 .. n : t[g[k]].at = src
    BY <1>4
  <2>2. src # <<"own">>
    BY PlacesApart DEF Places
  <2>3. \A i \in 1 .. n : t[g[i]].at = src
    <3> SUFFICES ASSUME NEW i \in 1 .. n PROVE t[g[i]].at = src
      OBVIOUS
    <3>1. i < k \/ i = k \/ k < i
      OBVIOUS
    <3> QED
      BY <1>1, <1>2, <2>1, <3>1 DEF InLine
  <2>4. \A i \in 1 .. n : t[g[i]].row \in 1 .. N
    BY <1>2, <2>2, <2>3, RefCases
  <2> DEFINE e == [i \in 1 .. n |-> t[g[i]].row]
  <2>5. e \in [1 .. n -> Nat \ {0}]
    BY <2>4, ReqsAreNumbers
  <2>6. \A i, j \in 1 .. n : i < j => e[i] < e[j]
    BY <1>1, <1>2, <2>2, <2>3 DEF InLine
  <2>7. \A i \in 1 .. n : i <= e[i]
    <3> HIDE DEF e
    <3> QED
      BY <1>1, <2>5, <2>6, Increasing
  <2> QED
    BY <1>1, <2>7 DEF RowsAhead
<1> QED
  BY <1>3, <1>4

\* What the expand of a group g of pipe pid leaves.
GroupExpanded(st, m, t, pid, g, results) ==
    /\ st.mem \in Memory /\ st.table \in [Reqs -> Refs]
    /\ \A y \in Places : y # Workspace(pid, 0) /\ y # Workspace(pid, 1) => st.mem[y] = m[y]
    /\ \A r \in Reqs : r \notin ToSet(g) => st.table[r] = t[r]
    /\ \/ \A i \in 1 .. Len(g) : st.table[g[i]].at = <<"own">>
       \/ \E k \in 0 .. 1 : \A i \in 1 .. Len(g) : st.table[g[i]] = View(Workspace(pid, k), i)
    /\ \A i \in 1 .. Len(g) :
          Deref(st.mem, st.table[g[i]]) = Expand(Deref(m, results[i]), Deref(m, t[g[i]]))

\* The position of a request.
LEMMA PositionIn ==
    ASSUME NEW g \in Seq(Reqs), NoRepeats(g), NEW i \in 1 .. Len(g)
    PROVE  (CHOOSE j \in DOMAIN g : g[j] = g[i]) = i
<1> DEFINE k == CHOOSE j \in DOMAIN g : g[j] = g[i]
<1>1. DOMAIN g = 1 .. Len(g)
  OBVIOUS
<1>2. i \in DOMAIN g /\ g[i] = g[i]
  BY <1>1
<1>3. k \in DOMAIN g /\ g[k] = g[i]
  BY <1>2, Zenon
<1> HIDE DEF k
<1>4. k = i
  BY <1>1, <1>3 DEF NoRepeats
<1> QED
  BY <1>4, Zenon DEF k

\* Two names of the members of a sequence.
LEMMA RangeIsSet == \A s : Range(s) = ToSet(s)
  BY DEF Range, ToSet

\* _expand_fused leaves the tables of the group in one plane, each one step on.
LEMMA ExpandFusedDoes ==
    ASSUME NEW m \in Memory, NEW t \in [Reqs -> Refs], NEW pid \in PipeIds,
           NEW g \in Seq(Reqs), NoRepeats(g), Len(g) <= N, InLine(t, g, Reqs),
           NEW results \in Seq(Refs), Len(results) = Len(g),
           \A i \in 1 .. Len(g), k \in 0 .. 1 : results[i].at # Workspace(pid, k)
    PROVE  GroupExpanded(ExpandFused([table |-> t, mem |-> m], pid, g, results), m, t, pid, g, results)
<1> DEFINE a == Workspace(pid, 0)
           b == Workspace(pid, 1)
           inB == ~Aligned(m, t, g, a) /\ Aligned(m, t, g, b)
           src == IF inB THEN b ELSE a
           dst == IF inB THEN a ELSE b
           packed == IF Aligned(m, t, g, src) THEN m ELSE Packing(m, t, g, src)
           expanded == [i \in DOMAIN g |-> Expand(Deref(packed, results[i]), packed[src][i])]
           Pos(r) == CHOOSE i \in DOMAIN g : g[i] = r
           st == ExpandFused([table |-> t, mem |-> m], pid, g, results)
<1>1. st = [mem |-> Put(packed, dst, expanded),
            table |-> [r \in Reqs |-> IF r \in Range(g) THEN View(dst, Pos(r)) ELSE t[r]]]
  BY DEF ExpandFused
<1>p. \A i \in 1 .. Len(g) : Pos(g[i]) = i
  BY PositionIn, Zenon
<1> HIDE DEF Pos
<1>2. a \in Places /\ b \in Places /\ a # b
  BY PlacesApart DEF Places
<1> HIDE DEF a, b
<1>3. src \in Places /\ dst \in Places /\ src # dst /\ {src, dst} = {a, b}
  BY <1>2
<1>4. PICK n \in Nat : n = Len(g) /\ n <= N /\ DOMAIN g = 1 .. n
  OBVIOUS
<1>5. \A i \in 1 .. n : g[i] \in Reqs /\ t[g[i]] \in Refs /\ results[i] \in Refs
  BY <1>4
<1>6. /\ packed \in Memory
      /\ \A y \in Places : y # src => packed[y] = m[y]
      /\ \A i \in 1 .. n : packed[src][i] = Deref(m, t[g[i]])
  <2>1. CASE Aligned(m, t, g, src)
    <3>1. packed = m
      BY <2>1
    <3>2. \A i \in 1 .. n : t[g[i]] = View(src, i) /\ i \in 1 .. N
      BY <1>4, <2>1, ReqsAreNumbers DEF Aligned
    <3> HIDE DEF src, packed
    <3> QED
      BY <1>3, <3>1, <3>2, ViewsAreRefs
  <2>2. CASE ~Aligned(m, t, g, src)
    <3>1. packed = Packing(m, t, g, src)
      BY <2>2
    <3> HIDE DEF src, packed
    <3>2. RowsAhead(t, g, src)
      BY <1>3, InLineIsAhead
    <3> QED
      BY <1>3, <1>4, <3>1, <3>2, PackedRows
  <2> QED
    BY <2>1, <2>2
<1> HIDE DEF src, packed, inB
<1>7. \A i \in 1 .. n : Deref(packed, results[i]) = Deref(m, results[i])
  <2> SUFFICES ASSUME NEW i \in 1 .. n PROVE Deref(packed, results[i]) = Deref(m, results[i])
    OBVIOUS
  <2>1. PICK ref \in Refs : ref = results[i]
    BY <1>5
  <2>2. ref.at # src
    BY <1>3, <1>4, <2>1 DEF a, b
  <2> QED
    BY <1>6, <2>1, <2>2, RefCases
<1>8. \A i \in 1 .. n : /\ expanded[i] = Expand(Deref(m, results[i]), Deref(m, t[g[i]]))
                        /\ expanded[i] \in States
  <2>1. \A i \in 1 .. n : Deref(m, results[i]) \in States /\ Deref(m, t[g[i]]) \in States
    BY <1>5, DerefType
  <2> QED
    BY <1>4, <1>6, <1>7, <2>1, ExpandType
<1>9. expanded \in Seq(States) /\ Len(expanded) = n
  <2>1. expanded = [i \in 1 .. n |-> expanded[i]]
    BY <1>4
  <2> HIDE DEF expanded
  <2> QED
    BY <1>8, <2>1
<1> HIDE DEF expanded, dst
<1>10. /\ st.mem \in Memory
       /\ \A y \in Places : y # dst => st.mem[y] = packed[y]
       /\ \A i \in 1 .. n : st.mem[dst][i] = expanded[i]
  <2>1. /\ Put(packed, dst, expanded) \in Memory
        /\ \A y \in Places : y # dst => Put(packed, dst, expanded)[y] = packed[y]
        /\ \A i \in 1 .. N : Put(packed, dst, expanded)[dst][i]
              = IF i <= n THEN expanded[i] ELSE packed[dst][i]
    BY <1>3, <1>4, <1>6, <1>9, PutRows
  <2>2. \A i \in 1 .. n : i \in 1 .. N /\ i <= n
    BY <1>4, ReqsAreNumbers
  <2>3. st.mem = Put(packed, dst, expanded)
    BY <1>1
  <2> HIDE DEF st
  <2> QED
    BY <2>1, <2>2, <2>3
<1>11. \A y \in Places : y # a /\ y # b => st.mem[y] = m[y]
  BY <1>3, <1>6, <1>10
<1>12. \A r \in Reqs : st.table[r] = IF r \in ToSet(g) THEN View(dst, Pos(r)) ELSE t[r]
  <2> HIDE DEF st, Pos
  <2>1. st.table = [r \in Reqs |-> IF r \in Range(g) THEN View(dst, Pos(r)) ELSE t[r]]
    BY <1>1
  <2> QED
    BY <2>1, RangeIsSet
<1>13. \A i \in 1 .. n : st.table[g[i]] = View(dst, i)
  <2> SUFFICES ASSUME NEW i \in 1 .. n PROVE st.table[g[i]] = View(dst, i)
    OBVIOUS
  <2>1. Pos(g[i]) = i
    BY <1>4, <1>p
  <2>2. g[i] \in ToSet(g) /\ g[i] \in Reqs
    BY <1>4, <1>5 DEF ToSet
  <2> HIDE DEF st, Pos
  <2> QED
    BY <1>12, <2>1, <2>2
<1>14. st.table \in [Reqs -> Refs]
  <2>1. st.table = [r \in Reqs |-> st.table[r]]
    BY <1>1
  <2>2. \A r \in Reqs : st.table[r] \in Refs
    <3> SUFFICES ASSUME NEW r \in Reqs PROVE st.table[r] \in Refs
      OBVIOUS
    <3>1. CASE r \notin ToSet(g)
      BY <1>12, <3>1
    <3>2. CASE r \in ToSet(g)
      <4>1. PICK i \in 1 .. n : r = g[i]
        BY <1>4, <3>2, Members
      <4>2. i \in 1 .. N
        BY <1>4, ReqsAreNumbers
      <4> HIDE DEF st
      <4> QED
        BY <1>3, <1>13, <4>1, <4>2, ViewsAreRefs
    <3> QED
      BY <3>1, <3>2
  <2> HIDE DEF st
  <2> QED
    BY <2>1, <2>2
<1>15. \A i \in 1 .. n : Deref(st.mem, st.table[g[i]]) = expanded[i]
  <2>1. \A i \in 1 .. n : i \in 1 .. N
    BY <1>4, ReqsAreNumbers
  <2> HIDE DEF st
  <2> QED
    BY <1>3, <1>10, <1>13, <2>1, ViewsAreRefs
<1>16. \E k \in 0 .. 1 : dst = Workspace(pid, k)
  BY <1>3 DEF a, b
<1> HIDE DEF st
<1>17. GroupExpanded(st, m, t, pid, g, results)
  <2>1. PICK k \in 0 .. 1 : dst = Workspace(pid, k)
    BY <1>16
  <2>2. \A i \in 1 .. Len(g) :
          /\ st.table[g[i]] = View(Workspace(pid, k), i)
          /\ Deref(st.mem, st.table[g[i]]) = Expand(Deref(m, results[i]), Deref(m, t[g[i]]))
    BY <1>4, <1>8, <1>13, <1>15, <2>1
  <2>3. \A r \in Reqs : r \notin ToSet(g) => st.table[r] = t[r]
    BY <1>12
  <2> QED
    BY <1>10, <1>11, <1>14, <2>2, <2>3 DEF GroupExpanded, a, b
<1> QED
  BY <1>17 DEF st

\* The eager step leaves each request of the group new tables, one step on.
LEMMA ExpandSinglyDoes ==
    ASSUME NEW m \in Memory, NEW t \in [Reqs -> Refs], NEW pid \in PipeIds,
           NEW g \in Seq(Reqs), NoRepeats(g),
           NEW results \in Seq(Refs), Len(results) = Len(g)
    PROVE  GroupExpanded(ExpandSingly([table |-> t, mem |-> m], g, results), m, t, pid, g, results)
<1> DEFINE Pos(r) == CHOOSE i \in DOMAIN g : g[i] = r
           st == ExpandSingly([table |-> t, mem |-> m], g, results)
           Val(r) == Expand(Deref(m, results[Pos(r)]), Deref(m, t[r]))
<1>1. /\ st.mem = m
      /\ st.table = [r \in Reqs |-> IF r \notin Range(g) THEN t[r] ELSE Own(Val(r))]
  BY DEF ExpandSingly
<1>2. PICK n \in Nat : n = Len(g) /\ DOMAIN g = 1 .. n
  OBVIOUS
<1>3. \A i \in 1 .. n : g[i] \in Reqs /\ t[g[i]] \in Refs /\ results[i] \in Refs /\ g[i] \in ToSet(g)
  BY <1>2 DEF ToSet
<1>4. \A i \in 1 .. n : Pos(g[i]) = i
  BY <1>2, PositionIn, Zenon
<1> HIDE DEF st, Pos
<1>5. \A i \in 1 .. n : /\ Val(g[i]) = Expand(Deref(m, results[i]), Deref(m, t[g[i]]))
                        /\ Val(g[i]) \in States
  <2>1. \A i \in 1 .. n : Deref(m, results[i]) \in States /\ Deref(m, t[g[i]]) \in States
    BY <1>3, DerefType
  <2> QED
    BY <1>4, <2>1, ExpandType
<1> HIDE DEF Val
<1>6. \A r \in Reqs : st.table[r] = IF r \notin ToSet(g) THEN t[r] ELSE Own(Val(r))
  BY <1>1, RangeIsSet
<1>7. \A i \in 1 .. n : st.table[g[i]] = Own(Val(g[i]))
  BY <1>3, <1>6
<1>8. st.table \in [Reqs -> Refs]
  <2>1. \A r \in Reqs : st.table[r] \in Refs
    <3> SUFFICES ASSUME NEW r \in Reqs PROVE st.table[r] \in Refs
      OBVIOUS
    <3>1. CASE r \notin ToSet(g)
      BY <1>6, <3>1
    <3>2. CASE r \in ToSet(g)
      <4>1. PICK i \in 1 .. n : r = g[i]
        BY <1>2, <3>2, Members
      <4> QED
        BY <1>5, <1>7, <4>1, ViewsAreRefs
    <3> QED
      BY <3>1, <3>2
  <2>2. st.table = [r \in Reqs |-> st.table[r]]
    BY <1>1
  <2> QED
    BY <2>1, <2>2
<1>9. \A i \in 1 .. n : /\ st.table[g[i]].at = <<"own">>
                        /\ Deref(st.mem, st.table[g[i]]) = Val(g[i])
  BY <1>5, <1>7, ViewsAreRefs
<1>10. \A r \in Reqs : r \notin ToSet(g) => st.table[r] = t[r]
  BY <1>6
<1>11. GroupExpanded(st, m, t, pid, g, results)
  BY <1>1, <1>2, <1>5, <1>8, <1>9, <1>10 DEF GroupExpanded
<1> QED
  BY <1>11 DEF st

\* Requests that went through equally many steps are one group.
LEMMA OneGroup ==
    ASSUME NEW rs \in Seq(Reqs), rs # <<>>, NoRepeats(rs),
           \A x, y \in ToSet(rs) : depth[x] = depth[y]
    PROVE  Groups(rs) = <<rs>>
<1>1. PICK n \in Nat : n = Len(rs) /\ DOMAIN rs = 1 .. n /\ n # 0
  OBVIOUS
<1>2. \A i \in 1 .. n : rs[i] \in ToSet(rs) /\ rs[i] \in Reqs
  BY <1>1 DEF ToSet
<1> DEFINE ids == [i \in DOMAIN rs |-> i]
           New == {i \in DOMAIN rs : \A j \in 1 .. i - 1 : depth[rs[j]] # depth[rs[i]]}
           firsts == Only(ids, New)
<1>3. ids \in Seq(1 .. n) /\ Len(ids) = n /\ NoRepeats(ids) /\ ToSet(ids) = 1 .. n
  BY <1>1 DEF NoRepeats, ToSet
<1>4. New = {1}
  <2>1. 1 \in New
    BY <1>1
  <2>2. ASSUME NEW i \in New PROVE i = 1
    <3>1. i \in 1 .. n /\ \A j \in 1 .. i - 1 : depth[rs[j]] # depth[rs[i]]
      BY <1>1
    <3>2. CASE i # 1
      <4>1. 1 \in 1 .. i - 1 /\ 1 \in 1 .. n
        BY <3>1, <3>2
      <4> QED
        BY <1>2, <3>1, <4>1
    <3> QED
      BY <3>2
  <2> QED
    BY <2>1, <2>2
<1> HIDE DEF ids, New
<1>5. firsts = <<1>>
  <2>1. firsts \in Seq(1 .. n) /\ NoRepeats(firsts) /\ ToSet(firsts) = (1 .. n) \cap {1}
    BY <1>3, <1>4, OnlyMembers
  <2>2. (1 .. n) \cap {1} = {1}
    BY <1>1
  <2> HIDE DEF firsts
  <2> QED
    BY <2>1, <2>2, OneMember
<1>6. Groups(rs) = [k \in DOMAIN firsts |-> Only(rs, {r \in Reqs : depth[r] = depth[rs[firsts[k]]]})]
  BY DEF Groups, ids, New
<1> HIDE DEF firsts
<1>7. DOMAIN firsts = 1 .. 1 /\ firsts[1] = 1
  BY <1>5
<1>8. Only(rs, {r \in Reqs : depth[r] = depth[rs[1]]}) = rs
  <2>1. ToSet(rs) \subseteq {r \in Reqs : depth[r] = depth[rs[1]]}
    BY <1>1, <1>2, Members
  <2> QED
    BY <2>1, OnlyAll
<1>9. Groups(rs) = [k \in 1 .. 1 |-> rs]
  <2> DEFINE Of(i) == Only(rs, {r \in Reqs : depth[r] = depth[rs[i]]})
  <2>1. Groups(rs) = [k \in DOMAIN firsts |-> Of(firsts[k])] /\ Of(1) = rs
    BY <1>6, <1>8
  <2> HIDE DEF Of
  <2>2. \A k \in 1 .. 1 : Of(firsts[k]) = rs
    BY <1>7, <2>1
  <2> QED
    BY <1>7, <2>1, <2>2
<1> QED
  BY <1>9

\* A launch of one group is expanded as one.
LEMMA ExpandOneGroup ==
    ASSUME NEW launch, launch.reqs \in Seq(Reqs), Groups(launch.reqs) = <<launch.reqs>>,
           launch.out \in Seq(Refs), Len(launch.out) = Len(launch.reqs)
    PROVE  ExpandGroups(launch) \in
               {ExpandFused([table |-> table, mem |-> mem], launch.pid, launch.reqs, launch.out),
                ExpandSingly([table |-> table, mem |-> mem], launch.reqs, launch.out)}
<1> DEFINE groups == Groups(launch.reqs)
           base == [table |-> table, mem |-> mem]
           Before(k) == Len(FlattenSeq(SubSeq(groups, 1, k - 1)))
           Slice(k) == SubSeq(launch.out, Before(k) + 1, Before(k) + Len(groups[k]))
           Step(st, k) ==
             IF \A i \in DOMAIN groups[k] : groups[k][i] \notin mode.sampled
             THEN ExpandFused(st, launch.pid, groups[k], Slice(k))
             ELSE ExpandSingly(st, groups[k], Slice(k))
           ids == [k \in DOMAIN groups |-> k]
           Rec(f) == f = [s \in SUBSET (1 .. 1) |->
                            IF s = {} THEN base ELSE Step(f[s \ {Max(s)}], ids[Max(s)])]
<1>1. ExpandGroups(launch) = FoldLeft(Step, base, ids)
  BY DEF ExpandGroups
<1>2. groups[1] = launch.reqs /\ DOMAIN groups = 1 .. 1 /\ Len(groups) = 1
  OBVIOUS
<1>3. Slice(1) = launch.out
  <2>1. SubSeq(groups, 1, 0) = <<>>
    BY <1>2
  <2>2. Len(FlattenSeq(<<>>)) = 0
    BY FlattenEmpty
  <2>3. 1 - 1 = 0
    OBVIOUS
  <2> HIDE DEF groups
  <2>4. Before(1) = 0
    BY <2>1, <2>2, <2>3
  <2> HIDE DEF Before
  <2>5. SubSeq(launch.out, 1, Len(launch.out)) = launch.out
    OBVIOUS
  <2>6. 0 + 1 = 1 /\ 0 + Len(launch.reqs) = Len(launch.out)
    OBVIOUS
  <2>7. Slice(1) = SubSeq(launch.out, 0 + 1, 0 + Len(launch.reqs))
    BY <1>2, <2>4
  <2> QED
    BY <2>5, <2>6, <2>7
<1>4. DOMAIN ids = 1 .. 1 /\ ids[1] = 1
  BY <1>2
<1> HIDE DEF Step, groups
<1>5. FoldLeft(Step, base, ids) = (CHOOSE f : Rec(f))[1 .. 1]
  BY <1>4 DEF FoldLeft, MapThenFoldSet
<1>6. Max(1 .. 1) = 1 /\ (1 .. 1) \ {1} = {} /\ 1 .. 1 # {} /\ SUBSET (1 .. 1) = {{}, 1 .. 1}
  <2>1. 1 .. 1 = {1}
    OBVIOUS
  <2>2. 1 .. 1 \in SUBSET (0 .. 1)
    OBVIOUS
  <2>3. Max(1 .. 1) = 1
    BY <2>1, <2>2, GreatestMember
  <2> QED
    BY <2>1, <2>3
<1> HIDE DEF ids, base
<1>7. \E f : Rec(f)
  <2> DEFINE f == [s \in SUBSET (1 .. 1) |-> IF s = {} THEN base ELSE Step(base, 1)]
  <2>1. f[{}] = base /\ {} \in SUBSET (1 .. 1)
    OBVIOUS
  <2>2. \A s \in SUBSET (1 .. 1) : s # {} => s \ {Max(s)} = {} /\ Max(s) = 1
    BY <1>6
  <2>3. \A s \in SUBSET (1 .. 1) :
           f[s] = IF s = {} THEN base ELSE Step(f[s \ {Max(s)}], ids[Max(s)])
    BY <1>4, <2>1, <2>2
  <2>4. f = [s \in SUBSET (1 .. 1) |-> f[s]]
    OBVIOUS
  <2> HIDE DEF f
  <2>5. Rec(f)
    BY <2>3, <2>4
  <2> QED
    BY <2>5
<1>8. PICK f : f = (CHOOSE x : Rec(x)) /\ Rec(f)
  <2> HIDE DEF Rec
  <2> QED
    BY <1>7, Zenon
<1>9. f[1 .. 1] = Step(base, 1)
  <2>1. f[{}] = base
    BY <1>8
  <2>2. 1 .. 1 \in SUBSET (1 .. 1)
    OBVIOUS
  <2>3. f[1 .. 1] = Step(f[(1 .. 1) \ {Max(1 .. 1)}], ids[Max(1 .. 1)])
    BY <1>6, <1>8, <2>2
  <2> QED
    BY <1>4, <1>6, <2>1, <2>3
<1>10. ExpandGroups(launch) = Step(base, 1)
  BY <1>1, <1>5, <1>8, <1>9
<1> HIDE DEF Slice
<1> QED
  BY <1>2, <1>3, <1>10 DEF Step, base

-----------------------------------------------------------------------------
(* The invariant, part one: who is where, and what lies where. *)

Needed == {r \in Reqs : status[r] \in {"running", "finished"}}

Typed ==
    /\ mode \in Modes
    /\ status \in [Reqs -> {"new", "running", "finished", "done"}]
    /\ depth \in [Reqs -> Nat]
    /\ pipes \in [PipeIds -> Seq(Reqs)]
    /\ table \in [Reqs -> Refs] /\ mem \in Memory
    /\ phase \in [Sizes -> 0 .. 1]
    /\ queue \in Seq(Launches)
    /\ raised \in BOOLEAN /\ pc \in {"loop", "tick", "process"}

\* Whoever needs tables has a place in one pipe; the new ones have no result yet.
Homes ==
    /\ ApartIn(pipes, PipeIds)
    /\ ListedIn(pipes, PipeIds) = Needed
    /\ \A r \in Reqs : status[r] = "new" => depth[r] = 0

\* The requests of a pipe that run went through equally many steps.
Abreast ==
    \A p \in PipeIds : \A r, q \in ToSet(pipes[p]) :
        r \in Running /\ q \in Running => depth[r] = depth[q]

\* Where the result of a launch lies: that of an expand in the graph is a copy or
\* a plane, any other a copy or the output of the graph.
OutPlaces(out, fused) ==
    \A i \in 1 .. Len(out) :
        \/ out[i].at = <<"own">>
        \/ fused /\ \E b \in Sizes, k \in 0 .. 1 : out[i].at = Plane(b, k)
        \/ ~fused /\ \E b \in Sizes : out[i].at = Hidden(b)

OneBuffer(out) ==
    \A i, j \in 1 .. Len(out) :
        /\ out[i].at = out[j].at
        /\ out[i].at = <<"own">> \/ out[i].row = i

\* A launch is of the requests of its pipe that run, and each pipe has one out.
Launched ==
    \A k \in 1 .. Len(queue) :
        /\ queue[k].reqs = Live(queue[k].pid) /\ queue[k].reqs # <<>>
        /\ Len(queue[k].out) = Len(queue[k].reqs)
        /\ OutPlaces(queue[k].out, queue[k].fused)
        /\ queue[k].fused => OneBuffer(queue[k].out)

OnePerPipe == \A k, l \in 1 .. Len(queue) : queue[k].pid = queue[l].pid => k = l

\* With the pipeline off a launch is processed before anything else.
Serially ==
    /\ Pipelined => pc # "process"
    /\ ~Pipelined => (pc = "process" => Len(queue) = 1) /\ (pc # "process" => queue = <<>>)

\* In a tick, nobody in a pipe with a launch out has finished.
Settled ==
    pc # "loop" => \A p \in PipeIds : Inflight(p) \/ ~Pipelined => ToSet(pipes[p]) \subseteq Running

\* The tables of a pipe lie in one buffer in the order of the pipe.
Tidy == \A p \in PipeIds : InLine(table, pipes[p], Running)

\* Tables lie in the workspace of their own pipe, in a plane, or nowhere shared.
LiesFor(ref, p) ==
    \/ ref.at = <<"own">>
    \/ \E k \in 0 .. 1 : ref.at = Workspace(p, k)
    \/ \E b \in Sizes, k \in 0 .. 1 : ref.at = Plane(b, k)

Located == \A p \in PipeIds : \A r \in ToSet(pipes[p]) : LiesFor(table[r], p)

Queued == Launched /\ OnePerPipe /\ Serially /\ Settled
Shape == Typed /\ Homes /\ Abreast /\ Queued /\ Tidy /\ Located

\* Whatever depends on the mode is fixed.
LEMMA ModeFixed ==
    ASSUME mode' = mode
    PROVE  /\ Sizes' = Sizes /\ PipeIds' = PipeIds /\ Pipelined' = Pipelined
           /\ Places' = Places /\ Refs' = Refs /\ Memory' = Memory /\ Launches' = Launches
<1>1. Sizes' = Sizes /\ PipeIds' = PipeIds /\ Pipelined' = Pipelined
  BY DEF Sizes, PipeIds, Pipelined
<1>2. Places' = Places
  BY <1>1 DEF Places
<1> QED
  BY <1>1, <1>2 DEF Refs, Memory, Launches

\* The pipes are finitely many numbers.
LEMMA PipesAreNumbered == mode \in Modes => PipeIds \subseteq Int /\ IsFiniteSet(PipeIds)
<1> SUFFICES ASSUME mode \in Modes PROVE PipeIds \subseteq Int /\ IsFiniteSet(PipeIds)
  OBVIOUS
<1>1. mode.pipes \in Nat
  BY BuffersAssumption DEF BuffersAssumption
<1>2. PICK n \in Int : n = IF Pipelined THEN mode.pipes - 1 ELSE 0
  BY <1>1
<1>3. PipeIds = 0 .. n
  BY <1>2 DEF PipeIds
<1> QED
  BY <1>3, FS_Interval

\* What InLine says of a selection.
LEMMA InLineOnly ==
    ASSUME NEW t, NEW s \in Seq(Reqs), NEW S, InLine(t, s, S)
    PROVE  InLine(t, Only(s, S), S)
<1>1. PICK e : InOrder(e, Only(s, S), s)
  BY OnlyInOrder
<1> DEFINE u == Only(s, S)
<1>2. Len(s) \in Nat /\ Len(u) \in Nat
  BY OnlyMembers
<1>3. /\ \A i \in 1 .. Len(u) : e[i] \in 1 .. Len(s) /\ u[i] = s[e[i]]
      /\ \A i, j \in 1 .. Len(u) : i < j => e[i] < e[j]
  BY <1>1 DEF InOrder
<1> HIDE DEF u
<1>4. ASSUME NEW i \in 1 .. Len(u), NEW j \in 1 .. Len(u), i < j, u[i] \in S, u[j] \in S
      PROVE  /\ t[u[i]].at = t[u[j]].at
             /\ t[u[i]].at = <<"own">> \/ t[u[i]].row < t[u[j]].row
  <2>1. /\ e[i] \in 1 .. Len(s) /\ e[j] \in 1 .. Len(s) /\ e[i] < e[j]
        /\ u[i] = s[e[i]] /\ u[j] = s[e[j]]
    BY <1>3, <1>4
  <2>2. s[e[i]] \in S /\ s[e[j]] \in S
    BY <1>4, <2>1
  <2>3. /\ t[s[e[i]]].at = t[s[e[j]]].at
        /\ t[s[e[i]]].at = <<"own">> \/ t[s[e[i]]].row < t[s[e[j]]].row
    BY <2>1, <2>2 DEF InLine
  <2> QED
    BY <2>1, <2>3
<1> QED
  BY <1>4 DEF u, InLine

\* The requests a pipe can launch.
LEMMA LiveIs ==
    ASSUME Typed, Homes, NEW p \in PipeIds
    PROVE  /\ Live(p) \in Seq(Reqs) /\ NoRepeats(Live(p))
           /\ ToSet(Live(p)) = ToSet(pipes[p]) \cap Running
           /\ NRows(p) = Len(Live(p)) /\ Len(Live(p)) \in Nat /\ Len(Live(p)) <= N
<1>1. pipes[p] \in Seq(Reqs) /\ NoRepeats(pipes[p])
  BY DEF Typed, Homes, ApartIn
<1>2. /\ Live(p) \in Seq(Reqs) /\ NoRepeats(Live(p))
      /\ ToSet(Live(p)) = ToSet(pipes[p]) \cap Running
  BY <1>1, OnlyMembers DEF Live
<1>3. Cardinality(ToSet(Live(p))) = Len(Live(p)) /\ Len(Live(p)) \in Nat
  <2>1. Len(Live(p)) \in Nat
    BY <1>2
  <2> QED
    BY <1>2, <2>1, CountMembers
<1>4. {r \in Running : r \in Range(pipes[p])} = ToSet(Live(p))
  BY <1>2, RangeIsSet
<1>5. NRows(p) = Len(Live(p))
  BY <1>3, <1>4 DEF NRows
<1>6. ToSet(Live(p)) \subseteq Reqs
  BY <1>2, Members
<1>7. Cardinality(ToSet(Live(p))) <= N
  BY <1>6, FS_Subset, ReqsAreNumbers DEF N
<1> QED
  BY <1>2, <1>3, <1>5, <1>7

\* Requests after equally many steps are one group.
LEMMA LiveIsOneGroup ==
    ASSUME Typed, Homes, Abreast, NEW p \in PipeIds, Live(p) # <<>>
    PROVE  Groups(Live(p)) = <<Live(p)>> /\ Ordered(p) = Live(p)
<1>1. /\ Live(p) \in Seq(Reqs) /\ NoRepeats(Live(p))
      /\ ToSet(Live(p)) = ToSet(pipes[p]) \cap Running
  BY LiveIs
<1>2. \A x, y \in ToSet(Live(p)) : depth[x] = depth[y]
  BY <1>1 DEF Abreast
<1>3. Groups(Live(p)) = <<Live(p)>>
  BY <1>1, <1>2, OneGroup
<1> QED
  BY <1>1, <1>3, FlattenSingle DEF Ordered

\* Before the first wave there is nothing to place.
LEMMA ShapeInit == Init => Shape
<1> SUFFICES ASSUME Init PROVE Shape
  OBVIOUS
<1>1. Typed
  <2>1. /\ mode \in Modes
        /\ status \in [Reqs -> {"new", "running", "finished", "done"}]
        /\ depth \in [Reqs -> Nat]
        /\ phase \in [Sizes -> 0 .. 1]
        /\ raised \in BOOLEAN /\ pc \in {"loop", "tick", "process"}
    <3>1. 0 \in Nat /\ 0 \in 0 .. 1 /\ FALSE \in BOOLEAN
      OBVIOUS
    <3>2. /\ status \in [Reqs -> {"new", "running", "finished", "done"}]
          /\ depth \in [Reqs -> Nat]
          /\ phase \in [Sizes -> 0 .. 1]
      BY <3>1 DEF Init
    <3>3. mode \in Modes /\ raised \in BOOLEAN /\ pc = "loop"
      BY <3>1 DEF Init
    <3> QED
      BY <3>2, <3>3
  <2>2. queue \in Seq(Launches)
    <3>1. <<>> \in Seq(Launches)
      OBVIOUS
    <3> QED
      BY <3>1 DEF Init
  <2>3. <<>> \in Seq(Reqs)
    OBVIOUS
  <2>4. pipes \in [PipeIds -> Seq(Reqs)]
    BY <2>3 DEF Init
  <2>5. table \in [Reqs -> Refs]
    <3>1. Own(Junk) \in Refs
      BY ReqsAreNumbers, ViewsAreRefs
    <3> QED
      BY <3>1 DEF Init
  <2>6. mem \in Memory
    BY ReqsAreNumbers DEF Init, Memory, N
  <2> QED
    BY <2>1, <2>2, <2>4, <2>5, <2>6 DEF Typed
<1>2. \A p \in PipeIds : pipes[p] = <<>> /\ ToSet(pipes[p]) = {}
  BY DEF Init, ToSet
<1>3. Homes
  <2>1. ApartIn(pipes, PipeIds)
    BY <1>2 DEF ApartIn, NoRepeats
  <2>2. ListedIn(pipes, PipeIds) = {} /\ Needed = {}
    BY <1>2 DEF ListedIn, Needed, Init
  <2> QED
    BY <2>1, <2>2 DEF Homes, Init
<1>4. Queued
  BY DEF Queued, Launched, OnePerPipe, Serially, Settled, Init
<1>5. Abreast /\ Located
  BY <1>2 DEF Abreast, Located
<1>6. Tidy
  <2>1. \A p \in PipeIds : Len(pipes[p]) = 0
    BY <1>2
  <2> QED
    BY <2>1 DEF Tidy, InLine
<1> QED
  BY <1>1, <1>3, <1>4, <1>5, <1>6 DEF Shape

\* Appending to a sequence.
LEMMA AppendPositions ==
    ASSUME NEW T, NEW s \in Seq(T), NEW x \in T
    PROVE  /\ Append(s, x) \in Seq(T) /\ Len(Append(s, x)) = Len(s) + 1
           /\ \A k \in 1 .. Len(s) : Append(s, x)[k] = s[k]
           /\ Append(s, x)[Len(s) + 1] = x
    OBVIOUS

\* Whose launch is out.
LEMMA InflightIs ==
    ASSUME Typed, NEW p
    PROVE  Inflight(p) <=> \E k \in 1 .. Len(queue) : queue[k].pid = p
<1>1. DOMAIN queue = 1 .. Len(queue)
  BY DEF Typed
<1> QED
  BY <1>1 DEF Inflight

\* What every launch keeps.
LEMMA EnqueueKeeps ==
    ASSUME Shape, NEW p \in PipeIds, CanLaunch(p),
           NEW out \in Seq(Refs), Len(out) = Len(Live(p)), NEW fused \in BOOLEAN,
           OutPlaces(out, fused), fused => OneBuffer(out),
           Enqueue(p, Ordered(p), out, fused), UNCHANGED <<mode, status, depth, pipes>>
    PROVE  /\ queue' \in Seq(Launches) /\ pc' \in {"loop", "tick", "process"}
           /\ Homes' /\ Abreast' /\ Queued'
<1> USE DEF Shape, Queued
<1>1. Live(p) # <<>> /\ ~Inflight(p) /\ pc = "tick" /\ ~raised
  BY DEF CanLaunch
<1>2. Ordered(p) = Live(p) /\ Live(p) \in Seq(Reqs)
  BY <1>1, LiveIs, LiveIsOneGroup
<1> DEFINE new == [pid |-> p, reqs |-> Live(p), out |-> out, fused |-> fused]
<1>3. new \in Launches /\ queue \in Seq(Launches) /\ queue' = Append(queue, new)
  BY <1>2 DEF Launches, Enqueue, Typed
<1>4. PICK n \in Nat : n = Len(queue)
  BY <1>3
<1>5. /\ queue' \in Seq(Launches) /\ Len(queue') = n + 1
      /\ \A k \in 1 .. n : queue'[k] = queue[k]
      /\ queue'[n + 1] = new
  <2> HIDE DEF new
  <2> QED
    BY <1>3, <1>4, AppendPositions
<1>6. /\ Sizes' = Sizes /\ PipeIds' = PipeIds /\ Pipelined' = Pipelined /\ Reqs' = Reqs
      /\ Running' = Running /\ Needed' = Needed
      /\ \A q : Live(q)' = Live(q)
  BY ModeFixed DEF Running, Needed, Live
<1>7. Homes' /\ Abreast'
  BY <1>6 DEF Homes, Abreast
<1>8. pc' = IF Pipelined THEN "loop" ELSE "process"
  BY DEF Enqueue
<1>9. /\ new.pid = p /\ new.reqs = Live(p) /\ new.out = out /\ new.fused = fused
  OBVIOUS
<1> HIDE DEF new
<1>10. Launched'
  <2> SUFFICES ASSUME NEW k \in 1 .. n + 1
               PROVE  /\ queue'[k].reqs = Live(queue'[k].pid) /\ queue'[k].reqs # <<>>
                      /\ Len(queue'[k].out) = Len(queue'[k].reqs)
                      /\ OutPlaces(queue'[k].out, queue'[k].fused)
                      /\ queue'[k].fused => OneBuffer(queue'[k].out)
    BY <1>5, <1>6 DEF Launched, OutPlaces, OneBuffer
  <2>1. CASE k = n + 1
    BY <1>1, <1>5, <1>9, <2>1
  <2>2. CASE k # n + 1
    <3>1. k \in 1 .. n
      BY <2>2
    <3> QED
      BY <1>4, <1>5, <3>1 DEF Launched
  <2> QED
    BY <2>1, <2>2
<1>11. OnePerPipe'
  <2>1. \A k \in 1 .. n : queue[k].pid # p
    BY <1>1, <1>4, InflightIs
  <2> SUFFICES ASSUME NEW k \in 1 .. n + 1, NEW l \in 1 .. n + 1, queue'[k].pid = queue'[l].pid
               PROVE  k = l
    BY <1>5 DEF OnePerPipe
  <2>2. CASE k = n + 1 /\ l # n + 1
    <3>1. l \in 1 .. n
      BY <2>2
    <3> QED
      BY <1>5, <1>9, <2>1, <2>2, <3>1
  <2>3. CASE k # n + 1 /\ l = n + 1
    <3>1. k \in 1 .. n
      BY <2>3
    <3> QED
      BY <1>5, <1>9, <2>1, <2>3, <3>1
  <2>4. CASE k # n + 1 /\ l # n + 1
    <3>1. k \in 1 .. n /\ l \in 1 .. n
      BY <2>4
    <3> QED
      BY <1>4, <1>5, <3>1 DEF OnePerPipe
  <2> QED
    BY <2>2, <2>3, <2>4
<1>12. Serially'
  <2>1. ~Pipelined => n = 0
    BY <1>1, <1>4 DEF Serially
  <2> QED
    BY <1>5, <1>6, <1>8, <2>1 DEF Serially
<1>13. Settled'
  <2>1. CASE Pipelined
    BY <1>6, <1>8, <2>1 DEF Settled
  <2>2. CASE ~Pipelined
    BY <1>1, <1>6, <2>2 DEF Settled
  <2> QED
    BY <2>1, <2>2
<1> QED
  BY <1>5, <1>7, <1>8, <1>10, <1>11, <1>12, <1>13

\* What a forward returns, and the two ways its result is handed on.
LEMMA ResultsAre ==
    ASSUME Typed, NEW rs \in Seq(Reqs)
    PROVE  /\ Results(rs) \in Seq(States) /\ Len(Results(rs)) = Len(rs)
           /\ \A i \in 1 .. Len(rs) : Results(rs)[i] = Deref(mem, table[rs[i]])
<1>1. PICK n \in Nat : n = Len(rs) /\ DOMAIN rs = 1 .. n
  OBVIOUS
<1>2. \A i \in 1 .. n : rs[i] \in Reqs /\ table[rs[i]] \in Refs /\ mem \in Memory
  BY <1>1 DEF Typed
<1>3. Results(rs) = [i \in 1 .. n |-> Deref(mem, table[rs[i]])]
  BY <1>1 DEF Results
<1>4. \A i \in 1 .. n : Deref(mem, table[rs[i]]) \in States
  BY <1>2, DerefType
<1> QED
  BY <1>1, <1>3, <1>4

\* Copies of states, one per row.
LEMMA CopiesAre ==
    ASSUME NEW v \in Seq(States)
    PROVE  /\ Copies(v) \in Seq(Refs) /\ Len(Copies(v)) = Len(v)
           /\ \A i \in 1 .. Len(v) : Copies(v)[i] = Own(v[i]) /\ Copies(v)[i].at = <<"own">>
           /\ \A i \in 1 .. Len(v) : \A m : Deref(m, Copies(v)[i]) = v[i]
<1>1. PICK n \in Nat : n = Len(v) /\ DOMAIN v = 1 .. n
  OBVIOUS
<1>2. Copies(v) = [i \in 1 .. n |-> Own(v[i])]
  BY <1>1 DEF Copies
<1>3. \A i \in 1 .. n : v[i] \in States
  BY <1>1
<1>4. \A i \in 1 .. n : /\ Own(v[i]) \in Refs /\ Own(v[i]).at = <<"own">>
                        /\ \A m : Deref(m, Own(v[i])) = v[i]
  BY <1>3, ViewsAreRefs
<1>5. Copies(v) \in Seq(Refs) /\ Len(Copies(v)) = n
  BY <1>2, <1>4
<1> QED
  BY <1>1, <1>2, <1>4, <1>5

\* Views of the first rows of a buffer.
LEMMA ViewsAre ==
    ASSUME NEW place \in Places, NEW n \in Nat, n <= N
    PROVE  /\ Views(place, n) \in Seq(Refs) /\ Len(Views(place, n)) = n
           /\ \A i \in 1 .. n : /\ Views(place, n)[i] = View(place, i)
                                /\ Views(place, n)[i].at = place /\ Views(place, n)[i].row = i
           /\ \A i \in 1 .. n : \A m : Deref(m, Views(place, n)[i]) = m[place][i]
<1>1. \A i \in 1 .. n : i \in 1 .. N
  BY ReqsAreNumbers
<1>2. \A i \in 1 .. n : /\ View(place, i) \in Refs
                        /\ View(place, i).at = place /\ View(place, i).row = i
                        /\ \A m : Deref(m, View(place, i)) = m[place][i]
  BY <1>1, ViewsAreRefs
<1>3. Views(place, n) = [i \in 1 .. n |-> View(place, i)]
  BY DEF Views
<1>4. Views(place, n) \in Seq(Refs) /\ Len(Views(place, n)) = n
  BY <1>2, <1>3
<1> QED
  BY <1>2, <1>3, <1>4

\* A step that leaves the requests and pipes alone keeps Shape when the rest is right.
LEMMA StayShape ==
    ASSUME Shape, UNCHANGED <<mode, status, depth, pipes>>,
           queue' \in Seq(Launches), pc' \in {"loop", "tick", "process"}, raised' \in BOOLEAN,
           phase' \in [Sizes -> 0 .. 1], mem' \in Memory, table' \in [Reqs -> Refs],
           Queued',
           \A q \in PipeIds : InLine(table', pipes[q], Running),
           \A q \in PipeIds : \A r \in ToSet(pipes[q]) : LiesFor(table'[r], q)
    PROVE  Shape'
<1>1. Sizes' = Sizes /\ PipeIds' = PipeIds /\ Refs' = Refs /\ Memory' = Memory /\ Launches' = Launches
  BY ModeFixed
<1>2. Running' = Running /\ Needed' = Needed
  BY DEF Running, Needed
<1>3. Typed'
  <2>1. /\ mode' \in Modes
        /\ status' \in [Reqs -> {"new", "running", "finished", "done"}]
        /\ depth' \in [Reqs -> Nat]
        /\ pipes' \in [PipeIds' -> Seq(Reqs)]
    BY <1>1 DEF Shape, Typed
  <2>2. /\ table' \in [Reqs -> Refs'] /\ mem' \in Memory'
        /\ phase' \in [Sizes' -> 0 .. 1] /\ queue' \in Seq(Launches')
    BY <1>1
  <2> QED
    BY <2>1, <2>2 DEF Typed
<1>4. Homes' /\ Abreast'
  BY <1>1, <1>2 DEF Shape, Homes, Abreast
<1>5. Tidy'
  BY <1>1, <1>2 DEF Tidy
<1>7. Located'
  BY <1>1 DEF Located, LiesFor
<1> QED
  BY <1>3, <1>4, <1>5, <1>7 DEF Shape

\* No size is large enough.
LEMMA EagerShape ==
    ASSUME Shape, NEW p \in PipeIds, LaunchEager(p)
    PROVE  Shape'
<1>1. CanLaunch(p) /\ Enqueue(p, Ordered(p), Copies(Results(Ordered(p))), FALSE)
  BY DEF LaunchEager
<1>2. UNCHANGED <<mode, status, depth, pipes, table, mem, phase, raised>>
  BY DEF LaunchEager
<1>3. Ordered(p) = Live(p) /\ Live(p) \in Seq(Reqs) /\ Len(Live(p)) \in Nat
  BY <1>1, LiveIs, LiveIsOneGroup DEF Shape, CanLaunch
<1> DEFINE out == Copies(Results(Ordered(p)))
<1>4. out \in Seq(Refs) /\ Len(out) = Len(Live(p)) /\ \A i \in 1 .. Len(out) : out[i].at = <<"own">>
  BY <1>3, ResultsAre, CopiesAre DEF Shape
<1> HIDE DEF out
<1>5. OutPlaces(out, FALSE)
  BY <1>4 DEF OutPlaces
<1>6. /\ queue' \in Seq(Launches) /\ pc' \in {"loop", "tick", "process"}
      /\ Queued'
  BY <1>1, <1>2, <1>4, <1>5, EnqueueKeeps DEF out
<1>7. /\ raised' \in BOOLEAN /\ phase' \in [Sizes -> 0 .. 1] /\ mem' \in Memory
      /\ table' \in [Reqs -> Refs]
  BY <1>2 DEF Shape, Typed
<1>8. /\ \A q \in PipeIds : InLine(table', pipes[q], Running)
      /\ \A q \in PipeIds : \A r \in ToSet(pipes[q]) : LiesFor(table'[r], q)
  BY <1>2 DEF Shape, Tidy, Located
<1> QED
  BY <1>2, <1>6, <1>7, <1>8, StayShape
\* What a launch of pipe p is of.
LEMMA LaunchIs ==
    ASSUME Shape, NEW p \in PipeIds, CanLaunch(p)
    PROVE  /\ Ordered(p) = Live(p) /\ Live(p) \in Seq(Reqs) /\ NoRepeats(Live(p))
           /\ ToSet(Live(p)) = ToSet(pipes[p]) \cap Running
           /\ NRows(p) = Len(Live(p)) /\ NRows(p) \in Nat /\ NRows(p) <= N /\ Live(p) # <<>>
           /\ Results(Live(p)) \in Seq(States) /\ Len(Results(Live(p))) = NRows(p)
           /\ \A i \in 1 .. NRows(p) : Results(Live(p))[i] = Deref(mem, table[Live(p)[i]])
<1>1. Live(p) # <<>> /\ Typed /\ Homes /\ Abreast
  BY DEF CanLaunch, Shape
<1> QED
  BY <1>1, LiveIs, LiveIsOneGroup, ResultsAre

\* A replay without an expand.
LEMMA PlainShape ==
    ASSUME Shape, NEW p \in PipeIds, LaunchPlain(p)
    PROVE  /\ Shape'
           /\ Bucket(NRows(p)) \in Sizes
           /\ \A y \in Places : y # Hidden(Bucket(NRows(p))) => mem'[y] = mem[y]
           /\ \A i \in 1 .. NRows(p) :
                mem'[Hidden(Bucket(NRows(p)))][i] = Deref(mem, table[Live(p)[i]])
<1> DEFINE b == Bucket(NRows(p))
           v == Results(Live(p))
           out == Output(b, v)
<1>1. CanLaunch(p) /\ b # 0
  BY DEF LaunchPlain
<1>2. /\ Ordered(p) = Live(p)
      /\ NRows(p) = Len(Live(p)) /\ NRows(p) \in Nat /\ NRows(p) <= N
      /\ v \in Seq(States) /\ Len(v) = NRows(p)
      /\ \A i \in 1 .. NRows(p) : v[i] = Deref(mem, table[Live(p)[i]])
  BY <1>1, LaunchIs
<1>3. UNCHANGED <<mode, status, depth, pipes, table, phase, raised>>
  BY DEF LaunchPlain
<1>4. mem' = Put(mem, Hidden(b), v) /\ Enqueue(p, Ordered(p), out, FALSE)
  BY <1>2 DEF LaunchPlain
<1>5. b \in Sizes /\ Hidden(b) \in Places
  BY <1>1, <1>2, BucketIs DEF Shape, Typed, Places
<1> HIDE DEF b, v
<1>6. out \in Seq(Refs) /\ Len(out) = Len(Live(p)) /\ OutPlaces(out, FALSE)
  <2>1. CASE mode.head = "codebook"
    <3>1. out = Views(Hidden(b), NRows(p))
      BY <1>2, <2>1 DEF Output
    <3> HIDE DEF out
    <3>2. /\ out \in Seq(Refs) /\ Len(out) = NRows(p)
          /\ \A i \in 1 .. NRows(p) : out[i].at = Hidden(b)
      BY <1>2, <1>5, <3>1, ViewsAre
    <3> QED
      BY <1>2, <1>5, <3>2 DEF OutPlaces
  <2>2. CASE mode.head # "codebook"
    <3>1. out = Copies(v)
      BY <2>2 DEF Output
    <3> HIDE DEF out
    <3>2. /\ out \in Seq(Refs) /\ Len(out) = NRows(p)
          /\ \A i \in 1 .. NRows(p) : out[i].at = <<"own">>
      BY <1>2, <3>1, CopiesAre
    <3> QED
      BY <1>2, <3>2 DEF OutPlaces
  <2> QED
    BY <2>1, <2>2
<1> HIDE DEF out
<1>7. /\ queue' \in Seq(Launches) /\ pc' \in {"loop", "tick", "process"}
      /\ Queued'
  BY <1>1, <1>3, <1>4, <1>6, EnqueueKeeps
<1>8. /\ mem' \in Memory
      /\ \A y \in Places : y # Hidden(b) => mem'[y] = mem[y]
      /\ \A i \in 1 .. N : mem'[Hidden(b)][i] = IF i <= Len(v) THEN v[i] ELSE mem[Hidden(b)][i]
  <2>1. mem \in Memory
    BY DEF Shape, Typed
  <2> QED
    BY <1>2, <1>4, <1>5, <2>1, PutRows
<1>9. /\ raised' \in BOOLEAN /\ phase' \in [Sizes -> 0 .. 1] /\ table' \in [Reqs -> Refs]
      /\ \A q \in PipeIds : InLine(table', pipes[q], Running)
      /\ \A q \in PipeIds : \A r \in ToSet(pipes[q]) : LiesFor(table'[r], q)
  BY <1>3 DEF Shape, Typed, Tidy, Located
<1>10. Shape'
  BY <1>3, <1>7, <1>8, <1>9, StayShape
<1>11. \A i \in 1 .. NRows(p) : mem'[Hidden(b)][i] = Deref(mem, table[Live(p)[i]])
  <2>1. \A i \in 1 .. NRows(p) : i \in 1 .. N
    BY <1>2, ReqsAreNumbers
  <2> QED
    BY <1>2, <1>8, <2>1
<1> QED
  BY <1>5, <1>8, <1>10, <1>11 DEF b

\* _detach_plane_aliases copies some tables and changes what none of them says.
LEMMA DetachedIs ==
    ASSUME Typed, NEW rs \in Seq(Reqs), NEW x
    PROVE  /\ Detached(rs, x) \in [Reqs -> Refs]
           /\ \A r \in Reqs :
                /\ Detached(rs, x)[r] =
                     IF Pipelined /\ status[r] = "running" /\ r \notin ToSet(rs) /\ table[r].at = x
                     THEN Own(Deref(mem, table[r])) ELSE table[r]
                /\ Deref(mem, Detached(rs, x)[r]) = Deref(mem, table[r])
<1>1. Range(rs) = ToSet(rs)
  BY RangeIsSet
<1>2. \A r \in Reqs : table[r] \in Refs /\ Deref(mem, table[r]) \in States
  BY DerefType DEF Typed
<1>3. \A r \in Reqs : /\ Own(Deref(mem, table[r])) \in Refs
                      /\ Deref(mem, Own(Deref(mem, table[r]))) = Deref(mem, table[r])
  BY <1>2, ViewsAreRefs
<1> QED
  BY <1>1, <1>2, <1>3 DEF Detached

Hands(out, b, v) ==
    \/ /\ PingPong(b) /\ Len(v) >= 2
       /\ \A i \in 1 .. Len(v) : out[i] = View(Target(b), i)
    \/ \A i \in 1 .. Len(v) : out[i] = Own(Expand(v[i], v[i]))

\* What a replay with an expand does: v are the tables of the n requests, packed in
\* the source plane and expanded in the target plane.
Replays(p, b, n, v, out) ==
    /\ n = NRows(p) /\ n \in Nat /\ n <= N /\ v = Results(Live(p))
    /\ v \in Seq(States) /\ Len(v) = n
    /\ b = Bucket(n) /\ b \in Sizes /\ b >= n
    /\ \A i \in 1 .. n : v[i] = Deref(mem, table[Live(p)[i]])
    /\ \A i \in 1 .. n : Expand(v[i], v[i]) \in States
    /\ mem' \in Memory
    /\ \A y \in Places : y # Source(b) /\ y # Target(b) => mem'[y] = mem[y]
    /\ \A j \in 1 .. N : mem'[Source(b)][j] = IF j <= n THEN v[j] ELSE mem[Source(b)][j]
    /\ \A i \in 1 .. n : mem'[Target(b)][i] = Expand(v[i], v[i])
    /\ table' = Detached(Live(p), Target(b))
    /\ phase' = IF PingPong(b) THEN [phase EXCEPT ![b] = 1 - @] ELSE phase
    /\ out \in Seq(Refs) /\ Len(out) = n /\ Hands(out, b, v)
    /\ Enqueue(p, Ordered(p), out, TRUE)

\* A replay reads one plane of its size and writes the other.
LEMMA PlanesOf ==
    ASSUME Typed, NEW b \in Sizes
    PROVE  /\ Source(b) \in Places /\ Target(b) \in Places /\ Source(b) # Target(b)
           /\ \E k, l \in 0 .. 1 :
                /\ Source(b) = Plane(b, k) /\ Target(b) = Plane(b, l) /\ k # l
                /\ PingPong(b) => k = phase[b] /\ l = 1 - phase[b]
<1>1. PICK k : k = (IF PingPong(b) THEN phase[b] ELSE 0)
  OBVIOUS
<1>2. PICK l : l = (IF PingPong(b) THEN 1 - phase[b] ELSE 1)
  OBVIOUS
<1>3. phase[b] \in 0 .. 1
  BY DEF Typed
<1>4. k \in 0 .. 1 /\ l \in 0 .. 1 /\ k # l
  BY <1>1, <1>2, <1>3
<1>5. Source(b) = Plane(b, k) /\ Target(b) = Plane(b, l)
  BY <1>1, <1>2 DEF Source, Target
<1>6. Source(b) # Target(b)
  BY <1>4, <1>5, PlacesApart
<1> QED
  BY <1>1, <1>2, <1>4, <1>5, <1>6 DEF Places

\* A replay with an expand is such a step.
LEMMA ReplayExpands ==
    ASSUME Shape, NEW p \in PipeIds, LaunchExpand(p)
    PROVE  \E b, n, v, out : Replays(p, b, n, v, out)
<1> DEFINE b == Bucket(NRows(p))
           n == NRows(p)
           v == Results(Live(p))
           packed == Put(mem, Source(b), v)
           expanded == [i \in DOMAIN Live(p) |-> Expand(v[i], packed[Source(b)][i])]
           out == IF Stolen(b, n) THEN Views(Target(b), n) ELSE Copies(expanded)
<1>1. CanLaunch(p) /\ b # 0
  BY DEF LaunchExpand, WantsExpand
<1>2. /\ Ordered(p) = Live(p) /\ Live(p) \in Seq(Reqs)
      /\ n = Len(Live(p)) /\ n \in Nat /\ n <= N
      /\ v \in Seq(States) /\ Len(v) = n
      /\ \A i \in 1 .. n : v[i] = Deref(mem, table[Live(p)[i]])
  BY <1>1, LaunchIs
<1>3. /\ table' = Detached(Live(p), Target(b))
      /\ mem' = Put(packed, Target(b), expanded)
      /\ Enqueue(p, Ordered(p), out, TRUE)
      /\ phase' = IF PingPong(b) THEN [phase EXCEPT ![b] = 1 - @] ELSE phase
  BY <1>2 DEF LaunchExpand
<1>4. b \in Sizes /\ b >= n
  BY <1>1, <1>2, BucketIs DEF Shape, Typed
<1>5. Source(b) \in Places /\ Target(b) \in Places /\ Source(b) # Target(b)
  BY <1>4, PlanesOf DEF Shape
<1> HIDE DEF b, v, n
<1>6. /\ packed \in Memory
      /\ \A y \in Places : y # Source(b) => packed[y] = mem[y]
      /\ \A i \in 1 .. N : packed[Source(b)][i] = IF i <= n THEN v[i] ELSE mem[Source(b)][i]
  <2>1. mem \in Memory
    BY DEF Shape, Typed
  <2> QED
    BY <1>2, <1>5, <2>1, PutRows
<1> HIDE DEF packed
<1>7. DOMAIN Live(p) = 1 .. n /\ \A i \in 1 .. n : i \in 1 .. N /\ v[i] \in States
  BY <1>2, ReqsAreNumbers
<1>8. \A i \in 1 .. n : expanded[i] = Expand(v[i], v[i]) /\ expanded[i] \in States
  BY <1>6, <1>7, ExpandType
<1>9. expanded \in Seq(States) /\ Len(expanded) = n
  <2>1. expanded = [i \in 1 .. n |-> expanded[i]]
    BY <1>7
  <2> HIDE DEF expanded
  <2> QED
    BY <1>2, <1>8, <2>1
<1> HIDE DEF expanded
<1>10. /\ mem' \in Memory
       /\ \A y \in Places : y # Target(b) => mem'[y] = packed[y]
       /\ \A i \in 1 .. N : mem'[Target(b)][i] = IF i <= n THEN expanded[i] ELSE packed[Target(b)][i]
  BY <1>2, <1>3, <1>5, <1>6, <1>9, PutRows
<1>11. out \in Seq(Refs) /\ Len(out) = n /\ Hands(out, b, v)
  <2>1. CASE Stolen(b, n)
    <3>1. out = Views(Target(b), n)
      BY <2>1
    <3> HIDE DEF out
    <3>2. /\ out \in Seq(Refs) /\ Len(out) = n /\ \A i \in 1 .. n : out[i] = View(Target(b), i)
      BY <1>2, <1>5, <3>1, ViewsAre
    <3> QED
      BY <1>2, <2>1, <3>2 DEF Hands, Stolen
  <2>2. CASE ~Stolen(b, n)
    <3>1. out = Copies(expanded)
      BY <2>2
    <3> HIDE DEF out
    <3>2. out \in Seq(Refs) /\ Len(out) = n /\ \A i \in 1 .. n : out[i] = Own(expanded[i])
      BY <1>9, <3>1, CopiesAre
    <3> QED
      BY <1>2, <1>8, <3>2 DEF Hands
  <2> QED
    BY <2>1, <2>2
<1> HIDE DEF out
<1>12. \A y \in Places : y # Source(b) /\ y # Target(b) => mem'[y] = mem[y]
  BY <1>6, <1>10
<1>13. \A j \in 1 .. N : mem'[Source(b)][j] = IF j <= n THEN v[j] ELSE mem[Source(b)][j]
  BY <1>5, <1>6, <1>10
<1>14. \A i \in 1 .. n : mem'[Target(b)][i] = Expand(v[i], v[i]) /\ Expand(v[i], v[i]) \in States
  BY <1>7, <1>8, <1>10
<1>15. n = NRows(p) /\ b = Bucket(n) /\ v = Results(Live(p))
  BY DEF b, n, v
<1>16. Replays(p, b, n, v, out)
  BY <1>2, <1>3, <1>4, <1>10, <1>11, <1>12, <1>13, <1>14, <1>15 DEF Replays
<1> QED
  BY <1>16

\* The tables of a pipe are detached together.
LEMMA DetachedInLine ==
    ASSUME Shape, NEW p \in PipeIds, NEW q \in PipeIds, NEW x
    PROVE  /\ InLine(Detached(Live(p), x), pipes[q], Running)
           /\ \A r \in ToSet(pipes[q]) : LiesFor(Detached(Live(p), x)[r], q)
<1> DEFINE t == Detached(Live(p), x)
<1>1. /\ Live(p) \in Seq(Reqs) /\ ToSet(Live(p)) = ToSet(pipes[p]) \cap Running
  BY LiveIs DEF Shape
<1>2. /\ \A r \in Reqs : t[r] =
             IF Pipelined /\ status[r] = "running" /\ r \notin ToSet(Live(p)) /\ table[r].at = x
             THEN Own(Deref(mem, table[r])) ELSE table[r]
  BY <1>1, DetachedIs DEF Shape
<1> HIDE DEF t
<1>3. pipes[q] \in Seq(Reqs) /\ (q # p => ToSet(pipes[p]) \cap ToSet(pipes[q]) = {})
  BY DEF Shape, Typed, Homes, ApartIn
<1>4. PICK n \in Nat : n = Len(pipes[q]) /\ \A i \in 1 .. n : pipes[q][i] \in Reqs
  BY <1>3
<1>5. ToSet(pipes[q]) = {pipes[q][i] : i \in 1 .. n} /\ ToSet(pipes[q]) \subseteq Reqs
  BY <1>3, <1>4, Members
<1>6. \A r : Own(Deref(mem, table[r])).at = <<"own">>
  BY DEF Own
<1>7. ASSUME NEW i \in 1 .. n, NEW j \in 1 .. n, i < j,
             pipes[q][i] \in Running, pipes[q][j] \in Running
      PROVE  /\ t[pipes[q][i]].at = t[pipes[q][j]].at
             /\ t[pipes[q][i]].at = <<"own">> \/ t[pipes[q][i]].row < t[pipes[q][j]].row
  <2> PICK y \in Reqs : y = pipes[q][i]
    BY <1>4
  <2> PICK z \in Reqs : z = pipes[q][j]
    BY <1>4
  <2>1. /\ table[y].at = table[z].at
        /\ table[y].at = <<"own">> \/ table[y].row < table[z].row
    BY <1>4, <1>7 DEF Shape, Tidy, InLine
  <2>2. y \in ToSet(Live(p)) <=> z \in ToSet(Live(p))
    BY <1>1, <1>3, <1>5, <1>7
  <2>3. status[y] = "running" /\ status[z] = "running"
    BY <1>7 DEF Running
  <2>4. CASE Pipelined /\ y \notin ToSet(Live(p)) /\ table[y].at = x
    <3>1. t[y].at = <<"own">> /\ t[z].at = <<"own">>
      BY <1>2, <1>6, <2>1, <2>2, <2>3, <2>4
    <3> QED
      BY <3>1
  <2>5. CASE ~(Pipelined /\ y \notin ToSet(Live(p)) /\ table[y].at = x)
    <3>1. t[y] = table[y] /\ t[z] = table[z]
      BY <1>2, <2>1, <2>2, <2>3, <2>5
    <3> QED
      BY <2>1, <3>1
  <2> QED
    BY <2>4, <2>5
<1>8. InLine(t, pipes[q], Running)
  BY <1>4, <1>7 DEF InLine
<1>9. ASSUME NEW r \in ToSet(pipes[q]) PROVE LiesFor(t[r], q)
  <2>1. LiesFor(table[r], q) /\ r \in Reqs
    BY <1>5 DEF Shape, Located
  <2>2. t[r] = table[r] \/ t[r].at = <<"own">>
    BY <1>2, <1>6, <2>1
  <2> QED
    BY <2>1, <2>2 DEF LiesFor
<1> QED
  BY <1>8, <1>9 DEF t

\* A replay with an expand.
LEMMA ExpandShape ==
    ASSUME Shape, NEW p \in PipeIds, LaunchExpand(p)
    PROVE  Shape'
<1>1. PICK b, n, v, out : Replays(p, b, n, v, out)
  BY ReplayExpands
<1>2. CanLaunch(p) /\ UNCHANGED <<mode, status, depth, pipes, raised>>
  BY DEF LaunchExpand
<1>3. /\ b \in Sizes /\ n = NRows(p) /\ Len(v) = n /\ n \in Nat /\ n <= N
      /\ out \in Seq(Refs) /\ Len(out) = n /\ Hands(out, b, v) /\ Enqueue(p, Ordered(p), out, TRUE)
      /\ mem' \in Memory /\ table' = Detached(Live(p), Target(b))
      /\ phase' = IF PingPong(b) THEN [phase EXCEPT ![b] = 1 - @] ELSE phase
  BY <1>1 DEF Replays
<1>4. Target(b) \in Places /\ \E l \in 0 .. 1 : Target(b) = Plane(b, l)
  <2>1. Typed /\ b \in Sizes
    BY <1>3 DEF Shape
  <2>2. PICK k \in 0 .. 1, l \in 0 .. 1 : Source(b) = Plane(b, k) /\ Target(b) = Plane(b, l)
    BY <2>1, PlanesOf, Zenon
  <2>3. Target(b) \in Places
    BY <2>1, PlanesOf, Zenon
  <2> QED
    BY <2>2, <2>3
<1>5. OutPlaces(out, TRUE) /\ OneBuffer(out)
  <2>1. CASE \A i \in 1 .. n : out[i] = View(Target(b), i)
    <3>1. \A i \in 1 .. n : out[i].at = Target(b) /\ out[i].row = i
      BY <1>3, <2>1 DEF View
    <3> QED
      BY <1>3, <1>4, <3>1 DEF OutPlaces, OneBuffer
  <2>2. CASE \A i \in 1 .. n : out[i] = Own(Expand(v[i], v[i]))
    <3>1. \A i \in 1 .. n : out[i].at = <<"own">>
      BY <1>3, <2>2 DEF Own
    <3> QED
      BY <1>3, <3>1 DEF OutPlaces, OneBuffer
  <2> QED
    BY <1>3, <2>1, <2>2 DEF Hands
<1>6. Len(out) = Len(Live(p)) /\ Live(p) \in Seq(Reqs)
  BY <1>2, <1>3, LaunchIs
<1>7. /\ queue' \in Seq(Launches) /\ pc' \in {"loop", "tick", "process"}
      /\ Queued'
  BY <1>2, <1>3, <1>5, <1>6, EnqueueKeeps
<1>8. table' \in [Reqs -> Refs]
  BY <1>3, <1>6, DetachedIs DEF Shape
<1>9. phase' \in [Sizes -> 0 .. 1]
  <2>1. phase \in [Sizes -> 0 .. 1] /\ \A k \in 0 .. 1 : 1 - k \in 0 .. 1
    BY DEF Shape, Typed
  <2> QED
    BY <1>3, <2>1
<1>10. /\ \A q \in PipeIds : InLine(table', pipes[q], Running)
       /\ \A q \in PipeIds : \A r \in ToSet(pipes[q]) : LiesFor(table'[r], q)
  BY <1>3, DetachedInLine
<1>11. raised' \in BOOLEAN
  BY <1>2 DEF Shape, Typed
<1> QED
  BY <1>2, <1>3, <1>7, <1>8, <1>9, <1>10, <1>11, StayShape

\* A pack that raises changes nothing else.
LEMMA RaiseShape ==
    ASSUME Shape, NEW p \in PipeIds, PackRaises(p)
    PROVE  Shape'
<1>1. UNCHANGED <<mode, status, depth, pipes, table, mem, phase, queue, pc>> /\ raised' = TRUE
  BY DEF PackRaises
<1>2. Queued'
  <2>1. Sizes' = Sizes /\ PipeIds' = PipeIds /\ Pipelined' = Pipelined /\ Running' = Running
    BY <1>1, ModeFixed DEF Running
  <2> QED
    BY <1>1, <2>1 DEF Shape, Queued, Launched, OnePerPipe, Serially, Settled, Inflight, Live,
                      OutPlaces, OneBuffer
<1>3. /\ queue' \in Seq(Launches) /\ pc' \in {"loop", "tick", "process"}
      /\ phase' \in [Sizes -> 0 .. 1] /\ mem' \in Memory /\ table' \in [Reqs -> Refs]
      /\ \A q \in PipeIds : InLine(table', pipes[q], Running)
      /\ \A q \in PipeIds : \A r \in ToSet(pipes[q]) : LiesFor(table'[r], q)
  BY <1>1 DEF Shape, Typed, Tidy, Located
<1> QED
  BY <1>1, <1>2, <1>3, StayShape

\* A tick without a launch.
LEMMA NoLaunchShape == ASSUME Shape, NoLaunch PROVE Shape'
<1>1. UNCHANGED <<mode, status, depth, pipes, table, mem, phase, queue, raised>>
      /\ pc' = "loop" /\ Pipelined
  BY DEF NoLaunch
<1>2. Queued'
  <2>1. Sizes' = Sizes /\ PipeIds' = PipeIds /\ Pipelined' = Pipelined /\ Running' = Running
    BY <1>1, ModeFixed DEF Running
  <2> QED
    BY <1>1, <2>1 DEF Shape, Queued, Launched, OnePerPipe, Serially, Settled, Inflight, Live,
                      OutPlaces, OneBuffer
<1>3. /\ queue' \in Seq(Launches) /\ pc' \in {"loop", "tick", "process"} /\ raised' \in BOOLEAN
      /\ phase' \in [Sizes -> 0 .. 1] /\ mem' \in Memory /\ table' \in [Reqs -> Refs]
      /\ \A q \in PipeIds : InLine(table', pipes[q], Running)
      /\ \A q \in PipeIds : \A r \in ToSet(pipes[q]) : LiesFor(table'[r], q)
  BY <1>1 DEF Shape, Typed, Tidy, Located
<1> QED
  BY <1>1, <1>2, <1>3, StayShape

\* What processing the oldest launch does: it was pid's, of all requests g of that
\* pipe, and its result is out.
Processes(pid, g, out, fused) ==
    /\ pid \in PipeIds /\ fused \in BOOLEAN
    /\ g = pipes[pid] /\ g = Live(pid) /\ g \in Seq(Reqs) /\ NoRepeats(g) /\ g # <<>> /\ Len(g) <= N
    /\ ToSet(g) \subseteq Running
    /\ out \in Seq(Refs) /\ Len(out) = Len(g) /\ OutPlaces(out, fused)
    /\ queue # <<>> /\ queue[1].pid = pid /\ queue[1].reqs = g /\ queue[1].out = out
    /\ queue[1].fused = fused
    /\ table' \in [Reqs -> Refs] /\ mem' \in Memory
    /\ \A r \in Reqs : r \notin ToSet(g) => table'[r] = table[r]
    /\ \A y \in Places : y # Workspace(pid, 0) /\ y # Workspace(pid, 1) => mem'[y] = mem[y]
    /\ \/ /\ fused /\ mem' = mem /\ OneBuffer(out)
          /\ \A i \in 1 .. Len(g) : table'[g[i]] = out[i]
       \/ ~fused /\ GroupExpanded([table |-> table', mem |-> mem'], mem, table, pid, g, out)
    /\ \A r \in Reqs : depth'[r] = IF r \in ToSet(g) THEN depth[r] + 1 ELSE depth[r]
    /\ \A r \in Reqs : status'[r] = IF r \in ToSet(g) /\ depth'[r] >= mode.gen[r]
                                    THEN "finished" ELSE status[r]
    /\ depth' \in [Reqs -> Nat]
    /\ status' \in [Reqs -> {"new", "running", "finished", "done"}]

\* Members selected by a set lie in line as all of them.
LEMMA InLineAll ==
    ASSUME NEW t, NEW s \in Seq(Reqs), NEW S, InLine(t, s, S), ToSet(s) \subseteq S, NEW R
    PROVE  InLine(t, s, R)
<1>1. \A i \in 1 .. Len(s) : s[i] \in S
  BY Members
<1> QED
  BY <1>1 DEF InLine

\* The oldest launch.
LEMMA OldestIs ==
    ASSUME Shape, queue # <<>>, pc # "loop"
    PROVE  LET pid == queue[1].pid IN
           /\ queue[1] \in Launches /\ Head(queue) = queue[1] /\ pid \in PipeIds
           /\ queue[1].reqs = pipes[pid] /\ queue[1].reqs = Live(pid)
           /\ pipes[pid] \in Seq(Reqs) /\ NoRepeats(pipes[pid]) /\ pipes[pid] # <<>>
           /\ Len(pipes[pid]) <= N /\ ToSet(pipes[pid]) \subseteq Running
           /\ queue[1].out \in Seq(Refs) /\ Len(queue[1].out) = Len(pipes[pid])
           /\ OutPlaces(queue[1].out, queue[1].fused)
           /\ queue[1].fused => OneBuffer(queue[1].out)
<1> DEFINE pid == queue[1].pid
<1>1. queue \in Seq(Launches) /\ 1 \in 1 .. Len(queue)
  BY DEF Shape, Typed
<1>2. queue[1] \in Launches /\ Head(queue) = queue[1]
  BY <1>1
<1>3. /\ pid \in PipeIds /\ queue[1].out \in Seq(Refs) /\ queue[1].fused \in BOOLEAN
  BY <1>2 DEF Launches
<1>4. /\ queue[1].reqs = Live(pid) /\ queue[1].reqs # <<>>
      /\ Len(queue[1].out) = Len(queue[1].reqs)
      /\ OutPlaces(queue[1].out, queue[1].fused)
      /\ queue[1].fused => OneBuffer(queue[1].out)
  BY <1>1 DEF Shape, Queued, Launched
<1>5. Inflight(pid)
  BY <1>1, InflightIs DEF Shape
<1> HIDE DEF pid
<1>6. ToSet(pipes[pid]) \subseteq Running
  BY <1>3, <1>5 DEF Shape, Queued, Settled
<1>7. pipes[pid] \in Seq(Reqs) /\ NoRepeats(pipes[pid])
  BY <1>3 DEF Shape, Typed, Homes, ApartIn
<1>8. Live(pid) = pipes[pid]
  BY <1>6, <1>7, OnlyAll DEF Live
<1>9. Len(Live(pid)) <= N
  BY <1>3, LiveIs DEF Shape
<1>10. /\ queue[1] \in Launches /\ Head(queue) = queue[1] /\ pid \in PipeIds
       /\ queue[1].reqs = pipes[pid] /\ queue[1].reqs = Live(pid)
       /\ pipes[pid] \in Seq(Reqs) /\ NoRepeats(pipes[pid]) /\ pipes[pid] # <<>>
       /\ Len(pipes[pid]) <= N /\ ToSet(pipes[pid]) \subseteq Running
       /\ queue[1].out \in Seq(Refs) /\ Len(queue[1].out) = Len(pipes[pid])
       /\ OutPlaces(queue[1].out, queue[1].fused)
       /\ queue[1].fused => OneBuffer(queue[1].out)
  BY <1>2, <1>3, <1>4, <1>6, <1>7, <1>8, <1>9
<1> QED
  BY <1>10 DEF pid

\* _apply_fused gives each request its part of the result.
LEMMA AppliedFused ==
    ASSUME Typed, NEW launch \in Launches, NoRepeats(launch.reqs), Len(launch.out) = Len(launch.reqs)
    PROVE  LET st == ApplyFused(launch) IN
           /\ st.mem = mem /\ st.table \in [Reqs -> Refs]
           /\ \A r \in Reqs : r \notin ToSet(launch.reqs) => st.table[r] = table[r]
           /\ \A i \in 1 .. Len(launch.reqs) : st.table[launch.reqs[i]] = launch.out[i]
<1> DEFINE Pos(r) == CHOOSE i \in DOMAIN launch.reqs : launch.reqs[i] = r
           st == ApplyFused(launch)
<1>1. /\ st.mem = mem
      /\ st.table = [r \in Reqs |-> IF r \in Range(launch.reqs) THEN launch.out[Pos(r)] ELSE table[r]]
  BY DEF ApplyFused
<1>2. launch.reqs \in Seq(Reqs) /\ launch.out \in Seq(Refs)
  BY DEF Launches
<1>3. \A i \in 1 .. Len(launch.reqs) : Pos(launch.reqs[i]) = i
  BY <1>2, PositionIn, Zenon
<1>4. ToSet(launch.reqs) = {launch.reqs[i] : i \in 1 .. Len(launch.reqs)} /\ Range(launch.reqs) = ToSet(launch.reqs)
  BY <1>2, Members, RangeIsSet
<1> HIDE DEF Pos, st
<1>5. \A i \in 1 .. Len(launch.reqs) : st.table[launch.reqs[i]] = launch.out[i]
  BY <1>1, <1>2, <1>3, <1>4
<1>6. \A r \in Reqs : r \notin ToSet(launch.reqs) => st.table[r] = table[r]
  BY <1>1, <1>4
<1>7. st.table \in [Reqs -> Refs]
  <2>1. \A i \in 1 .. Len(launch.reqs) : launch.out[i] \in Refs
    BY <1>2
  <2>2. \A r \in Reqs : st.table[r] \in Refs
    <3> SUFFICES ASSUME NEW r \in Reqs PROVE st.table[r] \in Refs
      OBVIOUS
    <3>1. CASE r \in ToSet(launch.reqs)
      BY <1>4, <1>5, <2>1, <3>1
    <3>2. CASE r \notin ToSet(launch.reqs)
      BY <1>6, <3>2 DEF Typed
    <3> QED
      BY <3>1, <3>2
  <2>3. st.table = [r \in Reqs |-> st.table[r]]
    BY <1>1
  <2> QED
    BY <2>2, <2>3
<1>8. /\ st.mem = mem /\ st.table \in [Reqs -> Refs]
      /\ \A r \in Reqs : r \notin ToSet(launch.reqs) => st.table[r] = table[r]
      /\ \A i \in 1 .. Len(launch.reqs) : st.table[launch.reqs[i]] = launch.out[i]
  BY <1>1, <1>5, <1>6, <1>7
<1> QED
  BY <1>8 DEF st

\* An eager expand goes over the only group of the launch.
LEMMA ExpandedGroup ==
    ASSUME Shape, NEW launch \in Launches, NEW pid \in PipeIds, launch.pid = pid,
           launch.reqs = Live(pid), launch.reqs = pipes[pid], launch.reqs # <<>>,
           ToSet(pipes[pid]) \subseteq Running, Len(launch.reqs) <= N,
           Len(launch.out) = Len(launch.reqs), OutPlaces(launch.out, FALSE)
    PROVE  GroupExpanded(ExpandGroups(launch), mem, table, pid, launch.reqs, launch.out)
<1> DEFINE g == launch.reqs
           out == launch.out
<1>1. g \in Seq(Reqs) /\ out \in Seq(Refs)
  BY DEF Launches
<1>2. table \in [Reqs -> Refs] /\ mem \in Memory /\ NoRepeats(g)
  BY DEF Shape, Typed, Homes, ApartIn
<1>3. Groups(g) = <<g>>
  BY LiveIsOneGroup DEF Shape
<1>4. ExpandGroups(launch) \in
               {ExpandFused([table |-> table, mem |-> mem], launch.pid, g, out),
                ExpandSingly([table |-> table, mem |-> mem], g, out)}
  BY <1>1, <1>3, ExpandOneGroup
<1>5. InLine(table, g, Reqs)
  BY <1>1, InLineAll DEF Shape, Tidy
<1>6. \A i \in 1 .. Len(g), k \in 0 .. 1 : out[i].at # Workspace(pid, k)
  <2> SUFFICES ASSUME NEW i \in 1 .. Len(g), NEW k \in 0 .. 1 PROVE out[i].at # Workspace(pid, k)
    OBVIOUS
  <2>1. out[i].at = <<"own">> \/ \E b \in Sizes : out[i].at = Hidden(b)
    BY <1>1 DEF OutPlaces
  <2>2. PICK x : x = out[i].at
    OBVIOUS
  <2>3. CASE x = <<"own">>
    BY <2>2, <2>3, PlacesApart
  <2>4. CASE \E b \in Sizes : x = Hidden(b)
    <3>1. PICK b \in Sizes : x = Hidden(b)
      BY <2>4
    <3>2. Hidden(b) # Workspace(pid, k)
      BY PlacesApart
    <3> QED
      BY <2>2, <3>1, <3>2
  <2> QED
    BY <2>1, <2>2, <2>3, <2>4
<1>7. GroupExpanded(ExpandFused([table |-> table, mem |-> mem], pid, g, out), mem, table, pid, g, out)
  BY <1>1, <1>2, <1>5, <1>6, ExpandFusedDoes
<1>8. GroupExpanded(ExpandSingly([table |-> table, mem |-> mem], g, out), mem, table, pid, g, out)
  BY <1>1, <1>2, ExpandSinglyDoes
<1> QED
  BY <1>4, <1>7, <1>8

\* Processing the oldest launch is such a step.
LEMMA ProcessIs ==
    ASSUME Shape, Process
    PROVE  \E pid, g, out, fused : Processes(pid, g, out, fused)
<1> DEFINE launch == queue[1]
           pid == launch.pid
           g == pipes[pid]
           out == launch.out
           fused == launch.fused
           st == IF launch.fused THEN ApplyFused(launch) ELSE ExpandGroups(launch)
           stepped == [r \in Reqs |-> depth[r] + (IF r \in Range(launch.reqs) THEN 1 ELSE 0)]
<1>1. queue # <<>> /\ pc # "loop"
  BY DEF Process
<1>2. /\ queue[1] \in Launches /\ Head(queue) = queue[1] /\ pid \in PipeIds
      /\ queue[1].reqs = g /\ queue[1].reqs = Live(pid)
      /\ g \in Seq(Reqs) /\ NoRepeats(g) /\ g # <<>>
      /\ Len(g) <= N /\ ToSet(g) \subseteq Running
      /\ out \in Seq(Refs) /\ Len(out) = Len(g)
      /\ OutPlaces(out, fused)
      /\ fused => OneBuffer(out)
  BY <1>1, OldestIs
<1>3. /\ table' = st.table /\ mem' = st.mem /\ depth' = stepped
      /\ status' = [r \in Reqs |-> IF r \in Range(launch.reqs) /\ stepped[r] >= mode.gen[r]
                                   THEN "finished" ELSE status[r]]
  BY <1>2 DEF Process
<1>4. fused \in BOOLEAN
  BY <1>2 DEF Launches
<1>5. \A r \in Reqs : depth[r] \in Nat
  BY DEF Shape, Typed
<1>6. Range(launch.reqs) = ToSet(g)
  BY <1>2, RangeIsSet
<1>7. /\ \A r \in Reqs : depth'[r] = IF r \in ToSet(g) THEN depth[r] + 1 ELSE depth[r]
      /\ depth' \in [Reqs -> Nat]
  BY <1>3, <1>5, <1>6
<1>8. /\ \A r \in Reqs : status'[r] = IF r \in ToSet(g) /\ depth'[r] >= mode.gen[r]
                                      THEN "finished" ELSE status[r]
      /\ status' \in [Reqs -> {"new", "running", "finished", "done"}]
  <2>1. status \in [Reqs -> {"new", "running", "finished", "done"}]
    BY DEF Shape, Typed
  <2> HIDE DEF stepped
  <2> QED
    BY <1>3, <1>6, <2>1
<1>9. /\ table' \in [Reqs -> Refs] /\ mem' \in Memory
      /\ \A r \in Reqs : r \notin ToSet(g) => table'[r] = table[r]
      /\ \A y \in Places : y # Workspace(pid, 0) /\ y # Workspace(pid, 1) => mem'[y] = mem[y]
      /\ \/ /\ fused /\ mem' = mem /\ OneBuffer(out)
            /\ \A i \in 1 .. Len(g) : table'[g[i]] = out[i]
         \/ ~fused /\ GroupExpanded([table |-> table', mem |-> mem'], mem, table, pid, g, out)
  <2>1. CASE fused
    <3>1. /\ ApplyFused(launch).mem = mem /\ ApplyFused(launch).table \in [Reqs -> Refs]
          /\ \A r \in Reqs : r \notin ToSet(g) => ApplyFused(launch).table[r] = table[r]
          /\ \A i \in 1 .. Len(g) : ApplyFused(launch).table[g[i]] = out[i]
      <4>1. Typed /\ launch \in Launches /\ NoRepeats(launch.reqs) /\ Len(launch.out) = Len(launch.reqs)
        BY <1>2 DEF Shape
      <4> HIDE DEF launch
      <4>2. /\ ApplyFused(launch).mem = mem /\ ApplyFused(launch).table \in [Reqs -> Refs]
            /\ \A r \in Reqs : r \notin ToSet(launch.reqs) => ApplyFused(launch).table[r] = table[r]
            /\ \A i \in 1 .. Len(launch.reqs) : ApplyFused(launch).table[launch.reqs[i]] = launch.out[i]
        BY <4>1, AppliedFused
      <4>3. launch.reqs = g
        BY <1>2 DEF launch
      <4> HIDE DEF g
      <4> QED
        BY <4>2, <4>3
    <3>2. table' = ApplyFused(launch).table /\ mem' = ApplyFused(launch).mem
      BY <1>3, <2>1
    <3>3. mem \in Memory
      BY DEF Shape, Typed
    <3> HIDE DEF launch, g, pid, out, fused, st
    <3> QED
      BY <1>2, <2>1, <3>1, <3>2, <3>3
  <2>2. CASE ~fused
    <3>1. table' = ExpandGroups(launch).table /\ mem' = ExpandGroups(launch).mem
      BY <1>3, <2>2
    <3>2. OutPlaces(out, FALSE)
      BY <1>2, <1>4, <2>2
    <3>3. GroupExpanded(ExpandGroups(launch), mem, table, pid, g, out)
      BY <1>2, <3>2, ExpandedGroup
    <3> HIDE DEF launch, g, pid, out, fused, st
    <3>4. GroupExpanded([table |-> table', mem |-> mem'], mem, table, pid, g, out)
      BY <3>1, <3>3 DEF GroupExpanded
    <3> QED
      BY <2>2, <3>4 DEF GroupExpanded
  <2> QED
    BY <2>1, <2>2
<1>10. Processes(pid, g, out, fused)
  <2>1. queue[1].pid = pid /\ queue[1].reqs = g /\ queue[1].out = out /\ queue[1].fused = fused
        /\ g = Live(pid) /\ g = pipes[pid]
    BY <1>2
  <2> HIDE DEF launch, g, pid, out, fused, st, stepped
  <2> QED
    BY <1>1, <1>2, <1>4, <1>7, <1>8, <1>9, <2>1 DEF Processes
<1> QED
  BY <1>10

\* The requests of the other pipes are as before.
LEMMA OthersStay ==
    ASSUME Shape, UNCHANGED <<mode, pipes>>, NEW pid, NEW g, NEW out, NEW fused,
           Processes(pid, g, out, fused), NEW q \in PipeIds, q # pid
    PROVE  /\ \A r \in ToSet(pipes[q]) : /\ r \in Reqs /\ r \notin ToSet(g)
                                         /\ table'[r] = table[r] /\ depth'[r] = depth[r]
                                         /\ status'[r] = status[r]
                                         /\ r \in Running' <=> r \in Running
           /\ Only(pipes[q], Running') = Live(q)
<1>1. pipes[q] \in Seq(Reqs) /\ pid \in PipeIds /\ g = pipes[pid]
  BY DEF Shape, Typed, Processes
<1>2. ToSet(pipes[q]) \subseteq Reqs /\ ToSet(pipes[q]) \cap ToSet(g) = {}
  BY <1>1, Members DEF Shape, Homes, ApartIn
<1>3. \A r \in ToSet(pipes[q]) : /\ r \in Reqs /\ r \notin ToSet(g)
                                 /\ table'[r] = table[r] /\ depth'[r] = depth[r]
                                 /\ status'[r] = status[r]
  BY <1>2 DEF Processes
<1>4. \A r \in ToSet(pipes[q]) : r \in Running' <=> r \in Running
  BY <1>3 DEF Running
<1>5. Only(pipes[q], Running') = Only(pipes[q], Running)
  BY <1>1, <1>4, OnlySame
<1> QED
  BY <1>3, <1>4, <1>5 DEF Live

\* The launches behind the oldest.
LEMMA RestOfQueue ==
    ASSUME Shape, queue # <<>>, queue' = Tail(queue)
    PROVE  /\ queue' \in Seq(Launches) /\ Len(queue') = Len(queue) - 1 /\ Len(queue) \in Nat
           /\ \A k \in 1 .. Len(queue') : /\ queue'[k] = queue[k + 1] /\ k + 1 \in 1 .. Len(queue)
                                          /\ queue'[k].pid # queue[1].pid
                                          /\ queue'[k].pid \in PipeIds
<1>1. queue \in Seq(Launches) /\ Len(queue) \in Nat /\ Len(queue) > 0
  BY DEF Shape, Typed
<1>2. /\ queue' \in Seq(Launches) /\ Len(queue') = Len(queue) - 1
      /\ \A k \in 1 .. Len(queue') : queue'[k] = queue[k + 1]
  BY <1>1
<1>3. ASSUME NEW k \in 1 .. Len(queue')
      PROVE  /\ k + 1 \in 1 .. Len(queue) /\ queue'[k].pid # queue[1].pid
             /\ queue'[k].pid \in PipeIds
  <2>1. k + 1 \in 1 .. Len(queue) /\ 1 \in 1 .. Len(queue) /\ k + 1 # 1
    BY <1>1, <1>2
  <2>2. queue[k + 1].pid # queue[1].pid
    BY <2>1 DEF Shape, Queued, OnePerPipe
  <2>3. queue[k + 1] \in Launches
    BY <1>1, <2>1
  <2> QED
    BY <1>2, <2>1, <2>2, <2>3 DEF Launches
<1> QED
  BY <1>1, <1>2, <1>3

\* Processing keeps the pipes, the other launches and the lines of tables in order.
LEMMA ProcessShape ==
    ASSUME Shape, Process
    PROVE  Shape'
<1>1. PICK pid, g, out, fused : Processes(pid, g, out, fused)
  BY ProcessIs
<1>2. /\ UNCHANGED <<mode, pipes, phase, raised>> /\ queue # <<>> /\ queue' = Tail(queue)
      /\ pc = (IF Pipelined THEN "tick" ELSE "process") /\ pc' = IF Pipelined THEN pc ELSE "loop"
  BY DEF Process
<1>3. /\ Sizes' = Sizes /\ PipeIds' = PipeIds /\ Pipelined' = Pipelined
      /\ Refs' = Refs /\ Memory' = Memory /\ Launches' = Launches
  BY <1>2, ModeFixed
<1>4. /\ pid \in PipeIds /\ g = pipes[pid] /\ g \in Seq(Reqs) /\ ToSet(g) \subseteq Running
      /\ queue[1].pid = pid /\ ToSet(g) \subseteq Reqs
  BY <1>1, Members DEF Processes
<1>5. \A q \in PipeIds : q # pid =>
        /\ \A r \in ToSet(pipes[q]) : /\ r \in Reqs /\ r \notin ToSet(g)
                                      /\ table'[r] = table[r] /\ depth'[r] = depth[r]
                                      /\ status'[r] = status[r]
                                      /\ r \in Running' <=> r \in Running
        /\ Only(pipes[q], Running') = Live(q)
  BY <1>1, <1>2, OthersStay
<1>6. /\ queue' \in Seq(Launches) /\ Len(queue') = Len(queue) - 1 /\ Len(queue) \in Nat
      /\ \A k \in 1 .. Len(queue') : /\ queue'[k] = queue[k + 1] /\ k + 1 \in 1 .. Len(queue)
                                     /\ queue'[k].pid # pid
                                     /\ queue'[k].pid \in PipeIds
  BY <1>2, <1>4, RestOfQueue
<1>7. /\ \A r \in Reqs : depth'[r] = IF r \in ToSet(g) THEN depth[r] + 1 ELSE depth[r]
      /\ \A r \in Reqs : status'[r] = IF r \in ToSet(g) /\ depth'[r] >= mode.gen[r]
                                      THEN "finished" ELSE status[r]
      /\ depth' \in [Reqs -> Nat]
      /\ status' \in [Reqs -> {"new", "running", "finished", "done"}]
      /\ table' \in [Reqs -> Refs] /\ mem' \in Memory
  BY <1>1 DEF Processes
<1>8. \A r \in ToSet(g) : status[r] = "running"
  BY <1>4 DEF Running
<1>9. Typed'
  <2>1. /\ mode' \in Modes /\ pipes' \in [PipeIds' -> Seq(Reqs)]
        /\ phase' \in [Sizes' -> 0 .. 1] /\ raised' \in BOOLEAN
        /\ pc' \in {"loop", "tick", "process"}
    BY <1>2, <1>3 DEF Shape, Typed
  <2>2. table' \in [Reqs -> Refs'] /\ mem' \in Memory' /\ queue' \in Seq(Launches')
    BY <1>3, <1>6, <1>7
  <2> QED
    BY <1>7, <2>1, <2>2 DEF Typed
<1>10. Homes'
  <2>1. Needed' = Needed
    BY <1>7, <1>8 DEF Needed
  <2>2. \A r \in Reqs : status'[r] = "new" => depth'[r] = 0
    BY <1>7, <1>8 DEF Shape, Homes
  <2> QED
    BY <1>2, <1>3, <2>1, <2>2 DEF Shape, Homes
<1>11. Running' \subseteq Running
  BY <1>7, <1>8 DEF Running
<1>12. Abreast'
  <2> SUFFICES ASSUME NEW p \in PipeIds, NEW r \in ToSet(pipes[p]), NEW q \in ToSet(pipes[p]),
                      r \in Running', q \in Running'
               PROVE  depth'[r] = depth'[q]
    BY <1>2, <1>3 DEF Abreast
  <2>1. depth[r] = depth[q]
    BY <1>11 DEF Shape, Abreast
  <2>2. CASE p = pid
    <3>1. r \in ToSet(g) /\ q \in ToSet(g) /\ r \in Reqs /\ q \in Reqs
      BY <1>4, <2>2
    <3> QED
      BY <1>7, <2>1, <3>1
  <2>3. CASE p # pid
    BY <1>5, <2>1, <2>3
  <2> QED
    BY <2>2, <2>3
<1>13. Launched'
  <2> SUFFICES ASSUME NEW k \in 1 .. Len(queue')
               PROVE  /\ queue'[k].reqs = Only(pipes[queue'[k].pid], Running') /\ queue'[k].reqs # <<>>
                      /\ Len(queue'[k].out) = Len(queue'[k].reqs)
                      /\ OutPlaces(queue'[k].out, queue'[k].fused)
                      /\ queue'[k].fused => OneBuffer(queue'[k].out)
    BY <1>2, <1>3 DEF Launched, OutPlaces, OneBuffer, Live
  <2>1. Only(pipes[queue'[k].pid], Running') = Live(queue'[k].pid)
    BY <1>5, <1>6
  <2>2. queue'[k] = queue[k + 1] /\ k + 1 \in 1 .. Len(queue)
    BY <1>6
  <2>3. PICK x : x = queue[k + 1]
    OBVIOUS
  <2>4. /\ x.reqs = Live(x.pid) /\ x.reqs # <<>>
        /\ Len(x.out) = Len(x.reqs)
        /\ OutPlaces(x.out, x.fused)
        /\ x.fused => OneBuffer(x.out)
    BY <2>2, <2>3 DEF Shape, Queued, Launched
  <2>5. x = queue'[k]
    BY <2>2, <2>3
  <2> QED
    BY <2>1, <2>4, <2>5
<1>14. OnePerPipe'
  <2> SUFFICES ASSUME NEW k \in 1 .. Len(queue'), NEW l \in 1 .. Len(queue'),
                      queue'[k].pid = queue'[l].pid
               PROVE  k = l
    BY DEF OnePerPipe
  <2>1. k + 1 \in 1 .. Len(queue) /\ l + 1 \in 1 .. Len(queue) /\ queue[k + 1].pid = queue[l + 1].pid
    BY <1>6
  <2>2. k + 1 = l + 1
    BY <2>1 DEF Shape, Queued, OnePerPipe
  <2> QED
    BY <2>2
<1>15. Serially'
  <2>1. CASE Pipelined
    BY <1>2, <1>3, <2>1 DEF Serially
  <2>2. CASE ~Pipelined
    <3>1. Len(queue) = 1
      BY <1>2, <2>2 DEF Shape, Queued, Serially
    <3>2. queue' = <<>>
      BY <1>6, <3>1
    <3> QED
      BY <1>2, <1>3, <2>2, <3>2 DEF Serially
  <2> QED
    BY <2>1, <2>2
<1>16. Settled'
  <2> SUFFICES ASSUME pc' # "loop", NEW p \in PipeIds, Inflight(p)' \/ ~Pipelined
               PROVE  ToSet(pipes[p]) \subseteq Running'
    BY <1>2, <1>3 DEF Settled
  <2>1. Pipelined /\ pc = "tick"
    BY <1>2
  <2>2. PICK k \in 1 .. Len(queue') : queue'[k].pid = p
    <3>1. DOMAIN queue' = 1 .. Len(queue')
      BY <1>6
    <3> QED
      BY <2>1, <3>1 DEF Inflight
  <2>3. p # pid /\ queue[k + 1].pid = p /\ k + 1 \in 1 .. Len(queue)
    BY <1>6, <2>2
  <2>4. Inflight(p)
    BY <2>3, InflightIs DEF Shape
  <2>5. ToSet(pipes[p]) \subseteq Running
    BY <2>1, <2>4 DEF Shape, Queued, Settled
  <2> QED
    BY <1>5, <2>3, <2>5
<1>17. ASSUME NEW p \in PipeIds
       PROVE  InLine(table', pipes[p], Running')
  <2>1. CASE p = pid
    <3>1. PICK n \in Nat : n = Len(g) /\ \A i \in 1 .. n : g[i] \in Reqs
      BY <1>4
    <3>2. \/ \A i \in 1 .. n : table'[g[i]].at = <<"own">>
          \/ \E x : \A i \in 1 .. n : table'[g[i]].at = x /\ table'[g[i]].row = i
          \/ \A i, j \in 1 .. n : /\ table'[g[i]].at = table'[g[j]].at
                                  /\ table'[g[i]].at = <<"own">> \/ table'[g[i]].row = i
      <4>1. CASE fused
        <5>1. /\ OneBuffer(out) /\ Len(out) = n
              /\ \A i \in 1 .. n : table'[g[i]] = out[i]
          BY <1>1, <3>1, <4>1 DEF Processes
        <5> QED
          BY <5>1 DEF OneBuffer
      <4>2. CASE ~fused
        <5>1. \/ \A i \in 1 .. n : table'[g[i]].at = <<"own">>
              \/ \E k \in 0 .. 1 : \A i \in 1 .. n : table'[g[i]] = View(Workspace(pid, k), i)
          BY <1>1, <3>1, <4>2 DEF Processes, GroupExpanded
        <5>2. ASSUME NEW k \in 0 .. 1, \A i \in 1 .. n : table'[g[i]] = View(Workspace(pid, k), i)
              PROVE  \A i \in 1 .. n : table'[g[i]].at = Workspace(pid, k) /\ table'[g[i]].row = i
          <6>1. \A i \in 1 .. n : /\ View(Workspace(pid, k), i).at = Workspace(pid, k)
                                  /\ View(Workspace(pid, k), i).row = i
            BY <3>1 DEF View
          <6> QED
            BY <5>2, <6>1
        <5> QED
          BY <5>1, <5>2
      <4> QED
        BY <4>1, <4>2
    <3>3. ASSUME NEW i \in 1 .. n, NEW j \in 1 .. n, i < j
          PROVE  /\ table'[g[i]].at = table'[g[j]].at
                 /\ table'[g[i]].at = <<"own">> \/ table'[g[i]].row < table'[g[j]].row
      <4>1. CASE \E x : \A k \in 1 .. n : table'[g[k]].at = x /\ table'[g[k]].row = k
        BY <3>3, <4>1
      <4> QED
        BY <3>2, <3>3, <4>1
    <3>4. InLine(table', g, Running')
      BY <3>1, <3>3 DEF InLine
    <3> QED
      BY <1>4, <2>1, <3>4
  <2>2. CASE p # pid
    <3>1. PICK n \in Nat : n = Len(pipes[p]) /\ ToSet(pipes[p]) = {pipes[p][i] : i \in 1 .. n}
      <4>1. pipes[p] \in Seq(Reqs)
        BY DEF Shape, Typed
      <4> QED
        BY <4>1, Members
    <3>2. \A i \in 1 .. n : /\ table'[pipes[p][i]] = table[pipes[p][i]]
                            /\ pipes[p][i] \in Running' <=> pipes[p][i] \in Running
      BY <1>5, <2>2, <3>1
    <3>3. InLine(table, pipes[p], Running)
      BY DEF Shape, Tidy
    <3>4. ASSUME NEW i \in 1 .. n, NEW j \in 1 .. n, i < j,
                 pipes[p][i] \in Running', pipes[p][j] \in Running'
          PROVE  /\ table'[pipes[p][i]].at = table'[pipes[p][j]].at
                 /\ \/ table'[pipes[p][i]].at = <<"own">>
                    \/ table'[pipes[p][i]].row < table'[pipes[p][j]].row
      <4>1. pipes[p][i] \in Running /\ pipes[p][j] \in Running
        BY <3>2, <3>4
      <4>2. /\ table[pipes[p][i]].at = table[pipes[p][j]].at
            /\ table[pipes[p][i]].at = <<"own">> \/ table[pipes[p][i]].row < table[pipes[p][j]].row
        BY <3>1, <3>3, <3>4, <4>1 DEF InLine
      <4> QED
        BY <3>2, <4>2
    <3> QED
      BY <3>1, <3>4 DEF InLine
  <2> QED
    BY <2>1, <2>2
<1>18. ASSUME NEW p \in PipeIds, NEW r \in ToSet(pipes[p])
       PROVE  LiesFor(table'[r], p)
  <2>1. CASE p = pid
    <3>1. PICK i \in 1 .. Len(g) : r = g[i]
      BY <1>4, <2>1, Members
    <3>2. CASE fused
      <4>1. OutPlaces(out, TRUE) /\ Len(out) = Len(g) /\ table'[r] = out[i]
        BY <1>1, <3>1, <3>2 DEF Processes
      <4> QED
        BY <4>1 DEF OutPlaces, LiesFor
    <3>3. CASE ~fused
      <4>1. \/ table'[r].at = <<"own">>
            \/ \E k \in 0 .. 1 : table'[r] = View(Workspace(pid, k), i)
        BY <1>1, <3>1, <3>3 DEF Processes, GroupExpanded
      <4> QED
        BY <2>1, <4>1 DEF LiesFor, View
    <3> QED
      BY <3>2, <3>3
  <2>2. CASE p # pid
    BY <1>5, <2>2 DEF Shape, Located
  <2> QED
    BY <2>1, <2>2
<1>19. Tidy'
  BY <1>2, <1>3, <1>17 DEF Tidy
<1>20. Located'
  BY <1>2, <1>3, <1>18 DEF Located, LiesFor
<1> QED
  BY <1>9, <1>10, <1>12, <1>13, <1>14, <1>15, <1>16, <1>19, <1>20 DEF Shape, Queued

\* With nobody to place the pipes stay.
LEMMA SpreadNone == \A ps, F : Spread(ps, F, <<>>) = ps
<1> SUFFICES ASSUME NEW ps, NEW F PROVE Spread(ps, F, <<>>) = ps
  OBVIOUS
<1> DEFINE Put1(x, r) == [x EXCEPT ![Shortest(x, F)] = Append(@, r)]
           Rec(f) == f = [t \in SUBSET {} |->
                            IF t = {} THEN ps ELSE Put1(f[t \ {Max(t)}], <<>>[Max(t)])]
<1>1. DOMAIN <<>> = {}
  OBVIOUS
<1>2. Spread(ps, F, <<>>) = (CHOOSE f : Rec(f))[{}]
  BY <1>1 DEF Spread, FoldLeft, MapThenFoldSet
<1>3. \E f : Rec(f)
  <2>1. PICK f : f = [t \in SUBSET {} |-> ps]
    OBVIOUS
  <2>2. \A t \in SUBSET {} : t = {}
    OBVIOUS
  <2>3. Rec(f)
    BY <2>1, <2>2
  <2> QED
    BY <2>3
<1>4. PICK f : f = (CHOOSE x : Rec(x)) /\ Rec(f)
  <2> HIDE DEF Rec
  <2> QED
    BY <1>3, Zenon
<1>5. f[{}] = ps
  BY <1>4
<1> HIDE DEF Rec
<1> QED
  BY <1>2, <1>4, <1>5

\* A selection of nobody is empty.
LEMMA OnlyNone == ASSUME NEW T, NEW s \in Seq(T) PROVE Only(s, {}) = <<>>
<1>1. Only(s, {}) \in Seq(T) /\ ToSet(Only(s, {})) = {}
  BY OnlyMembers
<1> QED
  BY <1>1, Members

\* Live is what the loop keeps of the pipes.
LEMMA KeptPipes ==
    ASSUME Shape
    PROVE  /\ [p \in PipeIds |-> Live(p)] \in [PipeIds -> Seq(Reqs)]
           /\ ApartIn([p \in PipeIds |-> Live(p)], PipeIds)
           /\ ListedIn([p \in PipeIds |-> Live(p)], PipeIds) = Running
<1> DEFINE base == [p \in PipeIds |-> Live(p)]
<1>1. \A p \in PipeIds : /\ base[p] \in Seq(Reqs) /\ NoRepeats(base[p])
                         /\ ToSet(base[p]) = ToSet(pipes[p]) \cap Running
  BY LiveIs DEF Shape
<1>2. base \in [PipeIds -> Seq(Reqs)]
  BY <1>1
<1> HIDE DEF base
<1>3. ApartIn(base, PipeIds)
  <2>1. \A p, q \in PipeIds : p # q => ToSet(pipes[p]) \cap ToSet(pipes[q]) = {}
    BY DEF Shape, Homes, ApartIn
  <2>2. \A p, q \in PipeIds : p # q => ToSet(base[p]) \cap ToSet(base[q]) = {}
    BY <1>1, <2>1
  <2> QED
    BY <1>1, <2>2 DEF ApartIn
<1>4. ListedIn(base, PipeIds) = Running
  <2>1. UNION {ToSet(pipes[p]) : p \in PipeIds} = Needed /\ Running \subseteq Needed
    BY DEF Shape, Homes, ListedIn, Needed, Running
  <2> QED
    BY <1>1, <2>1 DEF ListedIn
<1> QED
  BY <1>2, <1>3, <1>4 DEF base

\* A turn of the loop that only cleans up.
LEMMA QuietTurn ==
    ASSUME Shape, pc = "loop", pc' = "tick", UNCHANGED <<mode, depth, mem, phase, queue, raised>>,
           pipes' = [p \in PipeIds |-> Live(p)],
           status' = [r \in Reqs |-> IF status[r] = "finished" THEN "done" ELSE status[r]],
           table' = [r \in Reqs |-> IF status[r] = "finished" THEN Own(Junk) ELSE table[r]]
    PROVE  Shape'
<1>1. /\ Sizes' = Sizes /\ PipeIds' = PipeIds /\ Pipelined' = Pipelined
      /\ Refs' = Refs /\ Memory' = Memory /\ Launches' = Launches
  BY ModeFixed
<1>2. \A p \in PipeIds : /\ pipes'[p] = Live(p) /\ Live(p) \in Seq(Reqs) /\ NoRepeats(Live(p))
                         /\ ToSet(Live(p)) = ToSet(pipes[p]) \cap Running
  BY LiveIs DEF Shape
<1>3. Running' = Running /\ Needed' = Running
  BY DEF Running, Needed, Shape, Typed
<1>4. \A r \in Running : r \in Reqs /\ table'[r] = table[r] /\ status'[r] = status[r]
  BY DEF Running
<1>5. Typed'
  <2>1. table' \in [Reqs -> Refs]
    <3>1. Own(Junk) \in Refs
      BY ReqsAreNumbers, ViewsAreRefs
    <3> QED
      BY <3>1 DEF Shape, Typed
  <2>2. status' \in [Reqs -> {"new", "running", "finished", "done"}]
    BY DEF Shape, Typed
  <2>3. pipes' \in [PipeIds' -> Seq(Reqs)]
    BY <1>1, KeptPipes
  <2>4. /\ mode' \in Modes /\ depth' \in [Reqs -> Nat] /\ raised' \in BOOLEAN
        /\ pc' \in {"loop", "tick", "process"}
    BY DEF Shape, Typed
  <2>5. phase' \in [Sizes' -> 0 .. 1] /\ mem' \in Memory' /\ queue' \in Seq(Launches')
    BY <1>1 DEF Shape, Typed
  <2> QED
    BY <1>1, <2>1, <2>2, <2>3, <2>4, <2>5 DEF Typed
<1>6. Homes'
  <2>1. ApartIn(pipes', PipeIds) /\ ListedIn(pipes', PipeIds) = Running
    BY KeptPipes
  <2>2. \A r \in Reqs : status'[r] = "new" => depth'[r] = 0
    BY DEF Shape, Homes
  <2> QED
    BY <1>1, <1>3, <2>1, <2>2 DEF Homes
<1>7. Abreast'
  BY <1>1, <1>2, <1>3 DEF Shape, Abreast
<1>8. \A p \in PipeIds : Only(pipes'[p], Running') = Live(p)
  <2> SUFFICES ASSUME NEW p \in PipeIds PROVE Only(Live(p), Running) = Live(p)
    BY <1>2, <1>3
  <2>1. ToSet(Live(p)) \subseteq Running
    BY <1>2
  <2> QED
    BY <1>2, <2>1, OnlyAll
<1>9. Launched'
  <2> SUFFICES ASSUME NEW k \in 1 .. Len(queue)
               PROVE  /\ queue[k].reqs = Only(pipes'[queue[k].pid], Running') /\ queue[k].reqs # <<>>
                      /\ Len(queue[k].out) = Len(queue[k].reqs)
                      /\ OutPlaces(queue[k].out, queue[k].fused)
                      /\ queue[k].fused => OneBuffer(queue[k].out)
    BY <1>1 DEF Launched, OutPlaces, OneBuffer, Live
  <2>1. queue[k].pid \in PipeIds
    <3>1. queue[k] \in Launches
      BY DEF Shape, Typed
    <3> QED
      BY <3>1 DEF Launches
  <2> QED
    BY <1>8, <2>1 DEF Shape, Queued, Launched
<1>10. Queued'
  <2>1. OnePerPipe' /\ Serially'
    BY <1>1 DEF Shape, Queued, OnePerPipe, Serially
  <2>2. Settled'
    BY <1>1, <1>2, <1>3 DEF Settled
  <2> QED
    BY <1>9, <2>1, <2>2 DEF Queued
<1>11. Tidy'
  <2> SUFFICES ASSUME NEW p \in PipeIds PROVE InLine(table', Live(p), Running)
    BY <1>1, <1>2, <1>3 DEF Tidy
  <2>1. pipes[p] \in Seq(Reqs) /\ InLine(table, pipes[p], Running)
    BY DEF Shape, Typed, Tidy
  <2>2. InLine(table, Live(p), Running)
    BY <2>1, InLineOnly DEF Live
  <2> QED
    BY <1>4, <2>2 DEF InLine
<1>12. Located'
  <2> SUFFICES ASSUME NEW p \in PipeIds, NEW r \in ToSet(Live(p)) PROVE LiesFor(table'[r], p)
    BY <1>1, <1>2 DEF Located, LiesFor
  <2>1. r \in ToSet(pipes[p]) /\ table'[r] = table[r]
    BY <1>2, <1>4
  <2> QED
    BY <2>1 DEF Shape, Located
<1> QED
  BY <1>5, <1>6, <1>7, <1>10, <1>11, <1>12 DEF Shape

\* New requests in an engine that has none running.
NewWave(new) ==
    /\ new \in SUBSET {r \in Reqs : status[r] = "new"} /\ new # {} /\ Running = {} /\ FreePipes # {}
    /\ pipes' = Spread([p \in PipeIds |-> Live(p)], FreePipes, Only([i \in 1 .. N |-> i], new))
    /\ status' = [r \in Reqs |-> IF r \in new THEN "running"
                                 ELSE IF status[r] = "finished" THEN "done" ELSE status[r]]
    /\ table' = [r \in Reqs |-> IF r \in new THEN Own(<<r, 0>>)
                                ELSE IF status[r] = "finished" THEN Own(Junk) ELSE table[r]]
    /\ pc = "loop" /\ pc' = "tick"
    /\ UNCHANGED <<mode, depth, mem, phase, queue, raised>>

\* A wave starts with no launch out, in pipes that hold nobody else.
LEMMA NewWaveIs ==
    ASSUME Shape, NEW new, NewWave(new)
    PROVE  /\ queue = <<>> /\ new \subseteq Reqs
           /\ pipes' \in [PipeIds -> Seq(Reqs)]
           /\ ApartIn(pipes', PipeIds) /\ ListedIn(pipes', PipeIds) = new
           /\ Running' = new /\ Needed' = new
           /\ \A r \in new : status[r] = "new" /\ status'[r] = "running" /\ table'[r] = Own(<<r, 0>>)
                             /\ depth[r] = 0
<1>1. \A p \in PipeIds : Live(p) = <<>>
  <2> SUFFICES ASSUME NEW p \in PipeIds PROVE Live(p) = <<>>
    OBVIOUS
  <2>1. Live(p) \in Seq(Reqs) /\ ToSet(Live(p)) = {}
    BY LiveIs DEF Shape, NewWave
  <2> QED
    BY <2>1, Members
<1>2. queue = <<>>
  <2> SUFFICES ASSUME queue # <<>> PROVE FALSE
    OBVIOUS
  <2>1. queue \in Seq(Launches) /\ 1 \in 1 .. Len(queue)
    BY DEF Shape, Typed
  <2>2. queue[1] \in Launches
    BY <2>1
  <2>3. queue[1].pid \in PipeIds
    BY <2>2 DEF Launches
  <2> QED
    BY <1>1, <2>1, <2>3 DEF Shape, Queued, Launched
<1> DEFINE ids == [i \in 1 .. N |-> i]
           rs == Only(ids, new)
           base == [p \in PipeIds |-> Live(p)]
<1>3. new \subseteq Reqs /\ \A r \in new : status[r] = "new" /\ depth[r] = 0
  BY DEF NewWave, Shape, Homes
<1>4. ids \in Seq(Reqs) /\ NoRepeats(ids) /\ ToSet(ids) = Reqs
  <2>1. ids \in Seq(Reqs) /\ Len(ids) = N /\ NoRepeats(ids) /\ \A i \in 1 .. N : ids[i] = i
    BY ReqsAreNumbers DEF NoRepeats
  <2> HIDE DEF ids
  <2>2. ToSet(ids) = {ids[i] : i \in 1 .. N}
    BY <2>1, Members
  <2> QED
    BY <2>1, <2>2, ReqsAreNumbers
<1>5. rs \in Seq(Reqs) /\ NoRepeats(rs) /\ ToSet(rs) = new
  <2>1. rs = Only(ids, new)
    OBVIOUS
  <2> HIDE DEF ids, rs
  <2>2. Only(ids, new) \in Seq(Reqs) /\ NoRepeats(Only(ids, new)) /\ ToSet(Only(ids, new)) = Reqs \cap new
    BY <1>4, OnlyMembers
  <2> QED
    BY <1>3, <2>1, <2>2
<1> HIDE DEF rs, ids
<1>6. /\ base \in [PipeIds -> Seq(Reqs)] /\ ApartIn(base, PipeIds)
      /\ ListedIn(base, PipeIds) = {}
  BY KeptPipes DEF NewWave
<1> HIDE DEF base
<1>7. PipeIds \subseteq Int /\ IsFiniteSet(PipeIds) /\ FreePipes \subseteq PipeIds /\ FreePipes # {}
  BY PipesAreNumbered DEF Shape, Typed, FreePipes, NewWave
<1>8. pipes' = Spread(base, FreePipes, rs)
  BY DEF NewWave, base, rs, ids
<1>9. DealsIn(pipes', base, PipeIds, Reqs, FreePipes, rs)
  BY <1>5, <1>6, <1>7, <1>8, SpreadIn
<1>10. /\ pipes' \in [PipeIds -> Seq(Reqs)]
       /\ ApartIn(pipes', PipeIds) /\ ListedIn(pipes', PipeIds) = new
  BY <1>5, <1>6, <1>9 DEF DealsIn
<1>11. Running' = new /\ Needed' = new
  BY <1>3 DEF NewWave, Running, Needed, Shape, Typed
<1>12. \A r \in new : status'[r] = "running" /\ table'[r] = Own(<<r, 0>>)
  BY <1>3 DEF NewWave
<1> QED
  BY <1>2, <1>3, <1>10, <1>11, <1>12

\* A turn of the loop that starts a wave.
LEMMA WaveShape ==
    ASSUME Shape, NEW new, NewWave(new)
    PROVE  Shape'
<1>1. /\ queue = <<>> /\ new \subseteq Reqs
      /\ pipes' \in [PipeIds -> Seq(Reqs)]
      /\ ApartIn(pipes', PipeIds) /\ ListedIn(pipes', PipeIds) = new
      /\ Running' = new /\ Needed' = new
      /\ \A r \in new : status[r] = "new" /\ status'[r] = "running" /\ table'[r] = Own(<<r, 0>>)
                        /\ depth[r] = 0
  BY NewWaveIs
<1>2. /\ UNCHANGED <<mode, depth, mem, phase, queue, raised>> /\ pc = "loop" /\ pc' = "tick"
      /\ status' = [r \in Reqs |-> IF r \in new THEN "running"
                                   ELSE IF status[r] = "finished" THEN "done" ELSE status[r]]
      /\ table' = [r \in Reqs |-> IF r \in new THEN Own(<<r, 0>>)
                                  ELSE IF status[r] = "finished" THEN Own(Junk) ELSE table[r]]
  BY DEF NewWave
<1>3. /\ Sizes' = Sizes /\ PipeIds' = PipeIds /\ Pipelined' = Pipelined
      /\ Refs' = Refs /\ Memory' = Memory /\ Launches' = Launches
  BY <1>2, ModeFixed
<1>4. \A p \in PipeIds : pipes'[p] \in Seq(Reqs) /\ ToSet(pipes'[p]) \subseteq new
  BY <1>1 DEF ListedIn
<1>5. Typed'
  <2>1. table' \in [Reqs -> Refs]
    <3>1. Own(Junk) \in Refs /\ \A r \in Reqs : Own(<<r, 0>>) \in Refs
      BY ReqsAreNumbers, ViewsAreRefs
    <3> QED
      BY <1>2, <3>1 DEF Shape, Typed
  <2>2. status' \in [Reqs -> {"new", "running", "finished", "done"}]
    BY <1>2 DEF Shape, Typed
  <2>3. pipes' \in [PipeIds' -> Seq(Reqs)]
    BY <1>1, <1>3
  <2>4. /\ mode' \in Modes /\ depth' \in [Reqs -> Nat] /\ raised' \in BOOLEAN
        /\ pc' \in {"loop", "tick", "process"}
    BY <1>2 DEF Shape, Typed
  <2>5. phase' \in [Sizes' -> 0 .. 1] /\ mem' \in Memory' /\ queue' \in Seq(Launches')
    BY <1>2, <1>3 DEF Shape, Typed
  <2> QED
    BY <1>3, <2>1, <2>2, <2>3, <2>4, <2>5 DEF Typed
<1>6. Homes'
  <2>1. \A r \in Reqs : status'[r] = "new" => depth'[r] = 0
    BY <1>2 DEF Shape, Homes
  <2> QED
    BY <1>1, <1>3, <2>1 DEF Homes
<1>7. Abreast'
  BY <1>1, <1>2, <1>3, <1>4 DEF Abreast
<1>8. Queued'
  <2>1. Len(queue') = 0 /\ queue' = <<>>
    BY <1>1, <1>2
  <2>2. Launched' /\ OnePerPipe'
    BY <2>1 DEF Launched, OnePerPipe
  <2>3. Serially'
    BY <1>2, <2>1 DEF Serially
  <2>4. Settled'
    BY <1>1, <1>3, <1>4 DEF Settled
  <2> QED
    BY <2>2, <2>3, <2>4 DEF Queued
<1>9. \A p \in PipeIds : \A r \in ToSet(pipes'[p]) : table'[r].at = <<"own">>
  <2>1. \A v : Own(v).at = <<"own">>
    BY DEF Own
  <2> QED
    BY <1>1, <1>4, <2>1
<1>10. Tidy'
  <2> SUFFICES ASSUME NEW p \in PipeIds PROVE InLine(table', pipes'[p], Running')
    BY <1>3 DEF Tidy
  <2>1. \A i \in 1 .. Len(pipes'[p]) : table'[pipes'[p][i]].at = <<"own">>
    BY <1>4, <1>9, Members
  <2> QED
    BY <2>1 DEF InLine
<1>11. Located'
  BY <1>3, <1>9 DEF Located, LiesFor
<1> QED
  BY <1>5, <1>6, <1>7, <1>8, <1>10, <1>11 DEF Shape

\* Without mixed batches a turn of the loop only cleans up, or starts a wave.
LEMMA TurnIs ==
    ASSUME Shape, ~mode.mixed, LoopTurn
    PROVE  \/ \E new : NewWave(new)
           \/ /\ pc = "loop" /\ pc' = "tick" /\ UNCHANGED <<mode, depth, mem, phase, queue, raised>>
              /\ pipes' = [p \in PipeIds |-> Live(p)]
              /\ status' = [r \in Reqs |-> IF status[r] = "finished" THEN "done" ELSE status[r]]
              /\ table' = [r \in Reqs |-> IF status[r] = "finished" THEN Own(Junk) ELSE table[r]]
<1>1. PICK new \in SUBSET {r \in Reqs : status[r] = "new"} :
        /\ new # {} => (mode.mixed \/ Running = {}) /\ FreePipes # {}
        /\ pipes' = Spread([p \in PipeIds |-> Live(p)], FreePipes,
                           Only([i \in 1 .. Cardinality(Reqs) |-> i], new))
        /\ status' = [r \in Reqs |-> IF r \in new THEN "running"
                                     ELSE IF status[r] = "finished" THEN "done" ELSE status[r]]
        /\ table' = [r \in Reqs |-> IF r \in new THEN Own(<<r, 0>>)
                                    ELSE IF status[r] = "finished" THEN Own(Junk) ELSE table[r]]
  BY DEF LoopTurn
<1>2. pc = "loop" /\ pc' = "tick" /\ UNCHANGED <<mode, depth, mem, phase, queue, raised>>
  BY DEF LoopTurn
<1>3. CASE new # {}
  BY <1>1, <1>2, <1>3 DEF NewWave, N
<1>4. CASE new = {}
  <2>1. [i \in 1 .. N |-> i] \in Seq(Reqs)
    BY ReqsAreNumbers
  <2>2. Only([i \in 1 .. N |-> i], new) = <<>>
    BY <1>4, <2>1, OnlyNone
  <2>3. pipes' = [p \in PipeIds |-> Live(p)]
    BY <1>1, <2>2, SpreadNone DEF N
  <2> QED
    BY <1>1, <1>2, <1>4, <2>3
<1> QED
  BY <1>3, <1>4

\* A turn of the loop.
LEMMA TurnShape ==
    ASSUME Shape, ~mode.mixed, LoopTurn
    PROVE  Shape'
    BY TurnIs, WaveShape, QuietTurn

\* Every step keeps Shape.
LEMMA ShapeStep ==
    ASSUME Shape, ~mode.mixed, [Next]_vars
    PROVE  Shape' /\ mode' = mode
<1>1. CASE LoopTurn
  BY <1>1, TurnShape DEF LoopTurn
<1>2. CASE NoLaunch
  BY <1>2, NoLaunchShape DEF NoLaunch
<1>3. CASE Process
  BY <1>3, ProcessShape DEF Process
<1>4. ASSUME NEW p \in PipeIds, LaunchEager(p) PROVE Shape' /\ mode' = mode
  BY <1>4, EagerShape DEF LaunchEager
<1>5. ASSUME NEW p \in PipeIds, LaunchPlain(p) PROVE Shape' /\ mode' = mode
  BY <1>5, PlainShape DEF LaunchPlain
<1>6. ASSUME NEW p \in PipeIds, LaunchExpand(p) PROVE Shape' /\ mode' = mode
  BY <1>6, ExpandShape DEF LaunchExpand
<1>7. ASSUME NEW p \in PipeIds, PackRaises(p) PROVE Shape' /\ mode' = mode
  BY <1>7, RaiseShape DEF PackRaises
<1>8. CASE UNCHANGED vars
  <2>1. UNCHANGED <<mode, status, depth, pipes, table, mem, phase, queue, raised, pc>>
    BY <1>8 DEF vars
  <2>2. Queued'
    <3>1. Sizes' = Sizes /\ PipeIds' = PipeIds /\ Pipelined' = Pipelined /\ Running' = Running
      BY <2>1, ModeFixed DEF Running
    <3> QED
      BY <2>1, <3>1 DEF Shape, Queued, Launched, OnePerPipe, Serially, Settled, Inflight, Live,
                        OutPlaces, OneBuffer
  <2>3. /\ queue' \in Seq(Launches) /\ pc' \in {"loop", "tick", "process"} /\ raised' \in BOOLEAN
        /\ phase' \in [Sizes -> 0 .. 1] /\ mem' \in Memory /\ table' \in [Reqs -> Refs]
        /\ \A q \in PipeIds : InLine(table', pipes[q], Running)
        /\ \A q \in PipeIds : \A r \in ToSet(pipes[q]) : LiesFor(table'[r], q)
    BY <2>1 DEF Shape, Typed, Tidy, Located
  <2> QED
    BY <2>1, <2>2, <2>3, StayShape
<1> QED
  BY <1>1, <1>2, <1>3, <1>4, <1>5, <1>6, <1>7, <1>8 DEF Next

\* Without mixed batches: who is where, and what lies where.
Kept == mode \in Modes /\ (~mode.mixed => Shape)

\* No step changes the mode.
LEMMA ModeStays == [Next]_vars => mode' = mode
  BY DEF Next, vars, LoopTurn, NoLaunch, Process, LaunchEager, LaunchPlain, LaunchExpand, PackRaises

-----------------------------------------------------------------------------
(* Waves whose requests all need equally many steps. *)

\* The requests of a pipe run or have finished together, and the tables that lie
\* in a buffer lie there in the rows of their places in the pipe.
Even ==
    /\ ~raised
    /\ \A p \in PipeIds : \A r, q \in ToSet(pipes[p]) : status[r] = status[q]
    /\ \A p \in PipeIds : \A i \in 1 .. Len(pipes[p]) :
          pipes[p][i] \in Running =>
              table[pipes[p][i]].at = <<"own">> \/ table[pipes[p][i]].row = i

\* A pipe runs as a whole or not at all.
LEMMA AllOrNone ==
    ASSUME Shape, Even, NEW p \in PipeIds
    PROVE  Live(p) = <<>> \/ (Live(p) = pipes[p] /\ ToSet(pipes[p]) \subseteq Running)
<1>1. /\ pipes[p] \in Seq(Reqs) /\ NoRepeats(pipes[p])
      /\ ToSet(pipes[p]) \subseteq Reqs
  BY Members DEF Shape, Typed, Homes, ApartIn
<1>2. Live(p) \in Seq(Reqs) /\ ToSet(Live(p)) = ToSet(pipes[p]) \cap Running
  BY LiveIs DEF Shape
<1>3. CASE ToSet(pipes[p]) \cap Running = {}
  BY <1>2, <1>3, Members
<1>4. CASE ToSet(pipes[p]) \cap Running # {}
  <2>1. ToSet(pipes[p]) \subseteq Running
    BY <1>1, <1>4 DEF Even, Running
  <2> QED
    BY <1>1, <2>1, OnlyAll DEF Live
<1> QED
  BY <1>3, <1>4

\* So what a pack finds in its source plane is there already, in order.
LEMMA NeverOverlaps ==
    ASSUME Shape, Even, NEW p \in PipeIds, CanLaunch(p), NEW b \in Sizes
    PROVE  ~Overlaps(Ordered(p), Source(b))
<1>1. Ordered(p) = Live(p) /\ Live(p) # <<>>
  BY LaunchIs
<1>2. Live(p) = pipes[p] /\ ToSet(pipes[p]) \subseteq Running
  BY <1>1, AllOrNone
<1>3. PICK s : s = pipes[p]
  OBVIOUS
<1>4. /\ s \in Seq(Reqs) /\ InLine(table, s, Running) /\ ToSet(s) \subseteq Running
      /\ \A i \in 1 .. Len(s) : s[i] \in Running => table[s[i]].at = <<"own">> \/ table[s[i]].row = i
  BY <1>2, <1>3 DEF Shape, Typed, Tidy, Even
<1>5. PICK n \in Nat : n = Len(s) /\ DOMAIN s = 1 .. n
  BY <1>4
<1>6. \A i \in 1 .. n : s[i] \in Reqs /\ s[i] \in Running /\ table[s[i]] \in Refs
  BY <1>4, <1>5, Members DEF Shape, Typed
<1>7. Source(b) # <<"own">>
  BY PlacesApart DEF Source
<1>8. ASSUME NEW i \in 1 .. n, table[s[i]].at = Source(b)
      PROVE  Aligned(mem, table, s, Source(b))
  <2> SUFFICES ASSUME NEW j \in 1 .. n PROVE table[s[j]] = View(Source(b), j)
    BY <1>5 DEF Aligned
  <2>1. table[s[j]].at = Source(b)
    <3>1. i < j \/ i = j \/ j < i
      OBVIOUS
    <3> QED
      BY <1>4, <1>5, <1>6, <1>8, <3>1 DEF InLine
  <2>2. table[s[j]].row = j
    BY <1>4, <1>5, <1>6, <1>7, <2>1
  <2>3. PICK ref \in Refs : ref = table[s[j]]
    BY <1>6
  <2>4. ref = View(ref.at, ref.row)
    BY <1>7, <2>1, <2>3, RefCases
  <2> QED
    BY <2>1, <2>2, <2>3, <2>4
<1> QED
  BY <1>1, <1>2, <1>3, <1>5, <1>8 DEF Overlaps

\* Copying tables disturbs nothing.
LEMMA EvenStays ==
    ASSUME Shape, Even, UNCHANGED <<mode, status, pipes, raised>>,
           \A r \in Reqs : table'[r] = table[r] \/ table'[r].at = <<"own">>
    PROVE  Even'
<1>1. PipeIds' = PipeIds /\ Running' = Running
  BY ModeFixed DEF Running
<1>2. \A p \in PipeIds : \A i \in 1 .. Len(pipes[p]) : pipes[p][i] \in Reqs
  BY DEF Shape, Typed
<1> QED
  BY <1>1, <1>2 DEF Even

\* The requests of a launch finish together, and their tables end in the rows of their places.
LEMMA EvenProcess ==
    ASSUME Shape, Even, Steady, Process
    PROVE  Even'
<1>1. PICK pid, g, out, fused : Processes(pid, g, out, fused)
  BY ProcessIs
<1>2. UNCHANGED <<mode, pipes, raised>> /\ PipeIds' = PipeIds
  BY ModeFixed DEF Process
<1>3. /\ pid \in PipeIds /\ g = pipes[pid] /\ g \in Seq(Reqs) /\ ToSet(g) \subseteq Running
      /\ ToSet(g) \subseteq Reqs
  BY <1>1, Members DEF Processes
<1>4. \A q \in PipeIds : q # pid =>
        \A r \in ToSet(pipes[q]) : /\ table'[r] = table[r] /\ status'[r] = status[r]
                                   /\ r \in Running' <=> r \in Running
  BY <1>1, <1>2, OthersStay
<1>5. ASSUME NEW p \in PipeIds, NEW r \in ToSet(pipes[p]), NEW q \in ToSet(pipes[p])
      PROVE  status'[r] = status'[q]
  <2>1. status[r] = status[q]
    BY DEF Even
  <2>2. CASE p # pid
    BY <1>4, <2>1, <2>2
  <2>3. CASE p = pid
    <3>1. /\ r \in Reqs /\ q \in Reqs /\ r \in ToSet(g) /\ q \in ToSet(g)
          /\ r \in Running /\ q \in Running
      BY <1>3, <2>3
    <3>2. depth[r] = depth[q]
      BY <3>1 DEF Shape, Abreast
    <3>3. depth'[r] = depth[r] + 1 /\ depth'[q] = depth[q] + 1
      BY <1>1, <3>1 DEF Processes
    <3>4. mode.gen[r] = mode.gen[q]
      BY <3>1 DEF Steady
    <3>5. /\ status'[r] = IF depth'[r] >= mode.gen[r] THEN "finished" ELSE status[r]
          /\ status'[q] = IF depth'[q] >= mode.gen[q] THEN "finished" ELSE status[q]
      BY <1>1, <3>1 DEF Processes
    <3> QED
      BY <2>1, <3>2, <3>3, <3>4, <3>5
  <2> QED
    BY <2>2, <2>3
<1>6. ASSUME NEW p \in PipeIds, NEW i \in 1 .. Len(pipes[p]), pipes[p][i] \in Running'
      PROVE  table'[pipes[p][i]].at = <<"own">> \/ table'[pipes[p][i]].row = i
  <2>1. CASE p # pid
    <3>1. pipes[p][i] \in ToSet(pipes[p])
      <4>1. pipes[p] \in Seq(Reqs)
        BY DEF Shape, Typed
      <4> QED
        BY <4>1, Members
    <3>2. table'[pipes[p][i]] = table[pipes[p][i]] /\ pipes[p][i] \in Running
      BY <1>4, <1>6, <2>1, <3>1
    <3> QED
      BY <3>2 DEF Even
  <2>2. CASE p = pid
    <3>1. i \in 1 .. Len(g) /\ pipes[p][i] = g[i]
      BY <1>3, <2>2
    <3>2. CASE fused
      <4>1. OneBuffer(out) /\ Len(out) = Len(g) /\ table'[g[i]] = out[i]
        BY <1>1, <3>1, <3>2 DEF Processes
      <4> QED
        BY <3>1, <4>1 DEF OneBuffer
    <3>3. CASE ~fused
      <4>1. \/ table'[g[i]].at = <<"own">>
            \/ \E k \in 0 .. 1 : table'[g[i]] = View(Workspace(pid, k), i)
        BY <1>1, <3>1, <3>3 DEF Processes, GroupExpanded
      <4> QED
        BY <3>1, <4>1 DEF View
    <3> QED
      BY <3>2, <3>3
  <2> QED
    BY <2>1, <2>2
<1> QED
  BY <1>2, <1>5, <1>6 DEF Even

\* A pipe is kept as a whole or emptied, and a new one has tables of its own.
LEMMA EvenTurn ==
    ASSUME Shape, Even, ~mode.mixed, LoopTurn
    PROVE  Even'
<1>1. PipeIds' = PipeIds /\ raised' = raised /\ ~raised
  BY ModeFixed DEF LoopTurn
<1>2. ASSUME NEW new, NewWave(new) PROVE Even'
  <2>1. /\ pipes' \in [PipeIds -> Seq(Reqs)] /\ ListedIn(pipes', PipeIds) = new
        /\ \A r \in new : status'[r] = "running" /\ table'[r] = Own(<<r, 0>>)
    BY <1>2, NewWaveIs
  <2>2. \A p \in PipeIds : ToSet(pipes'[p]) \subseteq new /\ pipes'[p] \in Seq(Reqs)
    BY <2>1 DEF ListedIn
  <2>3. \A p \in PipeIds : \A i \in 1 .. Len(pipes'[p]) : pipes'[p][i] \in new
    BY <2>2, Members
  <2>4. \A v : Own(v).at = <<"own">>
    BY DEF Own
  <2>5. \A p \in PipeIds : \A r, q \in ToSet(pipes'[p]) : status'[r] = status'[q]
    BY <2>1, <2>2
  <2>6. \A p \in PipeIds : \A i \in 1 .. Len(pipes'[p]) : table'[pipes'[p][i]].at = <<"own">>
    BY <2>1, <2>3, <2>4
  <2> QED
    BY <1>1, <2>5, <2>6 DEF Even
<1>3. ASSUME pipes' = [p \in PipeIds |-> Live(p)],
             status' = [r \in Reqs |-> IF status[r] = "finished" THEN "done" ELSE status[r]],
             table' = [r \in Reqs |-> IF status[r] = "finished" THEN Own(Junk) ELSE table[r]]
      PROVE  Even'
  <2>1. \A r \in Running : r \in Reqs /\ status'[r] = "running" /\ table'[r] = table[r]
    BY <1>3 DEF Running
  <2>2. ASSUME NEW p \in PipeIds
        PROVE  \/ /\ pipes'[p] = pipes[p] /\ ToSet(pipes[p]) \subseteq Running
                  /\ \A i \in 1 .. Len(pipes[p]) : pipes[p][i] \in Running
               \/ pipes'[p] = <<>> /\ Len(pipes'[p]) = 0 /\ ToSet(pipes'[p]) = {}
    <3>1. CASE Live(p) = <<>>
      <4>1. Len(<<>>) = 0 /\ ToSet(<<>>) = {}
        BY DEF ToSet
      <4> QED
        BY <1>3, <3>1, <4>1
    <3>2. CASE Live(p) = pipes[p] /\ ToSet(pipes[p]) \subseteq Running
      <4>1. pipes[p] \in Seq(Reqs)
        BY DEF Shape, Typed
      <4>2. \A i \in 1 .. Len(pipes[p]) : pipes[p][i] \in Running
        BY <3>2, <4>1, Members
      <4> QED
        BY <1>3, <3>2, <4>2
    <3> QED
      BY <3>1, <3>2, AllOrNone
  <2>3. ASSUME NEW p \in PipeIds
        PROVE  \A r, q \in ToSet(pipes'[p]) : status'[r] = status'[q]
    BY <2>1, <2>2
  <2>4. ASSUME NEW p \in PipeIds, NEW i \in 1 .. Len(pipes'[p])
        PROVE  table'[pipes'[p][i]].at = <<"own">> \/ table'[pipes'[p][i]].row = i
    <3>1. pipes'[p] = pipes[p] /\ pipes[p][i] \in Running
      BY <2>2, <2>4
    <3>2. i \in 1 .. Len(pipes[p])
      BY <3>1
    <3> QED
      BY <2>1, <3>1, <3>2 DEF Even
  <2> QED
    BY <1>1, <2>3, <2>4 DEF Even
<1> QED
  BY <1>2, <1>3, TurnIs

\* Every step of a steady mode keeps Even; none raises.
LEMMA EvenStep ==
    ASSUME Shape, Even, Steady, [Next]_vars
    PROVE  Even'
<1>1. ~mode.mixed
  BY DEF Steady
<1>2. CASE LoopTurn
  BY <1>1, <1>2, EvenTurn
<1>3. CASE NoLaunch
  BY <1>3, EvenStays DEF NoLaunch
<1>4. CASE Process
  BY <1>4, EvenProcess
<1>5. ASSUME NEW p \in PipeIds, LaunchEager(p) PROVE Even'
  BY <1>5, EvenStays DEF LaunchEager
<1>6. ASSUME NEW p \in PipeIds, LaunchPlain(p) PROVE Even'
  BY <1>6, EvenStays DEF LaunchPlain
<1>7. ASSUME NEW p \in PipeIds, LaunchExpand(p) PROVE Even'
  <2>1. PICK b, n, v, out : Replays(p, b, n, v, out)
    BY <1>7, ReplayExpands
  <2>2. table' = Detached(Live(p), Target(b)) /\ UNCHANGED <<mode, status, pipes, raised>>
    BY <1>7, <2>1 DEF Replays, LaunchExpand
  <2>3. Live(p) \in Seq(Reqs)
    BY LiveIs DEF Shape
  <2>4. \A v1 : Own(v1).at = <<"own">>
    BY DEF Own
  <2>5. \A r \in Reqs : table'[r] = table[r] \/ table'[r].at = <<"own">>
    BY <2>2, <2>3, <2>4, DetachedIs DEF Shape
  <2> QED
    BY <2>2, <2>5, EvenStays
<1>8. ASSUME NEW p \in PipeIds, PackRaises(p) PROVE FALSE
  <2>1. /\ CanLaunch(p) /\ Bucket(NRows(p)) # 0
        /\ Overlaps(Ordered(p), Source(Bucket(NRows(p))))
    BY <1>8 DEF PackRaises, WantsExpand
  <2>2. NRows(p) \in Nat /\ mode \in Modes
    BY <2>1, LaunchIs DEF Shape, Typed
  <2>3. Bucket(NRows(p)) \in Sizes
    BY <2>1, <2>2, BucketIs
  <2> QED
    BY <2>1, <2>3, NeverOverlaps
<1>9. CASE UNCHANGED vars
  BY <1>9, EvenStays DEF vars
<1> QED
  BY <1>2, <1>3, <1>4, <1>5, <1>6, <1>7, <1>8, <1>9 DEF Next

\* Nothing has run yet.
LEMMA EvenInit == Init => Even
<1> SUFFICES ASSUME Init PROVE Even
  OBVIOUS
<1>1. \A p \in PipeIds : pipes[p] = <<>> /\ ToSet(pipes[p]) = {}
  BY DEF Init, ToSet
<1>2. \A p \in PipeIds : Len(pipes[p]) = 0
  BY <1>1
<1> QED
  BY <1>1, <1>2 DEF Even, Init

\* Without mixed batches the pipes, the launches and the tables are in order.
THEOREM InOrderAlways == Spec => [](~mode.mixed => Shape)
<1>1. Init => Kept
  BY ShapeInit DEF Kept, Init
<1>2. Kept /\ [Next]_vars => Kept'
  BY ShapeStep, ModeStays DEF Kept
<1>3. Kept => (~mode.mixed => Shape)
  BY DEF Kept
<1> QED
  BY <1>1, <1>2, <1>3, PTL DEF Spec

EvenKept == Kept /\ (Steady => Even)

\* As long as the requests of a wave start and end together, no pack writes over
\* the rows it reads, whatever the pipes, sizes and planes.
THEOREM PacksAlwaysClean == Spec => []PacksCleanly
<1>1. Init => EvenKept
  BY ShapeInit, EvenInit DEF EvenKept, Kept, Init
<1>2. EvenKept /\ [Next]_vars => EvenKept'
  <2> SUFFICES ASSUME EvenKept, [Next]_vars PROVE EvenKept'
    OBVIOUS
  <2>1. mode' = mode /\ Steady' = Steady
    BY ModeStays DEF Steady
  <2>2. Kept'
    BY ShapeStep, <2>1 DEF EvenKept, Kept
  <2>3. Steady => Even'
    BY EvenStep DEF EvenKept, Kept, Steady
  <2> QED
    BY <2>1, <2>2, <2>3 DEF EvenKept
<1>3. EvenKept => PacksCleanly
  BY DEF EvenKept, PacksCleanly, Even
<1> QED
  BY <1>1, <1>2, <1>3, PTL DEF Spec

-----------------------------------------------------------------------------
(* What the tables and the waiting results say. *)

\* With two pipes, what waits has to be a copy: a head whose logprobs are cloned,
\* and no planes of two rows or more (of which views are handed on).
Cloning ==
    /\ ~mode.mixed
    /\ ~Pipelined \/ (mode.head = "full" /\ \A b \in Sizes : PingPong(b) => b < 2)

\* A launch whose result is still its own, m being what the buffers hold and d the
\* steps the requests went through.
LaunchOwn(m, d, q) ==
    \A i \in 1 .. Len(q.reqs) :
        Deref(m, q.out[i]) = <<q.reqs[i], IF q.fused THEN d[q.reqs[i]] + 1 ELSE d[q.reqs[i]]>>

\* A result that waits is a copy, or a view with the pipeline off.
WaitsIn(q, ph) ==
    \A i \in 1 .. Len(q.out) :
        \/ q.out[i].at = <<"own">>
        \/ ~Pipelined /\ q.fused /\ \E b \in Sizes : PingPong(b) /\ q.out[i].at = Plane(b, ph[b])
        \/ ~Pipelined /\ ~q.fused /\ \E b \in Sizes : q.out[i].at = Hidden(b)

ResultsFine == \A k \in 1 .. Len(queue) : LaunchOwn(mem, depth, queue[k])
Waiting == \A k \in 1 .. Len(queue) : WaitsIn(queue[k], phase)

\* Tables lie in a plane only with the pipeline off, and between two launches in
\* the plane that the next replay reads.
PlanesHeld ==
    \A r \in Needed : \A b \in Sizes, k \in 0 .. 1 :
        table[r].at = Plane(b, k) =>
            /\ ~Pipelined /\ PingPong(b)
            /\ pc # "process" => k = phase[b]

TablesFine == \A r \in Needed : Deref(mem, table[r]) = <<r, depth[r]>>

Content == TablesFine /\ ResultsFine /\ PlanesHeld /\ Waiting

\* The two halves of Content are the properties of the model.
LEMMA FineIsOwn == Typed => (ResultsFine => ResultsOwn) /\ (TablesFine <=> TablesOwn)
<1> SUFFICES ASSUME Typed PROVE (ResultsFine => ResultsOwn) /\ (TablesFine <=> TablesOwn)
  OBVIOUS
<1>1. ASSUME ResultsFine PROVE ResultsOwn
  <2>1. DOMAIN queue = 1 .. Len(queue)
    BY DEF Typed
  <2>2. \A k \in 1 .. Len(queue) : DOMAIN queue[k].reqs = 1 .. Len(queue[k].reqs)
    BY DEF Typed, Launches
  <2> QED
    BY <1>1, <2>1, <2>2 DEF ResultsFine, LaunchOwn, ResultsOwn
<1>2. TablesFine <=> TablesOwn
  BY DEF TablesFine, TablesOwn, Needed
<1> QED
  BY <1>1, <1>2

\* Who needs tables is in some pipe.
LEMMA NeededIs ==
    ASSUME Shape, NEW r \in Needed
    PROVE  /\ r \in Reqs /\ \E q \in PipeIds : r \in ToSet(pipes[q]) /\ LiesFor(table[r], q)
           /\ table[r] \in Refs
<1>1. r \in Reqs /\ r \in ListedIn(pipes, PipeIds)
  BY DEF Needed, Shape, Homes
<1>2. PICK q \in PipeIds : r \in ToSet(pipes[q])
  BY <1>1 DEF ListedIn
<1>3. LiesFor(table[r], q)
  BY <1>2 DEF Shape, Located
<1> QED
  BY <1>1, <1>2, <1>3 DEF Shape, Typed

\* With the pipeline off there is one pipe.
LEMMA OnePipe == ~Pipelined => PipeIds = {0}
  BY DEF PipeIds

\* A copy does not depend on the buffers.
LEMMA CopyStays == \A ref, m, w : ref.at = <<"own">> => Deref(m, ref) = Deref(w, ref)
  BY DEF Deref

\* What a launch adds to the queue, and what was in it.
LEMMA EnqueueContent ==
    ASSUME Shape, Content, NEW p \in PipeIds, CanLaunch(p),
           NEW out \in Seq(Refs), Len(out) = Len(Live(p)), NEW fused \in BOOLEAN,
           Enqueue(p, Ordered(p), out, fused), UNCHANGED <<mode, status, depth, pipes>>,
           LaunchOwn(mem', depth, [pid |-> p, reqs |-> Live(p), out |-> out, fused |-> fused]),
           WaitsIn([pid |-> p, reqs |-> Live(p), out |-> out, fused |-> fused], phase')
    PROVE  ResultsFine' /\ Waiting'
<1> DEFINE new == [pid |-> p, reqs |-> Live(p), out |-> out, fused |-> fused]
<1>1. Live(p) # <<>> /\ pc = "tick" /\ Ordered(p) = Live(p) /\ Live(p) \in Seq(Reqs)
  BY LaunchIs DEF CanLaunch
<1>2. new \in Launches /\ queue \in Seq(Launches) /\ queue' = Append(queue, new)
  BY <1>1 DEF Launches, Enqueue, Shape, Typed
<1>3. LaunchOwn(mem', depth, new) /\ WaitsIn(new, phase')
  OBVIOUS
<1> HIDE DEF new
<1>4. PICK n \in Nat : n = Len(queue)
  BY <1>2
<1>5. /\ Len(queue') = n + 1 /\ queue'[n + 1] = new
      /\ \A k \in 1 .. n : queue'[k] = queue[k]
  BY <1>2, <1>4, AppendPositions
<1>6. Sizes' = Sizes /\ Pipelined' = Pipelined
  BY ModeFixed
<1>7. ASSUME NEW k \in 1 .. n
      PROVE  LaunchOwn(mem', depth, queue[k]) /\ WaitsIn(queue[k], phase')
  <2>1. Pipelined
    <3>1. queue # <<>>
      BY <1>4, <1>7
    <3> QED
      BY <1>1, <3>1 DEF Shape, Queued, Serially
  <2>2. PICK q : q = queue[k]
    OBVIOUS
  <2>3. LaunchOwn(mem, depth, q) /\ WaitsIn(q, phase) /\ Len(q.out) = Len(q.reqs)
    BY <1>4, <2>2 DEF Content, ResultsFine, Waiting, Shape, Queued, Launched
  <2>4. \A i \in 1 .. Len(q.out) : q.out[i].at = <<"own">>
    BY <2>1, <2>3 DEF WaitsIn
  <2>5. LaunchOwn(mem', depth, q)
    <3> SUFFICES ASSUME NEW i \in 1 .. Len(q.reqs)
                 PROVE  Deref(mem', q.out[i]) = <<q.reqs[i], IF q.fused THEN depth[q.reqs[i]] + 1
                                                             ELSE depth[q.reqs[i]]>>
      BY DEF LaunchOwn
    <3>1. Deref(mem', q.out[i]) = Deref(mem, q.out[i])
      BY <2>3, <2>4, CopyStays
    <3> QED
      BY <2>3, <3>1 DEF LaunchOwn
  <2>6. WaitsIn(q, phase')
    BY <2>4 DEF WaitsIn
  <2> QED
    BY <2>2, <2>5, <2>6
<1>8. ASSUME NEW k \in 1 .. n + 1
      PROVE  LaunchOwn(mem', depth, queue'[k]) /\ WaitsIn(queue'[k], phase')
  <2>1. CASE k = n + 1
    BY <1>3, <1>5, <2>1
  <2>2. CASE k # n + 1
    <3>1. k \in 1 .. n
      BY <2>2
    <3> QED
      BY <1>5, <1>7, <3>1
  <2> QED
    BY <2>1, <2>2
<1>9. ResultsFine'
  BY <1>5, <1>8 DEF ResultsFine, LaunchOwn
<1>10. Waiting'
  BY <1>5, <1>6, <1>8 DEF Waiting, WaitsIn, PingPong
<1> QED
  BY <1>9, <1>10

\* An eager launch hands on copies of the tables.
LEMMA EagerContent ==
    ASSUME Shape, Content, Cloning, NEW p \in PipeIds, LaunchEager(p)
    PROVE  Content'
<1> DEFINE v == Results(Live(p))
           out == Copies(v)
           new == [pid |-> p, reqs |-> Live(p), out |-> out, fused |-> FALSE]
<1>1. CanLaunch(p) /\ UNCHANGED <<mode, status, depth, pipes, table, mem, phase>>
  BY DEF LaunchEager
<1>2. /\ Ordered(p) = Live(p) /\ Live(p) \in Seq(Reqs)
      /\ ToSet(Live(p)) = ToSet(pipes[p]) \cap Running /\ NRows(p) = Len(Live(p)) /\ NRows(p) \in Nat
      /\ v \in Seq(States) /\ Len(v) = NRows(p)
      /\ \A i \in 1 .. NRows(p) : v[i] = Deref(mem, table[Live(p)[i]])
  BY <1>1, LaunchIs
<1>3. Enqueue(p, Ordered(p), out, FALSE)
  BY <1>2 DEF LaunchEager
<1>4. \A i \in 1 .. NRows(p) : Live(p)[i] \in Needed
  <2>1. \A i \in 1 .. NRows(p) : Live(p)[i] \in Running
    BY <1>2, Members
  <2> QED
    BY <2>1 DEF Running, Needed
<1> HIDE DEF v
<1>5. /\ out \in Seq(Refs) /\ Len(out) = Len(Live(p))
      /\ \A i \in 1 .. NRows(p) : out[i].at = <<"own">> /\ \A m : Deref(m, out[i]) = v[i]
  BY <1>2, CopiesAre
<1> HIDE DEF out
<1>6. LaunchOwn(mem', depth, new)
  <2> SUFFICES ASSUME NEW i \in 1 .. NRows(p)
               PROVE  Deref(mem', out[i]) = <<Live(p)[i], depth[Live(p)[i]]>>
    BY <1>2 DEF LaunchOwn
  <2>1. Deref(mem', out[i]) = Deref(mem, table[Live(p)[i]])
    BY <1>2, <1>5
  <2> QED
    BY <1>4, <2>1 DEF Content, TablesFine
<1>7. WaitsIn(new, phase')
  BY <1>2, <1>5 DEF WaitsIn
<1>8. ResultsFine' /\ Waiting'
  BY <1>1, <1>3, <1>5, <1>6, <1>7, EnqueueContent
<1>9. Sizes' = Sizes /\ Pipelined' = Pipelined /\ Needed' = Needed
  BY <1>1, ModeFixed DEF Needed
<1>10. TablesFine'
  BY <1>1, <1>9 DEF Content, TablesFine
<1>11. PlanesHeld'
  <2>1. pc = "tick" /\ pc # "process"
    BY <1>1 DEF CanLaunch
  <2> QED
    BY <1>1, <1>9, <2>1 DEF Content, PlanesHeld, PingPong
<1> QED
  BY <1>8, <1>10, <1>11 DEF Content

\* Tables that lie in no buffer written to stay.
LEMMA TableStays ==
    ASSUME Shape, NEW r \in Needed, NEW m, \A y \in Places : y = table[r].at => m[y] = mem[y]
    PROVE  Deref(m, table[r]) = Deref(mem, table[r])
<1>1. table[r] \in Refs
  BY NeededIs
<1>2. PICK ref \in Refs : ref = table[r]
  BY <1>1
<1>3. CASE ref.at = <<"own">>
  BY <1>2, <1>3, CopyStays
<1>4. CASE ref.at # <<"own">>
  <2>1. ref.at \in Places /\ Deref(m, ref) = m[ref.at][ref.row] /\ Deref(mem, ref) = mem[ref.at][ref.row]
    BY <1>4, RefCases
  <2> QED
    BY <1>2, <2>1
<1> QED
  BY <1>3, <1>4

\* A replay without an expand writes the output of its size only.
LEMMA PlainContent ==
    ASSUME Shape, Content, Cloning, NEW p \in PipeIds, LaunchPlain(p)
    PROVE  Content'
<1> DEFINE v == Results(Live(p))
           b == Bucket(NRows(p))
           out == Output(b, v)
           new == [pid |-> p, reqs |-> Live(p), out |-> out, fused |-> FALSE]
<1>1. CanLaunch(p) /\ UNCHANGED <<mode, status, depth, pipes, table, phase>>
  BY DEF LaunchPlain
<1>2. /\ Ordered(p) = Live(p) /\ Live(p) \in Seq(Reqs)
      /\ ToSet(Live(p)) = ToSet(pipes[p]) \cap Running
      /\ NRows(p) = Len(Live(p)) /\ NRows(p) \in Nat /\ NRows(p) <= N
      /\ v \in Seq(States) /\ Len(v) = NRows(p)
      /\ \A i \in 1 .. NRows(p) : v[i] = Deref(mem, table[Live(p)[i]])
  BY <1>1, LaunchIs
<1>3. Enqueue(p, Ordered(p), out, FALSE)
  BY <1>2 DEF LaunchPlain
<1>4. \A i \in 1 .. NRows(p) : Live(p)[i] \in Needed
  <2>1. \A i \in 1 .. NRows(p) : Live(p)[i] \in Running
    BY <1>2, Members
  <2> QED
    BY <2>1 DEF Running, Needed
<1>5. /\ b \in Sizes
      /\ \A y \in Places : y # Hidden(b) => mem'[y] = mem[y]
      /\ \A i \in 1 .. NRows(p) : mem'[Hidden(b)][i] = Deref(mem, table[Live(p)[i]])
  BY PlainShape
<1>6. Hidden(b) \in Places
  BY <1>5 DEF Places
<1> HIDE DEF v, b
<1>7. /\ out \in Seq(Refs) /\ Len(out) = Len(Live(p))
      /\ \A i \in 1 .. NRows(p) : Deref(mem', out[i]) = Deref(mem, table[Live(p)[i]])
      /\ \/ \A i \in 1 .. NRows(p) : out[i].at = <<"own">>
         \/ ~Pipelined /\ \A i \in 1 .. NRows(p) : out[i].at = Hidden(b)
  <2>1. CASE mode.head = "codebook"
    <3>1. out = Views(Hidden(b), NRows(p))
      BY <1>2, <2>1 DEF Output
    <3>2. ~Pipelined
      BY <2>1 DEF Cloning
    <3> HIDE DEF out
    <3>3. /\ out \in Seq(Refs) /\ Len(out) = NRows(p)
          /\ \A i \in 1 .. NRows(p) : out[i].at = Hidden(b)
          /\ \A i \in 1 .. NRows(p) : \A m : Deref(m, out[i]) = m[Hidden(b)][i]
      BY <1>2, <1>6, <3>1, ViewsAre
    <3>4. \A i \in 1 .. NRows(p) : Deref(mem', out[i]) = mem'[Hidden(b)][i]
      BY <3>3
    <3> QED
      BY <1>2, <1>5, <3>2, <3>3, <3>4
  <2>2. CASE mode.head # "codebook"
    <3>1. out = Copies(v)
      BY <2>2 DEF Output
    <3> HIDE DEF out
    <3>2. /\ out \in Seq(Refs) /\ Len(out) = NRows(p)
          /\ \A i \in 1 .. NRows(p) : out[i].at = <<"own">>
          /\ \A i \in 1 .. NRows(p) : \A m : Deref(m, out[i]) = v[i]
      BY <1>2, <3>1, CopiesAre
    <3>3. \A i \in 1 .. NRows(p) : Deref(mem', out[i]) = v[i]
      BY <3>2
    <3> QED
      BY <1>2, <3>2, <3>3
  <2> QED
    BY <2>1, <2>2
<1> HIDE DEF out
<1>8. LaunchOwn(mem', depth, new)
  <2> SUFFICES ASSUME NEW i \in 1 .. NRows(p)
               PROVE  Deref(mem', out[i]) = <<Live(p)[i], depth[Live(p)[i]]>>
    BY <1>2 DEF LaunchOwn
  <2> QED
    BY <1>4, <1>7 DEF Content, TablesFine
<1>9. WaitsIn(new, phase')
  <2>1. Len(new.out) = NRows(p) /\ new.out = out /\ new.fused = FALSE
    BY <1>2, <1>7
  <2> HIDE DEF new
  <2> QED
    BY <1>5, <1>7, <2>1 DEF WaitsIn
<1>10. ResultsFine' /\ Waiting'
  BY <1>1, <1>3, <1>7, <1>8, <1>9, EnqueueContent
<1>11. Sizes' = Sizes /\ Pipelined' = Pipelined /\ Needed' = Needed
  BY <1>1, ModeFixed DEF Needed
<1>12. TablesFine'
  <2> SUFFICES ASSUME NEW r \in Needed PROVE Deref(mem', table[r]) = <<r, depth[r]>>
    BY <1>1, <1>11 DEF TablesFine
  <2>1. PICK q \in PipeIds : LiesFor(table[r], q)
    BY NeededIs
  <2>2. table[r].at # Hidden(b)
    BY <2>1, PlacesApart DEF LiesFor
  <2>3. Deref(mem', table[r]) = Deref(mem, table[r])
    BY <1>5, <2>2, TableStays
  <2> QED
    BY <2>3 DEF Content, TablesFine
<1>13. PlanesHeld'
  <2>1. pc = "tick" /\ pc # "process"
    BY <1>1 DEF CanLaunch
  <2> QED
    BY <1>1, <1>11, <2>1 DEF Content, PlanesHeld, PingPong
<1> QED
  BY <1>10, <1>12, <1>13 DEF Content

\* A pack writes tables that lie in the source plane to where they are.
LEMMA PackedInPlace ==
    ASSUME Shape, Content, NEW p \in PipeIds, LaunchExpand(p),
           NEW b, NEW n, NEW v, NEW out, Replays(p, b, n, v, out),
           ~Pipelined, NEW r \in Needed, table[r].at = Source(b)
    PROVE  mem'[Source(b)][table[r].row] = mem[Source(b)][table[r].row]
<1>1. CanLaunch(p) /\ Ordered(p) = Live(p) /\ ~Overlaps(Ordered(p), Source(b))
  <2>1. CanLaunch(p) /\ ~Overlaps(Ordered(p), Source(Bucket(NRows(p))))
    BY DEF LaunchExpand
  <2> QED
    BY <2>1, LaunchIs DEF Replays
<1>2. /\ n = Len(Live(p)) /\ n \in Nat /\ n <= N /\ Live(p) \in Seq(Reqs) /\ b \in Sizes
      /\ \A j \in 1 .. N : mem'[Source(b)][j] = IF j <= n THEN v[j] ELSE mem[Source(b)][j]
      /\ \A i \in 1 .. n : v[i] = Deref(mem, table[Live(p)[i]])
  BY <1>1, LaunchIs DEF Replays
<1>3. Source(b) \in Places /\ Source(b) # <<"own">>
  BY <1>2, PlanesOf, PlacesApart DEF Shape, Source
<1>4. table[r] \in Refs
  BY NeededIs
<1>5. table[r].row \in 1 .. N
  BY <1>3, <1>4, RefCases
<1>6. ToSet(pipes[p]) \subseteq Running /\ pipes[p] \in Seq(Reqs) /\ NoRepeats(pipes[p])
  BY <1>1 DEF CanLaunch, Shape, Queued, Settled, Typed, Homes, ApartIn
<1>7. Live(p) = pipes[p]
  BY <1>6, OnlyAll DEF Live
<1>8. PICK i \in 1 .. n : r = Live(p)[i]
  <2>1. r \in ToSet(pipes[p])
    BY NeededIs, OnePipe
  <2> QED
    BY <1>2, <1>7, <2>1, Members
<1>9. CASE table[r].row > n
  BY <1>2, <1>5, <1>9, ReqsAreNumbers
<1>10. CASE table[r].row <= n
  <2>1. Aligned(mem, table, Live(p), Source(b))
    <3>1. DOMAIN Live(p) = 1 .. n
      BY <1>2
    <3> QED
      BY <1>1, <1>2, <1>8, <1>10, <3>1 DEF Overlaps
  <2>2. PICK j \in 1 .. n : j = table[r].row
    BY <1>2, <1>5, <1>10, ReqsAreNumbers
  <2>3. table[Live(p)[j]] = View(Source(b), j)
    <3>1. DOMAIN Live(p) = 1 .. n
      BY <1>2
    <3> QED
      BY <2>1, <3>1 DEF Aligned
  <2>4. j \in 1 .. N
    BY <1>5, <2>2
  <2>5. v[j] = mem[Source(b)][j]
    BY <1>2, <1>3, <2>3, <2>4, ViewsAreRefs
  <2>6. mem'[Source(b)][j] = v[j]
    BY <1>2, <2>4
  <2> QED
    BY <2>2, <2>5, <2>6
<1> QED
  BY <1>2, <1>5, <1>9, <1>10, ReqsAreNumbers

\* A replay with an expand keeps everybody's tables.
LEMMA ExpandTables ==
    ASSUME Shape, Content, Cloning, NEW p \in PipeIds, LaunchExpand(p),
           NEW b, NEW n, NEW v, NEW out, Replays(p, b, n, v, out), NEW r \in Needed
    PROVE  Deref(mem', table'[r]) = <<r, depth[r]>>
<1>1. CanLaunch(p) /\ pc = "tick"
  BY DEF LaunchExpand, CanLaunch
<1>2. /\ b \in Sizes /\ table' = Detached(Live(p), Target(b)) /\ Live(p) \in Seq(Reqs)
      /\ \A y \in Places : y # Source(b) /\ y # Target(b) => mem'[y] = mem[y]
  BY <1>1, LaunchIs DEF Replays
<1>3. r \in Reqs /\ table[r] \in Refs /\ \E q \in PipeIds : LiesFor(table[r], q)
  BY NeededIs
<1>4. Deref(mem, table[r]) = <<r, depth[r]>>
  BY DEF Content, TablesFine
<1>5. /\ Deref(mem, table'[r]) = Deref(mem, table[r])
      /\ table'[r] # table[r] => table'[r].at = <<"own">>
  <2>1. \A x : Own(x).at = <<"own">>
    BY DEF Own
  <2> QED
    BY <1>2, <1>3, <2>1, DetachedIs DEF Shape
<1>6. CASE table'[r].at = <<"own">>
  BY <1>4, <1>5, <1>6, CopyStays
<1>7. CASE table'[r].at # <<"own">>
  <2>1. table'[r] = table[r]
    BY <1>5, <1>7
  <2>2. CASE table[r].at = Source(b) \/ table[r].at = Target(b)
    <3>1. PICK k \in 0 .. 1, l \in 0 .. 1 :
            /\ Source(b) = Plane(b, k) /\ Target(b) = Plane(b, l) /\ k # l
            /\ PingPong(b) => k = phase[b] /\ l = 1 - phase[b]
      <4>1. Typed
        BY DEF Shape
      <4> QED
        BY <1>2, <4>1, PlanesOf, Zenon
    <3>2. PICK h \in 0 .. 1 : table[r].at = Plane(b, h) /\ h \in {k, l}
      BY <2>2, <3>1
    <3>3. ~Pipelined /\ PingPong(b) /\ h = phase[b]
      BY <1>1, <1>2, <3>2 DEF Content, PlanesHeld
    <3>4. table[r].at = Source(b)
      BY <3>1, <3>2, <3>3
    <3>5. mem'[Source(b)][table[r].row] = mem[Source(b)][table[r].row]
      BY <3>3, <3>4, PackedInPlace
    <3>6. \A m : Deref(m, table[r]) = m[Source(b)][table[r].row]
      BY <1>3, <1>7, <2>1, <3>4, RefCases
    <3>7. Deref(mem', table[r]) = mem'[Source(b)][table[r].row]
      BY <3>6
    <3>8. Deref(mem, table[r]) = mem[Source(b)][table[r].row]
      BY <3>6
    <3> QED
      BY <1>4, <2>1, <3>5, <3>7, <3>8
  <2>3. CASE table[r].at # Source(b) /\ table[r].at # Target(b)
    <3>1. Deref(mem', table[r]) = Deref(mem, table[r])
      BY <1>2, <2>3, TableStays
    <3> QED
      BY <1>4, <2>1, <3>1
  <2> QED
    BY <2>2, <2>3
<1> QED
  BY <1>6, <1>7

\* A replay with an expand hands on each table one step on.
LEMMA ExpandContent ==
    ASSUME Shape, Content, Cloning, NEW p \in PipeIds, LaunchExpand(p)
    PROVE  Content'
<1>1. PICK b, n, v, out : Replays(p, b, n, v, out)
  BY ReplayExpands
<1> DEFINE new == [pid |-> p, reqs |-> Live(p), out |-> out, fused |-> TRUE]
<1>2. CanLaunch(p) /\ pc = "tick" /\ UNCHANGED <<mode, status, depth, pipes>>
  BY DEF LaunchExpand, CanLaunch
<1>3. /\ Ordered(p) = Live(p) /\ Live(p) \in Seq(Reqs)
      /\ ToSet(Live(p)) = ToSet(pipes[p]) \cap Running
      /\ NRows(p) = Len(Live(p))
  BY <1>2, LaunchIs
<1>4. /\ n = Len(Live(p)) /\ n \in Nat /\ n <= N /\ Len(v) = n /\ b \in Sizes /\ b >= n
      /\ \A i \in 1 .. n : v[i] = Deref(mem, table[Live(p)[i]])
      /\ \A i \in 1 .. n : Expand(v[i], v[i]) \in States
      /\ \A i \in 1 .. n : mem'[Target(b)][i] = Expand(v[i], v[i])
      /\ table' = Detached(Live(p), Target(b))
      /\ phase' = IF PingPong(b) THEN [phase EXCEPT ![b] = 1 - @] ELSE phase
      /\ out \in Seq(Refs) /\ Len(out) = n /\ Hands(out, b, v)
      /\ Enqueue(p, Ordered(p), out, TRUE)
  BY <1>1, <1>3 DEF Replays
<1>5. \A i \in 1 .. n : Live(p)[i] \in Needed /\ Live(p)[i] \in Reqs
  <2>1. \A i \in 1 .. n : Live(p)[i] \in Running
    BY <1>3, <1>4, Members
  <2> QED
    BY <2>1 DEF Running, Needed
<1>6. \A i \in 1 .. n : Expand(v[i], v[i]) = <<Live(p)[i], depth[Live(p)[i]] + 1>>
  <2> SUFFICES ASSUME NEW i \in 1 .. n PROVE Expand(v[i], v[i]) = <<Live(p)[i], depth[Live(p)[i]] + 1>>
    OBVIOUS
  <2>1. v[i] = <<Live(p)[i], depth[Live(p)[i]]>>
    BY <1>4, <1>5 DEF Content, TablesFine
  <2>2. depth[Live(p)[i]] \in Nat
    BY <1>5 DEF Shape, Typed
  <2> QED
    BY <1>5, <2>1, <2>2, ExpandType
<1>7. Target(b) \in Places /\ \E k \in 0 .. 1 : Target(b) = Plane(b, k)
  <2>1. Typed /\ b \in Sizes
    BY <1>4 DEF Shape
  <2>2. PICK k \in 0 .. 1, l \in 0 .. 1 :
            /\ Source(b) = Plane(b, k) /\ Target(b) = Plane(b, l) /\ k # l
            /\ PingPong(b) => k = phase[b] /\ l = 1 - phase[b]
    BY <2>1, PlanesOf, Zenon
  <2> QED
    BY <2>1, <2>2, PlanesOf
<1>8. LaunchOwn(mem', depth, new)
  <2> SUFFICES ASSUME NEW i \in 1 .. n
               PROVE  Deref(mem', out[i]) = <<Live(p)[i], depth[Live(p)[i]] + 1>>
    BY <1>4 DEF LaunchOwn
  <2>1. CASE out[i] = View(Target(b), i)
    <3>1. i \in 1 .. N
      BY <1>4, ReqsAreNumbers
    <3>2. Deref(mem', View(Target(b), i)) = mem'[Target(b)][i]
      BY <1>7, <3>1, ViewsAreRefs
    <3> QED
      BY <1>4, <1>6, <2>1, <3>2
  <2>2. CASE out[i] = Own(Expand(v[i], v[i]))
    <3>1. Deref(mem', Own(Expand(v[i], v[i]))) = Expand(v[i], v[i])
      BY <1>4, ViewsAreRefs
    <3> QED
      BY <1>6, <2>2, <3>1
  <2> QED
    BY <1>4, <2>1, <2>2 DEF Hands
<1>9. WaitsIn(new, phase')
  <2>1. Len(new.out) = n /\ new.out = out /\ new.fused = TRUE
    BY <1>4
  <2> HIDE DEF new
  <2>2. CASE PingPong(b) /\ Len(v) >= 2 /\ \A i \in 1 .. n : out[i] = View(Target(b), i)
    <3>1. ~Pipelined
      <4>1. b \in Nat /\ b >= 2
        <5>1. b \in Nat
          BY <1>4, BuffersAssumption DEF BuffersAssumption, Shape, Typed, Sizes
        <5> QED
          BY <1>4, <2>2, <5>1
      <4> QED
        BY <1>4, <2>2, <4>1 DEF Cloning
    <3>2. phase[b] \in 0 .. 1 /\ DOMAIN phase = Sizes
      BY <1>4 DEF Shape, Typed
    <3>3. Target(b) = Plane(b, phase'[b])
      BY <1>4, <2>2, <3>2 DEF Target
    <3>4. \A i \in 1 .. n : View(Target(b), i).at = Target(b)
      BY DEF View
    <3>5. \A i \in 1 .. n : out[i].at = Plane(b, phase'[b])
      BY <2>2, <3>3, <3>4
    <3> QED
      BY <1>4, <2>1, <2>2, <3>1, <3>5 DEF WaitsIn
  <2>3. CASE \A i \in 1 .. n : out[i] = Own(Expand(v[i], v[i]))
    <3>1. \A i \in 1 .. n : Own(Expand(v[i], v[i])).at = <<"own">>
      BY DEF Own
    <3>2. \A i \in 1 .. n : out[i].at = <<"own">>
      BY <2>3, <3>1
    <3> QED
      BY <2>1, <3>2 DEF WaitsIn
  <2> QED
    BY <1>4, <2>2, <2>3 DEF Hands
<1>10. ResultsFine' /\ Waiting'
  BY <1>2, <1>4, <1>8, <1>9, EnqueueContent
<1>11. Sizes' = Sizes /\ Pipelined' = Pipelined /\ Needed' = Needed
  BY <1>2, ModeFixed DEF Needed
<1>12. TablesFine'
  BY <1>1, <1>2, <1>11, ExpandTables DEF TablesFine
<1>13. PlanesHeld'
  <2> SUFFICES ASSUME NEW r \in Needed, NEW c \in Sizes, NEW k \in 0 .. 1, table'[r].at = Plane(c, k)
               PROVE  ~Pipelined /\ PingPong(c) /\ (pc' # "process" => k = phase'[c])
    BY <1>2, <1>11 DEF PlanesHeld, PingPong
  <2>1. r \in Reqs
    BY NeededIs
  <2>2. table'[r] = table[r] \/ table'[r].at = <<"own">>
    <3>1. \A x : Own(x).at = <<"own">>
      BY DEF Own
    <3>2. Typed
      BY DEF Shape
    <3>3. Detached(Live(p), Target(b))[r] =
            IF Pipelined /\ status[r] = "running" /\ r \notin ToSet(Live(p)) /\ table[r].at = Target(b)
            THEN Own(Deref(mem, table[r])) ELSE table[r]
      BY <1>3, <2>1, <3>2, DetachedIs
    <3> QED
      BY <1>4, <3>1, <3>3
  <2>3. table[r].at = Plane(c, k)
    BY <2>2, PlacesApart
  <2>4. ~Pipelined /\ PingPong(c)
    BY <2>3 DEF Content, PlanesHeld
  <2>5. pc' = "process"
    BY <1>4, <2>4 DEF Enqueue
  <2> QED
    BY <2>4, <2>5
<1> QED
  BY <1>10, <1>12, <1>13 DEF Content

\* Processing puts the result in place of the tables, in the buffers of its own pipe.
LEMMA ProcessContent ==
    ASSUME Shape, Content, Cloning, Process
    PROVE  Content'
<1>1. PICK pid, g, out, fused : Processes(pid, g, out, fused)
  BY ProcessIs
<1>2. /\ UNCHANGED <<mode, pipes, phase>> /\ queue # <<>> /\ queue' = Tail(queue)
      /\ pc = (IF Pipelined THEN "tick" ELSE "process")
  BY DEF Process
<1>3. Sizes' = Sizes /\ PipeIds' = PipeIds /\ Pipelined' = Pipelined
  BY <1>2, ModeFixed
<1>4. /\ pid \in PipeIds /\ g = pipes[pid] /\ g \in Seq(Reqs) /\ ToSet(g) \subseteq Running
      /\ ToSet(g) \subseteq Reqs /\ Len(out) = Len(g) /\ Len(g) \in Nat
      /\ queue[1].pid = pid /\ queue[1].reqs = g /\ queue[1].out = out /\ queue[1].fused = fused
      /\ fused \in BOOLEAN
  BY <1>1, Members DEF Processes
<1>5. /\ \A r \in Reqs : depth'[r] = IF r \in ToSet(g) THEN depth[r] + 1 ELSE depth[r]
      /\ \A r \in Reqs : status'[r] = IF r \in ToSet(g) /\ depth'[r] >= mode.gen[r]
                                      THEN "finished" ELSE status[r]
      /\ \A r \in Reqs : r \notin ToSet(g) => table'[r] = table[r]
      /\ \A y \in Places : y # Workspace(pid, 0) /\ y # Workspace(pid, 1) => mem'[y] = mem[y]
  BY <1>1 DEF Processes
<1>6. \A r \in ToSet(g) : status[r] = "running" /\ r \in Needed
  BY <1>4 DEF Running, Needed
<1>7. Needed' = Needed
  BY <1>5, <1>6 DEF Needed
<1>8. 1 \in 1 .. Len(queue)
  BY <1>2 DEF Shape, Typed
<1>9. /\ \A i \in 1 .. Len(g) : Deref(mem, out[i]) = <<g[i], IF fused THEN depth[g[i]] + 1 ELSE depth[g[i]]>>
      /\ WaitsIn(queue[1], phase)
  BY <1>4, <1>8 DEF Content, ResultsFine, LaunchOwn, Waiting
<1>10. \A i \in 1 .. Len(out) :
        \/ out[i].at = <<"own">>
        \/ ~Pipelined /\ fused /\ \E b \in Sizes : PingPong(b) /\ out[i].at = Plane(b, phase[b])
        \/ ~Pipelined /\ ~fused /\ \E b \in Sizes : out[i].at = Hidden(b)
  BY <1>4, <1>9 DEF WaitsIn
<1>11. ASSUME NEW i \in 1 .. Len(g)
       PROVE  Deref(mem', table'[g[i]]) = <<g[i], depth[g[i]] + 1>>
  <2>1. g[i] \in ToSet(g) /\ g[i] \in Reqs
    BY <1>4, Members
  <2>2. depth[g[i]] \in Nat /\ Deref(mem, table[g[i]]) = <<g[i], depth[g[i]]>>
    BY <1>6, <2>1 DEF Content, TablesFine, Shape, Typed
  <2>3. CASE fused
    <3>1. mem' = mem /\ table'[g[i]] = out[i]
      BY <1>1, <2>3 DEF Processes
    <3> QED
      BY <1>9, <2>3, <3>1
  <2>4. CASE ~fused
    <3>1. Deref(mem', table'[g[i]]) = Expand(Deref(mem, out[i]), Deref(mem, table[g[i]]))
      BY <1>1, <2>4 DEF Processes, GroupExpanded
    <3>2. Deref(mem, out[i]) = <<g[i], depth[g[i]]>>
      BY <1>9, <2>4
    <3> QED
      BY <2>1, <2>2, <3>1, <3>2, ExpandType
  <2> QED
    BY <2>3, <2>4
<1>12. ASSUME NEW r \in Needed, r \notin ToSet(g)
       PROVE  Pipelined /\ Deref(mem', table[r]) = <<r, depth[r]>>
  <2>1. PICK q \in PipeIds : r \in ToSet(pipes[q]) /\ LiesFor(table[r], q)
    BY NeededIs
  <2>2. q # pid
    BY <1>4, <1>12, <2>1
  <2>3. Pipelined
    BY <1>4, <2>2, OnePipe
  <2>4. \A y \in Places : y = table[r].at => y # Workspace(pid, 0) /\ y # Workspace(pid, 1)
    <3>1. CASE table[r].at = <<"own">>
      BY <3>1, PlacesApart
    <3>2. CASE \E k \in 0 .. 1 : table[r].at = Workspace(q, k)
      <4>1. PICK k \in 0 .. 1 : table[r].at = Workspace(q, k)
        BY <3>2
      <4>2. Workspace(q, k) # Workspace(pid, 0) /\ Workspace(q, k) # Workspace(pid, 1)
        BY <2>2, PlacesApart
      <4> QED
        BY <4>1, <4>2
    <3>3. CASE \E b \in Sizes, k \in 0 .. 1 : table[r].at = Plane(b, k)
      <4>1. PICK b \in Sizes, k \in 0 .. 1 : table[r].at = Plane(b, k)
        BY <3>3
      <4>2. Plane(b, k) # Workspace(pid, 0) /\ Plane(b, k) # Workspace(pid, 1)
        BY PlacesApart
      <4> QED
        BY <4>1, <4>2
    <3> QED
      BY <2>1, <3>1, <3>2, <3>3 DEF LiesFor
  <2>5. Deref(mem', table[r]) = Deref(mem, table[r])
    BY <1>5, <2>4, TableStays
  <2> QED
    BY <2>3, <2>5 DEF Content, TablesFine
<1>13. TablesFine'
  <2> SUFFICES ASSUME NEW r \in Needed PROVE Deref(mem', table'[r]) = <<r, depth'[r]>>
    BY <1>7 DEF TablesFine
  <2>1. r \in Reqs
    BY DEF Needed
  <2>2. CASE r \in ToSet(g)
    <3>1. PICK i \in 1 .. Len(g) : r = g[i]
      BY <1>4, <2>2, Members
    <3> QED
      BY <1>5, <1>11, <2>1, <2>2, <3>1
  <2>3. CASE r \notin ToSet(g)
    BY <1>5, <1>12, <2>1, <2>3
  <2> QED
    BY <2>2, <2>3
<1>14. PlanesHeld'
  <2> SUFFICES ASSUME NEW r \in Needed, NEW b \in Sizes, NEW k \in 0 .. 1, table'[r].at = Plane(b, k)
               PROVE  ~Pipelined /\ PingPong(b) /\ k = phase[b]
    BY <1>2, <1>3, <1>7 DEF PlanesHeld, PingPong
  <2>1. r \in Reqs
    BY DEF Needed
  <2>2. CASE r \in ToSet(g)
    <3>1. PICK i \in 1 .. Len(g) : r = g[i]
      BY <1>4, <2>2, Members
    <3>2. CASE fused
      <4>1. out[i].at = Plane(b, k)
        BY <1>1, <3>1, <3>2 DEF Processes
      <4>2. i \in 1 .. Len(out) /\ out[i].at # <<"own">>
        BY <1>4, <4>1, PlacesApart
      <4>3. ~Pipelined /\ \E c \in Sizes : PingPong(c) /\ out[i].at = Plane(c, phase[c])
        BY <1>10, <3>2, <4>2
      <4>4. PICK c \in Sizes : PingPong(c) /\ out[i].at = Plane(c, phase[c])
        BY <4>3
      <4>5. Plane(b, k) = Plane(c, phase[c])
        BY <4>1, <4>4
      <4>6. b = c /\ k = phase[c]
        BY <4>5, PlacesApart
      <4> QED
        BY <4>3, <4>4, <4>6
    <3>3. CASE ~fused
      <4>1. \/ table'[r].at = <<"own">>
            \/ \E h \in 0 .. 1 : table'[r] = View(Workspace(pid, h), i)
        BY <1>1, <3>1, <3>3 DEF Processes, GroupExpanded
      <4>2. Plane(b, k) # <<"own">> /\ \A h : Plane(b, k) # Workspace(pid, h)
        BY PlacesApart
      <4>3. \A h : View(Workspace(pid, h), i).at = Workspace(pid, h)
        BY DEF View
      <4>4. FALSE
        BY <4>1, <4>2, <4>3
      <4> QED
        BY <4>4
    <3> QED
      BY <3>2, <3>3
  <2>3. CASE r \notin ToSet(g)
    <3>1. table[r].at = Plane(b, k) /\ Pipelined
      BY <1>5, <1>12, <2>1, <2>3
    <3> QED
      BY <3>1 DEF Content, PlanesHeld
  <2> QED
    BY <2>2, <2>3
<1>15. /\ queue' \in Seq(Launches) /\ Len(queue') = Len(queue) - 1 /\ Len(queue) \in Nat
       /\ \A k \in 1 .. Len(queue') : /\ queue'[k] = queue[k + 1] /\ k + 1 \in 1 .. Len(queue)
                                      /\ queue'[k].pid # pid
                                      /\ queue'[k].pid \in PipeIds
  BY <1>2, <1>4, RestOfQueue
<1>16. ASSUME NEW k \in 1 .. Len(queue')
       PROVE  LaunchOwn(mem', depth', queue'[k]) /\ WaitsIn(queue'[k], phase)
  <2>1. PICK q : q = queue[k + 1] /\ q = queue'[k]
    BY <1>15
  <2>2. LaunchOwn(mem, depth, q) /\ WaitsIn(q, phase) /\ Len(q.out) = Len(q.reqs) /\ q.reqs = Live(q.pid)
    BY <1>15, <2>1 DEF Content, ResultsFine, Waiting, Shape, Queued, Launched
  <2>3. q.pid \in PipeIds /\ q.pid # pid
    BY <1>15, <2>1
  <2>4. Pipelined
    BY <1>4, <2>3, OnePipe
  <2>5. \A i \in 1 .. Len(q.out) : q.out[i].at = <<"own">>
    BY <2>2, <2>4 DEF WaitsIn
  <2>6. \A i \in 1 .. Len(q.reqs) : q.reqs[i] \in ToSet(pipes[q.pid])
    <3>1. Live(q.pid) \in Seq(Reqs) /\ ToSet(Live(q.pid)) \subseteq ToSet(pipes[q.pid])
      BY <2>3, LiveIs DEF Shape
    <3> QED
      BY <2>2, <3>1, Members
  <2>7. \A r \in ToSet(pipes[q.pid]) : depth'[r] = depth[r]
    BY <1>1, <1>2, <2>3, OthersStay
  <2>8. LaunchOwn(mem', depth', q)
    <3> SUFFICES ASSUME NEW i \in 1 .. Len(q.reqs)
                 PROVE  Deref(mem', q.out[i]) = <<q.reqs[i], IF q.fused THEN depth'[q.reqs[i]] + 1
                                                             ELSE depth'[q.reqs[i]]>>
      BY DEF LaunchOwn
    <3>1. Deref(mem', q.out[i]) = Deref(mem, q.out[i])
      BY <2>2, <2>5, CopyStays
    <3>2. depth'[q.reqs[i]] = depth[q.reqs[i]]
      BY <2>6, <2>7
    <3> QED
      BY <2>2, <3>1, <3>2 DEF LaunchOwn
  <2> QED
    BY <2>1, <2>2, <2>8
<1>17. ResultsFine' /\ Waiting'
  BY <1>2, <1>3, <1>16 DEF ResultsFine, LaunchOwn, Waiting, WaitsIn, PingPong
<1> QED
  BY <1>13, <1>14, <1>17 DEF Content

\* What changes neither the buffers nor the launches.
LEMMA QuietContent ==
    ASSUME Shape, Content, UNCHANGED <<mode, depth, mem, phase, queue>>,
           Needed' \subseteq Needed, \A r \in Needed' : table'[r] = table[r],
           Pipelined \/ (pc # "process" /\ pc' # "process") \/ pc' = pc
    PROVE  Content'
<1>1. Sizes' = Sizes /\ Pipelined' = Pipelined
  BY ModeFixed
<1>2. ResultsFine' /\ Waiting'
  BY <1>1 DEF Content, ResultsFine, LaunchOwn, Waiting, WaitsIn, PingPong
<1>3. TablesFine'
  BY DEF Content, TablesFine
<1>4. PlanesHeld'
  <2> SUFFICES ASSUME NEW r \in Needed', NEW b \in Sizes, NEW k \in 0 .. 1, table'[r].at = Plane(b, k)
               PROVE  ~Pipelined /\ PingPong(b) /\ (pc' # "process" => k = phase[b])
    BY <1>1 DEF PlanesHeld, PingPong
  <2>1. r \in Needed /\ table[r].at = Plane(b, k)
    OBVIOUS
  <2> QED
    BY <2>1 DEF Content, PlanesHeld
<1> QED
  BY <1>2, <1>3, <1>4 DEF Content

\* A turn of the loop drops tables or starts new ones.
LEMMA TurnContent ==
    ASSUME Shape, Content, ~mode.mixed, LoopTurn
    PROVE  Content'
<1>1. ASSUME NEW new, NewWave(new) PROVE Content'
  <2>1. /\ queue = <<>> /\ new \subseteq Reqs /\ Needed' = new
        /\ \A r \in new : table'[r] = Own(<<r, 0>>) /\ depth[r] = 0
    BY <1>1, NewWaveIs
  <2>2. UNCHANGED <<mode, depth, mem, phase, queue>>
    BY <1>1 DEF NewWave
  <2>3. Len(queue') = 0
    BY <2>1, <2>2
  <2>4. ResultsFine' /\ Waiting'
    BY <2>3 DEF ResultsFine, Waiting
  <2>5. \A r \in new : table'[r].at = <<"own">> /\ Deref(mem', table'[r]) = <<r, 0>>
    <3> SUFFICES ASSUME NEW r \in new
                 PROVE  table'[r].at = <<"own">> /\ Deref(mem', table'[r]) = <<r, 0>>
      OBVIOUS
    <3>1. <<r, 0>> \in States /\ table'[r] = Own(<<r, 0>>)
      BY <2>1, ReqsAreNumbers
    <3>2. Own(<<r, 0>>).at = <<"own">> /\ Deref(mem', Own(<<r, 0>>)) = <<r, 0>>
      BY <3>1, ViewsAreRefs
    <3> QED
      BY <3>1, <3>2
  <2>6. TablesFine'
    BY <2>1, <2>2, <2>5 DEF TablesFine
  <2>7. PlanesHeld'
    BY <2>1, <2>5, PlacesApart DEF PlanesHeld
  <2> QED
    BY <2>4, <2>6, <2>7 DEF Content
<1>2. ASSUME pc = "loop", pc' = "tick", UNCHANGED <<mode, depth, mem, phase, queue, raised>>,
             status' = [r \in Reqs |-> IF status[r] = "finished" THEN "done" ELSE status[r]],
             table' = [r \in Reqs |-> IF status[r] = "finished" THEN Own(Junk) ELSE table[r]]
      PROVE  Content'
  <2>1. Needed' \subseteq Needed /\ \A r \in Needed' : table'[r] = table[r]
    BY <1>2 DEF Needed
  <2> QED
    BY <1>2, <2>1, QuietContent
<1> QED
  BY <1>1, <1>2, TurnIs

\* Every step keeps Content.
LEMMA ContentStep ==
    ASSUME Shape, Content, Cloning, [Next]_vars
    PROVE  Content'
<1>1. ~mode.mixed
  BY DEF Cloning
<1>2. CASE LoopTurn
  BY <1>1, <1>2, TurnContent
<1>3. CASE NoLaunch
  <2>1. Needed' = Needed
    BY <1>3 DEF Needed, NoLaunch
  <2> QED
    BY <1>3, <2>1, QuietContent DEF NoLaunch
<1>4. CASE Process
  BY <1>4, ProcessContent
<1>5. ASSUME NEW p \in PipeIds, LaunchEager(p) PROVE Content'
  BY <1>5, EagerContent
<1>6. ASSUME NEW p \in PipeIds, LaunchPlain(p) PROVE Content'
  BY <1>6, PlainContent
<1>7. ASSUME NEW p \in PipeIds, LaunchExpand(p) PROVE Content'
  BY <1>7, ExpandContent
<1>8. ASSUME NEW p \in PipeIds, PackRaises(p) PROVE Content'
  <2>1. Needed' = Needed
    BY <1>8 DEF Needed, PackRaises
  <2> QED
    BY <1>8, <2>1, QuietContent DEF PackRaises
<1>9. CASE UNCHANGED vars
  <2>1. Needed' = Needed
    BY <1>9 DEF Needed, vars
  <2> QED
    BY <1>9, <2>1, QuietContent DEF vars
<1> QED
  BY <1>2, <1>3, <1>4, <1>5, <1>6, <1>7, <1>8, <1>9 DEF Next

\* Nothing is needed yet.
LEMMA ContentInit == Init => Content
<1> SUFFICES ASSUME Init PROVE Content
  OBVIOUS
<1>1. Needed = {} /\ Len(queue) = 0
  BY DEF Init, Needed
<1> QED
  BY <1>1 DEF Content, TablesFine, ResultsFine, PlanesHeld, Waiting

ContentKept == Kept /\ (Cloning => Content)

\* Content holds with copies throughout, in every reachable state.
LEMMA ContentInvariance == Spec => []ContentKept
<1>1. Init => ContentKept
  BY ShapeInit, ContentInit DEF ContentKept, Kept, Init
<1>2. ContentKept /\ [Next]_vars => ContentKept'
  <2> SUFFICES ASSUME ContentKept, [Next]_vars PROVE ContentKept'
    OBVIOUS
  <2>1. mode' = mode /\ Cloning' = Cloning
    BY ModeStays DEF Cloning, Pipelined, Sizes, PingPong
  <2>2. Kept'
    BY ShapeStep, <2>1 DEF ContentKept, Kept
  <2>3. Cloning => Content'
    BY ContentStep DEF ContentKept, Kept, Cloning
  <2> QED
    BY <2>1, <2>2, <2>3 DEF ContentKept
<1> QED
  BY <1>1, <1>2, PTL DEF Spec

\* A result that waits is still the one of its own forward when the pipeline is off
\* (there as a view, too), or when what waits is a copy.
THEOREM ResultsStayOwn == Spec => [](Cloning => ResultsOwn)
<1>1. ContentKept => (Cloning => ResultsOwn)
  BY FineIsOwn DEF ContentKept, Kept, Cloning, Content, Shape
<1> QED
  BY <1>1, ContentInvariance, PTL

\* Under the same condition every request finds its tables as its last step left
\* them, though other launches replayed the same graph and packed the same planes.
THEOREM TablesStayOwn == Spec => [](Cloning => TablesOwn)
<1>1. ContentKept => (Cloning => TablesOwn)
  BY FineIsOwn DEF ContentKept, Kept, Cloning, Content, Shape
<1> QED
  BY <1>1, ContentInvariance, PTL
=============================================================================
