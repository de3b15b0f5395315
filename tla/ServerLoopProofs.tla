-------------------------- MODULE ServerLoopProofs --------------------------
(***************************************************************************)
(* A request's way through the server, for any jobs, budgets and batching: *)
(* every job that awaits its answer is in one place, no answer is thrown   *)
(* away, and every job the worker knows has one request with the engine.   *)
(***************************************************************************)
EXTENDS ServerLoop, SharedLemmas, SequenceTheorems

Outcomes == {"result", "error"}
Posting == [job : Jobs, outcome : Outcomes]
JobsOf(ps) == [i \in 1 .. Len(ps) |-> ps[i].job]

\* The jobs in hand that _submit_jobs has not gone through.
Hand == SubSeq(batch, next + 1, Len(batch))
Awaiting == {j \in Jobs : future[j] = "pending"}

Typed ==
    /\ queue \in Seq(Jobs) /\ batch \in Seq(Jobs)
    /\ waiting \in Seq(Jobs) /\ running \in Seq(Jobs)
    /\ posted \in Seq(Posting)
    /\ ready \in [Jobs -> {"no", "ok", "failed"}]
    /\ future \in [Jobs -> {"none", "pending", "refused"} \cup Outcomes]
    /\ by_rid \in SUBSET Jobs
    /\ left \in [Jobs -> Nat]
    /\ next \in 0 .. Len(batch)
    /\ pc \in {"top", "window", "submit", "burst", "extra", "prefill", "decode"}

\* No place holds a job twice.
Distinct ==
    /\ NoRepeats(queue) /\ NoRepeats(batch) /\ NoRepeats(JobsOf(posted))
    /\ NoRepeats(waiting) /\ NoRepeats(running)

\* The places of the jobs that await their answer.
Placed(Q, H, K, P, A) ==
    /\ Q \cap H = {} /\ Q \cap K = {} /\ Q \cap P = {}
    /\ H \cap K = {} /\ H \cap P = {} /\ K \cap P = {}
    /\ Q \cup H \cup K \cup P = A

OnePlace == Placed(ToSet(queue), ToSet(Hand), by_rid, ToSet(JobsOf(posted)), Awaiting)

\* What the engine has: the known jobs, and requests whose job was answered on an
\* error path; never a job that is queued, in hand or not sent.
Served(Q, H, K, W, R) ==
    /\ W \cap R = {}
    /\ K \subseteq W \cup R
    /\ (Q \cup H) \cap (W \cup R) = {}

EngineOwn ==
    /\ Served(ToSet(queue), ToSet(Hand), by_rid, ToSet(waiting), ToSet(running))
    /\ \A j \in ToSet(waiting) \cup ToSet(running) : future[j] # "none"
    /\ \A j \in ToSet(running) : left[j] > 0

\* Where the worker is, and what it has in hand there.
WorkerAt ==
    /\ pc \in {"top", "burst", "prefill", "decode"} => batch = <<>>
    /\ pc = "window" => next = 0
    /\ next < Len(batch) => ToSet(Upto(batch, next)) \subseteq by_rid

Inv == Typed /\ Distinct /\ OnePlace /\ EngineOwn /\ WorkerAt

-----------------------------------------------------------------------------
(* The model's operators. *)

RowsAlongOf(h, s) ==
    /\ h \in [0 .. Len(s) -> Nat]
    /\ h[0] = 0
    /\ \A k \in 1 .. Len(s) : h[k] = h[k - 1] + N[s[k]]

\* Beam rows are added up job by job.
LEMMA RowsAlong ==
    ASSUME ServerAssumption, NEW s \in Seq(Jobs)
    PROVE  \E h : RowsAlongOf(h, s) /\ Rows(s) = h[Len(s)]
<1>1. \E h : RowsAlongOf(h, s) /\ Rows(s) = h[Len(s)]
  <2> DEFINE n == Len(s)
             Plus(f, t) == f[t \ {Max(t)}] + N[s[Max(t)]]
             Rec(f) == f = [t \in SUBSET (1 .. n) |-> IF t = {} THEN 0 ELSE Plus(f, t)]
  <2>1. n \in Nat /\ DOMAIN s = 1 .. n /\ 0 \in Nat /\ \A k \in 1 .. n : N[s[k]] \in Nat
    BY DEF ServerAssumption
  <2>2. PICK G : G = [e \in Nat \X (1 .. n) |-> e[1] + N[s[e[2]]]]
    OBVIOUS
  <2>3. G \in [Nat \X (1 .. n) -> Nat] /\ \A x \in Nat, k \in 1 .. n : G[<<x, k>>] = x + N[s[k]]
    <3>1. G \in [Nat \X (1 .. n) -> Nat]
      BY <2>1, <2>2
    <3>2. ASSUME NEW x \in Nat, NEW k \in 1 .. n PROVE G[<<x, k>>] = x + N[s[k]]
      <4>1. <<x, k>> \in Nat \X (1 .. n)
        OBVIOUS
      <4> QED
        BY <2>2, <4>1
    <3> QED
      BY <3>1, <3>2
  <2>4. PICK c : FoldRecursion(c, Nat, 0, n, G)
    <3> HIDE DEF n, Rec
    <3> QED
      BY <2>1, <2>3, SubsetRecursion
  <2>5. ASSUME NEW t \in SUBSET (1 .. n), t # {} PROVE Max(t) \in 1 .. n
    <3>1. t \in SUBSET (0 .. n)
      OBVIOUS
    <3> QED
      BY <2>1, <2>5, <3>1, GreatestMember
  <2> HIDE DEF n
  <2>6. ASSUME NEW t \in SUBSET (1 .. n), t # {}
        PROVE  c[t] = Plus(c, t)
    <3>1. c[t \ {Max(t)}] \in Nat
      BY <2>4, <2>6 DEF FoldRecursion
    <3> QED
      BY <2>3, <2>4, <2>5, <2>6, <3>1 DEF FoldRecursion
  <2>7. \E g : Rec(g)
    <3>1. c = [t \in SUBSET (1 .. n) |-> c[t]] /\ c[{}] = 0
      BY <2>4 DEF FoldRecursion
    <3> HIDE DEF Plus
    <3>2. c = [t \in SUBSET (1 .. n) |-> IF t = {} THEN 0 ELSE Plus(c, t)]
      BY <2>6, <3>1
    <3> QED
      BY <3>2
  <2>8. PICK f : f = (CHOOSE g : Rec(g)) /\ Rec(f)
    <3> HIDE DEF Rec
    <3> QED
      BY <2>7, Zenon
  <2>9. Rows(s) = f[1 .. n]
    <3>1. Rows(s) = (CHOOSE g : Rec(g))[1 .. n]
      BY <2>1 DEF Rows, FoldLeft, MapThenFoldSet, n
    <3> HIDE DEF Rec
    <3> QED
      BY <2>8, <3>1
  <2>10. FoldStep(f, Nat, 0, n, G)
    <3>1. f[{}] = 0
      BY <2>8
    <3>2. ASSUME NEW t \in SUBSET (1 .. n), t # {}, f[t \ {Max(t)}] \in Nat
          PROVE  f[t] = G[<<f[t \ {Max(t)}], Max(t)>>]
      <4>1. f[t] = Plus(f, t)
        <5> HIDE DEF Plus
        <5> QED
          BY <2>8, <3>2
      <4> HIDE DEF Rec
      <4> QED
        BY <2>3, <2>5, <3>2, <4>1
    <3> HIDE DEF Rec
    <3> QED
      BY <3>1, <3>2 DEF FoldStep
  <2>11. EndsIn(f[1 .. n], Nat, 0, n, G)
    <3> HIDE DEF Rec
    <3> QED
      BY <2>1, <2>3, <2>10, FoldIdentified
  <2> HIDE DEF Rec
  <2>12. PICK h : Recursion(h, Nat, 0, n, G) /\ h[n] = f[1 .. n]
    BY <2>11 DEF EndsIn
  <2>13. ASSUME NEW k \in 1 .. n PROVE h[k] = h[k - 1] + N[s[k]]
    <3>1. k - 1 \in 0 .. n
      BY <2>1
    <3>2. h[k - 1] \in Nat /\ h[k] = G[<<h[k - 1], k>>]
      BY <2>12, <3>1 DEF Recursion
    <3> QED
      BY <2>3, <3>2
  <2> QED
    BY <2>9, <2>12, <2>13 DEF Recursion, RowsAlongOf, n
<1> QED
  BY <1>1

\* Beam rows are counted, from none.
LEMMA RowsType ==
    ASSUME ServerAssumption, NEW js \in Seq(Jobs)
    PROVE  Rows(js) \in Nat /\ Rows(<<>>) = 0
<1>1. ASSUME NEW s \in Seq(Jobs) PROVE Rows(s) \in Nat /\ (Len(s) = 0 => Rows(s) = 0)
  <2>1. PICK h : RowsAlongOf(h, s) /\ Rows(s) = h[Len(s)]
    BY RowsAlong
  <2>2. Len(s) \in 0 .. Len(s)
    OBVIOUS
  <2> QED
    BY <2>1, <2>2 DEF RowsAlongOf
<1>2. <<>> \in Seq(Jobs) /\ Len(<<>>) = 0
  OBVIOUS
<1> QED
  BY <1>1, <1>2

\* One job more has its rows more.
LEMMA RowsStep ==
    ASSUME ServerAssumption, NEW s \in Seq(Jobs), NEW t \in Seq(Jobs),
           Len(t) = Len(s) + 1, \A i \in 1 .. Len(s) : t[i] = s[i]
    PROVE  Rows(t) = Rows(s) + N[t[Len(t)]]
<1>1. PICK g : RowsAlongOf(g, s) /\ Rows(s) = g[Len(s)]
  BY RowsAlong
<1>2. PICK h : RowsAlongOf(h, t) /\ Rows(t) = h[Len(t)]
  BY RowsAlong
<1>3. PICK n \in Nat : n = Len(s) /\ Len(t) = n + 1
  OBVIOUS
<1>4. /\ g[0] = 0 /\ h[0] = 0
      /\ \A k \in 1 .. n : g[k] = g[k - 1] + N[s[k]]
      /\ \A k \in 1 .. n + 1 : h[k] = h[k - 1] + N[t[k]]
  BY <1>1, <1>2, <1>3 DEF RowsAlongOf
<1> DEFINE D == {k \in 0 .. n : h[k] # g[k]}
<1>5. D = {}
  <2>1. SUFFICES ASSUME D # {} PROVE FALSE
    OBVIOUS
  <2>2. PICK m \in D : m \in 0 .. n /\ \A k \in 0 .. n : k < m => k \notin D
    <3>1. D \in SUBSET (0 .. n)
      OBVIOUS
    <3> HIDE DEF D
    <3> QED
      BY <2>1, <3>1, LeastUpTo
  <2>3. m # 0 /\ h[m] # g[m]
    BY <1>4, <2>2
  <2>9. \A k \in 0 .. n : k < m => h[k] = g[k]
    BY <2>2
  <2>8. m \in 1 .. n /\ m \in 1 .. n + 1 /\ m - 1 \in 0 .. n /\ m - 1 < m
    BY <2>2, <2>3
  <2>4. m \in 1 .. n /\ m \in 1 .. n + 1 /\ h[m - 1] = g[m - 1]
    BY <2>8, <2>9
  <2>5. t[m] = s[m]
    BY <1>3, <2>4
  <2> HIDE DEF D
  <2> QED
    BY <1>4, <2>3, <2>4, <2>5
<1>6. h[n] = g[n] /\ h[n + 1] = h[n] + N[t[n + 1]]
  <2>1. n \in 0 .. n /\ n + 1 \in 1 .. n + 1 /\ (n + 1) - 1 = n
    OBVIOUS
  <2>2. h[n] = g[n]
    BY <1>5, <2>1
  <2>3. h[n + 1] = h[(n + 1) - 1] + N[t[n + 1]]
    BY <1>4, <2>1
  <2> QED
    BY <2>1, <2>2, <2>3
<1> QED
  BY <1>1, <1>2, <1>3, <1>6

LEMMA RowsAppend ==
    ASSUME ServerAssumption, NEW s \in Seq(Jobs), NEW j \in Jobs
    PROVE  Rows(Append(s, j)) = Rows(s) + N[j]
<1>1. /\ Append(s, j) \in Seq(Jobs) /\ Len(Append(s, j)) = Len(s) + 1
      /\ \A i \in 1 .. Len(s) : Append(s, j)[i] = s[i]
      /\ Append(s, j)[Len(Append(s, j))] = j
  OBVIOUS
<1>2. Rows(Append(s, j)) = Rows(s) + N[Append(s, j)[Len(Append(s, j))]]
  BY <1>1, RowsStep
<1> QED
  BY <1>1, <1>2

\* The rows of two lists, one after the other.
LEMMA RowsConcat ==
    ASSUME ServerAssumption, NEW s \in Seq(Jobs), NEW t \in Seq(Jobs)
    PROVE  Rows(s \o t) = Rows(s) + Rows(t)
<1>1. PICK n \in Nat : n = Len(t)
  OBVIOUS
<1> DEFINE P(k) == SubSeq(t, 1, k)
           D == {k \in 0 .. n : Rows(s \o P(k)) # Rows(s) + Rows(P(k))}
<1>2. ASSUME NEW k \in 0 .. n
      PROVE  /\ P(k) \in Seq(Jobs) /\ Len(P(k)) = k
             /\ \A i \in 1 .. k : P(k)[i] = t[i]
             /\ s \o P(k) \in Seq(Jobs) /\ Len(s \o P(k)) = Len(s) + k
             /\ \A i \in 1 .. Len(s) : (s \o P(k))[i] = s[i]
             /\ \A i \in 1 .. k : (s \o P(k))[Len(s) + i] = t[i]
  <2>1. /\ P(k) \in Seq(Jobs) /\ Len(P(k)) = k
        /\ \A i \in 1 .. k : P(k)[i] = t[i]
    BY <1>1
  <2>2. PICK p \in Seq(Jobs) : p = P(k) /\ Len(p) = k /\ \A i \in 1 .. k : p[i] = t[i]
    BY <2>1
  <2>3. /\ s \o p \in Seq(Jobs) /\ Len(s \o p) = Len(s) + k
        /\ \A i \in 1 .. Len(s) : (s \o p)[i] = s[i]
        /\ \A i \in 1 .. k : (s \o p)[Len(s) + i] = p[i]
    BY <2>2
  <2> HIDE DEF P
  <2> QED
    BY <2>2, <2>3
<1>3. P(n) = t
  BY <1>1
<1>4. P(0) = <<>>
  OBVIOUS
<1> HIDE DEF P
<1>5. D = {}
  <2>1. SUFFICES ASSUME D # {} PROVE FALSE
    OBVIOUS
  <2>2. PICK m \in D : m \in 0 .. n /\ \A k \in 0 .. n : k < m => k \notin D
    <3>1. D \in SUBSET (0 .. n)
      OBVIOUS
    <3> HIDE DEF D
    <3> QED
      BY <2>1, <3>1, LeastUpTo
  <2>3. m # 0
    <3>1. s \o P(0) = s
      BY <1>4
    <3>3. Rows(P(0)) = 0 /\ Rows(s) \in Nat
      BY <1>4, RowsType
    <3>4. PICK b \in Nat : b = Rows(s)
      BY <3>3
    <3>5. Rows(s \o P(0)) = b
      BY <3>1, <3>4, Zenon
    <3>2. Rows(s \o P(0)) = Rows(s) + Rows(P(0))
      BY <3>3, <3>4, <3>5
    <3> QED
      BY <2>2, <3>2
  <2>4. PICK k \in 0 .. n : m = k + 1 /\ k < m /\ k + 1 \in 0 .. n
    <3>1. m - 1 \in 0 .. n /\ m = (m - 1) + 1 /\ m - 1 < m
      BY <2>2, <2>3
    <3> QED
      BY <2>2, <3>1
  <2>5. Rows(s \o P(k)) = Rows(s) + Rows(P(k))
    BY <2>2, <2>4
  <2>6. Rows(P(k + 1)) = Rows(P(k)) + N[t[k + 1]]
    <3>1. /\ P(k) \in Seq(Jobs) /\ Len(P(k)) = k
          /\ \A i \in 1 .. k : P(k)[i] = t[i]
      BY <1>2
    <3>2. /\ P(k + 1) \in Seq(Jobs) /\ Len(P(k + 1)) = k + 1
          /\ \A i \in 1 .. k + 1 : P(k + 1)[i] = t[i]
      BY <1>2, <2>4
    <3>0. k \in Nat /\ k + 1 \in 1 .. k + 1 /\ \A i \in 1 .. k : i \in 1 .. k + 1
      OBVIOUS
    <3>3. \A i \in 1 .. k : P(k + 1)[i] = P(k)[i]
      BY <3>0, <3>1, <3>2
    <3>4. P(k + 1)[k + 1] = t[k + 1]
      BY <3>0, <3>2
    <3>5. PICK u \in Seq(Jobs), v \in Seq(Jobs) : u = P(k) /\ v = P(k + 1)
      BY <3>1, <3>2
    <3>6. Len(v) = Len(u) + 1 /\ \A i \in 1 .. Len(u) : v[i] = u[i]
      BY <3>1, <3>2, <3>3, <3>5
    <3>7. Rows(v) = Rows(u) + N[v[Len(v)]]
      BY <3>6, RowsStep
    <3>8. v[Len(v)] = t[k + 1]
      BY <3>2, <3>4, <3>5
    <3> QED
      BY <3>5, <3>7, <3>8, Zenon
  <2>7. Rows(s \o P(k + 1)) = Rows(s \o P(k)) + N[t[k + 1]]
    <3> DEFINE a == s \o P(k)
               b == s \o P(k + 1)
    <3>0. Len(s) \in Nat
      OBVIOUS
    <3>1. /\ a \in Seq(Jobs) /\ Len(a) = Len(s) + k
          /\ \A i \in 1 .. Len(s) : a[i] = s[i]
          /\ \A i \in 1 .. k : a[Len(s) + i] = t[i]
      BY <1>2
    <3>2. /\ b \in Seq(Jobs) /\ Len(b) = Len(s) + (k + 1)
          /\ \A i \in 1 .. Len(s) : b[i] = s[i]
          /\ \A i \in 1 .. k + 1 : b[Len(s) + i] = t[i]
      BY <1>2, <2>4
    <3> HIDE DEF a, b
    <3>3. ASSUME NEW i \in 1 .. Len(a) PROVE b[i] = a[i]
      <4>1. CASE i <= Len(s)
        BY <3>0, <3>1, <3>2, <4>1
      <4>2. CASE ~(i <= Len(s))
        <5>1. i - Len(s) \in 1 .. k /\ i - Len(s) \in 1 .. k + 1 /\ Len(s) + (i - Len(s)) = i
          BY <3>0, <3>1, <4>2
        <5> QED
          BY <3>1, <3>2, <5>1
      <4> QED
        BY <4>1, <4>2
    <3>4. Len(b) = Len(a) + 1 /\ b[Len(b)] = t[k + 1]
      BY <3>0, <3>1, <3>2
    <3>5. Rows(b) = Rows(a) + N[b[Len(b)]]
      BY <3>1, <3>2, <3>3, <3>4, RowsStep
    <3> QED
      BY <3>4, <3>5 DEF a, b
  <2>8. Rows(s) \in Nat /\ Rows(P(k)) \in Nat /\ N[t[k + 1]] \in Nat
    <3>1. P(k) \in Seq(Jobs)
      BY <1>2
    <3>2. k + 1 \in 1 .. n
      BY <2>4
    <3>3. t[k + 1] \in Jobs
      BY <1>1, <3>2
    <3>4. N[t[k + 1]] \in Nat
      BY <3>3 DEF ServerAssumption
    <3> QED
      BY <3>1, <3>4, RowsType
  <2>9. Rows(s \o P(k + 1)) = Rows(s) + Rows(P(k + 1))
    BY <2>5, <2>6, <2>7, <2>8
  <2> QED
    BY <2>2, <2>4, <2>9
<1>6. n \in 0 .. n
  OBVIOUS
<1> QED
  BY <1>3, <1>5, <1>6

\* Both parts of a list together have its rows.
LEMMA RowsCut ==
    ASSUME ServerAssumption, NEW s \in Seq(Jobs), NEW k \in 0 .. Len(s)
    PROVE  Rows(SubSeq(s, 1, k)) + Rows(SubSeq(s, k + 1, Len(s))) = Rows(s)
<1>1. SubSeq(s, 1, k) \in Seq(Jobs) /\ SubSeq(s, k + 1, Len(s)) \in Seq(Jobs)
  BY CutMembers
<1>2. SubSeq(s, 1, k) \o SubSeq(s, k + 1, Len(s)) = s
  <2>1. 1 \in 1 .. Len(s) + 1 /\ k \in 1 - 1 .. Len(s) /\ Len(s) \in k .. Len(s)
    OBVIOUS
  <2>2. SubSeq(s, 1, k) \o SubSeq(s, k + 1, Len(s)) = SubSeq(s, 1, Len(s))
    BY <2>1, ConcatAdjacentSubSeq
  <2>3. SubSeq(s, 1, Len(s)) = s
    BY SubSeqFull
  <2> QED
    BY <2>2, <2>3
<1> QED
  BY <1>1, <1>2, RowsConcat

\* The first job of a list, and the others.
LEMMA RowsFirst ==
    ASSUME ServerAssumption, NEW s \in Seq(Jobs), s # <<>>
    PROVE  N[s[1]] <= Rows(s)
<1>1. 1 \in 0 .. Len(s) /\ s[1] \in Jobs /\ <<>> \in Seq(Jobs)
  OBVIOUS
<1>5. SubSeq(s, 1, 1) = <<s[1]>>
  <2>1. SubSeq(s, 1, 1) \in Seq(Jobs) /\ <<s[1]>> \in Seq(Jobs)
    BY <1>1, CutMembers
  <2>2. Len(SubSeq(s, 1, 1)) = 1 /\ Len(<<s[1]>>) = 1 /\ <<s[1]>>[1] = s[1]
    BY <1>1
  <2>3. SubSeq(s, 1, 1)[1] = s[1]
    BY <1>1
  <2>4. \A i \in 1 .. Len(SubSeq(s, 1, 1)) : SubSeq(s, 1, 1)[i] = <<s[1]>>[i]
    BY <2>2, <2>3
  <2> QED
    BY <2>1, <2>2, <2>4, SeqEqual
<1>6. SubSeq(s, 1 + 1, Len(s)) \in Seq(Jobs)
  BY <1>1, CutMembers
<1>2. Rows(SubSeq(s, 1, 1)) + Rows(SubSeq(s, 1 + 1, Len(s))) = Rows(s)
  BY <1>1, RowsCut
<1>3. Rows(<<s[1]>>) = 0 + N[s[1]]
  <2>1. Append(<<>>, s[1]) = <<s[1]>>
    OBVIOUS
  <2>2. Rows(Append(<<>>, s[1])) = Rows(<<>>) + N[s[1]]
    BY <1>1, RowsAppend
  <2>3. Rows(<<>>) = 0
    BY RowsType
  <2> QED
    BY <2>1, <2>2, <2>3
<1>4. N[s[1]] \in Nat
  BY <1>1 DEF ServerAssumption
<1>7. PICK rest \in Nat : rest = Rows(SubSeq(s, 1 + 1, Len(s)))
  BY <1>6, RowsType
<1>8. PICK first \in Nat : first = N[s[1]]
  BY <1>4
<1>9. Rows(s) = first + rest
  <2>1. Rows(SubSeq(s, 1, 1)) = 0 + first
    BY <1>3, <1>5, <1>8
  <2> QED
    BY <1>2, <1>7, <1>8, <2>1
<1> QED
  BY <1>7, <1>8, <1>9

\* A selection has at most the rows of the list.
LEMMA RowsOnly ==
    ASSUME ServerAssumption, NEW s \in Seq(Jobs), NEW S
    PROVE  Rows(Only(s, S)) <= Rows(s)
<1>1. PICK h : SelectsAlong(h, Jobs, s, S) /\ Only(s, S) = h[Len(s)]
  BY OnlyAlong
<1>2. PICK g : RowsAlongOf(g, s) /\ Rows(s) = g[Len(s)]
  BY RowsAlong
<1>3. PICK n \in Nat : n = Len(s)
  OBVIOUS
<1>4. /\ h \in [0 .. n -> Seq(Jobs)] /\ h[0] = <<>>
      /\ \A k \in 1 .. n : h[k] = IF s[k] \in S THEN Append(h[k - 1], s[k]) ELSE h[k - 1]
  BY <1>1, <1>3 DEF SelectsAlong
<1>5. /\ g \in [0 .. n -> Nat] /\ g[0] = 0
      /\ \A k \in 1 .. n : g[k] = g[k - 1] + N[s[k]]
  BY <1>2, <1>3 DEF RowsAlongOf
<1>6. \A k \in 1 .. n : s[k] \in Jobs /\ N[s[k]] \in Nat
  BY <1>3 DEF ServerAssumption
<1> DEFINE D == {k \in 0 .. n : ~(Rows(h[k]) <= g[k])}
<1>7. D = {}
  <2>1. SUFFICES ASSUME D # {} PROVE FALSE
    OBVIOUS
  <2>2. PICK m \in D : m \in 0 .. n /\ \A k \in 0 .. n : k < m => k \notin D
    <3>1. D \in SUBSET (0 .. n)
      OBVIOUS
    <3> HIDE DEF D
    <3> QED
      BY <2>1, <3>1, LeastUpTo
  <2>3. m # 0
    <3>1. Rows(<<>>) = 0
      BY RowsType
    <3> QED
      BY <1>4, <1>5, <2>2, <3>1
  <2>4. m \in 1 .. n /\ m - 1 \in 0 .. n /\ m - 1 < m
    BY <2>2, <2>3
  <2>5. Rows(h[m - 1]) <= g[m - 1] /\ h[m - 1] \in Seq(Jobs) /\ g[m - 1] \in Nat
    BY <1>4, <1>5, <2>2, <2>4
  <2>6. Rows(h[m - 1]) \in Nat
    BY <2>5, RowsType
  <2>7. Rows(Append(h[m - 1], s[m])) = Rows(h[m - 1]) + N[s[m]]
    BY <1>6, <2>4, <2>5, RowsAppend
  <2>8. h[m] = Append(h[m - 1], s[m]) \/ h[m] = h[m - 1]
    BY <1>4, <2>4
  <2>9. Rows(h[m]) \in {Rows(h[m - 1]), Rows(h[m - 1]) + N[s[m]]}
    BY <2>7, <2>8
  <2>11. PICK a \in Nat, b \in Nat, c \in Nat :
            a = Rows(h[m - 1]) /\ b = N[s[m]] /\ c = g[m - 1]
    BY <1>6, <2>4, <2>5, <2>6
  <2>12. g[m] = c + b /\ a <= c /\ Rows(h[m]) \in {a, a + b}
    BY <1>5, <2>4, <2>5, <2>9, <2>11
  <2>10. Rows(h[m]) <= g[m]
    BY <2>12
  <2> QED
    BY <2>2, <2>10
<1>8. n \in 0 .. n
  OBVIOUS
<1> QED
  BY <1>1, <1>2, <1>3, <1>7, <1>8

AdmitsAlong(h, rows, reqs, order) ==
    /\ h \in [0 .. Len(order) -> Seq(Jobs)]
    /\ h[0] = <<>>
    /\ \A k \in 1 .. Len(order) :
          h[k] = IF CanAdmit(rows + Rows(h[k - 1]), reqs + Len(h[k - 1]), N[order[k]])
                 THEN Append(h[k - 1], order[k]) ELSE h[k - 1]

\* Admission goes through the queue and takes what fits beside what is taken.
LEMMA AdmittedAlong ==
    ASSUME NEW rows, NEW reqs, NEW order \in Seq(Jobs)
    PROVE  \E h : /\ AdmitsAlong(h, rows, reqs, order)
                  /\ AdmittedBeside(rows, reqs, order) = h[Len(order)]
<1> DEFINE n == Len(order)
           Fit(taken, j) == CanAdmit(rows + Rows(taken), reqs + Len(taken), N[j])
           Pick(taken, j) == IF Fit(taken, j) THEN Append(taken, j) ELSE taken
           Rec(f) == f = [t \in SUBSET (1 .. n) |->
                            IF t = {} THEN <<>> ELSE Pick(f[t \ {Max(t)}], order[Max(t)])]
<1>1. /\ n \in Nat /\ DOMAIN order = 1 .. n /\ <<>> \in Seq(Jobs)
      /\ \A k \in 1 .. n : order[k] \in Jobs
  OBVIOUS
<1>2. \A taken \in Seq(Jobs), j \in Jobs :
         Pick(taken, j) \in Seq(Jobs) /\ Pick(taken, j) \in {taken, Append(taken, j)}
  OBVIOUS
<1> HIDE DEF Pick
<1>3. PICK G : G = [e \in Seq(Jobs) \X (1 .. n) |-> Pick(e[1], order[e[2]])]
  OBVIOUS
<1>4. G \in [Seq(Jobs) \X (1 .. n) -> Seq(Jobs)]
  BY <1>1, <1>2, <1>3
<1>5. \A x \in Seq(Jobs), k \in 1 .. n : G[<<x, k>>] = Pick(x, order[k])
  BY <1>3
<1>6. PICK c : FoldRecursion(c, Seq(Jobs), <<>>, n, G)
  <2> HIDE DEF n, Rec
  <2> QED
    BY <1>1, <1>4, SubsetRecursion
<1>7. ASSUME NEW t \in SUBSET (1 .. n), t # {} PROVE Max(t) \in 1 .. n
  <2>1. t \in SUBSET (0 .. n)
    OBVIOUS
  <2> QED
    BY <1>1, <1>7, <2>1, GreatestMember
<1> HIDE DEF n
<1>8. ASSUME NEW t \in SUBSET (1 .. n), t # {}
      PROVE  c[t] = Pick(c[t \ {Max(t)}], order[Max(t)])
  <2>1. c[t \ {Max(t)}] \in Seq(Jobs)
    BY <1>6, <1>8 DEF FoldRecursion
  <2> QED
    BY <1>5, <1>6, <1>7, <1>8, <2>1 DEF FoldRecursion
<1>9. \E g : Rec(g)
  <2>1. c = [t \in SUBSET (1 .. n) |-> c[t]] /\ c[{}] = <<>>
    BY <1>6 DEF FoldRecursion
  <2> QED
    BY <1>8, <2>1
<1>10. PICK f : f = (CHOOSE g : Rec(g)) /\ Rec(f)
  <2> HIDE DEF Rec
  <2> QED
    BY <1>9, Zenon
<1>11. AdmittedBeside(rows, reqs, order) = f[1 .. n]
  <2>1. AdmittedBeside(rows, reqs, order) = (CHOOSE g : Rec(g))[1 .. n]
    BY <1>1 DEF AdmittedBeside, FoldLeft, MapThenFoldSet, Pick, n
  <2> HIDE DEF Rec
  <2> QED
    BY <1>10, <2>1
<1>12. FoldStep(f, Seq(Jobs), <<>>, n, G)
  <2>1. f[{}] = <<>>
    BY <1>10
  <2>2. ASSUME NEW t \in SUBSET (1 .. n), t # {}, f[t \ {Max(t)}] \in Seq(Jobs)
        PROVE  f[t] = G[<<f[t \ {Max(t)}], Max(t)>>]
    <3>1. f[t] = Pick(f[t \ {Max(t)}], order[Max(t)])
      BY <1>10, <2>2
    <3> HIDE DEF Rec
    <3> QED
      BY <1>5, <1>7, <2>2, <3>1
  <2> HIDE DEF Rec
  <2> QED
    BY <2>1, <2>2 DEF FoldStep
<1>13. EndsIn(f[1 .. n], Seq(Jobs), <<>>, n, G)
  <2> HIDE DEF Rec
  <2> QED
    BY <1>1, <1>4, <1>12, FoldIdentified
<1> HIDE DEF Rec
<1>14. PICK h : Recursion(h, Seq(Jobs), <<>>, n, G) /\ h[n] = f[1 .. n]
  BY <1>13 DEF EndsIn
<1>15. AdmitsAlong(h, rows, reqs, order)
  <2>1. \A k \in 1 .. n : k - 1 \in 0 .. n
    BY <1>1
  <2>2. \A k \in 1 .. n : h[k] = Pick(h[k - 1], order[k])
    BY <1>5, <1>14, <2>1 DEF Recursion
  <2>3. \A k \in 1 .. n :
           h[k] = IF CanAdmit(rows + Rows(h[k - 1]), reqs + Len(h[k - 1]), N[order[k]])
                  THEN Append(h[k - 1], order[k]) ELSE h[k - 1]
    BY <2>2 DEF Pick
  <2> QED
    BY <1>14, <2>3 DEF Recursion, AdmitsAlong, n
<1> QED
  BY <1>11, <1>14, <1>15 DEF n

\* What is admitted beside the rows and requests at work is some of the queue.
LEMMA AdmittedType ==
    ASSUME NEW rows, NEW reqs, NEW order \in Seq(Jobs)
    PROVE  LET taken == AdmittedBeside(rows, reqs, order)
           IN  /\ taken \in Seq(Jobs)
               /\ ToSet(taken) \subseteq ToSet(order)
               /\ NoRepeats(order) => NoRepeats(taken)
<1>1. PICK h : /\ AdmitsAlong(h, rows, reqs, order)
               /\ AdmittedBeside(rows, reqs, order) = h[Len(order)]
  BY AdmittedAlong
<1>2. TakesAlong(h, Jobs, order)
  BY <1>1 DEF AdmitsAlong, TakesAlong
<1> QED
  BY <1>1, <1>2, TakenMembers

\* What is admitted fits the slots together with the rows at work.
LEMMA AdmittedFits ==
    ASSUME ServerAssumption, NEW rows \in Nat, NEW reqs \in Nat, rows <= Slots,
           reqs = 0 => rows = 0, NEW order \in Seq(Jobs)
    PROVE  rows + Rows(AdmittedBeside(rows, reqs, order)) <= Slots
<1>1. PICK h : /\ AdmitsAlong(h, rows, reqs, order)
               /\ AdmittedBeside(rows, reqs, order) = h[Len(order)]
  BY AdmittedAlong
<1>2. PICK n \in Nat : n = Len(order)
  OBVIOUS
<1>3. /\ h \in [0 .. n -> Seq(Jobs)] /\ h[0] = <<>>
      /\ \A k \in 1 .. n :
            h[k] = IF CanAdmit(rows + Rows(h[k - 1]), reqs + Len(h[k - 1]), N[order[k]])
                   THEN Append(h[k - 1], order[k]) ELSE h[k - 1]
  BY <1>1, <1>2 DEF AdmitsAlong
<1>4. \A k \in 1 .. n : order[k] \in Jobs
  BY <1>2
<1>5. Slots \in Nat
  BY DEF ServerAssumption
<1> DEFINE D == {k \in 0 .. n : ~(rows + Rows(h[k]) <= Slots)}
<1>6. D = {}
  <2>1. SUFFICES ASSUME D # {} PROVE FALSE
    OBVIOUS
  <2>2. PICK m \in D : m \in 0 .. n /\ \A k \in 0 .. n : k < m => k \notin D
    <3>1. D \in SUBSET (0 .. n)
      OBVIOUS
    <3> HIDE DEF D
    <3> QED
      BY <2>1, <3>1, LeastUpTo
  <2>3. m # 0
    <3>1. Rows(<<>>) = 0
      BY RowsType
    <3>2. rows + 0 <= Slots
      OBVIOUS
    <3> QED
      BY <1>3, <2>2, <3>1, <3>2
  <2>4. m \in 1 .. n /\ m - 1 \in 0 .. n /\ m - 1 < m
    BY <2>2, <2>3
  <2>5. PICK t \in Seq(Jobs) : t = h[m - 1]
    BY <1>3, <2>4
  <2>6. rows + Rows(t) <= Slots
    BY <2>2, <2>4, <2>5
  <2>7. PICK j \in Jobs : j = order[m]
    BY <1>4, <2>4
  <2>8. h[m] = IF CanAdmit(rows + Rows(t), reqs + Len(t), N[j]) THEN Append(t, j) ELSE t
    BY <1>3, <2>4, <2>5, <2>7
  <2>9. CASE h[m] = t
    BY <2>2, <2>6, <2>9
  <2>10. CASE CanAdmit(rows + Rows(t), reqs + Len(t), N[j]) /\ h[m] = Append(t, j)
    <3>1. PICK a \in Nat, b \in Nat : a = Rows(t) /\ b = N[j] /\ b <= Slots
      BY RowsType DEF ServerAssumption
    <3>2. Rows(h[m]) = a + b
      BY <2>10, <3>1, RowsAppend
    <3>3. CASE reqs + Len(t) > 0
      <4>1. rows + a + b <= Slots
        BY <2>10, <3>1, <3>3 DEF CanAdmit
      <4>2. rows + (a + b) <= Slots
        BY <4>1
      <4> QED
        BY <2>2, <3>2, <4>2
    <3>4. CASE ~(reqs + Len(t) > 0)
      <4>1. reqs = 0 /\ t = <<>>
        BY <3>4
      <4>2. rows = 0 /\ a = 0
        BY <3>1, <4>1, RowsType
      <4>3. rows + (a + b) <= Slots
        BY <3>1, <4>2
      <4> QED
        BY <2>2, <3>2, <4>3
    <3> QED
      BY <3>3, <3>4
  <2> QED
    BY <2>8, <2>9, <2>10
<1>7. n \in 0 .. n
  OBVIOUS
<1> QED
  BY <1>1, <1>2, <1>6, <1>7

\* Any order of the queue has its jobs.
LEMMA OrderType ==
    ASSUME queue \in Seq(Jobs), NoRepeats(queue), NEW order \in Orders
    PROVE  order \in Seq(Jobs) /\ NoRepeats(order) /\ ToSet(order) = ToSet(queue)
<1>1. CASE AllAged
  BY <1>1 DEF Orders
<1>2. CASE ~AllAged
  <2> DEFINE S == ToSet(queue)
             n == Cardinality(S)
  <2>1. IsFiniteSet(S) /\ n \in Nat /\ S \subseteq Jobs
    BY MembersFinite, Members, FS_CardinalityType
  <2>2. order \in [1 .. n -> S] /\ \A i, j \in 1 .. n : i # j => order[i] # order[j]
    BY <1>2 DEF Orders, SetToSeqs
  <2> HIDE DEF S
  <2>3. order \in Seq(Jobs) /\ Len(order) = n /\ DOMAIN order = 1 .. n
    BY <2>1, <2>2
  <2>4. IsFiniteSet(1 .. n) /\ Cardinality(1 .. n) = n
    BY <2>1, FS_Interval
  <2>5. order \in Injection(1 .. n, S)
    BY <2>2 DEF Injection, IsInjective
  <2>6. order \in Surjection(1 .. n, S)
    BY <2>1, <2>4, <2>5, FS_Injection
  <2> QED
    <3>1. NoRepeats(order)
      BY <2>2, <2>3 DEF NoRepeats
    <3>2. ToSet(order) = S
      BY <2>2, <2>3, <2>6 DEF ToSet, Surjection
    <3> QED
      BY <2>3, <3>1, <3>2 DEF S
<1> QED
  BY <1>1, <1>2

\* The greatest of some numbers up to a bound.
LEMMA LargestType ==
    ASSUME NEW n \in Nat, NEW S \in SUBSET (0 .. n), S # {}
    PROVE  Largest(S) \in S /\ \A m \in S : m <= Largest(S)
<1>1. \E x \in S : \A m \in S : m <= x
  BY GreatestMember
<1> QED
  BY <1>1 DEF Largest

\* A batch is never released beyond its end.
LEMMA ReleasedType ==
    ASSUME ServerAssumption, NEW n \in Nat
    PROVE  Released(n) \in 0 .. n
<1>1. InflightMin \in Nat /\ Last(Preferred) \in Nat
  BY DEF ServerAssumption, Last
<1>2. PICK b \in Nat : Last(Preferred) <= b /\ InflightMin <= b
  BY <1>1
<1>3. {Last(Preferred), InflightMin} \in SUBSET (0 .. b)
  BY <1>1, <1>2
<1>4. HighCap \in {Last(Preferred), InflightMin}
  BY <1>3, LargestType DEF HighCap
<1> QED
  BY <1>1, <1>4 DEF Released

\* A prefill takes requests that wait.
LEMMA PrefillCountType ==
    ASSUME ServerAssumption, waiting \in Seq(Jobs), running \in Seq(Jobs), WantsPrefill
    PROVE  PrefillCount \in 0 .. Len(waiting)
<1> DEFINE n == Len(waiting)
<1>1. n \in Nat
  OBVIOUS
<1>2. CASE PreferredFit # {}
  <2>1. PreferredFit \in SUBSET (0 .. n)
    <3>1. ToSet(Preferred) \subseteq Nat
      BY DEF ServerAssumption, ToSet
    <3> QED
      BY <1>1, <3>1 DEF PreferredFit
  <2>2. Largest(PreferredFit) \in PreferredFit
    BY <1>1, <1>2, <2>1, LargestType
  <2> QED
    BY <1>2, <2>1, <2>2 DEF PrefillCount
<1>3. CASE PreferredFit = {} /\ running = <<>>
  BY <1>1, <1>3 DEF PrefillCount
<1>4. CASE PreferredFit = {} /\ running # <<>>
  <2> DEFINE S == {k \in 0 .. n : Fits(k)}
  <2>1. 0 \in S
    <3>1. Rows(running) \in Nat /\ Rows(<<>>) = 0
      BY RowsType
    <3>2. Rows(Upto(waiting, 0)) = 0
      <4>1. SubSeq(waiting, 1, 0) = <<>>
        OBVIOUS
      <4> QED
        BY <3>1, <4>1 DEF Upto
    <3>3. N[Head(waiting)] \in Nat /\ Slots \in Nat
      BY DEF ServerAssumption, WantsPrefill
    <3>4. Rows(running) + N[Head(waiting)] <= Slots
      BY <1>4 DEF WantsPrefill
    <3>5. Fits(0)
      BY <3>1, <3>2, <3>3, <3>4 DEF Fits
    <3> QED
      BY <1>1, <3>5
  <2>2. Largest(S) \in S
    <3>1. S \in SUBSET (0 .. n) /\ S # {}
      BY <2>1
    <3> HIDE DEF S
    <3> QED
      BY <1>1, <3>1, LargestType
  <2>3. PrefixFit \in 0 .. n
    BY <2>2 DEF PrefixFit
  <2>4. InflightMin \in Nat
    BY DEF ServerAssumption
  <2> QED
    BY <1>1, <1>4, <2>3, <2>4 DEF PrefillCount
<1> QED
  BY <1>2, <1>3, <1>4

\* The posted callbacks and their jobs.
LEMMA JobsOfType ==
    ASSUME NEW ps \in Seq(Posting)
    PROVE  /\ JobsOf(ps) \in Seq(Jobs) /\ Len(JobsOf(ps)) = Len(ps)
           /\ \A i \in 1 .. Len(ps) : JobsOf(ps)[i] = ps[i].job /\ ps[i].job \in Jobs
<1>1. \A i \in 1 .. Len(ps) : ps[i] \in Posting
  OBVIOUS
<1> QED
  BY <1>1 DEF JobsOf, Posting

\* Posting an outcome for some jobs.
LEMMA PostsType ==
    ASSUME NEW ps \in Seq(Posting), NEW js \in Seq(Jobs), NEW o \in Outcomes
    PROVE  /\ ps \o Posts(js, o) \in Seq(Posting)
           /\ JobsOf(ps \o Posts(js, o)) = JobsOf(ps) \o js
<1> DEFINE qs == Posts(js, o)
<1>1. qs \in Seq(Posting) /\ Len(qs) = Len(js) /\ \A i \in 1 .. Len(js) : qs[i].job = js[i]
  BY DEF Posts, Posting
<1> HIDE DEF qs
<1>2. /\ ps \o qs \in Seq(Posting) /\ Len(ps \o qs) = Len(ps) + Len(js)
      /\ Len(ps) \in Nat /\ Len(js) \in Nat
      /\ \A i \in 1 .. Len(ps) : (ps \o qs)[i] = ps[i]
      /\ \A i \in 1 .. Len(js) : (ps \o qs)[Len(ps) + i] = qs[i]
  BY <1>1
<1>3. /\ JobsOf(ps) \in Seq(Jobs) /\ Len(JobsOf(ps)) = Len(ps)
      /\ JobsOf(ps \o qs) \in Seq(Jobs) /\ Len(JobsOf(ps \o qs)) = Len(ps) + Len(js)
  BY <1>2, JobsOfType
<1>4. JobsOf(ps) \o js \in Seq(Jobs) /\ Len(JobsOf(ps) \o js) = Len(ps) + Len(js)
  BY <1>3
<1>5. ASSUME NEW i \in 1 .. Len(ps) + Len(js) PROVE JobsOf(ps \o qs)[i] = (JobsOf(ps) \o js)[i]
  <2>1. JobsOf(ps \o qs)[i] = (ps \o qs)[i].job
    BY <1>2 DEF JobsOf
  <2>2. CASE i \in 1 .. Len(ps)
    <3>1. (JobsOf(ps) \o js)[i] = JobsOf(ps)[i] /\ JobsOf(ps)[i] = ps[i].job
      BY <1>3, <2>2 DEF JobsOf
    <3> QED
      BY <1>2, <2>1, <2>2, <3>1
  <2>3. CASE i \notin 1 .. Len(ps)
    <3>1. i - Len(ps) \in 1 .. Len(js) /\ Len(ps) + (i - Len(ps)) = i
      BY <1>2, <2>3
    <3>2. (ps \o qs)[i].job = js[i - Len(ps)]
      BY <1>1, <1>2, <3>1
    <3>3. (JobsOf(ps) \o js)[i] = js[i - Len(ps)]
      BY <1>2, <1>3, <2>3, <3>1
    <3> QED
      BY <2>1, <3>2, <3>3
  <2> QED
    BY <2>2, <2>3
<1> QED
  BY <1>2, <1>3, <1>4, <1>5 DEF qs

\* A callback that has run is gone from the front.
LEMMA PostedTail ==
    ASSUME NEW ps \in Seq(Posting), ps # <<>>
    PROVE  /\ Head(ps) \in Posting /\ Tail(ps) \in Seq(Posting)
           /\ JobsOf(ps) # <<>> /\ Head(JobsOf(ps)) = Head(ps).job
           /\ JobsOf(Tail(ps)) = Tail(JobsOf(ps))
<1>1. Head(ps) = ps[1] /\ 1 \in 1 .. Len(ps) /\ Tail(ps) \in Seq(Posting)
      /\ Len(Tail(ps)) = Len(ps) - 1 /\ \A i \in 1 .. Len(ps) - 1 : Tail(ps)[i] = ps[i + 1]
  OBVIOUS
<1>2. /\ JobsOf(ps) \in Seq(Jobs) /\ Len(JobsOf(ps)) = Len(ps)
      /\ \A i \in 1 .. Len(ps) : JobsOf(ps)[i] = ps[i].job
      /\ JobsOf(Tail(ps)) \in Seq(Jobs) /\ Len(JobsOf(Tail(ps))) = Len(ps) - 1
      /\ \A i \in 1 .. Len(ps) - 1 : JobsOf(Tail(ps))[i] = Tail(ps)[i].job
  BY <1>1, JobsOfType
<1>3. /\ Head(JobsOf(ps)) = JobsOf(ps)[1] /\ JobsOf(ps) # <<>>
      /\ Tail(JobsOf(ps)) \in Seq(Jobs) /\ Len(Tail(JobsOf(ps))) = Len(ps) - 1
      /\ \A i \in 1 .. Len(ps) - 1 : Tail(JobsOf(ps))[i] = JobsOf(ps)[i + 1]
  BY <1>1, <1>2
<1>4. \A i \in 1 .. Len(ps) - 1 : JobsOf(Tail(ps))[i] = Tail(JobsOf(ps))[i]
  <2>1. \A i \in 1 .. Len(ps) - 1 : i + 1 \in 1 .. Len(ps)
    OBVIOUS
  <2> QED
    BY <1>1, <1>2, <1>3, <2>1
<1> QED
  BY <1>1, <1>2, <1>3, <1>4

-----------------------------------------------------------------------------
(* Each step keeps the invariant. *)

\* The jobs in hand: of a batch not yet begun, all; of one gone through, none.
LEMMA HandType ==
    ASSUME batch \in Seq(Jobs), next \in 0 .. Len(batch)
    PROVE  /\ Hand \in Seq(Jobs)
           /\ ToSet(Hand) \subseteq ToSet(batch)
           /\ next = 0 => Hand = batch
           /\ next = Len(batch) => ToSet(Hand) = {}
<1>1. Hand \in Seq(Jobs) /\ ToSet(Hand) = {batch[i] : i \in next + 1 .. Len(batch)}
  BY CutMembers DEF Hand
<1>2. ToSet(batch) = {batch[i] : i \in 1 .. Len(batch)}
  BY Members
<1>3. next = 0 => Hand = batch
  BY DEF Hand
<1>4. next = Len(batch) => next + 1 .. Len(batch) = {}
  OBVIOUS
<1>5. \A i \in next + 1 .. Len(batch) : i \in 1 .. Len(batch)
  OBVIOUS
<1> QED
  BY <1>1, <1>2, <1>3, <1>4, <1>5

LEMMA EmptySequence ==
    ToSet(<<>>) = {} /\ NoRepeats(<<>>) /\ JobsOf(<<>>) = <<>>
BY DEF ToSet, NoRepeats, JobsOf

\* At first no job awaits anything.
LEMMA InitInv == Init => Inv
<1> SUFFICES ASSUME Init PROVE Inv
  OBVIOUS
<1>1. Typed
  BY DEF Init, Typed
<1>2. Distinct
  BY EmptySequence DEF Init, Distinct
<1>3. Awaiting = {} /\ ToSet(Hand) = {}
  BY <1>1, HandType DEF Init, Typed, Awaiting
<1>4. OnePlace
  BY <1>3, EmptySequence DEF Init, OnePlace, Placed
<1>5. EngineOwn
  BY <1>3, EmptySequence DEF Init, EngineOwn, Served
<1>6. WorkerAt
  BY DEF Init, WorkerAt
<1> QED
  BY <1>1, <1>2, <1>4, <1>5, <1>6 DEF Inv

LEMMA SendInv == ASSUME Inv, NEW j \in Jobs, Send(j) PROVE Inv'
<1> USE DEF Inv
<1>1. /\ ready' = ready /\ posted' = posted /\ by_rid' = by_rid /\ waiting' = waiting
      /\ running' = running /\ left' = left /\ batch' = batch /\ next' = next /\ pc' = pc
      /\ future[j] = "none"
  BY DEF Send, engine
<1>2. Hand' = Hand
  BY <1>1 DEF Hand
<1>3. WorkerAt'
  BY <1>1 DEF WorkerAt, Upto
<1>4. j \notin Awaiting /\ j \notin ToSet(waiting) \cup ToSet(running)
  BY <1>1 DEF Awaiting, EngineOwn
<1>5. CASE queue' = Append(queue, j) /\ future' = [future EXCEPT ![j] = "pending"]
  <2>1. /\ queue' \in Seq(Jobs)
        /\ ToSet(queue') = ToSet(queue) \cup {j}
        /\ NoRepeats(queue) /\ j \notin ToSet(queue) => NoRepeats(queue')
    BY <1>5, AppendMembers DEF Typed
  <2>2. Awaiting' = Awaiting \cup {j}
    BY <1>5 DEF Typed, Awaiting
  <2>3. Typed'
    BY <1>1, <1>5, <2>1 DEF Typed
  <2>4. Distinct'
    BY <1>1, <1>4, <2>1 DEF Distinct, OnePlace, Placed
  <2>5. OnePlace'
    BY <1>1, <1>2, <1>4, <2>1, <2>2 DEF OnePlace, Placed
  <2>6. EngineOwn'
    BY <1>1, <1>2, <1>4, <1>5, <2>1 DEF EngineOwn, Served, Typed
  <2> QED
    BY <1>3, <2>3, <2>4, <2>5, <2>6
<1>6. CASE queue' = queue /\ future' = [future EXCEPT ![j] = "refused"]
  <2>1. Awaiting' = Awaiting
    BY <1>1, <1>6 DEF Typed, Awaiting
  <2>2. Typed'
    BY <1>1, <1>6 DEF Typed
  <2>3. Distinct' /\ OnePlace'
    BY <1>1, <1>2, <1>6, <2>1 DEF Distinct, OnePlace
  <2>4. EngineOwn'
    BY <1>1, <1>2, <1>6 DEF EngineOwn, Typed
  <2> QED
    BY <1>3, <2>2, <2>3, <2>4
<1> QED
  BY <1>5, <1>6 DEF Send

LEMMA AnswerInv == ASSUME Inv, Answer PROVE Inv'
<1> USE DEF Inv
<1> DEFINE m == Head(posted)
<1>1. /\ queue' = queue /\ ready' = ready /\ by_rid' = by_rid /\ waiting' = waiting
      /\ running' = running /\ left' = left /\ batch' = batch /\ next' = next /\ pc' = pc
      /\ posted # <<>> /\ posted' = Tail(posted)
  BY DEF Answer, engine
<1>2. /\ m \in Posting /\ posted' \in Seq(Posting) /\ JobsOf(posted) # <<>>
      /\ JobsOf(posted) \in Seq(Jobs) /\ Head(JobsOf(posted)) = m.job
      /\ JobsOf(posted') = Tail(JobsOf(posted))
  BY <1>1, PostedTail, JobsOfType DEF Typed
<1>3. /\ ToSet(JobsOf(posted)) = ToSet(JobsOf(posted')) \cup {m.job}
      /\ NoRepeats(JobsOf(posted')) /\ m.job \notin ToSet(JobsOf(posted'))
  BY <1>2, HeadMembers DEF Distinct
<1>4. m.job \in Jobs /\ m.outcome \in Outcomes
  BY <1>2 DEF Posting
<1> HIDE DEF m
<1>5. m.job \in Awaiting
  BY <1>3 DEF OnePlace, Placed
<1>6. future' = [future EXCEPT ![m.job] = m.outcome]
  BY <1>5 DEF Answer, Awaiting, m
<1>7. Awaiting' = Awaiting \ {m.job}
  BY <1>4, <1>6 DEF Typed, Awaiting, Outcomes
<1>8. Hand' = Hand
  BY <1>1 DEF Hand
<1>9. Typed'
  BY <1>1, <1>2, <1>4, <1>6 DEF Typed
<1>10. Distinct'
  BY <1>1, <1>3 DEF Distinct
<1>11. OnePlace'
  BY <1>1, <1>3, <1>7, <1>8 DEF OnePlace, Placed
<1>12. EngineOwn'
  BY <1>1, <1>4, <1>6, <1>8 DEF EngineOwn, Typed, Outcomes
<1>13. WorkerAt'
  BY <1>1 DEF WorkerAt, Upto
<1> QED
  BY <1>9, <1>10, <1>11, <1>12, <1>13

LEMMA AgainInv == ASSUME Inv, NEW j \in Jobs, Again(j) PROVE Inv'
<1> USE DEF Inv
<1>1. /\ queue' = queue /\ posted' = posted /\ by_rid' = by_rid /\ waiting' = waiting
      /\ running' = running /\ left' = left /\ batch' = batch /\ next' = next /\ pc' = pc
      /\ ready' = [ready EXCEPT ![j] = "no"] /\ future' = [future EXCEPT ![j] = "none"]
      /\ future[j] # "pending" /\ j \notin ToSet(waiting) \cup ToSet(running)
  BY DEF Again, engine
<1>2. Awaiting' = Awaiting
  BY <1>1 DEF Typed, Awaiting
<1>3. Hand' = Hand
  BY <1>1 DEF Hand
<1>4. Typed'
  BY <1>1 DEF Typed
<1>5. Distinct' /\ OnePlace'
  BY <1>1, <1>2, <1>3 DEF Distinct, OnePlace
<1>6. EngineOwn'
  BY <1>1, <1>3 DEF EngineOwn, Typed
<1>7. WorkerAt'
  BY <1>1 DEF WorkerAt, Upto
<1> QED
  BY <1>4, <1>5, <1>6, <1>7

\* Only what a thread that touches no job does.
Untouched == <<queue, posted, by_rid, waiting, running, left, batch, next, future>>

LEMMA TokenizeInv == ASSUME Inv, NEW j \in Jobs, Tokenize(j) PROVE Inv'
<1> USE DEF Inv
<1>1. /\ UNCHANGED Untouched /\ pc' = pc
      /\ ready' \in {[ready EXCEPT ![j] = "ok"], [ready EXCEPT ![j] = "failed"]}
  BY DEF Tokenize, engine, Untouched
<1>2. Hand' = Hand /\ Awaiting' = Awaiting
  BY <1>1 DEF Hand, Awaiting, Untouched
<1>3. Typed'
  BY <1>1 DEF Typed, Untouched
<1>4. Distinct' /\ OnePlace' /\ EngineOwn'
  BY <1>1, <1>2 DEF Distinct, OnePlace, EngineOwn, Untouched
<1>5. WorkerAt'
  BY <1>1 DEF WorkerAt, Upto, Untouched
<1> QED
  BY <1>3, <1>4, <1>5

LEMMA ResumeInv == ASSUME Inv, Resume \/ EndBurst PROVE Inv'
<1> USE DEF Inv
<1>1. UNCHANGED Untouched /\ ready' = ready /\ pc \in {"top", "burst"} /\ pc' \in {"top", "burst"}
  BY DEF Resume, EndBurst, engine, Untouched
<1>2. Hand' = Hand /\ Awaiting' = Awaiting
  BY <1>1 DEF Hand, Awaiting, Untouched
<1>3. Typed'
  BY <1>1 DEF Typed, Untouched
<1>4. Distinct' /\ OnePlace' /\ EngineOwn'
  BY <1>1, <1>2 DEF Distinct, OnePlace, EngineOwn, Untouched
<1>5. WorkerAt'
  BY <1>1 DEF WorkerAt, Upto, Untouched
<1> QED
  BY <1>3, <1>4, <1>5

\* The worker takes some of the queue in hand.
LEMMA HandFilled ==
    ASSUME Inv, pc \in {"top", "burst"},
           batch' \in Seq(Jobs), NoRepeats(batch'), ToSet(batch') \subseteq ToSet(queue),
           queue' = Without(queue, ToSet(batch')),
           UNCHANGED <<ready, future, posted, by_rid, waiting, running, left, next>>,
           pc' \in {"submit", "window", "extra"} \/ (pc' = "prefill" /\ batch' = <<>>)
    PROVE  Inv'
<1> USE DEF Inv
<1>1. batch = <<>> /\ next = 0 /\ next' = 0
  BY DEF WorkerAt, Typed
<1>2. next' \in 0 .. Len(batch')
  BY <1>1
<1>3. ToSet(Hand) = {}
  BY <1>1, HandType DEF Typed
<1>4. Hand' = batch'
  BY <1>1 DEF Hand
<1>5. /\ queue' \in Seq(Jobs) /\ NoRepeats(queue')
      /\ ToSet(queue') = ToSet(queue) \ ToSet(batch')
  <2>1. queue' = Only(queue, Jobs \ ToSet(batch'))
    BY DEF Without
  <2>2. queue \in Seq(Jobs) /\ NoRepeats(queue) /\ ToSet(queue) \subseteq Jobs
    BY Members DEF Typed, Distinct
  <2>3. /\ queue' \in Seq(Jobs) /\ ToSet(queue') = ToSet(queue) \cap (Jobs \ ToSet(batch'))
        /\ NoRepeats(queue')
    BY <2>1, <2>2, OnlyMembers
  <2> QED
    BY <2>2, <2>3
<1>6. Awaiting' = Awaiting
  BY DEF Awaiting
<1>7. Typed'
  BY <1>2, <1>5 DEF Typed
<1>8. Distinct'
  BY <1>5 DEF Distinct
<1>9. OnePlace'
  BY <1>3, <1>4, <1>5, <1>6 DEF OnePlace, Placed
<1>10. EngineOwn'
  BY <1>3, <1>4, <1>5 DEF EngineOwn, Served
<1>11. WorkerAt'
  <2>1. next' < Len(batch') => ToSet(SubSeq(batch', 1, next')) \subseteq by_rid'
    <3>1. SubSeq(batch', 1, next') = <<>>
      BY <1>1
    <3> QED
      BY <3>1, EmptySequence
  <2> QED
    BY <1>1, <2>1 DEF WorkerAt, Upto
<1> QED
  BY <1>7, <1>8, <1>9, <1>10, <1>11

LEMMA TakeInv == ASSUME Inv, Take PROVE Inv'
<1>1. queue \in Seq(Jobs) /\ NoRepeats(queue) /\ queue # <<>>
  BY DEF Inv, Typed, Distinct, Take
<1>2. PICK order \in Orders : batch' = Forced(Admitted(order))
  BY DEF Take
<1>3. /\ order \in Seq(Jobs) /\ NoRepeats(order) /\ ToSet(order) = ToSet(queue)
  BY <1>1, OrderType
<1>4. /\ Admitted(order) \in Seq(Jobs) /\ NoRepeats(Admitted(order))
      /\ ToSet(Admitted(order)) \subseteq ToSet(queue)
  BY <1>3, AdmittedType DEF Admitted
<1>5. Head(queue) \in ToSet(queue) /\ Head(queue) \in Jobs
  BY <1>1, HeadMembers
<1>6. batch' \in Seq(Jobs) /\ NoRepeats(batch') /\ ToSet(batch') \subseteq ToSet(queue)
  <2>1. CASE Admitted(order) = <<>>
    <3>1. batch' = <<Head(queue)>>
      BY <1>2, <2>1 DEF Forced
    <3>2. <<Head(queue)>> \in Seq(Jobs) /\ ToSet(<<Head(queue)>>) = {Head(queue)}
          /\ NoRepeats(<<Head(queue)>>)
      BY <1>5 DEF ToSet, NoRepeats
    <3> QED
      BY <1>5, <3>1, <3>2
  <2>2. CASE Admitted(order) # <<>>
    BY <1>2, <1>4, <2>2 DEF Forced
  <2> QED
    BY <2>1, <2>2
<1>7. /\ pc = "top" /\ queue' = Without(queue, ToSet(batch')) /\ pc' \in {"submit", "window"}
      /\ UNCHANGED <<ready, future, posted, by_rid, waiting, running, left, next>>
  BY DEF Take, engine
<1> QED
  BY <1>6, <1>7, HandFilled

LEMMA PeekInv == ASSUME Inv, Peek PROVE Inv'
<1>1. queue \in Seq(Jobs) /\ NoRepeats(queue)
  BY DEF Inv, Typed, Distinct
<1>2. PICK order \in Orders : batch' = Admitted(order)
  BY DEF Peek
<1>3. /\ order \in Seq(Jobs) /\ NoRepeats(order) /\ ToSet(order) = ToSet(queue)
  BY <1>1, OrderType
<1>4. /\ Admitted(order) \in Seq(Jobs) /\ NoRepeats(Admitted(order))
      /\ ToSet(Admitted(order)) \subseteq ToSet(queue)
  BY <1>3, AdmittedType DEF Admitted
<1>5. /\ pc = "burst" /\ queue' = Without(queue, ToSet(batch'))
      /\ pc' \in {"submit", "window", "extra"} \/ (pc' = "prefill" /\ batch' = <<>>)
      /\ UNCHANGED <<ready, future, posted, by_rid, waiting, running, left, next>>
  BY DEF Peek, engine
<1> QED
  BY <1>2, <1>4, <1>5, HandFilled

LEMMA TakeMoreInv == ASSUME Inv, TakeMore PROVE Inv'
<1> USE DEF Inv
<1> DEFINE j == Head(queue)
<1>1. /\ ready' = ready /\ future' = future /\ posted' = posted /\ by_rid' = by_rid
      /\ waiting' = waiting /\ running' = running /\ left' = left /\ next' = next /\ pc' = pc
      /\ pc = "window" /\ queue # <<>> /\ batch' = Append(batch, j) /\ queue' = Tail(queue)
  BY DEF TakeMore, engine
<1>2. next = 0
  BY <1>1 DEF WorkerAt
<1>3. /\ j \in Jobs /\ j \in ToSet(queue) /\ queue' \in Seq(Jobs) /\ NoRepeats(queue')
      /\ ToSet(queue) = ToSet(queue') \cup {j} /\ j \notin ToSet(queue')
  BY <1>1, HeadMembers DEF Typed, Distinct
<1> HIDE DEF j
<1>4. Hand = batch
  BY <1>2, HandType DEF Typed
<1>5. /\ batch' \in Seq(Jobs) /\ ToSet(batch') = ToSet(batch) \cup {j}
      /\ NoRepeats(batch) /\ j \notin ToSet(batch) => NoRepeats(batch')
  BY <1>1, <1>3, AppendMembers DEF Typed
<1>6. Hand' = batch' /\ next' \in 0 .. Len(batch')
  BY <1>1, <1>2, <1>5 DEF Hand
<1>7. Awaiting' = Awaiting
  BY <1>1 DEF Awaiting
<1>8. Typed'
  BY <1>1, <1>3, <1>5, <1>6 DEF Typed
<1>9. Distinct'
  BY <1>1, <1>3, <1>4, <1>5 DEF Distinct, OnePlace, Placed
<1>10. OnePlace'
  BY <1>1, <1>3, <1>4, <1>5, <1>6, <1>7 DEF OnePlace, Placed
<1>11. EngineOwn'
  BY <1>1, <1>3, <1>4, <1>5, <1>6 DEF EngineOwn, Served
<1>12. WorkerAt'
  <2>1. SubSeq(batch', 1, next') = <<>>
    BY <1>1, <1>2, <1>5
  <2> QED
    BY <1>1, <1>2, <2>1, EmptySequence DEF WorkerAt, Upto
<1> QED
  BY <1>8, <1>9, <1>10, <1>11, <1>12

LEMMA CloseWindowInv == ASSUME ServerAssumption, Inv, CloseWindow PROVE Inv'
<1> USE DEF Inv
<1> DEFINE n == Released(Len(batch))
           rest == SubSeq(batch, n + 1, Len(batch))
<1>1. /\ ready' = ready /\ future' = future /\ posted' = posted /\ by_rid' = by_rid
      /\ waiting' = waiting /\ running' = running /\ left' = left /\ next' = next
      /\ pc = "window" /\ pc' = "submit"
      /\ batch' = SubSeq(batch, 1, n) /\ queue' = rest \o queue
  BY DEF CloseWindow, engine, Upto
<1>2. next = 0
  BY <1>1 DEF WorkerAt
<1>3. n \in 0 .. Len(batch)
  <2>1. Len(batch) \in Nat
    BY DEF Typed
  <2> QED
    BY <2>1, ReleasedType
<1> HIDE DEF n
<1>4. /\ batch' \in Seq(Jobs) /\ rest \in Seq(Jobs)
      /\ ToSet(batch) = ToSet(batch') \cup ToSet(rest)
      /\ NoRepeats(batch') /\ NoRepeats(rest) /\ ToSet(batch') \cap ToSet(rest) = {}
  BY <1>1, <1>3, CutMembers DEF Typed, Distinct
<1> HIDE DEF rest
<1>5. Hand = batch
  BY <1>2, HandType DEF Typed
<1>6. /\ queue' \in Seq(Jobs) /\ ToSet(queue') = ToSet(rest) \cup ToSet(queue)
      /\ ToSet(rest) \cap ToSet(queue) = {} => NoRepeats(queue')
  BY <1>1, <1>4, ConcatMembers DEF Typed, Distinct
<1>7. Hand' = batch' /\ next' \in 0 .. Len(batch')
  BY <1>1, <1>2, <1>4 DEF Hand
<1>8. Awaiting' = Awaiting
  BY <1>1 DEF Awaiting
<1>9. Typed'
  BY <1>1, <1>4, <1>6, <1>7 DEF Typed
<1>10. Distinct'
  BY <1>1, <1>4, <1>5, <1>6 DEF Distinct, OnePlace, Placed
<1>11. OnePlace'
  BY <1>1, <1>4, <1>5, <1>6, <1>7, <1>8 DEF OnePlace, Placed
<1>12. EngineOwn'
  BY <1>1, <1>4, <1>5, <1>6, <1>7 DEF EngineOwn, Served
<1>13. WorkerAt'
  <2>1. SubSeq(batch', 1, next') = <<>>
    BY <1>1, <1>2, <1>4
  <2> QED
    BY <1>1, <1>2, <2>1, EmptySequence DEF WorkerAt, Upto
<1> QED
  BY <1>9, <1>10, <1>11, <1>12, <1>13

\* The next job of the batch, and those gone through and to come.
LEMMA HandStep ==
    ASSUME batch \in Seq(Jobs), NoRepeats(batch), next \in 0 .. Len(batch), next < Len(batch)
    PROVE  LET j == batch[next + 1]
               rest == SubSeq(batch, next + 1 + 1, Len(batch))
           IN  /\ next + 1 \in 0 .. Len(batch) /\ j \in Jobs
               /\ ToSet(Hand) = ToSet(rest) \cup {j} /\ j \notin ToSet(rest)
               /\ ToSet(SubSeq(batch, 1, next + 1)) = ToSet(Upto(batch, next)) \cup {j}
<1> DEFINE m == next + 1
           j == batch[m]
<1>1. m \in 0 .. Len(batch) /\ m \in 1 .. Len(batch) /\ j \in Jobs
  OBVIOUS
<1>2. /\ ToSet(SubSeq(batch, 1, next)) = {batch[i] : i \in 1 .. next}
      /\ ToSet(Hand) = {batch[i] : i \in m .. Len(batch)}
  <2>1. ToSet(SubSeq(batch, 1, next)) = {batch[i] : i \in 1 .. next}
    BY CutMembers
  <2>2. ToSet(SubSeq(batch, next + 1, Len(batch))) = {batch[i] : i \in next + 1 .. Len(batch)}
    BY CutMembers
  <2> QED
    BY <2>1, <2>2 DEF Hand
<1>3. /\ ToSet(SubSeq(batch, 1, m)) = {batch[i] : i \in 1 .. m}
      /\ ToSet(SubSeq(batch, m + 1, Len(batch))) = {batch[i] : i \in m + 1 .. Len(batch)}
  <2> HIDE DEF m
  <2> QED
    BY <1>1, CutMembers
<1>4. /\ \A i \in m .. Len(batch) : i = m \/ i \in m + 1 .. Len(batch)
      /\ \A i \in m + 1 .. Len(batch) : i \in m .. Len(batch) /\ i \in 1 .. Len(batch) /\ i # m
      /\ \A i \in 1 .. m : i = m \/ i \in 1 .. next
      /\ \A i \in 1 .. next : i \in 1 .. m
      /\ m \in m .. Len(batch) /\ m \in 1 .. m
  BY <1>1
<1>5. \A i \in m + 1 .. Len(batch) : batch[i] # j
  BY <1>1, <1>4 DEF NoRepeats
<1> HIDE DEF m
<1>6. ToSet(Hand) = ToSet(SubSeq(batch, m + 1, Len(batch))) \cup {j}
  BY <1>2, <1>3, <1>4
<1>7. j \notin ToSet(SubSeq(batch, m + 1, Len(batch)))
  BY <1>3, <1>5
<1>8. ToSet(SubSeq(batch, 1, m)) = ToSet(SubSeq(batch, 1, next)) \cup {j}
  BY <1>2, <1>3, <1>4
<1> QED
  BY <1>1, <1>6, <1>7, <1>8 DEF m, Upto

LEMMA SubmitInv == ASSUME Inv, Submit PROVE Inv'
<1> USE DEF Inv
<1> DEFINE j == batch[next + 1]
<1>1. /\ queue' = queue /\ ready' = ready /\ future' = future /\ posted' = posted
      /\ running' = running /\ left' = left /\ batch' = batch /\ pc' = pc
      /\ by_rid' = by_rid \cup {j} /\ waiting' = Append(waiting, j) /\ next' = next + 1
      /\ pc \in {"submit", "extra"} /\ next < Len(batch)
  BY DEF Submit, Submitting
<1>2. batch \in Seq(Jobs) /\ NoRepeats(batch) /\ next \in 0 .. Len(batch)
  BY DEF Typed, Distinct
<1>3. /\ next' \in 0 .. Len(batch) /\ j \in Jobs
      /\ ToSet(Hand) = ToSet(Hand') \cup {j} /\ j \notin ToSet(Hand')
      /\ ToSet(Upto(batch', next')) = ToSet(Upto(batch, next)) \cup {j}
  BY <1>1, <1>2, HandStep DEF Hand, Upto
<1> HIDE DEF j
<1>4. j \notin ToSet(waiting) \cup ToSet(running)
  BY <1>3 DEF EngineOwn, Served
<1>5. /\ waiting' \in Seq(Jobs) /\ ToSet(waiting') = ToSet(waiting) \cup {j} /\ NoRepeats(waiting')
  BY <1>1, <1>3, <1>4, AppendMembers DEF Typed, Distinct
<1>6. Awaiting' = Awaiting
  BY <1>1 DEF Awaiting
<1>7. j \in Awaiting
  BY <1>3 DEF OnePlace, Placed
<1>8. Typed'
  BY <1>1, <1>3, <1>5 DEF Typed
<1>9. Distinct'
  BY <1>1, <1>5 DEF Distinct
<1>10. OnePlace'
  BY <1>1, <1>3, <1>6 DEF OnePlace, Placed
<1>11. EngineOwn'
  <2>1. Served(ToSet(queue), ToSet(Hand'), by_rid', ToSet(waiting'), ToSet(running))
    <3>1. j \notin ToSet(queue)
      BY <1>3 DEF OnePlace, Placed
    <3> QED
      BY <1>1, <1>3, <1>4, <1>5, <3>1 DEF EngineOwn, Served
  <2> QED
    BY <1>1, <1>5, <1>7, <2>1 DEF EngineOwn, Awaiting
<1>12. WorkerAt'
  BY <1>1, <1>3 DEF WorkerAt
<1> QED
  BY <1>8, <1>9, <1>10, <1>11, <1>12

LEMMA SubmitFailsInv == ASSUME Inv, SubmitFails PROVE Inv'
<1> USE DEF Inv
<1>1. /\ queue' = queue /\ ready' = ready /\ future' = future /\ waiting' = waiting
      /\ running' = running /\ left' = left /\ batch' = batch /\ pc' = pc
      /\ pc \in {"submit", "extra"} /\ next < Len(batch)
      /\ posted' = posted \o Posts(batch, "error")
      /\ by_rid' = by_rid \ ToSet(batch) /\ next' = Len(batch)
  BY DEF SubmitFails, Submitting, Failed, Unknown, engine
<1>2. ToSet(batch) = ToSet(Upto(batch, next)) \cup ToSet(Hand) /\ ToSet(Upto(batch, next)) \subseteq by_rid
  BY <1>1, CutMembers DEF Hand, Upto, Typed, WorkerAt
<1>3. /\ posted' \in Seq(Posting) /\ JobsOf(posted') = JobsOf(posted) \o batch
      /\ JobsOf(posted) \in Seq(Jobs)
  BY <1>1, PostsType, JobsOfType DEF Typed, Outcomes
<1>4. /\ ToSet(JobsOf(posted')) = ToSet(JobsOf(posted)) \cup ToSet(batch)
      /\ ToSet(JobsOf(posted)) \cap ToSet(batch) = {} => NoRepeats(JobsOf(posted'))
  BY <1>3, ConcatMembers DEF Typed, Distinct
<1>5. ToSet(JobsOf(posted)) \cap ToSet(batch) = {}
  BY <1>2 DEF OnePlace, Placed
<1>6. next' \in 0 .. Len(batch) /\ ToSet(Hand') = {}
  <2>1. next' \in 0 .. Len(batch')
    BY <1>1 DEF Typed
  <2>2. SubSeq(batch', next' + 1, Len(batch')) = <<>>
    BY <1>1 DEF Typed
  <2> QED
    BY <1>1, <2>1, <2>2, EmptySequence DEF Hand
<1>7. Awaiting' = Awaiting
  BY <1>1 DEF Awaiting
<1>8. Typed'
  BY <1>1, <1>3, <1>6 DEF Typed
<1>9. Distinct'
  BY <1>1, <1>4, <1>5 DEF Distinct
<1>10. OnePlace'
  BY <1>1, <1>2, <1>4, <1>6, <1>7 DEF OnePlace, Placed
<1>11. EngineOwn'
  BY <1>1, <1>6 DEF EngineOwn, Served
<1>12. WorkerAt'
  BY <1>1 DEF WorkerAt, Typed
<1> QED
  BY <1>8, <1>9, <1>10, <1>11, <1>12

LEMMA SubmittedInv == ASSUME Inv, Submitted PROVE Inv'
<1> USE DEF Inv
<1>1. /\ queue' = queue /\ ready' = ready /\ future' = future /\ posted' = posted
      /\ by_rid' = by_rid /\ waiting' = waiting /\ running' = running /\ left' = left
      /\ next = Len(batch) /\ batch' = <<>> /\ next' = 0
      /\ pc' \in {"prefill", "burst", "top"}
  BY DEF Submitted, engine
<1>2. ToSet(Hand) = {}
  BY <1>1, HandType DEF Typed
<1>3. ToSet(Hand') = {}
  <2>1. SubSeq(<<>>, 0 + 1, 0) = <<>>
    OBVIOUS
  <2> QED
    BY <1>1, <2>1, EmptySequence DEF Hand
<1>4. Awaiting' = Awaiting
  BY <1>1 DEF Awaiting
<1>5. Typed'
  BY <1>1 DEF Typed
<1>6. Distinct'
  BY <1>1, EmptySequence DEF Distinct
<1>7. OnePlace'
  BY <1>1, <1>2, <1>3, <1>4 DEF OnePlace, Placed
<1>8. EngineOwn'
  BY <1>1, <1>2, <1>3 DEF EngineOwn, Served
<1>9. WorkerAt'
  BY <1>1 DEF WorkerAt
<1> QED
  BY <1>5, <1>6, <1>7, <1>8, <1>9

\* Requests of the engine that complete are answered if they are still known.
LEMMA CompleteInv ==
    ASSUME Inv, batch = <<>>, NEW done \in Seq(Jobs), NoRepeats(done), Complete(done),
           waiting' \in Seq(Jobs), running' \in Seq(Jobs), NoRepeats(waiting'), NoRepeats(running'),
           ToSet(waiting') \cap ToSet(running') = {},
           ToSet(waiting) \cup ToSet(running) = ToSet(waiting') \cup ToSet(running') \cup ToSet(done),
           left' \in [Jobs -> Nat], \A j \in ToSet(running') : left'[j] > 0,
           UNCHANGED <<queue, ready, future, batch, next>>,
           pc' \in {"decode", "burst"}
    PROVE  Inv'
<1> USE DEF Inv
<1> DEFINE known == Only(done, by_rid)
<1>1. posted' = posted \o Posts(known, "result") /\ by_rid' = by_rid \ ToSet(done)
  BY DEF Complete, Completed, Unknown
<1>2. known \in Seq(Jobs) /\ NoRepeats(known) /\ ToSet(known) = ToSet(done) \cap by_rid
  BY OnlyMembers
<1> HIDE DEF known
<1>3. /\ posted' \in Seq(Posting) /\ JobsOf(posted') = JobsOf(posted) \o known
      /\ JobsOf(posted) \in Seq(Jobs)
  BY <1>1, <1>2, PostsType, JobsOfType DEF Typed, Outcomes
<1>4. /\ ToSet(JobsOf(posted')) = ToSet(JobsOf(posted)) \cup ToSet(known)
      /\ ToSet(JobsOf(posted)) \cap ToSet(known) = {} => NoRepeats(JobsOf(posted'))
  BY <1>2, <1>3, ConcatMembers DEF Distinct
<1>5. ToSet(JobsOf(posted)) \cap ToSet(known) = {}
  BY <1>2 DEF OnePlace, Placed
<1>6. Hand' = Hand /\ Awaiting' = Awaiting
  BY DEF Hand, Awaiting
<1>7. Typed'
  BY <1>1, <1>3 DEF Typed
<1>8. Distinct'
  BY <1>4, <1>5 DEF Distinct
<1>9. OnePlace'
  BY <1>1, <1>2, <1>4, <1>6 DEF OnePlace, Placed
<1>10. EngineOwn'
  BY <1>1, <1>6 DEF EngineOwn, Served
<1>11. WorkerAt'
  <2>1. batch' = <<>> /\ Len(batch') = 0 /\ next' \in 0 .. 0
    BY <1>7 DEF Typed
  <2> QED
    BY <2>1 DEF WorkerAt
<1> QED
  BY <1>7, <1>8, <1>9, <1>10, <1>11

LEMMA PrefillInv == ASSUME ServerAssumption, Inv, Prefill PROVE Inv'
<1> USE DEF Inv
<1> DEFINE k == IF WantsPrefill THEN PrefillCount ELSE 0
           rs == SubSeq(waiting, 1, k)
           done == Only(rs, {j \in Jobs : Gen[j] = 0})
           on == Only(rs, {j \in Jobs : Gen[j] > 0})
<1>1. /\ pc = "prefill" /\ pc' = "decode" /\ UNCHANGED <<queue, ready, future, batch, next>>
      /\ waiting' = SubSeq(waiting, k + 1, Len(waiting)) /\ running' = running \o on
      /\ left' = [j \in Jobs |-> IF j \in ToSet(rs) THEN Gen[j] ELSE left[j]]
      /\ Complete(done)
  BY DEF Prefill, GoesOn, Upto
<1>2. k \in 0 .. Len(waiting)
  <2>1. 0 \in 0 .. Len(waiting)
    BY DEF Typed
  <2> QED
    BY <2>1, PrefillCountType DEF Typed
<1> HIDE DEF k
<1>3. /\ rs \in Seq(Jobs) /\ NoRepeats(rs) /\ waiting' \in Seq(Jobs) /\ NoRepeats(waiting')
      /\ ToSet(waiting) = ToSet(rs) \cup ToSet(waiting') /\ ToSet(rs) \cap ToSet(waiting') = {}
  BY <1>1, <1>2, CutMembers DEF Typed, Distinct
<1> HIDE DEF rs
<1>4. /\ done \in Seq(Jobs) /\ NoRepeats(done)
      /\ ToSet(done) = ToSet(rs) \cap {j \in Jobs : Gen[j] = 0}
  BY <1>3, OnlyMembers
<1>5. /\ on \in Seq(Jobs) /\ NoRepeats(on)
      /\ ToSet(on) = ToSet(rs) \cap {j \in Jobs : Gen[j] > 0}
  BY <1>3, OnlyMembers
<1> HIDE DEF done, on
<1>6. \A j \in Jobs : Gen[j] \in Nat
  BY DEF ServerAssumption
<1>7. ToSet(rs) \subseteq Jobs /\ ToSet(running) \subseteq Jobs
  BY <1>3, Members DEF Typed
<1>8. ToSet(rs) = ToSet(done) \cup ToSet(on)
  BY <1>4, <1>5, <1>6, <1>7
<1>9. ToSet(waiting) \cap ToSet(running) = {}
  BY DEF EngineOwn, Served
<1>10. /\ running' \in Seq(Jobs) /\ ToSet(running') = ToSet(running) \cup ToSet(on)
       /\ NoRepeats(running')
  <2>1. ToSet(running) \cap ToSet(on) = {}
    BY <1>3, <1>5, <1>9
  <2> QED
    BY <1>1, <1>5, <2>1, ConcatMembers DEF Typed, Distinct
<1>11. left' \in [Jobs -> Nat]
  BY <1>1, <1>6 DEF Typed
<1>12. ASSUME NEW j \in ToSet(running') PROVE left'[j] > 0
  <2>1. CASE j \in ToSet(on)
    BY <1>1, <1>5, <1>7, <2>1
  <2>2. CASE j \in ToSet(running)
    <3>1. j \notin ToSet(rs) /\ j \in Jobs /\ left[j] > 0
      BY <1>3, <1>7, <1>9, <2>2 DEF EngineOwn
    <3> QED
      BY <1>1, <3>1
  <2> QED
    BY <1>10, <2>1, <2>2
<1>13. ToSet(waiting') \cap ToSet(running') = {}
  BY <1>3, <1>5, <1>9, <1>10
<1>14. ToSet(waiting) \cup ToSet(running) = ToSet(waiting') \cup ToSet(running') \cup ToSet(done)
  BY <1>3, <1>8, <1>10
<1>15. batch = <<>>
  BY <1>1 DEF WorkerAt
<1> QED
  BY <1>1, <1>3, <1>4, <1>10, <1>11, <1>12, <1>13, <1>14, <1>15, CompleteInv

LEMMA DecodeInv == ASSUME Inv, Decode PROVE Inv'
<1> USE DEF Inv
<1> DEFINE done == Only(running, {j \in Jobs : left[j] = 1})
<1>1. /\ pc = "decode" /\ pc' = "burst" /\ UNCHANGED <<queue, ready, future, batch, next>>
      /\ waiting' = waiting /\ running' = Only(running, {j \in Jobs : left[j] > 1})
      /\ left' = [j \in Jobs |-> IF j \in ToSet(running) THEN left[j] - 1 ELSE left[j]]
      /\ Complete(done)
  BY DEF Decode
<1>2. /\ done \in Seq(Jobs) /\ NoRepeats(done)
      /\ ToSet(done) = ToSet(running) \cap {j \in Jobs : left[j] = 1}
  BY OnlyMembers DEF Typed, Distinct
<1> HIDE DEF done
<1>3. /\ running' \in Seq(Jobs) /\ NoRepeats(running')
      /\ ToSet(running') = ToSet(running) \cap {j \in Jobs : left[j] > 1}
  BY <1>1, OnlyMembers DEF Typed, Distinct
<1>4. ToSet(running) \subseteq Jobs /\ \A j \in ToSet(running) : left[j] \in Nat /\ left[j] > 0
  BY Members DEF Typed, EngineOwn
<1>5. ToSet(running) = ToSet(running') \cup ToSet(done)
  BY <1>2, <1>3, <1>4
<1>6. left' \in [Jobs -> Nat]
  BY <1>1, <1>4 DEF Typed
<1>7. \A j \in ToSet(running') : left'[j] > 0
  BY <1>1, <1>3, <1>4
<1>8. ToSet(waiting') \cap ToSet(running') = {}
  BY <1>1, <1>3 DEF EngineOwn, Served
<1>9. ToSet(waiting) \cup ToSet(running) = ToSet(waiting') \cup ToSet(running') \cup ToSet(done)
  BY <1>1, <1>5
<1>10. waiting' \in Seq(Jobs) /\ NoRepeats(waiting') /\ batch = <<>>
  BY <1>1 DEF Typed, Distinct, WorkerAt
<1> QED
  BY <1>1, <1>2, <1>3, <1>6, <1>7, <1>8, <1>9, <1>10, CompleteInv

LEMMA EngineRaisesInv == ASSUME Inv, EngineRaises PROVE Inv'
<1> USE DEF Inv
<1> DEFINE all == SetToSeq(by_rid)
<1>1. /\ queue' = queue /\ ready' = ready /\ future' = future /\ left' = left
      /\ batch' = batch /\ next' = next /\ pc \in {"prefill", "decode"} /\ pc' = "top"
      /\ posted' = posted \o Posts(all, "error") /\ by_rid' = {}
      /\ waiting' = <<>> /\ running' = <<>>
  BY DEF EngineRaises, Failed
<1>2. IsFiniteSet(by_rid)
  <2>1. IsFiniteSet(ToSet(waiting)) /\ IsFiniteSet(ToSet(running))
    BY MembersFinite DEF Typed
  <2>2. IsFiniteSet(ToSet(waiting) \cup ToSet(running))
    BY <2>1, FS_Union
  <2>3. by_rid \subseteq ToSet(waiting) \cup ToSet(running)
    BY DEF EngineOwn, Served
  <2> QED
    BY <2>2, <2>3, FS_Subset
<1>3. all \in Seq(Jobs) /\ ToSet(all) = by_rid /\ NoRepeats(all)
  BY <1>2, ListedSet DEF Typed
<1> HIDE DEF all
<1>4. /\ posted' \in Seq(Posting) /\ JobsOf(posted') = JobsOf(posted) \o all
      /\ JobsOf(posted) \in Seq(Jobs)
  BY <1>1, <1>3, PostsType, JobsOfType DEF Typed, Outcomes
<1>5. /\ ToSet(JobsOf(posted')) = ToSet(JobsOf(posted)) \cup by_rid
      /\ ToSet(JobsOf(posted)) \cap by_rid = {} => NoRepeats(JobsOf(posted'))
  BY <1>3, <1>4, ConcatMembers DEF Distinct
<1>6. ToSet(JobsOf(posted)) \cap by_rid = {}
  BY DEF OnePlace, Placed
<1>7. Hand' = Hand /\ Awaiting' = Awaiting
  BY <1>1 DEF Hand, Awaiting
<1>8. Typed'
  BY <1>1, <1>4 DEF Typed
<1>9. Distinct'
  BY <1>1, <1>5, <1>6, EmptySequence DEF Distinct
<1>10. OnePlace'
  BY <1>1, <1>5, <1>7 DEF OnePlace, Placed
<1>11. EngineOwn'
  BY <1>1, <1>7, EmptySequence DEF EngineOwn, Served
<1>12. WorkerAt'
  <2>1. batch' = <<>> /\ Len(batch') = 0 /\ next' \in 0 .. 0
    BY <1>1, <1>8 DEF Typed, WorkerAt
  <2> QED
    BY <2>1 DEF WorkerAt
<1> QED
  BY <1>8, <1>9, <1>10, <1>11, <1>12

-----------------------------------------------------------------------------
(* The theorems. *)

\* Every step of the server keeps the invariant, and so does no step.
LEMMA NextInv == ASSUME ServerAssumption, Inv, [Next]_vars PROVE Inv'
<1>1. ASSUME NEW j \in Jobs, Send(j) \/ Again(j) \/ Tokenize(j) PROVE Inv'
  BY <1>1, SendInv, AgainInv, TokenizeInv
<1>2. CASE Answer
  BY <1>2, AnswerInv
<1>3. CASE WorkerStep
  BY <1>3, TakeInv, TakeMoreInv, CloseWindowInv, SubmitInv, SubmitFailsInv, SubmittedInv,
     ResumeInv, PeekInv, PrefillInv, DecodeInv DEF WorkerStep
<1>4. CASE EngineRaises
  BY <1>4, EngineRaisesInv
<1>5. CASE UNCHANGED vars
  <2>1. UNCHANGED Untouched /\ ready' = ready /\ pc' = pc
    BY <1>5 DEF vars, Untouched
  <2>2. Hand' = Hand /\ Awaiting' = Awaiting
    BY <2>1 DEF Hand, Awaiting, Untouched
  <2> QED
    BY <2>1, <2>2
    DEF Inv, Typed, Distinct, OnePlace, EngineOwn, WorkerAt, Upto, Untouched
<1> QED
  BY <1>1, <1>2, <1>3, <1>4, <1>5 DEF Next

\* The jobs are where the server's bookkeeping says they are, in every state.
THEOREM Invariance == Spec => []Inv
<1>1. Init => Inv
  BY InitInv
<1>2. Inv /\ [Next]_vars => Inv'
  BY NextInv, ServerAssumption
<1> QED
  BY <1>1, <1>2, PTL DEF Spec

\* A job that awaits its answer is in exactly one place, whatever the batching
\* picks, whichever jobs fail to tokenize and whenever the engine raises: no
\* request is lost on an error path or answered twice (api.py:402-426, 534-604).
THEOREM EveryJobIsInOnePlace == Spec => []AwaitedOnce
<1>1. Inv => AwaitedOnce
  <2> SUFFICES ASSUME Inv, NEW j \in Jobs, future[j] = "pending"
               PROVE  Count(queue, j) + InHand(j) + (IF j \in by_rid THEN 1 ELSE 0) + PostsOf(j) = 1
    BY DEF AwaitedOnce
  <2> USE DEF Inv
  <2>1. Count(queue, j) = IF j \in ToSet(queue) THEN 1 ELSE 0
    BY OccursOnce DEF Count, Typed, Distinct
  <2>2. Hand \in Seq(Jobs) /\ NoRepeats(Hand)
    BY CutMembers DEF Hand, Typed, Distinct
  <2>3. InHand(j) = IF j \in ToSet(Hand) THEN 1 ELSE 0
    <3>1. InHand(j) = Cardinality({i \in 1 .. Len(Hand) : Hand[i] = j})
      BY DEF InHand, Count, Hand
    <3> QED
      BY <2>2, <3>1, OccursOnce
  <2>4. PostsOf(j) = IF j \in ToSet(JobsOf(posted)) THEN 1 ELSE 0
    <3>1. /\ JobsOf(posted) \in Seq(Jobs) /\ Len(JobsOf(posted)) = Len(posted)
          /\ \A i \in 1 .. Len(posted) : JobsOf(posted)[i] = posted[i].job
      BY JobsOfType DEF Typed
    <3>2. PostsOf(j) = Cardinality({i \in 1 .. Len(JobsOf(posted)) : JobsOf(posted)[i] = j})
      <4>1. {i \in 1 .. Len(posted) : posted[i].job = j}
              = {i \in 1 .. Len(JobsOf(posted)) : JobsOf(posted)[i] = j}
        BY <3>1
      <4> QED
        BY <4>1 DEF PostsOf
    <3>3. NoRepeats(JobsOf(posted))
      BY DEF Distinct
    <3> QED
      BY <3>1, <3>2, <3>3, OccursOnce
  <2>5. j \in ToSet(queue) \cup ToSet(Hand) \cup by_rid \cup ToSet(JobsOf(posted))
    BY DEF OnePlace, Placed, Awaiting
  <2> QED
    BY <2>1, <2>3, <2>4, <2>5 DEF OnePlace, Placed
<1> QED
  BY <1>1, Invariance, PTL

\* A callback finds its future pending: no answer is thrown away, and no job
\* gets two (api.py:606-620).
THEOREM AnswersReachTheirJobs == Spec => []NoAnswerWasted
<1>1. Inv => NoAnswerWasted
  <2> SUFFICES ASSUME Inv, NEW i \in 1 .. Len(posted) PROVE future[posted[i].job] = "pending"
    BY DEF NoAnswerWasted
  <2>1. /\ JobsOf(posted) \in Seq(Jobs) /\ Len(JobsOf(posted)) = Len(posted)
        /\ JobsOf(posted)[i] = posted[i].job
    BY JobsOfType DEF Inv, Typed
  <2>2. posted[i].job \in ToSet(JobsOf(posted))
    BY <2>1, Members
  <2> QED
    BY <2>2 DEF Inv, OnePlace, Placed, Awaiting
<1> QED
  BY <1>1, Invariance, PTL

\* A job the worker still knows by its rid has one request with the engine,
\* waiting or running: it is never left without one and never served twice
\* (api.py:412, 548-599).
THEOREM KnownJobsAreServed == Spec => []KnownIsServed
<1>1. Inv => KnownIsServed
  <2> SUFFICES ASSUME Inv, NEW j \in by_rid PROVE Count(waiting, j) + Count(running, j) = 1
    BY DEF KnownIsServed
  <2> USE DEF Inv
  <2>1. Count(waiting, j) = IF j \in ToSet(waiting) THEN 1 ELSE 0
    BY OccursOnce DEF Count, Typed, Distinct
  <2>2. Count(running, j) = IF j \in ToSet(running) THEN 1 ELSE 0
    BY OccursOnce DEF Count, Typed, Distinct
  <2> QED
    BY <2>1, <2>2 DEF EngineOwn, Served
<1> QED
  BY <1>1, Invariance, PTL

-----------------------------------------------------------------------------
(* The slot budget. *)

\* Between bursts nothing is left in the engine: no burst met its step limit
\* with work left.
BurstsDrain == pc = "top" => ~Busy

\* What runs, waits or is about to be submitted fits the slots together.
Budget ==
    /\ Used + Rows(Hand) <= Slots
    /\ pc = "window" => ~Busy

LEMMA BudgetTypes ==
    ASSUME ServerAssumption, Inv
    PROVE  /\ running \in Seq(Jobs) /\ waiting \in Seq(Jobs) /\ Hand \in Seq(Jobs)
           /\ Rows(running) \in Nat /\ Rows(waiting) \in Nat /\ Rows(Hand) \in Nat
           /\ Slots \in Nat /\ Rows(<<>>) = 0 /\ next \in 0 .. Len(batch) /\ batch \in Seq(Jobs)
<1>1. running \in Seq(Jobs) /\ waiting \in Seq(Jobs) /\ Hand \in Seq(Jobs)
      /\ next \in 0 .. Len(batch) /\ batch \in Seq(Jobs)
  BY HandType DEF Inv, Typed
<1>2. Rows(running) \in Nat /\ Rows(waiting) \in Nat /\ Rows(Hand) \in Nat /\ Rows(<<>>) = 0
  BY <1>1, RowsType
<1> QED
  BY <1>1, <1>2 DEF ServerAssumption

\* An idle engine has no rows.
LEMMA IdleRows ==
    ASSUME ServerAssumption, ~Busy
    PROVE  Used = 0 /\ UsedReqs = 0
<1>1. waiting = <<>> /\ running = <<>>
  BY DEF Busy
<1>2. <<>> \in Seq(Jobs) /\ Len(<<>>) = 0
  OBVIOUS
<1>3. Rows(<<>>) = 0
  BY <1>2, RowsType
<1> QED
  BY <1>1, <1>2, <1>3 DEF Used, UsedReqs

LEMMA TakeBudget == ASSUME ServerAssumption, Inv, Inv', Budget, BurstsDrain, Take PROVE Budget'
<1>1. /\ pc = "top" /\ ~Busy /\ queue # <<>> /\ waiting' = waiting /\ running' = running
      /\ next' = next
  BY DEF Take, BurstsDrain, engine
<1>2. Used = 0 /\ UsedReqs = 0
  BY <1>1, IdleRows
<1>3. PICK order \in Orders : batch' = Forced(Admitted(order))
  BY DEF Take
<1>4. order \in Seq(Jobs)
  BY OrderType DEF Inv, Typed, Distinct
<1>5. Slots \in Nat /\ 0 <= Slots
  BY DEF ServerAssumption
<1>6. Rows(Admitted(order)) <= Slots
  <2>1. 0 + Rows(AdmittedBeside(0, 0, order)) <= Slots
    BY <1>4, <1>5, AdmittedFits
  <2>2. Admitted(order) = AdmittedBeside(0, 0, order)
    BY <1>2 DEF Admitted
  <2>3. Rows(AdmittedBeside(0, 0, order)) \in Nat
    BY <1>4, AdmittedType, RowsType
  <2> QED
    BY <2>1, <2>2, <2>3
<1>7. Rows(batch') <= Slots
  <2>1. CASE Admitted(order) = <<>>
    <3>1. PICK j \in Jobs : j = Head(queue)
      BY <1>1, HeadMembers DEF Inv, Typed
    <3>2. batch' = <<j>>
      BY <1>3, <2>1, <3>1 DEF Forced
    <3>3. Append(<<>>, j) = <<j>> /\ <<>> \in Seq(Jobs)
      OBVIOUS
    <3>4. Rows(<<j>>) = Rows(<<>>) + N[j] /\ Rows(<<>>) = 0
      BY <3>3, RowsAppend, RowsType
    <3>5. N[j] \in Nat /\ N[j] <= Slots
      BY DEF ServerAssumption
    <3> QED
      BY <3>2, <3>4, <3>5
  <2>2. CASE Admitted(order) # <<>>
    BY <1>3, <1>6, <2>2 DEF Forced
  <2> QED
    BY <2>1, <2>2
<1>8. batch = <<>> /\ next = 0
  BY <1>1 DEF Inv, WorkerAt, Typed
<1>9. Hand' = batch' /\ batch' \in Seq(Jobs)
  BY <1>1, <1>8 DEF Hand, Inv, Typed
<1>10. Used' = 0 /\ ~Busy'
  BY <1>1, <1>2 DEF Used, Busy
<1>11. Rows(Hand') <= Slots /\ Rows(Hand') \in Nat
  BY <1>7, <1>9, RowsType
<1> QED
  BY <1>10, <1>11 DEF Budget

LEMMA TakeMoreBudget == ASSUME ServerAssumption, Inv, Inv', Budget, TakeMore PROVE Budget'
<1>1. /\ pc = "window" /\ pc' = pc /\ queue # <<>> /\ waiting' = waiting /\ running' = running
      /\ next' = next /\ batch' = Append(batch, Head(queue))
      /\ CanAdmit(Rows(batch), Len(batch), N[Head(queue)])
  BY DEF TakeMore, engine
<1>2. ~Busy /\ ~Busy' /\ Used = 0 /\ Used' = 0
  BY <1>1, IdleRows DEF Budget, Busy, Used
<1>3. PICK j \in Jobs : j = Head(queue)
  BY <1>1, HeadMembers DEF Inv, Typed
<1>4. batch \in Seq(Jobs) /\ next = 0 /\ Len(batch) \in Nat
  BY <1>1 DEF Inv, Typed, WorkerAt
<1>5. batch' \in Seq(Jobs) /\ Hand' = batch'
  BY <1>1, <1>3, <1>4 DEF Hand
<1>6. PICK a \in Nat, b \in Nat : a = Rows(batch) /\ b = N[j] /\ b <= Slots
  BY <1>4, RowsType DEF ServerAssumption
<1>7. Rows(batch') = a + b
  BY <1>1, <1>3, <1>4, <1>6, RowsAppend
<1>8. CASE Len(batch) > 0
  <2>1. a + b <= Slots
    BY <1>1, <1>3, <1>6, <1>8 DEF CanAdmit
  <2> QED
    BY <1>1, <1>2, <1>5, <1>7, <2>1 DEF Budget
<1>9. CASE ~(Len(batch) > 0)
  <2>1. batch = <<>>
    BY <1>4, <1>9
  <2>2. a = 0
    BY <1>4, <1>6, <2>1, RowsType
  <2> QED
    BY <1>1, <1>2, <1>5, <1>6, <1>7, <2>2 DEF Budget
<1> QED
  BY <1>8, <1>9

LEMMA CloseWindowBudget ==
    ASSUME ServerAssumption, Inv, Inv', Budget, CloseWindow
    PROVE  Budget'
<1> DEFINE n == Released(Len(batch))
<1>1. /\ pc = "window" /\ pc' = "submit" /\ waiting' = waiting /\ running' = running
      /\ next' = next /\ batch' = SubSeq(batch, 1, n)
  BY DEF CloseWindow, engine, Upto
<1>2. ~Busy /\ Used = 0 /\ Used' = 0
  BY <1>1, IdleRows DEF Budget, Busy, Used
<1>3. batch \in Seq(Jobs) /\ next = 0 /\ Len(batch) \in Nat
  BY <1>1 DEF Inv, Typed, WorkerAt
<1>4. n \in 0 .. Len(batch)
  BY <1>3, ReleasedType
<1> HIDE DEF n
<1>5. /\ SubSeq(batch, 1, n) \in Seq(Jobs) /\ SubSeq(batch, n + 1, Len(batch)) \in Seq(Jobs)
  BY <1>3, <1>4, CutMembers
<1>6. Hand' = batch' /\ Hand = batch
  BY <1>1, <1>3, <1>5 DEF Hand
<1>7. PICK a \in Nat, b \in Nat :
         /\ a = Rows(SubSeq(batch, 1, n)) /\ b = Rows(SubSeq(batch, n + 1, Len(batch)))
  BY <1>5, RowsType
<1>8. a + b = Rows(batch)
  BY <1>3, <1>4, <1>7, RowsCut
<1>9. a + b <= Slots
  <2>1. 0 + Rows(batch) <= Slots
    BY <1>2, <1>6 DEF Budget
  <2> QED
    BY <1>8, <2>1
<1>10. a <= Slots
  BY <1>9 DEF ServerAssumption
<1>11. Used' + Rows(Hand') = 0 + a
  BY <1>1, <1>2, <1>6, <1>7
<1> QED
  BY <1>1, <1>10, <1>11 DEF Budget

LEMMA SubmitBudget == ASSUME ServerAssumption, Inv, Inv', Budget, Submit PROVE Budget'
<1> DEFINE j == batch[next + 1]
<1>1. /\ running' = running /\ batch' = batch /\ pc' = pc /\ pc \in {"submit", "extra"}
      /\ waiting' = Append(waiting, j) /\ next' = next + 1 /\ next < Len(batch)
  BY DEF Submit, Submitting
<1>2. batch \in Seq(Jobs) /\ next \in 0 .. Len(batch) /\ Len(batch) \in Nat /\ j \in Jobs
  BY <1>1 DEF Inv, Typed
<1>3. Rows(Hand) = N[j] + Rows(Hand')
  <2>1. PICK m \in Nat : m = next + 1 /\ m \in 1 .. Len(batch) /\ next \in Nat
    BY <1>1, <1>2
  <2>2. SubSeq(batch, next + 1, Len(batch)) = <<j>> \o SubSeq(batch, m + 1, Len(batch))
    <3>1. SubSeq(batch, m, Len(batch)) = <<batch[m]>> \o SubSeq(batch, m + 1, Len(batch))
      <4>1. Len(batch) \in m .. Len(batch)
        BY <2>1, <1>2
      <4> QED
        BY <1>2, <2>1, <4>1, SubSeqRecursiveFirst
    <3> QED
      BY <2>1, <3>1
  <2>3. PICK rest \in Seq(Jobs) : rest = SubSeq(batch, m + 1, Len(batch))
    <3>1. m \in 0 .. Len(batch)
      BY <2>1
    <3> QED
      BY <1>2, <3>1, CutMembers
  <2>4. <<j>> \in Seq(Jobs) /\ <<>> \in Seq(Jobs) /\ Append(<<>>, j) = <<j>>
    BY <1>2
  <2>5. Rows(<<j>>) = N[j]
    <3>1. PICK i \in Jobs : i = j
      BY <1>2
    <3>2. N[i] \in Nat
      BY DEF ServerAssumption
    <3>4. <<>> \in Seq(Jobs)
      OBVIOUS
    <3>5. Rows(Append(<<>>, i)) = Rows(<<>>) + N[i]
      BY <3>4, RowsAppend
    <3>6. Rows(<<>>) = 0
      BY <3>4, RowsType
    <3>3. Rows(Append(<<>>, i)) = N[i]
      BY <3>2, <3>5, <3>6
    <3> QED
      BY <2>4, <3>1, <3>3
  <2>6. Rows(<<j>> \o rest) = Rows(<<j>>) + Rows(rest)
    BY <2>3, <2>4, RowsConcat
  <2>7. Hand' = rest /\ Hand = <<j>> \o rest
    BY <1>1, <2>1, <2>2, <2>3 DEF Hand
  <2> QED
    BY <2>5, <2>6, <2>7
<1>4. Rows(waiting') = Rows(waiting) + N[j]
  BY <1>1, <1>2, RowsAppend DEF Inv, Typed
<1> HIDE DEF j
<1>5. PICK a \in Nat, b \in Nat, c \in Nat, d \in Nat :
         a = Rows(running) /\ b = Rows(waiting) /\ c = N[j] /\ d = Rows(Hand')
  <2>1. SubSeq(batch', next' + 1, Len(batch')) \in Seq(Jobs)
    <3>1. batch' \in Seq(Jobs) /\ next' \in 0 .. Len(batch')
      BY DEF Inv, Typed
    <3> QED
      BY <3>1, CutMembers
  <2>2. Rows(Hand') \in Nat
    BY <2>1, RowsType DEF Hand
  <2>3. N[j] \in Nat
    BY <1>2 DEF ServerAssumption
  <2>4. Rows(running) \in Nat /\ Rows(waiting) \in Nat
    BY BudgetTypes
  <2> QED
    BY <2>2, <2>3, <2>4
<1>6. (a + b) + (c + d) <= Slots
  BY <1>3, <1>5 DEF Budget, Used
<1>7. (a + (b + c)) + d <= Slots
  BY <1>6
<1>8. Used' = a + (b + c)
  BY <1>1, <1>4, <1>5 DEF Used
<1> QED
  BY <1>1, <1>5, <1>7, <1>8 DEF Budget

\* A step after which the hand is empty and the engine has no more rows.
LEMMA FewerRows ==
    ASSUME ServerAssumption, Inv, Inv', Budget, pc' # "window",
           Rows(Hand') = 0, Used' \in Nat, Used' <= Used
    PROVE  Budget'
<1>1. PICK a \in Nat, b \in Nat : a = Used /\ b = Rows(Hand)
  BY BudgetTypes DEF Used
<1>2. a + b <= Slots /\ Slots \in Nat
  BY <1>1, BudgetTypes DEF Budget
<1>3. PICK c \in Nat : c = Used' /\ c <= a
  BY <1>1
<1>5. PICK n \in Nat : n = Slots
  BY <1>2
<1>6. a + b <= n /\ c <= a => c + 0 <= n
  OBVIOUS
<1>4. c + 0 <= Slots
  BY <1>2, <1>3, <1>5, <1>6, Zenon
<1> QED
  BY <1>3, <1>4 DEF Budget

LEMMA SubmitEndsBudget ==
    ASSUME ServerAssumption, Inv, Inv', Budget, SubmitFails \/ Submitted
    PROVE  Budget'
<1>1. /\ waiting' = waiting /\ running' = running /\ pc' # "window" /\ pc # "window"
      /\ next' = Len(batch')
  BY DEF SubmitFails, Submitted, Submitting, engine
<1>2. Used' = Used /\ Used \in Nat
  BY <1>1, BudgetTypes DEF Used
<1>3. Rows(Hand') = 0
  <2>1. batch' \in Seq(Jobs)
    BY DEF Inv, Typed
  <2>2. Hand' = <<>>
    BY <1>1, <2>1 DEF Hand
  <2> QED
    BY <2>2, BudgetTypes
<1> QED
  BY <1>1, <1>2, <1>3, FewerRows

LEMMA PeekBudget == ASSUME ServerAssumption, Inv, Inv', Budget, Peek PROVE Budget'
<1>1. /\ pc = "burst" /\ pc' # "window" /\ waiting' = waiting /\ running' = running
      /\ next' = next
  BY DEF Peek, engine
<1>2. PICK order \in Orders : batch' = Admitted(order)
  BY DEF Peek
<1>3. order \in Seq(Jobs)
  BY OrderType DEF Inv, Typed, Distinct
<1>4. batch = <<>> /\ next = 0
  BY <1>1 DEF Inv, WorkerAt, Typed
<1>5. Hand' = batch' /\ Hand = <<>>
  BY <1>1, <1>4 DEF Hand, Inv, Typed
<1>6. Used \in Nat /\ Used <= Slots
  <2>1. PICK a \in Nat : a = Used
    BY BudgetTypes DEF Used
  <2>2. a + 0 <= Slots
    BY <1>5, <2>1, BudgetTypes DEF Budget
  <2> QED
    BY <2>1, <2>2
<1>7. UsedReqs \in Nat /\ (UsedReqs = 0 => Used = 0)
  <2>1. Len(running) \in Nat /\ Len(waiting) \in Nat
    BY DEF Inv, Typed
  <2>2. UsedReqs = 0 => running = <<>> /\ waiting = <<>>
    BY <2>1 DEF UsedReqs, Inv, Typed
  <2> QED
    BY <2>1, <2>2, IdleRows DEF UsedReqs, Busy
<1>8. Used + Rows(AdmittedBeside(Used, UsedReqs, order)) <= Slots
  <2> HIDE DEF Used, UsedReqs
  <2> QED
    BY <1>3, <1>6, <1>7, AdmittedFits
<1>9. Used' = Used
  BY <1>1 DEF Used
<1> QED
  BY <1>1, <1>2, <1>5, <1>8, <1>9 DEF Budget, Admitted

LEMMA PrefillBudget == ASSUME ServerAssumption, Inv, Inv', Budget, Prefill PROVE Budget'
<1> DEFINE k == IF WantsPrefill THEN PrefillCount ELSE 0
           rs == SubSeq(waiting, 1, k)
           rest == SubSeq(waiting, k + 1, Len(waiting))
           on == Only(rs, {j \in Jobs : Gen[j] > 0})
<1>1. /\ pc = "prefill" /\ pc' = "decode" /\ batch' = batch /\ next' = next
      /\ waiting' = rest /\ running' = running \o on
  BY DEF Prefill, GoesOn, Upto
<1>2. running \in Seq(Jobs) /\ waiting \in Seq(Jobs)
  BY BudgetTypes
<1>3. k \in 0 .. Len(waiting)
  <2>1. 0 \in 0 .. Len(waiting)
    BY <1>2
  <2> QED
    BY <1>2, <2>1, PrefillCountType
<1> HIDE DEF k
<1>4. rs \in Seq(Jobs) /\ rest \in Seq(Jobs)
  BY <1>2, <1>3, CutMembers
<1>5. Rows(rs) + Rows(rest) = Rows(waiting)
  BY <1>2, <1>3, RowsCut
<1> HIDE DEF rs, rest
<1>6. on \in Seq(Jobs) /\ Rows(on) <= Rows(rs)
  <2>1. Only(rs, {j \in Jobs : Gen[j] > 0}) \in Seq(Jobs)
    BY <1>4, OnlyMembers
  <2> QED
    BY <1>4, <2>1, RowsOnly
<1> HIDE DEF on
<1>7. Rows(running \o on) = Rows(running) + Rows(on)
  BY <1>2, <1>6, RowsConcat
<1>8. PICK a \in Nat, b \in Nat, c \in Nat, d \in Nat :
         a = Rows(running) /\ b = Rows(on) /\ c = Rows(rest) /\ d = Rows(rs)
  BY <1>2, <1>4, <1>6, RowsType
<1>9. Used' = (a + b) + c /\ Used = a + (d + c) /\ b <= d
  BY <1>1, <1>5, <1>6, <1>7, <1>8 DEF Used
<1>10. Used' \in Nat /\ Used' <= Used
  BY <1>9
<1>11. Hand' = <<>>
  <2>1. batch' = <<>> /\ next' = 0
    BY <1>1 DEF Inv, WorkerAt, Typed
  <2> QED
    BY <2>1 DEF Hand
<1>12. Rows(Hand') = 0
  BY <1>11, BudgetTypes
<1> QED
  BY <1>1, <1>10, <1>12, FewerRows

LEMMA DecodeBudget == ASSUME ServerAssumption, Inv, Inv', Budget, Decode PROVE Budget'
<1>1. /\ pc = "decode" /\ pc' = "burst" /\ batch' = batch /\ next' = next
      /\ waiting' = waiting /\ running' = Only(running, {j \in Jobs : left[j] > 1})
  BY DEF Decode
<1>2. running \in Seq(Jobs) /\ waiting \in Seq(Jobs) /\ running' \in Seq(Jobs)
  BY BudgetTypes DEF Inv, Typed
<1>3. PICK a \in Nat, b \in Nat, c \in Nat :
         a = Rows(running) /\ b = Rows(waiting) /\ c = Rows(running')
  BY <1>2, RowsType
<1>4. c <= a
  BY <1>1, <1>2, <1>3, RowsOnly
<1>5. Used' = c + b /\ Used = a + b
  BY <1>1, <1>3 DEF Used
<1>6. Used' \in Nat /\ Used' <= Used
  BY <1>4, <1>5
<1>7. Hand' = <<>>
  <2>1. batch' = <<>> /\ next' = 0
    BY <1>1 DEF Inv, WorkerAt, Typed
  <2> QED
    BY <2>1 DEF Hand
<1>8. Rows(Hand') = 0
  BY <1>7, BudgetTypes
<1> QED
  BY <1>1, <1>6, <1>8, FewerRows

LEMMA EngineRaisesBudget ==
    ASSUME ServerAssumption, Inv, Inv', Budget, EngineRaises
    PROVE  Budget'
<1>1. /\ pc \in {"prefill", "decode"} /\ pc' = "top" /\ batch' = batch /\ next' = next
      /\ waiting' = <<>> /\ running' = <<>>
  BY DEF EngineRaises
<1>2. Used' = 0 /\ Used \in Nat
  BY <1>1, BudgetTypes DEF Used
<1>3. Hand' = <<>>
  <2>1. batch' = <<>> /\ next' = 0
    BY <1>1 DEF Inv, WorkerAt, Typed
  <2> QED
    BY <2>1 DEF Hand
<1>4. Rows(Hand') = 0
  BY <1>3, BudgetTypes
<1> QED
  BY <1>1, <1>2, <1>4, FewerRows

LEMMA BudgetStep ==
    ASSUME ServerAssumption, Inv, Inv', Budget, BurstsDrain, [Next]_vars
    PROVE  Budget'
<1>1. ASSUME UNCHANGED <<waiting, running, batch, next>>, pc' # "window" \/ pc = "window"
      PROVE  Budget'
  <2>1. Used' = Used /\ Hand' = Hand /\ Busy' = Busy
    BY <1>1 DEF Used, Hand, Busy
  <2> QED
    BY <1>1, <2>1 DEF Budget
<1>2. ASSUME NEW j \in Jobs, Send(j) \/ Again(j) \/ Tokenize(j) PROVE Budget'
  BY <1>1, <1>2 DEF Send, Again, Tokenize, engine
<1>3. CASE Answer \/ UNCHANGED vars
  BY <1>1, <1>3 DEF Answer, vars, engine
<1>4. CASE Resume \/ EndBurst
  BY <1>1, <1>4 DEF Resume, EndBurst, engine
<1>5. CASE WorkerStep
  BY <1>4, <1>5, TakeBudget, TakeMoreBudget, CloseWindowBudget, SubmitBudget, SubmitEndsBudget,
     PeekBudget, PrefillBudget, DecodeBudget DEF WorkerStep
<1> QED
  BY <1>2, <1>3, <1>5, EngineRaisesBudget DEF Next

\* As long as every burst drains the engine, what was admitted fits the slot
\* budget, whatever the orders, the failures and the timing (api.py:98-150,
\* 488-545): the one job that is submitted although it does not fit (api.py:533)
\* then goes to an idle engine.
THEOREM BudgetKept == Spec /\ []BurstsDrain => []AdmittedWithinBudget
<1>1. Init => Budget
  <2> SUFFICES ASSUME Init PROVE Budget
    OBVIOUS
  <2>1. waiting = <<>> /\ running = <<>> /\ batch = <<>> /\ next = 0 /\ pc = "top"
    BY DEF Init
  <2>2. Hand = <<>>
    BY <2>1 DEF Hand
  <2>3. <<>> \in Seq(Jobs) /\ Slots \in Nat
    BY ServerAssumption DEF ServerAssumption
  <2>4. Rows(<<>>) = 0
    BY <2>3, ServerAssumption, RowsType
  <2> QED
    BY <2>1, <2>2, <2>3, <2>4 DEF Budget, Used
<1>2. Inv /\ Inv' /\ Budget /\ BurstsDrain /\ [Next]_vars => Budget'
  BY BudgetStep, ServerAssumption
<1>3. Inv /\ Budget => AdmittedWithinBudget
  <2> SUFFICES ASSUME Inv, Budget PROVE AdmittedWithinBudget
    OBVIOUS
  <2>1. PICK a \in Nat, b \in Nat : a = Used /\ b = Rows(Hand)
    BY ServerAssumption, BudgetTypes DEF Used
  <2>2. a + b <= Slots /\ Slots \in Nat
    BY <2>1, ServerAssumption, BudgetTypes DEF Budget
  <2>3. a <= Slots
    BY <2>2
  <2> QED
    BY <2>1, <2>3 DEF AdmittedWithinBudget
<1> QED
  BY <1>1, <1>2, <1>3, Invariance, PTL DEF Spec

-----------------------------------------------------------------------------
(* Bursts drain when clients do not send again. *)

\* The work of all jobs, a prefill and their decode steps each, and what of it
\* is yet to be done.
Work == {u \in Jobs \X Nat : u[2] <= Gen[u[1]]}

Early == ToSet(queue) \cup ToSet(Hand)
Before(j) == future[j] = "none" \/ j \in Early \/ j \in ToSet(waiting)
InDecode(u) == u[1] \in ToSet(running) /\ u[2] < left[u[1]]

Remaining == {u \in Work : Before(u[1]) \/ InDecode(u)}

\* A decode step over nothing follows a prefill that did work.
Idle == IF pc = "decode" /\ running = <<>> THEN 1 ELSE 0

Draining ==
    /\ \A j \in ToSet(running) : left[j] <= Gen[j]
    /\ steps \in Nat
    /\ pc \in {"top", "window", "submit"} => steps = 0
    /\ pc = "top" => ~Busy
    /\ pc \in {"extra", "prefill"} => Busy
    /\ steps + Cardinality(Remaining) + Idle <= Cardinality(Work)

\* All the work fits the step limit of one burst.
OneShot == ~Resend /\ IsFiniteSet(Work) /\ Cardinality(Work) <= MaxSteps

\* What is left is a part of the work; of less, less is left.
LEMMA RemainingCount ==
    ASSUME IsFiniteSet(Work)
    PROVE  /\ Cardinality(Work) \in Nat
           /\ IsFiniteSet(Remaining) /\ Cardinality(Remaining) \in Nat
           /\ Cardinality(Remaining) <= Cardinality(Work)
           /\ \A S \in SUBSET Remaining :
                /\ Cardinality(S) \in Nat /\ Cardinality(S) <= Cardinality(Remaining)
                /\ S # Remaining => Cardinality(S) + 1 <= Cardinality(Remaining)
<1>1. Remaining \subseteq Work
  BY DEF Remaining
<1>2. IsFiniteSet(Remaining) /\ Cardinality(Remaining) <= Cardinality(Work)
  BY <1>1, FS_Subset
<1>3. Cardinality(Work) \in Nat /\ Cardinality(Remaining) \in Nat
  BY <1>2, FS_CardinalityType
<1>4. ASSUME NEW S \in SUBSET Remaining
      PROVE  /\ Cardinality(S) \in Nat /\ Cardinality(S) <= Cardinality(Remaining)
             /\ S # Remaining => Cardinality(S) + 1 <= Cardinality(Remaining)
  <2>1. IsFiniteSet(S) /\ Cardinality(S) <= Cardinality(Remaining)
        /\ (Cardinality(S) = Cardinality(Remaining) => S = Remaining)
    BY <1>2, FS_Subset
  <2>2. PICK a \in Nat, b \in Nat : a = Cardinality(S) /\ b = Cardinality(Remaining)
    BY <1>3, <2>1, FS_CardinalityType
  <2>3. S # Remaining => a # b
    BY <2>1, <2>2
  <2>4. a <= b /\ (a # b => a + 1 <= b)
    BY <2>1, <2>2
  <2> QED
    BY <2>2, <2>3, <2>4
<1> QED
  BY <1>2, <1>3, <1>4

\* A busy engine has work left.
LEMMA BusyWorks ==
    ASSUME ServerAssumption, Inv, IsFiniteSet(Work), Busy
    PROVE  Cardinality(Remaining) > 0
<1>1. ASSUME NEW j \in ToSet(waiting) \cup ToSet(running) PROVE <<j, 0>> \in Remaining
  <2>1. j \in Jobs
    BY Members DEF Inv, Typed
  <2>2. <<j, 0>> \in Work
    BY <2>1 DEF Work, ServerAssumption
  <2>3. j \in ToSet(running) => 0 < left[j]
    BY <2>1 DEF Inv, EngineOwn, Typed
  <2> QED
    BY <2>2, <2>3 DEF Remaining, Before, InDecode
<1>2. PICK j : j \in ToSet(waiting) \cup ToSet(running)
  <2>1. waiting # <<>> => Head(waiting) \in ToSet(waiting)
    BY HeadMembers DEF Inv, Typed
  <2>2. running # <<>> => Head(running) \in ToSet(running)
    BY HeadMembers DEF Inv, Typed
  <2> QED
    BY <2>1, <2>2 DEF Busy
<1>3. Remaining # {}
  BY <1>1, <1>2
<1>4. IsFiniteSet(Remaining) /\ Cardinality(Remaining) \in Nat
  BY RemainingCount
<1>5. Cardinality(Remaining) # 0
  BY <1>3, <1>4, FS_EmptySet
<1> QED
  BY <1>4, <1>5

\* The prefill of an idle engine takes a request.
LEMMA PrefillsSome ==
    ASSUME ServerAssumption, waiting \in Seq(Jobs), waiting # <<>>, running = <<>>
    PROVE  WantsPrefill /\ PrefillCount \in 1 .. Len(waiting)
<1>1. WantsPrefill
  BY DEF WantsPrefill
<1>2. PrefillCount \in 0 .. Len(waiting)
  <2>1. running \in Seq(Jobs)
    OBVIOUS
  <2> QED
    BY <1>1, <2>1, PrefillCountType
<1>3. Len(waiting) \in Nat /\ Len(waiting) # 0
  OBVIOUS
<1>4. PrefillCount # 0
  <2>1. CASE PreferredFit = {}
    BY <1>3, <2>1 DEF PrefillCount
  <2>2. CASE PreferredFit # {}
    <3>1. 0 \notin PreferredFit
      <4>1. Preferred \in Seq(Nat \ {0})
        BY DEF ServerAssumption
      <4>2. ToSet(Preferred) \subseteq Nat \ {0}
        BY <4>1, Members
      <4> QED
        BY <4>2 DEF PreferredFit
    <3>2. PreferredFit \in SUBSET (0 .. Len(waiting))
      <4>1. ToSet(Preferred) \subseteq Nat
        BY DEF ServerAssumption, ToSet
      <4> QED
        BY <1>3, <4>1 DEF PreferredFit
    <3>3. Largest(PreferredFit) \in PreferredFit
      BY <1>3, <2>2, <3>2, LargestType
    <3> QED
      BY <2>2, <3>1, <3>3 DEF PrefillCount
  <2> QED
    BY <2>1, <2>2
<1> QED
  BY <1>1, <1>2, <1>4

\* A step that neither adds work nor counts one.
LEMMA NoMoreWork ==
    ASSUME IsFiniteSet(Work), Draining, Remaining' \subseteq Remaining, steps' \in {steps, 0},
           pc' # "decode" \/ (pc = "decode" /\ running' = running)
    PROVE  steps' \in Nat /\ steps' + Cardinality(Remaining') + Idle' <= Cardinality(Work)
<1>1. Idle \in {0, 1} /\ Idle' \in {0, 1} /\ (Idle' = 0 \/ Idle' = Idle)
  BY DEF Idle
<1>2. PICK a \in Nat, b \in Nat, c \in Nat :
         a = Cardinality(Remaining) /\ b = Cardinality(Remaining') /\ c = Cardinality(Work) /\ b <= a
  BY RemainingCount
<1>3. steps \in Nat /\ steps + a + Idle <= c
  BY <1>2 DEF Draining
<1>4. PICK x \in Nat, y \in Nat, i \in 0 .. 1, k \in 0 .. 1 :
         x = steps /\ y = steps' /\ i = Idle /\ k = Idle'
  BY <1>1, <1>3
<1>5. x + a + i <= c /\ y <= x /\ b <= a /\ k <= i
  BY <1>1, <1>2, <1>3, <1>4
<1>6. y + b + k <= c
  BY <1>5
<1> QED
  BY <1>2, <1>4, <1>6

\* What the reshuffling of jobs between queue and hand leaves.
LEMMA EarlyStays ==
    ASSUME Inv, Inv', UNCHANGED <<future, posted, by_rid>>
    PROVE  Early' = Early
<1>1. Early = Awaiting \ (by_rid \cup ToSet(JobsOf(posted)))
  BY DEF Early, Inv, OnePlace, Placed
<1>2. Early' = Awaiting' \ (by_rid' \cup ToSet(JobsOf(posted')))
  BY DEF Early, Inv, OnePlace, Placed
<1>3. Awaiting' = Awaiting
  BY DEF Awaiting
<1> QED
  BY <1>1, <1>2, <1>3

LEMMA ShuffleDrains ==
    ASSUME ServerAssumption, OneShot, Inv, Inv', Draining,
           Take \/ TakeMore \/ CloseWindow \/ Submitted \/ Resume \/ Peek \/ EndBurst
    PROVE  Draining'
<1>1. /\ UNCHANGED <<future, posted, by_rid, waiting, running, left>> /\ pc' # "decode"
      /\ steps' \in {steps, 0}
      /\ pc' \in {"top", "window", "submit"} => pc \in {"top", "window", "submit"} \/ steps' = 0
      /\ steps' # steps => steps' = 0
  BY DEF Take, TakeMore, CloseWindow, Submitted, Resume, Peek, EndBurst, engine
<1>2. Early' = Early
  BY <1>1, EarlyStays
<1>3. Remaining' = Remaining /\ Busy' = Busy
  BY <1>1, <1>2 DEF Remaining, Before, InDecode, Busy
<1>4. steps' \in Nat /\ steps' + Cardinality(Remaining') + Idle' <= Cardinality(Work)
  BY <1>1, <1>3, NoMoreWork DEF OneShot
<1>5. pc' \in {"top", "window", "submit"} => steps' = 0
  BY <1>1 DEF Draining
<1>6. pc' = "top" => ~Busy
  <2>1. CASE EndBurst
    <3> SUFFICES ASSUME Busy PROVE FALSE
      OBVIOUS
    <3>1. steps >= MaxSteps /\ pc = "burst"
      BY <2>1 DEF EndBurst
    <3>2. PICK a \in Nat, b \in Nat, c \in Nat, m \in Nat :
             a = Cardinality(Remaining) /\ b = Cardinality(Work) /\ c = steps /\ m = MaxSteps
      BY RemainingCount DEF OneShot, Draining, ServerAssumption
    <3>3. a > 0 /\ b <= m /\ c >= m
      BY <3>1, <3>2, BusyWorks DEF OneShot
    <3>4. Idle = 0
      BY <3>1 DEF Idle
    <3>5. c + a + 0 <= b
      BY <3>2, <3>4 DEF Draining
    <3> QED
      BY <3>3, <3>5
  <2>2. CASE Submitted
    BY <1>3, <2>2 DEF Submitted, Busy
  <2>3. CASE Take \/ TakeMore \/ CloseWindow \/ Resume \/ Peek
    BY <2>3 DEF Take, TakeMore, CloseWindow, Resume, Peek
  <2> QED
    BY <2>1, <2>2, <2>3
<1>7. pc' \in {"extra", "prefill"} => Busy
  <2>1. CASE Peek
    BY <2>1 DEF Peek
  <2>2. CASE Submitted
    BY <2>2 DEF Submitted, Draining
  <2>3. CASE Take \/ TakeMore \/ CloseWindow \/ Resume \/ EndBurst
    BY <2>3 DEF Take, TakeMore, CloseWindow, Resume, EndBurst
  <2> QED
    BY <2>1, <2>2, <2>3
<1> QED
  BY <1>1, <1>3, <1>4, <1>5, <1>6, <1>7 DEF Draining

LEMMA ClientDrains ==
    ASSUME ServerAssumption, OneShot, Inv, Inv', Draining,
           (\E j \in Jobs : Send(j) \/ Again(j) \/ Tokenize(j)) \/ Answer \/ UNCHANGED vars
    PROVE  Draining'
<1> DEFINE OnlySent ==
             \A j \in Jobs : future'[j] = "none" \/ j \in ToSet(queue') \ ToSet(queue)
                              => future[j] = "none"
<1>1. UNCHANGED <<waiting, running, left, batch, next, steps, pc>> /\ OnlySent
  <2>1. ASSUME NEW j \in Jobs, Send(j) PROVE OnlySent
    <3>1. future[j] = "none" /\ \A k \in Jobs : future'[k] = "none" => future[k] = "none"
      BY <2>1 DEF Send, Inv, Typed
    <3>2. ToSet(queue') \subseteq ToSet(queue) \cup {j}
      <4>1. ToSet(Append(queue, j)) = ToSet(queue) \cup {j}
        BY AppendMembers DEF Inv, Typed
      <4>2. queue' \in {queue, Append(queue, j)}
        BY <2>1 DEF Send
      <4> QED
        BY <4>1, <4>2
    <3> QED
      BY <3>1, <3>2
  <2>2. ASSUME NEW j \in Jobs, Again(j) PROVE FALSE
    BY <2>2 DEF Again, OneShot
  <2>3. ASSUME NEW j \in Jobs, Tokenize(j) PROVE OnlySent
    BY <2>3 DEF Tokenize
  <2>4. ASSUME Answer PROVE OnlySent
    <3>1. PICK m \in Posting : m = Head(posted)
      BY <2>4, PostedTail DEF Answer, Inv, Typed
    <3>2. m.job \in Jobs /\ m.outcome # "none"
      BY DEF Posting, Outcomes
    <3>3. /\ queue' = queue
          /\ future' = IF future[m.job] = "pending"
                       THEN [future EXCEPT ![m.job] = m.outcome] ELSE future
      BY <2>4, <3>1 DEF Answer
    <3> QED
      BY <3>2, <3>3 DEF Inv, Typed
  <2>5. ASSUME UNCHANGED vars PROVE OnlySent
    BY <2>5 DEF vars
  <2> QED
    BY <2>1, <2>2, <2>3, <2>4, <2>5 DEF Send, Tokenize, Answer, vars, engine
<1>2. Hand' = Hand /\ Busy' = Busy
  BY <1>1 DEF Hand, Busy
<1>3. Remaining' \subseteq Remaining
  BY <1>1, <1>2 DEF Remaining, Before, InDecode, Early, Work
<1>4. steps' \in Nat /\ steps' + Cardinality(Remaining') + Idle' <= Cardinality(Work)
  <2>1. steps' \in {steps, 0} /\ (pc' # "decode" \/ (pc = "decode" /\ running' = running))
    BY <1>1
  <2> QED
    BY <1>3, <2>1, NoMoreWork DEF OneShot
<1> QED
  BY <1>1, <1>2, <1>4 DEF Draining

LEMMA SubmitDrains ==
    ASSUME ServerAssumption, OneShot, Inv, Inv', Draining, Submit
    PROVE  Draining'
<1> DEFINE j == batch[next + 1]
<1>1. /\ UNCHANGED <<queue, future, running, left, batch, steps, pc>> /\ pc \in {"submit", "extra"}
      /\ waiting' = Append(waiting, j) /\ next' = next + 1 /\ next < Len(batch)
  BY DEF Submit, Submitting
<1>2. j \in Jobs /\ ToSet(Hand) = ToSet(Hand') \cup {j}
  <2>1. batch \in Seq(Jobs) /\ NoRepeats(batch) /\ next \in 0 .. Len(batch)
    BY DEF Inv, Typed, Distinct
  <2> QED
    BY <1>1, <2>1, HandStep DEF Hand
<1> HIDE DEF j
<1>3. ToSet(waiting') = ToSet(waiting) \cup {j}
  BY <1>1, <1>2, AppendMembers DEF Inv, Typed
<1>4. Remaining' \subseteq Remaining
  BY <1>1, <1>2, <1>3 DEF Remaining, Before, InDecode, Early, Work
<1>5. steps' \in Nat /\ steps' + Cardinality(Remaining') + Idle' <= Cardinality(Work)
  BY <1>1, <1>4, NoMoreWork DEF OneShot
<1>6. Busy'
  <2>1. j \in ToSet(waiting')
    BY <1>3
  <2>2. waiting' # <<>>
    BY <2>1, EmptySequence
  <2> QED
    BY <2>2 DEF Busy
<1> QED
  BY <1>1, <1>5, <1>6 DEF Draining

LEMMA SubmitFailsDrains ==
    ASSUME ServerAssumption, OneShot, Inv, Inv', Draining, SubmitFails
    PROVE  Draining'
<1>1. /\ UNCHANGED <<queue, future, waiting, running, left, batch, steps, pc>>
      /\ pc \in {"submit", "extra"} /\ next' = Len(batch)
  BY DEF SubmitFails, Submitting, engine
<1>2. ToSet(Hand') = {}
  <2>1. Hand' = <<>>
    BY <1>1 DEF Hand, Inv, Typed
  <2> QED
    BY <2>1, EmptySequence
<1>3. Remaining' \subseteq Remaining
  BY <1>1, <1>2 DEF Remaining, Before, InDecode, Early, Work
<1>4. steps' \in Nat /\ steps' + Cardinality(Remaining') + Idle' <= Cardinality(Work)
  BY <1>1, <1>3, NoMoreWork DEF OneShot
<1> QED
  BY <1>1, <1>4 DEF Draining, Busy

LEMMA EngineRaisesDrains ==
    ASSUME ServerAssumption, OneShot, Inv, Inv', Draining, EngineRaises
    PROVE  Draining'
<1>1. /\ UNCHANGED <<queue, future, left, batch, next>> /\ pc' = "top" /\ steps' = 0
      /\ waiting' = <<>> /\ running' = <<>>
  BY DEF EngineRaises
<1>2. Hand' = Hand
  BY <1>1 DEF Hand
<1>3. Remaining' \subseteq Remaining
  BY <1>1, <1>2, EmptySequence DEF Remaining, Before, InDecode, Early, Work
<1>4. steps' \in Nat /\ steps' + Cardinality(Remaining') + Idle' <= Cardinality(Work)
  BY <1>1, <1>3, NoMoreWork DEF OneShot
<1> QED
  BY <1>1, <1>4, EmptySequence DEF Draining, Busy

\* A prefill does the first unit of work of the requests it takes.
LEMMA PrefillDrains ==
    ASSUME ServerAssumption, OneShot, Inv, Inv', Draining, Prefill
    PROVE  Draining'
<1> DEFINE k == IF WantsPrefill THEN PrefillCount ELSE 0
           rs == SubSeq(waiting, 1, k)
           on == Only(rs, {j \in Jobs : Gen[j] > 0})
<1>1. /\ pc = "prefill" /\ pc' = "decode" /\ UNCHANGED <<queue, future, batch, next, steps>>
      /\ waiting' = SubSeq(waiting, k + 1, Len(waiting)) /\ running' = running \o on
      /\ left' = [j \in Jobs |-> IF j \in ToSet(rs) THEN Gen[j] ELSE left[j]]
  BY DEF Prefill, GoesOn, Upto
<1>2. k \in 0 .. Len(waiting) /\ (running = <<>> => k \in 1 .. Len(waiting))
  <2>1. 0 \in 0 .. Len(waiting) /\ waiting \in Seq(Jobs) /\ running \in Seq(Jobs)
    BY DEF Inv, Typed
  <2>2. running = <<>> => waiting # <<>>
    BY <1>1 DEF Draining, Busy
  <2>3. WantsPrefill => PrefillCount \in 0 .. Len(waiting)
    BY <2>1, PrefillCountType
  <2>4. running = <<>> => WantsPrefill /\ PrefillCount \in 1 .. Len(waiting)
    BY <2>1, <2>2, PrefillsSome
  <2> QED
    BY <2>1, <2>3, <2>4
<1> HIDE DEF k
<1>3. /\ rs \in Seq(Jobs) /\ NoRepeats(rs) /\ ToSet(rs) \cap ToSet(waiting') = {}
      /\ ToSet(waiting) = ToSet(rs) \cup ToSet(waiting')
      /\ (running = <<>> => rs # <<>>)
  <2>1. waiting \in Seq(Jobs) /\ NoRepeats(waiting)
    BY DEF Inv, Typed, Distinct
  <2>2. PICK n \in Nat : n = k /\ n <= Len(waiting) /\ (running = <<>> => n # 0)
    BY <1>2, <2>1
  <2>3. Len(SubSeq(waiting, 1, n)) = n
    BY <2>1, <2>2
  <2>4. running = <<>> => rs # <<>>
    BY <2>2, <2>3
  <2>5. /\ rs \in Seq(Jobs) /\ NoRepeats(rs)
        /\ ToSet(rs) \cap ToSet(SubSeq(waiting, k + 1, Len(waiting))) = {}
        /\ ToSet(waiting) = ToSet(rs) \cup ToSet(SubSeq(waiting, k + 1, Len(waiting)))
    BY <1>2, <2>1, CutMembers
  <2> QED
    BY <1>1, <2>4, <2>5
<1> HIDE DEF rs
<1>4. on \in Seq(Jobs) /\ ToSet(on) = ToSet(rs) \cap {j \in Jobs : Gen[j] > 0}
  BY <1>3, OnlyMembers
<1> HIDE DEF on
<1>5. ToSet(running') = ToSet(running) \cup ToSet(on)
  BY <1>1, <1>4, ConcatMembers DEF Inv, Typed
<1>6. ToSet(rs) \cap ToSet(running) = {} /\ ToSet(rs) \subseteq Jobs /\ ToSet(running) \subseteq Jobs
  BY <1>3, Members DEF Inv, Typed, EngineOwn, Served
<1>7. \A j \in Jobs : Gen[j] \in Nat
  BY DEF ServerAssumption
<1>8. Hand' = Hand /\ Early' = Early
  BY <1>1 DEF Hand, Early
<1>9. Remaining' \subseteq Remaining
  <2> SUFFICES ASSUME NEW u \in Remaining' PROVE u \in Remaining
    OBVIOUS
  <2>1. u \in Work /\ u[1] \in Jobs
    BY DEF Remaining, Work
  <2>2. CASE Before(u[1])'
    BY <1>1, <1>3, <1>8, <2>1, <2>2 DEF Remaining, Before
  <2>3. CASE InDecode(u)'
    <3>1. CASE u[1] \in ToSet(on)
      BY <1>3, <1>4, <2>1, <3>1 DEF Remaining, Before
    <3>2. CASE u[1] \in ToSet(running)
      <4>1. left'[u[1]] = left[u[1]]
        BY <1>1, <1>6, <2>1, <3>2
      <4> QED
        BY <2>1, <2>3, <3>2, <4>1 DEF Remaining, InDecode
    <3> QED
      BY <1>5, <2>3, <3>1, <3>2 DEF InDecode
  <2> QED
    BY <2>2, <2>3 DEF Remaining
<1>10. ASSUME running = <<>> PROVE Remaining' # Remaining
  <2>1. PICK j : j \in ToSet(rs) /\ j \in Jobs
    BY <1>3, <1>6, <1>10, HeadMembers
  <2>2. <<j, Gen[j]>> \in Remaining
    BY <1>3, <1>7, <2>1 DEF Remaining, Work, Before
  <2>3. j \in ToSet(waiting) /\ future[j] # "none" /\ j \notin Early
    BY <1>3, <2>1 DEF Inv, EngineOwn, Served, Early
  <2>4. ~Before(j)'
    BY <1>1, <1>3, <1>8, <2>1, <2>3 DEF Before
  <2>5. ~(Gen[j] < left'[j])
    BY <1>1, <1>7, <2>1
  <2>6. <<j, Gen[j]>> \notin Remaining'
    BY <2>4, <2>5 DEF Remaining, InDecode
  <2> QED
    BY <2>2, <2>6
<1>11. ASSUME running # <<>> PROVE running' # <<>>
  BY <1>1, <1>4, <1>11 DEF Inv, Typed
<1>12. steps' \in Nat /\ steps' + Cardinality(Remaining') + Idle' <= Cardinality(Work)
  <2>1. CASE running # <<>>
    <3>1. Idle' = 0 /\ Idle = 0
      BY <1>1, <1>11, <2>1 DEF Idle
    <3>2. PICK a \in Nat, b \in Nat, c \in Nat, x \in Nat :
             /\ a = Cardinality(Remaining) /\ b = Cardinality(Remaining') /\ b <= a
             /\ c = Cardinality(Work) /\ x = steps
      BY <1>9, RemainingCount DEF OneShot, Draining
    <3>3. x + a + 0 <= c
      BY <3>1, <3>2 DEF Draining
    <3>4. x + b + 0 <= c
      BY <3>2, <3>3
    <3> QED
      BY <1>1, <3>1, <3>2, <3>4
  <2>2. CASE running = <<>>
    <3>1. Idle' \in 0 .. 1 /\ Idle = 0
      BY <1>1 DEF Idle
    <3>2. PICK a \in Nat, b \in Nat, c \in Nat, x \in Nat, i \in 0 .. 1 :
             /\ a = Cardinality(Remaining) /\ b = Cardinality(Remaining') /\ b + 1 <= a
             /\ c = Cardinality(Work) /\ x = steps /\ i = Idle'
      BY <1>9, <1>10, <2>2, <3>1, RemainingCount DEF OneShot, Draining
    <3>3. x + a + 0 <= c
      BY <3>1, <3>2 DEF Draining
    <3>4. x + b + i <= c
      <4>1. b + i <= a
        BY <3>2
      <4>2. x + (b + i) <= x + a
        BY <4>1
      <4> QED
        BY <3>3, <4>2
    <3> QED
      BY <1>1, <3>2, <3>4
  <2> QED
    BY <2>1, <2>2
<1>13. ASSUME NEW j \in ToSet(running') PROVE left'[j] <= Gen[j]
  <2>1. CASE j \in ToSet(on)
    BY <1>1, <1>4, <1>6, <1>7, <2>1
  <2>2. CASE j \in ToSet(running)
    <3>1. left'[j] = left[j]
      BY <1>1, <1>6, <2>2
    <3> QED
      BY <2>2, <3>1 DEF Draining
  <2> QED
    BY <1>5, <2>1, <2>2
<1> QED
  BY <1>1, <1>12, <1>13 DEF Draining

\* A decode step does a unit of work of every request that runs.
LEMMA DecodeDrains ==
    ASSUME ServerAssumption, OneShot, Inv, Inv', Draining, Decode
    PROVE  Draining'
<1>1. /\ pc = "decode" /\ pc' = "burst" /\ UNCHANGED <<queue, future, waiting, batch, next>>
      /\ steps' = steps + 1 /\ running' = Only(running, {j \in Jobs : left[j] > 1})
      /\ left' = [j \in Jobs |-> IF j \in ToSet(running) THEN left[j] - 1 ELSE left[j]]
  BY DEF Decode
<1>2. ToSet(running') \subseteq ToSet(running)
  BY <1>1, OnlyMembers DEF Inv, Typed
<1>3. ToSet(running) \subseteq Jobs
      /\ \A j \in ToSet(running) : left[j] \in Nat /\ left[j] > 0 /\ left[j] <= Gen[j]
  BY Members DEF Inv, Typed, EngineOwn, Draining
<1>4. \A j \in Jobs : Gen[j] \in Nat
  BY DEF ServerAssumption
<1>5. Hand' = Hand /\ Early' = Early
  BY <1>1 DEF Hand, Early
<1>6. \A j \in ToSet(running) : left'[j] = left[j] - 1
  BY <1>1, <1>3
<1>7. Remaining' \subseteq Remaining
  <2> SUFFICES ASSUME NEW u \in Remaining' PROVE u \in Remaining
    OBVIOUS
  <2>1. u \in Work /\ u[1] \in Jobs /\ u[2] \in Nat
    BY DEF Remaining, Work
  <2>2. CASE Before(u[1])'
    BY <1>1, <1>5, <2>1, <2>2 DEF Remaining, Before
  <2>3. CASE InDecode(u)'
    <3>1. u[1] \in ToSet(running) /\ u[2] < left'[u[1]]
      BY <1>2, <2>3 DEF InDecode
    <3>2. u[2] < left[u[1]]
      BY <1>3, <1>6, <2>1, <3>1
    <3> QED
      BY <2>1, <3>1, <3>2 DEF Remaining, InDecode
  <2> QED
    BY <2>2, <2>3 DEF Remaining
<1>8. ASSUME running # <<>> PROVE Remaining' # Remaining
  <2>1. PICK j : j \in ToSet(running) /\ j \in Jobs
    BY <1>3, <1>8, HeadMembers DEF Inv, Typed
  <2>2. PICK n \in Nat : n = left[j] - 1 /\ n < left[j] /\ n <= Gen[j]
    BY <1>3, <1>4, <2>1
  <2>3. <<j, n>> \in Remaining
    BY <2>1, <2>2 DEF Remaining, Work, InDecode
  <2>4. j \notin ToSet(waiting) /\ future[j] # "none" /\ j \notin Early
    BY <2>1 DEF Inv, EngineOwn, Served, Early
  <2>5. ~Before(j)'
    BY <1>1, <1>5, <2>1, <2>4 DEF Before
  <2>6. ~(n < left'[j])
    BY <1>6, <2>1, <2>2
  <2>7. <<j, n>> \notin Remaining'
    BY <2>5, <2>6 DEF Remaining, InDecode
  <2> QED
    BY <2>3, <2>7
<1>9. steps' \in Nat /\ steps' + Cardinality(Remaining') + Idle' <= Cardinality(Work)
  <2>1. Idle' = 0 /\ Idle \in 0 .. 1 /\ (running = <<>> => Idle = 1)
    BY <1>1 DEF Idle
  <2>2. PICK a \in Nat, b \in Nat, c \in Nat, x \in Nat, i \in 0 .. 1 :
           /\ a = Cardinality(Remaining) /\ b = Cardinality(Remaining') /\ b <= a
           /\ (running # <<>> => b + 1 <= a)
           /\ c = Cardinality(Work) /\ x = steps /\ i = Idle
    BY <1>7, <1>8, <2>1, RemainingCount DEF OneShot, Draining
  <2>3. x + a + i <= c
    BY <2>2 DEF Draining
  <2>4. i = 1 \/ b + 1 <= a
    BY <2>1, <2>2
  <2>5. (x + 1) + b + 0 <= c
    BY <2>2, <2>3, <2>4
  <2> QED
    BY <1>1, <2>1, <2>2, <2>5
<1>10. ASSUME NEW j \in ToSet(running') PROVE left'[j] <= Gen[j]
  <2>1. j \in ToSet(running) /\ j \in Jobs
    BY <1>2, <1>3
  <2> QED
    BY <1>3, <1>4, <1>6, <2>1
<1> QED
  BY <1>1, <1>9, <1>10 DEF Draining

\* With clients that do not send again, and a step limit of a burst (4096 in the
\* code) that all their prefills and decode steps together do not exceed, every
\* burst drains the engine (loop.py run_burst): a decode step or the prefill
\* before it gets some work done.
THEOREM BurstsAlwaysDrain == ASSUME OneShot PROVE Spec => []BurstsDrain
<1>1. Init => Draining
  <2> SUFFICES ASSUME Init PROVE Draining
    OBVIOUS
  <2>1. pc = "top" /\ steps = 0 /\ waiting = <<>> /\ running = <<>> /\ ToSet(running) = {}
    BY EmptySequence DEF Init
  <2>2. Idle = 0
    BY <2>1 DEF Idle
  <2>3. PICK a \in Nat, c \in Nat :
           a = Cardinality(Remaining) /\ c = Cardinality(Work) /\ a <= c
    BY RemainingCount DEF OneShot
  <2>4. 0 + a + 0 <= c
    BY <2>3
  <2> QED
    BY <2>1, <2>2, <2>3, <2>4 DEF Draining, Busy
<1>2. Inv /\ Inv' /\ Draining /\ [Next]_vars => Draining'
  <2> SUFFICES ASSUME Inv, Inv', Draining, [Next]_vars PROVE Draining'
    OBVIOUS
  <2>1. CASE (\E j \in Jobs : Send(j) \/ Again(j) \/ Tokenize(j)) \/ Answer \/ UNCHANGED vars
    BY <2>1, ServerAssumption, ClientDrains
  <2>2. CASE WorkerStep
    BY <2>2, ServerAssumption, ShuffleDrains, SubmitDrains, SubmitFailsDrains, PrefillDrains,
       DecodeDrains DEF WorkerStep
  <2>3. CASE EngineRaises
    BY <2>3, ServerAssumption, EngineRaisesDrains
  <2> QED
    BY <2>1, <2>2, <2>3 DEF Next
<1>3. Draining => BurstsDrain
  BY DEF Draining, BurstsDrain
<1> QED
  BY <1>1, <1>2, <1>3, Invariance, PTL DEF Spec

\* Then what was admitted fits the slot budget in every state.
THEOREM BudgetAlwaysKept == ASSUME OneShot PROVE Spec => []AdmittedWithinBudget
BY BurstsAlwaysDrain, BudgetKept, PTL
=============================================================================
