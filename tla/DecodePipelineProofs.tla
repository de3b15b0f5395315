-------------------------- MODULE DecodePipelineProofs --------------------------
(***************************************************************************)
(* That the decode pipeline loses no request and runs none twice, and that *)
(* the commands it issues to the device leave no two accesses to a beam, a *)
(* row, a result, a pinned buffer or the scratch unordered: proofs for     *)
(* every number of requests, pipes, leases and blocks.                     *)
(***************************************************************************)
EXTENDS DeviceStreams, SharedLemmas

(* The pipes. *)

Listed(ps) == UNION {ToSet(ps[i]) : i \in Pipe}
Apart(ps) ==
    \A i \in Pipe : /\ NoRepeats(ps[i])
                    /\ \A j \in Pipe : j # i => ToSet(ps[i]) \cap ToSet(ps[j]) = {}

LEMMA PipesAreNumbered ==
    /\ NPipes \in Nat /\ NPipes >= 2
    /\ 0 \in Pipe
    /\ IsFiniteSet(Pipe) /\ Pipe # {}
<1>1. NPipes \in Nat /\ NPipes >= 2
  BY PipelineAssumption DEF NPipes
<1>2. IsFiniteSet(0 .. NPipes - 1)
  BY <1>1, FS_Interval
<1> QED
  BY <1>1, <1>2 DEF Pipe

LEMMA AfterIsPipe ==
    ASSUME NEW i \in Nat, NEW k \in Nat
    PROVE  After(i, k) \in Pipe
<1>1. NPipes \in Nat /\ NPipes >= 2
  BY PipelineAssumption DEF NPipes
<1>2. i + k \in Nat
  OBVIOUS
<1>3. \A a \in Nat, b \in Nat \ {0} : a % b \in 0 .. b - 1
  OBVIOUS
<1>4. (i + k) % NPipes \in 0 .. NPipes - 1
  BY <1>1, <1>2, <1>3
<1> QED
  BY <1>4 DEF After, Pipe

\* After, without the remainder.
LEMMA AfterValue ==
    ASSUME NEW i \in Pipe, NEW k \in 0 .. NPipes
    PROVE  After(i, k) = IF i + k < NPipes THEN i + k ELSE i + k - NPipes
<1>1. NPipes \in Nat \ {0} /\ i \in 0 .. NPipes - 1
  BY PipesAreNumbered DEF Pipe
<1> QED
  BY <1>1, ForthIsRemainder DEF After, Forth

\* From any pipe the round robin reaches every other.
LEMMA AfterReaches ==
    ASSUME NEW t \in Pipe, NEW i \in Pipe, i # t
    PROVE  \E k \in 1 .. NPipes - 1 : i = After(t, k)
<1>1. NPipes \in Nat \ {0} /\ Pipe = 0 .. NPipes - 1
  BY PipesAreNumbered DEF Pipe
<1>2. PICK k \in 1 .. NPipes : i = Forth(NPipes, t, k)
  BY <1>1, ForthReaches
<1>3. k # NPipes /\ k \in 0 .. NPipes
  BY <1>1, <1>2 DEF Forth
<1>4. After(t, k) = Forth(NPipes, t, k)
  BY <1>3, AfterValue DEF Forth
<1> QED
  BY <1>1, <1>2, <1>3, <1>4

\* assign_buckets deals every request to one pipe.
LEMMA BucketsDeal ==
    ASSUME NEW rs \in Seq(Reqs)
    PROVE  /\ Buckets(rs) \in [Pipe -> Seq(Reqs)]
           /\ Listed(Buckets(rs)) = ToSet(rs)
           /\ NoRepeats(rs) => Apart(Buckets(rs))
<1> DEFINE At(i) == {rs[n] : n \in {m \in 1 .. Len(rs) : (m - 1) % NPipes = i}}
<1>1. Buckets(rs) = [i \in Pipe |-> Only(rs, At(i))]
  BY DEF Buckets
<1>2. \A i \in Pipe : At(i) \subseteq ToSet(rs)
  BY DEF ToSet
<1>3. \A x \in ToSet(rs) : \E i \in Pipe : x \in At(i)
  <2>1. TAKE x \in ToSet(rs)
  <2>2. PICK n \in 1 .. Len(rs) : x = rs[n]
    BY Members
  <2>3. After(0, n - 1) \in Pipe /\ (n - 1) % NPipes = After(0, n - 1)
    <3>1. n - 1 \in Nat /\ 0 + (n - 1) = n - 1
      OBVIOUS
    <3> QED
      BY <3>1, AfterIsPipe DEF After
  <2> QED
    BY <2>2, <2>3
<1>4. ASSUME NoRepeats(rs), NEW i \in Pipe, NEW j \in Pipe, i # j
      PROVE  At(i) \cap At(j) = {}
  BY <1>4 DEF NoRepeats
<1> HIDE DEF At
<1>5. \A i \in Pipe : /\ Buckets(rs)[i] \in Seq(Reqs)
                      /\ ToSet(Buckets(rs)[i]) = ToSet(rs) \cap At(i)
                      /\ NoRepeats(rs) => NoRepeats(Buckets(rs)[i])
  BY <1>1, OnlyMembers
<1>6. \A i \in Pipe : ToSet(Buckets(rs)[i]) = At(i)
  BY <1>2, <1>5
<1>7. Buckets(rs) \in [Pipe -> Seq(Reqs)]
  BY <1>1, <1>5
<1>8. Listed(Buckets(rs)) = ToSet(rs)
  BY <1>2, <1>3, <1>6 DEF Listed
<1>9. NoRepeats(rs) => Apart(Buckets(rs))
  BY <1>4, <1>5, <1>6 DEF Apart
<1> QED
  BY <1>7, <1>8, <1>9

\* Dropping requests from the pipes.
KeptOf(kept, ps, S) ==
    /\ kept \in [Pipe -> Seq(Reqs)]
    /\ \A i \in Pipe : ToSet(kept[i]) = ToSet(ps[i]) \cap S
    /\ Listed(kept) = Listed(ps) \cap S
    /\ Apart(ps) => Apart(kept)

LEMMA OnlyOfPipes ==
    ASSUME NEW ps \in [Pipe -> Seq(Reqs)], NEW S,
           NEW kept, kept = [i \in Pipe |-> Only(ps[i], S)]
    PROVE  KeptOf(kept, ps, S)
<1>1. \A i \in Pipe : /\ kept[i] \in Seq(Reqs)
                      /\ ToSet(kept[i]) = ToSet(ps[i]) \cap S
                      /\ NoRepeats(ps[i]) => NoRepeats(kept[i])
  BY OnlyMembers
<1>2. kept \in [Pipe -> Seq(Reqs)]
  BY <1>1
<1>3. Listed(kept) = Listed(ps) \cap S
  BY <1>1 DEF Listed
<1>4. Apart(ps) => Apart(kept)
  BY <1>1 DEF Apart
<1> QED
  BY <1>1, <1>2, <1>3, <1>4 DEF KeptOf

\* _ordered_live only reorders.
LEMMA OrderedMembers ==
    ASSUME NEW rs \in Seq(Reqs)
    PROVE  Ordered(rs) \in Seq(Reqs) /\ ToSet(Ordered(rs)) = ToSet(rs)
<1> DEFINE n == Len(rs)
           Same(k) == {r \in Reqs : Generated(r) = Generated(rs[k])}
           Again(k) == \E m \in 1 .. k - 1 : Generated(rs[m]) = Generated(rs[k])
           Group(k) == IF Again(k) THEN <<>> ELSE Only(rs, Same(k))
<1>1. PICK ss : ss = [k \in 1 .. n |-> Group(k)]
  OBVIOUS
<1>2. Ordered(rs) = FlattenSeq(ss)
  BY <1>1 DEF Ordered
<1>3. n \in Nat /\ ToSet(rs) = {rs[k] : k \in 1 .. n} /\ ToSet(rs) \subseteq Reqs
  BY Members
<1>4. \A k \in 1 .. n : /\ Group(k) \in Seq(Reqs)
                        /\ ToSet(Group(k)) \subseteq ToSet(rs)
                        /\ ~Again(k) => ToSet(Group(k)) = ToSet(rs) \cap Same(k)
  <2> HIDE DEF Again, Same
  <2>1. <<>> \in Seq(Reqs) /\ ToSet(<<>>) = {}
    BY DEF ToSet
  <2> QED
    BY <2>1, OnlyMembers
<1>5. \A r \in ToSet(rs) : \E k \in 1 .. n : r \in ToSet(Group(k))
  <2>1. TAKE r \in ToSet(rs)
  <2> DEFINE D == {k \in 1 .. n : Generated(rs[k]) = Generated(r)}
  <2>2. D # {} /\ D \in SUBSET (0 .. n)
    BY <1>3
  <2>3. PICK m \in D : \A k \in 0 .. n : k < m => k \notin D
    <3> HIDE DEF D
    <3> QED
      BY <1>3, <2>2, LeastUpTo
  <2>4. m \in 1 .. n /\ Generated(rs[m]) = Generated(r)
    OBVIOUS
  <2>5. ~Again(m)
    <3>1. SUFFICES ASSUME NEW k \in 1 .. m - 1, Generated(rs[k]) = Generated(rs[m])
                   PROVE  FALSE
      OBVIOUS
    <3>2. k \in 1 .. n /\ k \in 0 .. n /\ k < m
      BY <1>3, <2>4
    <3> QED
      BY <2>3, <2>4, <3>1, <3>2
  <2>6. r \in Same(m)
    BY <1>3, <2>4
  <2> HIDE DEF Group, Again, Same, D
  <2> QED
    BY <1>4, <2>4, <2>5, <2>6
<1> HIDE DEF Group
<1>6. ss \in Seq(Seq(Reqs)) /\ Len(ss) = n /\ \A k \in 1 .. n : ss[k] = Group(k)
  <2>1. ss \in [1 .. n -> Seq(Reqs)]
    BY <1>1, <1>4
  <2> HIDE DEF n
  <2> QED
    BY <1>1, <1>3, <2>1
<1>7. /\ FlattenSeq(ss) \in Seq(Reqs)
      /\ ToSet(FlattenSeq(ss)) = UNION {ToSet(ss[k]) : k \in 1 .. Len(ss)}
  BY <1>6, FlattenMembers
<1>8. UNION {ToSet(ss[k]) : k \in 1 .. n} = ToSet(rs)
  BY <1>4, <1>5, <1>6
<1> QED
  BY <1>2, <1>6, <1>7, <1>8

\* What dealing rs onto the pipes F of ps one by one gives.
Deals(out, ps, F, rs) ==
    /\ out \in [Pipe -> Seq(Reqs)]
    /\ \A i \in Pipe \ F : out[i] = ps[i]
    /\ \A i \in Pipe : ToSet(ps[i]) \subseteq ToSet(out[i])
    /\ Listed(out) = Listed(ps) \cup ToSet(rs)
    /\ Apart(ps) /\ NoRepeats(rs) /\ Listed(ps) \cap ToSet(rs) = {} => Apart(out)

\* _spread_reqs puts every request on one free pipe and disturbs nothing.
LEMMA SpreadDeals ==
    ASSUME NEW ps \in [Pipe -> Seq(Reqs)], NEW q, FreePipes(q) # {}, NEW rs \in Seq(Reqs)
    PROVE  Deals(Spread(ps, FreePipes(q), rs), ps, FreePipes(q), rs)
<1>1. Pipe \subseteq Int /\ IsFiniteSet(Pipe) /\ FreePipes(q) \subseteq Pipe
  BY PipesAreNumbered DEF Pipe, FreePipes
<1>2. DealsIn(Spread(ps, FreePipes(q), rs), ps, Pipe, Reqs, FreePipes(q), rs)
  BY <1>1, SpreadIn
<1> QED
  BY <1>2 DEF DealsIn, Deals, ListedIn, Listed, ApartIn, Apart

(* The invariant. *)

Wave == [key : Seq(Reqs), base : Seq(Int), step : Nat]
Launches == [pid : Pipe, reqs : Seq(Reqs)]

TypedRequests ==
    /\ running \in Seq(Reqs)
    /\ status \in [Reqs -> {"new", "running", "done", "dropped"}]
    /\ left \in [Reqs -> Nat]
    /\ ready \in [Reqs -> BOOLEAN]

TypedPlace ==
    /\ active \in BOOLEAN
    /\ pipes \in [Pipe -> Seq(Reqs)]
    /\ turn \in Pipe
    /\ current \in Pipe
    /\ queue \in Seq(Launches)
    /\ pending \in Seq(Seq(Reqs))
    /\ held \subseteq Reqs
    /\ pc \in {"idle", "serial", "next", "launch", "release"}

TypedKV ==
    /\ wave \in Wave
    /\ Len(wave.base) = Len(wave.key)
    /\ seq_len \in [Reqs -> Nat]
    /\ column \in [Reqs -> Int]

\* The running requests are those with that status, each listed once.
Runs ==
    /\ NoRepeats(running)
    /\ \A r \in Reqs : r \in ToSet(running) <=> status[r] = "running"

\* Between the sync and the launch of a tick the pipes, the parked and the held
\* requests are exactly the running ones, and no two of them overlap.
Partition(ps, waiting, late) ==
    /\ ToSet(running) = Listed(ps) \cup ToSet(waiting) \cup late
    /\ NoRepeats(waiting)
    /\ Listed(ps) \cap ToSet(waiting) = {}
    /\ Listed(ps) \cap late = {}
    /\ ToSet(waiting) \cap late = {}

Places ==
    /\ Apart(pipes)
    /\ pc \in {"next", "launch"} => active /\ Partition(pipes, Parked, held)

\* Requests are parked only in a tick that found every pipe in flight.
Drained == pending # <<>> => /\ pc = "next"
                             /\ \E rs \in Seq(Reqs) : pending = <<rs>>
                             /\ FreePipes(queue) = {}

\* Who runs without the pipeline finds no launch of it out, and a launch goes to
\* a pipe that has none.
Clear ==
    /\ pc = "serial" => ~active
    /\ ~active => queue = <<>>
    /\ pc = "launch" => ~Inflight(queue, current)

NoneNew == \A k \in 1 .. Len(queue) : \A r \in ToSet(queue[k].reqs) : status[r] # "new"

\* The cached wave ends where its requests' columns do, unless a launch failed
\* and none of them runs any more.
Tight(w, len) == \A i \in 1 .. Len(w.key) : w.base[i] + w.step = len[w.key[i]] - 1

WaveEnds ==
    \/ Tight(wave, seq_len)
    \/ \A r \in ToSet(wave.key) : status[r] = "dropped"

Inv ==
    /\ TypedRequests /\ TypedPlace /\ TypedKV
    /\ Runs
    /\ Places
    /\ Drained
    /\ Clear
    /\ OneForwardOut /\ NoneNew
    /\ ColumnsContiguous /\ WaveEnds

LEMMA NothingParked ==
    /\ FlattenSeq(<<>>) = <<>>
    /\ ToSet(<<>>) = {} /\ NoRepeats(<<>>) /\ <<>> \in Seq(Reqs)
BY DEF FlattenSeq, ToSet, NoRepeats

LEMMA InitHolds ==
    ASSUME Init PROVE Inv
<1>1. /\ Gen \in [Reqs -> Nat]
      /\ NoPipes \in [Pipe -> Seq(Reqs)]
      /\ \A i \in Pipe : NoPipes[i] = <<>>
  BY PipelineAssumption DEF NoPipes
<1>2. TypedRequests
  BY <1>1 DEF Init, TypedRequests
<1>3. TypedPlace
  <2>1. <<>> \in Seq(Launches) /\ <<>> \in Seq(Seq(Reqs)) /\ 0 \in Pipe
    BY PipesAreNumbered
  <2> QED
    BY <1>1, <2>1 DEF Init, TypedPlace
<1>4. TypedKV
  <2>1. NoWave \in Wave /\ Len(NoWave.base) = Len(NoWave.key)
    BY DEF NoWave, Wave
  <2> QED
    BY <2>1 DEF Init, TypedKV
<1>5. Runs
  BY NothingParked DEF Init, Runs
<1>6. Places
  BY <1>1, NothingParked DEF Init, Places, Apart
<1>7. Drained /\ Clear
  BY DEF Init, Drained, Clear
<1>8. OneForwardOut /\ NoneNew
  BY DEF Init, OneForwardOut, NoneNew
<1>9. ColumnsContiguous
  BY DEF Init, ColumnsContiguous
<1>10. WaveEnds
  BY NothingParked DEF Init, WaveEnds, NoWave
<1> QED
  BY <1>2, <1>3, <1>4, <1>5, <1>6, <1>7, <1>8, <1>9, <1>10 DEF Inv

\* A batch is a sequence of new requests, each once.
LEMMA BatchOfNew ==
    ASSUME NEW rs \in Batches
    PROVE  rs \in Seq(Reqs) /\ NoRepeats(rs) /\ \A r \in ToSet(rs) : r \in Reqs /\ status[r] = "new"
<1> DEFINE New == {r \in Reqs : status[r] = "new"}
<1>1. PICK S \in SUBSET New : rs \in SetToSeqs(S)
  BY DEF Batches, SetToAllKPermutations
<1>2. IsFiniteSet(S) /\ Cardinality(S) \in Nat
  BY PipelineAssumption, FS_Subset, FS_CardinalityType
<1>3. PICK n \in Nat : n = Cardinality(S)
  BY <1>2
<1>4. rs \in [1 .. n -> S] /\ \A i, j \in 1 .. n : i # j => rs[i] # rs[j]
  BY <1>1, <1>3 DEF SetToSeqs
<1>5. rs \in Seq(S) /\ Len(rs) = n
  BY <1>4
<1>6. ToSet(rs) \subseteq S
  BY <1>5, Members
<1>7. rs \in Seq(Reqs)
  <2>1. \A i \in 1 .. n : rs[i] \in Reqs
    BY <1>4
  <2>2. rs \in [1 .. n -> Reqs]
    BY <1>4, <2>1
  <2> QED
    BY <2>2
<1> QED
  BY <1>4, <1>5, <1>6, <1>7 DEF NoRepeats

-----------------------------------------------------------------------------
(* The steps. *)

\* What a step that leaves the queue and the pipes alone owes OneForwardOut.
LEMMA QueueKept ==
    ASSUME Inv, queue' = queue, pipes' = pipes, left' = left,
           \A r \in Reqs :
              \/ status'[r] = status[r]
              \/ status[r] = "new" /\ status'[r] \in {"running", "dropped"}
              \/ status[r] = "running" /\ (status'[r] = "dropped" \/ left[r] = 0)
    PROVE  OneForwardOut' /\ NoneNew'
<1>1. \A k \in 1 .. Len(queue) : queue[k] \in Launches /\ ToSet(queue[k].reqs) \subseteq Reqs
  <2>1. \A k \in 1 .. Len(queue) : queue[k] \in Launches
    BY DEF Inv, TypedPlace
  <2>2. \A k \in 1 .. Len(queue) : queue[k].reqs \in Seq(Reqs)
    BY <2>1 DEF Launches
  <2> QED
    BY <2>1, <2>2, Members
<1>2. \A k \in 1 .. Len(queue) : \A r \in ToSet(queue[k].reqs) :
         /\ r \in Reqs
         /\ status[r] # "done" /\ status[r] # "new"
         /\ status[r] = "running" => left[r] > 0 /\ r \in ToSet(pipes[queue[k].pid])
  BY <1>1 DEF Inv, OneForwardOut, NoneNew
<1>3. \A k \in 1 .. Len(queue) : \A r \in ToSet(queue[k].reqs) :
         status'[r] = status[r] \/ status'[r] = "dropped"
  <2>1. SUFFICES ASSUME NEW k \in 1 .. Len(queue), NEW r \in ToSet(queue[k].reqs)
                 PROVE  status'[r] = status[r] \/ status'[r] = "dropped"
    OBVIOUS
  <2>3. r \in Reqs /\ status[r] # "new" /\ (status[r] = "running" => left[r] > 0 /\ left[r] \in Nat)
    <3>1. r \in Reqs /\ status[r] # "new" /\ (status[r] = "running" => left[r] > 0)
      BY <1>2
    <3>2. left[r] \in Nat
      BY <3>1 DEF Inv, TypedRequests
    <3> QED
      BY <3>1, <3>2
  <2> QED
    BY <2>3
<1>4. NoneNew'
  BY <1>2, <1>3 DEF NoneNew
<1>5. OneForwardOut'
  BY <1>2, <1>3 DEF Inv, OneForwardOut
<1> QED
  BY <1>4, <1>5

\* The same for the wave cache: what was dropped stays dropped.
LEMMA WaveKept ==
    ASSUME Inv, UNCHANGED kv,
           \A r \in Reqs : status[r] = "dropped" => status'[r] = "dropped"
    PROVE  TypedKV' /\ ColumnsContiguous' /\ WaveEnds'
<1>1. wave' = wave /\ seq_len' = seq_len /\ column' = column
  BY DEF kv
<1>2. TypedKV' /\ ColumnsContiguous'
  BY <1>1 DEF Inv, TypedKV, ColumnsContiguous
<1>3. wave.key \in Seq(Reqs)
  BY DEF Inv, TypedKV, Wave
<1>4. ToSet(wave.key) \subseteq Reqs
  BY <1>3, Members
<1>5. WaveEnds'
  BY <1>1, <1>4 DEF Inv, WaveEnds, Tight
<1> QED
  BY <1>2, <1>5

LEMMA StutterHolds ==
    ASSUME Inv, UNCHANGED vars PROVE Inv'
<1>1. /\ running' = running /\ status' = status /\ left' = left /\ ready' = ready
      /\ UNCHANGED kv /\ pc' = pc
      /\ active' = active /\ pipes' = pipes /\ turn' = turn /\ current' = current
      /\ queue' = queue /\ pending' = pending /\ held' = held
  BY DEF vars, kv
<1>2. TypedRequests' /\ TypedPlace'
  BY <1>1 DEF Inv, TypedRequests, TypedPlace
<1>3. Runs' /\ Places' /\ Drained' /\ Clear'
  <2>1. Runs' /\ Drained' /\ Clear'
    BY <1>1 DEF Inv, Runs, Drained, Clear
  <2>2. Places'
    BY <1>1 DEF Inv, Places, Partition, Parked
  <2> QED
    BY <2>1, <2>2
<1>4. OneForwardOut' /\ NoneNew'
  BY <1>1, QueueKept
<1>5. TypedKV' /\ ColumnsContiguous' /\ WaveEnds'
  BY <1>1, WaveKept
<1> QED
  BY <1>2, <1>3, <1>4, <1>5 DEF Inv

\* Steps taken between ticks, and steps that end one: nothing is said of where
\* the requests are.
LEMMA IdleKeepsPlace ==
    ASSUME Inv, UNCHANGED place, pending = <<>>, pc' \in {"idle", "serial", "release"},
           pc' = "serial" => ~active
    PROVE  TypedPlace' /\ Places' /\ Drained' /\ Clear'
<1>1. /\ active' = active /\ pipes' = pipes /\ turn' = turn /\ current' = current
      /\ queue' = queue /\ pending' = pending /\ held' = held
  BY DEF place
<1>2. TypedPlace'
  BY <1>1 DEF Inv, TypedPlace
<1>3. Places'
  BY <1>1 DEF Inv, Places, Apart
<1>4. Drained' /\ Clear'
  BY <1>1 DEF Inv, Drained, Clear
<1> QED
  BY <1>2, <1>3, <1>4

LEMMA NothingPending ==
    ASSUME Inv, pc # "next" PROVE pending = <<>>
BY DEF Inv, Drained

LEMMA PrefillHolds ==
    ASSUME Inv, NEW rs \in Batches, Prefill(rs) PROVE Inv'
<1>1. rs \in Seq(Reqs) /\ NoRepeats(rs) /\ \A r \in ToSet(rs) : r \in Reqs /\ status[r] = "new"
  BY BatchOfNew
<1>2. /\ pc = "idle" /\ pc' = "idle" /\ running' = running \o rs
      /\ status' = [r \in Reqs |-> IF r \in ToSet(rs) THEN "running" ELSE status[r]]
      /\ \E done \in BOOLEAN :
           ready' = [r \in Reqs |-> IF r \in ToSet(rs) THEN done ELSE ready[r]]
      /\ left' = left /\ UNCHANGED place /\ UNCHANGED kv
      /\ queue' = queue /\ pipes' = pipes
  BY DEF Prefill, place, kv
<1>3. ToSet(running) \cap ToSet(rs) = {}
  BY <1>1 DEF Inv, Runs
<1>4. /\ running' \in Seq(Reqs) /\ ToSet(running') = ToSet(running) \cup ToSet(rs)
      /\ NoRepeats(running')
  BY <1>1, <1>2, <1>3, ConcatMembers DEF Inv, TypedRequests, Runs
<1>5. TypedRequests'
  BY <1>2, <1>4 DEF Inv, TypedRequests
<1>6. Runs'
  BY <1>2, <1>4 DEF Inv, Runs
<1>7. TypedPlace' /\ Places' /\ Drained' /\ Clear'
  BY <1>2, NothingPending, IdleKeepsPlace
<1>8. \A r \in Reqs : status'[r] = status[r] \/ (status[r] = "new" /\ status'[r] = "running")
  BY <1>1, <1>2
<1>9. OneForwardOut' /\ NoneNew'
  BY <1>2, <1>8, QueueKept
<1>10. TypedKV' /\ ColumnsContiguous' /\ WaveEnds'
  BY <1>2, <1>8, WaveKept
<1> QED
  BY <1>5, <1>6, <1>7, <1>9, <1>10 DEF Inv

LEMMA PrefillDoneHolds ==
    ASSUME Inv, NEW r \in Reqs, PrefillDone(r) PROVE Inv'
<1>1. /\ running' = running /\ status' = status /\ left' = left
      /\ ready' = [ready EXCEPT ![r] = TRUE]
      /\ UNCHANGED kv /\ pc' = pc
      /\ active' = active /\ pipes' = pipes /\ turn' = turn /\ current' = current
      /\ queue' = queue /\ pending' = pending /\ held' = held
  BY DEF PrefillDone, place
<1>2. TypedRequests' /\ TypedPlace'
  BY <1>1 DEF Inv, TypedRequests, TypedPlace
<1>3. Runs' /\ Places' /\ Drained' /\ Clear'
  <2>1. Runs' /\ Drained' /\ Clear'
    BY <1>1 DEF Inv, Runs, Drained, Clear
  <2>2. Places'
    BY <1>1 DEF Inv, Places, Partition, Parked
  <2> QED
    BY <2>1, <2>2
<1>4. OneForwardOut' /\ NoneNew'
  BY <1>1, QueueKept
<1>5. TypedKV' /\ ColumnsContiguous' /\ WaveEnds'
  BY <1>1, WaveKept
<1> QED
  BY <1>2, <1>3, <1>4, <1>5 DEF Inv

LEMMA StartSerialHolds ==
    ASSUME Inv, StartSerial PROVE Inv'
<1>1. /\ pc = "idle" /\ pc' = "serial" /\ ~active
      /\ running' = running /\ status' = status /\ left' = left /\ ready' = ready
      /\ UNCHANGED place /\ UNCHANGED kv /\ queue' = queue /\ pipes' = pipes
  BY DEF StartSerial, place, kv
<1>2. TypedRequests' /\ Runs'
  BY <1>1 DEF Inv, TypedRequests, Runs
<1>3. TypedPlace' /\ Places' /\ Drained' /\ Clear'
  BY <1>1, NothingPending, IdleKeepsPlace
<1>4. OneForwardOut' /\ NoneNew'
  BY <1>1, QueueKept
<1>5. TypedKV' /\ ColumnsContiguous' /\ WaveEnds'
  BY <1>1, WaveKept
<1> QED
  BY <1>2, <1>3, <1>4, <1>5 DEF Inv

LEMMA ReleaseHolds ==
    ASSUME Inv, Release PROVE Inv'
<1>1. /\ pc = "release" /\ pc' = "idle" /\ running' = Only(running, Reqs \ Released)
      /\ status' = [r \in Reqs |-> IF r \in Released THEN "done" ELSE status[r]]
      /\ left' = left /\ ready' = ready
      /\ UNCHANGED place /\ UNCHANGED kv /\ queue' = queue /\ pipes' = pipes
  BY DEF Release, Without, place, kv
<1>2. Released \subseteq ToSet(running) /\ \A r \in Released : left[r] = 0 /\ status[r] = "running"
  BY Members DEF Inv, Runs, TypedRequests, Released, Finished
<1>3. /\ running' \in Seq(Reqs) /\ ToSet(running') = ToSet(running) \cap (Reqs \ Released)
      /\ NoRepeats(running')
  BY <1>1, OnlyMembers DEF Inv, TypedRequests, Runs
<1>4. TypedRequests'
  BY <1>1, <1>3 DEF Inv, TypedRequests
<1>5. Runs'
  BY <1>1, <1>3 DEF Inv, Runs
<1>6. TypedPlace' /\ Places' /\ Drained' /\ Clear'
  BY <1>1, NothingPending, IdleKeepsPlace
<1>7. \A r \in Reqs : status'[r] = status[r] \/ (status[r] = "running" /\ left[r] = 0)
  BY <1>1, <1>2
<1>8. OneForwardOut' /\ NoneNew'
  BY <1>1, <1>7, QueueKept
<1>9. \A r \in Reqs : status[r] = "dropped" => status'[r] = "dropped"
  BY <1>7
<1>10. TypedKV' /\ ColumnsContiguous' /\ WaveEnds'
  BY <1>1, <1>9, WaveKept
<1> QED
  BY <1>4, <1>5, <1>6, <1>8, <1>10 DEF Inv

\* What a failure forgets no longer runs.
LEMMA ForgottenHolds ==
    ASSUME Inv, NEW S, S \subseteq {r \in Reqs : status[r] = "new"},
           running' = <<>>, status' = Forgotten(ToSet(running) \cup S),
           left' = left, ready' = ready, queue' = queue, pipes' = pipes
    PROVE  /\ TypedRequests' /\ Runs' /\ OneForwardOut' /\ NoneNew'
           /\ \A r \in Reqs : status[r] = "dropped" => status'[r] = "dropped"
<1>1. status' = [r \in Reqs |-> IF r \in ToSet(running) \cup S THEN "dropped" ELSE status[r]]
  BY DEF Forgotten
<1>2. TypedRequests'
  BY <1>1, NothingParked DEF Inv, TypedRequests
<1>3. \A r \in Reqs : r \in ToSet(running) <=> status[r] = "running"
  BY DEF Inv, Runs
<1>4. \A r \in Reqs : status'[r] # "running"
  BY <1>1, <1>3
<1>5. Runs'
  BY <1>4, NothingParked DEF Runs
<1>6. \A r \in Reqs : \/ status'[r] = status[r]
                      \/ status[r] = "new" /\ status'[r] = "dropped"
                      \/ status[r] = "running" /\ status'[r] = "dropped"
  BY <1>1, <1>3
<1>7. OneForwardOut' /\ NoneNew'
  BY <1>6, QueueKept
<1> QED
  BY <1>2, <1>5, <1>6, <1>7

LEMMA PrefillRaisesHolds ==
    ASSUME Inv, NEW rs \in Batches, PrefillRaises(rs) PROVE Inv'
<1>1. ToSet(rs) \subseteq {r \in Reqs : status[r] = "new"}
  BY BatchOfNew
<1>2. /\ pc = "idle" /\ pc' = "idle" /\ running' = <<>>
      /\ status' = Forgotten(ToSet(running) \cup ToSet(rs))
      /\ left' = left /\ ready' = ready
      /\ UNCHANGED place /\ UNCHANGED kv /\ queue' = queue /\ pipes' = pipes
  BY DEF PrefillRaises, place, kv
<1>3. /\ TypedRequests' /\ Runs' /\ OneForwardOut' /\ NoneNew'
      /\ \A r \in Reqs : status[r] = "dropped" => status'[r] = "dropped"
  BY <1>1, <1>2, ForgottenHolds
<1>4. TypedPlace' /\ Places' /\ Drained' /\ Clear'
  BY <1>2, NothingPending, IdleKeepsPlace
<1>5. TypedKV' /\ ColumnsContiguous' /\ WaveEnds'
  BY <1>2, <1>3, WaveKept
<1> QED
  BY <1>3, <1>4, <1>5 DEF Inv

\* Every launch of running requests gets a wave that ends where they do.
LEMMA WaveOfEnds ==
    ASSUME Inv, NEW rs \in Seq(Reqs), \A r \in ToSet(rs) : status[r] = "running"
    PROVE  /\ WaveOf(rs) \in Wave
           /\ WaveOf(rs).key = rs
           /\ Len(WaveOf(rs).base) = Len(rs)
           /\ \A i \in 1 .. Len(rs) : WaveOf(rs).base[i] + WaveOf(rs).step = seq_len[rs[i]]
<1>1. /\ wave \in Wave /\ Len(wave.base) = Len(wave.key)
      /\ seq_len \in [Reqs -> Nat]
      /\ Len(rs) \in Nat /\ \A i \in 1 .. Len(rs) : rs[i] \in Reqs /\ rs[i] \in ToSet(rs)
  BY Members DEF Inv, TypedKV
<1>2. CASE wave.key = rs
  <2>1. WaveOf(rs) = [wave EXCEPT !.step = @ + 1]
    BY <1>2 DEF WaveOf
  <2>2. /\ WaveOf(rs) \in Wave /\ WaveOf(rs).key = wave.key /\ WaveOf(rs).base = wave.base
        /\ WaveOf(rs).step = wave.step + 1
    <3>1. wave.step \in Nat /\ wave.step + 1 \in Nat
      BY <1>1 DEF Wave
    <3>2. PICK n \in Nat : n = wave.step + 1
      BY <3>1
    <3>3. WaveOf(rs) = [wave EXCEPT !.step = n]
      BY <2>1, <3>2
    <3> QED
      BY <1>1, <3>2, <3>3 DEF Wave
  <2>3. \A i \in 1 .. Len(rs) : wave.base[i] + wave.step = seq_len[rs[i]] - 1
    <3>1. CASE Tight(wave, seq_len)
      BY <1>2, <3>1 DEF Tight
    <3>2. CASE \A r \in ToSet(wave.key) : status[r] = "dropped"
      BY <1>1, <1>2, <3>2
    <3> QED
      BY <3>1, <3>2 DEF Inv, WaveEnds
  <2>4. \A i \in 1 .. Len(rs) : wave.base[i] \in Int /\ seq_len[rs[i]] \in Nat
    BY <1>1, <1>2 DEF Wave
  <2>5. wave.step \in Nat
    BY <1>1 DEF Wave
  <2>6. \A i \in 1 .. Len(rs) : wave.base[i] + (wave.step + 1) = seq_len[rs[i]]
    <3>1. SUFFICES ASSUME NEW i \in 1 .. Len(rs)
                   PROVE  wave.base[i] + (wave.step + 1) = seq_len[rs[i]]
      OBVIOUS
    <3>2. PICK b, n, l : b = wave.base[i] /\ n = wave.step /\ l = seq_len[rs[i]]
      OBVIOUS
    <3>3. b \in Int /\ n \in Nat /\ l \in Nat /\ b + n = l - 1
      BY <2>3, <2>4, <2>5, <3>2
    <3>4. b + (n + 1) = l
      BY <3>3
    <3> QED
      BY <3>2, <3>4
  <2> QED
    BY <1>1, <1>2, <2>2, <2>6
<1>3. CASE wave.key # rs
  <2>1. PICK b : b = [i \in 1 .. Len(rs) |-> seq_len[rs[i]]]
    OBVIOUS
  <2>2. WaveOf(rs) = [key |-> rs, base |-> b, step |-> 0]
    BY <1>3, <2>1 DEF WaveOf
  <2>3. b \in Seq(Int) /\ Len(b) = Len(rs) /\ \A i \in 1 .. Len(rs) : b[i] = seq_len[rs[i]] /\ b[i] \in Nat
    <3>1. \A i \in 1 .. Len(rs) : b[i] = seq_len[rs[i]] /\ b[i] \in Nat
      BY <1>1, <2>1
    <3>2. b \in [1 .. Len(rs) -> Int]
      BY <2>1, <3>1
    <3> QED
      BY <1>1, <3>1, <3>2
  <2>4. WaveOf(rs) \in Wave
    BY <2>2, <2>3 DEF Wave
  <2>5. \A i \in 1 .. Len(rs) : b[i] + 0 = seq_len[rs[i]]
    BY <2>3
  <2> QED
    BY <2>2, <2>3, <2>4, <2>5
<1> QED
  BY <1>2, <1>3

LEMMA ForwardHolds ==
    ASSUME Inv, NEW rs \in Seq(Reqs), \A r \in ToSet(rs) : status[r] = "running",
           ForwardDecode(rs)
    PROVE  TypedKV' /\ ColumnsContiguous' /\ WaveEnds'
<1> DEFINE Position(r) == CHOOSE i \in 1 .. Len(rs) : rs[i] = r
<1>0. \A r \in ToSet(rs) : Position(r) \in 1 .. Len(rs) /\ rs[Position(r)] = r
  <2>1. \A r \in ToSet(rs) : \E i \in 1 .. Len(rs) : rs[i] = r
    BY Members
  <2> QED
    BY <2>1, Zenon
<1>a. /\ wave' = WaveOf(rs)
      /\ seq_len' = [r \in Reqs |-> IF r \in ToSet(rs) THEN seq_len[r] + 1 ELSE seq_len[r]]
      /\ column' = [r \in Reqs |->
            IF r \in ToSet(rs) THEN WaveOf(rs).base[Position(r)] + WaveOf(rs).step
            ELSE column[r]]
  BY Zenon DEF ForwardDecode
<1> HIDE DEF Position
<1>1. PICK w : w = WaveOf(rs)
  OBVIOUS
<1>2. /\ wave' = w
      /\ seq_len' = [r \in Reqs |-> IF r \in ToSet(rs) THEN seq_len[r] + 1 ELSE seq_len[r]]
      /\ column' = [r \in Reqs |->
            IF r \in ToSet(rs) THEN w.base[Position(r)] + w.step ELSE column[r]]
  BY <1>1, <1>a
<1>3. /\ w \in Wave /\ w.key = rs /\ Len(w.base) = Len(rs)
      /\ \A i \in 1 .. Len(rs) : w.base[i] + w.step = seq_len[rs[i]]
  BY <1>1, WaveOfEnds
<1>4. /\ seq_len \in [Reqs -> Nat] /\ column \in [Reqs -> Int]
      /\ \A r \in Reqs : column[r] = seq_len[r] - 1
  BY DEF Inv, TypedKV, ColumnsContiguous
<1>5. \A i \in 1 .. Len(rs) : rs[i] \in Reqs /\ rs[i] \in ToSet(rs)
  BY Members
<1>6. \A r \in Reqs : r \in ToSet(rs) => column'[r] = seq_len[r]
  <2>1. SUFFICES ASSUME NEW r \in Reqs, r \in ToSet(rs) PROVE column'[r] = seq_len[r]
    OBVIOUS
  <2>2. PICK i \in 1 .. Len(rs) : i = Position(r) /\ rs[i] = r
    BY <1>0, <2>1
  <2>3. column'[r] = w.base[i] + w.step
    BY <1>2, <2>1, <2>2
  <2> QED
    BY <1>3, <2>2, <2>3
<1>7. \A r \in Reqs : column'[r] = seq_len'[r] - 1 /\ seq_len'[r] \in Nat /\ column'[r] \in Int
  <2>1. SUFFICES ASSUME NEW r \in Reqs
                 PROVE  column'[r] = seq_len'[r] - 1 /\ seq_len'[r] \in Nat /\ column'[r] \in Int
    OBVIOUS
  <2>2. seq_len[r] \in Nat /\ column[r] \in Int /\ column[r] = seq_len[r] - 1
    BY <1>4
  <2>3. CASE r \in ToSet(rs)
    <3>1. column'[r] = seq_len[r]
      BY <1>6, <2>3
    <3>2. seq_len'[r] = seq_len[r] + 1
      BY <1>2, <2>3
    <3> QED
      BY <2>2, <3>1, <3>2
  <2>4. CASE r \notin ToSet(rs)
    <3>1. column'[r] = column[r] /\ seq_len'[r] = seq_len[r]
      BY <1>2, <2>4
    <3> QED
      BY <2>2, <3>1
  <2> QED
    BY <2>3, <2>4
<1>8. TypedKV'
  <2>1. seq_len' \in [Reqs -> Nat]
    BY <1>2, <1>7
  <2>2. column' \in [Reqs -> Int]
    BY <1>2, <1>7
  <2> QED
    BY <1>2, <1>3, <2>1, <2>2 DEF TypedKV
<1>9. ColumnsContiguous'
  BY <1>7 DEF ColumnsContiguous
<1>10. \A i \in 1 .. Len(rs) : w.base[i] + w.step = seq_len'[rs[i]] - 1
  <2>1. SUFFICES ASSUME NEW i \in 1 .. Len(rs)
                 PROVE  w.base[i] + w.step = seq_len'[rs[i]] - 1
    OBVIOUS
  <2>2. seq_len'[rs[i]] = seq_len[rs[i]] + 1 /\ seq_len[rs[i]] \in Nat
    BY <1>2, <1>4, <1>5
  <2> QED
    BY <1>3, <2>2
<1>11. WaveEnds'
  BY <1>2, <1>3, <1>10 DEF WaveEnds, Tight
<1> QED
  BY <1>8, <1>9, <1>11

LEMMA ExpandedType ==
    ASSUME Inv, NEW rs
    PROVE  /\ Expanded(rs) \in [Reqs -> Nat]
           /\ \A r \in Reqs \ ToSet(rs) : Expanded(rs)[r] = left[r]
<1>1. left \in [Reqs -> Nat]
  BY DEF Inv, TypedRequests
<1>2. \A r \in Reqs : left[r] > 0 => left[r] - 1 \in Nat
  BY <1>1
<1> QED
  BY <1>1, <1>2 DEF Expanded

\* Without the pipeline everything is decoded together.
LEMMA SerialStepHolds ==
    ASSUME Inv, SerialStep PROVE Inv'
<1>1. /\ pc = "serial" /\ pc' = "release" /\ ForwardDecode(Ordered(running))
      /\ left' = Expanded(running)
      /\ running' = running /\ status' = status /\ ready' = ready
      /\ UNCHANGED place /\ queue' = queue /\ pipes' = pipes
  BY DEF SerialStep, place
<1>2. ~active /\ queue = <<>>
  BY <1>1 DEF Inv, Clear
<1>3. TypedRequests' /\ Runs'
  BY <1>1, ExpandedType DEF Inv, TypedRequests, Runs
<1>4. TypedPlace' /\ Places' /\ Drained' /\ Clear'
  BY <1>1, NothingPending, IdleKeepsPlace
<1>5. OneForwardOut' /\ NoneNew'
  BY <1>1, <1>2 DEF OneForwardOut, NoneNew
<1>6. /\ Ordered(running) \in Seq(Reqs)
      /\ \A r \in ToSet(Ordered(running)) : status[r] = "running"
  <2>1. running \in Seq(Reqs) /\ \A r \in Reqs : r \in ToSet(running) <=> status[r] = "running"
    BY DEF Inv, TypedRequests, Runs
  <2> QED
    BY <2>1, OrderedMembers, Members
<1>7. TypedKV' /\ ColumnsContiguous' /\ WaveEnds'
  BY <1>1, <1>6, ForwardHolds
<1> QED
  BY <1>3, <1>4, <1>5, <1>7 DEF Inv

\* A launch takes the unfinished requests of the current pipe.
LEMMA LaunchedMembers ==
    ASSUME Inv, pc = "launch"
    PROVE  /\ Launched \in Seq(Reqs)
           /\ ToSet(Launched) = {r \in ToSet(pipes[current]) : left[r] # 0}
           /\ \A r \in ToSet(Launched) : r \in Reqs /\ status[r] = "running"
<1>1. pipes \in [Pipe -> Seq(Reqs)] /\ current \in Pipe
  BY DEF Inv, TypedPlace
<1>2. PICK p \in Seq(Reqs) : p = pipes[current]
  BY <1>1
<1>3. /\ Unfinished(p) \in Seq(Reqs)
      /\ ToSet(Unfinished(p)) = ToSet(p) \cap {r \in Reqs : ~Finished(r)}
  BY OnlyMembers DEF Unfinished
<1>4. Launched \in Seq(Reqs) /\ ToSet(Launched) = ToSet(Unfinished(p))
  BY <1>2, <1>3, OrderedMembers DEF Launched
<1>5. ToSet(p) \subseteq Reqs
  BY Members
<1>6. ToSet(p) \subseteq ToSet(running)
  BY <1>1, <1>2 DEF Inv, Places, Partition, Listed
<1>7. \A r \in ToSet(p) : status[r] = "running"
  BY <1>5, <1>6 DEF Inv, Runs
<1> QED
  BY <1>2, <1>3, <1>4, <1>5, <1>7 DEF Finished

\* What a launch holds is its own.
LEMMA LaunchTypes ==
    ASSUME Inv, NEW k \in 1 .. Len(queue)
    PROVE  /\ queue[k] \in Launches /\ queue[k].pid \in Pipe /\ queue[k].reqs \in Seq(Reqs)
           /\ ToSet(queue[k].reqs) \subseteq Reqs
<1>1. queue[k] \in Launches
  BY DEF Inv, TypedPlace
<1>2. queue[k].pid \in Pipe /\ queue[k].reqs \in Seq(Reqs)
  BY <1>1 DEF Launches
<1> QED
  BY <1>1, <1>2, Members

LEMMA LaunchHolds ==
    ASSUME Inv, Launch PROVE Inv'
<1>1. PICK rs : rs = Launched
  OBVIOUS
<1>2. PICK new : new = [pid |-> current, reqs |-> rs]
  OBVIOUS
<1>3. /\ pc = "launch" /\ pc' = "release" /\ ForwardDecode(rs)
      /\ queue' = Append(queue, new)
      /\ ready' = [r \in Reqs |-> ready[r] \/ r \in ToSet(rs)]
      /\ running' = running /\ status' = status /\ left' = left /\ active' = active
      /\ pipes' = pipes /\ turn' = turn /\ current' = current /\ pending' = pending
      /\ held' = held
  BY <1>1, <1>2 DEF Launch
<1>4. /\ rs \in Seq(Reqs) /\ ToSet(rs) = {r \in ToSet(pipes[current]) : left[r] # 0}
      /\ \A r \in ToSet(rs) : r \in Reqs /\ status[r] = "running"
  BY <1>1, <1>3, LaunchedMembers
<1>5. current \in Pipe /\ queue \in Seq(Launches) /\ Len(queue) \in Nat
  BY DEF Inv, TypedPlace
<1>6. new \in Launches /\ new.pid = current /\ new.reqs = rs
  BY <1>2, <1>4, <1>5 DEF Launches
<1>7. /\ queue' \in Seq(Launches) /\ Len(queue') = Len(queue) + 1
      /\ \A k \in 1 .. Len(queue) : queue'[k] = queue[k]
      /\ queue'[Len(queue) + 1] = new
  BY <1>3, <1>5, <1>6
<1>8. TypedRequests' /\ Runs'
  BY <1>3 DEF Inv, TypedRequests, Runs
<1>9. pending = <<>>
  BY <1>3, NothingPending
<1>10. TypedPlace'
  BY <1>3, <1>7 DEF Inv, TypedPlace
<1>11. Places' /\ Drained'
  BY <1>3, <1>9 DEF Inv, Places, Drained
<1>12. active /\ ~Inflight(queue, current)
  BY <1>3 DEF Inv, Places, Clear
<1>13. Clear'
  BY <1>3, <1>12 DEF Clear
<1>14. TypedKV' /\ ColumnsContiguous' /\ WaveEnds'
  BY <1>3, <1>4, ForwardHolds
<1>15. \A k \in 1 .. Len(queue) :
          /\ queue[k].pid # current /\ queue[k].pid \in Pipe
          /\ \A r \in ToSet(queue[k].reqs) : status[r] = "running" => r \in ToSet(pipes[queue[k].pid])
  BY <1>12, LaunchTypes DEF Inv, OneForwardOut, Inflight
<1>16. \A k \in 1 .. Len(queue) : ToSet(queue[k].reqs) \cap ToSet(rs) = {}
  <2>1. SUFFICES ASSUME NEW k \in 1 .. Len(queue), NEW r \in ToSet(queue[k].reqs), r \in ToSet(rs)
                 PROVE  FALSE
    OBVIOUS
  <2>2. r \in ToSet(pipes[queue[k].pid]) /\ r \in ToSet(pipes[current])
    BY <1>4, <1>15, <2>1
  <2>3. ToSet(pipes[queue[k].pid]) \cap ToSet(pipes[current]) = {}
    BY <1>5, <1>15 DEF Inv, Places, Apart
  <2> QED
    BY <2>2, <2>3
<1>17. \A r \in ToSet(rs) : left[r] > 0 /\ r \in ToSet(pipes[current])
  <2>1. \A r \in Reqs : left[r] \in Nat
    BY DEF Inv, TypedRequests
  <2> QED
    BY <1>4, <2>1
<1>18. NoneNew'
  <2>1. SUFFICES ASSUME NEW k \in 1 .. Len(queue) + 1, NEW r \in ToSet(queue'[k].reqs)
                 PROVE  status[r] # "new"
    BY <1>3, <1>7 DEF NoneNew
  <2>2. CASE k \in 1 .. Len(queue)
    BY <1>7, <2>2 DEF Inv, NoneNew
  <2>3. CASE k = Len(queue) + 1
    BY <1>4, <1>6, <1>7, <2>3
  <2> QED
    BY <1>5, <2>2, <2>3
<1>19. OneForwardOut'
  <2>1. SUFFICES ASSUME NEW k \in 1 .. Len(queue) + 1
                 PROVE  /\ \A n \in 1 .. k - 1 :
                              /\ queue'[n].pid # queue'[k].pid
                              /\ ToSet(queue'[n].reqs) \cap ToSet(queue'[k].reqs) = {}
                        /\ \A r \in ToSet(queue'[k].reqs) :
                              /\ status[r] # "done"
                              /\ status[r] = "running" =>
                                    left[r] > 0 /\ r \in ToSet(pipes[queue'[k].pid])
    BY <1>3, <1>7 DEF OneForwardOut
  <2>2. \A n \in 1 .. k - 1 : n \in 1 .. Len(queue) /\ queue'[n] = queue[n]
    BY <1>5, <1>7
  <2>3. CASE k \in 1 .. Len(queue)
    BY <1>7, <2>2, <2>3 DEF Inv, OneForwardOut
  <2>4. CASE k = Len(queue) + 1
    <3>1. queue'[k].pid = current /\ queue'[k].reqs = rs
      BY <1>6, <1>7, <2>4
    <3>2. \A n \in 1 .. k - 1 : /\ queue'[n].pid # current
                                /\ ToSet(queue'[n].reqs) \cap ToSet(rs) = {}
      BY <1>15, <1>16, <2>2
    <3>3. \A r \in ToSet(rs) : status[r] # "done"
      BY <1>4
    <3> QED
      BY <1>17, <3>1, <3>2, <3>3
  <2> QED
    BY <1>5, <2>3, <2>4
<1> QED
  BY <1>8, <1>10, <1>11, <1>13, <1>14, <1>18, <1>19 DEF Inv

LEMMA LaunchRaisesHolds ==
    ASSUME Inv, LaunchRaises PROVE Inv'
<1>1. PICK rs : rs = Launched
  OBVIOUS
<1>2. /\ pc = "launch" /\ pc' = "idle" /\ running' = <<>>
      /\ status' = Forgotten(ToSet(running) \cup {})
      /\ wave' = WaveOf(rs) /\ seq_len' = seq_len /\ column' = column
      /\ left' = left /\ ready' = ready
      /\ UNCHANGED place /\ queue' = queue /\ pipes' = pipes
  <2>1. ToSet(running) \cup {} = ToSet(running)
    OBVIOUS
  <2> QED
    BY <1>1, <2>1 DEF LaunchRaises, place
<1>3. rs \in Seq(Reqs) /\ \A r \in ToSet(rs) : r \in Reqs /\ status[r] = "running"
  BY <1>1, <1>2, LaunchedMembers
<1>4. TypedRequests' /\ Runs' /\ OneForwardOut' /\ NoneNew'
  <2>1. PICK S : S = {}
    OBVIOUS
  <2>2. S \subseteq {r \in Reqs : status[r] = "new"} /\ status' = Forgotten(ToSet(running) \cup S)
    BY <1>2, <2>1
  <2> QED
    BY <1>2, <2>2, ForgottenHolds
<1>5. TypedPlace' /\ Places' /\ Drained' /\ Clear'
  BY <1>2, NothingPending, IdleKeepsPlace
<1>6. /\ wave' \in Wave /\ wave'.key = rs /\ Len(wave'.base) = Len(rs)
  BY <1>2, <1>3, WaveOfEnds
<1>7. TypedKV' /\ ColumnsContiguous'
  BY <1>2, <1>6 DEF Inv, TypedKV, ColumnsContiguous
<1>8. \A r \in ToSet(rs) : status'[r] = "dropped"
  BY <1>2, <1>3 DEF Inv, Runs, Forgotten
<1>9. WaveEnds'
  BY <1>6, <1>8 DEF WaveEnds
<1> QED
  BY <1>4, <1>5, <1>7, <1>9 DEF Inv

\* A round of get_next finds nothing it could flush.
LEMMA RoundSame ==
    ASSUME Inv, pc = "next"
    PROVE  Round.pipes = pipes /\ Round.pending = pending
<1>1. PICK x : x = [pipes |-> pipes, pending |-> pending]
  OBVIOUS
<1>2. x.pending = <<>> \/ FreePipes(queue) = {}
  BY <1>1 DEF Inv, Drained
<1>3. Round = x
  BY <1>1, <1>2 DEF Round, Flush
<1> QED
  BY <1>1, <1>3

\* What is parked is one batch or none.
LEMMA ParkedBatch ==
    ASSUME Inv
    PROVE  /\ Parked \in Seq(Reqs)
           /\ pending = <<>> => Parked = <<>>
           /\ pending # <<>> => FreePipes(queue) = {}
<1>1. pending = <<>> => Parked = <<>> /\ Parked \in Seq(Reqs)
  BY NothingParked DEF Parked
<1>2. pending # <<>> => Parked \in Seq(Reqs)
  <2>1. SUFFICES ASSUME pending # <<>> PROVE Parked \in Seq(Reqs)
    OBVIOUS
  <2>2. PICK rs \in Seq(Reqs) : pending = <<rs>>
    BY <2>1 DEF Inv, Drained
  <2> QED
    BY <2>2, FlattenSingle DEF Parked
<1> QED
  BY <1>1, <1>2 DEF Inv, Drained

LEMMA PicksArePipes ==
    ASSUME Inv, NEW ps
    PROVE  /\ \A t \in Picks(ps) : t \in Pipe
           /\ \A t \in Pipe : \A i \in Alternatives(ps, t) : i \in Pipe /\ ~Inflight(queue, i)
<1>1. NPipes \in Nat /\ NPipes >= 2 /\ \A i \in Pipe : i \in Nat
  BY PipesAreNumbered DEF Pipe
<1>2. turn \in Pipe
  BY DEF Inv, TypedPlace
<1>3. \A t \in Picks(ps) : \E k \in 0 .. NPipes - 1 : t = After(turn, k)
  BY DEF Picks, FirstFrom
<1>4. \A t \in Pipe : \A i \in Alternatives(ps, t) :
         /\ \E k \in 1 .. NPipes - 1 : i = After(t, k)
         /\ ~Inflight(queue, i)
  BY DEF Alternatives, FirstFrom
<1>5. \A k \in 0 .. NPipes - 1 : k \in Nat
  BY <1>1
<1> QED
  BY <1>1, <1>2, <1>3, <1>4, <1>5, AfterIsPipe

\* A round that changes neither the queue nor the pipes.
LEMMA RoundKeeps ==
    ASSUME Inv, pc = "next", pipes' = pipes, pending' = pending, queue' = queue, held' = held,
           active' = active, running' = running, status' = status, left' = left, ready' = ready,
           UNCHANGED kv
    PROVE  /\ TypedRequests' /\ Runs' /\ TypedKV' /\ ColumnsContiguous' /\ WaveEnds'
           /\ OneForwardOut' /\ NoneNew' /\ Places'
           /\ ~active' => queue' = <<>>
<1>1. TypedRequests' /\ Runs'
  BY DEF Inv, TypedRequests, Runs
<1>2. TypedKV' /\ ColumnsContiguous' /\ WaveEnds'
  BY WaveKept
<1>3. OneForwardOut' /\ NoneNew'
  BY QueueKept
<1>4. Places'
  BY DEF Inv, Places, Partition, Parked
<1> QED
  BY <1>1, <1>2, <1>3, <1>4 DEF Inv, Clear

LEMMA PickIdlePipeHolds ==
    ASSUME Inv, PickIdlePipe PROVE Inv'
<1>1. /\ pc = "next" /\ pc' = "launch"
      /\ running' = running /\ status' = status /\ left' = left /\ ready' = ready
      /\ active' = active /\ queue' = queue /\ held' = held /\ UNCHANGED kv
  BY DEF PickIdlePipe, kv, ToLaunch
<1>2. pipes' = pipes /\ pending' = pending
  BY <1>1, RoundSame DEF PickIdlePipe
<1>3. PICK i \in Pipe : ~Inflight(queue, i) /\ ToLaunch(i)
  <2>1. PICK t \in Picks(Round.pipes) :
           \E i \in (IF Inflight(queue, t) THEN Alternatives(Round.pipes, t) ELSE {t}) : ToLaunch(i)
    BY DEF PickIdlePipe
  <2>2. t \in Pipe
    BY <2>1, PicksArePipes
  <2>3. CASE Inflight(queue, t)
    BY <2>1, <2>2, <2>3, PicksArePipes
  <2>4. CASE ~Inflight(queue, t)
    BY <2>1, <2>2, <2>4
  <2> QED
    BY <2>3, <2>4
<1>4. pending = <<>>
  BY <1>3, ParkedBatch DEF FreePipes
<1>5. current' = i /\ turn' = After(i, 1) /\ After(i, 1) \in Pipe
  BY <1>3, AfterIsPipe DEF ToLaunch, Pipe
<1>6. TypedPlace'
  BY <1>1, <1>2, <1>5 DEF Inv, TypedPlace
<1>7. /\ TypedRequests' /\ Runs' /\ TypedKV' /\ ColumnsContiguous' /\ WaveEnds'
      /\ OneForwardOut' /\ NoneNew' /\ Places'
      /\ ~active' => queue' = <<>>
  BY <1>1, <1>2, RoundKeeps
<1>8. Drained' /\ Clear'
  BY <1>1, <1>2, <1>3, <1>4, <1>5, <1>7 DEF Drained, Clear
<1> QED
  BY <1>6, <1>7, <1>8 DEF Inv

LEMMA NothingToLaunchHolds ==
    ASSUME Inv, NothingToLaunch PROVE Inv'
<1>1. /\ pc = "next" /\ pc' = "release" /\ queue = <<>>
      /\ running' = running /\ status' = status /\ left' = left /\ ready' = ready
      /\ active' = active /\ queue' = queue /\ held' = held /\ UNCHANGED kv
      /\ turn' = turn /\ current' = current
  BY DEF NothingToLaunch, kv
<1>2. pipes' = pipes /\ pending' = pending
  BY <1>1, RoundSame DEF NothingToLaunch
<1>3. FreePipes(queue) # {}
  BY <1>1, PipesAreNumbered DEF FreePipes, Inflight
<1>4. pending = <<>>
  BY <1>3, ParkedBatch
<1>5. TypedPlace'
  BY <1>1, <1>2 DEF Inv, TypedPlace
<1>6. /\ TypedRequests' /\ Runs' /\ TypedKV' /\ ColumnsContiguous' /\ WaveEnds'
      /\ OneForwardOut' /\ NoneNew' /\ Places'
      /\ ~active' => queue' = <<>>
  BY <1>1, <1>2, RoundKeeps
<1>7. Drained' /\ Clear'
  BY <1>1, <1>2, <1>4, <1>6 DEF Drained, Clear
<1> QED
  BY <1>5, <1>6, <1>7 DEF Inv

\* Taking the result of pipe i off the queue.
TakenOff(i, k) ==
    /\ k \in 1 .. Len(queue)
    /\ queue[k].pid = i
    /\ queue' = RemoveAt(queue, k)
    /\ left' = Expanded(queue[k].reqs)
    /\ ~Inflight(queue', i)
    /\ pending' = <<>>
    /\ \A j \in Pipe : j # i /\ Inflight(queue, j) => Inflight(queue', j)
    /\ Deals(pipes', pipes, FreePipes(queue'), Parked)

LEMMA ProcessTakes ==
    ASSUME Inv, pc = "next", NEW i \in Pipe, Inflight(queue, i), Process(i)
    PROVE  \E k : TakenOff(i, k)
<1>1. PICK I : I = {k \in 1 .. Len(queue) : queue[k].pid = i}
  OBVIOUS
<1>2. I # {} /\ I \in SUBSET (0 .. Len(queue)) /\ Len(queue) \in Nat
  <2>1. Len(queue) \in Nat
    BY DEF Inv, TypedPlace
  <2>2. PICK n \in Nat : n = Len(queue)
    BY <2>1
  <2>3. I \in SUBSET (0 .. n)
    BY <1>1, <2>2
  <2> QED
    BY <1>1, <2>1, <2>2, <2>3 DEF Inflight
<1>3. \E m \in I : \A k \in I : m <= k
  <2>1. PICK m \in I : \A k \in 0 .. Len(queue) : k < m => k \notin I
    BY <1>2, LeastUpTo
  <2> QED
    BY <1>2, <2>1
<1>4. PICK k : k = SelectInSeq(queue, LAMBDA l : l.pid = i)
  OBVIOUS
<1>5. k \in I
  <2>1. k = Min(I)
    BY <1>1, <1>2, <1>4 DEF SelectInSeq
  <2> QED
    BY <1>3, <2>1 DEF Min
<1>6. PICK x : x = Flush(Round, RemoveAt(queue, k))
  OBVIOUS
<1>7. /\ queue' = RemoveAt(queue, k) /\ left' = Expanded(queue[k].reqs)
      /\ pipes' = x.pipes /\ pending' = x.pending
  BY <1>4, <1>6 DEF Process
<1>8. k \in 1 .. Len(queue) /\ queue[k].pid = i
  BY <1>1, <1>5
<1>9. /\ Len(queue') = Len(queue) - 1
      /\ \A n \in 1 .. Len(queue) - 1 : queue'[n] = IF n < k THEN queue[n] ELSE queue[n + 1]
  BY <1>7, <1>8, RemovedPosition DEF Inv, TypedPlace
<1>10. ~Inflight(queue', i)
  <2>1. SUFFICES ASSUME NEW n \in 1 .. Len(queue'), queue'[n].pid = i PROVE FALSE
    BY DEF Inflight
  <2>2. n \in 1 .. Len(queue) - 1
    BY <1>9
  <2>3. \A a, b \in 1 .. Len(queue) : a < b => queue[a].pid # queue[b].pid
    BY <1>2 DEF Inv, OneForwardOut
  <2>4. CASE n < k
    BY <1>8, <1>9, <2>1, <2>2, <2>3, <2>4
  <2>5. CASE ~(n < k)
    <3>1. n + 1 \in 1 .. Len(queue) /\ k < n + 1
      BY <1>2, <1>8, <2>2, <2>5
    <3> QED
      BY <1>8, <1>9, <2>1, <2>2, <2>3, <2>5, <3>1
  <2> QED
    BY <2>4, <2>5
<1>a. ASSUME NEW j \in Pipe, j # i, Inflight(queue, j) PROVE Inflight(queue', j)
  <2>1. PICK n \in 1 .. Len(queue) : queue[n].pid = j
    BY <1>a DEF Inflight
  <2>2. n # k
    BY <1>8, <1>a, <2>1
  <2>3. CASE n < k
    <3>1. n \in 1 .. Len(queue) - 1 /\ queue'[n] = queue[n]
      BY <1>2, <1>8, <1>9, <2>3
    <3> QED
      BY <1>9, <2>1, <3>1 DEF Inflight
  <2>4. CASE k < n
    <3>1. n - 1 \in 1 .. Len(queue) - 1 /\ ~(n - 1 < k) /\ n - 1 + 1 = n
      BY <1>2, <1>8, <2>4
    <3>2. queue'[n - 1] = queue[n]
      BY <1>9, <3>1
    <3> QED
      BY <1>9, <2>1, <3>1, <3>2 DEF Inflight
  <2> QED
    BY <1>2, <1>8, <2>2, <2>3, <2>4
<1>11. FreePipes(queue') # {}
  BY <1>10 DEF FreePipes
<1>12. Round.pipes = pipes /\ Round.pending = pending
  BY RoundSame
<1>13. pending' = <<>> /\ Deals(pipes', pipes, FreePipes(queue'), Parked)
  <2>1. Parked \in Seq(Reqs) /\ (pending = <<>> => Parked = <<>>)
    BY ParkedBatch
  <2>2. pipes \in [Pipe -> Seq(Reqs)]
    BY DEF Inv, TypedPlace
  <2>3. CASE pending = <<>>
    <3>1. x = Round
      BY <1>6, <1>12, <2>3 DEF Flush
    <3>2. pipes' = pipes /\ pending' = <<>> /\ ToSet(Parked) = {}
      BY <1>7, <1>12, <2>1, <2>3, <3>1, NothingParked
    <3> QED
      BY <2>2, <3>2 DEF Deals
  <2>4. CASE pending # <<>>
    <3>1. x = [pipes |-> Spread(pipes, FreePipes(queue'), Parked), pending |-> <<>>]
      BY <1>6, <1>7, <1>11, <1>12, <2>4 DEF Flush, Parked
    <3>2. pipes' = Spread(pipes, FreePipes(queue'), Parked) /\ pending' = <<>>
      BY <1>7, <3>1
    <3> QED
      BY <1>11, <2>1, <2>2, <3>2, SpreadDeals
  <2> QED
    BY <2>3, <2>4
<1>14. TakenOff(i, k)
  BY <1>7, <1>8, <1>10, <1>13, <1>a DEF TakenOff
<1> QED
  BY <1>14

\* What taking a result off and flushing the parked requests leaves true.
LEMMA TakenKeeps ==
    ASSUME Inv, pc = "next", NEW i \in Pipe, NEW k, TakenOff(i, k),
           held' = held, active' = active, running' = running, status' = status,
           ready' = ready, UNCHANGED kv
    PROVE  /\ TypedRequests' /\ Runs' /\ TypedKV' /\ ColumnsContiguous' /\ WaveEnds'
           /\ OneForwardOut' /\ NoneNew' /\ Places' /\ Drained'
           /\ pipes' \in [Pipe -> Seq(Reqs)] /\ queue' \in Seq(Launches)
           /\ pending' \in Seq(Seq(Reqs))
           /\ ~active' => queue' = <<>>
<1>1. /\ k \in 1 .. Len(queue) /\ queue[k].pid = i /\ queue' = RemoveAt(queue, k)
      /\ left' = Expanded(queue[k].reqs) /\ pending' = <<>>
      /\ Deals(pipes', pipes, FreePipes(queue'), Parked)
  BY DEF TakenOff
<1>2. active /\ Partition(pipes, Parked, held) /\ Apart(pipes)
  BY DEF Inv, Places
<1>3. /\ pipes' \in [Pipe -> Seq(Reqs)]
      /\ \A j \in Pipe : ToSet(pipes[j]) \subseteq ToSet(pipes'[j])
      /\ Listed(pipes') = Listed(pipes) \cup ToSet(Parked)
      /\ Apart(pipes')
  BY <1>1, <1>2 DEF Deals, Partition
<1>4. Len(queue) \in Nat /\ queue \in Seq(Launches)
  BY DEF Inv, TypedPlace
<1>5. /\ queue' \in Seq(Launches) /\ Len(queue') = Len(queue) - 1
      /\ \A n \in 1 .. Len(queue) - 1 : queue'[n] = IF n < k THEN queue[n] ELSE queue[n + 1]
  BY <1>1, <1>4, RemovedPosition
<1>6. TypedRequests' /\ Runs'
  BY <1>1, ExpandedType DEF Inv, TypedRequests, Runs
<1>7. TypedKV' /\ ColumnsContiguous' /\ WaveEnds'
  BY WaveKept
<1>8. Parked' = <<>> /\ ToSet(Parked') = {} /\ NoRepeats(Parked')
  BY <1>1, NothingParked DEF Parked
<1>9. Places'
  <2>1. Partition(pipes, Parked, held)'
    BY <1>2, <1>3, <1>8 DEF Partition
  <2> QED
    BY <1>2, <1>3, <2>1 DEF Places
<1>10. Drained' /\ (~active' => queue' = <<>>)
  BY <1>1, <1>2 DEF Drained
<1>11. \E f \in [1 .. Len(queue) - 1 -> 1 .. Len(queue)] :
          /\ \A n \in 1 .. Len(queue) - 1 : queue'[n] = queue[f[n]] /\ f[n] # k
          /\ \A m, n \in 1 .. Len(queue) - 1 : m < n => f[m] < f[n]
  <2>1. PICK f : f = [n \in 1 .. Len(queue) - 1 |-> IF n < k THEN n ELSE n + 1]
    OBVIOUS
  <2>2. f \in [1 .. Len(queue) - 1 -> 1 .. Len(queue)]
    BY <1>4, <2>1
  <2>3. \A n \in 1 .. Len(queue) - 1 : queue'[n] = queue[f[n]] /\ f[n] # k
    BY <1>1, <1>4, <1>5, <2>1
  <2>4. \A m, n \in 1 .. Len(queue) - 1 : m < n => f[m] < f[n]
    BY <1>1, <1>4, <2>1
  <2> QED
    BY <2>2, <2>3, <2>4
<1>12. PICK f \in [1 .. Len(queue) - 1 -> 1 .. Len(queue)] :
          /\ \A n \in 1 .. Len(queue) - 1 : queue'[n] = queue[f[n]] /\ f[n] # k
          /\ \A m, n \in 1 .. Len(queue) - 1 : m < n => f[m] < f[n]
  BY <1>11
<1>13. \A a, b \in 1 .. Len(queue) :
          a # b => ToSet(queue[a].reqs) \cap ToSet(queue[b].reqs) = {}
  <2>1. \A a, b \in 1 .. Len(queue) :
           a < b => ToSet(queue[a].reqs) \cap ToSet(queue[b].reqs) = {}
    BY <1>4 DEF Inv, OneForwardOut
  <2>2. \A a, b \in 1 .. Len(queue) : a # b => a < b \/ b < a
    BY <1>4
  <2> QED
    BY <2>1, <2>2
<1>14. NoneNew'
  BY <1>5, <1>12 DEF Inv, NoneNew
<1>15. OneForwardOut'
  <2>1. SUFFICES ASSUME NEW n \in 1 .. Len(queue) - 1
                 PROVE  /\ \A m \in 1 .. n - 1 :
                              /\ queue'[m].pid # queue'[n].pid
                              /\ ToSet(queue'[m].reqs) \cap ToSet(queue'[n].reqs) = {}
                        /\ \A r \in ToSet(queue'[n].reqs) :
                              /\ status[r] # "done"
                              /\ status[r] = "running" =>
                                    left'[r] > 0 /\ r \in ToSet(pipes'[queue'[n].pid])
    BY <1>5 DEF OneForwardOut
  <2>2. f[n] \in 1 .. Len(queue) /\ queue'[n] = queue[f[n]] /\ f[n] # k
    BY <1>12
  <2>3. \A m \in 1 .. n - 1 : /\ queue'[m].pid # queue'[n].pid
                              /\ ToSet(queue'[m].reqs) \cap ToSet(queue'[n].reqs) = {}
    <3>1. TAKE m \in 1 .. n - 1
    <3>2. m \in 1 .. Len(queue) - 1 /\ m < n
      BY <1>4
    <3>3. f[m] \in 1 .. f[n] - 1 /\ queue'[m] = queue[f[m]]
      BY <1>4, <1>12, <2>2, <3>2
    <3> QED
      BY <2>2, <3>3 DEF Inv, OneForwardOut
  <2>4. ASSUME NEW r \in ToSet(queue'[n].reqs)
        PROVE  /\ status[r] # "done"
               /\ status[r] = "running" => left'[r] > 0 /\ r \in ToSet(pipes'[queue'[n].pid])
    <3>1. /\ r \in Reqs /\ queue'[n].pid \in Pipe /\ status[r] # "done"
          /\ status[r] = "running" => left[r] > 0 /\ r \in ToSet(pipes[queue'[n].pid])
      BY <2>2, <2>4, LaunchTypes DEF Inv, OneForwardOut
    <3>2. r \notin ToSet(queue[k].reqs)
      BY <1>1, <1>13, <2>2, <2>4
    <3>3. left'[r] = left[r]
      BY <1>1, <3>1, <3>2, ExpandedType
    <3> QED
      BY <1>3, <3>1, <3>3
  <2> QED
    BY <2>3, <2>4
<1> QED
  BY <1>1, <1>3, <1>5, <1>6, <1>7, <1>9, <1>10, <1>14, <1>15

LEMMA ProcessPickedHolds ==
    ASSUME Inv, ProcessPicked PROVE Inv'
<1>1. /\ pc = "next" /\ running' = running /\ status' = status /\ ready' = ready
      /\ active' = active /\ held' = held /\ UNCHANGED kv
  BY DEF ProcessPicked, kv
<1>2. PICK t \in Picks(Round.pipes) :
         /\ Inflight(queue, t)
         /\ Process(t)
         /\ IF Inflight(queue', t) THEN pc' = "release" /\ UNCHANGED <<turn, current>>
            ELSE IF \E r \in ToSet(pipes'[t]) : left'[r] > 0 THEN ToLaunch(t)
            ELSE turn' = After(t, 1) /\ UNCHANGED <<current, pc>>
  BY DEF ProcessPicked
<1>3. t \in Pipe /\ After(t, 1) \in Pipe
  <2>1. t \in Pipe
    BY PicksArePipes
  <2> QED
    BY <2>1, AfterIsPipe DEF Pipe
<1>4. PICK k : TakenOff(t, k)
  BY <1>1, <1>2, <1>3, ProcessTakes
<1>5. ~Inflight(queue', t)
  BY <1>4 DEF TakenOff
<1>6. /\ TypedRequests' /\ Runs' /\ TypedKV' /\ ColumnsContiguous' /\ WaveEnds'
      /\ OneForwardOut' /\ NoneNew' /\ Places' /\ Drained'
      /\ pipes' \in [Pipe -> Seq(Reqs)] /\ queue' \in Seq(Launches)
      /\ pending' \in Seq(Seq(Reqs))
      /\ ~active' => queue' = <<>>
  BY <1>1, <1>3, <1>4, TakenKeeps
<1>7. \/ pc' = "launch" /\ current' = t /\ turn' = After(t, 1)
      \/ pc' = "next" /\ current' = current /\ turn' = After(t, 1)
  BY <1>1, <1>2, <1>5 DEF ToLaunch
<1>8. TypedPlace'
  BY <1>1, <1>3, <1>6, <1>7 DEF Inv, TypedPlace
<1>9. Clear'
  BY <1>5, <1>6, <1>7 DEF Clear
<1> QED
  BY <1>6, <1>8, <1>9 DEF Inv

LEMMA ProcessOldestHolds ==
    ASSUME Inv, ProcessOldest PROVE Inv'
<1>1. /\ pc = "next" /\ pc' = "next" /\ running' = running /\ status' = status
      /\ ready' = ready /\ active' = active /\ held' = held /\ UNCHANGED kv
      /\ turn' = turn /\ current' = current /\ queue # <<>> /\ Process(Head(queue).pid)
  BY DEF ProcessOldest, kv
<1>2. PICK i \in Pipe : i = Head(queue).pid /\ Inflight(queue, i)
  <2>1. 1 \in 1 .. Len(queue) /\ Head(queue) = queue[1]
    BY <1>1 DEF Inv, TypedPlace
  <2> QED
    BY <2>1, LaunchTypes DEF Inflight
<1>3. PICK k : TakenOff(i, k)
  BY <1>1, <1>2, ProcessTakes
<1>4. /\ TypedRequests' /\ Runs' /\ TypedKV' /\ ColumnsContiguous' /\ WaveEnds'
      /\ OneForwardOut' /\ NoneNew' /\ Places' /\ Drained'
      /\ pipes' \in [Pipe -> Seq(Reqs)] /\ queue' \in Seq(Launches)
      /\ pending' \in Seq(Seq(Reqs))
      /\ ~active' => queue' = <<>>
  BY <1>1, <1>3, TakenKeeps
<1>5. TypedPlace'
  BY <1>1, <1>4 DEF Inv, TypedPlace
<1>6. Clear'
  BY <1>1, <1>4 DEF Clear
<1> QED
  BY <1>4, <1>5, <1>6 DEF Inv

\* Where a sync puts the requests.
SyncedPlaces(rs) ==
    /\ rs \in Seq(Reqs)
    /\ pending' = <<>> \/ (pending' = <<rs>> /\ FreePipes(queue') = {})
    /\ held' \subseteq Reqs
    /\ pipes' \in [Pipe -> Seq(Reqs)]
    /\ Apart(pipes')
    /\ Partition(pipes', Parked', held')
    /\ \/ queue' = <<>>
       \/ /\ queue' = queue /\ turn' = turn /\ current' = current
          /\ \A i \in Pipe : ToSet(pipes[i]) \cap ToSet(running) \subseteq ToSet(pipes'[i])
          /\ \A i \in Pipe : Inflight(queue, i) => ToSet(pipes'[i]) \subseteq ToSet(pipes[i])

LEMMA SyncPlaces ==
    ASSUME Inv, Sync PROVE \E rs : SyncedPlaces(rs)
<1> DEFINE known == {r \in ToSet(running) : ~active \/ \E i \in Pipe : r \in ToSet(pipes[i])}
           newcomers == ToSet(running) \ known
           late == {r \in newcomers : ~ready[r]}
           new == Only(running, newcomers \ late)
           newWave == known = {} /\ late = {} /\ Len(running) >= 2 /\ queue = <<>> /\ pending = <<>>
           split == ~active \/ newWave
           full == FreePipes(queue) = {}
<1>1. /\ pc = "idle"
      /\ pipes' = IF split THEN Buckets(running) ELSE IF full THEN Kept ELSE Spread(Kept, FreePipes(queue), new)
      /\ queue' = IF active THEN queue ELSE <<>>
      /\ held' = late
      /\ pending' = IF ~active THEN <<>>
                    ELSE IF full /\ new # <<>> THEN Append(pending, new) ELSE pending
      /\ ~split => turn' = turn /\ current' = current
  BY DEF Sync
<1>2. /\ running \in Seq(Reqs) /\ NoRepeats(running) /\ ToSet(running) \subseteq Reqs
      /\ pipes \in [Pipe -> Seq(Reqs)] /\ Apart(pipes) /\ active \in BOOLEAN
      /\ pending = <<>>
  BY <1>1, NothingPending, Members DEF Inv, TypedRequests, TypedPlace, Runs, Places
<1>3. new \in Seq(Reqs) /\ ToSet(new) = newcomers \ late /\ NoRepeats(new)
  <2>1. PICK S : S = newcomers \ late
    OBVIOUS
  <2>2. S \subseteq ToSet(running)
    BY <2>1
  <2>3. /\ Only(running, S) \in Seq(Reqs) /\ ToSet(Only(running, S)) = ToSet(running) \cap S
        /\ NoRepeats(Only(running, S))
    BY <1>2, OnlyMembers
  <2> QED
    BY <2>1, <2>2, <2>3
<1>4. known = IF active THEN ToSet(running) \cap Listed(pipes) ELSE ToSet(running)
  BY <1>2 DEF Listed
<1>5. PICK kept : kept = Kept
  OBVIOUS
<1>6. /\ kept \in [Pipe -> Seq(Reqs)]
      /\ \A i \in Pipe : ToSet(kept[i]) = ToSet(pipes[i]) \cap ToSet(running)
      /\ Listed(kept) = Listed(pipes) \cap ToSet(running)
      /\ Apart(kept)
  <2>1. PICK ps \in [Pipe -> Seq(Reqs)], S \in {ToSet(running)} : ps = pipes /\ S = ToSet(running)
    BY <1>2
  <2>2. kept = [i \in Pipe |-> Only(ps[i], S)]
    BY <1>5, <2>1 DEF Kept
  <2> HIDE DEF known, newcomers, late, new, newWave, split, full
  <2>3. KeptOf(kept, ps, S)
    BY <2>2, OnlyOfPipes
  <2> QED
    BY <1>2, <2>1, <2>3 DEF KeptOf
<1>7. /\ Buckets(running) \in [Pipe -> Seq(Reqs)]
      /\ Listed(Buckets(running)) = ToSet(running)
      /\ Apart(Buckets(running))
  BY <1>2, BucketsDeal
<1>8. ASSUME pending' = <<>> PROVE Parked' = <<>> /\ ToSet(Parked') = {} /\ NoRepeats(Parked')
  BY <1>8, NothingParked DEF Parked
<1>9. CASE split
  <2>1. pipes' = Buckets(running) /\ queue' = <<>>
    BY <1>1, <1>2, <1>9
  <2>2. held' = {} /\ late = {}
    BY <1>1, <1>4, <1>9
  <2>3. pending' = <<>>
    <3>1. CASE ~active
      BY <1>1, <3>1
    <3>2. CASE active
      <4>1. queue = <<>>
        BY <1>9, <3>2
      <4>2. ~full
        BY <4>1, PipesAreNumbered DEF FreePipes, Inflight
      <4> QED
        BY <1>1, <1>2, <3>2, <4>2
    <3> QED
      BY <3>1, <3>2
  <2> HIDE DEF known, newcomers, late, new, newWave, split, full
  <2>4. Partition(pipes', Parked', held')
    BY <1>7, <1>8, <2>1, <2>2, <2>3 DEF Partition
  <2> QED
    BY <1>3, <1>7, <2>1, <2>2, <2>3, <2>4 DEF SyncedPlaces
<1>10. CASE ~split /\ full
  <2>1. /\ active /\ pipes' = kept /\ queue' = queue /\ held' = late
        /\ turn' = turn /\ current' = current
    BY <1>1, <1>2, <1>5, <1>10
  <2>2. ToSet(running) = Listed(kept) \cup ToSet(new) \cup late
    BY <1>3, <1>4, <1>6, <2>1
  <2>3. Listed(kept) \cap ToSet(new) = {} /\ Listed(kept) \cap late = {} /\ ToSet(new) \cap late = {}
    BY <1>3, <1>4, <1>6, <2>1
  <2>4. late \subseteq Reqs
    BY <1>2
  <2>5. FreePipes(queue') = {}
    BY <1>10, <2>1
  <2>6. pending' = IF new # <<>> THEN <<new>> ELSE <<>>
    <3>1. Append(<<>>, new) = <<new>>
      OBVIOUS
    <3> QED
      BY <1>1, <1>2, <1>10, <2>1, <3>1
  <2> HIDE DEF known, newcomers, late, new, newWave, split, full
  <2>7. Parked' = new
    <3>1. CASE new # <<>>
      BY <1>3, <2>6, <3>1, FlattenSingle DEF Parked
    <3>2. CASE new = <<>>
      BY <1>8, <2>6, <3>2
    <3> QED
      BY <3>1, <3>2
  <2>8. Partition(pipes', Parked', held')
    BY <1>3, <2>1, <2>2, <2>3, <2>7 DEF Partition
  <2> QED
    BY <1>3, <1>6, <2>1, <2>4, <2>5, <2>6, <2>8 DEF SyncedPlaces
<1>11. CASE ~split /\ ~full
  <2>1. /\ active /\ pipes' = Spread(kept, FreePipes(queue), new) /\ queue' = queue /\ held' = late
        /\ turn' = turn /\ current' = current
    BY <1>1, <1>2, <1>5, <1>11
  <2>2. pending' = <<>>
    BY <1>1, <1>2, <1>11
  <2>3. Listed(kept) \cup ToSet(new) \cup late = ToSet(running)
    BY <1>3, <1>4, <1>6, <2>1
  <2>4. Listed(kept) \cap ToSet(new) = {} /\ Listed(kept) \cap late = {} /\ ToSet(new) \cap late = {}
    BY <1>3, <1>4, <1>6, <2>1
  <2>5. late \subseteq Reqs /\ FreePipes(queue) # {}
    BY <1>2, <1>11
  <2> HIDE DEF known, newcomers, late, new, newWave, split, full
  <2>6. Deals(pipes', kept, FreePipes(queue), new)
    BY <1>3, <1>6, <2>1, <2>5, SpreadDeals
  <2>7. /\ pipes' \in [Pipe -> Seq(Reqs)]
        /\ \A i \in Pipe : ToSet(kept[i]) \subseteq ToSet(pipes'[i])
        /\ \A i \in Pipe : Inflight(queue, i) => pipes'[i] = kept[i]
        /\ Listed(pipes') = Listed(kept) \cup ToSet(new)
        /\ Apart(pipes')
    BY <1>3, <1>6, <2>4, <2>6 DEF Deals, FreePipes
  <2>8. Partition(pipes', Parked', held')
    BY <1>8, <2>1, <2>2, <2>3, <2>4, <2>7 DEF Partition
  <2> QED
    BY <1>3, <1>6, <2>1, <2>2, <2>5, <2>7, <2>8 DEF SyncedPlaces
<1> QED
  BY <1>9, <1>10, <1>11

LEMMA SyncHolds ==
    ASSUME Inv, Sync PROVE Inv'
<1>1. PICK rs : SyncedPlaces(rs)
  BY SyncPlaces
<1>2. /\ running' = running /\ status' = status /\ left' = left /\ ready' = ready /\ UNCHANGED kv
      /\ turn' \in {0, turn} /\ current' \in {0, current}
      /\ active' \in BOOLEAN /\ pc' = IF active' THEN "next" ELSE "serial"
      /\ ~active' => queue' = <<>> /\ pending' = <<>>
  BY DEF Sync, kv
<1>3. /\ rs \in Seq(Reqs)
      /\ pending' = <<>> \/ (pending' = <<rs>> /\ FreePipes(queue') = {})
      /\ held' \subseteq Reqs
      /\ pipes' \in [Pipe -> Seq(Reqs)]
      /\ Apart(pipes')
      /\ Partition(pipes', Parked', held')
      /\ \/ queue' = <<>>
         \/ /\ queue' = queue
            /\ \A i \in Pipe : ToSet(pipes[i]) \cap ToSet(running) \subseteq ToSet(pipes'[i])
  BY <1>1 DEF SyncedPlaces
<1>4. TypedRequests' /\ Runs'
  BY <1>2 DEF Inv, TypedRequests, Runs
<1>5. TypedPlace'
  <2>1. turn' \in Pipe /\ current' \in Pipe
    BY <1>2, PipesAreNumbered DEF Inv, TypedPlace
  <2>2. queue' \in Seq(Launches)
    <3>1. <<>> \in Seq(Launches)
      OBVIOUS
    <3> QED
      BY <1>3, <3>1 DEF Inv, TypedPlace
  <2>3. pending' \in Seq(Seq(Reqs))
    <3>1. <<>> \in Seq(Seq(Reqs)) /\ <<rs>> \in Seq(Seq(Reqs))
      BY <1>3
    <3> QED
      BY <1>3, <3>1
  <2> QED
    BY <1>2, <1>3, <2>1, <2>2, <2>3 DEF TypedPlace
<1>6. TypedKV' /\ ColumnsContiguous' /\ WaveEnds'
  BY <1>2, WaveKept
<1>7. Places'
  <2>1. Partition(pipes, Parked, held)'
    BY <1>2, <1>3 DEF Partition
  <2> QED
    BY <1>2, <1>3, <2>1 DEF Places
<1>8. Drained'
  BY <1>2, <1>3 DEF Drained
<1>9. Clear'
  BY <1>2 DEF Clear
<1>10. OneForwardOut' /\ NoneNew'
  <2>1. CASE queue' = <<>>
    BY <2>1 DEF OneForwardOut, NoneNew
  <2>2. CASE queue' = queue /\ \A i \in Pipe : ToSet(pipes[i]) \cap ToSet(running) \subseteq ToSet(pipes'[i])
    <3>1. NoneNew'
      BY <1>2, <2>2 DEF Inv, NoneNew
    <3>2. \A r \in Reqs : status[r] = "running" => r \in ToSet(running)
      BY DEF Inv, Runs
    <3>3. ASSUME NEW k \in 1 .. Len(queue), NEW r \in ToSet(queue[k].reqs), status[r] = "running"
          PROVE  r \in ToSet(pipes'[queue[k].pid])
      <4>1. r \in Reqs /\ queue[k].pid \in Pipe /\ r \in ToSet(pipes[queue[k].pid])
        BY <3>3, LaunchTypes DEF Inv, OneForwardOut
      <4> QED
        BY <2>2, <3>2, <3>3, <4>1
    <3>4. OneForwardOut'
      BY <1>2, <2>2, <3>3 DEF Inv, OneForwardOut
    <3> QED
      BY <3>1, <3>4
  <2> QED
    BY <1>3, <2>1, <2>2
<1> QED
  BY <1>4, <1>5, <1>6, <1>7, <1>8, <1>9, <1>10 DEF Inv

-----------------------------------------------------------------------------
(* The theorems. *)

\* The invariant holds throughout, for every number of requests and stages.
THEOREM Invariance == Spec => []Inv
<1>1. Init => Inv
  BY InitHolds
<1>2. Inv /\ [Next]_vars => Inv'
  <2>1. SUFFICES ASSUME Inv, [Next]_vars PROVE Inv'
    OBVIOUS
  <2>2. CASE UNCHANGED vars
    BY <2>1, <2>2, StutterHolds
  <2>3. CASE TickStep
    BY <2>1, <2>3, StartSerialHolds, SyncHolds, SerialStepHolds, PickIdlePipeHolds,
       ProcessPickedHolds, ProcessOldestHolds, NothingToLaunchHolds, LaunchHolds, ReleaseHolds
       DEF TickStep
  <2>4. CASE \E rs \in Batches : Prefill(rs) \/ PrefillRaises(rs)
    BY <2>1, <2>4, PrefillHolds, PrefillRaisesHolds
  <2>5. CASE \E r \in Reqs : PrefillDone(r)
    BY <2>1, <2>5, PrefillDoneHolds
  <2>6. CASE LaunchRaises
    BY <2>1, <2>6, LaunchRaisesHolds
  <2> QED
    BY <2>1, <2>2, <2>3, <2>4, <2>5, <2>6 DEF Next
<1> QED
  BY <1>1, <1>2, PTL DEF Spec

\* pending_prefills is empty between ticks (pipeline.py:184-218).
THEOREM NoneLeftPending == Spec => []PendingDrained
<1>1. Inv => PendingDrained
  BY DEF Inv, Drained, PendingDrained
<1> QED
  BY <1>1, Invariance, PTL

\* A pipe, and a request, has at most one forward out, and what is out is not
\* freed (pipeline.py:3, scheduler.py:594-626).
THEOREM ForwardsDoNotOverlap == Spec => []OneForwardOut
<1>1. Inv => OneForwardOut
  BY DEF Inv
<1> QED
  BY <1>1, Invariance, PTL

\* Every decode step's KV goes to the request's next column
\* (scheduler.py:1268-1320).
THEOREM ColumnsFollow == Spec => []ColumnsContiguous
<1>1. Inv => ColumnsContiguous
  BY DEF Inv
<1> QED
  BY <1>1, Invariance, PTL

\* In apart pipes a request has one position, if it has any.
LEMMA PositionsOfListed ==
    ASSUME NEW ps \in [Pipe -> Seq(Reqs)], Apart(ps), NEW r
    PROVE  Cardinality(UNION {{i} \X Positions(ps[i], r) : i \in Pipe})
             = IF r \in Listed(ps) THEN 1 ELSE 0
<1> DEFINE P == UNION {{i} \X Positions(ps[i], r) : i \in Pipe}
<1>1. \A i \in Pipe : r \in ToSet(ps[i]) <=> Positions(ps[i], r) # {}
  <2>1. \A i \in Pipe : ToSet(ps[i]) = {ps[i][k] : k \in 1 .. Len(ps[i])}
    BY Members
  <2> QED
    BY <2>1 DEF Positions
<1>2. CASE r \in Listed(ps)
  <2>1. PICK i \in Pipe : r \in ToSet(ps[i])
    BY <1>2 DEF Listed
  <2>2. PICK k : k \in Positions(ps[i], r)
    BY <1>1, <2>1
  <2>3. Positions(ps[i], r) = {k}
    BY <2>2 DEF Apart, NoRepeats, Positions
  <2>4. \A j \in Pipe : j # i => Positions(ps[j], r) = {}
    BY <1>1, <2>1 DEF Apart
  <2>5. P = {<<i, k>>}
    BY <2>3, <2>4
  <2> QED
    BY <1>2, <2>5, FS_Singleton
<1>3. CASE r \notin Listed(ps)
  <2>1. \A j \in Pipe : Positions(ps[j], r) = {}
    BY <1>1, <1>3 DEF Listed
  <2>2. P = {}
    BY <2>1
  <2> QED
    BY <1>3, <2>2, FS_EmptySet
<1> QED
  BY <1>2, <1>3

\* Once a tick has synced every unfinished running request has exactly one
\* place (pipeline.py:173-255).
THEOREM EveryRequestHasOnePlace == Spec => []Placed
<1>1. Inv => Placed
  <2>1. SUFFICES ASSUME Inv, pc \in {"next", "launch"}, NEW r \in ToSet(Unfinished(running))
                 PROVE  Cardinality(UNION {{i} \X Positions(pipes[i], r) : i \in Pipe})
                          + Cardinality(Positions(Parked, r))
                          + (IF r \in held THEN 1 ELSE 0) = 1
    BY DEF Placed
  <2>2. r \in ToSet(running)
    BY <2>1, OnlyMembers DEF Inv, TypedRequests, Unfinished
  <2>3. Partition(pipes, Parked, held) /\ Apart(pipes) /\ pipes \in [Pipe -> Seq(Reqs)]
    BY <2>1 DEF Inv, Places, TypedPlace
  <2>4. Cardinality(UNION {{i} \X Positions(pipes[i], r) : i \in Pipe})
          = IF r \in Listed(pipes) THEN 1 ELSE 0
    BY <2>3, PositionsOfListed
  <2>5. Cardinality(Positions(Parked, r)) = IF r \in ToSet(Parked) THEN 1 ELSE 0
    <3>1. Parked \in Seq(Reqs) /\ NoRepeats(Parked)
      BY <2>1, <2>3, ParkedBatch DEF Partition
    <3> QED
      BY <3>1, OccursOnce DEF Positions
  <2>6. \/ r \in Listed(pipes) /\ r \notin ToSet(Parked) /\ r \notin held
        \/ r \notin Listed(pipes) /\ r \in ToSet(Parked) /\ r \notin held
        \/ r \notin Listed(pipes) /\ r \notin ToSet(Parked) /\ r \in held
    BY <2>2, <2>3 DEF Partition
  <2> QED
    BY <2>4, <2>5, <2>6
<1> QED
  BY <1>1, Invariance, PTL

-----------------------------------------------------------------------------
(* The order of the launches. *)

\* From current on, no pipe before turn has work.
Passed(ps, t, c) ==
    \E d \in 1 .. NPipes : /\ t = After(c, d)
                           /\ \A e \in 1 .. NPipes : e < d => ~HasLive(ps, After(c, e))

\* While forwards are out, the turn follows the pipe launched last, except for
\* the pipes that a tick found without work; and that pipe is in flight, or
\* none that is has a request to run.
Turns ==
    /\ pc = "launch" \/ (queue # <<>> /\ pc # "next") => turn = After(current, 1)
    /\ pc = "next" /\ queue # <<>> => Passed(pipes, turn, current)
    /\ pc = "next" /\ pending # <<>> => turn = After(current, 1)
    /\ queue # <<>> /\ pc # "launch" /\ ~Inflight(queue, current) =>
          \A i \in Pipe : Inflight(queue, i) =>
             \A r \in ToSet(pipes[i]) : status[r] # "running" \/ left[r] = 0
    /\ \A r \in Listed(pipes) : status[r] # "new"

\* pick_turn finds the first pipe with work, if there is one.
LEMMA PicksFirst ==
    ASSUME Inv, NEW ps
    PROVE  /\ Picks(ps) = {} => \A i \in Pipe : ~HasLive(ps, i)
           /\ \A t \in Picks(ps) : /\ HasLive(ps, t)
                                   /\ \E k \in 0 .. NPipes - 1 :
                                         /\ t = After(turn, k)
                                         /\ \A m \in 0 .. k - 1 : ~HasLive(ps, After(turn, m))
<1>1. NPipes \in Nat /\ NPipes >= 2 /\ turn \in 0 .. NPipes - 1 /\ Pipe = 0 .. NPipes - 1
  BY PipesAreNumbered DEF Inv, TypedPlace, Pipe
<1>2. \A t \in Picks(ps) : \E k \in 0 .. NPipes - 1 :
         /\ t = After(turn, k) /\ HasLive(ps, After(turn, k))
         /\ \A m \in 0 .. NPipes - 1 : m < k => ~HasLive(ps, After(turn, m))
  BY DEF Picks, FirstFrom
<1>3. ASSUME NEW i \in Pipe, HasLive(ps, i) PROVE Picks(ps) # {}
  <2> DEFINE D == {k \in 0 .. NPipes - 1 : HasLive(ps, After(turn, k))}
  <2>1. \E k \in 0 .. NPipes - 1 : i = After(turn, k)
    <3>1. CASE i = turn
      <4>1. After(turn, 0) = turn
        BY <1>1, AfterValue
      <4> QED
        BY <1>1, <3>1, <4>1
    <3>2. CASE i # turn
      BY <1>1, <3>2, AfterReaches
    <3> QED
      BY <3>1, <3>2
  <2>2. D # {} /\ D \in SUBSET (0 .. NPipes - 1) /\ NPipes - 1 \in Nat
    BY <1>1, <1>3, <2>1
  <2>3. PICK k \in D : \A m \in 0 .. NPipes - 1 : m < k => m \notin D
    <3> HIDE DEF D
    <3> QED
      BY <2>2, LeastUpTo
  <2>4. After(turn, k) \in Picks(ps)
    BY <2>3 DEF Picks, FirstFrom
  <2> QED
    BY <2>4
<1>4. \A k \in 0 .. NPipes - 1 : \A m \in 0 .. k - 1 : m \in 0 .. NPipes - 1 /\ m < k
  BY <1>1
<1>5. \A t \in Picks(ps) : \E k \in 0 .. NPipes - 1 :
         /\ t = After(turn, k) /\ HasLive(ps, t)
         /\ \A m \in 0 .. k - 1 : ~HasLive(ps, After(turn, m))
  BY <1>2, <1>4
<1> QED
  BY <1>3, <1>5

\* Once pipe t is served: if it is c again, c alone has work, and else no pipe
\* from c up to t has any but t itself.
ServedInTurn(ps, t, c) ==
    /\ t = c => \A i \in Pipe : i # c => ~HasLive(ps, i)
    /\ \E d \in 1 .. NPipes :
          /\ After(t, 1) = After(c, d)
          /\ \A e \in 1 .. NPipes : e < d /\ After(c, e) # t => ~HasLive(ps, After(c, e))

\* Going round from current over the pipes passed to the first one with work.
LEMMA PassedFurther ==
    ASSUME NEW ps, NEW c \in Pipe, NEW t \in Pipe, Passed(ps, t, c),
           NEW k \in 0 .. NPipes - 1, \A m \in 0 .. k - 1 : ~HasLive(ps, After(t, m))
    PROVE  ServedInTurn(ps, After(t, k), c)
<1>1. NPipes \in Nat /\ NPipes >= 2 /\ Pipe = 0 .. NPipes - 1
  BY PipesAreNumbered DEF Pipe
<1>2. PICK d \in 1 .. NPipes : /\ t = After(c, d)
                               /\ \A e \in 1 .. NPipes : e < d => ~HasLive(ps, After(c, e))
  BY DEF Passed
<1>3. PICK n \in Nat : n = NPipes
  BY <1>1
<1>4. \A i \in Pipe, j \in 0 .. n : After(i, j) = IF i + j < n THEN i + j ELSE i + j - n
  BY <1>3, AfterValue
<1>5. /\ n >= 2 /\ Pipe = 0 .. n - 1 /\ c \in 0 .. n - 1 /\ t \in 0 .. n - 1
      /\ d \in 1 .. n /\ k \in 0 .. n - 1
  BY <1>1, <1>3
<1>6. t = IF c + d < n THEN c + d ELSE c + d - n
  BY <1>2, <1>3, <1>4
<1>7. PICK a \in Pipe : a = After(t, k) /\ a = IF t + k < n THEN t + k ELSE t + k - n
  BY <1>4, <1>5
<1>8. ASSUME NEW i \in Pipe, HasLive(ps, i)
      PROVE  \E j \in 1 .. n : i = After(c, j) /\ d + k <= j
  <2>1. PICK j \in 1 .. n : i = After(c, j) /\ i = IF c + j < n THEN c + j ELSE c + j - n
    <3>1. PICK j \in 1 .. n : i = Forth(n, c, j)
      BY <1>5, ForthReaches
    <3>2. j \in 0 .. n /\ i = IF c + j < n THEN c + j ELSE c + j - n
      BY <1>5, <3>1 DEF Forth
    <3> QED
      BY <1>4, <3>2
  <2>2. d <= j
    <3>1. SUFFICES ASSUME j < d PROVE FALSE
      BY <1>5
    <3> QED
      BY <1>2, <1>3, <1>8, <2>1, <3>1
  <2>3. d + k <= j
    <3>1. SUFFICES ASSUME j < d + k PROVE FALSE
      BY <1>5
    <3>2. j - d \in 0 .. k - 1 /\ j - d \in 0 .. n
      BY <1>5, <2>2, <3>1
    <3>3. After(t, j - d) = IF t + (j - d) < n THEN t + (j - d) ELSE t + (j - d) - n
      BY <1>4, <1>5, <3>2
    <3>4. After(t, j - d) = i
      BY <1>5, <1>6, <2>1, <2>2, <3>2, <3>3
    <3> QED
      BY <1>8, <3>2, <3>4
  <2> QED
    BY <2>1, <2>3
<1>9. a = c => \A i \in Pipe : i # c => ~HasLive(ps, i)
  <2>1. SUFFICES ASSUME a = c, NEW i \in Pipe, i # c, HasLive(ps, i) PROVE FALSE
    OBVIOUS
  <2>2. PICK j \in 1 .. n : i = After(c, j) /\ d + k <= j
    BY <1>8, <2>1
  <2>3. i = IF c + j < n THEN c + j ELSE c + j - n
    BY <1>4, <2>2
  <2> QED
    BY <1>5, <1>6, <1>7, <2>1, <2>2, <2>3
<1>10. \E b \in 1 .. NPipes :
          /\ After(a, 1) = After(c, b)
          /\ \A e \in 1 .. NPipes : e < b /\ After(c, e) # a => ~HasLive(ps, After(c, e))
  <2>1. After(a, 1) = IF a + 1 < n THEN a + 1 ELSE a + 1 - n
    BY <1>4, <1>5
  <2>2. \A b \in 1 .. n : After(c, b) = IF c + b < n THEN c + b ELSE c + b - n
    BY <1>4, <1>5
  <2>3. PICK b \in 1 .. n : b = d + k + 1 \/ (d + k + 1 > n /\ b = d + k + 1 - n)
    <3>1. CASE d + k + 1 <= n
      <4>1. d + k + 1 \in 1 .. n
        BY <1>5, <3>1
      <4> QED
        BY <4>1
    <3>2. CASE d + k + 1 > n
      <4>1. d + k + 1 - n \in 1 .. n
        BY <1>5, <3>2
      <4> QED
        BY <3>2, <4>1
    <3> QED
      BY <1>5, <3>1, <3>2
  <2>4. After(a, 1) = After(c, b)
    <3>1. PICK u \in Int, v \in Int : u = After(a, 1) /\ v = After(c, b)
      BY <1>5, <2>1, <2>2
    <3>2. /\ u = IF a + 1 < n THEN a + 1 ELSE a + 1 - n
          /\ v = IF c + b < n THEN c + b ELSE c + b - n
      BY <2>1, <2>2, <3>1
    <3>3. ASSUME b = d + k + 1 PROVE u = v
      BY <1>5, <1>6, <1>7, <3>2, <3>3
    <3>4. ASSUME d + k + 1 > n, b = d + k + 1 - n PROVE u = v
      BY <1>5, <1>6, <1>7, <3>2, <3>4
    <3>5. u = v
      BY <2>3, <3>3, <3>4
    <3> QED
      BY <3>1, <3>5
  <2>5. ASSUME NEW e \in 1 .. n, e < b, After(c, e) # a, HasLive(ps, After(c, e))
        PROVE  FALSE
    <3>1. After(c, e) \in Pipe /\ After(c, e) = IF c + e < n THEN c + e ELSE c + e - n
      BY <1>5, <2>2
    <3>2. PICK j \in 1 .. n : After(c, e) = After(c, j) /\ d + k <= j
      BY <1>8, <2>5, <3>1
    <3>3. After(c, j) = IF c + j < n THEN c + j ELSE c + j - n
      BY <2>2
    <3>4. j = e
      BY <1>5, <3>1, <3>2, <3>3
    <3> QED
      BY <1>5, <1>6, <1>7, <2>3, <2>5, <3>1, <3>2, <3>4
  <2> QED
    BY <1>3, <2>3, <2>4, <2>5
<1> QED
  BY <1>7, <1>9, <1>10 DEF ServedInTurn

\* The pick is the pipe launched last only if no other pipe has work, and it
\* is in flight only if that pipe is.
LEMMA PickedLast ==
    ASSUME Inv, Turns, pc = "next", queue # <<>>, NEW t \in Picks(pipes)
    PROVE  /\ ServedInTurn(pipes, t, current)
           /\ Inflight(queue, t) => Inflight(queue, current)
<1>1. turn \in Pipe /\ current \in Pipe /\ t \in Pipe /\ Passed(pipes, turn, current)
  BY PicksArePipes DEF Inv, TypedPlace, Turns
<1>2. HasLive(pipes, t)
  BY PicksFirst
<1>3. PICK k \in 0 .. NPipes - 1 : /\ t = After(turn, k)
                                   /\ \A m \in 0 .. k - 1 : ~HasLive(pipes, After(turn, m))
  BY PicksFirst
<1>4. ServedInTurn(pipes, After(turn, k), current)
  BY <1>1, <1>3, PassedFurther
<1>5. Inflight(queue, t) => Inflight(queue, current)
  <2>1. PICK r \in ToSet(pipes[t]) : left[r] # 0
    BY <1>2 DEF HasLive, Finished
  <2>2. r \in ToSet(running)
    BY <1>1, <2>1 DEF Inv, Places, Partition, Listed
  <2>3. status[r] = "running"
    BY <2>2, Members DEF Inv, Runs, TypedRequests
  <2> QED
    BY <1>1, <2>1, <2>3 DEF Turns
<1> QED
  BY <1>3, <1>4, <1>5

LEMMA ListedRequests ==
    ASSUME Inv
    PROVE  /\ \A i \in Pipe : \A r \in ToSet(pipes[i]) : r \in Reqs /\ r \in Listed(pipes)
           /\ ToSet(running) \subseteq Reqs
<1>1. \A i \in Pipe : pipes[i] \in Seq(Reqs)
  BY DEF Inv, TypedPlace
<1> QED
  BY <1>1, Members DEF Inv, TypedRequests, Listed

LEMMA InitTurns ==
    ASSUME Init PROVE Turns
<1>1. \A i \in Pipe : ToSet(pipes[i]) = {}
  BY NothingParked DEF Init, NoPipes
<1>2. Listed(pipes) = {}
  BY <1>1 DEF Listed
<1> QED
  BY <1>2 DEF Init, Turns

\* A step outside get_next that moves nothing, and after which only those run
\* that ran.
LEMMA QuietTurns ==
    ASSUME Inv, Turns, pc # "next", pc' \notin {"next", "launch"}, UNCHANGED place,
           \A r \in Reqs : status'[r] = "new" => status[r] = "new",
           \/ queue = <<>>
           \/ \A r \in Reqs : status'[r] # "running"
           \/ /\ pc # "launch"
              /\ left' = left
              /\ \A r \in Listed(pipes) : status'[r] = "running" => status[r] = "running"
    PROVE  Turns'
<1>1. pipes' = pipes /\ turn' = turn /\ current' = current /\ queue' = queue /\ pending' = pending
  BY DEF place
<1>2. \A i \in Pipe : \A r \in ToSet(pipes[i]) : r \in Reqs /\ r \in Listed(pipes)
  BY ListedRequests
<1>3. \A r \in Listed(pipes) : r \in Reqs
  BY <1>2 DEF Listed
<1>4. queue # <<>> => turn = After(current, 1)
  BY DEF Turns
<1>5. \A r \in Listed(pipes) : status'[r] # "new"
  BY <1>3 DEF Turns
<1>6. ASSUME queue # <<>>, ~Inflight(queue, current), NEW i \in Pipe, Inflight(queue, i),
             NEW r \in ToSet(pipes[i])
      PROVE  status'[r] # "running" \/ left'[r] = 0
  <2>1. CASE \A x \in Reqs : status'[x] # "running"
    BY <1>2, <1>6, <2>1
  <2>2. CASE /\ pc # "launch"
             /\ left' = left
             /\ \A x \in Listed(pipes) : status'[x] = "running" => status[x] = "running"
    <3>1. status[r] # "running" \/ left[r] = 0
      BY <1>6, <2>2 DEF Turns
    <3> QED
      BY <1>2, <1>6, <2>2, <3>1
  <2> QED
    BY <1>6, <2>1, <2>2
<1> QED
  BY <1>1, <1>4, <1>5, <1>6 DEF Turns, Inflight, Listed

LEMMA IdleTurns ==
    ASSUME Inv, Turns,
           \/ StartSerial \/ SerialStep \/ Release \/ LaunchRaises
           \/ \E rs \in Batches : Prefill(rs) \/ PrefillRaises(rs)
    PROVE  Turns'
<1>0. /\ \A r \in Reqs : r \in ToSet(running) <=> status[r] = "running"
      /\ pc = "serial" => queue = <<>>
      /\ ToSet(running) \subseteq Reqs
      /\ \A r \in Listed(pipes) : r \in Reqs /\ status[r] # "new"
      /\ status \in [Reqs -> {"new", "running", "done", "dropped"}]
  BY ListedRequests DEF Inv, TypedRequests, Runs, Clear, Turns, Listed
<1>1. CASE StartSerial
  BY <1>1, QuietTurns DEF StartSerial
<1>2. CASE SerialStep
  <2>1. pc = "serial" /\ pc' = "release" /\ status' = status /\ UNCHANGED place /\ queue = <<>>
    BY <1>0, <1>2 DEF SerialStep
  <2> QED
    BY <2>1, QuietTurns
<1>3. CASE Release
  <2>1. /\ pc = "release" /\ pc' = "idle" /\ left' = left /\ UNCHANGED place
        /\ status' = [r \in Reqs |-> IF r \in Released THEN "done" ELSE status[r]]
    BY <1>3 DEF Release
  <2> QED
    BY <1>0, <2>1, QuietTurns
<1>4. ASSUME Forgotten(ToSet(running)) = status' \/ \E S : status' = Forgotten(ToSet(running) \cup S)
      PROVE  \A r \in Reqs : /\ status'[r] = "new" => status[r] = "new"
                             /\ status'[r] # "running"
  BY <1>0, <1>4 DEF Forgotten
<1>5. CASE LaunchRaises
  <2>1. pc = "launch" /\ pc' = "idle" /\ UNCHANGED place /\ status' = Forgotten(ToSet(running))
    BY <1>5 DEF LaunchRaises
  <2> QED
    BY <1>4, <2>1, QuietTurns
<1>6. ASSUME NEW rs \in Batches, PrefillRaises(rs) PROVE Turns'
  <2>1. pc = "idle" /\ pc' = pc /\ UNCHANGED place /\ status' = Forgotten(ToSet(running) \cup ToSet(rs))
    BY <1>6 DEF PrefillRaises
  <2> QED
    BY <1>4, <2>1, QuietTurns
<1>7. ASSUME NEW rs \in Batches, Prefill(rs) PROVE Turns'
  <2>1. /\ pc = "idle" /\ pc' = pc /\ UNCHANGED place /\ left' = left
        /\ status' = [r \in Reqs |-> IF r \in ToSet(rs) THEN "running" ELSE status[r]]
    BY <1>7 DEF Prefill
  <2>2. \A r \in ToSet(rs) : status[r] = "new"
    BY BatchOfNew
  <2> QED
    BY <1>0, <2>1, <2>2, QuietTurns
<1> QED
  BY <1>1, <1>2, <1>3, <1>5, <1>6, <1>7

LEMMA SameTurns ==
    ASSUME Turns, UNCHANGED <<status, left, place, pc>>
    PROVE  Turns'
<1>1. /\ pipes' = pipes /\ turn' = turn /\ current' = current /\ queue' = queue
      /\ pending' = pending /\ status' = status /\ left' = left /\ pc' = pc
  BY DEF place
<1>2. Passed(pipes, turn, current) => Passed(pipes, turn, current)'
  BY <1>1 DEF Passed, HasLive, Finished
<1> QED
  BY <1>1, <1>2 DEF Turns, Inflight, Listed

LEMMA SyncTurns ==
    ASSUME Inv, Turns, Sync PROVE Turns'
<1>1. PICK rs : SyncedPlaces(rs)
  BY SyncPlaces
<1>2. /\ pc = "idle" /\ status' = status /\ left' = left /\ running' = running
      /\ pc' \in {"next", "serial"}
      /\ pc' = "serial" => ~active'
      /\ ~active' => queue' = <<>>
  BY DEF Sync
<1>3. /\ pending' = <<>> \/ FreePipes(queue') = {}
      /\ Partition(pipes', Parked', held')
      /\ \/ queue' = <<>>
         \/ /\ queue' = queue /\ turn' = turn /\ current' = current
            /\ \A i \in Pipe : Inflight(queue, i) => ToSet(pipes'[i]) \subseteq ToSet(pipes[i])
  BY <1>1 DEF SyncedPlaces
<1>4. queue' # <<>> => turn' = After(current', 1)
  BY <1>2, <1>3 DEF Turns
<1>5. pending' # <<>> => queue' # <<>>
  BY <1>3, PipesAreNumbered DEF FreePipes, Inflight
<1>6. queue' # <<>> => Passed(pipes, turn, current)'
  <2>1. 1 \in 1 .. NPipes /\ \A e \in 1 .. NPipes : ~(e < 1)
    BY PipesAreNumbered
  <2> QED
    BY <1>4, <2>1 DEF Passed
<1>7. \A r \in Listed(pipes') : status'[r] # "new"
  <2>1. \A r \in Listed(pipes') : r \in ToSet(running)
    BY <1>3 DEF Partition
  <2> QED
    BY <1>2, <2>1, ListedRequests DEF Inv, Runs
<1>8. ASSUME queue' # <<>>, ~Inflight(queue', current'), NEW i \in Pipe, Inflight(queue', i),
             NEW r \in ToSet(pipes'[i])
      PROVE  status'[r] # "running" \/ left'[r] = 0
  BY <1>2, <1>3, <1>8 DEF Turns
<1> QED
  BY <1>2, <1>4, <1>5, <1>6, <1>7, <1>8 DEF Turns, Listed

\* Of the pipes, only the one whose result is processed can gain requests, and
\* only parked ones.
LEMMA TakenShows ==
    ASSUME Inv, pc = "next", NEW i \in Pipe, NEW k, TakenOff(i, k)
    PROVE  /\ \A j \in Pipe : j # i \/ pending = <<>> => ToSet(pipes'[j]) = ToSet(pipes[j])
           /\ \A j \in Pipe : \A r \in ToSet(pipes'[j]) : r \in ToSet(running) /\ r \in Reqs
           /\ \A r \in Reqs : left[r] = 0 => left'[r] = 0
<1>1. /\ left' = Expanded(queue[k].reqs)
      /\ ~Inflight(queue', i)
      /\ \A j \in Pipe : j # i /\ Inflight(queue, j) => Inflight(queue', j)
      /\ Deals(pipes', pipes, FreePipes(queue'), Parked)
  BY DEF TakenOff
<1>2. active /\ Partition(pipes, Parked, held) /\ Apart(pipes)
  BY DEF Inv, Places
<1>3. /\ \A j \in Pipe \ FreePipes(queue') : pipes'[j] = pipes[j]
      /\ \A j \in Pipe : ToSet(pipes[j]) \subseteq ToSet(pipes'[j])
      /\ Listed(pipes') = Listed(pipes) \cup ToSet(Parked)
      /\ Apart(pipes')
  BY <1>1, <1>2 DEF Deals, Partition
<1>4. ASSUME pending = <<>>, NEW j \in Pipe, NEW r \in ToSet(pipes'[j])
      PROVE  r \in ToSet(pipes[j])
  <2>1. Listed(pipes') = Listed(pipes)
    BY <1>3, <1>4, ParkedBatch, NothingParked
  <2>2. r \in Listed(pipes)
    BY <1>4, <2>1 DEF Listed
  <2>3. PICK m \in Pipe : r \in ToSet(pipes[m])
    BY <2>2 DEF Listed
  <2>4. r \in ToSet(pipes'[m])
    BY <1>3, <2>3
  <2>5. m = j
    BY <1>3, <1>4, <2>4 DEF Apart
  <2> QED
    BY <2>3, <2>5
<1>5. ASSUME pending # <<>>, NEW j \in Pipe, j # i PROVE pipes'[j] = pipes[j]
  <2>1. Inflight(queue, j)
    BY <1>5, ParkedBatch DEF FreePipes
  <2> QED
    BY <1>1, <1>3, <1>5, <2>1 DEF FreePipes
<1>6. \A j \in Pipe : j # i \/ pending = <<>> => ToSet(pipes'[j]) = ToSet(pipes[j])
  BY <1>3, <1>4, <1>5
<1>7. \A j \in Pipe : \A r \in ToSet(pipes'[j]) : r \in ToSet(running) /\ r \in Reqs
  BY <1>2, <1>3, ListedRequests DEF Partition, Listed
<1>8. \A r \in Reqs : left[r] = 0 => left'[r] = 0
  BY <1>1 DEF Expanded, Inv, TypedRequests
<1> QED
  BY <1>6, <1>7, <1>8

LEMMA ProcessPickedTurns ==
    ASSUME Inv, Turns, ProcessPicked PROVE Turns'
<1>1. pc = "next" /\ status' = status
  BY DEF ProcessPicked
<1>2. PICK t \in Picks(pipes) :
         /\ Inflight(queue, t)
         /\ Process(t)
         /\ IF Inflight(queue', t) THEN pc' = "release" /\ UNCHANGED <<turn, current>>
            ELSE IF \E r \in ToSet(pipes'[t]) : left'[r] > 0 THEN ToLaunch(t)
            ELSE turn' = After(t, 1) /\ UNCHANGED <<current, pc>>
  BY <1>1, RoundSame DEF ProcessPicked
<1>3. t \in Pipe /\ queue # <<>>
  BY <1>2, PicksArePipes DEF Inflight
<1>4. PICK k : TakenOff(t, k)
  BY <1>1, <1>2, <1>3, ProcessTakes
<1>5. pending' = <<>> /\ ~Inflight(queue', t)
      /\ \A j \in Pipe : j # t /\ Inflight(queue, j) => Inflight(queue', j)
  BY <1>4 DEF TakenOff
<1>6. /\ \A j \in Pipe : j # t => ToSet(pipes'[j]) = ToSet(pipes[j])
      /\ \A j \in Pipe : \A r \in ToSet(pipes'[j]) : r \in ToSet(running) /\ r \in Reqs
      /\ \A r \in Reqs : left[r] = 0 => left'[r] = 0
  BY <1>1, <1>3, <1>4, TakenShows
<1>7. \A r \in Listed(pipes') : status'[r] # "new"
  BY <1>1, <1>6 DEF Inv, Runs, Listed
<1>8. CASE pc' = "launch" /\ current' = t /\ turn' = After(t, 1)
  BY <1>5, <1>7, <1>8 DEF Turns
<1>9. CASE /\ ~\E r \in ToSet(pipes'[t]) : left'[r] > 0
           /\ pc' = "next" /\ current' = current /\ turn' = After(t, 1)
  <2>1. \A r \in ToSet(pipes'[t]) : left'[r] = 0
    <3>1. left' \in [Reqs -> Nat]
      <4>1. Inv'
        BY ProcessPickedHolds
      <4> QED
        BY <4>1 DEF Inv, TypedRequests
    <3> QED
      BY <1>3, <1>6, <1>9, <3>1
  <2>2. ASSUME NEW j \in Pipe, j = t \/ ~HasLive(pipes, j)
        PROVE  \A r \in ToSet(pipes'[j]) : left'[r] = 0
    BY <1>6, <2>1, <2>2 DEF HasLive, Finished
  <2>3. Passed(pipes, turn, current)'
    <3>1. PICK d \in 1 .. NPipes :
             /\ After(t, 1) = After(current, d)
             /\ \A e \in 1 .. NPipes : e < d /\ After(current, e) # t
                   => ~HasLive(pipes, After(current, e))
      BY <1>1, <1>3, PickedLast DEF ServedInTurn
    <3>2. \A e \in 1 .. NPipes : After(current, e) \in Pipe
      <4>1. \A e \in 1 .. NPipes : e \in Nat
        BY PipesAreNumbered
      <4>2. current \in Nat
        BY PipesAreNumbered DEF Inv, TypedPlace, Pipe
      <4> QED
        BY <4>1, <4>2, AfterIsPipe
    <3>3. \A e \in 1 .. NPipes : e < d => \A r \in ToSet(pipes'[After(current, e)]) : left'[r] = 0
      BY <2>2, <3>1, <3>2
    <3> QED
      BY <1>9, <3>1, <3>3 DEF Passed, HasLive, Finished
  <2>4. ASSUME ~Inflight(queue', current), NEW i \in Pipe, Inflight(queue', i)
        PROVE  \A r \in ToSet(pipes'[i]) : left'[r] = 0
    <3>1. current \in Pipe /\ Inflight(queue, current)
      BY <1>1, <1>2, <1>3, PickedLast DEF Inv, TypedPlace
    <3>2. t = current /\ i # t
      BY <1>5, <2>4, <3>1
    <3>3. ~HasLive(pipes, i)
      BY <1>1, <1>3, <3>2, PickedLast DEF ServedInTurn
    <3> QED
      BY <2>2, <3>3
  <2> QED
    BY <1>5, <1>7, <1>9, <2>3, <2>4 DEF Turns
<1> QED
  BY <1>1, <1>2, <1>5, <1>8, <1>9 DEF ToLaunch

LEMMA ProcessOldestTurns ==
    ASSUME Inv, Turns, ProcessOldest PROVE Turns'
<1>1. /\ pc = "next" /\ pc' = "next" /\ status' = status /\ turn' = turn /\ current' = current
      /\ queue # <<>> /\ Process(Head(queue).pid)
  BY DEF ProcessOldest
<1>2. \A i \in Pipe : ~HasLive(pipes, i)
  BY <1>1, RoundSame, PicksFirst DEF ProcessOldest
<1>3. PICK i \in Pipe : i = Head(queue).pid /\ Inflight(queue, i)
  <2>1. 1 \in 1 .. Len(queue) /\ Head(queue) = queue[1]
    BY <1>1 DEF Inv, TypedPlace
  <2> QED
    BY <2>1, LaunchTypes DEF Inflight
<1>4. PICK k : TakenOff(i, k)
  BY <1>1, <1>3, ProcessTakes
<1>5. pending' = <<>> /\ ~Inflight(queue', i)
  BY <1>4 DEF TakenOff
<1>6. /\ \A j \in Pipe : j # i \/ pending = <<>> => ToSet(pipes'[j]) = ToSet(pipes[j])
      /\ \A j \in Pipe : \A r \in ToSet(pipes'[j]) : r \in ToSet(running) /\ r \in Reqs
      /\ \A r \in Reqs : left[r] = 0 => left'[r] = 0
  BY <1>1, <1>4, TakenShows
<1>7. \A r \in Listed(pipes') : status'[r] # "new"
  BY <1>1, <1>6 DEF Inv, Runs, Listed
<1>8. \A j \in Pipe : j # i \/ pending = <<>> => \A r \in ToSet(pipes'[j]) : left'[r] = 0
  BY <1>2, <1>6 DEF HasLive, Finished
<1>9. Passed(pipes, turn, current)'
  <2>1. PICK d \in 1 .. NPipes :
           turn = After(current, d) /\ (pending # <<>> => \A e \in 1 .. NPipes : ~(e < d))
    <3>1. CASE pending = <<>>
      BY <1>1, <3>1 DEF Turns, Passed
    <3>2. CASE pending # <<>>
      <4>1. 1 \in 1 .. NPipes /\ \A e \in 1 .. NPipes : ~(e < 1)
        BY PipesAreNumbered
      <4> QED
        BY <1>1, <3>2, <4>1 DEF Turns
    <3> QED
      BY <3>1, <3>2
  <2>2. \A e \in 1 .. NPipes : After(current, e) \in Pipe
    <3>1. \A e \in 1 .. NPipes : e \in Nat
      BY PipesAreNumbered
    <3>2. current \in Nat
      BY PipesAreNumbered DEF Inv, TypedPlace, Pipe
    <3> QED
      BY <3>1, <3>2, AfterIsPipe
  <2>3. \A e \in 1 .. NPipes : e < d => \A r \in ToSet(pipes'[After(current, e)]) : left'[r] = 0
    BY <1>8, <2>1, <2>2
  <2> QED
    BY <1>1, <2>1, <2>3 DEF Passed, HasLive, Finished
<1>10. \A j \in Pipe : Inflight(queue', j) => \A r \in ToSet(pipes'[j]) : left'[r] = 0
  BY <1>5, <1>8
<1> QED
  BY <1>1, <1>5, <1>7, <1>9, <1>10 DEF Turns

LEMMA LaunchTurns ==
    ASSUME Inv, Turns, Launch PROVE Turns'
<1>1. /\ pc = "launch" /\ pc' = "release" /\ status' = status /\ pipes' = pipes
      /\ turn' = turn /\ current' = current
      /\ \E rs : queue' = Append(queue, [pid |-> current, reqs |-> rs])
  BY DEF Launch
<1>2. Inflight(queue', current)
  <2>1. PICK rs : queue' = Append(queue, [pid |-> current, reqs |-> rs])
    BY <1>1
  <2>2. /\ Len(queue') = Len(queue) + 1 /\ Len(queue) \in Nat
        /\ queue'[Len(queue) + 1] = [pid |-> current, reqs |-> rs]
    BY <2>1 DEF Inv, TypedPlace
  <2>3. queue'[Len(queue')].pid = current /\ Len(queue') \in 1 .. Len(queue')
    BY <2>2
  <2> QED
    BY <2>3 DEF Inflight
<1> QED
  BY <1>1, <1>2 DEF Turns, Listed

LEMMA TurnsStep ==
    ASSUME Inv, Turns, [Next]_vars PROVE Turns'
<1>1. CASE UNCHANGED vars
  BY <1>1, SameTurns DEF vars, place
<1>2. CASE Sync
  BY <1>2, SyncTurns
<1>3. CASE StartSerial \/ SerialStep \/ Release \/ LaunchRaises
           \/ \E rs \in Batches : Prefill(rs) \/ PrefillRaises(rs)
  BY <1>3, IdleTurns
<1>4. CASE PickIdlePipe
  <2>1. /\ pc = "next" /\ pc' = "launch" /\ status' = status /\ turn' = After(current', 1)
        /\ pipes' = pipes
    BY <1>4, RoundSame DEF PickIdlePipe, ToLaunch
  <2> QED
    BY <2>1 DEF Turns, Listed
<1>5. CASE ProcessPicked
  BY <1>5, ProcessPickedTurns
<1>6. CASE ProcessOldest
  BY <1>6, ProcessOldestTurns
<1>7. CASE NothingToLaunch
  <2>1. /\ pc = "next" /\ pc' = "release" /\ queue' = <<>> /\ status' = status /\ pipes' = pipes
    BY <1>7, RoundSame DEF NothingToLaunch
  <2> QED
    BY <2>1 DEF Turns, Listed
<1>8. CASE Launch
  BY <1>8, LaunchTurns
<1>9. CASE \E r \in Reqs : PrefillDone(r)
  BY <1>9, SameTurns DEF PrefillDone
<1> QED
  BY <1>1, <1>2, <1>3, <1>4, <1>5, <1>6, <1>7, <1>8, <1>9 DEF Next, TickStep

\* While forwards are out, the pipe launched last is launched again only if no
\* other pipe has work (pipeline.py:6-11).
THEOREM Alternation == Spec => Alternates
<1>1. Init => Turns
  BY InitTurns
<1>2. Inv /\ Turns /\ [Next]_vars => Turns'
  BY TurnsStep
<1>3. ASSUME Inv, Turns, [Next]_vars, pc = "next", pc' = "launch", queue # <<>>, current' = current
      PROVE  \A i \in Pipe \ {current} : ~HasLive(pipes, i)
  <2>1. PickIdlePipe \/ ProcessPicked
    BY <1>3 DEF Next, TickStep, vars, StartSerial, Sync, SerialStep, ProcessOldest,
       NothingToLaunch, Launch, Release, Prefill, PrefillRaises, PrefillDone, LaunchRaises
  <2>2. current \in Picks(pipes)
    <3>1. CASE PickIdlePipe
      <4>1. PICK t \in Picks(pipes) :
               \E i \in (IF Inflight(queue, t) THEN Alternatives(pipes, t) ELSE {t}) : ToLaunch(i)
        BY <1>3, <3>1, RoundSame DEF PickIdlePipe
      <4>2. t \in Pipe /\ (Inflight(queue, t) => Inflight(queue, current))
        BY <1>3, PicksArePipes, PickedLast
      <4>3. CASE Inflight(queue, t)
        <5>1. PICK i \in Alternatives(pipes, t) : ToLaunch(i)
          BY <4>1, <4>3
        <5>2. i = current /\ ~Inflight(queue, i)
          BY <1>3, <4>2, <5>1, PicksArePipes DEF ToLaunch
        <5> QED
          BY <4>2, <4>3, <5>2
      <4>4. CASE ~Inflight(queue, t)
        BY <1>3, <4>1, <4>4 DEF ToLaunch
      <4> QED
        BY <4>3, <4>4
    <3>2. CASE ProcessPicked
      BY <1>3, <3>2, RoundSame DEF ProcessPicked, ToLaunch
    <3> QED
      BY <2>1, <3>1, <3>2
  <2> QED
    BY <1>3, <2>2, PickedLast DEF ServedInTurn
<1>4. Inv /\ Turns /\ [Next]_vars
         => [pc = "next" /\ pc' = "launch" /\ queue # <<>> /\ current' = current
               => \A i \in Pipe \ {current} : ~HasLive(pipes, i)]_vars
  BY <1>3
<1> QED
  BY <1>1, <1>2, <1>4, Invariance, PTL DEF Spec, Alternates

-----------------------------------------------------------------------------
(* The order on the device.  A buffer is covered by a stream, or by the host, *)
(* if whatever is done there next comes after all accesses to it; an event    *)
(* keeps it if that holds of whoever waits for the event.                     *)

Actors == Streams \cup {"host"}
Kinds == {"beams", "rows", "parents", "result", "pin", "stage", "indptr", "ring", "ringpin"}
Buffers ==
    ({"beams"} \X Reqs) \cup ({"rows"} \X (Leases \cup {None})) \cup ({"parents"} \X (0 .. Serial))
    \cup ({"result"} \X (Blocks \cup {None})) \cup ({"pin"} \X Names \X (0 .. 1))
    \cup ({"stage"} \X Names) \cup ({"indptr"} \X {0}) \cup ({"ring", "ringpin"} \X (0 .. Ring - 1))
Accesses == Buffers \X {"read", "write"} \X Actors

Orders == [past : [Actors -> SUBSET Accesses], accesses : SUBSET Accesses,
           events : [Events -> SUBSET Accesses], races : SUBSET Kinds]

Commands ==
    [do : {"op"}, on : Actors, reads : SUBSET Buffers, writes : SUBSET Buffers]
    \cup [do : {"record", "wait"}, on : Actors, event : Events]
    \cup [do : {"drop"}, event : Events]

To(g, b) == {x \in g.accesses : x[1] = b}
Covered(g, b, a) == To(g, b) \subseteq g.past[a] \cup g.past["host"]
Keeps(g, b, e) == To(g, b) \subseteq g.events[e]

\* From g to h nothing is lost that was known of b, but for what events outside
\* E keep.
Carried(g, h, b, E) ==
    /\ \A a \in Actors : Covered(g, b, a) => Covered(h, b, a)
    /\ \A e \in E : Keeps(g, b, e) => Keeps(h, b, e)

LEMMA BufferKinds == \A b \in Buffers : b[1] \in Kinds
BY DEF Buffers, Kinds

LEMMA CoveredByHost ==
    ASSUME NEW g, NEW b, NEW a \in Actors, Covered(g, b, "host")
    PROVE  Covered(g, b, a)
BY DEF Covered

LEMMA CarriedOn ==
    ASSUME NEW g, NEW h, NEW k, NEW b, NEW E, NEW F, Carried(g, h, b, E), Carried(h, k, b, F)
    PROVE  Carried(g, k, b, E \cap F)
BY DEF Carried

\* An access on s, with what s and the host come after.
LEMMA OpOrders ==
    ASSUME NEW g \in Orders, NEW s \in Actors, NEW R \in SUBSET Buffers, NEW W \in SUBSET Buffers
    PROVE  LET h == Do(g, Op(s, R, W)) IN
           /\ h \in Orders
           /\ \A b \in Buffers \ (R \cup W) : Carried(g, h, b, Events)
           /\ \A b \in R \cup W : Covered(g, b, s) => Covered(h, b, s)
           /\ \A k \in Kinds : /\ k \notin g.races
                               /\ \A b \in R \cup W : b[1] = k => Covered(g, b, s)
                               => k \notin h.races
<1> DEFINE c == Op(s, R, W)
           new == Access(s, R, W)
           before == g.past[s] \cup g.past["host"]
           gone == {x \in g.accesses : x[1] \in W} \cup new
           conflicts == {x \in g.accesses : x[1] \in W \/ (x[1] \in R /\ x[2] = "write")}
           h == Do(g, c)
<1>1. /\ g.past \in [Actors -> SUBSET Accesses] /\ g.accesses \subseteq Accesses
      /\ g.events \in [Events -> SUBSET Accesses] /\ g.races \subseteq Kinds
      /\ "host" \in Actors
  BY DEF Orders, Actors
<1>2. c.do = "op" /\ c.on = s /\ c.reads = R /\ c.writes = W
  BY DEF Op
<1>3. h = DoOp(g, c)
  BY <1>2 DEF Do
<1>4. h = [accesses |-> (g.accesses \ gone) \cup new,
           past |-> [a \in Actors |-> IF a = s THEN (before \ gone) \cup new ELSE g.past[a] \ gone],
           events |-> [e \in Events |-> g.events[e] \ gone],
           races |-> g.races \cup {x[1][1] : x \in conflicts \ before}]
  BY <1>1, <1>2, <1>3 DEF DoOp
<1>5. new \subseteq Accesses /\ \A x \in new : x[1] \in R \cup W
  BY DEF Access, Accesses
<1>6. /\ h.accesses = (g.accesses \ gone) \cup new
      /\ h.past = [a \in Actors |-> IF a = s THEN (before \ gone) \cup new ELSE g.past[a] \ gone]
      /\ h.events = [e \in Events |-> g.events[e] \ gone]
      /\ h.races = g.races \cup {x[1][1] : x \in conflicts \ before}
  BY <1>4
<1>7. \A x \in Accesses : x[1] \in Buffers
  BY DEF Accesses
<1>8. h \in Orders
  <2>1. before \subseteq Accesses
    BY <1>1
  <2>2. h.accesses \subseteq Accesses
    BY <1>1, <1>5, <1>6
  <2>3. h.past \in [Actors -> SUBSET Accesses]
    BY <1>1, <1>5, <1>6, <2>1
  <2>4. h.events \in [Events -> SUBSET Accesses]
    BY <1>1, <1>6
  <2>5. h.races \subseteq Kinds
    BY <1>1, <1>6, <1>7, BufferKinds
  <2> HIDE DEF gone, conflicts, before, new, h
  <2>6. h = [past |-> h.past, accesses |-> h.accesses, events |-> h.events, races |-> h.races]
    BY <1>4, <1>6
  <2> QED
    BY <2>2, <2>3, <2>4, <2>5, <2>6 DEF Orders
<1>9. ASSUME NEW x, x \in gone PROVE x[1] \in R \cup W
  BY <1>5, <1>9
<1>10. before \subseteq Accesses /\ s \in Actors
  BY <1>1
<1> HIDE DEF h, gone, conflicts, new, c
<1>11. ASSUME NEW b \in Buffers \ (R \cup W) PROVE Carried(g, h, b, Events)
  <2>1. \A x : x[1] = b => x \notin gone /\ x \notin new
    BY <1>5, <1>9, <1>11
  <2>2. To(h, b) = To(g, b)
    BY <1>6, <2>1 DEF To
  <2>3. ASSUME NEW a \in Actors, Covered(g, b, a) PROVE Covered(h, b, a)
    <3>1. ASSUME NEW x, x \in To(g, b) PROVE x \in h.past[a] \cup h.past["host"]
      <4>1. x[1] = b /\ x \notin gone
        BY <2>1, <3>1 DEF To
      <4>2. x \in g.past[a] \cup g.past["host"]
        BY <2>3, <3>1 DEF Covered
      <4>3. CASE x \in g.past[a]
        BY <1>6, <4>1, <4>3
      <4>4. CASE x \in g.past["host"]
        BY <1>1, <1>6, <4>1, <4>4
      <4> QED
        BY <4>2, <4>3, <4>4
    <3> QED
      BY <2>2, <3>1 DEF Covered
  <2>4. ASSUME NEW e \in Events, Keeps(g, b, e) PROVE Keeps(h, b, e)
    BY <1>6, <2>1, <2>2, <2>4 DEF Keeps, To
  <2> QED
    BY <2>3, <2>4 DEF Carried
<1>12. ASSUME NEW b \in R \cup W, Covered(g, b, s) PROVE Covered(h, b, s)
  <2>1. ASSUME NEW x, x \in To(h, b) PROVE x \in h.past[s]
    <3>1. x \in new \/ (x \in g.accesses /\ x \notin gone /\ x[1] = b)
      BY <1>6, <2>1 DEF To
    <3>2. x \notin new => x \in before
      BY <1>12, <3>1 DEF Covered, To
    <3> QED
      BY <1>6, <3>1, <3>2
  <2> QED
    BY <2>1 DEF Covered
<1>13. ASSUME NEW k \in Kinds, k \notin g.races, \A b \in R \cup W : b[1] = k => Covered(g, b, s)
       PROVE  k \notin h.races
  <2>1. SUFFICES ASSUME NEW x \in conflicts \ before, k = x[1][1] PROVE FALSE
    BY <1>6, <1>13
  <2>2. x \in g.accesses /\ x[1] \in R \cup W
    BY <2>1 DEF conflicts
  <2>3. Covered(g, x[1], s)
    BY <1>13, <2>1, <2>2
  <2>4. x \in before
    BY <2>2, <2>3 DEF Covered, To
  <2> QED
    BY <2>1, <2>4
<1> QED
  BY <1>8, <1>11, <1>12, <1>13 DEF h, c

LEMMA RecordOrders ==
    ASSUME NEW g \in Orders, NEW s \in Actors, NEW e \in Events
    PROVE  LET h == Do(g, Record(s, e)) IN
           /\ h \in Orders
           /\ h.races = g.races
           /\ \A b : Carried(g, h, b, Events \ {e})
           /\ \A b : Covered(g, b, s) => Keeps(h, b, e)
<1> DEFINE h == Do(g, Record(s, e))
<1>1. h = [g EXCEPT !.events[e] = g.past[s] \cup g.past["host"]]
  BY DEF Do, Record
<1>2. /\ g.past \in [Actors -> SUBSET Accesses] /\ g.accesses \subseteq Accesses
      /\ g.events \in [Events -> SUBSET Accesses] /\ g.races \subseteq Kinds
      /\ "host" \in Actors
      /\ g = [past |-> g.past, accesses |-> g.accesses, events |-> g.events, races |-> g.races]
  BY DEF Orders, Actors
<1>3. /\ h.past = g.past /\ h.accesses = g.accesses /\ h.races = g.races
      /\ h.events = [g.events EXCEPT ![e] = g.past[s] \cup g.past["host"]]
      /\ h = [past |-> h.past, accesses |-> h.accesses, events |-> h.events, races |-> h.races]
  BY <1>1, <1>2
<1> HIDE DEF h
<1>4. h.events \in [Events -> SUBSET Accesses] /\ h.events[e] = g.past[s] \cup g.past["host"]
      /\ \A f \in Events \ {e} : h.events[f] = g.events[f]
  BY <1>2, <1>3
<1>5. h \in Orders
  BY <1>2, <1>3, <1>4 DEF Orders
<1> QED
  BY <1>3, <1>4, <1>5 DEF h, Carried, Covered, Keeps, To

LEMMA DropOrders ==
    ASSUME NEW g \in Orders, NEW e \in Events
    PROVE  LET h == Do(g, Drop(e)) IN
           /\ h \in Orders
           /\ h.races = g.races
           /\ \A b : Carried(g, h, b, Events \ {e})
<1> DEFINE h == Do(g, Drop(e))
<1>1. h = [g EXCEPT !.events[e] = {}]
  BY DEF Do, Drop
<1>2. /\ g.past \in [Actors -> SUBSET Accesses] /\ g.accesses \subseteq Accesses
      /\ g.events \in [Events -> SUBSET Accesses] /\ g.races \subseteq Kinds
      /\ g = [past |-> g.past, accesses |-> g.accesses, events |-> g.events, races |-> g.races]
  BY DEF Orders
<1>3. /\ h.past = g.past /\ h.accesses = g.accesses /\ h.races = g.races
      /\ h.events = [g.events EXCEPT ![e] = {}]
      /\ h = [past |-> h.past, accesses |-> h.accesses, events |-> h.events, races |-> h.races]
  BY <1>1, <1>2
<1> HIDE DEF h
<1>4. h.events \in [Events -> SUBSET Accesses]
      /\ \A f \in Events \ {e} : h.events[f] = g.events[f]
  BY <1>2, <1>3
<1>5. h \in Orders
  BY <1>2, <1>3, <1>4 DEF Orders
<1> QED
  BY <1>3, <1>4, <1>5 DEF h, Carried, Covered, Keeps, To

LEMMA WaitOrders ==
    ASSUME NEW g \in Orders, NEW s \in Actors, NEW e \in Events
    PROVE  LET h == Do(g, Wait(s, e)) IN
           /\ h \in Orders
           /\ h.races = g.races
           /\ \A b : Carried(g, h, b, Events)
           /\ \A b : Keeps(g, b, e) => Covered(h, b, s)
<1> DEFINE h == Do(g, Wait(s, e))
<1>1. h = [g EXCEPT !.past[s] = @ \cup g.events[e]]
  BY DEF Do, Wait
<1>2. /\ g.past \in [Actors -> SUBSET Accesses] /\ g.accesses \subseteq Accesses
      /\ g.events \in [Events -> SUBSET Accesses] /\ g.races \subseteq Kinds
      /\ "host" \in Actors
      /\ g = [past |-> g.past, accesses |-> g.accesses, events |-> g.events, races |-> g.races]
  BY DEF Orders, Actors
<1>3. /\ h.events = g.events /\ h.accesses = g.accesses /\ h.races = g.races
      /\ h.past = [g.past EXCEPT ![s] = @ \cup g.events[e]]
      /\ h = [past |-> h.past, accesses |-> h.accesses, events |-> h.events, races |-> h.races]
  BY <1>1, <1>2
<1> HIDE DEF h
<1>4. h.past \in [Actors -> SUBSET Accesses] /\ h.past[s] = g.past[s] \cup g.events[e]
      /\ \A a \in Actors : g.past[a] \subseteq h.past[a]
  BY <1>2, <1>3
<1>5. h \in Orders
  BY <1>2, <1>3, <1>4 DEF Orders
<1>6. \A b : To(h, b) = To(g, b)
  BY <1>3 DEF To
<1>7. ASSUME NEW b PROVE Carried(g, h, b, Events)
  BY <1>2, <1>3, <1>4, <1>6 DEF Carried, Covered, Keeps
<1>8. ASSUME NEW b, Keeps(g, b, e) PROVE Covered(h, b, s)
  BY <1>4, <1>6, <1>8 DEF Covered, Keeps
<1> QED
  BY <1>3, <1>5, <1>7, <1>8 DEF h

LEMMA CommandForms ==
    ASSUME NEW c \in Commands
    PROVE  \/ c.do = "op" /\ c.on \in Actors /\ c.reads \in SUBSET Buffers
                /\ c.writes \in SUBSET Buffers /\ c = Op(c.on, c.reads, c.writes)
           \/ c.do = "record" /\ c.on \in Actors /\ c.event \in Events /\ c = Record(c.on, c.event)
           \/ c.do = "wait" /\ c.on \in Actors /\ c.event \in Events /\ c = Wait(c.on, c.event)
           \/ c.do = "drop" /\ c.event \in Events /\ c = Drop(c.event)
<1>1. CASE c \in [do : {"op"}, on : Actors, reads : SUBSET Buffers, writes : SUBSET Buffers]
  BY <1>1 DEF Op
<1>2. CASE c \in [do : {"record", "wait"}, on : Actors, event : Events]
  BY <1>2 DEF Record, Wait
<1>3. CASE c \in [do : {"drop"}, event : Events]
  BY <1>3 DEF Drop
<1> QED
  BY <1>1, <1>2, <1>3 DEF Commands

LEMMA CommandTypes ==
    /\ \A s \in Actors, R, W \in SUBSET Buffers : Op(s, R, W) \in Commands
    /\ \A s \in Actors, e \in Events : Record(s, e) \in Commands /\ Wait(s, e) \in Commands
    /\ \A e \in Events : Drop(e) \in Commands
BY DEF Commands, Op, Record, Wait, Drop

\* What a command leaves as it was of a buffer.
Spares(c, b, E) ==
    /\ c.do = "op" => b \notin c.reads \cup c.writes
    /\ c.do \in {"record", "drop"} => c.event \notin E

LEMMA CommandOrders ==
    ASSUME NEW g \in Orders, NEW c \in Commands
    PROVE  /\ Do(g, c) \in Orders
           /\ \A b \in Buffers, E \in SUBSET Events : Spares(c, b, E) => Carried(g, Do(g, c), b, E)
           /\ \A k \in Kinds : /\ k \notin g.races
                               /\ c.do = "op" => \A b \in c.reads \cup c.writes : b[1] # k
                               => k \notin Do(g, c).races
<1>1. CASE c.do = "op" /\ c.on \in Actors /\ c.reads \in SUBSET Buffers
             /\ c.writes \in SUBSET Buffers /\ c = Op(c.on, c.reads, c.writes)
  <2> DEFINE h == Do(g, Op(c.on, c.reads, c.writes))
  <2>1. /\ h \in Orders
        /\ \A b \in Buffers \ (c.reads \cup c.writes) : Carried(g, h, b, Events)
        /\ \A k \in Kinds : /\ k \notin g.races
                            /\ \A b \in c.reads \cup c.writes : b[1] = k => Covered(g, b, c.on)
                            => k \notin h.races
    BY <1>1, OpOrders
  <2>2. h = Do(g, c)
    BY <1>1
  <2> HIDE DEF h
  <2>3. ASSUME NEW b \in Buffers, NEW E \in SUBSET Events, Spares(c, b, E)
        PROVE  Carried(g, h, b, E)
    <3>1. Carried(g, h, b, Events)
      BY <1>1, <2>1, <2>3 DEF Spares
    <3> QED
      BY <3>1 DEF Carried
  <2> QED
    BY <1>1, <2>1, <2>2, <2>3
<1>2. CASE c.do = "record" /\ c.on \in Actors /\ c.event \in Events /\ c = Record(c.on, c.event)
  <2> DEFINE h == Do(g, Record(c.on, c.event))
  <2>1. h \in Orders /\ h.races = g.races /\ \A b : Carried(g, h, b, Events \ {c.event})
    BY <1>2, RecordOrders
  <2>2. h = Do(g, c)
    BY <1>2
  <2> HIDE DEF h
  <2>3. ASSUME NEW b \in Buffers, NEW E \in SUBSET Events, Spares(c, b, E)
        PROVE  Carried(g, h, b, E)
    BY <1>2, <2>1, <2>3 DEF Spares, Carried
  <2> QED
    BY <2>1, <2>2, <2>3
<1>3. CASE c.do = "wait" /\ c.on \in Actors /\ c.event \in Events /\ c = Wait(c.on, c.event)
  <2> DEFINE h == Do(g, Wait(c.on, c.event))
  <2>1. h \in Orders /\ h.races = g.races /\ \A b : Carried(g, h, b, Events)
    BY <1>3, WaitOrders
  <2>2. h = Do(g, c)
    BY <1>3
  <2> HIDE DEF h
  <2>3. ASSUME NEW b \in Buffers, NEW E \in SUBSET Events, Spares(c, b, E)
        PROVE  Carried(g, h, b, E)
    BY <2>1 DEF Carried
  <2> QED
    BY <2>1, <2>2, <2>3
<1>4. CASE c.do = "drop" /\ c.event \in Events /\ c = Drop(c.event)
  <2> DEFINE h == Do(g, Drop(c.event))
  <2>1. h \in Orders /\ h.races = g.races /\ \A b : Carried(g, h, b, Events \ {c.event})
    BY <1>4, DropOrders
  <2>2. h = Do(g, c)
    BY <1>4
  <2> HIDE DEF h
  <2>3. ASSUME NEW b \in Buffers, NEW E \in SUBSET Events, Spares(c, b, E)
        PROVE  Carried(g, h, b, E)
    BY <1>4, <2>1, <2>3 DEF Spares, Carried
  <2> QED
    BY <2>1, <2>2, <2>3
<1> QED
  BY <1>1, <1>2, <1>3, <1>4, CommandForms

-----------------------------------------------------------------------------
(* Lists of commands. *)

DoAll(g, cs) == FoldLeft(Do, g, cs)

RunsAlong(h, g, cs) ==
    /\ h \in [0 .. Len(cs) -> Orders]
    /\ h[0] = g
    /\ \A k \in 1 .. Len(cs) : h[k] = Do(h[k - 1], cs[k])

\* A list of commands is done one after the other.
LEMMA RunAlong ==
    ASSUME NEW g \in Orders, NEW cs \in Seq(Commands)
    PROVE  \E h : RunsAlong(h, g, cs) /\ DoAll(g, cs) = h[Len(cs)]
<1> DEFINE n == Len(cs)
           Rec(f) == f = [t \in SUBSET (1 .. n) |->
                            IF t = {} THEN g ELSE Do(f[t \ {Max(t)}], cs[Max(t)])]
<1>1. n \in Nat /\ DOMAIN cs = 1 .. n /\ \A k \in 1 .. n : cs[k] \in Commands
  OBVIOUS
<1>2. PICK G : G = [e \in Orders \X (1 .. n) |-> Do(e[1], cs[e[2]])]
  OBVIOUS
<1>a. \A x \in Orders, k \in 1 .. n : Do(x, cs[k]) \in Orders
  BY <1>1, CommandOrders
<1>3. G \in [Orders \X (1 .. n) -> Orders]
  <2>1. \A e \in Orders \X (1 .. n) : e[1] \in Orders /\ e[2] \in 1 .. n
    OBVIOUS
  <2>2. \A e \in Orders \X (1 .. n) : Do(e[1], cs[e[2]]) \in Orders
    BY <1>a, <2>1
  <2> QED
    BY <1>2, <2>2, Zenon
<1>4. \A x \in Orders, k \in 1 .. n : G[<<x, k>>] = Do(x, cs[k])
  BY <1>2, Zenon
<1>5. PICK c : FoldRecursion(c, Orders, g, n, G)
  <2> HIDE DEF n, Rec
  <2> QED
    BY <1>1, <1>3, SubsetRecursion
<1>6. ASSUME NEW t \in SUBSET (1 .. n), t # {} PROVE Max(t) \in 1 .. n
  <2>1. t \in SUBSET (0 .. n)
    OBVIOUS
  <2> QED
    BY <1>1, <1>6, <2>1, GreatestMember
<1> HIDE DEF n
<1>7. ASSUME NEW t \in SUBSET (1 .. n), t # {}
      PROVE  c[t] = Do(c[t \ {Max(t)}], cs[Max(t)])
  <2>1. c[t \ {Max(t)}] \in Orders
    BY <1>5, <1>7 DEF FoldRecursion
  <2> QED
    BY <1>4, <1>5, <1>6, <1>7, <2>1 DEF FoldRecursion
<1>8. Rec(c)
  <2>1. c = [t \in SUBSET (1 .. n) |-> c[t]] /\ c[{}] = g
    BY <1>5 DEF FoldRecursion
  <2> QED
    BY <1>7, <2>1, Zenon
<1>9. PICK f : f = (CHOOSE u : Rec(u)) /\ Rec(f)
  <2>1. \E u : Rec(u)
    BY <1>8
  <2> HIDE DEF Rec
  <2> QED
    BY <2>1, Zenon
<1>10. DoAll(g, cs) = f[1 .. n]
  <2>1. DoAll(g, cs) = (CHOOSE u : Rec(u))[1 .. n]
    BY <1>1 DEF DoAll, FoldLeft, MapThenFoldSet
  <2> HIDE DEF Rec
  <2> QED
    BY <1>9, <2>1, Zenon
<1>11. FoldStep(f, Orders, g, n, G)
  <2>0. f = [t \in SUBSET (1 .. n) |-> IF t = {} THEN g ELSE Do(f[t \ {Max(t)}], cs[Max(t)])]
    BY <1>9
  <2>1. f[{}] = g
    <3>1. {} \in SUBSET (1 .. n)
      OBVIOUS
    <3> QED
      BY <2>0, <3>1, Zenon
  <2>2. ASSUME NEW t \in SUBSET (1 .. n), t # {}, f[t \ {Max(t)}] \in Orders
        PROVE  f[t] = G[<<f[t \ {Max(t)}], Max(t)>>]
    <3>1. f[t] = Do(f[t \ {Max(t)}], cs[Max(t)])
      BY <2>0, <2>2, Zenon
    <3> HIDE DEF Rec
    <3> QED
      BY <1>4, <1>6, <2>2, <3>1
  <2> HIDE DEF Rec
  <2> QED
    BY <2>1, <2>2 DEF FoldStep
<1>12. PICK h : Recursion(h, Orders, g, n, G) /\ h[n] = f[1 .. n]
  <2>1. EndsIn(f[1 .. n], Orders, g, n, G)
    <3> HIDE DEF Rec
    <3> QED
      BY <1>1, <1>3, <1>11, FoldIdentified
  <2> HIDE DEF Rec
  <2> QED
    BY <2>1 DEF EndsIn
<1>13. \A k \in 1 .. n : h[k - 1] \in Orders
  BY <1>1, <1>12 DEF Recursion
<1>14. RunsAlong(h, g, cs)
  BY <1>4, <1>12, <1>13 DEF Recursion, RunsAlong, n
<1> QED
  BY <1>10, <1>12, <1>14 DEF n

\* Only one run there is.
LEMMA RunUnique ==
    ASSUME NEW g \in Orders, NEW cs \in Seq(Commands), NEW h, RunsAlong(h, g, cs)
    PROVE  DoAll(g, cs) = h[Len(cs)]
<1>1. PICK u : RunsAlong(u, g, cs) /\ DoAll(g, cs) = u[Len(cs)]
  BY RunAlong
<1>2. PICK n \in Nat : n = Len(cs)
  OBVIOUS
<1> DEFINE D == {k \in 0 .. n : h[k] # u[k]}
<1>3. SUFFICES ASSUME D # {} PROVE FALSE
  BY <1>1, <1>2
<1>4. PICK m \in D : m \in 0 .. n /\ \A k \in 0 .. n : k < m => k \notin D
  <2>1. D \in SUBSET (0 .. n)
    OBVIOUS
  <2> HIDE DEF D
  <2> QED
    BY <1>3, <2>1, LeastUpTo
<1>5. m # 0 /\ h[m] # u[m]
  BY <1>1, <1>4 DEF RunsAlong
<1>6. m \in 1 .. n /\ m - 1 \in 0 .. n /\ m - 1 < m
  BY <1>4, <1>5
<1>7. h[m - 1] = u[m - 1]
  BY <1>4, <1>6
<1> QED
  BY <1>1, <1>2, <1>5, <1>6, <1>7 DEF RunsAlong

LEMMA RunConcat ==
    ASSUME NEW g \in Orders, NEW cs \in Seq(Commands), NEW ds \in Seq(Commands)
    PROVE  /\ DoAll(g, cs) \in Orders
           /\ DoAll(g, cs \o ds) = DoAll(DoAll(g, cs), ds)
<1>1. PICK u : RunsAlong(u, g, cs) /\ DoAll(g, cs) = u[Len(cs)]
  BY RunAlong
<1>2. PICK n \in Nat, m \in Nat : n = Len(cs) /\ m = Len(ds)
  OBVIOUS
<1>3. DoAll(g, cs) \in Orders
  BY <1>1, <1>2 DEF RunsAlong
<1>4. PICK v : RunsAlong(v, DoAll(g, cs), ds) /\ DoAll(DoAll(g, cs), ds) = v[Len(ds)]
  BY <1>3, RunAlong
<1> DEFINE h == [k \in 0 .. n + m |-> IF k <= n THEN u[k] ELSE v[k - n]]
           es == cs \o ds
<1>5. /\ es \in Seq(Commands) /\ Len(es) = n + m
      /\ \A i \in 1 .. n : es[i] = cs[i]
      /\ \A i \in 1 .. m : es[n + i] = ds[i]
  BY <1>2
<1> HIDE DEF es
<1>6. ASSUME NEW k \in 0 .. n + m PROVE h[k] \in Orders
  <2>1. CASE k <= n
    <3>1. k \in 0 .. n
      BY <2>1
    <3> QED
      BY <1>1, <1>2, <2>1, <3>1 DEF RunsAlong
  <2>2. CASE ~(k <= n)
    <3>1. k - n \in 0 .. m
      BY <2>2
    <3> QED
      BY <1>2, <1>4, <2>2, <3>1 DEF RunsAlong
  <2> QED
    BY <2>1, <2>2
<1>7. ASSUME NEW k \in 1 .. n + m PROVE h[k] = Do(h[k - 1], es[k])
  <2>1. CASE k <= n
    <3>1. k \in 1 .. n /\ k - 1 <= n /\ k \in 0 .. n + m /\ k - 1 \in 0 .. n + m
      BY <2>1
    <3> QED
      BY <1>1, <1>2, <1>5, <2>1, <3>1 DEF RunsAlong
  <2>2. CASE ~(k <= n)
    <3>1. PICK i \in 1 .. m : i = k - n
      BY <2>2
    <3>2. k = n + i /\ k \in 0 .. n + m /\ k - 1 \in 0 .. n + m /\ i - 1 \in 0 .. m
      BY <3>1
    <3>3. h[k] = v[i]
      BY <2>2, <3>1, <3>2
    <3>4. h[k - 1] = v[i - 1]
      <4>1. CASE i = 1
        <5>1. k - 1 = n /\ k - 1 <= n
          BY <3>2, <4>1
        <5>2. v[0] = u[n]
          BY <1>1, <1>2, <1>4 DEF RunsAlong
        <5> QED
          BY <3>2, <4>1, <5>1, <5>2
      <4>2. CASE i # 1
        <5>1. ~(k - 1 <= n) /\ (k - 1) - n = i - 1
          BY <3>2, <4>2
        <5> QED
          BY <3>2, <5>1
      <4> QED
        BY <4>1, <4>2
    <3>5. v[i] = Do(v[i - 1], ds[i]) /\ es[k] = ds[i]
      BY <1>2, <1>4, <1>5, <3>2 DEF RunsAlong
    <3> QED
      BY <3>3, <3>4, <3>5
  <2> QED
    BY <2>1, <2>2
<1>8. h[0] = g
  <2>1. 0 \in 0 .. n + m /\ 0 <= n
    OBVIOUS
  <2> QED
    BY <1>1, <2>1 DEF RunsAlong
<1>9. h[n + m] = v[m]
  <2>1. n + m \in 0 .. n + m /\ (n + m) - n = m
    OBVIOUS
  <2>2. CASE m = 0
    <3>1. v[0] = u[n] /\ n + m = n /\ n <= n
      BY <1>1, <1>2, <1>4, <2>2 DEF RunsAlong
    <3> QED
      BY <2>1, <2>2, <3>1
  <2>3. CASE m # 0
    <3>1. ~(n + m <= n)
      BY <2>3
    <3> QED
      BY <2>1, <3>1
  <2> QED
    BY <2>2, <2>3
<1>10. h \in [0 .. n + m -> Orders]
  BY <1>6
<1> HIDE DEF h
<1>11. RunsAlong(h, g, es)
  BY <1>5, <1>7, <1>8, <1>10 DEF RunsAlong
<1>12. DoAll(g, es) = h[n + m]
  BY <1>5, <1>11, RunUnique
<1> QED
  BY <1>2, <1>3, <1>4, <1>9, <1>12 DEF es

LEMMA RunShort ==
    ASSUME NEW g \in Orders
    PROVE  /\ DoAll(g, <<>>) = g
           /\ \A c \in Commands : DoAll(g, <<c>>) = Do(g, c)
<1>1. <<>> \in Seq(Commands) /\ Len(<<>>) = 0
  OBVIOUS
<1>2. PICK h : RunsAlong(h, g, <<>>) /\ DoAll(g, <<>>) = h[Len(<<>>)]
  BY <1>1, RunAlong
<1>3. ASSUME NEW c \in Commands PROVE DoAll(g, <<c>>) = Do(g, c)
  <2>1. <<c>> \in Seq(Commands) /\ Len(<<c>>) = 1 /\ <<c>>[1] = c
    OBVIOUS
  <2>2. PICK u : RunsAlong(u, g, <<c>>) /\ DoAll(g, <<c>>) = u[Len(<<c>>)]
    BY <2>1, RunAlong
  <2>3. 1 \in 1 .. 1 /\ 1 - 1 = 0
    OBVIOUS
  <2> QED
    BY <2>1, <2>2, <2>3 DEF RunsAlong
<1> QED
  BY <1>1, <1>2, <1>3 DEF RunsAlong

\* What every command keeps, a list of them keeps.
LEMMA RunStays ==
    ASSUME NEW cs \in Seq(Commands), NEW S \in SUBSET Orders, NEW g \in S,
           \A x \in S, i \in 1 .. Len(cs) : Do(x, cs[i]) \in S
    PROVE  DoAll(g, cs) \in S
<1>1. PICK h : RunsAlong(h, g, cs) /\ DoAll(g, cs) = h[Len(cs)]
  BY RunAlong
<1>2. PICK n \in Nat : n = Len(cs)
  OBVIOUS
<1> DEFINE D == {k \in 0 .. n : h[k] \notin S}
<1>3. SUFFICES ASSUME D # {} PROVE FALSE
  BY <1>1, <1>2
<1>4. PICK m \in D : m \in 0 .. n /\ \A k \in 0 .. n : k < m => k \notin D
  <2>1. D \in SUBSET (0 .. n)
    OBVIOUS
  <2> HIDE DEF D
  <2> QED
    BY <1>3, <2>1, LeastUpTo
<1>5. m # 0 /\ h[m] \notin S
  BY <1>1, <1>4 DEF RunsAlong
<1>6. m \in 1 .. n /\ m - 1 \in 0 .. n /\ m - 1 < m
  BY <1>4, <1>5
<1>7. h[m - 1] \in S
  BY <1>4, <1>6
<1> QED
  BY <1>1, <1>2, <1>5, <1>6, <1>7 DEF RunsAlong

\* A list of commands that spare a buffer.
LEMMA RunSpares ==
    ASSUME NEW g \in Orders, NEW cs \in Seq(Commands), NEW b \in Buffers, NEW E \in SUBSET Events,
           \A c \in ToSet(cs) : Spares(c, b, E)
    PROVE  Carried(g, DoAll(g, cs), b, E)
<1> DEFINE S == {x \in Orders : Carried(g, x, b, E)}
<1>1. Carried(g, g, b, E)
  BY DEF Carried
<1>2. ASSUME NEW x \in S, NEW i \in 1 .. Len(cs) PROVE Do(x, cs[i]) \in S
  <2>1. cs[i] \in Commands /\ Spares(cs[i], b, E)
    BY Members
  <2>2. Do(x, cs[i]) \in Orders /\ Carried(x, Do(x, cs[i]), b, E)
    BY <2>1, CommandOrders
  <2>3. Carried(g, Do(x, cs[i]), b, E)
    BY <2>2 DEF Carried
  <2> QED
    BY <2>2, <2>3
<1>3. S \in SUBSET Orders /\ g \in S
  BY <1>1
<1>4. DoAll(g, cs) \in S
  <2> HIDE DEF S
  <2> QED
    BY <1>2, <1>3, RunStays
<1> QED
  BY <1>4

\* A list of commands that access no buffer of a kind.
LEMMA RunRaces ==
    ASSUME NEW g \in Orders, NEW cs \in Seq(Commands), NEW k \in Kinds, k \notin g.races,
           \A c \in ToSet(cs) : c.do = "op" => \A b \in c.reads \cup c.writes : b[1] # k
    PROVE  k \notin DoAll(g, cs).races
<1> DEFINE S == {x \in Orders : k \notin x.races}
<1>1. ASSUME NEW x \in S, NEW i \in 1 .. Len(cs) PROVE Do(x, cs[i]) \in S
  <2>1. cs[i] \in Commands /\ cs[i] \in ToSet(cs)
    BY Members
  <2>2. Do(x, cs[i]) \in Orders /\ k \notin Do(x, cs[i]).races
    BY <2>1, CommandOrders
  <2> QED
    BY <2>2
<1>2. S \in SUBSET Orders /\ g \in S
  OBVIOUS
<1>3. DoAll(g, cs) \in S
  <2> HIDE DEF S
  <2> QED
    BY <1>1, <1>2, RunStays
<1> QED
  BY <1>3

\* A buffer that only s accesses.
LEMMA RunOwned ==
    ASSUME NEW g \in Orders, NEW cs \in Seq(Commands), NEW k \in Kinds, NEW s \in Actors,
           NEW B \in SUBSET Buffers, k \notin g.races, \A b \in B : Covered(g, b, s),
           \A c \in ToSet(cs) : c.do = "op" =>
              /\ \A b \in c.reads \cup c.writes : b[1] = k => b \in B
              /\ (c.reads \cup c.writes) \cap B # {} => c.on = s
    PROVE  /\ k \notin DoAll(g, cs).races
           /\ \A b \in B : Covered(DoAll(g, cs), b, s)
<1> DEFINE S == {x \in Orders : k \notin x.races /\ \A b \in B : Covered(x, b, s)}
<1>1. ASSUME NEW x \in S, NEW i \in 1 .. Len(cs) PROVE Do(x, cs[i]) \in S
  <2> DEFINE c == cs[i]
             y == Do(x, c)
  <2>1. c \in Commands /\ c \in ToSet(cs)
    BY Members
  <2> HIDE DEF c, y
  <2>2. CASE c.do = "op" /\ c.on \in Actors /\ c.reads \in SUBSET Buffers
               /\ c.writes \in SUBSET Buffers /\ c = Op(c.on, c.reads, c.writes)
    <3>1. /\ y \in Orders
          /\ \A b \in Buffers \ (c.reads \cup c.writes) : Carried(x, y, b, Events)
          /\ \A b \in c.reads \cup c.writes : Covered(x, b, c.on) => Covered(y, b, c.on)
          /\ k \notin x.races /\ (\A b \in c.reads \cup c.writes : b[1] = k => Covered(x, b, c.on))
                => k \notin y.races
      BY <2>2, OpOrders DEF y
    <3>2. \A b \in c.reads \cup c.writes : b[1] = k => b \in B /\ c.on = s
      BY <2>1, <2>2
    <3>3. k \notin y.races
      BY <3>1, <3>2
    <3>4. ASSUME NEW b \in B PROVE Covered(y, b, s)
      <4>1. CASE b \in c.reads \cup c.writes
        <5>1. c.on = s
          BY <2>1, <2>2, <4>1
        <5> QED
          BY <3>1, <4>1, <5>1
      <4>2. CASE b \notin c.reads \cup c.writes
        BY <3>1, <4>2 DEF Carried
      <4> QED
        BY <4>1, <4>2
    <3> QED
      BY <3>1, <3>3, <3>4 DEF y, c
  <2>3. CASE c.do # "op"
    <3>1. /\ y \in Orders
          /\ \A b \in Buffers, E \in SUBSET Events : Spares(c, b, E) => Carried(x, y, b, E)
          /\ k \notin x.races => k \notin y.races
      BY <2>1, <2>3, CommandOrders DEF y
    <3>2. \A b \in Buffers : Spares(c, b, {})
      BY <2>3 DEF Spares
    <3>3. ASSUME NEW b \in B PROVE Covered(y, b, s)
      <4>1. Carried(x, y, b, {})
        BY <3>1, <3>2
      <4> QED
        BY <4>1 DEF Carried
    <3> QED
      BY <3>1, <3>3 DEF y, c
  <2> QED
    BY <2>1, <2>2, <2>3, CommandForms
<1>2. S \in SUBSET Orders /\ g \in S
  OBVIOUS
<1>3. DoAll(g, cs) \in S
  <2> HIDE DEF S
  <2> QED
    BY <1>1, <1>2, RunStays
<1> QED
  BY <1>3

LEMMA RunAppend ==
    ASSUME NEW g \in Orders, NEW cs \in Seq(Commands), NEW c \in Commands
    PROVE  DoAll(g, Append(cs, c)) = Do(DoAll(g, cs), c)
<1>1. <<c>> \in Seq(Commands) /\ Append(cs, c) = cs \o <<c>>
  <2>1. <<c>> \in Seq(Commands)
    OBVIOUS
  <2>2. Append(cs, c) = cs \o <<c>>
    OBVIOUS
  <2> QED
    BY <2>1, <2>2
<1>2. PICK ds \in Seq(Commands) : ds = <<c>>
  BY <1>1
<1>3. DoAll(g, cs) \in Orders /\ DoAll(g, cs \o ds) = DoAll(DoAll(g, cs), ds)
  BY RunConcat
<1>4. DoAll(DoAll(g, cs), <<c>>) = Do(DoAll(g, cs), c)
  BY <1>3, RunShort
<1> QED
  BY <1>1, <1>2, <1>3, <1>4

LEMMA RunPair ==
    ASSUME NEW g \in Orders, NEW c \in Commands, NEW d \in Commands
    PROVE  <<c, d>> \in Seq(Commands) /\ DoAll(g, <<c, d>>) = Do(Do(g, c), d)
<1>1. <<c, d>> \in Seq(Commands) /\ <<c, d>> = Append(<<c>>, d)
  BY PairParts
<1>2. PICK cs \in Seq(Commands) : cs = <<c>> /\ DoAll(g, cs) = Do(g, c)
  BY RunShort, PairParts
<1>3. DoAll(g, Append(cs, d)) = Do(DoAll(g, cs), d)
  BY RunAppend
<1> QED
  BY <1>1, <1>2, <1>3

LEMMA RunTriple ==
    ASSUME NEW g \in Orders, NEW a \in Commands, NEW b \in Commands, NEW c \in Commands
    PROVE  /\ <<a, b, c>> \in Seq(Commands)
           /\ DoAll(g, <<a, b, c>>) = Do(Do(Do(g, a), b), c)
<1>1. <<a, b, c>> \in Seq(Commands) /\ <<a, b, c>> = Append(<<a, b>>, c)
  BY TripleParts
<1>2. PICK cs \in Seq(Commands) : cs = <<a, b>> /\ DoAll(g, cs) = Do(Do(g, a), b)
  BY RunPair
<1>3. DoAll(g, Append(cs, c)) = Do(DoAll(g, cs), c)
  BY RunAppend
<1> QED
  BY <1>1, <1>2, <1>3

LEMMA RunFour ==
    ASSUME NEW g \in Orders, NEW a \in Commands, NEW b \in Commands, NEW c \in Commands, NEW d \in Commands
    PROVE  /\ <<a, b, c, d>> \in Seq(Commands)
           /\ DoAll(g, <<a, b, c, d>>) = Do(Do(Do(Do(g, a), b), c), d)
<1>1. <<a, b, c, d>> \in Seq(Commands) /\ <<a, b, c, d>> = Append(<<a, b, c>>, d)
  BY FourParts
<1>2. PICK cs \in Seq(Commands) : cs = <<a, b, c>> /\ DoAll(g, cs) = Do(Do(Do(g, a), b), c)
  BY RunTriple
<1>3. DoAll(g, Append(cs, d)) = Do(DoAll(g, cs), d)
  BY RunAppend
<1> QED
  BY <1>1, <1>2, <1>3, Zenon

LEMMA RunFive ==
    ASSUME NEW g \in Orders, NEW a \in Commands, NEW b \in Commands, NEW c \in Commands,
           NEW d \in Commands, NEW e \in Commands
    PROVE  /\ <<a, b, c, d, e>> \in Seq(Commands)
           /\ DoAll(g, <<a, b, c, d, e>>) = Do(Do(Do(Do(Do(g, a), b), c), d), e)
<1>1. <<a, b, c, d, e>> \in Seq(Commands) /\ <<a, b, c, d, e>> = Append(<<a, b, c, d>>, e)
  BY FiveParts
<1>0. /\ <<a, b, c, d>> \in Seq(Commands)
      /\ DoAll(g, <<a, b, c, d>>) = Do(Do(Do(Do(g, a), b), c), d)
  BY RunFour
<1>2. PICK cs \in Seq(Commands) : cs = <<a, b, c, d>>
  BY <1>0, Zenon
<1>3. DoAll(g, Append(cs, e)) = Do(DoAll(g, cs), e)
  BY RunAppend
<1>4. DoAll(g, <<a, b, c, d, e>>) = Do(DoAll(g, <<a, b, c, d>>), e)
  BY <1>1, <1>2, <1>3, Zenon
<1> QED
  BY <1>0, <1>1, <1>4, Zenon

LEMMA EventTypes ==
    /\ \A p \in 0 .. Serial : Expand(p) \in Events /\ Remap(p) \in Events /\ Replay(p) \in Events
    /\ \A r \in Reqs : PrefillEvent(r) \in Events
    /\ LastPrefill \in Events /\ ExpandNow \in Events /\ CopyDone \in Events /\ Synced \in Events
    /\ \A n \in Names, k \in 0 .. 1 : PinReady(n, k) \in Events
BY DEF Events, Expand, Remap, Replay, PrefillEvent, LastPrefill, ExpandNow, CopyDone, Synced, PinReady

\* One stream waits for some events.
LEMMA WaitAllOrders ==
    ASSUME NEW g \in Orders, NEW s \in Actors, NEW es \in Seq(Events)
    PROVE  LET h == DoAll(g, WaitAll(s, es)) IN
           /\ WaitAll(s, es) \in Seq(Commands)
           /\ h \in Orders
           /\ \A k \in Kinds : k \notin g.races => k \notin h.races
           /\ \A b \in Buffers : Carried(g, h, b, Events)
           /\ \A b \in Buffers, e \in ToSet(es) : Keeps(g, b, e) => Covered(h, b, s)
<1> DEFINE cs == WaitAll(s, es)
<1>1. PICK n \in Nat : n = Len(es) /\ DOMAIN es = 1 .. n /\ \A i \in 1 .. n : es[i] \in Events
  OBVIOUS
<1>2. cs = [i \in 1 .. n |-> Wait(s, es[i])]
  BY <1>1 DEF WaitAll
<1>3. \A i \in 1 .. n : Wait(s, es[i]) \in Commands
  BY <1>1, CommandTypes
<1>4. cs \in Seq(Commands) /\ Len(cs) = n /\ \A i \in 1 .. n : cs[i] = Wait(s, es[i])
  BY <1>2, <1>3
<1> HIDE DEF cs
<1>5. \A c \in ToSet(cs) : c.do = "wait"
  <2>1. ToSet(cs) = {cs[i] : i \in 1 .. n}
    BY <1>4, Members
  <2> QED
    BY <1>4, <2>1 DEF Wait
<1>6. DoAll(g, cs) \in Orders
  BY <1>4, RunConcat
<1>7. \A k \in Kinds : k \notin g.races => k \notin DoAll(g, cs).races
  BY <1>4, <1>5, RunRaces
<1>8. ASSUME NEW b \in Buffers PROVE Carried(g, DoAll(g, cs), b, Events)
  <2>1. \A c \in ToSet(cs) : Spares(c, b, Events)
    BY <1>5 DEF Spares
  <2> QED
    BY <1>4, <2>1, RunSpares
<1>9. ASSUME NEW b \in Buffers, NEW e \in ToSet(es), Keeps(g, b, e)
      PROVE  Covered(DoAll(g, cs), b, s)
  <2>1. PICK h : RunsAlong(h, g, cs) /\ DoAll(g, cs) = h[Len(cs)]
    BY <1>4, RunAlong
  <2>2. PICK i \in 1 .. n : e = es[i]
    BY <1>1, Members
  <2> DEFINE Good(k) == Keeps(h[k], b, e) /\ (k >= i => Covered(h[k], b, s))
             D == {k \in 0 .. n : ~Good(k)}
  <2>3. SUFFICES ASSUME D # {} PROVE FALSE
    BY <1>1, <1>4, <2>1, <2>2
  <2>4. PICK m \in D : m \in 0 .. n /\ \A k \in 0 .. n : k < m => k \notin D
    <3>1. D \in SUBSET (0 .. n)
      OBVIOUS
    <3> HIDE DEF D
    <3> QED
      BY <2>3, <3>1, LeastUpTo
  <2>5. ~Good(m)
    BY <2>4
  <2>6. Good(0)
    BY <1>9, <2>1, <2>2 DEF RunsAlong
  <2>7. m \in 1 .. n /\ m - 1 \in 0 .. n /\ m - 1 < m
    BY <2>4, <2>5, <2>6
  <2>8. Good(m - 1)
    BY <2>4, <2>7
  <2>9. h[m - 1] \in Orders /\ h[m] = Do(h[m - 1], Wait(s, es[m])) /\ es[m] \in Events
    BY <1>1, <1>4, <2>1, <2>7 DEF RunsAlong
  <2>10. /\ Carried(h[m - 1], h[m], b, Events)
         /\ Keeps(h[m - 1], b, es[m]) => Covered(h[m], b, s)
    BY <2>9, WaitOrders
  <2>11. e \in Events
    BY <1>1, <2>2
  <2>12. Keeps(h[m], b, e)
    BY <2>8, <2>10, <2>11 DEF Carried
  <2>13. ASSUME m >= i PROVE Covered(h[m], b, s)
    <3>1. CASE m = i
      BY <2>2, <2>8, <2>10, <3>1
    <3>2. CASE m # i
      <4>1. m - 1 >= i
        BY <2>7, <2>13, <3>2
      <4> QED
        BY <2>8, <2>10, <4>1 DEF Carried
    <3> QED
      BY <3>1, <3>2
  <2> QED
    BY <2>5, <2>12, <2>13
<1> QED
  BY <1>4, <1>6, <1>7, <1>8, <1>9 DEF cs

LEMMA DropAllOrders ==
    ASSUME NEW g \in Orders, NEW es \in Seq(Events)
    PROVE  LET h == DoAll(g, DropAll(es)) IN
           /\ DropAll(es) \in Seq(Commands)
           /\ h \in Orders
           /\ \A k \in Kinds : k \notin g.races => k \notin h.races
           /\ \A b \in Buffers : Carried(g, h, b, Events \ ToSet(es))
<1> DEFINE cs == DropAll(es)
<1>1. PICK n \in Nat : n = Len(es) /\ DOMAIN es = 1 .. n /\ \A i \in 1 .. n : es[i] \in Events
  OBVIOUS
<1>2. cs = [i \in 1 .. n |-> Drop(es[i])]
  BY <1>1 DEF DropAll
<1>3. \A i \in 1 .. n : Drop(es[i]) \in Commands
  BY <1>1, CommandTypes
<1>4. cs \in Seq(Commands) /\ Len(cs) = n /\ \A i \in 1 .. n : cs[i] = Drop(es[i])
  BY <1>2, <1>3
<1> HIDE DEF cs
<1>5. \A c \in ToSet(cs) : c.do = "drop" /\ c.event \in ToSet(es)
  <2>1. ToSet(cs) = {cs[i] : i \in 1 .. n} /\ ToSet(es) = {es[i] : i \in 1 .. n}
    BY <1>1, <1>4, Members
  <2> QED
    BY <1>4, <2>1 DEF Drop
<1>6. DoAll(g, cs) \in Orders
  BY <1>4, RunConcat
<1>7. \A k \in Kinds : k \notin g.races => k \notin DoAll(g, cs).races
  BY <1>4, <1>5, RunRaces
<1>8. ASSUME NEW b \in Buffers PROVE Carried(g, DoAll(g, cs), b, Events \ ToSet(es))
  <2>1. \A c \in ToSet(cs) : Spares(c, b, Events \ ToSet(es))
    BY <1>5 DEF Spares
  <2> QED
    BY <1>4, <2>1, RunSpares
<1> QED
  BY <1>4, <1>6, <1>7, <1>8 DEF cs

\* The events of a pipe, and of all of them.
LEMMA StoredEvents ==
    ASSUME NEW p \in 0 .. Serial
    PROVE  Stored(p) \in Seq(Events) /\ ToSet(Stored(p)) = {Expand(p), Remap(p)}
<1>1. Expand(p) \in Events /\ Remap(p) \in Events
  BY EventTypes
<1>2. /\ Stored(p) \in Seq(Events) /\ Len(Stored(p)) = 2
      /\ Stored(p)[1] = Expand(p) /\ Stored(p)[2] = Remap(p)
  BY <1>1 DEF Stored
<1>3. ToSet(Stored(p)) = {Stored(p)[i] : i \in 1 .. 2}
  BY <1>2, Members
<1>4. 1 .. 2 = {1, 2}
  OBVIOUS
<1> QED
  BY <1>2, <1>3, <1>4

LEMMA AllStoredEvents ==
    /\ AllStored \in Seq(Events)
    /\ ToSet(AllStored) = {Expand(p) : p \in 0 .. Serial} \cup {Remap(p) : p \in 0 .. Serial}
<1> DEFINE ss == [p \in 1 .. NPipes + 1 |-> Stored(p - 1)]
<1>1. NPipes \in Nat /\ Serial = NPipes
  BY PipesAreNumbered DEF Serial
<1>2. \A p \in 1 .. NPipes + 1 : p - 1 \in 0 .. Serial /\ Stored(p - 1) \in Seq(Events)
  <2>1. \A p \in 1 .. NPipes + 1 : p - 1 \in 0 .. Serial
    BY <1>1
  <2> QED
    BY <2>1, StoredEvents
<1>3. ss \in Seq(Seq(Events)) /\ Len(ss) = NPipes + 1
  BY <1>1, <1>2
<1>4. \A p \in 1 .. NPipes + 1 : ToSet(ss[p]) = {Expand(p - 1), Remap(p - 1)}
  BY <1>2, StoredEvents
<1>5. AllStored = FlattenSeq(ss)
  BY DEF AllStored
<1> HIDE DEF ss
<1>6. /\ FlattenSeq(ss) \in Seq(Events)
      /\ ToSet(FlattenSeq(ss)) = UNION {ToSet(ss[i]) : i \in 1 .. Len(ss)}
  BY <1>3, FlattenMembers
<1>7. \A p \in 0 .. Serial : p + 1 \in 1 .. NPipes + 1 /\ (p + 1) - 1 = p
  BY <1>1
<1>8. ASSUME NEW e PROVE e \in ToSet(FlattenSeq(ss)) <=> \E p \in 0 .. Serial : e = Expand(p) \/ e = Remap(p)
  BY <1>2, <1>3, <1>4, <1>6, <1>7
<1> QED
  BY <1>5, <1>6, <1>8

\* A refill of a pin and the copy out of it.
LEMMA StageOrders ==
    ASSUME NEW g \in Orders, NEW s \in Streams, NEW n \in Names, epoch[n] \in 0 .. 1
    PROVE  LET h == DoAll(g, Stage(s, n))
               pin == <<"pin", n, epoch[n]>>
               stage == <<"stage", n>>
               e == PinReady(n, epoch[n])
           IN
           /\ Stage(s, n) \in Seq(Commands)
           /\ h \in Orders
           /\ pin \in Buffers /\ stage \in Buffers /\ e \in Events
           /\ \A b \in Buffers \ {pin, stage} :
                 /\ Carried(g, h, b, Events \ {e})
                 /\ Keeps(g, b, e) => Covered(h, b, "host")
                 /\ Covered(g, b, s) => Keeps(h, b, e)
           /\ Keeps(g, pin, e) => Keeps(h, pin, e)
           /\ Covered(g, stage, s) => Covered(h, stage, s)
           /\ \A k \in Kinds \ {"pin", "stage"} : k \notin g.races => k \notin h.races
           /\ "pin" \notin g.races /\ Keeps(g, pin, e) => "pin" \notin h.races
           /\ "stage" \notin g.races /\ Covered(g, stage, s) => "stage" \notin h.races
<1> DEFINE pin == <<"pin", n, epoch[n]>>
           stage == <<"stage", n>>
           e == PinReady(n, epoch[n])
           a == Wait("host", e)
           b == Op("host", {}, {pin})
           c == Op(s, {pin}, {stage})
           d == Record(s, e)
           g1 == Do(g, a)
           g2 == Do(g1, b)
           g3 == Do(g2, c)
           h == Do(g3, d)
<1>1. pin \in Buffers /\ stage \in Buffers /\ e \in Events /\ pin[1] = "pin" /\ stage[1] = "stage"
      /\ s \in Actors /\ "host" \in Actors /\ "pin" \in Kinds /\ "stage" \in Kinds
  BY EventTypes DEF Buffers, Actors, Kinds
<1>2. Stage(s, n) = <<a, b, c, d>>
  BY DEF Stage
<1> HIDE DEF pin, stage, e
<1>3. a \in Commands /\ b \in Commands /\ c \in Commands /\ d \in Commands
  BY <1>1, CommandTypes
<1>4. /\ g1 \in Orders /\ g1.races = g.races
      /\ \A x : Carried(g, g1, x, Events)
      /\ \A x : Keeps(g, x, e) => Covered(g1, x, "host")
  BY <1>1, WaitOrders
<1>5. /\ g2 \in Orders
      /\ \A x \in Buffers \ {pin} : Carried(g1, g2, x, Events)
      /\ Covered(g1, pin, "host") => Covered(g2, pin, "host")
      /\ \A k \in Kinds : k \notin g1.races /\ (k = "pin" => Covered(g1, pin, "host"))
                            => k \notin g2.races
  <2> HIDE DEF g1
  <2>1. {} \in SUBSET Buffers /\ {pin} \in SUBSET Buffers /\ {} \cup {pin} = {pin}
    BY <1>1
  <2>2. /\ g2 \in Orders
        /\ \A x \in Buffers \ ({} \cup {pin}) : Carried(g1, g2, x, Events)
        /\ \A x \in {} \cup {pin} : Covered(g1, x, "host") => Covered(g2, x, "host")
        /\ \A k \in Kinds : k \notin g1.races
             /\ (\A x \in {} \cup {pin} : x[1] = k => Covered(g1, x, "host"))
               => k \notin g2.races
    BY <1>1, <1>4, <2>1, OpOrders
  <2> QED
    BY <1>1, <2>1, <2>2
<1>6. /\ g3 \in Orders
      /\ \A x \in Buffers \ {pin, stage} : Carried(g2, g3, x, Events)
      /\ Covered(g2, pin, s) => Covered(g3, pin, s)
      /\ Covered(g2, stage, s) => Covered(g3, stage, s)
      /\ \A k \in Kinds : k \notin g2.races /\ (k = "pin" => Covered(g2, pin, s))
                                            /\ (k = "stage" => Covered(g2, stage, s))
                            => k \notin g3.races
  <2> HIDE DEF g2
  <2>1. {stage} \in SUBSET Buffers /\ {pin} \in SUBSET Buffers /\ {pin} \cup {stage} = {pin, stage}
    BY <1>1
  <2>2. /\ g3 \in Orders
        /\ \A x \in Buffers \ ({pin} \cup {stage}) : Carried(g2, g3, x, Events)
        /\ \A x \in {pin} \cup {stage} : Covered(g2, x, s) => Covered(g3, x, s)
        /\ \A k \in Kinds : k \notin g2.races
             /\ (\A x \in {pin} \cup {stage} : x[1] = k => Covered(g2, x, s))
               => k \notin g3.races
    BY <1>1, <1>5, <2>1, OpOrders
  <2> QED
    BY <1>1, <2>1, <2>2
<1>7. /\ h \in Orders /\ h.races = g3.races
      /\ \A x : Carried(g3, h, x, Events \ {e})
      /\ \A x : Covered(g3, x, s) => Keeps(h, x, e)
  <2> HIDE DEF g3
  <2> QED
    BY <1>1, <1>6, RecordOrders
<1>8. DoAll(g, Stage(s, n)) = h /\ Stage(s, n) \in Seq(Commands)
  BY <1>2, <1>3, RunFour
<1> HIDE DEF g1, g2, g3, h
<1>9. ASSUME NEW x \in Buffers \ {pin, stage}
      PROVE  /\ Carried(g, h, x, Events \ {e})
             /\ Keeps(g, x, e) => Covered(h, x, "host")
             /\ Covered(g, x, s) => Keeps(h, x, e)
  <2>1. Carried(g, g1, x, Events) /\ Carried(g1, g2, x, Events) /\ Carried(g2, g3, x, Events)
        /\ Carried(g3, h, x, Events \ {e})
    BY <1>4, <1>5, <1>6, <1>7
  <2>2. Carried(g, h, x, Events \ {e})
    BY <2>1 DEF Carried
  <2>3. Keeps(g, x, e) => Covered(h, x, "host")
    BY <1>1, <1>4, <2>1 DEF Carried
  <2>4. Covered(g, x, s) => Covered(g3, x, s)
    BY <1>1, <2>1 DEF Carried
  <2> QED
    BY <1>7, <2>2, <2>3, <2>4
<1>10. ASSUME Keeps(g, pin, e)
       PROVE  /\ Covered(g1, pin, "host") /\ Covered(g2, pin, "host") /\ Covered(g2, pin, s)
              /\ Keeps(h, pin, e)
  <2>1. Covered(g1, pin, "host") /\ Covered(g2, pin, "host")
    BY <1>4, <1>5, <1>10
  <2>2. Covered(g2, pin, s)
    BY <1>1, <2>1, CoveredByHost
  <2> QED
    BY <1>6, <1>7, <2>1, <2>2
<1>11. pin # stage
  BY <1>1
<1>12. ASSUME Covered(g, stage, s) PROVE Covered(g2, stage, s) /\ Covered(h, stage, s)
  <2>1. Carried(g, g1, stage, Events) /\ Carried(g1, g2, stage, Events)
    BY <1>1, <1>4, <1>5, <1>11
  <2>2. Covered(g2, stage, s)
    BY <1>1, <1>12, <2>1 DEF Carried
  <2>3. Covered(g3, stage, s) /\ Carried(g3, h, stage, Events \ {e})
    BY <1>6, <1>7, <2>2
  <2> QED
    BY <1>1, <2>2, <2>3 DEF Carried
<1>13. \A k \in Kinds \ {"pin", "stage"} : k \notin g.races => k \notin h.races
  BY <1>4, <1>5, <1>6, <1>7
<1>14. "pin" \notin g.races /\ Keeps(g, pin, e) => "pin" \notin h.races
  BY <1>1, <1>4, <1>5, <1>6, <1>7, <1>10
<1>15. "stage" \notin g.races /\ Covered(g, stage, s) => "stage" \notin h.races
  BY <1>1, <1>4, <1>5, <1>6, <1>7, <1>12
<1> QED
  BY <1>1, <1>7, <1>8, <1>9, <1>10, <1>12, <1>13, <1>14, <1>15 DEF pin, stage, e

\* A list of commands that spare the kinds K and the events E.
Spared(cs, K, E) ==
    \A c \in ToSet(cs) : /\ c.do = "op" => \A b \in c.reads \cup c.writes : b[1] \notin K
                         /\ c.do \in {"record", "drop"} => c.event \notin E

Passes(g, h, K, E) ==
    /\ \A k \in K : k \notin g.races => k \notin h.races
    /\ \A b \in Buffers : b[1] \in K => Carried(g, h, b, E)

LEMMA SparedPasses ==
    ASSUME NEW g \in Orders, NEW cs \in Seq(Commands), NEW K \in SUBSET Kinds,
           NEW E \in SUBSET Events, Spared(cs, K, E)
    PROVE  DoAll(g, cs) \in Orders /\ Passes(g, DoAll(g, cs), K, E)
<1>1. DoAll(g, cs) \in Orders
  BY RunConcat
<1>2. ASSUME NEW k \in K, k \notin g.races PROVE k \notin DoAll(g, cs).races
  <2>1. \A c \in ToSet(cs) : c.do = "op" => \A b \in c.reads \cup c.writes : b[1] # k
    BY DEF Spared
  <2> QED
    BY <1>2, <2>1, RunRaces
<1>3. ASSUME NEW b \in Buffers, b[1] \in K PROVE Carried(g, DoAll(g, cs), b, E)
  <2>1. \A c \in ToSet(cs) : Spares(c, b, E)
    BY <1>3 DEF Spared, Spares
  <2> QED
    BY <2>1, RunSpares
<1> QED
  BY <1>1, <1>2, <1>3 DEF Passes

LEMMA PassesOn ==
    ASSUME NEW g, NEW h, NEW k, NEW K, NEW E, NEW F, Passes(g, h, K, E), Passes(h, k, K, F)
    PROVE  Passes(g, k, K, E \cap F)
BY DEF Passes, Carried

LEMMA PassesLess ==
    ASSUME NEW g, NEW h, NEW K, NEW E, NEW L \in SUBSET K, NEW F \in SUBSET E, Passes(g, h, K, E)
    PROVE  Passes(g, h, L, F)
BY DEF Passes, Carried

LEMMA RunThreeLists ==
    ASSUME NEW g \in Orders, NEW u \in Seq(Commands), NEW v \in Seq(Commands), NEW w \in Seq(Commands)
    PROVE  /\ u \o v \o w \in Seq(Commands)
           /\ DoAll(g, u \o v \o w) = DoAll(DoAll(DoAll(g, u), v), w)
<1>1. u \o v \in Seq(Commands) /\ u \o v \o w \in Seq(Commands)
  <2>1. u \o v \in Seq(Commands)
    BY ConcatMembers
  <2> QED
    BY <2>1, ConcatMembers
<1>2. DoAll(g, u \o v) = DoAll(DoAll(g, u), v)
  BY RunConcat
<1>3. DoAll(g, (u \o v) \o w) = DoAll(DoAll(g, u \o v), w)
  BY <1>1, RunConcat
<1> QED
  BY <1>1, <1>2, <1>3

LEMMA RunFiveLists ==
    ASSUME NEW g \in Orders, NEW u \in Seq(Commands), NEW v \in Seq(Commands), NEW w \in Seq(Commands),
           NEW x \in Seq(Commands), NEW y \in Seq(Commands)
    PROVE  /\ u \o v \o w \o x \o y \in Seq(Commands)
           /\ DoAll(g, u \o v \o w \o x \o y) =
                DoAll(DoAll(DoAll(DoAll(DoAll(g, u), v), w), x), y)
<1>1. u \o v \o w \in Seq(Commands) /\ DoAll(g, u \o v \o w) = DoAll(DoAll(DoAll(g, u), v), w)
  BY RunThreeLists
<1>2. \A z \in Seq(Commands) : /\ z \o x \o y \in Seq(Commands)
                                /\ DoAll(g, z \o x \o y) = DoAll(DoAll(DoAll(g, z), x), y)
  BY RunThreeLists
<1>3. /\ (u \o v \o w) \o x \o y \in Seq(Commands)
      /\ DoAll(g, (u \o v \o w) \o x \o y) = DoAll(DoAll(DoAll(g, u \o v \o w), x), y)
  BY <1>1, <1>2, Zenon
<1> QED
  BY <1>1, <1>3, Zenon

\* What an upload is made of.
LEMMA UploadCommands ==
    ASSUME NEW s \in Actors, NEW n \in Nat, at \in 0 .. Ring - 1
    PROVE  /\ Upload(s, n) \in Seq(Commands)
           /\ \A k \in 1 .. n : Slot(k) \in 0 .. Ring - 1
           /\ \A c \in ToSet(Upload(s, n)) : \E k \in 1 .. n :
                \/ c = Op("host", {}, {<<"ringpin", Slot(k)>>})
                \/ c = Op(s, {<<"ringpin", Slot(k)>>}, {<<"ring", Slot(k)>>})
<1> DEFINE a(k) == Op("host", {}, {<<"ringpin", Slot(k)>>})
           b(k) == Op(s, {<<"ringpin", Slot(k)>>}, {<<"ring", Slot(k)>>})
           ss == [k \in 1 .. n |-> <<a(k), b(k)>>]
<1>1. ASSUME NEW k \in 1 .. n PROVE Slot(k) \in 0 .. Ring - 1
  <2>1. PICK m \in Nat \ {0} : m = Ring
    BY StreamsAssumption
  <2>2. at + k \in Nat
    BY <2>1
  <2>3. \A i \in Nat : i % m \in 0 .. m - 1
    OBVIOUS
  <2> QED
    BY <2>1, <2>2, <2>3 DEF Slot
<1>2. ASSUME NEW k \in 1 .. n PROVE a(k) \in Commands /\ b(k) \in Commands
  <2>1. <<"ringpin", Slot(k)>> \in Buffers /\ <<"ring", Slot(k)>> \in Buffers /\ "host" \in Actors
    BY <1>1 DEF Buffers, Actors
  <2> QED
    BY <2>1, CommandTypes
<1> HIDE DEF a, b
<1>3. \A k \in 1 .. n : <<a(k), b(k)>> \in Seq(Commands) /\ ToSet(<<a(k), b(k)>>) = {a(k), b(k)}
  <2>1. TAKE k \in 1 .. n
  <2>2. PICK c \in Commands, d \in Commands : c = a(k) /\ d = b(k)
    BY <1>2
  <2>3. <<c, d>> \in Seq(Commands)
    OBVIOUS
  <2>4. ToSet(<<c, d>>) = {<<c, d>>[i] : i \in 1 .. 2}
    BY <2>3, Members
  <2>5. 1 .. 2 = {1, 2}
    OBVIOUS
  <2> QED
    BY <2>2, <2>3, <2>4, <2>5
<1>4. ss \in Seq(Seq(Commands)) /\ Len(ss) = n /\ \A k \in 1 .. n : ss[k] = <<a(k), b(k)>>
  <2>1. \A k \in 1 .. n : <<a(k), b(k)>> \in Seq(Commands)
    BY <1>3
  <2> HIDE DEF a, b
  <2> QED
    BY <2>1
<1>5. Upload(s, n) = FlattenSeq(ss)
  BY DEF Upload, a, b
<1> HIDE DEF ss
<1>6. /\ FlattenSeq(ss) \in Seq(Commands)
      /\ ToSet(FlattenSeq(ss)) = UNION {ToSet(ss[i]) : i \in 1 .. Len(ss)}
  BY <1>4, FlattenMembers
<1>7. ASSUME NEW c \in ToSet(FlattenSeq(ss)) PROVE \E k \in 1 .. n : c = a(k) \/ c = b(k)
  <2>1. PICK k \in 1 .. n : c \in ToSet(ss[k])
    BY <1>4, <1>6
  <2>2. c \in {a(k), b(k)}
    BY <1>3, <1>4, <2>1
  <2> QED
    BY <2>2
<1> QED
  BY <1>1, <1>5, <1>6, <1>7 DEF a, b

LEMMA UploadSpares ==
    ASSUME NEW s \in Actors, NEW n \in Nat, at \in 0 .. Ring - 1
    PROVE  Spared(Upload(s, n), Kinds \ {"ring", "ringpin"}, Events)
<1>1. SUFFICES ASSUME NEW c \in ToSet(Upload(s, n))
               PROVE  c.do = "op" /\ \A b \in c.reads \cup c.writes : b[1] \in {"ring", "ringpin"}
  BY DEF Spared
<1>2. PICK k \in 1 .. n : \/ c = Op("host", {}, {<<"ringpin", Slot(k)>>})
                          \/ c = Op(s, {<<"ringpin", Slot(k)>>}, {<<"ring", Slot(k)>>})
  BY UploadCommands
<1>3. \A b \in {<<"ringpin", Slot(k)>>} \cup {<<"ring", Slot(k)>>} : b[1] \in {"ring", "ringpin"}
  OBVIOUS
<1> QED
  BY <1>2, <1>3 DEF Op

-----------------------------------------------------------------------------
(* What the handlers' lists of commands do to the beams, the rows, the parents *)
(* and the results.                                                            *)

DataKinds == {"beams", "rows", "parents", "result"}
Data == {b \in Buffers : b[1] \in DataKinds}
MainEvents == ({"expand", "remap", "replay"} \X (0 .. Serial)) \cup ({"prefill"} \X Reqs)

StreamsTyped ==
    /\ overlap \in BOOLEAN /\ forgotten \in BOOLEAN
    /\ gpu \in Orders
    /\ lease \in [Reqs -> Leases \cup {None}]
    /\ result \in [0 .. Serial -> Blocks \cup {None}]
    /\ epoch \in [Names -> 0 .. 1]
    /\ at \in 0 .. Ring - 1

\* s will come after all accesses to b once it has waited for ws.
Awaited(g, b, s, ws) == Covered(g, b, s) \/ \E e \in ws : Keeps(g, b, e)

LEMMA DataFacts ==
    /\ Data \subseteq Buffers /\ DataKinds \subseteq Kinds /\ MainEvents \subseteq Events
    /\ \A b \in Data : b[1] \in DataKinds
    /\ DataKinds \subseteq Kinds \ {"ring", "ringpin"} /\ DataKinds \subseteq Kinds \ {"pin", "stage"}
BY DEF Data, DataKinds, Kinds, MainEvents, Events

LEMMA DataBuffers ==
    /\ \A rs \in Seq(Reqs) : Beams(rs) \subseteq Data /\ \A b \in Beams(rs) : b[1] = "beams"
    /\ \A rs \in Seq(Reqs), l \in [Reqs -> Leases \cup {None}] :
            Rows(rs, l) \subseteq Data /\ \A b \in Rows(rs, l) : b[1] = "rows"
    /\ \A p \in 0 .. Serial : <<"parents", p>> \in Data
    /\ \A x \in Blocks \cup {None} : <<"result", x>> \in Data
    /\ \A r \in Reqs : <<"beams", r>> \in Data
    /\ \A x \in Leases \cup {None} : <<"rows", x>> \in Data
<1>1. /\ \A r \in Reqs : <<"beams", r>> \in Data
      /\ \A x \in Leases \cup {None} : <<"rows", x>> \in Data
      /\ \A p \in 0 .. Serial : <<"parents", p>> \in Data
      /\ \A x \in Blocks \cup {None} : <<"result", x>> \in Data
  BY DEF Data, DataKinds, Buffers
<1>2. \A rs \in Seq(Reqs) : ToSet(rs) \subseteq Reqs
  BY Members
<1> QED
  BY <1>1, <1>2 DEF Beams, Rows

\* The prefill events of a batch.
PrefillEvents(rs) == [i \in DOMAIN rs |-> PrefillEvent(rs[i])]

LEMMA PrefillEventsOf ==
    ASSUME NEW rs \in Seq(Reqs)
    PROVE  /\ PrefillEvents(rs) \in Seq(Events)
           /\ ToSet(PrefillEvents(rs)) = {PrefillEvent(r) : r \in ToSet(rs)}
           /\ \A s : [i \in DOMAIN rs |-> Wait(s, PrefillEvent(rs[i]))] = WaitAll(s, PrefillEvents(rs))
           /\ [i \in DOMAIN rs |-> Drop(PrefillEvent(rs[i]))] = DropAll(PrefillEvents(rs))
<1>1. PICK n \in Nat : n = Len(rs) /\ DOMAIN rs = 1 .. n /\ \A i \in 1 .. n : rs[i] \in Reqs
  OBVIOUS
<1>2. PICK es : es = PrefillEvents(rs)
  OBVIOUS
<1>3. es = [i \in 1 .. n |-> PrefillEvent(rs[i])]
  BY <1>1, <1>2 DEF PrefillEvents
<1>4. \A i \in 1 .. n : PrefillEvent(rs[i]) \in Events
  BY <1>1, EventTypes
<1>5. es \in Seq(Events) /\ Len(es) = n /\ DOMAIN es = 1 .. n
      /\ \A i \in 1 .. n : es[i] = PrefillEvent(rs[i])
  BY <1>3, <1>4
<1>6. ToSet(es) = {es[i] : i \in 1 .. n} /\ ToSet(rs) = {rs[i] : i \in 1 .. n}
  BY <1>1, <1>5, Members
<1>7. ToSet(es) = {PrefillEvent(r) : r \in ToSet(rs)}
  BY <1>5, <1>6
<1>8. \A s : WaitAll(s, es) = [i \in DOMAIN rs |-> Wait(s, PrefillEvent(rs[i]))]
  BY <1>1, <1>5 DEF WaitAll
<1>9. DropAll(es) = [i \in DOMAIN rs |-> Drop(PrefillEvent(rs[i]))]
  BY <1>1, <1>5 DEF DropAll
<1> QED
  BY <1>2, <1>5, <1>7, <1>8, <1>9

\* What a launch waits for.
LaunchWaits(p, rs) == {Expand(p), Remap(p)} \cup {PrefillEvent(r) : r \in ToSet(rs)}

LEMMA LaunchEffect ==
    ASSUME NEW g \in Orders, NEW p \in 0 .. Serial, NEW rs \in Seq(Reqs), NEW block \in Blocks,
           StreamsTyped
    PROVE  LET cs == LaunchCommands(p, rs, block)
               h == DoAll(g, cs)
               ws == LaunchWaits(p, rs)
               T == Beams(rs) \cup Rows(rs, lease) \cup {<<"result", block>>}
           IN
           /\ cs \in Seq(Commands) /\ h \in Orders
           /\ \A b \in Data : Awaited(g, b, "default", ws)
                                => Covered(h, b, "default") /\ Keeps(h, b, Replay(p))
           /\ \A b \in Data \ T : Carried(g, h, b, MainEvents \ (ws \cup {Replay(p)}))
           /\ \A k \in DataKinds :
                 /\ k \notin g.races
                 /\ \A b \in T : b[1] = k => Awaited(g, b, "default", ws)
                 => k \notin h.races
<1> DEFINE st == Stored(p)
           pes == PrefillEvents(rs)
           reads == Beams(rs) \cup Uploaded(1)
           writes == {<<"indptr", 0>>, <<"result", block>>} \cup Rows(rs, lease)
           T == Beams(rs) \cup Rows(rs, lease) \cup {<<"result", block>>}
           op == Op("default", reads, writes)
           rec == Record("default", Replay(p))
           ws == LaunchWaits(p, rs)
           cs == LaunchCommands(p, rs, block)
<1>1. "default" \in Actors /\ "default" \in Streams /\ 1 \in Nat
  BY DEF Actors, Streams
<1>2. /\ reads \in SUBSET Buffers /\ writes \in SUBSET Buffers /\ T \subseteq Data
      /\ \A b \in (reads \cup writes) \ T : b[1] \in {"ring", "indptr"}
      /\ T \subseteq reads \cup writes
  <2>1. Uploaded(1) \subseteq Buffers /\ \A b \in Uploaded(1) : b[1] = "ring"
    <3>1. \A k \in 1 .. 1 : Slot(k) \in 0 .. Ring - 1
      BY <1>1, UploadCommands DEF StreamsTyped
    <3>2. \A k \in 1 .. 1 : <<"ring", Slot(k)>> \in Buffers
      BY <3>1 DEF Buffers
    <3> QED
      BY <3>2 DEF Uploaded
  <2>2. <<"indptr", 0>> \in Buffers
    BY DEF Buffers
  <2>3. Beams(rs) \subseteq Data /\ Rows(rs, lease) \subseteq Data /\ <<"result", block>> \in Data
    BY DataBuffers DEF StreamsTyped
  <2> QED
    BY <2>1, <2>2, <2>3, DataFacts
<1>3. st \in Seq(Events) /\ ToSet(st) = {Expand(p), Remap(p)}
  BY StoredEvents
<1>4. pes \in Seq(Events) /\ ToSet(pes) = {PrefillEvent(r) : r \in ToSet(rs)}
  BY PrefillEventsOf
<1>5. cs = (WaitAll("default", st) \o DropAll(st)) \o WaitAll("default", pes) \o DropAll(pes)
              \o Upload("default", 1) \o <<op, rec>>
  BY PrefillEventsOf DEF LaunchCommands, WaitPipeReady
<1>6. Replay(p) \in Events /\ Expand(p) \in Events /\ Remap(p) \in Events
      /\ \A r \in ToSet(rs) : r \in Reqs /\ PrefillEvent(r) \in Events
  BY EventTypes, Members
<1>7. op \in Commands /\ rec \in Commands
  BY <1>1, <1>2, <1>6, CommandTypes
<1> DEFINE g1 == DoAll(g, WaitAll("default", st))
           g2 == DoAll(g1, DropAll(st))
           g3 == DoAll(g2, WaitAll("default", pes))
           g4 == DoAll(g3, DropAll(pes))
           g5 == DoAll(g4, Upload("default", 1))
           g6 == Do(g5, op)
           h == Do(g6, rec)
<1> HIDE DEF st, pes, reads, writes, T, op, rec, ws, cs
<1>8. /\ WaitAll("default", st) \in Seq(Commands) /\ g1 \in Orders
      /\ \A k \in Kinds : k \notin g.races => k \notin g1.races
      /\ \A b \in Buffers : Carried(g, g1, b, Events)
      /\ \A b \in Buffers, e \in ToSet(st) : Keeps(g, b, e) => Covered(g1, b, "default")
  BY <1>1, <1>3, WaitAllOrders
<1>9. /\ DropAll(st) \in Seq(Commands) /\ g2 \in Orders
      /\ \A k \in Kinds : k \notin g1.races => k \notin g2.races
      /\ \A b \in Buffers : Carried(g1, g2, b, Events \ ToSet(st))
  <2> HIDE DEF g1
  <2> QED
    BY <1>3, <1>8, DropAllOrders
<1>10. /\ WaitAll("default", pes) \in Seq(Commands) /\ g3 \in Orders
       /\ \A k \in Kinds : k \notin g2.races => k \notin g3.races
       /\ \A b \in Buffers : Carried(g2, g3, b, Events)
       /\ \A b \in Buffers, e \in ToSet(pes) : Keeps(g2, b, e) => Covered(g3, b, "default")
  <2> HIDE DEF g2
  <2> QED
    BY <1>1, <1>4, <1>9, WaitAllOrders
<1>11. /\ DropAll(pes) \in Seq(Commands) /\ g4 \in Orders
       /\ \A k \in Kinds : k \notin g3.races => k \notin g4.races
       /\ \A b \in Buffers : Carried(g3, g4, b, Events \ ToSet(pes))
  <2> HIDE DEF g3
  <2> QED
    BY <1>4, <1>10, DropAllOrders
<1>12. /\ Upload("default", 1) \in Seq(Commands) /\ g5 \in Orders
       /\ \A k \in DataKinds : k \notin g4.races => k \notin g5.races
       /\ \A b \in Data : Carried(g4, g5, b, Events)
  <2> HIDE DEF g4
  <2>1. Upload("default", 1) \in Seq(Commands)
        /\ Spared(Upload("default", 1), Kinds \ {"ring", "ringpin"}, Events)
    BY <1>1, UploadCommands, UploadSpares DEF StreamsTyped
  <2>2. g5 \in Orders /\ Passes(g4, g5, Kinds \ {"ring", "ringpin"}, Events)
    BY <1>11, <2>1, SparedPasses
  <2> HIDE DEF g5
  <2> QED
    BY <2>1, <2>2, DataFacts DEF Passes
<1>13. /\ g6 \in Orders
       /\ \A b \in Data \ T : Carried(g5, g6, b, Events)
       /\ \A b \in Data : Covered(g5, b, "default") => Covered(g6, b, "default")
       /\ \A k \in DataKinds : /\ k \notin g5.races
                               /\ \A b \in T : b[1] = k => Covered(g5, b, "default")
                               => k \notin g6.races
  <2> HIDE DEF g5
  <2>1. /\ g6 \in Orders
        /\ \A b \in Buffers \ (reads \cup writes) : Carried(g5, g6, b, Events)
        /\ \A b \in reads \cup writes : Covered(g5, b, "default") => Covered(g6, b, "default")
        /\ \A k \in Kinds : /\ k \notin g5.races
                            /\ \A b \in reads \cup writes : b[1] = k => Covered(g5, b, "default")
                            => k \notin g6.races
    BY <1>1, <1>2, <1>12, OpOrders DEF op
  <2> HIDE DEF g6
  <2>2. \A b \in Data \ T : b \notin reads \cup writes
    BY <1>2, DataFacts DEF DataKinds
  <2>3. ASSUME NEW b \in Data, Covered(g5, b, "default") PROVE Covered(g6, b, "default")
    <3>1. CASE b \in T
      BY <1>2, <2>1, <2>3, <3>1
    <3>2. CASE b \notin T
      BY <1>1, <2>1, <2>2, <2>3, <3>2, DataFacts DEF Carried
    <3> QED
      BY <3>1, <3>2
  <2>4. \A b \in Data \ T : Carried(g5, g6, b, Events)
    BY <2>1, <2>2, DataFacts
  <2>5. ASSUME NEW k \in DataKinds, k \notin g5.races,
               \A b \in T : b[1] = k => Covered(g5, b, "default")
        PROVE  k \notin g6.races
    <3>1. k \in Kinds /\ k # "ring" /\ k # "indptr"
      BY DataFacts DEF DataKinds
    <3>2. \A b \in reads \cup writes : b[1] = k => b \in T
      BY <1>2, <3>1
    <3> QED
      BY <2>1, <2>5, <3>1, <3>2
  <2> QED
    BY <2>1, <2>3, <2>4, <2>5
<1>14. /\ h \in Orders /\ h.races = g6.races
       /\ \A b : Carried(g6, h, b, Events \ {Replay(p)})
       /\ \A b : Covered(g6, b, "default") => Keeps(h, b, Replay(p))
  <2> HIDE DEF g6
  <2> QED
    BY <1>1, <1>6, <1>13, RecordOrders DEF rec
<1>15. cs \in Seq(Commands) /\ DoAll(g, cs) = h
  <2>1. <<op, rec>> \in Seq(Commands) /\ DoAll(g5, <<op, rec>>) = h
    BY <1>7, <1>12, RunPair
  <2>2. PICK u \in Seq(Commands) : u = WaitAll("default", st) \o DropAll(st)
    BY <1>8, <1>9, ConcatMembers, Zenon
  <2>3. DoAll(g, u) = g2
    BY <1>8, <1>9, <2>2, RunConcat
  <2>4. PICK v \in Seq(Commands), w \in Seq(Commands), x \in Seq(Commands), y \in Seq(Commands) :
          v = WaitAll("default", pes) /\ w = DropAll(pes) /\ x = Upload("default", 1) /\ y = <<op, rec>>
    BY <1>10, <1>11, <1>12, <2>1, Zenon
  <2>5. cs = u \o v \o w \o x \o y
    BY <1>5, <2>2, <2>4, Zenon
  <2>6. cs \in Seq(Commands) /\ DoAll(g, cs) = DoAll(DoAll(DoAll(DoAll(DoAll(g, u), v), w), x), y)
    BY <2>5, RunFiveLists
  <2> QED
    BY <2>1, <2>3, <2>4, <2>6
<1> HIDE DEF g1, g2, g3, g4, g5, g6, h
<1>16. ASSUME NEW b \in Data, Awaited(g, b, "default", ws)
       PROVE  Covered(g5, b, "default") /\ Covered(h, b, "default") /\ Keeps(h, b, Replay(p))
  <2>1. /\ Carried(g, g1, b, Events) /\ Carried(g1, g2, b, Events \ ToSet(st))
        /\ Carried(g2, g3, b, Events) /\ Carried(g3, g4, b, Events \ ToSet(pes))
        /\ Carried(g4, g5, b, Events) /\ Carried(g6, h, b, Events \ {Replay(p)})
    BY <1>8, <1>9, <1>10, <1>11, <1>12, <1>14, DataFacts
  <2>2. Covered(g3, b, "default")
    <3>1. CASE Covered(g, b, "default")
      BY <1>1, <2>1, <3>1 DEF Carried
    <3>2. CASE \E e \in ToSet(st) : Keeps(g, b, e)
      <4>1. Covered(g1, b, "default")
        BY <1>8, <3>2, DataFacts
      <4> QED
        BY <1>1, <2>1, <4>1 DEF Carried
    <3>3. CASE \E r \in ToSet(rs) : Keeps(g, b, PrefillEvent(r))
      <4>1. PICK r \in ToSet(rs) : Keeps(g, b, PrefillEvent(r))
        BY <3>3
      <4>2. PrefillEvent(r) \in Events \ ToSet(st)
        BY <1>3, <1>6 DEF PrefillEvent, Expand, Remap
      <4>3. Keeps(g2, b, PrefillEvent(r))
        BY <2>1, <4>1, <4>2 DEF Carried
      <4> QED
        BY <1>4, <1>10, <4>3, DataFacts
    <3> QED
      BY <1>3, <1>16, <3>1, <3>2, <3>3 DEF Awaited, ws, LaunchWaits
  <2>3. Covered(g5, b, "default")
    BY <1>1, <2>1, <2>2 DEF Carried
  <2>4. Covered(g6, b, "default")
    BY <1>13, <2>3
  <2> QED
    BY <1>1, <1>14, <2>1, <2>3, <2>4 DEF Carried
<1>17. ASSUME NEW b \in Data \ T PROVE Carried(g, h, b, MainEvents \ (ws \cup {Replay(p)}))
  <2>1. /\ Carried(g, g1, b, Events) /\ Carried(g1, g2, b, Events \ ToSet(st))
        /\ Carried(g2, g3, b, Events) /\ Carried(g3, g4, b, Events \ ToSet(pes))
        /\ Carried(g4, g5, b, Events) /\ Carried(g5, g6, b, Events)
        /\ Carried(g6, h, b, Events \ {Replay(p)})
    BY <1>8, <1>9, <1>10, <1>11, <1>12, <1>13, <1>14, DataFacts
  <2>2. ToSet(st) \subseteq ws /\ ToSet(pes) \subseteq ws
    BY <1>3, <1>4 DEF ws, LaunchWaits
  <2>3. \A e \in MainEvents \ (ws \cup {Replay(p)}) :
          e \in Events /\ e \notin ToSet(st) /\ e \notin ToSet(pes) /\ e # Replay(p)
    BY <2>2, DataFacts
  <2> QED
    BY <2>1, <2>3 DEF Carried
<1>18. ASSUME NEW k \in DataKinds, k \notin g.races,
              \A b \in T : b[1] = k => Awaited(g, b, "default", ws)
       PROVE  k \notin h.races
  <2>1. k \notin g5.races
    BY <1>8, <1>9, <1>10, <1>11, <1>12, <1>18, DataFacts
  <2>2. \A b \in T : b[1] = k => Covered(g5, b, "default")
    BY <1>2, <1>16, <1>18
  <2> QED
    BY <1>13, <1>14, <2>1, <2>2
<1> QED
  BY <1>14, <1>15, <1>16, <1>17, <1>18 DEF cs, ws, T

LEMMA MainEventFacts ==
    /\ \A p \in 0 .. Serial : Expand(p) \in MainEvents /\ Remap(p) \in MainEvents /\ Replay(p) \in MainEvents
    /\ \A r \in Reqs : PrefillEvent(r) \in MainEvents
    /\ \A n \in Names, k \in 0 .. 1 : PinReady(n, k) \notin MainEvents
    /\ Synced \notin MainEvents /\ LastPrefill \notin MainEvents
    /\ ExpandNow \notin MainEvents /\ CopyDone \notin MainEvents
BY DEF MainEvents, Expand, Remap, Replay, PrefillEvent, PinReady, Names, Synced, LastPrefill,
       ExpandNow, CopyDone

LEMMA RunFourLists ==
    ASSUME NEW g \in Orders, NEW u \in Seq(Commands), NEW v \in Seq(Commands), NEW w \in Seq(Commands),
           NEW x \in Seq(Commands)
    PROVE  /\ u \o v \o w \o x \in Seq(Commands)
           /\ DoAll(g, u \o v \o w \o x) = DoAll(DoAll(DoAll(DoAll(g, u), v), w), x)
<1>1. u \o v \o w \in Seq(Commands) /\ DoAll(g, u \o v \o w) = DoAll(DoAll(DoAll(g, u), v), w)
  BY RunThreeLists
<1>2. \A z \in Seq(Commands) : z \o x \in Seq(Commands) /\ DoAll(g, z \o x) = DoAll(DoAll(g, z), x)
  BY RunConcat, ConcatMembers
<1>3. /\ (u \o v \o w) \o x \in Seq(Commands)
      /\ DoAll(g, (u \o v \o w) \o x) = DoAll(DoAll(g, u \o v \o w), x)
  BY <1>1, <1>2, Zenon
<1> QED
  BY <1>1, <1>3, Zenon

\* A staging leaves the data as it was.
LEMMA StageSpares ==
    ASSUME NEW g \in Orders, NEW s \in Streams, NEW n \in Names, StreamsTyped
    PROVE  /\ Stage(s, n) \in Seq(Commands) /\ DoAll(g, Stage(s, n)) \in Orders
           /\ \A k \in DataKinds : k \notin g.races => k \notin DoAll(g, Stage(s, n)).races
           /\ \A b \in Data : Carried(g, DoAll(g, Stage(s, n)), b, MainEvents)
<1> DEFINE h == DoAll(g, Stage(s, n))
           e == PinReady(n, epoch[n])
<1>1. epoch[n] \in 0 .. 1
  BY DEF StreamsTyped
<1>2. /\ Stage(s, n) \in Seq(Commands) /\ h \in Orders
      /\ \A b \in Buffers \ {<<"pin", n, epoch[n]>>, <<"stage", n>>} : Carried(g, h, b, Events \ {e})
      /\ \A k \in Kinds \ {"pin", "stage"} : k \notin g.races => k \notin h.races
  BY <1>1, StageOrders
<1>3. \A b \in Data : b \in Buffers \ {<<"pin", n, epoch[n]>>, <<"stage", n>>}
  BY DEF Data, DataKinds
<1>4. MainEvents \subseteq Events \ {e}
  BY <1>1, DataFacts, MainEventFacts
<1> HIDE DEF h, e
<1>5. \A b \in Data : Carried(g, h, b, MainEvents)
  BY <1>2, <1>3, <1>4 DEF Carried
<1> QED
  BY <1>2, <1>5, DataFacts DEF h

\* An access by which no buffer is lost.
LEMMA OpEffect ==
    ASSUME NEW g \in Orders, NEW s \in Actors, NEW R \in SUBSET Buffers, NEW W \in SUBSET Buffers,
           NEW T \in SUBSET Data, T \subseteq R \cup W, \A b \in (R \cup W) \ T : b[1] \notin DataKinds
    PROVE  LET h == Do(g, Op(s, R, W)) IN
           /\ h \in Orders
           /\ \A b \in Data \ T : Carried(g, h, b, Events)
           /\ \A b \in Data : Covered(g, b, s) => Covered(h, b, s)
           /\ \A k \in DataKinds : /\ k \notin g.races
                                   /\ \A b \in T : b[1] = k => Covered(g, b, s)
                                   => k \notin h.races
<1> DEFINE h == Do(g, Op(s, R, W))
<1>1. /\ h \in Orders
      /\ \A b \in Buffers \ (R \cup W) : Carried(g, h, b, Events)
      /\ \A b \in R \cup W : Covered(g, b, s) => Covered(h, b, s)
      /\ \A k \in Kinds : /\ k \notin g.races
                          /\ \A b \in R \cup W : b[1] = k => Covered(g, b, s)
                          => k \notin h.races
  BY OpOrders
<1> HIDE DEF h
<1>2. \A b \in Data \ T : b \in Buffers \ (R \cup W)
  BY DataFacts
<1>3. \A b \in Data \ T : Carried(g, h, b, Events)
  BY <1>1, <1>2
<1>4. ASSUME NEW b \in Data, Covered(g, b, s) PROVE Covered(h, b, s)
  BY <1>1, <1>3, <1>4 DEF Carried
<1>5. ASSUME NEW k \in DataKinds, k \notin g.races, \A b \in T : b[1] = k => Covered(g, b, s)
      PROVE  k \notin h.races
  BY <1>1, <1>5, DataFacts
<1> QED
  BY <1>1, <1>3, <1>4, <1>5 DEF h

\* The expand and the remap of a result.
LEMMA ProcessEffect ==
    ASSUME NEW g \in Orders, NEW p \in 0 .. Serial, NEW rs \in Seq(Reqs), NEW block \in Blocks,
           NEW on \in Seq(Reqs), StreamsTyped
    PROVE  LET cs == ProcessCommands(p, rs, block, on)
               h == DoAll(g, cs)
               T == Beams(rs) \cup Rows(on, lease) \cup {<<"result", block>>, <<"parents", p>>}
           IN
           /\ cs \in Seq(Commands) /\ h \in Orders
           /\ \A b \in Data : Awaited(g, b, "expand", {Replay(p)}) => Keeps(h, b, Remap(p))
           /\ \A b \in Data : /\ Awaited(g, b, "expand", {Replay(p)})
                              /\ b \notin Rows(on, lease) /\ b # <<"parents", p>>
                              => Covered(h, b, "expand")
           /\ \A b \in Data \ T : Carried(g, h, b, MainEvents \ {Expand(p), Remap(p)})
           /\ \A k \in DataKinds :
                 /\ k \notin g.races
                 /\ \A b \in T : b[1] = k => Awaited(g, b, "expand", {Replay(p)})
                 => k \notin h.races
<1> DEFINE reads == {<<"stage", "exp_col_eager">>, <<"result", block>>}
           writes == {<<"parents", p>>} \cup Beams(rs)
           T1 == {<<"result", block>>, <<"parents", p>>} \cup Beams(rs)
           T2 == {<<"parents", p>>} \cup Rows(on, lease)
           op == Op("expand", reads, writes)
           rec == Record("expand", Expand(p))
           copy == Op("copy", {<<"parents", p>>}, Rows(on, lease))
           first == <<Wait("expand", Replay(p))>>
           last == IF on = <<>> THEN <<Record("expand", Remap(p))>>
                   ELSE <<Wait("copy", Expand(p)), copy, Record("copy", Remap(p))>>
           cs == ProcessCommands(p, rs, block, on)
           g1 == Do(g, Wait("expand", Replay(p)))
           g2 == DoAll(g1, Stage("expand", "exp_col_eager"))
           g3 == Do(g2, op)
           g4 == Do(g3, rec)
           h == DoAll(g4, last)
<1>1. "expand" \in Actors /\ "copy" \in Actors /\ "expand" \in Streams /\ "exp_col_eager" \in Names
  BY DEF Actors, Streams, Names
<1>2. Replay(p) \in Events /\ Expand(p) \in Events /\ Remap(p) \in Events
  BY EventTypes
<1>3. /\ Beams(rs) \subseteq Data /\ Rows(on, lease) \subseteq Data
      /\ <<"result", block>> \in Data /\ <<"parents", p>> \in Data /\ <<"stage", "exp_col_eager">> \in Buffers
      /\ <<"stage", "exp_col_eager">>[1] \notin DataKinds
  <2>1. <<"stage", "exp_col_eager">> \in Buffers /\ <<"stage", "exp_col_eager">>[1] \notin DataKinds
    BY <1>1 DEF Buffers, DataKinds
  <2> QED
    BY <2>1, DataBuffers DEF StreamsTyped
<1>4. /\ reads \in SUBSET Buffers /\ writes \in SUBSET Buffers /\ T1 \in SUBSET Data
      /\ T1 \subseteq reads \cup writes /\ \A b \in (reads \cup writes) \ T1 : b[1] \notin DataKinds
  BY <1>3, DataFacts
<1>5. /\ {<<"parents", p>>} \in SUBSET Buffers /\ Rows(on, lease) \in SUBSET Buffers
      /\ T2 \in SUBSET Data /\ T2 = {<<"parents", p>>} \cup Rows(on, lease)
      /\ {<<"parents", p>>} \subseteq T2
  BY <1>3, DataFacts
<1>6. /\ op \in Commands /\ rec \in Commands /\ copy \in Commands
      /\ Wait("expand", Replay(p)) \in Commands /\ Wait("copy", Expand(p)) \in Commands
      /\ Record("copy", Remap(p)) \in Commands /\ Record("expand", Remap(p)) \in Commands
  BY <1>1, <1>2, <1>4, <1>5, CommandTypes
<1>7. cs = first \o Stage("expand", "exp_col_eager") \o <<op, rec>> \o last
  BY DEF ProcessCommands
<1>8. T1 \cup T2 = Beams(rs) \cup Rows(on, lease) \cup {<<"result", block>>, <<"parents", p>>}
  OBVIOUS
<1> HIDE DEF reads, writes, op, rec, copy, T1, T2, first, last, cs
<1>9. /\ g1 \in Orders /\ g1.races = g.races
      /\ \A b : Carried(g, g1, b, Events)
      /\ \A b : Keeps(g, b, Replay(p)) => Covered(g1, b, "expand")
  BY <1>1, <1>2, WaitOrders
<1>10. /\ Stage("expand", "exp_col_eager") \in Seq(Commands) /\ g2 \in Orders
       /\ \A k \in DataKinds : k \notin g1.races => k \notin g2.races
       /\ \A b \in Data : Carried(g1, g2, b, MainEvents)
  <2> HIDE DEF g1
  <2> QED
    BY <1>1, <1>9, StageSpares
<1>11. /\ g3 \in Orders
       /\ \A b \in Data \ T1 : Carried(g2, g3, b, Events)
       /\ \A b \in Data : Covered(g2, b, "expand") => Covered(g3, b, "expand")
       /\ \A k \in DataKinds : /\ k \notin g2.races
                               /\ \A b \in T1 : b[1] = k => Covered(g2, b, "expand")
                               => k \notin g3.races
  <2> HIDE DEF g2
  <2> QED
    BY <1>1, <1>4, <1>10, OpEffect DEF op
<1>12. /\ g4 \in Orders /\ g4.races = g3.races
       /\ \A b : Carried(g3, g4, b, Events \ {Expand(p)})
       /\ \A b : Covered(g3, b, "expand") => Keeps(g4, b, Expand(p))
  <2> HIDE DEF g3
  <2> QED
    BY <1>1, <1>2, <1>11, RecordOrders DEF rec
<1>13. /\ last \in Seq(Commands) /\ h \in Orders
       /\ \A b \in Data \ T2 : Carried(g4, h, b, Events \ {Remap(p)})
       /\ \A b \in Data : Covered(g4, b, "expand") /\ Keeps(g4, b, Expand(p)) => Keeps(h, b, Remap(p))
       /\ \A k \in DataKinds : /\ k \notin g4.races
                               /\ \A b \in T2 : b[1] = k => Keeps(g4, b, Expand(p))
                               => k \notin h.races
  <2> HIDE DEF g4
  <2>1. CASE on = <<>>
    <3>1. last = <<Record("expand", Remap(p))>>
      BY <2>1 DEF last
    <3>2. last \in Seq(Commands)
      BY <1>6, <3>1
    <3>3. h = Do(g4, Record("expand", Remap(p)))
      BY <1>6, <1>12, <3>1, RunShort
    <3>4. /\ h \in Orders /\ h.races = g4.races
          /\ \A b : Carried(g4, h, b, Events \ {Remap(p)})
          /\ \A b : Covered(g4, b, "expand") => Keeps(h, b, Remap(p))
      <4> HIDE DEF h
      <4> QED
        BY <1>1, <1>2, <1>12, <3>3, RecordOrders
    <3> QED
      BY <3>2, <3>4
  <2>2. CASE on # <<>>
    <3> DEFINE a == Do(g4, Wait("copy", Expand(p)))
               c == Do(a, copy)
               d == Do(c, Record("copy", Remap(p)))
    <3>1. last = <<Wait("copy", Expand(p)), copy, Record("copy", Remap(p))>>
      BY <2>2 DEF last
    <3>2. last \in Seq(Commands) /\ h = d
      BY <1>6, <1>12, <3>1, RunTriple
    <3> HIDE DEF h
    <3>3. /\ a \in Orders /\ a.races = g4.races
          /\ \A b : Carried(g4, a, b, Events)
          /\ \A b : Keeps(g4, b, Expand(p)) => Covered(a, b, "copy")
      BY <1>1, <1>2, <1>12, WaitOrders
    <3>4. /\ c \in Orders
          /\ \A b \in Data \ T2 : Carried(a, c, b, Events)
          /\ \A b \in Data : Covered(a, b, "copy") => Covered(c, b, "copy")
          /\ \A k \in DataKinds : /\ k \notin a.races
                                  /\ \A b \in T2 : b[1] = k => Covered(a, b, "copy")
                                  => k \notin c.races
      <4> HIDE DEF a
      <4> QED
        BY <1>1, <1>5, <3>3, OpEffect DEF copy
    <3>5. /\ d \in Orders /\ d.races = c.races
          /\ \A b : Carried(c, d, b, Events \ {Remap(p)})
          /\ \A b : Covered(c, b, "copy") => Keeps(d, b, Remap(p))
      <4> HIDE DEF c
      <4> QED
        BY <1>1, <1>2, <3>4, RecordOrders
    <3> HIDE DEF a, c, d
    <3>6. \A b \in Data \ T2 : Carried(g4, d, b, Events \ {Remap(p)})
      BY <3>3, <3>4, <3>5 DEF Carried
    <3>7. \A b \in Data : Keeps(g4, b, Expand(p)) => Keeps(d, b, Remap(p))
      BY <3>3, <3>4, <3>5
    <3>8. \A k \in DataKinds : /\ k \notin g4.races
                               /\ \A b \in T2 : b[1] = k => Keeps(g4, b, Expand(p))
                               => k \notin d.races
      BY <1>5, <3>3, <3>4, <3>5
    <3> QED
      BY <3>2, <3>5, <3>6, <3>7, <3>8
  <2> QED
    BY <2>1, <2>2
<1>14. cs \in Seq(Commands) /\ DoAll(g, cs) = h
  <2>1. first \in Seq(Commands) /\ DoAll(g, first) = g1
    BY <1>6, RunShort DEF first
  <2>2. <<op, rec>> \in Seq(Commands) /\ DoAll(g2, <<op, rec>>) = g4
    BY <1>6, <1>10, RunPair
  <2>3. PICK v \in Seq(Commands), w \in Seq(Commands) :
          v = Stage("expand", "exp_col_eager") /\ w = <<op, rec>>
    BY <1>10, <2>2, Zenon
  <2>4. cs = first \o v \o w \o last
    BY <1>7, <2>3, Zenon
  <2>5. cs \in Seq(Commands) /\ DoAll(g, cs) = DoAll(DoAll(DoAll(DoAll(g, first), v), w), last)
    BY <1>13, <2>1, <2>4, RunFourLists
  <2> QED
    BY <2>1, <2>2, <2>3, <2>5
<1> HIDE DEF g1, g2, g3, g4, h
<1>15. ASSUME NEW b \in Data, Awaited(g, b, "expand", {Replay(p)})
       PROVE  /\ Covered(g2, b, "expand") /\ Covered(g4, b, "expand") /\ Keeps(g4, b, Expand(p))
              /\ Keeps(h, b, Remap(p))
  <2>1. Covered(g1, b, "expand")
    BY <1>1, <1>9, <1>15 DEF Awaited, Carried
  <2>2. Covered(g2, b, "expand")
    BY <1>1, <1>10, <2>1 DEF Carried
  <2>3. Covered(g3, b, "expand")
    BY <1>11, <2>2
  <2>4. Covered(g4, b, "expand") /\ Keeps(g4, b, Expand(p))
    BY <1>1, <1>12, <2>3 DEF Carried
  <2> QED
    BY <1>13, <2>2, <2>4
<1>16. ASSUME NEW b \in Data, Awaited(g, b, "expand", {Replay(p)}), b \notin Rows(on, lease),
              b # <<"parents", p>>
       PROVE  Covered(h, b, "expand")
  <2>1. Covered(g4, b, "expand") /\ b \notin T2
    BY <1>5, <1>15, <1>16
  <2> QED
    BY <1>1, <1>13, <2>1 DEF Carried
<1>17. ASSUME NEW b \in Data \ (T1 \cup T2)
       PROVE  Carried(g, h, b, MainEvents \ {Expand(p), Remap(p)})
  <2>1. /\ Carried(g, g1, b, Events) /\ Carried(g1, g2, b, MainEvents) /\ Carried(g2, g3, b, Events)
        /\ Carried(g3, g4, b, Events \ {Expand(p)}) /\ Carried(g4, h, b, Events \ {Remap(p)})
    BY <1>9, <1>10, <1>11, <1>12, <1>13
  <2>2. \A e \in MainEvents \ {Expand(p), Remap(p)} : e \in Events
    BY DataFacts
  <2> QED
    BY <2>1, <2>2 DEF Carried
<1>18. ASSUME NEW k \in DataKinds, k \notin g.races,
              \A b \in T1 \cup T2 : b[1] = k => Awaited(g, b, "expand", {Replay(p)})
       PROVE  k \notin h.races
  <2>1. \A b \in T1 \cup T2 : b[1] = k => Covered(g2, b, "expand") /\ Keeps(g4, b, Expand(p))
    BY <1>4, <1>5, <1>15, <1>18
  <2>2. k \notin g2.races
    BY <1>9, <1>10, <1>18
  <2>3. k \notin g4.races
    BY <1>11, <1>12, <2>1, <2>2
  <2> QED
    BY <1>13, <2>1, <2>3
<1> QED
  BY <1>8, <1>13, <1>14, <1>15, <1>16, <1>17, <1>18 DEF cs

\* A stream records some events.
RecordAll(s, es) == [i \in DOMAIN es |-> Record(s, es[i])]

LEMMA RecordAllOrders ==
    ASSUME NEW g \in Orders, NEW s \in Actors, NEW es \in Seq(Events)
    PROVE  LET h == DoAll(g, RecordAll(s, es)) IN
           /\ RecordAll(s, es) \in Seq(Commands)
           /\ h \in Orders
           /\ \A k \in Kinds : k \notin g.races => k \notin h.races
           /\ \A b \in Buffers : Carried(g, h, b, Events \ ToSet(es))
           /\ \A b \in Buffers, e \in ToSet(es) : Covered(g, b, s) => Keeps(h, b, e)
<1> DEFINE cs == RecordAll(s, es)
<1>1. PICK n \in Nat : n = Len(es) /\ DOMAIN es = 1 .. n /\ \A i \in 1 .. n : es[i] \in Events
  OBVIOUS
<1>2. cs = [i \in 1 .. n |-> Record(s, es[i])]
  BY <1>1 DEF RecordAll
<1>3. \A i \in 1 .. n : Record(s, es[i]) \in Commands
  BY <1>1, CommandTypes
<1>4. cs \in Seq(Commands) /\ Len(cs) = n /\ \A i \in 1 .. n : cs[i] = Record(s, es[i])
  BY <1>2, <1>3
<1> HIDE DEF cs
<1>5. \A c \in ToSet(cs) : c.do = "record" /\ c.event \in ToSet(es)
  <2>1. ToSet(cs) = {cs[i] : i \in 1 .. n} /\ ToSet(es) = {es[i] : i \in 1 .. n}
    BY <1>1, <1>4, Members
  <2> QED
    BY <1>4, <2>1 DEF Record
<1>6. DoAll(g, cs) \in Orders
  BY <1>4, RunConcat
<1>7. \A k \in Kinds : k \notin g.races => k \notin DoAll(g, cs).races
  BY <1>4, <1>5, RunRaces
<1>8. ASSUME NEW b \in Buffers PROVE Carried(g, DoAll(g, cs), b, Events \ ToSet(es))
  <2>1. \A c \in ToSet(cs) : Spares(c, b, Events \ ToSet(es))
    BY <1>5 DEF Spares
  <2> QED
    BY <1>4, <2>1, RunSpares
<1>9. ASSUME NEW b \in Buffers, NEW e \in ToSet(es), Covered(g, b, s)
      PROVE  Keeps(DoAll(g, cs), b, e)
  <2>1. PICK h : RunsAlong(h, g, cs) /\ DoAll(g, cs) = h[Len(cs)]
    BY <1>4, RunAlong
  <2>2. PICK i \in 1 .. n : e = es[i]
    BY <1>1, Members
  <2> DEFINE Good(k) == Covered(h[k], b, s) /\ (k >= i => Keeps(h[k], b, e))
             D == {k \in 0 .. n : ~Good(k)}
  <2>3. SUFFICES ASSUME D # {} PROVE FALSE
    BY <1>1, <1>4, <2>1, <2>2
  <2>4. PICK m \in D : m \in 0 .. n /\ \A k \in 0 .. n : k < m => k \notin D
    <3>1. D \in SUBSET (0 .. n)
      OBVIOUS
    <3> HIDE DEF D
    <3> QED
      BY <2>3, <3>1, LeastUpTo
  <2>5. ~Good(m)
    BY <2>4
  <2>6. Good(0)
    BY <1>9, <2>1, <2>2 DEF RunsAlong
  <2>7. m \in 1 .. n /\ m - 1 \in 0 .. n /\ m - 1 < m
    BY <2>4, <2>5, <2>6
  <2>8. Good(m - 1)
    BY <2>4, <2>7
  <2>9. h[m - 1] \in Orders /\ h[m] = Do(h[m - 1], Record(s, es[m])) /\ es[m] \in Events
    BY <1>1, <1>4, <2>1, <2>7 DEF RunsAlong
  <2>10. /\ Carried(h[m - 1], h[m], b, Events \ {es[m]})
         /\ Covered(h[m - 1], b, s) => Keeps(h[m], b, es[m])
    BY <2>9, RecordOrders
  <2>11. e \in Events
    BY <1>1, <2>2
  <2>12. Covered(h[m], b, s)
    BY <2>8, <2>10 DEF Carried
  <2>13. ASSUME m >= i PROVE Keeps(h[m], b, e)
    <3>1. CASE es[m] = e
      BY <2>8, <2>10, <3>1
    <3>2. CASE es[m] # e
      <4>1. m - 1 >= i
        BY <2>2, <2>7, <2>13, <3>2
      <4>2. Keeps(h[m - 1], b, e) /\ e \in Events \ {es[m]}
        BY <2>8, <2>11, <3>2, <4>1
      <4> QED
        BY <2>10, <4>2 DEF Carried
    <3> QED
      BY <3>1, <3>2
  <2> QED
    BY <2>5, <2>12, <2>13
<1> QED
  BY <1>4, <1>6, <1>7, <1>8, <1>9 DEF cs

\* A prefill fills the rows l gives and the beams.
LEMMA PrefillEffect ==
    ASSUME NEW rs \in Seq(Reqs), NEW l \in [Reqs -> Leases \cup {None}], StreamsTyped
    PROVE  LET cs == PrefillCommands(rs, l)
               h == DoAll(gpu, cs)
               T == Rows(rs, l) \cup Beams(rs)
           IN
           /\ cs \in Seq(Commands) /\ h \in Orders
           /\ \A b \in Data : Covered(gpu, b, "host") =>
                 \/ Covered(h, b, "default")
                 \/ \A r \in ToSet(rs) : Keeps(h, b, PrefillEvent(r))
           /\ \A b \in Data \ T : Carried(gpu, h, b, MainEvents \ {PrefillEvent(r) : r \in ToSet(rs)})
           /\ \A k \in DataKinds :
                 /\ k \notin gpu.races
                 /\ \A b \in T : b[1] = k => Covered(gpu, b, "host")
                 => k \notin h.races
<1> DEFINE s == PrefillStream
           side == s = "prefill"
           es == <<LastPrefill>> \o AllStored
           n == Len(rs)
           reads == {<<"stage", "prefill_ids">>} \cup Uploaded(n)
           writes == {<<"indptr", 0>>} \cup Rows(rs, l) \cup Beams(rs)
           T == Rows(rs, l) \cup Beams(rs)
           op == Op(s, reads, writes)
           pes == PrefillEvents(rs)
           first == IF side THEN WaitAll(s, es) ELSE <<>>
           third == <<Record(s, Synced), Wait("host", Synced), op>>
           last == IF side THEN <<Record(s, LastPrefill)>> \o RecordAll(s, pes) ELSE <<>>
           cs == PrefillCommands(rs, l)
           g1 == DoAll(gpu, first)
           g2 == DoAll(g1, Upload(s, n))
           g3 == DoAll(g2, Stage(s, "prefill_ids"))
           ga == Do(g3, Record(s, Synced))
           gb == Do(ga, Wait("host", Synced))
           g4 == Do(gb, op)
           h == DoAll(g4, last)
<1>1. /\ s \in {"prefill", "default"} /\ s \in Actors /\ s \in Streams /\ "host" \in Actors
      /\ "default" \in Actors /\ "prefill_ids" \in Names
  BY DEF PrefillStream, Actors, Streams, Names
<1>2. LastPrefill \in Events /\ Synced \in Events
  BY EventTypes
<1>3. es \in Seq(Events)
  <2>1. <<LastPrefill>> \in Seq(Events)
    BY <1>2
  <2> QED
    BY <2>1, AllStoredEvents, ConcatMembers
<1>4. n \in Nat /\ gpu \in Orders
  BY DEF StreamsTyped
<1>5. /\ T \in SUBSET Data /\ reads \in SUBSET Buffers /\ writes \in SUBSET Buffers
      /\ T \subseteq reads \cup writes /\ \A b \in (reads \cup writes) \ T : b[1] \notin DataKinds
  <2>1. T \in SUBSET Data
    BY DataBuffers
  <2>2. \A k \in 1 .. n : <<"ring", Slot(k)>> \in Buffers /\ <<"ring", Slot(k)>>[1] \notin DataKinds
    <3>1. \A k \in 1 .. n : Slot(k) \in 0 .. Ring - 1
      BY <1>1, <1>4, UploadCommands DEF StreamsTyped
    <3> QED
      BY <3>1 DEF Buffers, DataKinds
  <2>3. \A b \in Uploaded(n) : b \in Buffers /\ b[1] \notin DataKinds
    BY <2>2 DEF Uploaded
  <2>4. /\ <<"stage", "prefill_ids">> \in Buffers /\ <<"stage", "prefill_ids">>[1] \notin DataKinds
        /\ <<"indptr", 0>> \in Buffers /\ <<"indptr", 0>>[1] \notin DataKinds
    BY <1>1 DEF Buffers, DataKinds
  <2> QED
    BY <2>1, <2>3, <2>4, DataFacts
<1>6. pes \in Seq(Events) /\ ToSet(pes) = {PrefillEvent(r) : r \in ToSet(rs)}
      /\ DOMAIN pes = DOMAIN rs /\ \A i \in DOMAIN rs : pes[i] = PrefillEvent(rs[i])
  BY PrefillEventsOf DEF PrefillEvents
<1>7. cs = first \o Upload(s, n) \o Stage(s, "prefill_ids") \o third \o last
  <2>1. RecordAll(s, pes) = [i \in DOMAIN rs |-> Record(s, PrefillEvent(rs[i]))]
    BY <1>6 DEF RecordAll
  <2> QED
    BY <2>1 DEF PrefillCommands
<1>8. /\ op \in Commands /\ Record(s, Synced) \in Commands /\ Wait("host", Synced) \in Commands
      /\ Record(s, LastPrefill) \in Commands
  BY <1>1, <1>2, <1>5, CommandTypes
<1> HIDE DEF s, es, n, reads, writes, T, op, pes, first, third, last, cs
<1>9. /\ first \in Seq(Commands) /\ g1 \in Orders
      /\ \A k \in Kinds : k \notin gpu.races => k \notin g1.races
      /\ \A b \in Buffers : Carried(gpu, g1, b, Events)
  <2>1. CASE side
    BY <1>1, <1>3, <1>4, <2>1, WaitAllOrders DEF first
  <2>2. CASE ~side
    <3>1. first = <<>> /\ first \in Seq(Commands)
      BY <2>2 DEF first
    <3>2. g1 = gpu
      BY <1>4, <3>1, RunShort
    <3> QED
      BY <1>4, <3>1, <3>2 DEF Carried
  <2> QED
    BY <2>1, <2>2
<1>10. /\ Upload(s, n) \in Seq(Commands) /\ g2 \in Orders
       /\ \A k \in DataKinds : k \notin g1.races => k \notin g2.races
       /\ \A b \in Data : Carried(g1, g2, b, Events)
  <2> HIDE DEF g1
  <2>1. /\ Upload(s, n) \in Seq(Commands)
        /\ Spared(Upload(s, n), Kinds \ {"ring", "ringpin"}, Events)
    BY <1>1, <1>4, UploadCommands, UploadSpares DEF StreamsTyped
  <2>2. g2 \in Orders /\ Passes(g1, g2, Kinds \ {"ring", "ringpin"}, Events)
    BY <1>9, <2>1, SparedPasses
  <2> HIDE DEF g2
  <2> QED
    BY <2>1, <2>2, DataFacts DEF Passes
<1>11. /\ Stage(s, "prefill_ids") \in Seq(Commands) /\ g3 \in Orders
       /\ \A k \in DataKinds : k \notin g2.races => k \notin g3.races
       /\ \A b \in Data : Carried(g2, g3, b, MainEvents)
  <2> HIDE DEF g2
  <2> QED
    BY <1>1, <1>10, StageSpares
<1>12. /\ ga \in Orders /\ ga.races = g3.races /\ \A b : Carried(g3, ga, b, Events \ {Synced})
  <2> HIDE DEF g3
  <2> QED
    BY <1>1, <1>2, <1>11, RecordOrders
<1>13. /\ gb \in Orders /\ gb.races = ga.races /\ \A b : Carried(ga, gb, b, Events)
  <2> HIDE DEF ga
  <2> QED
    BY <1>1, <1>2, <1>12, WaitOrders
<1>14. /\ g4 \in Orders
       /\ \A b \in Data \ T : Carried(gb, g4, b, Events)
       /\ \A b \in Data : Covered(gb, b, s) => Covered(g4, b, s)
       /\ \A k \in DataKinds : /\ k \notin gb.races
                               /\ \A b \in T : b[1] = k => Covered(gb, b, s)
                               => k \notin g4.races
  <2> HIDE DEF gb
  <2> QED
    BY <1>1, <1>5, <1>13, OpEffect DEF op
<1>15. /\ last \in Seq(Commands) /\ h \in Orders
       /\ \A k \in Kinds : k \notin g4.races => k \notin h.races
       /\ \A b \in Buffers : Carried(g4, h, b, Events \ ({LastPrefill} \cup ToSet(pes)))
       /\ side => \A b \in Buffers, e \in ToSet(pes) : Covered(g4, b, s) => Keeps(h, b, e)
  <2> HIDE DEF g4
  <2>1. CASE side
    <3> DEFINE a == Do(g4, Record(s, LastPrefill))
               c == DoAll(a, RecordAll(s, pes))
    <3>1. /\ a \in Orders /\ a.races = g4.races /\ \A b : Carried(g4, a, b, Events \ {LastPrefill})
      BY <1>1, <1>2, <1>14, RecordOrders
    <3>2. /\ RecordAll(s, pes) \in Seq(Commands) /\ c \in Orders
          /\ \A k \in Kinds : k \notin a.races => k \notin c.races
          /\ \A b \in Buffers : Carried(a, c, b, Events \ ToSet(pes))
          /\ \A b \in Buffers, e \in ToSet(pes) : Covered(a, b, s) => Keeps(c, b, e)
      <4> HIDE DEF a
      <4> QED
        BY <1>1, <1>6, <3>1, RecordAllOrders
    <3>3. PICK u \in Seq(Commands), v \in Seq(Commands) :
            u = <<Record(s, LastPrefill)>> /\ v = RecordAll(s, pes)
      <4>1. <<Record(s, LastPrefill)>> \in Seq(Commands)
        BY <1>8
      <4> QED
        BY <3>2, <4>1, Zenon
    <3>4. last = u \o v
      BY <2>1, <3>3, Zenon DEF last
    <3>5. DoAll(g4, u) = a
      BY <1>8, <1>14, <3>3, RunShort
    <3>6. last \in Seq(Commands) /\ h = c
      <4>1. u \o v \in Seq(Commands)
        BY ConcatMembers
      <4>2. DoAll(g4, u \o v) = DoAll(DoAll(g4, u), v)
        BY <1>14, RunConcat
      <4>3. DoAll(DoAll(g4, u), v) = c
        BY <3>3, <3>5
      <4> HIDE DEF a, c
      <4> QED
        BY <3>4, <4>1, <4>2, <4>3
    <3> HIDE DEF a, c, h
    <3>7. \A b : Covered(g4, b, s) => Covered(a, b, s)
      BY <1>1, <3>1 DEF Carried
    <3>8. \A b \in Buffers : Carried(g4, c, b, Events \ ({LastPrefill} \cup ToSet(pes)))
      BY <3>1, <3>2 DEF Carried
    <3> QED
      BY <3>1, <3>2, <3>6, <3>7, <3>8
  <2>2. CASE ~side
    <3>1. last = <<>> /\ last \in Seq(Commands)
      BY <2>2 DEF last
    <3>2. h = g4
      BY <1>14, <3>1, RunShort
    <3> QED
      BY <1>14, <2>2, <3>1, <3>2 DEF Carried
  <2> QED
    BY <2>1, <2>2
<1>16. cs \in Seq(Commands) /\ DoAll(gpu, cs) = h
  <2>1. third \in Seq(Commands) /\ DoAll(g3, third) = g4
    BY <1>8, <1>11, RunTriple DEF third
  <2>2. PICK v \in Seq(Commands), w \in Seq(Commands) :
          v = Upload(s, n) /\ w = Stage(s, "prefill_ids")
    BY <1>10, <1>11, Zenon
  <2>3. cs = first \o v \o w \o third \o last
    BY <1>7, <2>2, Zenon
  <2>4. cs \in Seq(Commands)
        /\ DoAll(gpu, cs) = DoAll(DoAll(DoAll(DoAll(DoAll(gpu, first), v), w), third), last)
    BY <1>4, <1>9, <1>15, <2>1, <2>3, RunFiveLists
  <2> QED
    BY <2>1, <2>2, <2>4
<1> HIDE DEF g1, g2, g3, ga, gb, g4, h
<1>17. ASSUME NEW b \in Data, NEW a \in Actors, Covered(gpu, b, a) PROVE Covered(gb, b, a)
  <2>1. /\ Carried(gpu, g1, b, Events) /\ Carried(g1, g2, b, Events) /\ Carried(g2, g3, b, MainEvents)
        /\ Carried(g3, ga, b, Events \ {Synced}) /\ Carried(ga, gb, b, Events)
    BY <1>9, <1>10, <1>11, <1>12, <1>13, DataFacts
  <2> QED
    BY <1>17, <2>1 DEF Carried
<1>18. ASSUME NEW b \in Data, Covered(gpu, b, "host")
       PROVE  /\ Covered(gb, b, s)
              /\ Covered(h, b, "default") \/ \A r \in ToSet(rs) : Keeps(h, b, PrefillEvent(r))
  <2>1. Covered(gpu, b, s)
    BY <1>1, <1>18, CoveredByHost
  <2>2. Covered(gb, b, s)
    BY <1>1, <1>17, <2>1
  <2>3. Covered(g4, b, s)
    BY <1>14, <2>2
  <2>4. CASE side
    BY <1>6, <1>15, <2>2, <2>3, <2>4, DataFacts
  <2>5. CASE ~side
    <3>1. s = "default"
      BY <1>1, <2>5
    <3> QED
      BY <1>1, <1>15, <2>2, <2>3, <3>1, DataFacts DEF Carried
  <2> QED
    BY <2>4, <2>5
<1>19. ASSUME NEW b \in Data \ T
       PROVE  Carried(gpu, h, b, MainEvents \ {PrefillEvent(r) : r \in ToSet(rs)})
  <2>1. /\ Carried(gpu, g1, b, Events) /\ Carried(g1, g2, b, Events) /\ Carried(g2, g3, b, MainEvents)
        /\ Carried(g3, ga, b, Events \ {Synced}) /\ Carried(ga, gb, b, Events)
        /\ Carried(gb, g4, b, Events)
        /\ Carried(g4, h, b, Events \ ({LastPrefill} \cup ToSet(pes)))
    BY <1>9, <1>10, <1>11, <1>12, <1>13, <1>14, <1>15, DataFacts
  <2>2. \A e \in MainEvents \ {PrefillEvent(r) : r \in ToSet(rs)} :
          e \in Events /\ e # Synced /\ e # LastPrefill /\ e \notin ToSet(pes)
    BY <1>6, DataFacts, MainEventFacts
  <2> QED
    BY <2>1, <2>2 DEF Carried
<1>20. ASSUME NEW k \in DataKinds, k \notin gpu.races,
              \A b \in T : b[1] = k => Covered(gpu, b, "host")
       PROVE  k \notin h.races
  <2>1. k \notin gb.races
    BY <1>9, <1>10, <1>11, <1>12, <1>13, <1>20, DataFacts
  <2>2. \A b \in T : b[1] = k => Covered(gb, b, s)
    BY <1>5, <1>18, <1>20
  <2> QED
    BY <1>14, <1>15, <2>1, <2>2, DataFacts
<1> QED
  BY <1>15, <1>16, <1>18, <1>19, <1>20 DEF cs, T

LEMMA EventsOfTypes ==
    ASSUME NEW done
    PROVE  EventsOf(done) \in Seq(Events)
<1> DEFINE ss == [i \in 1 .. NPipes |->
                    IF ToSet(pipes[i - 1]) \cap ToSet(done) # {} THEN Stored(i - 1) ELSE <<>>]
<1>1. NPipes \in Nat /\ Serial = NPipes /\ Serial \in 0 .. Serial
  BY PipesAreNumbered DEF Serial
<1>2. \A i \in 1 .. NPipes : i - 1 \in 0 .. Serial
  BY <1>1
<1>3. \A i \in 1 .. NPipes : Stored(i - 1) \in Seq(Events)
  BY <1>2, StoredEvents
<1>4. <<>> \in Seq(Events)
  OBVIOUS
<1>5. ss \in Seq(Seq(Events))
  BY <1>1, <1>3, <1>4
<1>6. FlattenSeq(ss) \in Seq(Events)
  <2> HIDE DEF ss
  <2> QED
    BY <1>5, FlattenMembers
<1>7. Stored(Serial) \in Seq(Events)
  BY <1>1, StoredEvents
<1> QED
  BY <1>6, <1>7 DEF EventsOf

\* A release: what the expand stream has seen of a request, the host has.
LEMMA CompleteEffect ==
    ASSUME NEW done \in Seq(Reqs), StreamsTyped
    PROVE  LET cs == CompleteCommands(done)
               h == DoAll(gpu, cs)
           IN
           /\ cs \in Seq(Commands) /\ h \in Orders
           /\ \A b \in Data : Covered(gpu, b, "expand") => Covered(h, b, "host")
           /\ \A b \in Data \ Beams(done) : Carried(gpu, h, b, MainEvents)
           /\ \A k \in DataKinds :
                 /\ k \notin gpu.races
                 /\ \A b \in Beams(done) : b[1] = k => Covered(gpu, b, "expand")
                 => k \notin h.races
<1> DEFINE s == IF active /\ overlap THEN "prefill" ELSE "default"
           es == EventsOf(done)
           T == Beams(done)
           op == Op("copy", T, {})
           a1 == Record("expand", ExpandNow)
           a2 == Wait("copy", ExpandNow)
           a4 == Record("copy", CopyDone)
           a5 == Wait("host", CopyDone)
           third == <<a1, a2, op, a4, a5>>
           cs == CompleteCommands(done)
           g1 == DoAll(gpu, WaitAll(s, es))
           g2 == DoAll(g1, WaitAll("copy", es))
           g3 == Do(g2, a1)
           g4 == Do(g3, a2)
           g5 == Do(g4, op)
           g6 == Do(g5, a4)
           h == Do(g6, a5)
<1>1. /\ s \in Actors /\ "copy" \in Actors /\ "expand" \in Actors /\ "host" \in Actors
      /\ gpu \in Orders
  BY DEF Actors, Streams, StreamsTyped
<1>2. ExpandNow \in Events /\ CopyDone \in Events
  BY EventTypes
<1>3. es \in Seq(Events)
  BY EventsOfTypes
<1>4. /\ T \in SUBSET Data /\ T \in SUBSET Buffers /\ {} \in SUBSET Buffers
      /\ T \subseteq T \cup {} /\ \A b \in (T \cup {}) \ T : b[1] \notin DataKinds
  BY DataBuffers, DataFacts
<1>5. /\ op \in Commands /\ a1 \in Commands /\ a2 \in Commands /\ a4 \in Commands /\ a5 \in Commands
  BY <1>1, <1>2, <1>4, CommandTypes
<1>6. cs = WaitAll(s, es) \o WaitAll("copy", es) \o third
  BY DEF CompleteCommands
<1> HIDE DEF s, es, T, op, a1, a2, a4, a5, third, cs
<1>7. /\ WaitAll(s, es) \in Seq(Commands) /\ g1 \in Orders
      /\ \A k \in Kinds : k \notin gpu.races => k \notin g1.races
      /\ \A b \in Buffers : Carried(gpu, g1, b, Events)
  BY <1>1, <1>3, WaitAllOrders
<1>8. /\ WaitAll("copy", es) \in Seq(Commands) /\ g2 \in Orders
      /\ \A k \in Kinds : k \notin g1.races => k \notin g2.races
      /\ \A b \in Buffers : Carried(g1, g2, b, Events)
  <2> HIDE DEF g1
  <2> QED
    BY <1>1, <1>3, <1>7, WaitAllOrders
<1>9. /\ g3 \in Orders /\ g3.races = g2.races /\ \A b : Carried(g2, g3, b, Events \ {ExpandNow})
      /\ \A b : Covered(g2, b, "expand") => Keeps(g3, b, ExpandNow)
  <2> HIDE DEF g2
  <2> QED
    BY <1>1, <1>2, <1>8, RecordOrders DEF a1
<1>10. /\ g4 \in Orders /\ g4.races = g3.races /\ \A b : Carried(g3, g4, b, Events)
       /\ \A b : Keeps(g3, b, ExpandNow) => Covered(g4, b, "copy")
  <2> HIDE DEF g3
  <2> QED
    BY <1>1, <1>2, <1>9, WaitOrders DEF a2
<1>11. /\ g5 \in Orders
       /\ \A b \in Data \ T : Carried(g4, g5, b, Events)
       /\ \A b \in Data : Covered(g4, b, "copy") => Covered(g5, b, "copy")
       /\ \A k \in DataKinds : /\ k \notin g4.races
                               /\ \A b \in T : b[1] = k => Covered(g4, b, "copy")
                               => k \notin g5.races
  <2> HIDE DEF g4
  <2> QED
    BY <1>1, <1>4, <1>10, OpEffect DEF op
<1>12. /\ g6 \in Orders /\ g6.races = g5.races /\ \A b : Carried(g5, g6, b, Events \ {CopyDone})
       /\ \A b : Covered(g5, b, "copy") => Keeps(g6, b, CopyDone)
  <2> HIDE DEF g5
  <2> QED
    BY <1>1, <1>2, <1>11, RecordOrders DEF a4
<1>13. /\ h \in Orders /\ h.races = g6.races /\ \A b : Carried(g6, h, b, Events)
       /\ \A b : Keeps(g6, b, CopyDone) => Covered(h, b, "host")
  <2> HIDE DEF g6
  <2> QED
    BY <1>1, <1>2, <1>12, WaitOrders DEF a5
<1>14. cs \in Seq(Commands) /\ DoAll(gpu, cs) = h
  <2>1. third \in Seq(Commands) /\ DoAll(g2, third) = h
    BY <1>5, <1>8, RunFive DEF third
  <2>2. PICK v \in Seq(Commands), w \in Seq(Commands) :
          v = WaitAll(s, es) /\ w = WaitAll("copy", es)
    BY <1>7, <1>8, Zenon
  <2>3. cs = v \o w \o third
    BY <1>6, <2>2, Zenon
  <2>4. cs \in Seq(Commands) /\ DoAll(gpu, cs) = DoAll(DoAll(DoAll(gpu, v), w), third)
    BY <1>1, <2>1, <2>3, RunThreeLists
  <2> QED
    BY <2>1, <2>2, <2>4
<1> HIDE DEF g1, g2, g3, g4, g5, g6, h
<1>15. ASSUME NEW b \in Data, Covered(gpu, b, "expand")
       PROVE  Covered(g4, b, "copy") /\ Covered(h, b, "host")
  <2>1. Carried(gpu, g1, b, Events) /\ Carried(g1, g2, b, Events)
    BY <1>7, <1>8, DataFacts
  <2>2. Covered(g2, b, "expand")
    BY <1>1, <1>15, <2>1 DEF Carried
  <2> QED
    BY <1>9, <1>10, <1>11, <1>12, <1>13, <2>2
<1>16. ASSUME NEW b \in Data \ T PROVE Carried(gpu, h, b, MainEvents)
  <2>1. /\ Carried(gpu, g1, b, Events) /\ Carried(g1, g2, b, Events)
        /\ Carried(g2, g3, b, Events \ {ExpandNow}) /\ Carried(g3, g4, b, Events)
        /\ Carried(g4, g5, b, Events) /\ Carried(g5, g6, b, Events \ {CopyDone})
        /\ Carried(g6, h, b, Events)
    BY <1>7, <1>8, <1>9, <1>10, <1>11, <1>12, <1>13, DataFacts
  <2>2. \A e \in MainEvents : e \in Events /\ e # ExpandNow /\ e # CopyDone
    BY DataFacts, MainEventFacts
  <2> QED
    BY <2>1, <2>2 DEF Carried
<1>17. ASSUME NEW k \in DataKinds, k \notin gpu.races,
              \A b \in T : b[1] = k => Covered(gpu, b, "expand")
       PROVE  k \notin h.races
  <2>1. k \notin g4.races
    BY <1>7, <1>8, <1>9, <1>10, <1>17, DataFacts
  <2>2. \A b \in T : b[1] = k => Covered(g4, b, "copy")
    BY <1>4, <1>15, <1>17
  <2> QED
    BY <1>11, <1>12, <1>13, <2>1, <2>2
<1> QED
  BY <1>13, <1>14, <1>15, <1>16, <1>17 DEF cs, T

\* A sync only waits, but for the events it forgets when the pipeline begins.
SyncCommands(passed) ==
    (IF active THEN <<>> ELSE DropAll(AllStored))
    \o [i \in DOMAIN passed |-> Wait("host", PrefillEvent(passed[i]))]
    \o (IF active /\ ~active' THEN WaitAll("default", AllStored) \o DropAll(AllStored) ELSE <<>>)

LEMMA SyncEffect ==
    ASSUME NEW passed \in Seq(Reqs), StreamsTyped, active => active'
    PROVE  LET cs == SyncCommands(passed)
               h == DoAll(gpu, cs)
           IN
           /\ cs \in Seq(Commands) /\ h \in Orders
           /\ \A k \in Kinds : k \notin gpu.races => k \notin h.races
           /\ \A b \in Buffers : Carried(gpu, h, b, IF active THEN Events ELSE Events \ ToSet(AllStored))
<1> DEFINE first == IF active THEN <<>> ELSE DropAll(AllStored)
           pes == PrefillEvents(passed)
           cs == SyncCommands(passed)
           g1 == DoAll(gpu, first)
           h == DoAll(g1, WaitAll("host", pes))
           E == IF active THEN Events ELSE Events \ ToSet(AllStored)
<1>1. gpu \in Orders /\ "host" \in Actors
  BY DEF StreamsTyped, Actors
<1>2. pes \in Seq(Events)
  BY PrefillEventsOf
<1>3. cs = first \o WaitAll("host", pes) \o <<>>
  BY PrefillEventsOf DEF SyncCommands
<1> HIDE DEF first, pes, cs
<1>4. /\ first \in Seq(Commands) /\ g1 \in Orders
      /\ \A k \in Kinds : k \notin gpu.races => k \notin g1.races
      /\ \A b \in Buffers : Carried(gpu, g1, b, E)
  <2>1. CASE active
    <3>1. first = <<>> /\ first \in Seq(Commands)
      BY <2>1 DEF first
    <3>2. g1 = gpu
      BY <1>1, <3>1, RunShort
    <3> QED
      BY <1>1, <3>1, <3>2 DEF Carried
  <2>2. CASE ~active
    BY <1>1, <2>2, AllStoredEvents, DropAllOrders DEF first
  <2> QED
    BY <2>1, <2>2
<1>5. /\ WaitAll("host", pes) \in Seq(Commands) /\ h \in Orders
      /\ \A k \in Kinds : k \notin g1.races => k \notin h.races
      /\ \A b \in Buffers : Carried(g1, h, b, Events)
  <2> HIDE DEF g1
  <2> QED
    BY <1>1, <1>2, <1>4, WaitAllOrders
<1>6. cs \in Seq(Commands) /\ DoAll(gpu, cs) = h
  <2>1. PICK v \in Seq(Commands), w \in Seq(Commands) : v = WaitAll("host", pes) /\ w = <<>>
    <3>1. <<>> \in Seq(Commands)
      OBVIOUS
    <3> QED
      BY <1>5, <3>1, Zenon
  <2>2. cs = first \o v \o w
    BY <1>3, <2>1, Zenon
  <2>3. cs \in Seq(Commands) /\ DoAll(gpu, cs) = DoAll(DoAll(DoAll(gpu, first), v), w)
    BY <1>1, <1>4, <2>2, RunThreeLists
  <2>4. DoAll(h, w) = h
    BY <1>5, <2>1, RunShort
  <2> QED
    BY <2>1, <2>3, <2>4
<1> HIDE DEF g1, h
<1>7. \A b \in Buffers : Carried(gpu, h, b, E)
  BY <1>4, <1>5 DEF Carried
<1> QED
  BY <1>4, <1>5, <1>6, <1>7 DEF cs

-----------------------------------------------------------------------------
(* The steps of DeviceStreams are steps of DecodePipeline. *)

LEMMA DeviceSteps ==
    /\ SInit => Init
    /\ SNext => Next
    /\ [SNext]_svars => [Next]_vars
<1>1. SInit => Init
  BY DEF SInit
<1>2. ASSUME SNext PROVE Next
  <2>1. \/ \E rs \in Batches : Prefill(rs)
        \/ \E r \in Reqs : PrefillDone(r)
        \/ Sync \/ Launch \/ ProcessPicked \/ SerialStep \/ Release
        \/ StartSerial \/ PickIdlePipe \/ NothingToLaunch
    BY <1>2 DEF SNext, SPrefill, SPrefillDone, SSync, SLaunch, SProcessPicked, SSerialStep,
       SRelease, SStartSerial, SPickIdlePipe, SNothingToLaunch
  <2> QED
    BY <2>1 DEF Next, TickStep
<1>3. ASSUME UNCHANGED svars PROVE UNCHANGED vars
  BY <1>3 DEF svars
<1> QED
  BY <1>1, <1>2, <1>3

\* SelectInSeq finds the launch of a pipe that is in flight.
LEMMA SelectsLaunch ==
    ASSUME Inv, NEW i \in Pipe, Inflight(queue, i)
    PROVE  LET k == SelectInSeq(queue, LAMBDA l : l.pid = i)
           IN  k \in 1 .. Len(queue) /\ queue[k].pid = i
<1>1. PICK I : I = {k \in 1 .. Len(queue) : queue[k].pid = i}
  OBVIOUS
<1>2. PICK n \in Nat : n = Len(queue)
  BY DEF Inv, TypedPlace
<1>3. I # {} /\ I \in SUBSET (0 .. n)
  BY <1>1, <1>2 DEF Inflight
<1>4. PICK m \in I : \A k \in 0 .. n : k < m => k \notin I
  BY <1>3, LeastUpTo
<1>5. \A k \in I : m <= k
  BY <1>3, <1>4
<1>6. PICK k : k = SelectInSeq(queue, LAMBDA l : l.pid = i)
  OBVIOUS
<1>7. k = Min(I)
  BY <1>1, <1>3, <1>6 DEF SelectInSeq
<1>8. k \in I
  BY <1>4, <1>5, <1>7 DEF Min
<1> QED
  BY <1>1, <1>6, <1>8

\* A pipe has one launch out at most.
LEMMA OneLaunch ==
    ASSUME Inv, NEW k \in 1 .. Len(queue), NEW n \in 1 .. Len(queue), queue[k].pid = queue[n].pid
    PROVE  k = n
<1>1. \A a, b \in 1 .. Len(queue) : a < b => queue[a].pid # queue[b].pid
  <2>1. Len(queue) \in Nat
    BY DEF Inv, TypedPlace
  <2> QED
    BY <2>1 DEF Inv, OneForwardOut
<1> QED
  BY <1>1

LEMMA NoAlternative ==
    ASSUME NEW ps, NEW t \in Pipe, Inflight(queue, t), Alternatives(ps, t) = {},
           NEW i \in Pipe, HasLive(ps, i)
    PROVE  Inflight(queue, i)
<1>1. SUFFICES ASSUME ~Inflight(queue, i) PROVE FALSE
  OBVIOUS
<1>2. PICK n : n = NPipes - 1 /\ n \in Nat
  BY PipesAreNumbered
<1> DEFINE D == {k \in 1 .. n : ~Inflight(queue, After(t, k)) /\ HasLive(ps, After(t, k))}
<1>3. i # t
  BY <1>1
<1>4. \E k \in 1 .. n : i = After(t, k)
  BY <1>2, <1>3, AfterReaches
<1>5. D # {} /\ D \in SUBSET (0 .. n)
  BY <1>1, <1>2, <1>4
<1>6. PICK k \in D : \A m \in 0 .. n : m < k => m \notin D
  <2> HIDE DEF D
  <2> QED
    BY <1>2, <1>5, LeastUpTo
<1>7. \A m \in 1 .. n : m < k => ~(~Inflight(queue, After(t, m)) /\ HasLive(ps, After(t, m)))
  BY <1>2, <1>6
<1>8. After(t, k) \in Alternatives(ps, t)
  BY <1>2, <1>6, <1>7 DEF Alternatives, FirstFrom
<1> QED
  BY <1>8

LEMMA PicksOne ==
    ASSUME Inv, NEW ps, NEW t \in Picks(ps), NEW u \in Picks(ps)
    PROVE  t = u
<1>1. /\ HasLive(ps, t) /\ HasLive(ps, u)
      /\ \E k \in 0 .. NPipes - 1 : t = After(turn, k) /\ \A m \in 0 .. k - 1 : ~HasLive(ps, After(turn, m))
      /\ \E k \in 0 .. NPipes - 1 : u = After(turn, k) /\ \A m \in 0 .. k - 1 : ~HasLive(ps, After(turn, m))
  BY PicksFirst
<1>2. PICK a \in 0 .. NPipes - 1 : t = After(turn, a) /\ \A m \in 0 .. a - 1 : ~HasLive(ps, After(turn, m))
  BY <1>1
<1>3. PICK b \in 0 .. NPipes - 1 : u = After(turn, b) /\ \A m \in 0 .. b - 1 : ~HasLive(ps, After(turn, m))
  BY <1>1
<1>4. NPipes \in Nat
  BY PipesAreNumbered
<1>5. ~(a < b) /\ ~(b < a)
  BY <1>1, <1>2, <1>3, <1>4
<1> QED
  BY <1>2, <1>3, <1>4, <1>5

\* Nothing fails here: a request is never dropped, a new one is not finished, and
\* between ticks nothing that runs is.
Control ==
    /\ \A r \in Reqs : status[r] # "dropped"
    /\ \A r \in Reqs : status[r] = "new" => left[r] # 0
    /\ pc \in {"idle", "serial"} => \A r \in ToSet(running) : left[r] # 0

\* A sync leaves the pipeline active, a launched pipe launched, and a running
\* request in its pipe.
SyncedActive ==
    /\ pc = "idle" /\ pc' = "next" /\ active' = TRUE
    /\ queue' = queue
    /\ UNCHANGED <<running, status, left, ready>>
    /\ active => \A i \in Pipe : ToSet(pipes[i]) \cap ToSet(running) \subseteq ToSet(pipes'[i])

LEMMA SyncStays ==
    ASSUME Inv, Control, Sync PROVE SyncedActive
<1> DEFINE known == {r \in ToSet(running) : ~active \/ \E i \in Pipe : r \in ToSet(pipes[i])}
           newcomers == ToSet(running) \ known
           late == {r \in newcomers : ~ready[r]}
           new == Only(running, newcomers \ late)
           newWave == known = {} /\ late = {} /\ Len(running) >= 2 /\ queue = <<>> /\ pending = <<>>
           split == ~active \/ newWave
           full == FreePipes(queue) = {}
<1>1. /\ pc = "idle" /\ running # <<>>
      /\ pipes' = IF split THEN Buckets(running) ELSE IF full THEN Kept ELSE Spread(Kept, FreePipes(queue), new)
      /\ queue' = IF active THEN queue ELSE <<>>
      /\ active' \in IF queue' = <<>> /\ pending' = <<>> /\ held' = {}
                        /\ \A i \in Pipe : ~HasLive(pipes', i)
                     THEN BOOLEAN ELSE {TRUE}
      /\ pc' = IF active' THEN "next" ELSE "serial"
      /\ UNCHANGED <<running, status, left, ready>>
  BY DEF Sync
<1>2. /\ running \in Seq(Reqs) /\ ToSet(running) \subseteq Reqs
      /\ pipes \in [Pipe -> Seq(Reqs)]
  BY Members DEF Inv, TypedRequests, TypedPlace
<1>3. queue' = queue
  BY <1>1 DEF Inv, Clear
<1>4. active' = TRUE
  <2>1. SUFFICES ASSUME queue' = <<>>, pending' = <<>>, held' = {},
                        \A i \in Pipe : ~HasLive(pipes', i)
                 PROVE  FALSE
    BY <1>1
  <2>2. PICK rs : SyncedPlaces(rs)
    BY SyncPlaces
  <2>3. Partition(pipes', Parked', held') /\ Parked' = <<>>
    BY <2>1, <2>2, NothingParked DEF SyncedPlaces, Parked
  <2>4. ToSet(running) = Listed(pipes')
    BY <2>1, <2>3, NothingParked DEF Partition
  <2>5. PICK r : r \in ToSet(running)
    BY <1>1, <1>2, Members
  <2>6. PICK i \in Pipe : r \in ToSet(pipes'[i])
    BY <2>4, <2>5 DEF Listed
  <2>7. left[r] # 0
    BY <1>1, <2>5 DEF Control
  <2> QED
    BY <2>1, <2>6, <2>7 DEF HasLive, Finished
<1>5. ASSUME active, NEW i \in Pipe, NEW r, r \in ToSet(pipes[i]), r \in ToSet(running)
      PROVE  r \in ToSet(pipes'[i])
  <2>1. r \in known
    BY <1>5
  <2>2. ~split
    BY <1>5, <2>1
  <2>3. PICK new2 \in Seq(Reqs) : new2 = new
    <3>1. PICK S : S = newcomers \ late
      OBVIOUS
    <3>2. Only(running, S) \in Seq(Reqs)
      BY <1>2, OnlyMembers
    <3> QED
      BY <3>1, <3>2
  <2>4. pipes' = IF full THEN Kept ELSE Spread(Kept, FreePipes(queue), new2)
    BY <1>1, <2>2, <2>3
  <2> HIDE DEF known, newcomers, late, new, newWave, split
  <2>5. PICK kept, S : kept = Kept /\ S = ToSet(running)
    OBVIOUS
  <2>6. PICK ps \in [Pipe -> Seq(Reqs)] : ps = pipes
    BY <1>2
  <2>7. KeptOf(kept, ps, S)
    <3>1. kept = [j \in Pipe |-> Only(ps[j], S)]
      BY <2>5, <2>6 DEF Kept
    <3> QED
      BY <3>1, OnlyOfPipes
  <2>8. r \in ToSet(kept[i]) /\ kept \in [Pipe -> Seq(Reqs)]
    BY <1>5, <2>5, <2>6, <2>7 DEF KeptOf
  <2>9. CASE full
    BY <2>4, <2>5, <2>8, <2>9
  <2>10. CASE ~full
    <3>1. Deals(Spread(kept, FreePipes(queue), new2), kept, FreePipes(queue), new2)
      BY <2>3, <2>8, <2>10, SpreadDeals
    <3> QED
      BY <2>4, <2>5, <2>8, <2>10, <3>1 DEF Deals
  <2> QED
    BY <2>9, <2>10
<1> QED
  BY <1>1, <1>3, <1>4, <1>5 DEF SyncedActive

\* A round that processes the launch k of pipe t.
ProcessedBy(t, k) ==
    /\ t \in Pipe /\ HasLive(pipes, t) /\ TakenOff(t, k)
    /\ \A i \in Pipe : HasLive(pipes, i) => Inflight(queue, i)
    /\ Run(ProcessCommands(t, queue[k].reqs, result[t], GoesOn(queue[k].reqs)))
    /\ result' = [result EXCEPT ![t] = None]
    /\ epoch' = [epoch EXCEPT !["exp_col_eager"] = 1 - @]
    /\ pc = "next"
    /\ \/ pc' = "launch" /\ current' = t
       \/ pc' = "next" /\ \A r \in ToSet(pipes'[t]) : ~(left'[r] > 0)
    /\ UNCHANGED <<overlap, lease, at, forgotten, running, status, ready, active, held>>

LEMMA ProcessesOne ==
    ASSUME Inv, SProcessPicked PROVE \E t, k : ProcessedBy(t, k)
<1>1. pc = "next" /\ UNCHANGED <<running, status, ready, active, held>>
  BY DEF SProcessPicked, ProcessPicked
<1>2. Round.pipes = pipes
  BY <1>1, RoundSame
<1>3. PICK t \in Picks(pipes) :
        /\ Inflight(queue, t) /\ Alternatives(pipes, t) = {} /\ Process(t)
        /\ IF Inflight(queue', t) THEN pc' = "release" /\ UNCHANGED <<turn, current>>
           ELSE IF \E r \in ToSet(pipes'[t]) : left'[r] > 0 THEN ToLaunch(t)
           ELSE turn' = After(t, 1) /\ UNCHANGED <<current, pc>>
  BY <1>2 DEF SProcessPicked, ProcessPicked
<1>4. PICK u \in Picks(pipes) : Processes(u)
  BY <1>2 DEF SProcessPicked
<1>5. u = t /\ t \in Pipe /\ HasLive(pipes, t)
  BY PicksOne, PicksArePipes, PicksFirst
<1>6. PICK k : TakenOff(t, k)
  BY <1>1, <1>3, <1>5, ProcessTakes
<1>7. PICK n : n = SelectInSeq(queue, LAMBDA l : l.pid = t)
  OBVIOUS
<1>8. n \in 1 .. Len(queue) /\ queue[n].pid = t
  BY <1>3, <1>5, <1>7, SelectsLaunch
<1>9. n = k
  BY <1>6, <1>8, OneLaunch DEF TakenOff
<1>10. /\ Run(ProcessCommands(t, queue[k].reqs, result[t], GoesOn(queue[k].reqs)))
       /\ result' = [result EXCEPT ![t] = None]
       /\ epoch' = [epoch EXCEPT !["exp_col_eager"] = 1 - @]
       /\ UNCHANGED <<overlap, lease, at, forgotten>>
  <2>1. PICK rs : rs = queue[SelectInSeq(queue, LAMBDA l : l.pid = t)].reqs
    OBVIOUS
  <2>2. /\ Run(ProcessCommands(t, rs, result[t], GoesOn(rs)))
        /\ result' = [result EXCEPT ![t] = None]
        /\ epoch' = [epoch EXCEPT !["exp_col_eager"] = 1 - @]
        /\ UNCHANGED <<overlap, lease, at, forgotten>>
    BY <1>4, <1>5, <2>1 DEF Processes
  <2>3. rs = queue[k].reqs
    BY <1>7, <1>9, <2>1
  <2> QED
    BY <2>2, <2>3
<1>11. \A i \in Pipe : HasLive(pipes, i) => Inflight(queue, i)
  BY <1>3, <1>5, NoAlternative
<1>12. \/ pc' = "launch" /\ current' = t
       \/ pc' = "next" /\ \A r \in ToSet(pipes'[t]) : ~(left'[r] > 0)
  <2>1. ~Inflight(queue', t)
    BY <1>6 DEF TakenOff
  <2>2. CASE \E r \in ToSet(pipes'[t]) : left'[r] > 0
    BY <1>3, <2>1, <2>2 DEF ToLaunch
  <2>3. CASE ~\E r \in ToSet(pipes'[t]) : left'[r] > 0
    BY <1>1, <1>3, <2>1, <2>3
  <2> QED
    BY <2>2, <2>3
<1>13. ProcessedBy(t, k)
  BY <1>1, <1>5, <1>6, <1>10, <1>11, <1>12 DEF ProcessedBy
<1> QED
  BY <1>13

LEMMA ControlHolds ==
    ASSUME Inv, Control, SNext PROVE Control'
<1>1. /\ running \in Seq(Reqs) /\ ToSet(running) \subseteq Reqs /\ left \in [Reqs -> Nat]
      /\ status \in [Reqs -> {"new", "running", "done", "dropped"}]
      /\ \A r \in Reqs : r \in ToSet(running) <=> status[r] = "running"
  BY Members DEF Inv, TypedRequests, Runs
<1>2. ASSUME NEW rs \in Batches, SPrefill(rs) PROVE Control'
  <2>1. /\ rs \in Seq(Reqs) /\ \A r \in ToSet(rs) : r \in Reqs /\ status[r] = "new"
    BY BatchOfNew
  <2>2. /\ pc = "idle" /\ running' = running \o rs /\ UNCHANGED <<left, pc>>
        /\ status' = [r \in Reqs |-> IF r \in ToSet(rs) THEN "running" ELSE status[r]]
    BY <1>2 DEF SPrefill, Prefill
  <2>3. ToSet(running') = ToSet(running) \cup ToSet(rs)
    BY <1>1, <2>1, <2>2, ConcatMembers
  <2> QED
    BY <2>1, <2>2, <2>3 DEF Control
<1>3. ASSUME NEW r \in Reqs, SPrefillDone(r) PROVE Control'
  BY <1>3 DEF SPrefillDone, PrefillDone, Control
<1>4. CASE SSync
  <2>1. SyncedActive
    BY <1>4, SyncStays DEF SSync
  <2> QED
    BY <2>1 DEF SyncedActive, Control
<1>5. CASE SLaunch
  BY <1>5 DEF SLaunch, Launch, Control
<1>6. CASE SProcessPicked
  <2>1. PICK t, k : ProcessedBy(t, k)
    BY <1>6, ProcessesOne
  <2>2. /\ k \in 1 .. Len(queue) /\ left' = Expanded(queue[k].reqs) /\ UNCHANGED <<running, status>>
        /\ pc' \notin {"idle", "serial"}
    BY <2>1 DEF ProcessedBy, TakenOff
  <2>3. \A r \in ToSet(queue[k].reqs) : status[r] # "new"
    BY <2>2 DEF Inv, NoneNew
  <2>4. \A r \in Reqs \ ToSet(queue[k].reqs) : left'[r] = left[r]
    BY <2>2, ExpandedType
  <2> QED
    BY <2>2, <2>3, <2>4 DEF Control
<1>7. CASE SSerialStep
  <2>1. left' = Expanded(running) /\ pc' = "release" /\ UNCHANGED <<running, status>>
    BY <1>7 DEF SSerialStep, SerialStep
  <2>2. \A r \in Reqs \ ToSet(running) : left'[r] = left[r]
    BY <2>1, ExpandedType
  <2> QED
    BY <1>1, <2>1, <2>2 DEF Control
<1>8. CASE SRelease
  <2>1. /\ running' = Without(running, Released)
        /\ status' = [r \in Reqs |-> IF r \in Released THEN "done" ELSE status[r]]
        /\ UNCHANGED left
    BY <1>8 DEF SRelease, Release
  <2>2. ToSet(running') = ToSet(running) \cap (Reqs \ Released)
    BY <1>1, <2>1, OnlyMembers DEF Without
  <2>3. \A r \in ToSet(running') : left'[r] # 0
    BY <2>1, <2>2 DEF Released, Finished
  <2> QED
    BY <2>1, <2>3 DEF Control
<1>9. CASE SStartSerial \/ SPickIdlePipe \/ SNothingToLaunch
  BY <1>9 DEF SStartSerial, StartSerial, SPickIdlePipe, PickIdlePipe, ToLaunch,
     SNothingToLaunch, NothingToLaunch, Control
<1> QED
  BY <1>2, <1>3, <1>4, <1>5, <1>6, <1>7, <1>8, <1>9 DEF SNext

\* What is leased: a request that runs has a lease, its own; a pipe that is in
\* flight has a result, its own.
LeasesApart ==
    /\ \A r \in Reqs : lease[r] # None <=> status[r] = "running"
    /\ \A r, q \in Reqs : r # q /\ lease[r] = lease[q] => lease[r] = None

ResultsApart ==
    /\ \A p \in 0 .. Serial : result[p] # None <=> Inflight(queue, p)
    /\ \A p, q \in 0 .. Serial : p # q /\ result[p] = result[q] => result[p] = None

Books == StreamsTyped /\ Control /\ LeasesApart /\ ResultsApart

LEMMA SerialPipe ==
    /\ Serial \in 0 .. Serial /\ Serial \notin Pipe /\ Pipe \subseteq 0 .. Serial
    /\ 0 .. Serial = Pipe \cup {Serial}
<1>1. NPipes \in Nat /\ NPipes >= 2
  BY PipesAreNumbered
<1> QED
  BY <1>1 DEF Serial, Pipe

\* No forward is out on the pipe id None.
LEMMA SerialIdle ==
    ASSUME Inv PROVE ~Inflight(queue, Serial)
<1>1. \A k \in 1 .. Len(queue) : queue[k].pid \in Pipe
  BY LaunchTypes
<1> QED
  BY <1>1, SerialPipe DEF Inflight

LEMMA FreeBlock ==
    ASSUME Inv, Books, NEW x \in FreeBlocks
    PROVE  x \in Blocks /\ x # None /\ \A p \in 0 .. Serial : result[p] # x
<1>1. result[Serial] = None /\ Serial \in 0 .. Serial
  BY SerialIdle, SerialPipe DEF Books, ResultsApart
<1> QED
  BY <1>1 DEF FreeBlocks

\* A launch of the decode forward.
LaunchedWith(block) ==
    /\ block \in FreeBlocks
    /\ pc = "launch" /\ pc' = "release" /\ active = TRUE
    /\ gpu' = DoAll(gpu, LaunchCommands(current, Launched, block))
    /\ result' = [result EXCEPT ![current] = block]
    /\ queue' = Append(queue, [pid |-> current, reqs |-> Launched])
    /\ at' = Slot(1)
    /\ UNCHANGED <<overlap, lease, epoch, forgotten, running, status, left, active, pipes, turn,
                   current, pending, held>>

LEMMA LaunchesOne ==
    ASSUME Inv, SLaunch PROVE \E block : LaunchedWith(block)
<1>1. PICK block \in FreeBlocks : /\ Run(LaunchCommands(current, Launched, block))
                                  /\ result' = [result EXCEPT ![current] = block]
  BY DEF SLaunch
<1>2. /\ pc = "launch" /\ pc' = "release"
      /\ queue' = Append(queue, [pid |-> current, reqs |-> Launched])
      /\ UNCHANGED <<running, status, left, active, pipes, turn, current, pending, held>>
  BY DEF SLaunch, Launch
<1>3. at' = Slot(1) /\ UNCHANGED <<overlap, lease, epoch, forgotten>>
  BY DEF SLaunch
<1>4. active = TRUE
  BY <1>2 DEF Inv, Places, TypedPlace
<1>5. LaunchedWith(block)
  BY <1>1, <1>2, <1>3, <1>4 DEF LaunchedWith, Run, DoAll
<1> QED
  BY <1>5

\* A serial step.
SteppedWith(block) ==
    /\ block \in FreeBlocks
    /\ pc = "serial" /\ pc' = "release" /\ active = FALSE /\ queue = <<>>
    /\ Run(LaunchCommands(Serial, Ordered(running), block)
           \o ProcessCommands(Serial, Ordered(running), block, GoesOn(Ordered(running))))
    /\ left' = Expanded(running)
    /\ epoch' = [epoch EXCEPT !["exp_col_eager"] = 1 - @]
    /\ at' = Slot(1)
    /\ UNCHANGED <<overlap, lease, result, forgotten, running, status, ready, active, pipes, turn,
                   current, queue, pending, held>>

LEMMA StepsOne ==
    ASSUME Inv, SSerialStep PROVE \E block : SteppedWith(block)
<1>1. PICK rs : rs = Ordered(running)
  OBVIOUS
<1>2. PICK block \in FreeBlocks :
        Run(LaunchCommands(Serial, rs, block) \o ProcessCommands(Serial, rs, block, GoesOn(rs)))
  BY <1>1 DEF SSerialStep
<1>3. /\ pc = "serial" /\ pc' = "release" /\ left' = Expanded(running)
      /\ UNCHANGED <<running, status, ready, active, pipes, turn, current, queue, pending, held>>
  BY DEF SSerialStep, SerialStep, place
<1>4. /\ epoch' = [epoch EXCEPT !["exp_col_eager"] = 1 - @] /\ at' = Slot(1)
      /\ UNCHANGED <<overlap, lease, result, forgotten>>
  BY DEF SSerialStep
<1>5. active = FALSE /\ queue = <<>>
  BY <1>3 DEF Inv, Clear, TypedPlace
<1>6. SteppedWith(block)
  BY <1>1, <1>2, <1>3, <1>4, <1>5 DEF SteppedWith
<1> QED
  BY <1>6

LEMMA SlotType ==
    ASSUME StreamsTyped, NEW n \in Nat PROVE Slot(n) \in 0 .. Ring - 1
<1>1. at \in 0 .. Ring - 1 /\ Ring \in Nat \ {0}
  BY StreamsAssumption DEF StreamsTyped
<1> QED
  BY <1>1 DEF Slot

LEMMA GoesOnMembers ==
    ASSUME NEW rs \in Seq(Reqs)
    PROVE  /\ GoesOn(rs) \in Seq(Reqs)
           /\ ToSet(GoesOn(rs)) = {r \in ToSet(rs) : left'[r] > 0}
<1>1. PICK S : S = {r \in Reqs : left'[r] > 0}
  OBVIOUS
<1>2. Only(rs, S) \in Seq(Reqs) /\ ToSet(Only(rs, S)) = ToSet(rs) \cap S
  BY OnlyMembers
<1>3. GoesOn(rs) = Only(rs, S)
  BY <1>1 DEF GoesOn
<1>4. ToSet(rs) \subseteq Reqs
  BY Members
<1> QED
  BY <1>1, <1>2, <1>3, <1>4

\* The commands of a serial step, one half after the other.
LEMMA StepOrders ==
    ASSUME NEW g \in Orders, NEW p \in 0 .. Serial, NEW rs \in Seq(Reqs), NEW block \in Blocks,
           NEW on \in Seq(Reqs), StreamsTyped
    PROVE  LET g1 == DoAll(g, LaunchCommands(p, rs, block)) IN
           /\ g1 \in Orders
           /\ DoAll(g1, ProcessCommands(p, rs, block, on)) \in Orders
           /\ DoAll(g, LaunchCommands(p, rs, block) \o ProcessCommands(p, rs, block, on))
                = DoAll(g1, ProcessCommands(p, rs, block, on))
<1>1. PICK u : u = LaunchCommands(p, rs, block)
  OBVIOUS
<1>2. PICK v : v = ProcessCommands(p, rs, block, on)
  OBVIOUS
<1>3. u \in Seq(Commands) /\ DoAll(g, u) \in Orders
  BY <1>1, LaunchEffect
<1>4. PICK g1 \in Orders : g1 = DoAll(g, u)
  BY <1>3
<1>5. v \in Seq(Commands) /\ DoAll(g1, v) \in Orders
  BY <1>2, ProcessEffect
<1>6. DoAll(g, u \o v) = DoAll(DoAll(g, u), v)
  BY <1>3, <1>5, RunConcat
<1> QED
  BY <1>1, <1>2, <1>3, <1>4, <1>5, <1>6

LEMMA EpochType ==
    ASSUME StreamsTyped, NEW n \in Names
    PROVE  [epoch EXCEPT ![n] = 1 - @] \in [Names -> 0 .. 1]
<1>1. epoch \in [Names -> 0 .. 1] /\ epoch[n] \in 0 .. 1
  BY DEF StreamsTyped
<1>2. 1 - epoch[n] \in 0 .. 1
  BY <1>1
<1> QED
  BY <1>1, <1>2

\* What a prefill of rs leases.
PrefilledWith(rs) ==
    /\ pc = "idle" /\ rs \in Seq(Reqs)
    /\ \A r \in ToSet(rs) : r \in Reqs /\ status[r] = "new" /\ lease[r] = None
    /\ ToSet(running') = ToSet(running) \cup ToSet(rs)
    /\ status' = [r \in Reqs |-> IF r \in ToSet(rs) THEN "running" ELSE status[r]]
    /\ lease' \in [Reqs -> Leases \cup {None}]
    /\ \A r \in ToSet(rs) : lease'[r] # None /\ \A q \in Reqs : lease[q] # lease'[r]
    /\ \A r, q \in ToSet(rs) : lease'[r] = lease'[q] => r = q
    /\ \A r \in Reqs \ ToSet(rs) : lease'[r] = lease[r]
    /\ gpu' = DoAll(gpu, PrefillCommands(rs, lease'))
    /\ epoch' = [epoch EXCEPT !["prefill_ids"] = 1 - @]
    /\ at' = Slot(Len(rs))
    /\ UNCHANGED <<overlap, result, forgotten, left, active, pipes, turn, current, queue,
                   pending, held, pc>>

LEMMA PrefillLeases ==
    ASSUME Inv, Books, NEW rs \in Batches, SPrefill(rs) PROVE PrefilledWith(rs)
<1>1. /\ rs \in Seq(Reqs) /\ \A r \in ToSet(rs) : r \in Reqs /\ status[r] = "new"
  BY BatchOfNew
<1>2. rs # <<>>
  BY DEF Batches
<1>3. \A r \in ToSet(rs) : lease[r] = None
  <2>1. \A r \in Reqs : lease[r] # None <=> status[r] = "running"
    BY DEF Books, LeasesApart
  <2> QED
    BY <1>1, <2>1
<1>4. PICK free \in [ToSet(rs) -> Leases \ Leased] :
        /\ IsInjective(free)
        /\ lease' = [r \in Reqs |-> IF r \in ToSet(rs) THEN free[r] ELSE lease[r]]
  BY DEF SPrefill
<1>5. None \in Leased
  <2>1. PICK r \in ToSet(rs) : TRUE
    BY <1>1, <1>2, Members
  <2> QED
    BY <1>1, <1>3, <2>1 DEF Leased
<1>6. lease \in [Reqs -> Leases \cup {None}] /\ running \in Seq(Reqs)
  BY DEF Books, StreamsTyped, Inv, TypedRequests
<1>7. \A r \in ToSet(rs) : free[r] \in Leases /\ free[r] # None /\ \A q \in Reqs : lease[q] # free[r]
  BY <1>4, <1>5 DEF Leased
<1>8. \A r \in ToSet(rs) : lease'[r] = free[r]
  BY <1>1, <1>4
<1>9. lease' \in [Reqs -> Leases \cup {None}]
  BY <1>4, <1>6, <1>7
<1>10. \A r \in Reqs \ ToSet(rs) : lease'[r] = lease[r]
  BY <1>4
<1>11. \A r, q \in ToSet(rs) : lease'[r] = lease'[q] => r = q
  BY <1>4, <1>8 DEF IsInjective
<1>12. /\ pc = "idle" /\ running' = running \o rs
       /\ status' = [r \in Reqs |-> IF r \in ToSet(rs) THEN "running" ELSE status[r]]
       /\ UNCHANGED <<left, active, pipes, turn, current, queue, pending, held, pc>>
  BY DEF SPrefill, Prefill, place
<1>13. ToSet(running') = ToSet(running) \cup ToSet(rs)
  BY <1>1, <1>6, <1>12, ConcatMembers
<1>14. /\ gpu' = DoAll(gpu, PrefillCommands(rs, lease'))
       /\ epoch' = [epoch EXCEPT !["prefill_ids"] = 1 - @]
       /\ at' = Slot(Len(rs))
       /\ UNCHANGED <<overlap, result, forgotten>>
  BY DEF SPrefill, Run, DoAll
<1> QED
  BY <1>1, <1>3, <1>7, <1>8, <1>9, <1>10, <1>11, <1>12, <1>13, <1>14 DEF PrefilledWith

LEMMA PrefillBooks ==
    ASSUME Inv, Books, NEW rs \in Batches, SPrefill(rs)
    PROVE  StreamsTyped' /\ LeasesApart' /\ ResultsApart'
<1>1. PrefilledWith(rs)
  BY PrefillLeases
<1>2. StreamsTyped /\ rs \in Seq(Reqs) /\ lease' \in [Reqs -> Leases \cup {None}]
  BY <1>1 DEF Books, PrefilledWith
<1>3. gpu' \in Orders
  <2>1. PICK l \in [Reqs -> Leases \cup {None}] : l = lease'
    BY <1>2
  <2>2. DoAll(gpu, PrefillCommands(rs, l)) \in Orders
    BY <1>2, PrefillEffect
  <2> QED
    BY <1>1, <2>1, <2>2 DEF PrefilledWith
<1>4. at' \in 0 .. Ring - 1
  <2>1. Len(rs) \in Nat
    BY <1>2
  <2> QED
    BY <1>1, <1>2, <2>1, SlotType DEF PrefilledWith
<1>5. epoch' \in [Names -> 0 .. 1]
  <2>1. "prefill_ids" \in Names
    BY DEF Names
  <2> QED
    BY <1>1, <1>2, <2>1, EpochType DEF PrefilledWith
<1>6. StreamsTyped'
  BY <1>1, <1>2, <1>3, <1>4, <1>5 DEF PrefilledWith, StreamsTyped
<1>7. LeasesApart
  BY DEF Books
<1>8. \A r \in Reqs : lease'[r] # None <=> status'[r] = "running"
  BY <1>1, <1>7 DEF PrefilledWith, LeasesApart
<1>9. ASSUME NEW r \in Reqs, NEW q \in Reqs, r # q, lease'[r] = lease'[q] PROVE lease'[r] = None
  <2>1. CASE r \in ToSet(rs) /\ q \in ToSet(rs)
    BY <1>1, <1>9, <2>1 DEF PrefilledWith
  <2>2. CASE r \in ToSet(rs) /\ q \notin ToSet(rs)
    BY <1>1, <1>9, <2>2 DEF PrefilledWith
  <2>3. CASE r \notin ToSet(rs) /\ q \in ToSet(rs)
    BY <1>1, <1>9, <2>3 DEF PrefilledWith
  <2>4. CASE r \notin ToSet(rs) /\ q \notin ToSet(rs)
    BY <1>1, <1>7, <1>9, <2>4 DEF PrefilledWith, LeasesApart
  <2> QED
    BY <2>1, <2>2, <2>3, <2>4
<1>10. LeasesApart'
  BY <1>8, <1>9 DEF LeasesApart
<1>11. UNCHANGED <<result, queue>>
  BY <1>1 DEF PrefilledWith
<1>12. ResultsApart'
  BY <1>11 DEF Books, ResultsApart, Inflight
<1> QED
  BY <1>6, <1>10, <1>12

\* A sync: the requests whose prefill it notices are waited for by the host.
LEMMA SyncRuns ==
    ASSUME Inv, Books, SSync
    PROVE  /\ SyncedActive
           /\ \E passed \in Seq(Reqs) : gpu' = DoAll(gpu, SyncCommands(passed))
           /\ forgotten' = (forgotten \/ (~active /\ Unwaited))
           /\ UNCHANGED <<overlap, lease, result, epoch, at>>
<1>1. SyncedActive
  BY SyncStays DEF SSync, Books
<1>2. PICK known : known = UNION {ToSet(pipes[i]) : i \in Pipe}
  OBVIOUS
<1>3. PICK passed : passed = Only(running, {r \in ToSet(running) \ known : ready[r]})
  OBVIOUS
<1>4. passed \in Seq(Reqs)
  BY <1>3, OnlyMembers DEF Inv, TypedRequests
<1>5. gpu' = DoAll(gpu, SyncCommands(passed))
  BY <1>2, <1>3 DEF SSync, Run, DoAll, SyncCommands
<1>6. /\ forgotten' = (forgotten \/ (~active /\ Unwaited))
      /\ UNCHANGED <<overlap, lease, result, epoch, at>>
  BY DEF SSync
<1> QED
  BY <1>1, <1>4, <1>5, <1>6

LEMMA SyncBooks ==
    ASSUME Inv, Books, SSync PROVE StreamsTyped' /\ LeasesApart' /\ ResultsApart'
<1>1. PICK passed \in Seq(Reqs) : gpu' = DoAll(gpu, SyncCommands(passed))
  BY SyncRuns
<1>2. /\ SyncedActive /\ forgotten' = (forgotten \/ (~active /\ Unwaited))
      /\ UNCHANGED <<overlap, lease, result, epoch, at>>
  BY SyncRuns
<1>3. gpu' \in Orders
  BY <1>1, <1>2, SyncEffect DEF Books, SyncedActive
<1>4. StreamsTyped'
  BY <1>2, <1>3 DEF Books, StreamsTyped
<1>5. queue' = queue /\ status' = status
  BY <1>2 DEF SyncedActive
<1> QED
  BY <1>2, <1>4, <1>5 DEF Books, LeasesApart, ResultsApart, Inflight

LEMMA LaunchBooks ==
    ASSUME Inv, Books, SLaunch PROVE StreamsTyped' /\ LeasesApart' /\ ResultsApart'
<1>1. PICK block : LaunchedWith(block)
  BY LaunchesOne
<1>2. block \in FreeBlocks
  BY <1>1 DEF LaunchedWith
<1>3. block \in Blocks /\ block # None /\ \A p \in 0 .. Serial : result[p] # block
  BY <1>2, FreeBlock
<1>4. StreamsTyped /\ current \in Pipe /\ current \in 0 .. Serial
  BY SerialPipe DEF Books, Inv, TypedPlace
<1>5. Launched \in Seq(Reqs) /\ pc = "launch"
  BY <1>1, LaunchedMembers DEF LaunchedWith
<1>6. gpu' \in Orders
  <2>1. gpu \in Orders
    BY <1>4 DEF StreamsTyped
  <2> QED
    BY <1>1, <1>3, <1>4, <1>5, <2>1, LaunchEffect DEF LaunchedWith
<1>7. at' \in 0 .. Ring - 1
  BY <1>1, <1>4, SlotType DEF LaunchedWith
<1>8. /\ result' = [result EXCEPT ![current] = block] /\ result \in [0 .. Serial -> Blocks \cup {None}]
  BY <1>1, <1>4 DEF LaunchedWith, StreamsTyped
<1>9. StreamsTyped'
  BY <1>1, <1>3, <1>4, <1>6, <1>7, <1>8 DEF LaunchedWith, StreamsTyped
<1>10. UNCHANGED <<lease, status>>
  BY <1>1 DEF LaunchedWith
<1>11. LeasesApart'
  BY <1>10 DEF Books, LeasesApart
<1>12. \A p \in 0 .. Serial : Inflight(queue', p) <=> Inflight(queue, p) \/ p = current
  <2>1. PICK x : x = [pid |-> current, reqs |-> Launched]
    OBVIOUS
  <2>2. x \in Launches /\ x.pid = current /\ queue \in Seq(Launches)
    BY <1>4, <1>5, <2>1 DEF Launches, Inv, TypedPlace
  <2>3. queue' = Append(queue, x)
    BY <1>1, <2>1 DEF LaunchedWith
  <2>4. /\ Len(queue') = Len(queue) + 1 /\ Len(queue) \in Nat
        /\ \A k \in 1 .. Len(queue) : queue'[k] = queue[k]
        /\ queue'[Len(queue) + 1] = x
    BY <2>2, <2>3
  <2>5. ASSUME NEW p \in 0 .. Serial, Inflight(queue', p) PROVE Inflight(queue, p) \/ p = current
    <3>1. PICK k \in 1 .. Len(queue') : queue'[k].pid = p
      BY <2>5 DEF Inflight
    <3>2. k \in 1 .. Len(queue) \/ k = Len(queue) + 1
      BY <2>4, <3>1
    <3> QED
      BY <2>2, <2>4, <3>1, <3>2 DEF Inflight
  <2>6. ASSUME NEW p \in 0 .. Serial, Inflight(queue, p) PROVE Inflight(queue', p)
    <3>1. PICK k \in 1 .. Len(queue) : queue[k].pid = p
      BY <2>6 DEF Inflight
    <3>2. k \in 1 .. Len(queue')
      BY <2>4, <3>1
    <3> QED
      BY <2>4, <3>1, <3>2 DEF Inflight
  <2>7. Inflight(queue', current)
    <3>1. Len(queue) + 1 \in 1 .. Len(queue')
      BY <2>4
    <3> QED
      BY <2>2, <2>4, <3>1 DEF Inflight
  <2> QED
    BY <2>5, <2>6, <2>7
<1>13. ResultsApart
  BY DEF Books
<1>14. \A p \in 0 .. Serial : result'[p] = IF p = current THEN block ELSE result[p]
  BY <1>8
<1>15. \A p \in 0 .. Serial : result'[p] # None <=> Inflight(queue', p)
  BY <1>3, <1>12, <1>13, <1>14 DEF ResultsApart
<1>16. \A p, q \in 0 .. Serial : p # q /\ result'[p] = result'[q] => result'[p] = None
  BY <1>3, <1>13, <1>14 DEF ResultsApart
<1> QED
  BY <1>9, <1>11, <1>15, <1>16 DEF ResultsApart

\* The launch that a round processes.
LEMMA ProcessedLaunch ==
    ASSUME Inv, Books, NEW t, NEW k, ProcessedBy(t, k)
    PROVE  /\ t \in Pipe /\ t \in 0 .. Serial /\ Inflight(queue, t) /\ k \in 1 .. Len(queue)
           /\ queue[k].pid = t /\ queue[k].reqs \in Seq(Reqs)
           /\ result[t] \in Blocks /\ result[t] # None
           /\ GoesOn(queue[k].reqs) \in Seq(Reqs)
           /\ gpu' = DoAll(gpu, ProcessCommands(t, queue[k].reqs, result[t], GoesOn(queue[k].reqs)))
           /\ gpu' \in Orders
           /\ \A p \in 0 .. Serial : Inflight(queue', p) <=> Inflight(queue, p) /\ p # t
<1>1. t \in Pipe /\ TakenOff(t, k)
  BY DEF ProcessedBy
<1>2. k \in 1 .. Len(queue) /\ queue[k].pid = t /\ t \in 0 .. Serial
  BY <1>1, SerialPipe DEF TakenOff
<1>3. Inflight(queue, t) /\ queue[k].reqs \in Seq(Reqs)
  BY <1>2, LaunchTypes DEF Inflight
<1>4. result[t] \in Blocks /\ result[t] # None
  BY <1>2, <1>3 DEF Books, ResultsApart, StreamsTyped
<1>5. GoesOn(queue[k].reqs) \in Seq(Reqs)
  BY <1>3, GoesOnMembers
<1>6. gpu' = DoAll(gpu, ProcessCommands(t, queue[k].reqs, result[t], GoesOn(queue[k].reqs)))
  BY DEF ProcessedBy, Run, DoAll
<1>7. gpu' \in Orders
  <2>1. gpu \in Orders /\ StreamsTyped
    BY DEF Books, StreamsTyped
  <2> QED
    BY <1>2, <1>3, <1>4, <1>5, <1>6, <2>1, ProcessEffect
<1>8. \A p \in 0 .. Serial : Inflight(queue', p) <=> Inflight(queue, p) /\ p # t
  <2>1. ASSUME NEW p \in 0 .. Serial, Inflight(queue, p), p # t PROVE Inflight(queue', p)
    <3>1. p \in Pipe
      BY <2>1, SerialIdle, SerialPipe
    <3> QED
      BY <1>1, <2>1, <3>1 DEF TakenOff
  <2>2. ASSUME NEW p \in 0 .. Serial, Inflight(queue', p) PROVE Inflight(queue, p) /\ p # t
    <3>1. PICK n \in 1 .. Len(queue') : queue'[n].pid = p
      BY <2>2 DEF Inflight
    <3>2. PICK q \in Seq(Launches) : q = queue
      BY DEF Inv, TypedPlace
    <3>3. /\ Len(queue') = Len(q) - 1 /\ Len(q) \in Nat
          /\ \A i \in 1 .. Len(q) - 1 : queue'[i] = IF i < k THEN q[i] ELSE q[i + 1]
      <4>1. queue' = RemoveAt(q, k) /\ k \in 1 .. Len(q)
        BY <1>1, <1>2, <3>2 DEF TakenOff
      <4>2. /\ Len(RemoveAt(q, k)) = Len(q) - 1
            /\ \A i \in 1 .. Len(q) - 1 : RemoveAt(q, k)[i] = IF i < k THEN q[i] ELSE q[i + 1]
        BY <4>1, RemovedPosition
      <4> QED
        BY <4>1, <4>2
    <3>4. \E i \in 1 .. Len(q) : queue'[n] = q[i]
      <4>1. n \in 1 .. Len(q) /\ n + 1 \in 1 .. Len(q) /\ n \in 1 .. Len(q) - 1
        BY <3>1, <3>3
      <4> QED
        BY <3>3, <4>1
    <3>5. Inflight(queue, p)
      BY <3>1, <3>2, <3>4 DEF Inflight
    <3>6. p # t
      BY <1>1, <2>2 DEF TakenOff
    <3> QED
      BY <3>5, <3>6
  <2> QED
    BY <2>1, <2>2
<1> QED
  BY <1>1, <1>2, <1>3, <1>4, <1>5, <1>6, <1>7, <1>8

LEMMA ProcessBooks ==
    ASSUME Inv, Books, SProcessPicked PROVE StreamsTyped' /\ LeasesApart' /\ ResultsApart'
<1>1. PICK t, k : ProcessedBy(t, k)
  BY ProcessesOne
<1>2. /\ t \in 0 .. Serial /\ gpu' \in Orders
      /\ \A p \in 0 .. Serial : Inflight(queue', p) <=> Inflight(queue, p) /\ p # t
  BY <1>1, ProcessedLaunch
<1>3. /\ result' = [result EXCEPT ![t] = None]
      /\ epoch' = [epoch EXCEPT !["exp_col_eager"] = 1 - @]
      /\ UNCHANGED <<overlap, lease, at, forgotten, status>>
  BY <1>1 DEF ProcessedBy
<1>4. StreamsTyped'
  <2>1. StreamsTyped /\ "exp_col_eager" \in Names
    BY DEF Books, Names
  <2>2. epoch' \in [Names -> 0 .. 1]
    BY <1>3, <2>1, EpochType
  <2>3. result' \in [0 .. Serial -> Blocks \cup {None}]
    BY <1>3, <2>1 DEF StreamsTyped
  <2> QED
    BY <1>2, <1>3, <2>1, <2>2, <2>3 DEF StreamsTyped
<1>5. LeasesApart'
  BY <1>3 DEF Books, LeasesApart
<1>6. \A p \in 0 .. Serial : result'[p] = IF p = t THEN None ELSE result[p]
  BY <1>2, <1>3 DEF Books, StreamsTyped
<1>7. ResultsApart'
  BY <1>2, <1>6 DEF Books, ResultsApart
<1> QED
  BY <1>4, <1>5, <1>7

LEMMA StepBooks ==
    ASSUME Inv, Books, SSerialStep PROVE StreamsTyped' /\ LeasesApart' /\ ResultsApart'
<1>1. PICK block : SteppedWith(block)
  BY StepsOne
<1>2. /\ StreamsTyped /\ Serial \in 0 .. Serial /\ block \in Blocks /\ Ordered(running) \in Seq(Reqs)
      /\ gpu \in Orders
  BY <1>1, FreeBlock, SerialPipe, OrderedMembers
     DEF Books, StreamsTyped, SteppedWith, Inv, TypedRequests
<1>3. GoesOn(Ordered(running)) \in Seq(Reqs)
  BY <1>2, GoesOnMembers
<1>4. gpu' \in Orders
  BY <1>1, <1>2, <1>3, StepOrders DEF SteppedWith, Run, DoAll
<1>5. at' \in 0 .. Ring - 1
  BY <1>1, <1>2, SlotType DEF SteppedWith
<1>6. /\ epoch' = [epoch EXCEPT !["exp_col_eager"] = 1 - @]
      /\ UNCHANGED <<overlap, lease, result, forgotten, status, queue>>
  BY <1>1 DEF SteppedWith
<1>7. StreamsTyped'
  <2>1. "exp_col_eager" \in Names
    BY DEF Names
  <2>2. epoch' \in [Names -> 0 .. 1]
    BY <1>2, <1>6, <2>1, EpochType
  <2> QED
    BY <1>2, <1>4, <1>5, <1>6, <2>2 DEF StreamsTyped
<1> QED
  BY <1>6, <1>7 DEF Books, LeasesApart, ResultsApart, Inflight

\* What a release does.
ReleasedAll(done) ==
    /\ pc = "release" /\ pc' = "idle"
    /\ done \in Seq(Reqs) /\ ToSet(done) = Released /\ Released \subseteq Reqs
    /\ gpu' = IF done = <<>> THEN gpu ELSE DoAll(gpu, CompleteCommands(done))
    /\ lease' = [r \in Reqs |-> IF r \in Released THEN None ELSE lease[r]]
    /\ status' = [r \in Reqs |-> IF r \in Released THEN "done" ELSE status[r]]
    /\ ToSet(running') = ToSet(running) \ Released
    /\ UNCHANGED <<overlap, result, epoch, at, forgotten, left, active, pipes, turn, current, queue,
                   pending, held>>

LEMMA ReleasesDone ==
    ASSUME Inv, SRelease PROVE \E done : ReleasedAll(done)
<1>1. PICK done : done = Only(running, Released)
  OBVIOUS
<1>2. running \in Seq(Reqs) /\ ToSet(running) \subseteq Reqs
  BY Members DEF Inv, TypedRequests
<1>3. Released \subseteq ToSet(running)
  BY DEF Released
<1>4. done \in Seq(Reqs) /\ ToSet(done) = Released
  <2>1. done \in Seq(Reqs) /\ ToSet(done) = ToSet(running) \cap Released
    <3>1. PICK S : S = Released
      OBVIOUS
    <3>2. PICK s \in Seq(Reqs) : s = running
      BY <1>2
    <3>3. Only(s, S) \in Seq(Reqs) /\ ToSet(Only(s, S)) = ToSet(s) \cap S
      BY OnlyMembers
    <3> QED
      BY <1>1, <3>1, <3>2, <3>3
  <2> QED
    BY <1>3, <2>1
<1>5. /\ pc = "release" /\ pc' = "idle" /\ running' = Without(running, Released)
      /\ status' = [r \in Reqs |-> IF r \in Released THEN "done" ELSE status[r]]
      /\ UNCHANGED <<left, active, pipes, turn, current, queue, pending, held>>
  BY DEF SRelease, Release, place
<1>6. ToSet(running') = ToSet(running) \ Released
  BY <1>2, <1>5, OnlyMembers DEF Without
<1>7. /\ IF done = <<>> THEN UNCHANGED gpu ELSE Run(CompleteCommands(done))
      /\ lease' = [r \in Reqs |-> IF r \in Released THEN None ELSE lease[r]]
      /\ UNCHANGED <<overlap, result, epoch, at, forgotten>>
  BY <1>1 DEF SRelease
<1>8. ReleasedAll(done)
  BY <1>2, <1>3, <1>4, <1>5, <1>6, <1>7 DEF ReleasedAll, Run, DoAll
<1> QED
  BY <1>8

LEMMA ReleaseBooks ==
    ASSUME Inv, Books, SRelease PROVE StreamsTyped' /\ LeasesApart' /\ ResultsApart'
<1>1. PICK done : ReleasedAll(done)
  BY ReleasesDone
<1>2. StreamsTyped /\ done \in Seq(Reqs) /\ gpu \in Orders
  BY <1>1 DEF Books, ReleasedAll, StreamsTyped
<1>3. gpu' \in Orders
  BY <1>1, <1>2, CompleteEffect DEF ReleasedAll
<1>4. /\ lease' = [r \in Reqs |-> IF r \in Released THEN None ELSE lease[r]]
      /\ status' = [r \in Reqs |-> IF r \in Released THEN "done" ELSE status[r]]
      /\ UNCHANGED <<overlap, result, epoch, at, forgotten, queue>>
  BY <1>1 DEF ReleasedAll
<1>5. StreamsTyped'
  BY <1>2, <1>3, <1>4 DEF StreamsTyped
<1>6. LeasesApart'
  BY <1>4 DEF Books, LeasesApart
<1> QED
  BY <1>4, <1>5, <1>6 DEF Books, ResultsApart, Inflight

LEMMA IdleBooks ==
    ASSUME Inv, Books,
           \/ \E r \in Reqs : SPrefillDone(r)
           \/ SStartSerial \/ SPickIdlePipe \/ SNothingToLaunch \/ UNCHANGED svars
    PROVE  StreamsTyped' /\ LeasesApart' /\ ResultsApart'
<1>1. UNCHANGED <<overlap, gpu, lease, result, epoch, at, forgotten, status, queue>>
  BY DEF SPrefillDone, PrefillDone, SStartSerial, StartSerial, SPickIdlePipe, PickIdlePipe,
     SNothingToLaunch, NothingToLaunch, Idle, svars, vars, place
<1> QED
  BY <1>1 DEF Books, StreamsTyped, LeasesApart, ResultsApart, Inflight

LEMMA BooksHold ==
    ASSUME Inv, Books, [SNext]_svars PROVE Books'
<1>1. Control'
  <2>1. CASE SNext
    BY <2>1, ControlHolds DEF Books
  <2>2. CASE UNCHANGED svars
    BY <2>2 DEF svars, vars, Books, Control
  <2> QED
    BY <2>1, <2>2
<1>2. StreamsTyped' /\ LeasesApart' /\ ResultsApart'
  BY PrefillBooks, SyncBooks, LaunchBooks, ProcessBooks, StepBooks, ReleaseBooks, IdleBooks DEF SNext
<1> QED
  BY <1>1, <1>2 DEF Books

-----------------------------------------------------------------------------
(* Pinned staging: only copy_list touches the pins, and it waits for the copy   *)
(* out of a pin before the host refills it.                                    *)

PinEvents == {PinReady(n, k) : n \in Names, k \in 0 .. 1}

PinsHold(g) ==
    /\ "pin" \notin g.races
    /\ \A n \in Names, k \in 0 .. 1 : Keeps(g, <<"pin", n, k>>, PinReady(n, k))

Pinned(cs) ==
    /\ cs \in Seq(Commands)
    /\ \A g \in Orders : PinsHold(g) => PinsHold(DoAll(g, cs))

\* A command that neither touches a pin nor records its event.
Calm(c) ==
    /\ c \in Commands
    /\ c.do = "op" => \A b \in c.reads \cup c.writes : b[1] # "pin"
    /\ c.do \in {"record", "drop"} => c.event \notin PinEvents

LEMMA CalmPins ==
    ASSUME NEW cs \in Seq(Commands), \A c \in ToSet(cs) : Calm(c)
    PROVE  Pinned(cs)
<1>1. {"pin"} \in SUBSET Kinds /\ PinEvents \in SUBSET Events
  BY EventTypes DEF Kinds, PinEvents
<1>2. Spared(cs, {"pin"}, PinEvents)
  BY DEF Spared, Calm
<1>3. ASSUME NEW g \in Orders, PinsHold(g) PROVE PinsHold(DoAll(g, cs))
  <2>1. Passes(g, DoAll(g, cs), {"pin"}, PinEvents)
    BY <1>1, <1>2, SparedPasses
  <2>2. ASSUME NEW n \in Names, NEW k \in 0 .. 1
        PROVE  Keeps(DoAll(g, cs), <<"pin", n, k>>, PinReady(n, k))
    <3>1. <<"pin", n, k>> \in Buffers /\ <<"pin", n, k>>[1] = "pin" /\ PinReady(n, k) \in PinEvents
      BY DEF Buffers, PinEvents
    <3>2. Keeps(g, <<"pin", n, k>>, PinReady(n, k))
      BY <1>3 DEF PinsHold
    <3> QED
      BY <2>1, <3>1, <3>2 DEF Passes, Carried
  <2>3. "pin" \notin DoAll(g, cs).races
    BY <1>3, <2>1 DEF PinsHold, Passes
  <2> QED
    BY <2>2, <2>3 DEF PinsHold
<1> QED
  BY <1>3 DEF Pinned

LEMMA PinsConcat ==
    ASSUME NEW cs, NEW ds, Pinned(cs), Pinned(ds)
    PROVE  Pinned(cs \o ds)
<1>1. cs \in Seq(Commands) /\ ds \in Seq(Commands)
  BY DEF Pinned
<1>2. cs \o ds \in Seq(Commands)
  BY <1>1, ConcatMembers
<1>3. ASSUME NEW g \in Orders, PinsHold(g) PROVE PinsHold(DoAll(g, cs \o ds))
  <2>1. DoAll(g, cs) \in Orders /\ DoAll(g, cs \o ds) = DoAll(DoAll(g, cs), ds)
    BY <1>1, RunConcat
  <2>2. PinsHold(DoAll(g, cs))
    BY <1>3 DEF Pinned
  <2>3. PinsHold(DoAll(DoAll(g, cs), ds))
    BY <2>1, <2>2 DEF Pinned
  <2> QED
    BY <2>1, <2>3
<1> QED
  BY <1>2, <1>3 DEF Pinned

LEMMA CalmShort ==
    ASSUME NEW a, NEW b, NEW c, NEW d, NEW e, Calm(a), Calm(b), Calm(c), Calm(d), Calm(e)
    PROVE  /\ Pinned(<<>>) /\ Pinned(<<a>>) /\ Pinned(<<a, b>>) /\ Pinned(<<a, b, c>>)
           /\ Pinned(<<a, b, c, d, e>>)
<1>1. a \in Commands /\ b \in Commands /\ c \in Commands /\ d \in Commands /\ e \in Commands
  BY DEF Calm
<1>2. \A cs \in Seq(Commands) : ToSet(cs) \subseteq {a, b, c, d, e} => Pinned(cs)
  BY CalmPins
<1>3. /\ <<>> \in Seq(Commands) /\ ToSet(<<>>) = {}
      /\ <<a>> \in Seq(Commands) /\ ToSet(<<a>>) = {a}
      /\ <<a, b>> \in Seq(Commands) /\ ToSet(<<a, b>>) = {a, b}
      /\ <<a, b, c>> \in Seq(Commands) /\ ToSet(<<a, b, c>>) = {a, b, c}
      /\ <<a, b, c, d, e>> \in Seq(Commands) /\ ToSet(<<a, b, c, d, e>>) = {a, b, c, d, e}
  BY <1>1, ShortMembers
<1> QED
  BY <1>2, <1>3

LEMMA CalmEvents ==
    \A e \in MainEvents \cup {Synced, LastPrefill, ExpandNow, CopyDone} : e \in Events /\ e \notin PinEvents
<1>1. \A n \in Names, k \in 0 .. 1 : PinReady(n, k) \notin {Synced, LastPrefill, ExpandNow, CopyDone}
  BY DEF PinReady, Names, Synced, LastPrefill, ExpandNow, CopyDone
<1> QED
  BY <1>1, MainEventFacts, DataFacts, EventTypes DEF PinEvents

LEMMA CalmCommands ==
    /\ \A s \in Actors, e \in Events : Calm(Wait(s, e))
    /\ \A s \in Actors, e \in Events \ PinEvents : Calm(Record(s, e))
    /\ \A e \in Events \ PinEvents : Calm(Drop(e))
    /\ \A s \in Actors, R, W \in SUBSET Buffers :
            (\A b \in R \cup W : b[1] # "pin") => Calm(Op(s, R, W))
<1>1. /\ \A s, e : Wait(s, e).do = "wait" /\ Record(s, e).do = "record" /\ Record(s, e).event = e
      /\ \A e : Drop(e).do = "drop" /\ Drop(e).event = e
      /\ \A s, R, W : Op(s, R, W).do = "op" /\ Op(s, R, W).reads = R /\ Op(s, R, W).writes = W
  BY DEF Wait, Record, Drop, Op
<1> QED
  BY <1>1, CommandTypes DEF Calm

LEMMA WaitsPinned ==
    ASSUME NEW s \in Actors, NEW es \in Seq(Events)
    PROVE  Pinned(WaitAll(s, es))
<1>1. WaitAll(s, es) \in Seq(Commands)
  <2>1. PICK g : g = [past |-> [a \in Actors |-> {}], accesses |-> {}, events |-> [e \in Events |-> {}],
                      races |-> {}]
    OBVIOUS
  <2>2. g \in Orders
    BY <2>1 DEF Orders
  <2> QED
    BY <2>2, WaitAllOrders
<1>2. \A c \in ToSet(WaitAll(s, es)) : \E i \in DOMAIN es : c = Wait(s, es[i])
  BY DEF ToSet, WaitAll
<1>3. \A i \in DOMAIN es : es[i] \in Events
  OBVIOUS
<1> QED
  BY <1>1, <1>2, <1>3, CalmCommands, CalmPins

LEMMA DropsPinned ==
    ASSUME NEW es \in Seq(Events), \A e \in ToSet(es) : e \notin PinEvents
    PROVE  Pinned(DropAll(es))
<1>1. PICK n \in Nat : n = Len(es) /\ DOMAIN es = 1 .. n /\ \A i \in 1 .. n : es[i] \in Events
  OBVIOUS
<1>2. \A i \in 1 .. n : es[i] \notin PinEvents
  BY <1>1, Members
<1>3. \A i \in 1 .. n : Calm(Drop(es[i])) /\ Drop(es[i]) \in Commands
  BY <1>1, <1>2, CalmCommands DEF Calm
<1>4. DropAll(es) = [i \in 1 .. n |-> Drop(es[i])]
  BY <1>1 DEF DropAll
<1>5. DropAll(es) \in Seq(Commands)
  BY <1>3, <1>4
<1>6. \A c \in ToSet(DropAll(es)) : \E i \in 1 .. n : c = Drop(es[i])
  BY <1>4 DEF ToSet
<1> QED
  BY <1>3, <1>5, <1>6, CalmPins

LEMMA RecordsPinned ==
    ASSUME NEW s \in Actors, NEW es \in Seq(Events), \A e \in ToSet(es) : e \notin PinEvents
    PROVE  Pinned(RecordAll(s, es))
<1>1. PICK n \in Nat : n = Len(es) /\ DOMAIN es = 1 .. n /\ \A i \in 1 .. n : es[i] \in Events
  OBVIOUS
<1>2. \A i \in 1 .. n : es[i] \notin PinEvents
  BY <1>1, Members
<1>3. \A i \in 1 .. n : Calm(Record(s, es[i])) /\ Record(s, es[i]) \in Commands
  BY <1>1, <1>2, CalmCommands DEF Calm
<1>4. RecordAll(s, es) = [i \in 1 .. n |-> Record(s, es[i])]
  BY <1>1 DEF RecordAll
<1>5. RecordAll(s, es) \in Seq(Commands)
  BY <1>3, <1>4
<1>6. \A c \in ToSet(RecordAll(s, es)) : \E i \in 1 .. n : c = Record(s, es[i])
  BY <1>4 DEF ToSet
<1> QED
  BY <1>3, <1>5, <1>6, CalmPins

LEMMA UploadPinned ==
    ASSUME NEW s \in Actors, NEW n \in Nat, at \in 0 .. Ring - 1
    PROVE  Pinned(Upload(s, n))
<1>1. Upload(s, n) \in Seq(Commands)
  BY UploadCommands
<1>2. ASSUME NEW c \in ToSet(Upload(s, n)) PROVE Calm(c)
  <2>1. c \in Commands
    BY <1>1, Members
  <2>2. /\ c.do = "op" => \A b \in c.reads \cup c.writes : b[1] \notin Kinds \ {"ring", "ringpin"}
        /\ c.do \in {"record", "drop"} => c.event \notin Events
    BY UploadSpares DEF Spared
  <2>3. "pin" \in Kinds \ {"ring", "ringpin"} /\ PinEvents \subseteq Events
    BY EventTypes DEF Kinds, PinEvents
  <2> QED
    BY <2>1, <2>2, <2>3 DEF Calm
<1> QED
  BY <1>1, <1>2, CalmPins

LEMMA StagePinned ==
    ASSUME NEW s \in Streams, NEW n \in Names, epoch[n] \in 0 .. 1
    PROVE  Pinned(Stage(s, n))
<1> DEFINE pin == <<"pin", n, epoch[n]>>
           stage == <<"stage", n>>
           e == PinReady(n, epoch[n])
<1>1. ASSUME NEW g \in Orders
      PROVE  LET h == DoAll(g, Stage(s, n)) IN
             /\ Stage(s, n) \in Seq(Commands)
             /\ \A b \in Buffers \ {pin, stage} : Carried(g, h, b, Events \ {e})
             /\ Keeps(g, pin, e) => Keeps(h, pin, e)
             /\ "pin" \notin g.races /\ Keeps(g, pin, e) => "pin" \notin h.races
  BY StageOrders
<1>2. Stage(s, n) \in Seq(Commands)
  <2>1. PICK g : g = [past |-> [a \in Actors |-> {}], accesses |-> {}, events |-> [x \in Events |-> {}],
                      races |-> {}]
    OBVIOUS
  <2>2. g \in Orders
    BY <2>1 DEF Orders
  <2> QED
    BY <1>1, <2>2
<1>3. ASSUME NEW g \in Orders, PinsHold(g) PROVE PinsHold(DoAll(g, Stage(s, n)))
  <2>1. PICK h : h = DoAll(g, Stage(s, n))
    OBVIOUS
  <2>2. Keeps(g, pin, e) /\ "pin" \notin g.races
    BY <1>3 DEF PinsHold
  <2>3. "pin" \notin h.races /\ Keeps(h, pin, e)
    BY <1>1, <2>1, <2>2
  <2>4. ASSUME NEW m \in Names, NEW k \in 0 .. 1, ~(m = n /\ k = epoch[n])
        PROVE  Keeps(h, <<"pin", m, k>>, PinReady(m, k))
    <3>1. <<"pin", m, k>> \in Buffers \ {pin, stage}
      BY <2>4 DEF Buffers
    <3>2. PinReady(m, k) \in Events \ {e}
      BY <2>4, EventTypes DEF PinReady
    <3>3. Carried(g, h, <<"pin", m, k>>, Events \ {e})
      BY <1>1, <2>1, <3>1
    <3>4. Keeps(g, <<"pin", m, k>>, PinReady(m, k))
      BY <1>3 DEF PinsHold
    <3> QED
      BY <3>2, <3>3, <3>4 DEF Carried
  <2>5. \A m \in Names, k \in 0 .. 1 : Keeps(h, <<"pin", m, k>>, PinReady(m, k))
    BY <2>3, <2>4
  <2> QED
    BY <2>1, <2>3, <2>5 DEF PinsHold
<1> QED
  BY <1>2, <1>3 DEF Pinned

\* What operations the steps issue, but for the staging, leave the pins alone.
LEMMA NotPins ==
    ASSUME NEW R \in SUBSET Buffers,
           \A b \in R : b[1] \in DataKinds \/ b[1] \in {"stage", "indptr", "ring"}
    PROVE  \A b \in R : b[1] # "pin"
BY DEF DataKinds

LEMMA UploadedFacts ==
    ASSUME StreamsTyped, NEW n \in Nat
    PROVE  Uploaded(n) \in SUBSET Buffers /\ \A b \in Uploaded(n) : b[1] = "ring"
<1>1. \A k \in 1 .. n : <<"ring", Slot(k)>> \in Buffers /\ <<"ring", Slot(k)>>[1] = "ring"
  <2>1. \A k \in 1 .. n : Slot(k) \in 0 .. Ring - 1
    BY SlotType
  <2> QED
    BY <2>1 DEF Buffers
<1> QED
  BY <1>1 DEF Uploaded

LEMMA PrefillPinned ==
    ASSUME StreamsTyped, NEW rs \in Seq(Reqs), NEW l \in [Reqs -> Leases \cup {None}]
    PROVE  Pinned(PrefillCommands(rs, l))
<1> DEFINE s == PrefillStream
           side == s = "prefill"
           es == <<LastPrefill>> \o AllStored
           n == Len(rs)
           reads == {<<"stage", "prefill_ids">>} \cup Uploaded(n)
           writes == {<<"indptr", 0>>} \cup Rows(rs, l) \cup Beams(rs)
           op == Op(s, reads, writes)
           pes == PrefillEvents(rs)
           first == IF side THEN WaitAll(s, es) ELSE <<>>
           second == Upload(s, n)
           third == Stage(s, "prefill_ids")
           fourth == <<Record(s, Synced), Wait("host", Synced), op>>
           start == <<Record(s, LastPrefill)>>
           rest == RecordAll(s, pes)
           last == IF side THEN start \o rest ELSE <<>>
           cs == PrefillCommands(rs, l)
<1>1. /\ s \in Actors /\ s \in Streams /\ "host" \in Actors /\ "prefill_ids" \in Names /\ n \in Nat
      /\ epoch["prefill_ids"] \in 0 .. 1 /\ at \in 0 .. Ring - 1
  BY DEF PrefillStream, Actors, Streams, Names, StreamsTyped
<1>2. LastPrefill \in Events \ PinEvents /\ Synced \in Events \ PinEvents
  BY CalmEvents
<1>3. es \in Seq(Events)
  <2>1. <<LastPrefill>> \in Seq(Events)
    BY <1>2
  <2> QED
    BY <2>1, AllStoredEvents, ConcatMembers
<1>4. pes \in Seq(Events) /\ \A e \in ToSet(pes) : e \notin PinEvents
  <2>1. pes \in Seq(Events) /\ ToSet(pes) = {PrefillEvent(r) : r \in ToSet(rs)}
    BY PrefillEventsOf
  <2>2. \A r \in ToSet(rs) : PrefillEvent(r) \in MainEvents
    BY MainEventFacts, Members
  <2> QED
    BY <2>1, <2>2, CalmEvents
<1>5. Calm(op)
  <2>1. /\ <<"stage", "prefill_ids">> \in Buffers /\ <<"indptr", 0>> \in Buffers
        /\ <<"stage", "prefill_ids">>[1] # "pin" /\ <<"indptr", 0>>[1] # "pin"
    BY <1>1 DEF Buffers
  <2>2. Uploaded(n) \in SUBSET Buffers /\ \A b \in Uploaded(n) : b[1] = "ring"
    BY <1>1, UploadedFacts
  <2>3. /\ Rows(rs, l) \subseteq Data /\ \A b \in Rows(rs, l) : b[1] = "rows"
        /\ Beams(rs) \subseteq Data /\ \A b \in Beams(rs) : b[1] = "beams"
    BY DataBuffers
  <2>4. reads \in SUBSET Buffers /\ writes \in SUBSET Buffers
    BY <2>1, <2>2, <2>3, DataFacts
  <2>5. \A b \in reads \cup writes : b[1] # "pin"
    BY <2>1, <2>2, <2>3
  <2> HIDE DEF reads, writes, s
  <2> QED
    BY <1>1, <2>4, <2>5, CalmCommands
<1>6. cs = first \o second \o third \o fourth \o last
  <2>1. DOMAIN pes = DOMAIN rs /\ \A i \in DOMAIN rs : pes[i] = PrefillEvent(rs[i])
    BY DEF PrefillEvents
  <2>2. rest = [i \in DOMAIN rs |-> Record(s, PrefillEvent(rs[i]))]
    BY <2>1 DEF RecordAll
  <2> QED
    BY <2>2 DEF PrefillCommands
<1> HIDE DEF s, es, n, reads, writes, op, pes
<1>7. Calm(Record(s, Synced)) /\ Calm(Wait("host", Synced)) /\ Calm(Record(s, LastPrefill))
  BY <1>1, <1>2, CalmCommands
<1>8. Pinned(fourth) /\ Pinned(start) /\ Pinned(<<>>)
  BY <1>5, <1>7, CalmShort
<1>9. Pinned(first)
  BY <1>1, <1>3, <1>8, WaitsPinned
<1>10. Pinned(second) /\ Pinned(third)
  BY <1>1, UploadPinned, StagePinned
<1>11. Pinned(rest)
  BY <1>1, <1>4, RecordsPinned
<1> HIDE DEF first, second, third, fourth, start, rest, cs
<1>12. Pinned(last)
  BY <1>8, <1>11, PinsConcat
<1> HIDE DEF last
<1>13. Pinned(first \o second)
  BY <1>9, <1>10, PinsConcat
<1>14. Pinned((first \o second) \o third)
  BY <1>10, <1>13, PinsConcat
<1>15. Pinned(((first \o second) \o third) \o fourth)
  BY <1>8, <1>14, PinsConcat
<1>16. Pinned((((first \o second) \o third) \o fourth) \o last)
  BY <1>12, <1>15, PinsConcat
<1> QED
  BY <1>6, <1>16, Zenon DEF cs

LEMMA StoredCalm ==
    /\ \A p \in 0 .. Serial : Stored(p) \in Seq(Events) /\ \A e \in ToSet(Stored(p)) : e \notin PinEvents
    /\ AllStored \in Seq(Events) /\ \A e \in ToSet(AllStored) : e \notin PinEvents
<1>1. \A p \in 0 .. Serial : Expand(p) \notin PinEvents /\ Remap(p) \notin PinEvents
  BY CalmEvents, MainEventFacts
<1> QED
  BY <1>1, StoredEvents, AllStoredEvents

LEMMA LaunchPinned ==
    ASSUME StreamsTyped, NEW p \in 0 .. Serial, NEW rs \in Seq(Reqs), NEW block \in Blocks
    PROVE  Pinned(LaunchCommands(p, rs, block))
<1> DEFINE pes == PrefillEvents(rs)
           reads == Beams(rs) \cup Uploaded(1)
           writes == {<<"indptr", 0>>, <<"result", block>>} \cup Rows(rs, lease)
           op == Op("default", reads, writes)
           w1 == WaitAll("default", Stored(p))
           w2 == DropAll(Stored(p))
           w3 == WaitAll("default", pes)
           w4 == DropAll(pes)
           w5 == Upload("default", 1)
           w6 == <<op, Record("default", Replay(p))>>
           cs == LaunchCommands(p, rs, block)
<1>1. "default" \in Actors /\ at \in 0 .. Ring - 1 /\ lease \in [Reqs -> Leases \cup {None}]
  BY DEF Actors, Streams, StreamsTyped
<1>2. pes \in Seq(Events) /\ \A e \in ToSet(pes) : e \notin PinEvents
  <2>1. pes \in Seq(Events) /\ ToSet(pes) = {PrefillEvent(r) : r \in ToSet(rs)}
    BY PrefillEventsOf
  <2>2. \A r \in ToSet(rs) : PrefillEvent(r) \in MainEvents
    BY MainEventFacts, Members
  <2> QED
    BY <2>1, <2>2, CalmEvents
<1>3. Calm(op)
  <2>1. /\ <<"result", block>> \in Data /\ <<"indptr", 0>> \in Buffers
        /\ <<"result", block>>[1] # "pin" /\ <<"indptr", 0>>[1] # "pin"
    BY DataBuffers DEF Buffers
  <2>2. Uploaded(1) \in SUBSET Buffers /\ \A b \in Uploaded(1) : b[1] = "ring"
    BY UploadedFacts
  <2>3. /\ Rows(rs, lease) \subseteq Data /\ \A b \in Rows(rs, lease) : b[1] = "rows"
        /\ Beams(rs) \subseteq Data /\ \A b \in Beams(rs) : b[1] = "beams"
    BY <1>1, DataBuffers
  <2>4. reads \in SUBSET Buffers /\ writes \in SUBSET Buffers
    BY <2>1, <2>2, <2>3, DataFacts
  <2>5. \A b \in reads \cup writes : b[1] # "pin"
    BY <2>1, <2>2, <2>3
  <2> HIDE DEF reads, writes
  <2> QED
    BY <1>1, <2>4, <2>5, CalmCommands
<1>4. Calm(Record("default", Replay(p)))
  BY <1>1, CalmEvents, CalmCommands, MainEventFacts
<1>5. Pinned(w6)
  BY <1>3, <1>4, CalmShort
<1>6. Pinned(w1) /\ Pinned(w2) /\ Pinned(w3) /\ Pinned(w4)
  BY <1>1, <1>2, StoredCalm, WaitsPinned, DropsPinned
<1>7. Pinned(w5)
  BY <1>1, UploadPinned
<1>8. cs = (w1 \o w2) \o w3 \o w4 \o w5 \o w6
  BY PrefillEventsOf DEF LaunchCommands, WaitPipeReady
<1> HIDE DEF pes, reads, writes, op, w1, w2, w3, w4, w5, w6, cs
<1>9. Pinned(w1 \o w2)
  BY <1>6, PinsConcat
<1>10. Pinned((w1 \o w2) \o w3)
  BY <1>6, <1>9, PinsConcat
<1>11. Pinned(((w1 \o w2) \o w3) \o w4)
  BY <1>6, <1>10, PinsConcat
<1>12. Pinned((((w1 \o w2) \o w3) \o w4) \o w5)
  BY <1>7, <1>11, PinsConcat
<1>13. Pinned(((((w1 \o w2) \o w3) \o w4) \o w5) \o w6)
  BY <1>5, <1>12, PinsConcat
<1> QED
  BY <1>8, <1>13, Zenon DEF cs

LEMMA ProcessPinned ==
    ASSUME StreamsTyped, NEW p \in 0 .. Serial, NEW rs \in Seq(Reqs), NEW block \in Blocks,
           NEW on \in Seq(Reqs)
    PROVE  Pinned(ProcessCommands(p, rs, block, on))
<1> DEFINE reads == {<<"stage", "exp_col_eager">>, <<"result", block>>}
           writes == {<<"parents", p>>} \cup Beams(rs)
           op == Op("expand", reads, writes)
           copy == Op("copy", {<<"parents", p>>}, Rows(on, lease))
           w1 == <<Wait("expand", Replay(p))>>
           w2 == Stage("expand", "exp_col_eager")
           w3 == <<op, Record("expand", Expand(p))>>
           l1 == <<Record("expand", Remap(p))>>
           l2 == <<Wait("copy", Expand(p)), copy, Record("copy", Remap(p))>>
           w4 == IF on = <<>> THEN l1 ELSE l2
           cs == ProcessCommands(p, rs, block, on)
<1>1. /\ "expand" \in Actors /\ "copy" \in Actors /\ "expand" \in Streams /\ "exp_col_eager" \in Names
      /\ lease \in [Reqs -> Leases \cup {None}] /\ epoch["exp_col_eager"] \in 0 .. 1
  BY DEF Actors, Streams, Names, StreamsTyped
<1>2. Calm(op) /\ Calm(copy)
  <2>1. /\ <<"result", block>> \in Data /\ <<"parents", p>> \in Data
        /\ <<"stage", "exp_col_eager">> \in Buffers
        /\ <<"result", block>>[1] # "pin" /\ <<"parents", p>>[1] # "pin"
        /\ <<"stage", "exp_col_eager">>[1] # "pin"
    BY <1>1, DataBuffers DEF Buffers
  <2>2. /\ Rows(on, lease) \subseteq Data /\ \A b \in Rows(on, lease) : b[1] = "rows"
        /\ Beams(rs) \subseteq Data /\ \A b \in Beams(rs) : b[1] = "beams"
    BY <1>1, DataBuffers
  <2>3. /\ reads \in SUBSET Buffers /\ writes \in SUBSET Buffers
        /\ {<<"parents", p>>} \in SUBSET Buffers /\ Rows(on, lease) \in SUBSET Buffers
    BY <2>1, <2>2, DataFacts
  <2>4. \A b \in reads \cup writes : b[1] # "pin"
    BY <2>1, <2>2
  <2>5. \A b \in {<<"parents", p>>} \cup Rows(on, lease) : b[1] # "pin"
    BY <2>1, <2>2
  <2> HIDE DEF reads, writes
  <2> QED
    BY <1>1, <2>3, <2>4, <2>5, CalmCommands
<1>3. /\ Calm(Wait("expand", Replay(p))) /\ Calm(Wait("copy", Expand(p)))
      /\ Calm(Record("expand", Expand(p))) /\ Calm(Record("expand", Remap(p)))
      /\ Calm(Record("copy", Remap(p)))
  BY <1>1, CalmEvents, CalmCommands, MainEventFacts
<1>4. cs = w1 \o w2 \o w3 \o w4
  BY DEF ProcessCommands
<1> HIDE DEF reads, writes, op, copy
<1>5. Pinned(w1) /\ Pinned(w3) /\ Pinned(l1) /\ Pinned(l2)
  BY <1>2, <1>3, CalmShort
<1>6. Pinned(w2)
  BY <1>1, StagePinned
<1> HIDE DEF w1, w2, w3, l1, l2, cs
<1>7. Pinned(w4)
  BY <1>5
<1> HIDE DEF w4
<1>8. Pinned(w1 \o w2)
  BY <1>5, <1>6, PinsConcat
<1>9. Pinned((w1 \o w2) \o w3)
  BY <1>5, <1>8, PinsConcat
<1>10. Pinned(((w1 \o w2) \o w3) \o w4)
  BY <1>7, <1>9, PinsConcat
<1> QED
  BY <1>4, <1>10, Zenon DEF cs

LEMMA CompletePinned ==
    ASSUME NEW done \in Seq(Reqs)
    PROVE  Pinned(CompleteCommands(done))
<1> DEFINE s == IF active /\ overlap THEN "prefill" ELSE "default"
           es == EventsOf(done)
           w1 == WaitAll(s, es)
           w2 == WaitAll("copy", es)
           op == Op("copy", Beams(done), {})
           w3 == <<Record("expand", ExpandNow), Wait("copy", ExpandNow), op,
                   Record("copy", CopyDone), Wait("host", CopyDone)>>
           cs == CompleteCommands(done)
<1>1. s \in Actors /\ "copy" \in Actors /\ "expand" \in Actors /\ "host" \in Actors
  BY DEF Actors, Streams
<1>2. es \in Seq(Events)
  BY EventsOfTypes
<1>3. Calm(op)
  <2>1. Beams(done) \in SUBSET Buffers /\ {} \in SUBSET Buffers /\ \A b \in Beams(done) \cup {} : b[1] # "pin"
    BY DataBuffers, DataFacts
  <2> QED
    BY <1>1, <2>1, CalmCommands
<1>4. /\ Calm(Record("expand", ExpandNow)) /\ Calm(Wait("copy", ExpandNow))
      /\ Calm(Record("copy", CopyDone)) /\ Calm(Wait("host", CopyDone))
  BY <1>1, CalmEvents, CalmCommands
<1>5. cs = (w1 \o w2) \o w3
  BY DEF CompleteCommands
<1> HIDE DEF s, es, op
<1>6. Pinned(w1) /\ Pinned(w2)
  BY <1>1, <1>2, WaitsPinned
<1>7. Pinned(w3)
  BY <1>3, <1>4, CalmShort
<1> HIDE DEF w1, w2, w3, cs
<1>8. Pinned(w1 \o w2)
  BY <1>6, PinsConcat
<1>9. Pinned((w1 \o w2) \o w3)
  BY <1>7, <1>8, PinsConcat
<1> QED
  BY <1>5, <1>9, Zenon DEF cs

LEMMA SyncPinned ==
    ASSUME NEW passed \in Seq(Reqs), active => active'
    PROVE  Pinned(SyncCommands(passed))
<1> DEFINE pes == PrefillEvents(passed)
           w1 == IF active THEN <<>> ELSE DropAll(AllStored)
           w2 == WaitAll("host", pes)
           cs == SyncCommands(passed)
<1>1. "host" \in Actors /\ pes \in Seq(Events)
  BY PrefillEventsOf DEF Actors
<1>2. cs = (w1 \o w2) \o <<>>
  BY PrefillEventsOf DEF SyncCommands
<1>3. Pinned(<<>>)
  BY CalmPins, <<>> \in Seq(Commands), ToSet(<<>>) = {} DEF ToSet
<1>4. Pinned(w1)
  BY <1>3, StoredCalm, DropsPinned
<1>5. Pinned(w2)
  BY <1>1, WaitsPinned
<1> HIDE DEF pes, w1, w2, cs
<1>6. Pinned(w1 \o w2)
  BY <1>4, <1>5, PinsConcat
<1>7. Pinned((w1 \o w2) \o <<>>)
  BY <1>3, <1>6, PinsConcat
<1> QED
  BY <1>2, <1>7, Zenon DEF cs

LEMMA PinsStep ==
    ASSUME Inv, Books, PinsHold(gpu), [SNext]_svars PROVE PinsHold(gpu')
<1>1. StreamsTyped /\ gpu \in Orders /\ lease \in [Reqs -> Leases \cup {None}]
  BY DEF Books, StreamsTyped
<1>2. ASSUME NEW cs, Pinned(cs), gpu' = DoAll(gpu, cs) PROVE PinsHold(gpu')
  BY <1>1, <1>2 DEF Pinned
<1>3. ASSUME NEW rs \in Batches, SPrefill(rs) PROVE PinsHold(gpu')
  <2>1. PrefilledWith(rs)
    BY <1>3, PrefillLeases
  <2>2. PICK l \in [Reqs -> Leases \cup {None}] : l = lease'
    BY <2>1 DEF PrefilledWith
  <2>3. Pinned(PrefillCommands(rs, l)) /\ gpu' = DoAll(gpu, PrefillCommands(rs, l))
    BY <1>1, <2>1, <2>2, PrefillPinned DEF PrefilledWith
  <2> QED
    BY <1>2, <2>3
<1>4. CASE SSync
  <2>1. PICK passed \in Seq(Reqs) : gpu' = DoAll(gpu, SyncCommands(passed))
    BY <1>4, SyncRuns
  <2>2. active'
    BY <1>4, SyncRuns DEF SyncedActive
  <2>3. Pinned(SyncCommands(passed))
    BY <2>2, SyncPinned
  <2> QED
    BY <1>2, <2>1, <2>3
<1>5. CASE SLaunch
  <2>1. PICK block : LaunchedWith(block)
    BY <1>5, LaunchesOne
  <2>2. block \in Blocks /\ current \in 0 .. Serial /\ Launched \in Seq(Reqs)
    BY <2>1, FreeBlock, SerialPipe, LaunchedMembers DEF LaunchedWith, Inv, TypedPlace
  <2>3. Pinned(LaunchCommands(current, Launched, block))
    BY <1>1, <2>2, LaunchPinned
  <2> QED
    BY <1>2, <2>1, <2>3 DEF LaunchedWith
<1>6. CASE SProcessPicked
  <2>1. PICK t, k : ProcessedBy(t, k)
    BY <1>6, ProcessesOne
  <2>2. /\ t \in 0 .. Serial /\ queue[k].reqs \in Seq(Reqs) /\ result[t] \in Blocks
        /\ GoesOn(queue[k].reqs) \in Seq(Reqs)
        /\ gpu' = DoAll(gpu, ProcessCommands(t, queue[k].reqs, result[t], GoesOn(queue[k].reqs)))
    BY <2>1, ProcessedLaunch
  <2>3. Pinned(ProcessCommands(t, queue[k].reqs, result[t], GoesOn(queue[k].reqs)))
    BY <1>1, <2>2, ProcessPinned
  <2> QED
    BY <1>2, <2>2, <2>3
<1>7. CASE SSerialStep
  <2>1. PICK block : SteppedWith(block)
    BY <1>7, StepsOne
  <2>2. block \in Blocks /\ Serial \in 0 .. Serial /\ Ordered(running) \in Seq(Reqs)
    BY <2>1, FreeBlock, SerialPipe, OrderedMembers DEF SteppedWith, Inv, TypedRequests
  <2>3. GoesOn(Ordered(running)) \in Seq(Reqs)
    BY <2>2, GoesOnMembers
  <2>4. /\ Pinned(LaunchCommands(Serial, Ordered(running), block))
        /\ Pinned(ProcessCommands(Serial, Ordered(running), block, GoesOn(Ordered(running))))
    BY <1>1, <2>2, <2>3, LaunchPinned, ProcessPinned
  <2>5. Pinned(LaunchCommands(Serial, Ordered(running), block)
               \o ProcessCommands(Serial, Ordered(running), block, GoesOn(Ordered(running))))
    BY <2>4, PinsConcat
  <2> QED
    BY <1>2, <2>1, <2>5 DEF SteppedWith, Run, DoAll
<1>8. CASE SRelease
  <2>1. PICK done : ReleasedAll(done)
    BY <1>8, ReleasesDone
  <2>2. done \in Seq(Reqs) /\ gpu' = IF done = <<>> THEN gpu ELSE DoAll(gpu, CompleteCommands(done))
    BY <2>1 DEF ReleasedAll
  <2>3. Pinned(CompleteCommands(done))
    BY <2>2, CompletePinned
  <2> QED
    BY <1>2, <2>2, <2>3
<1>9. CASE (\E r \in Reqs : SPrefillDone(r)) \/ SStartSerial \/ SPickIdlePipe \/ SNothingToLaunch
           \/ UNCHANGED svars
  <2>1. gpu' = gpu
    BY <1>9 DEF SPrefillDone, SStartSerial, SPickIdlePipe, SNothingToLaunch, Idle, svars
  <2> QED
    BY <2>1
<1> QED
  BY <1>3, <1>4, <1>5, <1>6, <1>7, <1>8, <1>9 DEF SNext

\* At first nothing has been accessed.
LEMMA NothingAccessed ==
    ASSUME SInit
    PROVE  /\ Inv /\ Books /\ PinsHold(gpu)
           /\ gpu.races = {} /\ \A b : To(gpu, b) = {}
<1>1. Inv /\ Init
  BY DeviceSteps, InitHolds
<1>2. gpu = [past |-> [a \in Streams \cup {"host"} |-> {}], accesses |-> {},
             events |-> [e \in Events |-> {}], races |-> {}]
  BY DEF SInit
<1>3. gpu \in Orders
  BY <1>2 DEF Orders, Actors
<1>4. gpu.races = {} /\ \A b : To(gpu, b) = {}
  BY <1>2 DEF To
<1>5. StreamsTyped
  <2>1. 0 \in 0 .. Ring - 1
    BY StreamsAssumption
  <2> QED
    <3>1. overlap \in BOOLEAN /\ forgotten \in BOOLEAN /\ at \in 0 .. Ring - 1
      BY <2>1, StreamsAssumption DEF SInit
    <3>2. lease \in [Reqs -> Leases \cup {None}] /\ result \in [0 .. Serial -> Blocks \cup {None}]
      BY DEF SInit
    <3>3. epoch \in [Names -> 0 .. 1]
      BY DEF SInit
    <3> QED
      BY <1>3, <3>1, <3>2, <3>3 DEF StreamsTyped
<1>6. Control
  <2>1. running = <<>> /\ status = [r \in Reqs |-> "new"] /\ left = Gen
    BY <1>1 DEF Init
  <2>2. ToSet(running) = {}
    BY <2>1, NothingParked
  <2>3. \A r \in Reqs : Gen[r] # 0
    BY PipelineAssumption
  <2> QED
    BY <2>1, <2>2, <2>3 DEF Control
<1>7. LeasesApart
  BY <1>1 DEF SInit, Init, LeasesApart
<1>8. ResultsApart
  <2>1. queue = <<>> /\ \A p \in 0 .. Serial : result[p] = None
    BY <1>1 DEF SInit, Init
  <2> QED
    BY <2>1 DEF ResultsApart, Inflight
<1>9. PinsHold(gpu)
  BY <1>4 DEF PinsHold, Keeps
<1> QED
  BY <1>1, <1>4, <1>5, <1>6, <1>7, <1>8, <1>9 DEF Books

\* What the host keeps of leases and results holds, and the pins are in order.
THEOREM LeasesKept == SSpec => [](Inv /\ Books)
<1>1. SInit => Init /\ Books
  BY NothingAccessed, DeviceSteps
<1>2. [SNext]_svars => [Next]_vars
  BY DeviceSteps
<1>3. Inv /\ Books /\ [SNext]_svars => Books'
  BY BooksHold
<1>4. SSpec => Spec
  BY <1>1, <1>2, PTL DEF SSpec, Spec
<1> QED
  BY <1>1, <1>3, <1>4, Invariance, PTL DEF SSpec

\* The host refills a pinned buffer only after the copy out of it (staging.py).
THEOREM PinsInOrder == SSpec => []PinsOrdered
<1>1. SInit => PinsHold(gpu)
  BY NothingAccessed
<1>2. Inv /\ Books /\ PinsHold(gpu) /\ [SNext]_svars => PinsHold(gpu)'
  BY PinsStep
<1>3. PinsHold(gpu) => PinsOrdered
  BY DEF PinsHold, PinsOrdered
<1> QED
  BY <1>1, <1>2, <1>3, LeasesKept, PTL DEF SSpec

-----------------------------------------------------------------------------
(* Beams, rows, parents and results: who comes after their last accesses.       *)

Flying(r) == \E k \in 1 .. Len(queue) : r \in ToSet(queue[k].reqs)

\* The events that cover the beams and rows of r, which is in no forward: the
\* prefill's, and the remap's of its pipe.
Home(r) ==
    {PrefillEvent(r)} \cup
    (IF active THEN {Remap(i) : i \in {j \in Pipe : r \in ToSet(pipes[j]) /\ ~Inflight(queue, j)}}
     ELSE {Remap(Serial)})

Of(r) == {<<"beams", r>>, <<"rows", lease[r]>>}

RequestKept(r) ==
    \A b \in Of(r) :
        /\ Finished(r) => Covered(gpu, b, "expand")
        /\ ~Finished(r) /\ ~Flying(r) => Awaited(gpu, b, "default", Home(r))
        /\ \A k \in 1 .. Len(queue) :
             r \in ToSet(queue[k].reqs) => Keeps(gpu, b, Replay(queue[k].pid))

RequestsKept == \A r \in ToSet(running) : RequestKept(r)

\* The beams and rows that no request has yet, or has any more.
RestKept ==
    /\ \A r \in Reqs : status[r] = "new" => Covered(gpu, <<"beams", r>>, "host")
    /\ \A l \in Leases \ {None} : (\A r \in Reqs : lease[r] # l) => Covered(gpu, <<"rows", l>>, "host")

ParentKept(p) ==
    IF Inflight(queue, p) THEN Keeps(gpu, <<"parents", p>>, Replay(p))
    ELSE Awaited(gpu, <<"parents", p>>, "default", {Remap(p)})

ParentsKept == \A p \in 0 .. Serial : ParentKept(p)

HeldResultsKept == \A p \in 0 .. Serial : result[p] # None => Keeps(gpu, <<"result", result[p]>>, Replay(p))

\* A round of get_next has finished the requests of a pipe, and every other pipe
\* with work is in flight.
Stuck ==
    /\ pending = <<>>
    /\ \A i \in Pipe : HasLive(pipes, i) => Inflight(queue, i)
SomeFinished == \E r \in ToSet(running) : Finished(r)

\* The next forward may write to a block whose result the host has dropped.
FreeKept(x) ==
    /\ Covered(gpu, <<"result", x>>, "expand")
    /\ \/ Covered(gpu, <<"result", x>>, "default")
       \/ ~active /\ Keeps(gpu, <<"result", x>>, Remap(Serial))
       \/ pc = "launch" /\ Keeps(gpu, <<"result", x>>, Remap(current))
       \/ pc = "next" /\ Stuck /\ SomeFinished
       \/ pc = "release" /\ SomeFinished

FreeResultsKept == \A x \in FreeBlocks : FreeKept(x)

NoDataRace == \A k \in DataKinds : k \notin gpu.races

DataKept == RequestsKept /\ RestKept /\ ParentsKept /\ HeldResultsKept /\ FreeResultsKept /\ NoDataRace

LEMMA EventsApart ==
    /\ \A p, q \in 0 .. Serial : /\ Remap(p) = Remap(q) => p = q
                                 /\ Replay(p) = Replay(q) => p = q
                                 /\ Expand(p) # Remap(q) /\ Expand(p) # Replay(q) /\ Remap(p) # Replay(q)
    /\ \A r \in Reqs, p \in 0 .. Serial : /\ PrefillEvent(r) # Remap(p) /\ PrefillEvent(r) # Replay(p)
                                          /\ PrefillEvent(r) # Expand(p)
    /\ \A r, q \in Reqs : PrefillEvent(r) = PrefillEvent(q) => r = q
BY DEF Remap, Replay, Expand, PrefillEvent

LEMMA HomeEvents ==
    ASSUME NEW r \in Reqs
    PROVE  /\ Home(r) \subseteq MainEvents /\ PrefillEvent(r) \in Home(r)
           /\ \A e \in Home(r) :
                \/ e = PrefillEvent(r)
                \/ active /\ \E i \in Pipe : e = Remap(i) /\ r \in ToSet(pipes[i]) /\ ~Inflight(queue, i)
                \/ ~active /\ e = Remap(Serial)
           /\ active => \A i \in Pipe : r \in ToSet(pipes[i]) /\ ~Inflight(queue, i) => Remap(i) \in Home(r)
           /\ ~active => Remap(Serial) \in Home(r)
BY MainEventFacts, SerialPipe DEF Home

LEMMA RunningFacts ==
    ASSUME Inv, Books, NEW r \in ToSet(running)
    PROVE  /\ r \in Reqs /\ status[r] = "running" /\ lease[r] # None /\ lease[r] \in Leases
           /\ Of(r) \subseteq Data
           /\ \A b \in Of(r) : b[1] \in {"beams", "rows"}
<1>1. r \in Reqs /\ status[r] = "running"
  BY Members DEF Inv, TypedRequests, Runs
<1>2. lease[r] # None /\ lease[r] \in Leases
  BY <1>1 DEF Books, LeasesApart, StreamsTyped
<1>3. <<"beams", r>> \in Data /\ <<"rows", lease[r]>> \in Data
  BY <1>1, <1>2, DataBuffers
<1> QED
  BY <1>1, <1>2, <1>3 DEF Of

\* The beams and rows of a list of running requests are theirs alone.
LEMMA ListBuffers ==
    ASSUME Inv, Books, NEW rs \in Seq(Reqs), ToSet(rs) \subseteq ToSet(running)
    PROVE  /\ \A r \in ToSet(rs) : <<"beams", r>> \in Beams(rs) /\ <<"rows", lease[r]>> \in Rows(rs, lease)
           /\ \A b \in Beams(rs) \cup Rows(rs, lease) : \E r \in ToSet(rs) : b \in Of(r)
           /\ \A r \in ToSet(running) \ ToSet(rs) :
                 Of(r) \cap Beams(rs) = {} /\ Of(r) \cap Rows(rs, lease) = {}
           /\ \A r \in ToSet(running) \ ToSet(rs) : <<"rows", lease[r]>> \notin Rows(rs, lease)
           /\ \A r : <<"beams", r>> \notin Rows(rs, lease)
<1>1. \A r \in ToSet(running) : r \in Reqs /\ lease[r] # None
  BY RunningFacts
<1>2. \A r, q \in ToSet(running) : r # q => lease[r] # lease[q]
  BY <1>1 DEF Books, LeasesApart
<1>3. /\ \A b \in Beams(rs) : \E q \in ToSet(rs) : b = <<"beams", q>>
      /\ \A b \in Rows(rs, lease) : \E q \in ToSet(rs) : b = <<"rows", lease[q]>>
  BY DEF Beams, Rows
<1>4. /\ \A r, q : <<"beams", r>> = <<"beams", q>> => r = q
      /\ \A r, q : <<"rows", r>> = <<"rows", q>> => r = q
      /\ \A r, q : <<"beams", r>> # <<"rows", q>>
  OBVIOUS
<1>5. \A r \in ToSet(running) \ ToSet(rs) :
         /\ <<"beams", r>> \notin Beams(rs) /\ <<"beams", r>> \notin Rows(rs, lease)
         /\ <<"rows", lease[r]>> \notin Beams(rs) /\ <<"rows", lease[r]>> \notin Rows(rs, lease)
  BY <1>2, <1>3, <1>4
<1>6. \A r \in ToSet(rs) : <<"beams", r>> \in Beams(rs) /\ <<"rows", lease[r]>> \in Rows(rs, lease)
  BY DEF Beams, Rows
<1> QED
  BY <1>3, <1>4, <1>5, <1>6 DEF Of

\* A request that the step does not touch.
LEMMA RequestStays ==
    ASSUME NEW r, RequestKept(r), UNCHANGED lease, NEW E,
           \A b \in Of(r) : Carried(gpu, gpu', b, E),
           left'[r] = left[r],
           ~Flying(r)' => ~Flying(r),
           ~Finished(r) /\ ~Flying(r) => Home(r) \subseteq Home(r)' \cap E,
           \A n \in 1 .. Len(queue') : r \in ToSet(queue'[n].reqs) =>
              \E k \in 1 .. Len(queue) : /\ r \in ToSet(queue[k].reqs) /\ queue[k].pid = queue'[n].pid
                                         /\ Replay(queue[k].pid) \in E
    PROVE  RequestKept(r)'
<1>1. Of(r)' = Of(r)
  BY DEF Of
<1>2. SUFFICES ASSUME NEW b \in Of(r)
               PROVE  /\ Finished(r)' => Covered(gpu', b, "expand")
                      /\ ~Finished(r)' /\ ~Flying(r)' => Awaited(gpu', b, "default", Home(r)')
                      /\ \A n \in 1 .. Len(queue') :
                           r \in ToSet(queue'[n].reqs) => Keeps(gpu', b, Replay(queue'[n].pid))
  BY <1>1 DEF RequestKept
<1>3. Finished(r)' <=> Finished(r)
  BY DEF Finished
<1>4. Carried(gpu, gpu', b, E) /\ "expand" \in Actors /\ "default" \in Actors
  BY DEF Actors, Streams
<1>5. /\ Finished(r) => Covered(gpu, b, "expand")
      /\ ~Finished(r) /\ ~Flying(r) => Awaited(gpu, b, "default", Home(r))
      /\ \A k \in 1 .. Len(queue) : r \in ToSet(queue[k].reqs) => Keeps(gpu, b, Replay(queue[k].pid))
  BY DEF RequestKept
<1>6. Finished(r)' => Covered(gpu', b, "expand")
  BY <1>3, <1>4, <1>5 DEF Carried
<1>7. ~Finished(r)' /\ ~Flying(r)' => Awaited(gpu', b, "default", Home(r)')
  BY <1>3, <1>4, <1>5 DEF Carried, Awaited
<1>8. ASSUME NEW n \in 1 .. Len(queue'), r \in ToSet(queue'[n].reqs)
      PROVE  Keeps(gpu', b, Replay(queue'[n].pid))
  <2>1. PICK k \in 1 .. Len(queue) : /\ r \in ToSet(queue[k].reqs) /\ queue[k].pid = queue'[n].pid
                                     /\ Replay(queue[k].pid) \in E
    BY <1>8
  <2> QED
    BY <1>4, <1>5, <2>1 DEF Carried
<1> QED
  BY <1>6, <1>7, <1>8

\* The same when the queue is as it was.
LEMMA RestStays ==
    ASSUME Inv, Books, RestKept, UNCHANGED <<lease, status>>, NEW T,
           \A b \in Data \ T : Carried(gpu, gpu', b, {}),
           \A b \in T : b[1] \in {"parents", "result"} \/ \E r \in ToSet(running) : b \in Of(r)
    PROVE  RestKept'
<1>1. "host" \in Actors
  BY DEF Actors
<1>2. ASSUME NEW b \in Data, Covered(gpu, b, "host"), b \notin T PROVE Covered(gpu', b, "host")
  BY <1>1, <1>2 DEF Carried
<1>3. ASSUME NEW r \in Reqs, status[r] = "new" PROVE Covered(gpu', <<"beams", r>>, "host")
  <2>1. <<"beams", r>> \in Data /\ Covered(gpu, <<"beams", r>>, "host")
    BY <1>3, DataBuffers DEF RestKept
  <2>2. \A q \in ToSet(running) : <<"beams", r>> \notin Of(q)
    <3>1. \A q \in ToSet(running) : q # r
      BY <1>3, RunningFacts
    <3> QED
      BY <3>1 DEF Of
  <2>3. <<"beams", r>>[1] = "beams"
    OBVIOUS
  <2>4. <<"beams", r>> \notin T
    BY <2>2, <2>3
  <2> QED
    BY <1>2, <2>1, <2>4
<1>4. ASSUME NEW l \in Leases \ {None}, \A r \in Reqs : lease[r] # l
      PROVE  Covered(gpu', <<"rows", l>>, "host")
  <2>1. <<"rows", l>> \in Data /\ Covered(gpu, <<"rows", l>>, "host")
    BY <1>4, DataBuffers DEF RestKept
  <2>2. \A q \in ToSet(running) : <<"rows", l>> \notin Of(q)
    <3>1. \A q \in ToSet(running) : lease[q] # l
      BY <1>4, RunningFacts
    <3> QED
      BY <3>1 DEF Of
  <2>3. <<"rows", l>>[1] = "rows"
    OBVIOUS
  <2>4. <<"rows", l>> \notin T
    BY <2>2, <2>3
  <2> QED
    BY <1>2, <2>1, <2>4
<1> QED
  BY <1>3, <1>4 DEF RestKept

\* Parents and results that a step of the streams does not touch.
LEMMA ParentStays ==
    ASSUME NEW p \in 0 .. Serial, ParentKept(p), Inflight(queue', p) <=> Inflight(queue, p),
           NEW E, Carried(gpu, gpu', <<"parents", p>>, E), Replay(p) \in E, Remap(p) \in E
    PROVE  ParentKept(p)'
<1>1. "default" \in Actors
  BY DEF Actors, Streams
<1> QED
  BY <1>1 DEF ParentKept, Carried, Awaited

LEMMA PrefillData ==
    ASSUME Inv, Books, DataKept, NEW rs \in Batches, SPrefill(rs) PROVE DataKept'
<1> DEFINE E == MainEvents \ {PrefillEvent(r) : r \in ToSet(rs)}
<1>1. PrefilledWith(rs)
  BY PrefillLeases
<1>2. /\ rs \in Seq(Reqs) /\ \A r \in ToSet(rs) : r \in Reqs /\ status[r] = "new" /\ lease[r] = None
      /\ \A r \in ToSet(rs) : lease'[r] # None /\ lease'[r] \in Leases /\ \A q \in Reqs : lease[q] # lease'[r]
      /\ \A r \in Reqs \ ToSet(rs) : lease'[r] = lease[r]
      /\ ToSet(running') = ToSet(running) \cup ToSet(rs)
      /\ status' = [r \in Reqs |-> IF r \in ToSet(rs) THEN "running" ELSE status[r]]
      /\ UNCHANGED <<result, left, active, pipes, current, queue, pending, pc>>
      /\ pc = "idle"
  BY <1>1 DEF PrefilledWith
<1>3. PICK l \in [Reqs -> Leases \cup {None}] : l = lease' /\ gpu' = DoAll(gpu, PrefillCommands(rs, l))
  BY <1>1 DEF PrefilledWith
<1> DEFINE T == Rows(rs, l) \cup Beams(rs)
<1>4. /\ \A b \in Data : Covered(gpu, b, "host") =>
           \/ Covered(gpu', b, "default")
           \/ \A r \in ToSet(rs) : Keeps(gpu', b, PrefillEvent(r))
      /\ \A b \in Data \ T : Carried(gpu, gpu', b, E)
      /\ \A k \in DataKinds : /\ k \notin gpu.races
                              /\ \A b \in T : b[1] = k => Covered(gpu, b, "host")
                              => k \notin gpu'.races
  BY <1>2, <1>3, PrefillEffect DEF Books
<1>5. /\ \A b \in T : \E r \in ToSet(rs) : b = <<"beams", r>> \/ b = <<"rows", l[r]>>
      /\ T \subseteq Data
  BY <1>2, DataBuffers DEF Beams, Rows
<1>6. \A r \in ToSet(rs) : <<"beams", r>> \in Data /\ <<"rows", l[r]>> \in Data
  BY <1>2, DataBuffers
<1>7. \A r \in ToSet(rs) : Covered(gpu, <<"beams", r>>, "host") /\ Covered(gpu, <<"rows", l[r]>>, "host")
  BY <1>2, <1>3 DEF DataKept, RestKept
<1>8. \A b \in T : Covered(gpu, b, "host")
  BY <1>5, <1>7
<1> HIDE DEF T, E
<1>9. NoDataRace'
  BY <1>4, <1>8 DEF DataKept, NoDataRace
<1>10. ASSUME NEW r \in ToSet(running) PROVE RequestKept(r)'
  <2>1. /\ r \in Reqs /\ status[r] = "running" /\ lease[r] # None /\ Of(r) \subseteq Data
    BY <1>10, RunningFacts
  <2>2. r \notin ToSet(rs)
    BY <1>2, <2>1
  <2>3. RequestKept(r)
    BY <1>10 DEF DataKept, RequestsKept
  <2>4. lease'[r] = lease[r] /\ left'[r] = left[r] /\ UNCHANGED <<active, pipes, queue>>
    BY <1>2, <2>1, <2>2
  <2>5. \A b \in Of(r) : b \notin T
    BY <1>2, <1>3, <1>5, <2>1, <2>2 DEF Of
  <2>6. \A b \in Of(r) : Carried(gpu, gpu', b, E)
    BY <1>4, <2>1, <2>5
  <2>7. Home(r) \subseteq E
    <3>1. \A e \in Home(r) : e = PrefillEvent(r) \/ \E p \in 0 .. Serial : e = Remap(p)
      BY <2>1, HomeEvents, SerialPipe
    <3>2. Home(r) \subseteq MainEvents
      BY <2>1, HomeEvents
    <3> QED
      BY <1>2, <2>1, <2>2, <3>1, <3>2, EventsApart DEF E
  <2>8. \A n \in 1 .. Len(queue) : Replay(queue[n].pid) \in E
    <3>1. \A n \in 1 .. Len(queue) : queue[n].pid \in 0 .. Serial
      BY LaunchTypes, SerialPipe
    <3> QED
      BY <1>2, <3>1, EventsApart, MainEventFacts DEF E
  <2>9. Of(r)' = Of(r) /\ Home(r)' = Home(r)
    BY <2>4 DEF Of, Home, Inflight
  <2>10. "expand" \in Actors /\ "default" \in Actors
    BY DEF Actors, Streams
  <2>11. SUFFICES ASSUME NEW b \in Of(r)
                  PROVE  /\ Finished(r) => Covered(gpu', b, "expand")
                         /\ ~Finished(r) /\ ~Flying(r) => Awaited(gpu', b, "default", Home(r))
                         /\ \A k \in 1 .. Len(queue) :
                              r \in ToSet(queue[k].reqs) => Keeps(gpu', b, Replay(queue[k].pid))
    BY <2>4, <2>9 DEF RequestKept, Finished, Flying
  <2>12. /\ Finished(r) => Covered(gpu, b, "expand")
         /\ ~Finished(r) /\ ~Flying(r) => Awaited(gpu, b, "default", Home(r))
         /\ \A k \in 1 .. Len(queue) : r \in ToSet(queue[k].reqs) => Keeps(gpu, b, Replay(queue[k].pid))
    BY <2>3 DEF RequestKept
  <2>13. Carried(gpu, gpu', b, E)
    BY <2>6
  <2> QED
    BY <2>7, <2>8, <2>10, <2>12, <2>13 DEF Carried, Awaited
<1>11. ASSUME NEW r \in ToSet(rs) PROVE RequestKept(r)'
  <2>1. ~Flying(r)' /\ \A k \in 1 .. Len(queue') : r \notin ToSet(queue'[k].reqs)
    BY <1>2 DEF Inv, NoneNew, Flying
  <2>2. ~Finished(r)'
    BY <1>2 DEF Books, Control, Finished
  <2>3. Of(r)' = {<<"beams", r>>, <<"rows", l[r]>>}
    BY <1>3 DEF Of
  <2>4. PrefillEvent(r) \in Home(r)'
    BY DEF Home
  <2>5. ASSUME NEW b \in {<<"beams", r>>, <<"rows", l[r]>>} PROVE Awaited(gpu', b, "default", Home(r)')
    <3>1. b \in Data /\ Covered(gpu, b, "host")
      BY <1>6, <1>7
    <3> QED
      BY <1>4, <2>4, <3>1 DEF Awaited
  <2> QED
    BY <2>1, <2>2, <2>3, <2>5 DEF RequestKept
<1>12. RequestsKept'
  BY <1>2, <1>10, <1>11 DEF RequestsKept
<1>13. RestKept'
  <2>1. "host" \in Actors
    BY DEF Actors
  <2>2. ASSUME NEW r \in Reqs, status'[r] = "new" PROVE Covered(gpu', <<"beams", r>>, "host")
    <3>1. status[r] = "new" /\ r \notin ToSet(rs)
      BY <1>2, <2>2
    <3>2. <<"beams", r>> \in Data /\ <<"beams", r>> \notin T
      BY <1>5, <3>1, DataBuffers
    <3>3. Covered(gpu, <<"beams", r>>, "host")
      BY <3>1 DEF DataKept, RestKept
    <3> QED
      BY <1>4, <2>1, <3>2, <3>3 DEF Carried
  <2>3. ASSUME NEW x \in Leases \ {None}, \A r \in Reqs : lease'[r] # x
        PROVE  Covered(gpu', <<"rows", x>>, "host")
    <3>1. \A r \in Reqs : lease[r] # x
      BY <1>2, <2>3
    <3>2. <<"rows", x>> \in Data /\ <<"rows", x>> \notin T
      BY <1>2, <1>3, <1>5, <2>3, DataBuffers
    <3>3. Covered(gpu, <<"rows", x>>, "host")
      BY <3>1 DEF DataKept, RestKept
    <3> QED
      BY <1>4, <2>1, <3>2, <3>3 DEF Carried
  <2> QED
    BY <2>2, <2>3 DEF RestKept
<1>14. ASSUME NEW p \in 0 .. Serial PROVE ParentKept(p)'
  <2>1. <<"parents", p>> \in Data /\ <<"parents", p>> \notin T
    BY <1>5, DataBuffers
  <2>2. Carried(gpu, gpu', <<"parents", p>>, E)
    BY <1>4, <2>1
  <2>3. Replay(p) \in E /\ Remap(p) \in E
    BY <1>2, EventsApart, MainEventFacts DEF E
  <2>4. ParentKept(p) /\ (Inflight(queue', p) <=> Inflight(queue, p))
    BY <1>2 DEF DataKept, ParentsKept, Inflight
  <2> QED
    BY <2>2, <2>3, <2>4, ParentStays
<1>15. ASSUME NEW x \in Blocks PROVE Carried(gpu, gpu', <<"result", x>>, E)
  <2>1. <<"result", x>> \in Data /\ <<"result", x>> \notin T
    BY <1>5, DataBuffers
  <2> QED
    BY <1>4, <2>1
<1>16. HeldResultsKept'
  <2>1. SUFFICES ASSUME NEW p \in 0 .. Serial, result[p] # None
                 PROVE  Keeps(gpu', <<"result", result[p]>>, Replay(p))
    BY <1>2 DEF HeldResultsKept
  <2>2. result[p] \in Blocks
    BY <2>1 DEF Books, StreamsTyped
  <2>3. Keeps(gpu, <<"result", result[p]>>, Replay(p))
    BY <2>1 DEF DataKept, HeldResultsKept
  <2>4. Replay(p) \in E
    BY <1>2, EventsApart, MainEventFacts DEF E
  <2> QED
    BY <1>15, <2>2, <2>3, <2>4 DEF Carried
<1>17. FreeResultsKept'
  <2>1. SUFFICES ASSUME NEW x \in FreeBlocks PROVE FreeKept(x)'
    BY <1>2 DEF FreeResultsKept, FreeBlocks
  <2>2. x \in Blocks /\ FreeKept(x)
    BY FreeBlock DEF DataKept, FreeResultsKept
  <2>3. Remap(Serial) \in E
    BY <1>2, SerialPipe, EventsApart, MainEventFacts DEF E
  <2>4. Carried(gpu, gpu', <<"result", x>>, E) /\ "expand" \in Actors /\ "default" \in Actors
    BY <1>15, <2>2 DEF Actors, Streams
  <2> QED
    BY <1>2, <2>2, <2>3, <2>4 DEF FreeKept, Carried
<1> QED
  BY <1>9, <1>12, <1>13, <1>14, <1>16, <1>17 DEF DataKept, ParentsKept

LEMMA SyncData ==
    ASSUME Inv, Books, DataKept, SSync, ~forgotten' PROVE DataKept'
<1> DEFINE E == IF active THEN Events ELSE Events \ ToSet(AllStored)
<1>1. PICK passed \in Seq(Reqs) : gpu' = DoAll(gpu, SyncCommands(passed))
  BY SyncRuns
<1>2. SyncedActive /\ UNCHANGED <<overlap, lease, result, epoch, at>>
  BY SyncRuns
<1>3. ~active => ~Unwaited
  BY SyncRuns
<1>4. /\ pc = "idle" /\ pc' = "next" /\ active' = TRUE /\ queue' = queue
      /\ UNCHANGED <<running, status, left, ready>>
      /\ active => \A i \in Pipe : ToSet(pipes[i]) \cap ToSet(running) \subseteq ToSet(pipes'[i])
  BY <1>2 DEF SyncedActive
<1>5. /\ \A k \in Kinds : k \notin gpu.races => k \notin gpu'.races
      /\ \A b \in Buffers : Carried(gpu, gpu', b, E)
  BY <1>1, <1>4, SyncEffect DEF Books
<1>6. ~active => /\ queue = <<>>
                 /\ \A p \in 0 .. Serial : Remap(p) \in ToSet(AllStored) /\ Expand(p) \in ToSet(AllStored)
                 /\ \A b, e : e \in ToSet(AllStored) /\ Keeps(gpu, b, e) => Covered(gpu, b, "default")
  <2>1. ~active => queue = <<>>
    BY DEF Inv, Clear
  <2>2. \A p \in 0 .. Serial : Remap(p) \in ToSet(AllStored) /\ Expand(p) \in ToSet(AllStored)
    BY AllStoredEvents
  <2>3. \A e \in ToSet(AllStored) : \E i \in DOMAIN AllStored : e = AllStored[i]
    BY DEF ToSet
  <2>4. ~active => \A e \in ToSet(AllStored) : gpu.events[e] \subseteq gpu.past["default"] \cup gpu.past["host"]
    BY <1>3, <2>3 DEF Unwaited
  <2> QED
    BY <2>1, <2>2, <2>4 DEF Keeps, Covered
<1>7. /\ \A r \in Reqs : PrefillEvent(r) \in E
      /\ active => \A e \in MainEvents : e \in E
  <2>1. \A r \in Reqs : PrefillEvent(r) \notin ToSet(AllStored)
    BY AllStoredEvents, EventsApart
  <2> QED
    BY <2>1, EventTypes, DataFacts
<1>8. "default" \in Actors /\ "expand" \in Actors /\ "host" \in Actors
  BY DEF Actors, Streams
<1> HIDE DEF E
<1>9. ASSUME NEW b \in Data, NEW ws, NEW p \in 0 .. Serial, Awaited(gpu, b, "default", ws \cup {Remap(p)}),
             ws \subseteq {PrefillEvent(r) : r \in Reqs}, ~active
      PROVE  Awaited(gpu', b, "default", ws)
  <2>1. Carried(gpu, gpu', b, E)
    BY <1>5, <1>9, DataFacts
  <2>2. Covered(gpu, b, "default") \/ \E e \in ws : Keeps(gpu, b, e)
    BY <1>6, <1>9 DEF Awaited
  <2> QED
    BY <1>7, <1>8, <1>9, <2>1, <2>2 DEF Carried, Awaited
<1>10. ASSUME NEW r \in ToSet(running) PROVE RequestKept(r)'
  <2>1. r \in Reqs /\ Of(r) \subseteq Data
    BY <1>10, RunningFacts
  <2>2. ~Finished(r) /\ RequestKept(r)
    BY <1>4, <1>10 DEF Books, Control, Finished, DataKept, RequestsKept
  <2>3. CASE active
    <3>1. Home(r) \subseteq Home(r)'
      <4>1. ASSUME NEW e \in Home(r) PROVE e \in Home(r)'
        <5>1. CASE e = PrefillEvent(r)
          BY <5>1 DEF Home
        <5>2. CASE \E i \in Pipe : e = Remap(i) /\ r \in ToSet(pipes[i]) /\ ~Inflight(queue, i)
          <6>1. PICK i \in Pipe : e = Remap(i) /\ r \in ToSet(pipes[i]) /\ ~Inflight(queue, i)
            BY <5>2
          <6>2. r \in ToSet(pipes'[i]) /\ ~Inflight(queue', i)
            BY <1>4, <1>10, <2>3, <6>1
          <6> QED
            BY <1>4, <6>1, <6>2 DEF Home
        <5> QED
          BY <2>1, <2>3, <4>1, <5>1, <5>2, HomeEvents
      <4> QED
        BY <4>1
    <3>2. Home(r) \subseteq E /\ \A n \in 1 .. Len(queue) : Replay(queue[n].pid) \in E
      <4>1. \A n \in 1 .. Len(queue) : queue[n].pid \in 0 .. Serial
        BY LaunchTypes, SerialPipe
      <4> QED
        BY <1>7, <2>1, <2>3, <4>1, HomeEvents, MainEventFacts
    <3>3. \A b \in Of(r) : Carried(gpu, gpu', b, E)
      BY <1>5, <2>1, DataFacts
    <3>4. Flying(r)' <=> Flying(r)
      BY <1>4 DEF Flying
    <3> QED
      BY <1>2, <1>4, <2>2, <3>1, <3>2, <3>3, <3>4, RequestStays
  <2>4. CASE ~active
    <3>1. ~Flying(r) /\ queue' = <<>>
      BY <1>4, <1>6, <2>4 DEF Flying
    <3>2. Of(r)' = Of(r) /\ ~Finished(r)' /\ PrefillEvent(r) \in Home(r)'
      BY <1>2, <1>4, <2>2 DEF Of, Finished, Home
    <3>3. ASSUME NEW b \in Of(r) PROVE Awaited(gpu', b, "default", Home(r)')
      <4>1. Home(r) = {PrefillEvent(r)} \cup {Remap(Serial)}
        BY <2>4 DEF Home
      <4>2. Awaited(gpu, b, "default", {PrefillEvent(r)} \cup {Remap(Serial)})
        BY <2>2, <3>1, <4>1 DEF RequestKept
      <4>3. Awaited(gpu', b, "default", {PrefillEvent(r)})
        <5>1. {PrefillEvent(r)} \subseteq {PrefillEvent(q) : q \in Reqs}
          BY <2>1
        <5> QED
          BY <1>9, <2>1, <2>4, <4>2, <5>1, SerialPipe
      <4> QED
        BY <3>2, <4>3 DEF Awaited
    <3> QED
      BY <3>1, <3>2, <3>3 DEF RequestKept
  <2> QED
    BY <2>3, <2>4
<1>11. RestKept'
  <2>1. \A b \in Data \ {} : Carried(gpu, gpu', b, {})
    BY <1>5, DataFacts DEF Carried
  <2> QED
    BY <1>2, <1>4, <2>1, RestStays DEF DataKept
<1>12. ASSUME NEW p \in 0 .. Serial PROVE ParentKept(p)'
  <2>1. <<"parents", p>> \in Data /\ Carried(gpu, gpu', <<"parents", p>>, E) /\ ParentKept(p)
    BY <1>5, DataBuffers, DataFacts DEF DataKept, ParentsKept
  <2>2. CASE active
    BY <1>4, <1>7, <2>1, <2>2, ParentStays, MainEventFacts
  <2>3. CASE ~active
    <3>1. ~Inflight(queue, p) /\ ~Inflight(queue', p)
      BY <1>4, <1>6, <2>3 DEF Inflight
    <3>2. Awaited(gpu, <<"parents", p>>, "default", {} \cup {Remap(p)})
      BY <2>1, <3>1 DEF ParentKept
    <3>3. Awaited(gpu', <<"parents", p>>, "default", {})
      BY <1>9, <2>1, <2>3, <3>2
    <3> QED
      BY <3>1, <3>3 DEF ParentKept, Awaited
  <2> QED
    BY <2>2, <2>3
<1>13. HeldResultsKept'
  <2>1. SUFFICES ASSUME NEW p \in 0 .. Serial, result[p] # None
                 PROVE  Keeps(gpu', <<"result", result[p]>>, Replay(p))
    BY <1>2 DEF HeldResultsKept
  <2>2. <<"result", result[p]>> \in Data
    BY DataBuffers DEF Books, StreamsTyped
  <2>3. Keeps(gpu, <<"result", result[p]>>, Replay(p)) /\ Inflight(queue, p)
    BY <2>1 DEF Books, ResultsApart, DataKept, HeldResultsKept
  <2>4. active
    BY <1>6, <2>3 DEF Inflight
  <2>5. Replay(p) \in E /\ Carried(gpu, gpu', <<"result", result[p]>>, E)
    BY <1>5, <1>7, <2>2, <2>4, MainEventFacts, DataFacts
  <2> QED
    BY <2>3, <2>5 DEF Carried
<1>14. FreeResultsKept'
  <2>1. SUFFICES ASSUME NEW x \in FreeBlocks PROVE FreeKept(x)'
    BY <1>2 DEF FreeResultsKept, FreeBlocks
  <2>2. x \in Blocks /\ FreeKept(x) /\ <<"result", x>> \in Data
    BY FreeBlock, DataBuffers DEF DataKept, FreeResultsKept
  <2>3. Covered(gpu, <<"result", x>>, "default")
    BY <1>4, <1>6, <2>2, SerialPipe DEF FreeKept
  <2>4. Carried(gpu, gpu', <<"result", x>>, E)
    BY <1>5, <2>2, DataFacts
  <2> QED
    BY <1>8, <2>2, <2>3, <2>4 DEF FreeKept, Carried
<1>15. NoDataRace'
  BY <1>5, DataFacts DEF DataKept, NoDataRace
<1> QED
  BY <1>4, <1>10, <1>11, <1>12, <1>13, <1>14, <1>15 DEF DataKept, RequestsKept, ParentsKept

LEMMA ReleaseData ==
    ASSUME Inv, Books, DataKept, SRelease PROVE DataKept'
<1>1. PICK done : ReleasedAll(done)
  BY ReleasesDone
<1>2. /\ pc = "release" /\ pc' = "idle"
      /\ done \in Seq(Reqs) /\ ToSet(done) = Released /\ Released \subseteq Reqs
      /\ gpu' = IF done = <<>> THEN gpu ELSE DoAll(gpu, CompleteCommands(done))
      /\ lease' = [r \in Reqs |-> IF r \in Released THEN None ELSE lease[r]]
      /\ status' = [r \in Reqs |-> IF r \in Released THEN "done" ELSE status[r]]
      /\ ToSet(running') = ToSet(running) \ Released
      /\ UNCHANGED <<overlap, result, epoch, at, forgotten, left, active, pipes, turn, current, queue,
                     pending, held>>
  BY <1>1 DEF ReleasedAll
<1>3. Released = {r \in ToSet(running) : Finished(r)}
  BY DEF Released
<1>4. \A b \in Beams(done) : \E r \in Released : b = <<"beams", r>>
  BY <1>2 DEF Beams
<1>5. \A r \in Released : /\ Covered(gpu, <<"beams", r>>, "expand")
                          /\ Covered(gpu, <<"rows", lease[r]>>, "expand")
  BY <1>3 DEF DataKept, RequestsKept, RequestKept, Of
<1>6. \A b \in Beams(done) : Covered(gpu, b, "expand")
  BY <1>4, <1>5
<1>7. /\ \A b \in Data : done # <<>> /\ Covered(gpu, b, "expand") => Covered(gpu', b, "host")
      /\ \A b \in Data \ Beams(done) : Carried(gpu, gpu', b, MainEvents)
      /\ \A k \in DataKinds : k \notin gpu.races => k \notin gpu'.races
  <2>1. CASE done = <<>>
    BY <1>2, <2>1 DEF Carried
  <2>2. CASE done # <<>>
    BY <1>2, <1>6, <2>2, CompleteEffect DEF Books
  <2> QED
    BY <2>1, <2>2
<1>8. done # <<>> <=> Released # {}
  BY <1>2, Members
<1>9. "default" \in Actors /\ "expand" \in Actors /\ "host" \in Actors
  BY DEF Actors, Streams
<1>10. ASSUME NEW r \in ToSet(running') PROVE RequestKept(r)'
  <2>1. r \in ToSet(running) /\ r \notin Released
    BY <1>2, <1>10
  <2>2. r \in Reqs /\ Of(r) \subseteq Data /\ RequestKept(r)
    BY <2>1, RunningFacts DEF DataKept, RequestsKept
  <2>3. lease'[r] = lease[r]
    BY <1>2, <2>1, <2>2
  <2>4. \A b \in Of(r) : b \notin Beams(done)
    BY <1>4, <2>1 DEF Of
  <2>5. \A b \in Of(r) : Carried(gpu, gpu', b, MainEvents)
    BY <1>7, <2>2, <2>4
  <2>6. Of(r)' = Of(r) /\ Home(r)' = Home(r) /\ (Flying(r)' <=> Flying(r)) /\ (Finished(r)' <=> Finished(r))
    BY <1>2, <2>3 DEF Of, Home, Inflight, Flying, Finished
  <2>7. Home(r) \subseteq MainEvents /\ \A n \in 1 .. Len(queue) : Replay(queue[n].pid) \in MainEvents
    <3>1. \A n \in 1 .. Len(queue) : queue[n].pid \in 0 .. Serial
      BY LaunchTypes, SerialPipe
    <3> QED
      BY <2>2, <3>1, HomeEvents, MainEventFacts
  <2>8. SUFFICES ASSUME NEW b \in Of(r)
                 PROVE  /\ Finished(r) => Covered(gpu', b, "expand")
                        /\ ~Finished(r) /\ ~Flying(r) => Awaited(gpu', b, "default", Home(r))
                        /\ \A k \in 1 .. Len(queue) :
                             r \in ToSet(queue[k].reqs) => Keeps(gpu', b, Replay(queue[k].pid))
    BY <1>2, <2>6 DEF RequestKept
  <2>9. /\ Finished(r) => Covered(gpu, b, "expand")
        /\ ~Finished(r) /\ ~Flying(r) => Awaited(gpu, b, "default", Home(r))
        /\ \A k \in 1 .. Len(queue) : r \in ToSet(queue[k].reqs) => Keeps(gpu, b, Replay(queue[k].pid))
    BY <2>2 DEF RequestKept
  <2>10. Carried(gpu, gpu', b, MainEvents)
    BY <2>5
  <2> QED
    BY <1>9, <2>7, <2>9, <2>10 DEF Carried, Awaited
<1>11. RestKept'
  <2>1. ASSUME NEW r \in Reqs, status'[r] = "new" PROVE Covered(gpu', <<"beams", r>>, "host")
    <3>1. status[r] = "new" /\ r \notin Released
      BY <1>2, <2>1
    <3>2. <<"beams", r>> \in Data \ Beams(done)
      BY <1>4, <3>1, DataBuffers
    <3>3. Covered(gpu, <<"beams", r>>, "host")
      BY <3>1 DEF DataKept, RestKept
    <3> QED
      BY <1>7, <1>9, <3>2, <3>3 DEF Carried
  <2>2. ASSUME NEW x \in Leases \ {None}, \A r \in Reqs : lease'[r] # x
        PROVE  Covered(gpu', <<"rows", x>>, "host")
    <3>1. <<"rows", x>> \in Data \ Beams(done)
      BY <1>4, DataBuffers
    <3>2. CASE \A r \in Reqs : lease[r] # x
      <4>1. Covered(gpu, <<"rows", x>>, "host")
        BY <3>2 DEF DataKept, RestKept
      <4> QED
        BY <1>7, <1>9, <3>1, <4>1 DEF Carried
    <3>3. CASE \E r \in Reqs : lease[r] = x
      <4>1. PICK r \in Released : lease[r] = x
        BY <1>2, <2>2, <3>3
      <4>2. Covered(gpu, <<"rows", x>>, "expand") /\ done # <<>>
        BY <1>5, <1>8, <4>1
      <4> QED
        BY <1>7, <3>1, <4>2
    <3> QED
      BY <3>2, <3>3
  <2> QED
    BY <2>1, <2>2 DEF RestKept
<1>12. \A b \in Data : b[1] \in {"parents", "result"} => Carried(gpu, gpu', b, MainEvents)
  <2>1. \A b \in Beams(done) : b[1] = "beams"
    BY <1>2, DataBuffers
  <2> QED
    BY <1>7, <2>1
<1>13. ASSUME NEW p \in 0 .. Serial PROVE ParentKept(p)'
  <2>1. <<"parents", p>> \in Data /\ <<"parents", p>>[1] = "parents"
    BY DataBuffers
  <2>2. Carried(gpu, gpu', <<"parents", p>>, MainEvents)
    BY <1>12, <2>1
  <2>3. ParentKept(p) /\ queue' = queue
    BY <1>2 DEF DataKept, ParentsKept
  <2> QED
    BY <2>2, <2>3, MainEventFacts, ParentStays
<1>14. ASSUME NEW x \in Blocks PROVE Carried(gpu, gpu', <<"result", x>>, MainEvents) /\ <<"result", x>> \in Data
  <2>1. <<"result", x>> \in Data /\ <<"result", x>>[1] = "result"
    BY DataBuffers
  <2> QED
    BY <1>12, <2>1
<1>15. HeldResultsKept'
  <2>1. SUFFICES ASSUME NEW p \in 0 .. Serial, result[p] # None
                 PROVE  Keeps(gpu', <<"result", result[p]>>, Replay(p))
    BY <1>2 DEF HeldResultsKept
  <2>2. result[p] \in Blocks
    BY <2>1 DEF Books, StreamsTyped
  <2>3. Keeps(gpu, <<"result", result[p]>>, Replay(p))
    BY <2>1 DEF DataKept, HeldResultsKept
  <2> QED
    BY <1>14, <2>2, <2>3, MainEventFacts DEF Carried
<1>16. FreeResultsKept'
  <2>1. SUFFICES ASSUME NEW x \in FreeBlocks PROVE FreeKept(x)'
    BY <1>2 DEF FreeResultsKept, FreeBlocks
  <2>2. x \in Blocks /\ FreeKept(x)
    BY FreeBlock DEF DataKept, FreeResultsKept
  <2>3. Carried(gpu, gpu', <<"result", x>>, MainEvents) /\ <<"result", x>> \in Data
    BY <1>14, <2>2
  <2>4. CASE done # <<>>
    <3>1. Covered(gpu', <<"result", x>>, "host")
      BY <1>7, <2>2, <2>3, <2>4 DEF FreeKept
    <3> QED
      BY <1>9, <3>1, CoveredByHost DEF FreeKept
  <2>5. CASE done = <<>>
    <3>1. ~SomeFinished
      BY <1>3, <1>8, <2>5 DEF SomeFinished
    <3>2. Covered(gpu, <<"result", x>>, "default") \/ (~active /\ Keeps(gpu, <<"result", x>>, Remap(Serial)))
      BY <1>2, <2>2, <3>1 DEF FreeKept
    <3>3. Remap(Serial) \in MainEvents
      BY MainEventFacts, SerialPipe
    <3> QED
      BY <1>2, <1>9, <2>2, <2>3, <3>2, <3>3 DEF FreeKept, Carried
  <2> QED
    BY <2>4, <2>5
<1>17. NoDataRace'
  BY <1>7 DEF DataKept, NoDataRace
<1> QED
  BY <1>10, <1>11, <1>13, <1>15, <1>16, <1>17 DEF DataKept, RequestsKept, ParentsKept

\* The steps that issue nothing.
LEMMA IdleData ==
    ASSUME Inv, Books, DataKept,
           \/ \E r \in Reqs : SPrefillDone(r)
           \/ SStartSerial \/ SPickIdlePipe \/ SNothingToLaunch \/ UNCHANGED svars
    PROVE  DataKept'
<1>1. UNCHANGED <<gpu, lease, result, running, status, left, active, queue>>
  BY DEF SPrefillDone, PrefillDone, SStartSerial, StartSerial, SPickIdlePipe, PickIdlePipe,
     SNothingToLaunch, NothingToLaunch, Idle, svars, vars, place
<1>2. pipes' = pipes /\ pending' = pending
  <2>1. CASE SPickIdlePipe \/ SNothingToLaunch
    <3>1. pc = "next" /\ pipes' = Round.pipes /\ pending' = Round.pending
      BY <2>1 DEF SPickIdlePipe, PickIdlePipe, SNothingToLaunch, NothingToLaunch
    <3> QED
      BY <3>1, RoundSame
  <2>2. CASE ~(SPickIdlePipe \/ SNothingToLaunch)
    BY <2>2 DEF SPrefillDone, PrefillDone, SStartSerial, StartSerial, svars, vars, place
  <2> QED
    BY <2>1, <2>2
<1>3. \A r : RequestKept(r)' <=> RequestKept(r)
  BY <1>1, <1>2 DEF RequestKept, Of, Finished, Flying, Home, Inflight
<1>4. RequestsKept'
  BY <1>1, <1>3 DEF DataKept, RequestsKept
<1>5. RestKept' /\ HeldResultsKept' /\ NoDataRace'
  BY <1>1 DEF DataKept, RestKept, HeldResultsKept, NoDataRace
<1>6. ParentsKept'
  BY <1>1 DEF DataKept, ParentsKept, ParentKept, Inflight
<1>7. (Stuck' <=> Stuck) /\ (SomeFinished' <=> SomeFinished) /\ FreeBlocks' = FreeBlocks
  BY <1>1, <1>2 DEF Stuck, SomeFinished, HasLive, Finished, Inflight, FreeBlocks
<1>8. ASSUME NEW x \in FreeBlocks PROVE FreeKept(x)'
  <2>1. FreeKept(x)
    BY DEF DataKept, FreeResultsKept
  <2>2. CASE SPickIdlePipe
    <3>1. pc = "next" /\ active
      BY <2>2 DEF SPickIdlePipe, PickIdlePipe, Inv, Places
    <3>2. ~Stuck
      <4>1. Round.pipes = pipes
        BY <3>1, RoundSame
      <4>2. PICK t \in Picks(pipes) :
              \E i \in (IF Inflight(queue, t) THEN Alternatives(pipes, t) ELSE {t}) : TRUE
        BY <2>2, <4>1 DEF SPickIdlePipe, PickIdlePipe
      <4>3. t \in Pipe /\ HasLive(pipes, t)
        BY PicksArePipes, PicksFirst
      <4>4. ASSUME NEW i \in Alternatives(pipes, t) PROVE i \in Pipe /\ HasLive(pipes, i) /\ ~Inflight(queue, i)
        <5>1. i \in Pipe
          BY <4>3, PicksArePipes
        <5> QED
          BY <5>1 DEF Alternatives, FirstFrom
      <4> QED
        BY <4>2, <4>3, <4>4 DEF Stuck
    <3> QED
      BY <1>1, <2>1, <3>1, <3>2 DEF FreeKept
  <2>3. CASE SNothingToLaunch
    <3>1. pc = "next" /\ pc' = "release"
      BY <2>3 DEF SNothingToLaunch, NothingToLaunch
    <3> QED
      BY <1>1, <1>7, <2>1, <3>1 DEF FreeKept
  <2>4. CASE SStartSerial
    <3>1. pc = "idle"
      BY <2>4 DEF SStartSerial, StartSerial
    <3> QED
      BY <1>1, <2>1, <3>1 DEF FreeKept
  <2>5. CASE (\E r \in Reqs : SPrefillDone(r)) \/ UNCHANGED svars
    <3>1. pc' = pc /\ current' = current
      BY <2>5 DEF SPrefillDone, PrefillDone, svars, vars, place
    <3> QED
      BY <1>1, <1>7, <2>1, <3>1 DEF FreeKept
  <2> QED
    BY <2>2, <2>3, <2>4, <2>5
<1>9. FreeResultsKept'
  BY <1>7, <1>8 DEF FreeResultsKept
<1> QED
  BY <1>4, <1>5, <1>6, <1>9 DEF DataKept

\* A launch over rs: what its requests, and the free blocks, wait for.
LEMMA LaunchOver ==
    ASSUME Inv, Books, DataKept, NEW p \in 0 .. Serial, NEW rs \in Seq(Reqs), NEW block \in FreeBlocks,
           ToSet(rs) \subseteq ToSet(running),
           \A r \in ToSet(rs) : ~Finished(r) /\ ~Flying(r) /\ Home(r) \subseteq LaunchWaits(p, rs),
           ~Inflight(queue, p),
           \A x \in FreeBlocks : Awaited(gpu, <<"result", x>>, "default", LaunchWaits(p, rs))
    PROVE  LET h == DoAll(gpu, LaunchCommands(p, rs, block))
               T == Beams(rs) \cup Rows(rs, lease) \cup {<<"result", block>>}
           IN
           /\ h \in Orders
           /\ \A r \in ToSet(rs), b \in Data : b \in Of(r) => Covered(h, b, "default") /\ Keeps(h, b, Replay(p))
           /\ \A x \in FreeBlocks : /\ Covered(h, <<"result", x>>, "default")
                                    /\ Keeps(h, <<"result", x>>, Replay(p))
           /\ Keeps(h, <<"parents", p>>, Replay(p))
           /\ \A b \in Data \ T : Carried(gpu, h, b, MainEvents \ (LaunchWaits(p, rs) \cup {Replay(p)}))
           /\ \A b \in T : b[1] = "result" \/ \E r \in ToSet(rs) : b \in Of(r)
           /\ \A k \in DataKinds : k \notin h.races
<1> DEFINE ws == LaunchWaits(p, rs)
           h == DoAll(gpu, LaunchCommands(p, rs, block))
           T == Beams(rs) \cup Rows(rs, lease) \cup {<<"result", block>>}
<1>1. block \in Blocks /\ StreamsTyped /\ gpu \in Orders
  BY FreeBlock DEF Books, StreamsTyped
<1>2. /\ h \in Orders
      /\ \A b \in Data : Awaited(gpu, b, "default", ws)
                           => Covered(h, b, "default") /\ Keeps(h, b, Replay(p))
      /\ \A b \in Data \ T : Carried(gpu, h, b, MainEvents \ (ws \cup {Replay(p)}))
      /\ \A k \in DataKinds : /\ k \notin gpu.races
                              /\ \A b \in T : b[1] = k => Awaited(gpu, b, "default", ws)
                              => k \notin h.races
  BY <1>1, LaunchEffect
<1> HIDE DEF ws, h
<1>3. ASSUME NEW r \in ToSet(rs), NEW b \in Of(r) PROVE Awaited(gpu, b, "default", ws)
  <2>1. Home(r) \subseteq ws /\ ~Finished(r) /\ ~Flying(r)
    BY DEF ws
  <2>2. RequestKept(r)
    BY DEF DataKept, RequestsKept
  <2>3. Awaited(gpu, b, "default", Home(r))
    BY <2>1, <2>2 DEF RequestKept
  <2> QED
    BY <2>1, <2>3 DEF Awaited
<1>4. /\ \A b \in Beams(rs) \cup Rows(rs, lease) : \E r \in ToSet(rs) : b \in Of(r)
  BY ListBuffers
<1>5. \A x \in FreeBlocks : Awaited(gpu, <<"result", x>>, "default", ws) /\ <<"result", x>> \in Data
  BY FreeBlock, DataBuffers DEF ws
<1>6. \A b \in T : Awaited(gpu, b, "default", ws)
  BY <1>3, <1>4, <1>5
<1>7. \A k \in DataKinds : k \notin h.races
  BY <1>2, <1>6 DEF DataKept, NoDataRace
<1>8. Keeps(h, <<"parents", p>>, Replay(p))
  <2>1. <<"parents", p>> \in Data
    BY DataBuffers
  <2>2. Awaited(gpu, <<"parents", p>>, "default", {Remap(p)})
    BY DEF DataKept, ParentsKept, ParentKept
  <2>3. Awaited(gpu, <<"parents", p>>, "default", ws)
    BY <2>2 DEF Awaited, LaunchWaits, ws
  <2> QED
    BY <1>2, <2>1, <2>3
<1>9. \A b \in T : b[1] = "result" \/ \E r \in ToSet(rs) : b \in Of(r)
  BY <1>4
<1> QED
  BY <1>2, <1>3, <1>5, <1>7, <1>8, <1>9 DEF h, ws

\* A launched request is in no other forward, and only its pipe's remap and its
\* prefill are to be waited for.
LEMMA LaunchedHome ==
    ASSUME Inv, Books, pc = "launch", NEW r \in ToSet(Launched)
    PROVE  /\ r \in ToSet(running) /\ ~Finished(r) /\ ~Flying(r)
           /\ Home(r) \subseteq LaunchWaits(current, Launched)
<1>1. /\ r \in ToSet(pipes[current]) /\ left[r] # 0 /\ r \in Reqs /\ status[r] = "running"
      /\ current \in Pipe /\ active /\ ~Inflight(queue, current)
  BY LaunchedMembers DEF Inv, TypedPlace, Clear, Places
<1>2. r \in ToSet(running)
  BY <1>1 DEF Inv, Runs
<1>3. \A i \in Pipe : r \in ToSet(pipes[i]) => i = current
  BY <1>1 DEF Inv, Places, Apart
<1>4. ~Flying(r)
  <2>1. SUFFICES ASSUME NEW k \in 1 .. Len(queue), r \in ToSet(queue[k].reqs) PROVE FALSE
    BY DEF Flying
  <2>2. queue[k].pid \in Pipe /\ r \in ToSet(pipes[queue[k].pid])
    BY <1>1, <2>1, LaunchTypes DEF Inv, OneForwardOut
  <2>3. queue[k].pid = current
    BY <1>3, <2>2
  <2> QED
    BY <1>1, <2>3 DEF Inflight
<1>5. Home(r) \subseteq {PrefillEvent(r), Remap(current)}
  BY <1>1, <1>3, HomeEvents
<1>6. Home(r) \subseteq LaunchWaits(current, Launched)
  BY <1>5 DEF LaunchWaits
<1> QED
  BY <1>1, <1>2, <1>4, <1>6 DEF Finished

LEMMA LaunchData ==
    ASSUME Inv, Books, DataKept, SLaunch PROVE DataKept'
<1>1. PICK block : LaunchedWith(block)
  BY LaunchesOne
<1>2. /\ block \in FreeBlocks /\ pc = "launch" /\ pc' = "release" /\ active = TRUE
      /\ gpu' = DoAll(gpu, LaunchCommands(current, Launched, block))
      /\ result' = [result EXCEPT ![current] = block]
      /\ queue' = Append(queue, [pid |-> current, reqs |-> Launched])
      /\ UNCHANGED <<lease, running, status, left, active, pipes, current, pending>>
  BY <1>1 DEF LaunchedWith
<1>3. /\ current \in Pipe /\ current \in 0 .. Serial /\ ~Inflight(queue, current)
      /\ Launched \in Seq(Reqs)
      /\ ToSet(Launched) = {r \in ToSet(pipes[current]) : left[r] # 0}
  BY <1>2, SerialPipe, LaunchedMembers DEF Inv, TypedPlace, Clear
<1>4. PICK rs \in Seq(Reqs) : rs = Launched
  BY <1>3
<1>5. /\ \A r \in ToSet(rs) : ~Finished(r) /\ ~Flying(r) /\ Home(r) \subseteq LaunchWaits(current, rs)
      /\ ToSet(rs) \subseteq ToSet(running)
  BY <1>2, <1>4, LaunchedHome
<1>6. ASSUME NEW x \in FreeBlocks
      PROVE  Awaited(gpu, <<"result", x>>, "default", LaunchWaits(current, rs))
  <2>1. FreeKept(x)
    BY DEF DataKept, FreeResultsKept
  <2>2. Covered(gpu, <<"result", x>>, "default") \/ Keeps(gpu, <<"result", x>>, Remap(current))
    BY <1>2, <2>1 DEF FreeKept
  <2> QED
    BY <2>2 DEF Awaited, LaunchWaits
<1> DEFINE T == Beams(rs) \cup Rows(rs, lease) \cup {<<"result", block>>}
           E == MainEvents \ (LaunchWaits(current, rs) \cup {Replay(current)})
<1>7. /\ \A r \in ToSet(rs), b \in Data : b \in Of(r) => Keeps(gpu', b, Replay(current))
      /\ \A x \in FreeBlocks : /\ Covered(gpu', <<"result", x>>, "default")
                               /\ Keeps(gpu', <<"result", x>>, Replay(current))
      /\ Keeps(gpu', <<"parents", current>>, Replay(current))
      /\ \A b \in Data \ T : Carried(gpu, gpu', b, E)
      /\ \A b \in T : b[1] = "result" \/ \E r \in ToSet(rs) : b \in Of(r)
      /\ \A k \in DataKinds : k \notin gpu'.races
  <2> DEFINE h == DoAll(gpu, LaunchCommands(current, rs, block))
  <2>1. gpu' = h
    BY <1>2, <1>4
  <2>2. /\ \A r \in ToSet(rs), b \in Data : b \in Of(r) => Covered(h, b, "default") /\ Keeps(h, b, Replay(current))
        /\ \A x \in FreeBlocks : /\ Covered(h, <<"result", x>>, "default")
                                 /\ Keeps(h, <<"result", x>>, Replay(current))
        /\ Keeps(h, <<"parents", current>>, Replay(current))
        /\ \A b \in Data \ T : Carried(gpu, h, b, E)
        /\ \A b \in T : b[1] = "result" \/ \E r \in ToSet(rs) : b \in Of(r)
        /\ \A k \in DataKinds : k \notin h.races
    <3> HIDE DEF Keeps, Covered, Carried
    <3> QED
      BY <1>2, <1>3, <1>5, <1>6, LaunchOver, Zenon
  <2> HIDE DEF h, T, E
  <2> QED
    BY <2>1, <2>2
<1>8. /\ Len(queue') = Len(queue) + 1 /\ Len(queue) \in Nat
      /\ \A k \in 1 .. Len(queue) : k \in 1 .. Len(queue') /\ queue'[k] = queue[k]
      /\ queue'[Len(queue) + 1].pid = current /\ queue'[Len(queue) + 1].reqs = rs
      /\ Len(queue) + 1 \in 1 .. Len(queue')
      /\ \A k \in 1 .. Len(queue') : k \in 1 .. Len(queue) \/ k = Len(queue) + 1
  <2>1. PICK x : x = [pid |-> current, reqs |-> Launched]
    OBVIOUS
  <2>2. x.pid = current /\ x.reqs = rs /\ x \in Launches /\ queue \in Seq(Launches)
    BY <1>3, <1>4, <2>1 DEF Launches, Inv, TypedPlace
  <2>3. queue' = Append(queue, x)
    BY <1>2, <2>1
  <2> QED
    BY <2>2, <2>3
<1> HIDE DEF T, E
<1>9. ASSUME NEW p \in 0 .. Serial, p # current
      PROVE  Remap(p) \in E /\ Replay(p) \in E /\ (Inflight(queue', p) <=> Inflight(queue, p))
  <2>1. /\ Remap(p) \in MainEvents /\ Replay(p) \in MainEvents
    BY MainEventFacts
  <2>2. \A e \in LaunchWaits(current, rs) :
           e = Expand(current) \/ e = Remap(current) \/ \E r \in Reqs : e = PrefillEvent(r)
    BY Members DEF LaunchWaits
  <2>3. Remap(p) \in E /\ Replay(p) \in E
    BY <1>3, <1>9, <2>1, <2>2, EventsApart DEF E
  <2>4. Inflight(queue', p) <=> Inflight(queue, p)
    BY <1>8, <1>9 DEF Inflight
  <2> QED
    BY <2>3, <2>4
<1>10. ASSUME NEW r \in ToSet(rs) PROVE RequestKept(r)'
  <2>1. Flying(r)' /\ ~Finished(r)'
    BY <1>2, <1>5, <1>8 DEF Flying, Finished
  <2>2. Of(r)' = Of(r) /\ Of(r) \subseteq Data
    BY <1>2, <1>5, RunningFacts DEF Of
  <2>3. ASSUME NEW b \in Of(r), NEW n \in 1 .. Len(queue'), r \in ToSet(queue'[n].reqs)
        PROVE  Keeps(gpu', b, Replay(queue'[n].pid))
    <3>1. n = Len(queue) + 1
      BY <1>5, <1>8, <2>3 DEF Flying
    <3> QED
      BY <1>7, <1>8, <2>2, <2>3, <3>1
  <2> QED
    BY <2>1, <2>2, <2>3 DEF RequestKept
<1>11. ASSUME NEW r \in ToSet(running) \ ToSet(rs) PROVE RequestKept(r)'
  <2>1. RequestKept(r) /\ r \in Reqs /\ Of(r) \subseteq Data
    BY RunningFacts DEF DataKept, RequestsKept
  <2>2. \A b \in Of(r) : b \notin T
    <3>1. Of(r) \cap Beams(rs) = {} /\ Of(r) \cap Rows(rs, lease) = {}
      BY <1>5, ListBuffers
    <3>2. \A b \in Of(r) : b # <<"result", block>>
      BY DEF Of
    <3> QED
      BY <3>1, <3>2 DEF T
  <2>3. \A b \in Of(r) : Carried(gpu, gpu', b, E)
    BY <1>7, <2>1, <2>2
  <2>4. \A n \in 1 .. Len(queue') : r \in ToSet(queue'[n].reqs) =>
           n \in 1 .. Len(queue) /\ queue'[n] = queue[n]
    BY <1>8, <1>11
  <2>5. Flying(r)' <=> Flying(r)
    BY <1>8, <2>4 DEF Flying
  <2>6. ASSUME NEW n \in 1 .. Len(queue'), r \in ToSet(queue'[n].reqs)
        PROVE  \E k \in 1 .. Len(queue) : /\ r \in ToSet(queue[k].reqs) /\ queue[k].pid = queue'[n].pid
                                          /\ Replay(queue[k].pid) \in E
    <3>1. n \in 1 .. Len(queue) /\ queue'[n] = queue[n]
      BY <2>4, <2>6
    <3>2. queue[n].pid \in 0 .. Serial /\ queue[n].pid # current
      BY <1>3, <3>1, LaunchTypes, SerialPipe DEF Inflight
    <3> QED
      BY <1>9, <2>6, <3>1, <3>2
  <2>7. ASSUME ~Finished(r), NEW e \in Home(r) PROVE e \in Home(r)' /\ e \in E
    <3>1. CASE e = PrefillEvent(r)
      <4>1. e \in Home(r)'
        BY <3>1 DEF Home
      <4>2. \A q \in ToSet(rs) : q \in Reqs /\ PrefillEvent(r) # PrefillEvent(q)
        BY <1>11, <2>1, EventsApart, Members
      <4>3. e \in E
        BY <1>3, <2>1, <3>1, <4>2, EventsApart, MainEventFacts DEF E, LaunchWaits
      <4> QED
        BY <4>1, <4>3
    <3>2. CASE \E i \in Pipe : e = Remap(i) /\ r \in ToSet(pipes[i]) /\ ~Inflight(queue, i)
      <4>1. PICK i \in Pipe : e = Remap(i) /\ r \in ToSet(pipes[i]) /\ ~Inflight(queue, i)
        BY <3>2
      <4>2. i # current /\ i \in 0 .. Serial
        BY <1>3, <1>4, <1>11, <2>7, <4>1, SerialPipe DEF Finished
      <4>3. ~Inflight(queue', i) /\ Remap(i) \in E
        BY <1>9, <4>1, <4>2
      <4>4. e \in Home(r)'
        BY <1>2, <4>1, <4>3 DEF Home
      <4> QED
        BY <4>1, <4>3, <4>4
    <3> QED
      BY <1>2, <2>1, <2>7, <3>1, <3>2, HomeEvents
  <2>8. ~Finished(r) => Home(r) \subseteq Home(r)' \cap E
    BY <2>7
  <2> QED
    BY <1>2, <2>1, <2>3, <2>5, <2>6, <2>8, RequestStays
<1>12. RestKept'
  <2>1. \A b \in Data \ T : Carried(gpu, gpu', b, {})
    BY <1>7 DEF Carried
  <2>2. \A b \in T : b[1] \in {"parents", "result"} \/ \E r \in ToSet(running) : b \in Of(r)
    BY <1>5, <1>7
  <2> QED
    BY <1>2, <2>1, <2>2, RestStays DEF DataKept
<1>13. \A b \in T : b[1] # "parents" /\ (b[1] = "result" => b = <<"result", block>>)
  <2>1. \A b \in Beams(rs) : b[1] = "beams"
    BY DEF Beams
  <2>2. \A b \in Rows(rs, lease) : b[1] = "rows"
    BY DEF Rows
  <2>3. <<"result", block>>[1] = "result"
    OBVIOUS
  <2> QED
    BY <2>1, <2>2, <2>3 DEF T
<1>14. ASSUME NEW p \in 0 .. Serial PROVE ParentKept(p)'
  <2>1. CASE p = current
    <3>1. Inflight(queue', p)
      BY <1>8, <2>1 DEF Inflight
    <3> QED
      BY <1>7, <2>1, <3>1 DEF ParentKept
  <2>2. CASE p # current
    <3>1. <<"parents", p>> \in Data /\ <<"parents", p>> \notin T
      BY <1>13, DataBuffers
    <3>2. Carried(gpu, gpu', <<"parents", p>>, E) /\ ParentKept(p)
      BY <1>7, <3>1 DEF DataKept, ParentsKept
    <3> QED
      BY <1>9, <2>2, <3>2, ParentStays
  <2> QED
    BY <2>1, <2>2
<1>15. \A p \in 0 .. Serial : result'[p] = IF p = current THEN block ELSE result[p]
  BY <1>2, <1>3 DEF Books, StreamsTyped
<1>16. ASSUME NEW x \in Blocks, x # block PROVE Carried(gpu, gpu', <<"result", x>>, E)
  <2>1. <<"result", x>> \in Data /\ <<"result", x>>[1] = "result" /\ <<"result", x>> # <<"result", block>>
    BY <1>16, DataBuffers
  <2>2. <<"result", x>> \notin T
    BY <1>13, <2>1
  <2> QED
    BY <1>7, <2>1, <2>2
<1>17. HeldResultsKept'
  <2>1. SUFFICES ASSUME NEW p \in 0 .. Serial, result'[p] # None
                 PROVE  Keeps(gpu', <<"result", result'[p]>>, Replay(p))
    BY DEF HeldResultsKept
  <2>2. CASE p = current
    BY <1>2, <1>7, <1>15, <2>2
  <2>3. CASE p # current
    <3>1. result'[p] = result[p] /\ result[p] \in Blocks
      BY <1>15, <2>1, <2>3 DEF Books, StreamsTyped
    <3>2. result[p] # block
      BY <1>2, FreeBlock
    <3>3. Keeps(gpu, <<"result", result[p]>>, Replay(p))
      BY <2>1, <3>1 DEF DataKept, HeldResultsKept
    <3> QED
      BY <1>9, <1>16, <2>3, <3>1, <3>2, <3>3 DEF Carried
  <2> QED
    BY <2>2, <2>3
<1>18. FreeResultsKept'
  <2>1. SUFFICES ASSUME NEW x \in FreeBlocks' PROVE FreeKept(x)'
    BY DEF FreeResultsKept
  <2>2. x # block /\ x \in Blocks
    BY <1>3, <1>15, <2>1 DEF FreeBlocks
  <2>3. x \in FreeBlocks
    <3>1. \A p \in 0 .. Serial : x # result'[p]
      BY <2>1 DEF FreeBlocks
    <3>2. result[current] = None /\ result[Serial] = None /\ Serial # current /\ Serial \in 0 .. Serial
      BY <1>3, SerialIdle, SerialPipe DEF Books, ResultsApart
    <3> QED
      BY <1>15, <2>2, <3>1, <3>2 DEF FreeBlocks
  <2>4. Covered(gpu, <<"result", x>>, "expand") /\ "expand" \in Actors
    BY <2>3 DEF DataKept, FreeResultsKept, FreeKept, Actors, Streams
  <2>5. Covered(gpu', <<"result", x>>, "expand")
    BY <1>16, <2>2, <2>4 DEF Carried
  <2> QED
    BY <1>7, <2>3, <2>5 DEF FreeKept
<1>19. NoDataRace'
  BY <1>7 DEF NoDataRace
<1> QED
  BY <1>2, <1>10, <1>11, <1>12, <1>14, <1>17, <1>18, <1>19 DEF DataKept, RequestsKept, ParentsKept

\* An expand over rs, of which on go on: what it leaves the beams, the rows, the
\* parents and the results waiting for.
LEMMA ProcessOver ==
    ASSUME Inv, Books, NEW g \in Orders, NEW p \in 0 .. Serial, NEW rs \in Seq(Reqs), NEW block \in Blocks,
           NEW on \in Seq(Reqs), ToSet(rs) \subseteq ToSet(running), ToSet(on) \subseteq ToSet(rs),
           \A r \in ToSet(rs), b \in Data : b \in Of(r) => Keeps(g, b, Replay(p)),
           Keeps(g, <<"result", block>>, Replay(p)), Keeps(g, <<"parents", p>>, Replay(p)),
           \A k \in DataKinds : k \notin g.races
    PROVE  LET h == DoAll(g, ProcessCommands(p, rs, block, on))
               T == Beams(rs) \cup Rows(on, lease) \cup {<<"result", block>>, <<"parents", p>>}
           IN
           /\ h \in Orders
           /\ \A r \in ToSet(rs), b \in Data : b \in Of(r) => Keeps(h, b, Remap(p))
           /\ \A r \in ToSet(rs) \ ToSet(on), b \in Data : b \in Of(r) => Covered(h, b, "expand")
           /\ Keeps(h, <<"parents", p>>, Remap(p))
           /\ \A x \in Blocks : x = block \/ Covered(g, <<"result", x>>, "expand")
                => Keeps(h, <<"result", x>>, Remap(p)) /\ Covered(h, <<"result", x>>, "expand")
           /\ \A b \in Data \ T : Carried(g, h, b, MainEvents \ {Expand(p), Remap(p)})
           /\ \A b \in T : b[1] \in {"parents", "result"} \/ \E r \in ToSet(rs) : b \in Of(r)
           /\ \A k \in DataKinds : k \notin h.races
<1> DEFINE h == DoAll(g, ProcessCommands(p, rs, block, on))
           T == Beams(rs) \cup Rows(on, lease) \cup {<<"result", block>>, <<"parents", p>>}
<1>1. /\ h \in Orders
      /\ \A b \in Data : Awaited(g, b, "expand", {Replay(p)}) => Keeps(h, b, Remap(p))
      /\ \A b \in Data : /\ Awaited(g, b, "expand", {Replay(p)})
                         /\ b \notin Rows(on, lease) /\ b # <<"parents", p>>
                         => Covered(h, b, "expand")
      /\ \A b \in Data \ T : Carried(g, h, b, MainEvents \ {Expand(p), Remap(p)})
      /\ \A k \in DataKinds :
            /\ k \notin g.races
            /\ \A b \in T : b[1] = k => Awaited(g, b, "expand", {Replay(p)})
            => k \notin h.races
  BY ProcessEffect DEF Books
<1> HIDE DEF h
<1>2. /\ \A b \in Beams(rs) : b[1] = "beams"
      /\ \A y \in Rows(on, lease) : y[1] = "rows"
  BY DEF Beams, Rows
<1>3. ToSet(on) \subseteq ToSet(running)
  OBVIOUS
<1>4. /\ \A b \in Beams(rs) \cup Rows(rs, lease) : \E r \in ToSet(rs) : b \in Of(r)
      /\ Rows(on, lease) \subseteq Rows(rs, lease)
  <2>1. Rows(on, lease) \subseteq Rows(rs, lease)
    BY DEF Rows
  <2> QED
    BY <2>1, ListBuffers
<1>5. /\ \A r \in ToSet(running) \ ToSet(on) : <<"rows", lease[r]>> \notin Rows(on, lease)
      /\ \A r : <<"beams", r>> \notin Rows(on, lease)
  BY <1>3, ListBuffers
<1>6. ASSUME NEW b \in Data, Keeps(g, b, Replay(p)) PROVE Awaited(g, b, "expand", {Replay(p)})
  BY <1>6 DEF Awaited
<1>7. \A r \in ToSet(rs), b \in Data : b \in Of(r) => Awaited(g, b, "expand", {Replay(p)})
  BY <1>6
<1>8. /\ <<"parents", p>> \in Data /\ \A x \in Blocks : <<"result", x>> \in Data
  BY DataBuffers
<1>9. \A r \in ToSet(rs), b \in Data : b \in Of(r) => Keeps(h, b, Remap(p))
  BY <1>1, <1>7
<1>10. ASSUME NEW r \in ToSet(rs) \ ToSet(on), NEW b \in Data, b \in Of(r) PROVE Covered(h, b, "expand")
  <2>1. b # <<"parents", p>> /\ b \notin Rows(on, lease)
    BY <1>5, <1>10 DEF Of
  <2> QED
    BY <1>1, <1>7, <1>10, <2>1
<1>11. Keeps(h, <<"parents", p>>, Remap(p))
  BY <1>1, <1>6, <1>8
<1>12. ASSUME NEW x \in Blocks, x = block \/ Covered(g, <<"result", x>>, "expand")
       PROVE  Keeps(h, <<"result", x>>, Remap(p)) /\ Covered(h, <<"result", x>>, "expand")
  <2>1. Awaited(g, <<"result", x>>, "expand", {Replay(p)})
    BY <1>6, <1>8, <1>12 DEF Awaited
  <2>2. <<"result", x>> # <<"parents", p>> /\ <<"result", x>>[1] = "result"
    OBVIOUS
  <2>3. <<"result", x>> \notin Rows(on, lease)
    BY <1>2, <2>2
  <2> QED
    BY <1>1, <1>8, <2>1, <2>2, <2>3
<1>13. <<"parents", p>>[1] = "parents" /\ <<"result", block>>[1] = "result"
  OBVIOUS
<1>14. \A b \in T : b[1] \in {"parents", "result"} \/ \E r \in ToSet(rs) : b \in Of(r)
  BY <1>4, <1>13
<1>15. \A k \in DataKinds : k \notin h.races
  <2>1. \A b \in T : b \in Data
    <3>1. Beams(rs) \subseteq Data /\ Rows(on, lease) \subseteq Data
      BY DataBuffers DEF Books, StreamsTyped
    <3> QED
      BY <1>8, <3>1
  <2>2. \A b \in T : Awaited(g, b, "expand", {Replay(p)})
    <3>1. ASSUME NEW b \in Beams(rs) \cup Rows(on, lease) PROVE Awaited(g, b, "expand", {Replay(p)})
      BY <1>4, <1>7, <2>1, <3>1
    <3> QED
      BY <1>6, <1>8, <3>1
  <2> QED
    BY <1>1, <2>2
<1> QED
  BY <1>1, <1>9, <1>10, <1>11, <1>12, <1>14, <1>15 DEF h

\* The launches that stay out, and the requests of the one that is processed.
LEMMA ProcessedRequests ==
    ASSUME Inv, Books, NEW t, NEW k, ProcessedBy(t, k)
    PROVE  /\ \A n \in 1 .. Len(queue') :
                \E m \in 1 .. Len(queue) : m # k /\ queue'[n] = queue[m] /\ queue[m].pid # t
           /\ \A m \in 1 .. Len(queue) : m # k => \E n \in 1 .. Len(queue') : queue'[n] = queue[m]
           /\ \A m \in 1 .. Len(queue) : m # k => ToSet(queue[m].reqs) \cap ToSet(queue[k].reqs) = {}
           /\ \A r \in ToSet(queue[k].reqs) :
                r \in Reqs /\ status[r] = "running" /\ left[r] > 0 /\ r \in ToSet(pipes[t]) /\ r \in ToSet(running)
<1>1. k \in 1 .. Len(queue) /\ queue[k].pid = t /\ t \in Pipe
  BY ProcessedLaunch
<1>2. PICK q \in Seq(Launches) : q = queue
  BY DEF Inv, TypedPlace
<1>3. /\ Len(queue') = Len(q) - 1 /\ Len(q) \in Nat
      /\ \A i \in 1 .. Len(q) - 1 : queue'[i] = IF i < k THEN q[i] ELSE q[i + 1]
  <2>1. queue' = RemoveAt(q, k) /\ k \in 1 .. Len(q)
    BY <1>1, <1>2 DEF ProcessedBy, TakenOff
  <2>2. /\ Len(RemoveAt(q, k)) = Len(q) - 1
        /\ \A i \in 1 .. Len(q) - 1 : RemoveAt(q, k)[i] = IF i < k THEN q[i] ELSE q[i + 1]
    BY <2>1, RemovedPosition
  <2> QED
    BY <2>1, <2>2
<1>4. ASSUME NEW n \in 1 .. Len(queue')
      PROVE  \E m \in 1 .. Len(queue) : m # k /\ queue'[n] = queue[m] /\ queue[m].pid # t
  <2>1. n \in 1 .. Len(q) /\ n + 1 \in 1 .. Len(q) /\ n \in 1 .. Len(q) - 1
    BY <1>3, <1>4
  <2>2. \E m \in 1 .. Len(q) : m # k /\ queue'[n] = q[m]
    BY <1>1, <1>2, <1>3, <2>1
  <2>3. PICK m \in 1 .. Len(queue) : m # k /\ queue'[n] = queue[m]
    BY <1>2, <2>2
  <2>4. queue[m].pid # t
    BY <1>1, <2>3, OneLaunch
  <2> QED
    BY <2>3, <2>4
<1>5. ASSUME NEW m \in 1 .. Len(queue), m # k PROVE \E n \in 1 .. Len(queue') : queue'[n] = queue[m]
  <2>1. CASE m < k
    <3>1. m \in 1 .. Len(q) - 1
      BY <1>1, <1>2, <1>3, <2>1
    <3> QED
      BY <1>2, <1>3, <2>1, <3>1
  <2>2. CASE k < m
    <3>1. m - 1 \in 1 .. Len(q) - 1 /\ ~(m - 1 < k) /\ m - 1 + 1 = m
      BY <1>1, <1>2, <1>3, <2>2
    <3> QED
      BY <1>2, <1>3, <3>1
  <2> QED
    BY <1>1, <1>2, <1>3, <1>5, <2>1, <2>2
<1>6. ASSUME NEW m \in 1 .. Len(queue), m # k PROVE ToSet(queue[m].reqs) \cap ToSet(queue[k].reqs) = {}
  <2>1. \A a, b \in 1 .. Len(queue) : a < b => ToSet(queue[a].reqs) \cap ToSet(queue[b].reqs) = {}
    <3>1. \A b \in 1 .. Len(queue) : \A a \in 1 .. b - 1 : ToSet(queue[a].reqs) \cap ToSet(queue[b].reqs) = {}
      BY DEF Inv, OneForwardOut
    <3>2. \A a, b \in 1 .. Len(queue) : a < b => a \in 1 .. b - 1
      BY <1>2
    <3> QED
      BY <3>1, <3>2
  <2>2. m < k \/ k < m
    BY <1>1, <1>2, <1>3, <1>6
  <2> QED
    BY <1>1, <2>1, <2>2
<1>7. ASSUME NEW r \in ToSet(queue[k].reqs)
      PROVE  r \in Reqs /\ status[r] = "running" /\ left[r] > 0 /\ r \in ToSet(pipes[t]) /\ r \in ToSet(running)
  <2>1. r \in Reqs
    BY <1>1, LaunchTypes
  <2>2. status[r] \notin {"new", "done", "dropped"}
    BY <1>1, <2>1 DEF Inv, OneForwardOut, NoneNew, Books, Control
  <2>3. status[r] = "running"
    BY <2>1, <2>2 DEF Inv, TypedRequests
  <2> QED
    BY <1>1, <2>1, <2>3 DEF Inv, OneForwardOut, Runs
<1> QED
  BY <1>4, <1>5, <1>6, <1>7

LEMMA ProcessData ==
    ASSUME Inv, Books, DataKept, SProcessPicked PROVE DataKept'
<1>1. PICK t, k : ProcessedBy(t, k)
  BY ProcessesOne
<1>2. /\ t \in Pipe /\ t \in 0 .. Serial /\ Inflight(queue, t) /\ k \in 1 .. Len(queue)
      /\ queue[k].pid = t /\ queue[k].reqs \in Seq(Reqs)
      /\ result[t] \in Blocks /\ result[t] # None
      /\ GoesOn(queue[k].reqs) \in Seq(Reqs)
      /\ gpu' = DoAll(gpu, ProcessCommands(t, queue[k].reqs, result[t], GoesOn(queue[k].reqs)))
      /\ \A p \in 0 .. Serial : Inflight(queue', p) <=> Inflight(queue, p) /\ p # t
  BY <1>1, ProcessedLaunch
<1>3. /\ HasLive(pipes, t) /\ TakenOff(t, k)
      /\ \A i \in Pipe : HasLive(pipes, i) => Inflight(queue, i)
      /\ result' = [result EXCEPT ![t] = None]
      /\ pc = "next"
      /\ \/ pc' = "launch" /\ current' = t
         \/ pc' = "next" /\ \A r \in ToSet(pipes'[t]) : ~(left'[r] > 0)
      /\ UNCHANGED <<lease, running, status, active>>
  BY <1>1 DEF ProcessedBy
<1>4. PICK rs \in Seq(Reqs) : rs = queue[k].reqs
  BY <1>2
<1>5. PICK on \in Seq(Reqs) : on = GoesOn(rs)
  BY <1>2, <1>4
<1>6. PICK block \in Blocks : block = result[t]
  BY <1>2
<1>7. /\ \A n \in 1 .. Len(queue') :
           \E m \in 1 .. Len(queue) : m # k /\ queue'[n] = queue[m] /\ queue[m].pid # t
      /\ \A m \in 1 .. Len(queue) : m # k => \E n \in 1 .. Len(queue') : queue'[n] = queue[m]
      /\ \A m \in 1 .. Len(queue) : m # k => ToSet(queue[m].reqs) \cap ToSet(rs) = {}
      /\ \A r \in ToSet(rs) :
           r \in Reqs /\ status[r] = "running" /\ left[r] > 0 /\ r \in ToSet(pipes[t]) /\ r \in ToSet(running)
  <2>1. /\ \A n \in 1 .. Len(queue') :
             \E m \in 1 .. Len(queue) : m # k /\ queue'[n] = queue[m] /\ queue[m].pid # t
        /\ \A m \in 1 .. Len(queue) : m # k => \E n \in 1 .. Len(queue') : queue'[n] = queue[m]
        /\ \A m \in 1 .. Len(queue) : m # k => ToSet(queue[m].reqs) \cap ToSet(queue[k].reqs) = {}
        /\ \A r \in ToSet(queue[k].reqs) :
             r \in Reqs /\ status[r] = "running" /\ left[r] > 0 /\ r \in ToSet(pipes[t]) /\ r \in ToSet(running)
    BY <1>1, ProcessedRequests
  <2>2. ToSet(rs) = ToSet(queue[k].reqs)
    BY <1>4
  <2> QED
    BY <2>1, <2>2
<1>8. ToSet(on) = {r \in ToSet(rs) : left'[r] > 0}
  BY <1>5, GoesOnMembers
<1>9. /\ left' \in [Reqs -> Nat] /\ \A r \in Reqs \ ToSet(rs) : left'[r] = left[r]
  BY <1>3, <1>4, ExpandedType DEF TakenOff
<1>10. /\ pending' = <<>> /\ active = TRUE /\ pipes \in [Pipe -> Seq(Reqs)]
       /\ \A i \in Pipe : ToSet(pipes[i]) \subseteq ToSet(pipes'[i])
       /\ \A j \in Pipe : j # t => ToSet(pipes'[j]) = ToSet(pipes[j])
       /\ \A j \in Pipe : \A r \in ToSet(pipes'[j]) : r \in ToSet(running) /\ r \in Reqs
  BY <1>2, <1>3, TakenShows DEF TakenOff, Deals, Inv, Places, TypedPlace
<1> DEFINE T == Beams(rs) \cup Rows(on, lease) \cup {<<"result", block>>, <<"parents", t>>}
           E == MainEvents \ {Expand(t), Remap(t)}
<1>11. /\ \A r \in ToSet(rs), b \in Data : b \in Of(r) => Keeps(gpu', b, Remap(t))
       /\ \A r \in ToSet(rs) \ ToSet(on), b \in Data : b \in Of(r) => Covered(gpu', b, "expand")
       /\ Keeps(gpu', <<"parents", t>>, Remap(t))
       /\ \A x \in Blocks : x = block \/ Covered(gpu, <<"result", x>>, "expand")
            => Keeps(gpu', <<"result", x>>, Remap(t)) /\ Covered(gpu', <<"result", x>>, "expand")
       /\ \A b \in Data \ T : Carried(gpu, gpu', b, E)
       /\ \A b \in T : b[1] \in {"parents", "result"} \/ \E r \in ToSet(rs) : b \in Of(r)
       /\ \A b \in T : /\ b[1] = "parents" => b = <<"parents", t>>
                       /\ b[1] = "result" => b = <<"result", block>>
       /\ \A j \in DataKinds : j \notin gpu'.races
  <2> DEFINE h == DoAll(gpu, ProcessCommands(t, rs, block, on))
  <2>1. gpu' = h
    BY <1>2, <1>4, <1>5, <1>6
  <2>2. gpu \in Orders /\ ToSet(rs) \subseteq ToSet(running) /\ ToSet(on) \subseteq ToSet(rs)
    BY <1>7, <1>8 DEF Books, StreamsTyped
  <2>3. \A r \in ToSet(rs), b \in Data : b \in Of(r) => Keeps(gpu, b, Replay(t))
    BY <1>2, <1>4, <1>7 DEF DataKept, RequestsKept, RequestKept
  <2>4. Keeps(gpu, <<"result", block>>, Replay(t))
    BY <1>2, <1>6 DEF DataKept, HeldResultsKept
  <2>5. Keeps(gpu, <<"parents", t>>, Replay(t))
    BY <1>2 DEF DataKept, ParentsKept, ParentKept
  <2>6. \A j \in DataKinds : j \notin gpu.races
    BY DEF DataKept, NoDataRace
  <2>7. rs \in Seq(Reqs) /\ on \in Seq(Reqs) /\ block \in Blocks /\ t \in 0 .. Serial
    BY <1>2, <1>4, <1>5, <1>6
  <2> HIDE DEF h
  <2>8. /\ \A r \in ToSet(rs), b \in Data : b \in Of(r) => Keeps(h, b, Remap(t))
        /\ \A r \in ToSet(rs) \ ToSet(on), b \in Data : b \in Of(r) => Covered(h, b, "expand")
        /\ Keeps(h, <<"parents", t>>, Remap(t))
    BY <2>2, <2>3, <2>4, <2>5, <2>6, <2>7, ProcessOver DEF h
  <2>9. \A x \in Blocks : x = block \/ Covered(gpu, <<"result", x>>, "expand")
          => Keeps(h, <<"result", x>>, Remap(t)) /\ Covered(h, <<"result", x>>, "expand")
    BY <2>2, <2>3, <2>4, <2>5, <2>6, <2>7, ProcessOver DEF h
  <2>10. \A b \in Data \ T : Carried(gpu, h, b, E)
    BY <2>2, <2>3, <2>4, <2>5, <2>6, <2>7, ProcessOver DEF h
  <2>11. \A b \in T : b[1] \in {"parents", "result"} \/ \E r \in ToSet(rs) : b \in Of(r)
    BY <2>2, <2>3, <2>4, <2>5, <2>6, <2>7, ProcessOver DEF h
  <2>12. \A b \in T : /\ b[1] = "parents" => b = <<"parents", t>>
                      /\ b[1] = "result" => b = <<"result", block>>
    <3>1. \A b \in Beams(rs) : b[1] = "beams"
      BY DEF Beams
    <3>2. \A b \in Rows(on, lease) : b[1] = "rows"
      BY DEF Rows
    <3>3. <<"parents", t>>[1] = "parents" /\ <<"result", block>>[1] = "result"
      OBVIOUS
    <3> QED
      BY <3>1, <3>2, <3>3
  <2>13. \A j \in DataKinds : j \notin h.races
    BY <2>2, <2>3, <2>4, <2>5, <2>6, <2>7, ProcessOver DEF h
  <2> HIDE DEF T, E
  <2>14. /\ \A r \in ToSet(rs), b \in Data : b \in Of(r) => Keeps(gpu', b, Remap(t))
         /\ \A r \in ToSet(rs) \ ToSet(on), b \in Data : b \in Of(r) => Covered(gpu', b, "expand")
         /\ Keeps(gpu', <<"parents", t>>, Remap(t))
    BY <2>1, <2>8
  <2>15. \A x \in Blocks : x = block \/ Covered(gpu, <<"result", x>>, "expand")
           => Keeps(gpu', <<"result", x>>, Remap(t)) /\ Covered(gpu', <<"result", x>>, "expand")
    BY <2>1, <2>9
  <2>16. (\A b \in Data \ T : Carried(gpu, gpu', b, E)) /\ \A j \in DataKinds : j \notin gpu'.races
    BY <2>1, <2>10, <2>13
  <2> QED
    BY <2>11, <2>12, <2>14, <2>15, <2>16
<1> HIDE DEF T, E
<1>12. ASSUME NEW p \in 0 .. Serial
       PROVE  Replay(p) \in E /\ (p # t => Remap(p) \in E)
  BY <1>2, MainEventFacts, EventsApart DEF E
<1>13. ASSUME NEW r \in ToSet(rs) PROVE RequestKept(r)'
  <2>1. r \in ToSet(running) /\ r \in Reqs /\ Of(r) \subseteq Data /\ left'[r] \in Nat /\ r \in ToSet(pipes'[t])
    BY <1>2, <1>7, <1>9, <1>10, RunningFacts
  <2>2. ASSUME NEW n \in 1 .. Len(queue') PROVE r \notin ToSet(queue'[n].reqs)
    BY <1>7, <1>13, <2>2
  <2>3. Of(r)' = Of(r)
    BY <1>3 DEF Of
  <2>4. Finished(r)' => r \notin ToSet(on)
    BY <1>8 DEF Finished
  <2>5. Remap(t) \in Home(r)'
    BY <1>2, <1>3, <1>10, <2>1 DEF Home
  <2>6. \A b \in Of(r) : Keeps(gpu', b, Remap(t)) /\ (Finished(r)' => Covered(gpu', b, "expand"))
    BY <1>11, <1>13, <2>1, <2>4
  <2> QED
    BY <2>2, <2>3, <2>5, <2>6 DEF RequestKept, Awaited
<1>14. ASSUME NEW r \in ToSet(running) \ ToSet(rs) PROVE RequestKept(r)'
  <2>1. RequestKept(r) /\ r \in Reqs /\ Of(r) \subseteq Data /\ left'[r] = left[r]
    BY <1>9, <1>14, RunningFacts DEF DataKept, RequestsKept
  <2>2. \A b \in Of(r) : b \notin T
    <3>1. ToSet(rs) \subseteq ToSet(running) /\ Rows(on, lease) \subseteq Rows(rs, lease)
      BY <1>7, <1>8 DEF Rows
    <3>2. Of(r) \cap Beams(rs) = {} /\ Of(r) \cap Rows(on, lease) = {}
      BY <1>14, <3>1, ListBuffers
    <3>3. \A b \in Of(r) : b # <<"result", block>> /\ b # <<"parents", t>>
      BY DEF Of
    <3> QED
      BY <3>2, <3>3 DEF T
  <2>3. \A b \in Of(r) : Carried(gpu, gpu', b, E)
    BY <1>11, <2>1, <2>2
  <2>4. Flying(r) => Flying(r)'
    <3>1. SUFFICES ASSUME NEW m \in 1 .. Len(queue), r \in ToSet(queue[m].reqs) PROVE Flying(r)'
      BY DEF Flying
    <3>2. m # k
      BY <1>4, <1>14, <3>1
    <3>3. PICK n \in 1 .. Len(queue') : queue'[n] = queue[m]
      BY <1>7, <3>2
    <3> QED
      BY <3>1, <3>3 DEF Flying
  <2>5. ASSUME NEW n \in 1 .. Len(queue'), r \in ToSet(queue'[n].reqs)
        PROVE  \E m \in 1 .. Len(queue) : /\ r \in ToSet(queue[m].reqs) /\ queue[m].pid = queue'[n].pid
                                          /\ Replay(queue[m].pid) \in E
    <3>1. PICK m \in 1 .. Len(queue) : m # k /\ queue'[n] = queue[m] /\ queue[m].pid # t
      BY <1>7
    <3>2. queue[m].pid \in 0 .. Serial
      BY LaunchTypes, SerialPipe
    <3> QED
      BY <1>12, <2>5, <3>1, <3>2
  <2>6. ASSUME NEW e \in Home(r) PROVE e \in Home(r)' /\ e \in E
    <3>1. CASE e = PrefillEvent(r)
      <4>1. e \in Home(r)'
        BY <3>1 DEF Home
      <4>2. e \in E
        BY <1>2, <2>1, <3>1, EventsApart, MainEventFacts DEF E
      <4> QED
        BY <4>1, <4>2
    <3>2. CASE \E i \in Pipe : e = Remap(i) /\ r \in ToSet(pipes[i]) /\ ~Inflight(queue, i)
      <4>1. PICK i \in Pipe : e = Remap(i) /\ r \in ToSet(pipes[i]) /\ ~Inflight(queue, i)
        BY <3>2
      <4>2. i # t /\ i \in 0 .. Serial
        BY <1>2, <4>1, SerialPipe
      <4>3. ~Inflight(queue', i) /\ Remap(i) \in E /\ r \in ToSet(pipes'[i])
        BY <1>2, <1>10, <1>12, <4>1, <4>2
      <4>4. e \in Home(r)'
        BY <1>3, <1>10, <4>1, <4>3 DEF Home
      <4> QED
        BY <4>1, <4>3, <4>4
    <3> QED
      BY <1>10, <2>1, <2>6, <3>1, <3>2, HomeEvents
  <2>7. Home(r) \subseteq Home(r)' \cap E
    BY <2>6
  <2> QED
    BY <1>3, <2>1, <2>3, <2>4, <2>5, <2>7, RequestStays
<1>15. RestKept'
  <2>1. \A b \in Data \ T : Carried(gpu, gpu', b, {})
    BY <1>11 DEF Carried
  <2>2. \A b \in T : b[1] \in {"parents", "result"} \/ \E r \in ToSet(running) : b \in Of(r)
    BY <1>7, <1>11
  <2> QED
    BY <1>3, <2>1, <2>2, RestStays DEF DataKept
<1>16. ASSUME NEW p \in 0 .. Serial PROVE ParentKept(p)'
  <2>1. CASE p = t
    <3>1. ~Inflight(queue', p)
      BY <1>2, <2>1
    <3> QED
      BY <1>11, <2>1, <3>1 DEF ParentKept, Awaited
  <2>2. CASE p # t
    <3>1. <<"parents", p>> \in Data /\ <<"parents", p>>[1] = "parents" /\ <<"parents", p>> # <<"parents", t>>
      BY <2>2, DataBuffers
    <3>2. Carried(gpu, gpu', <<"parents", p>>, E) /\ ParentKept(p)
      BY <1>11, <3>1 DEF DataKept, ParentsKept
    <3>3. Inflight(queue', p) <=> Inflight(queue, p)
      BY <1>2, <2>2
    <3> QED
      BY <1>12, <2>2, <3>2, <3>3, ParentStays
  <2> QED
    BY <2>1, <2>2
<1>17. \A p \in 0 .. Serial : result'[p] = IF p = t THEN None ELSE result[p]
  BY <1>2, <1>3 DEF Books, StreamsTyped
<1>18. ASSUME NEW x \in Blocks, x # block PROVE Carried(gpu, gpu', <<"result", x>>, E)
  <2>1. <<"result", x>> \in Data /\ <<"result", x>>[1] = "result" /\ <<"result", x>> # <<"result", block>>
    BY <1>18, DataBuffers
  <2> QED
    BY <1>11, <2>1
<1>19. HeldResultsKept'
  <2>1. SUFFICES ASSUME NEW p \in 0 .. Serial, result'[p] # None
                 PROVE  Keeps(gpu', <<"result", result'[p]>>, Replay(p))
    BY DEF HeldResultsKept
  <2>2. p # t /\ result'[p] = result[p] /\ result[p] \in Blocks /\ result[p] # None
    BY <1>17, <2>1 DEF Books, StreamsTyped
  <2>3. result[p] # block
    BY <1>2, <1>6, <2>2 DEF Books, ResultsApart
  <2>4. Keeps(gpu, <<"result", result[p]>>, Replay(p))
    BY <2>2 DEF DataKept, HeldResultsKept
  <2> QED
    BY <1>12, <1>18, <2>2, <2>3, <2>4 DEF Carried
<1>20. ASSUME NEW x \in FreeBlocks'
       PROVE  Keeps(gpu', <<"result", x>>, Remap(t)) /\ Covered(gpu', <<"result", x>>, "expand")
  <2>1. x \in Blocks /\ \A p \in 0 .. Serial : x # result'[p]
    BY <1>20 DEF FreeBlocks
  <2>2. x = block \/ x \in FreeBlocks
    BY <1>6, <1>17, <2>1 DEF FreeBlocks
  <2>3. x \in FreeBlocks => Covered(gpu, <<"result", x>>, "expand")
    BY DEF DataKept, FreeResultsKept, FreeKept
  <2> QED
    BY <1>11, <2>1, <2>2, <2>3
<1>21. pc' = "next" => Stuck' /\ SomeFinished'
  <2>1. SUFFICES ASSUME pc' = "next" PROVE Stuck' /\ SomeFinished'
    OBVIOUS
  <2>2. \A r \in ToSet(pipes'[t]) : left'[r] = 0
    BY <1>3, <1>2, <1>9, <1>10, <2>1
  <2>3. ASSUME NEW i \in Pipe, HasLive(pipes, i)' PROVE Inflight(queue', i)
    <3>1. PICK r \in ToSet(pipes'[i]) : left'[r] # 0
      BY <2>3 DEF HasLive, Finished
    <3>2. i # t
      BY <2>2, <3>1
    <3>3. r \in ToSet(pipes[i]) /\ r \in Reqs
      BY <1>10, <3>1, <3>2
    <3>4. left[r] # 0
      BY <1>2, <1>3, <3>1, <3>3, TakenShows
    <3>5. HasLive(pipes, i)
      BY <3>3, <3>4 DEF HasLive, Finished
    <3> QED
      BY <1>2, <1>3, <3>2, <3>5, SerialPipe
  <2>4. SomeFinished'
    <3>1. PICK r \in ToSet(pipes[t]) : TRUE
      BY <1>3 DEF HasLive
    <3>2. r \in ToSet(pipes'[t])
      BY <1>2, <1>10, <3>1
    <3>3. r \in ToSet(running) /\ left'[r] = 0
      BY <1>2, <1>10, <2>2, <3>2
    <3> QED
      BY <1>3, <3>3 DEF SomeFinished, Finished
  <2> QED
    BY <1>10, <2>3, <2>4 DEF Stuck
<1>22. FreeResultsKept'
  BY <1>3, <1>20, <1>21 DEF FreeResultsKept, FreeKept
<1>23. NoDataRace'
  BY <1>11 DEF NoDataRace
<1> QED
  BY <1>3, <1>13, <1>14, <1>15, <1>16, <1>19, <1>22, <1>23 DEF DataKept, RequestsKept, ParentsKept

LEMMA StepData ==
    ASSUME Inv, Books, DataKept, SSerialStep PROVE DataKept'
<1>1. PICK block : SteppedWith(block)
  BY StepsOne
<1>2. /\ block \in FreeBlocks /\ pc = "serial" /\ pc' = "release" /\ active = FALSE /\ queue = <<>>
      /\ Run(LaunchCommands(Serial, Ordered(running), block)
             \o ProcessCommands(Serial, Ordered(running), block, GoesOn(Ordered(running))))
      /\ left' = Expanded(running)
      /\ UNCHANGED <<lease, result, running, status, active, pipes, current, queue, pending>>
  BY <1>1 DEF SteppedWith
<1>3. PICK rs \in Seq(Reqs) : rs = Ordered(running)
  BY OrderedMembers DEF Inv, TypedRequests
<1>4. ToSet(rs) = ToSet(running)
  BY <1>3, OrderedMembers DEF Inv, TypedRequests
<1>5. PICK on \in Seq(Reqs) : on = GoesOn(rs)
  BY GoesOnMembers
<1>6. ToSet(on) = {r \in ToSet(rs) : left'[r] > 0} /\ left' \in [Reqs -> Nat]
  BY <1>2, <1>5, GoesOnMembers, ExpandedType
<1>7. /\ block \in Blocks /\ Serial \in 0 .. Serial /\ StreamsTyped /\ gpu \in Orders
      /\ ~Inflight(queue, Serial) /\ \A r : ~Flying(r)
  <2>1. Len(queue) = 0
    BY <1>2
  <2>2. \A r : ~Flying(r)
    BY <2>1 DEF Flying
  <2> QED
    BY <1>2, <2>2, FreeBlock, SerialPipe, SerialIdle DEF Books, StreamsTyped
<1> DEFINE ws == LaunchWaits(Serial, rs)
           g == DoAll(gpu, LaunchCommands(Serial, rs, block))
           h == DoAll(g, ProcessCommands(Serial, rs, block, on))
           T1 == Beams(rs) \cup Rows(rs, lease) \cup {<<"result", block>>}
           T2 == Beams(rs) \cup Rows(on, lease) \cup {<<"result", block>>, <<"parents", Serial>>}
           E1 == MainEvents \ (ws \cup {Replay(Serial)})
           E2 == MainEvents \ {Expand(Serial), Remap(Serial)}
<1>8. gpu' = h
  <2>1. gpu' = DoAll(gpu, LaunchCommands(Serial, rs, block) \o ProcessCommands(Serial, rs, block, on))
    BY <1>2, <1>3, <1>5 DEF Run, DoAll
  <2> QED
    BY <1>7, <2>1, StepOrders
<1>9. ASSUME NEW r \in ToSet(rs) PROVE ~Finished(r) /\ Home(r) \subseteq ws
  <2>1. ~Finished(r) /\ r \in Reqs
    BY <1>2, <1>4, RunningFacts DEF Books, Control, Finished
  <2>2. \A e \in Home(r) : e = PrefillEvent(r) \/ e = Remap(Serial)
    BY <1>2, <2>1, HomeEvents
  <2> QED
    BY <2>1, <2>2 DEF LaunchWaits
<1>10. ASSUME NEW x \in FreeBlocks
       PROVE  /\ Awaited(gpu, <<"result", x>>, "default", ws)
              /\ Covered(gpu, <<"result", x>>, "expand")
  <2>1. FreeKept(x)
    BY DEF DataKept, FreeResultsKept
  <2>2. Covered(gpu, <<"result", x>>, "default") \/ Keeps(gpu, <<"result", x>>, Remap(Serial))
    BY <1>2, <2>1 DEF FreeKept
  <2> QED
    BY <2>1, <2>2 DEF FreeKept, Awaited, LaunchWaits
<1> HIDE DEF ws, g, h
<1>11. /\ g \in Orders
       /\ \A r \in ToSet(rs), b \in Data : b \in Of(r) => Keeps(g, b, Replay(Serial))
       /\ \A x \in FreeBlocks : Keeps(g, <<"result", x>>, Replay(Serial))
       /\ Keeps(g, <<"parents", Serial>>, Replay(Serial))
       /\ \A b \in Data \ T1 : Carried(gpu, g, b, E1)
       /\ \A b \in T1 : b[1] = "result" \/ \E r \in ToSet(rs) : b \in Of(r)
       /\ \A k \in DataKinds : k \notin g.races
  <2>1. ToSet(rs) \subseteq ToSet(running)
    BY <1>4
  <2>2. \A r \in ToSet(rs) : ~Finished(r) /\ ~Flying(r) /\ Home(r) \subseteq LaunchWaits(Serial, rs)
    BY <1>7, <1>9 DEF ws
  <2>3. \A x \in FreeBlocks : Awaited(gpu, <<"result", x>>, "default", LaunchWaits(Serial, rs))
    BY <1>10 DEF ws
  <2> QED
    BY <1>2, <1>7, <2>1, <2>2, <2>3, LaunchOver, Zenon DEF g, ws
<1>12. ASSUME NEW x \in FreeBlocks, x # block PROVE Covered(g, <<"result", x>>, "expand")
  <2>1. /\ \A b \in Beams(rs) : b[1] = "beams"
        /\ \A y \in Rows(rs, lease) : y[1] = "rows"
    BY DEF Beams, Rows
  <2>2. <<"result", x>>[1] = "result" /\ <<"result", x>> # <<"result", block>>
    BY <1>12
  <2>3. <<"result", x>> \in Data \ T1
    BY <2>1, <2>2, FreeBlock, DataBuffers
  <2>4. "expand" \in Actors
    BY DEF Actors, Streams
  <2> QED
    BY <1>10, <1>11, <2>3, <2>4 DEF Carried
<1>13. /\ \A r \in ToSet(rs), b \in Data : b \in Of(r) => Keeps(h, b, Remap(Serial))
       /\ \A r \in ToSet(rs) \ ToSet(on), b \in Data : b \in Of(r) => Covered(h, b, "expand")
       /\ Keeps(h, <<"parents", Serial>>, Remap(Serial))
       /\ \A x \in Blocks : x = block \/ Covered(g, <<"result", x>>, "expand")
            => Keeps(h, <<"result", x>>, Remap(Serial)) /\ Covered(h, <<"result", x>>, "expand")
       /\ \A b \in Data \ T2 : Carried(g, h, b, E2)
       /\ \A b \in T2 : b[1] \in {"parents", "result"} \/ \E r \in ToSet(rs) : b \in Of(r)
       /\ \A k \in DataKinds : k \notin h.races
  <2>1. ToSet(rs) \subseteq ToSet(running) /\ ToSet(on) \subseteq ToSet(rs)
    BY <1>4, <1>6
  <2>2. Keeps(g, <<"result", block>>, Replay(Serial))
    BY <1>2, <1>11
  <2> QED
    BY <1>7, <1>11, <2>1, <2>2, ProcessOver, Zenon DEF h
<1> HIDE DEF T1, T2, E1, E2
<1>14. ASSUME NEW b \in Data, b \notin T1, b \notin T2 PROVE Carried(gpu, gpu', b, E1 \cap E2)
  BY <1>8, <1>11, <1>13, <1>14, CarriedOn
<1>15. ASSUME NEW r \in ToSet(running) PROVE RequestKept(r)'
  <2>1. Of(r) \subseteq Data /\ r \in Reqs /\ r \in ToSet(rs) /\ left'[r] \in Nat
    BY <1>4, <1>6, RunningFacts
  <2>2. Of(r)' = Of(r) /\ Remap(Serial) \in Home(r)' /\ Len(queue') = 0
    BY <1>2 DEF Of, Home
  <2>3. Finished(r)' => r \notin ToSet(on)
    BY <1>6 DEF Finished
  <2>4. \A b \in Of(r) : Keeps(gpu', b, Remap(Serial)) /\ (Finished(r)' => Covered(gpu', b, "expand"))
    BY <1>8, <1>13, <2>1, <2>3
  <2> QED
    BY <2>2, <2>4 DEF RequestKept, Awaited
<1>16. RestKept'
  <2>1. \A b \in Data \ (T1 \cup T2) : Carried(gpu, gpu', b, {})
    BY <1>14 DEF Carried
  <2>2. \A b \in T1 \cup T2 : b[1] \in {"parents", "result"} \/ \E r \in ToSet(running) : b \in Of(r)
    BY <1>4, <1>11, <1>13
  <2> QED
    BY <1>2, <2>1, <2>2, RestStays DEF DataKept
<1>17. ASSUME NEW p \in 0 .. Serial PROVE ParentKept(p)'
  <2>1. CASE p = Serial
    BY <1>2, <1>7, <1>8, <1>13, <2>1 DEF ParentKept, Awaited
  <2>2. CASE p # Serial
    <3>1. /\ \A b \in Beams(rs) : b[1] = "beams"
          /\ \A y \in Rows(rs, lease) : y[1] = "rows"
          /\ \A z \in Rows(on, lease) : z[1] = "rows"
      BY DEF Beams, Rows
    <3>2. /\ <<"parents", p>>[1] = "parents" /\ <<"parents", p>> # <<"parents", Serial>>
          /\ <<"parents", p>> # <<"result", block>>
      BY <2>2
    <3>3. <<"parents", p>> \in Data /\ <<"parents", p>> \notin T1 /\ <<"parents", p>> \notin T2
      BY <3>1, <3>2, DataBuffers DEF T1, T2
    <3>4. Carried(gpu, gpu', <<"parents", p>>, E1 \cap E2) /\ ParentKept(p)
      BY <1>14, <3>3 DEF DataKept, ParentsKept
    <3>5. Replay(p) \in E1 \cap E2 /\ Remap(p) \in E1 \cap E2
      <4>1. \A e \in ws : e = Expand(Serial) \/ e = Remap(Serial) \/ \E r \in Reqs : e = PrefillEvent(r)
        BY Members DEF LaunchWaits, ws
      <4> QED
        BY <1>7, <2>2, <4>1, MainEventFacts, EventsApart DEF E1, E2
    <3> QED
      BY <1>2, <3>4, <3>5, ParentStays
  <2> QED
    BY <2>1, <2>2
<1>18. HeldResultsKept'
  <2>1. \A p \in 0 .. Serial : result[p] = None
    <3>1. Len(queue) = 0
      BY <1>2
    <3> QED
      BY <3>1 DEF Books, ResultsApart, Inflight
  <2> QED
    BY <1>2, <2>1 DEF HeldResultsKept
<1>19. FreeResultsKept'
  <2>1. SUFFICES ASSUME NEW x \in FreeBlocks PROVE FreeKept(x)'
    BY <1>2 DEF FreeResultsKept, FreeBlocks
  <2>2. x \in Blocks /\ (x = block \/ Covered(g, <<"result", x>>, "expand"))
    BY <1>12, FreeBlock
  <2> QED
    BY <1>2, <1>8, <1>13, <2>2 DEF FreeKept
<1>20. NoDataRace'
  BY <1>8, <1>13 DEF NoDataRace
<1> QED
  BY <1>2, <1>15, <1>16, <1>17, <1>18, <1>19, <1>20 DEF DataKept, RequestsKept, ParentsKept

-----------------------------------------------------------------------------
(* The invariant of the streams. *)

\* Once the pipeline materializes, it may forget an event nobody has waited for.
DataSafe == ~forgotten => DataKept

LEMMA DataStarts ==
    ASSUME SInit PROVE DataSafe
<1>1. Inv /\ gpu.races = {} /\ \A b : To(gpu, b) = {}
  BY NothingAccessed
<1>2. \A b, a : Covered(gpu, b, a)
  BY <1>1 DEF Covered
<1>3. \A b, e : Keeps(gpu, b, e)
  BY <1>1 DEF Keeps
<1>4. RequestsKept /\ RestKept
  BY <1>2, <1>3 DEF RequestsKept, RequestKept, RestKept, Awaited
<1>5. ParentsKept /\ HeldResultsKept /\ FreeResultsKept
  BY <1>2, <1>3 DEF ParentsKept, ParentKept, HeldResultsKept, FreeResultsKept, FreeKept, Awaited
<1>6. NoDataRace
  BY <1>1 DEF NoDataRace
<1> QED
  BY <1>4, <1>5, <1>6 DEF DataSafe, DataKept

LEMMA DataStep ==
    ASSUME Inv, Books, DataSafe, [SNext]_svars
    PROVE  DataSafe'
<1>1. SUFFICES ASSUME ~forgotten' PROVE DataKept'
  BY DEF DataSafe
<1>2. SSync \/ forgotten' = forgotten
  BY DEF SNext, SPrefill, SPrefillDone, SLaunch, SProcessPicked, Processes, SSerialStep, SRelease,
     SStartSerial, SPickIdlePipe, SNothingToLaunch, Idle, svars
<1>3. SSync => (~forgotten' => ~forgotten)
  BY SyncRuns
<1>4. DataKept
  BY <1>1, <1>2, <1>3 DEF DataSafe
<1>5. ASSUME NEW rs \in Batches, SPrefill(rs) PROVE DataKept'
  BY <1>4, <1>5, PrefillData
<1>6. CASE \/ \E r \in Reqs : SPrefillDone(r)
           \/ SStartSerial \/ SPickIdlePipe \/ SNothingToLaunch \/ UNCHANGED svars
  BY <1>4, <1>6, IdleData
<1>7. CASE SSync \/ SLaunch \/ SProcessPicked \/ SSerialStep \/ SRelease
  BY <1>1, <1>4, <1>7, SyncData, LaunchData, ProcessData, StepData, ReleaseData
<1> QED
  BY <1>5, <1>6, <1>7 DEF SNext

\* Until the pipeline forgets an event that nobody has waited for, every access to
\* the beams, rows, parents and results is covered, or will be, by an event that
\* the next access waits for (scheduler.py: _wait_pipe_ready, _run_expand_overlap).
THEOREM DataAlwaysKept == SSpec => []DataSafe
<1>1. SInit => DataSafe
  BY DataStarts
<1>2. Inv /\ Books /\ DataSafe /\ [SNext]_svars => DataSafe'
  BY DataStep
<1> QED
  BY <1>1, <1>2, LeasesKept, PTL DEF SSpec

\* A forward reads the beams, rows and KV that the expand, the remap and the prefill
\* left, and slots of a new request are no longer touched by the old one's work.
THEOREM BeamsInOrder == SSpec => []BeamsOrdered
<1>1. DataSafe => BeamsOrdered
  BY DEF DataSafe, DataKept, NoDataRace, BeamsOrdered, DataKinds
<1> QED
  BY <1>1, DataAlwaysKept, PTL

\* A result the host has dropped is not overwritten while the expand still reads it.
THEOREM ResultsInOrder == SSpec => []ResultsOrdered
<1>1. DataSafe => ResultsOrdered
  BY DEF DataSafe, DataKept, NoDataRace, ResultsOrdered, DataKinds
<1> QED
  BY <1>1, DataAlwaysKept, PTL

-----------------------------------------------------------------------------
(* The upload ring, with prefills on the default stream: its pins are the      *)
(* host's and the default stream's.                                            *)

\* The events that order the host after the copies out of the ring.
RingEvents == {Replay(p) : p \in 0 .. Serial} \cup {PinReady("exp_col_eager", k) : k \in 0 .. 1}

\* A command that has nothing to do with the ring.
Quiet(c) ==
    /\ c \in Commands
    /\ c.do = "op" => \A b \in c.reads \cup c.writes : b[1] # "ringpin"
    /\ c.do \in {"record", "drop"} => c.event \notin RingEvents

AllQuiet(cs) == cs \in Seq(Commands) /\ \A c \in ToSet(cs) : Quiet(c)

LEMMA RingEventTypes == RingEvents \subseteq Events /\ {"ringpin"} \subseteq Kinds
BY EventTypes DEF RingEvents, Kinds, Names

LEMMA QuietRuns ==
    ASSUME NEW g \in Orders, NEW cs, AllQuiet(cs)
    PROVE  /\ cs \in Seq(Commands)
           /\ DoAll(g, cs) \in Orders
           /\ Passes(g, DoAll(g, cs), {"ringpin"}, RingEvents)
<1>1. cs \in Seq(Commands)
  BY DEF AllQuiet
<1>2. Spared(cs, {"ringpin"}, RingEvents)
  BY DEF AllQuiet, Quiet, Spared
<1>3. {"ringpin"} \in SUBSET Kinds /\ RingEvents \in SUBSET Events
  BY RingEventTypes
<1> QED
  BY <1>1, <1>2, <1>3, SparedPasses

LEMMA QuietConcat ==
    ASSUME NEW cs, NEW ds, AllQuiet(cs), AllQuiet(ds)
    PROVE  AllQuiet(cs \o ds)
<1>1. ASSUME cs \in Seq(Commands), ds \in Seq(Commands)
      PROVE  cs \o ds \in Seq(Commands) /\ ToSet(cs \o ds) = ToSet(cs) \cup ToSet(ds)
  BY <1>1, ConcatMembers
<1> QED
  BY <1>1 DEF AllQuiet

LEMMA QuietShort ==
    ASSUME NEW a, NEW b, NEW c, NEW d, NEW e, Quiet(a), Quiet(b), Quiet(c), Quiet(d), Quiet(e)
    PROVE  /\ AllQuiet(<<>>) /\ AllQuiet(<<a>>) /\ AllQuiet(<<a, b>>) /\ AllQuiet(<<a, b, c>>)
           /\ AllQuiet(<<a, b, c, d, e>>)
<1>1. a \in Commands /\ b \in Commands /\ c \in Commands /\ d \in Commands /\ e \in Commands
  BY DEF Quiet
<1> QED
  BY <1>1, ShortMembers DEF AllQuiet

LEMMA QuietCommands ==
    /\ \A s \in Actors, e \in Events : Quiet(Wait(s, e))
    /\ \A s \in Actors, e \in Events \ RingEvents : Quiet(Record(s, e))
    /\ \A e \in Events \ RingEvents : Quiet(Drop(e))
    /\ \A s \in Actors, R, W \in SUBSET Buffers :
            (\A b \in R \cup W : b[1] # "ringpin") => Quiet(Op(s, R, W))
<1>1. /\ \A s, e : Wait(s, e).do = "wait" /\ Record(s, e).do = "record" /\ Record(s, e).event = e
      /\ \A e : Drop(e).do = "drop" /\ Drop(e).event = e
      /\ \A s, R, W : /\ Op(s, R, W).do = "op" /\ Op(s, R, W).on = s
                      /\ Op(s, R, W).reads = R /\ Op(s, R, W).writes = W
  BY DEF Wait, Record, Drop, Op
<1> QED
  BY <1>1, CommandTypes DEF Quiet

LEMMA WaitsQuiet ==
    ASSUME NEW s \in Actors, NEW es \in Seq(Events)
    PROVE  AllQuiet(WaitAll(s, es))
<1>1. WaitAll(s, es) \in Seq(Commands)
  BY WaitsPinned DEF Pinned
<1>2. \A c \in ToSet(WaitAll(s, es)) : \E i \in DOMAIN es : c = Wait(s, es[i])
  BY DEF ToSet, WaitAll
<1>3. \A i \in DOMAIN es : es[i] \in Events
  OBVIOUS
<1> QED
  BY <1>1, <1>2, <1>3, QuietCommands DEF AllQuiet

LEMMA DropsQuiet ==
    ASSUME NEW es \in Seq(Events), \A e \in ToSet(es) : e \notin RingEvents
    PROVE  AllQuiet(DropAll(es))
<1>1. PICK n \in Nat : n = Len(es) /\ DOMAIN es = 1 .. n /\ \A i \in 1 .. n : es[i] \in Events
  OBVIOUS
<1>2. \A i \in 1 .. n : es[i] \notin RingEvents
  BY <1>1, Members
<1>3. \A i \in 1 .. n : Quiet(Drop(es[i])) /\ Drop(es[i]) \in Commands
  BY <1>1, <1>2, QuietCommands DEF Quiet
<1>4. DropAll(es) = [i \in 1 .. n |-> Drop(es[i])]
  BY <1>1 DEF DropAll
<1>5. DropAll(es) \in Seq(Commands)
  BY <1>3, <1>4
<1>6. \A c \in ToSet(DropAll(es)) : \E i \in 1 .. n : c = Drop(es[i])
  BY <1>4 DEF ToSet
<1> QED
  BY <1>3, <1>5, <1>6 DEF AllQuiet

LEMMA NotRingEvents ==
    /\ \A p \in 0 .. Serial : Expand(p) \in Events \ RingEvents /\ Remap(p) \in Events \ RingEvents
    /\ \A r \in Reqs : PrefillEvent(r) \in Events \ RingEvents
    /\ Synced \in Events \ RingEvents /\ ExpandNow \in Events \ RingEvents
    /\ CopyDone \in Events \ RingEvents
<1>1. \A p \in 0 .. Serial : /\ Expand(p)[1] = "expand" /\ Remap(p)[1] = "remap" /\ Replay(p)[1] = "replay"
  BY DEF Expand, Remap, Replay
<1>2. \A r \in Reqs : PrefillEvent(r)[1] = "prefill"
  BY DEF PrefillEvent
<1>3. Synced[1] = "synced" /\ ExpandNow[1] = "wait_stream" /\ CopyDone[1] = "copied"
  BY DEF Synced, ExpandNow, CopyDone
<1>4. \A k \in 0 .. 1 : PinReady("exp_col_eager", k)[1] = "exp_col_eager"
  BY DEF PinReady
<1>5. \A e \in RingEvents : e[1] = "replay" \/ e[1] = "exp_col_eager"
  BY <1>1, <1>4 DEF RingEvents
<1> QED
  BY <1>1, <1>2, <1>3, <1>5, EventTypes

LEMMA StoredQuiet ==
    /\ \A p \in 0 .. Serial : Stored(p) \in Seq(Events) /\ \A e \in ToSet(Stored(p)) : e \notin RingEvents
    /\ AllStored \in Seq(Events) /\ \A e \in ToSet(AllStored) : e \notin RingEvents
<1>1. \A p \in 0 .. Serial : Expand(p) \notin RingEvents /\ Remap(p) \notin RingEvents
  BY NotRingEvents
<1> QED
  BY <1>1, StoredEvents, AllStoredEvents

LEMMA StageMembers ==
    ASSUME NEW s \in Streams, NEW n \in Names, epoch[n] \in 0 .. 1
    PROVE  Stage(s, n) \in Seq(Commands)
<1> DEFINE pin == <<"pin", n, epoch[n]>>
           stage == <<"stage", n>>
           e == PinReady(n, epoch[n])
<1>1. pin \in Buffers /\ stage \in Buffers /\ e \in Events /\ s \in Actors /\ "host" \in Actors
  BY EventTypes DEF Buffers, Actors
<1>2. PICK a \in Commands, b \in Commands, c \in Commands, d \in Commands :
        a = Wait("host", e) /\ b = Op("host", {}, {pin}) /\ c = Op(s, {pin}, {stage}) /\ d = Record(s, e)
  BY <1>1, CommandTypes
<1>3. Stage(s, n) = <<a, b, c, d>>
  BY <1>2 DEF Stage
<1> QED
  BY <1>3

\* What the handlers do between uploads and staging has nothing to do with the ring.
LEMMA PrefillParts ==
    ASSUME StreamsTyped, ~overlap, NEW rs \in Seq(Reqs), NEW l \in [Reqs -> Leases \cup {None}]
    PROVE  \E op : /\ Quiet(op)
                   /\ PrefillCommands(rs, l) =
                        Upload("default", Len(rs)) \o Stage("default", "prefill_ids")
                        \o <<Record("default", Synced), Wait("host", Synced), op>>
<1> DEFINE n == Len(rs)
           reads == {<<"stage", "prefill_ids">>} \cup Uploaded(n)
           writes == {<<"indptr", 0>>} \cup Rows(rs, l) \cup Beams(rs)
           op == Op("default", reads, writes)
           second == Upload("default", n)
           third == Stage("default", "prefill_ids")
           fourth == <<Record("default", Synced), Wait("host", Synced), op>>
<1>1. /\ "default" \in Actors /\ "default" \in Streams /\ "host" \in Actors /\ "prefill_ids" \in Names
      /\ n \in Nat /\ epoch["prefill_ids"] \in 0 .. 1 /\ at \in 0 .. Ring - 1
  BY DEF Actors, Streams, Names, StreamsTyped
<1>2. PrefillStream = "default"
  BY DEF PrefillStream
<1>3. Quiet(op)
  <2>1. /\ <<"stage", "prefill_ids">> \in Buffers /\ <<"indptr", 0>> \in Buffers
        /\ <<"stage", "prefill_ids">>[1] # "ringpin" /\ <<"indptr", 0>>[1] # "ringpin"
    BY <1>1 DEF Buffers
  <2>2. /\ Uploaded(n) \in SUBSET Buffers /\ \A b \in Uploaded(n) : b[1] = "ring"
    BY <1>1, UploadedFacts
  <2>3. /\ Rows(rs, l) \subseteq Data /\ \A b \in Rows(rs, l) : b[1] = "rows"
        /\ Beams(rs) \subseteq Data /\ \A b \in Beams(rs) : b[1] = "beams"
    BY DataBuffers
  <2>4. reads \in SUBSET Buffers /\ writes \in SUBSET Buffers
    BY <2>1, <2>2, <2>3, DataFacts
  <2>5. \A b \in reads \cup writes : b[1] # "ringpin"
    BY <2>1, <2>2, <2>3
  <2> HIDE DEF reads, writes
  <2> QED
    BY <1>1, <2>4, <2>5, QuietCommands
<1>4. PrefillCommands(rs, l) = <<>> \o second \o third \o fourth \o <<>>
  BY <1>2 DEF PrefillCommands
<1> HIDE DEF n, reads, writes, op
<1>5. AllQuiet(<<op>>) /\ Quiet(Wait("host", Synced)) /\ Quiet(Record("default", Synced))
  BY <1>1, <1>3, NotRingEvents, QuietCommands, QuietShort
<1>6. second \in Seq(Commands) /\ third \in Seq(Commands) /\ fourth \in Seq(Commands)
  <2>1. second \in Seq(Commands)
    BY <1>1, UploadCommands
  <2>2. third \in Seq(Commands)
    BY <1>1, StageMembers
  <2>3. fourth \in Seq(Commands)
    BY <1>3, <1>5, QuietShort DEF AllQuiet
  <2> QED
    BY <2>1, <2>2, <2>3
<1> HIDE DEF second, third, fourth
<1>7. \A x, y, z \in Seq(Commands) : <<>> \o x \o y \o z \o <<>> = x \o y \o z
  <2>1. \A x, y \in Seq(Commands) : <<>> \o x = x /\ x \o <<>> = x /\ x \o y \in Seq(Commands)
    OBVIOUS
  <2> QED
    BY <2>1
<1>8. PrefillCommands(rs, l) = second \o third \o fourth
  BY <1>4, <1>6, <1>7
<1> QED
  BY <1>3, <1>8 DEF second, third, fourth, n

LEMMA LaunchParts ==
    ASSUME StreamsTyped, NEW p \in 0 .. Serial, NEW rs \in Seq(Reqs), NEW block \in Blocks
    PROVE  \E u, op : /\ AllQuiet(u) /\ Quiet(op)
                      /\ LaunchCommands(p, rs, block) =
                           u \o Upload("default", 1) \o <<op, Record("default", Replay(p))>>
<1> DEFINE pes == PrefillEvents(rs)
           reads == Beams(rs) \cup Uploaded(1)
           writes == {<<"indptr", 0>>, <<"result", block>>} \cup Rows(rs, lease)
           op == Op("default", reads, writes)
           w1 == WaitAll("default", Stored(p))
           w2 == DropAll(Stored(p))
           w3 == WaitAll("default", pes)
           w4 == DropAll(pes)
           u == ((w1 \o w2) \o w3) \o w4
<1>1. "default" \in Actors /\ at \in 0 .. Ring - 1 /\ lease \in [Reqs -> Leases \cup {None}]
  BY DEF Actors, Streams, StreamsTyped
<1>2. pes \in Seq(Events) /\ \A e \in ToSet(pes) : e \notin RingEvents
  <2>1. pes \in Seq(Events) /\ ToSet(pes) = {PrefillEvent(r) : r \in ToSet(rs)}
    BY PrefillEventsOf
  <2>2. \A r \in ToSet(rs) : r \in Reqs
    BY Members
  <2> QED
    BY <2>1, <2>2, NotRingEvents
<1>3. Quiet(op)
  <2>1. /\ <<"result", block>> \in Data /\ <<"indptr", 0>> \in Buffers
        /\ <<"result", block>>[1] = "result" /\ <<"indptr", 0>>[1] = "indptr"
    BY DataBuffers DEF Buffers
  <2>2. Uploaded(1) \in SUBSET Buffers /\ \A b \in Uploaded(1) : b[1] = "ring"
    BY UploadedFacts
  <2>3. /\ Rows(rs, lease) \subseteq Data /\ \A b \in Rows(rs, lease) : b[1] = "rows"
        /\ Beams(rs) \subseteq Data /\ \A b \in Beams(rs) : b[1] = "beams"
    BY <1>1, DataBuffers
  <2>4. reads \in SUBSET Buffers /\ writes \in SUBSET Buffers
    BY <2>1, <2>2, <2>3, DataFacts
  <2>5. \A b \in reads \cup writes : b[1] # "ringpin"
    BY <2>1, <2>2, <2>3
  <2> HIDE DEF reads, writes
  <2> QED
    BY <1>1, <2>4, <2>5, QuietCommands
<1>4. LaunchCommands(p, rs, block) =
        (w1 \o w2) \o w3 \o w4 \o Upload("default", 1) \o <<op, Record("default", Replay(p))>>
  BY PrefillEventsOf DEF LaunchCommands, WaitPipeReady
<1>5. AllQuiet(w1) /\ AllQuiet(w2) /\ AllQuiet(w3) /\ AllQuiet(w4)
  BY <1>1, <1>2, StoredQuiet, WaitsQuiet, DropsQuiet
<1> HIDE DEF pes, reads, writes, op, w1, w2, w3, w4
<1>6. AllQuiet(w1 \o w2)
  BY <1>5, QuietConcat
<1>7. AllQuiet((w1 \o w2) \o w3)
  BY <1>5, <1>6, QuietConcat
<1>8. AllQuiet(u)
  BY <1>5, <1>7, QuietConcat
<1>9. LaunchCommands(p, rs, block) = u \o Upload("default", 1) \o <<op, Record("default", Replay(p))>>
  BY <1>4
<1> QED
  BY <1>3, <1>8, <1>9

LEMMA ProcessParts ==
    ASSUME StreamsTyped, NEW p \in 0 .. Serial, NEW rs \in Seq(Reqs), NEW block \in Blocks,
           NEW on \in Seq(Reqs)
    PROVE  \E u : /\ AllQuiet(u)
                  /\ ProcessCommands(p, rs, block, on) =
                       <<Wait("expand", Replay(p))>> \o Stage("expand", "exp_col_eager") \o u
<1> DEFINE reads == {<<"stage", "exp_col_eager">>, <<"result", block>>}
           writes == {<<"parents", p>>} \cup Beams(rs)
           op == Op("expand", reads, writes)
           copy == Op("copy", {<<"parents", p>>}, Rows(on, lease))
           w1 == <<Wait("expand", Replay(p))>>
           w2 == Stage("expand", "exp_col_eager")
           w3 == <<op, Record("expand", Expand(p))>>
           l1 == <<Record("expand", Remap(p))>>
           l2 == <<Wait("copy", Expand(p)), copy, Record("copy", Remap(p))>>
           w4 == IF on = <<>> THEN l1 ELSE l2
<1>1. /\ "expand" \in Actors /\ "copy" \in Actors /\ "expand" \in Streams /\ "exp_col_eager" \in Names
      /\ lease \in [Reqs -> Leases \cup {None}] /\ epoch["exp_col_eager"] \in 0 .. 1
  BY DEF Actors, Streams, Names, StreamsTyped
<1>2. Quiet(op) /\ Quiet(copy)
  <2>1. /\ <<"result", block>> \in Data /\ <<"parents", p>> \in Data
        /\ <<"stage", "exp_col_eager">> \in Buffers
        /\ <<"result", block>>[1] = "result" /\ <<"parents", p>>[1] = "parents"
        /\ <<"stage", "exp_col_eager">>[1] = "stage"
    BY <1>1, DataBuffers DEF Buffers
  <2>2. /\ Rows(on, lease) \subseteq Data /\ \A b \in Rows(on, lease) : b[1] = "rows"
        /\ Beams(rs) \subseteq Data /\ \A b \in Beams(rs) : b[1] = "beams"
    BY <1>1, DataBuffers
  <2>3. /\ reads \in SUBSET Buffers /\ writes \in SUBSET Buffers
        /\ {<<"parents", p>>} \in SUBSET Buffers /\ Rows(on, lease) \in SUBSET Buffers
    BY <2>1, <2>2, DataFacts
  <2>4. \A b \in reads \cup writes : b[1] # "ringpin"
    BY <2>1, <2>2
  <2>5. \A b \in {<<"parents", p>>} \cup Rows(on, lease) : b[1] # "ringpin"
    BY <2>1, <2>2
  <2> HIDE DEF reads, writes
  <2> QED
    BY <1>1, <2>3, <2>4, <2>5, QuietCommands
<1>3. /\ Quiet(Wait("copy", Expand(p))) /\ Quiet(Record("expand", Expand(p)))
      /\ Quiet(Record("expand", Remap(p))) /\ Quiet(Record("copy", Remap(p)))
      /\ Quiet(Wait("expand", Replay(p)))
  BY <1>1, NotRingEvents, EventTypes, QuietCommands
<1>4. ProcessCommands(p, rs, block, on) = w1 \o w2 \o w3 \o w4
  BY DEF ProcessCommands
<1> HIDE DEF reads, writes, op, copy
<1>5. AllQuiet(w1) /\ AllQuiet(w3) /\ AllQuiet(l1) /\ AllQuiet(l2)
  BY <1>2, <1>3, QuietShort
<1>6. w1 \in Seq(Commands) /\ w2 \in Seq(Commands)
  <2>1. w2 \in Seq(Commands)
    BY <1>1, StageMembers
  <2> QED
    BY <1>5, <2>1 DEF AllQuiet
<1>7. AllQuiet(w4)
  <2> HIDE DEF l1, l2
  <2> QED
    BY <1>5
<1> HIDE DEF w1, w2, w3, l1, l2, w4
<1>8. AllQuiet(w3 \o w4) /\ w3 \in Seq(Commands) /\ w4 \in Seq(Commands)
  BY <1>5, <1>7, QuietConcat DEF AllQuiet
<1>9. ((w1 \o w2) \o w3) \o w4 = (w1 \o w2) \o (w3 \o w4)
  <2>1. \A x, y, z \in Seq(Commands) : (x \o y) \o z = x \o (y \o z) /\ x \o y \in Seq(Commands)
    OBVIOUS
  <2> QED
    <3>1. w1 \o w2 \in Seq(Commands) /\ w3 \in Seq(Commands) /\ w4 \in Seq(Commands)
      BY <1>6, <1>8, <2>1, Zenon
    <3> QED
      BY <2>1, <3>1, Zenon
<1> QED
  BY <1>4, <1>8, <1>9 DEF w1, w2

LEMMA CompleteQuiet ==
    ASSUME NEW done \in Seq(Reqs)
    PROVE  AllQuiet(CompleteCommands(done))
<1> DEFINE s == IF active /\ overlap THEN "prefill" ELSE "default"
           es == EventsOf(done)
           w1 == WaitAll(s, es)
           w2 == WaitAll("copy", es)
           op == Op("copy", Beams(done), {})
           w3 == <<Record("expand", ExpandNow), Wait("copy", ExpandNow), op,
                   Record("copy", CopyDone), Wait("host", CopyDone)>>
<1>1. s \in Actors /\ "copy" \in Actors /\ "expand" \in Actors /\ "host" \in Actors
  BY DEF Actors, Streams
<1>2. es \in Seq(Events)
  BY EventsOfTypes
<1>3. Quiet(op)
  <2>1. /\ Beams(done) \in SUBSET Buffers /\ {} \in SUBSET Buffers
        /\ \A b \in Beams(done) \cup {} : b[1] # "ringpin"
    BY DataBuffers, DataFacts
  <2> QED
    BY <1>1, <2>1, QuietCommands
<1>4. /\ Quiet(Record("expand", ExpandNow)) /\ Quiet(Wait("copy", ExpandNow))
      /\ Quiet(Record("copy", CopyDone)) /\ Quiet(Wait("host", CopyDone))
  BY <1>1, NotRingEvents, QuietCommands
<1>5. CompleteCommands(done) = (w1 \o w2) \o w3
  BY DEF CompleteCommands
<1> HIDE DEF s, es, op
<1>6. AllQuiet(w1) /\ AllQuiet(w2)
  BY <1>1, <1>2, WaitsQuiet
<1>7. AllQuiet(w3)
  BY <1>3, <1>4, QuietShort
<1> HIDE DEF w1, w2, w3
<1>8. AllQuiet(w1 \o w2)
  BY <1>6, QuietConcat
<1>9. AllQuiet((w1 \o w2) \o w3)
  BY <1>7, <1>8, QuietConcat
<1> QED
  BY <1>5, <1>9

LEMMA SyncQuiet ==
    ASSUME NEW passed \in Seq(Reqs), active => active'
    PROVE  AllQuiet(SyncCommands(passed))
<1> DEFINE pes == PrefillEvents(passed)
           w1 == IF active THEN <<>> ELSE DropAll(AllStored)
           w2 == WaitAll("host", pes)
<1>1. "host" \in Actors /\ pes \in Seq(Events)
  BY PrefillEventsOf DEF Actors
<1>2. SyncCommands(passed) = (w1 \o w2) \o <<>>
  BY PrefillEventsOf DEF SyncCommands
<1>3. AllQuiet(<<>>)
  BY <<>> \in Seq(Commands), ToSet(<<>>) = {} DEF AllQuiet, ToSet
<1>4. AllQuiet(w1)
  BY <1>3, StoredQuiet, DropsQuiet
<1>5. AllQuiet(w2)
  BY <1>1, WaitsQuiet
<1> HIDE DEF pes, w1, w2
<1>6. AllQuiet(w1 \o w2)
  BY <1>4, <1>5, QuietConcat
<1>7. AllQuiet((w1 \o w2) \o <<>>)
  BY <1>3, <1>6, QuietConcat
<1> QED
  BY <1>2, <1>7

\* The ring.
LEMMA SlotValue ==
    ASSUME at \in 0 .. Ring - 1, NEW k \in 1 .. Ring
    PROVE  Slot(k) = Forth(Ring, at, k) /\ Slot(k) \in 0 .. Ring - 1
<1>1. Ring \in Nat \ {0} /\ k \in 0 .. Ring
  BY StreamsAssumption
<1> QED
  BY <1>1, ForthIsRemainder DEF Slot

LEMMA SlotsApart ==
    ASSUME at \in 0 .. Ring - 1, NEW k \in 1 .. Ring, NEW m \in 1 .. Ring, Slot(k) = Slot(m)
    PROVE  k = m
  BY SlotValue, ForthApart, StreamsAssumption

\* The host and the default stream take turns at a pin.
RingOrdered(g) ==
    /\ "ringpin" \notin g.races
    /\ \A j \in 0 .. Ring - 1 : Covered(g, <<"ringpin", j>>, "default")

\* A pin is refilled and copied.
LEMMA RefillOrders ==
    ASSUME NEW g \in Orders, NEW j \in 0 .. Ring - 1, RingOrdered(g), Covered(g, <<"ringpin", j>>, "host")
    PROVE  LET a == Op("host", {}, {<<"ringpin", j>>})
               b == Op("default", {<<"ringpin", j>>}, {<<"ring", j>>})
               h == Do(Do(g, a), b)
           IN  /\ a \in Commands /\ b \in Commands
               /\ h \in Orders /\ RingOrdered(h)
               /\ \A i \in 0 .. Ring - 1 : i # j => Carried(g, h, <<"ringpin", i>>, Events)
<1> DEFINE pin == <<"ringpin", j>>
           ring == <<"ring", j>>
           a == Op("host", {}, {pin})
           b == Op("default", {pin}, {ring})
           x == Do(g, a)
           h == Do(x, b)
<1>1. /\ pin \in Buffers /\ ring \in Buffers /\ pin[1] = "ringpin" /\ ring[1] = "ring"
      /\ "host" \in Actors /\ "default" \in Actors /\ "ringpin" \in Kinds
      /\ \A i \in 0 .. Ring - 1 : <<"ringpin", i>> \in Buffers
  BY DEF Buffers, Actors, Streams, Kinds
<1>2. a \in Commands /\ b \in Commands
  BY <1>1, CommandTypes
<1>3. /\ x \in Orders
      /\ \A c \in Buffers \ ({} \cup {pin}) : Carried(g, x, c, Events)
      /\ \A c \in {} \cup {pin} : Covered(g, c, "host") => Covered(x, c, "host")
      /\ \A k \in Kinds : /\ k \notin g.races
                          /\ \A c \in {} \cup {pin} : c[1] = k => Covered(g, c, "host")
                          => k \notin x.races
  <2>1. PICK R \in SUBSET Buffers, W \in SUBSET Buffers : R = {} /\ W = {pin}
    BY <1>1
  <2>2. a = Op("host", R, W)
    BY <2>1
  <2> QED
    BY <1>1, <2>1, <2>2, OpOrders
<1>4. /\ h \in Orders
      /\ \A c \in Buffers \ ({pin} \cup {ring}) : Carried(x, h, c, Events)
      /\ \A c \in {pin} \cup {ring} : Covered(x, c, "default") => Covered(h, c, "default")
      /\ \A k \in Kinds : /\ k \notin x.races
                          /\ \A c \in {pin} \cup {ring} : c[1] = k => Covered(x, c, "default")
                          => k \notin h.races
  <2>1. PICK R \in SUBSET Buffers, W \in SUBSET Buffers : R = {pin} /\ W = {ring}
    BY <1>1
  <2>2. b = Op("default", R, W)
    BY <2>1
  <2>3. PICK y \in Orders : y = x
    BY <1>3
  <2> QED
    BY <1>1, <2>1, <2>2, <2>3, OpOrders
<1> HIDE DEF pin, ring, a, b, x, h
<1>5. Covered(x, pin, "host") /\ Covered(g, pin, "host")
  BY <1>3 DEF pin
<1>6. "ringpin" \notin x.races
  BY <1>1, <1>3, <1>5 DEF RingOrdered
<1>7. Covered(x, pin, "default")
  BY <1>1, <1>5, CoveredByHost
<1>8. "ringpin" \notin h.races
  BY <1>1, <1>4, <1>6, <1>7
<1>9. Covered(h, pin, "default")
  BY <1>4, <1>7
<1>10. ASSUME NEW i \in 0 .. Ring - 1, i # j PROVE Carried(g, h, <<"ringpin", i>>, Events)
  <2>1. <<"ringpin", i>> \in Buffers /\ <<"ringpin", i>> # pin /\ <<"ringpin", i>> # ring
    BY <1>1, <1>10 DEF pin, ring
  <2>2. Carried(g, x, <<"ringpin", i>>, Events) /\ Carried(x, h, <<"ringpin", i>>, Events)
    BY <1>3, <1>4, <2>1
  <2>3. Carried(g, h, <<"ringpin", i>>, Events \cap Events)
    BY <2>2, CarriedOn
  <2> QED
    BY <2>3
<1>11. ASSUME NEW i \in 0 .. Ring - 1 PROVE Covered(h, <<"ringpin", i>>, "default")
  <2>1. CASE i = j
    BY <1>9, <2>1 DEF pin
  <2>2. CASE i # j
    <3>1. Carried(g, h, <<"ringpin", i>>, Events)
      BY <1>10, <2>2
    <3>2. Covered(g, <<"ringpin", i>>, "default")
      BY DEF RingOrdered
    <3> QED
      BY <1>1, <3>1, <3>2 DEF Carried
  <2> QED
    BY <2>1, <2>2
<1>12. RingOrdered(h)
  BY <1>8, <1>11 DEF RingOrdered
<1> QED
  BY <1>2, <1>4, <1>10, <1>12 DEF a, b, x, h, pin, ring

\* Several are, each of them the host's before.
LEMMA UploadRing ==
    ASSUME NEW g \in Orders, NEW n \in Nat, n <= Ring, at \in 0 .. Ring - 1, RingOrdered(g),
           \A k \in 1 .. n : Covered(g, <<"ringpin", Slot(k)>>, "host")
    PROVE  LET h == DoAll(g, Upload("default", n)) IN
           /\ h \in Orders /\ RingOrdered(h)
           /\ \A j \in 0 .. Ring - 1 :
                 (\A k \in 1 .. n : j # Slot(k)) => Carried(g, h, <<"ringpin", j>>, Events)
<1> DEFINE a(k) == Op("host", {}, {<<"ringpin", Slot(k)>>})
           b(k) == Op("default", {<<"ringpin", Slot(k)>>}, {<<"ring", Slot(k)>>})
           ss == [k \in 1 .. n |-> <<a(k), b(k)>>]
<1>0. Ring \in Nat \ {0} /\ "default" \in Actors /\ \A k \in 1 .. n : k \in 1 .. Ring
  BY StreamsAssumption DEF Actors, Streams
<1>1. \A k \in 1 .. n : Slot(k) \in 0 .. Ring - 1
  BY <1>0, UploadCommands
<1>2. ASSUME NEW k \in 1 .. n PROVE a(k) \in Commands /\ b(k) \in Commands
  <2>1. <<"ringpin", Slot(k)>> \in Buffers /\ <<"ring", Slot(k)>> \in Buffers /\ "host" \in Actors
    BY <1>1 DEF Buffers, Actors
  <2> QED
    BY <1>0, <2>1, CommandTypes
<1> HIDE DEF a, b
<1>3. ss \in Seq(Seq(Commands)) /\ Len(ss) = n /\ \A k \in 1 .. n : ss[k] = <<a(k), b(k)>>
  <2>1. ASSUME NEW k \in 1 .. n PROVE <<a(k), b(k)>> \in Seq(Commands)
    <3>1. PICK c \in Commands, d \in Commands : c = a(k) /\ d = b(k)
      BY <1>2
    <3>2. <<c, d>> \in Seq(Commands)
      OBVIOUS
    <3> QED
      BY <3>1, <3>2
  <2> QED
    BY <2>1
<1>4. Upload("default", n) = FlattenSeq(ss)
  BY DEF Upload, a, b
<1> HIDE DEF ss
<1>5. PICK f : FlattensAlong(f, Commands, ss) /\ FlattenSeq(ss) = f[Len(ss)]
  BY <1>3, FlattenAlong
<1>6. /\ f \in [0 .. n -> Seq(Commands)] /\ f[0] = <<>>
      /\ \A k \in 1 .. n : f[k] = f[k - 1] \o ss[k]
  BY <1>3, <1>5 DEF FlattensAlong
<1> DEFINE Reached(x, m) ==
             /\ x \in Orders /\ RingOrdered(x)
             /\ \A k \in 1 .. n : k > m => Covered(x, <<"ringpin", Slot(k)>>, "host")
             /\ \A j \in 0 .. Ring - 1 :
                  (\A k \in 1 .. m : j # Slot(k)) => Carried(g, x, <<"ringpin", j>>, Events)
           D == {m \in 0 .. n : ~Reached(DoAll(g, f[m]), m)}
<1>7. ASSUME NEW m \in 1 .. n, Reached(DoAll(g, f[m - 1]), m - 1) PROVE Reached(DoAll(g, f[m]), m)
  <2>1. PICK x \in Orders : x = DoAll(g, f[m - 1])
    BY <1>7
  <2>2. RingOrdered(x) /\ Covered(x, <<"ringpin", Slot(m)>>, "host")
    BY <1>7, <2>1
  <2>3. PICK y : y = Do(Do(x, a(m)), b(m))
    OBVIOUS
  <2>4. /\ y \in Orders /\ RingOrdered(y)
        /\ \A i \in 0 .. Ring - 1 : i # Slot(m) => Carried(x, y, <<"ringpin", i>>, Events)
    BY <1>1, <2>2, <2>3, RefillOrders DEF a, b
  <2>5. y = DoAll(g, f[m])
    <3>1. m - 1 \in 0 .. n
      BY <1>0
    <3>2. PICK cs \in Seq(Commands) : cs = f[m - 1]
      BY <1>6, <3>1
    <3>3. PICK c \in Commands, d \in Commands : c = a(m) /\ d = b(m)
      BY <1>2
    <3>4. <<c, d>> \in Seq(Commands) /\ DoAll(x, <<c, d>>) = y
      BY <2>3, <3>3, RunPair
    <3>5. PICK ds \in Seq(Commands) : ds = <<c, d>>
      BY <3>4
    <3>6. f[m] = cs \o ds
      BY <1>3, <1>6, <3>2, <3>3, <3>5
    <3>7. DoAll(g, cs \o ds) = DoAll(DoAll(g, cs), ds)
      BY RunConcat
    <3> QED
      BY <2>1, <3>2, <3>4, <3>5, <3>6, <3>7
  <2>6. ASSUME NEW k \in 1 .. n, k > m PROVE Covered(y, <<"ringpin", Slot(k)>>, "host")
    <3>1. k > m - 1 /\ k # m
      BY <2>6
    <3>2. Covered(x, <<"ringpin", Slot(k)>>, "host")
      BY <1>7, <2>1, <3>1
    <3>3. Slot(k) # Slot(m) /\ Slot(k) \in 0 .. Ring - 1
      BY <1>0, <1>1, <3>1, SlotsApart
    <3>4. Carried(x, y, <<"ringpin", Slot(k)>>, Events) /\ "host" \in Actors
      BY <2>4, <3>3 DEF Actors
    <3> QED
      BY <3>2, <3>4 DEF Carried
  <2>7. ASSUME NEW j \in 0 .. Ring - 1, \A k \in 1 .. m : j # Slot(k)
        PROVE  Carried(g, y, <<"ringpin", j>>, Events)
    <3>1. j # Slot(m) /\ \A k \in 1 .. m - 1 : j # Slot(k)
      BY <2>7
    <3>2. Carried(g, x, <<"ringpin", j>>, Events)
      BY <1>7, <2>1, <3>1
    <3>3. Carried(x, y, <<"ringpin", j>>, Events)
      BY <2>4, <3>1
    <3>4. Carried(g, y, <<"ringpin", j>>, Events \cap Events)
      BY <3>2, <3>3, CarriedOn
    <3> QED
      BY <3>4
  <2> QED
    BY <2>4, <2>5, <2>6, <2>7
<1>8. Reached(DoAll(g, f[0]), 0)
  <2>1. DoAll(g, <<>>) = g
    BY RunShort
  <2>2. \A j \in 0 .. Ring - 1 : Carried(g, g, <<"ringpin", j>>, Events)
    BY DEF Carried
  <2> QED
    BY <1>6, <2>1, <2>2
<1> HIDE DEF Reached
<1>9. D = {}
  <2>1. SUFFICES ASSUME D # {} PROVE FALSE
    OBVIOUS
  <2>2. D \in SUBSET (0 .. n)
    OBVIOUS
  <2>3. PICK m \in D : \A k \in 0 .. n : k < m => k \notin D
    <3> HIDE DEF D
    <3> QED
      BY <2>1, <2>2, LeastUpTo
  <2>4. m \in 0 .. n /\ ~Reached(DoAll(g, f[m]), m)
    OBVIOUS
  <2>5. m # 0
    BY <1>8, <2>4
  <2>6. m \in 1 .. n /\ m - 1 \in 0 .. n /\ m - 1 < m
    BY <2>4, <2>5
  <2>7. Reached(DoAll(g, f[m - 1]), m - 1)
    BY <2>3, <2>6
  <2> QED
    BY <1>7, <2>4, <2>6, <2>7
<1>10. Reached(DoAll(g, f[n]), n)
  BY <1>9
<1> QED
  BY <1>3, <1>4, <1>5, <1>10 DEF Reached

\* The pin that is d uploads older than the one at i.
Aged(i, d) == Back(Ring, i, d)

\* How far behind everyone may be: the host comes after all copies but the last h,
\* who waits for the replay of p after all but the last a[p], and who waits for a
\* refill of the staging after all but the last b[k].
Behind(g, i, F, h, a, b) ==
    /\ h \in Nat /\ a \in [0 .. Serial -> Nat] /\ b \in [0 .. 1 -> Nat]
    /\ \A d \in 0 .. Ring - 1 :
         /\ d >= h => Covered(g, <<"ringpin", Aged(i, d)>>, "host")
         /\ \A p \in F : d >= a[p] => Keeps(g, <<"ringpin", Aged(i, d)>>, Replay(p))
         /\ \A k \in 0 .. 1 :
               d >= b[k] => Keeps(g, <<"ringpin", Aged(i, d)>>, PinReady("exp_col_eager", k))

\* What the host is behind of is what a forward that is out, or one of the two refills, was
\* issued after.
Accounted(F, h, a, b) ==
    \A d \in 0 .. h - 1 : (\E p \in F : a[p] = d) \/ (\E k \in 0 .. 1 : b[k] = d)

RingKept(g, i, F) ==
    /\ RingOrdered(g)
    /\ \E h, a, b : Behind(g, i, F, h, a, b) /\ Accounted(F, h, a, b)

LEMMA FewBehind ==
    ASSUME NEW F \in SUBSET Pipe, NEW h \in Nat, NEW a \in [0 .. Serial -> Nat],
           NEW b \in [0 .. 1 -> Nat], Accounted(F, h, a, b)
    PROVE  h <= NPipes + 2
<1>1. NPipes \in Nat /\ IsFiniteSet(Pipe) /\ Cardinality(Pipe) = NPipes
  BY PipesAreNumbered, FS_Interval DEF Pipe
<1>2. IsFiniteSet(F) /\ Cardinality(F) <= NPipes
  BY <1>1, FS_Subset
<1>3. PICK b0, b1 : b0 = b[0] /\ b1 = b[1]
  OBVIOUS
<1>4. \A d \in 0 .. h - 1 : (\E p \in F : a[p] = d) \/ b0 = d \/ b1 = d
  <2>1. \A k \in 0 .. 1 : k = 0 \/ k = 1
    OBVIOUS
  <2> QED
    BY <1>3, <2>1 DEF Accounted
<1>5. Cardinality(F) \in Nat /\ h <= Cardinality(F) + 2
  BY <1>2, <1>4, FewNumbers
<1> QED
  BY <1>1, <1>2, <1>5

LEMMA AgedType ==
    ASSUME NEW i \in 0 .. Ring - 1, NEW d \in 0 .. Ring - 1
    PROVE  /\ Aged(i, d) \in 0 .. Ring - 1 /\ <<"ringpin", Aged(i, d)>> \in Buffers
           /\ \A c \in 0 .. Ring - 1 : Aged(i, c) = Aged(i, d) => c = d
<1>1. /\ Aged(i, d) \in 0 .. Ring - 1
      /\ \A c \in 0 .. Ring - 1 : Aged(i, c) = Aged(i, d) => c = d
  BY StreamsAssumption, BackApart DEF Aged
<1> QED
  BY <1>1 DEF Buffers

\* Uploads make everything older.
LEMMA AgedOn ==
    ASSUME at \in 0 .. Ring - 1, NEW n \in 1 .. Ring
    PROVE  /\ Slot(n) \in 0 .. Ring - 1
           /\ Ring - n \in 0 .. Ring - 1 /\ Slot(n) = Aged(at, Ring - n)
           /\ \A d \in 0 .. Ring - 1 : d >= n => Aged(Slot(n), d) = Aged(at, d - n)
<1>1. /\ Ring \in Nat \ {0} /\ Ring - n \in 0 .. Ring - 1
      /\ \A d \in 0 .. Ring - 1 : d >= n => d \in n .. Ring - 1
  BY StreamsAssumption
<1> QED
  BY <1>1, SlotValue, BackForth DEF Aged

\* Commands that leave the ring alone.
LEMMA RingPasses ==
    ASSUME NEW g, NEW x, NEW i \in 0 .. Ring - 1, NEW F \in SUBSET (0 .. Serial),
           Passes(g, x, {"ringpin"}, RingEvents)
    PROVE  /\ RingOrdered(g) => RingOrdered(x)
           /\ \A h, a, b : Behind(g, i, F, h, a, b) => Behind(x, i, F, h, a, b)
           /\ RingKept(g, i, F) => RingKept(x, i, F)
<1>1. \A j \in 0 .. Ring - 1 : <<"ringpin", j>> \in Buffers /\ <<"ringpin", j>>[1] = "ringpin"
  BY DEF Buffers
<1>2. /\ "ringpin" \notin g.races => "ringpin" \notin x.races
      /\ \A j \in 0 .. Ring - 1 : Carried(g, x, <<"ringpin", j>>, RingEvents)
  BY <1>1 DEF Passes
<1>3. "host" \in Actors /\ "default" \in Actors
  BY DEF Actors, Streams
<1>4. /\ \A p \in F : Replay(p) \in RingEvents
      /\ \A k \in 0 .. 1 : PinReady("exp_col_eager", k) \in RingEvents
  BY DEF RingEvents
<1>5. RingOrdered(g) => RingOrdered(x)
  BY <1>2, <1>3 DEF RingOrdered, Carried
<1>6. ASSUME NEW h, NEW a, NEW b, Behind(g, i, F, h, a, b) PROVE Behind(x, i, F, h, a, b)
  <2>1. ASSUME NEW d \in 0 .. Ring - 1
        PROVE  /\ d >= h => Covered(x, <<"ringpin", Aged(i, d)>>, "host")
               /\ \A p \in F : d >= a[p] => Keeps(x, <<"ringpin", Aged(i, d)>>, Replay(p))
               /\ \A k \in 0 .. 1 :
                     d >= b[k] => Keeps(x, <<"ringpin", Aged(i, d)>>, PinReady("exp_col_eager", k))
    <3>1. Carried(g, x, <<"ringpin", Aged(i, d)>>, RingEvents)
      BY <1>2, AgedType
    <3>2. /\ d >= h => Covered(g, <<"ringpin", Aged(i, d)>>, "host")
          /\ \A p \in F : d >= a[p] => Keeps(g, <<"ringpin", Aged(i, d)>>, Replay(p))
          /\ \A k \in 0 .. 1 :
                d >= b[k] => Keeps(g, <<"ringpin", Aged(i, d)>>, PinReady("exp_col_eager", k))
      BY <1>6 DEF Behind
    <3> QED
      BY <1>3, <1>4, <3>1, <3>2 DEF Carried
  <2> QED
    BY <1>6, <2>1 DEF Behind
<1> QED
  BY <1>5, <1>6 DEF RingKept

\* An upload overtakes nobody if all are at most Ring - n behind.
LEMMA UploadBehind ==
    ASSUME NEW g \in Orders, at \in 0 .. Ring - 1, NEW F \in SUBSET (0 .. Serial), NEW n \in Nat \ {0},
           NEW h, NEW a, NEW b, Behind(g, at, F, h, a, b), h + n <= Ring, RingOrdered(g)
    PROVE  LET x == DoAll(g, Upload("default", n)) IN
           /\ x \in Orders /\ RingOrdered(x) /\ Slot(n) \in 0 .. Ring - 1
           /\ Behind(x, Slot(n), F, h + n, [p \in 0 .. Serial |-> a[p] + n], [k \in 0 .. 1 |-> b[k] + n])
<1>1. Ring \in Nat \ {0} /\ h \in Nat /\ a \in [0 .. Serial -> Nat] /\ b \in [0 .. 1 -> Nat]
  BY StreamsAssumption DEF Behind
<1>2. n \in 1 .. Ring /\ \A k \in 1 .. n : k \in 1 .. Ring
  BY <1>1
<1>3. ASSUME NEW k \in 1 .. n PROVE Covered(g, <<"ringpin", Slot(k)>>, "host")
  <2>1. Ring - k \in 0 .. Ring - 1 /\ Slot(k) = Aged(at, Ring - k)
    BY <1>2, AgedOn
  <2>2. Ring - k >= h
    BY <1>1
  <2> QED
    BY <2>1, <2>2 DEF Behind
<1>4. PICK x : x = DoAll(g, Upload("default", n))
  OBVIOUS
<1>5. /\ x \in Orders /\ RingOrdered(x)
      /\ \A j \in 0 .. Ring - 1 :
            (\A k \in 1 .. n : j # Slot(k)) => Carried(g, x, <<"ringpin", j>>, Events)
  BY <1>1, <1>2, <1>3, <1>4, UploadRing
<1>6. Slot(n) \in 0 .. Ring - 1
  BY <1>2, AgedOn
<1>7. ASSUME NEW d \in 0 .. Ring - 1, d >= n
      PROVE  /\ d - n \in 0 .. Ring - 1 /\ Aged(Slot(n), d) = Aged(at, d - n)
             /\ Carried(g, x, <<"ringpin", Aged(at, d - n)>>, Events)
  <2>1. d - n \in 0 .. Ring - 1 /\ Aged(Slot(n), d) = Aged(at, d - n)
    BY <1>1, <1>2, <1>7, AgedOn
  <2>2. ASSUME NEW k \in 1 .. n PROVE Aged(at, d - n) # Slot(k)
    <3>1. Ring - k \in 0 .. Ring - 1 /\ Slot(k) = Aged(at, Ring - k)
      BY <1>2, AgedOn
    <3>2. Ring - k # d - n
      BY <1>1, <1>2
    <3> QED
      BY <2>1, <3>1, <3>2, AgedType
  <2>3. Aged(at, d - n) \in 0 .. Ring - 1
    BY <2>1, AgedType
  <2> QED
    BY <1>5, <2>1, <2>2, <2>3
<1>8. /\ "host" \in Actors
      /\ \A p \in F : Replay(p) \in Events
      /\ \A k \in 0 .. 1 : PinReady("exp_col_eager", k) \in Events
  BY EventTypes DEF Actors, Names
<1>9. PICK a1, b1 : a1 = [p \in 0 .. Serial |-> a[p] + n] /\ b1 = [k \in 0 .. 1 |-> b[k] + n]
  OBVIOUS
<1>10. a1 \in [0 .. Serial -> Nat] /\ b1 \in [0 .. 1 -> Nat] /\ h + n \in Nat
  BY <1>1, <1>9
<1>11. ASSUME NEW d \in 0 .. Ring - 1, d >= h + n
       PROVE  Covered(x, <<"ringpin", Aged(Slot(n), d)>>, "host")
  <2>1. d >= n /\ d - n >= h
    BY <1>1, <1>11
  <2>2. /\ d - n \in 0 .. Ring - 1 /\ Aged(Slot(n), d) = Aged(at, d - n)
        /\ Carried(g, x, <<"ringpin", Aged(at, d - n)>>, Events)
    BY <1>7, <2>1
  <2>3. Covered(g, <<"ringpin", Aged(at, d - n)>>, "host")
    BY <2>1, <2>2 DEF Behind
  <2> QED
    BY <1>8, <2>2, <2>3 DEF Carried
<1>12. ASSUME NEW d \in 0 .. Ring - 1, NEW p \in F, d >= a1[p]
       PROVE  Keeps(x, <<"ringpin", Aged(Slot(n), d)>>, Replay(p))
  <2>0. p \in 0 .. Serial /\ a[p] \in Nat /\ a1[p] = a[p] + n
    BY <1>1, <1>9
  <2>1. d >= n /\ d - n >= a[p]
    BY <1>12, <2>0
  <2>2. /\ d - n \in 0 .. Ring - 1 /\ Aged(Slot(n), d) = Aged(at, d - n)
        /\ Carried(g, x, <<"ringpin", Aged(at, d - n)>>, Events)
    BY <1>7, <2>1
  <2>3. Keeps(g, <<"ringpin", Aged(at, d - n)>>, Replay(p))
    BY <2>1, <2>2 DEF Behind
  <2> QED
    BY <1>8, <2>2, <2>3 DEF Carried
<1>13. ASSUME NEW d \in 0 .. Ring - 1, NEW k \in 0 .. 1, d >= b1[k]
       PROVE  Keeps(x, <<"ringpin", Aged(Slot(n), d)>>, PinReady("exp_col_eager", k))
  <2>0. b[k] \in Nat /\ b1[k] = b[k] + n
    BY <1>1, <1>9
  <2>1. d >= n /\ d - n >= b[k]
    BY <1>13, <2>0
  <2>2. /\ d - n \in 0 .. Ring - 1 /\ Aged(Slot(n), d) = Aged(at, d - n)
        /\ Carried(g, x, <<"ringpin", Aged(at, d - n)>>, Events)
    BY <1>7, <2>1
  <2>3. Keeps(g, <<"ringpin", Aged(at, d - n)>>, PinReady("exp_col_eager", k))
    BY <2>1, <2>2 DEF Behind
  <2> QED
    BY <1>8, <2>2, <2>3 DEF Carried
<1>14. Behind(x, Slot(n), F, h + n, a1, b1)
  BY <1>10, <1>11, <1>12, <1>13 DEF Behind
<1> QED
  BY <1>4, <1>5, <1>6, <1>9, <1>14

LEMMA QuietRing ==
    ASSUME NEW g \in Orders, NEW cs, AllQuiet(cs), NEW i \in 0 .. Ring - 1,
           NEW F \in SUBSET (0 .. Serial), RingKept(g, i, F)
    PROVE  RingKept(DoAll(g, cs), i, F)
<1>1. PICK x : x = DoAll(g, cs)
  OBVIOUS
<1>2. Passes(g, x, {"ringpin"}, RingEvents)
  BY <1>1, QuietRuns
<1>3. RingKept(x, i, F)
  BY <1>2, RingPasses
<1> QED
  BY <1>1, <1>3

\* A forward: one upload, and the event that covers it.
LEMMA LaunchRing ==
    ASSUME StreamsTyped, NEW g \in Orders, NEW p \in 0 .. Serial, NEW rs \in Seq(Reqs),
           NEW block \in Blocks, NEW F \in SUBSET Pipe, p \notin F, NPipes + 3 <= Ring,
           RingKept(g, at, F)
    PROVE  LET x == DoAll(g, LaunchCommands(p, rs, block)) IN
           /\ x \in Orders /\ Slot(1) \in 0 .. Ring - 1
           /\ RingKept(x, Slot(1), F \cup {p})
<1> DEFINE up == Upload("default", 1)
           last(op) == <<op, Record("default", Replay(p))>>
<1>1. PICK u, op : /\ AllQuiet(u) /\ Quiet(op)
                   /\ LaunchCommands(p, rs, block) = u \o up \o last(op)
  BY LaunchParts
<1>2. /\ at \in 0 .. Ring - 1 /\ "default" \in Actors /\ Replay(p) \in Events
      /\ NPipes \in Nat /\ Ring \in Nat /\ F \in SUBSET (0 .. Serial)
  BY EventTypes, SerialPipe, PipesAreNumbered, StreamsAssumption DEF StreamsTyped, Actors, Streams
<1>3. /\ u \in Seq(Commands) /\ DoAll(g, u) \in Orders
  BY <1>1, QuietRuns
<1>4. PICK g1 \in Orders : g1 = DoAll(g, u)
  BY <1>3
<1>5. RingKept(g1, at, F)
  BY <1>1, <1>2, <1>4, QuietRing
<1>6. PICK h, a, b : Behind(g1, at, F, h, a, b) /\ Accounted(F, h, a, b)
  BY <1>5 DEF RingKept
<1>7. h \in Nat /\ a \in [0 .. Serial -> Nat] /\ b \in [0 .. 1 -> Nat]
  BY <1>6 DEF Behind
<1>8. h + 1 <= Ring
  <2>1. h <= NPipes + 2
    BY <1>6, <1>7, FewBehind
  <2> QED
    BY <1>2, <1>7, <2>1
<1>9. PICK g2 : g2 = DoAll(g1, up)
  OBVIOUS
<1>10. PICK a2, b2 : a2 = [q \in 0 .. Serial |-> a[q] + 1] /\ b2 = [k \in 0 .. 1 |-> b[k] + 1]
  OBVIOUS
<1>11. /\ g2 \in Orders /\ RingOrdered(g2) /\ Slot(1) \in 0 .. Ring - 1
       /\ Behind(g2, Slot(1), F, h + 1, a2, b2)
  <2>1. RingOrdered(g1)
    BY <1>5 DEF RingKept
  <2>2. PICK n \in Nat \ {0} : n = 1
    OBVIOUS
  <2>3. LET y == DoAll(g1, Upload("default", n)) IN
        /\ y \in Orders /\ RingOrdered(y) /\ Slot(n) \in 0 .. Ring - 1
        /\ Behind(y, Slot(n), F, h + n, [q \in 0 .. Serial |-> a[q] + n], [k \in 0 .. 1 |-> b[k] + n])
    BY <1>2, <1>6, <1>8, <2>1, <2>2, UploadBehind
  <2> QED
    BY <1>9, <1>10, <2>2, <2>3
<1>12. up \in Seq(Commands)
  BY <1>2, UploadCommands
<1>13. op \in Commands /\ AllQuiet(<<op>>) /\ Record("default", Replay(p)) \in Commands
  BY <1>1, <1>2, QuietShort, CommandTypes DEF Quiet
<1>14. PICK g3 \in Orders : g3 = Do(g2, op)
  BY <1>11, <1>13, CommandOrders
<1>15. g3 = DoAll(g2, <<op>>)
  BY <1>11, <1>13, <1>14, RunShort
<1>16. RingOrdered(g3) /\ Behind(g3, Slot(1), F, h + 1, a2, b2)
  <2>1. Passes(g2, g3, {"ringpin"}, RingEvents)
    BY <1>11, <1>13, <1>15, QuietRuns
  <2> QED
    BY <1>2, <1>11, <2>1, RingPasses
<1>17. PICK x : x = Do(g3, Record("default", Replay(p)))
  OBVIOUS
<1>18. /\ x \in Orders /\ x.races = g3.races
       /\ \A c : Carried(g3, x, c, Events \ {Replay(p)})
       /\ \A c : Covered(g3, c, "default") => Keeps(x, c, Replay(p))
  BY <1>2, <1>17, RecordOrders
<1>19. x = DoAll(g, LaunchCommands(p, rs, block))
  <2>1. /\ last(op) \in Seq(Commands) /\ DoAll(g2, last(op)) = x
    BY <1>11, <1>13, <1>14, <1>17, RunPair
  <2>2. PICK v \in Seq(Commands), w \in Seq(Commands) : v = up /\ w = last(op)
    BY <1>12, <2>1
  <2>3. DoAll(g, u \o v \o w) = DoAll(DoAll(DoAll(g, u), v), w)
    BY <1>3, RunThreeLists
  <2> HIDE DEF last, up
  <2> QED
    BY <1>1, <1>4, <1>9, <2>1, <2>2, <2>3
<1> HIDE DEF up, last
<1>21. RingOrdered(x)
  BY <1>2, <1>16, <1>18 DEF RingOrdered, Carried
<1>22. PICK a3 : a3 = [a2 EXCEPT ![p] = 0]
  OBVIOUS
<1>23. /\ a2 \in [0 .. Serial -> Nat] /\ b2 \in [0 .. 1 -> Nat] /\ a3 \in [0 .. Serial -> Nat]
       /\ a3[p] = 0 /\ \A q \in F : a3[q] = a2[q] /\ a3[q] = a[q] + 1
       /\ \A k \in 0 .. 1 : b2[k] = b[k] + 1
  <2>1. /\ a2 \in [0 .. Serial -> Nat] /\ b2 \in [0 .. 1 -> Nat]
        /\ \A q \in 0 .. Serial : a2[q] = a[q] + 1
        /\ \A k \in 0 .. 1 : b2[k] = b[k] + 1
    BY <1>7, <1>10
  <2>2. a3 \in [0 .. Serial -> Nat] /\ a3[p] = 0 /\ \A q \in 0 .. Serial : q # p => a3[q] = a2[q]
    BY <1>22, <2>1
  <2> QED
    BY <1>2, <2>1, <2>2
<1>24. Behind(x, Slot(1), F \cup {p}, h + 1, a3, b2)
  <2>1. ASSUME NEW d \in 0 .. Ring - 1
        PROVE  /\ d >= h + 1 => Covered(x, <<"ringpin", Aged(Slot(1), d)>>, "host")
               /\ \A q \in F \cup {p} : d >= a3[q] => Keeps(x, <<"ringpin", Aged(Slot(1), d)>>, Replay(q))
               /\ \A k \in 0 .. 1 :
                     d >= b2[k] => Keeps(x, <<"ringpin", Aged(Slot(1), d)>>, PinReady("exp_col_eager", k))
    <3>1. PICK pin : pin = <<"ringpin", Aged(Slot(1), d)>>
      OBVIOUS
    <3>2. /\ d >= h + 1 => Covered(g3, pin, "host")
          /\ \A q \in F : d >= a2[q] => Keeps(g3, pin, Replay(q))
          /\ \A k \in 0 .. 1 : d >= b2[k] => Keeps(g3, pin, PinReady("exp_col_eager", k))
      BY <1>16, <3>1 DEF Behind
    <3>3. /\ Covered(g3, pin, "host") => Covered(x, pin, "host")
          /\ \A e \in Events \ {Replay(p)} : Keeps(g3, pin, e) => Keeps(x, pin, e)
      BY <1>18 DEF Carried, Actors
    <3>4. /\ \A q \in F : Replay(q) \in Events \ {Replay(p)}
          /\ \A k \in 0 .. 1 : PinReady("exp_col_eager", k) \in Events \ {Replay(p)}
      <4>1. \A q \in F : q # p /\ Replay(q) \in Events
        BY <1>2, EventTypes
      <4>2. \A k \in 0 .. 1 : PinReady("exp_col_eager", k) \in Events
        BY EventTypes DEF Names
      <4>3. \A q \in F : Replay(q) # Replay(p)
        BY <4>1 DEF Replay
      <4>4. \A k \in 0 .. 1 : PinReady("exp_col_eager", k) # Replay(p)
        BY DEF Replay, PinReady
      <4> QED
        BY <4>1, <4>2, <4>3, <4>4
    <3>5. Keeps(x, pin, Replay(p))
      <4>1. Aged(Slot(1), d) \in 0 .. Ring - 1
        BY <1>11, AgedType
      <4>2. Covered(g3, pin, "default")
        BY <1>16, <3>1, <4>1 DEF RingOrdered
      <4> QED
        BY <1>18, <4>2
    <3>6. \A q \in F \cup {p} : d >= a3[q] => Keeps(x, pin, Replay(q))
      BY <1>23, <3>2, <3>3, <3>4, <3>5
    <3> QED
      BY <3>1, <3>2, <3>3, <3>4, <3>6
  <2> QED
    BY <1>7, <1>23, <2>1 DEF Behind
<1>25. Accounted(F \cup {p}, h + 1, a3, b2)
  <2>1. ASSUME NEW d \in 0 .. (h + 1) - 1
        PROVE  (\E q \in F \cup {p} : a3[q] = d) \/ (\E k \in 0 .. 1 : b2[k] = d)
    <3>1. CASE d = 0
      BY <1>23, <3>1
    <3>2. CASE d # 0
      <4>1. d - 1 \in 0 .. h - 1
        BY <1>7, <3>2
      <4>2. CASE \E q \in F : a[q] = d - 1
        <5>1. PICK q \in F : a[q] = d - 1
          BY <4>2
        <5>2. a3[q] = d
          BY <1>23, <5>1
        <5> QED
          BY <5>2
      <4>3. CASE \E k \in 0 .. 1 : b[k] = d - 1
        <5>1. PICK k \in 0 .. 1 : b[k] = d - 1
          BY <4>3
        <5>2. b2[k] = d
          BY <1>23, <5>1
        <5> QED
          BY <5>2
      <4> QED
        BY <1>6, <4>1, <4>2, <4>3 DEF Accounted
    <3> QED
      BY <3>1, <3>2
  <2> QED
    BY <2>1 DEF Accounted
<1>26. RingKept(x, Slot(1), F \cup {p})
  BY <1>21, <1>24, <1>25 DEF RingKept
<1> QED
  BY <1>11, <1>18, <1>19, <1>26

\* The expand waits for the forward, and the refill of its staging for an expand.
LEMMA ProcessRing ==
    ASSUME StreamsTyped, NEW g \in Orders, NEW t \in 0 .. Serial, NEW rs \in Seq(Reqs),
           NEW block \in Blocks, NEW on \in Seq(Reqs), NEW i \in 0 .. Ring - 1,
           NEW F \in SUBSET (0 .. Serial), t \in F, RingKept(g, i, F)
    PROVE  RingKept(DoAll(g, ProcessCommands(t, rs, block, on)), i, F \ {t})
<1> DEFINE w == <<Wait("expand", Replay(t))>>
           stage == Stage("expand", "exp_col_eager")
           m == epoch["exp_col_eager"]
           e == PinReady("exp_col_eager", m)
<1>1. PICK u : AllQuiet(u) /\ ProcessCommands(t, rs, block, on) = w \o stage \o u
  BY ProcessParts
<1>2. /\ "expand" \in Actors /\ "host" \in Actors /\ "default" \in Actors /\ "expand" \in Streams
      /\ "exp_col_eager" \in Names
      /\ m \in 0 .. 1 /\ Replay(t) \in Events /\ e \in Events
  <2>1. m \in 0 .. 1 /\ "exp_col_eager" \in Names
    BY DEF StreamsTyped, Names
  <2> QED
    BY <2>1, EventTypes DEF Actors, Streams
<1>3. PICK h, a, b : Behind(g, i, F, h, a, b) /\ Accounted(F, h, a, b)
  BY DEF RingKept
<1>4. h \in Nat /\ a \in [0 .. Serial -> Nat] /\ b \in [0 .. 1 -> Nat]
  BY <1>3 DEF Behind
<1>5. PICK g1 : g1 = Do(g, Wait("expand", Replay(t)))
  OBVIOUS
<1>6. /\ g1 \in Orders /\ g1.races = g.races
      /\ \A c : Carried(g, g1, c, Events)
      /\ \A c : Keeps(g, c, Replay(t)) => Covered(g1, c, "expand")
  BY <1>2, <1>5, WaitOrders
<1>7. PICK g2 : g2 = DoAll(g1, stage)
  OBVIOUS
<1>8. /\ stage \in Seq(Commands) /\ g2 \in Orders
      /\ \A j \in 0 .. Ring - 1 :
           /\ Carried(g1, g2, <<"ringpin", j>>, Events \ {e})
           /\ Keeps(g1, <<"ringpin", j>>, e) => Covered(g2, <<"ringpin", j>>, "host")
           /\ Covered(g1, <<"ringpin", j>>, "expand") => Keeps(g2, <<"ringpin", j>>, e)
      /\ "ringpin" \notin g1.races => "ringpin" \notin g2.races
  <2>1. LET pin == <<"pin", "exp_col_eager", m>>
            buf == <<"stage", "exp_col_eager">>
        IN  /\ stage \in Seq(Commands)
            /\ g2 \in Orders
            /\ \A c \in Buffers \ {pin, buf} :
                  /\ Carried(g1, g2, c, Events \ {e})
                  /\ Keeps(g1, c, e) => Covered(g2, c, "host")
                  /\ Covered(g1, c, "expand") => Keeps(g2, c, e)
            /\ \A k \in Kinds \ {"pin", "stage"} : k \notin g1.races => k \notin g2.races
    BY <1>2, <1>6, <1>7, StageOrders
  <2>2. \A j \in 0 .. Ring - 1 :
          <<"ringpin", j>> \in Buffers \ {<<"pin", "exp_col_eager", m>>, <<"stage", "exp_col_eager">>}
    BY DEF Buffers
  <2>3. "ringpin" \in Kinds \ {"pin", "stage"}
    BY DEF Kinds
  <2> HIDE DEF stage, e, m
  <2> QED
    BY <2>1, <2>2, <2>3
<1>10. PICK x : x = DoAll(g2, u)
  OBVIOUS
<1>11. x = DoAll(g, ProcessCommands(t, rs, block, on))
  <2>1. PICK c \in Commands : c = Wait("expand", Replay(t))
    BY <1>2, CommandTypes
  <2>2. <<c>> \in Seq(Commands) /\ DoAll(g, <<c>>) = g1
    <3>1. <<c>> \in Seq(Commands)
      OBVIOUS
    <3> QED
      BY <1>5, <2>1, <3>1, RunShort
  <2>3. PICK v1 \in Seq(Commands), v2 \in Seq(Commands), v3 \in Seq(Commands) :
          v1 = w /\ v2 = stage /\ v3 = u
    BY <1>1, <1>8, <2>1, <2>2 DEF AllQuiet
  <2>4. DoAll(g, v1 \o v2 \o v3) = DoAll(DoAll(DoAll(g, v1), v2), v3)
    BY RunThreeLists
  <2>5. DoAll(g, w) = g1
    BY <2>1, <2>2
  <2> HIDE DEF w, stage
  <2> QED
    BY <1>1, <1>7, <1>10, <2>3, <2>4, <2>5
<1> HIDE DEF w, stage
<1>12. RingOrdered(g2)
  <2>1. "ringpin" \notin g2.races
    BY <1>6, <1>8 DEF RingKept, RingOrdered
  <2>2. ASSUME NEW j \in 0 .. Ring - 1 PROVE Covered(g2, <<"ringpin", j>>, "default")
    <3>1. Covered(g, <<"ringpin", j>>, "default")
      BY DEF RingKept, RingOrdered
    <3> QED
      BY <1>2, <1>6, <1>8, <3>1 DEF Carried
  <2> QED
    BY <2>1, <2>2 DEF RingOrdered
<1>13. PICK h2, b2 : /\ h2 = IF b[m] < h THEN b[m] ELSE h
                     /\ b2 = [b EXCEPT ![m] = a[t]]
  OBVIOUS
<1>14. /\ h2 \in Nat /\ b2 \in [0 .. 1 -> Nat] /\ b2[m] = a[t] /\ \A k \in 0 .. 1 : k # m => b2[k] = b[k]
       /\ h2 = h \/ h2 = b[m]
       /\ h2 <= h /\ h2 <= b[m] /\ b[m] \in Nat
  <2>1. b[m] \in Nat /\ a[t] \in Nat
    BY <1>2, <1>4
  <2> HIDE DEF m
  <2> QED
    BY <1>2, <1>4, <1>13, <2>1
<1>15. Behind(g2, i, F \ {t}, h2, a, b2)
  <2>1. ASSUME NEW d \in 0 .. Ring - 1
        PROVE  /\ d >= h2 => Covered(g2, <<"ringpin", Aged(i, d)>>, "host")
               /\ \A q \in F \ {t} : d >= a[q] => Keeps(g2, <<"ringpin", Aged(i, d)>>, Replay(q))
               /\ \A k \in 0 .. 1 :
                     d >= b2[k] => Keeps(g2, <<"ringpin", Aged(i, d)>>, PinReady("exp_col_eager", k))
    <3>1. PICK pin : pin = <<"ringpin", Aged(i, d)>>
      OBVIOUS
    <3>2. /\ d >= h => Covered(g, pin, "host")
          /\ \A q \in F : d >= a[q] => Keeps(g, pin, Replay(q))
          /\ \A k \in 0 .. 1 : d >= b[k] => Keeps(g, pin, PinReady("exp_col_eager", k))
      BY <1>3, <3>1 DEF Behind
    <3>3. /\ Carried(g1, g2, pin, Events \ {e})
          /\ Keeps(g1, pin, e) => Covered(g2, pin, "host")
          /\ Covered(g1, pin, "expand") => Keeps(g2, pin, e)
      <4>1. Aged(i, d) \in 0 .. Ring - 1
        BY AgedType
      <4> QED
        BY <1>8, <3>1, <4>1
    <3>4. Carried(g, g1, pin, Events) /\ (Keeps(g, pin, Replay(t)) => Covered(g1, pin, "expand"))
      BY <1>6
    <3>5. /\ \A q \in F : Replay(q) \in Events \ {e}
          /\ \A k \in 0 .. 1 : k # m => PinReady("exp_col_eager", k) \in Events \ {e}
          /\ \A k \in 0 .. 1 : PinReady("exp_col_eager", k) \in Events
      <4>1. /\ \A q \in F : Replay(q) \in Events
            /\ \A k \in 0 .. 1 : PinReady("exp_col_eager", k) \in Events
        BY <1>2, EventTypes
      <4> QED
        BY <4>1 DEF Replay, PinReady
    <3>6. ASSUME NEW c \in Events \ {e}, Keeps(g, pin, c) PROVE Keeps(g2, pin, c)
      BY <3>3, <3>4, <3>6 DEF Carried
    <3>7. ASSUME d >= h2 PROVE Covered(g2, pin, "host")
      <4>1. CASE d >= h
        BY <1>2, <3>2, <3>3, <3>4, <4>1 DEF Carried
      <4>2. CASE d >= b[m]
        <5>1. Keeps(g, pin, e)
          BY <1>2, <3>2, <4>2
        <5>2. Keeps(g1, pin, e)
          BY <1>2, <3>4, <5>1 DEF Carried
        <5> QED
          BY <3>3, <5>2
      <4> QED
        BY <1>14, <3>7, <4>1, <4>2
    <3>8. ASSUME NEW k \in 0 .. 1, d >= b2[k] PROVE Keeps(g2, pin, PinReady("exp_col_eager", k))
      <4>1. CASE k = m
        <5>1. Keeps(g, pin, Replay(t))
          BY <1>14, <3>2, <3>8, <4>1
        <5> QED
          BY <3>3, <3>4, <4>1, <5>1
      <4>2. CASE k # m
        <5>1. Keeps(g, pin, PinReady("exp_col_eager", k))
          BY <1>14, <3>2, <3>8, <4>2
        <5> QED
          BY <3>5, <3>6, <4>2, <5>1
      <4> QED
        BY <4>1, <4>2
    <3>9. \A q \in F \ {t} : d >= a[q] => Keeps(g2, pin, Replay(q))
      BY <3>2, <3>5, <3>6
    <3> QED
      BY <3>1, <3>7, <3>8, <3>9
  <2> QED
    BY <1>4, <1>14, <2>1 DEF Behind
<1>16. Accounted(F \ {t}, h2, a, b2)
  <2>1. ASSUME NEW d \in 0 .. h2 - 1
        PROVE  (\E q \in F \ {t} : a[q] = d) \/ (\E k \in 0 .. 1 : b2[k] = d)
    <3>1. d \in 0 .. h - 1 /\ d # b[m]
      BY <1>4, <1>14
    <3>2. CASE \E q \in F : a[q] = d
      BY <1>2, <1>14, <3>2
    <3>3. CASE \E k \in 0 .. 1 : b[k] = d
      BY <1>14, <3>1, <3>3
    <3> QED
      BY <1>3, <3>1, <3>2, <3>3 DEF Accounted
  <2> QED
    BY <2>1 DEF Accounted
<1>17. RingKept(g2, i, F \ {t})
  BY <1>12, <1>15, <1>16 DEF RingKept
<1>18. RingKept(x, i, F \ {t})
  <2>1. PICK G \in SUBSET (0 .. Serial) : G = F \ {t}
    OBVIOUS
  <2> QED
    BY <1>1, <1>8, <1>10, <1>17, <2>1, QuietRing
<1> QED
  BY <1>11, <1>18

\* A prefill: one upload for each request, and the host waits for the stream.
LEMMA PrefillRing ==
    ASSUME StreamsTyped, ~overlap, NEW g \in Orders, NEW rs \in Seq(Reqs), rs # <<>>,
           NEW l \in [Reqs -> Leases \cup {None}], NEW F \in SUBSET Pipe,
           Len(rs) + NPipes + 2 <= Ring, RingKept(g, at, F)
    PROVE  LET x == DoAll(g, PrefillCommands(rs, l)) IN
           RingKept(x, Slot(Len(rs)), F)
<1> DEFINE up == Upload("default", Len(rs))
           stage == Stage("default", "prefill_ids")
           last(op) == <<Record("default", Synced), Wait("host", Synced), op>>
<1>1. PICK op : Quiet(op) /\ PrefillCommands(rs, l) = up \o stage \o last(op)
  BY PrefillParts
<1>2. /\ "default" \in Actors /\ "host" \in Actors /\ "default" \in Streams /\ "prefill_ids" \in Names
      /\ epoch["prefill_ids"] \in 0 .. 1 /\ Synced \in Events /\ Synced \notin RingEvents
      /\ at \in 0 .. Ring - 1
  <2>1. epoch["prefill_ids"] \in 0 .. 1 /\ at \in 0 .. Ring - 1
    BY DEF StreamsTyped, Names
  <2> QED
    BY <2>1, NotRingEvents DEF Actors, Streams, Names
<1>3. PICK n \in Nat \ {0} : n = Len(rs)
  OBVIOUS
<1>4. NPipes \in Nat /\ Ring \in Nat /\ F \in SUBSET (0 .. Serial)
  BY SerialPipe, PipesAreNumbered, StreamsAssumption
<1>5. PICK h, a, b : Behind(g, at, F, h, a, b) /\ Accounted(F, h, a, b)
  BY DEF RingKept
<1>6. h \in Nat /\ a \in [0 .. Serial -> Nat] /\ b \in [0 .. 1 -> Nat]
  BY <1>5 DEF Behind
<1>7. h + n <= Ring
  <2>1. h <= NPipes + 2
    BY <1>5, <1>6, FewBehind
  <2> QED
    BY <1>3, <1>4, <1>6, <2>1
<1>8. PICK a2, b2 : a2 = [q \in 0 .. Serial |-> a[q] + n] /\ b2 = [k \in 0 .. 1 |-> b[k] + n]
  OBVIOUS
<1>9. PICK g1 : g1 = DoAll(g, up)
  OBVIOUS
<1>10. PICK i : i = Slot(n)
  OBVIOUS
<1>11. /\ g1 \in Orders /\ RingOrdered(g1) /\ i \in 0 .. Ring - 1
       /\ Behind(g1, i, F, h + n, a2, b2)
  <2>1. RingOrdered(g)
    BY DEF RingKept
  <2>2. LET y == DoAll(g, Upload("default", n)) IN
        /\ y \in Orders /\ RingOrdered(y) /\ Slot(n) \in 0 .. Ring - 1
        /\ Behind(y, Slot(n), F, h + n, [q \in 0 .. Serial |-> a[q] + n], [k \in 0 .. 1 |-> b[k] + n])
    BY <1>2, <1>4, <1>5, <1>7, <2>1, UploadBehind
  <2> QED
    BY <1>3, <1>8, <1>9, <1>10, <2>2
<1>12. up \in Seq(Commands)
  BY <1>2, <1>3, UploadCommands
<1>13. PICK g2 : g2 = DoAll(g1, stage)
  OBVIOUS
<1>14. /\ stage \in Seq(Commands) /\ g2 \in Orders
       /\ RingOrdered(g2) /\ Behind(g2, i, F, h + n, a2, b2)
  <2>1. stage \in Seq(Commands)
    BY <1>2, StageMembers
  <2>2. LET pin == <<"pin", "prefill_ids", epoch["prefill_ids"]>>
            buf == <<"stage", "prefill_ids">>
            e == PinReady("prefill_ids", epoch["prefill_ids"])
        IN  /\ g2 \in Orders
            /\ \A c \in Buffers \ {pin, buf} : Carried(g1, g2, c, Events \ {e})
            /\ \A k \in Kinds \ {"pin", "stage"} : k \notin g1.races => k \notin g2.races
    BY <1>2, <1>11, <1>13, StageOrders
  <2>3. PICK e : e = PinReady("prefill_ids", epoch["prefill_ids"])
    OBVIOUS
  <2>4. RingEvents \subseteq Events \ {e}
    <3>1. \A p : Replay(p) # e
      BY <2>3 DEF Replay, PinReady
    <3>2. \A k : PinReady("exp_col_eager", k) # e
      BY <2>3 DEF PinReady
    <3> QED
      BY <3>1, <3>2, RingEventTypes DEF RingEvents
  <2>5. Passes(g1, g2, {"ringpin"}, RingEvents)
    <3>1. ASSUME NEW c \in Buffers, c[1] = "ringpin" PROVE Carried(g1, g2, c, RingEvents)
      <4>1. c # <<"pin", "prefill_ids", epoch["prefill_ids"]>> /\ c # <<"stage", "prefill_ids">>
        BY <3>1
      <4>2. Carried(g1, g2, c, Events \ {e})
        BY <2>2, <2>3, <4>1
      <4> QED
        BY <2>4, <4>2 DEF Carried
    <3>2. "ringpin" \in Kinds \ {"pin", "stage"}
      BY DEF Kinds
    <3> QED
      BY <2>2, <3>1, <3>2 DEF Passes
  <2>7. RingOrdered(g2) /\ Behind(g2, i, F, h + n, a2, b2)
    BY <1>4, <1>11, <2>5, RingPasses
  <2> QED
    BY <2>1, <2>2, <2>7
<1>15. op \in Commands /\ AllQuiet(<<op>>) /\ <<op>> \in Seq(Commands)
       /\ Record("default", Synced) \in Commands /\ Wait("host", Synced) \in Commands
       /\ Quiet(Record("default", Synced)) /\ Quiet(Wait("host", Synced))
  <2>1. Quiet(Record("default", Synced)) /\ Quiet(Wait("host", Synced))
    BY <1>2, QuietCommands
  <2> QED
    BY <1>1, <2>1, QuietShort DEF Quiet, AllQuiet
<1>16. PICK g3 : g3 = Do(g2, Record("default", Synced))
  OBVIOUS
<1>17. PICK g4 : g4 = Do(g3, Wait("host", Synced))
  OBVIOUS
<1>18. PICK x : x = Do(g4, op)
  OBVIOUS
<1>19. /\ g3 \in Orders /\ g3.races = g2.races
       /\ \A c : Carried(g2, g3, c, Events \ {Synced})
       /\ \A c : Covered(g2, c, "default") => Keeps(g3, c, Synced)
  BY <1>2, <1>14, <1>16, RecordOrders
<1>20. /\ g4 \in Orders /\ g4.races = g3.races
       /\ \A c : Carried(g3, g4, c, Events)
       /\ \A c : Keeps(g3, c, Synced) => Covered(g4, c, "host")
  BY <1>2, <1>17, <1>19, WaitOrders
<1>22. Passes(g2, g4, {"ringpin"}, RingEvents)
  <2>1. \A c : Carried(g2, g4, c, (Events \ {Synced}) \cap Events)
    BY <1>19, <1>20, CarriedOn
  <2>2. RingEvents \subseteq (Events \ {Synced}) \cap Events
    BY <1>2, RingEventTypes
  <2> QED
    BY <1>19, <1>20, <2>1, <2>2 DEF Passes, Carried
<1>23. RingOrdered(g4) /\ Behind(g4, i, F, h + n, a2, b2)
  BY <1>4, <1>11, <1>14, <1>22, RingPasses
<1>24. \A j \in 0 .. Ring - 1 : Covered(g4, <<"ringpin", j>>, "host")
  BY <1>14, <1>19, <1>20 DEF RingOrdered
<1>25. Behind(g4, i, F, 0, a2, b2) /\ Accounted(F, 0, a2, b2)
  <2>1. \A d \in 0 .. Ring - 1 : Covered(g4, <<"ringpin", Aged(i, d)>>, "host")
    BY <1>11, <1>24, AgedType
  <2>2. Behind(g4, i, F, 0, a2, b2)
    BY <1>23, <2>1 DEF Behind
  <2>3. 0 .. 0 - 1 = {}
    OBVIOUS
  <2> QED
    BY <2>2, <2>3 DEF Accounted
<1>26. RingKept(g4, i, F)
  BY <1>23, <1>25 DEF RingKept
<1>27. RingKept(x, i, F)
  <2>1. DoAll(g4, <<op>>) = x
    BY <1>15, <1>18, <1>20, RunShort
  <2>2. PICK G \in SUBSET (0 .. Serial) : G = F
    BY <1>4
  <2> QED
    BY <1>11, <1>15, <1>20, <1>26, <2>1, <2>2, QuietRing
<1>28. x = DoAll(g, PrefillCommands(rs, l))
  <2>1. /\ last(op) \in Seq(Commands) /\ DoAll(g2, last(op)) = x
    BY <1>14, <1>15, <1>16, <1>17, <1>18, RunTriple
  <2>2. PICK u \in Seq(Commands), v \in Seq(Commands), w \in Seq(Commands) :
          u = up /\ v = stage /\ w = last(op)
    BY <1>12, <1>14, <2>1
  <2>3. DoAll(g, u \o v \o w) = DoAll(DoAll(DoAll(g, u), v), w)
    BY RunThreeLists
  <2> HIDE DEF last, up, stage
  <2> QED
    BY <1>1, <1>9, <1>13, <2>1, <2>2, <2>3
<1> QED
  BY <1>3, <1>10, <1>27, <1>28

\* The pipes with a forward out.
Held == {p \in 0 .. Serial : result[p] # None}

RingSafe == ~overlap => RingKept(gpu, at, Held)

LEMMA HeldPipes ==
    ASSUME Inv, Books PROVE Held \subseteq Pipe
BY SerialPipe, SerialIdle DEF Books, ResultsApart, Held

LEMMA RingStarts ==
    ASSUME SInit PROVE RingSafe
<1>1. Books /\ gpu.races = {} /\ \A b : To(gpu, b) = {}
  BY NothingAccessed
<1>2. \A b, a : Covered(gpu, b, a)
  BY <1>1 DEF Covered
<1>3. \A b, e : Keeps(gpu, b, e)
  BY <1>1 DEF Keeps
<1>4. RingOrdered(gpu)
  BY <1>1, <1>2 DEF RingOrdered
<1>5. PICK a, b : a = [p \in 0 .. Serial |-> 0] /\ b = [k \in 0 .. 1 |-> 0]
  OBVIOUS
<1>6. a \in [0 .. Serial -> Nat] /\ b \in [0 .. 1 -> Nat]
  BY <1>5
<1>7. Behind(gpu, at, Held, 0, a, b)
  BY <1>2, <1>3, <1>6 DEF Behind
<1>8. Accounted(Held, 0, a, b)
  <2>1. 0 .. 0 - 1 = {}
    OBVIOUS
  <2> QED
    BY <2>1 DEF Accounted
<1> QED
  BY <1>4, <1>7, <1>8 DEF RingSafe, RingKept

LEMMA RingStep ==
    ASSUME Inv, Books, RingSafe, [SNext]_svars, NEW n \in Nat \ {0}, n + NPipes + 2 <= Ring,
           \A rs \in Batches : SPrefill(rs) => Len(rs) <= n
    PROVE  RingSafe'
<1>1. /\ StreamsTyped /\ gpu \in Orders /\ at \in 0 .. Ring - 1
      /\ lease \in [Reqs -> Leases \cup {None}]
      /\ result \in [0 .. Serial -> Blocks \cup {None}]
  BY DEF Books, StreamsTyped
<1>2. PICK F \in SUBSET Pipe : F = Held
  BY HeldPipes
<1>3. /\ NPipes \in Nat /\ Ring \in Nat /\ NPipes + 3 <= Ring /\ F \in SUBSET (0 .. Serial)
  BY SerialPipe, PipesAreNumbered, StreamsAssumption
<1>4. overlap' = overlap
  BY SyncRuns DEF SNext, SPrefill, SPrefillDone, SLaunch, SProcessPicked, Processes, SSerialStep, SRelease,
     SStartSerial, SPickIdlePipe, SNothingToLaunch, Idle, svars
<1>5. SUFFICES ASSUME ~overlap PROVE RingKept(gpu', at', Held')
  BY <1>4 DEF RingSafe
<1>6. RingKept(gpu, at, F)
  BY <1>2, <1>5 DEF RingSafe
<1>7. ASSUME NEW cs, AllQuiet(cs), gpu' = DoAll(gpu, cs), at' = at, result' = result
      PROVE  RingKept(gpu', at', Held')
  <2>1. Held' = F
    BY <1>2, <1>7 DEF Held
  <2> QED
    BY <1>1, <1>3, <1>6, <1>7, <2>1, QuietRing
<1>8. ASSUME gpu' = gpu, at' = at, result' = result
      PROVE  RingKept(gpu', at', Held')
  <2>1. Held' = F
    BY <1>2, <1>8 DEF Held
  <2> QED
    BY <1>6, <1>8, <2>1
<1>9. ASSUME NEW rs \in Batches, SPrefill(rs) PROVE RingKept(gpu', at', Held')
  <2>1. PrefilledWith(rs)
    BY <1>9, PrefillLeases
  <2>2. PICK l \in [Reqs -> Leases \cup {None}] : l = lease'
    BY <2>1 DEF PrefilledWith
  <2>3. /\ rs \in Seq(Reqs) /\ at' = Slot(Len(rs)) /\ result' = result
        /\ gpu' = DoAll(gpu, PrefillCommands(rs, l))
    BY <2>1, <2>2 DEF PrefilledWith
  <2>4. rs # <<>> /\ Len(rs) + NPipes + 2 <= Ring
    <3>1. rs # <<>> /\ Len(rs) <= n
      BY <1>9 DEF Batches
    <3> QED
      BY <1>3, <2>3, <3>1
  <2>5. Held' = F
    BY <1>2, <2>3 DEF Held
  <2>6. RingKept(DoAll(gpu, PrefillCommands(rs, l)), Slot(Len(rs)), F)
    BY <1>1, <1>5, <1>6, <2>3, <2>4, PrefillRing
  <2> QED
    BY <2>3, <2>5, <2>6
<1>10. CASE SSync
  <2>1. PICK passed \in Seq(Reqs) : gpu' = DoAll(gpu, SyncCommands(passed))
    BY <1>10, SyncRuns
  <2>2. active' /\ at' = at /\ result' = result
    BY <1>10, SyncRuns DEF SyncedActive
  <2>3. AllQuiet(SyncCommands(passed))
    BY <2>2, SyncQuiet
  <2> QED
    BY <1>7, <2>1, <2>2, <2>3
<1>11. CASE SLaunch
  <2>1. PICK block : LaunchedWith(block)
    BY <1>11, LaunchesOne
  <2>2. block \in Blocks /\ block # None /\ current \in 0 .. Serial /\ Launched \in Seq(Reqs)
    BY <2>1, FreeBlock, SerialPipe, LaunchedMembers DEF LaunchedWith, Inv, TypedPlace
  <2>3. current \notin F
    BY <1>2, <2>1, <2>2 DEF LaunchedWith, Inv, Clear, Books, ResultsApart, Held
  <2>4. Held' = F \cup {current}
    BY <1>1, <1>2, <2>1, <2>2 DEF LaunchedWith, Held
  <2>5. RingKept(DoAll(gpu, LaunchCommands(current, Launched, block)), Slot(1), F \cup {current})
    BY <1>1, <1>3, <1>6, <2>2, <2>3, LaunchRing
  <2> QED
    BY <2>1, <2>4, <2>5 DEF LaunchedWith
<1>12. CASE SProcessPicked
  <2>1. PICK t, k : ProcessedBy(t, k)
    BY <1>12, ProcessesOne
  <2>2. /\ t \in 0 .. Serial /\ queue[k].reqs \in Seq(Reqs) /\ result[t] \in Blocks /\ result[t] # None
        /\ GoesOn(queue[k].reqs) \in Seq(Reqs)
        /\ gpu' = DoAll(gpu, ProcessCommands(t, queue[k].reqs, result[t], GoesOn(queue[k].reqs)))
    BY <2>1, ProcessedLaunch
  <2>3. at' = at /\ result' = [result EXCEPT ![t] = None]
    BY <2>1 DEF ProcessedBy
  <2>4. t \in F /\ Held' = F \ {t}
    BY <1>1, <1>2, <2>2, <2>3 DEF Held
  <2>5. RingKept(DoAll(gpu, ProcessCommands(t, queue[k].reqs, result[t], GoesOn(queue[k].reqs))), at, F \ {t})
    BY <1>1, <1>3, <1>6, <2>2, <2>4, ProcessRing
  <2> QED
    BY <2>2, <2>3, <2>4, <2>5
<1>13. CASE SSerialStep
  <2>1. PICK block : SteppedWith(block)
    BY <1>13, StepsOne
  <2>2. block \in Blocks /\ Serial \in 0 .. Serial /\ Ordered(running) \in Seq(Reqs)
    BY <2>1, FreeBlock, SerialPipe, OrderedMembers DEF SteppedWith, Inv, TypedRequests
  <2>3. GoesOn(Ordered(running)) \in Seq(Reqs)
    BY <2>2, GoesOnMembers
  <2>4. PICK rs \in Seq(Reqs), on \in Seq(Reqs) : rs = Ordered(running) /\ on = GoesOn(Ordered(running))
    BY <2>2, <2>3
  <2>5. PICK g1 : g1 = DoAll(gpu, LaunchCommands(Serial, rs, block))
    OBVIOUS
  <2>6. g1 \in Orders /\ gpu' = DoAll(g1, ProcessCommands(Serial, rs, block, on))
    <3>1. gpu' = DoAll(gpu, LaunchCommands(Serial, rs, block) \o ProcessCommands(Serial, rs, block, on))
      BY <2>1, <2>4 DEF SteppedWith, Run, DoAll
    <3> QED
      BY <1>1, <2>2, <2>5, <3>1, StepOrders
  <2>7. Serial \notin F
    BY SerialPipe
  <2>8. Slot(1) \in 0 .. Ring - 1 /\ RingKept(g1, Slot(1), F \cup {Serial})
    BY <1>1, <1>3, <1>6, <2>2, <2>5, <2>7, LaunchRing
  <2>9. PICK G \in SUBSET (0 .. Serial) : G = F \cup {Serial}
    BY <1>3, <2>2
  <2>10. RingKept(DoAll(g1, ProcessCommands(Serial, rs, block, on)), Slot(1), G \ {Serial})
    BY <1>1, <2>2, <2>6, <2>8, <2>9, ProcessRing
  <2>11. G \ {Serial} = F
    BY <2>7, <2>9
  <2>12. at' = Slot(1) /\ result' = result
    BY <2>1 DEF SteppedWith
  <2>13. Held' = F
    BY <1>2, <2>12 DEF Held
  <2> QED
    BY <2>6, <2>10, <2>11, <2>12, <2>13
<1>14. CASE SRelease
  <2>1. PICK done : ReleasedAll(done)
    BY <1>14, ReleasesDone
  <2>2. /\ done \in Seq(Reqs) /\ gpu' = IF done = <<>> THEN gpu ELSE DoAll(gpu, CompleteCommands(done))
        /\ at' = at /\ result' = result
    BY <2>1 DEF ReleasedAll
  <2>3. AllQuiet(CompleteCommands(done))
    BY <2>2, CompleteQuiet
  <2> QED
    BY <1>7, <1>8, <2>2, <2>3
<1>15. CASE (\E r \in Reqs : SPrefillDone(r)) \/ SStartSerial \/ SPickIdlePipe \/ SNothingToLaunch
            \/ UNCHANGED svars
  <2>1. UNCHANGED <<gpu, at, result>>
    BY <1>15 DEF SPrefillDone, SStartSerial, SPickIdlePipe, SNothingToLaunch, Idle, svars
  <2> QED
    BY <1>8, <2>1
<1> QED
  BY <1>9, <1>10, <1>11, <1>12, <1>13, <1>14, <1>15 DEF SNext

\* No prefill is of more than n requests.
UpTo(n) == [][\A rs \in Batches : SPrefill(rs) => Len(rs) <= n]_svars

\* With prefills on the default stream, if the ring has a pin for each request of a prefill,
\* for each pipe and for the two refills of the staging, no upload laps it (pool.py).
THEOREM RingInOrder ==
    ASSUME NEW n \in Nat \ {0}, n + NPipes + 2 <= Ring
    PROVE  SSpec /\ UpTo(n) => [](~overlap => RingNotLapped)
<1>1. SInit => RingSafe
  BY RingStarts
<1>2. Inv /\ Books /\ RingSafe /\ [SNext]_svars
        /\ [\A rs \in Batches : SPrefill(rs) => Len(rs) <= n]_svars => RingSafe'
  <2>1. ASSUME Inv, Books, RingSafe, [SNext]_svars, UNCHANGED svars PROVE RingSafe'
    BY <2>1 DEF RingSafe, Held, svars
  <2>2. ASSUME Inv, Books, RingSafe, [SNext]_svars,
               \A rs \in Batches : SPrefill(rs) => Len(rs) <= n
        PROVE  RingSafe'
    BY <2>2, RingStep
  <2> QED
    BY <2>1, <2>2
<1>3. RingSafe => (~overlap => RingNotLapped)
  BY DEF RingSafe, RingKept, RingOrdered, RingNotLapped
<1> QED
  BY <1>1, <1>2, <1>3, LeasesKept, PTL DEF SSpec, UpTo
=============================================================================
