--------------------------- MODULE DecodePipeline ---------------------------
(***************************************************************************)
(* scheduler/pipeline.py driven by _decode_tick: the running requests are  *)
(* spread over pipes; a tick processes one outstanding forward and         *)
(* launches another, so that the expand of one pipe hides behind the       *)
(* forward of the next.  A launch writes one KV column per request, found  *)
(* through the wave cache of _forward_decode.                              *)
(*                                                                         *)
(* A tick runs in the worker thread; its steps are those of sync, get_next *)
(* (one round of its recursion each), launch, and the release of finished  *)
(* requests.  Between ticks the loop prefills new requests, on a side      *)
(* stream once the pipeline is active: such a request is ready later.      *)
(***************************************************************************)
EXTENDS Selection

CONSTANTS
    Reqs,       \* the requests, integers
    Gen,        \* Gen[r]: decode steps r needs
    Stages      \* pipeline_stages

ASSUME PipelineAssumption ==
    /\ Stages \in Nat \ {0}
    /\ IsFiniteSet(Reqs)
    /\ Gen \in [Reqs -> Nat \ {0}]

VARIABLES
    running,    \* InflightLoop.running
    status,     \* "new", "running", "done", "dropped"
    left,       \* decode results r still needs: it is finished at 0
    ready,      \* ready[r]: the prefill event of r has passed
    active,     \* pipes is not None
    pipes,      \* the bucket of each pipe
    turn,
    current,    \* current_pipe_id
    queue,      \* result_queue: launches [pid, reqs] in order
    pending,    \* pending_prefills
    held,       \* held_prefills
    wave,       \* the wave cache: its key, seq_base and step
    seq_len,    \* seq_len[r] past the prompt
    column,     \* column[r]: the KV column of r's last launch, past the prompt
    pc          \* "idle" between ticks, else the next step of the tick

place == <<active, pipes, turn, current, queue, pending, held>>
kv == <<wave, seq_len, column>>
vars == <<running, status, left, ready, active, pipes, turn, current, queue,
          pending, held, wave, seq_len, column, pc>>

NPipes == IF Stages < 2 THEN 2 ELSE Stages
Pipe == 0 .. NPipes - 1

Finished(r) == left[r] = 0
HasLive(ps, i) == \E r \in ToSet(ps[i]) : ~Finished(r)
Unfinished(rs) == Only(rs, {r \in Reqs : ~Finished(r)})
Without(rs, S) == Only(rs, Reqs \ S)

Inflight(q, i) == \E k \in 1 .. Len(q) : q[k].pid = i
FreePipes(q) == {i \in Pipe : ~Inflight(q, i)}

NoPipes == [i \in Pipe |-> <<>>]

\* assign_buckets: round robin over the pipes.
Buckets(rs) ==
    [i \in Pipe |-> Only(rs, {rs[n] : n \in {m \in 1 .. Len(rs) : (m - 1) % NPipes = i}})]

\* (mutants of Flush: nothing is flushed; what is flushed stays pending)
FlushNothing(x, q) == x

FlushTwice(x, q) ==
    IF FreePipes(q) = {} THEN x
    ELSE [pipes |-> Spread(x.pipes, FreePipes(q), FlattenSeq(x.pending)), pending |-> x.pending]

\* flush_pending_prefills on the buckets and pending batches x, while the
\* launches q are out.
Flush(x, q) ==
    IF x.pending = <<>> \/ FreePipes(q) = {} THEN x
    ELSE [pipes |-> Spread(x.pipes, FreePipes(q), FlattenSeq(x.pending)), pending |-> <<>>]

NoWave == [key |-> <<>>, base |-> <<>>, step |-> 0]

Init ==
    /\ running = <<>>
    /\ status = [r \in Reqs |-> "new"]
    /\ left = Gen
    /\ ready = [r \in Reqs |-> TRUE]
    /\ active = FALSE
    /\ pipes = NoPipes
    /\ turn = 0
    /\ current = 0
    /\ queue = <<>>
    /\ pending = <<>>
    /\ held = {}
    /\ wave = NoWave
    /\ seq_len = [r \in Reqs |-> 0]
    /\ column = [r \in Reqs |-> -1]
    /\ pc = "idle"

\* The loop prefills a batch; _prefill_for_loop uses the side stream only when
\* the pipeline is active, and then the batch may not be ready yet.
Prefill(rs) ==
    /\ pc = "idle"
    /\ running' = running \o rs
    /\ status' = [r \in Reqs |-> IF r \in ToSet(rs) THEN "running" ELSE status[r]]
    /\ \E done \in (IF active THEN BOOLEAN ELSE {TRUE}) :
         ready' = [r \in Reqs |-> IF r \in ToSet(rs) THEN done ELSE ready[r]]
    /\ UNCHANGED <<left, place, kv, pc>>

\* The prefill event of r passes on the GPU, at any moment.
PrefillDone(r) ==
    /\ ~ready[r]
    /\ ready' = [ready EXCEPT ![r] = TRUE]
    /\ UNCHANGED <<running, status, left, place, kv, pc>>

\* _ordered_live: grouped by generated length, the groups in order of their
\* first members.
Generated(r) == Gen[r] - left[r]

Ordered(rs) ==
    FlattenSeq([k \in 1 .. Len(rs) |->
        IF \E n \in 1 .. k - 1 : Generated(rs[n]) = Generated(rs[k]) THEN <<>>
        ELSE Only(rs, {r \in Reqs : Generated(r) = Generated(rs[k])})])

\* _forward_decode over rs: a launch of the same requests as the one before
\* steps the cached wave, any other starts one; KV goes to seq_base + step.
\* (mutant of WaveOf: the wave is recognised by its size)
WaveOfSize(rs) ==
    IF Len(wave.key) = Len(rs) THEN [wave EXCEPT !.step = @ + 1]
    ELSE [key |-> rs, base |-> [i \in 1 .. Len(rs) |-> seq_len[rs[i]]], step |-> 0]

WaveOf(rs) ==
    IF wave.key = rs THEN [wave EXCEPT !.step = @ + 1]
    ELSE [key |-> rs, base |-> [i \in 1 .. Len(rs) |-> seq_len[rs[i]]], step |-> 0]

ForwardDecode(rs) ==
    LET w == WaveOf(rs)
    IN  /\ wave' = w
        /\ seq_len' = [r \in Reqs |-> IF r \in ToSet(rs) THEN seq_len[r] + 1 ELSE seq_len[r]]
        /\ column' = [r \in Reqs |->
             IF r \in ToSet(rs) THEN w.base[CHOOSE i \in 1 .. Len(rs) : rs[i] = r] + w.step
             ELSE column[r]]

\* The expand of a launch: every request of it has one more token.
Expanded(rs) ==
    [r \in Reqs |-> IF r \in ToSet(rs) /\ left[r] > 0 THEN left[r] - 1 ELSE left[r]]

\* _decode_tick with the pipeline not active and a single request.
StartSerial ==
    /\ pc = "idle"
    /\ ~active
    /\ Len(running) = 1
    /\ pc' = "serial"
    /\ UNCHANGED <<running, status, left, ready, place, kv>>

\* pipes without the requests that left running.
Kept == [i \in Pipe |-> Only(pipes[i], ToSet(running))]

\* _decode_tick otherwise: try_materialize, sync_pipes_from_running and
\* try_dematerialize.  Newcomers are the running requests in no pipe; those
\* whose prefill is not done are held, the others make a new wave, or join the
\* free pipes, or wait in pending_prefills.
Sync ==
    LET known == {r \in ToSet(running) : ~active \/ \E i \in Pipe : r \in ToSet(pipes[i])}
        newcomers == ToSet(running) \ known
        late == {r \in newcomers : ~ready[r]}
        rs == Only(running, newcomers \ late)
        newWave == known = {} /\ late = {} /\ Len(running) >= 2 /\ queue = <<>> /\ pending = <<>>
        split == ~active \/ newWave
        full == FreePipes(queue) = {}
    IN  /\ pc = "idle"
        /\ running # <<>>
        /\ active \/ Len(running) >= 2
        /\ pipes' = IF split THEN Buckets(running)
                    ELSE IF full THEN Kept ELSE Spread(Kept, FreePipes(queue), rs)
        /\ queue' = IF active THEN queue ELSE <<>>
        /\ held' = late
        /\ pending' = IF ~active THEN <<>>
                      ELSE IF full /\ rs # <<>> THEN Append(pending, rs) ELSE pending
        /\ turn' = IF split THEN 0 ELSE turn
        /\ current' = IF split THEN 0 ELSE current
        /\ active' \in IF queue' = <<>> /\ pending' = <<>> /\ held' = {}
                          /\ \A i \in Pipe : ~HasLive(pipes', i)
                       THEN BOOLEAN     \* idle for long enough or not
                       ELSE {TRUE}
        /\ pc' = IF active' THEN "next" ELSE "serial"
        /\ UNCHANGED <<running, status, left, ready, kv>>

\* _decode_one_step: forward and expand everything.
SerialStep ==
    /\ pc = "serial"
    /\ \E rs \in {Ordered(running)} : ForwardDecode(rs)
    /\ left' = Expanded(running)
    /\ pc' = "release"
    /\ UNCHANGED <<running, status, ready, place>>

\* A round of get_next begins with flush_pending_prefills.
Round == Flush([pipes |-> pipes, pending |-> pending], queue)

\* pick_turn: the first pipe from `turn` on with an unfinished request.
\* (mutant: only the pipe whose turn it is is tried)
After(i, k) == (i + k) % NPipes

FirstFrom(i, ks, Good(_)) ==
    {After(i, k) : k \in {n \in ks : Good(After(i, n)) /\ \A m \in ks : m < n => ~Good(After(i, m))}}

PicksTurn(ps) == FirstFrom(turn, {0}, LAMBDA i : HasLive(ps, i))

Picks(ps) == FirstFrom(turn, 0 .. NPipes - 1, LAMBDA i : HasLive(ps, i))

\* The pipe to launch instead of t, whose result is still out.
Alternatives(ps, t) ==
    FirstFrom(t, 1 .. NPipes - 1, LAMBDA i : ~Inflight(queue, i) /\ HasLive(ps, i))

\* process_for_turn: the pipe's first result, then the pending prefills.
Process(i) ==
    LET k == SelectInSeq(queue, LAMBDA l : l.pid = i)
        x == Flush(Round, RemoveAt(queue, k))
    IN  /\ queue' = RemoveAt(queue, k)
        /\ left' = Expanded(queue[k].reqs)
        /\ pipes' = x.pipes
        /\ pending' = x.pending

\* (mutant of ToLaunch: the turn is not passed on)
ToLaunchAgain(t) ==
    /\ current' = t
    /\ turn' = t
    /\ pc' = "launch"

ToLaunch(t) ==
    /\ current' = t
    /\ turn' = After(t, 1)
    /\ pc' = "launch"

\* The picked pipe is not in flight, or another one with work is not.
PickIdlePipe ==
    /\ pc = "next"
    /\ \E t \in Picks(Round.pipes) :
         \E i \in (IF Inflight(queue, t) THEN Alternatives(Round.pipes, t) ELSE {t}) : ToLaunch(i)
    /\ pipes' = Round.pipes
    /\ pending' = Round.pending
    /\ UNCHANGED <<running, status, left, ready, active, queue, held, kv>>

\* Every pipe with work is in flight: process the picked one, and launch it again
\* unless that finished it.
ProcessPicked ==
    /\ pc = "next"
    /\ \E t \in Picks(Round.pipes) :
         /\ Inflight(queue, t)
         /\ Alternatives(Round.pipes, t) = {}
         /\ Process(t)
         /\ IF Inflight(queue', t) THEN pc' = "release" /\ UNCHANGED <<turn, current>>
            ELSE IF \E r \in ToSet(pipes'[t]) : left'[r] > 0 THEN ToLaunch(t)
            ELSE turn' = After(t, 1) /\ UNCHANGED <<current, pc>>
    /\ UNCHANGED <<running, status, ready, active, held, kv>>

\* No pipe has work: process the oldest result and go round again.
ProcessOldest ==
    /\ pc = "next"
    /\ Picks(Round.pipes) = {}
    /\ queue # <<>>
    /\ Process(Head(queue).pid)
    /\ UNCHANGED <<running, status, ready, active, turn, current, held, kv, pc>>

\* get_next returns None: everything that runs is held.
NothingToLaunch ==
    /\ pc = "next"
    /\ Picks(Round.pipes) = {}
    /\ queue = <<>>
    /\ pipes' = Round.pipes
    /\ pending' = Round.pending
    /\ pc' = "release"
    /\ UNCHANGED <<running, status, left, ready, active, turn, current, queue, held, kv>>

\* _launch_pipe_forward, which waits for the prefill events, and enqueue.
Launched == Ordered(Unfinished(pipes[current]))

Launch ==
    /\ pc = "launch"
    /\ \E rs \in {Launched} :
         /\ ForwardDecode(rs)
         /\ queue' = Append(queue, [pid |-> current, reqs |-> rs])
         /\ ready' = [r \in Reqs |-> ready[r] \/ r \in ToSet(rs)]
    /\ pc' = "release"
    /\ UNCHANGED <<running, status, left, active, pipes, turn, current, pending, held>>

\* The end of the tick: finished requests leave running and are freed.
\* (mutant of Released: a launch already counts as its token)
ReleasedAtLaunch ==
    {r \in ToSet(running) :
        Finished(r) \/ (left[r] = 1 /\ \E k \in 1 .. Len(queue) : r \in ToSet(queue[k].reqs))}

Released == {r \in ToSet(running) : Finished(r)}

Release ==
    /\ pc = "release"
    /\ running' = Without(running, Released)
    /\ status' = [r \in Reqs |-> IF r \in Released THEN "done" ELSE status[r]]
    /\ pc' = "idle"
    /\ UNCHANGED <<left, ready, place, kv>>

\* A prefill or a launch raises: the worker forgets what was running.  The
\* pipeline keeps its buckets and results.
Forgotten(S) == [r \in Reqs |-> IF r \in S THEN "dropped" ELSE status[r]]

PrefillRaises(rs) ==
    /\ pc = "idle"
    /\ running' = <<>>
    /\ status' = Forgotten(ToSet(running) \cup ToSet(rs))
    /\ UNCHANGED <<left, ready, place, kv, pc>>

LaunchRaises ==
    /\ pc = "launch"
    /\ running' = <<>>
    /\ status' = Forgotten(ToSet(running))
    /\ wave' = WaveOf(Launched)
    /\ pc' = "idle"
    /\ UNCHANGED <<left, ready, place, seq_len, column>>

TickStep ==
    \/ StartSerial
    \/ Sync
    \/ SerialStep
    \/ PickIdlePipe
    \/ ProcessPicked
    \/ ProcessOldest
    \/ NothingToLaunch
    \/ Launch
    \/ Release

\* New requests, in the order of their numbers.
Batches ==
    {rs \in SetToAllKPermutations({r \in Reqs : status[r] = "new"}) :
        rs # <<>> /\ \A i, j \in 1 .. Len(rs) : i < j => rs[i] < rs[j]}

Next ==
    \/ TickStep
    \/ \E rs \in Batches : Prefill(rs) \/ PrefillRaises(rs)
    \/ \E r \in Reqs : PrefillDone(r)
    \/ LaunchRaises

Spec == Init /\ [][Next]_vars

\* The worker keeps ticking while something runs, and prefills end.
FairSpec ==
    /\ Spec
    /\ WF_vars(TickStep)
    /\ \A r \in Reqs : WF_vars(PrefillDone(r))

-----------------------------------------------------------------------------
\* Once a tick has synced, every unfinished running request has exactly one
\* place: one position of one bucket, or of a pending batch, or among the held;
\* none is forgotten, and none is put where it would be decoded twice
\* (pipeline.py:173-255).
Parked == FlattenSeq(pending)
Positions(rs, r) == {k \in 1 .. Len(rs) : rs[k] = r}

Placed ==
    pc \in {"next", "launch"} => \A r \in ToSet(Unfinished(running)) :
        Cardinality(UNION {{i} \X Positions(pipes[i], r) : i \in Pipe})
          + Cardinality(Positions(Parked, r))
          + (IF r \in held THEN 1 ELSE 0) = 1

\* pending_prefills is empty between ticks; sync_pipes_from_running, which does
\* not look there, would merge its requests a second time (pipeline.py:184-218).
PendingDrained == pc = "idle" => pending = <<>>

\* "Same-beam expand/KV cannot overlap the next forward of those beams"
\* (pipeline.py:3): a pipe, and a request, has at most one forward out; a request
\* is finished and freed only when none is; and the pipe of a live launch still
\* lists its requests, where _wait_reqs_expand_on looks for the event to wait on
\* before their KV is freed (scheduler.py:594-626, 1221).
OneForwardOut ==
    \A k \in 1 .. Len(queue) :
        /\ \A n \in 1 .. k - 1 : /\ queue[n].pid # queue[k].pid
                                 /\ ToSet(queue[n].reqs) \cap ToSet(queue[k].reqs) = {}
        /\ \A r \in ToSet(queue[k].reqs) :
             /\ status[r] # "done"
             /\ status[r] = "running" => left[r] > 0 /\ r \in ToSet(pipes[queue[k].pid])

\* However launches of different pipes interleave, the wave cache puts each
\* decode step's KV in the request's next column (scheduler.py:1268-1320).
ColumnsContiguous == \A r \in Reqs : column[r] = seq_len[r] - 1

\* Overlap: while forwards are out, the pipe launched last is launched again
\* only if no other pipe has work (pipeline.py:6-11).
Alternates ==
    [][pc = "next" /\ pc' = "launch" /\ queue # <<>> /\ current' = current
         => \A i \in Pipe \ {current} : ~HasLive(pipes, i)]_vars

\* Every request that runs is finished, or dropped by a failure: the pipeline
\* never leaves one in a bucket, a pending batch or on hold forever.
AllServed == \A r \in Reqs : status[r] = "running" ~> status[r] \in {"done", "dropped"}
=============================================================================
