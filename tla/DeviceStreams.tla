---------------------------- MODULE DeviceStreams ----------------------------
(***************************************************************************)
(* What the host orders on the device while DecodePipeline runs: the        *)
(* default, expand, copy and prefill streams, the events that order them    *)
(* (scheduler/scheduler.py), and the buffers they share: the tables of the  *)
(* beams, the rows and KV slots a request leases from the pools, the        *)
(* results of a forward, pinned staging (engine/staging.py), the upload     *)
(* ring of the pools (kvcache/pool.py) and the scratch of the KV gather     *)
(* (attention/kv_indices.py).                                               *)
(*                                                                         *)
(* Nothing is executed.  Each host step issues a list of commands; gpu      *)
(* records which accesses to a buffer every stream, and the host, comes     *)
(* after, whatever the device does.  Two accesses to one buffer, one of     *)
(* them a write, of which neither comes after the other, are a race.        *)
(* Launches without the expand in the graph: for that see LaunchBuffers.    *)
(***************************************************************************)
EXTENDS DecodePipeline

CONSTANTS
    Overlaps,   \* may the attention backend prefill on a side stream?
    Leases,     \* room in the pools, for one request each
    Blocks,     \* memory for the results of forwards
    Ring        \* SLOTS, 64 in the code

ASSUME StreamsAssumption == Overlaps \subseteq BOOLEAN /\ Ring \in Nat \ {0}

VARIABLES
    overlap,    \* prefill_overlap_ok
    gpu,        \* past, accesses, events and races
    lease,      \* lease[r]: None before the prefill and after the release
    result,     \* result[p]: the memory block of pipe p's result, or None
    epoch,      \* epoch[name]: refills of a PinnedStage name, mod 2
    at,         \* _i of the ring
    forgotten   \* try_materialize dropped events nobody had waited for

svars == <<vars, overlap, gpu, lease, result, epoch, at, forgotten>>

Streams == {"default", "expand", "copy", "prefill"}
Serial == NPipes                \* the pipe id None
None == "none"
Names == {"prefill_ids", "exp_col_eager"}

-----------------------------------------------------------------------------
(* Commands and what they do to the order of accesses. *)

Op(s, reads, writes) == [do |-> "op", on |-> s, reads |-> reads, writes |-> writes]
Record(s, e) == [do |-> "record", on |-> s, event |-> e]
Wait(s, e) == [do |-> "wait", on |-> s, event |-> e]
Drop(e) == [do |-> "drop", event |-> e]

Access(s, reads, writes) ==
    {<<b, "read", s>> : b \in reads} \cup {<<b, "write", s>> : b \in writes}

\* An operation of a stream comes after what the stream and the host come after.
\* Of the accesses to a buffer only those since its last write are kept, of a
\* stream's only the last.
DoOp(g, c) ==
    LET before == g.past[c.on] \cup g.past["host"]
        new == Access(c.on, c.reads, c.writes)
        gone == {x \in g.accesses : x[1] \in c.writes} \cup new
        conflicts == {x \in g.accesses : x[1] \in c.writes \/ (x[1] \in c.reads /\ x[2] = "write")}
    IN  [accesses |-> (g.accesses \ gone) \cup new,
         past |-> [a \in DOMAIN g.past |->
                    IF a = c.on THEN (before \ gone) \cup new ELSE g.past[a] \ gone],
         events |-> [e \in DOMAIN g.events |-> g.events[e] \ gone],
         races |-> g.races \cup {x[1][1] : x \in conflicts \ before}]

\* An event covers what the stream comes after when it is recorded; waiting for
\* one that was never recorded, or was dropped, is nothing.
Do(g, c) ==
    CASE c.do = "op" -> DoOp(g, c)
      [] c.do = "record" -> [g EXCEPT !.events[c.event] = g.past[c.on] \cup g.past["host"]]
      [] c.do = "wait" -> [g EXCEPT !.past[c.on] = @ \cup g.events[c.event]]
      [] c.do = "drop" -> [g EXCEPT !.events[c.event] = {}]

Run(commands) == gpu' = FoldLeft(Do, gpu, commands)

Beams(rs) == {<<"beams", r>> : r \in ToSet(rs)}
Rows(rs, l) == {<<"rows", l[r]>> : r \in ToSet(rs)}

\* Events.
Expand(p) == <<"expand", p>>
Remap(p) == <<"remap", p>>
Replay(p) == <<"replay", p>>
PrefillEvent(r) == <<"prefill", r>>
LastPrefill == <<"last", 0>>
ExpandNow == <<"wait_stream", 0>>      \* wait_stream(expand_stream)
CopyDone == <<"copied", 0>>            \* synchronized by the host
Synced == <<"synced", 0>>              \* a copy from pageable memory
PinReady(name, k) == <<name, k>>
Events ==
    ({"expand", "remap", "replay"} \X (0 .. Serial)) \cup ({"prefill"} \X Reqs)
    \cup {LastPrefill, ExpandNow, CopyDone, Synced} \cup (Names \X (0 .. 1))

\* (mutant: copy_list does not wait)
StageNoWait(s, name) ==
    LET k == epoch[name] IN
    <<Op("host", {}, {<<"pin", name, k>>}), Op(s, {<<"pin", name, k>>}, {<<"stage", name>>}),
      Record(s, PinReady(name, k))>>

\* copy_list: wait for the copy out of the pin two refills ago, refill it, copy.
Stage(s, name) ==
    LET k == epoch[name] IN
    <<Wait("host", PinReady(name, k)),
      Op("host", {}, {<<"pin", name, k>>}), Op(s, {<<"pin", name, k>>}, {<<"stage", name>>}),
      Record(s, PinReady(name, k))>>

\* _IdxStage.upload, n times: the pins of the ring are refilled without waiting.
Slot(k) == (at + k) % Ring
Upload(s, n) ==
    FlattenSeq([k \in 1 .. n |->
        <<Op("host", {}, {<<"ringpin", Slot(k)>>}),
          Op(s, {<<"ringpin", Slot(k)>>}, {<<"ring", Slot(k)>>})>>])
Uploaded(n) == {<<"ring", Slot(k)>> : k \in 1 .. n}

WaitAll(s, es) == [i \in DOMAIN es |-> Wait(s, es[i])]
DropAll(es) == [i \in DOMAIN es |-> Drop(es[i])]
Stored(p) == <<Expand(p), Remap(p)>>       \* expand_done[p], remap_done[p]
AllStored == FlattenSeq([p \in 1 .. NPipes + 1 |-> Stored(p - 1)])

SInit ==
    /\ Init
    /\ overlap \in Overlaps
    /\ gpu = [past |-> [a \in Streams \cup {"host"} |-> {}], accesses |-> {},
              events |-> [e \in Events |-> {}], races |-> {}]
    /\ lease = [r \in Reqs |-> None]
    /\ result = [p \in 0 .. Serial |-> None]
    /\ epoch = [n \in Names |-> 0]
    /\ at = 0
    /\ forgotten = FALSE

-----------------------------------------------------------------------------
(* The host's steps. *)

PrefillStream == IF active /\ overlap THEN "prefill" ELSE "default"

\* _prefill_for_loop and _prefill_batch: on the side stream after the last prefill
\* there and after every expand and remap whose event is still stored.  The
\* gather copies the lengths from pageable memory, for which the host waits.
PrefillCommands(rs, l) ==
    LET s == PrefillStream
        side == s = "prefill"
    IN  (IF side THEN WaitAll(s, <<LastPrefill>> \o AllStored) ELSE <<>>)
        \o Upload(s, Len(rs)) \o Stage(s, "prefill_ids")
        \o <<Record(s, Synced), Wait("host", Synced),
             Op(s, {<<"stage", "prefill_ids">>} \cup Uploaded(Len(rs)),
                {<<"indptr", 0>>} \cup Rows(rs, l) \cup Beams(rs))>>
        \o (IF side THEN <<Record(s, LastPrefill)>> \o
                         [i \in DOMAIN rs |-> Record(s, PrefillEvent(rs[i]))]
            ELSE <<>>)

Leased == {lease[r] : r \in Reqs}

SPrefill(rs) ==
    /\ Prefill(rs)
    /\ overlap \/ \A r \in ToSet(rs) : ready'[r]
    /\ \E free \in [ToSet(rs) -> Leases \ Leased] :
        /\ IsInjective(free)
        /\ lease' = [r \in Reqs |-> IF r \in ToSet(rs) THEN free[r] ELSE lease[r]]
    /\ Run(PrefillCommands(rs, lease'))
    /\ epoch' = [epoch EXCEPT !["prefill_ids"] = 1 - @]
    /\ at' = Slot(Len(rs))
    /\ UNCHANGED <<overlap, result, forgotten>>

\* try_materialize clears the events of the serial steps before; a newcomer
\* whose event has passed (query) is known to be done.
Unwaited == \E i \in DOMAIN AllStored :
    ~(gpu.events[AllStored[i]] \subseteq gpu.past["default"] \cup gpu.past["host"])

SSync ==
    LET known == UNION {ToSet(pipes[i]) : i \in Pipe}
        passed == Only(running, {r \in ToSet(running) \ known : ready[r]})
    IN  /\ Sync
        /\ Run((IF active THEN <<>> ELSE DropAll(AllStored))
               \o [i \in DOMAIN passed |-> Wait("host", PrefillEvent(passed[i]))]
               \o (IF active /\ ~active' THEN WaitAll("default", AllStored) \o DropAll(AllStored)
                   ELSE <<>>))
        /\ forgotten' = (forgotten \/ (~active /\ Unwaited))
        /\ UNCHANGED <<overlap, lease, result, epoch, at>>

\* (mutants: the remap is not waited for; the events are popped, then looked up)
WaitPipeReadyExpand(p) == WaitAll("default", <<Expand(p)>>) \o DropAll(Stored(p))
WaitPipeReadyPopped(p) == DropAll(Stored(p)) \o WaitAll("default", Stored(p))

\* _wait_pipe_ready
WaitPipeReady(p) == WaitAll("default", Stored(p)) \o DropAll(Stored(p))

\* _launch_pipe_forward and _forward_decode over rs.
LaunchCommands(p, rs, block) ==
    WaitPipeReady(p)
    \o [i \in DOMAIN rs |-> Wait("default", PrefillEvent(rs[i]))]
    \o [i \in DOMAIN rs |-> Drop(PrefillEvent(rs[i]))]
    \o Upload("default", 1)
    \o <<Op("default", Beams(rs) \cup Uploaded(1),
            {<<"indptr", 0>>, <<"result", block>>} \cup Rows(rs, lease)),
         Record("default", Replay(p))>>

\* _run_expand_overlap over rs: expand on its stream after the forward, remap on
\* the copy stream after the expand, for the requests that go on.
ProcessCommands(p, rs, block, on) ==
    <<Wait("expand", Replay(p))>> \o Stage("expand", "exp_col_eager")
    \o <<Op("expand", {<<"stage", "exp_col_eager">>, <<"result", block>>},
            {<<"parents", p>>} \cup Beams(rs)),
         Record("expand", Expand(p))>>
    \o (IF on = <<>> THEN <<Record("expand", Remap(p))>>
        ELSE <<Wait("copy", Expand(p)), Op("copy", {<<"parents", p>>}, Rows(on, lease)),
               Record("copy", Remap(p))>>)

\* The memory of a result is free again when the host drops it, for the next
\* forward, the streams that still read it or not (caching allocator).
FreeBlocks == Blocks \ {result[p] : p \in 0 .. Serial}

SLaunch ==
    /\ Launch
    /\ \E block \in FreeBlocks :
        /\ Run(LaunchCommands(current, Launched, block))
        /\ result' = [result EXCEPT ![current] = block]
    /\ at' = Slot(1)
    /\ UNCHANGED <<overlap, lease, epoch, forgotten>>

GoesOn(rs) == Only(rs, {r \in Reqs : left'[r] > 0})

\* A round of get_next that processes the pipe p.
Processes(p) ==
    LET rs == queue[SelectInSeq(queue, LAMBDA l : l.pid = p)].reqs IN
    /\ Run(ProcessCommands(p, rs, result[p], GoesOn(rs)))
    /\ result' = [result EXCEPT ![p] = None]
    /\ epoch' = [epoch EXCEPT !["exp_col_eager"] = 1 - @]
    /\ UNCHANGED <<overlap, lease, at, forgotten>>

\* (ProcessOldest needs a failure; failures are left to DecodePipeline.)
SProcessPicked == ProcessPicked /\ \E t \in Picks(Round.pipes) : Processes(t)

SSerialStep ==
    LET rs == Ordered(running) IN
    /\ SerialStep
    /\ \E block \in FreeBlocks :
        Run(LaunchCommands(Serial, rs, block) \o ProcessCommands(Serial, rs, block, GoesOn(rs)))
    /\ epoch' = [epoch EXCEPT !["exp_col_eager"] = 1 - @]
    /\ at' = Slot(1)
    /\ UNCHANGED <<overlap, lease, result, forgotten>>

\* Steps that issue nothing.
Idle == UNCHANGED <<overlap, gpu, lease, result, epoch, at, forgotten>>
SPrefillDone(r) == PrefillDone(r) /\ Idle
SStartSerial == StartSerial /\ Idle
SPickIdlePipe == PickIdlePipe /\ Idle
SNothingToLaunch == NothingToLaunch /\ Idle

\* _free_reqs, then the answers: _d2h_tensors copies the beams on the copy stream,
\* after the expand stream, and the host waits for it.
EventsOf(done) ==
    IF active THEN FlattenSeq([i \in 1 .. NPipes |->
                       IF ToSet(pipes[i - 1]) \cap ToSet(done) # {} THEN Stored(i - 1) ELSE <<>>])
    ELSE Stored(Serial)

CompleteCommands(done) ==
    LET s == IF active /\ overlap THEN "prefill" ELSE "default" IN
    WaitAll(s, EventsOf(done)) \o WaitAll("copy", EventsOf(done))
    \o <<Record("expand", ExpandNow), Wait("copy", ExpandNow), Op("copy", Beams(done), {}),
         Record("copy", CopyDone), Wait("host", CopyDone)>>

SRelease ==
    LET done == Only(running, Released) IN
    /\ Release
    /\ IF done = <<>> THEN UNCHANGED gpu ELSE Run(CompleteCommands(done))
    /\ lease' = [r \in Reqs |-> IF r \in Released THEN None ELSE lease[r]]
    /\ UNCHANGED <<overlap, result, epoch, at, forgotten>>

SNext ==
    \/ \E rs \in Batches : SPrefill(rs)
    \/ \E r \in Reqs : SPrefillDone(r)
    \/ SSync \/ SLaunch \/ SProcessPicked \/ SSerialStep \/ SRelease
    \/ SStartSerial \/ SPickIdlePipe \/ SNothingToLaunch

SSpec == SInit /\ [][SNext]_svars
-----------------------------------------------------------------------------
(* Properties. *)

\* A forward reads the beams, rows and KV its requests were left by the expand, the
\* remap and the prefill on the other streams, and slots that go to a new request
\* are no longer touched by the old one's work, wherever the events were waited
\* for and popped.
BeamsOrdered == ~forgotten => gpu.races \cap {"beams", "rows", "parents"} = {}

\* The same, also after the pipeline has materialized.  "expand/KV cannot overlap
\* the next forward of those beams" (pipeline.py).
BeamsAlwaysOrdered == gpu.races \cap {"beams", "rows", "parents"} = {}

\* A result that the host has dropped is not overwritten by the next forward while
\* the expand still reads it: no record_stream, yet the waits suffice.
ResultsOrdered == ~forgotten => "result" \notin gpu.races

\* "CPU must not refill this slot until the previous H2D that read it has
\* completed" (staging.py).
PinsOrdered == "pin" \notin gpu.races

\* The pins of the upload ring are refilled without a wait of their own: "the ring
\* gives reuse distance so a slot is not rewritten while its previous H2D may still
\* be in flight" (pool.py).  However far the device lags, what the host waits for
\* elsewhere, the staging and the completions, keeps it from lapping the ring.
RingNotLapped == "ringpin" \notin gpu.races
=============================================================================
