--------------------------- MODULE LaunchBuffers ---------------------------
(***************************************************************************)
(* The device buffers that decode launches share (engine/graph.py, the     *)
(* packing in the scheduler, the workspaces of kernel/beam_trie.py): the   *)
(* static tensors of a captured batch size, its two token planes, and the  *)
(* two planes of an eager fused expand.  A launch leaves its results in    *)
(* them, cloned or as views, and is processed later; between the two other *)
(* launches run.                                                           *)
(*                                                                         *)
(* A request is one block of beam_width rows.  The state of its beams is   *)
(* <<r, d>>: the tables (tokens, nodes, last tokens) of r after d steps.   *)
(* The actions follow the host, which is the order of each CUDA stream.    *)
(***************************************************************************)
EXTENDS Integers, Sequences, FiniteSets, SequencesExt, Selection

CONSTANTS
    Reqs,       \* the requests, 1 .. some number
    Modes       \* pipes (0: pipeline off), mixed (prefill while others decode),
                \* head ("codebook" or "full"), capture (of each configured size:
                \* "none", "plain", "single" or "pingpong"); gen (the decode
                \* steps each request needs) and sampled (those with a
                \* temperature: no fused expand for them)

ASSUME BuffersAssumption ==
    /\ IsFiniteSet(Reqs) /\ Reqs = 1 .. Cardinality(Reqs)
    /\ \A m \in Modes : m.pipes \in Nat /\ DOMAIN m.capture \subseteq Nat \ {0}
    /\ \A m \in Modes : \A r \in Reqs : m.gen[r] \in Nat \ {0}

VARIABLES
    mode,       \* of the engine, fixed
    status,     \* status[r]: new, running, finished (not yet released) or done
    depth,      \* depth[r]: results applied to r
    pipes,      \* pipes[p]: the requests of pipe p in order
    table,      \* table[r]: where the tables of r are
    mem,        \* contents of the shared buffers
    rows,       \* rows[b]: whose row each row of the inputs of size b holds
    dirty,      \* dirty[b]: dirty_rows
    phase,      \* phase[b]: exp_phase, the plane the next replay reads
    queue,      \* launches out, oldest first
    raised,     \* torch.stack refused to write over its inputs
    pc          \* "loop", "tick" or (pipeline off) "process"

inputs == <<rows, dirty>>
vars == <<mode, status, depth, pipes, table, mem, rows, dirty, phase, queue, raised, pc>>

Pipelined == mode.pipes > 0
PipeIds == 0 .. (IF Pipelined THEN mode.pipes - 1 ELSE 0)
Sizes == DOMAIN mode.capture
Captured == {b \in Sizes : mode.capture[b] # "none"}
Pad == 0
Junk == <<0, 0>>

-----------------------------------------------------------------------------
(* Buffers and views. *)

\* The tensor the model writes its output to.
Hidden(b) == <<"hidden", b, 0>>
\* exp_tok_in and exp_tok_out.
Plane(b, k) == <<"plane", b, k>>
\* The two planes of an eager expand, one pair per pipe; grown to their full
\* size at once.
WorkspaceShared(pid, k) == <<"ws", 0, k>>      \* mutant: one for all pipes
Workspace(pid, k) == <<"ws", pid, k>>
Places == {Hidden(b) : b \in Sizes} \cup {Plane(b, k) : b \in Sizes, k \in 0 .. 1}
            \cup {Workspace(p, k) : p \in PipeIds, k \in 0 .. 1}

Own(value) == [at |-> <<"own">>, row |-> 0, value |-> value]
View(place, i) == [at |-> place, row |-> i, value |-> Junk]
Deref(m, ref) == IF ref.at = <<"own">> THEN ref.value ELSE m[ref.at][ref.row]

\* Values put into the first rows of a buffer.
Put(m, place, values) ==
    [m EXCEPT ![place] = [i \in DOMAIN @ |-> IF i \in DOMAIN values THEN values[i] ELSE @[i]]]

\* The expand of a row's tables by the forward's result for a row.
Expand(result, tables) ==
    IF result = tables /\ tables # Junk THEN <<tables[1], tables[2] + 1>> ELSE Junk

\* pad_bs: the next captured size, those that failed to capture are skipped.
Bucket(n) ==
    IF \E b \in Captured : b >= n
    THEN CHOOSE b \in Captured : b >= n /\ \A c \in Captured : c >= n => b <= c
    ELSE 0

Running == {r \in Reqs : status[r] = "running"}
Inflight(pid) == \E k \in DOMAIN queue : queue[k].pid = pid
FreePipes == {p \in PipeIds : ~Inflight(p)}
Live(pid) == Only(pipes[pid], Running)

\* _ordered_live: groups of equal depth, in the order of their first members.
Groups(rs) ==
    LET firsts == Only([i \in DOMAIN rs |-> i],
                       {i \in DOMAIN rs : \A j \in 1 .. i - 1 : depth[rs[j]] # depth[rs[i]]})
    IN  [g \in DOMAIN firsts |-> Only(rs, {r \in Reqs : depth[r] = depth[rs[firsts[g]]]})]

Ordered(pid) == FlattenSeq(Groups(Live(pid)))
NRows(pid) == Cardinality({r \in Running : r \in Range(pipes[pid])})

Init ==
    /\ mode \in Modes
    /\ status = [r \in Reqs |-> "new"]
    /\ depth = [r \in Reqs |-> 0]
    /\ pipes = [p \in PipeIds |-> <<>>]
    /\ table = [r \in Reqs |-> Own(Junk)]
    /\ mem = [place \in Places |-> [i \in 1 .. Cardinality(Reqs) |-> Junk]]
    /\ rows = [b \in Sizes |-> [i \in 1 .. b |-> Pad]]
    /\ dirty = [b \in Sizes |-> b]
    /\ phase = [b \in Sizes |-> 0]
    /\ queue = <<>>
    /\ raised = FALSE
    /\ pc = "loop"

-----------------------------------------------------------------------------
(* The loop between two ticks. *)

\* Finished requests are answered and freed; new ones are prefilled, with tables
\* of their own.  Without mixed they wait for an empty engine.
LoopTurn ==
    /\ pc = "loop" /\ ~raised
    /\ \E new \in SUBSET {r \in Reqs : status[r] = "new"} :
        /\ new \cup Running # {}
        /\ new # {} => (mode.mixed \/ Running = {}) /\ FreePipes # {}
        /\ pipes' = Spread([p \in PipeIds |-> Live(p)], FreePipes,
                           Only([i \in 1 .. Cardinality(Reqs) |-> i], new))
        /\ status' = [r \in Reqs |-> IF r \in new THEN "running"
                                     ELSE IF status[r] = "finished" THEN "done" ELSE status[r]]
        /\ table' = [r \in Reqs |-> IF r \in new THEN Own(<<r, 0>>)
                                    ELSE IF status[r] = "finished" THEN Own(Junk) ELSE table[r]]
    /\ pc' = "tick"
    /\ UNCHANGED <<mode, depth, mem, inputs, phase, queue, raised>>

-----------------------------------------------------------------------------
(* A launch: the forward of a pipe, eager or as a replay. *)

\* (mutant of Written: the rows of a shrunk batch are not cleaned)
WrittenOnly(b, rs, n) == [i \in 1 .. b |-> IF i <= n THEN rs[i] ELSE rows[b][i]]

\* The inputs of a replay: the n rows of rs, and pads where the last batch was longer.
Written(b, rs, n) ==
    [i \in 1 .. b |-> IF i <= n THEN rs[i]
                      ELSE IF n < b /\ i <= dirty[b] THEN Pad ELSE rows[b][i]]

Inputs(b, rs, n) ==
    /\ rows' = [rows EXCEPT ![b] = Written(b, rs, n)]
    /\ dirty' = [dirty EXCEPT ![b] = n]

Results(rs) == [i \in DOMAIN rs |-> Deref(mem, table[rs[i]])]
Copies(values) == [i \in DOMAIN values |-> Own(values[i])]
Views(place, n) == [i \in 1 .. n |-> View(place, i)]

Enqueue(pid, rs, out, fused) ==
    /\ queue' = Append(queue, [pid |-> pid, reqs |-> rs, out |-> out, fused |-> fused])
    /\ pc' = IF Pipelined THEN "loop" ELSE "process"

CanLaunch(pid) == pc = "tick" /\ ~raised /\ ~Inflight(pid) /\ Live(pid) # <<>>

\* _can_graph_expand
WantsExpand(rs, b) ==
    /\ b # 0 /\ mode.capture[b] \in {"single", "pingpong"}
    /\ \A i \in DOMAIN rs : rs[i] \notin mode.sampled

\* No size is large enough.
LaunchEager(pid) ==
    LET rs == Ordered(pid) IN
    /\ CanLaunch(pid) /\ Bucket(NRows(pid)) = 0
    /\ Enqueue(pid, rs, Copies(Results(rs)), FALSE)
    /\ UNCHANGED <<mode, status, depth, pipes, table, mem, inputs, phase, raised>>

\* (mutant of Output: the logprobs are not cloned)
OutputUncloned(b, values) == Views(Hidden(b), Len(values))

\* The result of a replay: the hidden states as they lie, or a clone of the logprobs.
Output(b, values) ==
    IF mode.head = "codebook" THEN Views(Hidden(b), Len(values)) ELSE Copies(values)

LaunchPlain(pid) ==
    LET rs == Ordered(pid)
        b == Bucket(NRows(pid))
    IN  /\ CanLaunch(pid) /\ b # 0 /\ ~WantsExpand(rs, b)
        /\ Inputs(b, rs, NRows(pid))
        /\ mem' = Put(mem, Hidden(b), Results(rs))
        /\ Enqueue(pid, rs, Output(b, Results(rs)), FALSE)
        /\ UNCHANGED <<mode, status, depth, pipes, table, phase, raised>>

PingPong(b) == mode.capture[b] = "pingpong"
Source(b) == Plane(b, IF PingPong(b) THEN phase[b] ELSE 0)
Target(b) == Plane(b, IF PingPong(b) THEN 1 - phase[b] ELSE 1)

\* (mutant of Aligned: rows are packed each time)
AlignedNever(m, t, rs, place) == FALSE

\* rows_alias_stack: the rows are those of the buffer already, in order.
Aligned(m, t, rs, place) == \A i \in DOMAIN rs : t[rs[i]] = View(place, i)

\* torch.stack with out= raises when an input lies in the rows it writes.
Overlaps(rs, place) ==
    /\ ~Aligned(mem, table, rs, place)
    /\ \E i \in DOMAIN rs : table[rs[i]].at = place /\ table[rs[i]].row <= Len(rs)

\* _detach_plane_aliases: tables of other live requests that lie in the plane to
\* be written are cloned.  Only the pipes are searched.
Detached(rs, place) ==
    [r \in Reqs |->
        IF Pipelined /\ status[r] = "running" /\ r \notin Range(rs) /\ table[r].at = place
        THEN Own(Deref(mem, table[r])) ELSE table[r]]

\* _clone_fused: views of the plane, for two requests or more.
Stolen(b, n) == PingPong(b) /\ n >= 2

\* _pack_graph_expand and the replay of the graph with the expand in it.
LaunchExpand(pid) ==
    LET rs == Ordered(pid)
        n == NRows(pid)
        b == Bucket(n)
    IN  /\ CanLaunch(pid) /\ WantsExpand(rs, b) /\ ~Overlaps(rs, Source(b))
        /\ Inputs(b, rs, n)
        /\ table' = Detached(rs, Target(b))
        /\ LET packed == Put(mem, Source(b), Results(rs))
               expanded == [i \in DOMAIN rs |-> Expand(Results(rs)[i], packed[Source(b)][i])]
           IN  /\ mem' = Put(packed, Target(b), expanded)
               /\ Enqueue(pid, rs, IF Stolen(b, n) THEN Views(Target(b), n) ELSE Copies(expanded),
                          TRUE)
        /\ phase' = IF PingPong(b) THEN [phase EXCEPT ![b] = 1 - @] ELSE phase
        /\ UNCHANGED <<mode, status, depth, pipes, raised>>

PackRaises(pid) ==
    LET rs == Ordered(pid)
        b == Bucket(NRows(pid))
    IN  /\ CanLaunch(pid) /\ WantsExpand(rs, b) /\ Overlaps(rs, Source(b))
        /\ raised' = TRUE
        /\ UNCHANGED <<mode, status, depth, pipes, table, mem, inputs, phase, queue, pc>>

\* get_next has no pipe to launch.
NoLaunch ==
    /\ pc = "tick" /\ ~raised /\ Pipelined
    /\ \A p \in PipeIds : Inflight(p) \/ Live(p) = <<>>
    /\ pc' = "loop"
    /\ UNCHANGED <<mode, status, depth, pipes, table, mem, inputs, phase, queue, raised>>

-----------------------------------------------------------------------------
(* Processing a launch: the result's tables become those of the requests. *)

\* The tables t of g are copied into the rows of src one by one.
Packing(m, t, g, src) ==
    FoldLeft(LAMBDA x, i : [x EXCEPT ![src][i] = Deref(x, t[g[i]])], m, [i \in DOMAIN g |-> i])

\* _expand_fused for the group g of a launch of pid, st is [table, mem]:
\* pick_pingpong_stack packs rows one by one unless one plane holds them all, and
\* the other plane is written.
ExpandFused(st, pid, g, results) ==
    LET a == Workspace(pid, 0)
        b == Workspace(pid, 1)
        inB == ~Aligned(st.mem, st.table, g, a) /\ Aligned(st.mem, st.table, g, b)
        src == IF inB THEN b ELSE a
        dst == IF inB THEN a ELSE b
        packed == IF Aligned(st.mem, st.table, g, src) THEN st.mem
                  ELSE Packing(st.mem, st.table, g, src)
        expanded == [i \in DOMAIN g |->
                        Expand(Deref(packed, results[i]), packed[src][i])]
        Place(r) == CHOOSE i \in DOMAIN g : g[i] = r
    IN  [mem |-> Put(packed, dst, expanded),
         table |-> [r \in Reqs |-> IF r \in Range(g) THEN View(dst, Place(r)) ELSE st.table[r]]]

\* The eager step of each request of a group: new tensors.
ExpandSingly(st, g, results) ==
    LET Place(r) == CHOOSE i \in DOMAIN g : g[i] = r IN
    [st EXCEPT !.table = [r \in Reqs |->
        IF r \notin Range(g) THEN st.table[r]
        ELSE Own(Expand(Deref(st.mem, results[Place(r)]), Deref(st.mem, st.table[r])))]]

\* _expand_groups: each group has its slice of the rows.
ExpandGroups(launch) ==
    LET groups == Groups(launch.reqs)
        Before(k) == Len(FlattenSeq(SubSeq(groups, 1, k - 1)))
        Slice(k) == SubSeq(launch.out, Before(k) + 1, Before(k) + Len(groups[k]))
        Step(st, k) ==
            IF \A i \in DOMAIN groups[k] : groups[k][i] \notin mode.sampled
            THEN ExpandFused(st, launch.pid, groups[k], Slice(k))
            ELSE ExpandSingly(st, groups[k], Slice(k))
    IN  FoldLeft(Step, [table |-> table, mem |-> mem], [k \in DOMAIN groups |-> k])

\* _apply_fused: the tables are where the replay left them.
ApplyFused(launch) ==
    LET Place(r) == CHOOSE i \in DOMAIN launch.reqs : launch.reqs[i] = r IN
    [mem |-> mem,
     table |-> [r \in Reqs |->
        IF r \in Range(launch.reqs) THEN launch.out[Place(r)] ELSE table[r]]]

Process ==
    /\ pc = (IF Pipelined THEN "tick" ELSE "process") /\ ~raised /\ queue # <<>>
    /\ LET launch == Head(queue)
           st == IF launch.fused THEN ApplyFused(launch) ELSE ExpandGroups(launch)
           stepped == [r \in Reqs |-> depth[r] + (IF r \in Range(launch.reqs) THEN 1 ELSE 0)]
       IN  /\ table' = st.table /\ mem' = st.mem
           /\ depth' = stepped
           /\ status' = [r \in Reqs |-> IF r \in Range(launch.reqs) /\ stepped[r] >= mode.gen[r]
                                        THEN "finished" ELSE status[r]]
    /\ queue' = Tail(queue)
    /\ pc' = IF Pipelined THEN pc ELSE "loop"
    /\ UNCHANGED <<mode, pipes, inputs, phase, raised>>

Next ==
    \/ LoopTurn \/ NoLaunch \/ Process
    \/ \E p \in PipeIds : LaunchEager(p) \/ LaunchPlain(p) \/ LaunchExpand(p) \/ PackRaises(p)

Spec == Init /\ [][Next]_vars
-----------------------------------------------------------------------------
(* What sharing the buffers must not change. *)

\* A result that waits to be processed is still the one of its own forward, though
\* launches of other pipes have replayed the same graph: "Outputs that later
\* kernels/CPU still need are cloned so two pipes that pad to the same bs do not
\* clobber each other" (engine/graph.py).
ResultsOwn ==
    \A k \in DOMAIN queue : \A i \in DOMAIN queue[k].reqs :
        LET r == queue[k].reqs[i] IN
        Deref(mem, queue[k].out[i]) = <<r, IF queue[k].fused THEN depth[r] + 1 ELSE depth[r]>>

\* The tables of a request are its own and up to date, until it has been answered,
\* wherever they lie: "Callers that keep the returned token_ids / node_ids and pass
\* them back on the next step" (kernel/beam_trie.py) find them as they were.
TablesOwn ==
    \A r \in Reqs :
        status[r] \in {"running", "finished"} => Deref(mem, table[r]) = <<r, depth[r]>>

\* As long as the requests of a wave start and end together, no pack writes over
\* the rows it reads: the rows a replay left are exactly those the next one finds.
Steady == ~mode.mixed /\ \A r, q \in Reqs : mode.gen[r] = mode.gen[q]
PacksCleanly == Steady => ~raised

\* "rows past dirty_rows still hold pad values from a previous replay or from
\* capture" (replay): a pad row never carries a request's slot into the graph,
\* which writes KV to it.
RowsPadded == \A b \in Sizes : \A i \in 1 .. b : i > dirty[b] => rows[b][i] = Pad
=============================================================================
