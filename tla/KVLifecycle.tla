----------------------------- MODULE KVLifecycle -----------------------------
(***************************************************************************)
(* Who owns a physical KV slot: the life of requests from prefill to       *)
(* release (scheduler/scheduler.py), over the slot and row pools           *)
(* (kvcache/pool.py, engine/engine.py) and the prefix cache.               *)
(*                                                                         *)
(* The one worker thread does all of it.  A step is one allocation point:  *)
(* within a prefill batch a request's match, the evictions of the requests *)
(* after it, and its lock are separate steps, in that order.  The cache    *)
(* evicts by the specification LRUCache, which PrefixCache implements.     *)
(*                                                                         *)
(* A slot's content says whose KV was last stored there: of a token path   *)
(* (step 0), or of a decode step past a prompt.                            *)
(***************************************************************************)
EXTENDS RadixTree, Selection, Functions

CONSTANTS
    Reqs,       \* the requests, each served once
    Limit,      \* Limit[r]: generation_token_limit, at least 1
    Width,      \* Width[r]: beam_width
    Setups,     \* the deployments considered, records with the fields
                \*   prompt   prompt[r]: input_ids, nonempty
                \*   pinned   the shared prefix that warmup pins, <<>> for none
                \*   slots    KV slots, the dummy slot 0 left out
                \*   rows     rows of the request table, the dummy row 0 left out
                \*   cap      cap: 49152 cached tokens in the code
    MaxIns,     \* max_ins: 128 in the code
    EvictBatch, \* 4096: tokens to evict when an allocation falls short
    CapBatch    \* 512: tokens a completion evicts at most

ASSUME ParametersAssumption ==
    /\ IsFiniteSet(Reqs)
    /\ \A r \in Reqs : {Limit[r], Width[r]} \subseteq Nat \ {0}
    /\ \A s \in Setups :
         /\ \A r \in Reqs : s.prompt[r] \in Seq(Nat) \ {<<>>}
         /\ s.pinned \in Seq(Nat)
         /\ Len(s.pinned) # 1     \* warmup_shared_prefix: too short
         /\ {s.slots, s.rows, s.cap} \subseteq Nat
    /\ MaxIns \in Nat \ {0}
    /\ {EvictBatch, CapBatch} \subseteq Nat

VARIABLES
    setup,      \* the deployment and what it is asked, fixed from the start
    free,       \* TokenToKVPool._free
    free_rows,  \* ReqToTokenPool._free
    tree,       \* the prefix cache
    clock,      \* its _clock
    content,    \* content[s]: the KV in slot s
    req,        \* the requests' fields
    batch,      \* the requests of the prefill batch still to be matched
    prepared,   \* those matched, in order; `prepared`
    stage       \* where the worker is: "warmup", "idle", "match", "wave", "each"

vars == <<setup, free, free_rows, tree, clock, content, req, batch, prepared, stage>>

Prompt == setup.prompt
Pinned == setup.pinned
NumSlots == setup.slots
NumRows == setup.rows
Cap == setup.cap

Lesser(a, b) == IF a < b THEN a ELSE b
Greater(a, b) == IF a > b THEN a ELSE b
Upto(s, n) == SubSeq(s, 1, n)
From(s, n) == SubSeq(s, n, Len(s))

KV(path, step) == [path |-> path, step |-> step]

\* The fields of a BeamRequest that name resources.
NewReq == [phase |-> "new", hit |-> 0, full |-> <<>>, locked |-> <<>>,
           owned |-> <<>>, row |-> <<>>, beams |-> <<>>, steps |-> 0]

In(phase) == {r \in Reqs : req[r].phase = phase}

\* (mutant: alloc leaves the first of the slots it hands out in the list)
RestOffByOne(pool, n) == Upto(pool, Lesser(Len(pool), Len(pool) - n + 1))

AllSlots == [i \in 1 .. NumSlots |-> i]

\* alloc takes the last n of the free list.
Room(pool, n) == n <= Len(pool)
Taken(pool, n) == From(pool, Len(pool) - n + 1)
Rest(pool, n) == Upto(pool, Len(pool) - n)

\* One round of evict on a tree and the slots freed so far: one LRU leaf goes.
EvictOne(x) ==
    LET victims == {q \in DOMAIN x.tree : IsLRU(x.tree, q)}
    IN  IF victims = {} THEN {x}
        ELSE {[tree |-> RemoveLeaf(x.tree, q), freed |-> Append(x.freed, x.tree[q].kv)]
                : q \in victims}

\* evict(n) on the tree t: the trees it may leave, with the slots it frees in
\* order.
Evictions(t, n) ==
    LET After[k \in 0 .. Cardinality(DOMAIN t)] ==
            IF k = 0 THEN {[tree |-> t, freed |-> <<>>]}
            ELSE UNION {EvictOne(x) : x \in After[k - 1]}
    IN  After[Lesser(n, Cardinality(DOMAIN t))]

\* alloc_tokens(n): if the pool is short, evict a batch and try again.
Shortfall(t, n) == Greater(n, Lesser(EvictBatch, Cardinality(DOMAIN t)))

AfterEvict(t, n) ==
    IF Room(free, n) THEN {[tree |-> t, freed |-> <<>>]}
    ELSE Evictions(t, Shortfall(t, n))

Init ==
    /\ setup \in Setups
    /\ free = AllSlots
    /\ free_rows = [i \in 1 .. NumRows |-> i]
    /\ tree = EmptyTree
    /\ clock = 0
    /\ content = [s \in 1 .. NumSlots |-> KV(<<>>, 0)]
    /\ req = [r \in Reqs |-> NewReq]
    /\ batch = <<>>
    /\ prepared = <<>>
    /\ stage = "warmup"

\* A forward's writes: the KV w.kv into the slot w.slot.  Two writes are into
\* one slot only if it was allocated twice (SlotsAccounted).
Store(c, writes) ==
    [s \in DOMAIN c |->
        IF \E w \in writes : w.slot = s
        THEN (CHOOSE w \in writes : w.slot = s).kv
        ELSE c[s]]

\* The prompt's KV from position `from` on, into the slots kvs.
PromptWrites(p, kvs, from) ==
    {[slot |-> kvs[i], kv |-> KV(Pre(p, i), 0)] : i \in from .. Len(p)}

\* fill_prefix_kv before serving starts: prefill the shared prefix, insert it
\* and lock it for good.  The cache is empty, so no slot is a duplicate; the
\* row is taken and given back.
WarmupPin ==
    LET n == Len(Pinned)
        kvs == Taken(free, n)
    IN  /\ stage = "warmup"
        /\ stage' = "idle"
        /\ IF n = 0 \/ ~Room(free, n)
           THEN UNCHANGED <<free, tree, clock, content>>
           ELSE /\ free' = Rest(free, n)
                /\ content' = Store(content, PromptWrites(Pinned, kvs, 1))
                /\ tree' = Lock(Insert(tree, Pinned, kvs, clock + 1), Pinned)
                /\ clock' = clock + 1
        /\ UNCHANGED <<free_rows, req, batch, prepared>>

\* take_prefill_batch hands some waiting requests to _prefill_batch.
StartPrefill(rs) ==
    /\ stage = "idle"
    /\ In("finished") = {}
    /\ stage' = "match"
    /\ batch' = rs
    /\ UNCHANGED <<free, free_rows, tree, clock, content, req, prepared>>

\* An allocation raises: the worker forgets every request in its hands
\* (_run_worker) and goes on.  What they hold is never given back.
GiveUp(rq) ==
    /\ req' = [r \in Reqs |->
                 IF rq[r].phase \in {"matched", "running", "finished"} \/ r \in ToSet(batch)
                 THEN [rq[r] EXCEPT !.phase = "dropped"] ELSE rq[r]]
    /\ batch' = <<>>
    /\ prepared' = <<>>
    /\ stage' = "idle"

\* _match_prefix looks up all but the last prompt token.
Looked(p) == IF Len(p) > 1 THEN Upto(p, Len(p) - 1) ELSE <<>>

\* The loop of _prefill_batch: match without locking, then allocate the
\* suffix, evicting if need be, and a row.
MatchAndAlloc ==
    LET r == Head(batch)
        p == Prompt[r]
        now == IF Looked(p) # <<>> THEN clock + 1 ELSE clock
        hits == MatchKV(tree, Looked(p))
        n == Len(p) - Len(hits)
    IN  /\ stage = "match"
        /\ batch # <<>>
        /\ clock' = now
        /\ UNCHANGED content
        /\ \E e \in AfterEvict(Touch(tree, Looked(p), now), n) :
             LET pool == free \o e.freed
                 rq == [req EXCEPT ![r].phase = "matched", ![r].hit = Len(hits),
                                   ![r].full = hits \o Taken(pool, n)]
             IN /\ tree' = e.tree
                /\ free' = IF Room(pool, n) THEN Rest(pool, n) ELSE pool
                /\ \/ /\ Room(pool, n) /\ Room(free_rows, 1)
                      /\ free_rows' = Rest(free_rows, 1)
                      /\ req' = [rq EXCEPT ![r].row = Taken(free_rows, 1)]
                      /\ batch' = Tail(batch)
                      /\ prepared' = Append(prepared, r)
                      /\ UNCHANGED stage
                   \/ /\ ~(Room(pool, n) /\ Room(free_rows, 1))
                      /\ GiveUp(IF Room(pool, n) THEN rq ELSE req)
                      /\ UNCHANGED free_rows

\* The prefill forward stores the KV of every suffix.
SuffixKV(r) == PromptWrites(Prompt[r], req[r].full, req[r].hit + 1)

\* _init_wave_precompute takes a wave of alike requests that all have to decode.
Homogeneous ==
    \A r, q \in ToSet(prepared) :
        Limit[r] > 1 /\ Width[r] = Width[q] /\ Limit[r] = Limit[q]

PrefillForward ==
    /\ stage = "match"
    /\ batch = <<>>
    /\ content' = Store(content, UNION {SuffixKV(r) : r \in ToSet(prepared)})
    /\ stage' = IF Homogeneous THEN "wave" ELSE "each"
    /\ UNCHANGED <<free, free_rows, tree, clock, req, batch, prepared>>

\* r's part of an allocation of Width[q] for each q in the sequence rs.
Total(rs) == FoldLeft(LAMBDA a, b : a + b, 0, [i \in 1 .. Len(rs) |-> Width[rs[i]]])

Share(loc, rs, r) ==
    LET before == Total(Upto(rs, CHOOSE k \in 0 .. Len(rs) - 1 : rs[k + 1] = r))
    IN  SubSeq(loc, before + 1, before + Width[r])

\* The path _init_after_prefill locks (LockedPathNone, a mutant: nothing).
LockedPathNone(r) == <<>>

LockedPath(r) == Upto(Prompt[r], req[r].hit)

\* The wave's beam rows are allocated at once, then _init_after_prefill locks
\* each request's hit, one after the other.
LockHits(t, rs) ==
    [q \in DOMAIN t |->
        [t[q] EXCEPT !.lock = @ + Cardinality({r \in rs : q \in Walk(t, LockedPath(r))})]]

InitWave ==
    LET n == Total(prepared)
    IN  /\ stage = "wave"
        /\ \/ /\ Room(free_rows, n)
              /\ free_rows' = Rest(free_rows, n)
              /\ tree' = LockHits(tree, ToSet(prepared))
              /\ req' = [r \in Reqs |->
                    IF r \notin ToSet(prepared) THEN req[r]
                    ELSE [req[r] EXCEPT !.phase = "running", !.locked = LockedPath(r),
                                        !.beams = Share(Taken(free_rows, n), prepared, r)]]
              /\ prepared' = <<>>
              /\ stage' = "idle"
              /\ UNCHANGED batch
           \/ ~Room(free_rows, n) /\ GiveUp(req) /\ UNCHANGED <<free_rows, tree>>
        /\ UNCHANGED <<free, clock, content>>

\* _init_after_prefill for one request of any other wave: lock the hit; a
\* request that wants one token is finished, another takes its beam rows.
InitOne ==
    LET r == Head(prepared)
        done == Limit[r] <= 1
        bw == IF done THEN 0 ELSE Width[r]
        rq == [req EXCEPT ![r].locked = LockedPath(r)]
    IN  /\ stage = "each"
        /\ tree' = Lock(tree, LockedPath(r))
        /\ \/ /\ Room(free_rows, bw)
              /\ free_rows' = Rest(free_rows, bw)
              /\ req' = [rq EXCEPT ![r].phase = IF done THEN "finished" ELSE "running",
                                   ![r].beams = Taken(free_rows, bw)]
              /\ prepared' = Tail(prepared)
              /\ stage' = IF Len(prepared) = 1 THEN "idle" ELSE stage
              /\ UNCHANGED batch
           \/ ~Room(free_rows, bw) /\ GiveUp(rq) /\ UNCHANGED free_rows
        /\ UNCHANGED <<free, clock, content>>

\* A decode step writes the KV of r's beams into the slots they were given.
StepKV(r, slots) == {[slot |-> s, kv |-> KV(Prompt[r], req[r].steps + 1)] : s \in ToSet(slots)}

\* _forward_decode on some of the running requests (all, or a pipeline's
\* bucket): a slot for every beam, recorded as owned and written; a request
\* that has all its tokens is finished.
Decode(S) ==
    LET rs == SetToSeq(S)
        n == Total(rs)
    IN  /\ stage = "idle"
        /\ In("finished") = {}
        /\ \E e \in AfterEvict(tree, n) :
             LET pool == free \o e.freed
                 loc == Taken(pool, n)
             IN /\ tree' = e.tree
                /\ \/ /\ Room(pool, n)
                      /\ free' = Rest(pool, n)
                      /\ req' = [r \in Reqs |->
                            IF r \notin S THEN req[r]
                            ELSE [req[r] EXCEPT
                                    !.owned = @ \o Share(loc, rs, r),
                                    !.steps = @ + 1,
                                    !.phase = IF req[r].steps + 2 >= Limit[r]
                                              THEN "finished" ELSE @]]
                      /\ content' = Store(content, UNION {StepKV(r, Share(loc, rs, r)) : r \in S})
                      /\ UNCHANGED <<batch, prepared, stage>>
                   \/ /\ ~Room(pool, n)
                      /\ free' = pool
                      /\ GiveUp(req)
                      /\ UNCHANGED content
        /\ UNCHANGED <<free_rows, clock>>

\* _radix_cache_finished: unlock the hit, insert the prompt but for its last
\* token and at most max_ins tokens of it, evict what exceeds the cap, and give
\* back the slots the tree did not take.
\* (InsertedAll, a mutant: max_ins bounds what is freed and not what is inserted)
InsertedAll(p) == Upto(p, Len(p) - 1)

Inserted(p) == Upto(p, Lesser(Len(p) - 1, MaxIns))

\* (mutant of NotTaken: the slots that duplicate the tree's are not freed; of
\* OverCap: extra is taken before the insert)
NotTakenNoDups(t, r) ==
    <<req[r].full[Len(req[r].full)]>> \o SubSeq(req[r].full, MaxIns + 1, Len(req[r].full) - 1)

OverCapBefore(t) == Cardinality(DOMAIN tree) - Cap

\* The positions where the tree has another slot than the request.
Duplicated(t, r) ==
    LET ins == Inserted(Prompt[r])
    IN  Only([i \in 1 .. Len(ins) |-> i],
             {i \in 1 .. Len(ins) : req[r].full[i] # Canonical(t, ins)[i]})

NotTaken(t, r) ==
    LET full == req[r].full
        dup == Duplicated(t, r)
    IN  <<full[Len(full)]>> \o SubSeq(full, MaxIns + 1, Len(full) - 1)
          \o [k \in 1 .. Len(dup) |-> full[dup[k]]]

OverCap(t) == Cardinality(DOMAIN t) - Cap

RowsOf(r) == req[r].row \o req[r].beams

Finish(r) ==
    LET p == Prompt[r]
        back == free \o req[r].owned
        t == Insert(Unlock(tree, req[r].locked), Inserted(p), req[r].full, clock + 1)
    IN  /\ stage = "idle"
        /\ req[r].phase = "finished"
        /\ \/ /\ Len(p) < 2
              /\ free' = back \o req[r].full
              /\ UNCHANGED <<tree, clock>>
           \/ /\ Len(p) >= 2
              /\ clock' = clock + 1
              /\ \E e \in Evictions(t, Lesser(Greater(OverCap(t), 0), CapBatch)) :
                    tree' = e.tree /\ free' = back \o e.freed \o NotTaken(t, r)
        /\ free_rows' = free_rows \o RowsOf(r)
        /\ req' = [req EXCEPT ![r] = [NewReq EXCEPT !.phase = "done"]]
        /\ UNCHANGED <<content, batch, prepared, stage>>

Step ==
    \/ WarmupPin
    \/ \E rs \in SetToAllKPermutations(In("new")) \ {<<>>} : StartPrefill(rs)
    \/ MatchAndAlloc
    \/ PrefillForward
    \/ InitWave
    \/ InitOne
    \/ \E S \in SUBSET In("running") \ {{}} : Decode(S)
    \/ \E r \in Reqs : Finish(r)

Next == Step /\ UNCHANGED setup

Spec == Init /\ [][Next]_vars

-----------------------------------------------------------------------------
SlotIds == 1 .. NumSlots

\* The slots a request has to itself: its suffix and its decode slots.
Own(r) == From(req[r].full, req[r].hit + 1) \o req[r].owned

Cached == {tree[q].kv : q \in DOMAIN tree}

\* Each of all is in the list pool, in the list of one request or in others, and
\* there once.
OnceEach(pool, lists, others, all) ==
    /\ IsInjective(pool)
    /\ ToSet(pool) \cap others = {}
    /\ \A r \in Reqs : IsInjective(lists[r]) /\ ToSet(lists[r]) \cap (ToSet(pool) \cup others) = {}
    /\ \A r, q \in Reqs : r # q => ToSet(lists[r]) \cap ToSet(lists[q]) = {}
    /\ ToSet(pool) \cup others \cup UNION {ToSet(lists[r]) : r \in Reqs} = all

\* No KV slot is lost, freed twice or handed to two owners: every slot is in the
\* free list, in one tree node or with one request, and there once; a dropped
\* request keeps what it had (pool.py:103-119, scheduler.py:1610-1681).
SlotsAccounted ==
    /\ OnceEach(free, [r \in Reqs |-> Own(r)], Cached, SlotIds)
    /\ \A q, u \in DOMAIN tree : tree[q].kv = tree[u].kv => q = u

\* The same for the rows of the request table (pool.py:159-182).
RowsAccounted == OnceEach(free_rows, [r \in Reqs |-> RowsOf(r)], {}, 1 .. NumRows)

\* Nothing the pools hand out is lost, given back twice or shared, whatever path
\* a request leaves by.
ResourcesAccounted == SlotsAccounted /\ RowsAccounted

\* What a request reads as its prompt is the KV of its own prompt, for as long
\* as it decodes (scheduler.py:667-764, engine.py:235-274).
PromptKVIntact ==
    \A r \in In("running") : \A i \in 1 .. Len(Prompt[r]) :
        content[req[r].full[i]] = KV(Pre(Prompt[r], i), 0)

\* A prefix hit serves the KV of the tokens it was looked up by: no cached slot
\* is overwritten while it is in the tree (warmup.py:3, radix.py:1-5).
CacheServesItsTokens == \A q \in DOMAIN tree : content[tree[q].kv] = KV(q, 0)

\* "refcount via lock so live requests are not evicted" (radix.py:4): the matched
\* prefix of a running request is in the tree, on the slots it was given.
LiveNotEvicted ==
    \A r \in In("running") : \A i \in 1 .. req[r].hit :
        /\ Pre(Prompt[r], i) \in DOMAIN tree
        /\ tree[Pre(Prompt[r], i)].kv = req[r].full[i]

\* "a bounded evict per completion keeps up" (scheduler.py:1646): a completion
\* never leaves the cache above the cap and larger than before, unless
\* everything in it is in use.
CapKeepsUp ==
    [][\A r \in Reqs : req[r].phase = "finished" /\ req'[r].phase = "done" =>
          \/ Cardinality(DOMAIN tree') <= Greater(Cap, Cardinality(DOMAIN tree))
          \/ EvictableNodes(tree') = {}]_vars
=============================================================================
