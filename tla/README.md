# A TLA+ model of FlashRec

FlashRec serves generative-retrieval requests: a prompt, a beam width `n`, and an
answer of `n` semantic IDs (SIDs), short token sequences constrained by a trie of
catalog items. One process holds the HTTP server, the scheduler and the GPU.
These modules model it from the HTTP handler to the ranked answer: who owns which
KV slot, which request is decoded when, what the streams and shared buffers of the
device hold meanwhile, which beams a search keeps, and which answer reaches which
client. Paths below are relative
to `src/python/flashrec/`.

## The system

Three kinds of threads run: the event loop (HTTP handlers), a host pool
(tokenization), and one worker, which owns the engine and everything under it.
On the GPU, forwards run on the default stream, expand, KV remap and prefill on
streams of their own, ordered by events.

| Component | State | Operations | Correct if |
|---|---|---|---|
| Prefix cache, `kvcache/radix.py` | trie of nodes (slot, lock count, last access), set of evictable leaves, lazy LRU heap, token count | `match`, `insert`, `lock`, `unlock`, `evict` | locked paths stay; the set, the heap and the count never drift from the trie; `evict` takes the least recently used and all it can; no slot is lost |
| Pools, `kvcache/pool.py` | free lists of KV slots and of rows of the request table, upload ring | `alloc`, `free`, `upload` | every slot and row has one owner; no pin is refilled under a copy |
| Request lifecycle, `scheduler/scheduler.py`, `engine/engine.py` | a request's prefix hit, slots, rows, locked path | prefill batch, decode step, completion, warmup pin | a request reads its own prompt's KV, a prefix hit serves the tokens it was looked up by, everything comes back |
| Decode pipeline, `scheduler/pipeline.py` | buckets of requests, queue of launches, pending and held prefills, wave cache | sync with the running set, `get_next`, launch, process | each request in one place, one forward out per request, freed only when none is out, decode KV in consecutive columns, nobody starves |
| Inflight loop and policy, `scheduler/loop.py`, `scheduler/batching.py` | waiting and running requests | `run_burst`, `wants_prefill`, `take_prefill_batch`, admission | the beam rows stay within the slot budget |
| Server, `server/api.py` | queue, jobs and futures, jobs by request id | queue, tokenize, select, submit, answer, fail | every job is answered once |
| Item trie, `search/trie.py` | dense tables, or CSR edge keys, or allowlists | build, mask, advance, resolve | allows at each node what the catalog does |
| Beam search, `search/` | tokens, cumulative scores, trie nodes and KV rows of the beams | init, expand (fused or eager), select, remap, finalize | live beams are legal and scored right; the best are kept |
| Kernels, `kernel/` | the same in device memory, two planes per workspace | fused mask, top-k, advance | agree with `search/`; no plane is overwritten while it is read |
| Graphs, `engine/graph.py` | captured sizes with static inputs, outputs and token planes | pad, write inputs, replay, clone or hand out views | no result is overwritten before it is processed; pads are clean |
| Streams and staging, `scheduler/`, `engine/staging.py`, `attention/kv_indices.py` | four streams, their events, pinned buffers, index scratch | record, wait, asynchronous copies | conflicting accesses are ordered by events |
| Profiler, `profiler.py` | pending start and stop, wake event, command and counts of a capture | requests, poll, forward hooks | a request is never slept on, a capture that starts ends |

What is hard here: the components interact through slots and rows that change
hands in the middle of a batch (match, evict, lock), through caches that are
recognised by a key (the wave cache, the heap entries), through futures that
several paths may set, through events between streams, and through device buffers
that are handed out as views. Failures are caught in
one place, which forgets requests but not what they hold. `PROJECT.json` lists
each of these hazards at its line, with the properties that are about it.

## Modules

| Module | Models | Extends, uses |
|---|---|---|
| `RadixTree` | the trie of the prefix cache as a value, and its operations as operators | |
| `LRUCache` | what the cache promises: match, insert, lock, unlock, and an `EvictLRU` that removes a least recently used unlocked leaf | `RadixTree` |
| `PrefixCache` | the cache as written: leaf set, lazy heap, `evict` one heap pop at a time, with clients that lock paths | `RadixTree`, implements `LRUCache` |
| `KVLifecycle` | requests from prefill to release over the two pools and the cache; slots carry the KV last stored in them | `RadixTree`, `Selection`; its evictions are `EvictLRU` of `LRUCache` |
| `DecodePipeline` | the pipeline driven by `_decode_tick`, the wave cache of `_forward_decode` and the release of finished requests | |
| `DeviceStreams` | the commands those steps issue to four CUDA streams, and which accesses the events order | `DecodePipeline`, each action a step of it |
| `LaunchBuffers` | what launches leave in shared device memory: graph inputs and outputs, planes, workspaces, clones and views | |
| `SidTrie` | the catalog as a trie, in the layouts the kernels read, and the lookups | |
| `BeamSearch` | the search of one request from the prefill's logprobs to the ranked answer | `SidTrie` |
| `ServerLoop` | jobs from the HTTP handler to the answer, with the worker's loop, the burst and the batching policy | |
| `Profiler` | HTTP start and stop requests against the poll of the worker and the forward hooks | |
| `Selection` | the list comprehension over requests, and dealing requests to the shortest pipes | used by `KVLifecycle`, `DecodePipeline`, `ServerLoop`, `LaunchBuffers` |
| `SharedLemmas` | what folds over sequences compute, what selecting, cutting, flattening and dealing do to the members and their order; places on a ring; what each operation on the tree does to its paths, locks and leaves | `Selection`, `RadixTree` |
| `PrefixCacheProofs`, `KVLifecycleProofs`, `ServerLoopProofs`, `DecodePipelineProofs`, `BeamSearchProofs`, `LaunchBuffersProofs`, `ProfilerProofs` | lemmas and the theorems below | their modules, `SharedLemmas`; `DecodePipelineProofs` is about `DeviceStreams` too |
| `MC...` | instances of these for TLC | |

### How they correspond to the code

**RadixTree, PrefixCache.** A node is the token path that leads to it, so
`children` and `parent` are the path order; `born` distinguishes a node from a
later one at the same path, as object identity does in the heap. The heap is a
set of entries: equal entries have the same effect when popped. `match_cpu`,
`insert_cpu`, `lock` and `unlock` are one action each, as the worker runs them
without interruption; `evict` is split at each pop because its loop is where
the lazy heap could fail, and `need`, `freed` are its locals. `outside` holds the
slots the cache does not own; `insert_cpu` takes arbitrary fresh ones of them.

**KVLifecycle.** A step is one allocation point. `_prefill_batch` matches and
allocates request by request (`MatchAndAlloc`), then forwards
(`PrefillForward`), and only then locks (`InitWave` for a wave of alike requests,
`InitOne` otherwise): these stay separate steps since the evictions of one fall
between the match and the lock of another. `content` says which KV a slot holds
(of a token path, or of a decode step), so the properties compare what is read
with what should be. `GiveUp` is the worker's exception path; what the dropped
requests held stays with them, as in the code, where nothing frees it. Beam
contents are left out: a decode step takes one slot per beam.

**DecodePipeline.** A tick is `Sync` (materialize, `sync_pipes_from_running`,
dematerialize), then rounds of `get_next`, one action per way a round can go, then
`Launch`, then `Release` by the loop. Groups are by generated length, the beam
widths being equal. Whether a prefill on the side stream has passed (`ready`) is
chosen by the environment and may change between any two steps. The idle
deadline of `try_dematerialize` may have passed or not.

**DeviceStreams.** A host step is a step of `DecodePipeline` that also issues a list of
commands. Nothing is executed: `gpu` keeps for each stream (and the host) the accesses
it is known to come after, an event is a copy of that knowledge, and two conflicting
accesses neither of which comes after the other are recorded as a race on their buffer.
So one behaviour stands for every timing of the device. `lease` is the room a request
has in the pools and `result` the memory the allocator gave a forward; both go to the
next user as soon as the host lets go of them. That a newcomer's prefill has passed
(`ready`) is what `Event.query` tells. Failures are left to `DecodePipeline`. Some steps
of the scheduler forget events nobody has waited for (`forgotten`, see below): the
properties are about the behaviours before that.

**LaunchBuffers.** A buffer holds per row the state of a beam block, `<<r, d>>` for
request `r` after `d` steps; a tensor is its own value or a view of a row. A replay
writes the inputs, the output and the next plane of its captured size, and what it
returns is a clone or a view as in `replay` and `_clone_fused`. The order of steps is
the host's, which is each stream's order. The placement of requests on pipes is reduced
to the shortest idle one; `DecodePipeline` has all of it. The two tables `token_ids` and
`node_ids` always lie alike and are one here.

**SidTrie, BeamSearch.** A node id is the rank of a prefix, as `finalize_index` numbers
them. Tables are functions over node and token; CSR keys are a sorted sequence searched
and clamped as in `_csr_lookup`. Logprobs are integers drawn from given models; minus
infinity and NaN are two integers beyond them with the float rules of addition,
subtraction and rank. `topk` on ties (dead candidates, or Gumbel noise) is any choice. The
fused kernel, its PyTorch form and the eager step are actions of their own, since they
treat dead candidates differently. `kv` is the path whose KV a row of the request table
names: the forward appends, `remap_by_parents` gathers.

**ServerLoop.** Each thread's steps interleave: `Send`, `Answer`, `Again` (event
loop and client), `Tokenize` (host pool), the rest (worker). A step of the
worker is what it does under `_cv`, or one iteration of `_submit_jobs`, which
blocks until a job is tokenized, or one phase of a burst. The order by which
`select_jobs_lpm` scores jobs is any order (prefix lengths) or the queue's (all
aged). `Again` is the only action not in the code: a client that sends again.

**Profiler.** `poll` is three steps, as its two locked sections and the part between
are (`Poll`, `Apply`, `Clear`), and a forward goes on with the rest of `on_forward` and
with `after_forward` (`Stage`, `AfterForward`); the handlers run between any two. What
only the worker writes is one record, `cap`, and `_configure`, `_start`, `_stop` and
`_step_by_stage` are operators on it, since one call may apply several. A refused request
changes nothing and is no step. `forward_ct` is not kept: `from` counts down to a
`start_step`.

## Runs

| Run | Question | Bounds |
|---|---|---|
| `PrefixCache` | do bookkeeping, locks and slots hold under every interleaving of calls, and does it implement LRU? | three prompts that share a prefix, two clients, a clock of a few calls |
| `KV` | who owns slots and rows, and whose KV is read, with prefix hits, a pin, `max_ins` and the cap in play, and when allocations evict and fail half way? | four requests, prompts of up to five tokens, `max_ins` 3; one deployment with a pin of two, cap 4 and pools that suffice, one with disjoint prompts, seven slots, five rows |
| `Pipeline` | placement, exclusivity and columns under every arrival and readiness; is everybody served? | four requests of one to three steps, three pipes |
| `DeviceStreams` | are all conflicting accesses ordered, whatever the device's speed? | three requests of one or three steps, two pipes, with and without prefill overlap, a ring of five pins |
| `LaunchBuffers` | is a result or a beam table ever overwritten while it is needed? | four requests of one block each, sizes up to three blocks captured fully, partly or not, no pipeline or two pipes |
| `Beam` | do tables, nodes, scores and KV rows follow the catalog and the tokens; are the best beams kept and all items served? | codebooks of 2, 3, 2 codes, every catalog of one to three items of a set of eight, widths 1 to 3, two models, three layouts |
| `Server` | is each job answered once, with failures at every step? | five jobs, a wide one among them, a queue of three, three slots, batches packed to two |
| `ServerLive` | is each job answered in the end, with clients that keep sending? | three clients of equal width, two slots, bursts of two steps, no prefill during decode |
| `Profiler` | does every start begin, every stop end, every counted capture stop? | six kinds of command, counts to 3 |
| `KVEvicted` | `KV` with hits and a small pool: violated, see Findings | eight slots |
| `KVLongPin` | `KV` with a pin longer than `max_ins`: violated | pin of three tokens |
| `GraphHidden` | `LaunchBuffers` with the per-codebook head and two pipes: violated | sizes captured without expand |

Why the bounds are enough: each is the smallest at which the case in question
occurs. Three prompts give a shared inner node, a leaf that is a prefix of another
path, and a leaf of its own; two clients give overlapping locks; two pipes in
flight and a third free give every branch of `get_next`, and the fourth request
arrives when all are out, which fills `pending_prefills`; `max_ins`, the cap and the
eviction batch are small so that prompts exceed them. `MaxClock` bounds the number of
matches and inserts in `PrefixCache` and is the only bound there that cuts behaviours.
In `ServerLoop` `MaxSteps` is the step limit of a burst itself (4096 in the code); in
`Server` it is never met, which is the case `AdmittedWithinBudget` is about.
The five jobs of `Server` are what it takes for the straggler window to put a job back: two that
are served together raise the recent batch to the high rate (two; 4 in the code), and three more come
together and are packed to two.
In `DeviceStreams` the third request arrives while both pipes are out, and leases,
memory blocks and events are reused. The uploads of a behaviour, one for each prefill and each
forward, are up to ten, so every pin of the ring (five; 64 in the code) is refilled; five is the
smallest ring of which `RingNotLapped` holds here, with four pins TLC finds it lapped.
In `Beam` the catalogs leave fewer items than beams as well as more, contain a
short item and a key that is no code, a width the first codebook cannot fill, and
requests that end before, with and after the depth of the trie.
Deadlock checking is off where the system stops: all requests are served, or
the clock's bound is reached.

Premises inside properties, each with the code that makes it one: `BeamsOrdered` and
`ResultsOrdered` say nothing once events were `forgotten`; `PacksCleanly` is about waves
of equal length (`Steady`); `KeepsBest` leaves out steps whose pool does not cover the
codebook (`Covered`), `joint_select`, and an eager last step with a dead row
(`DeadRowsAtTheEnd`). What
happens without them is under "Seen while modelling".

Fairness. `DecodePipeline` assumes that the worker keeps ticking while something runs
(`run_burst` does) and that prefills end on the GPU. `ServerLoop` assumes that the
worker, the event loop and the tokenization of each job go on; nothing makes a client
send. `Profiler` assumes that the worker goes on with a poll or forward it is in, and
polls when it is woken; that forwards keep coming is a premise of `AutoStops` and of no
other property. No action is strongly fair. Aging by the queue's
order serves equals (`ServerLive`); of unequal widths see below.

## Findings

- **A batch-mate's eviction frees a matched prefix** (`KVEvicted`).
  `_prefill_batch` matches every request before any hit is locked
  (`scheduler.py:677`, lock at 1024), and `alloc_tokens` evicts in between.
- **A pinned prefix longer than 128 tokens** (`KVLongPin`). `_radix_cache_finished`
  frees everything beyond `max_ins`, the part that came from the prefix hit and
  belongs to the tree included (`scheduler.py:1634`).
- **A view of a graph's output** (`GraphHidden`). With the per-codebook head `replay`
  returns `buf["hidden"][:raw_bs]` itself (`graph.py:517`); logprobs are cloned one line
  above, and `graph.py:7-8` says outputs are. The replay of another pipe at the same size
  overwrites it before it is expanded.

### Seen while modelling

Behaviour that contradicts a doc, or surprises, without a run in the project. The first
group fails a stated property under the given constants, which the `MC` modules define.

- *Forced admission* (`RunningWithinBudget` in `ServerLoop`, `LoadJobs`, `ShortGenrec`, three
  steps): a job submitted over budget after a burst that ends busy (`api.py:533`), and a
  prefill of an idle engine that does not look at the budget, run more beam rows than
  there are slots; `docs/architecture.md:44` says requests wait for the budget.
- *Wide jobs starve* (`Answered`, `WideJobs`): selection passes over an aged job that does
  not fit and takes younger ones that do (`api.py:142`; `docs/architecture.md:45-46`).
- *A stop that overtakes its start* (`StopEnds` in `Profiler`, `OpenCmds`): `poll` takes the stop
  and leaves the start pending (`profiler.py:122`), so the capture begins after it.
- *NaN in the eager last step* (`LastKeepsBest` in `BeamSearch`, `EagerConfigs`): the masked
  score less the cumulative one is NaN for a dead beam (`expand.py:289`), which `topk` ranks
  first, so a large trie (CSR, never fused) answers dead beams before legal ones;
  `select.py:171` says the best extensions all finish.
- *Planes of two pipes* (`ResultsOwn` in `LaunchBuffers`, `PlaneModes`): when an expand is
  captured with two planes, what waits in the queue is a view of one (`graph.py:407-410`), and
  the pack of the other pipe's launch writes over it (`torch.stack(out=tok_src)`,
  `scheduler.py:260`); `_detach_plane_aliases` (254-255) looks only at the plane to be written
  next and at the requests' own tables. `graph.py:7-12` says two pipes of one size do not clobber
  each other. The passing run has planes with two pipes only at size 1,
  whose result is cloned.
- *Two depths in one launch* (`TablesOwn` in `LaunchBuffers`, `MixedModes`): the groups of one
  launch share a workspace (`scheduler.py:1458`); the second pack overwrites the plane the
  first group's tables are views of. Serving reaches it with prefill during decode.
- *Forgotten events* (`BeamsAlwaysOrdered` in `DeviceStreams`): `try_materialize` clears the events
  of the serial step before it without waiting (`pipeline.py:133-134`).

By reading, in the models but not isolated, or beyond them:

- `torch.stack(out=)` raises when a wave's membership changes so that a pack overlaps its
  inputs (`PackRaises`); all graphs share one memory pool, in which another size's replay
  may reuse `hidden`; `kv_dirty` is lowered when there is no pad to clean
  (`graph.py:485-490`); the captured expand takes its top-k over the whole vocabulary.
- Dead beams are returned as choices when fewer items than beams exist, though
  `docs/architecture.md:54` says illegal SIDs are never candidates; the kernel fills such rows
  with row 0's first candidate. Items shorter than the trie are never served.
- `joint_select` is unreachable from the server (`ignore_eos=True`, `scheduler.py:560`). Were
  fewer beams to survive than there are rows, `remap_by_parents` would skip the
  gather (`kv_remap.py:54`).
- With prefill on the side stream the index scratch (`kv_indices.py:48`) and the device side of
  the staging are used by two streams at once, and no property is about them: with prefill on the
  default stream each is used by one stream, in program order. `_IdxStage` uploads of more than 64
  lists lap the ring within one call.
- `try_dematerialize` runs only in a tick, and a tick only with live requests, so the idle
  pipeline never collapses (`pipeline.py:148-160`). A by-stage capture that meets decode
  before prefill stops the decode capture with `_stop`, which forgets the command, and then
  starts one of prefill that no count ends (`profiler.py:297-300`). A second start between
  the two locked sections of `poll` is accepted and replaces the first
  (`profiler.py:125-133`). `start_step` 0 is accepted and never starts (`profiler.py:132`, 182).

## Proofs

A theorem holds for all values of the constants that meet the module's assumption. Every
safety invariant and action property of the runs is proved except those listed at the end
of this section. Each proof has an inductive invariant made of named parts, and a lemma or a step
per action.

**Prefix cache.** `PrefixCacheProofs` holds for all prompts, clients, slots and clock bounds,
from `PromptsAssumption` (nonempty prompts over naturals, finite sets):

- `TypeCorrect`: type correctness and `BookkeepingExact`;
- `LiveRequestsNotEvicted`: `HeldStaysCached`, with `LocksAreCounted`: `LockCountsHolders`;
- `SlotsNeverLost`: `SlotsConserved` and `PrefixClosed`;
- `EvictNeverShort`: the action property `EvictDelivers`;
- `Refinement`: `ImplementsLRU`, the cache implements `LRUCache`.

The invariant, `IInv`, has eight parts. None is inductive alone: that a locked path stays
cached needs the lock counts (a victim has lock 0, so nobody holds it), these need that a
path is cached as long as its nodes are (no orphan), which needs that a victim is a leaf,
that is, that the leaf set is exact; that `evict` stops short only when nothing is evictable
needs an entry for every evictable leaf (`HeapCovers`), which needs that entries are not from
the future (`Stamped`). The refinement is a step simulation on top of it: a call maps to its
namesake, the heap's own steps stutter, and a popped victim is a least recently used
unlocked leaf (`VictimIsLRU`) because every evictable leaf has an entry at its last access or
before, and the victim's is the least of all and up to date. `SharedLemmas` states what
each tree operator does to the domain, the locks and the leaves; the step lemmas use that and
never expand the operators again. The run checks the parts that say what the cache promises;
`TypeOK`, `PrefixClosed`, `HeapCovers` and `Stamped` are auxiliary and hold by the proof.

**Request lifecycle.** `KVLifecycleProofs` holds for all requests, prompts, pools, caps and
eviction batches, from `ParametersAssumption` (nonempty prompts, a pin that is not a single
token, finitely many requests with positive limits and widths):

- `RowsAlwaysAccounted`: the part of `ResourcesAccounted` about rows, without any premise;
- `CapAlwaysKeepsUp`: the action property `CapKeepsUp`, if a completion may evict as much as it
  inserts (`MaxIns <= CapBatch`; 128 and 512 in the code);
- `ResourcesAlwaysAccounted`, `PromptsAlwaysIntact`, `CacheAlwaysServes`, `LiveNeverEvicted`:
  `ResourcesAccounted`, `PromptKVIntact`, `CacheServesItsTokens` and `LiveNotEvicted`, under `Premise`:
  the pin is at most `max_ins` and matched prefixes stay cached (`HitsStayCached`);
- `HitsStay`: `HitsStayCached` itself, if no prefill allocation falls short of slots (`NoShortfall`);
- `EnoughSlots`: hence the four of them, for a short pin and pools without such a shortfall.

The premises are the two ways in which the code fails: without `HitsStayCached` a batch-mate's
eviction frees a matched prefix (`KVEvicted`), and a longer pin is freed from under the tree
(`KVLongPin`). Decode allocations may evict and fail, and batches may be given up, at any point. The
invariant, `KInv`, says of the slots that the free list, the tree's nodes and what each request has
to itself partition them; that a request's row of slots is its hit's, on the slots of the tree as
long as the path is cached, followed by its own; that each slot of a prefilled position holds the KV
of its path; that every locked path is cached and every node is locked as often as there
are requests whose locked path has it (and the pin), dropped requests included. The last is what keeps a
running request's prefix from eviction; the first is what keeps a store from writing into somebody's
slot; each needs the other, since a released slot is one the tree has not taken, and the tree
only has slots nobody owns. An eviction is a round of leaves one after the other, so each part is
shown for one leaf and carried along the rounds by a least counterexample.

**Server.** `ServerLoopProofs` holds for all jobs, budgets, batching preferences and failures,
from `ServerAssumption` (no job is wider than the slots; the limits are positive):

- `EveryJobIsInOnePlace`: `AwaitedOnce`;
- `AnswersReachTheirJobs`: `NoAnswerWasted`;
- `KnownJobsAreServed`: `KnownIsServed`;
- `BudgetKept`: `AdmittedWithinBudget` in every behaviour whose bursts drain the engine (`BurstsDrain`);
- `BurstsAlwaysDrain`, `BudgetAlwaysKept`: they do, and the budget holds, if clients do not send again
  and all their prefills and decode steps fit the step limit of one burst (`OneShot`).

`Inv` partitions the jobs that await an answer into the queue, the rest of the batch in hand,
the jobs by rid, and the answers posted to the event loop (`OnePlace`); no list names a job
twice (`Distinct`). That is not inductive alone: a job leaves `by_rid` when the engine returns
its request, so what the engine has must be the known jobs, and nothing of the queue or the
batch (`EngineOwn`; it may also have requests answered on an error path); and what is in hand
depends on where the worker stands, the jobs before the cursor being known and the others
not yet (`WorkerAt`). `Budget` adds up the rows that run, wait and are in hand: selection
picks what fits the rest, except one job that is picked although it does not fit
(`api.py:533`), which is why an engine that is not drained breaks it (*Forced admission* above). That a burst
drains is a potential: each round of it finishes a prefill or a step of some request, so the rounds
still to come are at most the work that is left.

**Decode pipeline.** `DecodePipelineProofs` holds for all numbers of requests, steps and pipes,
from `PipelineAssumption`:

- `EveryRequestHasOnePlace`: `Placed`; `NoneLeftPending`: `PendingDrained`;
- `ForwardsDoNotOverlap`: `OneForwardOut`; `ColumnsFollow`: `ColumnsContiguous`;
- `Alternation`: the action property `Alternates`.

`Inv` says between sync and launch that pipes, parked and held requests partition the running
ones (`Places`); that something is pending only in a tick that found every pipe in flight
(`Drained`), which is why processing one frees a pipe for all of it; that a launch goes to a pipe
with none out, and nothing is out when the pipeline is off (`Clear`); and that the cached wave
ends at its requests' columns, or none of them runs any more, a failed launch having dropped
them (`WaveEnds`), without which a recognised wave could continue at a stale column. For
`Alternates` a second invariant, `Turns`, says that while forwards are out the turn follows the
pipe launched last except for pipes the tick found without work, and that the pipe launched last
is in flight or none that is has anything to run.

**Device streams.** Also in `DecodePipelineProofs`, for all leases, blocks, attention backends
and ring sizes, from `PipelineAssumption` and `StreamsAssumption`; every host step is a step of
`DecodePipeline` (`DeviceSteps`), so `Inv` holds here too:

- `LeasesKept`: the host's books: a request has a lease of its own exactly while it runs, a pipe a
  result of its own exactly while a forward of it is out, no request is dropped, and between ticks
  none that runs is finished (`Books`); that a sync leaves the pipeline on is the lemma `SyncStays`;
- `PinsInOrder`: `PinsOrdered`;
- `DataAlwaysKept`, and from it `BeamsInOrder`: `BeamsOrdered`; `ResultsInOrder`: `ResultsOrdered`;
- `RingInOrder`: `RingNotLapped` with prefills on the default stream, for prefills of at most n
  requests and a ring of at least n + pipes + 2 pins (`UpTo`). With the 64 pins of the code and two
  pipes that is up to 60 requests a prefill.

`gpu` is too fine for an invariant, so two facts about a buffer take its place: a stream, or the
host, comes after all accesses to it (`Covered`), or whoever waits for an event will (`Keeps`). A
command loses neither for a buffer it does not access, but for the event it records or
drops (`CommandOrders`); a list of commands is done one after the other (`RunAlong`, `RunConcat`), and
what the lists of each handler do to the two facts is stated once per handler (`LaunchEffect`,
`ProcessEffect`, `PrefillEffect`, `CompleteEffect`, `SyncEffect`). `DataKept` then says, for each
buffer, who knows of its last accesses: of the beams and rows of a request in a forward, the replay
event of its pipe; of one that is in none, the default stream or the events its next launch waits
for, its prefill's and its pipe's remap's (`Home`); of one that has finished, the expand stream, which
completion waits for; of those nobody has, the host; of a held result, the replay event, and of a
free block of memory, the expand stream and the default stream or an event that the next launch
waits for (`FreeKept`). The last is why a dropped result needs no `record_stream`: a result is dropped
only when every pipe with work is in flight, so the next launch is of the same pipe, or comes after
a completion, for which the host waits. That in turn needs `Inv`: the pipe of a forward lists its
requests, has one forward out, and nothing is pending when a round ends. `forgotten` is a premise
because the code is wrong without it (*Forgotten events* above).

For `RingInOrder`: the pins of the ring are shared by the host and the default stream, and nobody
waits for an upload as such, so the invariant counts (`RingKept`): the host
comes after all uploads but the last h, whoever waits for the replay of p after all but the last
a[p], whoever waits for a refill of the staging after all but the last b[k] (`Behind`), and every
upload the host is behind of has a forward still out, or one of the two refills, issued just after it
(`Accounted`). There are at most as many as pipes and refills, so h is at most pipes + 2 (`FewBehind`),
and the host waits for a replay or a refill before the ring comes round. A prefill uploads once per
request before the host waits at all, hence the premise on its length.

**Beam search.** `BeamSearchProofs` holds for every set of codebooks and catalogs, every model
and width, from `SizesAssumption`, `RequestAssumption` (the three layouts the code has; catalogs are
finite sets of sequences over naturals; logprobs are rows of integers) and `NoTies`:

- `LayoutsAgree`: masks and transitions are the same in the dense and in the CSR layout, at
  every node, at the row for "no such prefix", off the trie and for tokens out of range;
- `TablesAlwaysFollow`: `TablesFollowCatalog`;
- `RowsAlwaysSound`: every row's node is the one its tokens lead to, a live row is legal and has the
  score of its tokens, no item is found twice;
- `ServedRowsFollow`, `ServedFrontierSound`: `RowsFollowTokens` and `FrontierSound` for requests that
  ignore EOS, as all of the server's do (`scheduler.py:560`). With stop tokens fewer rows than
  before may survive, and `remap_by_parents` then skips the gather (`kv_remap.py:54`).

The tables: a finite set in a strict order has one member at each place (`PlacesTaken`), so nodes
and edges are numbered without gaps (`NodesEnumerated`, `EdgesEnumerated`); a key determines its
node and token (`KeyDigits`), so keys order the edges; hence the number of smaller keys is the place
of an edge that exists, and a clamped index is a hit only where the keys are equal
(`CsrFindsEdges`). That codebooks lie in the range one after the other is `CodebooksInRange`. The
paths: following the tables token by token leads to the node of the prefix or off the trie for
good (`PathSteps`, `TablesLead`). The step: what a pool offers (`Offered`) is each place and token of a
row once, with the row's score and the mask's verdict; any selection of it, by any of the
forms of the expand, yields sound rows (`ApplySound`); and distinct tokens behind distinct
paths are distinct paths.

**Graphs.** `LaunchBuffersProofs` holds for any number of requests, any modes and captured sizes,
from `BuffersAssumption`:

- `PadsStayClean`: `RowsPadded`;
- `InOrderAlways`: without prefill during decode (`~mode.mixed`), `Shape`;
- `PacksAlwaysClean`: `PacksCleanly`;
- `ResultsStayOwn`, `TablesStayOwn`: `ResultsOwn` and `TablesOwn` for deployments that meet `Cloning`.

The mark of a size is an invariant by itself; that a shrink cleans exactly what lies between the
new mark and the old one is the lemma `InputsKeepMarks`. The rest needs the order of things first:
requests of one pipe have equal depth (`Abreast`), so a launch is one group, at most one is out
per pipe (`OnePerPipe`), its result is in one buffer in the pipe's order (`Launched`), and so are
the tables of the pipe, or each is on its own (`Tidy`, `Located`). If requests also end together
(`Even`), a pipe keeps its members, so tables found in the plane to pack into are already in
place. `Content` then says what the buffers hold: tables are up to date, waiting results are
those of their forward, tables lie in a plane only where the next replay reads. `Cloning` is: pipeline
off, or the full head without captured planes of two or more rows. Outside of it `ResultsOwn` is
false for a reason: with the pipeline on, a waiting view is overwritten (`GraphHidden`, and
*Planes of two pipes* above). With prefill during decode a launch has several groups, and
`TablesOwn` fails there too (*Two depths in one launch*).

**Profiler.** `ProfilerProofs`, from `ProfilerAssumption` (what a command is):

- `CommandInForce`: type correctness and `ConfiguredByCmd`;
- `NoWakeupLost`: `WakeCovers`.

Here the conjunction of the three is inductive. The lemmas say of each operator on
`cap` that it leaves sound fields sound, so the step cases only name which is applied.

**Folds.** Selections, sums and flattenings are folds of the community modules, defined over the
set of remaining indices. `SharedLemmas` identifies each with the recursion along the sequence
(`SubsetRecursion`, `FoldIdentified`, `FoldAlong`); after that a property of a selection is an induction
over positions, written as the absence of a least counterexample, since the library's
induction theorems cannot be used here. The lemmas are stated once per operator (`OnlyMembers`,
`SpreadIn`, `FlattenMembers`, `SumStep`), and the proofs of the components cite them.

The SMT translation of `CHOOSE` lets the solver read `e = CHOOSE x : P(x)` as `P(e)`, which is
wrong if nothing satisfies `P`. No leaf relies on it: where an equation with `CHOOSE` is used, the
leaf is Zenon's and existence is a step of its own.

Only model-checked:

- liveness: `AllServed`, `Answered`, `StartWorks`, `StopWorks`, `AutoStops` (out of the prover's reach);
- `DeviceStreams`: `RingNotLapped` with prefills on a side stream, and for rings between what the run
  shows to be enough and what `RingInOrder` asks for;
- `BeamSearch`: `KeepsBest` and `EveryItemServed`, where scores must be kept away from minus
  infinity over a whole path; `RowsFollowTokens` and `FrontierSound` with stop tokens;
- `LaunchBuffers`: `ResultsOwn` and `TablesOwn` with prefill during decode.

## Not modelled, and why

The model's numbers, attention and layers have no protocol. Parsing, SSE, JSON, the
tokenizer and reading catalogs are formatting and data preparation.
`can_inflight_prefill`, `insert_after`'s use and `InflightLoop.step` have no caller in serving
(`insert_after` is nevertheless in `PrefixCache`); `_fill_before_expand` never finds an
unexpanded running request, as prefill expands. `DecodePipeline.run`, `drain_all` and
`generate_many` serve offline generation. The flat allowlist is used without a catalog
only. Thread blocks and shared memory of the CUDA kernels are below what a row computes.
Scripts under `scripts/` drive the server from outside. A profiler whose trace directory cannot be
written raises in `poll`; file errors are not modelled.

## Plan

1. `LaunchBuffers` with prefill during decode: several groups per launch.
2. `KeepsBest` and `EveryItemServed` from a bound on the logprobs.
3. The captured expand joined to `DeviceStreams`.
