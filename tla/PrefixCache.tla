----------------------------- MODULE PrefixCache -----------------------------
(***************************************************************************)
(* kvcache/radix.py: the prefix cache with the bookkeeping that makes      *)
(* eviction cheap -- the evictable_leaves set kept by _update_leaf_status, *)
(* and the lazy LRU heap whose entries may be stale or outdated and are    *)
(* only sorted out when evict pops them.                                   *)
(*                                                                         *)
(* One worker thread calls the cache, so calls never overlap; evict is     *)
(* modelled one heap pop per step because its loop is where the lazy heap  *)
(* can go wrong.  The callers are Clients, the live requests: each locks   *)
(* at most one cached path and unlocks what it locked.  Slots stand for    *)
(* physical KV slots; `outside` holds those the tree does not own.         *)
(***************************************************************************)
EXTENDS RadixTree

CONSTANTS
    Prompts,    \* the token sequences the callers use, all nonempty
    Clients,    \* the requests that lock paths
    Slots,      \* physical KV slots
    MaxClock    \* bound of the model: matches and inserts in a behaviour

Paths == UNION {PathNodes(p) : p \in Prompts}

ASSUME PromptsAssumption ==
    /\ \A p \in Prompts : p \in Seq(Nat) /\ p # <<>>
    /\ IsFiniteSet(Prompts) /\ IsFiniteSet(Clients) /\ IsFiniteSet(Slots)
    /\ MaxClock \in Nat

VARIABLES
    tree,               \* the nodes below root
    evictable_leaves,   \* paths of the nodes in evictable_leaves
    heap,               \* the entries of _heap
    num_cached_tokens,
    clock,              \* _clock
    need,               \* num_tokens of the evict call in progress, 0 if none
    freed,              \* freed_ids of that call
    held,               \* held[c]: the path c has locked, <<>> if none
    outside             \* slots in the allocator's or a caller's hands

vars == <<tree, evictable_leaves, heap, num_cached_tokens, clock, need, freed,
          held, outside>>

\* A heap entry names a node object (path and birth) and the last_access the
\* node had when it was pushed.  Equal entries have equal effect when popped,
\* the second one being stale or re-pushed like the first, so a set will do.
Entry(t, q) == [prio |-> t[q].last, path |-> q, born |-> t[q].born]

IsStale(e) == ~(e.path \in evictable_leaves /\ tree[e.path].born = e.born)

\* The node was matched or inserted over since the entry was pushed.
\* (IsOutdatedNever: mutant, the re-access check is missing)
IsOutdatedNever(e) == FALSE

IsOutdated(e) == tree[e.path].last # e.prio

\* (mutant of IsFreeLeaf: the lock is not looked at)
IsLeaf(t, q) == ~HasChild(t, q)

\* (mutant of Leaves: nodes that become free again are not added)
LeavesDropped(t, E, Q) == E \ Q

\* _update_leaf_status for the nodes Q of the tree t, given the set E kept so
\* far: which nodes are in it afterwards, and the entries it pushes for those
\* that were not there before.
IsFreeLeaf(t, q) == t[q].lock = 0 /\ ~HasChild(t, q)

Leaves(t, E, Q) == (E \ Q) \cup {q \in Q : IsFreeLeaf(t, q)}

Pushes(t, E, Q) == {Entry(t, q) : q \in {r \in Q \ E : IsFreeLeaf(t, r)}}

Idle == need = 0

Tick ==
    /\ Idle
    /\ clock < MaxClock
    /\ clock' = clock + 1

Init ==
    /\ tree = EmptyTree
    /\ evictable_leaves = {}
    /\ heap = {}
    /\ num_cached_tokens = 0
    /\ clock = 0
    /\ need = 0
    /\ freed = {}
    /\ held = [c \in Clients |-> <<>>]
    /\ outside = Slots

\* match_cpu: stamps the walked nodes; the heap entries of those that are
\* evictable are now outdated and stay as they are.
Match(p) ==
    /\ Tick
    /\ tree' = Touch(tree, p, clock + 1)
    /\ UNCHANGED <<evictable_leaves, heap, num_cached_tokens, need, freed, held, outside>>

\* insert_cpu and insert_after: every new node is pushed when it is created,
\* as it is a leaf then; only the last stays evictable, and the node it was
\* hung under no longer is.  kvs are the caller's slots for the new nodes.
InsertPath(p, from, kvs) ==
    LET new == PathNodes(p) \ DOMAIN tree
        t == InsertFrom(tree, p, from, kvs, clock + 1)
    IN  /\ Tick
        /\ tree' = t
        /\ num_cached_tokens' = num_cached_tokens + Cardinality(new)
        /\ evictable_leaves' =
             IF new = {} THEN evictable_leaves
             ELSE (evictable_leaves \ {Parent(q) : q \in new}) \cup {p}
        /\ heap' = heap \cup {Entry(t, q) : q \in new}
        /\ outside' = outside \ {kvs[Len(q)] : q \in new}
        /\ UNCHANGED <<need, freed, held>>

\* insert_after requires the prefix it starts from to be cached.
CanInsert(p, from) == from > 0 => Pre(p, from) \in DOMAIN tree

InsertCpu(p, from) ==
    /\ CanInsert(p, from)
    /\ \E kvs \in FreshSlots(tree, p, outside) : InsertPath(p, from, kvs)

\* lock on a cached path, by a client that holds none.
LockPath(c, p) ==
    /\ Idle
    /\ held[c] = <<>>
    /\ p \in DOMAIN tree
    /\ held' = [held EXCEPT ![c] = p]
    /\ tree' = Lock(tree, p)
    /\ evictable_leaves' = Leaves(Lock(tree, p), evictable_leaves, Walk(tree, p))
    /\ heap' = heap \cup Pushes(Lock(tree, p), evictable_leaves, Walk(tree, p))
    /\ UNCHANGED <<num_cached_tokens, clock, need, freed, outside>>

UnlockPath(c) ==
    LET t == Unlock(tree, held[c])
        walked == Walk(tree, held[c])
    IN  /\ Idle
        /\ held[c] # <<>>
        /\ held' = [held EXCEPT ![c] = <<>>]
        /\ tree' = t
        /\ evictable_leaves' = Leaves(t, evictable_leaves, walked)
        /\ heap' = heap \cup Pushes(t, evictable_leaves, walked)
        /\ UNCHANGED <<num_cached_tokens, clock, need, freed, outside>>

\* evict(n) returns at once when there is nothing to do.
EvictCall(n) ==
    /\ Idle
    /\ evictable_leaves # {}
    /\ need' = n
    /\ freed' = {}
    /\ UNCHANGED <<tree, evictable_leaves, heap, num_cached_tokens, clock, held, outside>>

MoreToEvict == need > 0 /\ Cardinality(freed) < need

\* heappop: an entry of the lowest priority (ties fall by object id, that is
\* in any order).
Popped(e) ==
    /\ MoreToEvict
    /\ e \in heap
    /\ \A f \in heap : e.prio <= f.prio

PopStale(e) ==
    /\ Popped(e)
    /\ IsStale(e)
    /\ heap' = heap \ {e}
    /\ UNCHANGED <<tree, evictable_leaves, num_cached_tokens, clock, need, freed, held, outside>>

Repushed(e) == Entry(tree, e.path)

PopReaccessed(e) ==
    /\ Popped(e)
    /\ ~IsStale(e)
    /\ IsOutdated(e)
    /\ heap' = (heap \ {e}) \cup {Repushed(e)}
    /\ UNCHANGED <<tree, evictable_leaves, num_cached_tokens, clock, need, freed, held, outside>>

PopVictim(e) ==
    LET q == e.path
        t == RemoveLeaf(tree, q)
        up == {Parent(q)} \cap DOMAIN t   \* empty below the root
        E == evictable_leaves \ {q}
    IN  /\ Popped(e)
        /\ ~IsStale(e)
        /\ ~IsOutdated(e)
        /\ tree' = t
        /\ num_cached_tokens' = IF num_cached_tokens > 0 THEN num_cached_tokens - 1 ELSE 0
        /\ freed' = freed \cup {tree[q].kv}
        /\ evictable_leaves' = Leaves(t, E, up)
        /\ heap' = (heap \ {e}) \cup Pushes(t, E, up)
        /\ UNCHANGED <<clock, need, held, outside>>

\* (mutants of EvictReturn: the loop ends at the first stale entry; the freed
\* slots do not reach the allocator)
EvictReturnAtStale ==
    /\ need > 0
    /\ \/ Cardinality(freed) >= need \/ heap = {}
       \/ \E e \in heap : Popped(e) /\ IsStale(e)
    /\ need' = 0
    /\ freed' = {}
    /\ outside' = outside \cup freed
    /\ UNCHANGED <<tree, evictable_leaves, heap, num_cached_tokens, clock, held>>

EvictReturnLeaks ==
    /\ need > 0
    /\ Cardinality(freed) >= need \/ heap = {}
    /\ need' = 0
    /\ freed' = {}
    /\ UNCHANGED <<tree, evictable_leaves, heap, num_cached_tokens, clock, held, outside>>

\* The loop ends; the allocator gets the slots back.
EvictReturn ==
    /\ need > 0
    /\ Cardinality(freed) >= need \/ heap = {}
    /\ need' = 0
    /\ freed' = {}
    /\ outside' = outside \cup freed
    /\ UNCHANGED <<tree, evictable_leaves, heap, num_cached_tokens, clock, held>>

Call ==
    \/ \E p \in Prompts : Match(p)
    \/ \E p \in Prompts : \E from \in 0 .. Len(p) - 1 : InsertCpu(p, from)
    \/ \E c \in Clients : \E p \in DOMAIN tree : LockPath(c, p)
    \/ \E c \in Clients : UnlockPath(c)
    \/ \E n \in 1 .. Cardinality(Slots) : EvictCall(n)

EvictStep ==
    \/ \E e \in heap : PopStale(e) \/ PopReaccessed(e) \/ PopVictim(e)
    \/ EvictReturn

Next == Call \/ EvictStep

Spec == Init /\ [][Next]_vars

-----------------------------------------------------------------------------
NodeRec == [kv : Slots, lock : Nat, last : Nat, born : Nat]

\* The variables hold values of the code's types (radix.py:20-45).
TypeOK ==
    /\ DOMAIN tree \subseteq Paths
    /\ tree \in [DOMAIN tree -> NodeRec]
    /\ evictable_leaves \subseteq DOMAIN tree
    /\ heap \subseteq [prio : Nat, path : Paths, born : Nat]
    /\ num_cached_tokens \in Nat
    /\ clock \in Nat
    /\ need \in Nat
    /\ freed \subseteq Slots
    /\ held \in [Clients -> Paths \cup {<<>>}]
    /\ outside \subseteq Slots

\* The tree has no orphan: whatever evict removes and insert adds, the path to
\* a cached node is cached, or a match would stop short of it forever and its
\* slot would be lost (radix.py:207-235).
PrefixClosed == \A q \in DOMAIN tree : PathNodes(q) \subseteq DOMAIN tree

\* "Live requests are not evicted" (radix.py:4): every node of a locked path
\* stays cached, through evictions and the unlocks of other clients.
HeldStaysCached ==
    \A c \in Clients : held[c] # <<>> => PathNodes(held[c]) \subseteq DOMAIN tree

\* A node's lock is exactly the number of clients whose path runs through it:
\* no unlock is lost in max(0, ..) and none releases another client's lock.
Holders(q) == {c \in Clients : held[c] # <<>> /\ q \in PathNodes(held[c])}

LockCountsHolders == \A q \in DOMAIN tree : tree[q].lock = Cardinality(Holders(q))

\* The incremental updates of _update_leaf_status (radix.py:51-61) never drift
\* from what they stand for: the unlocked leaves of the tree, and their number.
BookkeepingExact ==
    /\ evictable_leaves = EvictableNodes(tree)
    /\ num_cached_tokens = Cardinality(DOMAIN tree)

\* Every evictable leaf can still be popped: the heap has an entry of this very
\* node, of a priority no later than its last access (radix.py:41-45).
HeapCovers ==
    \A q \in evictable_leaves : \E e \in heap :
        e.path = q /\ e.born = tree[q].born /\ e.prio <= tree[q].last

\* Node stamps are times that have passed, and no call's slots linger after it.
Stamped ==
    /\ \A q \in DOMAIN tree : tree[q].last <= clock
    /\ need = 0 => freed = {}

\* No KV slot is lost or owned twice: each is in one node, or among those of the
\* evict call in progress, or outside the cache.
SlotsConserved ==
    /\ \A q, r \in DOMAIN tree : tree[q].kv = tree[r].kv => q = r
    /\ {tree[q].kv : q \in DOMAIN tree} \cup freed \cup outside = Slots
    /\ {tree[q].kv : q \in DOMAIN tree} \cap (freed \cup outside) = {}
    /\ freed \cap outside = {}

\* The inductive invariant.
IInv ==
    /\ TypeOK
    /\ PrefixClosed
    /\ HeldStaysCached
    /\ LockCountsHolders
    /\ BookkeepingExact
    /\ HeapCovers
    /\ Stamped
    /\ SlotsConserved

\* evict(n) stops short of n only when nothing evictable is left, although most
\* of the entries it pops may be stale (radix.py:214-232).
EvictDelivers ==
    [][need > 0 /\ need' = 0 =>
         Cardinality(freed) >= need \/ EvictableNodes(tree) = {}]_vars

\* The lazy heap and the leaf set implement LRU eviction of unlocked leaves.
LRU == INSTANCE LRUCache WITH outside <- outside \cup freed

ImplementsLRU == LRU!Spec
=============================================================================
