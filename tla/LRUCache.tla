------------------------------ MODULE LRUCache ------------------------------
(***************************************************************************)
(* What the prefix cache promises, without the bookkeeping of              *)
(* kvcache/radix.py: a tree of cached prefixes in which an eviction takes  *)
(* an unlocked leaf, and among those one that was not used for longest.    *)
(***************************************************************************)
EXTENDS RadixTree

CONSTANTS Prompts, Clients, Slots

VARIABLES
    tree,       \* the cached prefixes
    clock,      \* time of the last match or insert
    held,       \* held[c]: the path client c has locked, <<>> if none
    outside     \* the slots the tree does not own

lruVars == <<tree, clock, held, outside>>

Init ==
    /\ tree = EmptyTree
    /\ clock = 0
    /\ held = [c \in Clients |-> <<>>]
    /\ outside = Slots

Match(p) ==
    /\ clock' = clock + 1
    /\ tree' = Touch(tree, p, clock')
    /\ UNCHANGED <<held, outside>>

InsertCpu(p, from) ==
    /\ clock' = clock + 1
    /\ \E kvs \in FreshSlots(tree, p, outside) :
         /\ tree' = InsertFrom(tree, p, from, kvs, clock')
         /\ outside' = outside \ {kvs[i] : i \in DOMAIN kvs}
    /\ UNCHANGED held

LockPath(c, p) ==
    /\ held[c] = <<>>
    /\ held' = [held EXCEPT ![c] = p]
    /\ tree' = [q \in DOMAIN tree |->
                   IF q \in PathNodes(p) THEN [tree[q] EXCEPT !.lock = @ + 1] ELSE tree[q]]
    /\ UNCHANGED <<clock, outside>>

UnlockPath(c) ==
    /\ held[c] # <<>>
    /\ held' = [held EXCEPT ![c] = <<>>]
    /\ tree' = [q \in DOMAIN tree |->
                   IF q \in PathNodes(held[c]) THEN [tree[q] EXCEPT !.lock = @ - 1] ELSE tree[q]]
    /\ UNCHANGED <<clock, outside>>

EvictLRU(q) ==
    /\ IsLRU(tree, q)
    /\ tree' = RemoveLeaf(tree, q)
    /\ outside' = outside \cup {tree[q].kv}
    /\ UNCHANGED <<clock, held>>

Next ==
    \/ \E p \in Prompts : Match(p)
    \/ \E p \in Prompts : \E from \in 0 .. Len(p) - 1 : InsertCpu(p, from)
    \/ \E c \in Clients : \E p \in DOMAIN tree : LockPath(c, p)
    \/ \E c \in Clients : UnlockPath(c)
    \/ \E q \in DOMAIN tree : EvictLRU(q)

Spec == Init /\ [][Next]_lruVars
=============================================================================
