------------------------------ MODULE RadixTree ------------------------------
(***************************************************************************)
(* The per-token trie of kvcache/radix.py as a value, with the operations  *)
(* of PrefixCache as operators from one tree to the next.                  *)
(*                                                                         *)
(* A _Node is identified by the token path from the root, so a tree is a   *)
(* function from the cached paths (nonempty token sequences) to the        *)
(* node's fields:                                                          *)
(*    kv    the physical KV slot that holds this token     (kv_index)      *)
(*    lock  how many live requests walk through the node   (lock)          *)
(*    last  the clock at the last match or insert          (last_access)   *)
(*    born  the clock at creation: it tells a node from a later node at    *)
(*          the same path, as object identity does in the code             *)
(* `children` and `parent` are the path order.                             *)
(***************************************************************************)
EXTENDS Integers, Sequences, FiniteSets

Pre(p, i) == SubSeq(p, 1, i)

\* The nodes a walk over the tokens p visits, the root left out.
PathNodes(p) == {Pre(p, i) : i \in 1 .. Len(p)}

EmptyTree == [p \in {} |-> [kv |-> 0, lock |-> 0, last |-> 0, born |-> 0]]

\* The nodes every lookup walks: it stops at the first missing child.
Walk(t, p) ==
    {Pre(p, i) : i \in {j \in 1 .. Len(p) : \A k \in 1 .. j : Pre(p, k) \in DOMAIN t}}

\* prefix_len: how many tokens of p are cached.
HitLen(t, p) == Cardinality(Walk(t, p))

\* match_cpu: the slots of the longest cached prefix, and the tree with the
\* walked nodes stamped with the time of the match.
MatchKV(t, p) == [i \in 1 .. HitLen(t, p) |-> t[Pre(p, i)].kv]

Touch(t, p, now) ==
    [q \in DOMAIN t |->
        IF q \in Walk(t, p) THEN [t[q] EXCEPT !.last = now] ELSE t[q]]

\* insert_cpu (from = 0) and insert_after (from = the length of the prefix it
\* walks first): past `from`, a node that exists keeps its slot and lock and is
\* stamped, and a missing one is created with the caller's slot.
NewNode(slot, now) == [kv |-> slot, lock |-> 0, last |-> now, born |-> now]

InsertFrom(t, p, from, kvs, now) ==
    [q \in DOMAIN t \cup PathNodes(p) |->
        IF q \notin DOMAIN t THEN NewNode(kvs[Len(q)], now)
        ELSE IF q \in PathNodes(p) /\ Len(q) > from THEN [t[q] EXCEPT !.last = now]
        ELSE t[q]]

Insert(t, p, kvs, now) == InsertFrom(t, p, 0, kvs, now)

\* The slots a caller may hand over for the missing nodes: its own, each once.
FreshSlots(t, p, own) ==
    LET at == {i \in 1 .. Len(p) : Pre(p, i) \notin DOMAIN t}
    IN  {kvs \in [at -> own] : \A i, j \in at : i # j => kvs[i] # kvs[j]}

\* What insert_cpu returns: the tree's own slot for every position of p.
Canonical(t, p) == [i \in 1 .. Len(p) |-> t[Pre(p, i)].kv]

\* (mutant of Lock: only the end of the path is locked)
LockEnd(t, p) ==
    [q \in DOMAIN t |-> IF q = p THEN [t[q] EXCEPT !.lock = @ + 1] ELSE t[q]]

\* lock and unlock walk the path and return at the first missing child.
Lock(t, p) ==
    [q \in DOMAIN t |->
        IF q \in Walk(t, p) THEN [t[q] EXCEPT !.lock = @ + 1] ELSE t[q]]

Unlock(t, p) ==
    [q \in DOMAIN t |->
        IF q \in Walk(t, p)
        THEN [t[q] EXCEPT !.lock = IF @ > 0 THEN @ - 1 ELSE 0]
        ELSE t[q]]

Parent(q) == Pre(q, Len(q) - 1)

HasChild(t, q) == \E r \in DOMAIN t : Len(r) = Len(q) + 1 /\ Parent(r) = q

\* The nodes that evict may remove: unlocked leaves.
EvictableNodes(t) == {q \in DOMAIN t : t[q].lock = 0 /\ ~HasChild(t, q)}

\* One round of evict: the leaf leaves its parent's children.
RemoveLeaf(t, q) == [r \in DOMAIN t \ {q} |-> t[r]]

\* The victim of an LRU eviction: no evictable leaf was used longer ago.
IsLRU(t, q) ==
    /\ q \in EvictableNodes(t)
    /\ \A r \in EvictableNodes(t) : t[q].last <= t[r].last
=============================================================================
