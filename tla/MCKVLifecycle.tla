---------------------------- MODULE MCKVLifecycle ----------------------------
(* Instances of KVLifecycle for TLC. *)
EXTENDS KVLifecycle

MCReqs == 1 .. 4
MCLimit == <<2, 2, 3, 1>>
MCWidth == <<1, 2, 1, 1>>

Setup(prompt, pinned, slots, rows, cap) ==
    [prompt |-> prompt, pinned |-> pinned, slots |-> slots, rows |-> rows, cap |-> cap]

\* A common prefix of all, a longer one of two of them, which are the same.
SharedPrompts == <<<<2, 2, 2>>, <<1, 1, 2, 1, 1>>, <<1, 1, 2, 1>>, <<1, 2>>>>

\* Nothing in common: no lookup hits.
DisjointPrompts == <<<<1, 1, 1>>, <<2, 2>>, <<3>>, <<4, 4>>>>

\* Hits, duplicates and a full cache in pools that hold everything; pools so
\* small that they evict and run out.
MCSetups == {Setup(SharedPrompts, <<1, 1>>, 20, 10, 4), Setup(DisjointPrompts, <<>>, 7, 5, 8)}

\* Hits in a pool that has to evict.
EvictingSetups == {Setup(SharedPrompts, <<>>, 8, 10, 8)}

\* A pinned prefix longer than MaxIns.
LongPinSetups == {Setup(SharedPrompts, <<1, 1, 2>>, 20, 10, 8)}
=============================================================================
