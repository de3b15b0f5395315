------------------------------ MODULE Selection ------------------------------
(* What the scheduler's loops do with lists of requests: the list comprehension
   [x for x in s if x in S], and dealing requests to the pipes. *)
EXTENDS Integers, Sequences, FiniteSets, SequencesExt

\* The members of the sequence s that are in S, in their order.
Only(s, S) ==
    FoldLeft(LAMBDA kept, x : IF x \in S THEN Append(kept, x) ELSE kept, <<>>, s)

\* _spread_reqs: one by one onto the shortest of the pipes in free.  No pipe is
\* launched meanwhile, so either all are placed or none.
Shortest(ps, free) ==
    CHOOSE i \in free : \A j \in free :
        Len(ps[i]) < Len(ps[j]) \/ (Len(ps[i]) = Len(ps[j]) /\ i <= j)

Spread(ps, free, rs) ==
    FoldLeft(LAMBDA acc, r : [acc EXCEPT ![Shortest(acc, free)] = Append(@, r)], ps, rs)
=============================================================================
