----------------------------- MODULE BeamSearch -----------------------------
(***************************************************************************)
(* The beam search of one request (search/expand.py, search/select.py,      *)
(* search/state.py, kernel/beam_trie.py and the scheduler's expand and      *)
(* finalize): the first beams from the prefill's logprobs, one expansion    *)
(* per decode step constrained by a SidTrie, and the ranked answer.         *)
(* A beam is a row of tokens, its cumulative logprob and its trie node; its *)
(* row of the request table names the KV of the tokens it has read.         *)
(* Logprobs are integers; -inf and NaN are two integers outside their range *)
(* that add, subtract and rank as the floats do (topk ranks NaN first).     *)
(***************************************************************************)
EXTENDS SidTrie, FiniteSetsExt

CONSTANTS
    Catalogs,     \* the catalogs to choose from, sets of code sequences
    LogProbs,     \* the models: a row of logprobs after each token, 0 for the prompt
    Configs,      \* bw (the beam width), layout, expand, sampled, eos and max_new
    Boundary,     \* is there a begin/end token pair?
    StopTokens    \* of a request that does not ignore EOS

ASSUME RequestAssumption ==
    /\ \A c \in Configs : c.bw \in Nat \ {0} /\ c.layout \in {"dense", "csr", "codebook"}
    /\ \A c \in Catalogs : IsFiniteSet(c) /\ \A codes \in c : codes \in Seq(Nat)
    /\ \A f \in LogProbs : f \in [AllTokens \cup {0} -> [AllTokens -> Int]]

\* Ties between logprobs are left out; torch leaves their order open.
ASSUME NoTies ==
    \A f \in LogProbs : \A p \in AllTokens \cup {0} : \A t, u \in AllTokens :
        t # u => f[p][t] # f[p][u]

VARIABLES
    catalog, logprob, cfg,  \* of the request, fixed from the start
    trie,        \* the constraint, built at engine start
    beams,       \* the live frontier, best first
    kv,          \* kv[i]: the tokens whose KV row i names after the prompt
    completed,   \* sequences that ended before the last step
    phase,       \* prefill, decode, finished, answered or failed
    answer       \* the ranked sequences of the response

vars == <<catalog, logprob, cfg, trie, beams, kv, completed, phase, answer>>
request == <<catalog, logprob, cfg, trie>>

-----------------------------------------------------------------------------
(* Scores. *)

NegInf == -1000000
NaN == 1000000
Dead(score) == score \in {NegInf, NaN}
Plus(a, b) == IF NaN \in {a, b} THEN NaN ELSE IF NegInf \in {a, b} THEN NegInf ELSE a + b
Minus(a, b) ==
    IF a = NegInf /\ b # NegInf THEN NegInf ELSE IF Dead(a) \/ Dead(b) THEN NaN ELSE a - b

BW == cfg.bw
Candidates == 2 * BW
Smaller(a, b) == IF a < b THEN a ELSE b

\* topk: the sets of k candidates that no other outranks.
TopSets(C, Rank(_), k) ==
    LET above == {c \in C : Cardinality({d \in C : Rank(d) >= Rank(c)}) <= k}
        ties == {c \in C \ above : Cardinality({d \in C : Rank(d) > Rank(c)}) < k}
    IN  {above \cup T : T \in kSubset(k - Cardinality(above), ties)}

\* The selected candidates, best first.
Ranked(T) ==
    Sorted(T, LAMBDA c, d :
        \/ c.score > d.score
        \/ c.score = d.score /\ (c.row < d.row \/ (c.row = d.row /\ c.place < d.place)))

-----------------------------------------------------------------------------
Level == Len(beams[1].toks)    \* generated_len

GenerationLimit ==
    IF Boundary /\ trie.depth > 0 /\ cfg.max_new >= trie.depth + 2
    THEN trie.depth ELSE cfg.max_new

PoolOfWidth(prev, level) ==         \* mutant: cut to the beam width
    LET toks == Sorted(LevelTokens(level), LAMBDA t, u : logprob[prev][t] > logprob[prev][u])
    IN  SubSeq(toks, 1, Smaller(BW, Len(toks)))

\* The best tokens of one row of logprobs over the active codebook.
Pool(prev, level) ==
    LET toks == Sorted(LevelTokens(level), LAMBDA t, u : logprob[prev][t] > logprob[prev][u])
    IN  SubSeq(toks, 1, Smaller(Candidates, Len(toks)))

\* mask_candidates over one row's pool: candidates with their cumulative score.
RowCands(i, prev, cum, node, level) ==
    LET pool == Pool(prev, level) IN
    {[row |-> i, place |-> j, tok |-> pool[j],
      score |-> IF MaskOk(trie, node, pool[j], level)
                THEN Plus(cum, logprob[prev][pool[j]]) ELSE NegInf] : j \in DOMAIN pool}

Cands ==
    UNION {RowCands(i, Last(beams[i].toks), beams[i].cum, beams[i].node, Level) :
           i \in DOMAIN beams}

\* select_final_topk and joint_select get step logprobs, the masked scores less
\* the row's cumulative logprob, and add it again.
Rescored(C) ==
    {[c EXCEPT !.score = LET cum == beams[c.row].cum IN Plus(cum, Minus(@, cum))] : c \in C}

\* What topk ranks by; Gumbel noise puts the finite scores in any order.
Rank(c) == IF cfg.sampled /\ ~Dead(c.score) THEN 0 ELSE c.score

ExtendTwice(c) ==                   \* mutant: the cumulative logprob counted twice
    LET b == beams[c.row] IN
    [toks |-> Append(b.toks, c.tok), cum |-> Plus(b.cum, c.score),
     node |-> Transition(trie, b.node, c.tok)]

\* expand_token_ids and advance_node_ids: the parent's row and one token more.
Extend(c) ==
    LET b == beams[c.row] IN
    [toks |-> Append(b.toks, c.tok), cum |-> c.score, node |-> Transition(trie, b.node, c.tok)]

Init ==
    /\ catalog \in Catalogs /\ logprob \in LogProbs /\ cfg \in Configs
    /\ trie = BuildTrie(ValidSequences(catalog), cfg.layout)
    /\ beams = <<>> /\ kv = <<>> /\ completed = {} /\ answer = <<>>
    /\ phase = "prefill"

-----------------------------------------------------------------------------
(* init_from_prefill.  The pool is cut before the mask. *)

FirstBeams ==
    LET Beam(c) == [toks |-> <<c.tok>>, cum |-> c.score, node |-> Resolved(trie, <<c.tok>>)]
    IN  {[i \in 1 .. BW |-> Beam(Ranked(T)[i])] :
            T \in TopSets(RowCands(1, 0, 0, 0, 0), Rank, BW)}

Prefill ==
    /\ phase = "prefill"
    /\ Len(Pool(0, 0)) >= BW
    /\ beams' \in FirstBeams
    /\ kv' = [i \in 1 .. BW |-> <<>>]
    /\ phase' = IF GenerationLimit <= 1 THEN "finished" ELSE "decode"
    /\ UNCHANGED <<request, completed, answer>>

\* topk < beam_width raises.
PrefillFails ==
    /\ phase = "prefill"
    /\ Len(Pool(0, 0)) < BW
    /\ phase' = "failed"
    /\ UNCHANGED <<request, beams, kv, completed, answer>>

-----------------------------------------------------------------------------
(* One decode step. *)

WillFinish == Level + 1 >= GenerationLimit

\* _expand_decode_body: the fused expand needs the dense tables, no EOS, no noise.
\* It is the CUDA kernel or, without one, the same in PyTorch.
Fused == cfg.expand # "eager" /\ trie.layout = "dense" /\ ~cfg.eos /\ ~cfg.sampled
Joint == cfg.eos /\ ~WillFinish

\* The forward writes the KV of each row's last token.
Forwarded == [i \in DOMAIN kv |-> Append(kv[i], Last(beams[i].toks))]

\* (mutant: the column the forward has just written is left out)
RemappedShort(parents) ==
    [i \in DOMAIN kv |-> Append(kv[parents[i]], Last(beams[i].toks))]

\* remap_by_parents: every row takes over its parent's decode columns, unless the
\* frontier has shrunk.
Remapped(parents) ==
    IF Len(parents) # Len(kv) THEN Forwarded
    ELSE [i \in DOMAIN kv |-> Forwarded[parents[i]]]

\* The chosen candidates become the frontier.  After the last step no KV is read.
Apply(chosen, last) ==
    /\ beams' = [i \in DOMAIN chosen |-> Extend(chosen[i])]
    /\ kv' = IF last THEN Forwarded ELSE Remapped([i \in DOMAIN chosen |-> chosen[i].row])

\* genrec_mask_topk_expand: each row's pool is walked best first past what the
\* mask removed.  When all pools are used up the beam is a copy of the first
\* row's first candidate, with no probability.
ExpandKernel ==
    /\ phase = "decode" /\ Fused /\ cfg.expand = "kernel"
    /\ LET C == Cands
           live == {c \in C : c.score # NegInf}
           n == Smaller(BW, Cardinality(live))
           first == CHOOSE c \in C : c.row = 1 /\ c.place = 1
       IN  \E T \in TopSets(live, Rank, n) :
               LET best == Ranked(T) IN
               Apply([i \in 1 .. BW |->
                         IF i <= n THEN best[i] ELSE [first EXCEPT !.score = NegInf]],
                     WillFinish)
    /\ phase' = IF WillFinish THEN "finished" ELSE "decode"
    /\ UNCHANGED <<request, completed, answer>>

\* The best BW of the candidates C become the frontier.
KeepBest(C) == \E T \in TopSets(C, Rank, BW) : Apply(Ranked(T), WillFinish)

\* topk over the masked scores: the fused expand in PyTorch, and expand_step
\* without EOS before the last step.
ExpandTopk ==
    /\ phase = "decode"
    /\ IF Fused THEN cfg.expand = "torch" ELSE ~WillFinish /\ ~Joint
    /\ KeepBest(Cands)
    /\ phase' = IF WillFinish THEN "finished" ELSE "decode"
    /\ UNCHANGED <<request, completed, answer>>

\* expand_step at the length limit: select_final_topk, whatever the stop tokens.
ExpandLast ==
    /\ phase = "decode" /\ ~Fused /\ WillFinish
    /\ KeepBest(Rescored(Cands))
    /\ phase' = "finished"
    /\ UNCHANGED <<request, completed, answer>>

\* expand_step with EOS (joint_select): as many candidates as one row has are
\* ranked over all rows.  A stop token ends its sequence while fewer than BW
\* others precede it; the others go on.
ExpandJoint ==
    /\ phase = "decode" /\ ~Fused /\ Joint
    /\ \E T \in TopSets(Rescored(Cands), Rank, Len(Pool(Last(beams[1].toks), Level))) :
        LET ranked == Ranked(T)
            IsStop(c) == c.tok \in StopTokens
            Before(i) == {j \in 1 .. i - 1 : ~IsStop(ranked[j])}
            examined == {i \in DOMAIN ranked : Cardinality(Before(i)) < BW}
            finished == {ranked[i] : i \in {j \in examined : IsStop(ranked[j])}}
            survivors == {ranked[i] : i \in {j \in examined : ~IsStop(ranked[j])}}
            surv == Ranked(survivors)
        IN  /\ completed' = completed \cup {Extend(c) : c \in finished}
            /\ IF survivors = {} THEN beams' = beams /\ kv' = Forwarded ELSE Apply(surv, FALSE)
            /\ phase' = IF survivors = {} THEN "finished" ELSE "decode"
    /\ UNCHANGED <<request, answer>>

-----------------------------------------------------------------------------
(* Finalize.  Sequences that ended on a stop token keep out all the others. *)

\* beam_score: the length penalty is 1; a / m is above b / n.  NaN comes last.
Better(a, b) ==
    \/ b.cum = NaN /\ a.cum # NaN
    \/ NaN \notin {a.cum, b.cum} /\ a.cum * Len(b.toks) > b.cum * Len(a.toks)

\* The stable order of argsort and of list.sort.
Finalize ==
    /\ phase = "finished"
    /\ LET all == IF completed = {} THEN beams ELSE SetToSeq(completed)
           order == Sorted(DOMAIN all, LAMBDA i, j :
               Better(all[i], all[j]) \/ (~Better(all[j], all[i]) /\ i < j))
       IN  answer' = [k \in 1 .. Smaller(BW, Len(all)) |-> all[order[k]]]
    /\ phase' = "answered"
    /\ UNCHANGED <<request, beams, kv, completed>>

Next ==
    \/ Prefill \/ PrefillFails
    \/ ExpandKernel \/ ExpandTopk \/ ExpandLast \/ ExpandJoint
    \/ Finalize

Spec == Init /\ [][Next]_vars
-----------------------------------------------------------------------------
(* What makes the search correct. *)

Items == ValidSequences(catalog)
Constrained == trie.layout # "codebook"

\* A path that may be served: a prefix of an item, or an item and whatever
\* follows it; with allowlists, tokens of the codebooks in turn.
Legal(p) ==
    IF Constrained
    THEN \E s \in Items : IsPrefix(p, s) \/ (Len(s) = Depth(Items) /\ IsPrefix(s, p))
    ELSE \A i \in DOMAIN p : p[i] \in LevelTokens(i - 1)

PathScore(p) ==
    FoldLeft(LAMBDA a, b : a + b, 0,
             [i \in DOMAIN p |-> logprob[IF i = 1 THEN 0 ELSE p[i - 1]][p[i]]])

Live(b) == ~Dead(b.cum)
LiveOf(rows) == {[toks |-> b.toks, cum |-> b.cum] : b \in {c \in Range(rows) : Live(c)}}

\* The node a prefix stands at, looked up in the catalog.
NodeOf(p) ==
    CASE ~Constrained -> 0
      [] Constrained /\ p \in ProperPrefixes(Items) ->
            (CHOOSE i \in DOMAIN NodeOrder(Items) : NodeOrder(Items)[i] = p) - 1
      [] Constrained /\ p \notin ProperPrefixes(Items) ->
            IF Len(p) >= Depth(Items) /\ Legal(p) THEN Unconstrained ELSE trie.invalid

\* The tables the kernels read allow, at every node, the continuations of the
\* catalog and no others: sorted keys and clamped lookups included.
TablesFollowCatalog ==
    Constrained =>
        \A node \in 0 .. trie.invalid, tok \in Base - 1 .. Base + Vocab :
            MaskOk(trie, node, tok, 0) <=>
                node < trie.invalid /\ tok \in Children(Items, NodeOrder(Items)[node + 1])

\* The node ids are those of the rows' tokens, in dead rows and beyond the trie too.
NodesFollow == \A i \in DOMAIN beams : beams[i].node = NodeOf(beams[i].toks)

\* The forward attends to the KV of each row's own path.
KVFollows == phase = "decode" => \A i \in DOMAIN beams : kv[i] = Front(beams[i].toks)

\* What is gathered by parent apart from the tokens belongs to them after every
\* step.
RowsFollowTokens == NodesFollow /\ KVFollows

\* A beam that can still win is legal and its score is that of its tokens: rows,
\* scores and nodes were gathered from the same parent at every step.
LiveAreSound ==
    \A b \in Range(beams) \cup completed : Live(b) => Legal(b.toks) /\ b.cum = PathScore(b.toks)

\* With twice as many candidates as beams one stop token cannot thin the frontier.
WidthKept == phase # "prefill" /\ phase # "failed" => Len(beams) = BW

NothingTwice ==
    \A i, j \in DOMAIN beams :
        i # j /\ Live(beams[i]) /\ Live(beams[j]) => beams[i].toks # beams[j].toks

\* The frontier holds legal beams with their scores, no item twice, and keeps its
\* width.
FrontierSound == LiveAreSound /\ WidthKept /\ NothingTwice

\* The legal continuations of the frontier, when the pools cover the codebook.
Continuations ==
    LET legal == {e \in LiveOf(beams) \X LevelTokens(Level) : Legal(Append(e[1].toks, e[2]))}
    IN  {[toks |-> Append(e[1].toks, e[2]),
          cum |-> e[1].cum + logprob[Last(e[1].toks)][e[2]]] : e \in legal}
Covered == Cardinality(LevelTokens(Level)) <= Candidates

\* Does a step keep the best BW legal continuations, live ones as long as there
\* are any?
BestKept ==
    LET all == Continuations
        kept == LiveOf(beams')
    IN  /\ kept \subseteq all
        /\ Cardinality(kept) = Smaller(BW, Cardinality(all))
        /\ ~cfg.sampled => \A x \in kept, y \in all \ kept : x.cum >= y.cum

DeadRowsAtTheEnd == ~Fused /\ WillFinish /\ \E b \in Range(beams) : Dead(b.cum)
Expands == phase = "decode" /\ ~Joint /\ Covered

\* Every expand, fused or not, sampled or not, keeps as many legal beams as there
\* are, the best ones unless noise chose; dead rows never displace a live one,
\* except in the eager last step.
KeepsBest == [][Expands /\ ~DeadRowsAtTheEnd => BestKept]_vars

\* select_final_topk: "the best beam_width extensions all finish".
LastKeepsBest == [][Expands /\ WillFinish => BestKept]_vars

\* A response carries every item of a catalog that fits its width, if no eager
\* last step met a dead row.
EveryItemServed ==
    phase = "answered" /\ Constrained /\ Fused /\ GenerationLimit = Depth(Items)
    /\ (\A l \in 0 .. Levels - 1 : Sizes[l + 1] <= Candidates)
    /\ Cardinality(Items) <= BW
        => {s \in Items : Len(s) = Depth(Items)} \subseteq {b.toks : b \in LiveOf(answer)}
=============================================================================
