------------------------------ MODULE SidTrie ------------------------------
(***************************************************************************)
(* The constraint of the beam search (search/trie.py): the catalog of SIDs  *)
(* as a prefix trie, in the two layouts the kernels read, dense tables and  *)
(* sorted edge keys (CSR), and the allowlist per codebook.  A node id is    *)
(* the place of a proper prefix in (length, lexicographic) order, the root  *)
(* is 0; one more id stands for "no such prefix" and -1 for a path that has *)
(* left the trie at its full depth and may go on with any token.            *)
(***************************************************************************)
EXTENDS Integers, Sequences, FiniteSets, SequencesExt

CONSTANTS
    Sizes,     \* the codebook sizes, one per level
    Base       \* the first token id of the SID range

ASSUME SizesAssumption == Sizes \in Seq(Nat \ {0}) \ {<<>>} /\ Base \in Nat

\* The members of T in the order Before.
Sorted(T, Before(_, _)) ==
    [i \in 1 .. Cardinality(T) |->
        CHOOSE x \in T : Cardinality({y \in T : Before(y, x)}) = i - 1]

Levels == Len(Sizes)
Offset(l) == FoldLeft(LAMBDA a, b : a + b, 0, SubSeq(Sizes, 1, l))
Vocab == Offset(Levels)
Codebook(l) == Base + Offset(l) .. Base + Offset(l + 1) - 1
AllTokens == Base .. Base + Vocab - 1

\* narrow_to_codebook_level, compute_level: the tokens the head is evaluated on
\* at a level; past the last codebook it is the whole SID range.
LevelTokensAll(l) == AllTokens      \* mutant
LevelTokens(l) == IF l < Levels THEN Codebook(l) ELSE AllTokens

-----------------------------------------------------------------------------
(* From the catalog to the trie. *)

ValidCodes(codes) ==
    /\ codes # <<>> /\ Len(codes) <= Levels
    /\ \A i \in DOMAIN codes : codes[i] \in 0 .. Sizes[i] - 1

TokensOf(codes) == [i \in DOMAIN codes |-> Base + Offset(i - 1) + codes[i]]

\* build_trie_from_sid2vid_file skips the keys that are not codes.
ValidSequences(catalog) == {TokensOf(codes) : codes \in {c \in catalog : ValidCodes(c)}}

ProperPrefixes(S) == {<<>>} \cup UNION {{SubSeq(s, 1, i) : i \in 0 .. Len(s) - 1} : s \in S}
Children(S, p) == {s[Len(p) + 1] : s \in {t \in S : Len(t) > Len(p) /\ IsPrefix(p, t)}}
Depth(S) == IF S = {} THEN 0 ELSE CHOOSE n \in {Len(s) : s \in S} : \A s \in S : Len(s) <= n

PrefixBefore(p, q) ==
    \/ Len(p) < Len(q)
    \/ /\ Len(p) = Len(q)
       /\ \E i \in DOMAIN p : p[i] < q[i] /\ SubSeq(p, 1, i - 1) = SubSeq(q, 1, i - 1)

NodeOrder(S) == Sorted(ProperPrefixes(S), PrefixBefore)
Unconstrained == -1

\* The id an edge leads to: the child's, the end of a full path, or nowhere.
ChildId(S, order, p, tok) ==
    LET q == Append(p, tok) IN
    CASE Contains(order, q) -> (CHOOSE i \in DOMAIN order : order[i] = q) - 1
      [] ~Contains(order, q) /\ Len(q) >= Depth(S) -> Unconstrained
      [] OTHER -> Len(order)

Edges(S, order) ==
    {e \in (0 .. Len(order) - 1) \X (0 .. Vocab - 1) :
        Base + e[2] \in Children(S, order[e[1] + 1])}

EdgeChild(S, order, e) == ChildId(S, order, order[e[1] + 1], Base + e[2])

\* finalize_index and _ensure_gpu_cache: one row more than there are nodes, with
\* nothing allowed in it.
DenseTrie(S) ==
    LET order == NodeOrder(S)
        edges == Edges(S, order)
        cells == (0 .. Len(order)) \X (0 .. Vocab - 1)
    IN  [layout |-> "dense", invalid |-> Len(order), depth |-> Depth(S),
         allow |-> [e \in cells |-> e \in edges],
         next |-> [e \in cells |-> IF e \in edges THEN EdgeChild(S, order, e) ELSE Len(order)]]

\* _build_csr_cache: the edges as sorted keys, and the child of each.
CsrTrie(S) ==
    LET order == NodeOrder(S)
        Key(e) == e[1] * Vocab + e[2]
        edges == Sorted(Edges(S, order), LAMBDA d, e : Key(d) < Key(e))
    IN  [layout |-> "csr", invalid |-> Len(order), depth |-> Depth(S),
         keys |-> [i \in DOMAIN edges |-> Key(edges[i])],
         child |-> [i \in DOMAIN edges |-> EdgeChild(S, order, edges[i])]]

\* build_codebook_constraint: step l allows the tokens of codebook l.
CodebookTrie == [layout |-> "codebook", invalid |-> 0, depth |-> Levels]

\* build_beam_valid_path: an empty catalog falls back to the codebooks.
BuildTrie(S, layout) ==
    CASE layout = "codebook" \/ S = {} -> CodebookTrie
      [] layout = "dense" /\ S # {} -> DenseTrie(S)
      [] layout = "csr" /\ S # {} -> CsrTrie(S)

-----------------------------------------------------------------------------
(* Lookups. *)

InRangeClamped(tok) == TRUE         \* mutant: the clamped lookup decides
InRange(tok) == tok - Base \in 0 .. Vocab - 1
Clamp(x, lo, hi) == IF x < lo THEN lo ELSE IF x > hi THEN hi ELSE x

\* _csr_lookup: searchsorted (the number of smaller keys), clamped to the last
\* edge; 0 is "not found".
CsrFind(trie, node, tok) ==
    LET key == (IF node < 0 THEN 0 ELSE node) * Vocab + Clamp(tok - Base, 0, Vocab - 1)
        e == Len(trie.keys)
        idx == Cardinality({i \in 1 .. e : trie.keys[i] < key})
    IN  IF e > 0 /\ idx < e /\ trie.keys[Clamp(idx, 0, e - 1) + 1] = key THEN idx + 1 ELSE 0

DenseCell(trie, node, tok) ==
    <<Clamp(node, 0, trie.invalid), Clamp(tok - Base, 0, Vocab - 1)>>

\* The mask kernel, for a node of the trie.
DenseAllows(trie, node, tok) == InRange(tok) /\ trie.allow[DenseCell(trie, node, tok)]

\* _mask_step_allowlist: one allowlist per step, then all tokens.
StepAllow(level) == IF level < Levels THEN Codebook(level) ELSE AllTokens

\* mask_candidates: is tok a legal continuation of a beam at node?  level is read
\* by the allowlists only.
MaskOk(trie, node, tok, level) ==
    \/ trie.layout = "codebook" /\ tok \in StepAllow(level)
    \/ trie.layout # "codebook" /\ node < 0
    \/ trie.layout = "dense" /\ DenseAllows(trie, node, tok)
    \/ trie.layout = "csr" /\ InRange(tok) /\ CsrFind(trie, node, tok) # 0

\* The child an edge leads to, for a node of the trie and a token of the range.
NextNode(trie, node, tok) ==
    IF trie.layout = "dense" THEN trie.next[DenseCell(trie, node, tok)]
    ELSE LET i == CsrFind(trie, node, tok) IN IF i # 0 THEN trie.child[i] ELSE trie.invalid

\* advance_node_ids for one beam; the allowlists keep no node ids (0 stands for
\* none).
Transition(trie, node, tok) ==
    IF trie.layout = "codebook" THEN 0
    ELSE IF node < 0 THEN node
    ELSE IF InRange(tok) THEN NextNode(trie, node, tok) ELSE trie.invalid

\* _resolve_node_ids: the walk from the root, once after the prefill.
Resolved(trie, toks) == FoldLeft(LAMBDA node, tok : Transition(trie, node, tok), 0, toks)
=============================================================================
