---------------------------- MODULE MCBeamSearch ----------------------------
(* Instances of BeamSearch for TLC. *)
EXTENDS BeamSearch

MCSizes == <<2, 3, 2>>

\* Every set of one to three items of full depth, one with a short item that
\* leads nowhere, and one with a key that is no code.
FullItems == {<<a, b, c>> : a \in 0 .. 1, b \in 0 .. 2, c \in 0 .. 1}
MCCatalogs ==
    {{<<0, 0, 0>>, <<0, 1>>, <<1, 2, 1>>}, {<<1, 1, 0>>, <<1, 3, 0>>, <<1, 1, 1>>}}
    \cup UNION {kSubset(n, {s \in FullItems : s[3] = 0 \/ s[2] = 0}) : n \in 1 .. 3}

MCTokens == 1 .. 7
\* Two models whose preferences depend on the previous token.
MCLogProbs ==
    {[p \in MCTokens \cup {0} |-> [t \in MCTokens |-> 0 - (1 + ((a * p + b * t) % 11))]] :
        <<a, b>> \in {<<1, 3>>, <<4, 7>>}}

Config(bw, layout, expand, sampled, eos, max_new) ==
    [bw |-> bw, layout |-> layout, expand |-> expand, sampled |-> sampled, eos |-> eos,
     max_new |-> max_new]

\* Requests that end with the item, before it and after it; a width the first
\* codebook cannot fill; a pool that does not cover the second codebook.
MCConfigs ==
    {Config(2, "dense", "kernel", FALSE, FALSE, 5), Config(2, "dense", "torch", FALSE, FALSE, 4),
     Config(2, "csr", "kernel", FALSE, FALSE, 3), Config(2, "csr", "eager", TRUE, FALSE, 2),
     Config(2, "codebook", "eager", FALSE, TRUE, 3), Config(2, "codebook", "eager", FALSE, FALSE, 1),
     Config(1, "dense", "kernel", FALSE, FALSE, 5), Config(3, "dense", "kernel", FALSE, FALSE, 5)}

\* A large trie is searched by the eager step.
EagerConfigs == {Config(2, "csr", "kernel", FALSE, FALSE, 5)}
=============================================================================
