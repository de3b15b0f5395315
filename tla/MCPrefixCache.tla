---------------------------- MODULE MCPrefixCache ----------------------------
(* Instances of PrefixCache for TLC. *)
EXTENDS PrefixCache, TLC

CONSTANTS s1, s2, s3, s4, c1, c2

\* Two branches below a shared token, and a prompt of its own.
MCPrompts == {<<1, 1, 1>>, <<1, 2>>, <<2>>}

MCSlots == {s1, s2, s3, s4}
MCClients == {c1, c2}

Symmetry == Permutations(MCSlots) \cup Permutations(MCClients)
=============================================================================
