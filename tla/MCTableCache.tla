----------------------------- MODULE MCTableCache -----------------------------
(* Two threads and three keys share a cache of charge 2 and four blocks of *)
(* memory.                                                                 *)
EXTENDS TableCache

CONSTANTS e1, e2, e3, e4, f1, f2, f3, user, background

MCEntries == {e1, e2, e3, e4}
MCKeys    == {f1, f2, f3}
MCThreads == {user, background}

Symmetry == Permutations(MCEntries) \cup Permutations(MCKeys) \cup Permutations(MCThreads)
=============================================================================
