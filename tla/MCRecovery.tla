----------------------------- MODULE MCRecovery -----------------------------
(* Recovery on a few writes to two keys: the first two set the same key,   *)
(* the later ones another; a memtable is full after two records.           *)
EXTENDS Recovery

CONSTANTS k1, k2

MCKeys == {k1, k2}

MCKeyOf == [n \in 1 .. MaxWrites |-> IF n <= 2 THEN k1 ELSE k2]
=============================================================================
