----------------------------- MODULE MCLsmTree -----------------------------
(* LsmTree on two keys and three levels.  Every limit is so small that a   *)
(* few writes reach the last level, and an output file holds one entry, so *)
(* that the versions of a key which a snapshot keeps lie in several files. *)
EXTENDS LsmTree

CONSTANTS h1

MCKeys == {1, 2}

MCMaxBytes == [l \in 1 .. NumLevels - 1 |-> IF l = NumLevels - 1 THEN 20 ELSE 1]

MCWorkload == [n \in 1 .. MaxWrites |-> [key : MCKeys, live : BOOLEAN]]

(* Four keys, in an order that makes level-0 files overlap in chains.     *)
WideKeys == 1 .. 4

WideWorkload ==
  LET Put(S) == [key : S, live : {TRUE}]
  IN <<Put({3}), Put({2, 3}), Put({3}), Put({4}), Put({1, 3}), Put({2}), [key : {1, 3}, live : {FALSE}]>>
=============================================================================
