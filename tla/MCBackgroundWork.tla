-------------------------- MODULE MCBackgroundWork --------------------------
(* BackgroundWork on two DBImpl objects that share the Env.  A memtable is *)
(* full after one entry: d1's second and third writes rotate and flush,   *)
(* once, and either may open with enough level-0 files for a compaction.   *)
EXTENDS BackgroundWork

CONSTANTS d1, d2

MCDBs == {d1, d2}

MCMaxWrites == [d \in MCDBs |-> IF d = d1 THEN 3 ELSE 1]
=============================================================================
