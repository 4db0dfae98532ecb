----------------------------- MODULE MCIterators ------------------------------
(* Constants of the runs of Iterators.                                     *)
EXTENDS Iterators

MCUserKeys == {2, 4, 6}
MCTargets  == {1, 4, 5}

(* Histories of six writes of the keys h. In one layout the first four are *)
(* in a table of two blocks, in another the first five are in two tables;  *)
(* the rest is in the memtable. In the third, the first three were flushed,*)
(* and a reopen found them and the fourth in the log: the table it wrote   *)
(* has copies of the older table's entries, and snapshots are later than   *)
(* it.                                                                     *)
Histories == {h \in [1 .. 6 -> MCUserKeys] :
                h[1] = 4 /\ h[2] # h[3] /\ h[3] # h[4] /\ h[5] # h[6]}

Entry(h, t, i) == [user |-> h[i], seq |-> i, type |-> t[i]]
Part(h, t, S)  == SetToSortSeq({Entry(h, t, i) : i \in S}, Before)
Node(h, t, i, height) == [entry |-> Entry(h, t, i), height |-> height]

OneTable(h, t) ==
  [tables |-> <<Part(h, t, 1 .. 4)>>, mem |-> <<Node(h, t, 5, 2), Node(h, t, 6, 1)>>,
   last_sequence |-> 6, snapshots |-> {3, 5}]

TwoTables(h, t) ==
  [tables |-> <<Part(h, t, 4 .. 5), Part(h, t, 1 .. 3)>>, mem |-> <<Node(h, t, 6, 1)>>,
   last_sequence |-> 6, snapshots |-> {4, 6}]

Reopened(h, t) ==
  [tables |-> <<Part(h, t, 1 .. 3), Part(h, t, 1 .. 4)>>,
   mem |-> <<Node(h, t, 5, 2), Node(h, t, 6, 1)>>,
   last_sequence |-> 6, snapshots |-> {5}]

MCContents == {OneTable(h, <<1, 0, 1, 1, 0, 1>>) : h \in Histories}
                \cup {TwoTables(h, <<1, 1, 0, 1, 1, 0>>) : h \in Histories}
                \cup {Reopened(h, <<1, 1, 0, 1, 0, 1>>) : h \in Histories}
=============================================================================
