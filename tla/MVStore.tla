------------------------------ MODULE MVStore ------------------------------
(***************************************************************************)
(* Lin-DB as a set of versioned entries, wherever they are: a write adds   *)
(* one, a snapshot is a sequence number, and a compaction that read the    *)
(* smallest snapshot (the horizon) at its start may drop some when it is   *)
(* installed, with writes and snapshots in between (db/db_impl.cc 158-259, *)
(* 827-850, 884-890).                                                      *)
(*                                                                         *)
(* It lies between LsmTree, which says where entries are and which ones a  *)
(* compaction drops, and KVStore, which knows values only.                 *)
(***************************************************************************)
EXTENDS Naturals

CONSTANTS
  Keys,          \* user keys
  Handles        \* the Snapshot objects a caller may hold

VARIABLES
  entries,       \* [key, seq, live]: live is the ValueType
  last_sequence,
  snapshots,     \* for each handle, the set of the one snapshot it holds, or {}
  horizon        \* the smallest_snapshot of the compaction, 0 without one

vars == <<entries, last_sequence, snapshots, horizon>>

Init ==
  /\ entries = {} /\ last_sequence = 0
  /\ snapshots = [h \in Handles |-> {}] /\ horizon = 0

Write(key, live) ==
  /\ entries' = entries \cup {[key |-> key, seq |-> last_sequence + 1, live |-> live]}
  /\ last_sequence' = last_sequence + 1
  /\ UNCHANGED <<snapshots, horizon>>

GetSnapshot(h) ==
  /\ snapshots[h] = {} /\ snapshots' = [snapshots EXCEPT ![h] = {last_sequence}]
  /\ UNCHANGED <<entries, last_sequence, horizon>>

ReleaseSnapshot(h) ==
  /\ snapshots[h] # {} /\ snapshots' = [snapshots EXCEPT ![h] = {}]
  /\ UNCHANGED <<entries, last_sequence, horizon>>

(* A compaction begins: no open snapshot is before the horizon.            *)
StartCompaction(s) ==
  /\ \A h \in Handles : \A t \in snapshots[h] : s <= t
  /\ horizon' = s
  /\ UNCHANGED <<entries, last_sequence, snapshots>>

(* The newest entry of the key up to seq, in a set.                        *)
Newest(key, seq) ==
  {e \in entries : /\ e.key = key /\ e.seq <= seq
                   /\ \A f \in entries : f.key = key /\ f.seq <= seq => f.seq <= e.seq}

(* What may go together: of each key, entries up to the newest one n that  *)
(* the horizon sees - and n itself only if it is a deletion and nothing    *)
(* older stays behind that would come to light.                            *)
Droppable(dropped) ==
  \A d \in dropped : \E n \in Newest(d.key, horizon) :
    /\ d.seq <= n.seq
    /\ n \in dropped => /\ ~n.live
                        /\ \A e \in entries : e.key = d.key /\ e.seq < n.seq => e \in dropped

(* The compaction is installed, or given up.                               *)
EndCompaction(dropped) ==
  /\ Droppable(dropped)
  /\ entries' = entries \ dropped /\ horizon' = 0
  /\ UNCHANGED <<last_sequence, snapshots>>

Next ==
  \/ \E k \in Keys, live \in BOOLEAN : Write(k, live)
  \/ \E h \in Handles : GetSnapshot(h) \/ ReleaseSnapshot(h)
  \/ \E s \in 0 .. last_sequence : StartCompaction(s)
  \/ \E dropped \in SUBSET entries : EndCompaction(dropped)

Spec == Init /\ [][Next]_vars

-----------------------------------------------------------------------------
(* What a reader at seq finds: 0 for no value, or for a deletion.          *)
Visible(key, seq) == {e \in Newest(key, seq) : e.live}

Value(seen) == IF seen = {} THEN 0 ELSE (CHOOSE e \in seen : TRUE).seq

Reading(key, seq) == Value(Visible(key, seq))

(* The entries implement the map and its views: what a compaction drops,   *)
(* no reader misses, were its horizon read long ago.                       *)
KV == INSTANCE KVStore WITH
        writes <- last_sequence,
        store  <- [k \in Keys |-> Reading(k, last_sequence)],
        views  <- [h \in Handles |-> {[k \in Keys |-> Reading(k, s)] : s \in snapshots[h]}]

ImplementsKV == KV!Spec
=============================================================================
