------------------------------ MODULE KVStore ------------------------------
(***************************************************************************)
(* What Lin-DB promises to the caller of the DB interface                  *)
(* (include/lindb/db.h 14-41): a map from keys to values, and snapshots,   *)
(* each a consistent view of the map at one moment.                        *)
(*                                                                         *)
(* A value is known by the number of the write that put it there; 0 stands *)
(* for a key without value.  No step other than a write changes the map,   *)
(* and nothing at all changes an open view.                                *)
(***************************************************************************)
EXTENDS Naturals

CONSTANTS
  Keys,      \* user keys
  Handles    \* the Snapshot objects a caller may hold

VARIABLES
  writes,    \* number of writes so far
  store,     \* [Keys -> Nat]: the write each key's value comes from
  views      \* for each handle, the set of the one view it holds, or {}

vars == <<writes, store, views>>

Init ==
  /\ writes = 0
  /\ store = [k \in Keys |-> 0]
  /\ views = [h \in Handles |-> {}]

Put(k) ==
  /\ writes' = writes + 1
  /\ store' = [store EXCEPT ![k] = writes + 1]
  /\ UNCHANGED views

Delete(k) ==
  /\ writes' = writes + 1
  /\ store' = [store EXCEPT ![k] = 0]
  /\ UNCHANGED views

GetSnapshot(h) ==
  /\ views[h] = {}
  /\ views' = [views EXCEPT ![h] = {store}]
  /\ UNCHANGED <<writes, store>>

ReleaseSnapshot(h) ==
  /\ views[h] # {}
  /\ views' = [views EXCEPT ![h] = {}]
  /\ UNCHANGED <<writes, store>>

Next ==
  \/ \E k \in Keys : Put(k) \/ Delete(k)
  \/ \E h \in Handles : GetSnapshot(h) \/ ReleaseSnapshot(h)

Spec == Init /\ [][Next]_vars
=============================================================================
