------------------------------ MODULE TableCache ------------------------------
(***************************************************************************)
(* The table cache (db/table_cache.cc) and the block cache (Table's        *)
(* BlockReader in db/table.cc) as the user thread and the background       *)
(* thread use them: look the key up, on a miss read the file and insert    *)
(* what was read.  Nothing locks the cache, and both threads may be        *)
(* between the lookup and the insertion.  A handle is held by an iterator, *)
(* or for the length of a Get; either thread may destroy the iterator.     *)
(***************************************************************************)
EXTENDS LRUCache

CONSTANTS
  Threads,       \* the threads that read tables
  NoKey          \* the thread is not reading a file

ASSUME TableCacheAssumption == NoKey \notin Keys

VARIABLE opening \* [Threads -> Keys \cup {NoKey}] the table or block being read

vars == <<cacheVars, opening>>

TableInit == Init /\ opening = [t \in Threads |-> NoKey]

(* The lookup finds the table or the block.                                *)
FindHit(t, file) == opening[t] = NoKey /\ Lookup(file) /\ UNCHANGED opening

(* The lookup misses.                                                      *)
FindMiss(t, file) ==
  /\ phase = "open" /\ opening[t] = NoKey /\ table[file] = NoEntry
  /\ opening' = [opening EXCEPT ![t] = file]
  /\ UNCHANGED cacheVars

(* What was read is inserted: a table with charge 1, a block with its size.*)
OpenTable(t, c, e) ==
  /\ opening[t] # NoKey
  /\ Insert(opening[t], c, e)
  /\ opening' = [opening EXCEPT ![t] = NoKey]

(* The file cannot be opened or read, or fill_cache is not set for a block *)
(* and the iterator owns it.                                               *)
OpenFails(t) ==
  /\ opening[t] # NoKey
  /\ opening' = [opening EXCEPT ![t] = NoKey]
  /\ UNCHANGED cacheVars

(* Get returns, or the cleanup UnrefEntry of an iterator runs.             *)
ReleaseTable(t, e) == opening[t] = NoKey /\ Release(e) /\ UNCHANGED opening

(* Evict, a public method no caller in the program uses.                   *)
Evict(t, file) == opening[t] = NoKey /\ Erase(file) /\ UNCHANGED opening

(* ~TableCache, after both threads are done.                               *)
DestroyTableCache ==
  /\ \A t \in Threads : opening[t] = NoKey
  /\ Destroy /\ UNCHANGED opening

Terminated == phase # "open" /\ UNCHANGED vars

ThreadStep(t) ==
  \/ \E file \in Keys : FindHit(t, file) \/ FindMiss(t, file)
  \/ \E e \in Entries : ReleaseTable(t, e) \/ \E c \in Charges : OpenTable(t, c, e)
  \/ OpenFails(t)

Next ==
  \/ \E t \in Threads : ThreadStep(t) \/ \E file \in Keys : Evict(t, file)
  \/ DestroyTableCache \/ Terminated

Spec == TableInit /\ [][Next]_vars
=============================================================================
