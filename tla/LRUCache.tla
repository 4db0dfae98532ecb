------------------------------- MODULE LRUCache -------------------------------
(***************************************************************************)
(* The cache of util/cache.cc: entries found by key, counted references,   *)
(* and a list of the entries nobody uses in the order of their last use,   *)
(* from whose front Insert evicts.                                         *)
(*                                                                         *)
(* One action is one call.  The entries are memory blocks: malloc returns  *)
(* any block that is not live, so a block is used again after it is freed. *)
(* The hash table is what its lookups see of it, a function from keys; the *)
(* order of in_use_ is never read, so it is a set.                         *)
(***************************************************************************)
EXTENDS Naturals, SequencesExt

CONSTANTS
  Keys,          \* the keys of entries
  Entries,       \* the memory blocks an LRUEntry may occupy
  NoEntry,       \* nullptr
  Charges,       \* the charges callers pass, none of them 0
  Capacity,      \* capacity_
  MaxHandles     \* bound: the handles callers hold of one entry

ASSUME CacheAssumption ==
  /\ NoEntry \notin Entries /\ NoEntry \notin Keys
  /\ Charges \subseteq Nat \ {0}
  /\ Capacity \in Nat \ {0}
  /\ MaxHandles \in Nat \ {0}

VARIABLES
  table,         \* [Keys -> Entries \cup {NoEntry}] table_
  live,          \* the blocks allocated and not freed
  key,           \* [Entries -> Keys], NoEntry in a block that is not live
  charge,        \* [Entries -> Charges], 0 in a block that is not live
  refs,          \* [Entries -> Nat]
  in_cache,      \* [Entries -> BOOLEAN]
  lru,           \* lru_, the oldest entry first
  in_use,        \* in_use_
  usage,         \* usage_
  handles,       \* [Entries -> Nat] the handles callers hold
  orphans,       \* ghost: live entries taken out of the table while in use
  phase          \* "open", "destroyed", or "aborted" by ~LRUCacheImpl's assertion

fields    == <<key, charge>>
cacheVars == <<table, live, fields, refs, in_cache, lru, in_use, usage, handles,
               orphans, phase>>

TypeOK ==
  /\ table \in [Keys -> Entries \cup {NoEntry}]
  /\ live \subseteq Entries
  /\ key \in [Entries -> Keys \cup {NoEntry}]
  /\ charge \in [Entries -> Charges \cup {0}]
  /\ refs \in [Entries -> Nat] /\ in_cache \in [Entries -> BOOLEAN]
  /\ lru \in Seq(Entries) /\ in_use \subseteq Entries
  /\ handles \in [Entries -> Nat] /\ orphans \subseteq Entries
  /\ phase \in {"open", "destroyed", "aborted"}

Init ==
  /\ table = [k \in Keys |-> NoEntry] /\ live = {}
  /\ key = [e \in Entries |-> NoEntry] /\ charge = [e \in Entries |-> 0]
  /\ refs = [e \in Entries |-> 0] /\ in_cache = [e \in Entries |-> FALSE]
  /\ lru = <<>> /\ in_use = {} /\ usage = 0
  /\ handles = [e \in Entries |-> 0] /\ orphans = {} /\ phase = "open"

-----------------------------------------------------------------------------
(* Charges of several entries, and of the n oldest of a list.              *)
ChargeOf(S)  == SumFunctionOnSet(charge, S)
Oldest(s, n) == {s[i] : i \in 1 .. n}

(* Mutant of Refund: FreeEntry does not adjust usage_.                     *)
NoRefund(S) == 0

(* What FreeEntry takes off usage_ for the entries of S.                   *)
Refund(S) == ChargeOf(S)

(* The field f of the blocks once those of S are freed.                    *)
Cleared(f, none, S) == [e \in Entries |-> IF e \in S THEN none ELSE f[e]]

(* LRU_Remove: the list without e.                                         *)
Without(s, e) ==
  IF \E i \in 1 .. Len(s) : s[i] = e
  THEN RemoveAt(s, CHOOSE i \in 1 .. Len(s) : s[i] = e) ELSE s

(* Mutant of Idle: an entry one caller still uses counts as unused.        *)
IdleWithOneUser(e) == e # NoEntry /\ refs[e] <= 2

(* The cache holds the only reference to e.                                *)
Idle(e) == e # NoEntry /\ refs[e] = 1

(* The loop of Insert ends: the cache fits, or nothing is left to evict.   *)
StopEvicting(s, n, used) == n = Len(s) \/ used - Refund(Oldest(s, n)) <= Capacity

(* Insert: the new entry replaces what the table holds under its key; the  *)
(* old one is freed if nobody uses it, and otherwise only marked.  Then    *)
(* the oldest unused entries go until the cache fits.  The caller gets a   *)
(* handle; the cache keeps the other reference.                            *)
Insert(k, c, e) ==
  /\ phase = "open" /\ e \notin live
  /\ LET old   == table[k]
         freed == IF Idle(old) THEN {old} ELSE {}
         rest  == IF Idle(old) THEN Without(lru, old) ELSE lru
         used  == usage + c - Refund(freed)
     IN \E n \in 0 .. Len(rest) :
          /\ StopEvicting(rest, n, used)
          /\ \A m \in 0 .. n - 1 : ~StopEvicting(rest, m, used)
          /\ LET gone   == Oldest(rest, n)
                 erased == {key[g] : g \in gone}
             IN /\ table' = [x \in Keys |-> IF x \in erased THEN NoEntry
                                            ELSE IF x = k THEN e ELSE table[x]]
                /\ live' = (live \cup {e}) \ (freed \cup gone)
                /\ key' = [Cleared(key, NoEntry, freed \cup gone) EXCEPT ![e] = k]
                /\ charge' = [Cleared(charge, 0, freed \cup gone) EXCEPT ![e] = c]
                /\ refs' = [Cleared(refs, 0, freed \cup gone) EXCEPT ![e] = 2]
                /\ in_cache' = [x \in Entries |-> x = e \/ (in_cache[x] /\ x # old /\ x \notin gone)]
                /\ lru' = SubSeq(rest, n + 1, Len(rest))
                /\ in_use' = in_use \cup {e}
                /\ usage' = used - Refund(gone)
          /\ orphans' = IF old = NoEntry \/ Idle(old) THEN orphans ELSE orphans \cup {old}
  /\ handles' = [handles EXCEPT ![e] = 1]
  /\ UNCHANGED phase

(* Mutants of Ref: the first user is not counted; the entry stays in lru_. *)
RefUncounted(e) ==
  /\ refs' = IF refs[e] = 1 THEN refs ELSE [refs EXCEPT ![e] = @ + 1]
  /\ IF refs[e] = 1 /\ in_cache[e]
     THEN lru' = Without(lru, e) /\ in_use' = in_use \cup {e}
     ELSE UNCHANGED <<lru, in_use>>

RefInPlace(e) ==
  /\ refs' = [refs EXCEPT ![e] = @ + 1]
  /\ UNCHANGED <<lru, in_use>>

(* Ref moves an unused entry of the cache out of lru_.                     *)
Ref(e) ==
  /\ refs' = [refs EXCEPT ![e] = @ + 1]
  /\ IF refs[e] = 1 /\ in_cache[e]
     THEN lru' = Without(lru, e) /\ in_use' = in_use \cup {e}
     ELSE UNCHANGED <<lru, in_use>>

(* Lookup of a key in the table; a miss changes nothing.                   *)
Lookup(k) ==
  /\ phase = "open" /\ table[k] # NoEntry /\ handles[table[k]] < MaxHandles
  /\ Ref(table[k])
  /\ handles' = [handles EXCEPT ![table[k]] = @ + 1]
  /\ UNCHANGED <<table, live, fields, in_cache, usage, orphans, phase>>

(* Mutant of Unref: an entry taken out of the table goes back to lru_.     *)
UnrefToList(e) ==
  /\ refs' = [refs EXCEPT ![e] = @ - 1]
  /\ lru' = IF refs[e] = 2 THEN Append(lru, e) ELSE lru
  /\ in_use' = IF refs[e] = 2 THEN in_use \ {e} ELSE in_use
  /\ UNCHANGED <<live, orphans, usage, fields>>

(* Unref: the last reference but the cache's makes the entry the youngest  *)
(* of lru_; the last of all frees it.                                      *)
Unref(e) ==
  /\ refs' = [refs EXCEPT ![e] = @ - 1]
  /\ lru' = IF refs[e] = 2 /\ in_cache[e] THEN Append(lru, e) ELSE lru
  /\ in_use' = IF refs[e] = 2 /\ in_cache[e] THEN in_use \ {e} ELSE in_use
  /\ live' = IF refs[e] = 1 THEN live \ {e} ELSE live
  /\ orphans' = IF refs[e] = 1 THEN orphans \ {e} ELSE orphans
  /\ usage' = IF refs[e] = 1 THEN usage - Refund({e}) ELSE usage
  /\ key' = IF refs[e] = 1 THEN [key EXCEPT ![e] = NoEntry] ELSE key
  /\ charge' = IF refs[e] = 1 THEN [charge EXCEPT ![e] = 0] ELSE charge

Release(e) ==
  /\ phase = "open" /\ handles[e] > 0
  /\ Unref(e)
  /\ handles' = [handles EXCEPT ![e] = @ - 1]
  /\ UNCHANGED <<table, in_cache, phase>>

(* Mutant of Unmark: Erase forgets the mark.                               *)
KeepMark(e) == UNCHANGED in_cache

(* in_cache of an erased entry.                                            *)
Unmark(e) == in_cache' = [in_cache EXCEPT ![e] = FALSE]

(* Mutant of Erase: the entry is freed whoever uses it.                    *)
EraseInUse(k) ==
  /\ phase = "open" /\ table[k] # NoEntry
  /\ LET e == table[k]
     IN /\ table' = [table EXCEPT ![k] = NoEntry]
        /\ Unmark(e)
        /\ lru' = Without(lru, e) /\ in_use' = in_use \ {e}
        /\ refs' = [refs EXCEPT ![e] = 0]
        /\ live' = live \ {e} /\ usage' = usage - Refund({e})
        /\ key' = [key EXCEPT ![e] = NoEntry] /\ charge' = [charge EXCEPT ![e] = 0]
  /\ UNCHANGED <<handles, orphans, phase>>

(* Erase frees an unused entry; one in use is only taken out of the table, *)
(* and the cache's reference to it is never given back.                    *)
Erase(k) ==
  /\ phase = "open" /\ table[k] # NoEntry
  /\ LET e == table[k]
     IN /\ table' = [table EXCEPT ![k] = NoEntry]
        /\ Unmark(e)
        /\ \/ /\ Idle(e)
              /\ lru' = Without(lru, e) /\ refs' = [refs EXCEPT ![e] = 0]
              /\ live' = live \ {e} /\ usage' = usage - Refund({e})
              /\ key' = [key EXCEPT ![e] = NoEntry] /\ charge' = [charge EXCEPT ![e] = 0]
              /\ UNCHANGED orphans
           \/ /\ ~Idle(e)
              /\ orphans' = orphans \cup {e}
              /\ UNCHANGED <<lru, refs, live, usage, fields>>
  /\ UNCHANGED <<in_use, handles, phase>>

(* ~LRUCacheImpl, called once every handle is released, asserts that no    *)
(* entry is in use and frees the others.                                   *)
Destroy ==
  /\ phase = "open" /\ \A e \in Entries : handles[e] = 0
  /\ IF in_use # {}
     THEN phase' = "aborted" /\ UNCHANGED <<table, live, fields, refs, in_cache, lru, usage>>
     ELSE /\ phase' = "destroyed"
          /\ table' = [k \in Keys |-> IF \E e \in ToSet(lru) : key[e] = k THEN NoEntry ELSE table[k]]
          /\ live' = live \ ToSet(lru)
          /\ refs' = Cleared(refs, 0, ToSet(lru))
          /\ key' = Cleared(key, NoEntry, ToSet(lru)) /\ charge' = Cleared(charge, 0, ToSet(lru))
          /\ in_cache' = [e \in Entries |-> in_cache[e] /\ e \notin ToSet(lru)]
          /\ lru' = <<>> /\ usage' = usage - Refund(ToSet(lru))
  /\ UNCHANGED <<in_use, handles, orphans>>

CacheNext ==
  \/ \E k \in Keys, c \in Charges, e \in Entries : Insert(k, c, e)
  \/ \E k \in Keys : Lookup(k) \/ Erase(k)
  \/ \E e \in Entries : Release(e)
  \/ Destroy

CacheSpec == Init /\ [][CacheNext]_cacheVars

-----------------------------------------------------------------------------
(* Properties.                                                             *)

(* The hash table and the entries agree: a key finds the one live entry    *)
(* that is in the cache under it, and an entry marked in_cache is found.   *)
(* (Insert's loop, which removes what it evicts by key, would otherwise    *)
(* remove a newer entry of the key, or never end.)                         *)
TableExact ==
  /\ \A k \in Keys : table[k] # NoEntry =>
       table[k] \in live /\ in_cache[table[k]] /\ key[table[k]] = k
  /\ \A e \in Entries : in_cache[e] => e \in live /\ key[e] \in Keys /\ table[key[e]] = e

(* refs counts the callers' handles and the one reference of the cache -   *)
(* which an entry erased or replaced while in use keeps for ever, so that  *)
(* no Release brings refs to 0 and frees what is still linked in in_use_.  *)
RefsExact ==
  /\ orphans = {e \in live : ~in_cache[e]}
  /\ \A e \in live : refs[e] = handles[e] + 1

(* lru_ holds, once each, exactly the entries Insert may evict, and in_use_*)
(* every other live entry.                                                 *)
ListsExact ==
  /\ IsInjective(lru)
  /\ ToSet(lru) = {e \in live : in_cache[e] /\ refs[e] = 1}
  /\ in_use = live \ ToSet(lru)

(* No entry is freed while a caller holds a handle of it, whatever is      *)
(* inserted, erased or evicted meanwhile.                                  *)
NotFreedInUse == \A e \in Entries : handles[e] > 0 => e \in live

(* usage_ is the charge of what is allocated, neither more nor less: it is *)
(* what eviction goes by.                                                  *)
UsageExact == usage = ChargeOf(live)

(* The destructor frees every entry, and its assertion stops the program   *)
(* only where an entry was erased or replaced while in use.                *)
DestructorClean ==
  /\ phase = "destroyed" => live = {} /\ usage = 0
  /\ phase = "aborted" => orphans # {}
=============================================================================
