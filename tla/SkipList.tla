------------------------------- MODULE SkipList -------------------------------
(***************************************************************************)
(* Internal keys (db/dbformat.cc) and the skip list of a memtable          *)
(* (db/skiplist.cc, db/memtable.cc), as operators.                         *)
(*                                                                         *)
(* An entry is its internal key [user, seq, type]; its value is named by   *)
(* seq.  A list is [max_height, next], next a linked list per level.       *)
(***************************************************************************)
EXTENDS Naturals, Sequences, FiniteSets

CONSTANTS
  ListHead,      \* head_
  Nil,           \* nullptr, and an iterator that is not Valid
  MaxHeight      \* kMaxHeight

kTypeDeletion == 0
kTypeValue    == 1

(* The internal keys, those of entries and those a search starts at.       *)
InternalKeys == [user : Nat, seq : Nat, type : {kTypeDeletion, kTypeValue}]

ASSUME ListAssumption ==
  /\ MaxHeight \in Nat \ {0}
  /\ ListHead \notin InternalKeys /\ Nil \notin InternalKeys /\ ListHead # Nil

(* A loop that begins with x: what n turns of it make of x. A turn changes *)
(* nothing once the condition of the loop is false, and the n of each loop *)
(* below is enough for that.                                               *)
Loop(n, x, Turn(_)) ==
  LET run[i \in 0 .. n] == IF i = 0 THEN x ELSE Turn(run[i - 1])
  IN run[n]

-----------------------------------------------------------------------------
(* InternalKeyComparator: user keys ascend, and for one user key the tags  *)
(* (sequence number, then type) descend.                                   *)
Before(a, b) ==
  \/ a.user < b.user
  \/ a.user = b.user /\ a.seq > b.seq
  \/ a.user = b.user /\ a.seq = b.seq /\ a.type > b.type

(* The internal key a search for a user key at a sequence number starts at.*)
LookupKey(user, seq) == [user |-> user, seq |-> seq, type |-> kTypeValue]

-----------------------------------------------------------------------------
EmptyList == [max_height |-> 1, next |-> [l \in 0 .. MaxHeight - 1 |-> [x \in {ListHead} |-> Nil]]]

(* KeyIsAfterNode; with the target Nil every node is before the end.       *)
KeyIsAfterNode(target, n) == n # Nil /\ (target = Nil \/ Before(n, target))

(* Where the search stops on level l when it enters it at x.               *)
StopOnLevel(list, l, x, target) ==
  LET Turn(n) == IF KeyIsAfterNode(target, list.next[l][n]) THEN list.next[l][n] ELSE n
  IN Loop(Cardinality(DOMAIN list.next[l]), x, Turn)

(* prev[] of FindGreaterOrEqual, and the way down of FindLessThan and      *)
(* FindLast: a level is entered where the level above it was left.         *)
Prevs(list, target) ==
  LET prev[l \in 0 .. list.max_height - 1] ==
        StopOnLevel(list, l, IF l = list.max_height - 1 THEN ListHead ELSE prev[l + 1], target)
  IN prev

FindGreaterOrEqual(list, target) == list.next[0][Prevs(list, target)[0]]
FindLessThan(list, target)       == Prevs(list, target)[0]
FindLast(list)                   == Prevs(list, Nil)[0]

(* Insert links the new node into the levels below its random height.      *)
Insert(list, e, height) ==
  LET prev == [l \in 0 .. MaxHeight - 1 |->
                 IF l < list.max_height THEN Prevs(list, e)[l] ELSE ListHead]
  IN [max_height |-> IF height > list.max_height THEN height ELSE list.max_height,
      next |-> [l \in 0 .. MaxHeight - 1 |->
                  IF l < height
                  THEN [x \in DOMAIN list.next[l] \cup {e} |->
                          IF x = e THEN list.next[l][prev[l]]
                          ELSE IF x = prev[l] THEN e ELSE list.next[l][x]]
                  ELSE list.next[l]]]

-----------------------------------------------------------------------------
(* MemTableIterator: a node, or Nil.  IteratorWrapper's cached valid_ and  *)
(* key_ are those of the node, which no insertion changes.                 *)
OrNil(n) == IF n = ListHead THEN Nil ELSE n

MemSeekToFirst(list)  == list.next[0][ListHead]
MemSeekToLast(list)   == OrNil(FindLast(list))
MemSeek(list, target) == FindGreaterOrEqual(list, target)
MemNext(list, n)      == list.next[0][n]
MemPrev(list, n)      == OrNil(FindLessThan(list, n))

(* The nodes on a level, and the entries of the list.                      *)
Nodes(list, l)    == DOMAIN list.next[l] \ {ListHead}
ListEntries(list) == Nodes(list, 0)

(* The list that nodes [entry, height] make, inserted in this order.       *)
Inserted(nodes) ==
  LET list[i \in 0 .. Len(nodes)] ==
        IF i = 0 THEN EmptyList ELSE Insert(list[i - 1], nodes[i].entry, nodes[i].height)
  IN list[Len(nodes)]
=============================================================================
