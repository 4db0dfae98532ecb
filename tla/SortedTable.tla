----------------------------- MODULE SortedTable ------------------------------
(***************************************************************************)
(* A table file as operators: how TableBuilder lays entries out in blocks  *)
(* with restart points and an index (db/table_builder.cc,                  *)
(* db/block_builder.cc), and how BlockIter, TwoLevelIterator and           *)
(* Table::InternalGet find them again (db/block.cc,                        *)
(* db/two_level_iterator.cc, db/table.cc).                                 *)
(*                                                                         *)
(* An offset in a block is the position of an entry, a handle the number of*)
(* a data block.  A block is [keys, restarts] and, in the index, handles.  *)
(* The bytes an entry shares with the one before it are left out: a search *)
(* reads whole keys at restart points only, where nothing is shared.       *)
(***************************************************************************)
EXTENDS SkipList, SequencesExt

CONSTANTS
  BlockSize,         \* block_size, in entries
  RestartInterval,   \* block_restart_interval
  MaxSequence        \* kMaxSequenceNumber

ASSUME TableAssumption ==
  /\ BlockSize \in Nat \ {0} /\ RestartInterval \in Nat \ {0} /\ MaxSequence \in Nat
  /\ Nil \notin [current : Nat, restart_index : Nat]

-----------------------------------------------------------------------------
(* BlockBuilder.                                                           *)
EmptyBlock == [keys |-> <<>>, restarts |-> <<1>>, handles |-> <<>>, counter |-> 0]

AddToBlock(block, interval, key, handle) ==
  [keys     |-> Append(block.keys, key),
   handles  |-> Append(block.handles, handle),
   restarts |-> IF block.counter < interval THEN block.restarts
                ELSE Append(block.restarts, Len(block.keys) + 1),
   counter  |-> IF block.counter < interval THEN block.counter + 1 ELSE 1]

(* FindShortestSeparator and FindShortSuccessor: a shorter user key after  *)
(* start (and before limit) if there is one, and otherwise start itself.   *)
(* User keys of entries are even here; whether the odd one in between is   *)
(* shorter is up to the strings they stand for.                            *)
Separator(shorten, start, limit) ==
  IF shorten /\ start.user + 1 < limit.user THEN LookupKey(start.user + 1, MaxSequence) ELSE start

Successor(shorten, key) ==
  IF shorten THEN LookupKey(key.user + 1, MaxSequence) ELSE key

(* Mutant of AddIndexEntry: the separator is the key the next block starts *)
(* with.                                                                   *)
IndexByLimit(r, sep, limit) ==
  [r EXCEPT !.index = AddToBlock(@, 1, limit, Len(r.blocks)), !.pending = FALSE]

(* The index entry of the last data block.                                 *)
AddIndexEntry(r, sep, limit) ==
  [r EXCEPT !.index = AddToBlock(@, 1, sep, Len(r.blocks)), !.pending = FALSE]

FlushBlock(r) ==
  IF r.data.keys = <<>> THEN r
  ELSE [r EXCEPT !.blocks = Append(@, r.data), !.data = EmptyBlock, !.pending = TRUE]

AddToTable(shorten, r, key) ==
  LET indexed == IF r.pending THEN AddIndexEntry(r, Separator(shorten, r.last_key, key), key) ELSE r
      added   == [indexed EXCEPT !.data = AddToBlock(@, RestartInterval, key, 0), !.last_key = key]
  IN IF Len(added.data.keys) >= BlockSize THEN FlushBlock(added) ELSE added

FinishTable(shorten, r) ==
  LET f == FlushBlock(r)
  IN IF f.pending THEN AddIndexEntry(f, Successor(shorten, f.last_key), f.last_key) ELSE f

(* BuildTable over the entries of a memtable, in order.                    *)
NewTable == [blocks |-> <<>>, index |-> EmptyBlock, data |-> EmptyBlock, last_key |-> Nil, pending |-> FALSE]

BuildTable(shorten, entries) ==
  LET added[i \in 0 .. Len(entries)] ==
        IF i = 0 THEN NewTable ELSE AddToTable(shorten, added[i - 1], entries[i])
      r == FinishTable(shorten, added[Len(entries)])
  IN [blocks |-> r.blocks, index |-> r.index]

-----------------------------------------------------------------------------
(* BlockIter: [current, restart_index], the position of the entry and the  *)
(* number of its restart point counted from 0; after the last entry        *)
(* (current = restarts_) both are one past the end.                        *)
NumRestarts(b)  == Len(b.restarts)
PastEnd(b)      == [current |-> Len(b.keys) + 1, restart_index |-> NumRestarts(b)]
BlockValid(b, it) == it.current <= Len(b.keys)
BlockKey(b, it) == b.keys[it.current]
RestartPoint(b, i) == b.restarts[i + 1]

(* The restart point ParseNextKey moves on to, from i, for the entry at    *)
(* pos: the first with no next one before pos.                             *)
AdvanceRestart(b, i, pos) ==
  Min({j \in i .. NumRestarts(b) - 1 : j + 1 < NumRestarts(b) => RestartPoint(b, j + 1) >= pos})

(* ParseNextKey at the position after the last entry parsed.               *)
ParseNextKey(b, restart_index, pos) ==
  IF pos > Len(b.keys) THEN PastEnd(b)
  ELSE [current |-> pos, restart_index |-> AdvanceRestart(b, restart_index, pos)]

BlockSeekToFirst(b) == ParseNextKey(b, 0, RestartPoint(b, 0))

BlockNext(b, it) == ParseNextKey(b, it.restart_index, it.current + 1)

(* ParseNextKey over the entries between it and pos: each leaves a restart *)
(* point from which the next one looks on.                                 *)
ParseOn(b, it, pos) == IF pos = it.current THEN it ELSE ParseNextKey(b, it.restart_index, pos)

(* ...until an entry is at last or after it.                               *)
ParseUpTo(b, it, last) ==
  IF BlockValid(b, it) /\ it.current < last THEN ParseOn(b, it, last) ELSE it

BlockSeekToLast(b) ==
  LET i == NumRestarts(b) - 1
  IN ParseUpTo(b, ParseNextKey(b, i, RestartPoint(b, i)), Len(b.keys))

(* ...until the key of an entry is not before the target.                  *)
ParseToTarget(b, it, target) ==
  ParseOn(b, it, Min({pos \in it.current .. Len(b.keys) + 1 :
                        pos <= Len(b.keys) => ~Before(b.keys[pos], target)}))

(* The binary search over the restart points.                              *)
SearchRestarts(b, left, right, target) ==
  LET Halve(s) ==
        LET mid == (s.left + s.right + 1) \div 2
        IN IF s.left >= s.right THEN s
           ELSE IF Before(b.keys[RestartPoint(b, mid)], target) THEN [s EXCEPT !.left = mid]
           ELSE [s EXCEPT !.right = mid - 1]
  IN Loop(NumRestarts(b), [left |-> left, right |-> right], Halve).left

(* Seek starts from the current entry when that saves some of the search.  *)
ScanFrom(b, it, left, smaller, target) ==
  ParseToTarget(b, IF smaller /\ left = it.restart_index THEN BlockNext(b, it)
                   ELSE ParseNextKey(b, left, RestartPoint(b, left)), target)

BlockSeek(b, it, target) ==
  LET valid   == BlockValid(b, it)
      smaller == valid /\ Before(BlockKey(b, it), target)
      greater == valid /\ Before(target, BlockKey(b, it))
  IN IF valid /\ ~smaller /\ ~greater THEN it
     ELSE ScanFrom(b, it, SearchRestarts(b, IF smaller THEN it.restart_index ELSE 0,
                                            IF greater THEN it.restart_index ELSE NumRestarts(b) - 1,
                                            target),
                   smaller, target)

(* The restart points, from that of the entry down, before the entry.      *)
RestartsBefore(b, it) == {i \in 0 .. it.restart_index : RestartPoint(b, i) < it.current}

BlockPrev(b, it) ==
  IF RestartsBefore(b, it) = {} THEN PastEnd(b)
  ELSE LET i == Max(RestartsBefore(b, it))
       IN ParseUpTo(b, ParseNextKey(b, i, RestartPoint(b, i)), it.current - 1)

-----------------------------------------------------------------------------
(* TwoLevelIterator: [index, data, handle]; data is Nil for a null         *)
(* data_iter_, and handle the data block it was opened on.                 *)
NewTableIterator(t) == [index |-> PastEnd(t.index), data |-> Nil, handle |-> 0]

DataBlock(t, it)  == t.blocks[it.handle]
TableValid(t, it) == it.data # Nil /\ BlockValid(DataBlock(t, it), it.data)
TableKey(t, it)   == BlockKey(DataBlock(t, it), it.data)

(* InitDataBlock: the data block iterator is kept, where it stands, if the *)
(* index still names its block.                                            *)
InitDataBlock(t, it) ==
  IF ~BlockValid(t.index, it.index) THEN [it EXCEPT !.data = Nil]
  ELSE LET handle == t.index.handles[it.index.current]
       IN IF it.data # Nil /\ it.handle = handle THEN it
          ELSE [it EXCEPT !.data = PastEnd(t.blocks[handle]), !.handle = handle]

(* Where the data block iterator, if there is one, is put.                 *)
FirstInBlock(t, it) ==
  IF it.data = Nil THEN it ELSE [it EXCEPT !.data = BlockSeekToFirst(DataBlock(t, it))]
LastInBlock(t, it) ==
  IF it.data = Nil THEN it ELSE [it EXCEPT !.data = BlockSeekToLast(DataBlock(t, it))]
SoughtInBlock(t, it, target) ==
  IF it.data = Nil THEN it ELSE [it EXCEPT !.data = BlockSeek(DataBlock(t, it), @, target)]

SkipEmptyDataBlocksForward(t, it) ==
  LET Turn(x) ==
        IF TableValid(t, x) THEN x
        ELSE IF ~BlockValid(t.index, x.index) THEN [x EXCEPT !.data = Nil]
        ELSE FirstInBlock(t, InitDataBlock(t, [x EXCEPT !.index = BlockNext(t.index, @)]))
  IN Loop(Len(t.blocks) + 1, it, Turn)

SkipEmptyDataBlocksBackward(t, it) ==
  LET Turn(x) ==
        IF TableValid(t, x) THEN x
        ELSE IF ~BlockValid(t.index, x.index) THEN [x EXCEPT !.data = Nil]
        ELSE LastInBlock(t, InitDataBlock(t, [x EXCEPT !.index = BlockPrev(t.index, @)]))
  IN Loop(Len(t.blocks) + 1, it, Turn)

TableSeekToFirst(t, it) ==
  SkipEmptyDataBlocksForward(t,
    FirstInBlock(t, InitDataBlock(t, [it EXCEPT !.index = BlockSeekToFirst(t.index)])))

TableSeekToLast(t, it) ==
  SkipEmptyDataBlocksBackward(t,
    LastInBlock(t, InitDataBlock(t, [it EXCEPT !.index = BlockSeekToLast(t.index)])))

TableSeek(t, it, target) ==
  SkipEmptyDataBlocksForward(t,
    SoughtInBlock(t, InitDataBlock(t, [it EXCEPT !.index = BlockSeek(t.index, @, target)]), target))

TableNext(t, it) ==
  SkipEmptyDataBlocksForward(t, [it EXCEPT !.data = BlockNext(DataBlock(t, it), it.data)])

TablePrev(t, it) ==
  SkipEmptyDataBlocksBackward(t, [it EXCEPT !.data = BlockPrev(DataBlock(t, it), it.data)])

-----------------------------------------------------------------------------
(* Table::InternalGet without a filter: one block, the one the index names;*)
(* the entry found there, or Nil.                                          *)
InternalGet(t, target) ==
  LET index == BlockSeek(t.index, PastEnd(t.index), target)
  IN IF ~BlockValid(t.index, index) THEN Nil
     ELSE LET b    == t.blocks[t.index.handles[index.current]]
              data == BlockSeek(b, PastEnd(b), target)
          IN IF BlockValid(b, data) THEN BlockKey(b, data) ELSE Nil

(* The entries of the table.                                               *)
TableEntries(t) == UNION {ToSet(t.blocks[i].keys) : i \in 1 .. Len(t.blocks)}
=============================================================================
