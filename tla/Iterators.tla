------------------------------ MODULE Iterators -------------------------------
(***************************************************************************)
(* The iterator DBImpl::NewIterator returns: DBIter (db/db_iter.cc) over a *)
(* MergingIterator (db/merger.cc) over the memtable and one iterator per   *)
(* table.  The user moves it between whole writes to the same memtable.    *)
(***************************************************************************)
EXTENDS SortedTable

CONSTANTS
  UserKeys,      \* the keys of entries, even numbers
  Targets,       \* the keys Seek is called with
  Contents,      \* the memtable and tables NewIterator may find
  MaxWrites      \* bound: the writes while the iterator is open

None == 0        \* no key: a saved_key_ that is clear, an iterator that is not valid

(* What NewIterator may find: the nodes of the memtable in the order of    *)
(* their insertion, no two alike (the assertion of SkipList::Insert), the  *)
(* tables sorted and none empty (that of TableBuilder::Add).  Any entry may*)
(* be in several places: a flush does not retire the log it empties        *)
(* (db_impl.cc 561), so the next Open puts the entries of a table that it  *)
(* replays from the log into a second one (db_impl.cc 315-336).  A value is*)
(* named by the sequence number it was written with.                       *)
Written(c) == [user : UserKeys, seq : 1 .. c.last_sequence, type : {kTypeDeletion, kTypeValue}]

Content(c) ==
  /\ c.last_sequence \in Nat /\ c.snapshots \subseteq 0 .. c.last_sequence
  /\ c.mem \in Seq([entry : Written(c), height : 1 .. MaxHeight])
  /\ c.tables \in Seq(Seq(Written(c)) \ {<<>>})
  /\ \A i \in 1 .. Len(c.tables) : \A p, q \in 1 .. Len(c.tables[i]) :
       p < q => Before(c.tables[i][p], c.tables[i][q])
  /\ \A p, q \in 1 .. Len(c.mem) : c.mem[p].entry = c.mem[q].entry => p = q

ASSUME IteratorAssumption ==
  /\ UserKeys \subseteq {k \in Nat : k > 0 /\ k % 2 = 0}
  /\ Targets \subseteq Nat /\ MaxWrites \in Nat
  /\ \A c \in Contents : Content(c)

VARIABLES
  mem,           \* the skip list of mem_
  tables,        \* the tables of the Version the iterator holds
  last_sequence, \* last_sequence_
  sequence,      \* sequence_, the snapshot of the iterator
  writes,        \* the writes since NewIterator
  iter,          \* the iterator: [merged, forward, valid, saved_key, saved_value]
  call           \* ghost: the last call [name, target, from, repeats]

vars == <<mem, tables, last_sequence, sequence, writes, iter, call>>

(* The entries there are, those of each child of the iterator, and the     *)
(* places they are in.                                                     *)
Entries == ListEntries(mem) \cup UNION {TableEntries(tables[i]) : i \in DOMAIN tables}
ChildEntries(i) == IF i = 1 THEN ListEntries(mem) ELSE TableEntries(tables[i - 1])
Places  == UNION {{i} \X ChildEntries(i) : i \in 1 .. Len(tables) + 1}

-----------------------------------------------------------------------------
(* The children: 1 is the memtable, i + 1 the table i.                     *)
ChildValid(i, c) == IF i = 1 THEN c # Nil ELSE TableValid(tables[i - 1], c)
ChildKey(i, c)   == IF i = 1 THEN c ELSE TableKey(tables[i - 1], c)
ChildFirst(i, c) == IF i = 1 THEN MemSeekToFirst(mem) ELSE TableSeekToFirst(tables[i - 1], c)
ChildLast(i, c)  == IF i = 1 THEN MemSeekToLast(mem) ELSE TableSeekToLast(tables[i - 1], c)
ChildNext(i, c)  == IF i = 1 THEN MemNext(mem, c) ELSE TableNext(tables[i - 1], c)
ChildPrev(i, c)  == IF i = 1 THEN MemPrev(mem, c) ELSE TablePrev(tables[i - 1], c)
ChildSeek(i, c, target) ==
  IF i = 1 THEN MemSeek(mem, target) ELSE TableSeek(tables[i - 1], c, target)

-----------------------------------------------------------------------------
(* MergingIterator: [children, current, forward]; current is 0 for a null  *)
(* current_.  With a single child NewMergingIterator returns the child,    *)
(* which moves as this does.                                               *)
ValidChildren(m) == {i \in DOMAIN m.children : ChildValid(i, m.children[i])}
MergedValid(m)   == m.current # 0
MergedKey(m)     == ChildKey(m.current, m.children[m.current])

(* The first of the children that stand on the smallest, largest, key.     *)
FindSmallest(m) ==
  [m EXCEPT !.current =
     IF ValidChildren(m) = {} THEN 0
     ELSE CHOOSE i \in ValidChildren(m) : \A j \in ValidChildren(m) \ {i} :
            LET k == ChildKey(i, m.children[i])
                l == ChildKey(j, m.children[j])
            IN Before(k, l) \/ (k = l /\ i < j)]

FindLargest(m) ==
  [m EXCEPT !.current =
     IF ValidChildren(m) = {} THEN 0
     ELSE CHOOSE i \in ValidChildren(m) : \A j \in ValidChildren(m) \ {i} :
            LET k == ChildKey(i, m.children[i])
                l == ChildKey(j, m.children[j])
            IN Before(l, k) \/ (k = l /\ i < j)]

MergedSeekToFirst(m) ==
  FindSmallest([m EXCEPT !.children = [i \in DOMAIN @ |-> ChildFirst(i, @[i])], !.forward = TRUE])

MergedSeekToLast(m) ==
  FindLargest([m EXCEPT !.children = [i \in DOMAIN @ |-> ChildLast(i, @[i])], !.forward = FALSE])

MergedSeek(m, target) ==
  FindSmallest([m EXCEPT !.children = [i \in DOMAIN @ |-> ChildSeek(i, @[i], target)], !.forward = TRUE])

(* The other children, which stand before the key, are put after it.       *)
AfterKey(i, sought, key) ==
  IF ChildValid(i, sought) /\ ChildKey(i, sought) = key THEN ChildNext(i, sought) ELSE sought

MergedNext(m) ==
  LET turned == IF m.forward THEN m.children
                ELSE [i \in DOMAIN m.children |->
                        IF i = m.current THEN m.children[i]
                        ELSE AfterKey(i, ChildSeek(i, m.children[i], MergedKey(m)), MergedKey(m))]
  IN FindSmallest([m EXCEPT !.forward = TRUE,
                            !.children = [turned EXCEPT ![m.current] = ChildNext(m.current, @)]])

(* Mutant of BeforeKey: a child that has nothing after the key stays there.*)
BeforeKeyOrEnd(i, sought) == IF ChildValid(i, sought) THEN ChildPrev(i, sought) ELSE sought

(* The other children, which stand after the key, are put before it.       *)
BeforeKey(i, sought) ==
  IF ChildValid(i, sought) THEN ChildPrev(i, sought) ELSE ChildLast(i, sought)

MergedPrev(m) ==
  LET turned == IF ~m.forward THEN m.children
                ELSE [i \in DOMAIN m.children |->
                        IF i = m.current THEN m.children[i]
                        ELSE BeforeKey(i, ChildSeek(i, m.children[i], MergedKey(m)))]
  IN FindLargest([m EXCEPT !.forward = FALSE,
                           !.children = [turned EXCEPT ![m.current] = ChildPrev(m.current, @)]])

-----------------------------------------------------------------------------
(* DBIter.                                                                 *)
Invalid(d) == [d EXCEPT !.valid = FALSE, !.saved_key = None]

(* FindNextUserEntry: past what the snapshot does not see, past deletions  *)
(* and, once skipping, past every older entry of the key in skip.          *)
Shown(f) ==
  LET e == MergedKey(f.d.merged)
  IN e.seq <= sequence /\ e.type = kTypeValue /\ ~(f.skipping /\ e.user <= f.skip)

Passed(f) ==
  LET e       == MergedKey(f.d.merged)
      deleted == e.seq <= sequence /\ e.type = kTypeDeletion
  IN [d |-> [f.d EXCEPT !.merged = MergedNext(@)],
      skipping |-> f.skipping \/ deleted, skip |-> IF deleted THEN e.user ELSE f.skip]

FindTurn(f) == IF MergedValid(f.d.merged) /\ ~Shown(f) THEN Passed(f) ELSE f

FindNextUserEntry(d, skipping, skip) ==
  LET found == Loop(Cardinality(Places) + 1, [d |-> d, skipping |-> skipping, skip |-> skip], FindTurn).d
  IN IF MergedValid(found.merged) THEN [found EXCEPT !.valid = TRUE, !.saved_key = None]
     ELSE Invalid(found)

(* Mutant of Visible: FindPrevUserEntry takes every entry.                 *)
AnyVisible(e) == TRUE

(* The entries FindPrevUserEntry takes notice of.                          *)
Visible(e) == e.seq <= sequence

(* What FindPrevUserEntry keeps of the entry it passes.                    *)
Saved(d, e) ==
  IF ~Visible(e) THEN d
  ELSE IF e.type = kTypeDeletion THEN [d EXCEPT !.saved_key = None, !.saved_value = None]
  ELSE [d EXCEPT !.saved_key = e.user, !.saved_value = e.seq]

(* The loop of FindPrevUserEntry: back over all entries of a key, the last *)
(* visible of which is the newest, until an older key is seen.             *)
Scanned(r) ==
  LET e == MergedKey(r.d.merged)
  IN ~MergedValid(r.d.merged) \/ (Visible(e) /\ r.type = kTypeValue /\ e.user < r.d.saved_key)

ScanTurn(r) ==
  LET e == MergedKey(r.d.merged)
  IN IF Scanned(r) THEN r
     ELSE [d |-> [Saved(r.d, e) EXCEPT !.merged = MergedPrev(@)],
           type |-> IF Visible(e) THEN e.type ELSE r.type]

AfterScan(d, value_type) ==
  IF value_type = kTypeDeletion
  THEN [Invalid(d) EXCEPT !.saved_value = None, !.forward = TRUE]
  ELSE [d EXCEPT !.valid = TRUE]

FindPrevUserEntry(d) ==
  LET r == Loop(Cardinality(Places) + 1, [d |-> d, type |-> kTypeDeletion], ScanTurn)
  IN AfterScan(r.d, r.type)

(* Mutant of Turned: the entry the iterator stands on is not stepped over. *)
TurnedInPlace(m) == IF MergedValid(m) THEN m ELSE MergedSeekToFirst(m)

(* The merging iterator after Next has turned it forward.                  *)
Turned(m) == IF MergedValid(m) THEN MergedNext(m) ELSE MergedSeekToFirst(m)

NextFrom(d) ==
  IF ~MergedValid(d.merged) THEN Invalid(d)
  ELSE LET key == MergedKey(d.merged).user
       IN FindNextUserEntry([d EXCEPT !.saved_key = key], TRUE, key)

DBNext(d) ==
  NextFrom(IF d.forward THEN d ELSE [d EXCEPT !.forward = TRUE, !.merged = Turned(@)])

(* Prev, when turning: back past every entry of the current key.           *)
PastKey(m, key) ==
  LET Turn(x) == IF MergedValid(x) /\ MergedKey(x).user >= key THEN MergedPrev(x) ELSE x
  IN Loop(Cardinality(Places) + 1, m, Turn)

PrevFrom(d) ==
  IF MergedValid(d.merged) THEN FindPrevUserEntry([d EXCEPT !.forward = FALSE])
  ELSE [Invalid(d) EXCEPT !.saved_value = None]

DBPrev(d) ==
  IF ~d.forward THEN FindPrevUserEntry(d)
  ELSE LET key == MergedKey(d.merged).user
       IN PrevFrom([d EXCEPT !.saved_key = key, !.merged = PastKey(@, key)])

FromFirst(d) == IF MergedValid(d.merged) THEN FindNextUserEntry(d, FALSE, None)
                ELSE [d EXCEPT !.valid = FALSE]

DBSeek(d, target) ==
  FromFirst([d EXCEPT !.forward = TRUE, !.saved_value = None, !.saved_key = target,
                      !.merged = MergedSeek(@, LookupKey(target, sequence))])

DBSeekToFirst(d) ==
  FromFirst([d EXCEPT !.forward = TRUE, !.saved_value = None, !.merged = MergedSeekToFirst(@)])

DBSeekToLast(d) ==
  FindPrevUserEntry([d EXCEPT !.forward = FALSE, !.saved_value = None, !.merged = MergedSeekToLast(@)])

(* What the user sees: key() and value().                                  *)
Key(d)   == IF ~d.valid THEN None
            ELSE IF d.forward THEN MergedKey(d.merged).user ELSE d.saved_key
Value(d) == IF ~d.valid THEN None
            ELSE IF d.forward THEN MergedKey(d.merged).seq ELSE d.saved_value

-----------------------------------------------------------------------------
(* The newest entry of a key at the snapshot, and the keys it has then.    *)
Newest(k)   == {e \in Entries : e.user = k /\ e.seq <= sequence
                  /\ \A f \in Entries : f.user = k /\ f.seq <= sequence => f.seq <= e.seq}
VisibleKeys == {k \in UserKeys : \E e \in Newest(k) : e.type = kTypeValue}

(* The window of Next after Prev (db_iter.cc 58): between the key of the   *)
(* iterator and the entries the snapshot sees of smaller keys lies a key   *)
(* none of whose entries it sees.  Next takes that key for the current one.*)
Repeats(d) ==
  /\ ~d.forward
  /\ \E e \in Entries :
       /\ e.user < d.saved_key /\ e.seq > sequence
       /\ \A f \in Entries : f.user < d.saved_key /\ f.seq <= sequence => f.user < e.user

(* DBImpl::NewIterator, at a snapshot or at the last sequence number.      *)
NewIterator ==
  [merged |-> [children |-> [i \in 1 .. Len(tables) + 1 |->
                               IF i = 1 THEN Nil ELSE NewTableIterator(tables[i - 1])],
               current |-> 0, forward |-> TRUE],
   forward |-> TRUE, valid |-> FALSE, saved_key |-> None, saved_value |-> None]

Init ==
  /\ \E c \in Contents, shorten \in BOOLEAN :
       /\ mem = Inserted(c.mem)
       /\ tables = [i \in 1 .. Len(c.tables) |-> BuildTable(shorten, c.tables[i])]
       /\ last_sequence = c.last_sequence
       /\ sequence \in c.snapshots
  /\ writes = 0
  /\ iter = NewIterator
  /\ call = [name |-> "none", target |-> None, from |-> None, repeats |-> FALSE]

Move(name, target, d) ==
  /\ iter' = d
  /\ call' = [name |-> name, target |-> target, from |-> Key(iter),
              repeats |-> name = "Next" /\ Repeats(iter)]
  /\ UNCHANGED <<mem, tables, last_sequence, sequence, writes>>

Next_        == iter.valid /\ Move("Next", None, DBNext(iter))
Prev         == iter.valid /\ Move("Prev", None, DBPrev(iter))
Seek(target) == Move("Seek", target, DBSeek(iter, target))
SeekToFirst  == Move("SeekToFirst", None, DBSeekToFirst(iter))
SeekToLast   == Move("SeekToLast", None, DBSeekToLast(iter))

(* Write: the whole of MemTable::Add, between two calls of the iterator.   *)
Write(k, type, height) ==
  /\ writes < MaxWrites
  /\ mem' = Insert(mem, [user |-> k, seq |-> last_sequence + 1, type |-> type], height)
  /\ last_sequence' = last_sequence + 1 /\ writes' = writes + 1
  /\ UNCHANGED <<tables, sequence, iter, call>>

Next ==
  \/ Next_ \/ Prev \/ SeekToFirst \/ SeekToLast
  \/ \E target \in Targets : Seek(target)
  \/ \E k \in UserKeys, type \in {kTypeDeletion, kTypeValue}, height \in 1 .. MaxHeight :
       Write(k, type, height)

Spec == Init /\ [][Next]_vars

-----------------------------------------------------------------------------
(* Properties.                                                             *)

TypeOK ==
  /\ \A e \in Entries : e.user \in UserKeys /\ e.seq \in 1 .. last_sequence /\ e.type \in {0, 1}
  /\ sequence \in 0 .. last_sequence /\ writes \in 0 .. MaxWrites
  /\ Len(iter.merged.children) = Len(tables) + 1
  /\ \A i \in DOMAIN iter.merged.children : LET c == iter.merged.children[i]
       IN ChildValid(i, c) => ChildKey(i, c) \in Entries
  /\ iter.merged.current \in {0} \cup ValidChildren(iter.merged)
  /\ iter.valid => IF iter.forward THEN MergedValid(iter.merged)
                   ELSE iter.saved_key \in UserKeys /\ iter.saved_value \in 1 .. sequence

(* The first and the last key of a set, or None.                           *)
Least(S)    == IF S = {} THEN None ELSE CHOOSE k \in S : \A l \in S : k <= l
Greatest(S) == IF S = {} THEN None ELSE CHOOSE k \in S : \A l \in S : k >= l

(* Where a cursor over the keys of the snapshot stands after the call.     *)
Expected ==
  CASE call.name = "Next"        -> Least({k \in VisibleKeys : k > call.from})
    [] call.name = "Prev"        -> Greatest({k \in VisibleKeys : k < call.from})
    [] call.name = "Seek"        -> Least({k \in VisibleKeys : k >= call.target})
    [] call.name = "SeekToFirst" -> Least(VisibleKeys)
    [] call.name = "SeekToLast"  -> Greatest(VisibleKeys)

(* Whatever the calls before, the changes of direction, the layout of the  *)
(* tables and the writes in between, the iterator moves as a cursor over   *)
(* the keys of its snapshot and shows the newest value of each there -     *)
(* but for a Next in the window Repeats.                                   *)
CursorExact ==
  call.name # "none" /\ ~call.repeats =>
    /\ Key(iter) = Expected
    /\ iter.valid => \E e \in Newest(Key(iter)) : Value(iter) = e.seq

(* MergingIterator's children stand on the far side of its key, each at    *)
(* its nearest entry the snapshot can see, or on a copy of that key if the *)
(* child comes after the current one: no turn and no write beside it makes *)
(* it step over an entry, come back to one, or stay among its copies.      *)
NothingSkipped ==
  LET m == iter.merged
  IN MergedValid(m) => \A i \in DOMAIN m.children \ {m.current} :
       LET c       == m.children[i]
           Ahead(e) == IF m.forward THEN Before(MergedKey(m), e) ELSE Before(e, MergedKey(m))
           Nearer(e) == ChildValid(i, c) =>
                          IF m.forward THEN Before(e, ChildKey(i, c)) ELSE Before(ChildKey(i, c), e)
       IN /\ ChildValid(i, c) =>
               Ahead(ChildKey(i, c)) \/ (ChildKey(i, c) = MergedKey(m) /\ i > m.current)
          /\ \A e \in ChildEntries(i) : e.seq <= sequence => ~(Ahead(e) /\ Nearer(e))

(* The first entry of S not before the target, or Nil.                     *)
FirstFrom(S, target) ==
  LET R == {e \in S : ~Before(e, target)}
  IN IF R = {} THEN Nil ELSE CHOOSE e \in R : \A f \in R \ {e} : Before(e, f)

(* Every search finds what it looks for, whatever heights the nodes of the *)
(* skip list have, wherever the table iterator stood before, and although  *)
(* a Get reads one block only, the one a separator of the index names.     *)
SearchExact ==
  \A k \in Targets, seq \in {1, sequence} :
    LET target == LookupKey(k, seq)
    IN /\ FindGreaterOrEqual(mem, target) = FirstFrom(ListEntries(mem), target)
       /\ \A i \in DOMAIN tables :
            LET t     == tables[i]
                first == FirstFrom(TableEntries(t), target)
                s     == TableSeek(t, iter.merged.children[i + 1], target)
                found == InternalGet(t, target)
            IN /\ IF TableValid(t, s) THEN TableKey(t, s) = first ELSE first = Nil
               /\ IF first # Nil /\ first.user = k THEN found = first
                  ELSE found # Nil => found.user # k

(* The repository's claim (db/db_iter.h 2): the keys the user sees are     *)
(* unique. A Next does not show the key it was called on again.            *)
UniqueKeys == call.name = "Next" => Key(iter) # call.from
=============================================================================
