------------------------------ MODULE LsmTree ------------------------------
(***************************************************************************)
(* The data of an open Lin-DB: memtables, levels of tables, and the        *)
(* background compaction that rewrites them while the user writes, reads   *)
(* and holds snapshots (db/db_impl.cc 158-261, 531-585, 650-686, 749-937;  *)
(* db/version_set.cc 58-161, 217-275, 363-540, 593-641, 921-976,           *)
(* 1038-1161; db/memtable.cc; db/table.cc 167-201).                        *)
(*                                                                         *)
(* An entry is [key, seq, live]: live is its ValueType, and its value is   *)
(* known by its sequence number.  A file is its number and its entries;    *)
(* its smallest and largest keys are those of its entries, its size is     *)
(* their number.  A level is a set of files: the vectors of a Version are  *)
(* sorted by smallest key (Builder::SaveTo).                               *)
(*                                                                         *)
(* User steps and steps of the background thread interleave.  Installing a *)
(* Version is one step, and the two threads never flush the same memtable: *)
(* the accesses to imm_ that no lock protects are in BackgroundWork.       *)
(***************************************************************************)
EXTENDS Naturals, Sequences, FiniteSetsExt

CONSTANTS
  Keys,          \* user keys: numbers above 0, in the comparator's order
  Handles,       \* the Snapshot objects a caller may hold
  NoSnapshot,    \* a handle that holds none
  NumLevels,     \* kNumLevels
  MemSizes,      \* the numbers of entries at which mem_ may exceed
                 \* write_buffer_size: it depends on their length
  L0Trigger,     \* kL0CompactionTrigger
  MaxBytes,      \* [1 .. NumLevels - 1 -> Nat]: MaxBytesForLevel, in entries
  MaxFileSize,   \* options.max_file_size, in entries
  GrandLimit,    \* MaxGrandParentOverlapBytes, in entries
  ExpandLimit,   \* ExpandedCompactionByteSizeLimit, in entries
  MayFail,       \* whether operations on files may fail
  MaxWrites,     \* bound: the writes of a run
  Workload       \* bound: for each write, the operations it may be, each
                 \* [key, live]

Levels == 0 .. NumLevels - 1

ASSUME ConstantsAssumption ==
  /\ Keys \subseteq Nat \ {0} /\ NoSnapshot \notin Nat
  /\ NumLevels \in Nat /\ NumLevels >= 2
  /\ L0Trigger \in Nat \ {0} /\ MaxBytes \in [1 .. NumLevels - 1 -> Nat \ {0}]
  /\ {MaxFileSize, GrandLimit, ExpandLimit, MaxWrites} \subseteq Nat
  /\ MemSizes \subseteq Nat \ {0} /\ MemSizes # {} /\ MayFail \in BOOLEAN
  /\ Workload \in [1 .. MaxWrites -> SUBSET [key : Keys, live : BOOLEAN]]

VARIABLES
  mem, imm,          \* sets of entries; an empty imm is a null imm_
  levels,            \* [Levels -> sets of files]: the current Version
  last_sequence,
  next_file_number,
  compact_pointer,   \* [Levels -> an entry's internal key]
  snapshots,         \* [Handles -> Nat \cup {NoSnapshot}]: the open snapshots
  user,              \* where the user thread stands in Write
  compaction,        \* the Compaction and CompactionState under way
  bg_error           \* ~bg_error_.ok()

data == <<mem, imm, levels, next_file_number>>
vars == <<data, last_sequence, compact_pointer, snapshots, user, compaction, bg_error>>

Entry == [key : Keys, seq : Nat \ {0}, live : BOOLEAN]

File == [number : Nat, entries : SUBSET Entry, smallest : Entry, largest : Entry]

(* A compact_pointer_ that is empty: it is before every key.               *)
NoKey == [key |-> 0, seq |-> 0, live |-> FALSE]

(* What compaction holds when no compaction runs.                          *)
NoCompaction == [stage |-> "none"]

-----------------------------------------------------------------------------
(* Keys, files and lookups.                                                *)

(* InternalKeyComparator: user keys ascending, sequence numbers descending. *)
Before(a, b) == a.key < b.key \/ (a.key = b.key /\ a.seq > b.seq)

FirstOf(S) == CHOOSE e \in S : \A f \in S : f = e \/ Before(e, f)
LastOf(S)  == CHOOSE e \in S : \A f \in S : f = e \/ Before(f, e)

(* A table and its FileMetaData.                                           *)
NewFile(number, entries) ==
  [number |-> number, entries |-> entries,
   smallest |-> FirstOf(entries), largest |-> LastOf(entries)]

FileOrder(f, g) == Before(f.smallest, g.smallest)

EntriesOf(files) == UNION {f.entries : f \in files}

TotalFileSize(files) == Cardinality(EntriesOf(files))

AllFiles == UNION {levels[l] : l \in Levels}

(* The entries of a key a reader at seq may see.                           *)
Upto(S, key, seq) == {e \in S : e.key = key /\ e.seq <= seq}

(* Seek stops at the newest of the entries a reader may see: their value,  *)
(* 0 when there is none or it is a deletion.                               *)
Value(seen) == IF seen # {} /\ FirstOf(seen).live THEN FirstOf(seen).seq ELSE 0

(* FileMayContainUserkey                                                   *)
MayContain(file, key) == file.smallest.key <= key /\ key <= file.largest.key

(* The first of NewestFileFirst, in the form of a set.                     *)
NewestFile(files) == {f \in files : \A g \in files : f.number >= g.number}

(* FindFileInLevel: the first file whose largest user key is not before    *)
(* key, if it covers key.                                                  *)
FindFileInLevel(level, key) ==
  LET after == {f \in levels[level] : key <= f.largest.key}
  IN {f \in after : MayContain(f, key) /\ \A g \in after : g = f \/ FileOrder(f, g)}

(* Version::Get at a sequence number: level 0 from the newest file on,     *)
(* then one file of every level.  Only files that hold an entry matter: a  *)
(* search of any other goes on with the next.                              *)
VersionGet(key, seq) ==
  LET Hits(files) == {f \in files : MayContain(f, key) /\ Upto(f.entries, key, seq) # {}}
      zero == Hits(levels[0])
      deep == {l \in Levels \ {0} : Hits(FindFileInLevel(l, key)) # {}}
  IN CASE zero # {} -> EntriesOf(NewestFile(zero))
       [] zero = {} /\ deep # {} -> EntriesOf(FindFileInLevel(Min(deep), key))
       [] OTHER -> {}

(* DBImpl::Get: the first of mem_, imm_ and the Version that has an entry  *)
(* for the key ends the search, whether it is a value or a deletion.       *)
Get(key, seq) ==
  LET Seek(S) == Value(Upto(S, key, seq))
  IN CASE Upto(mem, key, seq) # {} -> Seek(mem)
       [] Upto(mem, key, seq) = {} /\ Upto(imm, key, seq) # {} -> Seek(imm)
       [] OTHER -> Seek(VersionGet(key, seq))

(* What an iterator shows at a sequence number: DBIter over the merge of   *)
(* both memtables and every file of the Version.                           *)
Scan(key, seq) ==
  Value(Upto(mem \cup imm \cup EntriesOf(AllFiles), key, seq))

-----------------------------------------------------------------------------
(* VersionSet::PickCompaction.                                             *)

(* n turns of a loop.                                                      *)
Repeat(op(_), x, n) ==
  LET turn[i \in 0 .. n] == IF i = 0 THEN x ELSE op(turn[i - 1]) IN turn[n]

(* A level's score, as a fraction <<numerator, denominator>>.              *)
Score(level) ==
  IF level = 0 THEN <<Cardinality(levels[0]), L0Trigger>>
  ELSE <<TotalFileSize(levels[level]), MaxBytes[level]>>

Higher(a, b) == a[1] * b[2] > b[1] * a[2]

(* Finalize: the level of the highest score, the lowest one of equals, is  *)
(* due for a compaction when its score is at least 1.                      *)
CompactionLevels ==
  {l \in Levels : /\ Score(l)[1] >= Score(l)[2]
                  /\ \A m \in Levels : IF m < l THEN Higher(Score(l), Score(m))
                                                ELSE ~Higher(Score(m), Score(l))}

NeedsCompaction == CompactionLevels # {}

(* PickCompaction has a level to write to.                                 *)
Compactable == {l \in CompactionLevels : l + 1 \in Levels}

(* Files of a level that overlap the user keys of some files.              *)
Touching(level, files) ==
  LET lo == FirstOf(EntriesOf(files)).key
      hi == LastOf(EntriesOf(files)).key
  IN {f \in levels[level] : lo <= f.largest.key /\ f.smallest.key <= hi}

(* Mutant of Overlapping: level 0 is treated like the other levels.        *)
OverlappingOnce(level, files) == Touching(level, files)

(* GetOverlappingInputs with the range of files; at level 0 the range      *)
(* grows with every file it meets, until no further file overlaps.         *)
Overlapping(level, files) ==
  LET Grow(fs) == fs \cup Touching(0, fs)
  IN IF level = 0 THEN Touching(0, Repeat(Grow, files, Cardinality(levels[0])))
                  ELSE Touching(level, files)

(* FindSmallestBoundaryFile: the first file of the level that begins, past *)
(* the largest key of the files, with the same user key.                   *)
BoundaryFile(level, files) ==
  LET end   == LastOf(EntriesOf(files))
      after == {f \in levels[level] : Before(end, f.smallest) /\ f.smallest.key = end.key}
  IN {f \in after : \A g \in after : g = f \/ FileOrder(f, g)}

(* Mutant of AddBoundaryInputs: nothing is added.                          *)
AddNoBoundaryInputs(level, files) == files

(* AddBoundaryInputs: add boundary files while there is one.               *)
AddBoundaryInputs(level, files) ==
  LET Add(fs) == fs \cup BoundaryFile(level, fs)
  IN IF files = {} THEN {} ELSE Repeat(Add, files, Cardinality(levels[level]))

(* The file at which a compaction of the level starts: the first one past  *)
(* the compact pointer, or the first of all.                               *)
StartFile(level) ==
  LET past == {f \in levels[level] : Before(compact_pointer[level], f.largest)}
      from == IF past = {} THEN levels[level] ELSE past
  IN CHOOSE f \in from : \A g \in from : g = f \/ FileOrder(f, g)

(* SetupOtherInputs: close the inputs of the level, take what overlaps in  *)
(* the next one, then take more of the level if that adds nothing below.   *)
Inputs(level, start) ==
  LET upper  == AddBoundaryInputs(level, start)
      Lower(fs) == AddBoundaryInputs(level + 1, Overlapping(level + 1, fs))
      lower  == Lower(upper)
      wide   == AddBoundaryInputs(level, Overlapping(level, upper \cup lower))
      expand == /\ lower # {}
                /\ Cardinality(wide) > Cardinality(upper)
                /\ TotalFileSize(lower) + TotalFileSize(wide) < ExpandLimit
                /\ Cardinality(Lower(wide)) = Cardinality(lower)
  IN IF expand THEN <<wide, Lower(wide)>> ELSE <<upper, lower>>

PickCompaction(level) ==
  LET first  == {StartFile(level)}
      inputs == Inputs(level, IF level = 0 THEN Overlapping(0, first) ELSE first)
      grand  == IF level + 2 \in Levels THEN Overlapping(level + 2, inputs[1] \cup inputs[2])
                ELSE {}
  IN [stage |-> "picked", level |-> level, inputs |-> inputs, grand |-> grand,
      smallest_snapshot |-> 0]

(* Mutant of IsTrivialMove: the files of the next level are not looked at. *)
IsLoneInput(c) == Cardinality(c.inputs[1]) = 1 /\ TotalFileSize(c.grand) <= GrandLimit

IsTrivialMove(c) ==
  /\ Cardinality(c.inputs[1]) = 1 /\ c.inputs[2] = {}
  /\ TotalFileSize(c.grand) <= GrandLimit

-----------------------------------------------------------------------------
(* DBImpl::DoCompactionWork.                                               *)

(* No file below the output level covers the key.  Only a compaction       *)
(* changes those levels, so they are those of its input Version.           *)
IsBaseLevelForKey(c, key) ==
  \A l \in Levels : l >= c.level + 2 => \A f \in levels[l] : ~MayContain(f, key)

(* Mutant of Drop: a deletion goes although a deeper level has its key.    *)
DropDeletions(c, newer, e) ==
  \/ newer <= c.smallest_snapshot
  \/ ~e.live /\ e.seq <= c.smallest_snapshot

(* An entry is dropped when a newer one of its key (sequence number newer) *)
(* is visible to every snapshot, or when it is a deletion visible to every *)
(* snapshot of a key that no deeper level holds.                           *)
Drop(c, newer, e) ==
  \/ newer <= c.smallest_snapshot
  \/ ~e.live /\ e.seq <= c.smallest_snapshot /\ IsBaseLevelForKey(c, e.key)

(* One turn of the merge loop for e, the first entry that is left: finish  *)
(* the output before e if it overlaps too much of the grandparents         *)
(* (ShouldStopBefore), drop e or add it, and finish the output after e if  *)
(* it is full.                                                             *)
MergeStep(c, m) ==
  LET e       == FirstOf(m.rest)
      passed  == {g \in c.grand : Before(g.largest, e)}
      overlap == m.overlap + TotalFileSize(passed \ m.passed)
      stop    == overlap > GrandLimit
      done    == IF stop /\ m.output # {} THEN Append(m.done, m.output) ELSE m.done
      newer   == IF e.key = m.key THEN m.seq ELSE c.smallest_snapshot + 1
      output  == (IF stop THEN {} ELSE m.output) \cup (IF Drop(c, newer, e) THEN {} ELSE {e})
      full    == e \in output /\ Cardinality(output) >= MaxFileSize
  IN [rest |-> m.rest \ {e}, passed |-> passed, overlap |-> IF stop THEN 0 ELSE overlap,
      key |-> e.key, seq |-> e.seq,
      done |-> IF full THEN Append(done, output) ELSE done,
      output |-> IF full THEN {} ELSE output]

(* The entries of the output files, in order.                              *)
Outputs(c) ==
  LET input == EntriesOf(c.inputs[1] \cup c.inputs[2])
      start == [rest |-> input, overlap |-> 0, key |-> 0, seq |-> 0, done |-> <<>>, output |-> {},
                passed |-> {g \in c.grand : Before(g.largest, FirstOf(input))}]
      end   == Repeat(LAMBDA m : MergeStep(c, m), start, Cardinality(input))
  IN IF end.output = {} THEN end.done ELSE Append(end.done, end.output)

-----------------------------------------------------------------------------
(* A database that Open has just created.  After a flush and a reopen the  *)
(* log that is replayed puts entries of older tables into level 0 again    *)
(* (db_impl.cc 315-336, 561); no run of this module starts there.          *)
Init ==
  /\ mem = {} /\ imm = {} /\ levels = [l \in Levels |-> {}]
  /\ last_sequence = 0 /\ next_file_number = 2
  /\ compact_pointer = [l \in Levels |-> NoKey]
  /\ snapshots = [h \in Handles |-> NoSnapshot]
  /\ user = "idle" /\ compaction = NoCompaction /\ bg_error = FALSE

(* The user thread.                                                        *)

(* MakeRoomForWrite, when there is no room: flush the pending imm_, or     *)
(* rotate the full mem_ and flush that.                                    *)
MakeRoom ==
  /\ user = "idle" /\ last_sequence < MaxWrites
  /\ \/ imm # {} /\ UNCHANGED <<mem, imm>>
     \/ imm = {} /\ Cardinality(mem) \in MemSizes /\ imm' = mem /\ mem' = {}
  /\ user' = "flush"
  /\ UNCHANGED <<levels, next_file_number, last_sequence, compact_pointer, snapshots,
                 compaction, bg_error>>

(* Mutant of FlushMemTable: the file number is not consumed.               *)
FlushMemTableReused ==
  IF imm = {} THEN UNCHANGED data
  ELSE /\ levels' = [levels EXCEPT ![0] = @ \cup {NewFile(next_file_number, imm)}]
       /\ imm' = {} /\ UNCHANGED <<mem, next_file_number>>

(* FlushMemTable: imm_ becomes a level-0 file.                             *)
FlushMemTable ==
  IF imm = {} THEN UNCHANGED data
  ELSE /\ levels' = [levels EXCEPT ![0] = @ \cup {NewFile(next_file_number, imm)}]
       /\ next_file_number' = next_file_number + 1
       /\ imm' = {} /\ UNCHANGED mem

UserFlush ==
  /\ user = "flush"
  /\ FlushMemTable /\ user' = "log"
  /\ UNCHANGED <<last_sequence, compact_pointer, snapshots, compaction, bg_error>>

(* The flush, or the append to the log, failed: Write returns the error.   *)
WriteFails ==
  /\ MayFail /\ user \in {"flush", "log"}
  /\ user' = "idle"
  /\ UNCHANGED <<data, last_sequence, compact_pointer, snapshots, compaction, bg_error>>

(* The rest of Write, for the one operation of a Put or a Delete.          *)
Write(op) ==
  /\ last_sequence < MaxWrites /\ op \in Workload[last_sequence + 1]
  /\ user = "log" \/ (user = "idle" /\ imm = {} /\ Cardinality(mem) < Max(MemSizes))
  /\ mem' = mem \cup {[key |-> op.key, seq |-> last_sequence + 1, live |-> op.live]}
  /\ last_sequence' = last_sequence + 1
  /\ user' = "idle"
  /\ UNCHANGED <<imm, levels, next_file_number, compact_pointer, snapshots, compaction, bg_error>>

GetSnapshot(h) ==
  /\ user = "idle" /\ snapshots[h] = NoSnapshot
  /\ snapshots' = [snapshots EXCEPT ![h] = last_sequence]
  /\ UNCHANGED <<data, last_sequence, compact_pointer, user, compaction, bg_error>>

ReleaseSnapshot(h) ==
  /\ user = "idle" /\ snapshots[h] # NoSnapshot
  /\ snapshots' = [snapshots EXCEPT ![h] = NoSnapshot]
  /\ UNCHANGED <<data, last_sequence, compact_pointer, user, compaction, bg_error>>

-----------------------------------------------------------------------------
(* The background thread.                                                  *)

Idle == compaction = NoCompaction /\ ~bg_error

BackgroundFlush ==
  /\ Idle /\ imm # {}
  /\ FlushMemTable
  /\ UNCHANGED <<last_sequence, compact_pointer, snapshots, user, compaction, bg_error>>

(* The compact pointer moves already when the compaction is picked.        *)
BackgroundPick ==
  /\ Idle /\ imm = {}
  /\ \E level \in Compactable :
       /\ compaction' = PickCompaction(level)
       /\ compact_pointer' = [compact_pointer EXCEPT ![level] =
                                LastOf(EntriesOf(compaction'.inputs[1]))]
  /\ UNCHANGED <<data, last_sequence, snapshots, user, bg_error>>

(* RunCompaction moves a file down without rewriting it.                   *)
TrivialMove ==
  /\ compaction.stage = "picked" /\ IsTrivialMove(compaction)
  /\ LET l == compaction.level IN
       levels' = [levels EXCEPT ![l] = @ \ compaction.inputs[1],
                                ![l + 1] = @ \cup compaction.inputs[1]]
  /\ compaction' = NoCompaction /\ bg_error' \in {FALSE, MayFail}
  /\ UNCHANGED <<mem, imm, next_file_number, last_sequence, compact_pointer, snapshots, user>>

OpenSnapshots == {snapshots[h] : h \in Handles} \ {NoSnapshot}

(* Mutant of SmallestSnapshot: the open snapshots are not looked at.       *)
NewestSequence == last_sequence

SmallestSnapshot == IF OpenSnapshots = {} THEN last_sequence ELSE Min(OpenSnapshots)

(* DoCompactionWork reads the oldest snapshot once, at its start.          *)
StartCompaction ==
  /\ compaction.stage = "picked" /\ ~IsTrivialMove(compaction)
  /\ compaction' = [compaction EXCEPT !.stage = "merging",
                                      !.smallest_snapshot = SmallestSnapshot]
  /\ UNCHANGED <<data, last_sequence, compact_pointer, snapshots, user, bg_error>>

(* The merge is done: InstallCompactionResults replaces the inputs.  A     *)
(* failure to remove the obsolete files afterwards counts as an error.     *)
InstallCompaction ==
  /\ compaction.stage = "merging"
  /\ LET l    == compaction.level
         outs == Outputs(compaction)
         new  == {NewFile(next_file_number + i - 1, outs[i]) : i \in DOMAIN outs}
     IN /\ levels' = [levels EXCEPT ![l] = @ \ compaction.inputs[1],
                                    ![l + 1] = (@ \ compaction.inputs[2]) \cup new]
        /\ next_file_number' = next_file_number + Len(outs)
  /\ compaction' = NoCompaction /\ bg_error' \in {FALSE, MayFail}
  /\ UNCHANGED <<mem, imm, last_sequence, compact_pointer, snapshots, user>>

(* A flush or a compaction fails: its output is removed and the background *)
(* thread never works again.                                               *)
BackgroundFails ==
  /\ MayFail /\ (compaction # NoCompaction \/ (Idle /\ imm # {}))
  /\ compaction' = NoCompaction /\ bg_error' = TRUE
  /\ UNCHANGED <<data, last_sequence, compact_pointer, snapshots, user>>

-----------------------------------------------------------------------------
(* Mutant of HasWork: MaybeScheduleCompaction looks at imm_ only.          *)
HasFlushWork == compaction # NoCompaction \/ (Idle /\ imm # {})

(* MaybeScheduleCompaction: the background thread has something to do.     *)
HasWork ==
  \/ compaction # NoCompaction
  \/ Idle /\ (imm # {} \/ Compactable # {})

(* Nobody calls, and nothing is left to do.                                *)
Rest == user = "idle" /\ ~HasWork /\ UNCHANGED vars

User ==
  \/ MakeRoom \/ UserFlush \/ WriteFails
  \/ \E op \in [key : Keys, live : BOOLEAN] : Write(op)
  \/ \E h \in Handles : GetSnapshot(h) \/ ReleaseSnapshot(h)

Background ==
  \/ BackgroundFlush \/ BackgroundPick \/ TrivialMove
  \/ StartCompaction \/ InstallCompaction \/ BackgroundFails

Next == User \/ Background \/ Rest

Spec == Init /\ [][Next]_vars

(* Weak fairness of Background, which is enabled exactly when HasWork: the *)
(* Env's thread runs what is scheduled, and every successful write and     *)
(* every background task end with MaybeScheduleCompaction.  A failed write *)
(* schedules nothing, so this is for MayFail = FALSE.                      *)
FairSpec == Spec /\ ([]<><<Background>>_vars \/ []<>~HasWork)

-----------------------------------------------------------------------------
(* Properties.                                                             *)

TypeOK ==
  /\ mem \in SUBSET Entry /\ imm \in SUBSET Entry
  /\ \A l \in Levels : \A f \in levels[l] : f \in File /\ f.entries # {}
  /\ \A f \in AllFiles : f.number < next_file_number
  /\ last_sequence \in Nat /\ next_file_number \in Nat
  /\ \A l \in Levels : compact_pointer[l] \in Entry \cup {NoKey}
  /\ snapshots \in [Handles -> Nat \cup {NoSnapshot}]
  /\ user \in {"idle", "flush", "log"} /\ bg_error \in BOOLEAN
  /\ compaction = NoCompaction \/
       /\ compaction.stage \in {"picked", "merging"} /\ compaction.level + 1 \in Levels
       /\ compaction.inputs[1] \subseteq levels[compaction.level]
       /\ compaction.inputs[2] \subseteq levels[compaction.level + 1]

(* Below level 0 the files of a level are disjoint in internal keys, which *)
(* binary search and the order of Builder::SaveTo take for granted.        *)
LevelsDisjoint ==
  \A l \in Levels \ {0} : \A f, g \in levels[l] :
    f # g => Before(f.largest, g.smallest) \/ Before(g.largest, f.smallest)

(* Get may stop at the first hit: every entry of a key is newer than all   *)
(* entries of that key in the places searched later, also when the         *)
(* versions of one user key lie in several files.  It is a property of a   *)
(* database that was never reopened: a table replayed from a log repeats   *)
(* entries of the tables below it.                                         *)
Newer(A, B) == \A d \in A, e \in B : d.key = e.key => d.seq > e.seq

NewerAbove ==
  /\ Newer(mem, imm)
  /\ Newer(mem \cup imm, EntriesOf(AllFiles))
  /\ \A f, g \in levels[0] : f.number > g.number => Newer(f.entries, g.entries)
  /\ \A l, m \in Levels : l < m => Newer(EntriesOf(levels[l]), EntriesOf(levels[m]))

SnapshotsOf(h) == {snapshots[h]} \ {NoSnapshot}

(* Lin-DB implements the map it promises: flushes and compactions change   *)
(* neither what Get returns nor what an iterator shows at an open          *)
(* snapshot, and a write changes only its own key.                         *)
KV == INSTANCE KVStore WITH
        writes <- last_sequence,
        store  <- [k \in Keys |-> Get(k, last_sequence)],
        views  <- [h \in Handles |-> {[k \in Keys |-> Scan(k, s)] : s \in SnapshotsOf(h)}]

ImplementsKV == KV!Spec

(* Wherever entries lie, one goes only when a newer one hides it from all  *)
(* readers, those that took their snapshot while the compaction ran too,   *)
(* or when it is a deletion and all that it hides goes with it, so that no *)
(* dead value comes back.  MVStore implements KVStore, for every constant. *)
MV == INSTANCE MVStore WITH
        entries   <- mem \cup imm \cup EntriesOf(AllFiles),
        snapshots <- [h \in Handles |-> SnapshotsOf(h)],
        horizon   <- IF compaction = NoCompaction THEN 0 ELSE compaction.smallest_snapshot

ImplementsMV == MV!Spec

(* Compactions come to an end: once the user stops writing, no level stays *)
(* over its limit, unless an error stopped the background thread.          *)
CompactionSettles == <>[](~NeedsCompaction \/ bg_error)

(* The repository's claim (include/lindb/db.h 15): a Snapshot is a handle  *)
(* of a consistent view at one sequence number.  Then Get and an iterator  *)
(* agree at every open snapshot.                                           *)
SnapshotReadsAgree ==
  \A h \in Handles : snapshots[h] # NoSnapshot =>
    \A k \in Keys : Get(k, snapshots[h]) = Scan(k, snapshots[h])
=============================================================================
