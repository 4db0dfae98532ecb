------------------------------ MODULE VersionRace ------------------------------
(***************************************************************************)
(* The life cycle of Versions and of table files with the two threads of   *)
(* a database (db/version_set.cc, db/db_impl.cc): the thread of the user   *)
(* flushes, reads and opens iterators while the background thread flushes  *)
(* or compacts and removes obsolete files.  No lock guards any of it.      *)
(*                                                                         *)
(* A Version is a set of table numbers (LsmTree models the levels) and a   *)
(* MANIFEST what its records replay to.  A read-modify-write of one        *)
(* counter or list is one step, but for next_file_number_, which the       *)
(* threads may both read before either writes it.                          *)
(***************************************************************************)
EXTENDS Naturals, FiniteSets

CONSTANTS
  Iterators,     \* the iterators the user may hold open
  MaxFile,       \* bound: the greatest table number
  MaxVersions,   \* bound: the Versions made
  MaxFailures    \* bound: the calls to the file system that fail

ASSUME VersionAssumption ==
  /\ IsFiniteSet(Iterators)
  /\ MaxFile \in Nat \ {0, 1} /\ MaxVersions \in Nat \ {0} /\ MaxFailures \in Nat

VARIABLES
  files, refs,        \* of each Version, by number in the order they were made
  current,            \* current_
  made,               \* the Versions made so far
  next_file_number,
  pending_outputs,
  disk,               \* the table files there are
  catalog,            \* the tables the MANIFEST named by CURRENT replays to
  descriptor_log,     \* whether the MANIFEST is open for writing
  imm,                \* imm_ # nullptr
  pc,                 \* where each thread is
  kind,               \* what it does there: "flush", "move", "merge" or "none"
  number,             \* the table it writes
  edit,               \* its VersionEdit
  base,               \* the base_ of its Builder
  iterator,           \* the Version each open iterator holds, or 0
  seen,               \* the Version the user thread read from current_
  input_version,      \* of the compaction, or 0
  outputs,            \* of the compaction
  children, doomed,   \* RemoveObsoleteFiles: the directory, the files to remove
  failures,
  undefined,          \* the program has used a Version after its deletion
  swept, unsure       \* ghosts: see FilesKept and CatalogExact

version_vars == <<files, refs, current, made>>
table_vars   == <<next_file_number, pending_outputs, disk>>
catalog_vars == <<catalog, descriptor_log, unsure>>
thread_vars  == <<pc, kind, number, edit, base>>
reader_vars  == <<iterator, seen>>
work_vars    == <<input_version, outputs, children, doomed>>
vars == <<version_vars, table_vars, catalog_vars, thread_vars, reader_vars, work_vars,
          imm, failures, undefined, swept>>

Threads == {"user", "worker"}
Tables  == 1 .. MaxFile
NoEdit  == [added |-> {}, deleted |-> {}]
Listed  == {v \in 1 .. made : refs[v] > 0}

(* A database after Open: two tables, the MANIFEST not yet reopened.       *)
Init ==
  /\ files = [v \in 1 .. MaxVersions |-> IF v = 1 THEN {1, 2} ELSE {}]
  /\ refs = [v \in 1 .. MaxVersions |-> IF v = 1 THEN 1 ELSE 0]
  /\ current = 1 /\ made = 1 /\ next_file_number = 3
  /\ pending_outputs = {} /\ disk = {1, 2} /\ catalog = {1, 2} /\ descriptor_log = FALSE
  /\ imm = FALSE
  /\ pc = [t \in Threads |-> "idle"] /\ kind = [t \in Threads |-> "none"]
  /\ number = [t \in Threads |-> 0] /\ edit = [t \in Threads |-> NoEdit]
  /\ base = [t \in Threads |-> 0]
  /\ iterator = [i \in Iterators |-> 0] /\ seen = 0
  /\ input_version = 0 /\ outputs = {} /\ children = {} /\ doomed = {}
  /\ failures = 0 /\ undefined = FALSE /\ swept = {} /\ unsure = {}

Goto(t, where) == pc' = [pc EXCEPT ![t] = where]

Busy == {t \in Threads : kind[t] # "none"}
RoomForVersion == made + Cardinality(Busy) < MaxVersions

(* The thread t has nothing in hand.                                       *)
Done(t) ==
  /\ kind' = [kind EXCEPT ![t] = "none"] /\ number' = [number EXCEPT ![t] = 0]
  /\ edit' = [edit EXCEPT ![t] = NoEdit]

Fail == failures < MaxFailures /\ failures' = failures + 1

-----------------------------------------------------------------------------
(* Readers.                                                                *)

(* Get and NewIterator begin by reading current_.                          *)
ReadCurrent ==
  /\ pc["user"] = "idle" /\ Goto("user", "read") /\ seen' = current
  /\ UNCHANGED <<version_vars, table_vars, catalog_vars, kind, number, edit, base, iterator,
                 work_vars, imm, failures, undefined, swept>>

(* Get takes no reference: it reads tables of the Version and returns.     *)
FinishGet ==
  /\ pc["user"] = "read" /\ Goto("user", "idle")
  /\ undefined' = (refs[seen] = 0) /\ seen' = 0
  /\ UNCHANGED <<version_vars, table_vars, catalog_vars, kind, number, edit, base, iterator,
                 work_vars, imm, failures, swept>>

(* Mutant of Ref: the iterator does not hold its Version.                  *)
NoRef(v) == refs

Ref(v) == [refs EXCEPT ![v] = @ + 1]

(* Mutant of Unref: a reference is never given back.                       *)
KeepRef(counts, v) == counts

Unref(counts, v) == [counts EXCEPT ![v] = @ - 1]

NewIterator(i) ==
  /\ pc["user"] = "read" /\ iterator[i] = 0 /\ Goto("user", "idle") /\ seen' = 0
  /\ IF refs[seen] = 0
     THEN undefined' = TRUE /\ UNCHANGED <<refs, iterator>>
     ELSE refs' = Ref(seen) /\ iterator' = [iterator EXCEPT ![i] = seen] /\ UNCHANGED undefined
  /\ UNCHANGED <<files, current, made, table_vars, catalog_vars, kind, number, edit, base,
                 work_vars, imm, failures, swept>>

(* The cleanup of the iterator, UnrefVersion.                              *)
DeleteIterator(i) ==
  /\ pc["user"] = "idle" /\ iterator[i] # 0
  /\ refs' = Unref(refs, iterator[i])
  /\ iterator' = [iterator EXCEPT ![i] = 0]
  /\ UNCHANGED <<files, current, made, table_vars, catalog_vars, thread_vars, seen,
                 work_vars, imm, failures, undefined, swept>>

-----------------------------------------------------------------------------
(* New tables.                                                             *)

(* FlushMemTable, by a write (the memtable is full or an earlier flush     *)
(* failed) or by the background thread.  BackgroundWork models the overlap *)
(* of two flushes of one memtable, which is left out here.                 *)
BeginFlush(t) ==
  /\ pc[t] = "idle" /\ (t = "worker" => imm) /\ \A u \in Threads : kind[u] # "flush"
  /\ next_file_number <= MaxFile /\ RoomForVersion
  /\ imm' = TRUE /\ number' = [number EXCEPT ![t] = next_file_number]
  /\ kind' = [kind EXCEPT ![t] = "flush"] /\ Goto(t, "number")
  /\ UNCHANGED <<version_vars, table_vars, catalog_vars, edit, base, reader_vars,
                 work_vars, failures, undefined, swept>>

(* OpenCompactionOutputFile, begun.                                        *)
BeginOutput ==
  /\ pc["worker"] = "merge" /\ next_file_number <= MaxFile
  /\ number' = [number EXCEPT !["worker"] = next_file_number] /\ Goto("worker", "number")
  /\ UNCHANGED <<version_vars, table_vars, catalog_vars, kind, edit, base, reader_vars,
                 work_vars, imm, failures, undefined, swept>>

(* NewFileNumber is over and the file is created.  If the other thread     *)
(* counted on in between, the numbers from this one are handed out twice.  *)
CreateTable(t) ==
  /\ pc[t] = "number"
  /\ next_file_number' = number[t] + 1
  /\ disk' = disk \cup {number[t]}
  /\ swept' = swept \cup (number[t] .. next_file_number - 1)
  /\ IF kind[t] = "flush"
     THEN UNCHANGED <<pending_outputs, outputs>>
     ELSE /\ pending_outputs' = pending_outputs \cup {number[t]}
          /\ outputs' = outputs \cup {number[t]}
  /\ Goto(t, "write")
  /\ UNCHANGED <<version_vars, catalog_vars, kind, number, edit, base, reader_vars,
                 input_version, children, doomed, imm, failures, undefined>>

(* The end of BuildTable; a table that fails is removed again.             *)
FinishFlushTable(t) ==
  /\ pc[t] = "write" /\ kind[t] = "flush"
  /\ \/ /\ edit' = [edit EXCEPT ![t] = [added |-> {number[t]}, deleted |-> {}]]
        /\ Goto(t, "log") /\ UNCHANGED <<kind, number, disk, failures>>
     \/ /\ Fail /\ disk' = disk \ {number[t]}
        /\ Done(t) /\ Goto(t, IF t = "user" THEN "idle" ELSE "stopped")
  /\ UNCHANGED <<version_vars, next_file_number, pending_outputs, catalog_vars, base, reader_vars,
                 work_vars, imm, undefined, swept>>

-----------------------------------------------------------------------------
(* Compactions of the background thread.                                   *)

(* PickCompaction; a trivial move edits one table in place.                *)
PickCompaction(inputs, what) ==
  /\ pc["worker"] = "idle" /\ ~imm /\ RoomForVersion
  /\ inputs # {} /\ inputs \subseteq files[current]
  /\ what = "move" => \E f \in inputs : inputs = {f}
  /\ input_version' = current /\ refs' = Ref(current)
  /\ kind' = [kind EXCEPT !["worker"] = what]
  /\ edit' = [edit EXCEPT !["worker"] =
                [deleted |-> inputs, added |-> IF what = "move" THEN inputs ELSE {}]]
  /\ Goto("worker", IF what = "move" THEN "log" ELSE "merge")
  /\ UNCHANGED <<files, current, made, table_vars, catalog_vars, number, base, reader_vars,
                 outputs, children, doomed, imm, failures, undefined, swept>>

(* FinishCOmpactionOutputFile.                                             *)
FinishOutput ==
  /\ pc["worker"] = "write" /\ kind["worker"] = "merge"
  /\ number' = [number EXCEPT !["worker"] = 0]
  /\ \/ /\ edit' = [edit EXCEPT !["worker"] =
                         [added |-> @.added \cup {number["worker"]}, deleted |-> @.deleted]]
        /\ Goto("worker", "merge") /\ UNCHANGED <<pending_outputs, disk, failures>>
     \/ /\ Fail /\ pending_outputs' = pending_outputs \ {number["worker"]}
        /\ disk' = disk \ {number["worker"]} /\ Goto("worker", "failed") /\ UNCHANGED edit
  /\ UNCHANGED <<version_vars, next_file_number, catalog_vars, kind, base, reader_vars,
                 work_vars, imm, undefined, swept>>

(* The merge has no more input.                                            *)
FinishMerge ==
  /\ pc["worker"] = "merge" /\ Goto("worker", "log")
  /\ UNCHANGED <<version_vars, table_vars, catalog_vars, kind, number, edit, base, reader_vars,
                 work_vars, imm, failures, undefined, swept>>

-----------------------------------------------------------------------------
(* LogAndApply, up to the Sync of the MANIFEST and CURRENT.  The first one *)
(* after Open truncates the MANIFEST and writes a snapshot.                *)
Replayed(tables, e) == (tables \ e.deleted) \cup e.added

(* Mutant of Snapshot: the new MANIFEST starts empty.                      *)
NoSnapshot == {}

(* WriteSnapshot.                                                          *)
Snapshot == files[current]

LogEdit(t) ==
  /\ pc[t] = "log" /\ Goto(t, "build") /\ descriptor_log' = TRUE
  /\ catalog' = Replayed(IF descriptor_log THEN catalog ELSE Snapshot, edit[t])
  /\ UNCHANGED <<version_vars, table_vars, unsure, kind, number, edit, base, reader_vars,
                 work_vars, imm, failures, undefined, swept>>

(* A failure leaves the record in the MANIFEST or not; in the first        *)
(* LogAndApply it leaves the MANIFEST alone (it could not be opened), open *)
(* without its snapshot, or removed.                                       *)
LogEditFails(t) ==
  /\ pc[t] = "log" /\ Fail /\ Goto(t, "failed")
  /\ \/ UNCHANGED <<catalog, descriptor_log, unsure>>
     \/ /\ descriptor_log /\ catalog' = Replayed(catalog, edit[t])
        /\ unsure' = unsure \cup edit[t].added \cup edit[t].deleted
        /\ UNCHANGED descriptor_log
     \/ /\ ~descriptor_log /\ descriptor_log' \in BOOLEAN
        /\ catalog' = {} /\ unsure' = unsure \cup files[current]
  /\ UNCHANGED <<version_vars, table_vars, kind, number, edit, base, reader_vars,
                 work_vars, imm, undefined, swept>>

(* ApplyVersionEdit: the Builder holds its base ...                        *)
Build(t) ==
  /\ pc[t] = "build" /\ Goto(t, "append")
  /\ base' = [base EXCEPT ![t] = current] /\ refs' = Ref(current)
  /\ UNCHANGED <<files, current, made, table_vars, catalog_vars, kind, number, edit, reader_vars,
                 work_vars, imm, failures, undefined, swept>>

(* ... and AppendVersion installs what it built, over whatever Version is  *)
(* current by then: the difference from the base is lost.                  *)
Append(t) ==
  /\ pc[t] = "append"
  /\ LET new == made + 1
         built == Replayed(files[base[t]], edit[t])
     IN /\ made' = new /\ current' = new
        /\ files' = [files EXCEPT ![new] = built]
        /\ refs' = Unref(Unref([refs EXCEPT ![new] = 1], current), base[t])
  /\ swept' = swept \cup (files[current] \ files[base[t]]) \cup (files[base[t]] \ files[current])
  /\ base' = [base EXCEPT ![t] = 0]
  /\ IF kind[t] = "flush"
     THEN imm' = FALSE /\ Done(t) /\ Goto(t, "idle")
     ELSE Goto(t, "release") /\ UNCHANGED <<imm, kind, number, edit>>
  /\ UNCHANGED <<table_vars, catalog_vars, reader_vars, work_vars, failures, undefined>>

-----------------------------------------------------------------------------
(* What follows.                                                           *)

(* FlushMemTable after a failure removes its table and keeps imm_; an      *)
(* error of the background thread is its last act.                         *)
FlushFails(t) ==
  /\ pc[t] = "failed" /\ kind[t] = "flush"
  /\ disk' = disk \ {number[t]} /\ Done(t)
  /\ Goto(t, IF t = "user" THEN "idle" ELSE "stopped")
  /\ UNCHANGED <<version_vars, next_file_number, pending_outputs, catalog_vars, base, reader_vars,
                 work_vars, imm, failures, undefined, swept>>

(* ReleaseInputs, after an installed edit or in ~Compaction.               *)
ReleaseInputs ==
  /\ pc["worker"] = "release" \/ (pc["worker"] = "failed" /\ kind["worker"] = "move")
  /\ refs' = IF input_version = 0 THEN refs ELSE Unref(refs, input_version)
  /\ input_version' = 0
  /\ IF pc["worker"] = "release" /\ kind["worker"] # "none"
     THEN Goto("worker", "list") /\ UNCHANGED <<kind, number, edit>>
     ELSE Goto("worker", "stopped") /\ Done("worker")
  /\ UNCHANGED <<files, current, made, table_vars, catalog_vars, base, reader_vars,
                 outputs, children, doomed, imm, failures, undefined, swept>>

(* RemoveObsoleteFiles reads the directory, then the Versions, ...         *)
GetChildren ==
  /\ pc["worker"] = "list" /\ Goto("worker", "live") /\ children' = disk
  /\ UNCHANGED <<version_vars, table_vars, catalog_vars, kind, number, edit, base, reader_vars,
                 input_version, outputs, doomed, imm, failures, undefined, swept>>

(* Mutant of LiveFiles: only the current Version counts.                   *)
CurrentFiles == files[current] \cup pending_outputs

LiveFiles == UNION {files[v] : v \in Listed} \cup pending_outputs

AddLiveFiles ==
  /\ pc["worker"] = "live" /\ Goto("worker", "remove")
  /\ doomed' = children \ LiveFiles /\ children' = {}
  /\ swept' = swept \cup (doomed' \cap {number["user"]})
  /\ UNCHANGED <<version_vars, table_vars, catalog_vars, kind, number, edit, base, reader_vars,
                 input_version, outputs, imm, failures, undefined>>

(* ... then removes the files, up to the first failure.                    *)
RemoveObsoleteFiles ==
  /\ pc["worker"] = "remove" /\ doomed' = {}
  /\ \/ /\ disk' = disk \ doomed /\ UNCHANGED failures
        /\ Goto("worker", IF kind["worker"] = "merge" THEN "cleanup"
                          ELSE IF kind["worker"] = "move" THEN "idle" ELSE "release")
        /\ IF kind["worker"] = "move" THEN Done("worker") ELSE UNCHANGED <<kind, number, edit>>
     \/ /\ Fail /\ \E some \in SUBSET doomed : disk' = disk \ some
        /\ IF kind["worker"] = "merge"
           THEN Goto("worker", "failed") /\ UNCHANGED <<kind, number, edit>>
           ELSE Goto("worker", "release") /\ Done("worker")
  /\ UNCHANGED <<version_vars, next_file_number, pending_outputs, catalog_vars, base, reader_vars,
                 input_version, outputs, children, imm, undefined, swept>>

(* CleanupCompaction; after an error RunCompaction goes on to              *)
(* RemoveObsoleteFiles, which then finds the outputs.                      *)
CleanupCompaction ==
  /\ kind["worker"] = "merge" /\ pc["worker"] \in {"cleanup", "failed"}
  /\ pending_outputs' = pending_outputs \ outputs /\ outputs' = {}
  /\ Done("worker") /\ Goto("worker", IF pc["worker"] = "cleanup" THEN "idle" ELSE "list")
  /\ UNCHANGED <<version_vars, next_file_number, disk, catalog_vars, base, reader_vars,
                 input_version, children, doomed, imm, failures, undefined, swept>>

Terminated ==
  /\ undefined \/ ~RoomForVersion \/ next_file_number > MaxFile
  /\ UNCHANGED vars

ThreadStep(t) ==
  \/ BeginFlush(t) \/ CreateTable(t) \/ FinishFlushTable(t)
  \/ LogEdit(t) \/ LogEditFails(t) \/ Build(t) \/ Append(t) \/ FlushFails(t)

UserStep ==
  \/ ReadCurrent \/ FinishGet
  \/ \E i \in Iterators : NewIterator(i) \/ DeleteIterator(i)

WorkerStep ==
  \/ \E inputs \in SUBSET files[current], what \in {"move", "merge"} : PickCompaction(inputs, what)
  \/ BeginOutput \/ FinishOutput \/ FinishMerge \/ ReleaseInputs
  \/ GetChildren \/ AddLiveFiles \/ RemoveObsoleteFiles \/ CleanupCompaction

Next ==
  \/ ~undefined /\ (UserStep \/ WorkerStep \/ \E t \in Threads : ThreadStep(t))
  \/ Terminated

Spec == Init /\ [][Next]_vars

-----------------------------------------------------------------------------
(* Properties.                                                             *)

TypeOK ==
  /\ made \in 1 .. MaxVersions /\ current \in 1 .. made
  /\ files \in [1 .. MaxVersions -> SUBSET Tables] /\ refs \in [1 .. MaxVersions -> Nat]
  /\ next_file_number \in 1 .. MaxFile + 1
  /\ pending_outputs \subseteq Tables /\ disk \subseteq Tables /\ catalog \subseteq Tables
  /\ outputs \subseteq Tables /\ children \subseteq Tables /\ doomed \subseteq Tables
  /\ swept \subseteq Tables /\ unsure \subseteq Tables
  /\ descriptor_log \in BOOLEAN /\ imm \in BOOLEAN /\ undefined \in BOOLEAN
  /\ pc \in [Threads -> {"idle", "read", "number", "write", "merge", "log", "build", "append", "release",
                         "list", "live", "remove", "cleanup", "failed", "stopped"}]
  /\ kind \in [Threads -> {"none", "flush", "move", "merge"}]
  /\ number \in [Threads -> 0 .. MaxFile]
  /\ edit \in [Threads -> [added : SUBSET Tables, deleted : SUBSET Tables]]
  /\ base \in [Threads -> 0 .. made] /\ iterator \in [Iterators -> 0 .. made]
  /\ seen \in 0 .. made /\ input_version \in 0 .. made
  /\ failures \in 0 .. MaxFailures

(* The reference count of every Version is the number of its holders: the  *)
(* current_ pointer, the Builders, the compaction and the iterators - so   *)
(* Unref deletes no Version that is held, and none is left over, after     *)
(* failures too and whatever the threads do at the same time.              *)
RefsExact ==
  \A v \in 1 .. MaxVersions :
    refs[v] = (IF v = current THEN 1 ELSE 0) + (IF v = input_version THEN 1 ELSE 0)
                + Cardinality({t \in Threads : base[t] = v})
                + Cardinality({i \in Iterators : iterator[i] = v})

(* No table of a Version in the list is removed, were it only held by an   *)
(* iterator or by a compaction that is about to fail, but for the tables   *)
(* the missing lock costs (swept): a flush's table RemoveObsoleteFiles saw *)
(* before its Version, the tables in which two overlapping LogAndApply     *)
(* differ, and a table number handed out twice.                            *)
FilesKept == \A v \in Listed : files[v] \ swept \subseteq disk

(* The MANIFEST and the current Version tell the same tables whenever no   *)
(* edit is on its way from the one to the other, so no installed edit is   *)
(* lost by a restart and none is invented, but for swept tables and those  *)
(* of a LogAndApply that failed (unsure).                                  *)
CatalogExact ==
  LET onTheWay == UNION {edit[t].added \cup edit[t].deleted : t \in {u \in Threads : pc[u] \in {"build", "append"}}}
      known(tables) == tables \ (swept \cup unsure \cup onTheWay)
  IN known(catalog) = known(files[current])
=============================================================================
