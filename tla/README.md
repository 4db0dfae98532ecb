# A verification of Lin-DB in TLA+

Lin-DB is a log-structured key-value store in C++, a small relative of LevelDB.
This directory holds TLA+ modules translated from its source, TLC configurations
that check them on small instances, and TLAPS proofs of theorems about them.
Paths below are relative to `src/`; a line number names the code at the commit
the modules were written from. `PROJECT.json` maps every definition to its lines,
lists the runs, a mutant of the code for each checked property, the findings,
the hazards and the theorems.

## 1. The system

A `DBImpl` (`db/db_impl.cc`) is used by one caller at a time through `Put`,
`Delete`, `Get`, `NewIterator`, `GetSnapshot` and `ReleaseSnapshot`
(`include/lindb/db.h`). A write goes to the write-ahead log and into the memtable
`mem_`. A memtable over `write_buffer_size` becomes `imm_` and is flushed *by the
writing thread itself* to a level-0 table. A write then asks
`MaybeScheduleCompaction` for background work, which runs on the one thread of
`Env::Default()`, shared by all databases of the process. A `VersionSet`
(`db/version_set.cc`) keeps the current `Version` (which tables each of seven
levels holds) and logs every change as a `VersionEdit` in the MANIFEST.

Only `background_mu_` exists, and it guards only `shutting_down_`, the two
`background_compaction_*_` flags and `bg_error_`. `mem_`, `imm_`, the Version list,
`pending_outputs_` and `last_sequence_` are shared by the two threads with no lock.

### Components

| component | state | operations | interacts with | hard behaviour | what makes it correct |
|---|---|---|---|---|---|
| Background scheduling | the flags, `bg_error_`, the Env's queue and thread | `MaybeScheduleCompaction`, `BackgroundCall`, `Schedule`, `~DBImpl` | Write, flush, every other DB on the Env | interleaving, lost wakeups, shutdown | one task per DB, nothing forgotten, destructor waits and returns |
| Durable state | logs, tables, MANIFEST, CURRENT, temporary files | `Open`, `Write`, flush, `LogAndApply`, `SetCurrentFile`, `RemoveObsoleteFiles` | the file system | crash at any point, unsynced suffixes, replay of a replay | acknowledged records survive, numbers never reused, Open succeeds |
| LSM tree | `mem_`, `imm_`, levels, snapshots, compact pointers | `Put`, `Delete`, `Get`, iterate, flush, pick, move, merge | background thread | drop rule against snapshots, order of files, long sequences | it is a map with snapshots; levels ordered by age |
| Version life cycle | Version list, reference counts, `pending_outputs_` | `AppendVersion`, `Ref`/`Unref`, `AddLiveFiles` | both threads, readers | unlocked sharing | no file or Version freed while used |
| Log format | block offset, fragments | `AddRecord`, `ReadRecord` | WAL, MANIFEST | block trailers, torn tails | reads what was written |
| User iterator | direction, saved key | `Next`, `Prev`, `Seek*` | merging iterator | change of direction | each visible key once, in order |
| Caches | hash table, LRU list, handles | `Insert`, `Lookup`, `Release`, `Erase` | readers, both threads | entries in use at capacity | freed once, after the last release |
| Skip list | nodes, heights | `Insert`, `Seek` | readers beside the writer | partly linked nodes | a search sees every complete insert |
| Table format, encodings, utilities | none beyond a file's bytes | build, parse | tables | boundaries | round trips |

`PROJECT.json` gives the status of each; its `hazards` name the lines where each
of these goes wrong if the code is mistaken, and the property that would show it.

## 2. Modules

| module | what it is | status |
|---|---|---|
| `BackgroundWork` | user threads, the Env's queue and thread, the destructor | done |
| `BackgroundWorkProofs` | TLAPS: its type invariant and four safety invariants | done |
| `Recovery` | the directory, file operation by file operation, with kills and power failures | done |
| `RecoveryProofs` | TLAPS: its type invariant, durability, catalog, numbers and replay, and what replaying a MANIFEST computes | done |
| `KVStore` | abstract: a map with snapshots | done |
| `MVStore` | abstract: a set of versions of keys, with the rule by which a compaction may drop some; implements `KVStore` | done |
| `LsmTree` | memtables, levels, compaction; implements `KVStore` and `MVStore` | done |
| `LsmTreeProofs` | TLAPS: its type invariant, levels and order of age, both refinements, and that `MVStore` implements `KVStore` | done |
| `VersionRace` | LogAndApply, references and obsolete files with both threads inside | done |
| `VersionRaceProofs` | TLAPS: its type invariant, references, files and catalog | done |
| `SkipList`, `SortedTable` | memtable and table file as operators: building and searching | done |
| `Iterators` | DBIter over the merging iterator over memtable and tables, against a cursor on the visible map | done |
| `IteratorsProofs` | TLAPS: its type invariant, the cursor, the merging iterator and the searches | done |
| `LogFormat` | fragments and blocks; the reader against the writer, with failing writes and lost tails | done |
| `LogFormatProofs` | TLAPS: its type invariant, what is read back, what is not, and how a cut log ends | done |
| `LRUCache`, `TableCache` | the cache, and the two threads that look up, open and insert tables and blocks | done |
| `TableCacheProofs` | TLAPS: types, references, lists, charges and lifetimes of the cache | done |
| `NumberLemmas` | TLAPS: numbers: the least and the largest of a set, functions computed turn by turn, sums, remainders | done |

The `MC*` modules give the constants of the runs their values.

### BackgroundWork

One action is one critical section of `background_mu_` or of
`background_work_mutex_`, or one access to the unlocked `mem_`, `imm_` and current
Version. `user[d]` is where the user thread of database `d` stands in `Write` or
in `~DBImpl`; `worker` and `job` are where the Env's thread stands and for whom.
`condition_variable::wait` is the usual pair: test and block in one step of the
mutex, wake by notification or spuriously (`SpuriousWakeup`). Data is reduced to
what the protocol reads: entries of `mem_`, whether `imm_` is set, the number of
level-0 files. A compaction takes any positive number of level-0 files, which
covers every choice of `PickCompaction` at level 0; deeper levels are left to
`LsmTree`. `Init` is the last step of `Open`, its `MaybeScheduleCompaction`. Rotating (`imm_ = move(mem_)`, new `mem_`) is one step.

A step that uses an object another thread has freed sets `undefined`, after which
nothing moves: the two ways are both threads in `FlushMemTable` of the same `imm_`
(`UserFlushDone`, `WorkerFlushDone`) and the worker in the tail of `BackgroundCall`
of a destroyed database (`UseAfterDestroy`).

### Recovery

The variables `logs`, `tables`, `manifests`, `temps`, `current` are the directory;
the others are fields of `DBImpl` and `VersionSet` and the position of the one
process. `CreateManifest` .. `Install` are the file operations of `LogAndApply` in
their order, `BuildTable` is a whole table (written and synced before its edit),
`RemoveObsoleteFile` removes one file. `Kill` and `PowerFailure` may come before
any step. A file keeps its synced part and, after a power failure, any prefix of
the rest; the last record may be torn. Names are assumed durable at once: the code
never syncs a directory, and nothing it says relies on one ordering or another.
`owed`, `stable`, `syncFailed` and `catalogLost` are ghosts of the
properties: what was acknowledged, and whether one of the two named windows was hit.

### KVStore, MVStore and LsmTree

An entry is a key, a sequence number and whether it is a value or a deletion. A
file is a number and a set of entries, a level a set of files; sizes are counted in
entries. `Inputs` is `SetupOtherInputs`, `MergeStep` one turn of the loop of
`DoCompactionWork` (`ShouldStopBefore`, `Drop`, the cut at `max_file_size`),
`Outputs` the whole merge. The merge has no effect anyone sees before
`InstallCompaction`, and reads shared state only at its start (`StartCompaction`
takes the oldest snapshot), so the user's writes, flushes, snapshots and releases
fall between those two steps. Output numbers are handed out together and a table that
failed to be built does not use one up: only their order matters. `level_ptrs_`
only saves comparisons and is left out. `Init` is a database that `Open` has just created. After a flush and a reopen level 0 holds
copies of entries of older tables (see `Iterators` below), the files with higher numbers then have entries older than those
with lower numbers, and `NewerAbove` is false, although a `Get` still stops at the newest entry, since `Open`
puts all of the log into files above those copies. No run and no theorem of this module
speaks of a database that was reopened. Seek compaction is unreachable
(`DBImpl::Get` never calls `UpdateStats`); `CompactRange` and the `TEST_` hooks are
not modelled.

`ImplementsKV` is the refinement `LsmTree => KVStore` with `store` mapped to what
`Get` returns at `last_sequence_` for every key, and `views` to what an iterator
shows at each open snapshot.

`ImplementsMV` is the refinement `LsmTree => MVStore`, which forgets where an entry lies:
`entries` is the union of memtables and levels, `horizon` is the `smallest_snapshot` the
merge read at its start (0 without one). Any number of writes and
snapshots lie between `StartCompaction` and `InstallCompaction`; what the merge then takes
away must be `Droppable` by its old horizon, among the entries of the moment. Flushes and trivial moves
are stuttering. That `Droppable` is a rule no reader can see is the
theorem `MVImplementsKV` of `LsmTreeProofs`.

### VersionRace

`Recovery` and `LsmTree` run one operation of the catalog at a time; here the two
threads are both inside. `pc[t]` is where thread `t` stands and `kind[t]` what for: a
flush, a trivial move, a merge. `number[t]`, `edit[t]` and `base[t]` are the
locals of `FlushMemTable` or `DoCompactionWork` and of the `Builder`. The steps of a
flush are `BeginFlush` (reads `next_file_number_`), `CreateTable` (writes it back),
`FinishFlushTable`, `LogEdit` (the record, its sync and, the first time, the new
MANIFEST and `CURRENT`), `Build` (the `Builder` takes its base) and `Append`
(`AppendVersion`). A compaction goes `PickCompaction`, any number of outputs,
the same three steps, `ReleaseInputs`, `RemoveObsoleteFiles` in three steps (the
directory, the live files, the removals) and `CleanupCompaction`. Any of the file operations
may fail, and what the failure leaves behind is what the code leaves.

A Version is a set of table numbers, a MANIFEST what its records replay to. A
read-modify-write of one counter or list is one step, but for `next_file_number_`,
where the lost update matters. That both threads flush one memtable is
`BackgroundWork`'s subject and left out. `Get` takes no reference and `NewIterator`
takes it after it has read `current_`, so both may meet a deleted Version; that is
`undefined`, after which nothing moves.

Three races do damage, and the ghosts name exactly the tables they touch.
`swept`: a flush's table that `RemoveObsoleteFiles` saw in the directory before any
Version had it (it is not in `pending_outputs_`); the tables in which two
overlapping `LogAndApply` differ, since the later one installs over a base that is no longer current;
numbers handed out twice. `unsure`: the tables of an edit whose `LogAndApply` failed, of which the
MANIFEST may have the record, and those of the current Version when the
first `LogAndApply` fails in its new MANIFEST. `FilesKept` and `CatalogExact` speak
of every other table, `RefsExact` has no exception.

### SkipList, SortedTable, Iterators

`SkipList` and `SortedTable` hold no state: they are the memtable and a table file as
operators. A skip list is a linked list per level, `Insert` links a node of any
height, and the searches walk down the levels as the code does. A table is built entry by entry:
blocks with restart points, an index whose separators may or may not be shortened. `BlockIter`
and `TwoLevelIterator` are records moved by the same scans and binary searches as in the code. User
keys are even numbers, so that an odd one can stand between two; a byte position is
the position of an entry. Shared prefixes are left out, since whole keys are read at restart points only.
A loop of the code is `Loop(n, x, Turn)`: `Turn` is what one pass makes of the
variables and leaves them alone once the condition is false, and `n` is a number of passes that is
always enough, which is proved (a search of a level passes each node at most once, a scan of
the iterator each place of an entry).

`Iterators` is the user's side: `NewIterator` chooses one of `Contents`, a sequence number and
whether separators are shortened. `Content` is what is assumed of the choices: tables sorted and not empty
(the assertion of `TableBuilder::Add`), no entry twice in the memtable (that of `SkipList::Insert`). An entry may be in any
number of tables: a flush records the log that is still being written (`db_impl.cc:561`) and `Open` replays all of that log
(315-336), so a database that was flushed and reopened has copies. Of children with equal keys
`FindSmallest` and `FindLargest` keep the first, as the code does (`merger.cc` 124, 136), and a turn moves a child
that stands on the current key (64-66). `Seek`, `SeekToFirst`, `SeekToLast`, `Next` and `Prev` are the handlers of `DBIter`
over the `MergingIterator`, and `Write` adds to the memtable between two calls. The
ghost `call` keeps the last call and where it started, which is what
`CursorExact` compares with a cursor over the keys the snapshot sees.
`SearchExact` compares `MemTable::Get` and `Table::InternalGet` with a search of the sorted entries. Read
errors and corrupted keys, which just stop the iterator, are left out.

### LogFormat

A byte is a pair of a fragment and a position in it, or a zero of a trailer, so that
a checksum is sound exactly where the bytes of one fragment follow one another, and
what a header put together from other bytes says is left open. `AddRecord` emits one fragment per step,
each through `Append` and `Flush` of `PosixWritableFile` with its buffer; `write` may take a
part of the bytes before it fails. `Sync`, `Close`, a kill (the buffer
is lost) and a power failure (any suffix that was not synced is lost) end in the reader,
`ReadRecord` as a function of the file.

### LRUCache, TableCache

An action of `LRUCache` is a call: `Insert`, `Lookup`, `Release`, `Erase`, the
destructor. An entry is a block of memory, used again once freed, so that a
dangling handle would show. `TableCache` puts two threads between lookup and insertion, as `FindTable`
and `BlockReader` do, and lets either destroy an iterator the other made. Both may miss the same file: the second `Insert`
takes the first entry out of the table while it is in use, and the cache's own reference to
it is never given back (`Erase` and `Insert` drop it for idle entries only). Such an
entry is never freed; the ghost `orphans` names them, and `~LRUCacheImpl` stops at its
assertion if there is one. `Prune`, `TotalCharge` and `NewId` are left out.

## 3. Runs

| run | module, config | distinct states | what it shows |
|---|---|---|---|
| `background_work` | `MCBackgroundWork` | 681,713 | no second task, no lost wakeup, no forgotten work; destructors wait for their task and return |
| `background_destroy` | `BackgroundWorkDestroy.cfg` | violation | finding 1 |
| `recovery` | `MCRecovery` | 624,016 | nothing acknowledged is lost, no number reused, Open succeeds, outside the named windows |
| `recovery_removal` | `RecoveryRemoval.cfg` | violation | finding 2 |
| `lsm_tree` | `MCLsmTree` | 405,446 | the tree is the map with snapshots, and drops only what `MVStore` allows, with deletions, a snapshot and failures |
| `lsm_wide` | `LsmTreeWide.cfg` | 110,703 | disjoint levels and right reads with wide files, expansions and cuts; compaction settles |
| `lsm_snapshots` | `LsmTreeSnapshots.cfg` | violation | finding 3 |
| `version_race` | `MCVersionRace` | 3,219,763 | references exact, no table of a held Version removed, MANIFEST and memory agree, with both threads inside |
| `iterators` | `MCIterators` | 199,752 | any sequence of calls moves as a cursor over the visible keys; the searches find what is there |
| `iterators_repeat` | `IteratorsRepeat.cfg` | violation | finding 4 |
| `log_format` | `MCLogFormat` | 920,681 | what was acknowledged is read back, nothing else is, and a cut log ends with the right report |
| `table_cache` | `MCTableCache` | 81,165 | no entry freed in use or twice, lists and charge exact, though both threads may read one file |

### Bounds

* `background_work`: two databases share the thread, so that a task waits behind
  another database's; the first writes three times, which rotates and flushes a memtable,
  the second once. The trigger is 2 and the Version that `Open` recovered holds 0, 1 or 2 level-0 files; `Init` is before the
  `MaybeScheduleCompaction` that ends `Open` (`db_impl.cc:363`).
* `recovery`: four writes on two keys with memtables that are full after two records give
  flushes between the writes and replays that flush in the middle; two stops allow a crash
  inside the recovery from a crash; one compaction gives removal of named tables.
* `lsm_tree`: three levels, so that level 1 has both a level below and a last level;
  every limit is one entry, so four writes reach the last level, and
  versions of a key that a snapshot keeps lie in two files. The last level's
  limit is never reached (see the hazard at `version_set.cc:1042`).
* `lsm_wide`: memtables of one to three entries over four keys, and an order of
  writes (`WideWorkload`) that makes level-0 files overlap in chains; expanded inputs,
  outputs cut before a grandparent and level-1 compactions of several files all occur.
* `version_race`: four Versions, so that two `LogAndApply` overlap after one that
  opened the MANIFEST and one more follows; tables up to number 4, so that two may be written
  at once or one number drawn twice; one iterator, which may hold any Version; two failures, so that the
  handling of a failure may fail. A third thread does not exist.
* `iterators`: three user keys with even numbers and seeks on, between and before them; every
  history of six writes of a given shape, with deletions, in three layouts (one table of two blocks
  and two memtable nodes; two overlapping tables and one node; a reopened database, whose second table repeats the
  three entries of the first and adds one, with two nodes, seen at a snapshot, since those before the reopen are gone); blocks of three entries with a restart point after
  two, so that a search starts at, before and between restart points; one write while the iterator is open.
* `log_format`: blocks of six bytes with headers of two and the buffer of two blocks,
  as in the code in proportion; records of 2 leave exactly a header's room, records of 3 a
  trailer, records of 9 take three fragments; two failures.
* `table_cache`: two threads, three keys, four blocks of memory, capacity 2 and charges 1 and 2:
  an insertion evicts none, one or two entries or finds none to evict. Keys, blocks and threads are
  symmetric: no action and no property tells them apart.

### Fairness

`BackgroundWork.FairSpec`: weak fairness of each user thread *inside* a call, and of
the Env's thread. The operating system runs runnable threads; nobody is obliged to
call `Write` or to destroy the database, and spurious wakeups are never obliged.
`LsmTree.FairSpec`: weak fairness of the background thread only, written without
`ENABLED`: infinitely often it steps or has nothing to do (`HasWork`). Every successful write and every
background task end with `MaybeScheduleCompaction`; a failed write schedules nothing, so
this fairness is used with `MayFail = FALSE` only.
The other modules state safety only: their threads and users may stop anywhere.

### Deadlock

Deadlock is checked in every run. `Terminated` (`BackgroundWork`, `Recovery`) and
`Rest` (`LsmTree`) are the states in which the system may really stop: all closed or
undefined; failed, aborted or idle; user silent and no work left. In `VersionRace`
`Terminated` allows the end where a bound is reached, in `TableCache` after the
destructor, in `LogFormat` when the reader has the file.

## 4. Findings

1. **A call outlives its object** (`db_impl.cc:640-647`). `BackgroundCall` clears both
   flags and then calls `MaybeScheduleCompaction` and `notify_all` on the object, which
   a destructor that has seen the flags may have freed.
2. **The catalog is truncated in place** (`version_set.cc:716`). The first
   `LogAndApply` after `Recover` truncates the MANIFEST `CURRENT` names. A crash
   before its new contents are synced leaves an empty Version, and the next `Open`
   removes every table.
3. **A snapshot read misses a value** (`version_set.cc:410`). When a compaction splits
   the versions of one user key over two files, `Get` at an older snapshot looks at the
   first file only.
4. **Next repeats a key** (`db_iter.cc:61`). `Prev` walks back over a key of which the
   snapshot sees nothing, and rests before it. A `Next` then steps onto that key,
   takes it for the current one and shows the real current key again.
   `CursorExact` holds outside this window (`repeats`).

More disagreements are part of the models and excluded by name from the
properties: both threads may flush the same `imm_` (`undefined` in
`BackgroundWork`), and a write whose `Sync` failed leaves a record whose sequence
number is used again, at which the skip list's assertion may abort every later `Open`
(`syncFailed` in `OpenSucceeds`). A torn last record makes `Open` fail too
(`torn` in `OpenSucceeds`). The three races of `VersionRace` are in its `swept` and
`unsure`. A table both threads miss at once is cached twice and one copy never freed
(`orphans` in `LRUCache`), at which the cache's destructor asserts. A flush whose `LogAndApply` fails removes a table the MANIFEST
may name, and a first `LogAndApply` that fails removes the MANIFEST of `CURRENT` (`unsure`). A `write` that fails half-way leaves the whole
buffer to be written again, so that after three of them the reader may join the beginning of one failed record
with the end of another (`NothingInvented` speaks of acknowledged records only, once the file is `damaged`). The repository says
nothing of these cases that a run could refute, so they are not findings, and no property covers them: a ghost leaves exactly the
damaged state out, and the properties show that the damage goes no further. The `hazards` of `PROJECT.json`
say so in a note where it applies (`db_impl.cc` 184, 551, 566; `version_set.cc` 708, 761, 895; `log_reader.cc` 78;
`table_cache.cc` 47; in part `db_impl.cc` 177 and `env.cc` 248).

## 5. Proofs

`BackgroundWorkProofs` proves, for any set of databases, any trigger, any limits and
any number of writes (from `ConstantsAssumption` alone):

* `TypeCorrect`: `Spec => []TypeOK`
* `AtMostOneTask`: `Spec => []SingleTask`
* `DestructorWaits`: `Spec => []DestroyedIsQuiet`
* `WakeupsArrive`: `Spec => []NoLostWakeup`
* `WorkRemembered`: `Spec => []NoForgottenWork`

The inductive invariant is `IInv == TypeOK /\ SingleTask /\ Steady /\ NoLostWakeup /\ Remembered`.
`SingleTask` ties the scheduled flag to the place of the one task: a user thread about
to push, the queue, or `BackgroundCall` before its last critical section. `Steady`
is what the type invariant and the destructor need beside it: while the
worker is in a compaction the level-0 files it took are still there, `running` is set
only while the worker executes, and a database whose destructor has returned is
shutting down and has neither flag set. `NoLostWakeup` needs `SingleTask`:
that a destructor sleeps with its predicate true is only possible while the
worker is on its way to `notify_all` for that very database, because no other task can have
cleared the flags. `Remembered` is `NoForgottenWork` as every step preserves it: work for a database whose
last call has settled is scheduled or about to be, from the moment its user thread has pushed the task and
has still to notify; a section that ends a task reschedules, and before its destructor runs
`shutting_down_` keeps nobody from that. The proofs go action by action; two lemmas state what appending to and taking
the head of a queue without duplicates do.

`RecoveryProofs` proves, for any keys, any number of writes, kills, power failures and compactions
and any memtable limit (from `ConstantsAssumption`):

* `Invariant`: `Spec => []IInv`
* `TypeCorrect`: `Spec => []TypeOK`
* `NumbersAlwaysAhead`: `Spec => []NumbersAhead`
* `CatalogAlwaysBacked`: `Spec => []CatalogBacked`
* `AlwaysRecoverable`: `Spec => []Recoverable`
* `AlwaysVisible`: `Spec => []AckedVisible`
* `AlwaysSequenceAhead`: `Spec => []SequenceAhead`
* `OpenAlwaysSucceeds`: `Spec => []OpenSucceeds`

The argument is one notion, applied in three places. `Good(vs)` says of a VersionSet `vs` that its tables exist,
that its sequence number covers them, that what is owed is in its tables or in a log from its log
number on (what is stable, in the synced part of one), and that older logs hold nothing more. `GoodMemory` says
it of the VersionSet in memory, `GoodEdit` of what `Install` will make of it, and `GoodFiles` of what
`Recover` would make of every beginning of the MANIFEST that a power failure may leave. The last follows from the
other two (`FilesFromMemory`) as long as it is known how many records of the MANIFEST are synced and what each
beginning makes: memory, or the edit under way (`CatalogClosed` before the first `LogAndApply`, `CatalogOpen`,
`CatalogSettled` between calls, `CatalogBegun`, `CatalogLogged`, `CatalogSynced` inside one). After a
crash `GoodFiles` alone is left, and `OpenRecover` turns it into `GoodMemory` again. `Replayed` says that
what is owed and in a log is in memory, in a table or still to be replayed, which is why a
flush may move the log number (`GoodEditFlush`) and why the database that opens has everything
(`OwedHeld`). `Memtables`, `NewDatabase` and `CurrentLog` say where the process
stands with its memtables and logs; `Sequences` ties `last_sequence_` to memory and catalog. `Numbered` says that
until a `Sync` fails no two log records share a sequence number and that `last_sequence_` has reached all of them
that replay does not still have to read, and `FromLogs` that a memtable in replay comes from
logs already read: so the record replay reads next is not in it, and the skip list's assertion
holds. One lemma per conjunct shows that every step keeps it.

`Recovered` is a recursive function of the records. By least counterexample, from the
well-foundedness of `<` on numbers, `RecoveryProofs` shows that it exists (`ReplayExists`), what one more record makes of it
(`ReplayAppend`), and that it depends on no later record (`ReplayPrefix`, `ReplayCut`).

`TableCacheProofs` proves, for any keys, blocks of memory, charges, capacity and threads (from
`CacheAssumption` and `TableCacheAssumption`):

* `TypeCorrect`: `Spec => []TypeOK`
* `TableIsExact`: `Spec => []TableExact`
* `RefsAreExact`: `Spec => []RefsExact`
* `ListsAreExact`: `Spec => []ListsExact`
* `NoEntryFreedInUse`: `Spec => []NotFreedInUse`
* `UsageIsExact`: `Spec => []UsageExact`
* `DestructorIsClean`: `Spec => []DestructorClean`

The invariant is the conjunction of the seven and of the finiteness of the allocated entries, which is inductive: that an entry taken from `lru_` has
no handle needs `ListsExact` and `RefsExact`; that removing it by key removes that entry
needs `TableExact`; and that no freed block is still in a list, a table or a hand needs
all of them. The lemmas `WithoutOne`, `DropOldest` and `AppendNew` state what removing,
evicting and appending do to a list without duplicates, and one lemma per call of the cache
shows that it keeps the invariant. `ThreadsCallTheCache` then maps every step of the threads to a call of the cache or to none.
`UsageExact` adds up charges with a fold, of which the prover has no induction. `NumberLemmas` does
without: it counts the *units* of the charges, the pairs of an entry and a number from 1 to its charge, shows that the
choice the fold makes at each turn takes as many units as it adds (`SumIsUnits`), and has from the cardinality of
finite sets how a sum splits (`SumSplit`). So what `Insert` adds and `FreeEntry` takes off is exact, and the destructor
ends with nothing allocated unless an orphan stops it.

`VersionRaceProofs` proves, for any iterators and any numbers of tables, Versions and failures (from
`VersionAssumption`):

* `TypeCorrect`: `Spec => []TypeOK`
* `RefsAreExact`: `Spec => []RefsExact`
* `FilesAreKept`: `Spec => []FilesKept`
* `CatalogIsExact`: `Spec => []CatalogExact`

None of the four is inductive alone. `IInv` adds what the place of a thread says of its locals
(`Places`), that a Version number is left for every thread that will make one (`Room`), and six
facts about tables: no number still to be handed out is in use (`NumbersAhead`); a table being
made is on the disk, in no Version, in no other edit and not about to be removed (`Own`, which follows from
`NumbersAhead` when the table is created); a flush adds exactly that table (`FlushEdit`); what an
edit adds stays on the disk (`AddedKept`); no table of a listed Version is about to be removed
(`NoneDoomed`); and the MANIFEST has the edits being installed (`Logged`). All but for
swept tables.

`RefsExact` goes by counting: `Recount` says that when one element of a finite set maps
to another value, one count loses it and one gains it, and each `Ref` or `Unref` has its
holder that appears or goes. Since a held Version is in the list (`HeldIsListed`), the base of a `Builder`
is, so a new Version takes only tables that `NoneDoomed` or `Own` protects, and a file
goes only if `RemoveObsoleteFiles` doomed it or its own thread gives it up (`DiskLoses`): that gives
`FilesKept`. For `CatalogExact`, two edits on their way share no table (`EditsApart`, from
`Own`), so each is still in the MANIFEST when it is installed, and what an install over a newer
Version loses is swept. One lemma per variable says which actions change it.

`LsmTreeProofs` proves, for any keys, levels, limits and sizes, any number of writes, snapshots and
failures (from the `ConstantsAssumption` of `LsmTree`):

* `TypeCorrect`: `Spec => []TypeOK`
* `DisjointLevels`: `Spec => []LevelsDisjoint`
* `NewestFirst`: `Spec => []NewerAbove` (of a database that was not reopened, as the others)
* `TreeImplementsMV`: `Spec => ImplementsMV`
* `MVImplementsKV`: `MV!Spec => MV!ImplementsKV`
* `TreeImplementsKV`: `Spec => ImplementsKV`

`IInv` says that every entry was written, by one write each (`Written`); that a file's smallest and largest keys
are those of its entries (`Files`); and that levels are disjoint and ordered by age. What makes it inductive is
`Compacting`: the inputs of a compaction under way are `Sealed`, which means that nothing that stays behind comes
between them and the level they go to. Of a key in the upper inputs, the files that stay hold newer entries only in their own level and none in the
next one; of a key in the lower inputs, newer entries only. `Sealed` lasts while the user writes and flushes,
since those only add newer entries above; so a move or a merge may be installed however
long after it was chosen.

That `PickCompaction` chooses sealed inputs is the long part. `SetupOtherInputs` and
`AddBoundaryInputs` are loops, written as recursive functions; the lemmas `UpTo` and `TurnsExist` of `NumberLemmas` say that such a
function exists and what holds of each turn, and `BoundaryClosed` and `LowerSealed` that the loops end
with inputs to which no file that stays continues a key. `MergeTurn` is one turn of `DoCompactionWork`: what was read so
far is in the outputs, in order, or was dropped; `DropIsGone` shows that the two variables `Drop` looks at,
the last key and its last sequence number, decide what they stand for: a newer entry at or below the smallest
snapshot exists. Hence `InstallDrops`: what an install takes away is `Droppable`, which with `MoveDropsNothing` and the
stuttering of everything else is `TreeImplementsMV`.

That the rule is right is `MVImplementsKV`, which speaks of `MVStore` as the tree instantiates it, and of the tree only
through that instance. `MVInv` says that every entry was written, by one write each, and that the horizon is behind every
open snapshot, which later snapshots keep and `StartCompaction` establishes. The heart is
`MVCompactionUnseen`: a set that is `Droppable` by the horizon changes no reading from the horizon on, because of
each key the newest entry the horizon sees either stays or is a deletion under which nothing is
left. `MVWriteUnseen` and `MVWriteReads` say what a write changes, in the past (nothing) and in the present
(its own key); `MVStepRefines` maps each step to a `Put`, a `Delete`, a snapshot's or none.
For `TreeImplementsKV`, `GetReads` shows that the search of `Get`,
memtable by memtable, file by file and level by level, ends with the newest entry at `last_sequence_` (`NewerAbove` is what makes the
first hit the right one), so that the mapping to `KVStore` agrees with the one through `MVStore`, of
which `MVImplementsKV` speaks. At an *older* snapshot it need not (finding 3), and the theorem does not
say so: `store` is read at `last_sequence_`, `views` through iterators.

`LogFormatProofs` proves, for any sizes of blocks, headers and buffers with room for a header and a byte in a block and
for a block in the buffer, any lengths of records and any number of records and of failed calls (from `LogAssumption`):

* `TypeCorrect`: `Spec => []TypeOK`
* `Readable`: `Spec => []AckedReadable`
* `Faithful`: `Spec => []NothingInvented`
* `TailReported`: `Spec => []TailExact`

The last three speak of `ReadLog`, a run of the reader over the file, so the argument has two halves. For the
writer, `IInv` is about the *stream*, the bytes of the file followed by those of the buffer. While nothing is
`damaged` the stream is `Sound` (`Undamaged`): every byte belongs to a whole fragment in one block or to a trailer
(`Placed`), where a fragment ends another begins, after a trailer if no header fits (`Filled`), and one that
goes on with a record has the one it goes on with before it (`Chained`); and records come in order (`Ordered`). When a `write` fails half-way
none of this need last, since what it wrote is written again. What lasts is said of
acknowledged records alone: `AckedJoined` (their fragments go on where they should), `AckedEnds`, `DurableEnds` (they end in the file, or
in a part of it that is synced and `Sound`) and `Pending` (no byte of the buffer is theirs). `InRecord` says where `AddRecord` stands in its
loop. All calls but `AddRecord` and `EmitFragment` are `Quiet`: they move bytes from the buffer to the file or cut the file off
behind what is synced. `EmitStep` shows that an emission whose file and buffer are as expected is one that wrote all of its bytes
(`TrailerWentThrough` has the case of a trailer that failed), which is what the ghost `damaged` rests on.

For the reader, `RInv` is an invariant of its turns over a file that stays as it is: it is at the start of a block or behind a fragment
(`Placement`); what it has in `scratch` and what it has read are records up to where they should be (`Joining`, `ReadWell`), in
order (`InOrder`); and it has read every record that ended so far (`OnTrack`). `OnTrack` takes the number of bytes that are `Sound`:
all of them, or those synced before the damage. `TurnKeeps` takes the three things a turn may do
one by one, reading on into the next block (`Advances`), taking a fragment (`Takes`) or ending, and shows that each but the last moves the reader on in
the file. So its 2 * Len(file) + 1 turns are enough (`ReadLogIs`, with `UpTo` and `TurnsExist`), and at its end `StoppedTail` compares
what it reports with the place of the cut.

`IteratorsProofs` proves, for any tables and memtables of any size that satisfy `Content`, any heights, block sizes
and restart intervals, any targets and any number of writes (from `ListAssumption`, `TableAssumption` and
`IteratorAssumption`):

* `IterInvariance`: `Spec => []IterInv`
* `TypeCorrect`: `Spec => []TypeOK`
* `CursorAlwaysExact`: `Spec => []CursorExact`
* `NothingEverSkipped`: `Spec => []NothingSkipped`
* `SearchesExact`: `Spec => []SearchExact`

The proof follows the code's layers, and of each only this is used above it: it finds the first entry not before a
target, or the nearest one after or before the entry it stands on.

* *Skip list.* `ListOK` says that each level links its nodes in order and that the nodes of a level are on every level below.
  A search stops at the last node before the target on each level (`StopsThere`, `PrevsStop`), so `ListSearch` has the three searches, and
  inserting at those places keeps the list (`InsertOK`).
* *Blocks.* `BlockOK` has keys in order and restart points that ascend from the first entry. `BlockSeekIs` is the
  binary search, which may begin at the restart point the cursor remembers, with the scan from there. What makes that right is
  `CursorOK`, that this restart point is never after the cursor's entry.
* *Tables.* `Building` is an invariant of `TableBuilder`, key by key: every index key is at or after the
  last key of its block and before the first of the next. So `TableBuilt` gives `TableOK` whether separators are shortened or not.
  `TableItOK` says that a two-level iterator which is valid has the data block open that its index names; `SkipForwardIs`
  and `SkipBackwardIs` take it over the end of a block, `TableSeekIs` and `InternalGetIs` have the searches.
* *Merging iterator.* `MergedOK` is what `NothingSkipped` says, with the shape of its parts: the other children are beyond the
  current key, or come later and stand on a copy of it. That only later children may is what keeps the iterator from coming back to a copy, and
  it holds because `SmallestIs` and `LargestIs` find the *first* child with the next key. `MergedNextIs` and `MergedPrevIs` say that the
  iterator moves to the nearest entry or to the next copy (`Further`, `FurtherBack`), both when it goes on and when it turns.
* *DBIter.* The loops have invariants of their own: `OnTheWay` (what lies between the start and
  the position has nothing to show) for `FindNextUserEntry`, `OnTheWayBack` (saved key, saved value and type are those of
  the newest entry passed of the key last seen, though a copy of it may still be ahead: `KeptOf`) for `FindPrevUserEntry`. `FindNextIs`,
  `FindPrevIs` and `PastKeyIs` are their results, and `LoopEnds` that they have turns enough: each turn leaves one more
  of the `Places`, the pairs of a child and an entry of it (`PlaceFacts`), behind.

`IterInv == DataOK /\ IterOK(iter) /\ CursorExact` is inductive, `CursorExact` alone is not: a valid iterator
going forward stands on the newest entry of its key, one going back has its key and value saved and stands `Behind` them, on the
last entry before that the snapshot sees. `Behind` is also where the window `Repeats` comes from: it leaves open what
the snapshot does not see between the two. A write has a sequence number above the snapshot, so nothing the invariant
says of what is seen can change; that the children stay where they are, next to new nodes,
is why `MergedOK` speaks of visible entries only (`WriteKeeps`).

### What TLAPS does not prove

Every safety invariant and every refinement that a passing run checks is a theorem. What stays with TLC alone:

* Liveness under fairness (`BackgroundWork`, `LsmTree`): TLAPS proves no `ENABLED` and no leads-to here.
* Absence of deadlock, which is `ENABLED` too.
* The four runs that expect a violation: a counterexample is not a theorem.

## 6. Plan

Left to do, in this order:

1. Failing file operations in `Recovery` (MANIFEST append and sync, table build), which
   `VersionRace` has without crashes.
2. The tree of a reopened database: an `Init` of `LsmTree` with copies of entries, an order of age that allows them,
   and the same refinements from there.
3. The filter of a table (`table.cc:180`) and the encodings of batches and edits, as operators.

## 7. Not modelled, and why

* Prefix compression in blocks, the footer, filters, batch and edit encodings: no control
  state. Searches read whole keys at restart points, so `SortedTable` needs no prefixes; filters are
  off by default.
* Checksums as bytes: `LogFormat` has what they tell apart; tables are read uncorrupted.
* The Arena: it only hands out memory.
* Read errors during iteration: the iterator stops and reports them.
* The lock file: `DBImpl` never takes it.
* Comparators, hashing, logging, random numbers: pure functions with unit tests.
* Manual compaction and the other `TEST_` hooks: not reachable from the DB interface.
* Memory order: the threads share plain fields without synchronisation, which is
  undefined in C++; the models interleave whole accesses, the mildest reading of it.
* The tree of a reopened database: `LsmTree` starts from a new one. `Recovery` has the reopening and what `Get` finds after
  it, `Iterators` the copies of entries it makes; their way through compactions is not modelled.
* Several threads calling one `DBImpl`: nothing in it is meant for that.
