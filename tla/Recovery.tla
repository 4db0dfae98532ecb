------------------------------ MODULE Recovery ------------------------------
(***************************************************************************)
(* What Lin-DB keeps on disk, in which order it writes it, and what        *)
(* DBImpl::Open makes of it after a crash: write-ahead logs, tables,       *)
(* MANIFEST, CURRENT and temporary files (db/db_impl.cc 103-196, 276-585,  *)
(* 827-840, 930-934, db/version_set.cc 708-902, db/filename.cc 127-146,    *)
(* db/builder.cc 17-80).                                                   *)
(*                                                                         *)
(* One process works on one directory, one call at a time; a step is one   *)
(* operation on a file, and the process may be killed or the power may     *)
(* fail before any of them.  A kill keeps all that was written; a power    *)
(* failure keeps of every file the part that was synced and any prefix of  *)
(* the rest.  The last record written may be torn in either case.  Names   *)
(* (creation, truncation, rename, removal) take effect at once and last.   *)
(*                                                                         *)
(* A batch is one record [seq, id]: its sequence number and which of the   *)
(* user's writes it is.  A table or a memtable is the set of its records;  *)
(* a Version the set of its tables.                                        *)
(***************************************************************************)
EXTENDS Naturals, FiniteSets, SequencesExt, Functions

CONSTANTS
  Keys,          \* user keys
  KeyOf,         \* [1 .. MaxWrites -> Keys]: the key the n-th write sets
  MemLimit,      \* records that fit in write_buffer_size
  MaxWrites,     \* bound: writes the user starts, over all runs
  MaxCrashes,    \* bound: how often the process stops
  MaxCompactions \* bound: compactions, over all runs

ASSUME ConstantsAssumption ==
  /\ MaxWrites \in Nat /\ MaxCrashes \in Nat /\ MaxCompactions \in Nat
  /\ MemLimit \in Nat
  /\ KeyOf \in [1 .. MaxWrites -> Keys]

VARIABLES
  logs,            \* WAL files: number |-> [recs, synced, torn]
  tables,          \* .ldb files: number |-> set of records
  manifests,       \* MANIFEST files: number |-> [recs (edits), synced, torn]
  temps,           \* numbers of .dbtmp files
  current,         \* the manifest CURRENT names, 0 without CURRENT
  pc, ret,         \* where the process stands, where LogAndApply returns to
  mem, imm,        \* the memtables; an empty imm is a null imm_
  version,         \* the tables of the current Version
  log_number, next_file_number, manifest_file_number,
  set_sequence,    \* fields of VersionSet; the last is its last_sequence_
  last_sequence,   \* last_sequence_ of the DBImpl
  logfile_number,  \* the current WAL
  writing,         \* descriptor_log_ # nullptr
  created,         \* LogAndApply's created_manifest
  edit,            \* the VersionEdit under way
  todo, pos,       \* logs still to replay, next record of the oldest of them
  found,           \* what Open found: [current, logs : BOOLEAN]
  writes, stops, compactions,   \* counters for the bounds
  owed,            \* the acknowledged records the store must still have
  stable,          \* those acknowledged with options.sync
  syncFailed,      \* a Sync of the WAL has failed
  catalogLost      \* a crash left CURRENT naming a MANIFEST without records

disk    == <<logs, tables, manifests, temps, current>>
fields  == <<log_number, next_file_number, manifest_file_number, set_sequence>>
memory  == <<mem, imm, version, fields, last_sequence, logfile_number>>
applying == <<writing, created, edit, ret>>
opening == <<todo, pos, found>>
counters == <<writes, stops, compactions>>
ghosts  == <<owed, stable, syncFailed, catalogLost>>
vars    == <<disk, pc, memory, applying, opening, counters, ghosts>>

(* A VersionEdit; 0 stands for a field it does not hold.                   *)
Edit == [log : Nat, next : Nat, last : Nat, adds : SUBSET Nat, dels : SUBSET Nat]

NoEdit == [log |-> 0, next |-> 0, last |-> 0, adds |-> {}, dels |-> {}]

EmptyFile == [recs |-> <<>>, synced |-> 0, torn |-> FALSE]

Put(f, n, x) == [i \in DOMAIN f \cup {n} |-> IF i = n THEN x ELSE f[i]]

AddRecord(file, r) == [file EXCEPT !.recs = Append(@, r)]

Synced(file) == [file EXCEPT !.synced = Len(file.recs)]

Larger(a, b) == IF a < b THEN b ELSE a

-----------------------------------------------------------------------------
(* ApplyVersionEdit on the part of a VersionSet that edits carry.          *)
ApplyEdit(vs, e) ==
  [files |-> (vs.files \ e.dels) \cup e.adds,
   log   |-> IF e.log # 0 THEN e.log ELSE vs.log,
   next  |-> Max({vs.next, e.next} \cup {n + 1 : n \in e.adds}),
   last  |-> Larger(vs.last, e.last)]

(* A VersionSet before any edit.                                           *)
NewVersionSet == [files |-> {}, log |-> 0, next |-> 2, last |-> 0]

(* VersionSet::Recover: what it has after each number of records.          *)
Recovered(edits) ==
  LET after[k \in 0 .. Len(edits)] ==
        IF k = 0 THEN NewVersionSet ELSE ApplyEdit(after[k - 1], edits[k])
  IN after

(* What Recover would make of the directory as it is.                      *)
OnDisk ==
  IF current \in DOMAIN manifests
  THEN LET edits == manifests[current].recs IN Recovered(edits)[Len(edits)]
  ELSE NewVersionSet

(* Mutant of LogsToReplay: the log the catalog names is skipped.           *)
LaterLogs(log) == {n \in DOMAIN logs : current = 0 \/ n > log}

(* The logs Open replays, once the VersionSet says log.                    *)
LogsToReplay(log) == {n \in DOMAIN logs : current = 0 \/ n >= log}

(* The numbers of all files, which Open marks as used.                     *)
FileNumbers == DOMAIN logs \cup DOMAIN tables \cup DOMAIN manifests \cup temps

Contents(numbers) == UNION {tables[n] : n \in numbers \cap DOMAIN tables}

-----------------------------------------------------------------------------
Init ==
  /\ logs = <<>> /\ tables = <<>> /\ manifests = <<>> /\ temps = {} /\ current = 0
  /\ pc = "down" /\ ret = "idle"
  /\ mem = {} /\ imm = {} /\ version = {}
  /\ log_number = 0 /\ next_file_number = 2 /\ set_sequence = 0 /\ last_sequence = 0
  /\ manifest_file_number = 0 /\ logfile_number = 1
  /\ writing = FALSE /\ created = FALSE /\ edit = NoEdit
  /\ todo = {} /\ pos = 1 /\ found = [current |-> FALSE, logs |-> FALSE]
  /\ writes = 0 /\ stops = 0 /\ compactions = 0
  /\ owed = {} /\ stable = {} /\ syncFailed = FALSE /\ catalogLost = FALSE

-----------------------------------------------------------------------------
(* Open: recover the catalog and list the logs to replay.                  *)

(* Mutant of OpenRecover: the numbers in the directory are not marked as   *)
(* used.                                                                   *)
OpenRecoverUnmarked ==
  /\ pc = "down"
  /\ current # 0 => current \in DOMAIN manifests /\ ~manifests[current].torn
  /\ LET vs == OnDisk
         replay == LogsToReplay(vs.log)
     IN /\ version' = vs.files /\ log_number' = vs.log
        /\ set_sequence' = vs.last /\ last_sequence' = vs.last
        /\ next_file_number' = vs.next
        /\ todo' = replay
        /\ found' = [current |-> current # 0, logs |-> replay # {}]
  /\ manifest_file_number' = current
  /\ logfile_number' = 1 /\ mem' = {} /\ imm' = {} /\ pos' = 1
  /\ writing' = FALSE /\ created' = FALSE /\ edit' = NoEdit /\ ret' = "idle"
  /\ pc' = "replay"
  /\ UNCHANGED <<disk, counters, ghosts>>

OpenRecover ==
  /\ pc = "down"
  /\ current # 0 => current \in DOMAIN manifests /\ ~manifests[current].torn
  /\ LET vs == OnDisk
         replay == LogsToReplay(vs.log)
     IN /\ version' = vs.files /\ log_number' = vs.log
        /\ set_sequence' = vs.last /\ last_sequence' = vs.last
        /\ next_file_number' = Max({vs.next} \cup {n + 1 : n \in FileNumbers})
        /\ todo' = replay
        /\ found' = [current |-> current # 0, logs |-> replay # {}]
  /\ manifest_file_number' = current
  /\ logfile_number' = 1 /\ mem' = {} /\ imm' = {} /\ pos' = 1
  /\ writing' = FALSE /\ created' = FALSE /\ edit' = NoEdit /\ ret' = "idle"
  /\ pc' = "replay"
  /\ UNCHANGED <<disk, counters, ghosts>>

(* The MANIFEST is missing, or its reader meets a torn record.             *)
OpenFails ==
  /\ pc = "down"
  /\ current # 0 /\ (current \in DOMAIN manifests => manifests[current].torn)
  /\ pc' = "failed"
  /\ UNCHANGED <<disk, memory, applying, opening, counters, ghosts>>

(* Mutant of ReplayRecord: last_sequence_ does not follow the log.         *)
ReplayRecordInPlace ==
  /\ pc = "replay" /\ todo # {}
  /\ pos <= Len(logs[Min(todo)].recs)
  /\ LET rec == logs[Min(todo)].recs[pos]
         full == Cardinality(mem \cup {rec}) > MemLimit
     IN /\ ~\E r \in mem : r.seq = rec.seq /\ KeyOf[r.id] = KeyOf[rec.id]
        /\ last_sequence' = last_sequence
        /\ mem' = IF full THEN {} ELSE mem \cup {rec}
        /\ imm' = IF full THEN mem \cup {rec} ELSE imm
        /\ pc' = IF full THEN "flush" ELSE "replay"
  /\ logfile_number' = Min(todo) /\ pos' = pos + 1 /\ ret' = "replay"
  /\ UNCHANGED <<disk, version, fields, writing, created, edit, todo, found, counters,
                 ghosts>>

(* RecoverLogFile, one record: insert it, and flush a memtable that is     *)
(* over its limit.                                                         *)
ReplayRecord ==
  /\ pc = "replay" /\ todo # {}
  /\ pos <= Len(logs[Min(todo)].recs)
  /\ LET rec == logs[Min(todo)].recs[pos]
         full == Cardinality(mem \cup {rec}) > MemLimit
     IN /\ ~\E r \in mem : r.seq = rec.seq /\ KeyOf[r.id] = KeyOf[rec.id]
        /\ last_sequence' = Larger(last_sequence, rec.seq)
        /\ mem' = IF full THEN {} ELSE mem \cup {rec}
        /\ imm' = IF full THEN mem \cup {rec} ELSE imm
        /\ pc' = IF full THEN "flush" ELSE "replay"
  /\ logfile_number' = Min(todo) /\ pos' = pos + 1 /\ ret' = "replay"
  /\ UNCHANGED <<disk, version, fields, writing, created, edit, todo, found, counters,
                 ghosts>>

(* SkipList::Insert asserts that no equal key is there.                    *)
ReplayAborts ==
  /\ pc = "replay" /\ todo # {}
  /\ pos <= Len(logs[Min(todo)].recs)
  /\ LET rec == logs[Min(todo)].recs[pos]
     IN \E r \in mem : r.seq = rec.seq /\ KeyOf[r.id] = KeyOf[rec.id]
  /\ pc' = "aborted"
  /\ UNCHANGED <<disk, memory, applying, opening, counters, ghosts>>

(* The end of a log: the reader reports a torn record as corruption.       *)
ReplayEnd ==
  /\ pc = "replay" /\ todo # {}
  /\ pos > Len(logs[Min(todo)].recs)
  /\ logfile_number' = Min(todo)
  /\ IF logs[Min(todo)].torn
     THEN pc' = "failed" /\ UNCHANGED <<todo, pos>>
     ELSE pc' = "replay" /\ todo' = todo \ {Min(todo)} /\ pos' = 1
  /\ UNCHANGED <<disk, mem, imm, version, fields, last_sequence, applying, found,
                 counters, ghosts>>

(* All logs replayed: flush what is left in mem_, then go to the new WAL.  *)
ReplayDone ==
  /\ pc = "replay" /\ todo = {}
  /\ mem' = {} /\ imm' = mem
  /\ pc' = IF mem = {} THEN "newlog" ELSE "flush"
  /\ ret' = "newlog"
  /\ UNCHANGED <<disk, version, fields, last_sequence, logfile_number, writing, created,
                 edit, opening, counters, ghosts>>

(* InitWAL truncates the new log; if logs were replayed, an edit says that *)
(* the new one is the first that counts.                                   *)
NewLog ==
  /\ pc = "newlog"
  /\ LET known == found.current \/ found.logs
         n == IF known THEN next_file_number ELSE 1
     IN /\ logfile_number' = n
        /\ logs' = Put(logs, n, EmptyFile)
        /\ next_file_number' = IF known THEN n + 1 ELSE next_file_number
        /\ edit' = [NoEdit EXCEPT !.log = n, !.last = last_sequence]
  /\ pc' = IF found.logs THEN "apply" ELSE "remove"
  /\ ret' = "remove"
  /\ UNCHANGED <<tables, manifests, temps, current, mem, imm, version, log_number,
                 last_sequence, manifest_file_number, set_sequence, writing, created,
                 opening, counters, ghosts>>

-----------------------------------------------------------------------------
(* FlushMemTable: the table is written and synced before its edit.         *)

(* Mutant of BuildTable: the edit claims the WAL was rotated.              *)
BuildTableRotated ==
  /\ pc = "flush"
  /\ LET n == next_file_number
     IN /\ tables' = Put(tables, n, imm)
        /\ edit' = [NoEdit EXCEPT !.log = logfile_number + 1, !.last = last_sequence,
                                  !.adds = {n}]
        /\ next_file_number' = n + 1
  /\ pc' = "apply"
  /\ UNCHANGED <<logs, manifests, temps, current, mem, imm, version, log_number,
                 last_sequence, manifest_file_number, set_sequence, logfile_number,
                 writing, created, ret, opening, counters, ghosts>>

BuildTable ==
  /\ pc = "flush"
  /\ LET n == next_file_number
     IN /\ tables' = Put(tables, n, imm)
        /\ edit' = [NoEdit EXCEPT !.log = logfile_number, !.last = last_sequence,
                                  !.adds = {n}]
        /\ next_file_number' = n + 1
  /\ pc' = "apply"
  /\ UNCHANGED <<logs, manifests, temps, current, mem, imm, version, log_number,
                 last_sequence, manifest_file_number, set_sequence, logfile_number,
                 writing, created, ret, opening, counters, ghosts>>

-----------------------------------------------------------------------------
(* LogAndApply.                                                            *)

(* Mutant of CreateManifest: the truncated file still counts as synced.    *)
CreateManifestInPlace ==
  /\ pc = "apply" /\ ~writing
  /\ LET n == IF manifest_file_number = 0 THEN next_file_number ELSE manifest_file_number
     IN /\ manifests' = Put(manifests, n, [EmptyFile EXCEPT !.synced = 1])
        /\ manifest_file_number' = n
        /\ next_file_number' = Larger(next_file_number, n + 1)
  /\ writing' = TRUE /\ pc' = "snapshot"
  /\ UNCHANGED <<logs, tables, temps, current, mem, imm, version, log_number,
                 set_sequence, last_sequence, logfile_number, created, edit, ret,
                 opening, counters, ghosts>>

(* The first call of a process opens a MANIFEST: after Recover, the very   *)
(* file CURRENT names, which NewWritableFile truncates.                    *)
CreateManifest ==
  /\ pc = "apply" /\ ~writing
  /\ LET n == IF manifest_file_number = 0 THEN next_file_number ELSE manifest_file_number
     IN /\ manifests' = Put(manifests, n, EmptyFile)
        /\ manifest_file_number' = n
        /\ next_file_number' = Larger(next_file_number, n + 1)
  /\ writing' = TRUE /\ pc' = "snapshot"
  /\ UNCHANGED <<logs, tables, temps, current, mem, imm, version, log_number,
                 set_sequence, last_sequence, logfile_number, created, edit, ret,
                 opening, counters, ghosts>>

(* WriteSnapshot holds neither the log number nor the next file number.    *)
WriteSnapshot ==
  /\ pc = "snapshot"
  /\ manifests' = [manifests EXCEPT ![manifest_file_number] =
                     AddRecord(@, [NoEdit EXCEPT !.last = set_sequence, !.adds = version])]
  /\ created' = TRUE /\ pc' = "record"
  /\ UNCHANGED <<logs, tables, temps, current, memory, writing, edit, ret, opening,
                 counters, ghosts>>

(* Mutant of LogEdit: the MANIFEST is not synced.                          *)
LogEditUnsynced ==
  /\ pc = "record" \/ (pc = "apply" /\ writing)
  /\ edit' = [edit EXCEPT !.log = IF @ = 0 THEN log_number ELSE @,
                          !.next = next_file_number,
                          !.last = IF @ = 0 THEN set_sequence ELSE @]
  /\ manifests' = [manifests EXCEPT ![manifest_file_number] = AddRecord(@, edit')]
  /\ pc' = IF created THEN "temp" ELSE "install"
  /\ UNCHANGED <<logs, tables, temps, current, memory, writing, created, ret, opening,
                 counters, ghosts>>

(* The edit, its missing fields filled in.                                 *)
LogEdit ==
  /\ pc = "record" \/ (pc = "apply" /\ writing)
  /\ edit' = [edit EXCEPT !.log = IF @ = 0 THEN log_number ELSE @,
                          !.next = next_file_number,
                          !.last = IF @ = 0 THEN set_sequence ELSE @]
  /\ manifests' = [manifests EXCEPT ![manifest_file_number] = AddRecord(@, edit')]
  /\ pc' = "sync"
  /\ UNCHANGED <<logs, tables, temps, current, memory, writing, created, ret, opening,
                 counters, ghosts>>

SyncManifest ==
  /\ pc = "sync"
  /\ manifests' = [manifests EXCEPT ![manifest_file_number] = Synced(@)]
  /\ pc' = IF created THEN "temp" ELSE "install"
  /\ UNCHANGED <<logs, tables, temps, current, memory, applying, opening, counters, ghosts>>

(* SetCurrentFile: a synced temporary file, then a rename.                 *)
WriteTemp ==
  /\ pc = "temp"
  /\ temps' = temps \cup {manifest_file_number} /\ pc' = "rename"
  /\ UNCHANGED <<logs, tables, manifests, current, memory, applying, opening, counters, ghosts>>

RenameTemp ==
  /\ pc = "rename"
  /\ temps' = temps \ {manifest_file_number} /\ current' = manifest_file_number
  /\ pc' = "install"
  /\ UNCHANGED <<logs, tables, manifests, memory, applying, opening, counters, ghosts>>

(* ApplyVersionEdit, and what the caller does on success: a flush drops    *)
(* imm_, whose records are now in a table of the Version.                  *)
Install ==
  /\ pc = "install"
  /\ LET vs == ApplyEdit([files |-> version, log |-> log_number,
                          next |-> next_file_number, last |-> set_sequence], edit)
     IN /\ version' = vs.files /\ log_number' = vs.log
        /\ next_file_number' = vs.next /\ set_sequence' = vs.last
  /\ imm' = IF ret = "remove" THEN imm ELSE {}
  /\ created' = FALSE /\ pc' = ret
  /\ UNCHANGED <<disk, mem, manifest_file_number, last_sequence, logfile_number, writing,
                 edit, ret, opening, counters, ghosts>>

-----------------------------------------------------------------------------
(* RemoveObsoleteFiles.                                                    *)

Obsolete ==
  [tables    |-> DOMAIN tables \ version,
   manifests |-> DOMAIN manifests \ {current},
   logs      |-> {n \in DOMAIN logs : /\ current # 0 /\ log_number # 0
                                      /\ n < log_number /\ n # logfile_number},
   temps     |-> temps]

(* One file at a time, in the order of the directory listing.              *)
RemoveObsoleteFile ==
  /\ pc = "remove"
  /\ \/ \E n \in Obsolete.tables :
          /\ tables' = Restrict(tables, DOMAIN tables \ {n})
          /\ UNCHANGED <<logs, manifests, temps>>
     \/ \E n \in Obsolete.manifests :
          /\ manifests' = Restrict(manifests, DOMAIN manifests \ {n})
          /\ UNCHANGED <<logs, tables, temps>>
     \/ \E n \in Obsolete.logs :
          /\ logs' = Restrict(logs, DOMAIN logs \ {n})
          /\ UNCHANGED <<tables, manifests, temps>>
     \/ \E n \in Obsolete.temps :
          /\ temps' = temps \ {n}
          /\ UNCHANGED <<logs, tables, manifests>>
  /\ UNCHANGED <<current, pc, memory, applying, opening, counters, ghosts>>

RemoveDone ==
  /\ pc = "remove"
  /\ UNION {Obsolete.tables, Obsolete.manifests, Obsolete.logs, Obsolete.temps} = {}
  /\ pc' = "idle"
  /\ UNCHANGED <<disk, memory, applying, opening, counters, ghosts>>

-----------------------------------------------------------------------------
(* The open database.                                                      *)

(* Write's entry and MakeRoomForWrite.                                     *)
BeginWrite ==
  /\ pc = "idle" /\ writes < MaxWrites
  /\ writes' = writes + 1
  /\ \/ /\ Cardinality(mem) <= MemLimit
        /\ pc' = "log" /\ UNCHANGED <<mem, imm>>
     \/ /\ Cardinality(mem) > MemLimit
        /\ imm' = mem /\ mem' = {} /\ pc' = "flush"
  /\ ret' = "log"
  /\ UNCHANGED <<disk, version, fields, last_sequence, logfile_number, writing, created,
                 edit, opening, stops, compactions, ghosts>>

NewRec == [seq |-> last_sequence + 1, id |-> writes]

(* AddRecord to the WAL; options.sync decides whether a Sync follows.      *)
LogWrite ==
  /\ pc = "log"
  /\ logs' = [logs EXCEPT ![logfile_number] = AddRecord(@, NewRec)]
  /\ pc' \in {"logsync", "insert"}
  /\ UNCHANGED <<tables, manifests, temps, current, memory, applying, opening, counters,
                 ghosts>>

SyncLog ==
  /\ pc = "logsync"
  /\ logs' = [logs EXCEPT ![logfile_number] = Synced(@)]
  /\ pc' = "insertsynced"
  /\ UNCHANGED <<tables, manifests, temps, current, memory, applying, opening, counters,
                 ghosts>>

(* Sync fails: the write returns an error, its record stays in the log and *)
(* last_sequence_ does not move.                                           *)
SyncLogFails ==
  /\ pc = "logsync"
  /\ syncFailed' = TRUE /\ pc' = "idle"
  /\ UNCHANGED <<disk, memory, applying, opening, counters, owed, stable, catalogLost>>

(* Mutant of Insert: last_sequence_ is not advanced.                       *)
InsertInPlace ==
  /\ pc \in {"insert", "insertsynced"}
  /\ mem' = mem \cup {NewRec} /\ last_sequence' = last_sequence
  /\ owed' = owed \cup {NewRec}
  /\ stable' = IF pc = "insertsynced" THEN stable \cup {NewRec} ELSE stable
  /\ pc' = "idle"
  /\ UNCHANGED <<disk, imm, version, fields, logfile_number, applying, opening, counters,
                 syncFailed, catalogLost>>

(* InsertInto, then last_sequence_: the write is acknowledged.             *)
Insert ==
  /\ pc \in {"insert", "insertsynced"}
  /\ mem' = mem \cup {NewRec} /\ last_sequence' = last_sequence + 1
  /\ owed' = owed \cup {NewRec}
  /\ stable' = IF pc = "insertsynced" THEN stable \cup {NewRec} ELSE stable
  /\ pc' = "idle"
  /\ UNCHANGED <<disk, imm, version, fields, logfile_number, applying, opening, counters,
                 syncFailed, catalogLost>>

(* A compaction: its output is synced, its edit replaces the inputs, and   *)
(* then the obsolete files are removed.                                    *)
Compact ==
  /\ pc = "idle" /\ compactions < MaxCompactions
  /\ \E inputs \in SUBSET version :
       /\ Cardinality(inputs) >= 2
       /\ tables' = Put(tables, next_file_number, Contents(inputs))
       /\ edit' = [NoEdit EXCEPT !.adds = {next_file_number}, !.dels = inputs]
  /\ next_file_number' = next_file_number + 1
  /\ compactions' = compactions + 1
  /\ pc' = "apply" /\ ret' = "remove"
  /\ UNCHANGED <<logs, manifests, temps, current, mem, imm, version, log_number,
                 manifest_file_number, set_sequence, last_sequence, logfile_number,
                 writing, created, opening, writes, stops, ghosts>>

-----------------------------------------------------------------------------
(* The process stops: killed, or without power.                            *)

Running == pc \notin {"down", "failed", "aborted"}

Stop ==
  /\ Running /\ stops < MaxCrashes
  /\ stops' = stops + 1 /\ pc' = "down"
  /\ catalogLost' = (catalogLost \/ (/\ current \in DOMAIN manifests'
                                     /\ manifests'[current].recs = <<>>))
  /\ UNCHANGED <<tables, temps, current, memory, applying, opening, writes, compactions,
                 stable, syncFailed>>

(* Killed (or closed, when idle): what was written stays; the record being *)
(* written may be torn.                                                    *)
Kill ==
  /\ \E torn \in BOOLEAN :
       /\ logs' = IF pc = "log" /\ torn
                  THEN [logs EXCEPT ![logfile_number].torn = TRUE] ELSE logs
       /\ manifests' = IF pc \in {"snapshot", "record"} /\ torn
                       THEN [manifests EXCEPT ![manifest_file_number].torn = TRUE]
                       ELSE manifests
  /\ Stop
  /\ UNCHANGED owed

(* What a power failure may leave of a file.                               *)
Remains(file) ==
  {[recs |-> SubSeq(file.recs, 1, k), synced |-> k,
    torn |-> IF k = Len(file.recs) THEN file.torn ELSE torn] :
      k \in file.synced .. Len(file.recs), torn \in BOOLEAN}

(* The tables the synced part of CURRENT's MANIFEST names.                 *)
SyncedTables ==
  IF current \in DOMAIN manifests
  THEN Recovered(manifests[current].recs)[manifests[current].synced].files
  ELSE {}

(* A power failure takes unsynced suffixes.  An acknowledged record is     *)
(* given up only when its write did not ask for a sync, it was in such a   *)
(* suffix of its log, and no synced table has it.                          *)
PowerFailure ==
  /\ \E after \in [DOMAIN logs -> UNION {Remains(logs[n]) : n \in DOMAIN logs}] :
       /\ \A n \in DOMAIN logs : after[n] \in Remains(logs[n])
       /\ logs' = after
  /\ \E after \in [DOMAIN manifests -> UNION {Remains(manifests[n]) : n \in DOMAIN manifests}] :
       /\ \A n \in DOMAIN manifests : after[n] \in Remains(manifests[n])
       /\ manifests' = after
  /\ owed' = {r \in owed : \/ r \in stable \cup Contents(SyncedTables)
                           \/ \E n \in DOMAIN logs : Contains(logs'[n].recs, r)}
  /\ Stop

(* An Open that failed fails again, an insertion that aborted aborts       *)
(* again, and the user may leave an idle database alone.                   *)
Terminated ==
  /\ pc \in {"failed", "aborted", "idle"}
  /\ UNCHANGED vars

Next ==
  \/ OpenRecover \/ OpenFails \/ ReplayRecord \/ ReplayAborts \/ ReplayEnd
  \/ ReplayDone \/ NewLog \/ BuildTable
  \/ CreateManifest \/ WriteSnapshot \/ LogEdit \/ SyncManifest \/ WriteTemp
  \/ RenameTemp \/ Install \/ RemoveObsoleteFile \/ RemoveDone
  \/ BeginWrite \/ LogWrite \/ SyncLog \/ SyncLogFails \/ Insert \/ Compact
  \/ Kill \/ PowerFailure \/ Terminated

Spec == Init /\ [][Next]_vars

-----------------------------------------------------------------------------
(* Properties.                                                             *)

Rec == [seq : Nat, id : 1 .. MaxWrites]

TypeOK ==
  /\ logs \in [DOMAIN logs -> [recs : Seq(Rec), synced : Nat, torn : BOOLEAN]]
  /\ \A n \in DOMAIN manifests : manifests[n].synced <= Len(manifests[n].recs)
  /\ tables \in [DOMAIN tables -> SUBSET Rec]
  /\ manifests \in [DOMAIN manifests -> [recs : Seq(Edit), synced : Nat, torn : BOOLEAN]]
  /\ mem \in SUBSET Rec /\ imm \in SUBSET Rec /\ edit \in Edit
  /\ {log_number, next_file_number, manifest_file_number, set_sequence, last_sequence,
      logfile_number, current} \cup FileNumbers \cup version \subseteq Nat
  /\ todo \subseteq Nat /\ owed \in SUBSET Rec /\ stable \in SUBSET Rec

(* The one window of the code: CURRENT names a MANIFEST that LogAndApply   *)
(* has truncated and not yet written again.                                *)
Rewriting == current \in DOMAIN manifests /\ manifests[current].recs = <<>>

(* At every moment the directory holds enough: opening it as it is would   *)
(* find every acknowledged record in a table of the catalog or in a log    *)
(* that is replayed - unless a crash has hit the window above.             *)
Recoverable ==
  ~catalogLost /\ ~Rewriting =>
    LET vs == OnDisk
    IN owed \subseteq Contents(vs.files)
                     \cup UNION {ToSet(logs[n].recs) : n \in LogsToReplay(vs.log)}

(* The open database serves every acknowledged record, however many        *)
(* crashes, partial replays and compactions came before.                   *)
AckedVisible ==
  pc = "idle" /\ ~catalogLost => owed \subseteq mem \cup imm \cup Contents(version)

(* Whatever unsynced part of CURRENT's MANIFEST is lost, the tables it     *)
(* names exist: a table is removed only after the edit that drops it is    *)
(* synced, and named only after it is written.                             *)
CatalogBacked ==
  current \in DOMAIN manifests =>
    \A k \in manifests[current].synced .. Len(manifests[current].recs) :
      Recovered(manifests[current].recs)[k].files \subseteq DOMAIN tables

(* No file that exists is ever created again (but the MANIFEST): a running *)
(* process only hands out numbers above all those in the directory.        *)
NumbersAhead ==
  Running => \A n \in FileNumbers : n < next_file_number

(* Two acknowledged writes never share a sequence number, and the next one *)
(* gets a number above that of every record a read can meet.               *)
SequenceAhead ==
  /\ ~catalogLost => \A r, s \in owed : r.seq = s.seq => r = s
  /\ pc = "idle" =>
       \A r \in mem \cup imm \cup Contents(version) : r.seq <= last_sequence

(* The directory of a stopped database can be opened, except in two cases: *)
(* a torn last record, and a write whose Sync failed left a record whose   *)
(* sequence number the next write used again.                              *)
OpenSucceeds ==
  /\ pc = "failed" => \/ \E n \in DOMAIN logs : logs[n].torn
                      \/ \E n \in DOMAIN manifests : manifests[n].torn
  /\ pc = "aborted" => syncFailed

(* The repository's claim (db/db_impl.h 65): obsolete files are removed    *)
(* conservatively, only when no longer needed.  Then every acknowledged    *)
(* record stays in some file of the directory.                             *)
OnlyUnneededRemoved ==
  owed \subseteq Contents(DOMAIN tables) \cup UNION {ToSet(logs[n].recs) : n \in DOMAIN logs}
=============================================================================
