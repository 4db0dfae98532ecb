--------------------------- MODULE RecoveryProofs ---------------------------
(***************************************************************************)
(* Proofs about Recovery: no file number is used twice, the catalog names  *)
(* only tables that exist, and nothing acknowledged is lost, for any       *)
(* number of writes, crashes and compactions.                              *)
(***************************************************************************)
EXTENDS Recovery, NumberLemmas, SequenceTheorems

-----------------------------------------------------------------------------
(* Replaying a MANIFEST: what it computes, by induction over its records.  *)

(* f is what n records make of a VersionSet.                               *)
Replays(f, edits, n) ==
  f = [k \in 0 .. n |-> IF k = 0 THEN NewVersionSet ELSE ApplyEdit(f[k - 1], edits[k])]

(* The recursion of Recovered is well-founded: a function as its           *)
(* definition asks for exists, by a least counterexample.                  *)
LEMMA ReplayExists ==
  ASSUME NEW edits, NEW n \in Nat
  PROVE  \E f : Replays(f, edits, n)
<1> DEFINE Without == {m \in Nat : ~\E f : Replays(f, edits, m)}
<1>1. SUFFICES ASSUME Without # {} PROVE FALSE
  OBVIOUS
<1>2. PICK m \in Without : \A k \in Without : m <= k
  <2>1. Without \subseteq Nat
    OBVIOUS
  <2>2. QED
    BY <1>1, <2>1, Smallest
<1>3. CASE m = 0
  <2>1. Replays([k \in 0 .. 0 |-> NewVersionSet], edits, 0)
    BY DEF Replays
  <2>2. QED
    BY <1>2, <1>3, <2>1
<1>4. CASE m # 0
  <2>1. m - 1 \in Nat /\ m - 1 \notin Without
    BY <1>2, <1>4
  <2>2. PICK f : Replays(f, edits, m - 1)
    BY <2>1
  <2> DEFINE g == [k \in 0 .. m |-> IF k = m THEN ApplyEdit(f[m - 1], edits[m]) ELSE f[k]]
  <2>3. \A k \in 0 .. m - 1 : g[k] = f[k]
    BY <2>1
  <2>4. \A k \in 0 .. m - 1 : f[k] = IF k = 0 THEN NewVersionSet ELSE ApplyEdit(f[k - 1], edits[k])
    BY <2>1, <2>2 DEF Replays
  <2>5. ASSUME NEW k \in 0 .. m
        PROVE  g[k] = IF k = 0 THEN NewVersionSet ELSE ApplyEdit(g[k - 1], edits[k])
    <3>1. k # 0 => k - 1 \in 0 .. m - 1
      BY <2>1
    <3>2. CASE k = m
      BY <1>4, <2>1, <2>3, <3>1, <3>2
    <3>3. CASE k # m
      <4>1. k \in 0 .. m - 1
        BY <2>1, <3>3
      <4>2. QED
        BY <2>3, <2>4, <3>1, <4>1
    <3>4. QED
      BY <3>2, <3>3
  <2>6. Replays(g, edits, m)
    BY <2>5 DEF Replays
  <2>7. QED
    BY <1>2, <2>6
<1>5. QED
  BY <1>3, <1>4

(* Record by record.                                                       *)
LEMMA ReplayStep ==
  ASSUME NEW edits, Len(edits) \in Nat
  PROVE  /\ Recovered(edits)[0] = NewVersionSet
         /\ \A k \in 1 .. Len(edits) :
              Recovered(edits)[k] = ApplyEdit(Recovered(edits)[k - 1], edits[k])
<1>1. Replays(Recovered(edits), edits, Len(edits))
  BY ReplayExists DEF Recovered, Replays
<1> DEFINE f == Recovered(edits)
<1>2. f = [k \in 0 .. Len(edits) |-> IF k = 0 THEN NewVersionSet ELSE ApplyEdit(f[k - 1], edits[k])]
  BY <1>1 DEF Replays
<1> HIDE DEF f
<1>3. \A k \in 0 .. Len(edits) : f[k] = IF k = 0 THEN NewVersionSet ELSE ApplyEdit(f[k - 1], edits[k])
  BY <1>2
<1>4. f[0] = NewVersionSet /\ \A k \in 1 .. Len(edits) : f[k] = ApplyEdit(f[k - 1], edits[k])
  BY <1>3
<1>5. QED
  BY <1>4 DEF f

(* Equal records, equal result.                                            *)
LEMMA ReplayPrefix ==
  ASSUME NEW s, NEW t, Len(s) \in Nat, Len(t) \in Nat,
         NEW n \in Nat, n <= Len(s), n <= Len(t), \A k \in 1 .. n : s[k] = t[k]
  PROVE  Recovered(s)[n] = Recovered(t)[n]
<1> DEFINE f == Recovered(s)
           g == Recovered(t)
           Differ == {k \in 0 .. n : f[k] # g[k]}
<1>1. /\ f[0] = NewVersionSet /\ \A k \in 1 .. Len(s) : f[k] = ApplyEdit(f[k - 1], s[k])
      /\ g[0] = NewVersionSet /\ \A k \in 1 .. Len(t) : g[k] = ApplyEdit(g[k - 1], t[k])
  BY ReplayStep
<1> HIDE DEF f, g
<1>2. SUFFICES ASSUME Differ # {} PROVE FALSE
  BY DEF f, g
<1>3. PICK k \in Differ : \A j \in Differ : k <= j
  <2>1. Differ \subseteq Nat
    OBVIOUS
  <2>2. QED
    BY <1>2, <2>1, Smallest
<1>4. k # 0
  BY <1>1, <1>3
<1>5. k - 1 \in 0 .. n /\ ~(k <= k - 1)
  BY <1>3, <1>4
<1>6. f[k - 1] = g[k - 1]
  BY <1>3, <1>5
<1>7. k \in 1 .. Len(s) /\ k \in 1 .. Len(t) /\ k \in 1 .. n
  BY <1>3, <1>4
<1>8. QED
  BY <1>1, <1>3, <1>6, <1>7

(* VersionSet::Recover after one more record is the VersionSet before it   *)
(* with the edit applied.                                                  *)
LEMMA ReplayAppend ==
  ASSUME NEW S, NEW s \in Seq(S), NEW e \in S
  PROVE  /\ \A k \in 0 .. Len(s) : Recovered(Append(s, e))[k] = Recovered(s)[k]
         /\ Recovered(Append(s, e))[Len(s) + 1] = ApplyEdit(Recovered(s)[Len(s)], e)
<1> DEFINE t == Append(s, e)
<1>1. /\ Len(s) \in Nat /\ Len(t) = Len(s) + 1 /\ t[Len(s) + 1] = e
      /\ \A k \in 1 .. Len(s) : t[k] = s[k]
  BY AppendProperties
<1> HIDE DEF t
<1>2. ASSUME NEW k \in 0 .. Len(s) PROVE Recovered(t)[k] = Recovered(s)[k]
  BY <1>1, ReplayPrefix
<1>3. Recovered(t)[Len(s) + 1] = ApplyEdit(Recovered(t)[Len(s)], e)
  <2>1. Len(s) + 1 \in 1 .. Len(t) /\ Len(t) \in Nat /\ (Len(s) + 1) - 1 = Len(s)
    BY <1>1
  <2>2. QED
    BY <1>1, <2>1, ReplayStep
<1>4. Len(s) \in 0 .. Len(s)
  BY <1>1
<1>5. QED
  BY <1>2, <1>3, <1>4 DEF t

(* A MANIFEST cut after n records.                                         *)
LEMMA ReplayCut ==
  ASSUME NEW S, NEW s \in Seq(S), NEW n \in 0 .. Len(s)
  PROVE  /\ SubSeq(s, 1, n) \in Seq(S) /\ Len(SubSeq(s, 1, n)) = n
         /\ \A i \in 1 .. n : SubSeq(s, 1, n)[i] = s[i]
         /\ Recovered(SubSeq(s, 1, n))[n] = Recovered(s)[n]
<1> DEFINE t == SubSeq(s, 1, n)
<1>1. Len(s) \in Nat /\ n \in Nat /\ \A i \in 1 .. n : s[i] \in S
  BY ElementOfSeq
<1>2. t \in Seq(S) /\ Len(t) = n /\ \A i \in 1 .. n : t[i] = s[i]
  <2>1. /\ t \in Seq(S) /\ Len(t) = IF 1 <= n THEN n - 1 + 1 ELSE 0
        /\ \A i \in 1 .. n - 1 + 1 : t[i] = s[1 + i - 1]
    BY <1>1, SubSeqProperties
  <2>2. n - 1 + 1 = n /\ (~(1 <= n) => n = 0)
    BY <1>1
  <2>3. \A i \in 1 .. n : 1 + i - 1 = i
    BY <1>1
  <2>4. QED
    BY <2>1, <2>2, <2>3
<1> HIDE DEF t
<1>3. Recovered(t)[n] = Recovered(s)[n]
  BY <1>1, <1>2, ReplayPrefix
<1>4. QED
  BY <1>2, <1>3 DEF t

-----------------------------------------------------------------------------
(* The types of edits and of what they make.                               *)

FiniteEdit == {e \in Edit : IsFiniteSet(e.adds)}

VersionSets == [files : {f \in SUBSET Nat : IsFiniteSet(f)}, log : Nat, next : Nat \ {0, 1}, last : Nat]

(* ApplyVersionEdit makes a VersionSet of a VersionSet, and its next file  *)
(* number is above those of the files it adds.                             *)
LEMMA ApplyEditType ==
  ASSUME NEW vs \in VersionSets, NEW e \in FiniteEdit
  PROVE  /\ ApplyEdit(vs, e) \in VersionSets
         /\ ApplyEdit(vs, e).next >= vs.next
<1> DEFINE T == {vs.next, e.next} \cup {n + 1 : n \in e.adds}
<1>1. /\ e.adds \subseteq Nat /\ IsFiniteSet(e.adds) /\ e.next \in Nat /\ e.log \in Nat /\ e.last \in Nat
      /\ vs.files \subseteq Nat /\ IsFiniteSet(vs.files) /\ vs.log \in Nat /\ vs.last \in Nat
      /\ vs.next \in Nat /\ vs.next >= 2
  BY DEF FiniteEdit, VersionSets, Edit
<1>2. T \subseteq Nat /\ vs.next \in T
  BY <1>1
<1>3. IsFiniteSet(T)
  <2>1. PICK b \in Nat : \A n \in e.adds : n <= b
    BY <1>1, Bounded
  <2>2. \A n \in T : n <= b + 1 + vs.next + e.next
    BY <1>1, <2>1
  <2>3. b + 1 + vs.next + e.next \in Nat
    BY <1>1
  <2>4. QED
    BY <1>2, <2>2, <2>3, FS_BoundedSetOfNaturals
<1> HIDE DEF T
<1>4. Max(T) \in Nat /\ Max(T) >= vs.next
  BY <1>1, <1>2, <1>3, LargestInSet
<1>5. IsFiniteSet((vs.files \ e.dels) \cup e.adds)
  BY <1>1, FS_Difference, FS_Union
<1>6. Max(T) \in Nat \ {0, 1}
  BY <1>1, <1>4
<1>7. ApplyEdit(vs, e).next = Max(T)
  BY DEF ApplyEdit, T
<1>8. Larger(vs.last, e.last) \in Nat /\ (IF e.log # 0 THEN e.log ELSE vs.log) \in Nat
  BY <1>1 DEF Larger
<1>9. ApplyEdit(vs, e) = [files |-> (vs.files \ e.dels) \cup e.adds,
         log |-> IF e.log # 0 THEN e.log ELSE vs.log, next |-> Max(T), last |-> Larger(vs.last, e.last)]
  BY DEF ApplyEdit, T
<1>10. (vs.files \ e.dels) \cup e.adds \in {f \in SUBSET Nat : IsFiniteSet(f)}
  BY <1>1, <1>5
<1>11. QED
  BY <1>4, <1>6, <1>7, <1>8, <1>9, <1>10 DEF VersionSets

(* What VersionSet::Recover makes of any number of records is a            *)
(* VersionSet.                                                             *)
LEMMA RecoveredType ==
  ASSUME NEW s \in Seq(FiniteEdit), NEW n \in 0 .. Len(s)
  PROVE  Recovered(s)[n] \in VersionSets
<1> DEFINE f == Recovered(s)
           Other == {k \in 0 .. Len(s) : f[k] \notin VersionSets}
<1>1. /\ Len(s) \in Nat /\ f[0] = NewVersionSet
      /\ \A k \in 1 .. Len(s) : f[k] = ApplyEdit(f[k - 1], s[k]) /\ s[k] \in FiniteEdit
  BY ReplayStep, ElementOfSeq
<1>2. NewVersionSet \in VersionSets
  BY FS_EmptySet DEF NewVersionSet, VersionSets
<1> HIDE DEF f
<1>3. SUFFICES ASSUME Other # {} PROVE FALSE
  BY DEF f
<1>4. PICK k \in Other : \A j \in Other : k <= j
  <2>1. Other \subseteq Nat
    OBVIOUS
  <2>2. QED
    BY <1>3, <2>1, Smallest
<1>5. k # 0
  BY <1>1, <1>2, <1>4
<1>6. k - 1 \in 0 .. Len(s) /\ k \in 1 .. Len(s) /\ ~(k <= k - 1)
  BY <1>1, <1>4, <1>5
<1>7. f[k - 1] \in VersionSets
  BY <1>4, <1>6
<1>8. QED
  BY <1>1, <1>4, <1>6, <1>7, ApplyEditType

-----------------------------------------------------------------------------
(* The places of the process.                                              *)

Places == {"down", "failed", "aborted", "replay", "newlog", "flush", "apply", "snapshot",
           "record", "sync", "temp", "rename", "install", "remove", "idle", "log",
           "logsync", "insert", "insertsynced"}

Returns == {"idle", "replay", "newlog", "remove", "log"}

(* Between calls, and in calls that do not touch the catalog.              *)
Steady == pc \in {"remove", "idle", "log", "logsync", "insert", "insertsynced"}

(* In LogAndApply, and after it has begun to write.                        *)
Midway   == pc \in {"snapshot", "record", "sync", "temp", "rename", "install"}
Applying == pc = "apply" \/ Midway

(* Between the rotation of a memtable and its installation.                *)
Rotated == pc = "flush" \/ (Applying /\ ret # "remove")

(* In Open, in Write.                                                      *)
InOpen  == pc \in {"replay", "newlog"} \/ ((pc = "flush" \/ Applying) /\ ret \in {"replay", "newlog"})
InWrite == pc \in {"log", "logsync", "insert", "insertsynced"} \/ ((pc = "flush" \/ Applying) /\ ret = "log")

-----------------------------------------------------------------------------
(* Types.                                                                  *)

File(S) == {f \in [recs : Seq(S), synced : Nat, torn : BOOLEAN] : f.synced <= Len(f.recs)}

FilesTyped ==
  /\ DOMAIN logs \subseteq Nat \ {0} /\ IsFiniteSet(DOMAIN logs) /\ logs \in [DOMAIN logs -> File(Rec)]
  /\ DOMAIN manifests \subseteq Nat \ {0} /\ IsFiniteSet(DOMAIN manifests)
  /\ manifests \in [DOMAIN manifests -> File(FiniteEdit)]
  /\ DOMAIN tables \subseteq Nat /\ IsFiniteSet(DOMAIN tables)
  /\ tables \in [DOMAIN tables -> SUBSET Rec]
  /\ temps \subseteq Nat /\ IsFiniteSet(temps)
  /\ current \in Nat

MemoryTyped ==
  /\ pc \in Places /\ ret \in Returns
  /\ mem \subseteq Rec /\ imm \subseteq Rec
  /\ version \subseteq Nat /\ IsFiniteSet(version)
  /\ log_number \in Nat /\ next_file_number \in Nat /\ next_file_number >= 2
  /\ manifest_file_number \in Nat /\ set_sequence \in Nat /\ last_sequence \in Nat
  /\ logfile_number \in Nat
  /\ writing \in BOOLEAN /\ created \in BOOLEAN /\ edit \in FiniteEdit
  /\ todo \subseteq Nat /\ pos \in Nat /\ pos >= 1 /\ found \in [current : BOOLEAN, logs : BOOLEAN]
  /\ writes \in 0 .. MaxWrites
  /\ owed \subseteq Rec /\ stable \subseteq Rec /\ catalogLost \in BOOLEAN /\ syncFailed \in BOOLEAN

Typed == FilesTyped /\ MemoryTyped

-----------------------------------------------------------------------------
(* What a VersionSet vs must be good for.                                  *)

InLog(r, n, k) == \E i \in 1 .. k : logs[n].recs[i] = r

(* Its tables exist and its sequence number covers them.  What is owed is  *)
(* in its tables or in a log from its log number on; what is stable is in  *)
(* the synced part of one; and an older log has nothing that its tables    *)
(* lack.                                                                   *)
Good(vs) ==
  /\ vs.files \subseteq DOMAIN tables
  /\ \A r \in Contents(vs.files) : r.seq <= vs.last
  /\ ~catalogLost =>
       /\ \A r \in owed : r \in Contents(vs.files) \/
            \E n \in DOMAIN logs : n >= vs.log /\ InLog(r, n, Len(logs[n].recs))
       /\ \A r \in owed \cap stable : r \in Contents(vs.files) \/
            \E n \in DOMAIN logs : n >= vs.log /\ InLog(r, n, logs[n].synced)
       /\ \A n \in DOMAIN logs : n < vs.log =>
            \A i \in 1 .. Len(logs[n].recs) :
              logs[n].recs[i] \in owed => logs[n].recs[i] \in Contents(vs.files)
  /\ ~syncFailed =>
       \A n \in DOMAIN logs : n < vs.log =>
         \A i \in 1 .. Len(logs[n].recs) : logs[n].recs[i].seq <= vs.last

(* Some log is not older than its log number.                              *)
Named(log) == \E n \in DOMAIN logs : n >= log

(* The VersionSet in memory, and with the edit under way.                  *)
Memory == [files |-> version, log |-> log_number, last |-> set_sequence]

Target == [files |-> (version \ edit.dels) \cup edit.adds,
           log   |-> IF edit.log = 0 THEN log_number ELSE edit.log,
           last  |-> Larger(set_sequence, edit.last)]

(* What k records of MANIFEST n make.                                      *)
Upto(n, k) == Recovered(manifests[n].recs)[k]

Like(vs, ws) == vs.files = ws.files /\ vs.log = ws.log /\ vs.last = ws.last

-----------------------------------------------------------------------------
(* The invariant.                                                          *)

(* Whatever a power failure leaves of the MANIFEST that CURRENT names,     *)
(* Recover makes a good VersionSet of it - but of an empty one.            *)
GoodFiles ==
  /\ current = 0 => Good(NewVersionSet)
  /\ current # 0 =>
       /\ current \in DOMAIN manifests
       /\ \A k \in manifests[current].synced .. Len(manifests[current].recs) :
            /\ Named(Upto(current, k).log)
            /\ k # 0 => Good(Upto(current, k))
            /\ Contents(Upto(current, manifests[current].synced).files)
                 \subseteq Contents(Upto(current, k).files)
  /\ Rewriting => pc = "snapshot" \/ catalogLost

GoodMemory == Running => Good(Memory) /\ (current # 0 => Named(log_number))

(* What is owed and in a log is in memory or in a table, but for what is   *)
(* still to be replayed.                                                   *)
Replayed == Running =>
  /\ todo \subseteq DOMAIN logs
  /\ todo # {} => pc = "replay" \/ ((pc = "flush" \/ Applying) /\ ret = "replay")
  /\ ~catalogLost =>
       \A n \in DOMAIN logs : \A i \in 1 .. Len(logs[n].recs) :
         logs[n].recs[i] \in owed /\ (n \in todo => n = Min(todo) /\ i < pos)
           => logs[n].recs[i] \in mem \cup imm \cup Contents(version)

GoodEdit == Applying =>
  /\ Good(Target) /\ Named(Target.log)
  /\ Contents(version) \subseteq Contents(Target.files)
  /\ ret # "remove" => imm \subseteq Contents(edit.adds)

Memtables == Running =>
  /\ ~Rotated => imm = {}
  /\ Rotated \/ pc = "newlog" => mem = {}
  /\ Rotated => ret \in {"replay", "newlog", "log"}
  /\ pc = "flush" => logfile_number \in DOMAIN logs /\ \A n \in todo : n >= logfile_number
  /\ mem # {} => logfile_number \in DOMAIN logs

(* Memory and MANIFEST, before the first LogAndApply ...                   *)
CatalogClosed == Running /\ ~writing =>
  /\ manifest_file_number = current /\ ~created /\ ~Midway
  /\ current = 0 => version = {} /\ log_number = 0
  /\ current # 0 => Like(Upto(current, Len(manifests[current].recs)), Memory)

(* ... and while it is open, between two LogAndApply ...                   *)
Manifest == manifests[manifest_file_number]
Count    == Len(Manifest.recs)

CatalogOpen == Running /\ writing =>
  /\ manifest_file_number \in DOMAIN manifests /\ current \in {0, manifest_file_number}
  /\ current = 0 => version = {} /\ log_number = 0

CatalogSettled == Running /\ writing /\ ~Midway =>
  /\ current = manifest_file_number /\ ~created
  /\ Count # 0 /\ Manifest.synced = Count /\ Like(Upto(manifest_file_number, Count), Memory)

(* ... and in one: the snapshot, the edit, and the edit synced.            *)
CatalogBegun ==
  /\ pc = "snapshot" => Count = 0 /\ Manifest.synced = 0
  /\ pc = "record" =>
       /\ created /\ Count = 1 /\ Manifest.synced = 0
       /\ Like(Upto(manifest_file_number, 1), [Memory EXCEPT !.log = 0])

CatalogLogged == pc = "sync" =>
  /\ Like(Upto(manifest_file_number, Count), Target)
  /\ created => /\ Count = 2 /\ Manifest.synced = 0
                /\ Like(Upto(manifest_file_number, 1), [Memory EXCEPT !.log = 0])
  /\ ~created => /\ current = manifest_file_number /\ Count # 1 /\ Manifest.synced = Count - 1
                 /\ Like(Upto(manifest_file_number, Count - 1), Memory)

CatalogSynced == pc \in {"temp", "rename", "install"} =>
  /\ Count # 0 /\ Manifest.synced = Count /\ Like(Upto(manifest_file_number, Count), Target)
  /\ pc = "install" => current = manifest_file_number

(* An Open without logs is one of a new database.                          *)
NewDatabase == Running /\ InOpen /\ ~found.logs =>
  current = 0 /\ DOMAIN logs = {} /\ pc \in {"replay", "newlog"} /\ mem = {}

(* The current log counts, as does the one after the edit under way ...    *)
LogCounts ==
  /\ Steady => /\ logfile_number \in DOMAIN logs /\ log_number <= logfile_number
               /\ writing \/ current = 0
  /\ pc = "flush" /\ ret = "log" => log_number <= logfile_number
  /\ Applying /\ ret \in {"log", "remove"} =>
       logfile_number \in DOMAIN logs /\ Target.log <= logfile_number

(* ... it holds the record of the write under way ...                      *)
LogHolds ==
  /\ pc \in {"logsync", "insert"} => InLog(NewRec, logfile_number, Len(logs[logfile_number].recs))
  /\ pc = "insertsynced" => InLog(NewRec, logfile_number, logs[logfile_number].synced)

(* ... and no other log holds a record of that write.                      *)
LogNumbered ==
  /\ \A n \in DOMAIN logs : \A i \in 1 .. Len(logs[n].recs) : logs[n].recs[i].id <= writes
  /\ InWrite =>
       /\ writes # 0
       /\ \A n \in DOMAIN logs \ {logfile_number} :
            \A i \in 1 .. Len(logs[n].recs) : logs[n].recs[i].id < writes

CurrentLog == LogCounts /\ LogHolds /\ LogNumbered

Sequences ==
  /\ Running => /\ \A r \in mem \cup imm : r.seq <= last_sequence
                /\ set_sequence <= last_sequence
                /\ Applying => edit.last <= last_sequence
  /\ stable \subseteq owed
  /\ ~catalogLost => \A r, s \in owed : r.seq = s.seq => r = s

(* Until a Sync has failed, no two records in the logs share a sequence    *)
(* number, and those that are not still to be replayed are behind          *)
(* last_sequence_, which a write under way is about to advance.            *)
Pending(n, i) == n \in todo /\ ~(n = Min(todo) /\ i < pos)

Reached == IF pc \in {"logsync", "insert", "insertsynced"} THEN last_sequence + 1 ELSE last_sequence

Numbered == ~syncFailed =>
  /\ \A n, m \in DOMAIN logs : \A i \in 1 .. Len(logs[n].recs), j \in 1 .. Len(logs[m].recs) :
       logs[n].recs[i].seq = logs[m].recs[j].seq => n = m /\ i = j
  /\ Running => \A n \in DOMAIN logs : \A i \in 1 .. Len(logs[n].recs) :
       ~Pending(n, i) => logs[n].recs[i].seq <= Reached

(* A memtable that replay is filling has what the logs had so far.         *)
FromLogs == pc = "replay" => \A r \in mem :
  \E n \in DOMAIN logs : \E i \in 1 .. Len(logs[n].recs) : logs[n].recs[i] = r /\ ~Pending(n, i)

IInv == /\ Typed /\ NumbersAhead /\ GoodFiles /\ GoodMemory /\ Replayed /\ GoodEdit
        /\ Memtables /\ CatalogClosed /\ CatalogOpen /\ CatalogSettled /\ CatalogBegun
        /\ CatalogLogged /\ CatalogSynced /\ NewDatabase /\ CurrentLog /\ Sequences
        /\ Numbered /\ FromLogs /\ OpenSucceeds
-----------------------------------------------------------------------------
(* What keeps a VersionSet good.                                           *)

(* The records of a set of tables, in this state and in the next.          *)
LEMMA InContents ==
  ASSUME NEW fs, NEW r
  PROVE  /\ r \in Contents(fs) <=> \E n \in fs : n \in DOMAIN tables /\ r \in tables[n]
         /\ r \in Contents(fs)' <=> \E n \in fs : n \in DOMAIN tables' /\ r \in tables'[n]
BY DEF Contents

(* Tables that stay are the same.                                          *)
LEMMA ContentsKept ==
  ASSUME NEW fs, \A n \in fs \cap DOMAIN tables : n \in DOMAIN tables' /\ tables'[n] = tables[n],
         fs \subseteq DOMAIN tables
  PROVE  Contents(fs)' = Contents(fs)
BY DEF Contents

(* Its tables stay; logs that count only grow, older ones gain nothing.    *)
LEMMA GoodKept ==
  ASSUME NEW vs, Good(vs), FilesTyped,
         \A n \in vs.files : n \in DOMAIN tables' /\ tables'[n] = tables[n],
         \A n \in DOMAIN logs : n >= vs.log =>
           /\ n \in DOMAIN logs'
           /\ Len(logs'[n].recs) \in Nat /\ Len(logs[n].recs) <= Len(logs'[n].recs)
           /\ logs'[n].synced \in Nat /\ logs[n].synced <= logs'[n].synced
           /\ \A i \in 1 .. Len(logs[n].recs) : logs'[n].recs[i] = logs[n].recs[i],
         \A n \in DOMAIN logs' : n < vs.log => \A i \in 1 .. Len(logs'[n].recs) :
           n \in DOMAIN logs /\ i \in 1 .. Len(logs[n].recs) /\ logs'[n].recs[i] = logs[n].recs[i],
         owed' = owed, stable' = stable, catalogLost => catalogLost', syncFailed => syncFailed'
  PROVE  Good(vs)'
<1>1. Contents(vs.files)' = Contents(vs.files)
  BY ContentsKept DEF Good
<1>2. vs.files \subseteq DOMAIN tables' /\ \A r \in Contents(vs.files)' : r.seq <= vs.last
  BY <1>1 DEF Good
<1>3. ASSUME NEW n \in DOMAIN logs, n >= vs.log, NEW r
      PROVE  /\ InLog(r, n, Len(logs[n].recs)) => InLog(r, n, Len(logs[n].recs))'
             /\ InLog(r, n, logs[n].synced) => InLog(r, n, logs[n].synced)'
  <2>1. /\ Len(logs[n].recs) \in Nat /\ logs[n].synced \in Nat
        /\ logs[n].synced <= Len(logs[n].recs)
    BY DEF FilesTyped, File
  <2>2. /\ Len(logs'[n].recs) \in Nat /\ Len(logs[n].recs) <= Len(logs'[n].recs)
        /\ logs'[n].synced \in Nat /\ logs[n].synced <= logs'[n].synced
        /\ \A i \in 1 .. Len(logs[n].recs) : logs'[n].recs[i] = logs[n].recs[i]
    BY <1>3
  <2>3. ASSUME NEW k \in Nat, NEW l \in Nat, k <= l, k <= Len(logs[n].recs),
               \E i \in 1 .. k : logs[n].recs[i] = r
        PROVE  \E i \in 1 .. l : logs'[n].recs[i] = r
    BY <2>1, <2>2, <2>3
  <2>4. InLog(r, n, Len(logs[n].recs)) => InLog(r, n, Len(logs[n].recs))'
    BY <2>1, <2>2, <2>3 DEF InLog
  <2>5. InLog(r, n, logs[n].synced) => InLog(r, n, logs[n].synced)'
    BY <2>1, <2>2, <2>3 DEF InLog
  <2>6. QED
    BY <2>4, <2>5
<1>4. ~catalogLost' => \A r \in owed' : r \in Contents(vs.files)' \/
        \E n \in DOMAIN logs' : n >= vs.log /\ InLog(r, n, Len(logs[n].recs))'
  BY <1>1, <1>3 DEF Good
<1>5. ~catalogLost' => \A r \in owed' \cap stable' : r \in Contents(vs.files)' \/
        \E n \in DOMAIN logs' : n >= vs.log /\ InLog(r, n, logs[n].synced)'
  BY <1>1, <1>3 DEF Good
<1>6. ~catalogLost' => \A n \in DOMAIN logs' : n < vs.log =>
        \A i \in 1 .. Len(logs'[n].recs) :
          logs'[n].recs[i] \in owed' => logs'[n].recs[i] \in Contents(vs.files)'
  BY <1>1 DEF Good
<1>7. ~syncFailed' => \A n \in DOMAIN logs' : n < vs.log =>
        \A i \in 1 .. Len(logs'[n].recs) : logs'[n].recs[i].seq <= vs.last
  BY DEF Good
<1>8. QED
  BY <1>2, <1>4, <1>5, <1>6, <1>7 DEF Good

(* Good looks only at the files and at what is owed.                       *)
LEMMA GoodSame ==
  ASSUME NEW vs, Good(vs), UNCHANGED <<logs, tables, owed, stable, catalogLost>>,
         syncFailed => syncFailed'
  PROVE  Good(vs)'
BY DEF Good, Contents, InLog

(* A table is added under a new number.                                    *)
LEMMA GoodNewTable ==
  ASSUME NEW vs, Good(vs), FilesTyped, NEW n, NEW t, n \notin DOMAIN tables,
         tables' = Put(tables, n, t), UNCHANGED <<logs, owed, stable, catalogLost, syncFailed>>
  PROVE  Good(vs)'
<1>1. \A m \in DOMAIN tables : m \in DOMAIN tables' /\ tables'[m] = tables[m]
  BY DEF Put
<1>2. Contents(vs.files)' = Contents(vs.files)
  BY <1>1, ContentsKept DEF Good
<1>3. QED
  BY <1>1, <1>2 DEF Good, InLog

(* It looks only at the fields that Like compares.                         *)
LEMMA GoodLike ==
  ASSUME NEW vs, NEW ws, Good(vs), Like(vs, ws)
  PROVE  Good(ws)
BY DEF Good, Like

(* An older log number is as good.                                         *)
LEMMA GoodFromStart ==
  ASSUME FilesTyped, NEW vs, NEW ws, vs.log \in Nat,
         Good(vs), ws.files = vs.files, ws.last = vs.last, ws.log = 0
  PROVE  Good(ws)
BY DEF Good, FilesTyped
(* The MANIFEST is open, or there is no CURRENT yet.                       *)
Written == Running /\ (writing \/ current = 0)

(* While memory and MANIFEST agree on what is synced, GoodFiles follows    *)
(* from what is known of memory: the descriptor is open, or there is no    *)
(* CURRENT.                                                                *)
LEMMA FilesFromMemory ==
  /\ Typed /\ GoodMemory /\ GoodEdit /\ CatalogClosed /\ CatalogOpen
  /\ CatalogSettled /\ CatalogBegun /\ CatalogLogged /\ CatalogSynced /\ Written
  => GoodFiles
<1> SUFFICES ASSUME Typed, GoodMemory, GoodEdit, CatalogClosed, CatalogOpen, CatalogSettled,
                    CatalogBegun, CatalogLogged, CatalogSynced, Running, writing \/ current = 0
             PROVE  GoodFiles
  BY DEF Written
<1>1. Good(Memory) /\ Memory.log \in Nat /\ Memory.log = log_number /\ Memory.files = version
  BY DEF GoodMemory, Memory, Typed, MemoryTyped
<1>2. CASE current = 0
  <2>1. version = {} /\ log_number = 0
    BY <1>2 DEF CatalogClosed, CatalogOpen, Typed, MemoryTyped
  <2>2. Good(NewVersionSet)
    <3>1. Contents({}) = {}
      BY DEF Contents
    <3>2. Good(Memory) /\ Memory.files = {} /\ Memory.log = 0
      BY <1>1, <2>1
    <3>3. NewVersionSet.files = {} /\ NewVersionSet.log = 0
      BY DEF NewVersionSet
    <3>4. \A n \in DOMAIN logs : ~(n < 0)
      BY DEF Typed, FilesTyped
    <3>5. QED
      BY <3>1, <3>2, <3>3, <3>4 DEF Good
  <2>3. ~Rewriting
    BY <1>2 DEF Rewriting, Typed, FilesTyped
  <2>4. QED
    BY <1>2, <2>2, <2>3 DEF GoodFiles
<1>3. CASE current # 0
  <2> DEFINE f == manifests[current]
             k == Len(f.recs)
  <2>1. /\ writing /\ current = manifest_file_number /\ current \in DOMAIN manifests
        /\ f = Manifest /\ k = Count /\ Named(log_number)
    BY <1>3 DEF CatalogOpen, GoodMemory, Manifest, Count
  <2>2. f.recs \in Seq(FiniteEdit) /\ k \in Nat /\ f.synced \in Nat /\ f.synced <= k
    BY <2>1 DEF Typed, FilesTyped, File
  <2>3. Upto(current, 0) = NewVersionSet /\ Upto(current, 0).files = {} /\ Upto(current, 0).log = 0
    BY <2>2, ReplayStep DEF Upto, NewVersionSet
  <2>4. Named(0)
    BY <2>1 DEF Named, Typed, FilesTyped
  <2>5. Contents({}) = {}
    BY DEF Contents
  <2>6. k = 0 => pc = "snapshot"
    <3>1. ~Midway => k # 0
      BY <2>1 DEF CatalogSettled
    <3>2. pc = "record" => k # 0
      BY <2>1 DEF CatalogBegun
    <3>3. pc = "sync" => k # 0
      BY <2>1, <2>2 DEF CatalogLogged
    <3>4. pc \in {"temp", "rename", "install"} => k # 0
      BY <2>1 DEF CatalogSynced
    <3>5. QED
      BY <3>1, <3>2, <3>3, <3>4 DEF Midway
  <2>7. Applying => /\ Good(Target) /\ Named(Target.log)
                    /\ Contents(version) \subseteq Contents(Target.files)
    BY DEF GoodEdit
  <2>8. \A vs : Like(vs, [Memory EXCEPT !.log = 0]) => Good(vs) /\ vs.log = 0
    BY <1>1, GoodFromStart DEF Like, Memory, Typed
  <2>9. \A vs : Like(vs, Memory) => Good(vs) /\ vs.log = log_number /\ vs.files = version
    BY <1>1, GoodLike DEF Like
  <2>10. \A vs : Like(vs, Target) /\ Applying =>
           Good(vs) /\ Named(vs.log) /\ Contents(version) \subseteq Contents(vs.files)
    BY <2>7, GoodLike DEF Like
  <2> DEFINE Fine(j) == /\ Named(Upto(current, j).log)
                        /\ j # 0 => Good(Upto(current, j))
                        /\ Contents(Upto(current, f.synced).files) \subseteq Contents(Upto(current, j).files)
  <2>11. SUFFICES ASSUME NEW j \in f.synced .. k PROVE Fine(j)
    <3>1. Rewriting => pc = "snapshot"
      BY <2>1, <2>2, <2>6, EmptySeq DEF Rewriting
    <3>2. QED
      BY <1>3, <2>1, <3>1 DEF GoodFiles
  <2>12. CASE ~Midway
    <3>1. f.synced = k /\ Like(Upto(current, k), Memory)
      BY <2>1, <2>12 DEF CatalogSettled
    <3>2. j = k
      BY <2>2, <3>1
    <3>3. QED
      BY <2>1, <2>9, <3>1, <3>2
  <2>13. CASE pc = "snapshot"
    <3>1. f.synced = 0 /\ j = 0
      BY <2>1, <2>2, <2>13 DEF CatalogBegun
    <3>2. QED
      BY <2>3, <2>4, <3>1
  <2>14. CASE pc = "record"
    <3>1. f.synced = 0 /\ j \in {0, 1} /\ Like(Upto(current, 1), [Memory EXCEPT !.log = 0])
      BY <2>1, <2>2, <2>14 DEF CatalogBegun
    <3>2. QED
      BY <2>3, <2>4, <2>5, <2>8, <3>1
  <2>15. CASE pc = "sync"
    <3>1. Applying /\ Like(Upto(current, k), Target)
      BY <2>1, <2>15 DEF CatalogLogged, Applying, Midway
    <3>2. CASE created
      <4>1. /\ k = 2 /\ f.synced = 0 /\ j \in {0, 1, 2}
            /\ Like(Upto(current, 1), [Memory EXCEPT !.log = 0])
        BY <2>1, <2>2, <2>15, <3>2 DEF CatalogLogged
      <4>2. QED
        BY <2>3, <2>4, <2>5, <2>8, <2>10, <3>1, <4>1
    <3>3. CASE ~created
      <4>1. f.synced = k - 1 /\ Like(Upto(current, k - 1), Memory)
        BY <2>1, <2>15, <3>3 DEF CatalogLogged
      <4>2. j = k - 1 \/ j = k
        BY <2>2, <4>1
      <4>3. QED
        BY <2>1, <2>9, <2>10, <3>1, <4>1, <4>2
    <3>4. QED
      BY <3>2, <3>3
  <2>16. CASE pc \in {"temp", "rename", "install"}
    <3>1. f.synced = k /\ Applying /\ Like(Upto(current, k), Target)
      BY <2>1, <2>16 DEF CatalogSynced, Applying, Midway
    <3>2. j = k
      BY <2>2, <3>1
    <3>3. QED
      BY <2>10, <3>1, <3>2
  <2>17. QED
    BY <2>12, <2>13, <2>14, <2>15, <2>16 DEF Midway
<1>4. QED
  BY <1>2, <1>3
-----------------------------------------------------------------------------
(* Files.                                                                  *)

(* A new file.                                                             *)
LEMMA FileMade ==
  ASSUME NEW S
  PROVE  /\ EmptyFile \in File(S)
         /\ EmptyFile.recs = <<>> /\ Len(EmptyFile.recs) = 0 /\ EmptyFile.synced = 0
BY DEF EmptyFile, File

(* A record more.                                                          *)
LEMMA FileGrown ==
  ASSUME NEW S, NEW f \in File(S), NEW r \in S
  PROVE  /\ AddRecord(f, r) \in File(S)
         /\ AddRecord(f, r).recs = Append(f.recs, r)
         /\ AddRecord(f, r).synced = f.synced
         /\ Len(AddRecord(f, r).recs) = Len(f.recs) + 1 /\ Len(f.recs) \in Nat
         /\ \A i \in 1 .. Len(f.recs) : AddRecord(f, r).recs[i] = f.recs[i]
         /\ AddRecord(f, r).recs[Len(f.recs) + 1] = r
BY DEF AddRecord, File

(* A file after a Sync.                                                    *)
LEMMA FileSynced ==
  ASSUME NEW S, NEW f \in File(S)
  PROVE  /\ Synced(f) \in File(S) /\ Synced(f).recs = f.recs
         /\ Synced(f).synced = Len(f.recs) /\ Len(f.recs) \in Nat
BY DEF Synced, File

(* A file whose last record is torn.                                       *)
LEMMA FileTorn ==
  ASSUME NEW S, NEW f \in File(S)
  PROVE  [f EXCEPT !.torn = TRUE] \in File(S)
BY DEF File

(* What a power failure leaves: a beginning that holds what was synced.    *)
LEMMA FileCut ==
  ASSUME NEW S, NEW f \in File(S), NEW g \in Remains(f)
  PROVE  /\ g \in File(S) /\ g.synced = Len(g.recs)
         /\ f.synced <= Len(g.recs) /\ Len(g.recs) <= Len(f.recs) /\ Len(f.recs) \in Nat
         /\ \A i \in 1 .. Len(g.recs) : g.recs[i] = f.recs[i]
         /\ Recovered(g.recs)[Len(g.recs)] = Recovered(f.recs)[Len(g.recs)]
<1>1. f.recs \in Seq(S) /\ f.synced \in Nat /\ f.torn \in BOOLEAN /\ Len(f.recs) \in Nat
  BY DEF File
<1>2. PICK k \in f.synced .. Len(f.recs), torn \in BOOLEAN :
        g = [recs |-> SubSeq(f.recs, 1, k), synced |-> k,
             torn |-> IF k = Len(f.recs) THEN f.torn ELSE torn]
  BY DEF Remains
<1>3. k \in 0 .. Len(f.recs)
  BY <1>1
<1>4. /\ SubSeq(f.recs, 1, k) \in Seq(S) /\ Len(SubSeq(f.recs, 1, k)) = k
      /\ \A i \in 1 .. k : SubSeq(f.recs, 1, k)[i] = f.recs[i]
      /\ Recovered(SubSeq(f.recs, 1, k))[k] = Recovered(f.recs)[k]
  BY <1>1, <1>3, ReplayCut
<1>5. g.recs = SubSeq(f.recs, 1, k) /\ g.synced = k /\ g.torn \in BOOLEAN
  BY <1>1, <1>2
<1>6. QED
  BY <1>1, <1>2, <1>3, <1>4, <1>5 DEF File

(* Directories: a file more, a file less.                                  *)
LEMMA DirectoryPut ==
  ASSUME NEW S, NEW T, NEW f \in [S -> T], IsFiniteSet(S), NEW n, NEW x \in T
  PROVE  /\ Put(f, n, x) \in [S \cup {n} -> T] /\ IsFiniteSet(S \cup {n})
         /\ Put(f, n, x)[n] = x /\ \A m \in S : m # n => Put(f, n, x)[m] = f[m]
<1>1. IsFiniteSet(S \cup {n})
  BY FS_AddElement
<1>2. QED
  BY <1>1 DEF Put

(* A directory with a file less is still one.                              *)
LEMMA DirectoryRestrict ==
  ASSUME NEW S, NEW T, NEW f \in [S -> T], IsFiniteSet(S), NEW n
  PROVE  /\ Restrict(f, S \ {n}) \in [S \ {n} -> T] /\ IsFiniteSet(S \ {n})
         /\ \A m \in S \ {n} : Restrict(f, S \ {n})[m] = f[m]
<1>1. IsFiniteSet(S \ {n})
  BY FS_Subset
<1>2. QED
  BY <1>1 DEF Restrict
-----------------------------------------------------------------------------
(* Types.                                                                  *)

(* No step puts anything but records into a log or a table, or anything    *)
(* but edits into a MANIFEST.                                              *)
LEMMA FilesTypedKept ==
  ASSUME Typed, CurrentLog, Next
  PROVE  FilesTyped'
<1> USE DEF Typed
<1>1. /\ next_file_number \in Nat \ {0} /\ manifest_file_number \in Nat /\ logfile_number \in Nat
      /\ set_sequence \in Nat /\ last_sequence \in Nat /\ log_number \in Nat
      /\ version \subseteq Nat /\ IsFiniteSet(version) /\ edit \in FiniteEdit /\ imm \subseteq Rec
  BY DEF MemoryTyped
<1>2. CASE NewLog
  <2>1. PICK n \in Nat \ {0} : logs' = Put(logs, n, EmptyFile)
    BY <1>1, <1>2 DEF NewLog
  <2>2. logs' \in [DOMAIN logs \cup {n} -> File(Rec)] /\ IsFiniteSet(DOMAIN logs \cup {n})
    BY <2>1, DirectoryPut, FileMade DEF FilesTyped
  <2>3. QED
    BY <1>2, <2>2 DEF NewLog, FilesTyped
<1>3. CASE BuildTable
  <2>1. /\ tables' \in [DOMAIN tables \cup {next_file_number} -> SUBSET Rec]
        /\ IsFiniteSet(DOMAIN tables \cup {next_file_number})
    BY <1>1, <1>3, DirectoryPut DEF BuildTable, FilesTyped
  <2>2. QED
    BY <1>1, <1>3, <2>1 DEF BuildTable, FilesTyped
<1>4. CASE CreateManifest
  <2>1. PICK n \in Nat \ {0} : manifests' = Put(manifests, n, EmptyFile)
    BY <1>1, <1>4 DEF CreateManifest
  <2>2. /\ manifests' \in [DOMAIN manifests \cup {n} -> File(FiniteEdit)]
        /\ IsFiniteSet(DOMAIN manifests \cup {n})
    BY <2>1, DirectoryPut, FileMade DEF FilesTyped
  <2>3. QED
    BY <1>4, <2>2 DEF CreateManifest, FilesTyped
<1>5. ASSUME NEW n, NEW e \in FiniteEdit, UNCHANGED <<logs, tables, temps, current>>,
             manifests' = [manifests EXCEPT ![n] = AddRecord(@, e)]
      PROVE  FilesTyped'
  <2>1. \A f \in File(FiniteEdit) : AddRecord(f, e) \in File(FiniteEdit)
    BY <1>5, FileGrown
  <2>2. DOMAIN manifests' = DOMAIN manifests /\ manifests' \in [DOMAIN manifests' -> File(FiniteEdit)]
    BY <1>5, <2>1 DEF FilesTyped
  <2>3. QED
    BY <1>5, <2>2 DEF FilesTyped
<1>6. CASE WriteSnapshot
  <2>1. [NoEdit EXCEPT !.last = set_sequence, !.adds = version] \in FiniteEdit
    BY <1>1 DEF NoEdit, FiniteEdit, Edit
  <2>2. QED
    BY <1>5, <1>6, <2>1 DEF WriteSnapshot
<1>7. CASE LogEdit
  <2>1. edit' \in FiniteEdit
    BY <1>1, <1>7 DEF LogEdit, FiniteEdit, Edit
  <2>2. QED
    BY <1>5, <1>7, <2>1 DEF LogEdit
<1>8. CASE SyncManifest
  <2>1. \A f \in File(FiniteEdit) : Synced(f) \in File(FiniteEdit)
    BY FileSynced
  <2>2. DOMAIN manifests' = DOMAIN manifests /\ manifests' \in [DOMAIN manifests' -> File(FiniteEdit)]
    BY <1>8, <2>1 DEF SyncManifest, FilesTyped
  <2>3. QED
    BY <1>8, <2>2 DEF SyncManifest, FilesTyped
<1>9. CASE WriteTemp \/ RenameTemp
  <2>1. IsFiniteSet(temps \cup {manifest_file_number}) /\ IsFiniteSet(temps \ {manifest_file_number})
    BY FS_AddElement, FS_Subset DEF FilesTyped
  <2>2. QED
    BY <1>1, <1>9, <2>1 DEF WriteTemp, RenameTemp, FilesTyped
<1>10. CASE RemoveObsoleteFile
  <2>1. CASE \E n : tables' = Restrict(tables, DOMAIN tables \ {n}) /\ UNCHANGED <<logs, manifests, temps, current>>
    <3>1. PICK n : tables' = Restrict(tables, DOMAIN tables \ {n})
      BY <2>1
    <3>2. tables' \in [DOMAIN tables \ {n} -> SUBSET Rec] /\ IsFiniteSet(DOMAIN tables \ {n})
      BY <3>1, DirectoryRestrict DEF FilesTyped
    <3>3. QED
      BY <2>1, <3>2 DEF FilesTyped
  <2>2. CASE \E n : manifests' = Restrict(manifests, DOMAIN manifests \ {n}) /\ UNCHANGED <<logs, tables, temps, current>>
    <3>1. PICK n : manifests' = Restrict(manifests, DOMAIN manifests \ {n})
      BY <2>2
    <3>2. manifests' \in [DOMAIN manifests \ {n} -> File(FiniteEdit)] /\ IsFiniteSet(DOMAIN manifests \ {n})
      BY <3>1, DirectoryRestrict DEF FilesTyped
    <3>3. QED
      BY <2>2, <3>2 DEF FilesTyped
  <2>3. CASE \E n : logs' = Restrict(logs, DOMAIN logs \ {n}) /\ UNCHANGED <<tables, manifests, temps, current>>
    <3>1. PICK n : logs' = Restrict(logs, DOMAIN logs \ {n})
      BY <2>3
    <3>2. logs' \in [DOMAIN logs \ {n} -> File(Rec)] /\ IsFiniteSet(DOMAIN logs \ {n})
      BY <3>1, DirectoryRestrict DEF FilesTyped
    <3>3. QED
      BY <2>3, <3>2 DEF FilesTyped
  <2>4. CASE \E n : temps' = temps \ {n} /\ UNCHANGED <<logs, tables, manifests, current>>
    BY <2>4, FS_Subset DEF FilesTyped
  <2>5. QED
    BY <1>10, <2>1, <2>2, <2>3, <2>4 DEF RemoveObsoleteFile
<1>11. CASE LogWrite
  <2>1. logs' = [logs EXCEPT ![logfile_number] = AddRecord(@, NewRec)] /\ NewRec \in Rec
    BY <1>1, <1>11 DEF LogWrite, NewRec, Rec, MemoryTyped, CurrentLog, LogNumbered, InWrite
  <2>2. \A f \in File(Rec) : AddRecord(f, NewRec) \in File(Rec)
    BY <2>1, FileGrown
  <2>3. DOMAIN logs' = DOMAIN logs /\ logs' \in [DOMAIN logs' -> File(Rec)]
    BY <2>1, <2>2 DEF FilesTyped
  <2>4. QED
    BY <1>11, <2>3 DEF LogWrite, FilesTyped
<1>12. CASE SyncLog
  <2>1. \A f \in File(Rec) : Synced(f) \in File(Rec)
    BY FileSynced
  <2>2. DOMAIN logs' = DOMAIN logs /\ logs' \in [DOMAIN logs' -> File(Rec)]
    BY <1>12, <2>1 DEF SyncLog, FilesTyped
  <2>3. QED
    BY <1>12, <2>2 DEF SyncLog, FilesTyped
<1>13. CASE Compact
  <2>1. PICK inputs \in SUBSET version : tables' = Put(tables, next_file_number, Contents(inputs))
    BY <1>13 DEF Compact
  <2>2. Contents(inputs) \in SUBSET Rec
    BY DEF Contents, FilesTyped
  <2>3. /\ tables' \in [DOMAIN tables \cup {next_file_number} -> SUBSET Rec]
        /\ IsFiniteSet(DOMAIN tables \cup {next_file_number})
    BY <1>1, <2>1, <2>2, DirectoryPut DEF FilesTyped
  <2>4. QED
    BY <1>1, <1>13, <2>3 DEF Compact, FilesTyped
<1>14. CASE Kill
  <2>1. \A S : \A f \in File(S) : [f EXCEPT !.torn = TRUE] \in File(S)
    BY FileTorn
  <2>2. \A n : [logs EXCEPT ![n].torn = TRUE] \in [DOMAIN logs -> File(Rec)]
    BY <2>1 DEF FilesTyped
  <2>3. \A n : [manifests EXCEPT ![n].torn = TRUE] \in [DOMAIN manifests -> File(FiniteEdit)]
    BY <2>1 DEF FilesTyped
  <2>4. QED
    <3>1. logs' \in [DOMAIN logs -> File(Rec)] /\ manifests' \in [DOMAIN manifests -> File(FiniteEdit)]
      BY <1>14, <2>2, <2>3 DEF Kill, FilesTyped
    <3>2. QED
      BY <1>14, <3>1 DEF Kill, Stop, FilesTyped
<1>15. CASE PowerFailure
  <2>1. /\ logs' = [n \in DOMAIN logs |-> logs'[n]]
        /\ \A n \in DOMAIN logs : logs'[n] \in Remains(logs[n])
        /\ manifests' = [n \in DOMAIN manifests |-> manifests'[n]]
        /\ \A n \in DOMAIN manifests : manifests'[n] \in Remains(manifests[n])
    BY <1>15 DEF PowerFailure
  <2>2. \A n \in DOMAIN logs : logs'[n] \in File(Rec)
    BY <2>1, FileCut DEF FilesTyped
  <2>3. \A n \in DOMAIN manifests : manifests'[n] \in File(FiniteEdit)
    BY <2>1, FileCut DEF FilesTyped
  <2>4. /\ logs' \in [DOMAIN logs -> File(Rec)]
        /\ manifests' \in [DOMAIN manifests -> File(FiniteEdit)]
    BY <2>1, <2>2, <2>3
  <2>5. QED
    BY <1>15, <2>4 DEF PowerFailure, Stop, FilesTyped
<1>16. CASE UNCHANGED disk
  BY <1>16 DEF disk, FilesTyped
<1>17. QED
  BY <1>2, <1>3, <1>4, <1>6, <1>7, <1>8, <1>9, <1>10, <1>11, <1>12, <1>13, <1>14, <1>15, <1>16
     DEF Next, OpenRecover, OpenFails, ReplayRecord, ReplayAborts, ReplayEnd, ReplayDone,
         Install, RemoveDone, BeginWrite, SyncLogFails, Insert, Terminated, vars, disk

(* The numbers Open and ApplyVersionEdit compute.                          *)
LEMMA NextNumber ==
  ASSUME FilesTyped, NEW n \in Nat
  PROVE  LET T == {n} \cup {m + 1 : m \in FileNumbers}
         IN Max(T) \in Nat /\ Max(T) >= n /\ \A m \in FileNumbers : m < Max(T)
<1> DEFINE T == {n} \cup {m + 1 : m \in FileNumbers}
<1>1. FileNumbers \subseteq Nat /\ IsFiniteSet(FileNumbers)
  BY FS_Union DEF FilesTyped, FileNumbers
<1>2. T \subseteq Nat /\ n \in T /\ \A m \in FileNumbers : m + 1 \in T
  BY <1>1
<1>3. IsFiniteSet(T)
  <2>1. IsFiniteSet({m + 1 : m \in FileNumbers})
    <3>1. PICK b \in Nat : \A m \in FileNumbers : m <= b
      BY <1>1, Bounded
    <3>2. {m + 1 : m \in FileNumbers} \subseteq 0 .. (b + 1)
      BY <1>1, <3>1
    <3>3. QED
      <4>1. IsFiniteSet(0 .. (b + 1))
        BY FS_Interval
      <4>2. QED
        BY <3>2, <4>1, FS_Subset
  <2>2. QED
    BY <2>1, FS_AddElement
<1> HIDE DEF T
<1>4. Max(T) \in T /\ \A k \in T : k <= Max(T)
  BY <1>2, <1>3, LargestInSet
<1>5. Max(T) \in Nat /\ Max(T) >= n /\ \A m \in FileNumbers : m < Max(T)
  <2>1. Max(T) \in Nat /\ Max(T) >= n
    BY <1>2, <1>4
  <2>2. ASSUME NEW m \in FileNumbers PROVE m < Max(T)
    <3>1. m \in Nat /\ m + 1 <= Max(T)
      BY <1>1, <1>2, <1>4
    <3>2. QED
      BY <2>1, <3>1
  <2>3. QED
    BY <2>1, <2>2
<1>6. QED
  BY <1>5 DEF T

(* What Recover would make of the directory is a VersionSet.               *)
LEMMA OnDiskType ==
  ASSUME FilesTyped
  PROVE  OnDisk \in VersionSets
<1>1. CASE current \in DOMAIN manifests
  <2>1. manifests[current].recs \in Seq(FiniteEdit) /\ Len(manifests[current].recs) \in Nat
    BY <1>1 DEF FilesTyped, File
  <2>2. Recovered(manifests[current].recs)[Len(manifests[current].recs)] \in VersionSets
    BY <2>1, RecoveredType
  <2>3. QED
    BY <1>1, <2>2 DEF OnDisk
<1>2. CASE current \notin DOMAIN manifests
  BY <1>2, FS_EmptySet DEF OnDisk, NewVersionSet, VersionSets
<1>3. QED
  BY <1>1, <1>2

(* So is what the edit under way makes of memory.                          *)
LEMMA TargetType ==
  ASSUME MemoryTyped
  PROVE  LET vs == ApplyEdit([files |-> version, log |-> log_number,
                              next |-> next_file_number, last |-> set_sequence], edit)
         IN /\ vs \in VersionSets /\ vs.next >= next_file_number
            /\ vs.files = Target.files /\ vs.log = Target.log /\ vs.last = Target.last
<1> DEFINE ws == [files |-> version, log |-> log_number,
                  next |-> next_file_number, last |-> set_sequence]
<1>1. ws \in VersionSets /\ edit \in FiniteEdit /\ ws.next = next_file_number
  BY DEF MemoryTyped, VersionSets
<1>2. /\ ApplyEdit(ws, edit).files = Target.files /\ ApplyEdit(ws, edit).log = Target.log
      /\ ApplyEdit(ws, edit).last = Target.last
  BY DEF ApplyEdit, Target
<1>3. QED
  BY <1>1, <1>2, ApplyEditType

(* No step makes a field of the process leave its type.                    *)
LEMMA MemoryTypedKept ==
  ASSUME Typed, CurrentLog, Replayed, Next
  PROVE  MemoryTyped'
<1>1. FilesTyped /\ MemoryTyped
  BY DEF Typed
<1>2. CASE OpenRecover
  <2>1. /\ OnDisk \in VersionSets /\ OnDisk.files \subseteq Nat /\ IsFiniteSet(OnDisk.files)
        /\ OnDisk.log \in Nat /\ OnDisk.last \in Nat /\ OnDisk.next \in Nat /\ OnDisk.next >= 2
    BY <1>1, OnDiskType DEF VersionSets
  <2>2. next_file_number' \in Nat /\ next_file_number' >= OnDisk.next
    BY <1>1, <1>2, <2>1, NextNumber DEF OpenRecover
  <2>3. LogsToReplay(OnDisk.log) \subseteq Nat
    BY <1>1 DEF FilesTyped, LogsToReplay
  <2>4. NoEdit \in FiniteEdit
    BY FS_EmptySet DEF NoEdit, FiniteEdit, Edit
  <2>5. /\ version' \subseteq Nat /\ IsFiniteSet(version') /\ log_number' \in Nat
        /\ set_sequence' \in Nat /\ last_sequence' \in Nat /\ todo' \subseteq Nat
        /\ found' \in [current : BOOLEAN, logs : BOOLEAN] /\ manifest_file_number' \in Nat
        /\ edit' \in FiniteEdit
    BY <1>1, <1>2, <2>1, <2>3, <2>4 DEF OpenRecover, FilesTyped
  <2>6. next_file_number' >= 2
    BY <2>1, <2>2
  <2>7. /\ mem' = {} /\ imm' = {} /\ pc' = "replay" /\ ret' = "idle"
        /\ UNCHANGED <<counters, ghosts>>
    BY <1>2 DEF OpenRecover
  <2>8. writing' \in BOOLEAN /\ created' \in BOOLEAN /\ pos' \in Nat /\ pos' >= 1 /\ logfile_number' \in Nat
    <3>1. writing' = FALSE /\ created' = FALSE
      BY <1>2 DEF OpenRecover
    <3>2. pos' = 1 /\ logfile_number' = 1
      BY <1>2 DEF OpenRecover
    <3>3. pos' \in Nat /\ pos' >= 1 /\ logfile_number' \in Nat
      BY <3>2
    <3>4. QED
      BY <3>1, <3>3
  <2>9. /\ writes' \in 0 .. MaxWrites /\ owed' \subseteq Rec /\ stable' \subseteq Rec
        /\ catalogLost' \in BOOLEAN /\ syncFailed' \in BOOLEAN
    BY <1>1, <2>7 DEF MemoryTyped, counters, ghosts
  <2>10. pc' \in Places /\ ret' \in Returns /\ mem' \subseteq Rec /\ imm' \subseteq Rec
    BY <2>7 DEF Places, Returns
  <2>11. QED
    BY <2>2, <2>5, <2>6, <2>8, <2>9, <2>10 DEF MemoryTyped
<1>3. CASE ReplayRecord
  <2>1. Min(todo) \in todo
    BY <1>1, <1>3, LeastInSet DEF ReplayRecord, MemoryTyped
  <2>2. Min(todo) \in DOMAIN logs /\ Min(todo) \in Nat
    BY <1>1, <1>3, <2>1 DEF ReplayRecord, Replayed, Running, MemoryTyped
  <2> DEFINE rec == logs[Min(todo)].recs[pos]
  <2>3. rec \in Rec /\ rec.seq \in Nat
    <3>1. logs[Min(todo)].recs \in Seq(Rec)
      BY <1>1, <2>2 DEF FilesTyped, File
    <3>2. pos \in 1 .. Len(logs[Min(todo)].recs)
      BY <1>1, <1>3, <3>1 DEF ReplayRecord, MemoryTyped
    <3>3. rec \in Rec
      BY <3>1, <3>2, ElementOfSeq
    <3>4. QED
      BY <3>3 DEF Rec
  <2>4. /\ last_sequence' = Larger(last_sequence, rec.seq)
        /\ mem' \in {{}, mem \cup {rec}} /\ imm' \in {imm, mem \cup {rec}}
        /\ pc' \in {"flush", "replay"} /\ ret' = "replay"
        /\ logfile_number' = Min(todo) /\ pos' = pos + 1
    BY <1>3 DEF ReplayRecord
  <2>5. /\ last_sequence' \in Nat /\ mem' \subseteq Rec /\ imm' \subseteq Rec
        /\ logfile_number' \in Nat /\ pos' \in Nat /\ pos' >= 1
    BY <1>1, <2>2, <2>3, <2>4 DEF MemoryTyped, Larger
  <2>6. QED
    BY <1>1, <1>3, <2>4, <2>5
       DEF ReplayRecord, MemoryTyped, Places, Returns, fields, counters, ghosts
<1>4. CASE ReplayEnd
  <2>1. Min(todo) \in Nat
    BY <1>1, <1>4, LeastInSet DEF ReplayEnd, MemoryTyped
  <2>2. /\ logfile_number' \in Nat /\ pos' \in Nat /\ pos' >= 1 /\ todo' \subseteq Nat
        /\ pc' \in {"failed", "replay"}
    <3>1. CASE logs[Min(todo)].torn
      BY <1>1, <1>4, <2>1, <3>1 DEF ReplayEnd, MemoryTyped
    <3>2. CASE ~logs[Min(todo)].torn
      <4>1. logfile_number' = Min(todo) /\ todo' = todo \ {Min(todo)} /\ pc' = "replay"
        BY <1>4, <3>2 DEF ReplayEnd
      <4>2. pos' = 1
        BY <1>4, <3>2 DEF ReplayEnd
      <4>3. pos' \in Nat /\ pos' >= 1
        BY <4>2
      <4>4. QED
        BY <1>1, <2>1, <4>1, <4>3 DEF MemoryTyped
    <3>3. QED
      BY <3>1, <3>2
  <2>3. QED
    BY <1>1, <1>4, <2>2
       DEF ReplayEnd, MemoryTyped, Places, fields, applying, counters, ghosts
<1>5. \A l \in Nat, q \in Nat, S \in SUBSET Nat, R \in SUBSET Nat : IsFiniteSet(S) =>
        /\ [NoEdit EXCEPT !.log = l, !.last = q] \in FiniteEdit
        /\ [NoEdit EXCEPT !.log = l, !.last = q, !.adds = S] \in FiniteEdit
        /\ [NoEdit EXCEPT !.adds = S, !.dels = R] \in FiniteEdit
  <2>1. IsFiniteSet({})
    BY FS_EmptySet
  <2>2. QED
    BY <2>1 DEF NoEdit, FiniteEdit, Edit
<1>6. CASE NewLog
  <2>1. PICK n \in Nat : /\ logfile_number' = n /\ edit' = [NoEdit EXCEPT !.log = n, !.last = last_sequence]
    BY <1>1, <1>6 DEF NewLog, MemoryTyped
  <2>2. edit' \in FiniteEdit
    BY <1>1, <1>5, <2>1, FS_EmptySet DEF MemoryTyped
  <2>3. next_file_number' \in Nat /\ next_file_number' >= 2
    BY <1>1, <1>6 DEF NewLog, MemoryTyped
  <2>4. QED
    BY <1>1, <1>6, <2>1, <2>2, <2>3
       DEF NewLog, MemoryTyped, Places, Returns, opening, counters, ghosts
<1>7. CASE BuildTable
  <2>1. edit' \in FiniteEdit
    <3>1. IsFiniteSet({next_file_number})
      BY FS_Singleton
    <3>2. QED
      BY <1>1, <1>5, <1>7, <3>1 DEF BuildTable, MemoryTyped
  <2>2. next_file_number' \in Nat /\ next_file_number' >= 2
    BY <1>1, <1>7 DEF BuildTable, MemoryTyped
  <2>3. QED
    BY <1>1, <1>7, <2>1, <2>2
       DEF BuildTable, MemoryTyped, Places, opening, counters, ghosts
<1>8. CASE CreateManifest
  <2>1. /\ next_file_number' \in Nat /\ next_file_number' >= 2 /\ manifest_file_number' \in Nat
    BY <1>1, <1>8 DEF CreateManifest, MemoryTyped, Larger
  <2>2. QED
    BY <1>1, <1>8, <2>1 DEF CreateManifest, MemoryTyped, Places, opening, counters, ghosts
<1>9. CASE LogEdit
  <2>1. edit' \in FiniteEdit
    BY <1>1, <1>9 DEF LogEdit, FiniteEdit, Edit, MemoryTyped
  <2>2. QED
    BY <1>1, <1>9, <2>1
       DEF LogEdit, MemoryTyped, Places, memory, fields, opening, counters, ghosts
<1>10. CASE Install
  <2> DEFINE vs == ApplyEdit([files |-> version, log |-> log_number,
                              next |-> next_file_number, last |-> set_sequence], edit)
  <2>1. vs \in VersionSets
    BY <1>1, TargetType
  <2>2. /\ vs.files \subseteq Nat /\ IsFiniteSet(vs.files) /\ vs.log \in Nat /\ vs.last \in Nat
        /\ vs.next \in Nat /\ vs.next >= 2
    BY <2>1 DEF VersionSets
  <2> HIDE DEF vs
  <2>3. /\ version' = vs.files /\ log_number' = vs.log
        /\ next_file_number' = vs.next /\ set_sequence' = vs.last
    BY <1>10 DEF Install, vs
  <2>4. QED
    BY <1>1, <1>10, <2>2, <2>3
       DEF Install, MemoryTyped, Places, Returns, opening, counters, ghosts
<1>11. CASE BeginWrite
  <2>1. writes' \in 0 .. MaxWrites /\ pc' \in Places /\ ret' \in Returns /\ mem' \subseteq Rec /\ imm' \subseteq Rec
    BY <1>1, <1>11, ConstantsAssumption DEF BeginWrite, MemoryTyped, Places, Returns
  <2>2. QED
    BY <1>1, <1>11, <2>1 DEF BeginWrite, MemoryTyped, fields, opening, ghosts
<1>12. CASE Insert
  <2>1. NewRec \in Rec /\ last_sequence' \in Nat
    BY <1>1, <1>12 DEF Insert, NewRec, Rec, MemoryTyped, CurrentLog, LogNumbered, InWrite
  <2>2. QED
    BY <1>1, <1>12, <2>1
       DEF Insert, MemoryTyped, Places, fields, applying, opening, counters, ghosts
<1>13. CASE Compact
  <2>1. edit' \in FiniteEdit
    <3>1. PICK inputs \in SUBSET version :
            edit' = [NoEdit EXCEPT !.adds = {next_file_number}, !.dels = inputs]
      BY <1>13 DEF Compact
    <3>2. inputs \in SUBSET Nat /\ IsFiniteSet({next_file_number}) /\ next_file_number \in Nat
      BY <1>1, FS_Singleton DEF MemoryTyped
    <3>3. QED
      BY <1>5, <3>1, <3>2
  <2>2. next_file_number' \in Nat /\ next_file_number' >= 2
    BY <1>1, <1>13 DEF Compact, MemoryTyped
  <2>3. QED
    BY <1>1, <1>13, <2>1, <2>2
       DEF Compact, MemoryTyped, Places, Returns, opening, ghosts
<1>14. CASE WriteSnapshot \/ SyncManifest \/ WriteTemp \/ RenameTemp
  BY <1>1, <1>14 DEF WriteSnapshot, SyncManifest, WriteTemp, RenameTemp, MemoryTyped, Places,
                     memory, fields, applying, opening, counters, ghosts
<1>15. CASE OpenFails \/ ReplayAborts \/ RemoveObsoleteFile \/ RemoveDone \/ Terminated
  <2>1. UNCHANGED <<memory, applying, opening, counters, ghosts>> /\ pc' \in {pc, "failed", "aborted", "idle"}
    BY <1>15 DEF OpenFails, ReplayAborts, RemoveObsoleteFile, RemoveDone, Terminated, vars
  <2>2. QED
    BY <1>1, <2>1 DEF MemoryTyped, Places, memory, fields, applying, opening, counters, ghosts
<1>16. CASE LogWrite \/ SyncLog \/ SyncLogFails
  BY <1>1, <1>16 DEF LogWrite, SyncLog, SyncLogFails, MemoryTyped, Places,
                     memory, fields, applying, opening, counters, ghosts
<1>17. CASE ReplayDone
  BY <1>1, <1>17 DEF ReplayDone, MemoryTyped, Places, Returns, fields, opening, counters, ghosts
<1>18. CASE Kill
  BY <1>1, <1>18 DEF Kill, Stop, MemoryTyped, Places, memory, fields, applying, opening
<1>19. CASE PowerFailure
  <2>1. owed' \subseteq owed
    BY <1>19 DEF PowerFailure
  <2>2. QED
    BY <1>1, <1>19, <2>1 DEF PowerFailure, Stop, MemoryTyped, Places, memory, fields, applying, opening
<1>20. QED
  BY <1>2, <1>3, <1>4, <1>6, <1>7, <1>8, <1>9, <1>10, <1>11, <1>12, <1>13, <1>14, <1>15, <1>16,
     <1>17, <1>18, <1>19 DEF Next

(* A step adds only the numbers it takes from the counter.                 *)
LEMMA NumbersAheadKept ==
  ASSUME Typed, NumbersAhead, CatalogClosed, CatalogOpen, Next
  PROVE  NumbersAhead'
<1>1. /\ FileNumbers \subseteq Nat /\ next_file_number \in Nat /\ next_file_number >= 2
      /\ manifest_file_number \in Nat
  BY DEF Typed, FilesTyped, MemoryTyped, FileNumbers
<1>2. ASSUME Running, NEW n \in Nat, n < next_file_number', next_file_number' \in Nat,
             next_file_number <= next_file_number', FileNumbers' \subseteq FileNumbers \cup {n}
      PROVE  NumbersAhead'
  BY <1>1, <1>2 DEF NumbersAhead
<1>3. ASSUME Running, next_file_number' \in Nat, next_file_number <= next_file_number',
             FileNumbers' \subseteq FileNumbers
      PROVE  NumbersAhead'
  BY <1>1, <1>3 DEF NumbersAhead
<1>4. CASE OpenRecover
  <2>1. OnDisk.next \in Nat /\ FilesTyped
    BY OnDiskType DEF VersionSets, Typed
  <2>2. \A m \in FileNumbers : m < next_file_number'
    BY <1>4, <2>1, NextNumber DEF OpenRecover
  <2>3. FileNumbers' = FileNumbers
    BY <1>4 DEF OpenRecover, disk, FileNumbers
  <2>4. QED
    BY <2>2, <2>3 DEF NumbersAhead
<1>5. CASE OpenFails \/ Kill \/ PowerFailure \/ ReplayAborts
  BY <1>5 DEF OpenFails, Kill, PowerFailure, Stop, ReplayAborts, NumbersAhead, Running
<1>6. CASE NewLog
  <2>1. PICK n \in Nat : /\ logs' = Put(logs, n, EmptyFile) /\ n < next_file_number'
                         /\ next_file_number' \in Nat /\ next_file_number <= next_file_number'
    BY <1>1, <1>6 DEF NewLog
  <2>2. FileNumbers' \subseteq FileNumbers \cup {n}
    BY <1>6, <2>1 DEF NewLog, FileNumbers, Put
  <2>3. QED
    BY <1>2, <1>6, <2>1, <2>2 DEF NewLog, Running
<1>7. CASE BuildTable \/ Compact
  <2>1. PICK x : tables' = Put(tables, next_file_number, x)
    BY <1>7 DEF BuildTable, Compact
  <2>2. FileNumbers' \subseteq FileNumbers \cup {next_file_number}
    BY <1>7, <2>1 DEF BuildTable, Compact, FileNumbers, Put
  <2>3. next_file_number' = next_file_number + 1 /\ Running
    BY <1>7 DEF BuildTable, Compact, Running
  <2>4. QED
    BY <1>1, <1>2, <2>2, <2>3
<1>8. CASE CreateManifest
  <2>1. PICK n \in Nat : /\ manifests' = Put(manifests, n, EmptyFile) /\ n < next_file_number'
                         /\ next_file_number' \in Nat /\ next_file_number <= next_file_number'
    BY <1>1, <1>8 DEF CreateManifest, Larger
  <2>2. FileNumbers' \subseteq FileNumbers \cup {n}
    BY <1>8, <2>1 DEF CreateManifest, FileNumbers, Put
  <2>3. QED
    BY <1>2, <1>8, <2>1, <2>2 DEF CreateManifest, Running
<1>9. CASE WriteSnapshot \/ LogEdit \/ SyncManifest
  <2>1. DOMAIN manifests' = DOMAIN manifests /\ UNCHANGED <<logs, tables, temps, next_file_number>>
    BY <1>9 DEF WriteSnapshot, LogEdit, SyncManifest, memory, fields
  <2>2. QED
    BY <1>1, <1>3, <1>9, <2>1 DEF WriteSnapshot, LogEdit, SyncManifest, Running, FileNumbers
<1>10. CASE WriteTemp
  <2>1. manifest_file_number \in FileNumbers /\ Running
    BY <1>10 DEF WriteTemp, CatalogOpen, CatalogClosed, Running, Midway, FileNumbers
  <2>2. FileNumbers' \subseteq FileNumbers /\ next_file_number' = next_file_number
    BY <1>10, <2>1 DEF WriteTemp, FileNumbers, memory, fields
  <2>3. QED
    BY <1>1, <1>3, <2>1, <2>2
<1>11. CASE RenameTemp \/ RemoveObsoleteFile
  <2>1. FileNumbers' \subseteq FileNumbers /\ next_file_number' = next_file_number
    BY <1>11 DEF RenameTemp, RemoveObsoleteFile, FileNumbers, memory, fields, Restrict
  <2>2. QED
    BY <1>1, <1>3, <1>11, <2>1 DEF RenameTemp, RemoveObsoleteFile, Running
<1>12. CASE Install
  <2>1. next_file_number' \in Nat /\ next_file_number' >= next_file_number
    BY <1>12, TargetType DEF Install, VersionSets, Typed
  <2>2. FileNumbers' = FileNumbers
    BY <1>12 DEF Install, disk, FileNumbers
  <2>3. QED
    BY <1>1, <1>3, <1>12, <2>1, <2>2 DEF Install, Running
<1>13. CASE LogWrite \/ SyncLog
  <2>1. DOMAIN logs' = DOMAIN logs /\ UNCHANGED <<manifests, tables, temps, next_file_number>>
    BY <1>13 DEF LogWrite, SyncLog, memory, fields
  <2>2. QED
    BY <1>1, <1>3, <1>13, <2>1 DEF LogWrite, SyncLog, Running, FileNumbers
<1>14. CASE ReplayRecord \/ ReplayEnd \/ ReplayDone \/ RemoveDone \/ BeginWrite \/ SyncLogFails \/ Insert
  <2>1. FileNumbers' = FileNumbers /\ next_file_number' = next_file_number /\ Running
    BY <1>14 DEF ReplayRecord, ReplayEnd, ReplayDone, RemoveDone, BeginWrite, SyncLogFails, Insert,
                 FileNumbers, disk, memory, fields, Running
  <2>2. QED
    BY <1>1, <1>3, <2>1
<1>15. CASE Terminated
  BY <1>15 DEF Terminated, vars, disk, memory, fields, NumbersAhead, Running, FileNumbers
<1>16. QED
  BY <1>4, <1>5, <1>6, <1>7, <1>8, <1>9, <1>10, <1>11, <1>12, <1>13, <1>14, <1>15 DEF Next

-----------------------------------------------------------------------------
(* Memtables.                                                              *)

(* A memtable is dropped or replaced only where its records are in a       *)
(* table: imm_ is null but while it is flushed.                            *)
LEMMA MemtablesKept ==
  ASSUME Typed, Memtables, Replayed, CatalogClosed, NewDatabase, CurrentLog, Next
  PROVE  Memtables'
<1> USE DEF Memtables, Rotated, Running, Applying, Midway
<1>1. todo \subseteq Nat
  BY DEF Typed, MemoryTyped
<1>2. CASE ReplayRecord
  <2>1. Min(todo) \in todo /\ \A n \in todo : n >= Min(todo)
    <3>1. Min(todo) \in todo /\ \A n \in todo : Min(todo) <= n
      BY <1>1, <1>2, LeastInSet DEF ReplayRecord
    <3>2. QED
      BY <1>1, <3>1
  <2>2. /\ Min(todo) \in DOMAIN logs' /\ logfile_number' = Min(todo) /\ todo' = todo /\ imm = {}
    BY <1>2, <2>1 DEF ReplayRecord, Replayed, disk
  <2>3. (pc' = "flush" /\ ret' = "replay" /\ mem' = {}) \/ (pc' = "replay" /\ imm' = {})
    BY <1>2, <2>2 DEF ReplayRecord
  <2>4. QED
    BY <2>1, <2>2, <2>3
<1>3. CASE ReplayEnd
  <2>1. Min(todo) \in DOMAIN logs
    BY <1>1, <1>3, LeastInSet DEF ReplayEnd, Replayed
  <2>2. /\ DOMAIN logs' = DOMAIN logs /\ logfile_number' = Min(todo) /\ imm' = {}
        /\ pc' \in {"failed", "replay"}
    BY <1>3 DEF ReplayEnd, disk
  <2>3. QED
    BY <2>1, <2>2
<1>4. CASE RemoveObsoleteFile
  <2>1. logfile_number \in DOMAIN logs => logfile_number \in DOMAIN logs'
    BY <1>4 DEF RemoveObsoleteFile, Obsolete, Restrict
  <2>2. QED
    BY <1>4, <2>1 DEF RemoveObsoleteFile, memory
<1>5. CASE BeginWrite
  <2>1. logfile_number \in DOMAIN logs /\ todo = {}
    BY <1>5 DEF BeginWrite, CurrentLog, LogCounts, Steady, Replayed
  <2>2. QED
    BY <1>5, <2>1 DEF BeginWrite, disk, opening
<1>6. CASE Insert
  <2>1. logfile_number \in DOMAIN logs
    BY <1>6 DEF Insert, CurrentLog, LogCounts, Steady
  <2>2. QED
    BY <1>6, <2>1 DEF Insert, disk
<1>7. CASE OpenRecover \/ OpenFails \/ ReplayAborts \/ ReplayDone
  BY <1>7 DEF OpenRecover, OpenFails, ReplayAborts, ReplayDone, disk, opening
<1>8. CASE NewLog \/ BuildTable
  BY <1>8 DEF NewLog, BuildTable, NewDatabase, Put, opening
<1>9. CASE CreateManifest \/ WriteSnapshot \/ LogEdit \/ SyncManifest \/ WriteTemp \/ RenameTemp
  BY <1>9 DEF CreateManifest, WriteSnapshot, LogEdit, SyncManifest, WriteTemp, RenameTemp,
              memory, applying, opening
<1>10. CASE Install
  BY <1>10 DEF Install, disk, Typed, MemoryTyped, Returns
<1>11. CASE RemoveDone \/ SyncLogFails \/ Kill \/ PowerFailure
  BY <1>11 DEF RemoveDone, SyncLogFails, Kill, PowerFailure, Stop, disk, memory
<1>12. CASE LogWrite \/ SyncLog
  BY <1>12 DEF LogWrite, SyncLog, memory
<1>13. CASE Compact
  BY <1>13 DEF Compact
<1>14. CASE Terminated
  BY <1>14 DEF Terminated, vars, disk, memory, applying, opening
<1>15. QED
  BY <1>2, <1>3, <1>4, <1>5, <1>6, <1>7, <1>8, <1>9, <1>10, <1>11, <1>12, <1>13, <1>14 DEF Next

(* An Open that found no logs found no CURRENT and has replayed nothing.   *)
LEMMA NewDatabaseKept ==
  ASSUME Typed, NewDatabase, GoodFiles, Replayed, CatalogOpen, Next
  PROVE  NewDatabase'
<1> USE DEF NewDatabase, Running, InOpen, Applying, Midway
<1>1. CASE OpenRecover
  <2>1. /\ found'.logs = (LogsToReplay(OnDisk.log) # {}) /\ mem' = {} /\ pc' = "replay"
        /\ DOMAIN logs' = DOMAIN logs /\ current' = current
    BY <1>1 DEF OpenRecover, disk
  <2>2. CASE current = 0
    BY <2>1, <2>2 DEF LogsToReplay
  <2>3. CASE current # 0
    <3>1. /\ current \in DOMAIN manifests
          /\ Named(Upto(current, Len(manifests[current].recs)).log)
      <4>1. /\ manifests[current].synced \in Nat /\ Len(manifests[current].recs) \in Nat
            /\ manifests[current].synced <= Len(manifests[current].recs)
        BY <2>3 DEF GoodFiles, Typed, FilesTyped, File
      <4>2. QED
        BY <2>3, <4>1 DEF GoodFiles
    <3>2. OnDisk.log = Upto(current, Len(manifests[current].recs)).log
      BY <3>1 DEF OnDisk, Upto
    <3>3. LogsToReplay(OnDisk.log) # {}
      BY <3>1, <3>2 DEF Named, LogsToReplay
    <3>4. QED
      BY <2>1, <3>3
  <2>4. QED
    BY <2>2, <2>3
<1>2. CASE ReplayRecord
  BY <1>2 DEF ReplayRecord, Replayed, opening
<1>3. CASE OpenFails \/ ReplayAborts \/ ReplayEnd \/ ReplayDone
  BY <1>3 DEF OpenFails, ReplayAborts, ReplayEnd, ReplayDone, disk, opening
<1>4. CASE NewLog \/ BuildTable
  BY <1>4 DEF NewLog, BuildTable, opening
<1>5. CASE CreateManifest \/ WriteSnapshot \/ LogEdit \/ SyncManifest \/ WriteTemp \/ RenameTemp
  BY <1>5 DEF CreateManifest, WriteSnapshot, LogEdit, SyncManifest, WriteTemp, RenameTemp,
              memory, applying, opening
<1>6. CASE Install
  BY <1>6 DEF Install, disk, opening
<1>7. CASE RemoveObsoleteFile \/ RemoveDone \/ BeginWrite \/ LogWrite \/ SyncLog \/ SyncLogFails
  BY <1>7 DEF RemoveObsoleteFile, RemoveDone, BeginWrite, LogWrite, SyncLog, SyncLogFails,
              memory, applying
<1>8. CASE Insert \/ Compact \/ Kill \/ PowerFailure
  BY <1>8 DEF Insert, Compact, Kill, PowerFailure, Stop, applying
<1>9. CASE Terminated
  BY <1>9 DEF Terminated, vars, disk, memory, applying, opening
<1>10. QED
  BY <1>1, <1>2, <1>3, <1>4, <1>5, <1>6, <1>7, <1>8, <1>9 DEF Next

-----------------------------------------------------------------------------
(* Memory and MANIFEST.                                                    *)

(* What RemoveObsoleteFiles does not remove.                               *)
LEMMA RemovalKeeps ==
  ASSUME Typed, RemoveObsoleteFile
  PROVE  /\ \A n \in DOMAIN manifests : n = current =>
              n \in DOMAIN manifests' /\ manifests'[n] = manifests[n]
         /\ \A n \in DOMAIN tables : n \in version => n \in DOMAIN tables' /\ tables'[n] = tables[n]
         /\ \A n \in DOMAIN logs' : n \in DOMAIN logs /\ logs'[n] = logs[n]
         /\ \A n \in DOMAIN logs : current = 0 \/ n >= log_number \/ n = logfile_number => n \in DOMAIN logs'
<1>1. DOMAIN logs \subseteq Nat /\ log_number \in Nat
  BY DEF Typed, FilesTyped, MemoryTyped
<1>2. CASE \E n \in Obsolete.tables : tables' = Restrict(tables, DOMAIN tables \ {n}) /\ UNCHANGED <<logs, manifests>>
  BY <1>2 DEF Obsolete, Restrict
<1>3. CASE \E n \in Obsolete.manifests :
             manifests' = Restrict(manifests, DOMAIN manifests \ {n}) /\ UNCHANGED <<logs, tables>>
  BY <1>3 DEF Obsolete, Restrict
<1>4. CASE \E n \in Obsolete.logs : logs' = Restrict(logs, DOMAIN logs \ {n}) /\ UNCHANGED <<tables, manifests>>
  <2>1. PICK n \in Obsolete.logs : logs' = Restrict(logs, DOMAIN logs \ {n})
    BY <1>4
  <2>2. n \in DOMAIN logs /\ current # 0 /\ n < log_number /\ n # logfile_number
    BY <2>1 DEF Obsolete
  <2>3. \A m \in DOMAIN logs : current = 0 \/ m >= log_number \/ m = logfile_number => m # n
    BY <1>1, <2>2
  <2>4. DOMAIN logs' = DOMAIN logs \ {n} /\ \A m \in DOMAIN logs' : logs'[m] = logs[m]
    BY <2>1 DEF Restrict
  <2>5. QED
    BY <1>4, <2>3, <2>4
<1>5. CASE UNCHANGED <<logs, tables, manifests>>
  BY <1>5
<1>6. QED
  BY <1>2, <1>3, <1>4, <1>5 DEF RemoveObsoleteFile

(* Until the first LogAndApply, memory is what the MANIFEST of CURRENT     *)
(* makes.                                                                  *)
LEMMA CatalogClosedKept ==
  ASSUME Typed, CatalogClosed, CatalogOpen, GoodFiles, Next
  PROVE  CatalogClosed'
<1> USE DEF CatalogClosed, Running, Midway
<1>1. CASE OpenRecover
  <2>1. /\ version' = OnDisk.files /\ log_number' = OnDisk.log /\ set_sequence' = OnDisk.last
        /\ manifest_file_number' = current /\ pc' = "replay" /\ ~created'
        /\ UNCHANGED <<manifests, current>>
    BY <1>1 DEF OpenRecover, disk
  <2>2. CASE current = 0
    <3>1. OnDisk = NewVersionSet
      BY <2>2 DEF OnDisk, Typed, FilesTyped
    <3>2. version' = {} /\ log_number' = 0
      BY <2>1, <3>1 DEF NewVersionSet
    <3>3. QED
      BY <2>1, <2>2, <3>2
  <2>3. CASE current # 0
    <3>1. OnDisk = Upto(current, Len(manifests[current].recs))
      BY <2>3 DEF OnDisk, Upto, GoodFiles
    <3>2. Upto(current, Len(manifests[current].recs))' = Upto(current, Len(manifests[current].recs))
      BY <2>1 DEF Upto
    <3>3. Like(Upto(current, Len(manifests[current].recs)), Memory)'
      BY <2>1, <3>1, <3>2 DEF Like, Memory
    <3>4. QED
      BY <2>1, <2>3, <3>3
  <2>4. QED
    BY <2>2, <2>3
<1>2. CASE RemoveObsoleteFile
  <2>1. current # 0 => manifests'[current] = manifests[current]
    BY <1>2, RemovalKeeps DEF GoodFiles
  <2>2. QED
    BY <1>2, <2>1 DEF RemoveObsoleteFile, memory, fields, applying, Upto, Memory
<1>3. CASE OpenFails \/ ReplayRecord \/ ReplayAborts \/ ReplayEnd
  BY <1>3 DEF OpenFails, ReplayRecord, ReplayAborts, ReplayEnd, disk, fields, applying, Upto, Memory
<1>4. CASE ReplayDone \/ NewLog \/ BuildTable
  BY <1>4 DEF ReplayDone, NewLog, BuildTable, disk, fields, Upto, Memory
<1>5. CASE CreateManifest \/ WriteSnapshot \/ LogEdit \/ SyncManifest \/ WriteTemp \/ RenameTemp
  BY <1>5 DEF CreateManifest, WriteSnapshot, LogEdit, SyncManifest, WriteTemp, RenameTemp, applying
<1>6. CASE Install
  BY <1>6 DEF Install
<1>7. CASE RemoveDone \/ BeginWrite \/ LogWrite \/ SyncLog \/ SyncLogFails
  BY <1>7 DEF RemoveDone, BeginWrite, LogWrite, SyncLog, SyncLogFails, disk, memory, fields,
              applying, Upto, Memory
<1>8. CASE Insert \/ Compact
  BY <1>8 DEF Insert, Compact, disk, fields, applying, Upto, Memory
<1>9. CASE Kill \/ PowerFailure
  BY <1>9 DEF Kill, PowerFailure, Stop
<1>10. CASE Terminated
  BY <1>10 DEF Terminated, vars, disk, memory, fields, applying, Upto, Memory
<1>11. QED
  BY <1>1, <1>2, <1>3, <1>4, <1>5, <1>6, <1>7, <1>8, <1>9, <1>10 DEF Next

(* Once a MANIFEST is open, CURRENT names it or there is none.             *)
LEMMA CatalogOpenKept ==
  ASSUME Typed, CatalogClosed, CatalogOpen, CatalogSettled, CatalogSynced, Next
  PROVE  CatalogOpen'
<1> USE DEF CatalogOpen, CatalogClosed, Running, Midway
<1>1. CASE CreateManifest
  <2> DEFINE n == IF manifest_file_number = 0 THEN next_file_number ELSE manifest_file_number
  <2>1. /\ manifests' = Put(manifests, n, EmptyFile) /\ manifest_file_number' = n
        /\ manifest_file_number = current
        /\ UNCHANGED <<current, version, log_number>>
    BY <1>1 DEF CreateManifest
  <2>2. n \in DOMAIN manifests' /\ current \in {0, n} /\ (current = 0 => version = {} /\ log_number = 0)
    BY <1>1, <2>1 DEF CreateManifest, Put
  <2>3. QED
    BY <2>1, <2>2
<1>2. CASE Install
  <2>1. writing => current \in DOMAIN manifests /\ current # 0
    BY <1>2 DEF Install, CatalogSynced, Typed, FilesTyped
  <2>2. QED
    BY <1>2, <2>1 DEF Install, disk
<1>3. CASE RemoveObsoleteFile
  <2>1. writing => manifest_file_number = current /\ current \in DOMAIN manifests'
    BY <1>3, RemovalKeeps DEF RemoveObsoleteFile, CatalogSettled
  <2>2. QED
    BY <1>3, <2>1 DEF RemoveObsoleteFile, memory, fields, applying
<1>4. CASE OpenRecover \/ OpenFails \/ ReplayRecord \/ ReplayAborts \/ ReplayEnd
  BY <1>4 DEF OpenRecover, OpenFails, ReplayRecord, ReplayAborts, ReplayEnd, disk, fields, applying
<1>5. CASE ReplayDone \/ NewLog \/ BuildTable
  BY <1>5 DEF ReplayDone, NewLog, BuildTable, disk, fields
<1>6. CASE WriteSnapshot \/ LogEdit \/ SyncManifest \/ WriteTemp \/ RenameTemp
  BY <1>6 DEF WriteSnapshot, LogEdit, SyncManifest, WriteTemp, RenameTemp, memory, fields, applying
<1>7. CASE RemoveDone \/ BeginWrite \/ LogWrite \/ SyncLog \/ SyncLogFails
  BY <1>7 DEF RemoveDone, BeginWrite, LogWrite, SyncLog, SyncLogFails, disk, memory, fields, applying
<1>8. CASE Insert \/ Compact \/ Kill \/ PowerFailure
  BY <1>8 DEF Insert, Compact, Kill, PowerFailure, Stop, disk, fields, applying
<1>9. CASE Terminated
  BY <1>9 DEF Terminated, vars, disk, memory, fields, applying
<1>10. QED
  BY <1>1, <1>2, <1>3, <1>4, <1>5, <1>6, <1>7, <1>8, <1>9 DEF Next

(* Between two calls of LogAndApply the MANIFEST is synced and makes what  *)
(* is in memory.                                                           *)
LEMMA CatalogSettledKept ==
  ASSUME Typed, CatalogClosed, CatalogOpen, CatalogSettled, CatalogSynced, Next
  PROVE  CatalogSettled'
<1> USE DEF CatalogSettled, CatalogClosed, CatalogOpen, Running, Midway
<1>1. CASE Install
  <2>1. /\ version' = Target.files /\ log_number' = Target.log /\ set_sequence' = Target.last
        /\ ~created' /\ UNCHANGED <<manifests, current, manifest_file_number>>
    BY <1>1, TargetType DEF Install, disk, Typed
  <2>2. /\ Count # 0 /\ Manifest.synced = Count /\ current = manifest_file_number
        /\ Like(Upto(manifest_file_number, Count), Target)
    BY <1>1 DEF Install, CatalogSynced
  <2>3. Manifest' = Manifest /\ Count' = Count
        /\ Upto(manifest_file_number, Count)' = Upto(manifest_file_number, Count)
    BY <2>1 DEF Manifest, Count, Upto
  <2>4. Like(Upto(manifest_file_number, Count), Memory)'
    BY <2>1, <2>2, <2>3 DEF Like, Memory
  <2>5. QED
    BY <2>1, <2>2, <2>3, <2>4
<1>2. CASE RemoveObsoleteFile
  <2>1. writing => manifest_file_number = current /\ manifests'[current] = manifests[current]
    BY <1>2, RemovalKeeps DEF RemoveObsoleteFile
  <2>2. QED
    BY <1>2, <2>1 DEF RemoveObsoleteFile, memory, fields, applying, Manifest, Count, Upto, Memory
<1> USE DEF Manifest, Count, Upto, Memory
<1>3. CASE OpenRecover \/ OpenFails \/ ReplayAborts
  BY <1>3 DEF OpenRecover, OpenFails, ReplayAborts, applying
<1>4. CASE ReplayRecord \/ ReplayEnd \/ ReplayDone
  BY <1>4 DEF ReplayRecord, ReplayEnd, ReplayDone, disk, fields, applying
<1>5. CASE NewLog \/ BuildTable
  BY <1>5 DEF NewLog, BuildTable
<1>6. CASE CreateManifest \/ WriteSnapshot \/ LogEdit \/ SyncManifest \/ WriteTemp \/ RenameTemp
  BY <1>6 DEF CreateManifest, WriteSnapshot, LogEdit, SyncManifest, WriteTemp, RenameTemp
<1>7. CASE RemoveDone \/ BeginWrite \/ LogWrite \/ SyncLog \/ SyncLogFails
  BY <1>7 DEF RemoveDone, BeginWrite, LogWrite, SyncLog, SyncLogFails, disk, memory, fields, applying
<1>8. CASE Insert \/ Compact \/ Kill \/ PowerFailure
  BY <1>8 DEF Insert, Compact, Kill, PowerFailure, Stop, disk, fields, applying
<1>9. CASE Terminated
  BY <1>9 DEF Terminated, vars, disk, memory, fields, applying
<1>10. QED
  BY <1>1, <1>2, <1>3, <1>4, <1>5, <1>6, <1>7, <1>8, <1>9 DEF Next

(* WriteSnapshot and the record of an edit, read back.                     *)
LEMMA SnapshotReplayed ==
  ASSUME Typed, CatalogClosed, CatalogOpen, CatalogBegun, WriteSnapshot
  PROVE  /\ Count' = 1 /\ Manifest.synced' = 0
         /\ Like(Upto(manifest_file_number, 1), [Memory EXCEPT !.log = 0])'
<1> DEFINE e == [NoEdit EXCEPT !.last = set_sequence, !.adds = version]
           f == manifests[manifest_file_number]
<1>1. /\ pc = "snapshot" /\ UNCHANGED <<manifest_file_number, version, set_sequence, log_number>>
      /\ manifests' = [manifests EXCEPT ![manifest_file_number] = AddRecord(@, e)]
  BY DEF WriteSnapshot, memory, fields
<1>2. manifest_file_number \in DOMAIN manifests
  BY <1>1 DEF Typed, MemoryTyped, CatalogOpen, CatalogClosed, CatalogBegun, Running, Midway
<1>3. f \in File(FiniteEdit) /\ f.recs \in Seq(FiniteEdit) /\ Len(f.recs) = 0 /\ f.synced = 0
  BY <1>1, <1>2 DEF Typed, FilesTyped, File, CatalogBegun, Count, Manifest
<1>4. e \in FiniteEdit /\ set_sequence \in Nat
  BY DEF NoEdit, FiniteEdit, Edit, Typed, MemoryTyped
<1>5. /\ manifests'[manifest_file_number] = AddRecord(f, e)
      /\ AddRecord(f, e).recs = Append(f.recs, e) /\ AddRecord(f, e).synced = 0
      /\ Len(AddRecord(f, e).recs) = 1
  <2>1. /\ AddRecord(f, e).recs = Append(f.recs, e) /\ AddRecord(f, e).synced = f.synced
        /\ Len(AddRecord(f, e).recs) = Len(f.recs) + 1
    <3> HIDE DEF e, f
    <3>1. f \in File(FiniteEdit) /\ e \in FiniteEdit
      BY <1>3, <1>4
    <3>2. QED
      BY <3>1, FileGrown
  <2>2. manifests'[manifest_file_number] = AddRecord(f, e)
    BY <1>1, <1>2
  <2>3. QED
    BY <1>3, <2>1, <2>2
<1>6. Recovered(Append(f.recs, e))[1] = ApplyEdit(NewVersionSet, e)
  <2>1. Recovered(Append(f.recs, e))[0 + 1] = ApplyEdit(Recovered(f.recs)[0], e)
    BY <1>3, <1>4, ReplayAppend
  <2>2. Recovered(f.recs)[0] = NewVersionSet
    BY <1>3, ReplayStep
  <2>3. QED
    BY <2>1, <2>2
<1>7. /\ ApplyEdit(NewVersionSet, e).files = version /\ ApplyEdit(NewVersionSet, e).log = 0
      /\ ApplyEdit(NewVersionSet, e).last = set_sequence
  <2>1. e.dels = {} /\ e.adds = version /\ e.log = 0 /\ e.last = set_sequence
    BY DEF NoEdit
  <2>2. ApplyEdit(NewVersionSet, e).last = Larger(0, set_sequence)
    BY <2>1 DEF ApplyEdit, NewVersionSet
  <2>3. QED
    BY <1>4, <2>1, <2>2 DEF ApplyEdit, NewVersionSet, Larger
<1> HIDE DEF e
<1>8. Upto(manifest_file_number, 1)' = ApplyEdit(NewVersionSet, e)
  BY <1>1, <1>5, <1>6 DEF Upto
<1>9. Like(Upto(manifest_file_number, 1), [Memory EXCEPT !.log = 0])'
  BY <1>1, <1>7, <1>8 DEF Like, Memory
<1>10. QED
  BY <1>1, <1>5, <1>9 DEF Count, Manifest

(* The MANIFEST with the record of LogEdit makes the VersionSet that       *)
(* Install will make of memory.                                            *)
LEMMA EditReplayed ==
  ASSUME Typed, CatalogClosed, CatalogOpen, CatalogSettled, CatalogBegun, LogEdit
  PROVE  /\ Like(Target, Target') /\ CatalogLogged'
<1> DEFINE n == manifest_file_number
           f == manifests[n]
           k == Len(f.recs)
<1>1. /\ pc = "record" \/ (pc = "apply" /\ writing)
      /\ pc' = "sync"
      /\ edit' = [edit EXCEPT !.log = IF @ = 0 THEN log_number ELSE @,
                              !.next = next_file_number,
                              !.last = IF @ = 0 THEN set_sequence ELSE @]
      /\ manifests' = [manifests EXCEPT ![n] = AddRecord(@, edit')]
      /\ UNCHANGED <<n, version, set_sequence, log_number, created, current>>
  BY DEF LogEdit, memory, fields
<1>2. /\ edit' \in FiniteEdit /\ edit'.dels = edit.dels /\ edit'.adds = edit.adds
      /\ edit'.log = (IF edit.log = 0 THEN log_number ELSE edit.log)
      /\ edit'.last = (IF edit.last = 0 THEN set_sequence ELSE edit.last)
      /\ edit.last \in Nat /\ edit.log \in Nat /\ log_number \in Nat /\ set_sequence \in Nat
  BY <1>1 DEF Typed, MemoryTyped, FiniteEdit, Edit
<1>3. Like(Target, Target')
  <2>1. Larger(set_sequence, edit'.last) = Larger(set_sequence, edit.last)
    BY <1>2 DEF Larger
  <2>2. QED
    BY <1>1, <1>2, <2>1 DEF Like, Target
<1>4. n \in DOMAIN manifests
  BY <1>1 DEF CatalogOpen, CatalogClosed, Running, Midway
<1>5. f \in File(FiniteEdit) /\ f.recs \in Seq(FiniteEdit) /\ k \in Nat
  BY <1>4 DEF Typed, FilesTyped, File
<1>6. /\ manifests'[n] = AddRecord(f, edit') /\ manifests'[n].recs = Append(f.recs, edit')
      /\ manifests'[n].synced = f.synced /\ Len(manifests'[n].recs) = k + 1
  <2>1. manifests'[n] = AddRecord(f, edit')
    BY <1>1, <1>4
  <2>2. /\ AddRecord(f, edit').recs = Append(f.recs, edit')
        /\ AddRecord(f, edit').synced = f.synced /\ Len(AddRecord(f, edit').recs) = k + 1
    <3>1. \A e \in FiniteEdit :
            /\ AddRecord(f, e).recs = Append(f.recs, e) /\ AddRecord(f, e).synced = f.synced
            /\ Len(AddRecord(f, e).recs) = Len(f.recs) + 1
      BY <1>5, FileGrown
    <3>2. QED
      BY <1>2, <3>1
  <2>3. QED
    BY <2>1, <2>2
<1>7. /\ \A j \in 0 .. k : Recovered(Append(f.recs, edit'))[j] = Recovered(f.recs)[j]
      /\ Recovered(Append(f.recs, edit'))[k + 1] = ApplyEdit(Recovered(f.recs)[k], edit')
  BY <1>2, <1>5, ReplayAppend
<1> DEFINE After == Recovered(manifests'[n].recs)
<1>8. \A j \in 0 .. k : After[j] = Upto(n, j)
  BY <1>6, <1>7 DEF Upto
<1>9. After[k + 1] = ApplyEdit(Upto(n, k), edit')
  BY <1>5, <1>6, <1>7 DEF Upto
<1>10. Count' = k + 1 /\ Manifest'.synced = f.synced /\ Count = k /\ Manifest = f
  BY <1>1, <1>6 DEF Count, Manifest
<1>11. /\ Upto(n, k).files = version /\ Upto(n, k).last = set_sequence
       /\ Upto(n, k).log = log_number \/ (Upto(n, k).log = 0)
       /\ created => k = 1 /\ f.synced = 0 /\ Like(Upto(n, 1), [Memory EXCEPT !.log = 0])
       /\ ~created => /\ current = n /\ k # 0 /\ f.synced = k /\ Like(Upto(n, k), Memory)
  <2>1. CASE pc = "record"
    BY <1>10, <2>1 DEF CatalogBegun, Like, Memory
  <2>2. CASE pc = "apply" /\ writing
    BY <1>10, <2>2 DEF CatalogSettled, Running, Midway, Like, Memory
  <2>3. QED
    BY <1>1, <2>1, <2>2
<1>12. Like(After[k + 1], Target')
  <2>1. /\ ApplyEdit(Upto(n, k), edit').files = (version \ edit'.dels) \cup edit'.adds
        /\ ApplyEdit(Upto(n, k), edit').last = Larger(set_sequence, edit'.last)
    BY <1>11 DEF ApplyEdit
  <2>2. ApplyEdit(Upto(n, k), edit').log = IF edit'.log = 0 THEN log_number ELSE edit'.log
    BY <1>2, <1>11 DEF ApplyEdit
  <2>3. QED
    BY <1>1, <1>9, <2>1, <2>2 DEF Like, Target
<1>13. k \in Nat /\ (k + 1) - 1 = k /\ (k # 0 => k + 1 # 1) /\ (k = 1 => k + 1 = 2)
  <2>1. k \in Nat
    BY <1>5
  <2> HIDE DEF k
  <2>2. QED
    BY <2>1
<1>14. UNCHANGED Memory
  BY <1>1 DEF Memory
<1>15. created => Like(After[1], [Memory' EXCEPT !.log = 0])
  BY <1>8, <1>11, <1>13, <1>14
<1>16. ~created => Like(After[k], Memory')
  BY <1>8, <1>11, <1>13, <1>14
<1>17. /\ Upto(manifest_file_number, Count)' = After[k + 1]
       /\ Upto(manifest_file_number, 1)' = After[1]
       /\ Upto(manifest_file_number, Count - 1)' = After[k]
  BY <1>1, <1>10, <1>13 DEF Upto
<1> HIDE DEF After
<1>18. CatalogLogged'
  BY <1>1, <1>10, <1>11, <1>12, <1>13, <1>15, <1>16, <1>17 DEF CatalogLogged
<1>19. QED
  BY <1>3, <1>18

(* A MANIFEST that LogAndApply has just begun holds nothing, or the        *)
(* snapshot, and nothing of it is synced.                                  *)
LEMMA CatalogBegunKept ==
  ASSUME Typed, CatalogClosed, CatalogOpen, CatalogBegun, Next
  PROVE  CatalogBegun'
<1>1. CASE CreateManifest
  <2>1. PICK n : manifests' = Put(manifests, n, EmptyFile) /\ manifest_file_number' = n
    BY <1>1 DEF CreateManifest
  <2>2. Manifest' = EmptyFile /\ pc' = "snapshot"
    BY <1>1, <2>1 DEF CreateManifest, Manifest, Put
  <2>3. EmptyFile.synced = 0 /\ Len(EmptyFile.recs) = 0
    BY FileMade
  <2>4. QED
    BY <2>2, <2>3 DEF CatalogBegun, Count
<1>2. CASE WriteSnapshot
  <2>1. pc' = "record" /\ created'
    BY <1>2 DEF WriteSnapshot
  <2>2. QED
    BY <1>2, <2>1, SnapshotReplayed DEF CatalogBegun
<1> USE DEF CatalogBegun, Manifest, Count, Upto, Memory
<1>3. CASE Install
  BY <1>3 DEF Install, Typed, MemoryTyped, Returns
<1>4. CASE OpenRecover \/ OpenFails \/ ReplayRecord \/ ReplayAborts \/ ReplayEnd \/ ReplayDone
  BY <1>4 DEF OpenRecover, OpenFails, ReplayRecord, ReplayAborts, ReplayEnd, ReplayDone
<1>5. CASE NewLog \/ BuildTable \/ LogEdit \/ SyncManifest \/ WriteTemp \/ RenameTemp
  BY <1>5 DEF NewLog, BuildTable, LogEdit, SyncManifest, WriteTemp, RenameTemp
<1>6. CASE RemoveObsoleteFile \/ RemoveDone \/ BeginWrite \/ LogWrite \/ SyncLog \/ SyncLogFails
  BY <1>6 DEF RemoveObsoleteFile, RemoveDone, BeginWrite, LogWrite, SyncLog, SyncLogFails
<1>7. CASE Insert \/ Compact \/ Kill \/ PowerFailure
  BY <1>7 DEF Insert, Compact, Kill, PowerFailure, Stop
<1>8. CASE Terminated
  BY <1>8 DEF Terminated, vars
<1>9. QED
  BY <1>1, <1>2, <1>3, <1>4, <1>5, <1>6, <1>7, <1>8 DEF Next

(* With the edit written and not synced, the MANIFEST makes the old        *)
(* VersionSet or the new one, according to what is lost of it.             *)
LEMMA CatalogLoggedKept ==
  ASSUME Typed, CatalogClosed, CatalogOpen, CatalogSettled, CatalogBegun, CatalogLogged, Next
  PROVE  CatalogLogged'
<1>1. CASE LogEdit
  BY <1>1, EditReplayed
<1> USE DEF CatalogLogged
<1>2. CASE Install
  BY <1>2 DEF Install, Typed, MemoryTyped, Returns
<1>3. CASE OpenRecover \/ OpenFails \/ ReplayRecord \/ ReplayAborts \/ ReplayEnd \/ ReplayDone
  BY <1>3 DEF OpenRecover, OpenFails, ReplayRecord, ReplayAborts, ReplayEnd, ReplayDone
<1>4. CASE NewLog \/ BuildTable \/ CreateManifest \/ WriteSnapshot
  BY <1>4 DEF NewLog, BuildTable, CreateManifest, WriteSnapshot
<1>5. CASE SyncManifest \/ WriteTemp \/ RenameTemp
  BY <1>5 DEF SyncManifest, WriteTemp, RenameTemp
<1>6. CASE RemoveObsoleteFile \/ RemoveDone \/ BeginWrite \/ LogWrite \/ SyncLog \/ SyncLogFails
  BY <1>6 DEF RemoveObsoleteFile, RemoveDone, BeginWrite, LogWrite, SyncLog, SyncLogFails
<1>7. CASE Insert \/ Compact \/ Kill \/ PowerFailure
  BY <1>7 DEF Insert, Compact, Kill, PowerFailure, Stop
<1>8. CASE Terminated
  BY <1>8 DEF Terminated, vars
<1>9. QED
  BY <1>1, <1>2, <1>3, <1>4, <1>5, <1>6, <1>7, <1>8 DEF Next

(* With the edit synced it makes the new one; CURRENT names it when the    *)
(* edit is installed.                                                      *)
LEMMA CatalogSyncedKept ==
  ASSUME Typed, CatalogClosed, CatalogOpen, CatalogLogged, CatalogSynced, Next
  PROVE  CatalogSynced'
<1>1. CASE SyncManifest
  <2> DEFINE f == manifests[manifest_file_number]
  <2>1. /\ pc = "sync" /\ UNCHANGED <<current, memory, applying>>
        /\ pc' = IF created THEN "temp" ELSE "install"
        /\ manifests' = [manifests EXCEPT ![manifest_file_number] = Synced(@)]
    BY <1>1 DEF SyncManifest
  <2>2. manifest_file_number \in DOMAIN manifests
    BY <2>1 DEF CatalogOpen, CatalogClosed, Running, Midway
  <2>3. f \in File(FiniteEdit) /\ Len(f.recs) \in Nat /\ f.synced \in Nat
    BY <2>2 DEF Typed, FilesTyped, File
  <2>4. /\ manifests'[manifest_file_number] = Synced(f) /\ Synced(f).recs = f.recs
        /\ Synced(f).synced = Len(f.recs)
    BY <2>1, <2>2, <2>3, FileSynced
  <2>5. /\ Manifest'.recs = Manifest.recs /\ Manifest'.synced = Count /\ Count' = Count
        /\ manifest_file_number' = manifest_file_number /\ UNCHANGED Target
    BY <2>1, <2>4 DEF Manifest, Count, Target, memory, fields, applying
  <2>6. Like(Upto(manifest_file_number, Count), Target)'
    BY <2>1, <2>5 DEF CatalogLogged, Upto, Manifest
  <2>7. Count # 0 /\ (~created => current = manifest_file_number)
    <3>1. Count \in Nat /\ Manifest.synced \in Nat
      BY <2>3 DEF Count, Manifest
    <3>2. created => Count = 2
      BY <2>1 DEF CatalogLogged
    <3>3. ~created => current = manifest_file_number /\ Manifest.synced = Count - 1
      BY <2>1 DEF CatalogLogged
    <3>4. QED
      BY <3>1, <3>2, <3>3
  <2>8. QED
    BY <2>1, <2>5, <2>6, <2>7 DEF CatalogSynced, memory, fields, applying
<1> USE DEF CatalogSynced
<1>2. CASE Install
  BY <1>2 DEF Install, Typed, MemoryTyped, Returns
<1>3. CASE OpenRecover \/ OpenFails \/ ReplayRecord \/ ReplayAborts \/ ReplayEnd \/ ReplayDone
  BY <1>3 DEF OpenRecover, OpenFails, ReplayRecord, ReplayAborts, ReplayEnd, ReplayDone
<1>4. CASE NewLog \/ BuildTable \/ CreateManifest \/ WriteSnapshot \/ LogEdit
  BY <1>4 DEF NewLog, BuildTable, CreateManifest, WriteSnapshot, LogEdit
<1>5. CASE WriteTemp \/ RenameTemp
  BY <1>5 DEF WriteTemp, RenameTemp, Manifest, Count, Upto, Target, memory, fields, applying
<1>6. CASE RemoveObsoleteFile \/ RemoveDone \/ BeginWrite \/ LogWrite \/ SyncLog \/ SyncLogFails
  BY <1>6 DEF RemoveObsoleteFile, RemoveDone, BeginWrite, LogWrite, SyncLog, SyncLogFails
<1>7. CASE Insert \/ Compact \/ Kill \/ PowerFailure
  BY <1>7 DEF Insert, Compact, Kill, PowerFailure, Stop
<1>8. CASE Terminated
  BY <1>8 DEF Terminated, vars
<1>9. QED
  BY <1>1, <1>2, <1>3, <1>4, <1>5, <1>6, <1>7, <1>8 DEF Next

-----------------------------------------------------------------------------
(* What is owed.                                                           *)

(* Once all logs are replayed, memory and tables have what is owed.        *)
LEMMA OwedHeld ==
  ASSUME Typed, GoodMemory, Replayed, Running, ~catalogLost, todo = {}
  PROVE  owed \subseteq mem \cup imm \cup Contents(version)
<1>1. SUFFICES ASSUME NEW r \in owed, r \notin Contents(version)
               PROVE  r \in mem \cup imm \cup Contents(version)
  OBVIOUS
<1>2. Good(Memory) /\ Memory.files = version
  BY DEF GoodMemory, Memory
<1>3. PICK n \in DOMAIN logs : InLog(r, n, Len(logs[n].recs))
  BY <1>1, <1>2 DEF Good
<1>4. PICK i \in 1 .. Len(logs[n].recs) : logs[n].recs[i] = r
  BY <1>3 DEF InLog
<1>5. QED
  BY <1>1, <1>4 DEF Replayed

(* Every acknowledged record has a sequence number that last_sequence_ has *)
(* reached, once all logs are replayed.                                    *)
LEMMA OwedBounded ==
  ASSUME Typed, GoodMemory, Replayed, Sequences, Running, ~catalogLost, todo = {}
  PROVE  \A r \in owed : r.seq <= last_sequence
<1>1. SUFFICES ASSUME NEW r \in owed PROVE r.seq <= last_sequence
  OBVIOUS
<1>2. CASE r \in mem \cup imm
  BY <1>2 DEF Sequences
<1>3. CASE r \in Contents(version)
  <2>1. Good(Memory) /\ Memory.files = version /\ Memory.last = set_sequence
    BY DEF GoodMemory, Memory
  <2>2. r.seq <= set_sequence /\ set_sequence <= last_sequence
    BY <1>3, <2>1 DEF Good, Sequences
  <2>3. r.seq \in Nat /\ set_sequence \in Nat /\ last_sequence \in Nat
    BY DEF Typed, MemoryTyped, Rec
  <2>4. QED
    BY <2>2, <2>3
<1>4. QED
  BY <1>2, <1>3, OwedHeld

(* Of a write under way nothing is owed yet.                               *)
LEMMA NotYetOwed ==
  ASSUME Typed, GoodMemory, Replayed, Sequences, Running, ~catalogLost, todo = {}
  PROVE  NewRec \notin owed
<1>1. NewRec.seq = last_sequence + 1 /\ last_sequence \in Nat
  BY DEF NewRec, Typed, MemoryTyped
<1>2. QED
  BY <1>1, OwedBounded

-----------------------------------------------------------------------------
(* The VersionSet in memory.                                               *)

(* A step that leaves files and VersionSet alone keeps GoodMemory.         *)
LEMMA GoodMemoryFrame ==
  ASSUME GoodMemory, Running, UNCHANGED <<logs, tables, owed, stable, catalogLost>>,
         syncFailed => syncFailed', UNCHANGED <<version, log_number, set_sequence>>,
         current' # 0 => current # 0 \/ Named(log_number)
  PROVE  GoodMemory'
<1>1. Good(Memory)'
  <2>1. \A v : Good(v) => Good(v)'
    BY GoodSame
  <2>2. Memory' = Memory /\ Good(Memory)
    BY DEF Memory, GoodMemory
  <2>3. QED
    BY <2>1, <2>2
<1>2. QED
  BY <1>1 DEF GoodMemory, Named

(* LogWrite: a log that counts grows by a record.                          *)
LEMMA GoodLogGrown ==
  ASSUME Typed, CurrentLog, LogWrite, NEW vs, Good(vs), vs.log \in Nat, vs.log <= logfile_number
  PROVE  Good(vs)'
<1> DEFINE f == logs[logfile_number]
<1>1. /\ logs' = [logs EXCEPT ![logfile_number] = AddRecord(@, NewRec)]
      /\ UNCHANGED <<tables, owed, stable, catalogLost, syncFailed>>
  BY DEF LogWrite, ghosts
<1>2. FilesTyped /\ logfile_number \in DOMAIN logs /\ NewRec \in Rec
  BY DEF Typed, MemoryTyped, CurrentLog, LogCounts, LogNumbered, Steady, InWrite, LogWrite, NewRec, Rec
<1>3. f \in File(Rec) /\ DOMAIN logs \subseteq Nat /\ logfile_number \in Nat
      /\ \A n \in DOMAIN logs : Len(logs[n].recs) \in Nat /\ logs[n].synced \in Nat
  BY <1>2 DEF FilesTyped, File
<1>4. /\ logs'[logfile_number] = AddRecord(f, NewRec) /\ DOMAIN logs' = DOMAIN logs
      /\ \A n \in DOMAIN logs : n # logfile_number => logs'[n] = logs[n]
  BY <1>1, <1>2
<1>5. /\ AddRecord(f, NewRec).synced = f.synced
      /\ Len(AddRecord(f, NewRec).recs) = Len(f.recs) + 1
      /\ \A i \in 1 .. Len(f.recs) : AddRecord(f, NewRec).recs[i] = f.recs[i]
  BY <1>2, <1>3, FileGrown
<1>6. \A n \in DOMAIN logs :
        /\ Len(logs'[n].recs) \in Nat /\ Len(logs[n].recs) <= Len(logs'[n].recs)
        /\ logs'[n].synced \in Nat /\ logs[n].synced <= logs'[n].synced
        /\ \A i \in 1 .. Len(logs[n].recs) : logs'[n].recs[i] = logs[n].recs[i]
  BY <1>3, <1>4, <1>5
<1>7. \A n \in DOMAIN logs' : n < vs.log => n \in DOMAIN logs /\ logs'[n] = logs[n]
  BY <1>3, <1>4
<1>8. \A n \in vs.files : n \in DOMAIN tables' /\ tables'[n] = tables[n]
  BY <1>1 DEF Good
<1>9. QED
  BY <1>1, <1>2, <1>4, <1>6, <1>7, <1>8, GoodKept

(* SyncLog: the log under way is synced.                                   *)
LEMMA GoodLogSynced ==
  ASSUME Typed, CurrentLog, SyncLog, NEW vs, Good(vs)
  PROVE  Good(vs)'
<1> DEFINE f == logs[logfile_number]
<1>1. /\ logs' = [logs EXCEPT ![logfile_number] = Synced(@)]
      /\ UNCHANGED <<tables, owed, stable, catalogLost, syncFailed>>
  BY DEF SyncLog, ghosts
<1>2. FilesTyped /\ logfile_number \in DOMAIN logs
  BY DEF Typed, CurrentLog, LogCounts, Steady, SyncLog
<1>3. f \in File(Rec)
      /\ \A n \in DOMAIN logs : /\ Len(logs[n].recs) \in Nat /\ logs[n].synced \in Nat
                                /\ logs[n].synced <= Len(logs[n].recs)
  BY <1>2 DEF FilesTyped, File
<1>4. /\ logs'[logfile_number] = Synced(f) /\ DOMAIN logs' = DOMAIN logs
      /\ \A n \in DOMAIN logs : n # logfile_number => logs'[n] = logs[n]
  BY <1>1, <1>2
<1>5. Synced(f).recs = f.recs /\ Synced(f).synced = Len(f.recs)
  BY <1>3, FileSynced
<1>6. \A n \in DOMAIN logs :
        /\ Len(logs'[n].recs) \in Nat /\ Len(logs[n].recs) <= Len(logs'[n].recs)
        /\ logs'[n].synced \in Nat /\ logs[n].synced <= logs'[n].synced
        /\ logs'[n].recs = logs[n].recs
  BY <1>3, <1>4, <1>5
<1>7. \A n \in vs.files : n \in DOMAIN tables' /\ tables'[n] = tables[n]
  BY <1>1 DEF Good
<1>8. QED
  BY <1>1, <1>2, <1>4, <1>6, <1>7, GoodKept

(* NewLog: an empty log under a new number.                                *)
LEMMA NewLogNumber ==
  ASSUME Typed, NumbersAhead, NewDatabase, NewLog
  PROVE  /\ logfile_number' \in Nat /\ logfile_number' \notin DOMAIN logs
         /\ logs' = Put(logs, logfile_number', EmptyFile)
         /\ DOMAIN logs' = DOMAIN logs \cup {logfile_number'}
         /\ \A n \in DOMAIN logs : logs'[n] = logs[n]
         /\ Len(logs'[logfile_number'].recs) = 0
<1>1. logfile_number' \in Nat /\ logs' = Put(logs, logfile_number', EmptyFile)
  BY DEF NewLog, Typed, MemoryTyped
<1>2. logfile_number' \notin DOMAIN logs
  <2>1. CASE found.current \/ found.logs
    <3>1. logfile_number' = next_file_number /\ next_file_number \in Nat
      BY <2>1 DEF NewLog, Typed, MemoryTyped
    <3>2. \A n \in DOMAIN logs : n \in Nat /\ n < next_file_number
      BY DEF NewLog, NumbersAhead, FileNumbers, Running, Typed, FilesTyped
    <3>3. QED
      BY <3>1, <3>2
  <2>2. CASE ~found.logs
    BY <2>2 DEF NewLog, NewDatabase, Running, InOpen
  <2>3. QED
    BY <2>1, <2>2
<1>3. QED
  BY <1>1, <1>2, FileMade DEF Put

(* The new log of InitWAL is empty and has an unused number: every good    *)
(* VersionSet stays good.                                                  *)
LEMMA GoodLogAdded ==
  ASSUME Typed, NumbersAhead, NewDatabase, NewLog, NEW vs, Good(vs)
  PROVE  Good(vs)'
<1>1. UNCHANGED <<tables, owed, stable, catalogLost, syncFailed>> /\ FilesTyped
  BY DEF NewLog, ghosts, Typed
<1>2. \A n \in DOMAIN logs : /\ Len(logs[n].recs) \in Nat /\ logs[n].synced \in Nat
  BY <1>1 DEF FilesTyped, File
<1>3. \A n \in vs.files : n \in DOMAIN tables' /\ tables'[n] = tables[n]
  BY <1>1 DEF Good
<1>4. \A n \in DOMAIN logs' : n \notin DOMAIN logs => Len(logs'[n].recs) = 0
  BY NewLogNumber
<1>5. \A n \in DOMAIN logs : n \in DOMAIN logs' /\ logs'[n] = logs[n]
  BY NewLogNumber
<1>6. \A n \in DOMAIN logs' : \A i \in 1 .. Len(logs'[n].recs) : n \in DOMAIN logs
  BY <1>4
<1>7. QED
  BY <1>1, <1>2, <1>3, <1>5, <1>6, GoodKept

(* RemoveObsoleteFiles: tables of the Version and logs that count stay.    *)
LEMMA GoodAfterRemoval ==
  ASSUME Typed, CatalogOpen, CatalogClosed, GoodMemory, RemoveObsoleteFile
  PROVE  Good(Memory)' /\ (current # 0 => Named(log_number)')
<1>1. /\ Good(Memory) /\ Memory' = Memory /\ Memory.files = version /\ Memory.log = log_number
      /\ UNCHANGED <<owed, stable, catalogLost, syncFailed, log_number>> /\ FilesTyped /\ log_number \in Nat
  BY DEF GoodMemory, RemoveObsoleteFile, Running, memory, fields, ghosts, Memory, Typed, MemoryTyped
<1>2. \A n \in DOMAIN logs : /\ Len(logs[n].recs) \in Nat /\ logs[n].synced \in Nat
  BY <1>1 DEF FilesTyped, File
<1>3. \A n \in Memory.files : n \in DOMAIN tables' /\ tables'[n] = tables[n]
  BY <1>1, RemovalKeeps DEF Good
<1>4. \A n \in DOMAIN logs : n >= Memory.log => n \in DOMAIN logs' /\ logs'[n] = logs[n]
  BY <1>1, RemovalKeeps
<1>5. \A n \in DOMAIN logs' : n \in DOMAIN logs /\ logs'[n] = logs[n]
  BY RemovalKeeps
<1> HIDE DEF Memory
<1>6. \A v : v = Memory => Good(v)'
  BY <1>1, <1>2, <1>3, <1>4, <1>5, GoodKept
<1>7. current # 0 => Named(log_number)'
  BY <1>1, <1>4 DEF GoodMemory, RemoveObsoleteFile, Running, Named
<1>8. QED
  BY <1>1, <1>6, <1>7

(* Insert: the record acknowledged is in a log that counts, in no older.   *)
LEMMA GoodInserted ==
  ASSUME Typed, CurrentLog, Sequences, Insert, NEW vs, Good(vs), vs.log \in Nat,
         vs.log <= logfile_number
  PROVE  Good(vs)'
<1>1. /\ UNCHANGED <<logs, tables, catalogLost, syncFailed>> /\ owed' = owed \cup {NewRec}
      /\ stable' = IF pc = "insertsynced" THEN stable \cup {NewRec} ELSE stable
      /\ stable \subseteq owed /\ pc \in {"insert", "insertsynced"}
  BY DEF Insert, disk, Sequences
<1>2. Contents(vs.files)' = Contents(vs.files)
  BY <1>1 DEF Contents
<1>4. /\ logfile_number \in DOMAIN logs /\ logfile_number \in Nat /\ logfile_number >= vs.log
  BY <1>1 DEF CurrentLog, LogCounts, Steady, Typed, MemoryTyped
<1>5. /\ Len(logs[logfile_number].recs) \in Nat /\ logs[logfile_number].synced \in Nat
      /\ logs[logfile_number].synced <= Len(logs[logfile_number].recs)
  BY <1>4 DEF Typed, FilesTyped, File
<1>6. /\ InLog(NewRec, logfile_number, Len(logs[logfile_number].recs))
      /\ pc = "insertsynced" => InLog(NewRec, logfile_number, logs[logfile_number].synced)
  BY <1>1, <1>5 DEF CurrentLog, LogHolds, InLog
<1>7. ASSUME NEW n \in DOMAIN logs, n < vs.log, NEW i \in 1 .. Len(logs[n].recs)
      PROVE  logs[n].recs[i] # NewRec
  <2>1. n \in Nat /\ n # logfile_number
    BY <1>4, <1>7 DEF Typed, FilesTyped
  <2>2. logs[n].recs[i].id < writes /\ writes \in Nat
    BY <1>1, <2>1 DEF CurrentLog, LogNumbered, InWrite, Typed, MemoryTyped
  <2>3. NewRec.id = writes
    BY DEF NewRec
  <2>4. QED
    BY <2>2, <2>3
<1>8. vs.files \subseteq DOMAIN tables' /\ \A r \in Contents(vs.files)' : r.seq <= vs.last
  BY <1>1, <1>2 DEF Good
<1>9. ~catalogLost => \A r \in owed' : r \in Contents(vs.files) \/
        \E n \in DOMAIN logs : n >= vs.log /\ InLog(r, n, Len(logs[n].recs))
  BY <1>1, <1>4, <1>6 DEF Good
<1>10. ~catalogLost => \A r \in owed' \cap stable' : r \in Contents(vs.files) \/
         \E n \in DOMAIN logs : n >= vs.log /\ InLog(r, n, logs[n].synced)
  <2>1. owed' \cap stable' \subseteq (owed \cap stable) \cup {r \in {NewRec} : pc = "insertsynced"}
    BY <1>1
  <2>2. QED
    BY <1>4, <1>6, <2>1 DEF Good
<1>11. ~catalogLost => \A n \in DOMAIN logs : n < vs.log =>
         \A i \in 1 .. Len(logs[n].recs) :
           logs[n].recs[i] \in owed' => logs[n].recs[i] \in Contents(vs.files)
  BY <1>1, <1>7 DEF Good
<1>12. ~syncFailed => \A n \in DOMAIN logs : n < vs.log =>
         \A i \in 1 .. Len(logs[n].recs) : logs[n].recs[i].seq <= vs.last
  BY DEF Good
<1>13. QED
  BY <1>1, <1>2, <1>8, <1>9, <1>10, <1>11, <1>12 DEF Good, InLog

(* Recover finds a good VersionSet in the directory.                       *)
LEMMA GoodOnDisk ==
  ASSUME Typed, GoodFiles, pc = "down"
  PROVE  Good(OnDisk) /\ (current # 0 => Named(OnDisk.log))
<1>1. CASE current = 0
  <2>1. OnDisk = NewVersionSet
    BY <1>1 DEF OnDisk, Typed, FilesTyped
  <2>2. QED
    BY <1>1, <2>1 DEF GoodFiles
<1>2. CASE current # 0
  <2> DEFINE k == Len(manifests[current].recs)
  <2>1. current \in DOMAIN manifests
    BY <1>2 DEF GoodFiles
  <2>2. k \in Nat /\ manifests[current].recs \in Seq(FiniteEdit) /\ k \in manifests[current].synced .. k
    BY <2>1 DEF Typed, FilesTyped, File
  <2>3. OnDisk = Upto(current, k)
    BY <2>1 DEF OnDisk, Upto
  <2>4. Named(Upto(current, k).log) /\ (k # 0 => Good(Upto(current, k)))
    BY <1>2, <2>2 DEF GoodFiles
  <2>5. CASE k = 0
    <3>1. Upto(current, 0) = NewVersionSet
      BY <2>2, ReplayStep DEF Upto
    <3>2. catalogLost
      BY <2>1, <2>2, <2>5, EmptySeq DEF GoodFiles, Rewriting
    <3>3. NewVersionSet.files = {} /\ NewVersionSet.log = 0 /\ Contents({}) = {}
      BY DEF NewVersionSet, Contents
    <3>4. \A n \in DOMAIN logs : ~(n < 0)
      BY DEF Typed, FilesTyped
    <3>5. QED
      BY <2>3, <2>4, <2>5, <3>1, <3>2, <3>3, <3>4 DEF Good
  <2>6. QED
    BY <2>3, <2>4, <2>5
<1>3. QED
  BY <1>1, <1>2

(* Memory stays a VersionSet from which everything owed can be found.      *)
LEMMA GoodMemoryKept ==
  ASSUME Typed, NumbersAhead, GoodFiles, GoodMemory, GoodEdit, CatalogClosed, CatalogOpen,
         NewDatabase, CurrentLog, Sequences, Next
  PROVE  GoodMemory'
<1>1. log_number \in Nat /\ Memory.log = log_number /\ FilesTyped
  BY DEF Memory, Typed, MemoryTyped
<1>2. CASE OpenRecover
  <2>1. /\ UNCHANGED <<logs, tables, owed, stable, catalogLost, syncFailed, current>>
        /\ version' = OnDisk.files /\ log_number' = OnDisk.log /\ set_sequence' = OnDisk.last
        /\ pc = "down"
    BY <1>2 DEF OpenRecover, disk, ghosts
  <2>2. Good(OnDisk) /\ (current # 0 => Named(OnDisk.log))
    BY <2>1, GoodOnDisk
  <2>3. Like(OnDisk, Memory')
    BY <2>1 DEF Like, Memory
  <2>4. Good(Memory')
    BY <2>2, <2>3, GoodLike
  <2>5. \A v : Good(v) => Good(v)'
    BY <2>1, GoodSame
  <2>6. Good(Memory)'
    BY <2>4, <2>5
  <2>7. QED
    BY <2>1, <2>2, <2>6 DEF GoodMemory, Named
<1>3. CASE NewLog
  <2>1. \A v : Good(v) => Good(v)'
    BY <1>3, GoodLogAdded
  <2>2. Memory' = Memory /\ UNCHANGED <<current, log_number>> /\ Running
    BY <1>3 DEF NewLog, Memory, Running
  <2>3. DOMAIN logs \subseteq DOMAIN logs'
    BY <1>3, NewLogNumber
  <2>4. QED
    BY <2>1, <2>2, <2>3 DEF GoodMemory, Named
<1>4. CASE BuildTable \/ Compact
  <2>1. /\ \E x : tables' = Put(tables, next_file_number, x)
        /\ UNCHANGED <<logs, owed, stable, catalogLost, syncFailed, current, log_number>>
        /\ Memory' = Memory /\ Running
    BY <1>4 DEF BuildTable, Compact, ghosts, Memory, Running
  <2>2. next_file_number \notin DOMAIN tables
    BY <2>1 DEF NumbersAhead, FileNumbers, Typed, MemoryTyped
  <2>3. \A v : Good(v) => Good(v)'
    BY <1>1, <2>1, <2>2, GoodNewTable
  <2>4. QED
    BY <2>1, <2>3 DEF GoodMemory, Named
<1>5. CASE RenameTemp
  <2>1. Running /\ Applying /\ UNCHANGED <<logs, tables, owed, stable, catalogLost, syncFailed>>
        /\ UNCHANGED <<version, log_number, set_sequence>>
    BY <1>5 DEF RenameTemp, Running, Applying, Midway, memory, fields, ghosts
  <2>2. current = 0 => log_number = 0
    BY <2>1 DEF CatalogClosed, CatalogOpen
  <2>3. Named(0)
    BY <1>1, <2>1 DEF GoodEdit, Named, FilesTyped
  <2>4. current # 0 \/ Named(log_number)
    BY <2>2, <2>3
  <2>5. QED
    BY <2>1, <2>4, GoodMemoryFrame
<1>6. CASE Install
  <2>1. /\ Memory' = Target /\ Good(Target) /\ Named(Target.log) /\ log_number' = Target.log
        /\ UNCHANGED <<logs, tables, owed, stable, catalogLost, syncFailed, current>>
    BY <1>6, TargetType
       DEF Install, GoodEdit, Applying, Midway, disk, ghosts, Memory, Target, Typed
  <2>2. \A v : Good(v) => Good(v)'
    BY <2>1, GoodSame
  <2>3. QED
    BY <2>1, <2>2 DEF GoodMemory, Named
<1>7. CASE RemoveObsoleteFile
  BY <1>7, GoodAfterRemoval DEF GoodMemory, RemoveObsoleteFile, memory, fields
<1>8. CASE LogWrite \/ SyncLog \/ Insert
  <2>1. Memory.log \in Nat /\ Memory.log <= logfile_number
    BY <1>1, <1>8 DEF LogWrite, SyncLog, Insert, CurrentLog, LogCounts, Steady
  <2>2. \A v : v = Memory /\ Good(v) => Good(v)'
    BY <1>8, <2>1, GoodLogGrown, GoodLogSynced, GoodInserted
  <2>3. Memory' = Memory /\ UNCHANGED <<current, log_number>> /\ Running /\ DOMAIN logs' = DOMAIN logs
    BY <1>8 DEF LogWrite, SyncLog, Insert, Memory, Running, disk, memory, fields
  <2>4. QED
    BY <2>2, <2>3 DEF GoodMemory, Named
<1>9. CASE OpenFails \/ ReplayAborts \/ Kill \/ PowerFailure
  BY <1>9 DEF OpenFails, ReplayAborts, Kill, PowerFailure, Stop, GoodMemory, Running
<1>10. CASE ReplayRecord \/ ReplayEnd \/ ReplayDone
  BY <1>10, GoodMemoryFrame DEF ReplayRecord, ReplayEnd, ReplayDone, Running, disk, fields, ghosts
<1>11. CASE CreateManifest \/ WriteSnapshot \/ LogEdit \/ SyncManifest \/ WriteTemp
  BY <1>11, GoodMemoryFrame
     DEF CreateManifest, WriteSnapshot, LogEdit, SyncManifest, WriteTemp, Running, memory, fields, ghosts
<1>12. CASE RemoveDone \/ BeginWrite \/ SyncLogFails
  BY <1>12, GoodMemoryFrame DEF RemoveDone, BeginWrite, SyncLogFails, Running, disk, memory, fields, ghosts
<1>13. CASE Terminated
  <2>1. Running \/ ~Running'
    BY <1>13 DEF Terminated, Running, vars
  <2>2. QED
    BY <1>13, <2>1, GoodMemoryFrame DEF Terminated, vars, disk, memory, fields, ghosts, GoodMemory
<1>14. QED
  BY <1>2, <1>3, <1>4, <1>5, <1>6, <1>7, <1>8, <1>9, <1>10, <1>11, <1>12, <1>13 DEF Next

-----------------------------------------------------------------------------
(* The VersionSet with the edit under way.                                 *)

(* A step that leaves files, memory and edit alone keeps GoodEdit.         *)
LEMMA GoodEditFrame ==
  ASSUME GoodEdit, Applying \/ ~Applying', UNCHANGED <<logs, tables, owed, stable, catalogLost, syncFailed>>,
         UNCHANGED <<version, log_number, set_sequence, edit, imm, ret>>
  PROVE  GoodEdit'
<1>1. SUFFICES ASSUME Applying PROVE GoodEdit'
  BY DEF GoodEdit
<1>2. \A v : Good(v) => Good(v)'
  BY GoodSame
<1>3. Target' = Target /\ UNCHANGED <<Contents(version), Contents(edit.adds), Contents(Target.files)>>
  BY DEF Target, Contents
<1>4. Named(Target.log)' <=> Named(Target.log)
  BY <1>3 DEF Named
<1>5. QED
  BY <1>1, <1>2, <1>3, <1>4 DEF GoodEdit

(* NewLog: nothing owed is only in the logs that no longer count.          *)
LEMMA GoodEditNewLog ==
  ASSUME Typed, NumbersAhead, GoodMemory, Replayed, Memtables, NewDatabase, Sequences, Numbered,
         NewLog
  PROVE  GoodEdit'
<1> DEFINE n == logfile_number'
<1>1. /\ pc = "newlog" /\ UNCHANGED <<tables, owed, stable, catalogLost, syncFailed, version, log_number>>
      /\ UNCHANGED <<set_sequence, last_sequence>> /\ ret' = "remove"
      /\ edit' = [NoEdit EXCEPT !.log = n, !.last = last_sequence]
  BY DEF NewLog, ghosts
<1>2. /\ edit'.log = n /\ edit'.last = last_sequence /\ edit'.adds = {} /\ edit'.dels = {}
  BY <1>1 DEF NoEdit
<1>3. n \in Nat \ {0} /\ n \in DOMAIN logs' /\ set_sequence \in Nat /\ last_sequence \in Nat
      /\ set_sequence <= last_sequence
  <2>1. n \in Nat /\ n \in DOMAIN logs'
    BY NewLogNumber
  <2>2. n # 0 /\ set_sequence \in Nat /\ last_sequence \in Nat
    BY DEF Typed, MemoryTyped, NewLog
  <2>3. set_sequence <= last_sequence
    BY <1>1 DEF Sequences, Running
  <2>4. QED
    BY <2>1, <2>2, <2>3
<1>4. Target'.files = version /\ Target'.log = n /\ Target'.last = last_sequence
  BY <1>1, <1>2, <1>3 DEF Target, Larger
<1>5. Good(Memory) /\ Memory.files = version /\ Memory.last = set_sequence
  BY <1>1 DEF GoodMemory, Memory, Running
<1>6. mem = {} /\ imm = {} /\ todo = {}
  BY <1>1 DEF Memtables, Replayed, Rotated, Running, Applying, Midway
<1>7. ~catalogLost => owed \subseteq Contents(version)
  BY <1>1, <1>6, OwedHeld DEF Running
<1>8. Contents(version)' = Contents(version)
  BY <1>1 DEF Contents
<1>9. version \subseteq DOMAIN tables' /\ \A r \in Contents(version) : r.seq <= last_sequence
  <2>1. \A r \in Contents(version) : r \in Rec /\ r.seq \in Nat /\ r.seq <= set_sequence
    BY <1>5 DEF Good, Contents, Typed, FilesTyped, Rec
  <2>2. QED
    BY <1>1, <1>3, <1>5, <2>1 DEF Good
<1>10. Good(Target)'
  <2>1. ~syncFailed => \A m \in DOMAIN logs : \A i \in 1 .. Len(logs[m].recs) :
          logs[m].recs[i].seq <= last_sequence
    BY <1>1, <1>6 DEF Numbered, Reached, Pending, Running
  <2>2. ~syncFailed' => \A m \in DOMAIN logs' : \A i \in 1 .. Len(logs'[m].recs) :
          logs'[m].recs[i].seq <= last_sequence
    <3>1. \A m \in DOMAIN logs' : (m \in DOMAIN logs /\ logs'[m] = logs[m]) \/ Len(logs'[m].recs) = 0
      BY NewLogNumber
    <3>2. QED
      BY <1>1, <2>1, <3>1
  <2> HIDE DEF Target
  <2>3. \A v : v = Target' => Good(v)'
    <3>1. SUFFICES ASSUME NEW v, v = Target' PROVE Good(v)'
      OBVIOUS
    <3>2. Contents(v.files)' = Contents(version) /\ v.files = version /\ v.last = last_sequence
      BY <1>1, <1>4, <3>1 DEF Contents
    <3>3. QED
      BY <1>1, <1>7, <1>9, <2>2, <3>2 DEF Good
  <2>4. QED
    BY <2>3
<1>11. Named(Target.log)'
  BY <1>3, <1>4 DEF Named
<1>12. QED
  BY <1>1, <1>4, <1>8, <1>10, <1>11 DEF GoodEdit

(* BuildTable: the log under way is the first that counts.                 *)
LEMMA GoodEditFlush ==
  ASSUME Typed, NumbersAhead, GoodMemory, Replayed, Memtables, Sequences, Numbered, BuildTable
  PROVE  GoodEdit'
<1>0. PICK n : n = next_file_number
  OBVIOUS
<1>1. /\ pc = "flush" /\ UNCHANGED <<logs, owed, stable, catalogLost, syncFailed, version, log_number>>
      /\ UNCHANGED <<set_sequence, last_sequence, imm, ret>>
      /\ tables' = Put(tables, n, imm)
      /\ edit' = [NoEdit EXCEPT !.log = logfile_number, !.last = last_sequence, !.adds = {n}]
  BY <1>0 DEF BuildTable, ghosts
<1>2. edit'.log = logfile_number /\ edit'.last = last_sequence /\ edit'.adds = {n} /\ edit'.dels = {}
  BY <1>1 DEF NoEdit
<1>3. /\ logfile_number \in DOMAIN logs /\ logfile_number \in Nat \ {0} /\ DOMAIN logs \subseteq Nat
      /\ set_sequence \in Nat /\ last_sequence \in Nat /\ set_sequence <= last_sequence
      /\ log_number \in Nat /\ mem = {} /\ \A m \in todo : m >= logfile_number
  BY <1>1 DEF Typed, FilesTyped, MemoryTyped, Memtables, Sequences, Running, Rotated
<1>4. Target'.files = version \cup {n} /\ Target'.log = logfile_number /\ Target'.last = last_sequence
  BY <1>1, <1>2, <1>3 DEF Target, Larger
<1>5. /\ n \notin DOMAIN tables
      /\ DOMAIN tables' = DOMAIN tables \cup {n} /\ tables'[n] = imm
      /\ \A m \in DOMAIN tables : tables'[m] = tables[m]
  BY <1>0, <1>1 DEF Put, NumbersAhead, FileNumbers, Running, Typed, MemoryTyped
<1>6. Good(Memory) /\ Memory.files = version /\ Memory.log = log_number /\ Memory.last = set_sequence
  BY <1>1 DEF GoodMemory, Memory, Running
<1>7. version \subseteq DOMAIN tables
  BY <1>6 DEF Good
<1>8. /\ Contents(version)' = Contents(version) /\ Contents(edit.adds)' = imm
      /\ Contents(Target.files)' = Contents(version) \cup imm
  BY <1>1, <1>2, <1>4, <1>5, <1>7 DEF Contents
<1>9. \A r \in Contents(version) \cup imm : r.seq <= last_sequence
  <2>1. \A r \in Contents(version) : r.seq \in Nat /\ r.seq <= set_sequence
    BY <1>6 DEF Good, Contents, Typed, FilesTyped, Rec
  <2>2. QED
    BY <1>1, <1>3, <2>1 DEF Sequences, Running
(* What is owed and in a log that no longer counts is in the table.        *)
<1>10. ASSUME ~catalogLost, NEW m \in DOMAIN logs, NEW i \in 1 .. Len(logs[m].recs),
              logs[m].recs[i] \in owed, m < logfile_number
       PROVE  logs[m].recs[i] \in Contents(version) \cup imm
  <2>1. m \notin todo
    BY <1>3, <1>10
  <2>2. QED
    BY <1>1, <1>3, <1>10, <2>1 DEF Replayed, Running
<1>11. ASSUME ~catalogLost, NEW r \in owed, NEW m \in DOMAIN logs, NEW k \in 0 .. Len(logs[m].recs),
              m >= log_number, InLog(r, m, k)
       PROVE  r \in Contents(version) \cup imm \/ m >= logfile_number
  <2>1. PICK i \in 1 .. k : logs[m].recs[i] = r
    BY <1>11 DEF InLog
  <2>2. i \in 1 .. Len(logs[m].recs)
    <3>1. Len(logs[m].recs) \in Nat
      BY DEF Typed, FilesTyped, File
    <3>2. QED
      BY <3>1
  <2>3. m < logfile_number \/ m >= logfile_number
    BY <1>3
  <2>4. QED
    BY <1>10, <1>11, <2>1, <2>2, <2>3
<1>12. \A m \in DOMAIN logs : /\ Len(logs[m].recs) \in 0 .. Len(logs[m].recs)
                              /\ logs[m].synced \in 0 .. Len(logs[m].recs)
  BY DEF Typed, FilesTyped, File
<1>13. ~catalogLost => \A r \in owed : r \in Contents(version) \cup imm \/
         \E m \in DOMAIN logs : m >= logfile_number /\ InLog(r, m, Len(logs[m].recs))
  BY <1>6, <1>11, <1>12 DEF Good
<1>14. ~catalogLost => \A r \in owed \cap stable : r \in Contents(version) \cup imm \/
         \E m \in DOMAIN logs : m >= logfile_number /\ InLog(r, m, logs[m].synced)
  BY <1>6, <1>11, <1>12 DEF Good
<1>15. version \cup {n} \subseteq DOMAIN tables'
  BY <1>5, <1>7
<1>16. Good(Target)'
  <2>1. ~catalogLost' => \A r \in owed' : r \in Contents(version) \cup imm \/
          \E m \in DOMAIN logs' : m >= logfile_number /\ InLog(r, m, Len(logs[m].recs))'
    BY <1>1, <1>13 DEF InLog
  <2>2. ~catalogLost' => \A r \in owed' \cap stable' : r \in Contents(version) \cup imm \/
          \E m \in DOMAIN logs' : m >= logfile_number /\ InLog(r, m, logs[m].synced)'
    BY <1>1, <1>14 DEF InLog
  <2>3. ~syncFailed => \A m \in DOMAIN logs : m < logfile_number =>
          \A i \in 1 .. Len(logs[m].recs) : logs[m].recs[i].seq <= last_sequence
    <3>1. \A m \in DOMAIN logs : m < logfile_number => m \notin todo
      BY <1>3
    <3>2. QED
      BY <1>1, <3>1 DEF Numbered, Reached, Pending, Running
  <2>4. QED
    BY <1>1, <1>4, <1>8, <1>9, <1>10, <1>15, <2>1, <2>2, <2>3 DEF Good
<1>17. Named(Target.log)'
  BY <1>1, <1>3, <1>4 DEF Named
<1>18. Contents(version)' \subseteq Contents(Target.files)' /\ imm' \subseteq Contents(edit.adds)'
  BY <1>1, <1>2, <1>4, <1>8
<1>19. QED
  BY <1>16, <1>17, <1>18 DEF GoodEdit

(* Compact: the output has what the inputs had.                            *)
LEMMA GoodEditCompact ==
  ASSUME Typed, NumbersAhead, GoodMemory, CurrentLog, Compact
  PROVE  /\ GoodEdit' /\ Contents(version)' = Contents(version) /\ Target'.log = log_number
<1>0. PICK n : n = next_file_number
  OBVIOUS
<1>1. PICK inputs \in SUBSET version :
        /\ tables' = Put(tables, n, Contents(inputs))
        /\ edit' = [NoEdit EXCEPT !.adds = {n}, !.dels = inputs]
  BY <1>0 DEF Compact
<1>2. /\ pc = "idle" /\ ret' = "remove" /\ UNCHANGED <<logs, owed, stable, catalogLost, syncFailed, version, log_number>>
      /\ UNCHANGED set_sequence
  BY DEF Compact, ghosts
<1>3. edit'.log = 0 /\ edit'.last = 0 /\ edit'.adds = {n} /\ edit'.dels = inputs
  BY <1>1 DEF NoEdit
<1>4. /\ set_sequence \in Nat /\ log_number \in Nat /\ logfile_number \in DOMAIN logs
      /\ log_number <= logfile_number /\ logfile_number \in Nat
  BY <1>2 DEF Typed, MemoryTyped, CurrentLog, LogCounts, Steady
<1>5. /\ Target'.files = (version \ inputs) \cup {n} /\ Target'.log = log_number
      /\ Target'.last = set_sequence
  BY <1>2, <1>3, <1>4 DEF Target, Larger
<1>6. /\ n \notin DOMAIN tables
      /\ DOMAIN tables' = DOMAIN tables \cup {n} /\ tables'[n] = Contents(inputs)
      /\ \A m \in DOMAIN tables : tables'[m] = tables[m]
  BY <1>0, <1>1, <1>2 DEF Put, NumbersAhead, FileNumbers, Running, Typed, MemoryTyped
<1>7. Good(Memory) /\ Memory.files = version /\ Memory.log = log_number /\ Memory.last = set_sequence
  BY <1>2 DEF GoodMemory, Memory, Running
<1>8. version \subseteq DOMAIN tables
  BY <1>7 DEF Good
<1>9. Contents(version)' = Contents(version)
  BY <1>2, <1>6, <1>8 DEF Contents
<1>10. Contents(Target.files)' = Contents(version)
  <2>1. (version \ inputs) \subseteq DOMAIN tables /\ inputs \subseteq DOMAIN tables
    BY <1>8
  <2>2. Contents(Target.files)' = Contents(version \ inputs) \cup Contents(inputs)
    BY <1>5, <1>6, <2>1 DEF Contents
  <2>3. QED
    BY <2>1, <2>2 DEF Contents
<1>11. Target'.files \subseteq DOMAIN tables'
  BY <1>5, <1>6, <1>8
<1>12. Good(Target)'
  <2>1. \A r \in Contents(version) : r.seq <= set_sequence
    BY <1>7 DEF Good
  <2>2. ~catalogLost => \A r \in owed : r \in Contents(version) \/
          \E m \in DOMAIN logs : m >= log_number /\ InLog(r, m, Len(logs[m].recs))
    BY <1>7 DEF Good
  <2>3. ~catalogLost => \A r \in owed \cap stable : r \in Contents(version) \/
          \E m \in DOMAIN logs : m >= log_number /\ InLog(r, m, logs[m].synced)
    BY <1>7 DEF Good
  <2>4. ~catalogLost => \A m \in DOMAIN logs : m < log_number =>
          \A i \in 1 .. Len(logs[m].recs) :
            logs[m].recs[i] \in owed => logs[m].recs[i] \in Contents(version)
    BY <1>7 DEF Good
  <2>7. ~syncFailed => \A m \in DOMAIN logs : m < log_number =>
          \A i \in 1 .. Len(logs[m].recs) : logs[m].recs[i].seq <= set_sequence
    BY <1>7 DEF Good
  <2> HIDE DEF Target
  <2>5. \A v : v = Target' => Good(v)'
    <3>1. SUFFICES ASSUME NEW v, v = Target' PROVE Good(v)'
      OBVIOUS
    <3>2. Contents(v.files)' = Contents(version) /\ v.files \subseteq DOMAIN tables'
          /\ v.log = log_number /\ v.last = set_sequence
      BY <1>5, <1>10, <1>11, <3>1
    <3>3. QED
      BY <1>2, <2>1, <2>2, <2>3, <2>4, <2>7, <3>2 DEF Good, InLog
  <2>6. QED
    BY <2>5
<1>13. Named(Target.log)'
  BY <1>2, <1>4, <1>5 DEF Named
<1>14. QED
  BY <1>2, <1>5, <1>9, <1>10, <1>12, <1>13 DEF GoodEdit

(* The edit under way always leads to a good VersionSet.                   *)
LEMMA GoodEditKept ==
  ASSUME Typed, NumbersAhead, GoodMemory, GoodEdit, Replayed, Memtables, CatalogClosed, CatalogOpen,
         CatalogSettled, CatalogBegun, NewDatabase, CurrentLog, Sequences, Numbered, Next
  PROVE  GoodEdit'
<1>1. CASE NewLog
  BY <1>1, GoodEditNewLog
<1>2. CASE BuildTable
  BY <1>2, GoodEditFlush
<1>3. CASE Compact
  BY <1>3, GoodEditCompact
<1>4. CASE LogEdit
  <2>1. Like(Target, Target')
    BY <1>4, EditReplayed
  <2>2. /\ Applying /\ UNCHANGED <<logs, tables, owed, stable, catalogLost, syncFailed, version, imm, ret>>
        /\ edit'.adds = edit.adds
    BY <1>4 DEF LogEdit, Applying, Midway, memory, fields, ghosts, Typed, MemoryTyped, FiniteEdit, Edit
  <2>3. \A v : Good(v) => Good(v)'
    BY <2>2, GoodSame
  <2>4. Good(Target)'
    <3>1. Good(Target)
      BY <2>2 DEF GoodEdit
    <3>2. Good(Target')
      BY <2>1, <3>1, GoodLike
    <3>3. QED
      BY <2>3, <3>2
  <2>5. Target'.log = Target.log /\ Target'.files = Target.files
    BY <2>1 DEF Like
  <2>6. QED
    BY <2>2, <2>4, <2>5 DEF GoodEdit, Named, Contents
<1>5. CASE CreateManifest \/ WriteSnapshot \/ SyncManifest \/ WriteTemp \/ RenameTemp
  <2>1. /\ Applying /\ UNCHANGED <<logs, tables, owed, stable, catalogLost, syncFailed>>
        /\ UNCHANGED <<version, log_number, set_sequence, edit, imm, ret>>
    BY <1>5 DEF CreateManifest, WriteSnapshot, SyncManifest, WriteTemp, RenameTemp, Applying, Midway,
                memory, fields, applying, ghosts
  <2>2. QED
    BY <2>1, GoodEditFrame
<1>6. CASE OpenRecover \/ OpenFails \/ ReplayRecord \/ ReplayAborts \/ ReplayEnd \/ ReplayDone
  BY <1>6 DEF OpenRecover, OpenFails, ReplayRecord, ReplayAborts, ReplayEnd, ReplayDone,
              GoodEdit, Applying, Midway
<1>7. CASE Install
  BY <1>7 DEF Install, GoodEdit, Applying, Midway, Typed, MemoryTyped, Returns
<1>8. CASE RemoveObsoleteFile \/ RemoveDone \/ BeginWrite \/ LogWrite \/ SyncLog \/ SyncLogFails
  BY <1>8 DEF RemoveObsoleteFile, RemoveDone, BeginWrite, LogWrite, SyncLog, SyncLogFails,
              GoodEdit, Applying, Midway
<1>9. CASE Insert \/ Kill \/ PowerFailure
  BY <1>9 DEF Insert, Kill, PowerFailure, Stop, GoodEdit, Applying, Midway
<1>10. CASE Terminated
  BY <1>10 DEF Terminated, vars, GoodEdit, Applying, Midway
<1>11. QED
  BY <1>1, <1>2, <1>3, <1>4, <1>5, <1>6, <1>7, <1>8, <1>9, <1>10 DEF Next

-----------------------------------------------------------------------------
(* Logs and memory.                                                        *)

(* Nothing leaves memory and tables, and nothing is replayed or logged.    *)
LEMMA ReplayedFrame ==
  ASSUME Replayed, Running, UNCHANGED <<owed, catalogLost, todo, pos>>,
         DOMAIN logs' = DOMAIN logs, \A n \in DOMAIN logs : logs'[n].recs = logs[n].recs,
         mem \cup imm \cup Contents(version) \subseteq (mem \cup imm \cup Contents(version))',
         todo # {} => pc' = "replay" \/ ((pc' = "flush" \/ Applying') /\ ret' = "replay")
  PROVE  Replayed'
BY DEF Replayed

(* What is owed and in a log is in memory or in a table, or still to be    *)
(* replayed: replay skips nothing and nothing drops a memtable too early.  *)
LEMMA ReplayedKept ==
  ASSUME Typed, NumbersAhead, GoodFiles, GoodMemory, GoodMemory', GoodEdit, Replayed, Memtables,
         NewDatabase, CurrentLog, Sequences, Next
  PROVE  Replayed'
<1> USE DEF Running, Applying, Midway
<1>1. todo \subseteq Nat /\ pos \in Nat
  BY DEF Typed, MemoryTyped
<1>2. CASE OpenRecover
  <2>1. /\ UNCHANGED <<logs, current>> /\ log_number' = OnDisk.log /\ pc' = "replay" /\ mem' = {} /\ imm' = {}
        /\ todo' = LogsToReplay(OnDisk.log) /\ pos' = 1
    BY <1>2 DEF OpenRecover, disk
  <2>2. Good(Memory)' /\ Memory'.files = version' /\ Memory'.log = log_number'
    BY <2>1 DEF GoodMemory, Memory
  <2>3. OnDisk.log \in Nat /\ DOMAIN logs \subseteq Nat
    BY OnDiskType DEF VersionSets, Typed, FilesTyped
  <2>4. \A n \in DOMAIN logs' : n \notin todo' => n < log_number'
    BY <2>1, <2>3 DEF LogsToReplay
  <2>5. todo' \subseteq DOMAIN logs'
    BY <2>1 DEF LogsToReplay
  <2>6. ~catalogLost' => \A n \in DOMAIN logs' : n < log_number' =>
          \A i \in 1 .. Len(logs'[n].recs) :
            logs'[n].recs[i] \in owed' => logs'[n].recs[i] \in Contents(version)'
    BY <2>2 DEF Good
  <2>7. \A n \in DOMAIN logs' : \A i \in 1 .. Len(logs'[n].recs) : ~(i < pos')
    BY <2>1 DEF Typed, FilesTyped, File
  <2>8. QED
    BY <2>1, <2>4, <2>5, <2>6, <2>7 DEF Replayed
<1>3. CASE ReplayRecord
  <2>1. /\ UNCHANGED <<logs, tables, version, owed, catalogLost, todo>>
        /\ pos' = pos + 1 /\ pc' \in {"flush", "replay"} /\ ret' = "replay"
        /\ mem' \cup imm' = mem \cup imm \cup {logs[Min(todo)].recs[pos]}
    BY <1>3 DEF ReplayRecord, disk, ghosts, Memtables, Rotated
  <2>2. Contents(version)' = Contents(version)
    BY <2>1 DEF Contents
  <2>3. \A n \in DOMAIN logs : \A i \in 1 .. Len(logs[n].recs) : i < pos + 1 => i = pos \/ i < pos
    BY <1>1 DEF Typed, FilesTyped, File
  <2>4. ASSUME ~catalogLost, NEW n \in DOMAIN logs, NEW i \in 1 .. Len(logs[n].recs),
               logs[n].recs[i] \in owed, n \in todo => n = Min(todo) /\ i < pos + 1
        PROVE  logs[n].recs[i] \in mem' \cup imm' \cup Contents(version)
    <3>1. CASE n \in todo /\ i = pos
      BY <2>1, <2>4, <3>1
    <3>2. CASE n \in todo => n = Min(todo) /\ i < pos
      BY <1>3, <2>1, <2>4, <3>2 DEF Replayed, ReplayRecord
    <3>3. QED
      BY <2>3, <2>4, <3>1, <3>2
  <2>5. todo' \subseteq DOMAIN logs'
    BY <1>3, <2>1 DEF Replayed, ReplayRecord
  <2>6. QED
    BY <2>1, <2>2, <2>4, <2>5 DEF Replayed
<1>4. CASE ReplayEnd
  <2>1. CASE logs[Min(todo)].torn
    BY <1>4, <2>1 DEF ReplayEnd, Replayed
  <2>2. CASE ~logs[Min(todo)].torn
    <3>1. /\ UNCHANGED <<logs, tables, version, owed, catalogLost, mem, imm>>
          /\ pos' = 1 /\ pc' = "replay" /\ todo' = todo \ {Min(todo)}
          /\ pos > Len(logs[Min(todo)].recs) /\ todo \subseteq DOMAIN logs
      BY <1>4, <2>2 DEF ReplayEnd, disk, ghosts, Replayed
    <3>2. Contents(version)' = Contents(version)
      BY <3>1 DEF Contents
    <3>3. \A n \in DOMAIN logs : Len(logs[n].recs) \in Nat
      BY DEF Typed, FilesTyped, File
    <3>4. \A n \in DOMAIN logs : \A i \in 1 .. Len(logs[n].recs) : ~(i < 1)
      BY <3>3
    <3>5. Min(todo) \in todo
      BY <1>1, <1>4, LeastInSet DEF ReplayEnd
    <3>6. \A i \in 1 .. Len(logs[Min(todo)].recs) : i < pos
      BY <1>1, <3>1, <3>3, <3>5
    <3>7. ASSUME ~catalogLost, NEW n \in DOMAIN logs, NEW i \in 1 .. Len(logs[n].recs),
                 logs[n].recs[i] \in owed, n \notin todo'
          PROVE  logs[n].recs[i] \in mem \cup imm \cup Contents(version)
      BY <1>4, <3>1, <3>6, <3>7 DEF Replayed, ReplayEnd
    <3>8. QED
      BY <3>1, <3>2, <3>4, <3>7 DEF Replayed
  <2>3. QED
    BY <2>1, <2>2
<1>5. CASE ReplayDone \/ BeginWrite
  <2>1. /\ UNCHANGED <<logs, tables, version, owed, catalogLost, todo, pos>>
        /\ mem \cup imm \subseteq mem' \cup imm' /\ todo = {}
    BY <1>5 DEF ReplayDone, BeginWrite, disk, ghosts, opening, Memtables, Rotated, Replayed
  <2>2. QED
    BY <1>5, <2>1, ReplayedFrame DEF ReplayDone, BeginWrite, Contents
<1>6. CASE NewLog
  <2>1. /\ UNCHANGED <<tables, version, owed, catalogLost, mem, imm, todo, pos>> /\ todo = {}
    BY <1>6 DEF NewLog, ghosts, opening, Replayed
  <2>2. /\ \A n \in DOMAIN logs' : n \notin DOMAIN logs => Len(logs'[n].recs) = 0
        /\ \A n \in DOMAIN logs : logs'[n] = logs[n]
    BY <1>6, NewLogNumber
  <2>3. Contents(version)' = Contents(version)
    BY <2>1 DEF Contents
  <2>4. \A n \in DOMAIN logs' : \A i \in 1 .. Len(logs'[n].recs) : n \in DOMAIN logs
    BY <2>2
  <2>5. QED
    BY <1>6, <2>1, <2>2, <2>3, <2>4 DEF Replayed, NewLog
<1>7. CASE BuildTable \/ Compact
  <2>1. /\ UNCHANGED <<logs, version, owed, catalogLost, mem, imm, todo, pos>>
        /\ \E x : tables' = Put(tables, next_file_number, x)
        /\ todo # {} => pc' = "apply" /\ ret' = "replay"
    BY <1>7 DEF BuildTable, Compact, ghosts, opening, Replayed
  <2>2. next_file_number \notin DOMAIN tables
    <3>1. Running
      BY <1>7 DEF BuildTable, Compact
    <3>2. \A n \in DOMAIN tables : n < next_file_number
      BY <3>1 DEF NumbersAhead, FileNumbers
    <3>3. next_file_number \in Nat
      BY DEF Typed, MemoryTyped
    <3>4. QED
      BY <3>2, <3>3
  <2>3. \A m \in DOMAIN tables : m \in DOMAIN tables' /\ tables'[m] = tables[m]
    BY <2>1, <2>2 DEF Put
  <2>4. Contents(version) \subseteq Contents(version)'
    BY <2>1, <2>3 DEF Contents
  <2>5. QED
    BY <1>7, <2>1, <2>4, ReplayedFrame DEF BuildTable, Compact
<1>8. CASE Install
  <2>1. /\ UNCHANGED <<logs, tables, owed, catalogLost, mem, todo, pos>> /\ version' = Target.files
        /\ imm' = IF ret = "remove" THEN imm ELSE {}
    BY <1>8, TargetType DEF Install, disk, ghosts, opening, Typed
  <2>2. /\ Contents(version) \subseteq Contents(Target.files)
        /\ ret # "remove" => imm \subseteq Contents(edit.adds)
    BY <1>8 DEF Install, GoodEdit
  <2>3. Contents(version)' = Contents(Target.files) /\ Contents(edit.adds) \subseteq Contents(Target.files)
    BY <2>1 DEF Contents, Target
  <2>4. mem \cup imm \cup Contents(version) \subseteq (mem \cup imm \cup Contents(version))'
    BY <2>1, <2>2, <2>3
  <2>5. QED
    BY <1>8, <2>1, <2>4, ReplayedFrame DEF Install, Replayed
<1>9. CASE RemoveObsoleteFile
  <2>1. /\ UNCHANGED <<owed, catalogLost, mem, imm, version, todo, pos>> /\ todo = {}
    BY <1>9 DEF RemoveObsoleteFile, memory, opening, ghosts, Replayed
  <2>2. \A n \in DOMAIN logs' : n \in DOMAIN logs /\ logs'[n] = logs[n]
    BY <1>9, RemovalKeeps
  <2>3. version \subseteq DOMAIN tables
    BY <1>9 DEF RemoveObsoleteFile, GoodMemory, Memory, Good
  <2>4. \A n \in version : n \in DOMAIN tables' /\ tables'[n] = tables[n]
    BY <1>9, <2>3, RemovalKeeps
  <2>5. Contents(version) \subseteq Contents(version)'
    BY <2>1, <2>3, <2>4 DEF Contents
  <2>6. QED
    BY <1>9, <2>1, <2>2, <2>5 DEF RemoveObsoleteFile, Replayed
<1>10. CASE LogWrite
  <2> DEFINE f == logs[logfile_number]
  <2>1. /\ UNCHANGED <<tables, owed, catalogLost, mem, imm, version, todo, pos>> /\ todo = {}
        /\ logs' = [logs EXCEPT ![logfile_number] = AddRecord(@, NewRec)]
    BY <1>10 DEF LogWrite, memory, opening, ghosts, Replayed
  <2>2. logfile_number \in DOMAIN logs /\ NewRec \in Rec /\ f \in File(Rec) /\ DOMAIN logs' = DOMAIN logs
    <3>1. logfile_number \in DOMAIN logs /\ writes # 0
      BY <1>10 DEF LogWrite, CurrentLog, LogCounts, LogNumbered, Steady, InWrite
    <3>2. NewRec \in Rec
      BY <3>1 DEF NewRec, Rec, Typed, MemoryTyped
    <3>3. QED
      BY <2>1, <3>1, <3>2 DEF Typed, FilesTyped
  <2>3. /\ logs'[logfile_number] = AddRecord(f, NewRec)
        /\ \A n \in DOMAIN logs : n # logfile_number => logs'[n] = logs[n]
    BY <2>1, <2>2
  <2>4. /\ Len(AddRecord(f, NewRec).recs) = Len(f.recs) + 1 /\ Len(f.recs) \in Nat
        /\ \A i \in 1 .. Len(f.recs) : AddRecord(f, NewRec).recs[i] = f.recs[i]
        /\ AddRecord(f, NewRec).recs[Len(f.recs) + 1] = NewRec
    <3>1. \A r \in Rec :
            /\ Len(AddRecord(f, r).recs) = Len(f.recs) + 1 /\ Len(f.recs) \in Nat
            /\ \A i \in 1 .. Len(f.recs) : AddRecord(f, r).recs[i] = f.recs[i]
            /\ AddRecord(f, r).recs[Len(f.recs) + 1] = r
      BY <2>2, FileGrown
    <3>2. QED
      BY <2>2, <3>1
  <2>5. ~catalogLost => NewRec \notin owed
    BY <1>10, <2>1, NotYetOwed DEF LogWrite
  <2>6. ASSUME ~catalogLost, NEW n \in DOMAIN logs', NEW i \in 1 .. Len(logs'[n].recs),
               logs'[n].recs[i] \in owed
        PROVE  logs'[n].recs[i] \in mem \cup imm \cup Contents(version)
    <3>1. n \in DOMAIN logs /\ i \in 1 .. Len(logs[n].recs) /\ logs'[n].recs[i] = logs[n].recs[i]
      <4>1. CASE n = logfile_number
        BY <2>2, <2>3, <2>4, <2>5, <2>6, <4>1
      <4>2. CASE n # logfile_number
        BY <2>2, <2>3, <4>2
      <4>3. QED
        BY <4>1, <4>2
    <3>2. QED
      BY <1>10, <2>1, <2>6, <3>1 DEF Replayed, LogWrite
  <2>7. Contents(version)' = Contents(version)
    BY <2>1 DEF Contents
  <2>8. QED
    BY <2>1, <2>6, <2>7 DEF Replayed
<1>11. CASE Insert
  <2>1. /\ UNCHANGED <<logs, tables, catalogLost, imm, version, todo, pos>> /\ todo = {}
        /\ mem' = mem \cup {NewRec} /\ owed' = owed \cup {NewRec}
    BY <1>11 DEF Insert, disk, opening, Replayed
  <2>2. Contents(version)' = Contents(version)
    BY <2>1 DEF Contents
  <2>3. QED
    BY <1>11, <2>1, <2>2 DEF Insert, Replayed
<1>12. CASE SyncLog
  <2>1. /\ UNCHANGED <<tables, owed, catalogLost, mem, imm, version, todo, pos>> /\ todo = {}
        /\ DOMAIN logs' = DOMAIN logs
    BY <1>12 DEF SyncLog, memory, opening, ghosts, Replayed
  <2>2. \A n \in DOMAIN logs : logs'[n].recs = logs[n].recs
    BY <1>12 DEF SyncLog, Synced, Typed, FilesTyped, File
  <2>3. Contents(version)' = Contents(version)
    BY <2>1 DEF Contents
  <2>4. QED
    BY <1>12, <2>1, <2>2, <2>3, ReplayedFrame DEF SyncLog
<1>13. CASE CreateManifest \/ WriteSnapshot \/ LogEdit \/ SyncManifest \/ WriteTemp \/ RenameTemp
  BY <1>13 DEF CreateManifest, WriteSnapshot, LogEdit, SyncManifest, WriteTemp, RenameTemp,
               memory, applying, opening, ghosts, Replayed, Contents
<1>14. CASE OpenFails \/ ReplayAborts \/ Kill \/ PowerFailure
  BY <1>14 DEF OpenFails, ReplayAborts, Kill, PowerFailure, Stop, Replayed
<1>15. CASE RemoveDone \/ SyncLogFails
  BY <1>15 DEF RemoveDone, SyncLogFails, disk, memory, opening, ghosts, Replayed, Contents
<1>16. CASE Terminated
  BY <1>16 DEF Terminated, vars, disk, memory, applying, opening, ghosts, Replayed, Contents
<1>17. QED
  BY <1>2, <1>3, <1>4, <1>5, <1>6, <1>7, <1>8, <1>9, <1>10, <1>11, <1>12, <1>13, <1>14, <1>15, <1>16
     DEF Next

-----------------------------------------------------------------------------
(* The current log.                                                        *)

(* The log that writes go to exists, and no edit under way discards it.    *)
LEMMA LogCountsKept ==
  ASSUME Typed, NumbersAhead, CatalogClosed, CatalogOpen, CatalogSettled, CatalogBegun, CatalogSynced,
         GoodMemory, NewDatabase, Memtables, CurrentLog, Next
  PROVE  LogCounts'
<1> USE DEF LogCounts, Steady, Applying, Midway
<1>1. LogCounts /\ log_number \in Nat /\ logfile_number \in Nat /\ last_sequence \in Nat
  BY DEF CurrentLog, Typed, MemoryTyped
<1>2. CASE NewLog
  <2>1. /\ logfile_number' \in DOMAIN logs' /\ logfile_number' \in Nat /\ log_number' = log_number
        /\ pc' = (IF found.logs THEN "apply" ELSE "remove") /\ ret' = "remove"
        /\ UNCHANGED <<current, writing>> /\ pc = "newlog"
        /\ edit' = [NoEdit EXCEPT !.log = logfile_number', !.last = last_sequence]
    BY <1>2, NewLogNumber DEF NewLog
  <2>2. CASE found.logs
    <3>1. edit'.log = logfile_number'
      BY <2>1 DEF NoEdit
    <3>2. logfile_number' # 0
      BY <1>2, <2>2 DEF NewLog, Typed, MemoryTyped
    <3>3. Target'.log <= logfile_number'
      BY <2>1, <3>1, <3>2 DEF Target
    <3>4. QED
      BY <2>1, <2>2, <3>3
  <2>3. CASE ~found.logs
    <3>1. current = 0
      BY <2>1, <2>3 DEF NewDatabase, InOpen, Running
    <3>2. log_number = 0
      BY <2>1, <3>1 DEF CatalogClosed, CatalogOpen, Running
    <3>3. QED
      BY <2>1, <2>3, <3>1, <3>2
  <2>4. QED
    BY <2>2, <2>3
<1>3. CASE BuildTable
  <2>1. /\ pc = "flush" /\ pc' = "apply" /\ UNCHANGED <<logs, logfile_number, log_number, ret>>
        /\ edit'.log = logfile_number
    BY <1>3 DEF BuildTable, NoEdit
  <2>2. /\ logfile_number \in DOMAIN logs /\ ret # "remove"
        /\ ret = "log" => log_number <= logfile_number
    BY <1>1, <2>1 DEF Memtables, Rotated, Running
  <2>3. ret = "log" => Target'.log <= logfile_number
    BY <1>1, <2>1, <2>2 DEF Target
  <2>4. QED
    BY <2>1, <2>2, <2>3
<1>4. CASE Compact
  <2>1. /\ pc = "idle" /\ pc' = "apply" /\ UNCHANGED <<logs, logfile_number, log_number>>
        /\ Target'.log = log_number
    BY <1>4, GoodEditCompact DEF Compact
  <2>2. QED
    BY <1>1, <2>1
<1>5. CASE CreateManifest \/ WriteSnapshot \/ SyncManifest \/ WriteTemp \/ RenameTemp
  BY <1>1, <1>5
     DEF CreateManifest, WriteSnapshot, SyncManifest, WriteTemp, RenameTemp, Target, memory, fields, applying
<1>6. CASE LogEdit
  <2>1. Target'.log = Target.log
    BY <1>6, EditReplayed DEF Like
  <2>2. QED
    BY <1>1, <1>6, <2>1 DEF LogEdit, memory
<1>7. CASE Install
  <2>1. /\ pc = "install" /\ pc' = ret /\ log_number' = Target.log
        /\ UNCHANGED <<logs, logfile_number, writing, ret, current>> /\ ret \in Returns
    BY <1>7, TargetType DEF Install, disk, Typed, MemoryTyped
  <2>2. writing
    BY <2>1 DEF CatalogClosed, Running
  <2>3. ret # "idle"
    BY <2>1 DEF Memtables, Rotated, Running
  <2>4. QED
    BY <1>1, <2>1, <2>2, <2>3 DEF Returns
<1>8. CASE RemoveObsoleteFile
  <2>1. /\ pc = "remove" /\ pc' = "remove" /\ UNCHANGED <<logfile_number, log_number, writing, current>>
        /\ logfile_number \in DOMAIN logs => logfile_number \in DOMAIN logs'
    BY <1>8, RemovalKeeps DEF RemoveObsoleteFile, memory, fields, applying
  <2>2. QED
    BY <1>1, <2>1
<1>9. CASE OpenRecover \/ OpenFails \/ ReplayRecord \/ ReplayAborts \/ ReplayEnd \/ ReplayDone
  BY <1>1, <1>9 DEF OpenRecover, OpenFails, ReplayRecord, ReplayAborts, ReplayEnd, ReplayDone
<1>10. CASE RemoveDone \/ SyncLogFails
  BY <1>1, <1>10 DEF RemoveDone, SyncLogFails, disk, memory, fields, applying
<1>11. CASE BeginWrite
  BY <1>1, <1>11 DEF BeginWrite, disk, fields
<1>12. CASE LogWrite \/ SyncLog
  BY <1>1, <1>12 DEF LogWrite, SyncLog, memory, fields, applying
<1>13. CASE Insert
  BY <1>1, <1>13 DEF Insert, disk, fields, applying
<1>14. CASE Kill \/ PowerFailure
  BY <1>14 DEF Kill, PowerFailure, Stop
<1>15. CASE Terminated
  BY <1>1, <1>15 DEF Terminated, vars, disk, memory, fields, applying
<1>16. QED
  BY <1>2, <1>3, <1>4, <1>5, <1>6, <1>7, <1>8, <1>9, <1>10, <1>11, <1>12, <1>13, <1>14, <1>15 DEF Next

(* A record is in the current log before it is in the memtable, and synced *)
(* before it is acknowledged as such.                                      *)
LEMMA LogHoldsKept ==
  ASSUME Typed, CurrentLog, Next
  PROVE  LogHolds'
<1> USE DEF LogHolds, InLog, NewRec
<1>1. CASE LogWrite
  <2> DEFINE f == logs[logfile_number]
  <2>0. NewRec \in Rec /\ f \in File(Rec) /\ logfile_number \in DOMAIN logs
    <3>1. logfile_number \in DOMAIN logs /\ writes # 0
      BY <1>1 DEF LogWrite, CurrentLog, LogCounts, LogNumbered, Steady, InWrite
    <3>2. NewRec \in Rec
      BY <3>1 DEF Rec, Typed, MemoryTyped
    <3>3. QED
      BY <3>1, <3>2 DEF Typed, FilesTyped
  <2>1. /\ logs' = [logs EXCEPT ![logfile_number] = AddRecord(@, NewRec)] /\ pc' \in {"logsync", "insert"}
        /\ UNCHANGED <<logfile_number, NewRec>>
    BY <1>1 DEF LogWrite, memory, counters
  <2>2. /\ logs'[logfile_number] = AddRecord(f, NewRec) /\ Len(f.recs) \in Nat
        /\ Len(AddRecord(f, NewRec).recs) = Len(f.recs) + 1
        /\ AddRecord(f, NewRec).recs[Len(f.recs) + 1] = NewRec
    <3> HIDE DEF NewRec
    <3>1. QED
      BY <2>0, <2>1, FileGrown
  <2>3. QED
    BY <2>1, <2>2
<1>2. CASE SyncLog
  <2> DEFINE f == logs[logfile_number]
  <2>1. /\ logs' = [logs EXCEPT ![logfile_number] = Synced(@)] /\ pc' = "insertsynced" /\ pc = "logsync"
        /\ logfile_number \in DOMAIN logs /\ UNCHANGED <<logfile_number, NewRec>> /\ f \in File(Rec)
    BY <1>2 DEF SyncLog, memory, counters, CurrentLog, LogCounts, Steady, Typed, FilesTyped
  <2>2. logs'[logfile_number] = Synced(f) /\ Synced(f).recs = f.recs /\ Synced(f).synced = Len(f.recs)
    BY <2>1, FileSynced
  <2>3. QED
    BY <2>1, <2>2 DEF CurrentLog
<1>3. CASE Install
  BY <1>3 DEF Install, Typed, MemoryTyped, Returns
<1>4. CASE OpenRecover \/ OpenFails \/ ReplayRecord \/ ReplayAborts \/ ReplayEnd \/ ReplayDone
  BY <1>4 DEF OpenRecover, OpenFails, ReplayRecord, ReplayAborts, ReplayEnd, ReplayDone
<1>5. CASE NewLog \/ BuildTable \/ CreateManifest \/ WriteSnapshot \/ LogEdit
  BY <1>5 DEF NewLog, BuildTable, CreateManifest, WriteSnapshot, LogEdit
<1>6. CASE SyncManifest \/ WriteTemp \/ RenameTemp \/ RemoveObsoleteFile
  BY <1>6 DEF SyncManifest, WriteTemp, RenameTemp, RemoveObsoleteFile
<1>7. CASE RemoveDone \/ BeginWrite \/ SyncLogFails \/ Insert \/ Compact \/ Kill \/ PowerFailure
  BY <1>7 DEF RemoveDone, BeginWrite, SyncLogFails, Insert, Compact, Kill, PowerFailure, Stop
<1>8. CASE Terminated
  BY <1>8 DEF Terminated, vars
<1>9. QED
  BY <1>1, <1>2, <1>3, <1>4, <1>5, <1>6, <1>7, <1>8 DEF Next

(* No record in a log is of a write that has not begun.                    *)
LEMMA LogNumberedKept ==
  ASSUME Typed, NumbersAhead, NewDatabase, CurrentLog, Next
  PROVE  LogNumbered'
<1> USE DEF LogNumbered, InWrite, Applying, Midway
<1>1. LogNumbered /\ writes \in Nat
  BY DEF CurrentLog, Typed, MemoryTyped
<1>2. \A n \in DOMAIN logs : /\ Len(logs[n].recs) \in Nat
                             /\ \A i \in 1 .. Len(logs[n].recs) : logs[n].recs[i].id \in Nat
  <2>1. \A n \in DOMAIN logs : logs[n].recs \in Seq(Rec)
    BY DEF Typed, FilesTyped, File
  <2>2. \A r \in Rec : r.id \in Nat
    BY ConstantsAssumption DEF Rec
  <2>3. QED
    BY <2>1, <2>2, ElementOfSeq, LenProperties
<1>3. CASE NewLog
  <2>1. /\ \A n \in DOMAIN logs' : n \notin DOMAIN logs => Len(logs'[n].recs) = 0
        /\ \A n \in DOMAIN logs : logs'[n] = logs[n]
    BY <1>3, NewLogNumber
  <2>2. \A n \in DOMAIN logs' : \A i \in 1 .. Len(logs'[n].recs) : n \in DOMAIN logs
    BY <2>1
  <2>3. writes' = writes /\ pc' \in {"apply", "remove"} /\ ret' = "remove"
    BY <1>3 DEF NewLog, counters
  <2>4. QED
    BY <1>1, <2>1, <2>2, <2>3
<1>4. CASE Install
  BY <1>1, <1>4 DEF Install, disk, counters, Typed, MemoryTyped, Returns
<1>5. CASE RemoveObsoleteFile
  <2>1. \A n \in DOMAIN logs' : n \in DOMAIN logs /\ logs'[n] = logs[n]
    BY <1>5, RemovalKeeps
  <2>2. QED
    BY <1>1, <1>5, <2>1 DEF RemoveObsoleteFile, counters
<1>6. CASE BeginWrite
  <2>1. writes' = writes + 1 /\ UNCHANGED <<logs, logfile_number>> /\ writes + 1 # 0
    BY <1>1, <1>6 DEF BeginWrite, disk
  <2>2. QED
    BY <1>1, <1>2, <2>1
<1>7. CASE LogWrite
  <2> DEFINE f == logs[logfile_number]
  <2>1. /\ logs' = [logs EXCEPT ![logfile_number] = AddRecord(@, NewRec)]
        /\ UNCHANGED <<logfile_number, writes>> /\ NewRec.id = writes /\ pc = "log"
    BY <1>7 DEF LogWrite, memory, counters, NewRec
  <2>2. /\ logfile_number \in DOMAIN logs /\ writes # 0
        /\ \A n \in DOMAIN logs \ {logfile_number} :
             \A i \in 1 .. Len(logs[n].recs) : logs[n].recs[i].id < writes
    BY <2>1 DEF CurrentLog, LogCounts, Steady
  <2>3. NewRec \in Rec /\ f \in File(Rec)
    <3>1. NewRec \in Rec
      BY <1>1, <2>2 DEF NewRec, Rec, Typed, MemoryTyped
    <3>2. QED
      BY <2>2, <3>1 DEF Typed, FilesTyped
  <2>4. /\ Len(AddRecord(f, NewRec).recs) = Len(f.recs) + 1 /\ Len(f.recs) \in Nat
        /\ \A i \in 1 .. Len(f.recs) : AddRecord(f, NewRec).recs[i] = f.recs[i]
        /\ AddRecord(f, NewRec).recs[Len(f.recs) + 1] = NewRec
    BY <2>3, FileGrown
  <2>5. /\ DOMAIN logs' = DOMAIN logs /\ logs'[logfile_number] = AddRecord(f, NewRec)
        /\ \A n \in DOMAIN logs \ {logfile_number} : logs'[n] = logs[n]
    BY <2>1, <2>2
  <2>6. \A i \in 1 .. Len(logs'[logfile_number].recs) : logs'[logfile_number].recs[i].id <= writes
    <3>1. \A i \in 1 .. Len(f.recs) : f.recs[i].id <= writes
      BY <1>1, <2>2
    <3>2. SUFFICES ASSUME NEW i \in 1 .. Len(f.recs) + 1
                   PROVE  AddRecord(f, NewRec).recs[i].id <= writes
      BY <2>4, <2>5
    <3>3. CASE i \in 1 .. Len(f.recs)
      BY <2>4, <3>1, <3>3
    <3>4. CASE i = Len(f.recs) + 1
      BY <1>1, <2>1, <2>4, <3>4
    <3>5. QED
      BY <2>4, <3>3, <3>4
  <2>7. QED
    BY <1>1, <2>1, <2>2, <2>5, <2>6
<1>8. CASE SyncLog
  <2>1. /\ DOMAIN logs' = DOMAIN logs /\ \A n \in DOMAIN logs : logs'[n].recs = logs[n].recs
        /\ UNCHANGED <<logfile_number, writes>> /\ pc = "logsync"
    BY <1>8 DEF SyncLog, Synced, memory, counters, Typed, FilesTyped, File
  <2>2. QED
    BY <1>1, <2>1
<1>9. CASE PowerFailure
  <2>1. /\ DOMAIN logs' = DOMAIN logs /\ \A n \in DOMAIN logs : logs'[n] \in Remains(logs[n])
        /\ writes' = writes /\ pc' = "down"
    BY <1>9 DEF PowerFailure, Stop
  <2>2. \A n \in DOMAIN logs : /\ Len(logs'[n].recs) <= Len(logs[n].recs) /\ Len(logs'[n].recs) \in Nat
                               /\ \A i \in 1 .. Len(logs'[n].recs) : logs'[n].recs[i] = logs[n].recs[i]
    <3>1. \A n \in DOMAIN logs : logs[n] \in File(Rec)
      BY DEF Typed, FilesTyped
    <3>2. SUFFICES ASSUME NEW n \in DOMAIN logs
                   PROVE  /\ Len(logs'[n].recs) <= Len(logs[n].recs) /\ Len(logs'[n].recs) \in Nat
                          /\ \A i \in 1 .. Len(logs'[n].recs) : logs'[n].recs[i] = logs[n].recs[i]
      OBVIOUS
    <3>3. /\ logs'[n] \in File(Rec) /\ Len(logs'[n].recs) <= Len(logs[n].recs)
          /\ \A i \in 1 .. Len(logs'[n].recs) : logs'[n].recs[i] = logs[n].recs[i]
      BY <2>1, <3>1, FileCut
    <3>4. QED
      BY <3>3 DEF File
  <2>3. QED
    BY <1>1, <1>2, <2>1, <2>2
<1>10. CASE Kill
  <2>1. /\ DOMAIN logs' = DOMAIN logs /\ \A n \in DOMAIN logs : logs'[n].recs = logs[n].recs
        /\ writes' = writes /\ pc' = "down"
    BY <1>10 DEF Kill, Stop, Typed, FilesTyped, File
  <2>2. QED
    BY <1>1, <2>1
<1>11. CASE OpenRecover \/ OpenFails \/ ReplayRecord \/ ReplayAborts \/ ReplayEnd \/ ReplayDone
  BY <1>1, <1>11 DEF OpenRecover, OpenFails, ReplayRecord, ReplayAborts, ReplayEnd, ReplayDone, disk, counters
<1>12. CASE BuildTable
  BY <1>1, <1>12 DEF BuildTable, counters
<1>13. CASE CreateManifest \/ WriteSnapshot \/ LogEdit \/ SyncManifest \/ WriteTemp \/ RenameTemp
  BY <1>1, <1>13 DEF CreateManifest, WriteSnapshot, LogEdit, SyncManifest, WriteTemp, RenameTemp,
                     memory, applying, counters
<1>14. CASE RemoveDone \/ SyncLogFails \/ Insert
  BY <1>1, <1>14 DEF RemoveDone, SyncLogFails, Insert, disk, memory, applying, counters
<1>15. CASE Compact
  BY <1>1, <1>15 DEF Compact
<1>16. CASE Terminated
  BY <1>1, <1>16 DEF Terminated, vars, disk, memory, applying, counters
<1>17. QED
  BY <1>3, <1>4, <1>5, <1>6, <1>7, <1>8, <1>9, <1>10, <1>11, <1>12, <1>13, <1>14, <1>15, <1>16 DEF Next

-----------------------------------------------------------------------------
(* Sequence numbers.                                                       *)

(* last_sequence_ stays ahead of memory and catalog, and no two            *)
(* acknowledged records share a number.                                    *)
LEMMA SequencesKept ==
  ASSUME Typed, GoodMemory, Replayed, CurrentLog, Sequences, Next
  PROVE  Sequences'
<1> USE DEF Sequences, Running, Applying, Midway
<1>1. last_sequence \in Nat /\ set_sequence \in Nat /\ edit.last \in Nat
  BY DEF Typed, MemoryTyped, FiniteEdit, Edit
<1>2. CASE OpenRecover
  <2>1. /\ set_sequence' = OnDisk.last /\ last_sequence' = OnDisk.last /\ OnDisk.last \in Nat
        /\ mem' = {} /\ imm' = {} /\ pc' = "replay" /\ UNCHANGED <<owed, stable, catalogLost, syncFailed>>
    BY <1>2, OnDiskType DEF OpenRecover, ghosts, VersionSets, Typed
  <2>2. QED
    BY <2>1
<1>3. CASE ReplayRecord
  <2> DEFINE rec == logs[Min(todo)].recs[pos]
  <2>1. /\ last_sequence' = Larger(last_sequence, rec.seq) /\ mem' \cup imm' \subseteq mem \cup imm \cup {rec}
        /\ UNCHANGED <<owed, stable, catalogLost, syncFailed, set_sequence>> /\ pc' \in {"flush", "replay"}
        /\ pos <= Len(logs[Min(todo)].recs)
    BY <1>3 DEF ReplayRecord, fields, ghosts
  <2>2. rec \in Rec
    <3>1. Min(todo) \in todo /\ todo \subseteq DOMAIN logs
      BY <1>3, LeastInSet DEF ReplayRecord, Replayed, Typed, MemoryTyped
    <3>2. logs[Min(todo)].recs \in Seq(Rec)
      BY <3>1 DEF Typed, FilesTyped, File
    <3>3. pos \in 1 .. Len(logs[Min(todo)].recs)
      BY <2>1, <3>2 DEF Typed, MemoryTyped
    <3>4. QED
      BY <3>2, <3>3, ElementOfSeq
  <2>3. rec.seq \in Nat /\ \A r \in mem \cup imm : r.seq \in Nat /\ r.seq <= last_sequence
    BY <1>3, <2>2 DEF Typed, MemoryTyped, Rec, ReplayRecord
  <2> HIDE DEF rec
  <2>4. last_sequence' \in Nat /\ last_sequence <= last_sequence' /\ rec.seq <= last_sequence'
    BY <1>1, <2>1, <2>3 DEF Larger
  <2>5. \A r \in mem' \cup imm' : r.seq <= last_sequence'
    BY <1>1, <2>1, <2>3, <2>4
  <2>6. set_sequence <= last_sequence'
    BY <1>1, <1>3, <2>4 DEF ReplayRecord
  <2>7. QED
    BY <2>1, <2>5, <2>6
<1>4. CASE NewLog
  <2>1. /\ UNCHANGED <<mem, imm, last_sequence, set_sequence, owed, stable, catalogLost, syncFailed>>
        /\ edit'.last = last_sequence
    BY <1>4 DEF NewLog, ghosts, NoEdit
  <2>2. QED
    BY <1>1, <1>4, <2>1 DEF NewLog
<1>5. CASE BuildTable
  <2>1. /\ UNCHANGED <<mem, imm, last_sequence, set_sequence, owed, stable, catalogLost, syncFailed>>
        /\ edit'.last = last_sequence
    BY <1>5 DEF BuildTable, ghosts, NoEdit
  <2>2. QED
    BY <1>1, <1>5, <2>1 DEF BuildTable
<1>6. CASE Compact
  <2>1. /\ UNCHANGED <<mem, imm, last_sequence, set_sequence, owed, stable, catalogLost, syncFailed>>
        /\ edit'.last = 0
    BY <1>6 DEF Compact, ghosts, NoEdit
  <2>2. QED
    BY <1>1, <1>6, <2>1 DEF Compact
<1>7. CASE Install
  <2>1. /\ UNCHANGED <<mem, last_sequence, owed, stable, catalogLost, syncFailed, edit>> /\ imm' \subseteq imm
        /\ set_sequence' = Larger(set_sequence, edit.last)
    BY <1>7, TargetType DEF Install, ghosts, Target, Typed
  <2>2. set_sequence <= last_sequence /\ edit.last <= last_sequence
    BY <1>7 DEF Install
  <2>3. QED
    BY <1>1, <1>7, <2>1, <2>2 DEF Install, Larger
<1>8. CASE Insert
  <2>1. /\ mem' = mem \cup {NewRec} /\ UNCHANGED <<imm, set_sequence, catalogLost>>
        /\ last_sequence' = last_sequence + 1 /\ owed' = owed \cup {NewRec}
        /\ stable' \in {stable, stable \cup {NewRec}} /\ pc' = "idle" /\ pc \in {"insert", "insertsynced"}
    BY <1>8 DEF Insert, fields
  <2>2. NewRec.seq = last_sequence + 1
    BY DEF NewRec
  <2>3. \A r \in mem \cup imm : r.seq \in Nat /\ r.seq <= last_sequence
    BY <2>1 DEF Typed, MemoryTyped, Rec
  <2>4. \A r \in mem' \cup imm' : r.seq <= last_sequence'
    BY <1>1, <2>1, <2>2, <2>3
  <2>5. set_sequence' <= last_sequence'
    BY <1>1, <2>1
  <2>6. ~catalogLost => \A r \in owed : r.seq # NewRec.seq
    <3>1. todo = {}
      BY <2>1 DEF Replayed
    <3>2. ~catalogLost => \A r \in owed : r.seq <= last_sequence
      BY <2>1, <3>1, OwedBounded
    <3>3. \A r \in owed : r.seq \in Nat
      BY DEF Typed, MemoryTyped, Rec
    <3>4. QED
      BY <1>1, <2>2, <3>2, <3>3
  <2>7. ~catalogLost' => \A r, s \in owed' : r.seq = s.seq => r = s
    BY <2>1, <2>6
  <2>8. QED
    BY <2>1, <2>4, <2>5, <2>7
<1>9. CASE OpenFails \/ ReplayAborts
  BY <1>9 DEF OpenFails, ReplayAborts, ghosts
<1>10. CASE ReplayEnd \/ ReplayDone
  BY <1>10 DEF ReplayEnd, ReplayDone, fields, ghosts
<1>11. CASE LogEdit
  <2>1. /\ UNCHANGED <<mem, imm, last_sequence, set_sequence, owed, stable, catalogLost, syncFailed>>
        /\ edit'.last = IF edit.last = 0 THEN set_sequence ELSE edit.last
    BY <1>11 DEF LogEdit, memory, fields, ghosts, Typed, MemoryTyped, FiniteEdit, Edit
  <2>2. QED
    BY <1>1, <1>11, <2>1 DEF LogEdit
<1>12. CASE CreateManifest \/ WriteSnapshot \/ SyncManifest \/ WriteTemp \/ RenameTemp
  BY <1>12 DEF CreateManifest, WriteSnapshot, SyncManifest, WriteTemp, RenameTemp,
               memory, fields, applying, ghosts
<1>13. CASE RemoveObsoleteFile \/ RemoveDone \/ LogWrite \/ SyncLog \/ SyncLogFails
  BY <1>13 DEF RemoveObsoleteFile, RemoveDone, LogWrite, SyncLog, SyncLogFails, memory, fields, ghosts
<1>14. CASE BeginWrite
  BY <1>14 DEF BeginWrite, fields, ghosts
<1>15. CASE Kill
  BY <1>15 DEF Kill, Stop, ghosts
<1>16. CASE PowerFailure
  <2>1. owed' \subseteq owed /\ stable' = stable /\ owed \cap stable \subseteq owed' /\ pc' = "down"
        /\ (catalogLost => catalogLost')
    BY <1>16 DEF PowerFailure, Stop
  <2>2. QED
    BY <2>1
<1>17. CASE Terminated
  BY <1>17 DEF Terminated, vars, memory, fields, applying, ghosts
<1>18. QED
  BY <1>2, <1>3, <1>4, <1>5, <1>6, <1>7, <1>8, <1>9, <1>10, <1>11, <1>12, <1>13, <1>14, <1>15, <1>16,
     <1>17 DEF Next
-----------------------------------------------------------------------------
(* What the files hold.                                                    *)

(* A step that leaves the MANIFEST of CURRENT alone, and VersionSets good. *)
LEMMA GoodFilesFrame ==
  ASSUME Typed, GoodFiles,
         current' = current,
         current \in DOMAIN manifests => current \in DOMAIN manifests' /\ manifests'[current] = manifests[current],
         current \in DOMAIN manifests' => current \in DOMAIN manifests,
         \A vs : Good(vs) => Good(vs)',
         \A n \in DOMAIN tables : n \in DOMAIN tables' /\ tables'[n] = tables[n],
         DOMAIN logs \subseteq DOMAIN logs',
         Rewriting => pc' = "snapshot" \/ catalogLost'
  PROVE  GoodFiles'
<1>1. CASE current = 0
  <2>1. Good(NewVersionSet)'
    BY <1>1 DEF GoodFiles
  <2>2. ~Rewriting'
    BY <1>1 DEF Rewriting, Typed, FilesTyped
  <2>3. QED
    BY <1>1, <2>1, <2>2 DEF GoodFiles
<1>2. CASE current # 0
  <2> DEFINE f == manifests[current]
  <2>1. current \in DOMAIN manifests
    BY <1>2 DEF GoodFiles
  <2>2. PICK g : g = f
    OBVIOUS
  <2>3. /\ current \in DOMAIN manifests' /\ manifests'[current'] = g
        /\ g.recs \in Seq(FiniteEdit) /\ g.synced \in Nat /\ Len(g.recs) \in Nat /\ g.synced <= Len(g.recs)
    BY <2>1, <2>2 DEF Typed, FilesTyped, File
  <2>4. \A k : Upto(current, k) = Recovered(g.recs)[k] /\ Upto(current, k)' = Recovered(g.recs)[k]
    BY <2>2, <2>3 DEF Upto
  <2>5. Rewriting' => pc' = "snapshot" \/ catalogLost'
    BY <2>1, <2>2, <2>3 DEF Rewriting
  <2>6. Recovered(g.recs)[0].files = {}
    BY <2>3, ReplayStep DEF NewVersionSet
  <2>7. ASSUME NEW k \in g.synced .. Len(g.recs)
        PROVE  /\ Recovered(g.recs)[k].files \subseteq DOMAIN tables
               /\ k # 0 => Good(Recovered(g.recs)[k])
               /\ Named(Recovered(g.recs)[k].log)
               /\ Contents(Recovered(g.recs)[g.synced].files) \subseteq Contents(Recovered(g.recs)[k].files)
    <3>1. /\ Named(Upto(current, k).log)
          /\ k # 0 => Good(Upto(current, k))
          /\ Contents(Upto(current, f.synced).files) \subseteq Contents(Upto(current, k).files)
      BY <1>2, <2>2, <2>7 DEF GoodFiles
    <3>2. /\ Named(Recovered(g.recs)[k].log)
          /\ k # 0 => Good(Recovered(g.recs)[k])
          /\ Contents(Recovered(g.recs)[g.synced].files) \subseteq Contents(Recovered(g.recs)[k].files)
      BY <2>2, <2>4, <3>1
    <3>3. Recovered(g.recs)[k].files \subseteq DOMAIN tables
      BY <2>6, <3>2 DEF Good
    <3>4. QED
      BY <3>2, <3>3
  <2>8. \A fs : fs \subseteq DOMAIN tables => Contents(fs)' = Contents(fs)
    BY ContentsKept
  <2>9. \A l : Named(l) => Named(l)'
    BY DEF Named
  <2>10. g.synced \in g.synced .. Len(g.recs)
    BY <2>3
  <2>11. ASSUME NEW k \in g.synced .. Len(g.recs)
         PROVE  /\ Named(Recovered(g.recs)[k].log)'
                /\ k # 0 => Good(Recovered(g.recs)[k])'
                /\ Contents(Recovered(g.recs)[g.synced].files)' \subseteq Contents(Recovered(g.recs)[k].files)'
    <3> DEFINE vs == Recovered(g.recs)[k]
               ws == Recovered(g.recs)[g.synced]
    <3>1. Named(vs.log) /\ (k # 0 => Good(vs)) /\ Contents(ws.files) \subseteq Contents(vs.files)
      BY <2>7
    <3>2. vs.files \subseteq DOMAIN tables /\ ws.files \subseteq DOMAIN tables
      BY <2>7, <2>10
    <3> HIDE DEF vs, ws
    <3>3. Named(vs.log)' /\ (k # 0 => Good(vs)')
      BY <2>9, <3>1
    <3>4. Contents(ws.files)' = Contents(ws.files) /\ Contents(vs.files)' = Contents(vs.files)
      BY <2>8, <3>2
    <3>5. QED
      BY <3>1, <3>3, <3>4 DEF vs, ws
  <2>12. QED
    BY <1>2, <2>3, <2>4, <2>5, <2>11 DEF GoodFiles
<1>3. QED
  BY <1>1, <1>2

(* What a power failure takes is no longer owed.                           *)
LEMMA GoodAfterFailure ==
  ASSUME Typed, PowerFailure, NEW vs, Good(vs), vs.log \in Nat,
         Contents(SyncedTables) \subseteq Contents(vs.files)
  PROVE  Good(vs)'
<1>1. /\ UNCHANGED <<tables, stable, syncFailed>> /\ (~catalogLost' => ~catalogLost) /\ FilesTyped
      /\ DOMAIN logs' = DOMAIN logs
      /\ \A n \in DOMAIN logs : logs'[n] \in Remains(logs[n])
  BY DEF PowerFailure, Stop, Typed
<1>2. \A n \in DOMAIN logs :
        /\ n \in Nat
        /\ logs'[n].synced = Len(logs'[n].recs)
        /\ logs[n].synced \in Nat /\ logs[n].synced <= Len(logs'[n].recs)
        /\ logs'[n].recs \in Seq(Rec) /\ Len(logs'[n].recs) \in Nat
        /\ Len(logs'[n].recs) <= Len(logs[n].recs) /\ Len(logs[n].recs) \in Nat
        /\ \A i \in 1 .. Len(logs'[n].recs) : logs'[n].recs[i] = logs[n].recs[i]
  <2>1. SUFFICES ASSUME NEW n \in DOMAIN logs
                 PROVE  /\ n \in Nat
                        /\ logs'[n].synced = Len(logs'[n].recs)
                        /\ logs[n].synced \in Nat /\ logs[n].synced <= Len(logs'[n].recs)
                        /\ logs'[n].recs \in Seq(Rec) /\ Len(logs'[n].recs) \in Nat
                        /\ Len(logs'[n].recs) <= Len(logs[n].recs) /\ Len(logs[n].recs) \in Nat
                        /\ \A i \in 1 .. Len(logs'[n].recs) : logs'[n].recs[i] = logs[n].recs[i]
    OBVIOUS
  <2>2. logs[n] \in File(Rec) /\ logs'[n] \in Remains(logs[n]) /\ n \in Nat
    BY <1>1 DEF FilesTyped
  <2>3. /\ logs'[n] \in File(Rec) /\ logs'[n].synced = Len(logs'[n].recs)
        /\ logs[n].synced <= Len(logs'[n].recs) /\ Len(logs'[n].recs) <= Len(logs[n].recs)
        /\ Len(logs[n].recs) \in Nat
        /\ \A i \in 1 .. Len(logs'[n].recs) : logs'[n].recs[i] = logs[n].recs[i]
    BY <2>2, FileCut
  <2>4. logs[n].synced \in Nat /\ logs'[n].recs \in Seq(Rec) /\ Len(logs'[n].recs) \in Nat
    BY <2>2, <2>3 DEF File
  <2>5. QED
    BY <2>2, <2>3, <2>4
<1>3. \A r \in owed' : \/ r \in stable \/ r \in Contents(SyncedTables)
                       \/ \E n \in DOMAIN logs : Contains(logs'[n].recs, r)
  BY DEF PowerFailure
<1>4. owed' \subseteq owed /\ Contents(vs.files)' = Contents(vs.files)
  BY <1>1 DEF PowerFailure, Contents
<1>5. ASSUME ~catalogLost', NEW r \in owed'
      PROVE  r \in Contents(vs.files) \/
               \E n \in DOMAIN logs : n >= vs.log /\ InLog(r, n, Len(logs[n].recs))'
  <2>1. ~catalogLost /\ r \in owed
    BY <1>1, <1>4, <1>5
  <2>2. CASE r \in stable
    <3>1. SUFFICES ASSUME NEW n \in DOMAIN logs, n >= vs.log, InLog(r, n, logs[n].synced)
                   PROVE  InLog(r, n, Len(logs[n].recs))'
      BY <2>1, <2>2 DEF Good
    <3>2. PICK i \in 1 .. logs[n].synced : logs[n].recs[i] = r
      BY <3>1 DEF InLog
    <3>3. i \in 1 .. Len(logs'[n].recs) /\ logs'[n].recs[i] = r
      BY <1>2, <3>2
    <3>4. QED
      BY <3>3 DEF InLog
  <2>3. CASE r \in Contents(SyncedTables)
    BY <2>3
  <2>4. CASE \E n \in DOMAIN logs : Contains(logs'[n].recs, r)
    <3>1. PICK n \in DOMAIN logs : Contains(logs'[n].recs, r)
      BY <2>4
    <3>2. PICK i \in 1 .. Len(logs'[n].recs) : logs'[n].recs[i] = r
      BY <3>1 DEF Contains
    <3>3. InLog(r, n, Len(logs[n].recs))'
      BY <3>2 DEF InLog
    <3>4. logs[n].recs[i] = r /\ i \in 1 .. Len(logs[n].recs) /\ n \in Nat
      BY <1>2, <3>2
    <3>5. n < vs.log => r \in Contents(vs.files)
      BY <2>1, <3>4 DEF Good
    <3>6. QED
      BY <3>3, <3>4, <3>5
  <2>5. QED
    BY <1>3, <1>5, <2>2, <2>3, <2>4
<1>6. ASSUME ~catalogLost', NEW n \in DOMAIN logs, n < vs.log, NEW i \in 1 .. Len(logs'[n].recs),
             logs'[n].recs[i] \in owed'
      PROVE  logs'[n].recs[i] \in Contents(vs.files)
  <2>1. logs'[n].recs[i] = logs[n].recs[i] /\ i \in 1 .. Len(logs[n].recs)
    BY <1>2
  <2>2. QED
    BY <1>1, <1>4, <1>6, <2>1 DEF Good
<1>7. vs.files \subseteq DOMAIN tables' /\ \A r \in Contents(vs.files)' : r.seq <= vs.last
  BY <1>1, <1>4 DEF Good
<1>8. \A r, n : n \in DOMAIN logs => (InLog(r, n, Len(logs[n].recs))' <=> InLog(r, n, logs[n].synced)')
  BY <1>2 DEF InLog
<1>9. ~syncFailed' => \A n \in DOMAIN logs' : n < vs.log =>
        \A i \in 1 .. Len(logs'[n].recs) : logs'[n].recs[i].seq <= vs.last
  <2>1. SUFFICES ASSUME ~syncFailed, NEW n \in DOMAIN logs, n < vs.log, NEW i \in 1 .. Len(logs'[n].recs)
                 PROVE  logs'[n].recs[i].seq <= vs.last
    BY <1>1
  <2>2. logs'[n].recs[i] = logs[n].recs[i] /\ i \in 1 .. Len(logs[n].recs)
    BY <1>2
  <2>3. QED
    BY <2>1, <2>2 DEF Good
<1>10. QED
  BY <1>1, <1>4, <1>5, <1>6, <1>7, <1>8, <1>9 DEF Good

(* Of the MANIFEST that CURRENT names, it leaves one of the beginnings     *)
(* that GoodFiles is about.                                                *)
LEMMA GoodFilesAfterFailure ==
  ASSUME Typed, GoodFiles, PowerFailure
  PROVE  GoodFiles'
<1>1. /\ current' = current /\ DOMAIN logs' = DOMAIN logs /\ DOMAIN manifests' = DOMAIN manifests
      /\ \A n \in DOMAIN manifests : manifests'[n] \in Remains(manifests[n])
      /\ UNCHANGED tables /\ FilesTyped
  BY DEF PowerFailure, Stop, Typed
<1>2. Rewriting' => catalogLost'
  BY DEF Rewriting, PowerFailure, Stop
<1>3. \A l : Named(l) => Named(l)'
  BY <1>1 DEF Named
<1>4. CASE current = 0
  <2>1. SyncedTables = {} /\ Contents({}) = {}
    BY <1>1, <1>4 DEF SyncedTables, FilesTyped, Contents
  <2>2. Good(NewVersionSet) /\ NewVersionSet.log \in Nat /\ NewVersionSet.files = {}
    BY <1>4 DEF GoodFiles, NewVersionSet
  <2>3. Good(NewVersionSet)'
    BY <2>1, <2>2, GoodAfterFailure
  <2>4. QED
    BY <1>1, <1>2, <1>4, <2>3 DEF GoodFiles
<1>5. CASE current # 0
  <2>1. current \in DOMAIN manifests
    BY <1>5 DEF GoodFiles
  <2>2. PICK f, g : f = manifests[current] /\ g = manifests'[current]
    OBVIOUS
  <2>3. f \in File(FiniteEdit) /\ g \in Remains(f)
    BY <1>1, <2>1, <2>2 DEF FilesTyped
  <2> DEFINE k == Len(g.recs)
             vs == Recovered(f.recs)[k]
  <2>4. /\ g.synced = k /\ f.synced <= k /\ k <= Len(f.recs) /\ Len(f.recs) \in Nat
        /\ Recovered(g.recs)[k] = vs
    BY <2>3, FileCut
  <2>5. /\ f.recs \in Seq(FiniteEdit) /\ f.synced \in Nat /\ k \in Nat
        /\ k \in f.synced .. Len(f.recs) /\ k \in 0 .. Len(f.recs)
    <3>1. g \in File(FiniteEdit)
      BY <2>3, FileCut
    <3>2. f.recs \in Seq(FiniteEdit) /\ f.synced \in Nat /\ k \in Nat
      BY <2>3, <3>1 DEF File
    <3>3. QED
      BY <2>4, <3>2
  <2>6. vs \in VersionSets
    BY <2>5, RecoveredType
  <2>7. vs.log \in Nat
    BY <2>6 DEF VersionSets
  <2>8. /\ Named(vs.log) /\ (k # 0 => Good(vs))
        /\ Contents(SyncedTables) \subseteq Contents(vs.files)
    <3>1. /\ Named(Upto(current, k).log) /\ (k # 0 => Good(Upto(current, k)))
          /\ Contents(Upto(current, f.synced).files) \subseteq Contents(Upto(current, k).files)
      BY <1>5, <2>2, <2>5 DEF GoodFiles
    <3>2. Upto(current, k) = vs /\ SyncedTables = Upto(current, f.synced).files
      BY <2>1, <2>2 DEF Upto, SyncedTables
    <3>3. QED
      BY <3>1, <3>2
  <2> HIDE DEF vs, k
  <2>9. Named(vs.log)' /\ (k # 0 => Good(vs)')
    BY <1>3, <2>7, <2>8, GoodAfterFailure
  <2>10. Upto(current, k)' = vs /\ (manifests[current].synced)' = k /\ Len(manifests[current].recs)' = k
    BY <1>1, <2>2, <2>4 DEF Upto, k
  <2>11. \A j \in k .. k : j = k
    BY <2>5
  <2>12. QED
    BY <1>1, <1>2, <1>5, <2>1, <2>9, <2>10, <2>11 DEF GoodFiles
<1>6. QED
  BY <1>4, <1>5

(* Every step, a kill and a power failure among them, leaves a directory   *)
(* that is good to recover from.                                           *)
LEMMA GoodFilesKept ==
  ASSUME Typed, NumbersAhead, GoodFiles, CatalogClosed, NewDatabase, CurrentLog, Next,
         Typed', GoodMemory', GoodEdit', CatalogClosed', CatalogOpen',
         CatalogSettled', CatalogBegun', CatalogLogged', CatalogSynced'
  PROVE  GoodFiles'
<1>1. Running' /\ (writing' \/ current' = 0) => GoodFiles'
  <2>1. Written' => GoodFiles'
    BY FilesFromMemory, PTL
  <2>2. QED
    BY <2>1 DEF Written
<1>2. writing \in BOOLEAN
  BY DEF Typed, MemoryTyped
<1>3. Steady => writing \/ current = 0
  BY DEF CurrentLog, LogCounts
<1>4. Midway => writing
  BY DEF CatalogClosed, Running, Midway
<1>5. ASSUME UNCHANGED <<disk, ghosts>>, pc # "snapshot"
      PROVE  GoodFiles'
  <2>1. \A vs : Good(vs) => Good(vs)'
    BY <1>5, GoodSame DEF disk, ghosts
  <2>2. Rewriting => pc' = "snapshot" \/ catalogLost'
    BY <1>5 DEF GoodFiles, ghosts
  <2>3. QED
    BY <1>5, <2>1, <2>2, GoodFilesFrame DEF disk, ghosts
<1>6. CASE OpenRecover \/ OpenFails \/ ReplayRecord \/ ReplayAborts \/ ReplayEnd \/ ReplayDone \/ Terminated
  BY <1>5, <1>6 DEF OpenRecover, OpenFails, ReplayRecord, ReplayAborts, ReplayEnd, ReplayDone,
     Terminated, vars, Running
<1>7. CASE NewLog
  <2>1. \A vs : Good(vs) => Good(vs)'
    BY <1>7, GoodLogAdded
  <2>2. DOMAIN logs \subseteq DOMAIN logs'
    BY <1>7, NewLogNumber
  <2>3. UNCHANGED <<tables, manifests, current, catalogLost>> /\ pc # "snapshot"
    BY <1>7 DEF NewLog, ghosts
  <2>4. Rewriting => catalogLost'
    BY <2>3 DEF GoodFiles
  <2>5. QED
    BY <2>1, <2>2, <2>3, <2>4, GoodFilesFrame
<1>8. CASE BuildTable
  <2>1. /\ next_file_number \notin DOMAIN tables
        /\ tables' = Put(tables, next_file_number, imm)
        /\ UNCHANGED <<logs, manifests, current, owed, stable, catalogLost, syncFailed>> /\ pc # "snapshot"
    BY <1>8 DEF BuildTable, NumbersAhead, FileNumbers, Running, Typed, FilesTyped, MemoryTyped, ghosts
  <2>2. \A vs : Good(vs) => Good(vs)'
    BY <2>1, GoodNewTable DEF Typed
  <2>3. \A n \in DOMAIN tables : n \in DOMAIN tables' /\ tables'[n] = tables[n]
    BY <2>1 DEF Put
  <2>4. Rewriting => catalogLost'
    BY <2>1 DEF GoodFiles
  <2>5. QED
    BY <2>1, <2>2, <2>3, <2>4, GoodFilesFrame
<1>9. CASE CreateManifest
  BY <1>1, <1>9 DEF CreateManifest, Running
<1>10. CASE WriteSnapshot \/ LogEdit \/ SyncManifest \/ WriteTemp \/ RenameTemp
  <2>1. writing' /\ pc' \in {"record", "sync", "temp", "rename", "install"}
    BY <1>4, <1>10 DEF WriteSnapshot, LogEdit, SyncManifest, WriteTemp, RenameTemp, Midway, applying
  <2>2. QED
    BY <1>1, <2>1 DEF Running
<1>11. CASE Install
  <2>1. writing' /\ pc' \in Returns
    BY <1>4, <1>11 DEF Install, Midway, Typed, MemoryTyped
  <2>2. QED
    BY <1>1, <2>1 DEF Running, Returns
<1>12. CASE RemoveObsoleteFile \/ RemoveDone \/ BeginWrite \/ LogWrite \/ SyncLog \/ SyncLogFails
            \/ Insert \/ Compact
  <2>1. Steady
    BY <1>12 DEF Steady, RemoveObsoleteFile, RemoveDone, BeginWrite, LogWrite, SyncLog, SyncLogFails,
       Insert, Compact
  <2>2. UNCHANGED <<writing, current>>
    BY <1>12 DEF RemoveObsoleteFile, RemoveDone, BeginWrite, LogWrite, SyncLog, SyncLogFails,
       Insert, Compact, disk, applying
  <2>3. Running'
    BY <1>12 DEF Running, RemoveObsoleteFile, RemoveDone, BeginWrite, LogWrite, SyncLog, SyncLogFails,
       Insert, Compact
  <2>4. QED
    BY <1>1, <1>3, <2>1, <2>2, <2>3
<1>13. CASE Kill
  <2>1. /\ UNCHANGED <<tables, current, owed, stable, syncFailed>>
        /\ (catalogLost => catalogLost') /\ (Rewriting' => catalogLost')
    BY <1>13 DEF Kill, Stop, Rewriting
  <2>2. /\ DOMAIN logs' = DOMAIN logs
        /\ \A n \in DOMAIN logs : logs'[n].recs = logs[n].recs /\ logs'[n].synced = logs[n].synced
    BY <1>13 DEF Kill, Typed, FilesTyped, File
  <2>3. /\ DOMAIN manifests' = DOMAIN manifests
        /\ \A n \in DOMAIN manifests : /\ manifests'[n].recs = manifests[n].recs
                                       /\ manifests'[n].synced = manifests[n].synced
    BY <1>13 DEF Kill, Typed, FilesTyped, File
  <2>4. \A vs : Good(vs) => Good(vs)'
    <3>1. SUFFICES ASSUME NEW vs, Good(vs) PROVE Good(vs)'
      OBVIOUS
    <3>2. \A n \in DOMAIN logs : Len(logs[n].recs) \in Nat /\ logs[n].synced \in Nat
      BY DEF Typed, FilesTyped, File
    <3>3. \A n \in vs.files : n \in DOMAIN tables' /\ tables'[n] = tables[n]
      BY <2>1, <3>1 DEF Good
    <3>4. QED
      BY <2>1, <2>2, <3>1, <3>2, <3>3, GoodKept DEF Typed
  <2>5. \A l : Named(l) => Named(l)'
    BY <2>2 DEF Named
  <2>6. \A fs : Contents(fs)' = Contents(fs)
    BY <2>1 DEF Contents
  <2>7. CASE current = 0
    BY <2>1, <2>4, <2>7 DEF GoodFiles
  <2>8. CASE current # 0
    <3>1. current \in DOMAIN manifests
      BY <2>8 DEF GoodFiles
    <3>2. PICK edits, s : edits = manifests[current].recs /\ s = manifests[current].synced
      OBVIOUS
    <3>3. manifests'[current'].recs = edits /\ manifests'[current'].synced = s /\ current' \in DOMAIN manifests'
      BY <2>1, <2>3, <3>1, <3>2
    <3>4. \A k : Upto(current, k) = Recovered(edits)[k] /\ Upto(current, k)' = Recovered(edits)[k]
      BY <3>2, <3>3 DEF Upto
    <3>5. \A k \in s .. Len(edits) :
            /\ Named(Recovered(edits)[k].log)
            /\ k # 0 => Good(Recovered(edits)[k])
            /\ Contents(Recovered(edits)[s].files) \subseteq Contents(Recovered(edits)[k].files)
      BY <2>8, <3>2, <3>4 DEF GoodFiles
    <3>6. \A k \in s .. Len(edits) :
            /\ Named(Recovered(edits)[k].log)'
            /\ k # 0 => Good(Recovered(edits)[k])'
            /\ Contents(Recovered(edits)[s].files)' \subseteq Contents(Recovered(edits)[k].files)'
      BY <2>4, <2>5, <2>6, <3>5
    <3>7. QED
      BY <2>1, <2>8, <3>3, <3>4, <3>6 DEF GoodFiles
  <2>9. QED
    BY <2>7, <2>8
<1>14. CASE PowerFailure
  BY <1>14, GoodFilesAfterFailure
<1>15. QED
  BY <1>6, <1>7, <1>8, <1>9, <1>10, <1>11, <1>12, <1>13, <1>14 DEF Next
-----------------------------------------------------------------------------
(* No sequence number twice in the logs, and no replay aborts.             *)

(* Replay reads a log that exists.                                         *)
LEMMA ReplayPlace ==
  ASSUME Typed, Replayed, pc = "replay", todo # {}
  PROVE  /\ Min(todo) \in todo /\ Min(todo) \in DOMAIN logs /\ Min(todo) \in Nat /\ pos \in Nat
         /\ Len(logs[Min(todo)].recs) \in Nat
<1>1. todo \subseteq DOMAIN logs /\ todo \subseteq Nat /\ pos \in Nat
  BY DEF Replayed, Running, Typed, MemoryTyped
<1>2. Min(todo) \in todo
  BY <1>1, LeastInSet
<1>3. QED
  BY <1>1, <1>2 DEF Typed, FilesTyped, File

(* Replay moves on: what it has read stays read.                           *)
LEMMA PendingShrinks ==
  ASSUME Typed, Replayed, ReplayRecord \/ (ReplayEnd /\ pc' = "replay"),
         NEW n, NEW i \in Nat, ~Pending(n, i)
  PROVE  ~Pending(n, i)'
<1>1. /\ pc = "replay" /\ todo # {} /\ pos \in Nat
  BY DEF ReplayRecord, ReplayEnd, Typed, MemoryTyped
<1>2. CASE ReplayRecord
  <2>1. todo' = todo /\ pos' = pos + 1
    BY <1>2 DEF ReplayRecord
  <2>2. n \in todo => n = Min(todo) /\ i < pos
    BY DEF Pending
  <2>3. QED
    BY <1>1, <2>1, <2>2 DEF Pending
<1>3. CASE ReplayEnd /\ pc' = "replay"
  <2>1. todo' = todo \ {Min(todo)}
    BY <1>3 DEF ReplayEnd
  <2>2. QED
    BY <2>1 DEF Pending
<1>4. QED
  BY <1>2, <1>3

(* A step that adds no record to a log and leaves replay where it is.      *)
LEMMA NumberedFrame ==
  ASSUME Typed, Numbered, syncFailed => syncFailed',
         \A n \in DOMAIN logs' : \A i \in 1 .. Len(logs'[n].recs) :
           n \in DOMAIN logs /\ i \in 1 .. Len(logs[n].recs) /\ logs'[n].recs[i] = logs[n].recs[i],
         Running' => Running /\ UNCHANGED <<todo, pos>> /\ Reached <= Reached' /\ Reached' \in Nat
  PROVE  Numbered'
<1>1. SUFFICES ASSUME ~syncFailed', ~syncFailed PROVE Numbered'
  BY DEF Numbered
<1>2. \A n, m \in DOMAIN logs' : \A i \in 1 .. Len(logs'[n].recs), j \in 1 .. Len(logs'[m].recs) :
        logs'[n].recs[i].seq = logs'[m].recs[j].seq => n = m /\ i = j
  BY <1>1 DEF Numbered
<1>3. ASSUME Running', NEW n \in DOMAIN logs', NEW i \in 1 .. Len(logs'[n].recs), ~Pending(n, i)'
      PROVE  logs'[n].recs[i].seq <= Reached'
  <2>1. n \in DOMAIN logs /\ i \in 1 .. Len(logs[n].recs) /\ logs'[n].recs[i] = logs[n].recs[i]
    OBVIOUS
  <2>2. ~Pending(n, i)
    BY <1>3 DEF Pending
  <2>3. logs[n].recs[i].seq <= Reached
    BY <1>1, <1>3, <2>1, <2>2 DEF Numbered
  <2>4. logs[n].recs[i].seq \in Nat /\ Reached \in Nat
    <3>1. logs[n].recs \in Seq(Rec)
      BY <2>1 DEF Typed, FilesTyped, File
    <3>2. logs[n].recs[i] \in Rec
      BY <2>1, <3>1, ElementOfSeq
    <3>3. QED
      BY <3>2 DEF Rec, Reached, Typed, MemoryTyped
  <2>5. QED
    BY <1>3, <2>1, <2>3, <2>4
<1>4. QED
  BY <1>2, <1>3 DEF Numbered

(* The record of a write gets a number above those of all others, and      *)
(* replay brings last_sequence_ up to every record it reads.               *)
LEMMA NumberedKept ==
  ASSUME Typed, NumbersAhead, GoodFiles, Replayed, NewDatabase, CurrentLog, Numbered, Next
  PROVE  Numbered'
<1>1. last_sequence \in Nat /\ pos \in Nat /\ todo \subseteq Nat /\ Reached \in Nat
  BY DEF Typed, MemoryTyped, Reached
<1>2. \A n \in DOMAIN logs : /\ n \in Nat /\ Len(logs[n].recs) \in Nat
                             /\ \A i \in 1 .. Len(logs[n].recs) : logs[n].recs[i].seq \in Nat
  <2>1. SUFFICES ASSUME NEW n \in DOMAIN logs
                 PROVE  /\ n \in Nat /\ Len(logs[n].recs) \in Nat
                        /\ \A i \in 1 .. Len(logs[n].recs) : logs[n].recs[i].seq \in Nat
    OBVIOUS
  <2>2. n \in Nat /\ logs[n].recs \in Seq(Rec) /\ Len(logs[n].recs) \in Nat
    BY DEF Typed, FilesTyped, File
  <2>3. \A i \in 1 .. Len(logs[n].recs) : logs[n].recs[i] \in Rec
    BY <2>2, ElementOfSeq
  <2>4. QED
    BY <2>2, <2>3 DEF Rec
<1>3. ASSUME UNCHANGED logs, syncFailed => syncFailed',
             Running' => Running /\ UNCHANGED <<todo, pos>> /\ Reached <= Reached' /\ Reached' \in Nat
      PROVE  Numbered'
  BY <1>3, NumberedFrame
<1>4. CASE OpenRecover
  <2>1. /\ UNCHANGED <<logs, syncFailed>> /\ last_sequence' = OnDisk.last /\ pc' = "replay"
        /\ todo' = LogsToReplay(OnDisk.log) /\ pos' = 1 /\ pc = "down"
    BY <1>4 DEF OpenRecover, disk, ghosts
  <2>2. Good(OnDisk) /\ OnDisk.log \in Nat
    BY <2>1, GoodOnDisk, OnDiskType DEF VersionSets, Typed
  <2>3. SUFFICES ASSUME ~syncFailed, NEW n \in DOMAIN logs, NEW i \in 1 .. Len(logs[n].recs), ~Pending(n, i)'
                 PROVE  logs[n].recs[i].seq <= OnDisk.last
    BY <2>1 DEF Numbered, Reached
  <2>4. ~(i < 1)
    BY <1>2
  <2>5. n \notin LogsToReplay(OnDisk.log)
    BY <2>1, <2>3, <2>4 DEF Pending
  <2>6. n < OnDisk.log
    BY <1>2, <2>2, <2>5 DEF LogsToReplay
  <2>7. QED
    BY <2>2, <2>3, <2>6 DEF Good
<1>5. CASE ReplayRecord
  <2> DEFINE m == Min(todo)
             rec == logs[m].recs[pos]
  <2>1. /\ UNCHANGED <<logs, syncFailed, todo>> /\ last_sequence' = Larger(last_sequence, rec.seq)
        /\ pos' = pos + 1 /\ pc' \in {"flush", "replay"} /\ pc = "replay" /\ todo # {}
        /\ pos <= Len(logs[m].recs)
    BY <1>5 DEF ReplayRecord, disk, ghosts
  <2>2. m \in todo /\ m \in DOMAIN logs /\ pos \in 1 .. Len(logs[m].recs)
    BY <1>2, <2>1, ReplayPlace DEF Typed, MemoryTyped
  <2>3. rec.seq \in Nat /\ last_sequence' \in Nat /\ rec.seq <= last_sequence' /\ last_sequence <= last_sequence'
    BY <1>1, <1>2, <2>1, <2>2 DEF Larger
  <2>4. ASSUME ~syncFailed, NEW n \in DOMAIN logs, NEW i \in 1 .. Len(logs[n].recs), ~Pending(n, i)'
        PROVE  logs[n].recs[i].seq <= last_sequence'
    <3>1. logs[n].recs[i].seq \in Nat /\ i \in Nat
      BY <1>2
    <3>2. CASE ~Pending(n, i)
      <4>1. logs[n].recs[i].seq <= last_sequence
        BY <2>1, <2>4, <3>2 DEF Numbered, Reached, Running
      <4>2. QED
        BY <1>1, <2>3, <3>1, <4>1
    <3>3. CASE Pending(n, i)
      <4>1. n \in todo /\ n = m /\ i < pos + 1 /\ ~(i < pos)
        BY <2>1, <2>4, <3>3 DEF Pending
      <4>2. i = pos
        BY <1>1, <3>1, <4>1
      <4>3. QED
        BY <2>3, <4>1, <4>2
    <3>4. QED
      BY <3>2, <3>3
  <2> HIDE DEF m, rec
  <2>5. QED
    BY <2>1, <2>4 DEF Numbered, Reached
<1>6. CASE ReplayEnd
  <2> DEFINE m == Min(todo)
  <2>1. /\ UNCHANGED <<logs, syncFailed, last_sequence>> /\ pc = "replay" /\ todo # {}
        /\ pos > Len(logs[m].recs)
        /\ pc' = "failed" \/ (pc' = "replay" /\ todo' = todo \ {m} /\ pos' = 1)
    BY <1>6 DEF ReplayEnd, disk, ghosts
  <2>2. m \in todo /\ m \in DOMAIN logs
    BY <2>1, ReplayPlace
  <2>3. CASE pc' = "failed"
    BY <1>3, <2>1, <2>3 DEF Running
  <2>4. CASE pc' = "replay" /\ todo' = todo \ {m} /\ pos' = 1
    <3>1. SUFFICES ASSUME ~syncFailed, NEW n \in DOMAIN logs, NEW i \in 1 .. Len(logs[n].recs), ~Pending(n, i)'
                   PROVE  logs[n].recs[i].seq <= last_sequence
      BY <2>1, <2>4 DEF Numbered, Reached
    <3>2. ~(i < 1)
      BY <1>2
    <3>3. n \notin todo \/ n = m
      BY <2>4, <3>1, <3>2 DEF Pending
    <3>4. n = m => i < pos
      BY <1>1, <1>2, <2>1
    <3>5. ~Pending(n, i)
      BY <3>3, <3>4 DEF Pending
    <3>6. QED
      BY <2>1, <3>1, <3>5 DEF Numbered, Reached, Running
  <2>5. QED
    BY <2>1, <2>3, <2>4
<1>7. CASE LogWrite
  <2> DEFINE f == logs[logfile_number]
             k == Len(f.recs)
  <2>1. /\ logs' = [logs EXCEPT ![logfile_number] = AddRecord(@, NewRec)]
        /\ UNCHANGED <<syncFailed, last_sequence, todo, pos>> /\ pc = "log" /\ pc' \in {"logsync", "insert"}
    BY <1>7 DEF LogWrite, memory, opening, ghosts
  <2>2. logfile_number \in DOMAIN logs /\ NewRec \in Rec /\ todo = {} /\ Running
    <3>1. logfile_number \in DOMAIN logs
      BY <2>1 DEF CurrentLog, LogCounts, Steady
    <3>2. NewRec \in Rec
      BY <2>1 DEF Typed, MemoryTyped, CurrentLog, LogNumbered, InWrite, NewRec, Rec
    <3>3. todo = {}
      BY <2>1 DEF Replayed, Running, Applying, Midway
    <3>4. QED
      BY <2>1, <3>1, <3>2, <3>3 DEF Running
  <2>3. /\ DOMAIN logs' = DOMAIN logs /\ logs'[logfile_number] = AddRecord(f, NewRec)
        /\ \A n \in DOMAIN logs : n # logfile_number => logs'[n] = logs[n]
    BY <2>1, <2>2
  <2>4. /\ Len(AddRecord(f, NewRec).recs) = k + 1 /\ k \in Nat
        /\ \A i \in 1 .. k : AddRecord(f, NewRec).recs[i] = f.recs[i]
        /\ AddRecord(f, NewRec).recs[k + 1] = NewRec
    <3>1. f \in File(Rec)
      BY <2>2 DEF Typed, FilesTyped
    <3>2. QED
      BY <2>2, <3>1, FileGrown
  <2>5. NewRec.seq = last_sequence + 1
    BY DEF NewRec
  <2>6. ASSUME NEW n \in DOMAIN logs, NEW i \in 1 .. Len(logs'[n].recs)
        PROVE  \/ n = logfile_number /\ i = k + 1 /\ logs'[n].recs[i] = NewRec
               \/ i \in 1 .. Len(logs[n].recs) /\ logs'[n].recs[i] = logs[n].recs[i]
    BY <2>3, <2>4, <2>6
  <2>7. ~syncFailed => \A n \in DOMAIN logs : \A i \in 1 .. Len(logs[n].recs) :
          logs[n].recs[i].seq <= last_sequence
    BY <2>1, <2>2 DEF Numbered, Pending, Reached
  <2> HIDE DEF f, k
  <2>8. ASSUME ~syncFailed, NEW n \in DOMAIN logs, NEW i \in 1 .. Len(logs'[n].recs)
        PROVE  logs'[n].recs[i].seq <= last_sequence + 1
    <3>1. CASE logs'[n].recs[i] = NewRec
      BY <1>1, <2>5, <3>1
    <3>2. CASE i \in 1 .. Len(logs[n].recs) /\ logs'[n].recs[i] = logs[n].recs[i]
      BY <1>1, <1>2, <2>7, <2>8, <3>2
    <3>3. QED
      BY <2>6, <3>1, <3>2
  <2>9. ASSUME ~syncFailed, NEW n \in DOMAIN logs, NEW m \in DOMAIN logs,
               NEW i \in 1 .. Len(logs'[n].recs), NEW j \in 1 .. Len(logs'[m].recs),
               logs'[n].recs[i].seq = logs'[m].recs[j].seq
        PROVE  n = m /\ i = j
    <3>1. ASSUME NEW a \in DOMAIN logs, NEW b \in 1 .. Len(logs[a].recs), logs'[a].recs[b] = logs[a].recs[b]
          PROVE  logs'[a].recs[b].seq # last_sequence + 1
      BY <1>1, <1>2, <2>7, <2>9, <3>1
    <3>2. CASE n = logfile_number /\ i = k + 1 /\ logs'[n].recs[i] = NewRec
      <4>1. ~(j \in 1 .. Len(logs[m].recs) /\ logs'[m].recs[j] = logs[m].recs[j])
        BY <2>5, <2>9, <3>1, <3>2
      <4>2. QED
        BY <2>6, <3>2, <4>1
    <3>3. CASE i \in 1 .. Len(logs[n].recs) /\ logs'[n].recs[i] = logs[n].recs[i]
      <4>1. logs'[m].recs[j] # NewRec
        BY <2>5, <2>9, <3>1, <3>3
      <4>2. j \in 1 .. Len(logs[m].recs) /\ logs'[m].recs[j] = logs[m].recs[j]
        BY <2>6, <4>1
      <4>3. QED
        BY <2>9, <3>3, <4>2 DEF Numbered
    <3>4. QED
      BY <2>6, <3>2, <3>3
  <2>10. Reached' = last_sequence + 1
    BY <2>1 DEF Reached
  <2>11. QED
    BY <2>1, <2>3, <2>8, <2>9, <2>10 DEF Numbered
<1>8. CASE NewLog
  <2>1. /\ UNCHANGED <<syncFailed, last_sequence, todo, pos>> /\ pc = "newlog" /\ pc' \in {"apply", "remove"}
    BY <1>8 DEF NewLog, opening, ghosts
  <2>2. \A n \in DOMAIN logs' : (n \in DOMAIN logs /\ logs'[n] = logs[n]) \/ Len(logs'[n].recs) = 0
    BY <1>8, NewLogNumber
  <2>3. Running /\ Reached = last_sequence /\ Reached' = last_sequence
    BY <2>1 DEF Running, Reached
  <2>4. \A n \in DOMAIN logs' : \A i \in 1 .. Len(logs'[n].recs) :
          n \in DOMAIN logs /\ i \in 1 .. Len(logs[n].recs) /\ logs'[n].recs[i] = logs[n].recs[i]
    BY <2>2
  <2>5. QED
    BY <1>1, <2>1, <2>3, <2>4, NumberedFrame
<1>9. CASE SyncLog \/ RemoveObsoleteFile
  <2>1. UNCHANGED <<syncFailed, last_sequence, todo, pos>> /\ Running /\ Reached' = Reached
    BY <1>9 DEF SyncLog, RemoveObsoleteFile, memory, opening, ghosts, Running, Reached
  <2>2. \A n \in DOMAIN logs' : n \in DOMAIN logs /\ logs'[n].recs = logs[n].recs
    <3>1. CASE RemoveObsoleteFile
      BY <3>1, RemovalKeeps
    <3>2. CASE SyncLog
      <4>1. logs' = [logs EXCEPT ![logfile_number] = Synced(@)]
        BY <3>2 DEF SyncLog
      <4>2. \A f \in File(Rec) : Synced(f).recs = f.recs
        BY FileSynced
      <4>3. \A n \in DOMAIN logs : logs[n] \in File(Rec)
        BY DEF Typed, FilesTyped
      <4>4. QED
        BY <4>1, <4>2, <4>3
    <3>3. QED
      BY <1>9, <3>1, <3>2
  <2>3. QED
    BY <1>1, <2>1, <2>2, NumberedFrame
<1>10. CASE Insert
  <2>1. /\ UNCHANGED <<logs, syncFailed, todo, pos>> /\ Running
        /\ Reached = last_sequence + 1 /\ Reached' = last_sequence + 1
    BY <1>10 DEF Insert, disk, opening, Running, Reached
  <2>2. QED
    BY <1>1, <1>3, <2>1
<1>11. CASE SyncLogFails
  BY <1>11 DEF SyncLogFails, Numbered
<1>12. CASE Kill \/ PowerFailure
  <2>1. UNCHANGED syncFailed /\ ~Running'
    BY <1>12 DEF Kill, PowerFailure, Stop, Running
  <2>2. \A n \in DOMAIN logs' : \A i \in 1 .. Len(logs'[n].recs) :
          n \in DOMAIN logs /\ i \in 1 .. Len(logs[n].recs) /\ logs'[n].recs[i] = logs[n].recs[i]
    <3>1. CASE Kill
      BY <3>1 DEF Kill, Typed, FilesTyped, File
    <3>2. CASE PowerFailure
      <4>1. DOMAIN logs' = DOMAIN logs /\ \A n \in DOMAIN logs : logs'[n] \in Remains(logs[n])
        BY <3>2 DEF PowerFailure
      <4>2. \A n \in DOMAIN logs : /\ Len(logs'[n].recs) <= Len(logs[n].recs)
                                   /\ Len(logs'[n].recs) \in Nat
                                   /\ \A i \in 1 .. Len(logs'[n].recs) : logs'[n].recs[i] = logs[n].recs[i]
        <5>1. SUFFICES ASSUME NEW n \in DOMAIN logs
                       PROVE  /\ Len(logs'[n].recs) <= Len(logs[n].recs) /\ Len(logs'[n].recs) \in Nat
                              /\ \A i \in 1 .. Len(logs'[n].recs) : logs'[n].recs[i] = logs[n].recs[i]
          OBVIOUS
        <5>2. logs[n] \in File(Rec) /\ logs'[n] \in Remains(logs[n])
          BY <4>1 DEF Typed, FilesTyped
        <5>3. logs'[n] \in File(Rec) /\ Len(logs'[n].recs) <= Len(logs[n].recs)
              /\ \A i \in 1 .. Len(logs'[n].recs) : logs'[n].recs[i] = logs[n].recs[i]
          BY <5>2, FileCut
        <5>4. QED
          BY <5>3 DEF File
      <4>3. QED
        BY <1>2, <4>1, <4>2
    <3>3. QED
      BY <1>12, <3>1, <3>2
  <2>3. QED
    BY <2>1, <2>2, NumberedFrame
<1>13. CASE ReplayDone \/ BuildTable \/ CreateManifest \/ WriteSnapshot \/ LogEdit \/ SyncManifest
            \/ WriteTemp \/ RenameTemp
  <2>1. UNCHANGED <<logs, syncFailed, last_sequence, todo, pos>> /\ Running /\ Reached = last_sequence
    BY <1>13 DEF ReplayDone, BuildTable, CreateManifest, WriteSnapshot, LogEdit, SyncManifest,
       WriteTemp, RenameTemp, disk, memory, opening, ghosts, Running, Reached
  <2>2. Reached' = last_sequence
    BY <1>13, <2>1 DEF ReplayDone, BuildTable, CreateManifest, WriteSnapshot, LogEdit, SyncManifest,
       WriteTemp, RenameTemp, Reached
  <2>3. QED
    BY <1>1, <1>3, <2>1, <2>2
<1>14. CASE Install \/ RemoveDone \/ BeginWrite \/ Compact
  <2>1. UNCHANGED <<logs, syncFailed, last_sequence, todo, pos>> /\ Running /\ Reached = last_sequence
    BY <1>14 DEF Install, RemoveDone, BeginWrite, Compact, disk, memory, opening, ghosts, Running, Reached
  <2>2. Reached' = last_sequence
    BY <1>14, <2>1 DEF Install, RemoveDone, BeginWrite, Compact, Reached, Typed, MemoryTyped, Returns
  <2>3. QED
    BY <1>1, <1>3, <2>1, <2>2
<1>15. CASE OpenFails \/ ReplayAborts
  BY <1>3, <1>15 DEF OpenFails, ReplayAborts, disk, ghosts, Running
<1>16. CASE Terminated
  <2>1. UNCHANGED <<logs, syncFailed, last_sequence, todo, pos, pc>>
    BY <1>16 DEF Terminated, vars, disk, memory, opening, ghosts
  <2>2. Reached' = Reached /\ (Running' <=> Running)
    BY <2>1 DEF Reached, Running
  <2>3. QED
    BY <1>1, <1>3, <2>1, <2>2
<1>17. QED
  BY <1>4, <1>5, <1>6, <1>7, <1>8, <1>9, <1>10, <1>11, <1>12, <1>13, <1>14, <1>15, <1>16 DEF Next

(* What replay has put into the memtable, it has read from a log.          *)
LEMMA FromLogsKept ==
  ASSUME Typed, Replayed, Memtables, FromLogs, Next
  PROVE  FromLogs'
<1>1. CASE OpenRecover
  BY <1>1 DEF OpenRecover, FromLogs
<1>2. CASE ReplayRecord
  <2> DEFINE m == Min(todo)
             rec == logs[m].recs[pos]
  <2>1. /\ UNCHANGED <<logs, todo>> /\ pos' = pos + 1 /\ pc = "replay" /\ todo # {}
        /\ pos <= Len(logs[m].recs) /\ mem' \subseteq mem \cup {rec}
    BY <1>2 DEF ReplayRecord, disk
  <2>2. m \in DOMAIN logs /\ pos \in 1 .. Len(logs[m].recs)
    BY <2>1, ReplayPlace DEF Typed, MemoryTyped
  <2>3. \A n, i : n = m /\ i = pos => ~Pending(n, i)'
    BY <2>1, <2>2 DEF Pending
  <2>4. \A r \in mem : \E n \in DOMAIN logs : \E i \in 1 .. Len(logs[n].recs) :
          logs[n].recs[i] = r /\ ~Pending(n, i)'
    BY <1>2, <2>1, PendingShrinks DEF FromLogs
  <2>5. QED
    BY <2>1, <2>2, <2>3, <2>4 DEF FromLogs
<1>3. CASE ReplayEnd
  <2>1. SUFFICES ASSUME pc' = "replay" PROVE FromLogs'
    BY DEF FromLogs
  <2>2. UNCHANGED <<logs, mem>> /\ pc = "replay"
    BY <1>3 DEF ReplayEnd, disk
  <2>3. \A n : \A i \in Nat : ~Pending(n, i) => ~Pending(n, i)'
    BY <1>3, <2>1, PendingShrinks
  <2>4. QED
    BY <2>2, <2>3 DEF FromLogs
<1>4. CASE Install
  <2>1. SUFFICES ASSUME pc' = "replay" PROVE FromLogs'
    BY DEF FromLogs
  <2>2. ret = "replay" /\ pc = "install" /\ UNCHANGED mem
    BY <1>4, <2>1 DEF Install
  <2>3. mem = {}
    BY <2>2 DEF Memtables, Rotated, Applying, Midway, Running
  <2>4. QED
    BY <2>2, <2>3 DEF FromLogs
<1>5. CASE Terminated
  BY <1>5 DEF Terminated, vars, FromLogs
<1>6. CASE OpenFails \/ ReplayAborts \/ ReplayDone \/ NewLog \/ BuildTable \/ Kill \/ PowerFailure
  BY <1>6 DEF OpenFails, ReplayAborts, ReplayDone, NewLog, BuildTable, Kill, PowerFailure, Stop, FromLogs
<1>7. CASE CreateManifest \/ WriteSnapshot \/ LogEdit \/ SyncManifest \/ WriteTemp \/ RenameTemp
  BY <1>7 DEF CreateManifest, WriteSnapshot, LogEdit, SyncManifest, WriteTemp, RenameTemp, FromLogs
<1>8. CASE RemoveObsoleteFile \/ RemoveDone \/ BeginWrite \/ LogWrite
  BY <1>8 DEF RemoveObsoleteFile, RemoveDone, BeginWrite, LogWrite, FromLogs
<1>9. CASE SyncLog \/ SyncLogFails \/ Insert \/ Compact
  BY <1>9 DEF SyncLog, SyncLogFails, Insert, Compact, FromLogs
<1>10. QED
  BY <1>1, <1>2, <1>3, <1>4, <1>5, <1>6, <1>7, <1>8, <1>9 DEF Next

(* Open fails at a torn record only, and a replay aborts only where a      *)
(* sequence number was used twice.                                         *)
LEMMA OpenSucceedsKept ==
  ASSUME Typed, GoodFiles, Replayed, Numbered, FromLogs, OpenSucceeds, Next
  PROVE  OpenSucceeds'
<1>1. CASE OpenFails
  <2>1. /\ UNCHANGED manifests /\ pc' = "failed" /\ current # 0
        /\ current \in DOMAIN manifests => manifests[current].torn
    BY <1>1 DEF OpenFails, disk
  <2>2. current \in DOMAIN manifests
    BY <2>1 DEF GoodFiles
  <2>3. QED
    BY <2>1, <2>2 DEF OpenSucceeds
<1>2. CASE ReplayEnd
  <2>1. /\ UNCHANGED logs /\ pc = "replay" /\ todo # {}
        /\ pc' = "replay" \/ (pc' = "failed" /\ logs[Min(todo)].torn)
    BY <1>2 DEF ReplayEnd, disk
  <2>2. Min(todo) \in DOMAIN logs
    BY <2>1, ReplayPlace
  <2>3. QED
    BY <2>1, <2>2 DEF OpenSucceeds
<1>3. CASE ReplayAborts
  <2> DEFINE m == Min(todo)
             rec == logs[m].recs[pos]
  <2>1. /\ UNCHANGED syncFailed /\ pc = "replay" /\ pc' = "aborted" /\ todo # {}
        /\ pos <= Len(logs[m].recs)
    BY <1>3 DEF ReplayAborts, ghosts
  <2>2. PICK r \in mem : r.seq = rec.seq
    BY <1>3 DEF ReplayAborts
  <2>3. PICK n \in DOMAIN logs : \E i \in 1 .. Len(logs[n].recs) : logs[n].recs[i] = r /\ ~Pending(n, i)
    BY <2>1, <2>2 DEF FromLogs
  <2>4. PICK i \in 1 .. Len(logs[n].recs) : logs[n].recs[i] = r /\ ~Pending(n, i)
    BY <2>3
  <2>5. m \in todo /\ m \in DOMAIN logs /\ pos \in 1 .. Len(logs[m].recs)
    BY <2>1, ReplayPlace DEF Typed, MemoryTyped
  <2>6. Pending(m, pos)
    BY <2>5 DEF Pending
  <2>7. ~syncFailed => n = m /\ i = pos
    BY <2>2, <2>4, <2>5 DEF Numbered
  <2>8. syncFailed
    BY <2>4, <2>6, <2>7
  <2>9. QED
    BY <2>1, <2>8 DEF OpenSucceeds
<1>4. CASE Terminated
  BY <1>4 DEF Terminated, vars, disk, ghosts, OpenSucceeds
<1>5. CASE Install
  BY <1>5 DEF Install, OpenSucceeds, Typed, MemoryTyped, Returns
<1>6. CASE OpenRecover \/ ReplayRecord \/ ReplayDone \/ NewLog \/ BuildTable \/ Kill \/ PowerFailure
  BY <1>6 DEF OpenRecover, ReplayRecord, ReplayDone, NewLog, BuildTable, Kill, PowerFailure, Stop,
     OpenSucceeds
<1>7. CASE CreateManifest \/ WriteSnapshot \/ LogEdit \/ SyncManifest \/ WriteTemp \/ RenameTemp
  BY <1>7 DEF CreateManifest, WriteSnapshot, LogEdit, SyncManifest, WriteTemp, RenameTemp, OpenSucceeds
<1>8. CASE RemoveObsoleteFile
  <2>1. pc = "remove" /\ pc' = pc
    BY <1>8 DEF RemoveObsoleteFile
  <2>2. QED
    BY <2>1 DEF OpenSucceeds
<1>9. CASE RemoveDone \/ BeginWrite \/ LogWrite
  BY <1>9 DEF RemoveDone, BeginWrite, LogWrite, OpenSucceeds
<1>10. CASE SyncLog \/ SyncLogFails \/ Insert \/ Compact
  BY <1>10 DEF SyncLog, SyncLogFails, Insert, Compact, OpenSucceeds
<1>11. QED
  BY <1>1, <1>2, <1>3, <1>4, <1>5, <1>6, <1>7, <1>8, <1>9, <1>10 DEF Next

-----------------------------------------------------------------------------
(* The invariant is inductive.                                             *)

(* An empty directory.                                                     *)
LEMMA InvInit == ASSUME ConstantsAssumption, Init PROVE IInv
<1>1. /\ DOMAIN logs = {} /\ DOMAIN tables = {} /\ DOMAIN manifests = {}
      /\ logs = [n \in {} |-> EmptyFile] /\ manifests = [n \in {} |-> EmptyFile]
      /\ tables = [n \in {} |-> {}]
  BY DEF Init
<1>2. /\ temps = {} /\ current = 0 /\ pc = "down" /\ ret = "idle" /\ mem = {} /\ imm = {} /\ version = {}
      /\ log_number = 0 /\ next_file_number = 2 /\ set_sequence = 0 /\ last_sequence = 0
      /\ manifest_file_number = 0 /\ logfile_number = 1 /\ writing = FALSE /\ created = FALSE
      /\ edit = NoEdit /\ todo = {} /\ pos = 1 /\ found = [current |-> FALSE, logs |-> FALSE]
      /\ writes = 0 /\ owed = {} /\ stable = {} /\ catalogLost = FALSE /\ syncFailed = FALSE
  BY DEF Init
<1>3. FilesTyped
  BY <1>1, <1>2, FS_EmptySet DEF FilesTyped
<1>4. MemoryTyped
  <2>1. edit \in FiniteEdit
    BY <1>2, FS_EmptySet DEF NoEdit, FiniteEdit, Edit
  <2>2. writes \in 0 .. MaxWrites
    BY <1>2 DEF ConstantsAssumption
  <2>3. pc \in Places /\ ret \in Returns /\ found \in [current : BOOLEAN, logs : BOOLEAN]
    BY <1>2 DEF Places, Returns
  <2>4. /\ mem \subseteq Rec /\ imm \subseteq Rec /\ version \subseteq Nat /\ todo \subseteq Nat
        /\ owed \subseteq Rec /\ stable \subseteq Rec /\ IsFiniteSet(version)
    BY <1>2, FS_EmptySet
  <2>5. /\ log_number \in Nat /\ next_file_number \in Nat /\ next_file_number >= 2
        /\ manifest_file_number \in Nat /\ set_sequence \in Nat /\ last_sequence \in Nat
        /\ logfile_number \in Nat /\ pos \in Nat /\ pos >= 1
    BY <1>2
  <2>6. writing \in BOOLEAN /\ created \in BOOLEAN /\ catalogLost \in BOOLEAN /\ syncFailed \in BOOLEAN
    BY <1>2
  <2>7. QED
    BY <2>1, <2>2, <2>3, <2>4, <2>5, <2>6 DEF MemoryTyped
<1>5. ~Running /\ ~Applying /\ ~Midway /\ ~Steady /\ ~InWrite
  BY <1>2 DEF Running, Applying, Midway, Steady, InWrite
<1>6. GoodFiles
  <2>1. Contents({}) = {}
    BY DEF Contents
  <2>2. Good(NewVersionSet)
    BY <1>1, <1>2, <2>1 DEF Good, NewVersionSet
  <2>3. QED
    BY <1>1, <1>2, <2>2 DEF GoodFiles, Rewriting
<1>7. NumbersAhead /\ GoodMemory /\ Replayed /\ GoodEdit /\ Memtables /\ CatalogClosed
      /\ CatalogOpen /\ CatalogSettled /\ NewDatabase
  BY <1>5 DEF NumbersAhead, GoodMemory, Replayed, GoodEdit, Memtables, CatalogClosed,
     CatalogOpen, CatalogSettled, NewDatabase
<1>8. CatalogBegun /\ CatalogLogged /\ CatalogSynced
  BY <1>2 DEF CatalogBegun, CatalogLogged, CatalogSynced
<1>9. CurrentLog
  BY <1>1, <1>2, <1>5 DEF CurrentLog, LogCounts, LogHolds, LogNumbered
<1>10. Sequences /\ Numbered /\ FromLogs /\ OpenSucceeds
  BY <1>1, <1>2, <1>5 DEF Sequences, Numbered, FromLogs, OpenSucceeds
<1>11. QED
  BY <1>3, <1>4, <1>6, <1>7, <1>8, <1>9, <1>10 DEF IInv, Typed

(* What the invariant says depends on the state alone.                     *)
LEMMA InvStutter == ASSUME IInv, UNCHANGED vars PROVE IInv'
<1> USE DEF IInv, vars, disk, memory, fields, applying, opening, counters, ghosts
<1>1. FilesTyped' /\ MemoryTyped'
  BY DEF Typed, FilesTyped, MemoryTyped
<1>2. Steady' = Steady /\ Midway' = Midway /\ Applying' = Applying /\ Rotated' = Rotated
      /\ InOpen' = InOpen /\ InWrite' = InWrite /\ Running' = Running
  BY DEF Steady, Midway, Applying, Rotated, InOpen, InWrite, Running
<1>3. NumbersAhead'
  BY <1>2 DEF NumbersAhead, FileNumbers
<1>4. \A vs : Good(vs) <=> Good(vs)'
  BY DEF Good, Contents, InLog
<1>5. (\A l : Named(l)' <=> Named(l)) /\ \A fs : Contents(fs)' = Contents(fs)
  BY DEF Named, Contents
<1>6. Memory' = Memory /\ Target' = Target /\ Manifest' = Manifest /\ Count' = Count
      /\ (Rewriting' <=> Rewriting)
  BY DEF Memory, Target, Manifest, Count, Rewriting
<1>7. \A k : Upto(current, k)' = Upto(current, k)
  BY DEF Upto
<1>8. \A k : Upto(manifest_file_number, k)' = Upto(manifest_file_number, k)
  BY DEF Upto
<1>9. GoodFiles'
  BY <1>4, <1>5, <1>6, <1>7 DEF GoodFiles
<1>10. GoodMemory' /\ GoodEdit'
  BY <1>2, <1>4, <1>5, <1>6 DEF GoodMemory, GoodEdit
<1>11. Replayed' /\ Memtables' /\ NewDatabase'
  BY <1>2, <1>5 DEF Replayed, Memtables, NewDatabase
<1>12. CatalogClosed' /\ CatalogOpen' /\ CatalogSettled'
  BY <1>2, <1>6, <1>7, <1>8 DEF CatalogClosed, CatalogOpen, CatalogSettled
<1>13. CatalogBegun' /\ CatalogLogged' /\ CatalogSynced'
  BY <1>6, <1>8 DEF CatalogBegun, CatalogLogged, CatalogSynced
<1>14. CurrentLog'
  BY <1>2, <1>6 DEF CurrentLog, LogCounts, LogHolds, LogNumbered, InLog, NewRec
<1>15. Sequences'
  BY <1>2 DEF Sequences
<1>16. Numbered' /\ FromLogs' /\ OpenSucceeds'
  BY <1>2 DEF Numbered, FromLogs, OpenSucceeds, Pending, Reached
<1>17. QED
  BY <1>1, <1>3, <1>9, <1>10, <1>11, <1>12, <1>13, <1>14, <1>15, <1>16 DEF Typed

(* Every step keeps the invariant.                                         *)
LEMMA InvNext == ASSUME IInv, Next PROVE IInv'
<1> USE DEF IInv
<1>1. Typed'
  BY FilesTypedKept, MemoryTypedKept DEF Typed
<1>2. NumbersAhead' /\ Memtables' /\ NewDatabase'
  BY NumbersAheadKept, MemtablesKept, NewDatabaseKept
<1>3. CatalogClosed' /\ CatalogOpen' /\ CatalogSettled'
  BY CatalogClosedKept, CatalogOpenKept, CatalogSettledKept
<1>4. CatalogBegun' /\ CatalogLogged' /\ CatalogSynced'
  BY CatalogBegunKept, CatalogLoggedKept, CatalogSyncedKept
<1>5. GoodMemory'
  BY GoodMemoryKept
<1>6. GoodEdit'
  BY GoodEditKept
<1>7. Replayed'
  BY <1>5, ReplayedKept
<1>8. CurrentLog'
  BY LogCountsKept, LogHoldsKept, LogNumberedKept DEF CurrentLog
<1>9. Sequences'
  BY SequencesKept
<1>10. GoodFiles'
  BY <1>1, <1>3, <1>4, <1>5, <1>6, GoodFilesKept
<1>11. Numbered' /\ FromLogs' /\ OpenSucceeds'
  BY NumberedKept, FromLogsKept, OpenSucceedsKept
<1>12. QED
  BY <1>1, <1>2, <1>3, <1>4, <1>5, <1>6, <1>7, <1>8, <1>9, <1>10, <1>11

(* The invariant holds in every state, however often the process stops and *)
(* however much of the unsynced parts of the files is lost.                *)
THEOREM Invariant == Spec => []IInv
<1>1. Init => IInv
  BY ConstantsAssumption, InvInit
<1>2. IInv /\ [Next]_vars => IInv'
  BY InvNext, InvStutter
<1>3. QED
  BY <1>1, <1>2, PTL DEF Spec

-----------------------------------------------------------------------------
(* The properties.                                                         *)

(* The files and fields keep their types: edits, records and numbers.      *)
THEOREM TypeCorrect == Spec => []TypeOK
<1>1. Typed => TypeOK
  <2> SUFFICES ASSUME Typed PROVE TypeOK
    OBVIOUS
  <2>1. \A f \in File(Rec) : f \in [recs : Seq(Rec), synced : Nat, torn : BOOLEAN]
    BY DEF File
  <2>2. \A f \in File(FiniteEdit) : /\ f \in [recs : Seq(Edit), synced : Nat, torn : BOOLEAN]
                                    /\ f.synced <= Len(f.recs)
    BY DEF File, FiniteEdit
  <2>3. edit \in Edit
    BY DEF Typed, MemoryTyped, FiniteEdit
  <2>4. QED
    BY <2>1, <2>2, <2>3 DEF TypeOK, Typed, FilesTyped, MemoryTyped, FileNumbers
<1>2. QED
  BY <1>1, Invariant, PTL DEF IInv

(* A running process only hands out file numbers above all those in the    *)
(* directory, so that no file is ever overwritten (MANIFEST apart).        *)
THEOREM NumbersAlwaysAhead == Spec => []NumbersAhead
BY Invariant, PTL DEF IInv

(* Whatever part of the unsynced MANIFEST is lost, every table that what   *)
(* is left of it names exists: BuildTable syncs before LogAndApply, and    *)
(* RemoveObsoleteFiles waits for the edit to be synced.                    *)
THEOREM CatalogAlwaysBacked == Spec => []CatalogBacked
<1>1. Typed /\ GoodFiles => CatalogBacked
  <2> SUFFICES ASSUME Typed, GoodFiles, current \in DOMAIN manifests,
                      NEW k \in manifests[current].synced .. Len(manifests[current].recs)
               PROVE  Recovered(manifests[current].recs)[k].files \subseteq DOMAIN tables
    BY DEF CatalogBacked
  <2>1. current # 0 /\ Len(manifests[current].recs) \in Nat
    BY DEF Typed, FilesTyped, File
  <2>2. CASE k = 0
    BY <2>1, <2>2, ReplayStep DEF NewVersionSet
  <2>3. CASE k # 0
    BY <2>1, <2>3 DEF GoodFiles, Good, Upto
  <2>4. QED
    BY <2>2, <2>3
<1>2. QED
  BY <1>1, Invariant, PTL DEF IInv

(* The directory always holds enough for DBImpl::Open to find every        *)
(* acknowledged write again, in a table of the catalog or in a log that it *)
(* replays - outside of the window in which the MANIFEST is rewritten.     *)
THEOREM AlwaysRecoverable == Spec => []Recoverable
<1>1. Typed /\ GoodFiles => Recoverable
  <2> SUFFICES ASSUME Typed, GoodFiles, ~catalogLost, ~Rewriting, NEW r \in owed
               PROVE  r \in Contents(OnDisk.files)
                              \cup UNION {ToSet(logs[n].recs) : n \in LogsToReplay(OnDisk.log)}
    BY DEF Recoverable
  <2>1. Good(OnDisk)
    <3>1. CASE current = 0
      BY <3>1 DEF OnDisk, GoodFiles, Typed, FilesTyped
    <3>2. CASE current # 0
      <4> DEFINE k == Len(manifests[current].recs)
      <4>1. current \in DOMAIN manifests
        BY <3>2 DEF GoodFiles
      <4>2. /\ k \in Nat /\ manifests[current].recs \in Seq(FiniteEdit)
            /\ k \in manifests[current].synced .. k
        BY <4>1 DEF Typed, FilesTyped, File
      <4>3. k # 0
        BY <4>1, <4>2, EmptySeq DEF Rewriting
      <4>4. OnDisk = Upto(current, k)
        BY <4>1 DEF OnDisk, Upto
      <4>5. QED
        BY <3>2, <4>2, <4>3, <4>4 DEF GoodFiles
    <3>3. QED
      BY <3>1, <3>2
  <2>2. CASE r \notin Contents(OnDisk.files)
    <3>1. PICK n \in DOMAIN logs : n >= OnDisk.log /\ InLog(r, n, Len(logs[n].recs))
      BY <2>1, <2>2 DEF Good
    <3>2. n \in LogsToReplay(OnDisk.log)
      BY <3>1 DEF LogsToReplay
    <3>3. PICK i \in 1 .. Len(logs[n].recs) : logs[n].recs[i] = r
      BY <3>1 DEF InLog
    <3>4. DOMAIN logs[n].recs = 1 .. Len(logs[n].recs)
      BY DEF Typed, FilesTyped, File
    <3>5. r \in ToSet(logs[n].recs)
      BY <3>3, <3>4 DEF ToSet
    <3>6. QED
      BY <3>2, <3>5
  <2>3. QED
    BY <2>2
<1>2. QED
  BY <1>1, Invariant, PTL DEF IInv

(* An open database serves every write that it, or any of the processes    *)
(* before it, acknowledged.                                                *)
THEOREM AlwaysVisible == Spec => []AckedVisible
<1>1. Typed /\ GoodMemory /\ Replayed => AckedVisible
  <2> SUFFICES ASSUME Typed, GoodMemory, Replayed, pc = "idle", ~catalogLost
               PROVE  owed \subseteq mem \cup imm \cup Contents(version)
    BY DEF AckedVisible
  <2>1. Running /\ todo = {}
    BY DEF Running, Replayed, Applying, Midway
  <2>2. QED
    BY <2>1, OwedHeld
<1>2. QED
  BY <1>1, Invariant, PTL DEF IInv

(* No two acknowledged writes share a sequence number, across all runs,    *)
(* and the next one gets a larger one than every record a read can meet.   *)
THEOREM AlwaysSequenceAhead == Spec => []SequenceAhead
<1>1. Typed /\ GoodMemory /\ Sequences => SequenceAhead
  <2> SUFFICES ASSUME Typed, GoodMemory, Sequences PROVE SequenceAhead
    OBVIOUS
  <2>1. ASSUME pc = "idle", NEW r \in mem \cup imm \cup Contents(version)
        PROVE  r.seq <= last_sequence
    <3>1. Running
      BY <2>1 DEF Running
    <3>2. CASE r \in mem \cup imm
      BY <3>1, <3>2 DEF Sequences
    <3>3. CASE r \in Contents(version)
      <4>1. r.seq <= set_sequence
        BY <3>1, <3>3 DEF GoodMemory, Good, Memory
      <4>2. set_sequence <= last_sequence /\ set_sequence \in Nat /\ last_sequence \in Nat
        BY <3>1 DEF Sequences, Typed, MemoryTyped
      <4>3. r.seq \in Nat
        BY <3>3 DEF Contents, Typed, FilesTyped, Rec
      <4>4. QED
        BY <4>1, <4>2, <4>3
    <3>4. QED
      BY <2>1, <3>2, <3>3
  <2>2. QED
    BY <2>1 DEF SequenceAhead, Sequences
<1>2. QED
  BY <1>1, Invariant, PTL DEF IInv

(* DBImpl::Open fails only at a torn last record, and its replay aborts    *)
(* only after a Sync of the WAL has failed: otherwise no two records in    *)
(* the logs share a sequence number.                                       *)
THEOREM OpenAlwaysSucceeds == Spec => []OpenSucceeds
BY Invariant, PTL DEF IInv
=============================================================================
