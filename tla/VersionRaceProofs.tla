--------------------------- MODULE VersionRaceProofs ---------------------------
(***************************************************************************)
(* Proofs about VersionRace: its type invariant, the exactness of the      *)
(* reference counts, that no table of a held Version is removed, and that  *)
(* the MANIFEST and the current Version agree, whatever the two threads do.*)
(***************************************************************************)
EXTENDS VersionRace, FiniteSetTheorems, TLAPS

-----------------------------------------------------------------------------
(* The inductive invariant.                                                *)

(* A thread is in a LogAndApply, or on the way to one.                     *)
BeforeAppend == {"number", "write", "merge", "log", "build", "append"}
Same(a, b) == IF a = b THEN 1 ELSE 0

(* What the place of a thread says of its local variables.                 *)
Places ==
  /\ pc["user"] \in {"idle", "read", "number", "write", "log", "build", "append", "failed"}
  /\ kind["user"] \in {"none", "flush"}
  /\ pc["user"] \in {"idle", "read"} => kind["user"] = "none"
  /\ pc["worker"] \in {"list", "live", "remove", "release", "cleanup"} => kind["worker"] # "flush"
  /\ pc["worker"] = "merge" => kind["worker"] = "merge"
  /\ \A t \in Threads :
       /\ pc[t] \in BeforeAppend \cup {"failed"} => kind[t] # "none"
       /\ pc[t] = "idle" => kind[t] = "none"
       /\ pc[t] = "number" => kind[t] # "move"
       /\ pc[t] = "write" => kind[t] # "move"
       /\ base[t] # 0 <=> pc[t] = "append"
       /\ pc[t] \in {"number", "write"} => number[t] # 0
  /\ input_version # 0 =>
       \/ kind["worker"] \in {"move", "merge"} /\ pc["worker"] \in BeforeAppend \cup {"release", "failed"}
       \/ kind["worker"] = "none" /\ pc["worker"] \in {"list", "live", "remove", "release"}
  /\ doomed # {} => pc["worker"] = "remove"
  /\ \A t \in Threads : pc[t] \in {"build", "append"} => descriptor_log

(* A Version number is left for every thread that will make one.           *)
Room ==
  \A t \in Threads : pc[t] \in BeforeAppend =>
    /\ made + 1 <= MaxVersions
    /\ \A u \in Threads \ {t} : pc[u] \in BeforeAppend => made + 2 <= MaxVersions

(* The thread t has a table of its own: created, and in no Version yet.    *)
Making(t) == pc[t] = "write" \/ (kind[t] = "flush" /\ pc[t] \in {"log", "build", "append", "failed"})

Used(n) ==
  \/ n \in disk \cup children \cup doomed
  \/ \E v \in 1 .. MaxVersions : n \in files[v]
  \/ \E t \in Threads : n \in edit[t].added \cup edit[t].deleted \/ (Making(t) /\ n = number[t])

(* No number NewFileNumber will hand out was used before, or it is swept.  *)
NumbersAhead == \A n \in Tables : Used(n) /\ n >= next_file_number => n \in swept

(* A table being made belongs to one thread, is on the disk, and no one    *)
(* is about to remove it.                                                  *)
Owned(t, n) ==
  /\ n \in disk /\ n \notin doomed
  /\ \A v \in 1 .. MaxVersions : n \notin files[v]
  /\ \A u \in Threads \ {t} :
       /\ n \notin edit[u].added /\ n \notin edit[u].deleted
       /\ Making(u) => number[u] # n

Own == \A t \in Threads : Making(t) /\ number[t] \notin swept => Owned(t, number[t])

(* A flush adds the table it made.                                         *)
FlushEdit ==
  \A t \in Threads :
    /\ kind[t] = "flush" => edit[t] \in {NoEdit, [added |-> {number[t]}, deleted |-> {}]}
    /\ kind[t] = "none" => edit[t] = NoEdit
    /\ kind[t] = "flush" /\ pc[t] \in {"number", "write"} => edit[t] = NoEdit

(* The tables an edit will add are on the disk.                            *)
AddedKept ==
  \A t \in Threads : pc[t] \in BeforeAppend => edit[t].added \ swept \subseteq disk

(* RemoveObsoleteFiles removes no table of a Version in the list.          *)
NoneDoomed == \A v \in Listed : (doomed \cap files[v]) \subseteq swept

(* The MANIFEST has the edits that are being installed.                    *)
Logged ==
  \A t \in Threads : pc[t] \in {"build", "append"} =>
    \A n \in Tables \ (swept \cup unsure) :
      /\ n \in edit[t].added => n \in catalog
      /\ n \in edit[t].deleted \ edit[t].added => n \notin catalog

IInv ==
  /\ TypeOK /\ Places /\ Room /\ RefsExact
  /\ NumbersAhead /\ Own /\ FlushEdit /\ AddedKept /\ NoneDoomed /\ FilesKept
  /\ Logged /\ CatalogExact

USE DEF Threads, Tables, NoEdit, Goto, Done, Fail, version_vars, table_vars, catalog_vars,
        thread_vars, reader_vars, work_vars, vars

-----------------------------------------------------------------------------
(* Counting holders.                                                       *)

(* How many elements of D the function f maps to w.                        *)
Count(f, D, w) == Cardinality({x \in D : f[x] = w})

(* When one element of D maps to another value, the elements that map to w *)
(* are one less if the old value was w, and one more if the new one is.    *)
LEMMA Recount ==
  ASSUME NEW D, IsFiniteSet(D), NEW f \in [D -> Nat], NEW g \in [D -> Nat],
         NEW d \in D, \A x \in D \ {d} : g[x] = f[x], NEW w \in Nat
  PROVE  Count(g, D, w) \in Nat /\ Count(g, D, w) + Same(f[d], w) = Count(f, D, w) + Same(g[d], w)
<1> DEFINE S == {x \in D : f[x] = w}
           T == {x \in D : g[x] = w}
<1>0. Count(f, D, w) = Cardinality(S) /\ Count(g, D, w) = Cardinality(T)
  BY DEF Count
<1>1. IsFiniteSet(S) /\ IsFiniteSet(T)
  BY FS_Subset
<1>2. Cardinality(S) \in Nat /\ Cardinality(T) \in Nat
  BY <1>1, FS_CardinalityType
<1>3. CASE f[d] = w /\ g[d] = w
  <2>1. S = T
    BY <1>3
  <2>2. QED
    BY <1>0, <1>2, <1>3, <2>1 DEF Same
<1>4. CASE f[d] = w /\ g[d] # w
  <2>1. T = S \ {d} /\ d \in S
    BY <1>4
  <2>2. Cardinality(T) = Cardinality(S) - 1
    BY <1>1, <2>1, FS_RemoveElement
  <2>3. QED
    BY <1>0, <1>2, <1>4, <2>2 DEF Same
<1>5. CASE f[d] # w /\ g[d] = w
  <2>1. T = S \cup {d} /\ d \notin S
    BY <1>5
  <2>2. Cardinality(T) = Cardinality(S) + 1
    BY <1>1, <2>1, FS_AddElement
  <2>3. QED
    BY <1>0, <1>2, <1>5, <2>2 DEF Same
<1>6. CASE f[d] # w /\ g[d] # w
  <2>1. S = T
    BY <1>6
  <2>2. QED
    BY <1>0, <1>2, <1>6, <2>1 DEF Same
<1>7. QED
  BY <1>3, <1>4, <1>5, <1>6

(* The two threads are finitely many.                                      *)
LEMMA TwoThreads == IsFiniteSet(Threads)
<1>1. IsFiniteSet({"user"})
  BY FS_Singleton
<1>2. IsFiniteSet({"user"} \cup {"worker"})
  BY <1>1, FS_AddElement
<1>3. Threads = {"user"} \cup {"worker"}
  OBVIOUS
<1>4. QED
  BY <1>2, <1>3

(* The holders of v among the threads, and among the iterators.            *)
Builders(v) == Count(base, Threads, v)
Readers(v)  == Count(iterator, Iterators, v)

(* The numbers of holders are natural, and not zero if there is one.       *)
LEMMA HoldersCounted ==
  ASSUME NEW v
  PROVE  /\ Builders(v) \in Nat /\ Readers(v) \in Nat
         /\ \A t \in Threads : base[t] = v => Builders(v) > 0
         /\ \A i \in Iterators : iterator[i] = v => Readers(v) > 0
<1> DEFINE B == {t \in Threads : base[t] = v}
           I == {i \in Iterators : iterator[i] = v}
<1>1. IsFiniteSet(B) /\ IsFiniteSet(I)
  BY VersionAssumption, TwoThreads, FS_Subset
<1>2. Cardinality(B) \in Nat /\ Cardinality(I) \in Nat
  BY <1>1, FS_CardinalityType
<1>3. (Cardinality(B) = 0 => B = {}) /\ (Cardinality(I) = 0 => I = {})
  BY <1>1, FS_EmptySet
<1>4. \A t \in Threads : base[t] = v => t \in B
  OBVIOUS
<1>5. \A i \in Iterators : iterator[i] = v => i \in I
  OBVIOUS
<1> HIDE DEF B, I
<1>6. /\ \A t \in Threads : base[t] = v => Cardinality(B) > 0
      /\ \A i \in Iterators : iterator[i] = v => Cardinality(I) > 0
  BY <1>2, <1>3, <1>4, <1>5
<1>7. QED
  BY <1>2, <1>6 DEF Builders, Readers, Count, B, I

(* RefsExact, in terms of the holders.                                     *)
Exact(v) == refs[v] = Same(v, current) + Same(v, input_version) + Builders(v) + Readers(v)

(* RefsExact says Exact of every Version.                                  *)
LEMMA RefsExactly == RefsExact <=> \A v \in 1 .. MaxVersions : Exact(v)
BY DEF RefsExact, Exact, Same, Builders, Readers, Count

(* A Version somebody holds is in the list.                                *)
LEMMA HeldIsListed ==
  ASSUME TypeOK, RefsExact
  PROVE  /\ current \in Listed
         /\ \A t \in Threads : base[t] # 0 => base[t] \in Listed
         /\ \A i \in Iterators : iterator[i] # 0 => iterator[i] \in Listed
         /\ input_version # 0 => input_version \in Listed
         /\ \A v \in 1 .. MaxVersions : refs[v] > 0 => v <= made
<1>1. \A v \in 1 .. MaxVersions : Builders(v) \in Nat /\ Readers(v) \in Nat
  BY HoldersCounted
<1>2. \A v \in 1 .. MaxVersions : Exact(v)
  BY RefsExactly
<1>3. MaxVersions \in Nat /\ made \in 1 .. MaxVersions /\ current \in 1 .. made /\ input_version \in 0 .. made
  BY VersionAssumption DEF TypeOK
<1>4. ASSUME NEW t \in Threads, base[t] # 0 PROVE base[t] \in Listed
  <2>1. base[t] \in 1 .. made /\ base[t] \in 1 .. MaxVersions
    BY <1>3, <1>4 DEF TypeOK
  <2>2. Builders(base[t]) > 0
    BY HoldersCounted
  <2>3. QED
    BY <1>1, <1>2, <2>1, <2>2 DEF Listed, Exact, Same
<1>5. ASSUME NEW i \in Iterators, iterator[i] # 0 PROVE iterator[i] \in Listed
  <2>1. iterator[i] \in 1 .. made /\ iterator[i] \in 1 .. MaxVersions
    BY <1>3, <1>5 DEF TypeOK
  <2>2. Readers(iterator[i]) > 0
    BY HoldersCounted
  <2>3. QED
    BY <1>1, <1>2, <2>1, <2>2 DEF Listed, Exact, Same
<1>6. ASSUME NEW v \in 1 .. made, v = current \/ v = input_version PROVE v \in Listed
  <2>1. v \in 1 .. MaxVersions
    BY <1>3
  <2>2. QED
    BY <1>1, <1>2, <1>6, <2>1 DEF Listed, Exact, Same
<1>7. ASSUME NEW v \in 1 .. MaxVersions, v > made PROVE refs[v] = 0
  <2>1. {t \in Threads : base[t] = v} = {} /\ {i \in Iterators : iterator[i] = v} = {}
    BY <1>3, <1>7 DEF TypeOK
  <2>2. Builders(v) = 0 /\ Readers(v) = 0
    BY <2>1, FS_EmptySet DEF Builders, Readers, Count
  <2>3. v # current /\ v # input_version
    BY <1>3, <1>7
  <2>4. QED
    BY <1>2, <2>2, <2>3 DEF Exact, Same
<1>8. \A v \in 1 .. MaxVersions : refs[v] > 0 => v <= made
  BY <1>3, <1>7
<1>9. current \in 1 .. made /\ (input_version # 0 => input_version \in 1 .. made)
  BY <1>3
<1>10. QED
  BY <1>4, <1>5, <1>6, <1>8, <1>9

-----------------------------------------------------------------------------
(* Which actions change what.                                              *)

(* AppendVersion alone makes a Version and moves current_.                 *)
LEMMA VersionsBy ==
  ASSUME [Next]_vars
  PROVE  UNCHANGED <<files, current, made>> \/ \E t \in Threads : Append(t)
BY DEF Next, UserStep, WorkerStep, ThreadStep, Terminated, ReadCurrent, FinishGet,
       NewIterator, DeleteIterator, BeginFlush, CreateTable, FinishFlushTable, LogEdit,
       LogEditFails, Build, FlushFails, PickCompaction, BeginOutput, FinishOutput,
       FinishMerge, ReleaseInputs, GetChildren, AddLiveFiles, RemoveObsoleteFiles,
       CleanupCompaction

(* Who takes or gives back a reference, or becomes a holder.               *)
LEMMA RefsBy ==
  ASSUME [Next]_vars
  PROVE  \/ UNCHANGED <<refs, current, input_version, base, iterator>>
         \/ \E i \in Iterators : NewIterator(i) \/ DeleteIterator(i)
         \/ \E t \in Threads : Build(t) \/ Append(t)
         \/ ReleaseInputs
         \/ \E inputs \in SUBSET files[current], what \in {"move", "merge"} : PickCompaction(inputs, what)
BY DEF Next, UserStep, WorkerStep, ThreadStep, Terminated, ReadCurrent, FinishGet,
       BeginFlush, CreateTable, FinishFlushTable, LogEdit, LogEditFails, FlushFails,
       BeginOutput, FinishOutput, FinishMerge, GetChildren, AddLiveFiles,
       RemoveObsoleteFiles, CleanupCompaction

(* NewFileNumber alone moves next_file_number_.                            *)
LEMMA NumbersBy ==
  ASSUME [Next]_vars
  PROVE  UNCHANGED next_file_number \/ \E t \in Threads : CreateTable(t)
BY DEF Next, UserStep, WorkerStep, ThreadStep, Terminated, ReadCurrent, FinishGet,
       NewIterator, DeleteIterator, BeginFlush, FinishFlushTable, LogEdit, LogEditFails,
       Build, Append, FlushFails, PickCompaction, BeginOutput, FinishOutput, FinishMerge,
       ReleaseInputs, GetChildren, AddLiveFiles, RemoveObsoleteFiles, CleanupCompaction

(* The compaction alone touches its outputs and pending_outputs_.          *)
LEMMA OutputsBy ==
  ASSUME [Next]_vars
  PROVE  \/ UNCHANGED <<pending_outputs, outputs>>
         \/ \E t \in Threads : CreateTable(t)
         \/ FinishOutput \/ CleanupCompaction
BY DEF Next, UserStep, WorkerStep, ThreadStep, Terminated, ReadCurrent, FinishGet,
       NewIterator, DeleteIterator, BeginFlush, FinishFlushTable, LogEdit, LogEditFails,
       Build, Append, FlushFails, PickCompaction, BeginOutput, FinishMerge, ReleaseInputs,
       GetChildren, AddLiveFiles, RemoveObsoleteFiles

(* Who creates and removes files.                                          *)
LEMMA DiskBy ==
  ASSUME [Next]_vars
  PROVE  \/ UNCHANGED disk
         \/ \E t \in Threads : CreateTable(t) \/ FinishFlushTable(t) \/ FlushFails(t)
         \/ FinishOutput \/ RemoveObsoleteFiles
BY DEF Next, UserStep, WorkerStep, ThreadStep, Terminated, ReadCurrent, FinishGet,
       NewIterator, DeleteIterator, BeginFlush, LogEdit, LogEditFails, Build, Append,
       PickCompaction, BeginOutput, FinishMerge, ReleaseInputs, GetChildren, AddLiveFiles,
       CleanupCompaction

(* LogAndApply alone writes the MANIFEST.                                  *)
LEMMA CatalogBy ==
  ASSUME [Next]_vars
  PROVE  \/ UNCHANGED <<catalog, descriptor_log, unsure>>
         \/ \E t \in Threads : LogEdit(t) \/ LogEditFails(t)
BY DEF Next, UserStep, WorkerStep, ThreadStep, Terminated, ReadCurrent, FinishGet,
       NewIterator, DeleteIterator, BeginFlush, CreateTable, FinishFlushTable, Build,
       Append, FlushFails, PickCompaction, BeginOutput, FinishOutput, FinishMerge,
       ReleaseInputs, GetChildren, AddLiveFiles, RemoveObsoleteFiles, CleanupCompaction

(* RemoveObsoleteFiles alone chooses the files it removes.                 *)
LEMMA DoomedBy ==
  ASSUME [Next]_vars
  PROVE  UNCHANGED <<children, doomed>> \/ GetChildren \/ AddLiveFiles \/ RemoveObsoleteFiles
BY DEF Next, UserStep, WorkerStep, ThreadStep, Terminated, ReadCurrent, FinishGet,
       NewIterator, DeleteIterator, BeginFlush, CreateTable, FinishFlushTable, LogEdit,
       LogEditFails, Build, Append, FlushFails, PickCompaction, BeginOutput, FinishOutput,
       FinishMerge, ReleaseInputs, CleanupCompaction

(* Where the missing lock can cost a table.                                *)
LEMMA SweptBy ==
  ASSUME [Next]_vars
  PROVE  UNCHANGED swept \/ AddLiveFiles \/ \E t \in Threads : CreateTable(t) \/ Append(t)
BY DEF Next, UserStep, WorkerStep, ThreadStep, Terminated, ReadCurrent, FinishGet,
       NewIterator, DeleteIterator, BeginFlush, FinishFlushTable, LogEdit, LogEditFails,
       Build, FlushFails, PickCompaction, BeginOutput, FinishOutput, FinishMerge,
       ReleaseInputs, GetChildren, RemoveObsoleteFiles, CleanupCompaction

(* Who takes up a flush or a compaction, edits it, or gives it up.         *)
LEMMA WorkBy ==
  ASSUME [Next]_vars
  PROVE  \/ UNCHANGED <<kind, number, edit>>
         \/ \E t \in Threads : BeginFlush(t) \/ FinishFlushTable(t) \/ Append(t) \/ FlushFails(t)
         \/ BeginOutput \/ FinishOutput \/ ReleaseInputs \/ RemoveObsoleteFiles \/ CleanupCompaction
         \/ \E inputs \in SUBSET files[current], what \in {"move", "merge"} : PickCompaction(inputs, what)
BY DEF Next, UserStep, WorkerStep, ThreadStep, Terminated, ReadCurrent, FinishGet, NewIterator,
       DeleteIterator, CreateTable, LogEdit, LogEditFails, Build, FinishMerge, GetChildren, AddLiveFiles

-----------------------------------------------------------------------------
(* The reference counts.                                                   *)

(* A thread whose base changes moves from one count of Builders to another. *)
LEMMA BuilderMoves ==
  ASSUME TypeOK, NEW t \in Threads, base' \in [Threads -> Nat],
         \A u \in Threads \ {t} : base'[u] = base[u], NEW v \in Nat
  PROVE  Builders(v)' \in Nat /\ Builders(v)' + Same(base[t], v) = Builders(v) + Same(base'[t], v)
<1>1. base \in [Threads -> Nat]
  BY DEF TypeOK
<1>2. Builders(v)' = Count(base', Threads, v)
  BY DEF Builders, Count
<1>3. QED
  BY <1>1, <1>2, TwoThreads, Recount DEF Builders

(* The same of an iterator and the Version it holds.                       *)
LEMMA ReaderMoves ==
  ASSUME TypeOK, NEW i \in Iterators, iterator' \in [Iterators -> Nat],
         \A j \in Iterators \ {i} : iterator'[j] = iterator[j], NEW v \in Nat
  PROVE  Readers(v)' \in Nat /\ Readers(v)' + Same(iterator[i], v) = Readers(v) + Same(iterator'[i], v)
<1>1. iterator \in [Iterators -> Nat] /\ IsFiniteSet(Iterators)
  BY VersionAssumption DEF TypeOK
<1>2. Readers(v)' = Count(iterator', Iterators, v)
  BY DEF Readers, Count
<1>3. QED
  BY <1>1, <1>2, Recount DEF Readers

(* Every Ref has a holder that appears and every Unref one that goes.      *)
LEMMA RefsKept ==
  ASSUME IInv, [Next]_vars
  PROVE  RefsExact' /\ refs' \in [1 .. MaxVersions -> Nat]
<1> DEFINE D == 1 .. MaxVersions
           Good == RefsExact' /\ refs' \in [D -> Nat]
<1> HIDE DEF Good
<1>0. TypeOK /\ Places /\ Room /\ RefsExact
  BY DEF IInv
<1>1. \A v \in D : v \in Nat /\ Exact(v) /\ Builders(v) \in Nat /\ Readers(v) \in Nat
  BY <1>0, VersionAssumption, RefsExactly, HoldersCounted
<1>2. /\ refs \in [D -> Nat] /\ made \in D /\ current \in D /\ input_version \in Nat
      /\ current <= made /\ input_version <= made /\ seen \in Nat /\ MaxVersions \in Nat
  BY <1>0, VersionAssumption DEF TypeOK
<1>3. ASSUME \A v \in D : Exact(v)' /\ refs'[v] \in Nat, refs' = [v \in D |-> refs'[v]]
      PROVE  Good
  BY <1>3 DEF RefsExact, Exact, Same, Builders, Readers, Count, Good
<1>4. ASSUME NEW i \in Iterators, NewIterator(i) PROVE Good
  <2>1. CASE refs[seen] = 0
    <3>1. UNCHANGED <<refs, current, input_version, base, iterator>>
      BY <1>4, <2>1 DEF NewIterator
    <3>2. QED
      BY <1>1, <1>2, <3>1, <1>3 DEF Exact, Builders, Readers
  <2>2. CASE refs[seen] # 0
    <3>1. /\ refs' = [refs EXCEPT ![seen] = @ + 1] /\ iterator' = [iterator EXCEPT ![i] = seen]
          /\ iterator[i] = 0 /\ UNCHANGED <<current, input_version, base>>
      BY <1>4, <2>2 DEF NewIterator, Ref
    <3>2. ASSUME NEW v \in D PROVE Exact(v)' /\ refs'[v] \in Nat
      <4>1. Readers(v)' \in Nat /\ Readers(v)' + Same(iterator[i], v) = Readers(v) + Same(iterator'[i], v)
        <5>1. iterator' \in [Iterators -> Nat] /\ \A j \in Iterators \ {i} : iterator'[j] = iterator[j]
          BY <1>0, <1>2, <3>1 DEF TypeOK
        <5>2. QED
          BY <1>0, <1>1, <5>1, ReaderMoves
      <4>2. Builders(v)' = Builders(v)
        BY <3>1 DEF Builders
      <4>3. refs'[v] = refs[v] + Same(seen, v) /\ refs[v] \in Nat
        BY <1>2, <3>1 DEF Same
      <4>4. Readers(v)' = Readers(v) + Same(seen, v) /\ Readers(v) \in Nat /\ Builders(v) \in Nat
        BY <1>0, <1>1, <3>1, <4>1 DEF Same, TypeOK
      <4>5. refs[v] = Same(v, current) + Same(v, input_version) + Builders(v) + Readers(v)
        BY <1>1 DEF Exact
      <4>6. QED
        BY <3>1, <4>2, <4>3, <4>4, <4>5 DEF Exact, Same
    <3>3. QED
      BY <1>2, <3>1, <3>2, <1>3
  <2>3. QED
    BY <2>1, <2>2
<1>5. ASSUME NEW i \in Iterators, DeleteIterator(i) PROVE Good
  <2>1. /\ refs' = [refs EXCEPT ![iterator[i]] = @ - 1] /\ iterator' = [iterator EXCEPT ![i] = 0]
        /\ iterator[i] # 0 /\ UNCHANGED <<current, input_version, base>>
    BY <1>5 DEF DeleteIterator, Unref
  <2>2. ASSUME NEW v \in D PROVE Exact(v)' /\ refs'[v] \in Nat
    <3>1. Readers(v)' \in Nat /\ Readers(v)' + Same(iterator[i], v) = Readers(v) + Same(iterator'[i], v)
      <4>1. iterator' \in [Iterators -> Nat] /\ \A j \in Iterators \ {i} : iterator'[j] = iterator[j]
        BY <1>0, <2>1 DEF TypeOK
      <4>2. QED
        BY <1>0, <1>1, <4>1, ReaderMoves
    <3>2. Builders(v)' = Builders(v)
      BY <2>1 DEF Builders
    <3>3. refs'[v] = refs[v] - Same(iterator[i], v) /\ refs[v] \in Nat
      BY <1>2, <2>1 DEF Same
    <3>4. Readers(v)' = Readers(v) - Same(iterator[i], v) /\ Readers(v) \in Nat /\ Builders(v) \in Nat
      BY <1>0, <1>1, <2>1, <3>1 DEF Same, TypeOK
    <3>5. refs[v] = Same(v, current) + Same(v, input_version) + Builders(v) + Readers(v)
      BY <1>1 DEF Exact
    <3>6. QED
      BY <2>1, <3>1, <3>2, <3>3, <3>4, <3>5 DEF Exact, Same
  <2>3. QED
    BY <1>2, <2>1, <2>2, <1>3
<1>6. ASSUME NEW t \in Threads, Build(t) PROVE Good
  <2>1. /\ refs' = [refs EXCEPT ![current] = @ + 1] /\ base' = [base EXCEPT ![t] = current]
        /\ base[t] = 0 /\ UNCHANGED <<current, input_version, iterator>>
    BY <1>0, <1>6 DEF Build, Ref, Places
  <2>2. ASSUME NEW v \in D PROVE Exact(v)' /\ refs'[v] \in Nat
    <3>1. Builders(v)' \in Nat /\ Builders(v)' + Same(base[t], v) = Builders(v) + Same(base'[t], v)
      <4>1. base' \in [Threads -> Nat] /\ \A u \in Threads \ {t} : base'[u] = base[u]
        BY <1>0, <1>2, <2>1 DEF TypeOK
      <4>2. QED
        BY <1>0, <1>1, <4>1, BuilderMoves
    <3>2. Readers(v)' = Readers(v)
      BY <2>1 DEF Readers
    <3>3. refs'[v] = refs[v] + Same(current, v) /\ refs[v] \in Nat
      BY <1>2, <2>1 DEF Same
    <3>4. Builders(v)' = Builders(v) + Same(current, v) /\ Readers(v) \in Nat /\ Builders(v) \in Nat
      BY <1>0, <1>1, <2>1, <3>1 DEF Same, TypeOK
    <3>5. refs[v] = Same(v, current) + Same(v, input_version) + Builders(v) + Readers(v)
      BY <1>1 DEF Exact
    <3>6. QED
      BY <2>1, <3>1, <3>2, <3>3, <3>4, <3>5 DEF Exact, Same
  <2>3. QED
    BY <1>2, <2>1, <2>2, <1>3
<1>7. ASSUME NEW t \in Threads, Append(t) PROVE Good
  <2> DEFINE new == made + 1
  <2>1. /\ refs' = [[[refs EXCEPT ![new] = 1] EXCEPT ![current] = @ - 1] EXCEPT ![base[t]] = @ - 1]
        /\ base' = [base EXCEPT ![t] = 0] /\ current' = new
        /\ UNCHANGED <<input_version, iterator>>
    BY <1>7 DEF Append, Unref
  <2>2. new \in D
    BY <1>0, <1>2, <1>7 DEF Append, Room, BeforeAppend
  <2>3. base[t] \in D /\ base[t] <= made
    BY <1>0, <1>2, <1>7 DEF Append, Places, TypeOK
  <2>4. refs[new] = 0
    BY <1>0, <1>2, <2>2, HeldIsListed
  <2>5. new \in Nat /\ new # current /\ new # base[t] /\ new # input_version
    BY <1>2, <2>3
  <2> HIDE DEF new
  <2>6. ASSUME NEW v \in D PROVE Exact(v)' /\ refs'[v] \in Nat
    <3>1. Builders(v)' \in Nat /\ Builders(v)' + Same(base[t], v) = Builders(v) + Same(0, v)
      <4>1. base' \in [Threads -> Nat] /\ \A u \in Threads \ {t} : base'[u] = base[u]
        BY <1>0, <2>1 DEF TypeOK
      <4>2. base'[t] = 0
        BY <1>0, <2>1 DEF TypeOK
      <4>3. Builders(v)' \in Nat /\ Builders(v)' + Same(base[t], v) = Builders(v) + Same(base'[t], v)
        BY <1>0, <1>1, <4>1, BuilderMoves
      <4>4. QED
        BY <4>2, <4>3
    <3>2. Readers(v)' = Readers(v)
      BY <2>1 DEF Readers
    <3>3. refs'[v] = (IF v = new THEN 1 ELSE refs[v]) - Same(v, current) - Same(v, base[t])
      <4>1. CASE v = new
        BY <1>2, <2>1, <2>3, <2>5, <4>1 DEF Same
      <4>2. CASE v # new
        BY <1>2, <2>1, <2>3, <2>5, <4>2 DEF Same
      <4>3. QED
        BY <4>1, <4>2
    <3>4. CASE v = new
      <4>1. Builders(v) = 0 /\ Readers(v) = 0
        BY <1>1, <2>4, <2>5, <3>4 DEF Exact, Same
      <4>2. QED
        BY <1>1, <2>1, <2>5, <3>1, <3>2, <3>3, <3>4, <4>1 DEF Exact, Same
    <3>5. CASE v # new
      <4>1. refs[v] \in Nat
        BY <1>2
      <4>2. QED
        BY <1>1, <2>1, <3>1, <3>2, <3>3, <3>5, <4>1 DEF Exact, Same
    <3>6. QED
      BY <3>4, <3>5
  <2>7. QED
    BY <1>2, <2>1, <2>6, <1>3
<1>8. ASSUME ReleaseInputs PROVE Good
  <2>1. /\ refs' = IF input_version = 0 THEN refs ELSE [refs EXCEPT ![input_version] = @ - 1]
        /\ input_version' = 0 /\ UNCHANGED <<current, base, iterator>>
    BY <1>8 DEF ReleaseInputs, Unref
  <2>2. ASSUME NEW v \in D PROVE Exact(v)' /\ refs'[v] \in Nat
    <3>1. Builders(v)' = Builders(v) /\ Readers(v)' = Readers(v)
      BY <2>1 DEF Builders, Readers
    <3>2. refs'[v] = refs[v] - Same(v, input_version) /\ refs[v] \in Nat /\ v # 0
      BY <1>2, <2>1 DEF Same
    <3>3. /\ refs[v] = Same(v, current) + Same(v, input_version) + Builders(v) + Readers(v)
          /\ Readers(v) \in Nat /\ Builders(v) \in Nat
      BY <1>1 DEF Exact
    <3>4. QED
      BY <2>1, <3>1, <3>2, <3>3 DEF Exact, Same
  <2>3. QED
    BY <1>2, <2>1, <2>2, <1>3
<1>9. ASSUME NEW inputs \in SUBSET files[current], NEW what \in {"move", "merge"},
             PickCompaction(inputs, what)
      PROVE  Good
  <2>1. /\ refs' = [refs EXCEPT ![current] = @ + 1] /\ input_version' = current
        /\ UNCHANGED <<current, base, iterator>>
    BY <1>9 DEF PickCompaction, Ref
  <2>2. input_version = 0
    BY <1>0, <1>9 DEF PickCompaction, Places, BeforeAppend
  <2>3. ASSUME NEW v \in D PROVE Exact(v)' /\ refs'[v] \in Nat
    <3>1. Builders(v)' = Builders(v) /\ Readers(v)' = Readers(v)
      BY <2>1 DEF Builders, Readers
    <3>2. refs'[v] = refs[v] + Same(v, current) /\ refs[v] \in Nat /\ v # 0
      BY <1>2, <2>1 DEF Same
    <3>3. /\ refs[v] = Same(v, current) + Same(v, input_version) + Builders(v) + Readers(v)
          /\ Readers(v) \in Nat /\ Builders(v) \in Nat
      BY <1>1 DEF Exact
    <3>4. QED
      BY <2>1, <2>2, <3>1, <3>2, <3>3 DEF Exact, Same
  <2>4. QED
    BY <1>2, <2>1, <2>3, <1>3
<1>10. ASSUME UNCHANGED <<refs, current, input_version, base, iterator>> PROVE Good
  <2>1. ASSUME NEW v \in D PROVE Exact(v)' /\ refs'[v] \in Nat
    <3>1. Builders(v)' = Builders(v) /\ Readers(v)' = Readers(v)
      BY <1>10 DEF Builders, Readers
    <3>2. QED
      BY <1>1, <1>2, <1>10, <3>1 DEF Exact, Same
  <2>2. QED
    BY <1>2, <1>10, <2>1, <1>3
<1>11. QED
  BY <1>4, <1>5, <1>6, <1>7, <1>8, <1>9, <1>10, RefsBy DEF Good

-----------------------------------------------------------------------------
(* Types.                                                                  *)

(* The flags and the count of failures keep their types.                   *)
LEMMA FlagsKept ==
  ASSUME TypeOK, [Next]_vars
  PROVE  imm' \in BOOLEAN /\ undefined' \in BOOLEAN /\ failures' \in 0 .. MaxFailures
<1>1. imm \in BOOLEAN /\ undefined \in BOOLEAN /\ failures \in 0 .. MaxFailures /\ MaxFailures \in Nat
  BY VersionAssumption DEF TypeOK
<1>2. UNCHANGED failures \/ Fail
  BY SMTT(60) DEF Next, UserStep, WorkerStep, ThreadStep, Terminated, ReadCurrent, FinishGet, NewIterator,
       DeleteIterator, BeginFlush, CreateTable, FinishFlushTable, LogEdit, LogEditFails, Build,
       Append, FlushFails, PickCompaction, BeginOutput, FinishOutput, FinishMerge, ReleaseInputs,
       GetChildren, AddLiveFiles, RemoveObsoleteFiles, CleanupCompaction
<1>3. imm' \in BOOLEAN /\ undefined' \in BOOLEAN
  BY ZenonT(60), <1>1 DEF Next, UserStep, WorkerStep, ThreadStep, Terminated, ReadCurrent, FinishGet, NewIterator,
       DeleteIterator, BeginFlush, CreateTable, FinishFlushTable, LogEdit, LogEditFails, Build,
       Append, FlushFails, PickCompaction, BeginOutput, FinishOutput, FinishMerge, ReleaseInputs,
       GetChildren, AddLiveFiles, RemoveObsoleteFiles, CleanupCompaction
<1>4. QED
  BY <1>1, <1>2, <1>3

(* So do the places of the threads, ...                                    *)
LEMMA PlacesTyped ==
  ASSUME TypeOK, [Next]_vars
  PROVE  /\ pc' \in [Threads -> {"idle", "read", "number", "write", "merge", "log", "build", "append", "release",
                                 "list", "live", "remove", "cleanup", "failed", "stopped"}]
         /\ kind' \in [Threads -> {"none", "flush", "move", "merge"}]
BY SMTT(60) DEF TypeOK, Next, UserStep, WorkerStep, ThreadStep, Terminated, ReadCurrent, FinishGet, NewIterator,
       DeleteIterator, BeginFlush, CreateTable, FinishFlushTable, LogEdit, LogEditFails, Build,
       Append, FlushFails, PickCompaction, BeginOutput, FinishOutput, FinishMerge, ReleaseInputs,
       GetChildren, AddLiveFiles, RemoveObsoleteFiles, CleanupCompaction

(* ... the Versions, of which Room leaves one to make, ...                 *)
LEMMA VersionsTyped ==
  ASSUME IInv, [Next]_vars
  PROVE  /\ made' \in 1 .. MaxVersions /\ current' \in 1 .. made' /\ made <= made'
         /\ files' \in [1 .. MaxVersions -> SUBSET Tables]
<1>1. /\ made \in 1 .. MaxVersions /\ current \in 1 .. made /\ MaxVersions \in Nat
      /\ files \in [1 .. MaxVersions -> SUBSET Tables]
      /\ edit \in [Threads -> [added : SUBSET Tables, deleted : SUBSET Tables]]
  BY VersionAssumption DEF IInv, TypeOK
<1>2. ASSUME NEW t \in Threads, Append(t)
      PROVE  made' = made + 1 /\ current' = made' /\ files' \in [1 .. MaxVersions -> SUBSET Tables]
  <2>1. /\ made' = made + 1 /\ current' = made'
        /\ files' = [files EXCEPT ![made'] = Replayed(files[base[t]], edit[t])]
    BY <1>2 DEF Append
  <2>2. base[t] \in 1 .. MaxVersions
    BY <1>1, <1>2 DEF IInv, TypeOK, Append, Places
  <2>3. Replayed(files[base[t]], edit[t]) \in SUBSET Tables
    BY <1>1, <2>2 DEF Replayed
  <2>4. QED
    BY <1>1, <2>1, <2>3
<1>3. ASSUME NEW t \in Threads, Append(t) PROVE made + 1 <= MaxVersions
  BY <1>3 DEF IInv, Room, BeforeAppend, Append
<1>4. QED
  BY <1>1, <1>2, <1>3, VersionsBy

(* ... the edits and the numbers of tables, ...                            *)
LEMMA EditsTyped ==
  ASSUME IInv, [Next]_vars
  PROVE  /\ number' \in [Threads -> 0 .. MaxFile]
         /\ edit' \in [Threads -> [added : SUBSET Tables, deleted : SUBSET Tables]]
<1>1. /\ number \in [Threads -> 0 .. MaxFile] /\ next_file_number \in 1 .. MaxFile + 1 /\ MaxFile \in Nat
      /\ edit \in [Threads -> [added : SUBSET Tables, deleted : SUBSET Tables]]
      /\ files[current] \in SUBSET Tables
  BY VersionAssumption DEF IInv, TypeOK
<1> DEFINE Good == /\ number' \in [Threads -> 0 .. MaxFile]
                   /\ edit' \in [Threads -> [added : SUBSET Tables, deleted : SUBSET Tables]]
<1>2. ASSUME NEW t \in Threads, BeginFlush(t) PROVE Good
  BY <1>1, <1>2 DEF BeginFlush
<1>3. ASSUME NEW t \in Threads, FinishFlushTable(t) PROVE Good
  <2>1. number[t] \in Tables
    BY <1>1, <1>3 DEF FinishFlushTable, IInv, Places
  <2>2. QED
    BY <1>1, <1>3, <2>1 DEF FinishFlushTable
<1>4. ASSUME NEW t \in Threads, Append(t) \/ FlushFails(t) PROVE Good
  BY <1>1, <1>4 DEF Append, FlushFails
<1>5. ASSUME NEW inputs \in SUBSET files[current], NEW what \in {"move", "merge"},
             PickCompaction(inputs, what)
      PROVE  Good
  BY <1>1, <1>5 DEF PickCompaction
<1>6. ASSUME BeginOutput PROVE Good
  BY <1>1, <1>6 DEF BeginOutput
<1>7. ASSUME FinishOutput PROVE Good
  <2>1. number["worker"] \in Tables
    BY <1>1, <1>7 DEF FinishOutput, IInv, Places
  <2>2. QED
    BY <1>1, <1>7, <2>1 DEF FinishOutput
<1>8. ASSUME ReleaseInputs \/ RemoveObsoleteFiles \/ CleanupCompaction PROVE Good
  BY <1>1, <1>8 DEF ReleaseInputs, RemoveObsoleteFiles, CleanupCompaction
<1>9. QED
  BY <1>1, <1>2, <1>3, <1>4, <1>5, <1>6, <1>7, <1>8, WorkBy

(* ... the sets of tables, ...                                             *)
LEMMA TablesTyped ==
  ASSUME IInv, [Next]_vars
  PROVE  /\ next_file_number' \in 1 .. MaxFile + 1
         /\ pending_outputs' \subseteq Tables /\ outputs' \subseteq Tables /\ disk' \subseteq Tables
         /\ catalog' \subseteq Tables /\ unsure' \subseteq Tables /\ descriptor_log' \in BOOLEAN
         /\ children' \subseteq Tables /\ doomed' \subseteq Tables /\ swept' \subseteq Tables
<1>1. /\ next_file_number \in 1 .. MaxFile + 1 /\ number \in [Threads -> 0 .. MaxFile] /\ MaxFile \in Nat
      /\ pending_outputs \subseteq Tables /\ outputs \subseteq Tables /\ disk \subseteq Tables
      /\ catalog \subseteq Tables /\ unsure \subseteq Tables /\ descriptor_log \in BOOLEAN
      /\ children \subseteq Tables /\ doomed \subseteq Tables /\ swept \subseteq Tables
      /\ edit \in [Threads -> [added : SUBSET Tables, deleted : SUBSET Tables]]
      /\ files \in [1 .. MaxVersions -> SUBSET Tables] /\ current \in 1 .. MaxVersions
      /\ files[current] \subseteq Tables
  BY SMTT(60), VersionAssumption DEF IInv, TypeOK
<1>2. ASSUME NEW t \in Threads, CreateTable(t)
      PROVE  /\ number[t] \in Tables
             /\ next_file_number' \in 1 .. MaxFile + 1 /\ disk' \subseteq Tables /\ swept' \subseteq Tables
             /\ pending_outputs' \subseteq Tables /\ outputs' \subseteq Tables
  <2>1. number[t] \in Tables
    BY <1>1, <1>2 DEF CreateTable, IInv, Places
  <2>2. number[t] .. next_file_number - 1 \subseteq Tables
    BY <1>1, <2>1
  <2>3. next_file_number' \in 1 .. MaxFile + 1
    BY <1>1, <1>2, <2>1 DEF CreateTable
  <2>4. disk' \subseteq Tables /\ swept' \subseteq Tables
    BY <1>1, <1>2, <2>1, <2>2 DEF CreateTable
  <2>5. pending_outputs' \subseteq Tables /\ outputs' \subseteq Tables
    BY <1>1, <1>2, <2>1 DEF CreateTable
  <2>6. QED
    BY <2>1, <2>3, <2>4, <2>5
<1>3. next_file_number' \in 1 .. MaxFile + 1
  BY <1>1, <1>2, NumbersBy
<1>4. pending_outputs' \subseteq Tables /\ outputs' \subseteq Tables
  <2>1. ASSUME FinishOutput \/ CleanupCompaction
        PROVE  pending_outputs' \subseteq Tables /\ outputs' \subseteq Tables
    BY <1>1, <2>1 DEF FinishOutput, CleanupCompaction
  <2>2. QED
    BY <1>1, <1>2, <2>1, OutputsBy
<1>5. disk' \subseteq Tables
  <2>1. ASSUME NEW t \in Threads, FinishFlushTable(t) \/ FlushFails(t) PROVE disk' \subseteq Tables
    BY <1>1, <2>1 DEF FinishFlushTable, FlushFails
  <2>2. ASSUME FinishOutput \/ RemoveObsoleteFiles PROVE disk' \subseteq Tables
    BY <1>1, <2>2 DEF FinishOutput, RemoveObsoleteFiles
  <2>3. QED
    BY <1>1, <1>2, <2>1, <2>2, DiskBy
<1>6. catalog' \subseteq Tables /\ unsure' \subseteq Tables /\ descriptor_log' \in BOOLEAN
  <2>1. ASSUME NEW t \in Threads
        PROVE  edit[t].added \subseteq Tables /\ edit[t].deleted \subseteq Tables
    BY <1>1
  <2>2. ASSUME NEW t \in Threads, LogEdit(t)
        PROVE  catalog' \subseteq Tables /\ unsure' \subseteq Tables /\ descriptor_log' \in BOOLEAN
    BY <1>1, <2>1, <2>2 DEF LogEdit, Replayed, Snapshot
  <2>3. ASSUME NEW t \in Threads, LogEditFails(t)
        PROVE  catalog' \subseteq Tables /\ unsure' \subseteq Tables /\ descriptor_log' \in BOOLEAN
    BY <1>1, <2>1, <2>3 DEF LogEditFails, Replayed
  <2>4. QED
    BY <1>1, <2>2, <2>3, CatalogBy
<1>7. children' \subseteq Tables /\ doomed' \subseteq Tables
  <2>1. ASSUME GetChildren \/ AddLiveFiles \/ RemoveObsoleteFiles
        PROVE  children' \subseteq Tables /\ doomed' \subseteq Tables
    BY <1>1, <2>1 DEF GetChildren, AddLiveFiles, RemoveObsoleteFiles
  <2>2. QED
    BY <1>1, <2>1, DoomedBy
<1>8. swept' \subseteq Tables
  <2>1. ASSUME AddLiveFiles PROVE swept' \subseteq Tables
    BY <1>1, <1>7, <2>1 DEF AddLiveFiles
  <2>2. ASSUME NEW t \in Threads, Append(t) PROVE swept' \subseteq Tables
    <3>1. base[t] \in 1 .. MaxVersions
      BY VersionAssumption, <2>2 DEF IInv, TypeOK, Append, Places
    <3>2. QED
      BY <1>1, <2>2, <3>1 DEF Append
  <2>3. QED
    BY <1>1, <1>2, <2>1, <2>2, SweptBy
<1>9. QED
  BY <1>3, <1>4, <1>5, <1>6, <1>7, <1>8

(* ... and the Versions the holders hold.                                  *)
LEMMA HoldersTyped ==
  ASSUME IInv, [Next]_vars
  PROVE  /\ base' \in [Threads -> 0 .. made'] /\ iterator' \in [Iterators -> 0 .. made']
         /\ seen' \in 0 .. made' /\ input_version' \in 0 .. made'
<1>1. /\ made' \in Nat /\ made \in Nat /\ made <= made' /\ current \in 1 .. made
      /\ base \in [Threads -> 0 .. made] /\ iterator \in [Iterators -> 0 .. made]
      /\ seen \in 0 .. made /\ input_version \in 0 .. made
  BY SMTT(60), VersionsTyped, VersionAssumption DEF IInv, TypeOK
<1>2. \/ UNCHANGED base
      \/ \E t \in Threads : base' = [base EXCEPT ![t] = current] \/ base' = [base EXCEPT ![t] = 0]
  BY SMTT(60) DEF Next, UserStep, WorkerStep, ThreadStep, Terminated, ReadCurrent, FinishGet, NewIterator,
       DeleteIterator, BeginFlush, CreateTable, FinishFlushTable, LogEdit, LogEditFails, Build,
       Append, FlushFails, PickCompaction, BeginOutput, FinishOutput, FinishMerge, ReleaseInputs,
       GetChildren, AddLiveFiles, RemoveObsoleteFiles, CleanupCompaction
<1>3. \/ UNCHANGED iterator
      \/ \E i \in Iterators : iterator' = [iterator EXCEPT ![i] = seen] \/ iterator' = [iterator EXCEPT ![i] = 0]
  BY SMTT(60) DEF Next, UserStep, WorkerStep, ThreadStep, Terminated, ReadCurrent, FinishGet, NewIterator,
       DeleteIterator, BeginFlush, CreateTable, FinishFlushTable, LogEdit, LogEditFails, Build,
       Append, FlushFails, PickCompaction, BeginOutput, FinishOutput, FinishMerge, ReleaseInputs,
       GetChildren, AddLiveFiles, RemoveObsoleteFiles, CleanupCompaction
<1>4. seen' \in {seen, current, 0} /\ input_version' \in {input_version, current, 0}
  BY SMTT(60) DEF Next, UserStep, WorkerStep, ThreadStep, Terminated, ReadCurrent, FinishGet, NewIterator,
       DeleteIterator, BeginFlush, CreateTable, FinishFlushTable, LogEdit, LogEditFails, Build,
       Append, FlushFails, PickCompaction, BeginOutput, FinishOutput, FinishMerge, ReleaseInputs,
       GetChildren, AddLiveFiles, RemoveObsoleteFiles, CleanupCompaction
<1>5. base' \in [Threads -> 0 .. made']
  BY <1>1, <1>2
<1>6. iterator' \in [Iterators -> 0 .. made']
  BY <1>1, <1>3
<1>7. QED
  BY <1>1, <1>4, <1>5, <1>6

(* Every step keeps TypeOK; the reference counts are RefsKept's.           *)
LEMMA TypeKept ==
  ASSUME IInv, [Next]_vars
  PROVE  TypeOK'
<1>1. TypeOK
  BY DEF IInv
<1>2. refs' \in [1 .. MaxVersions -> Nat]
  BY RefsKept
<1>3. QED
  BY <1>1, <1>2, VersionsTyped, EditsTyped, TablesTyped, HoldersTyped, FlagsKept, PlacesTyped DEF TypeOK

-----------------------------------------------------------------------------
(* Places.                                                                 *)

(* Every step keeps Places.                                                *)
LEMMA PlacesKept ==
  ASSUME TypeOK, Places, [Next]_vars
  PROVE  Places'
<1> USE DEF Next, UserStep, WorkerStep, ThreadStep, Terminated, ReadCurrent, FinishGet,
            NewIterator, DeleteIterator, BeginFlush, CreateTable, FinishFlushTable,
            LogEdit, LogEditFails, Build, Append, FlushFails, PickCompaction,
            BeginOutput, FinishOutput, FinishMerge, ReleaseInputs, GetChildren,
            AddLiveFiles, RemoveObsoleteFiles, CleanupCompaction
<1>1. /\ pc["user"] \in {"idle", "read", "number", "write", "log", "build", "append", "failed"}
      /\ kind["user"] \in {"none", "flush"}
      /\ pc["user"] \in {"idle", "read"} => kind["user"] = "none"
      /\ pc["worker"] \in {"list", "live", "remove", "release", "cleanup"} => kind["worker"] # "flush"
      /\ pc["worker"] = "merge" => kind["worker"] = "merge"
  BY DEF Places
<1>2. /\ pc \in [Threads -> {"idle", "read", "number", "write", "merge", "log", "build", "append", "release",
                            "list", "live", "remove", "cleanup", "failed", "stopped"}]
      /\ kind \in [Threads -> {"none", "flush", "move", "merge"}]
      /\ number \in [Threads -> Nat]
  BY DEF TypeOK
<1>3. (/\ pc["user"] \in {"idle", "read", "number", "write", "log", "build", "append", "failed"}
       /\ kind["user"] \in {"none", "flush"})'
  <2>1. pc["user"] = "append" => kind["user"] = "flush"
    BY <1>1 DEF Places, BeforeAppend
  <2>2. (pc["user"] \in {"idle", "read", "number", "write", "log", "build", "append", "failed"})'
    BY <1>1, <1>2, <2>1
  <2>3. (kind["user"] \in {"none", "flush"})'
    BY <1>1, <1>2
  <2>4. QED
    BY <2>2, <2>3
<1>4. (pc["user"] \in {"idle", "read"} => kind["user"] = "none")'
  BY <1>1, <1>2
<1>5. (pc["worker"] \in {"list", "live", "remove", "release", "cleanup"} => kind["worker"] # "flush")'
  BY <1>1, <1>2 DEF Places, BeforeAppend
<1>6. (pc["worker"] = "merge" => kind["worker"] = "merge")'
  BY <1>1, <1>2
<1>7. ASSUME NEW t \in Threads
      PROVE  (/\ pc[t] \in BeforeAppend \cup {"failed"} => kind[t] # "none"
              /\ pc[t] = "idle" => kind[t] = "none"
              /\ pc[t] = "number" => kind[t] # "move"
              /\ pc[t] = "write" => kind[t] # "move")'
  BY <1>1, <1>2 DEF Places, BeforeAppend
<1>8. ASSUME NEW t \in Threads
      PROVE  (base[t] # 0 <=> pc[t] = "append")'
  BY <1>2 DEF TypeOK, Places
<1>9. ASSUME NEW t \in Threads
      PROVE  (pc[t] \in {"number", "write"} => number[t] # 0)'
  BY SMTT(60), <1>2 DEF TypeOK, Places
<1>10. (input_version # 0 =>
         \/ kind["worker"] \in {"move", "merge"} /\ pc["worker"] \in BeforeAppend \cup {"release", "failed"}
         \/ kind["worker"] = "none" /\ pc["worker"] \in {"list", "live", "remove", "release"})'
  BY <1>1, <1>2 DEF Places, BeforeAppend
<1>11. (doomed # {} => pc["worker"] = "remove")'
  BY <1>1, <1>2 DEF Places
<1>12. ASSUME NEW t \in Threads
       PROVE  (pc[t] \in {"build", "append"} => descriptor_log)'
  BY SMTT(60), <1>2 DEF TypeOK, Places
<1>13. QED
  BY <1>3, <1>4, <1>5, <1>6, <1>7, <1>8, <1>9, <1>10, <1>11, <1>12 DEF Places

(* Only a flush or a compaction that begins is given a Version number.     *)
LEMMA RoomKept ==
  ASSUME IInv, [Next]_vars
  PROVE  Room'
<1>1. /\ Room /\ made \in Nat /\ MaxVersions \in Nat
      /\ pc \in [Threads -> {"idle", "read", "number", "write", "merge", "log", "build", "append", "release",
                            "list", "live", "remove", "cleanup", "failed", "stopped"}]
  BY VersionAssumption DEF IInv, TypeOK
<1>2. ASSUME NEW t \in Threads, Append(t) PROVE Room'
  <2>1. made' = made + 1 /\ pc'[t] \notin BeforeAppend /\ \A u \in Threads \ {t} : pc'[u] = pc[u]
    BY <1>1, <1>2 DEF Append, BeforeAppend
  <2>2. pc[t] \in BeforeAppend
    BY <1>2 DEF Append, BeforeAppend
  <2>3. QED
    BY <1>1, <2>1, <2>2 DEF Room
<1>3. ASSUME NEW t \in Threads, RoomForVersion, made' = made, \A u \in Threads \ {t} : pc'[u] = pc[u]
      PROVE  Room'
  <2>1. IsFiniteSet(Busy)
    BY TwoThreads, FS_Subset DEF Busy
  <2>2. Cardinality(Busy) \in Nat /\ (Busy # {} => Cardinality(Busy) > 0)
    BY <2>1, FS_CardinalityType, FS_EmptySet
  <2>3. made + 1 <= MaxVersions
    BY <1>1, <1>3, <2>2 DEF RoomForVersion
  <2>4. \A u \in Threads : pc[u] \in BeforeAppend => made + 2 <= MaxVersions
    <3>1. \A u \in Threads : pc[u] \in BeforeAppend => u \in Busy
      BY DEF IInv, Places, Busy
    <3>2. QED
      BY <1>1, <1>3, <2>2, <3>1 DEF RoomForVersion
  <2>5. QED
    BY <1>1, <1>3, <2>3, <2>4 DEF Room
<1>4. ASSUME NEW t \in Threads, BeginFlush(t) PROVE Room'
  BY <1>1, <1>3, <1>4 DEF BeginFlush
<1>5. ASSUME NEW inputs \in SUBSET files[current], NEW what \in {"move", "merge"},
             PickCompaction(inputs, what)
      PROVE  Room'
  BY <1>1, <1>3, <1>5 DEF PickCompaction
<1>6. ASSUME made' = made, \A t \in Threads : pc'[t] \in BeforeAppend => pc[t] \in BeforeAppend PROVE Room'
  BY <1>1, <1>6 DEF Room
<1>7. \/ UNCHANGED made /\ \A t \in Threads : pc'[t] \in BeforeAppend => pc[t] \in BeforeAppend
      \/ \E t \in Threads : Append(t) \/ BeginFlush(t)
      \/ \E inputs \in SUBSET files[current], what \in {"move", "merge"} : PickCompaction(inputs, what)
  BY SMTT(60), <1>1 DEF BeforeAppend, Next, UserStep, WorkerStep, ThreadStep, Terminated, ReadCurrent, FinishGet, NewIterator,
       DeleteIterator, CreateTable, FinishFlushTable, LogEdit, LogEditFails, Build,
       FlushFails, BeginOutput, FinishOutput, FinishMerge, ReleaseInputs,
       GetChildren, AddLiveFiles, RemoveObsoleteFiles, CleanupCompaction
<1>8. QED
  BY <1>2, <1>4, <1>5, <1>6, <1>7

(* Every step keeps FlushEdit.                                             *)
LEMMA FlushEditKept ==
  ASSUME IInv, [Next]_vars
  PROVE  FlushEdit'
<1>1. /\ FlushEdit
      /\ number \in [Threads -> Nat]
      /\ edit \in [Threads -> [added : SUBSET Tables, deleted : SUBSET Tables]]
      /\ kind \in [Threads -> {"none", "flush", "move", "merge"}]
      /\ pc["worker"] = "merge" => kind["worker"] = "merge"
      /\ \A t \in Threads : pc[t] = "idle" => kind[t] = "none"
  BY DEF IInv, TypeOK, Places
<1> DEFINE Good(t) == /\ kind[t] = "flush" =>
                           edit[t] \in {NoEdit, [added |-> {number[t]}, deleted |-> {}]}
                      /\ kind[t] = "none" => edit[t] = NoEdit
<1>2. ASSUME NEW t \in Threads, NEW u \in Threads, BeginFlush(u) \/ FinishFlushTable(u) PROVE Good(t)'
  BY <1>1, <1>2 DEF FlushEdit, BeginFlush, FinishFlushTable
<1>3. ASSUME NEW t \in Threads, NEW u \in Threads, Append(u) \/ FlushFails(u) PROVE Good(t)'
  BY <1>1, <1>3 DEF FlushEdit, Append, FlushFails
<1>4. ASSUME NEW t \in Threads, NEW inputs \in SUBSET files[current], NEW what \in {"move", "merge"},
             PickCompaction(inputs, what)
      PROVE  Good(t)'
  BY <1>1, <1>4 DEF FlushEdit, PickCompaction
<1>5. ASSUME NEW t \in Threads, BeginOutput \/ FinishOutput PROVE Good(t)'
  BY <1>1, <1>5 DEF FlushEdit, BeginOutput, FinishOutput
<1>6. ASSUME NEW t \in Threads, ReleaseInputs \/ RemoveObsoleteFiles \/ CleanupCompaction PROVE Good(t)'
  BY <1>1, <1>6 DEF FlushEdit, ReleaseInputs, RemoveObsoleteFiles, CleanupCompaction
<1>7. ASSUME NEW t \in Threads, UNCHANGED <<kind, number, edit>> PROVE Good(t)'
  BY <1>1, <1>7 DEF FlushEdit
<1>8. ASSUME NEW t \in Threads
      PROVE  (kind[t] = "flush" /\ pc[t] \in {"number", "write"} => edit[t] = NoEdit)'
  <2>1. /\ kind[t] = "none" => edit[t] = NoEdit
        /\ kind[t] = "flush" /\ pc[t] \in {"number", "write"} => edit[t] = NoEdit
        /\ pc[t] = "idle" => kind[t] = "none"
        /\ pc \in [Threads -> {"idle", "read", "number", "write", "merge", "log", "build", "append", "release",
                              "list", "live", "remove", "cleanup", "failed", "stopped"}]
    BY <1>1 DEF FlushEdit, IInv, TypeOK
  <2>2. QED
    BY SMTT(60), <1>1, <2>1 DEF Next, UserStep, WorkerStep, ThreadStep, Terminated, ReadCurrent, FinishGet, NewIterator,
       DeleteIterator, BeginFlush, CreateTable, FinishFlushTable, LogEdit, LogEditFails, Build,
       Append, FlushFails, PickCompaction, BeginOutput, FinishOutput, FinishMerge, ReleaseInputs,
       GetChildren, AddLiveFiles, RemoveObsoleteFiles, CleanupCompaction
<1>9. QED
  BY <1>2, <1>3, <1>4, <1>5, <1>6, <1>7, <1>8, WorkBy DEF FlushEdit

-----------------------------------------------------------------------------
(* What a step may do to the tables.                                       *)

(* Only CreateTable gives a thread a table of its own.                     *)
LEMMA MakingBy ==
  ASSUME IInv, [Next]_vars, NEW t \in Threads, Making(t)'
  PROVE  (Making(t) /\ number'[t] = number[t]) \/ CreateTable(t)
<1>1. /\ pc \in [Threads -> {"idle", "read", "number", "write", "merge", "log", "build", "append", "release",
                            "list", "live", "remove", "cleanup", "failed", "stopped"}]
      /\ kind \in [Threads -> {"none", "flush", "move", "merge"}]
      /\ number \in [Threads -> Nat]
      /\ pc["worker"] \in {"list", "live", "remove", "release", "cleanup"} => kind["worker"] # "flush"
      /\ pc["worker"] = "merge" => kind["worker"] = "merge"
      /\ pc[t] = "idle" => kind[t] = "none"
  BY DEF IInv, TypeOK, Places
<1>2. QED
  BY SMTT(60), <1>1 DEF Making, Next, UserStep, WorkerStep, ThreadStep, Terminated, ReadCurrent, FinishGet, NewIterator,
       DeleteIterator, BeginFlush, CreateTable, FinishFlushTable, LogEdit, LogEditFails, Build,
       Append, FlushFails, PickCompaction, BeginOutput, FinishOutput, FinishMerge, ReleaseInputs,
       GetChildren, AddLiveFiles, RemoveObsoleteFiles, CleanupCompaction

(* An edit gains the table its thread made, or tables of the current       *)
(* Version.                                                                *)
LEMMA EditBy ==
  ASSUME IInv, [Next]_vars, NEW t \in Threads, NEW n, n \in edit'[t].added \/ n \in edit'[t].deleted
  PROVE  \/ n \in edit[t].added \/ n \in edit[t].deleted
         \/ Making(t) /\ n = number[t]
         \/ n \in files[current]
<1>1. edit \in [Threads -> [added : SUBSET Tables, deleted : SUBSET Tables]]
  BY DEF IInv, TypeOK
<1>2. ASSUME NEW u \in Threads, BeginFlush(u) \/ FinishFlushTable(u) \/ Append(u) \/ FlushFails(u)
      PROVE  n \in edit[t].added \/ n \in edit[t].deleted \/ (Making(t) /\ n = number[t])
  BY <1>1, <1>2 DEF BeginFlush, FinishFlushTable, Append, FlushFails, Making
<1>3. ASSUME BeginOutput \/ FinishOutput \/ ReleaseInputs \/ RemoveObsoleteFiles \/ CleanupCompaction
      PROVE  n \in edit[t].added \/ n \in edit[t].deleted \/ (Making(t) /\ n = number[t])
  BY <1>1, <1>3 DEF BeginOutput, FinishOutput, ReleaseInputs, RemoveObsoleteFiles, CleanupCompaction, Making
<1>4. ASSUME NEW inputs \in SUBSET files[current], NEW what \in {"move", "merge"},
             PickCompaction(inputs, what)
      PROVE  n \in edit[t].added \/ n \in edit[t].deleted \/ n \in files[current]
  BY <1>1, <1>4 DEF PickCompaction
<1>5. QED
  BY <1>2, <1>3, <1>4, WorkBy

(* The same of the tables an edit will add.                                *)
LEMMA AddedBy ==
  ASSUME IInv, [Next]_vars, NEW t \in Threads, pc'[t] \in BeforeAppend, NEW n, n \in edit'[t].added
  PROVE  \/ pc[t] \in BeforeAppend /\ n \in edit[t].added
         \/ Making(t) /\ n = number[t]
         \/ n \in files[current]
<1>1. /\ edit \in [Threads -> [added : SUBSET Tables, deleted : SUBSET Tables]]
      /\ pc \in [Threads -> {"idle", "read", "number", "write", "merge", "log", "build", "append", "release",
                            "list", "live", "remove", "cleanup", "failed", "stopped"}]
      /\ \A u \in Threads : kind[u] = "none" => edit[u] = NoEdit
      /\ pc[t] = "idle" => kind[t] = "none"
  BY DEF IInv, TypeOK, Places, FlushEdit
<1>2. n \in edit[t].added \/ (Making(t) /\ n = number[t]) \/ n \in files[current]
  <2>1. ASSUME NEW inputs \in SUBSET files[current], NEW what \in {"move", "merge"},
               PickCompaction(inputs, what)
        PROVE  n \in edit[t].added \/ n \in files[current]
    BY <1>1, <2>1 DEF PickCompaction
  <2>2. ASSUME NEW u \in Threads, BeginFlush(u) \/ FinishFlushTable(u) \/ Append(u) \/ FlushFails(u)
        PROVE  n \in edit[t].added \/ (Making(t) /\ n = number[t])
    BY <1>1, <2>2 DEF BeginFlush, FinishFlushTable, Append, FlushFails, Making
  <2>3. ASSUME BeginOutput \/ FinishOutput \/ ReleaseInputs \/ RemoveObsoleteFiles \/ CleanupCompaction
        PROVE  n \in edit[t].added \/ (Making(t) /\ n = number[t])
    BY <1>1, <2>3 DEF BeginOutput, FinishOutput, ReleaseInputs, RemoveObsoleteFiles, CleanupCompaction, Making
  <2>4. QED
    BY <2>1, <2>2, <2>3, WorkBy
<1>3. pc[t] \in BeforeAppend \/ pc[t] = "idle"
  BY SMTT(60), <1>1 DEF BeforeAppend, Next, UserStep, WorkerStep, ThreadStep, Terminated, ReadCurrent, FinishGet, NewIterator,
       DeleteIterator, BeginFlush, CreateTable, FinishFlushTable, LogEdit, LogEditFails, Build,
       Append, FlushFails, PickCompaction, BeginOutput, FinishOutput, FinishMerge, ReleaseInputs,
       GetChildren, AddLiveFiles, RemoveObsoleteFiles, CleanupCompaction
<1>4. pc[t] = "idle" => edit[t].added = {}
  BY <1>1
<1>5. QED
  BY <1>2, <1>3, <1>4

(* A file goes when RemoveObsoleteFiles removes it, or when the thread     *)
(* that made it gives it up.                                               *)
LEMMA DiskLoses ==
  ASSUME IInv, [Next]_vars, NEW n \in disk, n \notin disk'
  PROVE  \/ RemoveObsoleteFiles /\ n \in doomed
         \/ \E t \in Threads : Making(t) /\ n = number[t] /\ ~Making(t)' /\ pc'[t] \notin BeforeAppend
<1>1. /\ pc \in [Threads -> {"idle", "read", "number", "write", "merge", "log", "build", "append", "release",
                            "list", "live", "remove", "cleanup", "failed", "stopped"}]
      /\ kind \in [Threads -> {"none", "flush", "move", "merge"}]
  BY DEF IInv, TypeOK
<1>2. ASSUME NEW t \in Threads, FinishFlushTable(t)
      PROVE  Making(t) /\ n = number[t] /\ ~Making(t)' /\ pc'[t] \notin BeforeAppend
  BY <1>1, <1>2 DEF FinishFlushTable, Making, BeforeAppend
<1>3. ASSUME NEW t \in Threads, FlushFails(t)
      PROVE  Making(t) /\ n = number[t] /\ ~Making(t)' /\ pc'[t] \notin BeforeAppend
  BY <1>1, <1>3 DEF FlushFails, Making, BeforeAppend
<1>4. ASSUME FinishOutput
      PROVE  /\ Making("worker") /\ n = number["worker"] /\ ~Making("worker")'
             /\ pc'["worker"] \notin BeforeAppend
  BY <1>1, <1>4 DEF FinishOutput, Making, BeforeAppend
<1>5. ASSUME RemoveObsoleteFiles PROVE n \in doomed
  BY <1>5 DEF RemoveObsoleteFiles
<1>6. ASSUME NEW t \in Threads, CreateTable(t) PROVE FALSE
  BY <1>6 DEF CreateTable
<1>7. QED
  BY <1>2, <1>3, <1>4, <1>5, <1>6, DiskBy

(* A Version comes into the list when it is installed.                     *)
LEMMA ListedBy ==
  ASSUME IInv, [Next]_vars, NEW v \in Listed'
  PROVE  \/ v \in Listed /\ files'[v] = files[v]
         \/ \E t \in Threads : Append(t) /\ v = made'
<1>1. /\ refs \in [1 .. MaxVersions -> Nat] /\ made \in 1 .. MaxVersions /\ MaxVersions \in Nat
      /\ current \in 1 .. made /\ current \in Listed /\ v \in 1 .. made' /\ refs'[v] > 0
      /\ seen \in 0 .. made /\ iterator \in [Iterators -> 0 .. made] /\ input_version \in 0 .. made
      /\ files \in [1 .. MaxVersions -> SUBSET Tables] /\ made' \in 1 .. MaxVersions
  BY HeldIsListed, VersionAssumption, VersionsTyped DEF IInv, TypeOK, Listed
<1>2. ASSUME NEW t \in Threads, Append(t), v # made' PROVE v \in Listed /\ files'[v] = files[v]
  <2>1. v \in 1 .. made
    BY <1>1, <1>2 DEF Append
  <2>2. files'[v] = files[v]
    BY <1>1, <1>2 DEF Append
  <2>3. base[t] \in 1 .. made
    BY <1>2 DEF IInv, TypeOK, Places, Append
  <2>4. refs[v] > 0
    BY <1>1, <1>2, <2>1, <2>3 DEF Append, Unref
  <2>5. QED
    BY <2>1, <2>2, <2>4 DEF Listed
<1>3. ASSUME UNCHANGED <<files, current, made>>, refs[v] > 0 PROVE v \in Listed /\ files'[v] = files[v]
  BY <1>1, <1>3 DEF Listed
<1>4. ASSUME UNCHANGED <<files, current, made>> PROVE refs[v] > 0
  <2>1. v \in 1 .. MaxVersions /\ v \in 1 .. made
    BY <1>1, <1>4
  <2>2. ASSUME NEW i \in Iterators, NewIterator(i) PROVE refs[v] > 0
    BY <1>1, <2>1, <2>2 DEF NewIterator, Ref
  <2>3. ASSUME NEW i \in Iterators, DeleteIterator(i) PROVE refs[v] > 0
    BY <1>1, <2>1, <2>3 DEF DeleteIterator, Unref
  <2>4. ASSUME NEW t \in Threads, Build(t) PROVE refs[v] > 0
    BY <1>1, <2>1, <2>4 DEF Build, Ref, Listed
  <2>5. ASSUME NEW inputs \in SUBSET files[current], NEW what \in {"move", "merge"},
               PickCompaction(inputs, what)
        PROVE  refs[v] > 0
    BY <1>1, <2>1, <2>5 DEF PickCompaction, Ref, Listed
  <2>6. ASSUME ReleaseInputs PROVE refs[v] > 0
    BY <1>1, <2>1, <2>6 DEF ReleaseInputs, Unref
  <2>7. ASSUME NEW t \in Threads, Append(t) PROVE refs[v] > 0
    BY <1>1, <1>4, <2>7 DEF Append
  <2>8. QED
    BY <1>1, <2>2, <2>3, <2>4, <2>5, <2>6, <2>7, RefsBy
<1>5. QED
  BY <1>2, <1>3, <1>4, VersionsBy

(* A new Version has tables of its base and tables its edit adds.          *)
LEMMA FilesBy ==
  ASSUME IInv, [Next]_vars, NEW v \in 1 .. MaxVersions, NEW n \in files'[v]
  PROVE  \/ n \in files[v] /\ files'[v] = files[v]
         \/ \E t \in Threads : Append(t) /\ v = made' /\ (n \in files[base[t]] \/ n \in edit[t].added)
<1>1. files \in [1 .. MaxVersions -> SUBSET Tables]
  BY DEF IInv, TypeOK
<1>2. ASSUME NEW t \in Threads, Append(t)
      PROVE  \/ n \in files[v] /\ files'[v] = files[v]
             \/ v = made' /\ (n \in files[base[t]] \/ n \in edit[t].added)
  BY <1>1, <1>2 DEF Append, Replayed
<1>3. QED
  BY <1>1, <1>2, VersionsBy

-----------------------------------------------------------------------------
(* Tables.                                                                 *)

(* Whatever is swept stays so.                                             *)
LEMMA SweptGrows ==
  ASSUME [Next]_vars
  PROVE  swept \subseteq swept'
<1>1. ASSUME NEW t \in Threads, CreateTable(t) \/ Append(t) PROVE swept \subseteq swept'
  BY <1>1 DEF CreateTable, Append
<1>2. ASSUME AddLiveFiles PROVE swept \subseteq swept'
  BY <1>2 DEF AddLiveFiles
<1>3. QED
  BY <1>1, <1>2, SweptBy

(* A table a step takes into use is the one CreateTable creates.           *)
LEMMA UsedBy ==
  ASSUME IInv, [Next]_vars, NEW n, Used(n)'
  PROVE  Used(n) \/ \E t \in Threads : CreateTable(t) /\ n = number[t]
<1>1. current \in 1 .. MaxVersions /\ \A t \in Threads : base[t] # 0 => base[t] \in 1 .. MaxVersions
  BY VersionAssumption DEF IInv, TypeOK
<1>2. CASE n \in disk'
  <2>1. ASSUME NEW t \in Threads, CreateTable(t) \/ FinishFlushTable(t) \/ FlushFails(t), n \notin disk
        PROVE  CreateTable(t) /\ n = number[t]
    BY <1>2, <2>1 DEF CreateTable, FinishFlushTable, FlushFails
  <2>2. ASSUME FinishOutput \/ RemoveObsoleteFiles PROVE n \in disk
    BY <1>2, <2>2 DEF FinishOutput, RemoveObsoleteFiles
  <2>3. QED
    BY <1>2, <2>1, <2>2, DiskBy DEF Used
<1>3. CASE n \in children' \cup doomed'
  <2>1. ASSUME GetChildren \/ AddLiveFiles \/ RemoveObsoleteFiles PROVE n \in disk \cup children \cup doomed
    BY <1>3, <2>1 DEF GetChildren, AddLiveFiles, RemoveObsoleteFiles
  <2>2. QED
    BY <1>3, <2>1, DoomedBy DEF Used
<1>4. ASSUME NEW v \in 1 .. MaxVersions, n \in files'[v] PROVE Used(n)
  <2>1. ASSUME NEW t \in Threads, Append(t) PROVE base[t] \in 1 .. MaxVersions
    BY <1>1, <2>1 DEF IInv, Places, Append
  <2>2. QED
    BY <1>4, <2>1, FilesBy DEF Used
<1>5. ASSUME NEW t \in Threads, n \in edit'[t].added \/ n \in edit'[t].deleted PROVE Used(n)
  BY <1>1, <1>5, EditBy DEF Used
<1>6. ASSUME NEW t \in Threads, Making(t)', n = number'[t]
      PROVE  Used(n) \/ (CreateTable(t) /\ n = number[t])
  <2>1. CASE Making(t) /\ number'[t] = number[t]
    BY <1>6, <2>1 DEF Used
  <2>2. CASE CreateTable(t)
    BY <1>6, <2>2 DEF CreateTable
  <2>3. QED
    BY <1>6, <2>1, <2>2, MakingBy
<1>7. QED
  BY <1>2, <1>3, <1>4, <1>5, <1>6 DEF Used

(* NewFileNumber hands out no number in use, or sweeps it.                 *)
LEMMA NumbersAheadKept ==
  ASSUME IInv, [Next]_vars
  PROVE  NumbersAhead'
<1>1. /\ NumbersAhead /\ next_file_number \in Nat /\ MaxFile \in Nat
      /\ number \in [Threads -> Nat]
  BY VersionAssumption DEF IInv, TypeOK
<1>2. ASSUME NEW n \in Tables, Used(n)', n >= next_file_number' PROVE n \in swept'
  <2>1. ASSUME NEW t \in Threads, CreateTable(t), n = number[t] PROVE FALSE
    BY <1>1, <1>2, <2>1 DEF CreateTable
  <2>2. Used(n)
    BY <1>2, <2>1, UsedBy
  <2>3. CASE n >= next_file_number
    BY <1>1, <2>2, <2>3, SweptGrows DEF NumbersAhead
  <2>4. CASE n < next_file_number
    <3>1. ASSUME NEW t \in Threads, CreateTable(t) PROVE n \in swept'
      BY <1>1, <1>2, <2>4, <3>1 DEF CreateTable
    <3>2. QED
      BY <1>1, <1>2, <2>4, <3>1, NumbersBy
  <2>5. QED
    BY <1>1, <2>3, <2>4
<1>3. QED
  BY <1>2 DEF NumbersAhead

(* The number a thread is about to create a table with is used by nobody,  *)
(* unless it is handed out twice.                                          *)
LEMMA FreshNumber ==
  ASSUME IInv, NEW t \in Threads, CreateTable(t), number[t] \notin swept'
  PROVE  ~Used(number[t])
<1>1. /\ NumbersAhead /\ next_file_number \in Nat /\ number[t] \in Nat /\ number[t] \in Tables
      /\ MaxFile \in Nat
  BY VersionAssumption DEF IInv, TypeOK, Places, CreateTable
<1>2. number[t] >= next_file_number /\ number[t] \notin swept
  BY <1>1 DEF CreateTable
<1>3. QED
  BY <1>1, <1>2 DEF NumbersAhead

(* Every step leaves the tables being made to their threads.               *)
LEMMA OwnKept ==
  ASSUME IInv, [Next]_vars
  PROVE  Own'
<1>1. /\ \A t \in Threads : Making(t) /\ number[t] \notin swept => Owned(t, number[t])
      /\ current \in 1 .. MaxVersions /\ \A t \in Threads : base[t] # 0 => base[t] \in 1 .. MaxVersions
  BY VersionAssumption DEF IInv, TypeOK, Own
<1>2. SUFFICES ASSUME NEW t \in Threads, Making(t)', NEW n, n = number'[t], n \notin swept'
               PROVE  Owned(t, n)'
  BY DEF Own
<1>3. n \notin swept
  BY <1>2, SweptGrows
<1>4. ASSUME NEW u \in Threads, Append(u)
      PROVE  base[u] \in 1 .. MaxVersions /\ ~Making(u)'
  <2>1. base[u] \in 1 .. MaxVersions
    BY <1>1, <1>4 DEF IInv, Places, Append
  <2>2. pc'[u] \in {"idle", "release"}
    BY <1>4 DEF IInv, TypeOK, Append
  <2>3. QED
    BY <2>1, <2>2 DEF Making
<1>5. CASE CreateTable(t)
  <2>1. ~Used(n) /\ n = number[t]
    BY <1>2, <1>5, FreshNumber DEF CreateTable
  <2>2. n \in disk' /\ UNCHANGED <<doomed, files, edit>>
    BY <1>5, <2>1 DEF CreateTable
  <2>3. \A u \in Threads \ {t} : Making(u)' <=> Making(u)
    BY <1>5 DEF CreateTable, Making, IInv, TypeOK
  <2>4. \A u \in Threads : number'[u] = number[u]
    BY <1>5 DEF CreateTable
  <2>5. QED
    BY <2>1, <2>2, <2>3, <2>4 DEF Owned, Used
<1>6. CASE ~CreateTable(t)
  <2>1. Making(t) /\ n = number[t]
    BY <1>2, <1>6, MakingBy
  <2>2. Owned(t, n)
    BY <1>1, <1>3, <2>1
  <2>3. n \in disk'
    BY <1>2, <2>1, <2>2, DiskLoses DEF Owned
  <2>4. n \notin doomed'
    <3>1. ASSUME AddLiveFiles PROVE n \notin doomed'
      <4>1. kind["worker"] # "flush" /\ pc'["worker"] = "remove" /\ kind' = kind
        BY <3>1 DEF IInv, TypeOK, Places, AddLiveFiles
      <4>2. t = "user"
        BY <1>2, <4>1 DEF Making
      <4>3. QED
        BY <1>2, <2>1, <3>1, <4>2 DEF AddLiveFiles
    <3>2. ASSUME GetChildren \/ RemoveObsoleteFiles PROVE n \notin doomed'
      BY <2>2, <3>2 DEF GetChildren, RemoveObsoleteFiles, Owned
    <3>3. QED
      BY <2>2, <3>1, <3>2, DoomedBy DEF Owned
  <2>5. ASSUME NEW v \in 1 .. MaxVersions PROVE n \notin files'[v]
    BY <1>2, <1>4, <2>2, <2>5, FilesBy DEF Owned
  <2>6. ASSUME NEW u \in Threads \ {t} PROVE n \notin edit'[u].added /\ n \notin edit'[u].deleted
    BY <1>1, <2>2, <2>6, EditBy DEF Owned
  <2>7. ASSUME NEW u \in Threads \ {t}, Making(u)' PROVE number'[u] # n
    <3>1. CASE CreateTable(u)
      <4>1. number'[u] = number[u] /\ number' = number
        BY <3>1 DEF CreateTable
      <4>2. CASE number[u] \in swept'
        BY <1>2, <4>1, <4>2
      <4>3. CASE number[u] \notin swept'
        <5>1. ~Used(number[u])
          BY <3>1, <4>3, FreshNumber
        <5>2. QED
          BY <2>1, <4>1, <5>1 DEF Used
      <4>4. QED
        BY <4>2, <4>3
    <3>2. CASE ~CreateTable(u)
      BY <2>2, <2>7, <3>2, MakingBy DEF Owned
    <3>3. QED
      BY <3>1, <3>2
  <2>8. QED
    BY <2>3, <2>4, <2>5, <2>6, <2>7 DEF Owned
<1>7. QED
  BY <1>5, <1>6

(* The tables of an edit stay on the disk until it is installed.           *)
LEMMA AddedKeptKept ==
  ASSUME IInv, [Next]_vars
  PROVE  AddedKept'
<1>1. SUFFICES ASSUME NEW t \in Threads, pc'[t] \in BeforeAppend, NEW n \in edit'[t].added, n \notin swept'
               PROVE  n \in disk'
  BY DEF AddedKept, BeforeAppend
<1>2. n \notin swept
  BY <1>1, SweptGrows
<1>3. \A u \in Threads : Making(u) /\ number[u] \notin swept => Owned(u, number[u])
  BY DEF IInv, Own
<1>4. current \in 1 .. MaxVersions /\ current \in Listed
  <2>1. TypeOK /\ RefsExact
    BY DEF IInv
  <2>2. current \in 1 .. MaxVersions
    BY <2>1, VersionAssumption DEF TypeOK
  <2>3. QED
    BY <2>1, <2>2, HeldIsListed
<1>5. \/ pc[t] \in BeforeAppend /\ n \in edit[t].added
      \/ Making(t) /\ n = number[t]
      \/ n \in files[current]
  BY <1>1, AddedBy
<1>6. n \in disk
  BY <1>2, <1>3, <1>4, <1>5 DEF IInv, AddedKept, FilesKept, Owned
<1>7. ASSUME RemoveObsoleteFiles, n \in doomed PROVE FALSE
  <2>1. t = "user"
    BY <1>1, <1>7 DEF IInv, TypeOK, RemoveObsoleteFiles, BeforeAppend
  <2>2. pc'["user"] = pc["user"] /\ edit'["user"] = edit["user"]
    BY <1>7 DEF IInv, TypeOK, RemoveObsoleteFiles
  <2>3. kind["user"] = "flush" /\ pc["user"] \in {"number", "write", "log", "build", "append"}
    BY <1>1, <2>1, <2>2 DEF IInv, Places, BeforeAppend
  <2>4. Making("user") /\ n = number["user"]
    BY <1>1, <2>1, <2>2, <2>3 DEF IInv, FlushEdit, Making
  <2>5. QED
    BY <1>2, <1>3, <1>7, <2>4 DEF Owned
<1>8. ASSUME NEW u \in Threads, Making(u), n = number[u], ~Making(u)', pc'[u] \notin BeforeAppend PROVE FALSE
  BY <1>1, <1>2, <1>3, <1>4, <1>5, <1>8 DEF Owned
<1>9. QED
  BY <1>6, <1>7, <1>8, DiskLoses

(* What a new Version has.                                                 *)
LEMMA NewTables ==
  ASSUME IInv, NEW t \in Threads, Append(t), NEW n \in files'[made'], made' \in 1 .. MaxVersions
  PROVE  n \in files[base[t]] \/ n \in edit[t].added
<1>1. /\ files \in [1 .. MaxVersions -> SUBSET Tables]
      /\ files' = [files EXCEPT ![made'] = Replayed(files[base[t]], edit[t])]
  BY DEF IInv, TypeOK, Append
<1>2. files'[made'] = Replayed(files[base[t]], edit[t])
  BY <1>1
<1>3. QED
  BY <1>2 DEF Replayed

(* RemoveObsoleteFiles sees the Versions there are, and those made later take *)
(* no doomed table: it would be of a held base or the edit of its own thread. *)
LEMMA NoneDoomedKept ==
  ASSUME IInv, [Next]_vars
  PROVE  NoneDoomed'
<1>1. SUFFICES ASSUME NEW v \in Listed', NEW n \in doomed', n \in files'[v], n \notin swept'
               PROVE  FALSE
  BY DEF NoneDoomed
<1>2. n \notin swept /\ v \in 1 .. MaxVersions
  BY <1>1, SweptGrows, VersionsTyped, VersionAssumption DEF Listed
<1>3. CASE AddLiveFiles
  <2>1. v \in Listed /\ files' = files
    BY <1>3 DEF AddLiveFiles, Listed
  <2>2. n \in LiveFiles
    BY <1>1, <2>1 DEF LiveFiles
  <2>3. QED
    BY <1>1, <1>3, <2>2 DEF AddLiveFiles
<1>4. CASE ~AddLiveFiles
  <2>1. n \in doomed
    BY <1>1, <1>4, DoomedBy DEF GetChildren, RemoveObsoleteFiles
  <2>2. ~(v \in Listed /\ n \in files[v])
    BY <1>2, <2>1 DEF IInv, NoneDoomed
  <2>3. PICK t \in Threads : Append(t) /\ (n \in files[base[t]] \/ n \in edit[t].added)
    <3>1. ~(v \in Listed /\ files'[v] = files[v])
      BY <1>1, <2>2
    <3>2. ASSUME NEW t \in Threads, Append(t), v = made' PROVE n \in files[base[t]] \/ n \in edit[t].added
      BY <1>1, <1>2, <3>2, NewTables
    <3>3. QED
      BY <1>1, <3>1, <3>2, ListedBy
  <2>4. base[t] \in Listed
    BY <2>3, HeldIsListed DEF IInv, Places, Append
  <2>5. n \in edit[t].added
    BY <1>2, <2>1, <2>3, <2>4 DEF IInv, NoneDoomed
  <2>6. t = "user" /\ kind[t] = "flush"
    BY <2>1, <2>3 DEF IInv, Places, Append, BeforeAppend
  <2>7. Making(t) /\ n = number[t]
    BY <2>3, <2>5, <2>6 DEF IInv, FlushEdit, Making, Append
  <2>8. QED
    BY <1>2, <2>1, <2>7 DEF IInv, Own, Owned
<1>5. QED
  BY <1>3, <1>4

(* A table of a Version in the list goes only if it is swept.              *)
LEMMA FilesKeptKept ==
  ASSUME IInv, [Next]_vars
  PROVE  FilesKept'
<1>1. SUFFICES ASSUME NEW v \in Listed', NEW n \in files'[v], n \notin swept'
               PROVE  n \in disk'
  BY DEF FilesKept
<1>2. n \notin swept /\ v \in 1 .. MaxVersions
  BY <1>1, SweptGrows, VersionsTyped, VersionAssumption DEF Listed
<1>3. CASE v \in Listed /\ files'[v] = files[v]
  <2>1. n \in disk
    BY <1>1, <1>2, <1>3 DEF IInv, FilesKept
  <2>2. n \notin doomed
    BY <1>1, <1>2, <1>3 DEF IInv, NoneDoomed
  <2>3. ASSUME NEW t \in Threads, Making(t), n = number[t] PROVE FALSE
    BY <1>1, <1>2, <1>3, <2>3 DEF IInv, Own, Owned
  <2>4. QED
    BY <2>1, <2>2, <2>3, DiskLoses
<1>4. ASSUME NEW t \in Threads, Append(t), v = made' PROVE n \in disk'
  <2>1. base[t] \in Listed /\ pc[t] \in BeforeAppend /\ disk' = disk
    BY <1>4, HeldIsListed DEF IInv, Places, Append, BeforeAppend
  <2>2. n \in files[base[t]] \/ n \in edit[t].added
    BY <1>1, <1>2, <1>4, NewTables
  <2>3. QED
    BY <1>2, <2>1, <2>2 DEF IInv, FilesKept, AddedKept
<1>5. QED
  BY <1>3, <1>4, ListedBy

-----------------------------------------------------------------------------
(* The MANIFEST.                                                           *)

(* A thread that installs an edit has logged it, keeps it, and installs it *)
(* before it does anything else.                                           *)
LEMMA InstallBy ==
  ASSUME IInv, [Next]_vars, NEW t \in Threads
  PROVE  /\ pc'[t] \in {"build", "append"} =>
              (LogEdit(t) \/ pc[t] \in {"build", "append"}) /\ edit'[t] = edit[t]
         /\ pc[t] \in {"build", "append"} =>
              Append(t) \/ (pc'[t] \in {"build", "append"} /\ edit'[t] = edit[t])
<1>1. /\ pc \in [Threads -> {"idle", "read", "number", "write", "merge", "log", "build", "append", "release",
                            "list", "live", "remove", "cleanup", "failed", "stopped"}]
      /\ edit \in [Threads -> [added : SUBSET Tables, deleted : SUBSET Tables]]
  BY DEF IInv, TypeOK
<1>2. ASSUME pc'[t] \in {"build", "append"}, pc[t] \notin {"build", "append"} PROVE LogEdit(t)
  <2>1. \/ \E u \in Threads : LogEdit(u) \/ Build(u)
        \/ pc'[t] \in {"build", "append"} => pc[t] \in {"build", "append"}
    BY SMTT(60), <1>1 DEF Next, UserStep, WorkerStep, ThreadStep, Terminated, ReadCurrent, FinishGet, NewIterator,
       DeleteIterator, BeginFlush, CreateTable, FinishFlushTable, LogEdit, LogEditFails, Build,
       Append, FlushFails, PickCompaction, BeginOutput, FinishOutput, FinishMerge, ReleaseInputs,
       GetChildren, AddLiveFiles, RemoveObsoleteFiles, CleanupCompaction
  <2>2. ASSUME NEW u \in Threads, LogEdit(u) PROVE u = t
    BY <1>1, <1>2, <2>2 DEF LogEdit
  <2>3. ASSUME NEW u \in Threads, Build(u) PROVE FALSE
    BY <1>1, <1>2, <2>3 DEF Build
  <2>4. QED
    BY <1>2, <2>1, <2>2, <2>3
<1>3. ASSUME pc[t] \in {"build", "append"}, pc'[t] \notin {"build", "append"} PROVE Append(t)
  <2>1. \/ \E u \in Threads : Append(u)
        \/ pc[t] \in {"build", "append"} => pc'[t] \in {"build", "append"}
    BY SMTT(60), <1>1 DEF Next, UserStep, WorkerStep, ThreadStep, Terminated, ReadCurrent, FinishGet, NewIterator,
       DeleteIterator, BeginFlush, CreateTable, FinishFlushTable, LogEdit, LogEditFails, Build,
       FlushFails, PickCompaction, BeginOutput, FinishOutput, FinishMerge, ReleaseInputs,
       GetChildren, AddLiveFiles, RemoveObsoleteFiles, CleanupCompaction
  <2>2. ASSUME NEW u \in Threads, Append(u) PROVE u = t
    BY <1>1, <1>3, <2>2 DEF Append
  <2>3. QED
    BY <1>3, <2>1, <2>2
<1>4. pc'[t] \in {"build", "append"} => edit'[t] = edit[t]
  BY SMTT(60), <1>1 DEF Next, UserStep, WorkerStep, ThreadStep, Terminated, ReadCurrent, FinishGet, NewIterator,
       DeleteIterator, BeginFlush, CreateTable, FinishFlushTable, LogEdit, LogEditFails, Build,
       Append, FlushFails, PickCompaction, BeginOutput, FinishOutput, FinishMerge, ReleaseInputs,
       GetChildren, AddLiveFiles, RemoveObsoleteFiles, CleanupCompaction
<1>5. QED
  BY <1>2, <1>3, <1>4

(* Two edits on their way have no table in common that is not swept.       *)
LEMMA EditsApart ==
  ASSUME IInv, NEW t \in Threads, NEW u \in Threads \ {t},
         pc[t] \in {"log", "build", "append"}, pc[u] \in {"log", "build", "append"},
         NEW n, n \notin swept, n \in edit[t].added \cup edit[t].deleted
  PROVE  n \notin edit[u].added \cup edit[u].deleted
<1>1. \A w \in Threads : Making(w) /\ number[w] \notin swept => Owned(w, number[w])
  BY DEF IInv, Own
<1>2. ASSUME pc["user"] \in {"log", "build", "append"}, n \in edit["user"].added \cup edit["user"].deleted
      PROVE  Making("user") /\ n = number["user"]
  BY <1>2 DEF IInv, Places, FlushEdit, BeforeAppend, Making
<1>3. CASE t = "user"
  BY <1>1, <1>2, <1>3 DEF Owned
<1>4. CASE u = "user"
  BY <1>1, <1>2, <1>4 DEF Owned
<1>5. QED
  BY <1>3, <1>4

(* The other thread's record does not undo the edit being installed.       *)
LEMMA LoggedKept ==
  ASSUME IInv, [Next]_vars
  PROVE  Logged'
<1>1. SUFFICES ASSUME NEW t \in Threads, pc'[t] \in {"build", "append"},
                      NEW n \in Tables, n \notin swept', n \notin unsure'
               PROVE  /\ n \in edit'[t].added => n \in catalog'
                      /\ n \in edit'[t].deleted \ edit'[t].added => n \notin catalog'
  BY DEF Logged
<1>2. n \notin swept /\ edit'[t] = edit[t] /\ (LogEdit(t) \/ pc[t] \in {"build", "append"})
  BY <1>1, SweptGrows, InstallBy
<1>3. ASSUME LogEdit(t)
      PROVE  /\ n \in edit[t].added => n \in catalog'
             /\ n \in edit[t].deleted \ edit[t].added => n \notin catalog'
  BY <1>3 DEF LogEdit, Replayed
<1>4. ASSUME pc[t] \in {"build", "append"}
      PROVE  /\ n \in edit[t].added => n \in catalog'
             /\ n \in edit[t].deleted \ edit[t].added => n \notin catalog'
  <2>1. n \notin unsure
    <3>1. ASSUME NEW u \in Threads, LogEdit(u) \/ LogEditFails(u) PROVE unsure \subseteq unsure'
      BY <3>1 DEF LogEdit, LogEditFails
    <3>2. QED
      BY <1>1, <3>1, CatalogBy
  <2>2. /\ n \in edit[t].added => n \in catalog
        /\ n \in edit[t].deleted \ edit[t].added => n \notin catalog
    BY <1>1, <1>2, <1>4, <2>1 DEF IInv, Logged
  <2>3. descriptor_log
    BY <1>4 DEF IInv, Places
  <2>4. ASSUME NEW u \in Threads, LogEdit(u), n \in edit[t].added \cup edit[t].deleted
        PROVE  n \in catalog' <=> n \in catalog
    <3>1. pc[u] = "log" /\ u # t /\ catalog' = Replayed(catalog, edit[u])
      BY <1>4, <2>3, <2>4 DEF LogEdit
    <3>2. n \notin edit[u].added \cup edit[u].deleted
      BY <1>2, <1>4, <2>4, <3>1, EditsApart
    <3>3. QED
      BY <3>1, <3>2 DEF Replayed
  <2>5. ASSUME NEW u \in Threads, LogEditFails(u) PROVE n \in catalog' <=> n \in catalog
    BY <1>1, <2>3, <2>5 DEF LogEditFails, Replayed
  <2>6. QED
    BY <2>2, <2>4, <2>5, CatalogBy
<1>5. QED
  BY <1>2, <1>3, <1>4

(* CatalogExact, table by table.                                           *)
Quiet(n) ==
  /\ n \notin swept /\ n \notin unsure
  /\ \A t \in Threads : pc[t] \in {"build", "append"} => n \notin edit[t].added /\ n \notin edit[t].deleted

(* A table that is quiet is in the MANIFEST iff it is in the current Version. *)
LEMMA CatalogExactKept ==
  ASSUME IInv, [Next]_vars
  PROVE  CatalogExact'
<1>1. \A n : Quiet(n) => (n \in catalog <=> n \in files[current])
  <2>1. CatalogExact
    BY DEF IInv
  <2>2. QED
    BY <2>1 DEF CatalogExact, Quiet
<1>2. SUFFICES ASSUME NEW n, Quiet(n)' PROVE n \in catalog' <=> n \in files'[current']
  BY DEF CatalogExact, Quiet
<1>3. n \notin swept
  BY <1>2, SweptGrows DEF Quiet
<1>4. ASSUME NEW t \in Threads, LogEdit(t) PROVE n \in catalog' <=> n \in files'[current']
  <2>1. pc'[t] = "build" /\ edit' = edit /\ unsure' = unsure
    BY <1>4 DEF IInv, TypeOK, LogEdit
  <2>2. n \notin edit[t].added /\ n \notin edit[t].deleted
    BY <1>2, <2>1 DEF Quiet
  <2>3. \A u \in Threads : pc[u] \in {"build", "append"} => pc'[u] \in {"build", "append"}
    BY <1>4 DEF IInv, TypeOK, LogEdit
  <2>4. Quiet(n)
    BY <1>2, <1>3, <2>1, <2>3 DEF Quiet
  <2>5. QED
    BY <1>1, <1>4, <2>2, <2>4 DEF LogEdit, Replayed, Snapshot
<1>5. ASSUME NEW t \in Threads, LogEditFails(t) PROVE n \in catalog' <=> n \in files'[current']
  <2>1. edit' = edit /\ unsure \subseteq unsure' /\ files' = files /\ current' = current
    BY <1>5 DEF LogEditFails
  <2>2. \A u \in Threads : pc[u] \in {"build", "append"} => pc'[u] \in {"build", "append"}
    BY <1>5 DEF IInv, TypeOK, LogEditFails
  <2>3. Quiet(n) /\ n \notin unsure'
    BY <1>2, <1>3, <2>1, <2>2 DEF Quiet
  <2>4. QED
    BY <1>1, <1>5, <2>1, <2>3 DEF LogEditFails, Replayed
<1>6. ASSUME NEW t \in Threads, Append(t) PROVE n \in catalog' <=> n \in files'[current']
  <2>1. /\ made' \in 1 .. MaxVersions /\ current' = made'
        /\ files' = [files EXCEPT ![made'] = Replayed(files[base[t]], edit[t])]
        /\ catalog' = catalog /\ unsure' = unsure
    BY <1>6, VersionsTyped DEF Append
  <2>2. n \in files'[current'] <=> n \in Replayed(files[base[t]], edit[t])
    BY <2>1 DEF IInv, TypeOK
  <2>3. n \in files[current] <=> n \in files[base[t]]
    BY <1>2, <1>6 DEF Append, Quiet
  <2>4. CASE n \in edit[t].added \/ n \in edit[t].deleted
    <3>1. n \in Tables
      BY <2>4 DEF IInv, TypeOK
    <3>2. /\ n \in edit[t].added => n \in catalog
          /\ n \in edit[t].deleted \ edit[t].added => n \notin catalog
      BY <1>2, <1>3, <1>6, <2>1, <3>1 DEF IInv, Logged, Quiet, Append
    <3>3. QED
      BY <2>1, <2>2, <2>4, <3>2 DEF Replayed
  <2>5. CASE n \notin edit[t].added /\ n \notin edit[t].deleted
    <3>1. ASSUME NEW u \in Threads \ {t}, pc[u] \in {"build", "append"}
          PROVE  pc'[u] \in {"build", "append"} /\ edit'[u] = edit[u]
      BY <1>6, <3>1 DEF IInv, TypeOK, Append
    <3>2. Quiet(n)
      BY <1>2, <1>3, <2>1, <2>5, <3>1 DEF Quiet
    <3>3. QED
      BY <1>1, <2>1, <2>2, <2>3, <2>5, <3>2 DEF Replayed
  <2>6. QED
    BY <2>4, <2>5
<1>7. ASSUME \A t \in Threads : ~Append(t), UNCHANGED <<files, current, catalog, unsure>>
      PROVE  n \in catalog' <=> n \in files'[current']
  <2>1. Quiet(n)
    BY <1>2, <1>3, <1>7, InstallBy DEF Quiet
  <2>2. QED
    BY <1>1, <1>7, <2>1
<1>8. QED
  BY <1>4, <1>5, <1>6, <1>7, VersionsBy, CatalogBy

-----------------------------------------------------------------------------
(* The theorems.                                                           *)

(* The invariant holds after Open.                                         *)
LEMMA InitInv ==
  ASSUME Init
  PROVE  IInv
<1>1. /\ MaxFile \in Nat /\ MaxFile >= 2 /\ MaxVersions \in Nat /\ MaxVersions >= 1 /\ MaxFailures \in Nat
  BY VersionAssumption
<1>2. TypeOK
  <2>1. {1, 2} \subseteq Tables /\ 1 \in 1 .. MaxVersions /\ 1 \in 1 .. 1 /\ 3 \in 1 .. MaxFile + 1
    BY <1>1
  <2>2. files \in [1 .. MaxVersions -> SUBSET Tables] /\ refs \in [1 .. MaxVersions -> Nat]
    BY <1>1, <2>1 DEF Init
  <2>3. /\ made \in 1 .. MaxVersions /\ current \in 1 .. made /\ next_file_number \in 1 .. MaxFile + 1
        /\ failures \in 0 .. MaxFailures
    BY <1>1, <2>1 DEF Init
  <2>4. /\ number \in [Threads -> 0 .. MaxFile]
        /\ edit \in [Threads -> [added : SUBSET Tables, deleted : SUBSET Tables]]
        /\ base \in [Threads -> 0 .. made] /\ iterator \in [Iterators -> 0 .. made]
        /\ seen \in 0 .. made /\ input_version \in 0 .. made
    BY <1>1 DEF Init
  <2>5. /\ pending_outputs \subseteq Tables /\ disk \subseteq Tables /\ catalog \subseteq Tables
        /\ outputs \subseteq Tables /\ children \subseteq Tables /\ doomed \subseteq Tables
        /\ swept \subseteq Tables /\ unsure \subseteq Tables
    BY <2>1 DEF Init
  <2>6. /\ descriptor_log \in BOOLEAN /\ imm \in BOOLEAN /\ undefined \in BOOLEAN
        /\ pc \in [Threads -> {"idle", "read", "number", "write", "merge", "log", "build", "append", "release",
                               "list", "live", "remove", "cleanup", "failed", "stopped"}]
        /\ kind \in [Threads -> {"none", "flush", "move", "merge"}]
    BY DEF Init
  <2>7. QED
    BY <2>2, <2>3, <2>4, <2>5, <2>6 DEF TypeOK
<1>3. Places /\ Room /\ FlushEdit /\ AddedKept /\ Logged
  BY DEF Init, Places, Room, FlushEdit, AddedKept, Logged, BeforeAppend
<1>4. RefsExact
  <2>1. ASSUME NEW v \in 1 .. MaxVersions PROVE Builders(v) = 0 /\ Readers(v) = 0
    <3>1. {t \in Threads : base[t] = v} = {} /\ {i \in Iterators : iterator[i] = v} = {}
      BY <1>1, <2>1 DEF Init
    <3>2. QED
      BY <3>1, FS_EmptySet DEF Builders, Readers, Count
  <2>2. ASSUME NEW v \in 1 .. MaxVersions PROVE Exact(v)
    BY <2>1, <2>2 DEF Init, Exact, Same
  <2>3. QED
    BY <2>2, RefsExactly
<1>5. NumbersAhead
  <2>1. SUFFICES ASSUME NEW n, Used(n), n >= 3 PROVE FALSE
    BY DEF NumbersAhead, Init
  <2>2. QED
    BY <2>1 DEF Init, Used, Making
<1>6. Own
  BY DEF Init, Own, Making
<1>7. NoneDoomed /\ FilesKept
  <2>1. ASSUME NEW v \in Listed PROVE files[v] = disk
    <3>1. v = 1
      BY <1>1, <2>1 DEF Init, Listed
    <3>2. QED
      BY <1>1, <3>1 DEF Init
  <2>2. doomed = {}
    BY DEF Init
  <2>3. QED
    BY <2>1, <2>2 DEF NoneDoomed, FilesKept
<1>8. CatalogExact
  <2>1. catalog = files[current]
    BY <1>1 DEF Init
  <2>2. QED
    BY <2>1 DEF CatalogExact
<1>9. QED
  BY <1>2, <1>3, <1>4, <1>5, <1>6, <1>7, <1>8 DEF IInv

(* The inductive invariant holds in every reachable state, whatever the    *)
(* two threads interleave and whichever calls to the file system fail.     *)
LEMMA Inductive == Spec => []IInv
<1>1. Init => IInv
  BY InitInv
<1>2. IInv /\ [Next]_vars => IInv'
  <2>1. SUFFICES ASSUME IInv, [Next]_vars PROVE IInv'
    OBVIOUS
  <2>2. TypeOK /\ Places
    BY <2>1 DEF IInv
  <2>3. TypeOK' /\ Places' /\ Room' /\ RefsExact'
    BY <2>1, <2>2, TypeKept, PlacesKept, RoomKept, RefsKept
  <2>4. NumbersAhead' /\ Own' /\ FlushEdit' /\ AddedKept'
    BY <2>1, NumbersAheadKept, OwnKept, FlushEditKept, AddedKeptKept
  <2>5. NoneDoomed' /\ FilesKept' /\ Logged' /\ CatalogExact'
    BY <2>1, NoneDoomedKept, FilesKeptKept, LoggedKept, CatalogExactKept
  <2>6. QED
    BY <2>3, <2>4, <2>5 DEF IInv
<1>3. QED
  BY <1>1, <1>2, PTL DEF Spec

(* Every step of the two threads - AppendVersion, NewFileNumber,           *)
(* RemoveObsoleteFiles and the rest - keeps the variables in their types:  *)
(* in particular no reference count goes below zero and current_ is always *)
(* a Version that was made.                                                *)
THEOREM TypeCorrect == Spec => []TypeOK
<1>1. IInv => TypeOK
  BY DEF IInv
<1>2. QED
  BY <1>1, Inductive, PTL

(* Version::Ref and Unref: for any number of iterators, Versions and       *)
(* failures, the reference count of a Version is the number of its         *)
(* holders, so none is deleted under a holder and none leaks.              *)
THEOREM RefsAreExact == Spec => []RefsExact
<1>1. IInv => RefsExact
  BY DEF IInv
<1>2. QED
  BY <1>1, Inductive, PTL

(* RemoveObsoleteFiles, and the flush and compaction that give a table up  *)
(* after a failure, remove no table of a Version in the list, but for the  *)
(* swept ones.                                                             *)
THEOREM FilesAreKept == Spec => []FilesKept
<1>1. IInv => FilesKept
  BY DEF IInv
<1>2. QED
  BY <1>1, Inductive, PTL

(* LogAndApply: the MANIFEST replays to the tables of the current Version, *)
(* but for edits on their way, swept tables and those of an edit whose     *)
(* LogAndApply failed.                                                     *)
THEOREM CatalogIsExact == Spec => []CatalogExact
<1>1. IInv => CatalogExact
  BY DEF IInv
<1>2. QED
  BY <1>1, Inductive, PTL
=============================================================================
