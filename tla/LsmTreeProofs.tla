--------------------------- MODULE LsmTreeProofs ---------------------------
(***************************************************************************)
(* The tree keeps its shape and implements the map, for every value of the *)
(* constants.  The invariant IInv says of the data that every entry has    *)
(* its own sequence number, that files are bounded by their metadata and   *)
(* disjoint below level 0, and that newer entries are above older ones; of *)
(* a compaction under way, that its inputs are sealed: nothing that stays  *)
(* behind comes between them and the level they go to.  Sealed is what     *)
(* PickCompaction must achieve, and what makes a move or a merge safe,     *)
(* however long after the choice it is installed.                          *)
(*                                                                         *)
(* In order: the loops of PickCompaction end with closed inputs; the merge *)
(* writes what is not gone, in order; every step keeps IInv; the tree      *)
(* implements MVStore, and with it KVStore.                                *)
(***************************************************************************)
EXTENDS LsmTree, NumberLemmas

-----------------------------------------------------------------------------
(* The invariant.                                                          *)

Known == mem \cup imm \cup EntriesOf(AllFiles)

(* Entries with a sequence number each: Before is a total order on them.   *)
Distinct(S) == S \subseteq Entry /\ \A d, e \in S : d.seq = e.seq => d = e

(* Every entry there is was written, by one write each.                    *)
Written ==
  /\ last_sequence \in Nat /\ next_file_number \in Nat
  /\ Distinct(Known) /\ \A e \in Known : e.seq <= last_sequence

(* The keys of a file's metadata are the first and the last of its entries. *)
Bounded_by(f) ==
  /\ f.smallest \in f.entries /\ f.largest \in f.entries
  /\ \A e \in f.entries : /\ e = f.smallest \/ Before(f.smallest, e)
                          /\ e = f.largest \/ Before(e, f.largest)

Files ==
  /\ levels \in [Levels -> SUBSET File]
  /\ \A l \in Levels : IsFiniteSet(levels[l])
  /\ \A l \in Levels : \A f \in levels[l] : Bounded_by(f) /\ f.number < next_file_number
  /\ \A f, g \in levels[0] : f.number = g.number => f = g

Places ==
  /\ compact_pointer \in [Levels -> Entry \cup {NoKey}]
  /\ snapshots \in [Handles -> 0 .. last_sequence \cup {NoSnapshot}]
  /\ user \in {"idle", "flush", "log"} /\ bg_error \in BOOLEAN

CompactionOK(c) ==
  /\ c \in [stage : {"picked", "merging"}, level : Levels,
            inputs : (SUBSET File) \X (SUBSET File), grand : SUBSET File, smallest_snapshot : Nat]
  /\ c.level + 1 \in Levels /\ c.smallest_snapshot <= last_sequence
  /\ c.inputs[1] \subseteq levels[c.level] /\ c.inputs[1] # {}
  /\ c.inputs[2] \subseteq levels[c.level + 1]
  /\ IsFiniteSet(EntriesOf(c.grand))
  /\ c.stage = "picked" => c.smallest_snapshot = 0

(* All of A comes before all of B.                                         *)
AllBefore(A, B) == \A d \in A, e \in B : Before(d, e)

(* What may be moved down: of a key in the upper inputs, the files that    *)
(* stay hold newer entries only in that level and none in the next one; of *)
(* a key in the lower inputs, newer ones only; and every file that stays   *)
(* in the next level is before or after all that is moved.                 *)
Sealed(l, upper, lower) ==
  /\ \A f \in levels[l] \ upper : Newer(f.entries, EntriesOf(upper))
  /\ \A f \in levels[l + 1] \ lower :
       /\ \A d \in f.entries, e \in EntriesOf(upper) : d.key # e.key
       /\ Newer(f.entries, EntriesOf(lower))
       /\ \/ AllBefore(f.entries, EntriesOf(upper \cup lower))
          \/ AllBefore(EntriesOf(upper \cup lower), f.entries)

Compacting ==
  compaction # NoCompaction =>
    CompactionOK(compaction) /\ Sealed(compaction.level, compaction.inputs[1], compaction.inputs[2])

IInv == Written /\ Files /\ Places /\ LevelsDisjoint /\ NewerAbove /\ Compacting

-----------------------------------------------------------------------------
(* First and last entries.                                                 *)

LEMMA BeforeIsOrder ==
  ASSUME NEW S, Distinct(S), ConstantsAssumption
  PROVE  /\ \A d, e \in S : d = e \/ Before(d, e) \/ Before(e, d)
         /\ \A d, e \in S : Before(d, e) => ~Before(e, d) /\ d # e
         /\ \A d, e, f \in S : Before(d, e) /\ Before(e, f) => Before(d, f)
<1>1. \A e \in S : e.key \in Nat /\ e.seq \in Nat
  BY DEF Distinct, Entry, ConstantsAssumption
<1>2. \A d, e \in S : d = e \/ Before(d, e) \/ Before(e, d)
  BY <1>1 DEF Before, Distinct
<1>3. \A d, e \in S : Before(d, e) => ~Before(e, d) /\ d # e
  BY <1>1 DEF Before
<1>4. ASSUME NEW d \in S, NEW e \in S, NEW f \in S, Before(d, e), Before(e, f) PROVE Before(d, f)
  <2>1. /\ d.key \in Nat /\ e.key \in Nat /\ f.key \in Nat
        /\ d.seq \in Nat /\ e.seq \in Nat /\ f.seq \in Nat
    BY <1>1
  <2>2. QED
    BY ONLY <1>4, <2>1 DEF Before
<1>5. QED
  BY <1>2, <1>3, <1>4

(* The first of some entries.                                              *)
LEMMA First ==
  ASSUME NEW S, Distinct(S), S # {}, IsFiniteSet(S), ConstantsAssumption
  PROVE  FirstOf(S) \in S /\ \A e \in S : e = FirstOf(S) \/ Before(FirstOf(S), e)
<1>1. \A e \in S : e.key \in Nat /\ e.seq \in Nat
  BY DEF Distinct, Entry, ConstantsAssumption
<1> DEFINE KeysOf == {e.key : e \in S}
<1>2. PICK d \in S : \A e \in S : d.key <= e.key
  <2>1. KeysOf \subseteq Nat /\ KeysOf # {}
    BY <1>1
  <2>2. PICK k \in KeysOf : \A m \in KeysOf : k <= m
    <3> HIDE DEF KeysOf
    <3>1. QED
      BY <2>1, Smallest
  <2>3. QED
    BY <2>2
<1> DEFINE Seqs == {e.seq : e \in {f \in S : f.key = d.key}}
<1>3. PICK f \in S : f.key = d.key /\ \A e \in S : e.key = d.key => e.seq <= f.seq
  <2>1. Seqs \subseteq Nat /\ Seqs # {}
    BY <1>1
  <2>2. IsFiniteSet(Seqs)
    <3>1. IsFiniteSet({e \in S : e.key = d.key})
      BY FS_Subset
    <3> DEFINE P == {e \in S : e.key = d.key}
               g == [e \in P |-> e.seq]
    <3>2. DOMAIN g = P /\ \A y \in Seqs : \E e \in P : y = g[e]
      OBVIOUS
    <3> HIDE DEF g, Seqs, P
    <3>3. QED
      BY <3>1, <3>2, FiniteImage DEF P
  <2>3. Max(Seqs) \in Seqs /\ \A m \in Seqs : m <= Max(Seqs)
    <3> HIDE DEF Seqs
    <3>1. QED
      BY <2>1, <2>2, LargestInSet
  <2>4. QED
    BY <2>3
<1>4. \A e \in S : e = f \/ Before(f, e)
  BY <1>1, <1>2, <1>3 DEF Before, Distinct
<1>5. QED
  BY <1>4 DEF FirstOf

(* The last of some entries.                                               *)
LEMMA Last ==
  ASSUME NEW S, Distinct(S), S # {}, IsFiniteSet(S), ConstantsAssumption
  PROVE  LastOf(S) \in S /\ \A e \in S : e = LastOf(S) \/ Before(e, LastOf(S))
<1>1. \A e \in S : e.key \in Nat /\ e.seq \in Nat
  BY DEF Distinct, Entry, ConstantsAssumption
<1> DEFINE KeysOf == {e.key : e \in S}
<1>2. PICK d \in S : \A e \in S : e.key <= d.key
  <2>1. KeysOf \subseteq Nat /\ KeysOf # {}
    BY <1>1
  <2>2. IsFiniteSet(KeysOf)
    <3> DEFINE g == [e \in S |-> e.key]
    <3>1. DOMAIN g = S /\ \A y \in KeysOf : \E e \in S : y = g[e]
      OBVIOUS
    <3> HIDE DEF g, KeysOf
    <3>2. QED
      BY <3>1, FiniteImage
  <2>3. Max(KeysOf) \in KeysOf /\ \A m \in KeysOf : m <= Max(KeysOf)
    <3> HIDE DEF KeysOf
    <3>1. QED
      BY <2>1, <2>2, LargestInSet
  <2>4. QED
    BY <2>3
<1> DEFINE Seqs == {e.seq : e \in {f \in S : f.key = d.key}}
<1>3. PICK f \in S : f.key = d.key /\ \A e \in S : e.key = d.key => f.seq <= e.seq
  <2>1. Seqs \subseteq Nat /\ Seqs # {}
    BY <1>1
  <2>2. PICK k \in Seqs : \A m \in Seqs : k <= m
    <3> HIDE DEF Seqs
    <3>1. QED
      BY <2>1, Smallest
  <2>3. QED
    BY <2>2
<1>4. \A e \in S : e = f \/ Before(e, f)
  BY <1>1, <1>2, <1>3 DEF Before, Distinct
<1>5. QED
  BY <1>4 DEF LastOf
-----------------------------------------------------------------------------
(* The loops that choose inputs.                                           *)

(* One turn of AddBoundaryInputs, and one of GetOverlappingInputs.         *)
Widen(l) == [fs \in SUBSET levels[l] |-> fs \cup BoundaryFile(l, fs)]

Spread(files) == [fs \in SUBSET (files \cup levels[0]) |-> fs \cup Touching(0, fs)]

(* AddBoundaryInputs stops where its loop does.                            *)
LEMMA BoundaryTurns ==
  ASSUME NEW l, IsFiniteSet(levels[l]), NEW files, files # {}, files \subseteq levels[l]
  PROVE  \E r : /\ Turns(r, Cardinality(levels[l]), Widen(l), files)
                /\ AddBoundaryInputs(l, files) = r[Cardinality(levels[l])]
<1> DEFINE Add(fs) == fs \cup BoundaryFile(l, fs)
           n == Cardinality(levels[l])
           D == SUBSET levels[l]
           Run(r) == r = [i \in 0 .. n |-> IF i = 0 THEN files ELSE Add(r[i - 1])]
<1>1. n \in Nat
  BY FS_CardinalityType
<1>2. Widen(l) \in [D -> D] /\ files \in D /\ \A fs \in D : Widen(l)[fs] = Add(fs)
  BY DEF BoundaryFile, Widen
<1>3. PICK s : Turns(s, n, Widen(l), files) /\ \A i \in 0 .. n : s[i] \in D
  <2> HIDE DEF D, n
  <2>1. QED
    BY <1>1, <1>2, TurnsExist
<1>4. \E r : Run(r)
  <2> DEFINE r == [i \in 0 .. n |-> s[i]]
  <2>1. \A i \in 1 .. n : i \in 0 .. n /\ i - 1 \in 0 .. n /\ i # 0
    BY <1>1
  <2>2. r[0] = files /\ \A i \in 1 .. n : r[i] = Add(r[i - 1])
    <3>1. s[0] = files /\ \A i \in 1 .. n : s[i] = Widen(l)[s[i - 1]]
      BY <1>3 DEF Turns
    <3>2. \A i \in 1 .. n : s[i] = Add(s[i - 1])
      <4> HIDE DEF Add, D, n
      <4>1. QED
        BY <1>2, <1>3, <2>1, <3>1
    <3>3. 0 \in 0 .. n /\ \A i \in 0 .. n : r[i] = s[i]
      BY <1>1
    <3> HIDE DEF r, Add, n
    <3>4. QED
      BY <2>1, <3>1, <3>2, <3>3
  <2>3. \A i \in 0 .. n : r[i] = IF i = 0 THEN files ELSE Add(r[i - 1])
    <3> HIDE DEF r, Add, n
    <3>1. \A i \in 0 .. n : i = 0 \/ i \in 1 .. n
      BY <1>1
    <3>2. QED
      BY <2>2, <3>1
  <2>4. Run(r)
    <3> HIDE DEF Add, n
    <3>1. QED
      BY <2>3
  <2>5. QED
    <3> HIDE DEF r, Run
    <3>1. QED
      BY <2>4
<1> DEFINE r == CHOOSE r : Run(r)
<1>5. Run(r)
  BY <1>4
<1>6. AddBoundaryInputs(l, files) = r[n]
  BY DEF AddBoundaryInputs, Repeat
<1> HIDE DEF r
<1>7. r[0] = files /\ \A i \in 1 .. n : r[i] = Add(r[i - 1])
  <2> HIDE DEF n, Add
  <2>1. 0 \in 0 .. n /\ \A i \in 1 .. n : i \in 0 .. n /\ i # 0
    BY <1>1
  <2>2. \A i \in 0 .. n : r[i] = IF i = 0 THEN files ELSE Add(r[i - 1])
    BY <1>5
  <2>3. QED
    BY <2>1, <2>2
<1> DEFINE T == {i \in 0 .. n : r[i] = s[i]}
<1>8. 0 \in T
  BY <1>1, <1>3, <1>7 DEF Turns
<1>9. ASSUME NEW i \in 1 .. n, i - 1 \in T PROVE i \in T
  <2>1. s[i] = Widen(l)[s[i - 1]] /\ s[i - 1] \in D /\ r[i - 1] = s[i - 1]
    BY <1>1, <1>3, <1>9 DEF Turns
  <2>2. s[i] = Add(s[i - 1])
    BY <1>2, <2>1
  <2>3. r[i] = s[i]
    <3> HIDE DEF Add, D
    <3>1. QED
      BY <1>7, <2>1, <2>2
  <2>4. QED
    BY <1>1, <2>3
<1>10. n \in T
  <2> HIDE DEF T, n
  <2>1. QED
    BY <1>1, <1>8, <1>9, UpTo
<1>11. QED
  BY <1>3, <1>6, <1>10

(* So does GetOverlappingInputs at level 0.                                *)
LEMMA SpreadTurns ==
  ASSUME IsFiniteSet(levels[0]), NEW files
  PROVE  \E r : /\ Turns(r, Cardinality(levels[0]), Spread(files), files)
                /\ Overlapping(0, files) = Touching(0, r[Cardinality(levels[0])])
<1> DEFINE Add(fs) == fs \cup Touching(0, fs)
           n == Cardinality(levels[0])
           D == SUBSET (files \cup levels[0])
           Run(r) == r = [i \in 0 .. n |-> IF i = 0 THEN files ELSE Add(r[i - 1])]
<1>1. n \in Nat
  BY FS_CardinalityType
<1>2. Spread(files) \in [D -> D] /\ files \in D /\ \A fs \in D : Spread(files)[fs] = Add(fs)
  BY DEF Touching, Spread
<1>3. PICK s : Turns(s, n, Spread(files), files) /\ \A i \in 0 .. n : s[i] \in D
  <2> HIDE DEF D, n
  <2>1. QED
    BY <1>1, <1>2, TurnsExist
<1>4. \E r : Run(r)
  <2> DEFINE r == [i \in 0 .. n |-> s[i]]
  <2>1. \A i \in 1 .. n : i \in 0 .. n /\ i - 1 \in 0 .. n /\ i # 0
    BY <1>1
  <2>2. r[0] = files /\ \A i \in 1 .. n : r[i] = Add(r[i - 1])
    <3>1. s[0] = files /\ \A i \in 1 .. n : s[i] = Spread(files)[s[i - 1]]
      BY <1>3 DEF Turns
    <3>2. \A i \in 1 .. n : s[i] = Add(s[i - 1])
      <4> HIDE DEF Add, D, n
      <4>1. QED
        BY <1>2, <1>3, <2>1, <3>1
    <3>3. 0 \in 0 .. n /\ \A i \in 0 .. n : r[i] = s[i]
      BY <1>1
    <3> HIDE DEF r, Add, n
    <3>4. QED
      BY <2>1, <3>1, <3>2, <3>3
  <2>3. \A i \in 0 .. n : r[i] = IF i = 0 THEN files ELSE Add(r[i - 1])
    <3> HIDE DEF r, Add, n
    <3>1. \A i \in 0 .. n : i = 0 \/ i \in 1 .. n
      BY <1>1
    <3>2. QED
      BY <2>2, <3>1
  <2>4. Run(r)
    <3> HIDE DEF Add, n
    <3>1. QED
      BY <2>3
  <2>5. QED
    <3> HIDE DEF r, Run
    <3>1. QED
      BY <2>4
<1> DEFINE r == CHOOSE r : Run(r)
<1>5. Run(r)
  BY <1>4
<1>6. Overlapping(0, files) = Touching(0, r[n])
  BY DEF Overlapping, Repeat
<1> HIDE DEF r
<1>7. r[0] = files /\ \A i \in 1 .. n : r[i] = Add(r[i - 1])
  <2> HIDE DEF n, Add
  <2>1. 0 \in 0 .. n /\ \A i \in 1 .. n : i \in 0 .. n /\ i # 0
    BY <1>1
  <2>2. \A i \in 0 .. n : r[i] = IF i = 0 THEN files ELSE Add(r[i - 1])
    BY <1>5
  <2>3. QED
    BY <2>1, <2>2
<1> DEFINE T == {i \in 0 .. n : r[i] = s[i]}
<1>8. 0 \in T
  BY <1>1, <1>3, <1>7 DEF Turns
<1>9. ASSUME NEW i \in 1 .. n, i - 1 \in T PROVE i \in T
  <2>1. s[i] = Spread(files)[s[i - 1]] /\ s[i - 1] \in D /\ r[i - 1] = s[i - 1]
    BY <1>1, <1>3, <1>9 DEF Turns
  <2>2. s[i] = Add(s[i - 1])
    BY <1>2, <2>1
  <2>3. r[i] = s[i]
    <3> HIDE DEF Add, D
    <3>1. QED
      BY <1>7, <2>1, <2>2
  <2>4. QED
    BY <1>1, <2>3
<1>10. n \in T
  <2> HIDE DEF T, n
  <2>1. QED
    BY <1>1, <1>8, <1>9, UpTo
<1>11. QED
  BY <1>3, <1>6, <1>10

-----------------------------------------------------------------------------
(* The entries there are.                                                  *)

(* They are finitely many, having different sequence numbers.              *)
LEMMA PartOfKnown ==
  ASSUME Written, NEW S, S \subseteq Known
  PROVE  Distinct(S) /\ IsFiniteSet(S)
<1>1. Distinct(Known) /\ \A e \in Known : e.seq \in 1 .. last_sequence
  BY DEF Written, Distinct, Entry
<1> DEFINE f == [e \in S |-> e.seq]
<1>2. f \in Injection(S, 1 .. last_sequence)
  BY <1>1 DEF Injection, IsInjective, Distinct
<1>3. IsFiniteSet(1 .. last_sequence)
  BY FS_Interval DEF Written
<1>4. IsFiniteSet(S)
  <2> HIDE DEF f
  <2>1. QED
    BY <1>2, <1>3, FS_Injection
<1>5. QED
  BY <1>1, <1>4 DEF Distinct

(* Before orders them.                                                     *)
LEMMA KnownOrder ==
  ASSUME Written
  PROVE  /\ \A d, e \in Known : d = e \/ Before(d, e) \/ Before(e, d)
         /\ \A d, e \in Known : Before(d, e) => ~Before(e, d) /\ d # e
         /\ \A d, e, f \in Known : Before(d, e) /\ Before(e, f) => Before(d, f)
         /\ \A d \in Known : d.key \in Nat /\ d.seq \in Nat
         /\ \A d, e \in Known : Before(d, e) => d.key <= e.key
<1>1. Distinct(Known)
  BY DEF Written
<1>2. \A d \in Known : d.key \in Nat /\ d.seq \in Nat
  BY <1>1, ConstantsAssumption DEF Distinct, Entry, ConstantsAssumption
<1>3. /\ \A d, e \in Known : d = e \/ Before(d, e) \/ Before(e, d)
      /\ \A d, e \in Known : Before(d, e) => ~Before(e, d) /\ d # e
      /\ \A d, e, f \in Known : Before(d, e) /\ Before(e, f) => Before(d, f)
  BY <1>1, BeforeIsOrder, ConstantsAssumption
<1>4. \A d, e \in Known : Before(d, e) => d.key <= e.key
  BY <1>2 DEF Before
<1>5. QED
  BY <1>2, <1>3, <1>4

(* The entries of files are known, and a file has some.                    *)
LEMMA FilesKnown ==
  ASSUME Written, Files, NEW l \in Levels, NEW fs, fs \subseteq levels[l]
  PROVE  /\ EntriesOf(fs) \subseteq Known /\ Distinct(EntriesOf(fs)) /\ IsFiniteSet(EntriesOf(fs))
         /\ fs # {} => EntriesOf(fs) # {}
         /\ \A f \in fs : /\ f.entries \subseteq EntriesOf(fs)
                          /\ f.smallest \in EntriesOf(fs) /\ f.largest \in EntriesOf(fs)
<1>1. \A f \in fs : f.entries \subseteq EntriesOf(fs) /\ Bounded_by(f)
  BY DEF EntriesOf, Files
<1>2. EntriesOf(fs) \subseteq Known
  BY DEF EntriesOf, Known, AllFiles
<1>3. QED
  BY <1>1, <1>2, PartOfKnown DEF Bounded_by

(* The keys of a file are between those of its metadata.                   *)
LEMMA FileRange ==
  ASSUME Written, Files, NEW l \in Levels, NEW f \in levels[l]
  PROVE  /\ f.smallest \in Known /\ f.largest \in Known /\ f.entries \subseteq Known
         /\ f.smallest \in f.entries /\ f.largest \in f.entries
         /\ \A e \in f.entries : f.smallest.key <= e.key /\ e.key <= f.largest.key
         /\ f.smallest.key \in Nat /\ f.largest.key \in Nat /\ f.smallest.key <= f.largest.key
<1>1. f.smallest \in Known /\ f.largest \in Known /\ f.entries \subseteq Known
  BY FilesKnown, {f} \subseteq levels[l] DEF EntriesOf
<1>2. Bounded_by(f)
  BY DEF Files
<1>3. \A e \in f.entries : f.smallest.key <= e.key /\ e.key <= f.largest.key
  BY <1>1, <1>2, KnownOrder DEF Bounded_by
<1>4. QED
  BY <1>1, <1>2, <1>3, KnownOrder DEF Bounded_by

(* Two files of a level below 0 are one after the other.                   *)
LEMMA LevelOrder ==
  ASSUME Written, Files, LevelsDisjoint, NEW l \in Levels \ {0}, NEW f \in levels[l], NEW g \in levels[l], f # g
  PROVE  /\ Before(f.largest, g.smallest) => AllBefore(f.entries, g.entries)
         /\ Before(g.largest, f.smallest) => AllBefore(g.entries, f.entries)
         /\ Before(f.largest, g.smallest) \/ Before(g.largest, f.smallest)
<1>1. ASSUME NEW a \in levels[l], NEW b \in levels[l], Before(a.largest, b.smallest)
      PROVE  AllBefore(a.entries, b.entries)
  <2>1. Bounded_by(a) /\ Bounded_by(b)
    BY DEF Files
  <2>2. a.entries \subseteq Known /\ b.entries \subseteq Known
    BY FileRange
  <2>3. SUFFICES ASSUME NEW d \in a.entries, NEW e \in b.entries PROVE Before(d, e)
    BY DEF AllBefore
  <2>4. (d = a.largest \/ Before(d, a.largest)) /\ (e = b.smallest \/ Before(b.smallest, e))
    BY <2>1 DEF Bounded_by
  <2>5. a.largest \in Known /\ b.smallest \in Known /\ d \in Known /\ e \in Known
    BY <2>1, <2>2 DEF Bounded_by
  <2>6. Before(d, b.smallest)
    BY <1>1, <2>4, <2>5, KnownOrder
  <2>7. QED
    BY <2>4, <2>5, <2>6, KnownOrder
<1>2. QED
  BY <1>1 DEF LevelsDisjoint

(* No entry is in two files of a level.                                    *)
LEMMA OneFile ==
  ASSUME Written, Files, LevelsDisjoint, NewerAbove, NEW l \in Levels,
         NEW f \in levels[l], NEW g \in levels[l], NEW e, e \in f.entries, e \in g.entries
  PROVE  f = g
<1>1. SUFFICES ASSUME f # g PROVE FALSE
  OBVIOUS
<1>2. e \in Known
  BY FileRange
<1>3. CASE l = 0
  <2>1. f.number \in Nat /\ g.number \in Nat /\ f.number # g.number
    BY <1>1, <1>3 DEF Files, File
  <2>2. Newer(f.entries, g.entries) \/ Newer(g.entries, f.entries)
    BY <1>3, <2>1 DEF NewerAbove
  <2>3. e.seq > e.seq
    BY <2>2 DEF Newer
  <2>4. QED
    BY <1>2, <2>3, KnownOrder
<1>4. CASE l # 0
  <2>1. AllBefore(f.entries, g.entries) \/ AllBefore(g.entries, f.entries)
    BY <1>1, <1>4, LevelOrder
  <2>2. QED
    BY <1>2, <2>1, KnownOrder DEF AllBefore
<1>5. QED
  BY <1>3, <1>4

(* Some files of a level have a first one.                                 *)
LEMMA FirstFile ==
  ASSUME Written, Files, LevelsDisjoint, NewerAbove, NEW l \in Levels,
         NEW S, S \subseteq levels[l], S # {}
  PROVE  \E f \in S : \A g \in S : g = f \/ FileOrder(f, g)
<1> DEFINE M == {f.smallest : f \in S}
<1>1. \A f \in S : f.smallest \in Known /\ f.smallest \in f.entries
  BY FileRange
<1>2. M \subseteq Known /\ M # {}
  BY <1>1
<1>3. FirstOf(M) \in M /\ \A e \in M : e = FirstOf(M) \/ Before(FirstOf(M), e)
  <2> HIDE DEF M
  <2>1. QED
    BY <1>2, PartOfKnown, First, ConstantsAssumption
<1>4. PICK f \in S : f.smallest = FirstOf(M)
  BY <1>3
<1>5. ASSUME NEW g \in S PROVE g = f \/ FileOrder(f, g)
  <2>1. g.smallest = f.smallest \/ FileOrder(f, g)
    BY <1>3, <1>4 DEF FileOrder
  <2>2. g.smallest = f.smallest => g = f
    BY <1>1, OneFile
  <2>3. QED
    BY <2>1, <2>2
<1>6. QED
  BY <1>5

-----------------------------------------------------------------------------
(* Boundary files.                                                         *)

(* What lies between two of the files is one of them.                      *)
Convex(l, C) ==
  \A f, h \in C, g \in levels[l] :
    Before(f.largest, g.smallest) /\ Before(g.largest, h.smallest) => g \in C

(* Every file of C is one of the files, or after one.                      *)
Behind(files, C) == \A g \in C : \E o \in files : o = g \/ Before(o.largest, g.smallest)

(* The last entry of some files is the largest key of one of them.         *)
LEMMA LastEntry ==
  ASSUME Written, Files, NEW l \in Levels, NEW C, C \subseteq levels[l], C # {}
  PROVE  LET end == LastOf(EntriesOf(C))
         IN  /\ end \in Known /\ end \in EntriesOf(C)
             /\ \A e \in EntriesOf(C) : e = end \/ Before(e, end)
             /\ \E f \in C : end = f.largest
<1> DEFINE end == LastOf(EntriesOf(C))
<1>1. /\ EntriesOf(C) \subseteq Known /\ Distinct(EntriesOf(C)) /\ IsFiniteSet(EntriesOf(C))
      /\ EntriesOf(C) # {}
  BY FilesKnown
<1>2. end \in EntriesOf(C) /\ \A e \in EntriesOf(C) : e = end \/ Before(e, end)
  BY <1>1, Last, ConstantsAssumption
<1>3. PICK f \in C : end \in f.entries
  BY <1>2 DEF EntriesOf
<1>4. /\ end = f.largest \/ Before(end, f.largest)
      /\ f.largest \in EntriesOf(C)
  BY <1>3, FilesKnown DEF Files, Bounded_by
<1>5. end = f.largest
  BY <1>1, <1>2, <1>4, KnownOrder
<1>6. QED
  BY <1>1, <1>2, <1>5

(* One more boundary file: it follows all the others at once.              *)
LEMMA WidenKeeps ==
  ASSUME Written, Files, LevelsDisjoint, NEW l \in Levels \ {0},
         NEW C, C \subseteq levels[l], C # {}, Convex(l, C), NEW b \in BoundaryFile(l, C)
  PROVE  /\ b \in levels[l] /\ b \notin C
         /\ \A o \in C : Before(o.largest, b.smallest)
         /\ Convex(l, C \cup BoundaryFile(l, C))
<1> DEFINE end == LastOf(EntriesOf(C))
<1>1. /\ end \in Known /\ end \in EntriesOf(C)
      /\ \A e \in EntriesOf(C) : e = end \/ Before(e, end)
  BY LastEntry
<1>2. PICK z \in C : end = z.largest
  BY LastEntry
<1>3. /\ b \in levels[l] /\ Before(end, b.smallest) /\ b.smallest.key = end.key
      /\ \A g \in levels[l] : Before(end, g.smallest) /\ g.smallest.key = end.key =>
           g = b \/ FileOrder(b, g)
  BY DEF BoundaryFile
<1> HIDE DEF end
<1>4. BoundaryFile(l, C) = {b}
  <2>1. ASSUME NEW c \in BoundaryFile(l, C) PROVE c = b
    <3>1. /\ c \in levels[l] /\ Before(end, c.smallest) /\ c.smallest.key = end.key
          /\ b = c \/ FileOrder(c, b)
      BY <1>3 DEF BoundaryFile, end
    <3>2. c = b \/ (FileOrder(b, c) /\ FileOrder(c, b))
      BY <1>3, <3>1
    <3>3. b.smallest \in Known /\ c.smallest \in Known
      BY <1>3, <3>1, FileRange
    <3>4. QED
      BY <3>2, <3>3, KnownOrder DEF FileOrder
  <2>2. QED
    BY <2>1
<1>5. \A f \in levels[l] : f.smallest \in Known /\ f.largest \in Known /\ f.smallest \in f.entries
                         /\ f.largest \in f.entries /\ f.entries \subseteq Known
  BY FileRange
<1>6. \A o \in C : o.largest = end \/ Before(o.largest, end)
  BY <1>1, FilesKnown
<1>7. \A o \in C : Before(o.largest, b.smallest)
  BY <1>1, <1>3, <1>5, <1>6, KnownOrder
<1>8. b \notin C
  <2>1. b \in C => b.smallest = end \/ Before(b.smallest, end)
    BY <1>1, FilesKnown
  <2>2. QED
    BY <1>1, <1>3, <1>5, <2>1, KnownOrder
<1>9. ASSUME NEW f \in C \cup {b}, NEW h \in C \cup {b}, NEW g \in levels[l],
             Before(f.largest, g.smallest), Before(g.largest, h.smallest)
      PROVE  g \in C \cup {b}
  <2>1. SUFFICES ASSUME g \notin C, g # b PROVE FALSE
    OBVIOUS
  <2>2. \A o \in C : Before(o.largest, g.smallest) \/ Before(g.largest, o.smallest)
    BY <2>1, LevelOrder
  <2>3. \A a \in levels[l] : a.smallest = a.largest \/ Before(a.smallest, a.largest)
    BY DEF Files, Bounded_by
  <2>4. f \in C
    <3>1. SUFFICES ASSUME f = b PROVE FALSE
      OBVIOUS
    <3>2. CASE h = b
      BY <1>3, <1>5, <1>9, <2>3, <3>1, <3>2, KnownOrder
    <3>3. CASE h \in C
      <4>1. h.largest = end \/ Before(h.largest, end)
        BY <1>6, <3>3
      <4>2. h \in levels[l]
        BY <3>3
      <4>3. Before(b.smallest, h.smallest)
        BY <1>3, <1>5, <1>9, <2>3, <3>1, <4>2, KnownOrder
      <4>4. Before(end, h.smallest)
        BY <1>1, <1>3, <1>5, <4>2, <4>3, KnownOrder
      <4>5. QED
        BY <1>1, <1>5, <2>3, <4>1, <4>2, <4>4, KnownOrder
    <3>4. QED
      BY <3>2, <3>3
  <2>5. h = b
    BY <1>9, <2>1, <2>4 DEF Convex
  <2>6. Before(z.largest, g.smallest)
    BY <1>2, <1>9, <2>1, <2>2, <2>4 DEF Convex
  <2>7. Before(g.smallest, b.smallest)
    BY <1>3, <1>5, <1>9, <2>3, <2>5, KnownOrder
  <2>8. g.smallest.key = end.key
    <3>1. end.key <= g.smallest.key /\ g.smallest.key <= b.smallest.key
      BY <1>1, <1>2, <1>3, <1>5, <2>6, <2>7, KnownOrder
    <3>2. end.key \in Nat /\ g.smallest.key \in Nat
      BY <1>1, <1>5, KnownOrder
    <3>3. QED
      BY <1>3, <3>1, <3>2
  <2>9. FileOrder(b, g)
    BY <1>2, <1>3, <2>1, <2>6, <2>8
  <2>10. QED
    BY <1>3, <1>5, <2>7, <2>9, KnownOrder DEF FileOrder
<1>10. QED
  BY <1>3, <1>4, <1>7, <1>8, <1>9 DEF Convex

(* With its boundary files, what is convex stays so, and no file that      *)
(* stays in the level begins behind it with its last user key.             *)
LEMMA BoundaryClosed ==
  ASSUME Written, Files, LevelsDisjoint, NewerAbove, NEW l \in Levels \ {0},
         NEW files, files \subseteq levels[l], files # {}, Convex(l, files)
  PROVE  LET C   == AddBoundaryInputs(l, files)
             end == LastOf(EntriesOf(C))
         IN  /\ files \subseteq C /\ C \subseteq levels[l] /\ Convex(l, C) /\ Behind(files, C)
             /\ \A g \in levels[l] : Before(end, g.smallest) => g.smallest.key # end.key
<1> DEFINE n == Cardinality(levels[l])
           Fine(C) == files \subseteq C /\ C \subseteq levels[l] /\ Convex(l, C) /\ Behind(files, C)
           T(r) == {i \in 0 .. n : Fine(r[i])}
<1>1. IsFiniteSet(levels[l])
  BY DEF Files
<1>2. n \in Nat
  BY <1>1, FS_CardinalityType
<1>3. PICK r : Turns(r, n, Widen(l), files) /\ AddBoundaryInputs(l, files) = r[n]
  BY <1>1, BoundaryTurns
<1>4. Fine(files)
  BY DEF Behind
<1>5. ASSUME NEW C, Fine(C) PROVE Fine(C \cup BoundaryFile(l, C))
  <2>1. \A b \in BoundaryFile(l, C) : /\ b \in levels[l] /\ \A o \in C : Before(o.largest, b.smallest)
                                      /\ Convex(l, C \cup BoundaryFile(l, C))
    BY <1>5, WidenKeeps
  <2>2. Convex(l, C \cup BoundaryFile(l, C))
    <3>1. CASE BoundaryFile(l, C) = {}
      <4>1. C \cup BoundaryFile(l, C) = C
        BY <3>1
      <4>2. QED
        BY <1>5, <4>1
    <3>2. QED
      BY <2>1, <3>1
  <2>3. Behind(files, C \cup BoundaryFile(l, C))
    BY <1>5, <2>1 DEF Behind
  <2>4. QED
    BY <1>5, <2>1, <2>2, <2>3
<1>6. \A C : Fine(C) => Widen(l)[C] = C \cup BoundaryFile(l, C)
  BY DEF Widen
<1>7. n \in T(r)
  <2>1. 0 \in T(r)
    BY <1>2, <1>3, <1>4 DEF Turns
  <2>2. ASSUME NEW i \in 1 .. n, i - 1 \in T(r) PROVE i \in T(r)
    <3>1. Fine(r[i - 1]) /\ r[i] = Widen(l)[r[i - 1]]
      BY <1>3, <2>2 DEF Turns
    <3> HIDE DEF Fine
    <3>2. Fine(r[i])
      BY <1>5, <1>6, <3>1
    <3>3. QED
      BY <1>2, <3>2
  <2> HIDE DEF T, n
  <2>3. QED
    BY <1>2, <2>1, <2>2, UpTo
<1> DEFINE C == r[n]
           end == LastOf(EntriesOf(C))
<1>8. Fine(C)
  BY <1>7
<1>9. Widen(l)[C] = C
  <2>1. \A x \in SUBSET (files \cup levels[l]) : x \subseteq Widen(l)[x] /\ Widen(l)[x] \subseteq files \cup levels[l]
    BY DEF Widen, BoundaryFile
  <2>2. QED
    BY <1>1, <1>3, <2>1, GrowthEnds
<1> HIDE DEF C
<1>10. BoundaryFile(l, C) = {}
  <2>1. BoundaryFile(l, C) \subseteq C
    BY <1>6, <1>8, <1>9
  <2>2. QED
    BY <1>8, <2>1, WidenKeeps
<1>11. ASSUME NEW g \in levels[l], Before(end, g.smallest), g.smallest.key = end.key PROVE FALSE
  <2> DEFINE after == {f \in levels[l] : Before(end, f.smallest) /\ f.smallest.key = end.key}
  <2>1. after \subseteq levels[l] /\ after # {}
    BY <1>11
  <2> HIDE DEF after
  <2>2. PICK f \in after : \A h \in after : h = f \/ FileOrder(f, h)
    BY <2>1, FirstFile
  <2>3. f \in BoundaryFile(l, C)
    BY <2>2 DEF BoundaryFile, after
  <2>4. QED
    BY <1>10, <2>3
<1>12. QED
  <2> HIDE DEF end
  <2>1. AddBoundaryInputs(l, files) = C /\ end = LastOf(EntriesOf(C))
    BY <1>3 DEF C, end
  <2>2. QED
    BY <1>8, <1>11, <2>1

-----------------------------------------------------------------------------
(* Overlapping files.                                                      *)

(* The user keys of some files, of any level.                              *)
LEMMA KeyRange ==
  ASSUME Written, Files, NEW C, C \subseteq AllFiles, C # {}
  PROVE  LET lo == FirstOf(EntriesOf(C)).key
             hi == LastOf(EntriesOf(C)).key
         IN  /\ lo \in Nat /\ hi \in Nat
             /\ \A e \in EntriesOf(C) : e.key \in Nat /\ lo <= e.key /\ e.key <= hi
             /\ \A f \in C : f.smallest \in EntriesOf(C) /\ f.largest \in EntriesOf(C)
<1> DEFINE S == EntriesOf(C)
<1>1. S \subseteq Known
  BY DEF EntriesOf, Known
<1>2. \A f \in C : f.smallest \in S /\ f.largest \in S
  <2>1. \A f \in C : Bounded_by(f)
    BY DEF AllFiles, Files
  <2>2. QED
    BY <2>1 DEF EntriesOf, Bounded_by
<1>3. S # {}
  BY <1>2
<1> HIDE DEF S
<1>4. Distinct(S) /\ IsFiniteSet(S)
  BY <1>1, PartOfKnown
<1>5. FirstOf(S) \in S /\ \A e \in S : e = FirstOf(S) \/ Before(FirstOf(S), e)
  BY <1>3, <1>4, First, ConstantsAssumption
<1>6. LastOf(S) \in S /\ \A e \in S : e = LastOf(S) \/ Before(e, LastOf(S))
  BY <1>3, <1>4, Last, ConstantsAssumption
<1>7. FirstOf(S).key \in Nat /\ LastOf(S).key \in Nat
  BY <1>1, <1>5, <1>6, KnownOrder
<1>8. \A e \in S : e.key \in Nat /\ FirstOf(S).key <= e.key /\ e.key <= LastOf(S).key
  BY <1>1, <1>5, <1>6, <1>7, KnownOrder
<1>9. QED
  BY <1>2, <1>7, <1>8 DEF S

(* The files of a level below 0 that overlap some files: no others have a  *)
(* user key between theirs.                                                *)
LEMMA OverlapBelow ==
  ASSUME Written, Files, LevelsDisjoint, NEW l \in Levels \ {0},
         NEW C, C \subseteq AllFiles, C # {}
  PROVE  LET O == Overlapping(l, C)
         IN  /\ O \subseteq levels[l] /\ Convex(l, O)
             /\ \A f \in O : \E d \in EntriesOf(C), e \in EntriesOf(C) :
                               d.key <= f.largest.key /\ f.smallest.key <= e.key
             /\ \A f \in levels[l] \ O : \/ \A e \in EntriesOf(C) : f.largest.key < e.key
                                        \/ \A e \in EntriesOf(C) : e.key < f.smallest.key
<1> DEFINE lo == FirstOf(EntriesOf(C)).key
           hi == LastOf(EntriesOf(C)).key
           O == {f \in levels[l] : lo <= f.largest.key /\ f.smallest.key <= hi}
<1>1. Overlapping(l, C) = O
  BY DEF Overlapping, Touching
<1>2. lo \in Nat /\ hi \in Nat /\ \A e \in EntriesOf(C) : e.key \in Nat /\ lo <= e.key /\ e.key <= hi
  BY KeyRange
<1>3. \E d \in EntriesOf(C), e \in EntriesOf(C) : d.key = lo /\ e.key = hi
  <2> DEFINE S == EntriesOf(C)
  <2>1. S \subseteq Known /\ S # {}
    <3>1. \E f \in C : f.smallest \in S
      BY KeyRange
    <3>2. QED
      BY <3>1 DEF EntriesOf, Known
  <2> HIDE DEF S
  <2>2. FirstOf(S) \in S /\ LastOf(S) \in S
    BY <2>1, PartOfKnown, First, Last, ConstantsAssumption
  <2>3. QED
    BY <2>2 DEF S
<1> HIDE DEF lo, hi
<1>4. \A f \in levels[l] : f.smallest.key \in Nat /\ f.largest.key \in Nat
                         /\ f.smallest \in Known /\ f.largest \in Known
                         /\ f.smallest.key <= f.largest.key
  BY FileRange
<1>5. ASSUME NEW f \in O, NEW h \in O, NEW g \in levels[l],
             Before(f.largest, g.smallest), Before(g.largest, h.smallest)
      PROVE  g \in O
  <2>1. f.largest.key <= g.smallest.key /\ g.largest.key <= h.smallest.key
    BY <1>4, <1>5, KnownOrder
  <2>2. QED
    BY <1>2, <1>4, <2>1
<1>6. ASSUME NEW f \in levels[l] \ O
      PROVE  (\A e \in EntriesOf(C) : f.largest.key < e.key) \/ (\A e \in EntriesOf(C) : e.key < f.smallest.key)
  <2>1. f.largest.key < lo \/ hi < f.smallest.key
    BY <1>2, <1>4
  <2>2. QED
    BY <1>2, <1>4, <2>1
<1>7. Convex(l, O)
  BY <1>5 DEF Convex
<1>8. QED
  BY <1>1, <1>3, <1>6, <1>7

(* The files of level 0 that overlap some files, or each other, share no   *)
(* user key with the rest of the level.                                    *)
LEMMA OverlapZero ==
  ASSUME Written, Files, NEW C, C \subseteq AllFiles, C # {}
  PROVE  LET O == Overlapping(0, C)
         IN  /\ O \subseteq levels[0] /\ C \cap levels[0] \subseteq O
             /\ \A f \in levels[0] \ O : \A d \in f.entries, e \in EntriesOf(O) : d.key # e.key
             /\ \A f \in levels[0] \ O : \A e \in EntriesOf(O) :
                  ~(f.smallest.key <= e.key /\ e.key <= f.largest.key)
<1> DEFINE n == Cardinality(levels[0])
<1>1. 0 \in Levels /\ IsFiniteSet(levels[0]) /\ levels[0] \subseteq AllFiles
  <2>1. 0 \in Levels
    BY ConstantsAssumption DEF Levels, ConstantsAssumption
  <2>2. QED
    BY <2>1 DEF Files, AllFiles
<1>2. PICK r : Turns(r, n, Spread(C), C) /\ Overlapping(0, C) = Touching(0, r[n])
  BY <1>1, SpreadTurns
<1> DEFINE F == r[n]
           O == Touching(0, F)
<1>3. C \subseteq F /\ F \subseteq C \cup levels[0] /\ Spread(C)[F] = F
  <2>1. \A x \in SUBSET (C \cup levels[0]) : x \subseteq Spread(C)[x] /\ Spread(C)[x] \subseteq C \cup levels[0]
    BY DEF Spread, Touching
  <2>2. QED
    BY <1>1, <1>2, <2>1, GrowthEnds
<1> HIDE DEF F
<1>4. O \subseteq F
  BY <1>3 DEF Spread
<1> DEFINE lo == FirstOf(EntriesOf(F)).key
           hi == LastOf(EntriesOf(F)).key
<1>5. /\ lo \in Nat /\ hi \in Nat
      /\ \A e \in EntriesOf(F) : e.key \in Nat /\ lo <= e.key /\ e.key <= hi
      /\ \A f \in F : f.smallest \in EntriesOf(F) /\ f.largest \in EntriesOf(F)
  BY <1>1, <1>3, KeyRange
<1>6. O = {f \in levels[0] : lo <= f.largest.key /\ f.smallest.key <= hi}
  BY DEF Touching
<1> HIDE DEF lo, hi, O
<1>7. C \cap levels[0] \subseteq O
  BY <1>3, <1>5, <1>6
<1>8. \A e \in EntriesOf(O) : e \in EntriesOf(F)
  BY <1>4 DEF EntriesOf
<1>9. ASSUME NEW f \in levels[0] \ O, NEW e \in EntriesOf(O)
      PROVE  ~(f.smallest.key <= e.key /\ e.key <= f.largest.key)
  <2>1. f.smallest.key \in Nat /\ f.largest.key \in Nat
    BY <1>1, FileRange
  <2>2. QED
    BY <1>5, <1>6, <1>8, <1>9, <2>1
<1>10. ASSUME NEW f \in levels[0] \ O, NEW d \in f.entries, NEW e \in EntriesOf(O) PROVE d.key # e.key
  BY <1>1, <1>9, FileRange
<1>11. QED
  BY <1>2, <1>6, <1>7, <1>9, <1>10 DEF O, F

-----------------------------------------------------------------------------
(* The inputs of a compaction.                                             *)

(* Of the keys of convex files with their boundary files, the rest of the  *)
(* level has newer entries only.                                           *)
LEMMA ClosedNewer ==
  ASSUME Written, Files, LevelsDisjoint, NEW l \in Levels \ {0},
         NEW C, C \subseteq levels[l], C # {}, Convex(l, C), NEW end, end = LastOf(EntriesOf(C)),
         \A g \in levels[l] : Before(end, g.smallest) => g.smallest.key # end.key,
         NEW f \in levels[l] \ C
  PROVE  Newer(f.entries, EntriesOf(C))
<1>1. /\ end \in Known /\ \A e \in EntriesOf(C) : e = end \/ Before(e, end)
      /\ \E z \in C : end = z.largest
  BY LastEntry
<1>2. PICK z \in C : end = z.largest
  BY <1>1
<1>3. SUFFICES ASSUME NEW d \in f.entries, NEW g \in C, NEW e \in g.entries, d.key = e.key
               PROVE  d.seq > e.seq
  BY DEF Newer, EntriesOf
<1>4. /\ d \in Known /\ e \in Known /\ e \in EntriesOf(C)
      /\ f.smallest \in Known /\ f.smallest.key <= d.key
  BY FileRange, FilesKnown
<1>5. CASE Before(f.largest, g.smallest)
  <2>1. Before(d, e)
    BY <1>5, LevelOrder DEF AllBefore
  <2>2. d.seq \in Nat /\ e.seq \in Nat /\ d.key \in Nat
    BY <1>4, KnownOrder
  <2>3. QED
    BY <1>3, <2>1, <2>2 DEF Before
<1>6. CASE Before(g.largest, f.smallest)
  <2>1. ~Before(f.largest, z.smallest)
    BY <1>6 DEF Convex
  <2>2. Before(end, f.smallest)
    BY <1>2, <2>1, LevelOrder
  <2>3. e.key <= end.key /\ end.key <= f.smallest.key
    BY <1>1, <1>4, <2>2, KnownOrder
  <2>4. end.key \in Nat /\ f.smallest.key \in Nat /\ d.key \in Nat
    BY <1>1, <1>4, KnownOrder
  <2>5. f.smallest.key = end.key
    BY <1>3, <1>4, <2>3, <2>4
  <2>6. QED
    BY <2>2, <2>5
<1>7. QED
  BY <1>5, <1>6, LevelOrder

(* Level 0 has no boundary files once all overlaps are taken.              *)
LEMMA BoundaryNone ==
  ASSUME Written, Files, 0 \in Levels, NEW O, O \subseteq levels[0], O # {},
         \A f \in levels[0] \ O : \A e \in EntriesOf(O) :
           ~(f.smallest.key <= e.key /\ e.key <= f.largest.key)
  PROVE  AddBoundaryInputs(0, O) = O
<1> DEFINE n == Cardinality(levels[0])
           end == LastOf(EntriesOf(O))
<1>1. IsFiniteSet(levels[0]) /\ n \in Nat
  BY FS_CardinalityType DEF Files
<1>2. PICK r : Turns(r, n, Widen(0), O) /\ AddBoundaryInputs(0, O) = r[n]
  BY <1>1, BoundaryTurns
<1>3. ASSUME NEW b \in levels[0], Before(end, b.smallest), b.smallest.key = end.key PROVE FALSE
  <2>1. end \in Known /\ end \in EntriesOf(O) /\ \A e \in EntriesOf(O) : e = end \/ Before(e, end)
    BY LastEntry
  <2>2. /\ b.smallest \in Known /\ b.smallest.key \in Nat /\ b.largest.key \in Nat
        /\ b.smallest.key <= b.largest.key
    BY FileRange
  <2> HIDE DEF end
  <2>3. b \in O
    BY <1>3, <2>1, <2>2
  <2>4. b.smallest \in EntriesOf(O)
    BY <2>3, FilesKnown
  <2>5. QED
    BY <1>3, <2>1, <2>2, <2>4, KnownOrder
<1>4. BoundaryFile(0, O) = {}
  BY <1>3 DEF BoundaryFile
<1>5. Widen(0)[O] = O
  BY <1>4 DEF Widen
<1> DEFINE T == {i \in 0 .. n : r[i] = O}
<1>6. 0 \in T
  BY <1>1, <1>2 DEF Turns
<1>7. ASSUME NEW i \in 1 .. n, i - 1 \in T PROVE i \in T
  <2>1. r[i] = Widen(0)[r[i - 1]] /\ r[i - 1] = O
    BY <1>2, <1>7 DEF Turns
  <2>2. QED
    BY <1>1, <1>5, <2>1
<1>8. n \in T
  <2> HIDE DEF T, n
  <2>1. QED
    BY <1>1, <1>6, <1>7, UpTo
<1>9. QED
  BY <1>2, <1>8

(* What is taken of the next level: the rest of it has no key of the upper *)
(* files, has newer entries of the lower ones only, and is before or after *)
(* all of them.                                                            *)
LEMMA LowerSealed ==
  ASSUME Written, Files, LevelsDisjoint, NewerAbove,
         NEW l \in Levels, l + 1 \in Levels, NEW U, U \subseteq levels[l], U # {}
  PROVE  LET L == AddBoundaryInputs(l + 1, Overlapping(l + 1, U))
         IN  /\ L \subseteq levels[l + 1]
             /\ \A f \in levels[l + 1] \ L :
                  /\ \A d \in f.entries, e \in EntriesOf(U) : d.key # e.key
                  /\ Newer(f.entries, EntriesOf(L))
                  /\ \/ AllBefore(f.entries, EntriesOf(U \cup L))
                     \/ AllBefore(EntriesOf(U \cup L), f.entries)
<1> DEFINE k == l + 1
           O == Overlapping(k, U)
           L == AddBoundaryInputs(k, O)
<1>1. k \in Levels \ {0} /\ U \subseteq AllFiles
  BY DEF Levels, AllFiles
<1> HIDE DEF k
<1>2. /\ O \subseteq levels[k] /\ Convex(k, O)
      /\ \A o \in O : \E d \in EntriesOf(U), e \in EntriesOf(U) :
           d.key <= o.largest.key /\ o.smallest.key <= e.key
      /\ \A f \in levels[k] \ O : \/ \A e \in EntriesOf(U) : f.largest.key < e.key
                                 \/ \A e \in EntriesOf(U) : e.key < f.smallest.key
  BY <1>1, OverlapBelow
<1> HIDE DEF O
<1>3. /\ O \subseteq L /\ L \subseteq levels[k] /\ Convex(k, L) /\ Behind(O, L)
      /\ O # {} => \A f \in levels[k] \ L : Newer(f.entries, EntriesOf(L))
  <2>1. CASE O = {}
    <3>1. L = {}
      BY <2>1 DEF AddBoundaryInputs
    <3>2. QED
      BY <2>1, <3>1 DEF Convex, Behind
  <2>2. CASE O # {}
    <3>1. /\ O \subseteq L /\ L \subseteq levels[k] /\ Convex(k, L) /\ Behind(O, L)
          /\ \A g \in levels[k] : Before(LastOf(EntriesOf(L)), g.smallest) =>
               g.smallest.key # LastOf(EntriesOf(L)).key
      BY <1>1, <1>2, <2>2, BoundaryClosed
    <3> HIDE DEF L
    <3>2. \A f \in levels[k] \ L : Newer(f.entries, EntriesOf(L))
      BY <1>1, <2>2, <3>1, ClosedNewer
    <3>3. QED
      BY <3>1, <3>2
  <2>3. QED
    BY <2>1, <2>2
<1> HIDE DEF L
<1>4. /\ \A e \in EntriesOf(U) : e \in Known /\ e.key \in Nat
      /\ EntriesOf(L) \subseteq Known /\ EntriesOf(U \cup L) = EntriesOf(U) \cup EntriesOf(L)
  <2>1. EntriesOf(U) \subseteq Known /\ EntriesOf(L) \subseteq Known
    BY <1>1, <1>3, FilesKnown
  <2>2. EntriesOf(U \cup L) = EntriesOf(U) \cup EntriesOf(L)
    BY DEF EntriesOf
  <2>3. QED
    BY <2>1, <2>2, KnownOrder
<1>5. ASSUME NEW f \in levels[k] \ L
      PROVE  /\ \A d \in f.entries, e \in EntriesOf(U) : d.key # e.key
             /\ Newer(f.entries, EntriesOf(L))
             /\ \/ AllBefore(f.entries, EntriesOf(U \cup L))
                \/ AllBefore(EntriesOf(U \cup L), f.entries)
  <2>1. /\ f.entries \subseteq Known /\ f.smallest.key \in Nat /\ f.largest.key \in Nat
        /\ f.smallest.key <= f.largest.key
        /\ \A d \in f.entries : d.key \in Nat /\ f.smallest.key <= d.key /\ d.key <= f.largest.key
    BY <1>1, FileRange, KnownOrder
  <2>2. Newer(f.entries, EntriesOf(L))
    <3>1. O = {} => EntriesOf(L) = {}
      BY <1>3 DEF Behind, EntriesOf
    <3>2. QED
      BY <1>3, <3>1 DEF Newer
  <2>3. CASE \A e \in EntriesOf(U) : f.largest.key < e.key
    <3>1. \A d \in f.entries, e \in EntriesOf(U) : d.key # e.key /\ Before(d, e)
      BY <1>4, <2>1, <2>3 DEF Before
    <3>2. ASSUME NEW g \in L PROVE AllBefore(f.entries, g.entries)
      <4>1. PICK o \in O : o = g \/ Before(o.largest, g.smallest)
        BY <1>3 DEF Behind
      <4>2. f # o /\ f # g /\ o \in levels[k] /\ g \in levels[k] /\ o \in L
        BY <1>2, <1>3
      <4>3. PICK d \in EntriesOf(U) : d.key <= o.largest.key
        BY <1>2
      <4>4. ~Before(o.largest, f.smallest)
        <5>1. o.largest \in Known /\ o.largest.key \in Nat /\ f.smallest \in Known
          BY <1>1, <4>2, FileRange
        <5>2. f.smallest.key < o.largest.key
          BY <1>4, <2>1, <2>3, <4>3, <5>1
        <5>3. Before(o.largest, f.smallest) => o.largest.key <= f.smallest.key
          BY <5>1, KnownOrder
        <5>4. QED
          BY <2>1, <5>1, <5>2, <5>3
      <4>5. Before(f.largest, o.smallest)
        BY <1>1, <4>2, <4>4, LevelOrder
      <4>6. ~Before(g.largest, f.smallest)
        <5>1. SUFFICES ASSUME Before(g.largest, f.smallest) PROVE FALSE
          OBVIOUS
        <5>2. o # g
          BY <4>4, <5>1
        <5>3. /\ o.largest \in Known /\ g.smallest \in Known /\ g.largest \in Known
              /\ f.smallest \in Known /\ f.largest \in Known /\ o.smallest \in Known
          BY <1>1, <4>2, FileRange
        <5>4. /\ f.smallest = f.largest \/ Before(f.smallest, f.largest)
              /\ g.smallest = g.largest \/ Before(g.smallest, g.largest)
              /\ o.smallest = o.largest \/ Before(o.smallest, o.largest)
          BY <1>1, <4>2 DEF Files, Bounded_by
        <5>5. Before(o.largest, g.smallest)
          BY <4>1, <5>2
        <5>6. Before(o.largest, f.smallest)
          BY <5>1, <5>3, <5>4, <5>5, KnownOrder
        <5>7. QED
          BY <4>4, <5>6
      <4>7. QED
        BY <1>1, <4>2, <4>6, LevelOrder
    <3>3. AllBefore(f.entries, EntriesOf(L))
      BY <3>2 DEF AllBefore, EntriesOf
    <3>4. QED
      BY <1>4, <2>2, <3>1, <3>3 DEF AllBefore
  <2>4. CASE \A e \in EntriesOf(U) : e.key < f.smallest.key
    <3>1. \A d \in f.entries, e \in EntriesOf(U) : d.key # e.key /\ Before(e, d)
      BY <1>4, <2>1, <2>4 DEF Before
    <3>2. ASSUME NEW g \in L PROVE AllBefore(g.entries, f.entries)
      <4>1. PICK o \in O : o = g \/ Before(o.largest, g.smallest)
        BY <1>3 DEF Behind
      <4>2. f # o /\ f # g /\ o \in levels[k] /\ g \in levels[k] /\ o \in L
        BY <1>2, <1>3
      <4>3. PICK d \in EntriesOf(U) : o.smallest.key <= d.key
        BY <1>2
      <4>4. ~Before(f.largest, o.smallest)
        <5>1. o.smallest \in Known /\ o.smallest.key \in Nat /\ f.largest \in Known
          BY <1>1, <4>2, FileRange
        <5>2. o.smallest.key < f.largest.key
          BY <1>4, <2>1, <2>4, <4>3, <5>1
        <5>3. Before(f.largest, o.smallest) => f.largest.key <= o.smallest.key
          BY <5>1, KnownOrder
        <5>4. QED
          BY <2>1, <5>1, <5>2, <5>3
      <4>5. Before(o.largest, f.smallest)
        BY <1>1, <4>2, <4>4, LevelOrder
      <4>6. ~Before(f.largest, g.smallest)
        BY <1>3, <4>2, <4>5 DEF Convex
      <4>7. QED
        BY <1>1, <4>2, <4>6, LevelOrder
    <3>3. AllBefore(EntriesOf(L), f.entries)
      BY <3>2 DEF AllBefore, EntriesOf
    <3>4. QED
      BY <1>4, <2>2, <3>1, <3>3 DEF AllBefore
  <2>5. CASE f \in O
    BY <1>3, <2>5
  <2>6. QED
    BY <1>2, <2>3, <2>4, <2>5
<1>6. QED
  BY <1>3, <1>5 DEF L, O, k

(* Files whose level has newer entries only, apart from them.              *)
Closed(l, U) ==
  /\ U \subseteq levels[l] /\ U # {}
  /\ \A f \in levels[l] \ U : Newer(f.entries, EntriesOf(U))

(* What AddBoundaryInputs makes of the files a level is to give.           *)
LEMMA UpperClosed ==
  ASSUME Written, Files, LevelsDisjoint, NewerAbove, NEW l \in Levels,
         NEW C, C \subseteq AllFiles, C # {}, Overlapping(l, C) # {}
  PROVE  LET U == AddBoundaryInputs(l, Overlapping(l, C))
         IN  Overlapping(l, C) \subseteq U /\ Closed(l, U)
<1> DEFINE O == Overlapping(l, C)
           U == AddBoundaryInputs(l, O)
<1>1. CASE l = 0
  <2>1. /\ O \subseteq levels[0]
        /\ \A f \in levels[0] \ O : \A d \in f.entries, e \in EntriesOf(O) : d.key # e.key
        /\ \A f \in levels[0] \ O : \A e \in EntriesOf(O) :
             ~(f.smallest.key <= e.key /\ e.key <= f.largest.key)
    BY <1>1, OverlapZero
  <2> HIDE DEF O
  <2>2. U = O
    BY <1>1, <2>1, BoundaryNone DEF O
  <2>3. QED
    BY <1>1, <2>1, <2>2 DEF Closed, Newer, O
<1>2. CASE l # 0
  <2>1. O \subseteq levels[l] /\ Convex(l, O)
    BY <1>2, OverlapBelow
  <2> HIDE DEF O
  <2>2. /\ O \subseteq U /\ U \subseteq levels[l] /\ Convex(l, U)
        /\ \A g \in levels[l] : Before(LastOf(EntriesOf(U)), g.smallest) =>
             g.smallest.key # LastOf(EntriesOf(U)).key
    BY <1>2, <2>1, BoundaryClosed DEF O
  <2> HIDE DEF U
  <2>3. U # {}
    BY <2>2 DEF O
  <2>4. \A f \in levels[l] \ U : Newer(f.entries, EntriesOf(U))
    BY <1>2, <2>2, <2>3, ClosedNewer
  <2>5. QED
    BY <2>2, <2>3, <2>4 DEF Closed, O, U
<1>3. QED
  BY <1>1, <1>2

(* The same for the one file at which a compaction of a level below 0      *)
(* starts.                                                                 *)
LEMMA StartClosed ==
  ASSUME Written, Files, LevelsDisjoint, NewerAbove, NEW l \in Levels \ {0}, NEW f \in levels[l]
  PROVE  {f} \subseteq AddBoundaryInputs(l, {f}) /\ Closed(l, AddBoundaryInputs(l, {f}))
<1> DEFINE U == AddBoundaryInputs(l, {f})
<1>1. Convex(l, {f})
  <2>1. f.smallest \in Known /\ f.largest \in Known /\ (f.smallest = f.largest \/ Before(f.smallest, f.largest))
    BY FileRange DEF Files, Bounded_by
  <2>2. ASSUME NEW g \in levels[l], Before(f.largest, g.smallest), Before(g.largest, f.smallest) PROVE FALSE
    <3>1. g.smallest \in Known /\ g.largest \in Known /\ (g.smallest = g.largest \/ Before(g.smallest, g.largest))
      BY FileRange DEF Files, Bounded_by
    <3>2. QED
      BY <2>1, <2>2, <3>1, KnownOrder
  <2>3. QED
    BY <2>2 DEF Convex
<1>2. /\ {f} \subseteq U /\ U \subseteq levels[l] /\ Convex(l, U)
      /\ \A g \in levels[l] : Before(LastOf(EntriesOf(U)), g.smallest) =>
           g.smallest.key # LastOf(EntriesOf(U)).key
  BY <1>1, BoundaryClosed
<1> HIDE DEF U
<1>3. \A g \in levels[l] \ U : Newer(g.entries, EntriesOf(U))
  BY <1>2, ClosedNewer
<1>4. QED
  BY <1>2, <1>3 DEF Closed, U

(* SetupOtherInputs chooses what may be moved down.                        *)
LEMMA InputsSealed ==
  ASSUME Written, Files, LevelsDisjoint, NewerAbove, NEW l \in Levels, l + 1 \in Levels,
         NEW start, Closed(l, AddBoundaryInputs(l, start))
  PROVE  LET i == Inputs(l, start)
         IN  /\ i = <<i[1], i[2]>>
             /\ i[1] \subseteq levels[l] /\ i[1] # {} /\ i[2] \subseteq levels[l + 1]
             /\ Sealed(l, i[1], i[2])
<1> DEFINE upper == AddBoundaryInputs(l, start)
           Lower(fs) == AddBoundaryInputs(l + 1, Overlapping(l + 1, fs))
           lower == Lower(upper)
           C == upper \cup lower
           wide == AddBoundaryInputs(l, Overlapping(l, C))
<1>1. ASSUME NEW U, Closed(l, U) PROVE Lower(U) \subseteq levels[l + 1] /\ Sealed(l, U, Lower(U))
  <2> DEFINE L == Lower(U)
  <2>1. /\ L \subseteq levels[l + 1]
        /\ \A f \in levels[l + 1] \ L :
             /\ \A d \in f.entries, e \in EntriesOf(U) : d.key # e.key
             /\ Newer(f.entries, EntriesOf(L))
             /\ \/ AllBefore(f.entries, EntriesOf(U \cup L))
                \/ AllBefore(EntriesOf(U \cup L), f.entries)
    BY <1>1, LowerSealed DEF Closed
  <2> HIDE DEF L
  <2>2. L \subseteq levels[l + 1] /\ Sealed(l, U, L)
    BY <1>1, <2>1 DEF Closed, Sealed
  <2>3. QED
    BY <2>2 DEF L
<1>2. Closed(l, wide)
  <2>1. C \subseteq AllFiles /\ C # {} /\ upper \subseteq levels[l] /\ upper # {}
    BY <1>1 DEF Closed, AllFiles
  <2> HIDE DEF C, upper
  <2>2. Overlapping(l, C) # {}
    <3>1. CASE l = 0
      BY <2>1, <3>1, OverlapZero DEF C
    <3>2. CASE l # 0
      <4>1. PICK f \in upper : f \in C /\ f \in levels[l]
        BY <2>1 DEF C
      <4>2. f.largest \in EntriesOf(C) /\ f.smallest.key <= f.largest.key
            /\ f.smallest \in EntriesOf(C) /\ f.smallest.key \in Nat /\ f.largest.key \in Nat
        BY <2>1, <4>1, KeyRange, FileRange
      <4>3. f \in Overlapping(l, C)
        BY <2>1, <3>2, <4>1, <4>2, OverlapBelow
      <4>4. QED
        BY <4>3
    <3>3. QED
      BY <3>1, <3>2
  <2>3. QED
    BY <2>1, <2>2, UpperClosed
<1>3. Inputs(l, start) = <<upper, lower>> \/ Inputs(l, start) = <<wide, Lower(wide)>>
  BY DEF Inputs
<1>4. Closed(l, upper)
  OBVIOUS
<1> HIDE DEF upper, wide, Lower
<1>5. ASSUME NEW U, Closed(l, U), Inputs(l, start) = <<U, Lower(U)>>
      PROVE  LET i == Inputs(l, start)
             IN  /\ i = <<i[1], i[2]>>
                 /\ i[1] \subseteq levels[l] /\ i[1] # {} /\ i[2] \subseteq levels[l + 1]
                 /\ Sealed(l, i[1], i[2])
  BY <1>1, <1>5 DEF Closed
<1>6. QED
  BY <1>2, <1>3, <1>4, <1>5

(* A level that is due for a compaction has a file to start at.            *)
LEMMA StartExists ==
  ASSUME Written, Files, LevelsDisjoint, NewerAbove, NEW l \in CompactionLevels
  PROVE  l \in Levels /\ StartFile(l) \in levels[l]
<1>1. l \in Levels /\ Score(l)[1] >= Score(l)[2]
  BY DEF CompactionLevels
<1>2. Score(l)[2] \in Nat \ {0}
  <2>1. l \in Nat /\ l <= NumLevels - 1 /\ NumLevels \in Nat
    BY <1>1, ConstantsAssumption DEF Levels, ConstantsAssumption
  <2>2. CASE l = 0
    BY <2>2, ConstantsAssumption DEF Score, ConstantsAssumption
  <2>3. CASE l # 0
    <3>1. l \in 1 .. NumLevels - 1
      BY <2>1, <2>3
    <3>2. QED
      BY <2>3, <3>1, ConstantsAssumption DEF Score, ConstantsAssumption
  <2>4. QED
    BY <2>2, <2>3
<1>3. levels[l] # {}
  <2>1. SUFFICES ASSUME levels[l] = {} PROVE FALSE
    OBVIOUS
  <2>2. EntriesOf({}) = {} /\ Cardinality({}) = 0
    BY FS_EmptySet DEF EntriesOf
  <2>3. Score(l)[1] = 0
    BY <2>1, <2>2 DEF Score, TotalFileSize
  <2>4. QED
    BY <1>1, <1>2, <2>3
<1> DEFINE past == {f \in levels[l] : Before(compact_pointer[l], f.largest)}
           from == IF past = {} THEN levels[l] ELSE past
<1>4. from \subseteq levels[l] /\ from # {}
  BY <1>3
<1>5. StartFile(l) = CHOOSE f \in from : \A g \in from : g = f \/ FileOrder(f, g)
  BY DEF StartFile
<1> HIDE DEF from
<1>6. \E f \in from : \A g \in from : g = f \/ FileOrder(f, g)
  BY <1>1, <1>4, FirstFile
<1>7. StartFile(l) \in from
  BY <1>5, <1>6
<1>8. QED
  BY <1>1, <1>4, <1>7

(* PickCompaction chooses what may be moved down.                          *)
LEMMA PickSealed ==
  ASSUME Written, Files, LevelsDisjoint, NewerAbove, NEW l \in Compactable
  PROVE  LET c == PickCompaction(l)
         IN  /\ CompactionOK(c) /\ c.stage = "picked"
             /\ Sealed(c.level, c.inputs[1], c.inputs[2])
             /\ LastOf(EntriesOf(c.inputs[1])) \in Entry
<1>1. l \in CompactionLevels /\ l \in Levels /\ l + 1 \in Levels
  BY StartExists DEF Compactable
<1> DEFINE f == StartFile(l)
           start == IF l = 0 THEN Overlapping(0, {f}) ELSE {f}
           i == Inputs(l, start)
           grand == IF l + 2 \in Levels THEN Overlapping(l + 2, i[1] \cup i[2]) ELSE {}
           c == PickCompaction(l)
<1>2. f \in levels[l]
  BY <1>1, StartExists
<1> HIDE DEF f
<1>3. Closed(l, AddBoundaryInputs(l, start))
  <2>1. CASE l = 0
    <3>1. {f} \subseteq AllFiles /\ {f} # {} /\ f \in levels[0]
      BY <1>1, <1>2, <2>1 DEF AllFiles
    <3>2. Overlapping(0, {f}) # {}
      BY <3>1, OverlapZero
    <3>3. QED
      BY <1>1, <2>1, <3>1, <3>2, UpperClosed
  <2>2. CASE l # 0
    BY <1>1, <1>2, <2>2, StartClosed
  <2>3. QED
    BY <2>1, <2>2
<1> HIDE DEF start
<1>4. /\ i = <<i[1], i[2]>>
      /\ i[1] \subseteq levels[l] /\ i[1] # {} /\ i[2] \subseteq levels[l + 1]
      /\ Sealed(l, i[1], i[2])
  BY <1>1, <1>3, InputsSealed
<1> HIDE DEF i
<1>5. levels[l] \subseteq File /\ levels[l + 1] \subseteq File
  BY <1>1 DEF Files
<1>6. grand \subseteq File
  <2>1. l + 2 \in Levels => Overlapping(l + 2, i[1] \cup i[2]) \subseteq levels[l + 2]
    <3>1. l + 2 # 0
      BY <1>1, ConstantsAssumption DEF Levels, ConstantsAssumption
    <3>2. QED
      BY <3>1 DEF Overlapping, Touching
  <2>2. l + 2 \in Levels => levels[l + 2] \subseteq File
    BY DEF Files
  <2>3. QED
    BY <2>1, <2>2
<1> DEFINE passed == EntriesOf(grand)
<1>12. IsFiniteSet(passed)
  <2>1. grand \subseteq AllFiles
    <3>1. l + 2 \in Levels => Overlapping(l + 2, i[1] \cup i[2]) \subseteq levels[l + 2]
      <4>1. l + 2 # 0
        BY <1>1, ConstantsAssumption DEF Levels, ConstantsAssumption
      <4>2. QED
        BY <4>1 DEF Overlapping, Touching
    <3>2. QED
      BY <3>1 DEF AllFiles
  <2>2. passed \subseteq Known
    BY <2>1 DEF EntriesOf, Known
  <2> HIDE DEF passed
  <2>3. QED
    BY <2>2, PartOfKnown
<1> HIDE DEF grand
<1>7. c = [stage |-> "picked", level |-> l, inputs |-> i, grand |-> grand, smallest_snapshot |-> 0]
  BY DEF PickCompaction, i, grand, start, f
<1>8. i \in (SUBSET File) \X (SUBSET File)
  BY <1>4, <1>5
<1>9. CompactionOK(c)
  BY <1>1, <1>4, <1>6, <1>7, <1>8, <1>12 DEF CompactionOK, Written
<1>10. LastOf(EntriesOf(i[1])) \in Entry
  <2> DEFINE C == i[1]
             end == LastOf(EntriesOf(C))
  <2>1. end \in Known
    <3> HIDE DEF end
    <3>1. C \subseteq levels[l] /\ C # {}
      BY <1>4
    <3> HIDE DEF C
    <3>2. QED
      BY <1>1, <3>1, LastEntry DEF end
  <2>2. Known \subseteq Entry
    BY DEF Written, Distinct
  <2>3. QED
    BY <2>1, <2>2
<1>11. QED
  BY <1>4, <1>7, <1>9, <1>10

-----------------------------------------------------------------------------
(* The merge.                                                              *)

Input(c) == EntriesOf(c.inputs[1] \cup c.inputs[2])

(* What a compaction drops: an entry that a newer one of its inputs hides  *)
(* from every snapshot, or a deletion all snapshots see of a key that no   *)
(* deeper level holds.                                                     *)
Gone(c, e) ==
  \/ \E d \in Input(c) : d.key = e.key /\ d.seq > e.seq /\ d.seq <= c.smallest_snapshot
  \/ ~e.live /\ e.seq <= c.smallest_snapshot /\ IsBaseLevelForKey(c, e.key)

(* Outputs one after the other, none of them empty.                        *)
Sorted(s) ==
  \A i \in DOMAIN s : s[i] # {} /\ \A j \in DOMAIN s : i < j => AllBefore(s[i], s[j])

UnionOf(s) == UNION {s[i] : i \in DOMAIN s}

LEMMA AppendSorted ==
  ASSUME NEW T, NEW s \in Seq(SUBSET T), Sorted(s), NEW x \in SUBSET T, x # {}, AllBefore(UnionOf(s), x)
  PROVE  /\ Append(s, x) \in Seq(SUBSET T) /\ Sorted(Append(s, x))
         /\ UnionOf(Append(s, x)) = UnionOf(s) \cup x
<1> DEFINE t == Append(s, x)
<1>1. /\ t \in Seq(SUBSET T) /\ Len(s) \in Nat /\ DOMAIN s = 1 .. Len(s) /\ DOMAIN t = 1 .. Len(s) + 1
      /\ \A i \in 1 .. Len(s) : t[i] = s[i]
      /\ t[Len(s) + 1] = x
  OBVIOUS
<1> HIDE DEF t
<1>2. \A i \in DOMAIN t : i \in DOMAIN s \/ i = Len(s) + 1
  BY <1>1
<1>3. \A i \in DOMAIN s : i \in DOMAIN t /\ t[i] = s[i] /\ i < Len(s) + 1
  BY <1>1
<1>4. UnionOf(t) = UnionOf(s) \cup x
  <2>1. \A e \in UnionOf(t) : e \in UnionOf(s) \cup x
    BY <1>1, <1>2 DEF UnionOf
  <2>2. \A e \in UnionOf(s) \cup x : e \in UnionOf(t)
    BY <1>1, <1>3 DEF UnionOf
  <2>3. QED
    BY <2>1, <2>2
<1>5. \A i \in DOMAIN s : AllBefore(s[i], x)
  BY DEF AllBefore, UnionOf
<1>6. ASSUME NEW i \in DOMAIN t PROVE t[i] # {} /\ \A j \in DOMAIN t : i < j => AllBefore(t[i], t[j])
  <2>1. CASE i = Len(s) + 1
    <3>1. \A j \in DOMAIN t : ~(i < j)
      BY <1>1, <2>1
    <3>2. QED
      BY <1>1, <2>1, <3>1
  <2>2. CASE i \in DOMAIN s
    <3>1. ASSUME NEW j \in DOMAIN t, i < j PROVE AllBefore(t[i], t[j])
      <4>1. CASE j \in DOMAIN s
        BY <1>3, <2>2, <3>1, <4>1 DEF Sorted
      <4>2. CASE j = Len(s) + 1
        BY <1>1, <1>3, <1>5, <2>2, <4>2
      <4>3. QED
        BY <1>2, <4>1, <4>2
    <3>2. t[i] # {}
      BY <1>3, <2>2 DEF Sorted
    <3>3. QED
      BY <3>1, <3>2
  <2>3. QED
    BY <1>2, <2>1, <2>2
<1>7. Sorted(t)
  BY <1>6 DEF Sorted
<1>8. QED
  BY <1>1, <1>4, <1>7 DEF t

(* The states of the merge loop.                                           *)
MergeStates(c) ==
  [rest : SUBSET Input(c), passed : SUBSET c.grand, overlap : Nat, key : Nat, seq : Nat,
   done : Seq(SUBSET Input(c)), output : SUBSET Input(c)]

(* What was read comes before the rest; what is not gone was kept, in      *)
(* order; and key and seq are those of the entry that was read last.       *)
Merged(c, m) ==
  LET read == Input(c) \ m.rest
  IN  /\ AllBefore(read, m.rest)
      /\ UnionOf(m.done) \cup m.output = {e \in read : ~Gone(c, e)}
      /\ Sorted(m.done) /\ AllBefore(UnionOf(m.done), m.output)
      /\ \/ read = {} /\ m.key = 0
         \/ \E last \in read : /\ last.key = m.key /\ last.seq = m.seq
                               /\ \A d \in read : d = last \/ Before(d, last)

(* Drop decides by the entry before: that is enough.                       *)
LEMMA DropIsGone ==
  ASSUME NEW c, Distinct(Input(c)), IsFiniteSet(Input(c)), c.smallest_snapshot \in Nat,
         NEW m \in MergeStates(c), Merged(c, m), m.rest # {}
  PROVE  LET e == FirstOf(m.rest)
         IN  /\ e \in m.rest /\ \A d \in m.rest : d = e \/ Before(e, d)
             /\ Drop(c, IF e.key = m.key THEN m.seq ELSE c.smallest_snapshot + 1, e) <=> Gone(c, e)
<1> DEFINE e == FirstOf(m.rest)
           read == Input(c) \ m.rest
           newer == IF e.key = m.key THEN m.seq ELSE c.smallest_snapshot + 1
<1>1. e \in m.rest /\ \A d \in m.rest : d = e \/ Before(e, d)
  <2>1. m.rest \subseteq Input(c)
    BY DEF MergeStates
  <2>2. Distinct(m.rest) /\ IsFiniteSet(m.rest)
    BY <2>1, FS_Subset DEF Distinct
  <2>3. QED
    BY <2>2, First, ConstantsAssumption
<1> HIDE DEF e
<1>2. \A d \in Input(c) : d.key \in Nat \ {0} /\ d.seq \in Nat
  BY ConstantsAssumption DEF Distinct, Entry, ConstantsAssumption
<1>3. e \in Input(c) /\ m.rest \subseteq Input(c)
  BY <1>1 DEF MergeStates
<1>4. \A d \in Input(c) : d.key = e.key /\ d.seq > e.seq => d \in read
  <2>1. ASSUME NEW d \in m.rest, d.key = e.key, d.seq > e.seq PROVE FALSE
    <3>1. d.seq \in Nat /\ e.seq \in Nat /\ d.key \in Nat /\ e.key \in Nat
      BY <1>2, <1>3
    <3>2. d # e /\ ~Before(e, d)
      BY <2>1, <3>1 DEF Before
    <3>3. QED
      BY <1>1, <3>2
  <2>2. QED
    BY <2>1
<1>5. newer <= c.smallest_snapshot <=>
        \E d \in Input(c) : d.key = e.key /\ d.seq > e.seq /\ d.seq <= c.smallest_snapshot
  <2>1. CASE read = {} /\ m.key = 0
    <3>1. e.key # m.key
      BY <1>2, <1>3, <2>1
    <3>2. newer = c.smallest_snapshot + 1
      BY <3>1
    <3>3. QED
      BY <1>4, <2>1, <3>2
  <2>2. ASSUME NEW last \in read, last.key = m.key, last.seq = m.seq,
               \A d \in read : d = last \/ Before(d, last)
        PROVE  newer <= c.smallest_snapshot <=>
                 \E d \in Input(c) : d.key = e.key /\ d.seq > e.seq /\ d.seq <= c.smallest_snapshot
    <3>1. Before(last, e)
      BY <1>1 DEF Merged, AllBefore
    <3>2. /\ last \in Input(c) /\ last.key \in Nat /\ last.seq \in Nat /\ e.key \in Nat /\ e.seq \in Nat
      BY <1>2, <1>3
    <3>3. CASE e.key = m.key
      <4>1. newer = last.seq /\ last.seq > e.seq /\ last.key = e.key
        BY <2>2, <3>1, <3>2, <3>3 DEF Before
      <4>2. ASSUME NEW d \in Input(c), d.key = e.key, d.seq > e.seq, d.seq <= c.smallest_snapshot
            PROVE  last.seq <= c.smallest_snapshot
        <5>1. d = last \/ Before(d, last)
          BY <1>4, <2>2, <4>2
        <5>2. d.seq \in Nat /\ d.key = last.key
          BY <1>2, <4>1, <4>2
        <5>3. d.seq >= last.seq
          BY <3>2, <5>1, <5>2 DEF Before
        <5>4. QED
          BY <3>2, <4>2, <5>2, <5>3
      <4>3. QED
        BY <3>2, <4>1, <4>2
    <3>4. CASE e.key # m.key
      <4>1. newer = c.smallest_snapshot + 1
        BY <3>4
      <4>2. ASSUME NEW d \in Input(c), d.key = e.key, d.seq > e.seq PROVE FALSE
        <5>1. d = last \/ Before(d, last)
          BY <1>4, <2>2, <4>2
        <5>2. d.key <= last.key /\ last.key <= e.key
          BY <1>2, <3>1, <3>2, <5>1 DEF Before
        <5>3. QED
          BY <2>2, <3>2, <3>4, <4>2, <5>2
      <4>3. QED
        BY <4>1, <4>2
    <3>5. QED
      BY <3>3, <3>4
  <2>3. QED
    BY <2>1, <2>2 DEF Merged
<1>6. Drop(c, newer, e) <=> Gone(c, e)
  <2> HIDE DEF newer
  <2>1. QED
    BY <1>5 DEF Drop, Gone
<1>7. QED
  BY <1>1, <1>6 DEF e

(* One turn of the loop.                                                   *)
LEMMA MergeTurn ==
  ASSUME NEW c, Distinct(Input(c)), IsFiniteSet(Input(c)), IsFiniteSet(EntriesOf(c.grand)),
         c.smallest_snapshot \in Nat,
         NEW m \in MergeStates(c), Merged(c, m), m.rest # {}
  PROVE  LET n == MergeStep(c, m)
         IN  /\ n \in MergeStates(c) /\ Merged(c, n)
             /\ n.rest = m.rest \ {FirstOf(m.rest)} /\ FirstOf(m.rest) \in m.rest
<1> DEFINE e       == FirstOf(m.rest)
           I       == Input(c)
           passed  == {g \in c.grand : Before(g.largest, e)}
           overlap == m.overlap + TotalFileSize(passed \ m.passed)
           stop    == overlap > GrandLimit
           done    == IF stop /\ m.output # {} THEN Append(m.done, m.output) ELSE m.done
           newer   == IF e.key = m.key THEN m.seq ELSE c.smallest_snapshot + 1
           before  == IF stop THEN {} ELSE m.output
           output  == before \cup (IF Drop(c, newer, e) THEN {} ELSE {e})
           full    == e \in output /\ Cardinality(output) >= MaxFileSize
           done2   == IF full THEN Append(done, output) ELSE done
           output2 == IF full THEN {} ELSE output
           rest    == m.rest \ {e}
           n       == MergeStep(c, m)
<1>1. /\ e \in m.rest /\ \A d \in m.rest : d = e \/ Before(e, d)
      /\ Drop(c, newer, e) <=> Gone(c, e)
  BY DropIsGone
<1>2. n = [rest |-> rest, passed |-> passed, overlap |-> IF stop THEN 0 ELSE overlap,
           key |-> e.key, seq |-> e.seq, done |-> done2, output |-> output2]
  BY DEF MergeStep
<1>3. overlap \in Nat
  <2>1. EntriesOf(passed \ m.passed) \subseteq EntriesOf(c.grand)
    BY DEF EntriesOf
  <2> DEFINE new == EntriesOf(passed \ m.passed)
  <2> HIDE DEF new, passed
  <2>2. IsFiniteSet(new)
    BY <2>1, FS_Subset DEF new
  <2>3. Cardinality(new) \in Nat
    BY <2>2, FS_CardinalityType
  <2>4. m.overlap \in Nat
    BY DEF MergeStates
  <2>5. QED
    BY <2>3, <2>4 DEF TotalFileSize, new
<1>4. passed \subseteq c.grand
  OBVIOUS
<1> HIDE DEF n, passed, overlap, e, stop
<1>5. /\ m.rest \subseteq I /\ m.done \in Seq(SUBSET I) /\ m.output \subseteq I
      /\ e \in I /\ e.key \in Nat /\ e.seq \in Nat
  <2>1. m.rest \subseteq I /\ m.done \in Seq(SUBSET I) /\ m.output \subseteq I
    BY DEF MergeStates
  <2>2. QED
    BY <1>1, <2>1, ConstantsAssumption DEF Distinct, Entry, ConstantsAssumption
<1> DEFINE read == I \ m.rest
<1>6. /\ AllBefore(read, m.rest)
      /\ UnionOf(m.done) \cup m.output = {d \in read : ~Gone(c, d)}
      /\ Sorted(m.done) /\ AllBefore(UnionOf(m.done), m.output)
  BY DEF Merged
<1> HIDE DEF I
<1>7. /\ done \in Seq(SUBSET I) /\ Sorted(done) /\ before \subseteq I
      /\ UnionOf(done) \cup before = {d \in read : ~Gone(c, d)}
      /\ AllBefore(UnionOf(done), before)
  <2>1. CASE stop /\ m.output # {}
    <3>1. /\ Append(m.done, m.output) \in Seq(SUBSET I) /\ Sorted(Append(m.done, m.output))
          /\ UnionOf(Append(m.done, m.output)) = UnionOf(m.done) \cup m.output
      <4> DEFINE s == m.done
                 x == m.output
      <4>1. s \in Seq(SUBSET I) /\ Sorted(s) /\ x \in SUBSET I /\ x # {} /\ AllBefore(UnionOf(s), x)
        BY <1>5, <1>6, <2>1
      <4> HIDE DEF s, x
      <4>2. /\ Append(s, x) \in Seq(SUBSET I) /\ Sorted(Append(s, x))
            /\ UnionOf(Append(s, x)) = UnionOf(s) \cup x
        BY ONLY <4>1, AppendSorted, Z3
      <4>3. QED
        BY <4>2 DEF s, x
    <3>2. done = Append(m.done, m.output) /\ before = {}
      BY <2>1
    <3> HIDE DEF done, before
    <3>3. QED
      BY <1>6, <3>1, <3>2 DEF AllBefore
  <2>2. CASE ~stop
    BY <1>5, <1>6, <2>2
  <2>3. CASE stop /\ m.output = {}
    BY <1>5, <1>6, <2>3
  <2>4. QED
    BY <2>1, <2>2, <2>3
<1> HIDE DEF done, before
<1>8. I \ rest = read \cup {e}
  BY <1>1, <1>5
<1>9. /\ output \subseteq I
      /\ UnionOf(done) \cup output = {d \in I \ rest : ~Gone(c, d)}
      /\ AllBefore(UnionOf(done), output)
  <2> DEFINE kept == IF Drop(c, newer, e) THEN {} ELSE {e}
  <2>1. kept \subseteq {e} /\ kept = {d \in {e} : ~Gone(c, d)}
    <3> HIDE DEF newer
    <3>1. QED
      BY <1>1
  <2> HIDE DEF kept
  <2>2. output = before \cup kept
    BY DEF kept
  <2> HIDE DEF output, read
  <2>3. AllBefore(read, {e})
    BY <1>1, <1>6 DEF AllBefore
  <2>4. UnionOf(done) \subseteq read
    BY <1>7
  <2>5. AllBefore(UnionOf(done), output)
    BY <1>7, <2>1, <2>2, <2>3, <2>4 DEF AllBefore
  <2>6. UnionOf(done) \cup output = {d \in I \ rest : ~Gone(c, d)}
    BY <1>7, <1>8, <2>1, <2>2
  <2>7. QED
    BY <1>5, <1>7, <2>1, <2>2, <2>5, <2>6
<1> HIDE DEF output
<1>10. /\ done2 \in Seq(SUBSET I) /\ Sorted(done2) /\ output2 \subseteq I
       /\ UnionOf(done2) \cup output2 = {d \in I \ rest : ~Gone(c, d)}
       /\ AllBefore(UnionOf(done2), output2)
  <2>1. CASE full
    <3>1. /\ output # {} /\ output \in SUBSET I /\ AllBefore(UnionOf(done), output)
          /\ done \in Seq(SUBSET I) /\ Sorted(done)
      BY <1>7, <1>9, <2>1
    <3>2. /\ Append(done, output) \in Seq(SUBSET I) /\ Sorted(Append(done, output))
          /\ UnionOf(Append(done, output)) = UnionOf(done) \cup output
      BY ONLY <3>1, AppendSorted, Z3
    <3>3. done2 = Append(done, output) /\ output2 = {}
      BY <2>1
    <3> HIDE DEF done2, output2
    <3>4. QED
      BY <1>9, <3>2, <3>3 DEF AllBefore
  <2>2. CASE ~full
    BY <1>7, <1>9, <2>2
  <2>3. QED
    BY <2>1, <2>2
<1> HIDE DEF done2, output2, rest
<1>11. n \in MergeStates(c)
  <2>1. rest \subseteq I
    BY <1>5 DEF rest
  <2>2. QED
    BY <1>2, <1>3, <1>4, <1>5, <1>10, <2>1 DEF MergeStates, I
<1>12. Merged(c, n)
  <2>1. n.rest = rest /\ n.key = e.key /\ n.seq = e.seq /\ n.done = done2 /\ n.output = output2
    BY <1>2
  <2>2. \A d \in I \ rest : d = e \/ Before(d, e)
    BY <1>1, <1>6, <1>8 DEF AllBefore
  <2>3. AllBefore(I \ rest, rest)
    <3>1. \A d \in rest : d \in m.rest /\ Before(e, d)
      BY <1>1 DEF rest
    <3>2. QED
      BY <1>6, <1>8, <3>1 DEF AllBefore
  <2>4. e \in I \ rest
    BY <1>8
  <2> HIDE DEF read
  <2>5. QED
    BY <1>10, <2>1, <2>2, <2>3, <2>4 DEF Merged, I
<1>13. n.rest = rest
  BY <1>2
<1>14. QED
  BY <1>1, <1>11, <1>12, <1>13 DEF n, rest, e

(* DoCompactionWork writes what is not gone, in order.                     *)
LEMMA MergeOutputs ==
  ASSUME NEW c, Distinct(Input(c)), IsFiniteSet(Input(c)), IsFiniteSet(EntriesOf(c.grand)),
         c.smallest_snapshot \in Nat
  PROVE  /\ Outputs(c) \in Seq(SUBSET Input(c)) /\ Sorted(Outputs(c))
         /\ UnionOf(Outputs(c)) = {e \in Input(c) : ~Gone(c, e)}
<1> DEFINE I == Input(c)
           D == MergeStates(c)
           n == Cardinality(I)
           start == [rest |-> I, overlap |-> 0, key |-> 0, seq |-> 0, done |-> <<>>, output |-> {},
                     passed |-> {g \in c.grand : Before(g.largest, FirstOf(I))}]
           g == [m \in D |-> IF Merged(c, m) /\ m.rest # {} THEN MergeStep(c, m) ELSE m]
           Run(r) == r = [i \in 0 .. n |-> IF i = 0 THEN start ELSE MergeStep(c, r[i - 1])]
           end == (CHOOSE r : Run(r))[n]
<1>1. n \in Nat
  BY FS_CardinalityType
<1>2. start \in D /\ Merged(c, start)
  <2>1. start \in D
    BY DEF MergeStates
  <2>2. UnionOf(start.done) = {} /\ Sorted(start.done)
    BY DEF UnionOf, Sorted
  <2>3. QED
    BY <2>1, <2>2 DEF Merged, AllBefore
<1>3. g \in [D -> D] /\ \A m \in D : Merged(c, m) /\ m.rest # {} => g[m] = MergeStep(c, m)
  BY MergeTurn
<1> HIDE DEF g
<1>4. PICK s : Turns(s, n, g, start) /\ \A i \in 0 .. n : s[i] \in D
  <2> HIDE DEF D, n, start
  <2>1. QED
    BY <1>1, <1>2, <1>3, TurnsExist
<1> DEFINE Fine(m, i) == Merged(c, m) /\ Cardinality(m.rest) = n - i /\ IsFiniteSet(m.rest)
<1>5. \A i \in 0 .. n : Fine(s[i], i)
  <2> DEFINE T == {i \in 0 .. n : Fine(s[i], i)}
  <2>1. 0 \in T
    <3>1. s[0] = start /\ start.rest = I
      BY <1>4 DEF Turns
    <3> HIDE DEF start
    <3>2. QED
      BY <1>1, <1>2, <3>1
  <2>2. ASSUME NEW i \in 1 .. n, i - 1 \in T PROVE i \in T
    <3> DEFINE m == s[i - 1]
    <3>1. Merged(c, m) /\ Cardinality(m.rest) = n - (i - 1) /\ IsFiniteSet(m.rest) /\ m \in D
          /\ s[i] = g[m]
      BY <1>1, <1>4, <2>2 DEF Turns
    <3> HIDE DEF m
    <3>2. m.rest # {}
      BY <1>1, <3>1, FS_EmptySet
    <3>3. /\ Merged(c, s[i]) /\ s[i].rest = m.rest \ {FirstOf(m.rest)} /\ FirstOf(m.rest) \in m.rest
      BY <1>3, <3>1, <3>2, MergeTurn
    <3>4. IsFiniteSet(s[i].rest) /\ Cardinality(s[i].rest) = n - i
      BY <1>1, <3>1, <3>3, FS_RemoveElement
    <3>5. i \in 0 .. n
      BY <1>1
    <3>6. Fine(s[i], i)
      BY <3>3, <3>4
    <3> HIDE DEF Fine, n
    <3>7. QED
      BY <3>5, <3>6
  <2> HIDE DEF T, n
  <2>3. QED
    <3>1. \A i \in 0 .. n : i \in T
      BY <1>1, <2>1, <2>2, UpTo
    <3>2. QED
      BY <3>1 DEF T
<1>6. \A i \in 1 .. n : s[i] = MergeStep(c, s[i - 1])
  <2>1. SUFFICES ASSUME NEW i \in 1 .. n PROVE s[i] = MergeStep(c, s[i - 1])
    OBVIOUS
  <2> DEFINE m == s[i - 1]
  <2>2. i - 1 \in 0 .. n /\ s[i] = g[m] /\ m \in D
    BY <1>1, <1>4 DEF Turns
  <2>3. Merged(c, m) /\ Cardinality(m.rest) = n - (i - 1)
    BY <1>5, <2>2
  <2> HIDE DEF m
  <2>4. m.rest # {}
    BY <1>1, <2>3, FS_EmptySet
  <2>5. QED
    BY <1>3, <2>2, <2>3, <2>4 DEF m
<1>7. \E r : Run(r)
  <2> DEFINE r == [i \in 0 .. n |-> s[i]]
  <2>1. \A i \in 1 .. n : i \in 0 .. n /\ i - 1 \in 0 .. n /\ i # 0
    BY <1>1
  <2>2. r[0] = start /\ \A i \in 1 .. n : r[i] = MergeStep(c, r[i - 1])
    <3> HIDE DEF n, start
    <3>1. QED
      BY <1>1, <1>4, <1>6, <2>1 DEF Turns
  <2>3. \A i \in 0 .. n : r[i] = IF i = 0 THEN start ELSE MergeStep(c, r[i - 1])
    <3> HIDE DEF r, n, start
    <3>1. \A i \in 0 .. n : i = 0 \/ i \in 1 .. n
      BY <1>1
    <3>2. QED
      BY <2>2, <3>1
  <2>4. Run(r)
    <3> HIDE DEF n, start
    <3>1. QED
      BY <2>3
  <2>5. QED
    <3> HIDE DEF r, Run
    <3>1. QED
      BY <2>4
<1>8. Outputs(c) = IF end.output = {} THEN end.done ELSE Append(end.done, end.output)
  BY DEF Outputs, Repeat, Input
<1> DEFINE r == CHOOSE r : Run(r)
<1>9. Run(r)
  BY <1>7
<1> HIDE DEF r
<1>10. r[n] = s[n]
  <2> HIDE DEF n, start
  <2>1. \A i \in 0 .. n : r[i] = IF i = 0 THEN start ELSE MergeStep(c, r[i - 1])
    BY <1>9
  <2> DEFINE T == {i \in 0 .. n : r[i] = s[i]}
  <2>2. 0 \in T
    BY <1>1, <1>4, <2>1 DEF Turns
  <2>3. ASSUME NEW i \in 1 .. n, i - 1 \in T PROVE i \in T
    <3>1. i \in 0 .. n /\ i # 0 /\ r[i - 1] = s[i - 1]
      BY <1>1, <2>3
    <3>2. QED
      BY <1>6, <2>1, <3>1
  <2>4. n \in T
    <3> HIDE DEF T
    <3>1. QED
      BY <1>1, <2>2, <2>3, UpTo
  <2>5. QED
    BY <2>4
<1>11. end = s[n]
  BY <1>10 DEF r
<1> HIDE DEF end
<1>12. end \in D /\ Merged(c, end) /\ end.rest = {}
  <2>1. n \in 0 .. n
    BY <1>1
  <2>2. end \in D /\ Merged(c, end) /\ Cardinality(end.rest) = n - n /\ IsFiniteSet(end.rest)
    <3> HIDE DEF n
    <3>1. QED
      BY <1>4, <1>5, <1>11, <2>1
  <2>3. QED
    BY <1>1, <2>2, FS_EmptySet
<1>13. /\ UnionOf(end.done) \cup end.output = {e \in I : ~Gone(c, e)}
       /\ Sorted(end.done) /\ AllBefore(UnionOf(end.done), end.output)
       /\ end.done \in Seq(SUBSET I) /\ end.output \in SUBSET I
  BY <1>12 DEF Merged, MergeStates
<1> HIDE DEF I
<1>14. CASE end.output = {}
  BY <1>8, <1>13, <1>14 DEF I
<1>15. CASE end.output # {}
  <2>1. /\ Append(end.done, end.output) \in Seq(SUBSET I) /\ Sorted(Append(end.done, end.output))
        /\ UnionOf(Append(end.done, end.output)) = UnionOf(end.done) \cup end.output
    <3> DEFINE written == end.done
               x == end.output
    <3>1. written \in Seq(SUBSET I) /\ Sorted(written) /\ x \in SUBSET I /\ x # {} /\ AllBefore(UnionOf(written), x)
      BY <1>13, <1>15
    <3> HIDE DEF written, x, D, n, start, g, Run
    <3>2. /\ Append(written, x) \in Seq(SUBSET I) /\ Sorted(Append(written, x))
          /\ UnionOf(Append(written, x)) = UnionOf(written) \cup x
      BY ONLY <3>1, AppendSorted, Z3
    <3>3. QED
      BY <3>2 DEF written, x
  <2>2. QED
    BY <1>8, <1>13, <1>15, <2>1 DEF I
<1>16. QED
  BY <1>14, <1>15

-----------------------------------------------------------------------------
(* The steps.                                                              *)

(* A file made of entries there are.                                       *)
LEMMA NewFileBounded ==
  ASSUME Written, NEW S, S \subseteq Known, S # {}, NEW n \in Nat
  PROVE  LET f == NewFile(n, S)
         IN  f \in File /\ Bounded_by(f) /\ f.entries = S /\ f.number = n
<1>1. Distinct(S) /\ IsFiniteSet(S)
  BY PartOfKnown
<1>2. FirstOf(S) \in S /\ \A e \in S : e = FirstOf(S) \/ Before(FirstOf(S), e)
  BY <1>1, First, ConstantsAssumption
<1>3. LastOf(S) \in S /\ \A e \in S : e = LastOf(S) \/ Before(e, LastOf(S))
  BY <1>1, Last, ConstantsAssumption
<1>4. S \subseteq Entry
  BY <1>1 DEF Distinct
<1>5. QED
  BY <1>2, <1>3, <1>4 DEF NewFile, File, Bounded_by

LEMMA InitHolds == Init => IInv
<1> SUFFICES ASSUME Init PROVE IInv
  OBVIOUS
<1>2. \A l \in Levels : levels[l] = {}
  BY DEF Init
<1>3. Known = {} /\ EntriesOf(AllFiles) = {}
  BY <1>2 DEF Init, Known, AllFiles, EntriesOf
<1>4. 0 \in Levels
  BY ConstantsAssumption DEF Levels, ConstantsAssumption
<1>5. Written
  BY <1>3 DEF Init, Written, Distinct
<1>6. Files
  BY <1>2, <1>4, FS_EmptySet DEF Init, Files
<1>7. Places
  BY DEF Init, Places
<1>8. LevelsDisjoint
  BY <1>2 DEF LevelsDisjoint
<1>9. NewerAbove
  BY <1>2, <1>3, <1>4 DEF Init, NewerAbove, Newer, EntriesOf
<1>10. QED
  BY <1>5, <1>6, <1>7, <1>8, <1>9 DEF Init, IInv, Compacting

(* The part of the invariant that is about the data.                       *)
DataOK == Written /\ Files /\ LevelsDisjoint /\ NewerAbove

LEMMA DataUnmoved ==
  ASSUME DataOK, UNCHANGED <<data, last_sequence>>
  PROVE  DataOK'
<1>1. /\ UNCHANGED <<mem, imm, levels, next_file_number, last_sequence>>
      /\ UNCHANGED <<AllFiles, Known>>
  BY DEF data, AllFiles, Known
<1>2. Written'
  BY <1>1 DEF DataOK, Written
<1>3. Files'
  BY <1>1 DEF DataOK, Files, Bounded_by
<1>4. LevelsDisjoint' /\ NewerAbove'
  BY <1>1 DEF DataOK, LevelsDisjoint, NewerAbove
<1>5. QED
  BY <1>2, <1>3, <1>4 DEF DataOK

(* The compaction under way stays possible while the levels stay.          *)
LEMMA CompactingUnmoved ==
  ASSUME Compacting, Written, UNCHANGED <<levels, compaction>>,
         last_sequence' \in Nat, last_sequence <= last_sequence'
  PROVE  Compacting'
<1>1. SUFFICES ASSUME compaction # NoCompaction
      PROVE  (CompactionOK(compaction) /\ Sealed(compaction.level, compaction.inputs[1], compaction.inputs[2]))'
  BY DEF Compacting
<1>2. CompactionOK(compaction) /\ Sealed(compaction.level, compaction.inputs[1], compaction.inputs[2])
  BY <1>1 DEF Compacting
<1>3. compaction.smallest_snapshot \in Nat /\ last_sequence \in Nat
  BY <1>2 DEF CompactionOK, Written
<1>4. CompactionOK(compaction)'
  BY <1>2, <1>3 DEF CompactionOK
<1>5. QED
  BY <1>2, <1>4 DEF Sealed

LEMMA MakeRoomKeeps == ASSUME IInv, MakeRoom PROVE IInv'
<1>1. /\ UNCHANGED <<levels, next_file_number, last_sequence, compact_pointer, snapshots, compaction, bg_error>>
      /\ user' = "flush"
      /\ UNCHANGED <<mem, imm>> \/ (imm = {} /\ imm' = mem /\ mem' = {})
  BY DEF MakeRoom
<1>2. UNCHANGED <<AllFiles, Known>>
  BY <1>1 DEF AllFiles, Known
<1>3. Written'
  BY <1>1, <1>2 DEF IInv, Written
<1>4. Files' /\ LevelsDisjoint'
  BY <1>1 DEF IInv, Files, Bounded_by, LevelsDisjoint
<1>5. NewerAbove'
  BY <1>1, <1>2 DEF IInv, NewerAbove, Newer
<1>6. Places'
  BY <1>1 DEF IInv, Places
<1>7. Compacting'
  BY <1>1, CompactingUnmoved DEF IInv, Written
<1>8. QED
  BY <1>3, <1>4, <1>5, <1>6, <1>7 DEF IInv

(* A write adds an entry that is newer than all others.                    *)
LEMMA WriteKeeps == ASSUME IInv, NEW op \in [key : Keys, live : BOOLEAN], Write(op) PROVE IInv'
<1> DEFINE new == [key |-> op.key, seq |-> last_sequence + 1, live |-> op.live]
<1>1. /\ mem' = mem \cup {new} /\ last_sequence' = last_sequence + 1 /\ user' = "idle"
      /\ UNCHANGED <<imm, levels, next_file_number, compact_pointer, snapshots, compaction, bg_error>>
  BY DEF Write
<1>2. last_sequence \in Nat /\ new \in Entry /\ new.seq = last_sequence + 1
  BY DEF IInv, Written, Entry
<1>3. \A e \in Known : e.seq \in Nat /\ e.seq <= last_sequence
  BY KnownOrder DEF IInv, Written
<1> HIDE DEF new
<1>4. Known' = Known \cup {new} /\ UNCHANGED AllFiles
  BY <1>1 DEF Known, AllFiles
<1>5. Written'
  BY <1>1, <1>2, <1>3, <1>4 DEF IInv, Written, Distinct
<1>6. Files' /\ LevelsDisjoint'
  BY <1>1 DEF IInv, Files, Bounded_by, LevelsDisjoint
<1>7. NewerAbove'
  <2>1. imm \subseteq Known /\ EntriesOf(AllFiles) \subseteq Known
    BY DEF Known
  <2>2. Newer({new}, imm) /\ Newer({new}, EntriesOf(AllFiles))
    BY <1>2, <1>3, <2>1 DEF Newer
  <2>3. Newer(mem', imm)
    BY <1>1, <2>2 DEF IInv, NewerAbove, Newer
  <2>4. Newer(mem' \cup imm, EntriesOf(AllFiles))
    BY <1>1, <2>2 DEF IInv, NewerAbove, Newer
  <2>5. QED
    BY <1>1, <1>4, <2>3, <2>4 DEF IInv, NewerAbove
<1>8. Places'
  <2>1. 0 .. last_sequence \subseteq 0 .. last_sequence'
    BY <1>1, <1>2
  <2>2. QED
    BY <1>1, <2>1 DEF IInv, Places
<1>9. Compacting'
  BY <1>1, <1>2, CompactingUnmoved DEF IInv
<1>10. QED
  BY <1>5, <1>6, <1>7, <1>8, <1>9 DEF IInv

(* A flush adds the newest file of level 0.                                *)
LEMMA FlushKeeps ==
  ASSUME IInv, FlushMemTable, UNCHANGED <<last_sequence, compaction>>
  PROVE  DataOK' /\ Compacting' /\ Known' = Known
<1>1. CASE imm = {}
  <2>1. UNCHANGED data
    BY <1>1 DEF FlushMemTable
  <2>2. DataOK'
    BY <2>1, DataUnmoved DEF IInv, DataOK
  <2>3. Compacting'
    BY <2>1, CompactingUnmoved DEF IInv, Written, data
  <2>4. Known' = Known
    BY <2>1 DEF data, Known, AllFiles
  <2>5. QED
    BY <2>2, <2>3, <2>4
<1>2. CASE imm # {}
  <2> DEFINE f == NewFile(next_file_number, imm)
  <2>1. /\ levels' = [levels EXCEPT ![0] = @ \cup {f}]
        /\ next_file_number' = next_file_number + 1 /\ imm' = {} /\ mem' = mem
    BY <1>2 DEF FlushMemTable
  <2>2. 0 \in Levels /\ next_file_number \in Nat /\ imm \subseteq Known
    BY ConstantsAssumption DEF Levels, ConstantsAssumption, IInv, Written, Known
  <2>3. f \in File /\ Bounded_by(f) /\ f.entries = imm /\ f.number = next_file_number
    BY <1>2, <2>2, NewFileBounded DEF IInv
  <2> HIDE DEF f
  <2>4. /\ levels \in [Levels -> SUBSET File] /\ levels' \in [Levels -> SUBSET File]
        /\ levels'[0] = levels[0] \cup {f}
        /\ \A l \in Levels \ {0} : levels'[l] = levels[l]
    BY <2>1, <2>2, <2>3 DEF IInv, Files
  <2>5. AllFiles' = AllFiles \cup {f}
    BY <2>2, <2>4 DEF AllFiles
  <2>6. EntriesOf(AllFiles') = EntriesOf(AllFiles) \cup imm
    BY <2>3, <2>5 DEF EntriesOf
  <2>7. Known' = Known
    BY <2>1, <2>6 DEF Known
  <2>8. Written'
    BY <2>1, <2>2, <2>7 DEF IInv, Written
  <2>9. \A l \in Levels : \A g \in levels[l] : g.number \in Nat /\ g.number < next_file_number
    BY <2>4 DEF IInv, Files, File
  <2>10. Files'
    <3>1. IsFiniteSet(levels[0] \cup {f})
      BY <2>2, FS_AddElement DEF IInv, Files
    <3>2. \A l \in Levels : IsFiniteSet(levels'[l])
      BY <2>4, <3>1 DEF IInv, Files
    <3>3. \A l \in Levels : \A g \in levels'[l] : Bounded_by(g) /\ g.number < next_file_number'
      <4>1. \A l \in Levels : \A g \in levels'[l] : g = f \/ g \in levels[l]
        BY <2>4
      <4>2. \A l \in Levels : \A g \in levels[l] : g.number < next_file_number + 1
        BY <2>2, <2>9
      <4>3. QED
        BY <2>1, <2>2, <2>3, <4>1, <4>2 DEF IInv, Files
    <3>4. \A g, h \in levels'[0] : g.number = h.number => g = h
      <4>1. \A g \in levels[0] : g.number # f.number
        BY <2>2, <2>3, <2>9
      <4>2. QED
        BY <2>4, <4>1 DEF IInv, Files
    <3>5. Files' <=> /\ levels' \in [Levels -> SUBSET File]
                     /\ \A l \in Levels : IsFiniteSet(levels'[l])
                     /\ \A l \in Levels : \A g \in levels'[l] : Bounded_by(g) /\ g.number < next_file_number'
                     /\ \A g, h \in levels'[0] : g.number = h.number => g = h
      BY DEF Files, Bounded_by
    <3>6. QED
      BY <2>4, <3>2, <3>3, <3>4, <3>5
  <2>11. LevelsDisjoint'
    BY <2>4 DEF IInv, LevelsDisjoint
  <2>12. Newer(imm, EntriesOf(AllFiles)) /\ Newer(mem, imm) /\ Newer(mem, EntriesOf(AllFiles))
    BY DEF IInv, NewerAbove, Newer
  <2>13. \A l \in Levels : EntriesOf(levels[l]) \subseteq EntriesOf(AllFiles)
    BY DEF EntriesOf, AllFiles
  <2>14. NewerAbove'
    <3>1. Newer(mem', imm') /\ Newer(mem' \cup imm', EntriesOf(AllFiles'))
      BY <2>1, <2>6, <2>12 DEF Newer
    <3>2. \A g, h \in levels'[0] : g.number > h.number => Newer(g.entries, h.entries)
      <4>1. \A h \in levels[0] : Newer(f.entries, h.entries) /\ ~(h.number > f.number)
        <5>1. \A h \in levels[0] : h.entries \subseteq EntriesOf(AllFiles)
          BY <2>2 DEF EntriesOf, AllFiles
        <5>2. QED
          BY <2>2, <2>3, <2>9, <2>12, <5>1 DEF Newer
      <4>2. ~(f.number > f.number)
        BY <2>2, <2>3
      <4>3. QED
        BY <2>4, <4>1, <4>2 DEF IInv, NewerAbove
    <3>3. \A l, m \in Levels : l < m => Newer(EntriesOf(levels'[l]), EntriesOf(levels'[m]))
      <4>1. EntriesOf(levels'[0]) = EntriesOf(levels[0]) \cup imm
        BY <2>3, <2>4 DEF EntriesOf
      <4>2. \A l, m \in Levels : l < m => m # 0
        BY ConstantsAssumption DEF Levels, ConstantsAssumption
      <4>3. ASSUME NEW l \in Levels, NEW m \in Levels, l < m
            PROVE  Newer(EntriesOf(levels'[l]), EntriesOf(levels'[m]))
        <5>1. levels'[m] = levels[m] /\ Newer(EntriesOf(levels[l]), EntriesOf(levels[m]))
          BY <2>4, <4>2, <4>3 DEF IInv, NewerAbove
        <5>2. CASE l = 0
          BY <2>12, <2>13, <4>1, <5>1, <5>2 DEF Newer
        <5>3. CASE l # 0
          BY <2>4, <5>1, <5>3
        <5>4. QED
          BY <5>2, <5>3
      <4>4. QED
        BY <4>3
    <3>4. QED
      BY <3>1, <3>2, <3>3 DEF NewerAbove
  <2>15. Compacting'
    <3>1. SUFFICES ASSUME compaction # NoCompaction
          PROVE  (CompactionOK(compaction) /\ Sealed(compaction.level, compaction.inputs[1], compaction.inputs[2]))'
      BY DEF Compacting
    <3> DEFINE l == compaction.level
               upper == compaction.inputs[1]
               lower == compaction.inputs[2]
    <3>2. CompactionOK(compaction) /\ Sealed(l, upper, lower)
      BY <3>1 DEF IInv, Compacting
    <3>3. l \in Levels /\ l + 1 \in Levels /\ l + 1 # 0 /\ upper \subseteq levels[l]
      BY <3>2, ConstantsAssumption DEF CompactionOK, Levels, ConstantsAssumption
    <3>4. levels'[l + 1] = levels[l + 1] /\ levels[l] \subseteq levels'[l]
          /\ \A g \in levels'[l] : g \in levels[l] \/ g = f
      BY <2>4, <3>3
    <3>5. CompactionOK(compaction)'
      BY <3>2, <3>4 DEF CompactionOK
    <3>6. Newer(f.entries, EntriesOf(upper))
      <4>1. EntriesOf(upper) \subseteq EntriesOf(AllFiles)
        BY <3>3 DEF EntriesOf, AllFiles
      <4>2. QED
        BY <2>3, <2>12, <4>1 DEF Newer
    <3>7. Sealed(l, upper, lower)'
      <4> HIDE DEF l, upper, lower
      <4>1. \A g \in levels'[l] \ upper : Newer(g.entries, EntriesOf(upper))
        BY <3>2, <3>4, <3>6 DEF Sealed
      <4>2. UNCHANGED <<l, upper, lower>>
        BY DEF l, upper, lower
      <4>3. QED
        BY <3>2, <3>4, <4>1, <4>2 DEF Sealed
    <3>8. QED
      BY <3>5, <3>7
  <2>16. QED
    BY <2>7, <2>8, <2>10, <2>11, <2>14, <2>15 DEF DataOK
<1>3. QED
  BY <1>1, <1>2

(* Steps that leave the data alone.                                        *)
LEMMA StillKeeps ==
  ASSUME IInv, UNCHANGED <<data, last_sequence, compaction, compact_pointer>>, Places'
  PROVE  IInv'
<1>1. DataOK'
  BY DataUnmoved DEF IInv, DataOK
<1>2. Compacting'
  BY CompactingUnmoved DEF IInv, Written, data
<1>3. QED
  BY <1>1, <1>2 DEF IInv, DataOK

LEMMA UserKeeps == ASSUME IInv, User PROVE IInv'
<1>1. CASE MakeRoom
  BY <1>1, MakeRoomKeeps
<1>2. CASE UserFlush
  <2>1. DataOK' /\ Compacting'
    BY <1>2, FlushKeeps DEF UserFlush
  <2>2. Places'
    BY <1>2 DEF UserFlush, IInv, Places
  <2>3. QED
    BY <2>1, <2>2 DEF IInv, DataOK
<1>3. CASE WriteFails
  <2>1. Places'
    BY <1>3 DEF WriteFails, IInv, Places
  <2>2. QED
    BY <1>3, <2>1, StillKeeps DEF WriteFails
<1>4. ASSUME NEW op \in [key : Keys, live : BOOLEAN], Write(op) PROVE IInv'
  BY <1>4, WriteKeeps
<1>5. ASSUME NEW h \in Handles, GetSnapshot(h) \/ ReleaseSnapshot(h) PROVE IInv'
  <2>1. last_sequence \in 0 .. last_sequence
    BY DEF IInv, Written
  <2>2. /\ snapshots' \in [Handles -> 0 .. last_sequence \cup {NoSnapshot}]
        /\ UNCHANGED <<data, last_sequence, compact_pointer, user, compaction, bg_error>>
    BY <1>5, <2>1 DEF GetSnapshot, ReleaseSnapshot, IInv, Places
  <2>3. Places'
    BY <2>2 DEF IInv, Places
  <2>4. QED
    BY <2>2, <2>3, StillKeeps
<1>6. QED
  BY <1>1, <1>2, <1>3, <1>4, <1>5 DEF User

LEMMA BackgroundFlushKeeps == ASSUME IInv, BackgroundFlush PROVE IInv'
<1>1. DataOK' /\ Compacting'
  BY FlushKeeps DEF BackgroundFlush
<1>2. Places'
  BY DEF BackgroundFlush, IInv, Places
<1>3. QED
  BY <1>1, <1>2 DEF IInv, DataOK

LEMMA BackgroundFailsKeeps == ASSUME IInv, BackgroundFails PROVE IInv'
<1>1. DataOK'
  BY DataUnmoved DEF BackgroundFails, IInv, DataOK
<1>2. Places' /\ Compacting'
  BY DEF BackgroundFails, IInv, Places, Compacting
<1>3. QED
  BY <1>1, <1>2 DEF IInv, DataOK

(* The compaction that was picked is a possible one.                       *)
LEMMA PickKeeps == ASSUME IInv, BackgroundPick PROVE IInv'
<1>1. UNCHANGED <<data, last_sequence, snapshots, user, bg_error>>
  BY DEF BackgroundPick
<1>2. PICK l \in Compactable :
        /\ compaction' = PickCompaction(l)
        /\ compact_pointer' = [compact_pointer EXCEPT ![l] = LastOf(EntriesOf(compaction'.inputs[1]))]
  BY DEF BackgroundPick
<1> DEFINE c == PickCompaction(l)
<1>3. /\ CompactionOK(c) /\ Sealed(c.level, c.inputs[1], c.inputs[2])
      /\ LastOf(EntriesOf(c.inputs[1])) \in Entry
  BY PickSealed DEF IInv
<1> HIDE DEF c
<1>4. compaction' = c
  BY <1>2 DEF c
<1>5. DataOK'
  BY <1>1, DataUnmoved DEF IInv, DataOK
<1>6. Places'
  BY <1>1, <1>2, <1>3, <1>4 DEF IInv, Places
<1>7. Compacting'
  <2>1. UNCHANGED <<levels, last_sequence>>
    BY <1>1 DEF data
  <2>2. CompactionOK(compaction)'
    BY <1>3, <1>4, <2>1 DEF CompactionOK
  <2>3. Sealed(compaction.level, compaction.inputs[1], compaction.inputs[2])'
    BY <1>3, <1>4, <2>1 DEF Sealed
  <2>4. QED
    BY <2>2, <2>3 DEF Compacting
<1>8. QED
  BY <1>5, <1>6, <1>7 DEF IInv, DataOK

(* The smallest snapshot is a sequence number there was, and no open       *)
(* snapshot is older.                                                      *)
LEMMA SmallestSnapshotBound ==
  ASSUME IInv
  PROVE  /\ SmallestSnapshot \in Nat /\ SmallestSnapshot <= last_sequence
         /\ \A h \in Handles : snapshots[h] # NoSnapshot => SmallestSnapshot <= snapshots[h]
<1>1. last_sequence \in Nat /\ OpenSnapshots \subseteq 0 .. last_sequence
  BY DEF IInv, Written, Places, OpenSnapshots
<1>2. \A h \in Handles : snapshots[h] # NoSnapshot => snapshots[h] \in OpenSnapshots
  BY DEF OpenSnapshots
<1>3. CASE OpenSnapshots = {}
  BY <1>1, <1>2, <1>3 DEF SmallestSnapshot
<1>4. CASE OpenSnapshots # {}
  <2>1. OpenSnapshots \subseteq Nat
    BY <1>1
  <2>2. Min(OpenSnapshots) \in OpenSnapshots /\ \A k \in OpenSnapshots : Min(OpenSnapshots) <= k
    BY <1>4, <2>1, LeastInSet
  <2>3. SmallestSnapshot = Min(OpenSnapshots)
    BY <1>4 DEF SmallestSnapshot
  <2>4. SmallestSnapshot \in OpenSnapshots /\ \A k \in OpenSnapshots : SmallestSnapshot <= k
    BY <2>2, <2>3
  <2>5. SmallestSnapshot \in 0 .. last_sequence
    BY <1>1, <2>4
  <2>6. SmallestSnapshot \in Nat /\ SmallestSnapshot <= last_sequence
    BY <1>1, <2>5
  <2>7. QED
    BY <1>2, <2>4, <2>6
<1>5. QED
  BY <1>3, <1>4

LEMMA StartCompactionKeeps == ASSUME IInv, StartCompaction PROVE IInv'
<1>1. /\ UNCHANGED <<data, last_sequence, compact_pointer, snapshots, user, bg_error>>
      /\ compaction.stage = "picked"
      /\ compaction' = [compaction EXCEPT !.stage = "merging", !.smallest_snapshot = SmallestSnapshot]
  BY DEF StartCompaction
<1>2. CompactionOK(compaction) /\ Sealed(compaction.level, compaction.inputs[1], compaction.inputs[2])
  BY <1>1 DEF IInv, Compacting, NoCompaction
<1>3. SmallestSnapshot \in Nat /\ SmallestSnapshot <= last_sequence
  BY SmallestSnapshotBound
<1>4. UNCHANGED <<levels, last_sequence>>
  BY <1>1 DEF data
<1>5. /\ compaction'.level = compaction.level /\ compaction'.inputs = compaction.inputs
      /\ compaction'.grand = compaction.grand /\ compaction'.smallest_snapshot = SmallestSnapshot
      /\ compaction'.stage = "merging"
      /\ compaction' \in [stage : {"picked", "merging"}, level : Levels,
                          inputs : (SUBSET File) \X (SUBSET File), grand : SUBSET File, smallest_snapshot : Nat]
  BY <1>1, <1>2, <1>3 DEF CompactionOK
<1>6. CompactionOK(compaction)'
  BY <1>2, <1>3, <1>4, <1>5 DEF CompactionOK
<1>7. Sealed(compaction.level, compaction.inputs[1], compaction.inputs[2])'
  BY <1>2, <1>4, <1>5 DEF Sealed
<1>8. DataOK'
  BY <1>1, DataUnmoved DEF IInv, DataOK
<1>9. Places'
  BY <1>1 DEF IInv, Places
<1>10. QED
  BY <1>6, <1>7, <1>8, <1>9 DEF IInv, DataOK, Compacting

-----------------------------------------------------------------------------
(* What a compaction does to the levels.                                   *)

(* Sealed inputs may be replaced, one level down, by files that hold some  *)
(* of their entries and are disjoint.                                      *)
LEMMA MoveKeeps ==
  ASSUME DataOK, NEW l \in Levels, l + 1 \in Levels,
         NEW upper, NEW lower, upper \subseteq levels[l], lower \subseteq levels[l + 1],
         Sealed(l, upper, lower),
         NEW new, new \subseteq File, IsFiniteSet(new),
         \A f \in new : /\ Bounded_by(f) /\ f.number < next_file_number'
                        /\ f.entries \subseteq EntriesOf(upper \cup lower),
         \A f, g \in new : f # g => Before(f.largest, g.smallest) \/ Before(g.largest, f.smallest),
         levels' = [levels EXCEPT ![l] = @ \ upper, ![l + 1] = (@ \ lower) \cup new],
         next_file_number' \in Nat, next_file_number <= next_file_number',
         UNCHANGED <<mem, imm, last_sequence>>
  PROVE  DataOK'
<1>1. l \in Nat /\ l # l + 1 /\ l + 1 # 0 /\ Levels \subseteq Nat
  BY ConstantsAssumption DEF Levels, ConstantsAssumption
<1>2. /\ levels \in [Levels -> SUBSET File] /\ levels' \in [Levels -> SUBSET File]
      /\ levels'[l] = levels[l] \ upper /\ levels'[l + 1] = (levels[l + 1] \ lower) \cup new
      /\ \A p \in Levels : p # l /\ p # l + 1 => levels'[p] = levels[p]
  BY <1>1 DEF DataOK, Files
<1>13. 0 \in Levels
  BY ConstantsAssumption DEF Levels, ConstantsAssumption
<1> DEFINE In(e, p) == \E f \in levels[p] : e \in f.entries
<1>3. \A e \in EntriesOf(upper \cup lower) : e \in EntriesOf(upper) \/ e \in EntriesOf(lower)
  BY DEF EntriesOf
<1>4. /\ \A e \in EntriesOf(upper) : e \in EntriesOf(levels[l])
      /\ \A e \in EntriesOf(lower) : e \in EntriesOf(levels[l + 1])
  BY DEF EntriesOf
<1> HIDE DEF In
(* An entry of a level was in it, or comes from the one above.             *)
<1>5. ASSUME NEW p \in Levels, NEW e \in EntriesOf(levels'[p])
      PROVE  \/ e \in EntriesOf(levels[p]) /\ (p = l => e \in EntriesOf(levels[l] \ upper))
             \/ p = l + 1 /\ e \in EntriesOf(upper)
  <2>1. PICK f \in levels'[p] : e \in f.entries
    BY DEF EntriesOf
  <2>2. CASE p = l
    <3>1. f \in levels[l] /\ f \in levels[l] \ upper
      BY <1>2, <2>1, <2>2
    <3>2. QED
      BY <2>1, <2>2, <3>1 DEF EntriesOf
  <2>3. CASE p = l + 1
    <3>1. CASE f \in new
      BY <1>1, <1>3, <1>4, <2>1, <2>3, <3>1
    <3>2. CASE f \in levels[l + 1]
      BY <1>1, <2>1, <2>3, <3>2 DEF EntriesOf
    <3>3. QED
      BY <1>2, <2>1, <2>3, <3>1, <3>2
  <2>4. CASE p # l /\ p # l + 1
    BY <1>2, <2>1, <2>4 DEF EntriesOf
  <2>5. QED
    BY <2>2, <2>3, <2>4
<1>6. EntriesOf(AllFiles') \subseteq EntriesOf(AllFiles)
  <2>1. \A p \in Levels : EntriesOf(levels[p]) \subseteq EntriesOf(AllFiles)
    BY DEF EntriesOf, AllFiles
  <2>2. ASSUME NEW e \in EntriesOf(AllFiles') PROVE \E p \in Levels : e \in EntriesOf(levels'[p])
    <3>1. PICK f \in AllFiles' : e \in f.entries
      BY DEF EntriesOf
    <3>2. PICK p \in Levels : f \in levels'[p]
      BY DEF AllFiles
    <3>3. QED
      BY <3>1, <3>2 DEF EntriesOf
  <2>3. QED
    BY <1>4, <1>5, <2>1, <2>2
<1>7. Known' \subseteq Known
  BY <1>6 DEF Known
<1>8. Written'
  BY <1>7 DEF DataOK, Written, Distinct
<1>9. Files'
  <2>1. \A p \in Levels : IsFiniteSet(levels'[p])
    <3>1. IsFiniteSet(levels[l] \ upper) /\ IsFiniteSet((levels[l + 1] \ lower) \cup new)
      BY FS_Difference, FS_Union DEF DataOK, Files
    <3>2. QED
      BY <1>2, <3>1 DEF DataOK, Files
  <2>2. \A p \in Levels : \A f \in levels'[p] : Bounded_by(f) /\ f.number < next_file_number'
    <3>1. \A p \in Levels : \A f \in levels[p] : Bounded_by(f) /\ f.number < next_file_number'
      <4>1. \A p \in Levels : \A f \in levels[p] : f.number \in Nat /\ f.number < next_file_number
        BY <1>2 DEF DataOK, Files, File
      <4>2. next_file_number \in Nat
        BY DEF DataOK, Written
      <4>3. QED
        BY <4>1, <4>2 DEF DataOK, Files
    <3>2. \A p \in Levels : \A f \in levels'[p] : f \in levels[p] \/ f \in new
      BY <1>2
    <3>3. QED
      BY <3>1, <3>2
  <2>3. \A f, g \in levels'[0] : f.number = g.number => f = g
    <3>1. levels'[0] \subseteq levels[0]
      BY <1>1, <1>2, <1>13
    <3>2. QED
      BY <3>1 DEF DataOK, Files
  <2>4. Files' <=> /\ levels' \in [Levels -> SUBSET File]
                   /\ \A p \in Levels : IsFiniteSet(levels'[p])
                   /\ \A p \in Levels : \A f \in levels'[p] : Bounded_by(f) /\ f.number < next_file_number'
                   /\ \A f, g \in levels'[0] : f.number = g.number => f = g
    BY DEF Files, Bounded_by
  <2>5. QED
    BY <1>2, <2>1, <2>2, <2>3, <2>4
<1>10. LevelsDisjoint'
  <2>1. ASSUME NEW p \in Levels \ {0}, NEW f \in levels'[p], NEW g \in levels'[p], f # g
        PROVE  Before(f.largest, g.smallest) \/ Before(g.largest, f.smallest)
    <3>1. ASSUME NEW a \in levels[l + 1] \ lower, NEW b \in new
          PROVE  Before(a.largest, b.smallest) \/ Before(b.largest, a.smallest)
      <4>1. Bounded_by(a) /\ Bounded_by(b) /\ b.entries \subseteq EntriesOf(upper \cup lower)
        BY DEF DataOK, Files
      <4>2. \/ AllBefore(a.entries, EntriesOf(upper \cup lower))
            \/ AllBefore(EntriesOf(upper \cup lower), a.entries)
        BY DEF Sealed
      <4>3. QED
        BY <4>1, <4>2 DEF Bounded_by, AllBefore
    <3>2. CASE f \in levels[p] /\ g \in levels[p]
      BY <2>1, <3>2 DEF DataOK, LevelsDisjoint
    <3>3. CASE ~(f \in levels[p] /\ g \in levels[p])
      <4>1. p = l + 1 /\ f \in (levels[l + 1] \ lower) \cup new /\ g \in (levels[l + 1] \ lower) \cup new
        BY <1>2, <2>1, <3>3
      <4>2. CASE f \in new /\ g \in new
        BY <2>1, <4>2
      <4>3. QED
        BY <3>1, <3>3, <4>1, <4>2
    <3>4. QED
      BY <3>2, <3>3
  <2>2. QED
    BY <2>1 DEF LevelsDisjoint
<1>11. NewerAbove'
  <2>1. Newer(mem', imm') /\ Newer(mem' \cup imm', EntriesOf(AllFiles'))
    BY <1>6 DEF DataOK, NewerAbove, Newer
  <2>2. \A f, g \in levels'[0] : f.number > g.number => Newer(f.entries, g.entries)
    <3>1. levels'[0] \subseteq levels[0]
      BY <1>1, <1>2, <1>13
    <3>2. QED
      BY <3>1 DEF DataOK, NewerAbove
  <2>3. \A p, q \in Levels : p < q => Newer(EntriesOf(levels'[p]), EntriesOf(levels'[q]))
    <3>1. SUFFICES ASSUME NEW p \in Levels, NEW q \in Levels, p < q,
                          NEW d \in EntriesOf(levels'[p]), NEW e \in EntriesOf(levels'[q]), d.key = e.key
                   PROVE  d.seq > e.seq
      BY DEF Newer
    <3>2. ASSUME NEW a \in Levels, NEW b \in Levels, a < b,
                 d \in EntriesOf(levels[a]), e \in EntriesOf(levels[b])
          PROVE  d.seq > e.seq
      BY <3>1, <3>2 DEF DataOK, NewerAbove, Newer
    <3>3. p \in Nat /\ q \in Nat /\ p < q
      BY <1>1, <3>1
    <3>4. CASE p = l + 1 /\ d \in EntriesOf(upper)
      <4>1. d \in EntriesOf(levels[l]) /\ l < q /\ q # l + 1
        BY <1>1, <1>4, <3>3, <3>4
      <4>2. e \in EntriesOf(levels[q])
        BY <1>5, <4>1
      <4>3. QED
        BY <3>2, <4>1, <4>2
    <3>5. CASE d \in EntriesOf(levels[p]) /\ (p = l => d \in EntriesOf(levels[l] \ upper))
      <4>1. CASE e \in EntriesOf(levels[q])
        BY <3>2, <3>3, <3>5, <4>1
      <4>2. CASE q = l + 1 /\ e \in EntriesOf(upper)
        <5>1. CASE p = l
          <6>1. PICK f \in levels[l] \ upper : d \in f.entries
            BY <3>5, <5>1 DEF EntriesOf
          <6>2. QED
            BY <3>1, <4>2, <6>1 DEF Sealed, Newer
        <5>2. CASE p # l
          <6>1. p < l /\ e \in EntriesOf(levels[l])
            BY <1>1, <1>4, <3>3, <4>2, <5>2
          <6>2. QED
            BY <3>2, <3>5, <6>1
        <5>3. QED
          BY <5>1, <5>2
      <4>3. QED
        BY <1>5, <4>1, <4>2
    <3>6. QED
      BY <1>5, <3>4, <3>5
  <2>4. QED
    BY <2>1, <2>2, <2>3 DEF NewerAbove
<1>12. QED
  BY <1>8, <1>9, <1>10, <1>11 DEF DataOK

(* A file that is moved is the only one of the inputs.                     *)
LEMMA TrivialMoveKeeps == ASSUME IInv, TrivialMove PROVE IInv'
<1> DEFINE l == compaction.level
           upper == compaction.inputs[1]
<1>1. /\ compaction.stage = "picked" /\ Cardinality(upper) = 1 /\ compaction.inputs[2] = {}
      /\ levels' = [levels EXCEPT ![l] = @ \ upper, ![l + 1] = @ \cup upper]
      /\ compaction' = NoCompaction /\ bg_error' \in {FALSE, MayFail}
      /\ UNCHANGED <<mem, imm, next_file_number, last_sequence, compact_pointer, snapshots, user>>
  BY DEF TrivialMove, IsTrivialMove
<1>2. CompactionOK(compaction) /\ Sealed(l, upper, {})
  BY <1>1 DEF IInv, Compacting, NoCompaction
<1>3. l \in Levels /\ l + 1 \in Levels /\ upper \subseteq levels[l]
  BY <1>2 DEF CompactionOK
<1> HIDE DEF l, upper
<1>4. IsFiniteSet(upper)
  BY <1>3, FS_Subset DEF IInv, Files
<1>5. PICK f : upper = {f}
  BY <1>1, <1>4, FS_Singleton
<1>6. f \in levels[l] /\ f \in File
  BY <1>3, <1>5 DEF IInv, Files
<1>7. Bounded_by(f) /\ f.number < next_file_number /\ next_file_number \in Nat
      /\ next_file_number <= next_file_number
  BY <1>3, <1>6 DEF IInv, Files, Written
<1>8. levels' = [levels EXCEPT ![l] = @ \ upper, ![l + 1] = (@ \ {}) \cup upper]
  BY <1>1, <1>3 DEF IInv, Files
<1>9. f.entries \subseteq EntriesOf(upper \cup {})
  BY <1>5 DEF EntriesOf
<1>10. DataOK'
  <2>1. DataOK
    BY DEF IInv, DataOK
  <2>2. {} \subseteq levels[l + 1] /\ upper \subseteq File /\ next_file_number' \in Nat
        /\ next_file_number <= next_file_number'
    BY <1>1, <1>5, <1>6, <1>7
  <2>3. \A g \in upper : /\ Bounded_by(g) /\ g.number < next_file_number'
                         /\ g.entries \subseteq EntriesOf(upper \cup {})
    BY <1>1, <1>5, <1>7, <1>9
  <2>4. \A g, h \in upper : g # h => Before(g.largest, h.smallest) \/ Before(h.largest, g.smallest)
    BY <1>5
  <2>5. QED
    BY <1>1, <1>2, <1>3, <1>4, <1>8, <2>1, <2>2, <2>3, <2>4, MoveKeeps
<1>11. Places'
  BY <1>1, ConstantsAssumption DEF IInv, Places, ConstantsAssumption
<1>12. Compacting'
  BY <1>1 DEF Compacting
<1>13. QED
  BY <1>10, <1>11, <1>12 DEF IInv, DataOK

(* What the merge of the compaction under way writes.                      *)
LEMMA CompactionOutputs ==
  ASSUME DataOK, NEW c, CompactionOK(c)
  PROVE  /\ c.level \in Levels /\ c.inputs[1] \subseteq levels[c.level] /\ c.inputs[2] \subseteq levels[c.level + 1]
         /\ Input(c) \subseteq Known /\ Input(c) \subseteq EntriesOf(AllFiles)
         /\ Input(c) = EntriesOf(c.inputs[1]) \cup EntriesOf(c.inputs[2])
         /\ Outputs(c) \in Seq(SUBSET Input(c)) /\ Sorted(Outputs(c))
         /\ UnionOf(Outputs(c)) = {e \in Input(c) : ~Gone(c, e)}
<1>1. /\ c.level \in Levels /\ c.level + 1 \in Levels
      /\ c.inputs[1] \subseteq levels[c.level] /\ c.inputs[2] \subseteq levels[c.level + 1]
      /\ IsFiniteSet(EntriesOf(c.grand)) /\ c.smallest_snapshot \in Nat
  BY DEF CompactionOK
<1>2. c.inputs[1] \cup c.inputs[2] \subseteq AllFiles
  BY <1>1 DEF AllFiles
<1>3. Input(c) \subseteq EntriesOf(AllFiles)
  BY <1>2 DEF Input, EntriesOf
<1>4. Input(c) \subseteq Known
  BY <1>3 DEF Known
<1>5. Distinct(Input(c)) /\ IsFiniteSet(Input(c))
  BY <1>4, PartOfKnown DEF DataOK
<1>6. Input(c) = EntriesOf(c.inputs[1]) \cup EntriesOf(c.inputs[2])
  BY DEF Input, EntriesOf
<1>7. QED
  BY <1>1, <1>3, <1>4, <1>5, <1>6, MergeOutputs

LEMMA InstallKeeps == ASSUME IInv, InstallCompaction PROVE IInv'
<1> DEFINE c == compaction
           l == c.level
           upper == c.inputs[1]
           lower == c.inputs[2]
           outs == Outputs(c)
           new == {NewFile(next_file_number + i - 1, outs[i]) : i \in DOMAIN outs}
<1>1. /\ c.stage = "merging"
      /\ levels' = [levels EXCEPT ![l] = @ \ upper, ![l + 1] = (@ \ lower) \cup new]
      /\ next_file_number' = next_file_number + Len(outs)
      /\ compaction' = NoCompaction /\ bg_error' \in {FALSE, MayFail}
      /\ UNCHANGED <<mem, imm, last_sequence, compact_pointer, snapshots, user>>
  BY DEF InstallCompaction
<1>2. CompactionOK(c) /\ Sealed(l, upper, lower)
  BY <1>1 DEF IInv, Compacting, NoCompaction
<1>3. DataOK /\ next_file_number \in Nat
  BY DEF IInv, DataOK, Written
<1>4. /\ l \in Levels /\ l + 1 \in Levels /\ upper \subseteq levels[l] /\ lower \subseteq levels[l + 1]
      /\ Input(c) \subseteq Known
      /\ outs \in Seq(SUBSET Input(c)) /\ Sorted(outs)
  BY <1>2, <1>3, CompactionOutputs DEF CompactionOK
<1> HIDE DEF c, l, upper, lower, outs
<1>5. Len(outs) \in Nat /\ DOMAIN outs = 1 .. Len(outs) /\ \A i \in DOMAIN outs : outs[i] \subseteq Input(c)
  BY <1>4
<1>6. ASSUME NEW i \in DOMAIN outs
      PROVE  LET f == NewFile(next_file_number + i - 1, outs[i])
             IN  /\ f \in File /\ Bounded_by(f) /\ f.entries = outs[i]
                 /\ f.number < next_file_number'
                 /\ f.entries \subseteq EntriesOf(upper \cup lower)
  <2>1. next_file_number + i - 1 \in Nat /\ next_file_number + i - 1 < next_file_number'
    BY <1>1, <1>3, <1>5
  <2>2. outs[i] \subseteq Known /\ outs[i] # {} /\ outs[i] \subseteq EntriesOf(upper \cup lower)
    BY <1>4, <1>5 DEF Sorted, Input, upper, lower
  <2>3. LET f == NewFile(next_file_number + i - 1, outs[i])
        IN  f \in File /\ Bounded_by(f) /\ f.entries = outs[i] /\ f.number = next_file_number + i - 1
    BY <1>3, <2>1, <2>2, NewFileBounded DEF DataOK
  <2>4. QED
    BY <2>1, <2>2, <2>3
<1>7. \A f \in new : /\ f \in File /\ Bounded_by(f) /\ f.number < next_file_number'
                     /\ f.entries \subseteq EntriesOf(upper \cup lower)
  BY <1>6
<1>8. IsFiniteSet(new)
  <2> DEFINE g == [i \in DOMAIN outs |-> NewFile(next_file_number + i - 1, outs[i])]
  <2>1. DOMAIN g = DOMAIN outs /\ \A f \in new : \E i \in DOMAIN outs : f = g[i]
    OBVIOUS
  <2>2. IsFiniteSet(DOMAIN outs)
    BY <1>5, FS_Interval
  <2> HIDE DEF g, new
  <2>3. QED
    BY <2>1, <2>2, FiniteImage
<1>9. ASSUME NEW f \in new, NEW g \in new, f # g
      PROVE  Before(f.largest, g.smallest) \/ Before(g.largest, f.smallest)
  <2>1. PICK i \in DOMAIN outs : f = NewFile(next_file_number + i - 1, outs[i])
    OBVIOUS
  <2>2. PICK j \in DOMAIN outs : g = NewFile(next_file_number + j - 1, outs[j])
    OBVIOUS
  <2>3. /\ f.smallest \in outs[i] /\ f.largest \in outs[i]
        /\ g.smallest \in outs[j] /\ g.largest \in outs[j]
    BY <1>6, <2>1, <2>2 DEF Bounded_by
  <2>4. i < j \/ j < i
    BY <1>5, <1>9, <2>1, <2>2
  <2>5. AllBefore(outs[i], outs[j]) \/ AllBefore(outs[j], outs[i])
    BY <1>4, <2>4 DEF Sorted
  <2>6. QED
    BY <2>3, <2>5 DEF AllBefore
<1>10. new \subseteq File /\ next_file_number' \in Nat /\ next_file_number <= next_file_number'
  BY <1>1, <1>3, <1>5, <1>7
<1> HIDE DEF new
<1>11. DataOK'
  BY <1>1, <1>2, <1>3, <1>4, <1>7, <1>8, <1>9, <1>10, MoveKeeps
<1>12. Places'
  BY <1>1, ConstantsAssumption DEF IInv, Places, ConstantsAssumption
<1>13. Compacting'
  BY <1>1 DEF Compacting
<1>14. QED
  BY <1>11, <1>12, <1>13 DEF IInv, DataOK

(* Every step keeps the invariant.                                         *)
LEMMA Inductive == Spec => []IInv
<1>1. IInv /\ [Next]_vars => IInv'
  <2> SUFFICES ASSUME IInv, [Next]_vars PROVE IInv'
    OBVIOUS
  <2>1. CASE User
    BY <2>1, UserKeeps
  <2>2. CASE BackgroundFlush
    BY <2>2, BackgroundFlushKeeps
  <2>3. CASE BackgroundPick
    BY <2>3, PickKeeps
  <2>4. CASE TrivialMove
    BY <2>4, TrivialMoveKeeps
  <2>5. CASE StartCompaction
    BY <2>5, StartCompactionKeeps
  <2>6. CASE InstallCompaction
    BY <2>6, InstallKeeps
  <2>7. CASE BackgroundFails
    BY <2>7, BackgroundFailsKeeps
  <2>8. CASE Rest \/ UNCHANGED vars
    <3>1. UNCHANGED <<data, last_sequence, compaction, compact_pointer, snapshots, user, bg_error>>
      BY <2>8 DEF Rest, vars
    <3>2. Places'
      BY <3>1 DEF IInv, Places
    <3>3. QED
      BY <3>1, <3>2, StillKeeps
  <2>9. QED
    BY <2>1, <2>2, <2>3, <2>4, <2>5, <2>6, <2>7, <2>8 DEF Next, Background
<1>2. QED
  BY <1>1, InitHolds, PTL DEF Spec

(* The state of the tree is well formed: every file has entries and its    *)
(* number below the next, and the inputs of a compaction are files of the  *)
(* level it merges and of the one below.                                   *)
THEOREM TypeCorrect == Spec => []TypeOK
<1>1. IInv => TypeOK
  <2> SUFFICES ASSUME IInv PROVE TypeOK
    OBVIOUS
  <2>1. mem \in SUBSET Entry /\ imm \in SUBSET Entry
    BY DEF IInv, Written, Distinct, Known
  <2>2. \A l \in Levels : \A f \in levels[l] : f \in File /\ f.entries # {} /\ f.number < next_file_number
    BY DEF IInv, Files, Bounded_by
  <2>3. \A f \in AllFiles : f.number < next_file_number
    BY <2>2 DEF AllFiles
  <2>4. snapshots \in [Handles -> Nat \cup {NoSnapshot}]
    BY DEF IInv, Places, Written
  <2>5. compaction # NoCompaction =>
          /\ compaction.stage \in {"picked", "merging"} /\ compaction.level + 1 \in Levels
          /\ compaction.inputs[1] \subseteq levels[compaction.level]
          /\ compaction.inputs[2] \subseteq levels[compaction.level + 1]
    BY DEF IInv, Compacting, CompactionOK
  <2>6. /\ last_sequence \in Nat /\ next_file_number \in Nat
        /\ \A l \in Levels : compact_pointer[l] \in Entry \cup {NoKey}
        /\ user \in {"idle", "flush", "log"} /\ bg_error \in BOOLEAN
    BY DEF IInv, Written, Places
  <2>7. QED
    BY <2>1, <2>2, <2>3, <2>4, <2>5, <2>6 DEF TypeOK
<1>2. QED
  BY <1>1, Inductive, PTL

(* Below level 0 no two files of a level overlap, whatever was written,    *)
(* flushed and compacted, and however many entries a file may hold: the    *)
(* binary search of a lookup and the order of SaveTo are sound.            *)
THEOREM DisjointLevels == Spec => []LevelsDisjoint
<1>1. IInv => LevelsDisjoint
  BY DEF IInv
<1>2. QED
  BY <1>1, Inductive, PTL

(* Of a key, every place of a database that was never reopened holds newer *)
(* entries than those searched after it: Get may stop at the first hit.    *)
THEOREM NewestFirst == Spec => []NewerAbove
<1>1. IInv => NewerAbove
  BY DEF IInv
<1>2. QED
  BY <1>1, Inductive, PTL

-----------------------------------------------------------------------------
(* The tree implements the set of entries.                                 *)

(* An entry outside the inputs of a compaction is newer than all of them   *)
(* that have its key, or it is in a deeper level and older than they are.  *)
LEMMA OutsideInputs ==
  ASSUME IInv, compaction # NoCompaction,
         NEW e \in Input(compaction), NEW g \in Known, g.key = e.key,
         \/ g \in mem \cup imm
         \/ \E p \in Levels : \E f \in levels[p] :
              /\ g \in f.entries
              /\ ~(p = compaction.level /\ f \in compaction.inputs[1])
              /\ ~(p = compaction.level + 1 /\ f \in compaction.inputs[2])
  PROVE  \/ g.seq > e.seq
         \/ /\ g.seq < e.seq
            /\ \E p \in Levels : p >= compaction.level + 2 /\ \E f \in levels[p] : MayContain(f, e.key)
<1> DEFINE c == compaction
           l == c.level
           upper == c.inputs[1]
           lower == c.inputs[2]
<1>1. CompactionOK(c) /\ Sealed(l, upper, lower)
  BY DEF IInv, Compacting
<1>2. /\ l \in Levels /\ l + 1 \in Levels /\ upper \subseteq levels[l] /\ lower \subseteq levels[l + 1]
      /\ e \in EntriesOf(upper) \/ e \in EntriesOf(lower)
      /\ e \in EntriesOf(AllFiles) /\ e \in Known
  BY <1>1, CompactionOutputs DEF IInv, DataOK, CompactionOK
<1>3. \/ e \in EntriesOf(levels[l]) /\ e \in EntriesOf(upper)
      \/ e \in EntriesOf(levels[l + 1]) /\ e \in EntriesOf(lower)
  BY <1>2 DEF EntriesOf
<1>4. CASE g \in mem \cup imm
  BY <1>2, <1>4 DEF IInv, NewerAbove, Newer
<1>5. ASSUME NEW p \in Levels, NEW f \in levels[p], g \in f.entries,
             ~(p = l /\ f \in upper), ~(p = l + 1 /\ f \in lower)
      PROVE  \/ g.seq > e.seq
             \/ g.seq < e.seq /\ \E q \in Levels : q >= l + 2 /\ \E h \in levels[q] : MayContain(h, e.key)
  <2>1. g \in EntriesOf(levels[p])
    BY <1>5 DEF EntriesOf
  <2>2. p \in Nat /\ l \in Nat
    BY <1>2, ConstantsAssumption DEF Levels, ConstantsAssumption
  <2>3. \A a, b \in Levels : a < b => Newer(EntriesOf(levels[a]), EntriesOf(levels[b]))
    BY DEF IInv, NewerAbove
  <2>4. g.key = e.key
    OBVIOUS
  <2> HIDE DEF c, l, upper, lower
  <2>5. CASE p < l
    <3>1. p < l + 1
      BY <2>2, <2>5
    <3>2. QED
      BY <1>2, <1>3, <2>1, <2>3, <2>4, <2>5, <3>1 DEF Newer
  <2>6. CASE p = l
    <3>1. CASE e \in EntriesOf(upper)
      <4>1. Newer(f.entries, EntriesOf(upper))
        BY <1>1, <1>5, <2>6 DEF Sealed
      <4>2. QED
        BY <1>5, <2>4, <3>1, <4>1 DEF Newer
    <3>2. CASE e \in EntriesOf(levels[l + 1])
      <4>1. l < l + 1
        BY <2>2
      <4>2. QED
        BY <1>2, <2>1, <2>3, <2>4, <2>6, <3>2, <4>1 DEF Newer
    <3>3. QED
      BY <1>3, <3>1, <3>2
  <2>7. CASE p = l + 1
    <3>1. f \in levels[l + 1] \ lower
      BY <1>5, <2>7
    <3>2. e \notin EntriesOf(upper)
      BY <1>1, <1>5, <2>4, <3>1 DEF Sealed
    <3>3. Newer(f.entries, EntriesOf(lower)) /\ e \in EntriesOf(lower)
      BY <1>1, <1>3, <3>1, <3>2 DEF Sealed
    <3>4. QED
      BY <1>5, <2>4, <3>3 DEF Newer
  <2>8. CASE p >= l + 2
    <3>1. l < p /\ l + 1 < p
      BY <2>2, <2>8
    <3>2. e.seq > g.seq
      BY <1>2, <1>3, <2>1, <2>3, <2>4, <3>1 DEF Newer
    <3>3. e.seq \in Nat /\ g.seq \in Nat
      BY <1>2, KnownOrder DEF IInv
    <3>4. MayContain(f, e.key)
      BY <1>5, <2>4, FileRange DEF MayContain, IInv
    <3>5. QED
      BY <2>8, <3>2, <3>3, <3>4
  <2>9. QED
    BY <2>2, <2>5, <2>6, <2>7, <2>8
<1>6. QED
  BY <1>4, <1>5

(* Every known entry is an input, or outside.                              *)
LEMMA InOrOut ==
  ASSUME NEW g \in Known
  PROVE  \/ g \in Input(compaction)
         \/ g \in mem \cup imm
         \/ \E p \in Levels : \E f \in levels[p] :
              /\ g \in f.entries
              /\ ~(p = compaction.level /\ f \in compaction.inputs[1])
              /\ ~(p = compaction.level + 1 /\ f \in compaction.inputs[2])
<1>1. CASE g \in EntriesOf(AllFiles)
  <2>1. PICK p \in Levels : \E f \in levels[p] : g \in f.entries
    BY <1>1 DEF EntriesOf, AllFiles
  <2>2. PICK f \in levels[p] : g \in f.entries
    BY <2>1
  <2>3. f \in compaction.inputs[1] \cup compaction.inputs[2] => g \in Input(compaction)
    BY <2>2 DEF EntriesOf, Input
  <2>4. QED
    BY <2>2, <2>3
<1>2. QED
  BY <1>1 DEF Known

(* What the compaction under way drops, may go.                            *)
LEMMA GoneIsDroppable ==
  ASSUME IInv, compaction # NoCompaction
  PROVE  MV!Droppable({e \in Input(compaction) : Gone(compaction, e)})
<1> DEFINE c == compaction
           ss == c.smallest_snapshot
           dropped == {e \in Input(c) : Gone(c, e)}
           Seen(d) == {e \in Known : e.key = d.key /\ e.seq <= ss}
<1>1. CompactionOK(c) /\ ss \in Nat
  BY DEF IInv, Compacting, CompactionOK
<1>2. Input(c) \subseteq Known /\ \A e \in Known : e.seq \in Nat
  BY <1>1, CompactionOutputs, KnownOrder DEF IInv, DataOK
<1>3. SUFFICES ASSUME NEW d \in dropped
      PROVE  \E n \in Known :
               /\ n.key = d.key /\ n.seq <= ss
               /\ \A f \in Known : f.key = d.key /\ f.seq <= ss => f.seq <= n.seq
               /\ d.seq <= n.seq
               /\ n \in dropped => /\ ~n.live
                                   /\ \A e \in Known : e.key = d.key /\ e.seq < n.seq => e \in dropped
  BY DEF MV!Droppable, MV!Newest, Known
<1>4. d \in Input(c) /\ d \in Known /\ Gone(c, d)
  BY <1>2
<1>5. PICK w \in Known : w.key = d.key /\ w.seq <= ss /\ d.seq <= w.seq
  <2>1. CASE \E e \in Input(c) : e.key = d.key /\ e.seq > d.seq /\ e.seq <= ss
    BY <1>2, <1>4, <2>1
  <2>2. CASE ~d.live /\ d.seq <= ss
    BY <1>2, <1>4, <2>2
  <2>3. QED
    BY <1>4, <2>1, <2>2 DEF Gone
<1> DEFINE S == {e \in Known : e.key = d.key /\ e.seq <= ss}
           Seqs == {e.seq : e \in S}
<1>6. PICK n \in S : \A f \in S : f.seq <= n.seq
  <2>1. Seqs \subseteq Nat /\ Seqs # {}
    BY <1>2, <1>5
  <2>2. IsFiniteSet(Seqs)
    <3>1. Seqs \subseteq 0 .. ss
      BY <1>1, <1>2
    <3>2. IsFiniteSet(0 .. ss)
      BY <1>1, FS_Interval
    <3> HIDE DEF Seqs, ss
    <3>3. QED
      BY <3>1, <3>2, FS_Subset
  <2>3. Max(Seqs) \in Seqs /\ \A m \in Seqs : m <= Max(Seqs)
    <3> HIDE DEF Seqs
    <3>1. QED
      BY <2>1, <2>2, LargestInSet
  <2>4. QED
    BY <2>3
<1>7. /\ n \in Known /\ n.key = d.key /\ n.seq <= ss
      /\ \A f \in Known : f.key = d.key /\ f.seq <= ss => f.seq <= n.seq
  BY <1>6
<1>8. d.seq <= n.seq
  BY <1>2, <1>4, <1>5, <1>7
<1>9. ASSUME n \in dropped
      PROVE  ~n.live /\ \A e \in Known : e.key = d.key /\ e.seq < n.seq => e \in dropped
  <2>1. n \in Input(c) /\ Gone(c, n)
    BY <1>9
  <2>2. ~\E e \in Input(c) : e.key = n.key /\ e.seq > n.seq /\ e.seq <= ss
    BY <1>2, <1>7
  <2>3. ~n.live /\ IsBaseLevelForKey(c, n.key)
    BY <2>1, <2>2 DEF Gone
  <2>4. ASSUME NEW e \in Known, e.key = d.key, e.seq < n.seq, e \notin Input(c) PROVE FALSE
    <3>1. e.seq \in Nat /\ n.seq \in Nat /\ e.key = n.key
      BY <1>2, <1>7, <2>4
    <3>2. \/ e \in mem \cup imm
          \/ \E p \in Levels : \E f \in levels[p] :
               /\ e \in f.entries /\ ~(p = c.level /\ f \in c.inputs[1])
               /\ ~(p = c.level + 1 /\ f \in c.inputs[2])
      BY <2>4, InOrOut
    <3>3. \/ e.seq > n.seq
          \/ \E p \in Levels : p >= c.level + 2 /\ \E f \in levels[p] : MayContain(f, n.key)
      BY <2>1, <3>1, <3>2, OutsideInputs
    <3>4. QED
      BY <2>3, <2>4, <3>1, <3>3 DEF IsBaseLevelForKey
  <2>5. ASSUME NEW e \in Known, e.key = d.key, e.seq < n.seq PROVE e \in dropped
    <3>1. e \in Input(c)
      BY <2>4, <2>5
    <3>2. Gone(c, e)
      <4>1. n.key = e.key /\ n.seq > e.seq /\ n.seq <= ss
        BY <1>2, <1>7, <2>5
      <4>2. QED
        BY <2>1, <4>1 DEF Gone
    <3>3. QED
      BY <3>1, <3>2
  <2>6. QED
    BY <2>3, <2>5
<1>10. QED
  <2> HIDE DEF dropped, ss
  <2>1. QED
    BY <1>7, <1>8, <1>9

(* Installing it drops just that.                                          *)
LEMMA InstallDrops ==
  ASSUME IInv, InstallCompaction
  PROVE  Known' = Known \ {e \in Input(compaction) : Gone(compaction, e)}
<1> DEFINE c == compaction
           l == c.level
           upper == c.inputs[1]
           lower == c.inputs[2]
           outs == Outputs(c)
           new == {NewFile(next_file_number + i - 1, outs[i]) : i \in DOMAIN outs}
           dropped == {e \in Input(c) : Gone(c, e)}
           Out(g) == \/ g \in mem \cup imm
                     \/ \E p \in Levels : \E f \in levels[p] :
                          /\ g \in f.entries /\ ~(p = l /\ f \in upper) /\ ~(p = l + 1 /\ f \in lower)
<1>1. /\ c.stage = "merging"
      /\ levels' = [levels EXCEPT ![l] = @ \ upper, ![l + 1] = (@ \ lower) \cup new]
      /\ UNCHANGED <<mem, imm>>
  BY DEF InstallCompaction
<1>2. c # NoCompaction /\ CompactionOK(c)
  BY <1>1 DEF IInv, Compacting, NoCompaction
<1>3. /\ l \in Levels /\ l + 1 \in Levels
      /\ Input(c) \subseteq Known
      /\ outs \in Seq(SUBSET Input(c)) /\ UnionOf(outs) = {e \in Input(c) : ~Gone(c, e)}
  BY <1>2, CompactionOutputs DEF IInv, DataOK, CompactionOK
<1>4. EntriesOf(new) = UnionOf(outs)
  <2>1. \A i \in DOMAIN outs : NewFile(next_file_number + i - 1, outs[i]).entries = outs[i]
    BY DEF NewFile
  <2> HIDE DEF outs
  <2>2. \A e \in EntriesOf(new) : e \in UnionOf(outs)
    BY <2>1 DEF EntriesOf, UnionOf
  <2>3. \A e \in UnionOf(outs) : e \in EntriesOf(new)
    <3>1. SUFFICES ASSUME NEW i \in DOMAIN outs, NEW e \in outs[i] PROVE e \in EntriesOf(new)
      BY DEF UnionOf
    <3>2. NewFile(next_file_number + i - 1, outs[i]) \in new
      OBVIOUS
    <3>3. QED
      BY <2>1, <3>2 DEF EntriesOf
  <2>4. QED
    BY <2>2, <2>3
<1>5. /\ l \in Nat /\ l # l + 1
      /\ levels'[l] = levels[l] \ upper /\ levels'[l + 1] = (levels[l + 1] \ lower) \cup new
      /\ \A p \in Levels : p # l /\ p # l + 1 => levels'[p] = levels[p]
  BY <1>1, <1>3, ConstantsAssumption DEF IInv, Files, Levels, ConstantsAssumption
<1> HIDE DEF c, l, upper, lower, outs, new
<1>6. ASSUME NEW g \in Known' PROVE Out(g) \/ g \in UnionOf(outs)
  <2>1. CASE g \in mem \cup imm
    BY <2>1
  <2>2. CASE g \in EntriesOf(AllFiles')
    <3>1. PICK f \in AllFiles' : g \in f.entries
      BY <2>2 DEF EntriesOf
    <3>2. PICK p \in Levels : f \in levels'[p]
      BY DEF AllFiles
    <3>3. CASE f \in new
      BY <1>4, <3>1, <3>3 DEF EntriesOf
    <3>4. CASE f \notin new
      <4>1. f \in levels[p] /\ ~(p = l /\ f \in upper) /\ ~(p = l + 1 /\ f \in lower)
        BY <1>5, <3>2, <3>4
      <4>2. QED
        BY <3>1, <4>1
    <3>5. QED
      BY <3>3, <3>4
  <2>3. QED
    BY <1>1, <2>1, <2>2 DEF Known
<1>7. ASSUME NEW g, Out(g) \/ g \in UnionOf(outs) PROVE g \in Known'
  <2>1. CASE g \in mem \cup imm
    BY <1>1, <2>1 DEF Known
  <2>2. ASSUME NEW p \in Levels, NEW f \in levels[p], g \in f.entries,
               ~(p = l /\ f \in upper), ~(p = l + 1 /\ f \in lower)
        PROVE  g \in Known'
    <3>1. f \in levels'[p]
      BY <1>5, <2>2
    <3>2. QED
      BY <2>2, <3>1 DEF Known, EntriesOf, AllFiles
  <2>3. CASE g \in UnionOf(outs)
    <3>1. PICK f \in new : g \in f.entries
      BY <1>4, <2>3 DEF EntriesOf
    <3>2. f \in levels'[l + 1]
      BY <1>5
    <3>3. QED
      BY <1>3, <3>1, <3>2 DEF Known, EntriesOf, AllFiles
  <2>4. QED
    BY <1>7, <2>1, <2>2, <2>3
<1>8. ASSUME NEW g, Out(g) PROVE g \in Known /\ g \notin Input(c)
  <2>1. g \in Known
    BY <1>8 DEF Known, EntriesOf, AllFiles
  <2>2. ASSUME g \in Input(c) PROVE FALSE
    <3>1. g.seq \in Nat
      BY <2>1, KnownOrder DEF IInv
    <3>2. g.seq > g.seq \/ g.seq < g.seq
      BY <1>2, <1>8, <2>1, <2>2, OutsideInputs DEF c, l, upper, lower
    <3>3. QED
      BY <3>1, <3>2
  <2>3. QED
    BY <2>1, <2>2
<1>9. \A g \in Known : g \in Input(c) \/ Out(g)
  BY InOrOut DEF c, l, upper, lower
<1> HIDE DEF Out
<1>10. Known' = Known \ dropped
  BY <1>3, <1>6, <1>7, <1>8, <1>9
<1>11. QED
  BY <1>10 DEF c

(* A file that is moved takes its entries with it.                         *)
LEMMA MoveDropsNothing == ASSUME IInv, TrivialMove PROVE Known' = Known
<1> DEFINE l == compaction.level
           upper == compaction.inputs[1]
<1>1. /\ levels' = [levels EXCEPT ![l] = @ \ upper, ![l + 1] = @ \cup upper]
      /\ UNCHANGED <<mem, imm>> /\ compaction.stage = "picked"
  BY DEF TrivialMove
<1>2. l \in Levels /\ l + 1 \in Levels /\ l # l + 1 /\ upper \subseteq levels[l]
  BY <1>1, ConstantsAssumption DEF IInv, Compacting, CompactionOK, NoCompaction, Levels, ConstantsAssumption
<1> HIDE DEF l, upper
<1>3. /\ levels'[l] = levels[l] \ upper /\ levels'[l + 1] = levels[l + 1] \cup upper
      /\ \A p \in Levels : p # l /\ p # l + 1 => levels'[p] = levels[p]
  BY <1>1, <1>2 DEF IInv, Files
<1>4. ASSUME NEW p \in Levels, NEW f \in levels'[p] PROVE \E q \in Levels : f \in levels[q]
  BY <1>2, <1>3
<1>5. ASSUME NEW p \in Levels, NEW f \in levels[p] PROVE \E q \in Levels : f \in levels'[q]
  BY <1>2, <1>3
<1>6. AllFiles' = AllFiles
  <2>1. \A f \in AllFiles' : f \in AllFiles
    BY <1>4 DEF AllFiles
  <2>2. \A f \in AllFiles : f \in AllFiles'
    BY <1>5 DEF AllFiles
  <2>3. QED
    BY <2>1, <2>2
<1>7. QED
  BY <1>1, <1>6 DEF Known

(* What MVStore sees of the tree, besides the entries.                     *)
Views   == [h \in Handles |-> SnapshotsOf(h)]
Horizon == IF compaction = NoCompaction THEN 0 ELSE compaction.smallest_snapshot

(* Steps that neither write nor drop an entry.                             *)
LEMMA MVStutters ==
  ASSUME Known' = Known, UNCHANGED <<last_sequence, snapshots>>, Horizon' = Horizon
  PROVE  UNCHANGED MV!vars
<1>1. UNCHANGED Views
  BY DEF Views, SnapshotsOf
<1>2. MV!vars = <<Known, last_sequence, Views, Horizon>>
  BY DEF MV!vars, Known, Views, Horizon
<1>3. MV!vars' = <<Known', last_sequence', Views', Horizon'>>
  BY DEF MV!vars, Known, Views, Horizon
<1>4. QED
  BY <1>1, <1>2, <1>3

LEMMA UserRefines == ASSUME IInv, User PROVE MV!Next \/ UNCHANGED MV!vars
<1>1. CASE MakeRoom
  <2>1. Known' = Known /\ UNCHANGED <<last_sequence, snapshots, compaction>>
    BY <1>1 DEF MakeRoom, Known, AllFiles
  <2>2. QED
    BY <2>1, MVStutters DEF Horizon
<1>2. CASE UserFlush
  <2>1. Known' = Known /\ UNCHANGED <<last_sequence, snapshots, compaction>>
    BY <1>2, FlushKeeps DEF UserFlush
  <2>2. QED
    BY <2>1, MVStutters DEF Horizon
<1>3. CASE WriteFails
  <2>1. Known' = Known /\ UNCHANGED <<last_sequence, snapshots, compaction>>
    BY <1>3 DEF WriteFails, data, Known, AllFiles
  <2>2. QED
    BY <2>1, MVStutters DEF Horizon
<1>4. ASSUME NEW op \in [key : Keys, live : BOOLEAN], Write(op) PROVE MV!Next
  <2> DEFINE new == [key |-> op.key, seq |-> last_sequence + 1, live |-> op.live]
  <2>1. /\ mem' = mem \cup {new} /\ last_sequence' = last_sequence + 1
        /\ UNCHANGED <<imm, levels, snapshots, compaction>>
    BY <1>4 DEF Write
  <2>2. Known' = Known \cup {new}
    BY <2>1 DEF Known, AllFiles
  <2>3. Views' = Views /\ Horizon' = Horizon
    BY <2>1 DEF Views, SnapshotsOf, Horizon
  <2>4. MV!Write(op.key, op.live)
    BY <2>1, <2>2, <2>3 DEF MV!Write, Known, Views, Horizon
  <2>5. op.key \in Keys /\ op.live \in BOOLEAN
    OBVIOUS
  <2>6. QED
    BY <2>4, <2>5 DEF MV!Next
<1>5. ASSUME NEW h \in Handles, GetSnapshot(h) PROVE MV!Next
  <2>1. /\ snapshots[h] = NoSnapshot /\ snapshots' = [snapshots EXCEPT ![h] = last_sequence]
        /\ UNCHANGED <<mem, imm, levels, last_sequence, compaction>>
    BY <1>5 DEF GetSnapshot, data
  <2>2. Known' = Known /\ Horizon' = Horizon
    BY <2>1 DEF Known, AllFiles, Horizon
  <2>3. last_sequence # NoSnapshot
    BY ConstantsAssumption DEF IInv, Written, ConstantsAssumption
  <2>4. Views[h] = {} /\ Views' = [Views EXCEPT ![h] = {last_sequence}]
    BY <2>1, <2>3 DEF Views, SnapshotsOf, IInv, Places
  <2>5. MV!GetSnapshot(h)
    BY <2>1, <2>2, <2>4 DEF MV!GetSnapshot, Known, Views, Horizon
  <2>6. QED
    BY <2>5 DEF MV!Next
<1>6. ASSUME NEW h \in Handles, ReleaseSnapshot(h) PROVE MV!Next
  <2>1. /\ snapshots[h] # NoSnapshot /\ snapshots' = [snapshots EXCEPT ![h] = NoSnapshot]
        /\ UNCHANGED <<mem, imm, levels, last_sequence, compaction>>
    BY <1>6 DEF ReleaseSnapshot, data
  <2>2. Known' = Known /\ Horizon' = Horizon
    BY <2>1 DEF Known, AllFiles, Horizon
  <2>3. Views[h] # {} /\ Views' = [Views EXCEPT ![h] = {}]
    <3>1. Views[h] = {snapshots[h]} \ {NoSnapshot}
      BY DEF Views, SnapshotsOf
    <3>2. Views[h] # {}
      BY <2>1, <3>1
    <3>3. \A g \in Handles : {snapshots'[g]} \ {NoSnapshot} = IF g = h THEN {} ELSE {snapshots[g]} \ {NoSnapshot}
      BY <2>1 DEF IInv, Places
    <3>4. Views' = [Views EXCEPT ![h] = {}]
      BY <3>3 DEF Views, SnapshotsOf
    <3>5. QED
      BY <3>2, <3>4
  <2>4. MV!ReleaseSnapshot(h)
    BY <2>1, <2>2, <2>3 DEF MV!ReleaseSnapshot, Known, Views, Horizon
  <2>5. QED
    BY <2>4 DEF MV!Next
<1>7. QED
  BY <1>1, <1>2, <1>3, <1>4, <1>5, <1>6 DEF User

LEMMA BackgroundRefines == ASSUME IInv, Background PROVE MV!Next \/ UNCHANGED MV!vars
<1>1. compaction # NoCompaction =>
        /\ CompactionOK(compaction) /\ compaction.smallest_snapshot \in Nat
        /\ compaction.stage = "picked" => compaction.smallest_snapshot = 0
  BY DEF IInv, Compacting, CompactionOK
<1>2. CASE BackgroundFlush
  <2>1. Known' = Known /\ UNCHANGED <<last_sequence, snapshots, compaction>>
    BY <1>2, FlushKeeps DEF BackgroundFlush
  <2>2. QED
    BY <2>1, MVStutters DEF Horizon
<1>3. CASE BackgroundPick
  <2>1. Known' = Known /\ UNCHANGED <<last_sequence, snapshots>>
    BY <1>3 DEF BackgroundPick, data, Known, AllFiles
  <2>2. compaction = NoCompaction /\ compaction'.smallest_snapshot = 0
    BY <1>3 DEF BackgroundPick, Idle, PickCompaction
  <2>3. Horizon' = Horizon
    BY <2>2 DEF Horizon
  <2>4. QED
    BY <2>1, <2>3, MVStutters
<1>4. CASE TrivialMove
  <2>1. Known' = Known /\ UNCHANGED <<last_sequence, snapshots>>
    BY <1>4, MoveDropsNothing DEF TrivialMove
  <2>2. compaction.stage = "picked" /\ compaction # NoCompaction /\ compaction' = NoCompaction
    BY <1>4 DEF TrivialMove, NoCompaction
  <2>3. Horizon' = Horizon
    BY <1>1, <2>2 DEF Horizon
  <2>4. QED
    BY <2>1, <2>3, MVStutters
<1>5. CASE StartCompaction
  <2>1. /\ UNCHANGED <<mem, imm, levels, last_sequence, snapshots>>
        /\ compaction.stage = "picked"
        /\ compaction' = [compaction EXCEPT !.stage = "merging", !.smallest_snapshot = SmallestSnapshot]
    BY <1>5 DEF StartCompaction, data
  <2>2. compaction # NoCompaction
    BY <2>1 DEF NoCompaction
  <2>3. compaction'.smallest_snapshot = SmallestSnapshot /\ compaction'.stage = "merging"
    BY <1>1, <2>1, <2>2 DEF CompactionOK
  <2>4. Horizon' = SmallestSnapshot
    BY <2>3 DEF Horizon, NoCompaction
  <2>5. Known' = Known /\ Views' = Views
    BY <2>1 DEF Known, AllFiles, Views, SnapshotsOf
  <2>6. SmallestSnapshot \in 0 .. last_sequence
    BY SmallestSnapshotBound DEF IInv, Written
  <2>7. \A h \in Handles : \A t \in Views[h] : SmallestSnapshot <= t
    BY SmallestSnapshotBound DEF Views, SnapshotsOf
  <2>8. MV!StartCompaction(SmallestSnapshot)
    BY <2>1, <2>4, <2>5, <2>7 DEF MV!StartCompaction, Known, Views, Horizon
  <2>9. QED
    BY <2>6, <2>8 DEF MV!Next
<1>6. CASE InstallCompaction
  <2> DEFINE dropped == {e \in Input(compaction) : Gone(compaction, e)}
  <2>1. compaction # NoCompaction /\ compaction' = NoCompaction /\ UNCHANGED <<last_sequence, snapshots>>
    BY <1>6 DEF InstallCompaction, NoCompaction
  <2>2. MV!Droppable(dropped) /\ Known' = Known \ dropped
    BY <1>6, <2>1, GoneIsDroppable, InstallDrops
  <2>3. dropped \subseteq Known
    BY <1>1, <2>1, CompactionOutputs DEF IInv, DataOK
  <2>4. Horizon' = 0 /\ Views' = Views
    BY <2>1 DEF Horizon, Views, SnapshotsOf
  <2> HIDE DEF dropped
  <2>5. MV!EndCompaction(dropped)
    BY <2>1, <2>2, <2>4 DEF MV!EndCompaction, Known, Views, Horizon
  <2>6. QED
    BY <2>3, <2>5 DEF MV!Next, Known
<1>7. CASE BackgroundFails
  <2>1. compaction' = NoCompaction /\ UNCHANGED <<last_sequence, snapshots, mem, imm, levels>>
    BY <1>7 DEF BackgroundFails, data
  <2>2. Known' = Known \ {} /\ Horizon' = 0 /\ Views' = Views
    BY <2>1 DEF Known, AllFiles, Horizon, Views, SnapshotsOf
  <2>3. MV!Droppable({})
    BY DEF MV!Droppable
  <2>4. MV!EndCompaction({})
    BY <2>1, <2>2, <2>3 DEF MV!EndCompaction, Known, Views, Horizon
  <2>5. QED
    BY <2>4 DEF MV!Next
<1>8. QED
  BY <1>2, <1>3, <1>4, <1>5, <1>6, <1>7 DEF Background

(* The tree implements the set of versioned entries: wherever flushes and  *)
(* compactions put them, an entry goes only when a newer one hides it from *)
(* every reader there is or will be, or as a deletion together with all it *)
(* hides.  With MVImplementsKV, reads and iterators then answer as the map *)
(* that KVStore describes does.                                            *)
THEOREM TreeImplementsMV == Spec => ImplementsMV
<1>1. Init => MV!Init
  <2> SUFFICES ASSUME Init PROVE MV!Init
    OBVIOUS
  <2>1. EntriesOf(AllFiles) = {}
    BY DEF Init, AllFiles, EntriesOf
  <2>2. [h \in Handles |-> SnapshotsOf(h)] = [h \in Handles |-> {}]
    BY DEF Init, SnapshotsOf
  <2>3. QED
    BY <2>1, <2>2 DEF Init, MV!Init
<1>2. IInv /\ [Next]_vars => [MV!Next]_(MV!vars)
  <2> SUFFICES ASSUME IInv, [Next]_vars PROVE MV!Next \/ UNCHANGED MV!vars
    OBVIOUS
  <2>1. CASE Rest \/ UNCHANGED vars
    <3>1. UNCHANGED <<mem, imm, levels, last_sequence, snapshots, compaction>>
      BY <2>1 DEF Rest, vars, data
    <3>2. Known' = Known /\ Horizon' = Horizon
      BY <3>1 DEF Known, AllFiles, Horizon
    <3>3. QED
      BY <3>1, <3>2, MVStutters
  <2>2. QED
    BY <2>1, UserRefines, BackgroundRefines DEF Next
<1>3. QED
  BY <1>1, <1>2, Inductive, PTL DEF Spec, ImplementsMV, MV!Spec

-----------------------------------------------------------------------------
(* MVStore implements the map: whatever a compaction may drop, and however *)
(* old its horizon, no reader sees a difference.                           *)

(* Every entry was written, by one write each; the horizon is behind every *)
(* open snapshot.                                                          *)
MVInv ==
  /\ last_sequence \in Nat
  /\ Known \subseteq [key : Keys, seq : 1 .. last_sequence, live : BOOLEAN]
  /\ \A e, f \in Known : e.seq = f.seq => e = f
  /\ Views \in [Handles -> SUBSET (0 .. last_sequence)]
  /\ Horizon \in 0 .. last_sequence
  /\ \A h \in Handles : \A s \in Views[h] : Horizon <= s

(* Every step keeps the invariant: a write takes a new sequence number, a  *)
(* snapshot the latest, and a horizon is behind the snapshots there are.   *)
LEMMA MVInductive == MV!Spec => []MVInv
<1>1. MV!Init => MVInv
  BY DEF Known, Views, Horizon, MV!Init, MVInv
<1>2. MVInv /\ [MV!Next]_(MV!vars) => MVInv'
  <2>1. SUFFICES ASSUME MVInv, [MV!Next]_(MV!vars) PROVE MVInv'
    OBVIOUS
  <2>2. ASSUME NEW k \in Keys, NEW live \in BOOLEAN, MV!Write(k, live) PROVE MVInv'
    <3>1. (/\ last_sequence \in Nat
           /\ Known \subseteq [key : Keys, seq : 1 .. last_sequence, live : BOOLEAN]
           /\ Views \in [Handles -> SUBSET (0 .. last_sequence)]
           /\ Horizon \in 0 .. last_sequence
           /\ \A h \in Handles : \A s \in Views[h] : Horizon <= s)'
      BY <2>1, <2>2 DEF Known, Views, Horizon, MVInv, MV!Write
    <3>2. (\A e, f \in Known : e.seq = f.seq => e = f)'
      <4>1. \A e \in Known : e.seq < last_sequence + 1
        BY <2>1 DEF MVInv
      <4>2. QED
        BY <2>1, <2>2, <4>1 DEF Known, Views, Horizon, MVInv, MV!Write
    <3>3. QED
      BY <3>1, <3>2 DEF MVInv
  <2>3. ASSUME NEW h \in Handles, MV!GetSnapshot(h) \/ MV!ReleaseSnapshot(h) PROVE MVInv'
    <3>1. /\ Views' = [Views EXCEPT ![h] = {last_sequence}]
             \/ Views' = [Views EXCEPT ![h] = {}]
          /\ Known' = Known /\ last_sequence' = last_sequence /\ Horizon' = Horizon
      BY <2>3 DEF Known, Views, Horizon, MV!GetSnapshot, MV!ReleaseSnapshot
    <3>2. QED
      BY <2>1, <3>1 DEF MVInv
  <2>4. ASSUME NEW s \in 0 .. last_sequence, MV!StartCompaction(s) PROVE MVInv'
    BY <2>1, <2>4 DEF Known, Views, Horizon, MVInv, MV!StartCompaction
  <2>5. ASSUME NEW dropped \in SUBSET Known, MV!EndCompaction(dropped) PROVE MVInv'
    BY <2>1, <2>5 DEF Known, Views, Horizon, MVInv, MV!EndCompaction
  <2>6. CASE UNCHANGED MV!vars
    BY <2>1, <2>6 DEF Known, Views, Horizon, MVInv, MV!vars
  <2>7. QED
    BY <2>1, <2>2, <2>3, <2>4, <2>5, <2>6 DEF Known, Views, Horizon, MV!Next
<1>3. QED
  BY <1>1, <1>2, PTL DEF MV!Spec

(* A compaction changes the reading at no sequence number from its         *)
(* horizon on.                                                             *)
LEMMA MVCompactionUnseen ==
  ASSUME MVInv, NEW dropped \in SUBSET Known, MV!EndCompaction(dropped),
         NEW k, NEW s \in Nat, Horizon <= s
  PROVE  MV!Reading(k, s)' = MV!Reading(k, s)
<1>1. /\ Horizon \in Nat /\ last_sequence \in Nat
      /\ \A e \in Known : e.seq \in Nat
      /\ \A e, f \in Known : e.seq = f.seq => e = f
      /\ MV!Droppable(dropped) /\ Known' = Known \ dropped
  BY DEF Known, Views, Horizon, MVInv, MV!EndCompaction
<1>2. ASSUME NEW e \in MV!Visible(k, s) PROVE e \in MV!Visible(k, s)'
  <2>1. e \in Known /\ e.key = k /\ e.seq <= s /\ e.live
        /\ \A f \in Known : f.key = k /\ f.seq <= s => f.seq <= e.seq
    BY <1>2 DEF Known, Views, Horizon, MV!Visible, MV!Newest
  <2>2. e \notin dropped
    <3>1. SUFFICES ASSUME e \in dropped PROVE FALSE
      OBVIOUS
    <3>2. PICK n \in MV!Newest(k, Horizon) : e.seq <= n.seq /\ (n \in dropped => ~n.live)
      BY <1>1, <2>1, <3>1 DEF Known, Views, Horizon, MV!Droppable
    <3>3. n \in Known /\ n.key = k /\ n.seq <= Horizon
      BY <3>2 DEF Known, Views, Horizon, MV!Newest
    <3>4. n.seq <= e.seq
      BY <1>1, <2>1, <3>3
    <3>5. n = e
      BY <1>1, <2>1, <3>2, <3>3, <3>4
    <3>6. QED
      BY <2>1, <3>1, <3>2, <3>5
  <2>3. QED
    BY <1>1, <2>1, <2>2 DEF Known, Views, Horizon, MV!Visible, MV!Newest
<1>3. ASSUME NEW e \in MV!Visible(k, s)' PROVE e \in MV!Visible(k, s)
  <2>1. e \in Known /\ e \notin dropped /\ e.key = k /\ e.seq <= s /\ e.live
        /\ \A f \in Known \ dropped : f.key = k /\ f.seq <= s => f.seq <= e.seq
    BY <1>1, <1>3 DEF Known, Views, Horizon, MV!Visible, MV!Newest
  <2>2. ASSUME NEW f \in Known, f.key = k, f.seq <= s, ~(f.seq <= e.seq) PROVE FALSE
    <3>1. f \in dropped
      BY <2>1, <2>2
    <3>2. PICK n \in MV!Newest(k, Horizon) :
            /\ f.seq <= n.seq
            /\ n \in dropped => \A g \in Known : g.key = k /\ g.seq < n.seq => g \in dropped
      BY <1>1, <2>2, <3>1 DEF Known, Views, Horizon, MV!Droppable
    <3>3. n \in Known /\ n.key = k /\ n.seq <= s /\ e.seq < n.seq
      BY <1>1, <2>1, <2>2, <3>2 DEF Known, Views, Horizon, MV!Newest
    <3>4. CASE n \in dropped
      BY <2>1, <3>2, <3>3, <3>4
    <3>5. CASE n \notin dropped
      BY <1>1, <2>1, <3>3, <3>5
    <3>6. QED
      BY <3>4, <3>5
  <2>3. QED
    BY <2>1, <2>2 DEF Known, Views, Horizon, MV!Visible, MV!Newest
<1>4. MV!Visible(k, s)' = MV!Visible(k, s)
  BY <1>2, <1>3
<1>5. QED
  BY <1>4 DEF MV!Reading

(* A write changes no reading of the past.                                 *)
LEMMA MVWriteUnseen ==
  ASSUME MVInv, NEW key \in Keys, NEW live \in BOOLEAN, MV!Write(key, live),
         NEW k, NEW s \in 0 .. last_sequence
  PROVE  MV!Reading(k, s)' = MV!Reading(k, s)
<1> DEFINE new == [key |-> key, seq |-> last_sequence + 1, live |-> live]
<1>1. /\ last_sequence \in Nat /\ Known' = Known \cup {new} /\ ~(new.seq <= s)
      /\ \A e \in Known : e.seq \in Nat
  BY DEF Known, Views, Horizon, MVInv, MV!Write
<1> HIDE DEF new
<1>2. MV!Newest(k, s)' = MV!Newest(k, s)
  BY <1>1 DEF Known, Views, Horizon, MV!Newest
<1>3. QED
  BY <1>2 DEF Known, Views, Horizon, MV!Reading, MV!Visible

(* In the present a write changes the reading of its own key only.         *)
LEMMA MVWriteReads ==
  ASSUME MVInv, NEW key \in Keys, NEW live \in BOOLEAN, MV!Write(key, live),
         NEW k, NEW n, n = last_sequence + 1
  PROVE  MV!Reading(k, n)' = IF k # key THEN MV!Reading(k, last_sequence)
                          ELSE IF live THEN n ELSE 0
<1> DEFINE new == [key |-> key, seq |-> n, live |-> live]
<1>1. /\ last_sequence \in Nat /\ Known' = Known \cup {new}
      /\ \A e \in Known : e.seq \in Nat /\ e.seq <= last_sequence
      /\ new.key = key /\ new.seq = n /\ new.live = live
  BY DEF Known, Views, Horizon, MVInv, MV!Write
<1> HIDE DEF new
<1>2. CASE k # key
  <2>1. MV!Newest(k, n)' = MV!Newest(k, last_sequence)
    BY <1>1, <1>2 DEF Known, Views, Horizon, MV!Newest
  <2>2. MV!Visible(k, n)' = MV!Visible(k, last_sequence)
    BY <2>1 DEF Known, Views, Horizon, MV!Visible
  <2>3. QED
    BY <1>2, <2>2 DEF MV!Reading
<1>3. CASE k = key
  <2>1. MV!Newest(k, n)' = {new}
    BY <1>1, <1>3 DEF Known, Views, Horizon, MV!Newest
  <2>2. live => MV!Visible(k, n)' = {new}
    BY <1>1, <2>1 DEF Known, Views, Horizon, MV!Visible
  <2>3. ~live => MV!Visible(k, n)' = {}
    BY <1>1, <2>1 DEF Known, Views, Horizon, MV!Visible
  <2>4. QED
    BY <1>1, <1>3, <2>2, <2>3 DEF MV!Reading, MV!Value
<1>4. QED
  BY <1>2, <1>3

(* The map and the views, as ImplementsKV takes them.              *)
MVRead == [k \in Keys |-> MV!Reading(k, last_sequence)]
MVShown == [h \in Handles |-> {[k \in Keys |-> MV!Reading(k, s)] : s \in Views[h]}]

(* The views of the snapshots, when no reading of theirs changes.          *)
LEMMA MVShownKept ==
  ASSUME MVInv, UNCHANGED Views,
         \A h \in Handles : \A s \in Views[h] : \A k \in Keys : MV!Reading(k, s)' = MV!Reading(k, s)
  PROVE  MVShown' = MVShown
<1>1. ASSUME NEW h \in Handles, NEW s \in Views[h]
      PROVE  [k \in Keys |-> MV!Reading(k, s)]' = [k \in Keys |-> MV!Reading(k, s)]
  BY <1>1
<1>2. ASSUME NEW h \in Handles
      PROVE  {[k \in Keys |-> MV!Reading(k, s)] : s \in Views[h]}'
               = {[k \in Keys |-> MV!Reading(k, s)] : s \in Views[h]}
  BY <1>1, <1>2
<1>3. QED
  BY <1>2 DEF MVShown

(* Every step is a step of the map, or none.                               *)
LEMMA MVStepRefines ==
  ASSUME MVInv, [MV!Next]_(MV!vars)
  PROVE  [MV!KV!Next]_(MV!KV!vars)
<1> USE DEF Known, Views, Horizon, MV!KV!Next, MV!KV!vars, MV!KV!Put, MV!KV!Delete, MV!KV!GetSnapshot, MV!KV!ReleaseSnapshot
<1> DEFINE Step == [MV!KV!Next]_(MV!KV!vars)
<1>1. ASSUME NEW key \in Keys, NEW live \in BOOLEAN, MV!Write(key, live) PROVE Step
  <2>1. MVRead' = [MVRead EXCEPT ![key] = IF live THEN last_sequence + 1 ELSE 0]
    <3>1. last_sequence' = last_sequence + 1
      BY <1>1 DEF Known, Views, Horizon, MV!Write
    <3>2. \A k \in Keys : MVRead'[k] = IF k # key THEN MVRead[k] ELSE IF live THEN last_sequence + 1 ELSE 0
      BY <1>1, <3>1, MVWriteReads DEF MVRead
    <3>3. MVRead' = [k \in Keys |-> MVRead'[k]] /\ MVRead = [k \in Keys |-> MVRead[k]]
      BY DEF MVRead
    <3>4. QED
      BY <3>2, <3>3
  <2>2. MVShown' = MVShown
    BY <1>1, MVWriteUnseen, MVShownKept DEF Known, Views, Horizon, MV!Write, MVInv
  <2>3. QED
    BY <1>1, <2>1, <2>2 DEF Known, Views, Horizon, MV!Write, MVRead, MVShown
<1>2. ASSUME NEW h \in Handles, MV!GetSnapshot(h) PROVE Step
  <2>1. \A k, s : MV!Reading(k, s)' = MV!Reading(k, s)
    BY <1>2 DEF Known, Views, Horizon, MV!GetSnapshot, MV!Reading, MV!Visible, MV!Newest
  <2>2. last_sequence' = last_sequence /\ MVRead' = MVRead
    BY <1>2, <2>1 DEF Known, Views, Horizon, MV!GetSnapshot, MVRead
  <2>3. Views' = [Views EXCEPT ![h] = {last_sequence}] /\ Views[h] = {}
    BY <1>2 DEF Known, Views, Horizon, MV!GetSnapshot
  <2>4. MVShown[h] = {} /\ MVShown' = [MVShown EXCEPT ![h] = {MVRead}]
    <3>1. Views \in [Handles -> SUBSET (0 .. last_sequence)]
      BY DEF MVInv
    <3>2. \A g \in Handles : MVShown'[g] = {[k \in Keys |-> MV!Reading(k, s)] : s \in Views'[g]}
      BY <2>1 DEF MVShown
    <3>3. \A g \in Handles \ {h} : Views'[g] = Views[g]
      BY <2>3, <3>1
    <3>4. Views'[h] = {last_sequence}
      BY <2>3, <3>1
    <3>5. \A g \in Handles : MVShown'[g] = IF g = h THEN {MVRead} ELSE MVShown[g]
      BY <3>2, <3>3, <3>4 DEF MVShown, MVRead
    <3>6. MVShown' = [g \in Handles |-> MVShown'[g]] /\ MVShown = [g \in Handles |-> MVShown[g]]
      BY DEF MVShown
    <3>7. MVShown[h] = {}
      BY <2>3 DEF MVShown
    <3>8. QED
      BY <3>5, <3>6, <3>7
  <2>5. QED
    BY <2>2, <2>4 DEF MVRead, MVShown
<1>3. ASSUME NEW h \in Handles, MV!ReleaseSnapshot(h) PROVE Step
  <2>1. \A k, s : MV!Reading(k, s)' = MV!Reading(k, s)
    BY <1>3 DEF Known, Views, Horizon, MV!ReleaseSnapshot, MV!Reading, MV!Visible, MV!Newest
  <2>2. last_sequence' = last_sequence /\ MVRead' = MVRead
    BY <1>3, <2>1 DEF Known, Views, Horizon, MV!ReleaseSnapshot, MVRead
  <2>3. Views' = [Views EXCEPT ![h] = {}] /\ Views[h] # {}
    BY <1>3 DEF Known, Views, Horizon, MV!ReleaseSnapshot
  <2>4. MVShown[h] # {} /\ MVShown' = [MVShown EXCEPT ![h] = {}]
    <3>1. Views \in [Handles -> SUBSET (0 .. last_sequence)]
      BY DEF MVInv
    <3>2. \A g \in Handles : MVShown'[g] = {[k \in Keys |-> MV!Reading(k, s)] : s \in Views'[g]}
      BY <2>1 DEF MVShown
    <3>3. \A g \in Handles \ {h} : Views'[g] = Views[g]
      BY <2>3, <3>1
    <3>4. Views'[h] = {}
      BY <2>3, <3>1
    <3>5. \A g \in Handles : MVShown'[g] = IF g = h THEN {} ELSE MVShown[g]
      BY <3>2, <3>3, <3>4 DEF MVShown
    <3>6. MVShown' = [g \in Handles |-> MVShown'[g]] /\ MVShown = [g \in Handles |-> MVShown[g]]
      BY DEF MVShown
    <3>7. MVShown[h] # {}
      <4>1. PICK s \in Views[h] : TRUE
        BY <2>3
      <4>2. [k \in Keys |-> MV!Reading(k, s)] \in MVShown[h]
        BY <4>1 DEF MVShown
      <4>3. QED
        BY <4>2
    <3>8. QED
      BY <3>5, <3>6, <3>7
  <2>5. QED
    BY <2>2, <2>4 DEF MVRead, MVShown
<1>4. ASSUME UNCHANGED <<Known, last_sequence, Views>> PROVE Step
  <2>1. \A k, s : MV!Reading(k, s)' = MV!Reading(k, s)
    BY <1>4 DEF Known, Views, Horizon, MV!Reading, MV!Visible, MV!Newest
  <2>2. MVRead' = MVRead
    BY <1>4, <2>1 DEF MVRead
  <2>3. MVShown' = MVShown
    BY <1>4, <2>1, MVShownKept
  <2>4. QED
    BY <1>4, <2>2, <2>3 DEF MVRead, MVShown
<1>5. ASSUME NEW dropped \in SUBSET Known, MV!EndCompaction(dropped) PROVE Step
  <2>1. \A k : \A s \in Nat : Horizon <= s => MV!Reading(k, s)' = MV!Reading(k, s)
    BY <1>5, MVCompactionUnseen
  <2>2. last_sequence \in Nat /\ Horizon <= last_sequence /\ Horizon \in Nat
    BY DEF MVInv
  <2>3. last_sequence' = last_sequence /\ Views' = Views
    BY <1>5 DEF Known, Views, Horizon, MV!EndCompaction
  <2>4. MVRead' = MVRead
    BY <2>1, <2>2, <2>3 DEF MVRead
  <2>5. MVShown' = MVShown
    BY <2>1, <2>2, <2>3, MVShownKept DEF MVInv
  <2>6. QED
    BY <2>3, <2>4, <2>5 DEF MVRead, MVShown
<1>6. QED
  BY <1>1, <1>2, <1>3, <1>4, <1>5 DEF Known, Views, Horizon, MV!Next, MV!StartCompaction, MV!vars

(* DoCompactionWork may drop whatever Droppable allows, between any writes *)
(* and snapshots: if the entries, wherever they are, change by the rules   *)
(* of MVStore, then what they show at the last sequence number and at      *)
(* every open snapshot is the map and the views that KVStore promises, for *)
(* any keys, any number of snapshots and any history.                      *)
THEOREM MVImplementsKV == MV!Spec => MV!ImplementsKV
<1>1. MV!Init => MV!KV!Init
  <2>1. ASSUME MV!Init, NEW k PROVE MV!Reading(k, 0) = 0
    BY <2>1 DEF Known, Views, Horizon, MV!Init, MV!Reading, MV!Value, MV!Visible, MV!Newest
  <2>2. QED
    BY <2>1 DEF Known, Views, Horizon, MV!Init, MV!KV!Init
<1>2. MVInv /\ [MV!Next]_(MV!vars) => [MV!KV!Next]_(MV!KV!vars)
  BY MVStepRefines
<1>3. QED
  BY <1>1, <1>2, MVInductive, PTL DEF Known, Views, Horizon, MV!Spec, MV!ImplementsKV, MV!KV!Spec

-----------------------------------------------------------------------------
(* What a reader finds.                                                    *)

(* A place decides what is read at a sequence number, if it holds an entry *)
(* the reader may see and all other entries of the key are older.          *)
LEMMA PlaceDecides ==
  ASSUME Written, NEW P, P \subseteq Known, NEW key, NEW seq, seq \in Nat,
         Upto(P, key, seq) # {},
         \A g \in Known \ P, d \in P : g.key = key /\ d.key = key => d.seq > g.seq
  PROVE  Value(Upto(P, key, seq)) = MV!Reading(key, seq)
<1> DEFINE S == Upto(P, key, seq)
           a == FirstOf(S)
<1>1. S \subseteq Known /\ \A e \in S : e \in P /\ e.key = key /\ e.seq <= seq
  BY DEF Upto
<1>2. \A e \in Known : e.key \in Nat /\ e.seq \in Nat
  BY KnownOrder
<1>3. a \in S /\ \A e \in S : e = a \/ Before(a, e)
  <2>1. S # {}
    OBVIOUS
  <2> HIDE DEF S
  <2>2. QED
    BY <1>1, <2>1, PartOfKnown, First, ConstantsAssumption
<1> HIDE DEF a
<1>4. \A e \in S : e = a \/ e.seq < a.seq
  BY <1>1, <1>2, <1>3 DEF Before
<1>5. \A e \in Known : e.key = key /\ e.seq <= seq => e = a \/ e.seq < a.seq
  <2>1. SUFFICES ASSUME NEW e \in Known, e.key = key, e.seq <= seq PROVE e = a \/ e.seq < a.seq
    OBVIOUS
  <2>2. CASE e \in P
    BY <1>4, <2>1, <2>2 DEF Upto
  <2>3. CASE e \notin P
    BY <1>1, <1>2, <1>3, <2>1, <2>3
  <2>4. QED
    BY <2>2, <2>3
<1>6. a \in Known /\ a.key = key /\ a.seq <= seq /\ a.seq \in Nat
  BY <1>1, <1>2, <1>3
<1>7. MV!Newest(key, seq) = {a}
  <2>1. MV!Newest(key, seq) = {e \in Known : /\ e.key = key /\ e.seq <= seq
                                            /\ \A f \in Known : f.key = key /\ f.seq <= seq => f.seq <= e.seq}
    BY DEF MV!Newest, Known
  <2>2. \A e \in Known : e.seq \in Nat
    BY <1>2
  <2>3. QED
    BY <1>5, <1>6, <2>1, <2>2
<1>8. MV!Visible(key, seq) = IF a.live THEN {a} ELSE {}
  BY <1>7 DEF MV!Visible
<1>9. MV!Reading(key, seq) = IF a.live THEN a.seq ELSE 0
  BY <1>8 DEF MV!Reading, MV!Value
<1>10. Value(S) = IF a.live THEN a.seq ELSE 0
  BY DEF Value, a
<1>11. QED
  BY <1>9, <1>10

(* There is nothing to read.                                               *)
LEMMA NothingDecides ==
  ASSUME NEW key, NEW seq, Upto(Known, key, seq) = {}
  PROVE  Value({}) = MV!Reading(key, seq)
<1>1. MV!Newest(key, seq) = {}
  BY DEF MV!Newest, Upto, Known
<1>2. MV!Reading(key, seq) = 0
  BY <1>1 DEF MV!Reading, MV!Visible, MV!Value
<1>3. QED
  BY <1>2 DEF Value

(* An iterator finds the newest entry, at any sequence number.             *)
LEMMA ScanReads ==
  ASSUME Written, NEW key, NEW seq \in Nat
  PROVE  Scan(key, seq) = MV!Reading(key, seq)
<1>1. Scan(key, seq) = Value(Upto(Known, key, seq))
  BY DEF Scan, Known
<1>2. CASE Upto(Known, key, seq) = {}
  BY <1>1, <1>2, NothingDecides
<1>3. CASE Upto(Known, key, seq) # {}
  BY <1>1, <1>3, PlaceDecides
<1>4. QED
  BY <1>2, <1>3

(* Binary search finds, below level 0, the file with the newest entry of a *)
(* key that the level has.                                                 *)
LEMMA FindDecides ==
  ASSUME IInv, NEW m \in Levels \ {0}, NEW key, NEW h \in levels[m], NEW e \in h.entries, e.key = key
  PROVE  \E f \in levels[m] :
           /\ FindFileInLevel(m, key) = {f} /\ MayContain(f, key)
           /\ \E d \in f.entries : d.key = key
           /\ \A g \in levels[m] : g # f =>
                \A a \in g.entries, d \in f.entries : a.key = key /\ d.key = key => d.seq > a.seq
<1> DEFINE after == {f \in levels[m] : key <= f.largest.key}
<1>1. /\ Written /\ Files /\ LevelsDisjoint /\ NewerAbove
      /\ \A f \in levels[m] : /\ f.smallest \in Known /\ f.largest \in Known /\ f.entries \subseteq Known
                              /\ f.smallest \in f.entries /\ f.largest \in f.entries
                              /\ \A d \in f.entries : f.smallest.key <= d.key /\ d.key <= f.largest.key
                              /\ f.smallest.key \in Nat /\ f.largest.key \in Nat
  BY FileRange DEF IInv
<1>2. key \in Nat /\ h \in after /\ h.smallest.key <= key
  BY <1>1, KnownOrder
<1>3. PICK f \in after : \A g \in after : g = f \/ FileOrder(f, g)
  <2>1. after \subseteq levels[m] /\ after # {}
    BY <1>2
  <2> HIDE DEF after
  <2>2. QED
    BY <1>1, <2>1, FirstFile
<1>4. \A g \in after : g # f => ~FileOrder(g, f)
  BY <1>1, <1>3, KnownOrder DEF FileOrder
<1>5. \A g \in after : g # f => AllBefore(f.entries, g.entries) /\ Before(f.largest, g.smallest)
  <2>1. SUFFICES ASSUME NEW g \in after, g # f
                 PROVE  AllBefore(f.entries, g.entries) /\ Before(f.largest, g.smallest)
    OBVIOUS
  <2>2. f \in levels[m] /\ g \in levels[m]
    OBVIOUS
  <2>3. ~Before(g.largest, f.smallest)
    <3>1. SUFFICES ASSUME Before(g.largest, f.smallest) PROVE FALSE
      OBVIOUS
    <3>2. AllBefore(g.entries, f.entries)
      BY <1>1, <2>1, <2>2, <3>1, LevelOrder
    <3>3. Before(g.smallest, f.smallest)
      BY <1>1, <2>2, <3>2 DEF AllBefore
    <3>4. QED
      BY <1>4, <2>1, <3>3 DEF FileOrder
  <2>4. QED
    BY <1>1, <2>1, <2>2, <2>3, LevelOrder
<1>6. MayContain(f, key) /\ \E d \in f.entries : d.key = key
  <2>1. CASE f = h
    BY <1>1, <1>2, <2>1 DEF MayContain
  <2>2. CASE f # h
    <3>1. Before(f.largest, h.smallest)
      BY <1>2, <1>5, <2>2
    <3>2. f.largest.key <= h.smallest.key
      BY <1>1, <3>1, KnownOrder
    <3>3. f.largest.key = key
      BY <1>1, <1>2, <3>2
    <3>4. QED
      BY <1>1, <1>2, <3>3 DEF MayContain
  <2>3. QED
    BY <2>1, <2>2
<1>7. FindFileInLevel(m, key) = {f}
  <2>1. FindFileInLevel(m, key) = {g \in after : MayContain(g, key) /\ \A k \in after : k = g \/ FileOrder(g, k)}
    BY DEF FindFileInLevel
  <2>2. QED
    BY <1>3, <1>4, <1>6, <2>1
<1>8. ASSUME NEW g \in levels[m], g # f, NEW a \in g.entries, NEW d \in f.entries, a.key = key, d.key = key
      PROVE  d.seq > a.seq
  <2>1. g \in after
    BY <1>1, <1>8
  <2>2. Before(d, a)
    BY <1>5, <1>8, <2>1 DEF AllBefore
  <2>3. d.key = a.key /\ d.key \in Nat
    BY <1>2, <1>8
  <2>4. QED
    BY <2>2, <2>3 DEF Before
<1>9. QED
  BY <1>3, <1>6, <1>7, <1>8

(* A place of the current Version and what is searched after it.           *)
LEMMA LevelDecides ==
  ASSUME IInv, NEW key, NEW l \in Levels, NEW f \in levels[l], \E d \in f.entries : d.key = key,
         \A g \in mem \cup imm : g.key # key,
         \A p \in Levels : \A h \in levels[p] : \A g \in h.entries :
           p < l => g.key # key,
         \A h \in levels[l] : h # f => \A a \in h.entries, d \in f.entries :
           a.key = key /\ d.key = key => d.seq > a.seq
  PROVE  Value(Upto(f.entries, key, last_sequence)) = MV!Reading(key, last_sequence)
<1>1. /\ Written /\ last_sequence \in Nat /\ f.entries \subseteq Known
      /\ \A e \in Known : e.seq <= last_sequence
  BY FileRange DEF IInv, Written
<1>2. Upto(f.entries, key, last_sequence) # {}
  BY <1>1 DEF Upto
<1>3. ASSUME NEW g \in Known \ f.entries, NEW d \in f.entries, g.key = key, d.key = key
      PROVE  d.seq > g.seq
  <2>1. PICK p \in Levels : \E h \in levels[p] : g \in h.entries
    BY <1>3 DEF Known, EntriesOf, AllFiles
  <2>2. PICK h \in levels[p] : g \in h.entries
    BY <2>1
  <2>3. p \in Nat /\ l \in Nat
    BY ConstantsAssumption DEF Levels, ConstantsAssumption
  <2>4. CASE p = l
    BY <1>3, <2>2, <2>4
  <2>5. CASE l < p
    <3>1. d \in EntriesOf(levels[l]) /\ g \in EntriesOf(levels[p])
      BY <2>2 DEF EntriesOf
    <3>2. Newer(EntriesOf(levels[l]), EntriesOf(levels[p]))
      BY <2>5 DEF IInv, NewerAbove
    <3>3. QED
      BY <1>3, <3>1, <3>2 DEF Newer
  <2>6. CASE p < l
    BY <1>3, <2>2, <2>6
  <2>7. QED
    BY <2>3, <2>4, <2>5, <2>6
<1>4. QED
  BY <1>1, <1>2, <1>3, PlaceDecides

(* Version::Get finds the newest entry of a key neither memtable holds, at *)
(* the last sequence number.                                               *)
LEMMA VersionReads ==
  ASSUME IInv, NEW key, \A g \in mem \cup imm : g.key # key
  PROVE  Value(Upto(VersionGet(key, last_sequence), key, last_sequence)) = MV!Reading(key, last_sequence)
<1> DEFINE s == last_sequence
           Hits(files) == {f \in files : MayContain(f, key) /\ Upto(f.entries, key, s) # {}}
           zero == Hits(levels[0])
           deep == {l \in Levels \ {0} : Hits(FindFileInLevel(l, key)) # {}}
<1>1. /\ Written /\ Files /\ s \in Nat /\ 0 \in Levels /\ Levels \subseteq Nat
      /\ \A e \in Known : e.seq <= s
  BY ConstantsAssumption DEF IInv, Written, Levels, ConstantsAssumption
<1>2. \A l \in Levels : \A f \in levels[l] : \A e \in f.entries : e.key = key =>
        MayContain(f, key) /\ Upto(f.entries, key, s) # {}
  <2>1. SUFFICES ASSUME NEW l \in Levels, NEW f \in levels[l], NEW e \in f.entries, e.key = key
                 PROVE  MayContain(f, key) /\ Upto(f.entries, key, s) # {}
    OBVIOUS
  <2>2. e \in Known
    BY <1>1, FileRange
  <2>3. QED
    BY <1>1, <2>1, <2>2, FileRange DEF MayContain, Upto
<1>3. \A l \in Levels : \A f \in levels[l] : Upto(f.entries, key, s) # {} => \E d \in f.entries : d.key = key
  BY DEF Upto
<1> HIDE DEF s
<1>4. CASE zero # {}
  <2> DEFINE Numbers == {f.number : f \in zero}
  <2>1. \A f \in levels[0] : f.number \in Nat
    BY <1>1 DEF Files, File
  <2>2. PICK f \in zero : \A g \in zero : f.number >= g.number
    <3>1. Numbers \subseteq Nat /\ Numbers # {}
      BY <1>4, <2>1
    <3>2. IsFiniteSet(zero)
      BY <1>1, FS_Subset DEF Files
    <3> DEFINE n == [f \in zero |-> f.number]
    <3>3. DOMAIN n = zero /\ \A y \in Numbers : \E f \in zero : y = n[f]
      OBVIOUS
    <3>4. IsFiniteSet(Numbers)
      <4> HIDE DEF n, Numbers, zero
      <4>1. QED
        BY <3>2, <3>3, FiniteImage
    <3>5. Max(Numbers) \in Numbers /\ \A k \in Numbers : k <= Max(Numbers)
      <4> HIDE DEF Numbers
      <4>1. QED
        BY <3>1, <3>4, LargestInSet
    <3>6. PICK f \in zero : f.number = Max(Numbers)
      BY <3>5
    <3>7. \A g \in zero : g.number \in Nat /\ g.number <= f.number
      BY <2>1, <3>5, <3>6
    <3>8. QED
      BY <2>1, <3>7
  <2>3. NewestFile(zero) = {f}
    <3>1. \A g \in zero : g.number >= f.number => g = f
      <4>1. \A g \in zero : g.number \in Nat /\ f.number \in Nat /\ g \in levels[0] /\ f \in levels[0]
        BY <2>1
      <4>2. QED
        BY <1>1, <2>2, <4>1 DEF Files
    <3> HIDE DEF zero
    <3>2. QED
      BY <2>2, <3>1 DEF NewestFile
  <2>4. VersionGet(key, s) = f.entries
    <3>1. VersionGet(key, s) = EntriesOf(NewestFile(zero))
      BY <1>4 DEF VersionGet
    <3> HIDE DEF zero
    <3>2. QED
      BY <2>3, <3>1 DEF EntriesOf
  <2>5. f \in levels[0] /\ \E d \in f.entries : d.key = key
    BY <1>1, <1>3
  <2>6. ASSUME NEW h \in levels[0], h # f, NEW a \in h.entries, NEW d \in f.entries, a.key = key, d.key = key
        PROVE  d.seq > a.seq
    <3>1. h \in zero
      BY <1>1, <1>2, <2>6
    <3>2. h.number \in Nat /\ f.number \in Nat /\ h.number # f.number
      BY <1>1, <2>1, <2>5, <2>6 DEF Files
    <3>3. f.number > h.number
      BY <2>2, <3>1, <3>2
    <3>4. QED
      BY <2>5, <2>6, <3>3 DEF IInv, NewerAbove, Newer
  <2>7. \A p \in Levels : ~(p < 0)
    BY ConstantsAssumption DEF Levels, ConstantsAssumption
  <2>8. Value(Upto(f.entries, key, s)) = MV!Reading(key, s)
    BY <1>1, <2>5, <2>6, <2>7, LevelDecides DEF s
  <2>9. QED
    BY <2>4, <2>8 DEF s
<1>5. ASSUME zero = {}, NEW p \in Levels, NEW h \in levels[p], NEW g \in h.entries, g.key = key
      PROVE  p \in deep
  <2>1. p # 0
    BY <1>2, <1>5
  <2>2. PICK f \in levels[p] : FindFileInLevel(p, key) = {f} /\ \E d \in f.entries : d.key = key
    BY <1>5, <2>1, FindDecides
  <2>3. f \in Hits(FindFileInLevel(p, key))
    BY <1>2, <2>2
  <2>4. QED
    BY <2>1, <2>3
<1>6. CASE zero = {} /\ deep # {}
  <2> DEFINE l == Min(deep)
  <2>1. l \in deep /\ \A p \in deep : l <= p
    <3>1. deep \subseteq Nat /\ deep # {}
      BY <1>1, <1>6
    <3> HIDE DEF deep
    <3>2. QED
      BY <3>1, LeastInSet
  <2>2. VersionGet(key, s) = EntriesOf(FindFileInLevel(l, key))
    BY <1>6 DEF VersionGet
  <2> HIDE DEF l
  <2>3. l \in Levels \ {0}
    BY <2>1
  <2>4. PICK h \in FindFileInLevel(l, key) : Upto(h.entries, key, s) # {}
    BY <2>1
  <2>5. h \in levels[l] /\ \E d \in h.entries : d.key = key
    BY <1>3, <2>3, <2>4 DEF FindFileInLevel
  <2>6. PICK f \in levels[l] :
           /\ FindFileInLevel(l, key) = {f}
           /\ \E d \in f.entries : d.key = key
           /\ \A g \in levels[l] : g # f =>
                \A a \in g.entries, d \in f.entries : a.key = key /\ d.key = key => d.seq > a.seq
    BY <2>3, <2>5, FindDecides
  <2>7. VersionGet(key, s) = f.entries
    BY <2>2, <2>6 DEF EntriesOf
  <2>8. ASSUME NEW p \in Levels, NEW a \in levels[p], NEW g \in a.entries, p < l PROVE g.key # key
    <3>1. SUFFICES ASSUME g.key = key PROVE FALSE
      OBVIOUS
    <3>2. p \in deep
      BY <1>5, <1>6, <3>1
    <3>3. l <= p /\ l \in Nat /\ p \in Nat
      BY <1>1, <2>1, <2>3, <3>2
    <3>4. QED
      BY <2>8, <3>3
  <2>9. Value(Upto(f.entries, key, s)) = MV!Reading(key, s)
    BY <1>1, <2>3, <2>6, <2>8, LevelDecides DEF s
  <2>10. QED
    BY <2>7, <2>9 DEF s
<1>7. CASE zero = {} /\ deep = {}
  <2>1. VersionGet(key, s) = {}
    BY <1>7 DEF VersionGet
  <2>2. \A g \in Known : g.key # key
    <3>1. SUFFICES ASSUME NEW g \in Known, g.key = key PROVE FALSE
      OBVIOUS
    <3>2. PICK p \in Levels : \E h \in levels[p] : g \in h.entries
      BY <3>1 DEF Known, EntriesOf, AllFiles
    <3>3. p \in deep
      BY <1>5, <1>7, <3>1, <3>2
    <3> HIDE DEF deep
    <3>4. QED
      BY <1>7, <3>3
  <2>3. Upto(Known, key, s) = {} /\ Upto({}, key, s) = {}
    BY <2>2 DEF Upto
  <2>4. QED
    BY <2>1, <2>3, NothingDecides DEF s
<1>8. QED
  BY <1>4, <1>6, <1>7

(* Get finds the newest entry of a key, at the last sequence number.       *)
LEMMA GetReads ==
  ASSUME IInv, NEW key
  PROVE  Get(key, last_sequence) = MV!Reading(key, last_sequence)
<1> DEFINE s == last_sequence
           Seek(S) == Value(Upto(S, key, s))
<1>1. /\ Written /\ s \in Nat /\ mem \subseteq Known /\ imm \subseteq Known
      /\ \A e \in Known : e.seq <= s
  BY DEF IInv, Written, Known
<1>2. CASE Upto(mem, key, s) # {}
  <2>1. Get(key, s) = Seek(mem)
    BY <1>2 DEF Get
  <2>2. \A g \in Known \ mem, d \in mem : g.key = key /\ d.key = key => d.seq > g.seq
    BY DEF Known, IInv, NewerAbove, Newer
  <2> HIDE DEF s
  <2>3. QED
    BY <1>1, <1>2, <2>1, <2>2, PlaceDecides DEF s
<1>3. CASE Upto(mem, key, s) = {} /\ Upto(imm, key, s) # {}
  <2>1. Get(key, s) = Seek(imm)
    BY <1>3 DEF Get
  <2>2. \A g \in mem : g.key # key
    BY <1>1, <1>3 DEF Upto
  <2>3. \A g \in Known \ imm, d \in imm : g.key = key /\ d.key = key => d.seq > g.seq
    BY <2>2 DEF Known, IInv, NewerAbove, Newer
  <2> HIDE DEF s
  <2>4. QED
    BY <1>1, <1>3, <2>1, <2>3, PlaceDecides DEF s
<1>4. CASE Upto(mem, key, s) = {} /\ Upto(imm, key, s) = {}
  <2>1. Get(key, s) = Seek(VersionGet(key, s))
    BY <1>4 DEF Get
  <2>2. \A g \in mem \cup imm : g.key # key
    BY <1>1, <1>4 DEF Upto
  <2>3. QED
    BY <2>1, <2>2, VersionReads
<1>5. QED
  BY <1>2, <1>3, <1>4

-----------------------------------------------------------------------------
(* The tree implements the map.                                            *)

(* What KVStore sees of the tree is what it sees of the set of entries.    *)
Agree ==
  /\ [k \in Keys |-> Get(k, last_sequence)] = [k \in Keys |-> MV!Reading(k, last_sequence)]
  /\ [h \in Handles |-> {[k \in Keys |-> Scan(k, s)] : s \in SnapshotsOf(h)}]
     = [h \in Handles |-> {[k \in Keys |-> MV!Reading(k, s)] : s \in [g \in Handles |-> SnapshotsOf(g)][h]}]

(* The two mappings to KVStore are one.                                    *)
LEMMA SameReadings == ASSUME IInv PROVE Agree
<1>1. [k \in Keys |-> Get(k, last_sequence)] = [k \in Keys |-> MV!Reading(k, last_sequence)]
  BY GetReads
<1>2. ASSUME NEW h \in Handles
      PROVE  {[k \in Keys |-> Scan(k, s)] : s \in SnapshotsOf(h)}
             = {[k \in Keys |-> MV!Reading(k, s)] : s \in SnapshotsOf(h)}
  <2>1. SnapshotsOf(h) \subseteq Nat
    BY DEF IInv, Places, Written, SnapshotsOf
  <2>2. \A s \in SnapshotsOf(h) : [k \in Keys |-> Scan(k, s)] = [k \in Keys |-> MV!Reading(k, s)]
    BY <2>1, ScanReads DEF IInv
  <2>3. QED
    BY <2>2
<1>3. QED
  BY <1>1, <1>2 DEF Agree

(* Lin-DB is the map it promises to be: with any keys, levels, limits and  *)
(* file sizes, flushes, compactions and failures in between change neither *)
(* what Get returns nor what an iterator shows at an open snapshot, and a  *)
(* write changes the value of its own key only.                            *)
THEOREM TreeImplementsKV == Spec => ImplementsKV
<1>1. IInv => Agree
  BY SameReadings
<1>2. Agree /\ MV!KV!Init => KV!Init
  BY DEF Agree, MV!KV!Init, KV!Init
<1>3. Agree /\ Agree' /\ [MV!KV!Next]_(MV!KV!vars) => [KV!Next]_(KV!vars)
  BY DEF Agree, MV!KV!Next, MV!KV!vars, MV!KV!Put, MV!KV!Delete,
         MV!KV!GetSnapshot, MV!KV!ReleaseSnapshot,
         KV!Next, KV!vars, KV!Put, KV!Delete, KV!GetSnapshot, KV!ReleaseSnapshot
<1>4. QED
  BY <1>1, <1>2, <1>3, Inductive, TreeImplementsMV, MVImplementsKV, PTL
  DEF ImplementsMV, MV!ImplementsKV, MV!KV!Spec, ImplementsKV, KV!Spec
=============================================================================
