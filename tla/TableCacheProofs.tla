--------------------------- MODULE TableCacheProofs ---------------------------
(***************************************************************************)
(* Proofs about LRUCache and TableCache, for any keys, memory blocks,      *)
(* charges, capacity and threads: the table, the reference counts and the  *)
(* two lists agree after every call, so no entry in use is ever freed, and *)
(* usage_ is the sum of the charges of what is allocated.                  *)
(***************************************************************************)
EXTENDS TableCache, NumberLemmas, SequenceTheorems, TLAPS

(* The accounting: finitely many entries are allocated, so that their      *)
(* charges have a sum.                                                     *)
Accounted == IsFiniteSet(live) /\ UsageExact /\ DestructorClean

(* The inductive invariant of the cache, and the type of the threads' part.*)
IInv == TypeOK /\ TableExact /\ RefsExact /\ ListsExact /\ NotFreedInUse /\ Accounted

OpeningOK == opening \in [Threads -> Keys \cup {NoKey}]

-----------------------------------------------------------------------------
(* Taking a member out of a list without duplicates leaves the others.     *)
LEMMA WithoutOne ==
  ASSUME NEW S, NEW s \in Seq(S), IsInjective(s), NEW e
  PROVE  /\ Without(s, e) \in Seq(S) /\ IsInjective(Without(s, e))
         /\ ToSet(Without(s, e)) = ToSet(s) \ {e}
<1>1. /\ Len(s) \in Nat /\ DOMAIN s = 1 .. Len(s)
      /\ \A j \in 1 .. Len(s) : s[j] \in S
  BY LenProperties, ElementOfSeq
<1>2. CASE ~\E i \in 1 .. Len(s) : s[i] = e
  BY <1>1, <1>2 DEF Without, ToSet
<1>3. CASE \E i \in 1 .. Len(s) : s[i] = e
  <2>. DEFINE i == CHOOSE j \in 1 .. Len(s) : s[j] = e
              w == RemoveAt(s, i)
  <2>1. i \in 1 .. Len(s) /\ s[i] = e
    BY <1>3
  <2>. HIDE DEF i
  <2>2. /\ w \in Seq(S) /\ Len(w) = Len(s) - 1
        /\ \A j \in 1 .. Len(w) : w[j] = IF j < i THEN s[j] ELSE s[j + 1]
    <3>. DEFINE a == SubSeq(s, 1, i - 1)
                b == SubSeq(s, i + 1, Len(s))
    <3>1. a \in Seq(S) /\ Len(a) = i - 1 /\ \A j \in 1 .. i - 1 : a[j] = s[j]
      <4>1. i - 1 \in Int /\ \A j \in 1 .. i - 1 : s[j] \in S
        BY <1>1, <2>1
      <4>. QED  BY <2>1, <4>1, SubSeqProperties
    <3>2. b \in Seq(S) /\ Len(b) = Len(s) - i /\ \A j \in 1 .. Len(s) - i : b[j] = s[i + j]
      <4>1. i + 1 \in Int /\ Len(s) \in Int /\ \A j \in i + 1 .. Len(s) : s[j] \in S
        BY <1>1, <2>1
      <4>2. /\ b \in Seq(S) /\ Len(b) = IF i + 1 <= Len(s) THEN Len(s) - (i + 1) + 1 ELSE 0
            /\ \A j \in 1 .. Len(s) - (i + 1) + 1 : b[j] = s[i + 1 + j - 1]
        BY <4>1, SubSeqProperties
      <4>. HIDE DEF b
      <4>3. Len(b) = Len(s) - i
        <5>1. i \in Nat /\ Len(s) \in Nat /\ i <= Len(s)
          BY <1>1, <2>1
        <5>2. Len(b) = IF i + 1 <= Len(s) THEN Len(s) - (i + 1) + 1 ELSE 0
          BY <4>2
        <5>3. CASE i + 1 <= Len(s)
          <6>1. Len(b) = Len(s) - (i + 1) + 1
            BY <5>2, <5>3
          <6>. QED  BY <5>1, <6>1
        <5>4. CASE ~(i + 1 <= Len(s))
          <6>1. Len(b) = 0
            BY <5>2, <5>4
          <6>. QED  BY <5>1, <5>4, <6>1
        <5>. QED  BY <5>3, <5>4
      <4>4. ASSUME NEW j \in 1 .. Len(s) - i PROVE b[j] = s[i + j]
        <5>1. j \in 1 .. Len(s) - (i + 1) + 1 /\ i + 1 + j - 1 = i + j
          BY <1>1, <2>1
        <5>. QED  BY <4>2, <5>1
      <4>. QED  BY <4>2, <4>3, <4>4
    <3>3. w = a \o b
      BY DEF RemoveAt
    <3>. HIDE DEF a, b, w
    <3>4. /\ w \in Seq(S) /\ Len(w) = Len(s) - 1
          /\ \A j \in 1 .. Len(w) : w[j] = IF j <= Len(a) THEN a[j] ELSE b[j - Len(a)]
      <4>1. /\ w \in Seq(S) /\ Len(w) = Len(a) + Len(b)
            /\ \A j \in 1 .. Len(a) + Len(b) : w[j] = IF j <= Len(a) THEN a[j] ELSE b[j - Len(a)]
        BY <3>1, <3>2, <3>3, ConcatProperties
      <4>. QED  BY <1>1, <2>1, <3>1, <3>2, <4>1
    <3>5. ASSUME NEW j \in 1 .. Len(w) PROVE w[j] = IF j < i THEN s[j] ELSE s[j + 1]
      <4>1. CASE j < i
        BY <1>1, <2>1, <3>1, <3>4, <4>1
      <4>2. CASE j >= i
        <5>1. j - Len(a) \in 1 .. Len(s) - i /\ ~(j <= Len(a)) /\ i + (j - Len(a)) = j + 1
          BY <1>1, <2>1, <3>1, <3>4, <4>2
        <5>2. w[j] = b[j - Len(a)]
          BY <3>4, <5>1
        <5>. QED  BY <3>2, <4>2, <5>1, <5>2, <2>1
      <4>. QED  BY <1>1, <2>1, <3>4, <4>1, <4>2
    <3>. QED  BY <3>4, <3>5
  <2>3. Without(s, e) = w
    BY <1>3 DEF Without, i
  <2>4. DOMAIN w = 1 .. Len(w) /\ Len(w) \in Nat
    BY <2>2, LenProperties
  <2>. HIDE DEF w
  <2>5. IsInjective(w)
    <3>. SUFFICES ASSUME NEW j \in 1 .. Len(w), NEW m \in 1 .. Len(w), w[j] = w[m]
                  PROVE  j = m
      BY <2>4 DEF IsInjective
    <3>. DEFINE at(x) == IF x < i THEN x ELSE x + 1
    <3>1. at(j) \in 1 .. Len(s) /\ at(m) \in 1 .. Len(s)
      BY <1>1, <2>1, <2>2
    <3>2. s[at(j)] = s[at(m)]
      BY <2>2
    <3>3. at(j) = at(m)
      BY <1>1, <3>1, <3>2 DEF IsInjective
    <3>. QED  BY <1>1, <2>1, <2>4, <3>3
  <2>6. ASSUME NEW x \in ToSet(w) PROVE x \in ToSet(s) \ {e}
    <3>1. PICK j \in 1 .. Len(w) : w[j] = x
      BY <2>4 DEF ToSet
    <3>2. PICK m \in 1 .. Len(s) : s[m] = x /\ m # i
      <4>1. CASE j < i
        <5>1. j \in 1 .. Len(s) /\ s[j] = x
          BY <1>1, <2>1, <2>2, <3>1, <4>1
        <5>. QED  BY <4>1, <5>1, <2>1
      <4>2. CASE ~(j < i)
        <5>1. j + 1 \in 1 .. Len(s) /\ s[j + 1] = x
          BY <1>1, <2>1, <2>2, <3>1, <4>2
        <5>2. j + 1 # i
          BY <2>1, <4>2
        <5>. QED  BY <5>1, <5>2
      <4>. QED  BY <4>1, <4>2
    <3>. QED  BY <1>1, <2>1, <3>2 DEF ToSet, IsInjective
  <2>7. ASSUME NEW x \in ToSet(s), x # e PROVE x \in ToSet(w)
    <3>1. PICK m \in 1 .. Len(s) : s[m] = x
      BY <1>1 DEF ToSet
    <3>2. m # i
      BY <2>1, <2>7, <3>1
    <3>3. CASE m < i
      <4>1. m \in 1 .. Len(w) /\ w[m] = x
        BY <1>1, <2>1, <2>2, <3>1, <3>3
      <4>. QED  BY <4>1, <2>4 DEF ToSet
    <3>4. CASE m > i
      <4>1. m - 1 \in 1 .. Len(w) /\ w[m - 1] = x
        BY <1>1, <2>1, <2>2, <3>1, <3>4
      <4>. QED  BY <4>1, <2>4 DEF ToSet
    <3>. QED  BY <1>1, <2>1, <3>2, <3>3, <3>4
  <2>. QED  BY <2>2, <2>3, <2>5, <2>6, <2>7
<1>. QED  BY <1>2, <1>3

(* Dropping the n oldest of a list without duplicates leaves the others.   *)
LEMMA DropOldest ==
  ASSUME NEW S, NEW s \in Seq(S), IsInjective(s), NEW n \in 0 .. Len(s)
  PROVE  LET t == SubSeq(s, n + 1, Len(s))
         IN /\ t \in Seq(S) /\ IsInjective(t)
            /\ ToSet(t) = ToSet(s) \ Oldest(s, n)
            /\ Oldest(s, n) \subseteq ToSet(s)
<1>. DEFINE t == SubSeq(s, n + 1, Len(s))
<1>1. /\ Len(s) \in Nat /\ DOMAIN s = 1 .. Len(s)
      /\ \A j \in 1 .. Len(s) : s[j] \in S
  BY LenProperties, ElementOfSeq
<1>2. /\ t \in Seq(S) /\ Len(t) = Len(s) - n
      /\ \A j \in 1 .. Len(t) : t[j] = s[n + j]
  <2>1. n + 1 \in Int /\ Len(s) \in Int /\ \A j \in n + 1 .. Len(s) : s[j] \in S
    BY <1>1
  <2>2. /\ t \in Seq(S) /\ Len(t) = IF n + 1 <= Len(s) THEN Len(s) - (n + 1) + 1 ELSE 0
        /\ \A j \in 1 .. Len(s) - (n + 1) + 1 : t[j] = s[n + 1 + j - 1]
    BY <2>1, SubSeqProperties
  <2>. HIDE DEF t
  <2>3. Len(t) = Len(s) - n
    <3>1. Len(t) = IF n + 1 <= Len(s) THEN Len(s) - (n + 1) + 1 ELSE 0
      BY <2>2
    <3>2. n \in Nat /\ n <= Len(s) /\ Len(s) \in Nat
      BY <1>1
    <3>3. CASE ~(n + 1 <= Len(s))
      <4>1. Len(t) = 0
        BY <3>1, <3>3
      <4>. QED  BY <3>2, <3>3, <4>1
    <3>4. CASE n + 1 <= Len(s)
      <4>1. Len(t) = Len(s) - (n + 1) + 1
        BY <3>1, <3>4
      <4>. QED  BY <3>2, <4>1
    <3>. QED  BY <3>3, <3>4
  <2>4. ASSUME NEW j \in 1 .. Len(t) PROVE t[j] = s[n + j]
    <3>1. j \in 1 .. Len(s) - (n + 1) + 1 /\ n + 1 + j - 1 = n + j
      BY <1>1, <2>3
    <3>. QED  BY <2>2, <3>1
  <2>. QED  BY <2>2, <2>3, <2>4
<1>3. DOMAIN t = 1 .. Len(t) /\ Len(t) \in Nat
  BY <1>2, LenProperties
<1>. HIDE DEF t
<1>4. IsInjective(t)
  <2>. SUFFICES ASSUME NEW j \in 1 .. Len(t), NEW m \in 1 .. Len(t), t[j] = t[m]
                PROVE  j = m
    BY <1>3 DEF IsInjective
  <2>1. n + j \in 1 .. Len(s) /\ n + m \in 1 .. Len(s) /\ s[n + j] = s[n + m]
    BY <1>1, <1>2
  <2>2. n + j = n + m
    BY <1>1, <2>1 DEF IsInjective
  <2>. QED  BY <1>3, <2>2
<1>5. ASSUME NEW x \in ToSet(t) PROVE x \in ToSet(s) \ Oldest(s, n)
  <2>1. PICK j \in 1 .. Len(t) : t[j] = x
    BY <1>3 DEF ToSet
  <2>2. n + j \in 1 .. Len(s) /\ s[n + j] = x
    BY <1>1, <1>2, <2>1
  <2>3. \A i \in 1 .. n : s[i] # x
    BY <1>1, <2>1, <2>2 DEF IsInjective
  <2>. QED  BY <1>1, <2>2, <2>3 DEF ToSet, Oldest
<1>6. ASSUME NEW x \in ToSet(s), x \notin Oldest(s, n) PROVE x \in ToSet(t)
  <2>1. PICK m \in 1 .. Len(s) : s[m] = x
    BY <1>1 DEF ToSet
  <2>2. m > n
    BY <1>1, <1>6, <2>1 DEF Oldest
  <2>3. m - n \in 1 .. Len(t) /\ t[m - n] = x
    BY <1>1, <1>2, <2>1, <2>2
  <2>. QED  BY <1>3, <2>3 DEF ToSet
<1>7. Oldest(s, n) \subseteq ToSet(s)
  BY <1>1 DEF Oldest, ToSet
<1>. QED  BY <1>2, <1>4, <1>5, <1>6, <1>7 DEF t

(* Appending a new member to a list without duplicates.                    *)
LEMMA AppendNew ==
  ASSUME NEW S, NEW s \in Seq(S), IsInjective(s), NEW e \in S, e \notin ToSet(s)
  PROVE  /\ Append(s, e) \in Seq(S) /\ IsInjective(Append(s, e))
         /\ ToSet(Append(s, e)) = ToSet(s) \cup {e}
<1>. DEFINE a == Append(s, e)
<1>1. Len(s) \in Nat /\ DOMAIN s = 1 .. Len(s)
  BY LenProperties
<1>2. /\ a \in Seq(S) /\ Len(a) = Len(s) + 1
      /\ \A i \in 1 .. Len(s) : a[i] = s[i]
      /\ a[Len(s) + 1] = e
  BY AppendProperties
<1>3. DOMAIN a = 1 .. Len(s) + 1
  BY <1>2, LenProperties
<1>. HIDE DEF a
<1>4. IsInjective(a)
  BY <1>1, <1>2, <1>3 DEF IsInjective, ToSet
<1>5. ToSet(a) = ToSet(s) \cup {e}
  BY <1>1, <1>2, <1>3 DEF ToSet
<1>. QED  BY <1>2, <1>4, <1>5 DEF a

-----------------------------------------------------------------------------
(* The members of lru_ are unused entries of the cache.                    *)
LEMMA ListFacts ==
  ASSUME IInv
  PROVE  /\ lru \in Seq(Entries) /\ IsInjective(lru) /\ ToSet(lru) \subseteq live
         /\ live \subseteq Entries
         /\ \A e \in Entries : e \in ToSet(lru) <=> e \in live /\ in_cache[e] /\ refs[e] = 1
         /\ \A e \in ToSet(lru) : /\ e \in Entries /\ in_cache[e] /\ refs[e] = 1 /\ handles[e] = 0
                                  /\ key[e] \in Keys /\ table[key[e]] = e
<1>1. /\ lru \in Seq(Entries) /\ IsInjective(lru) /\ live \subseteq Entries
      /\ handles \in [Entries -> Nat]
      /\ ToSet(lru) = {e \in live : in_cache[e] /\ refs[e] = 1}
  BY DEF IInv, TypeOK, ListsExact
<1>2. ASSUME NEW e \in ToSet(lru) PROVE handles[e] = 0
  <2>1. e \in Entries /\ e \in live /\ in_cache[e] /\ refs[e] = 1
    BY <1>1, <1>2
  <2>2. refs[e] = handles[e] + 1
    BY <2>1 DEF IInv, RefsExact
  <2>. QED  BY <1>1, <2>1, <2>2
<1>3. \A e \in ToSet(lru) : key[e] \in Keys /\ table[key[e]] = e
  BY <1>1 DEF IInv, TableExact
<1>. QED  BY <1>1, <1>2, <1>3

(* An allocated entry has the charge of its insertion, a number.           *)
LEMMA ChargesAreNumbers ==
  ASSUME IInv
  PROVE  \A e \in live : charge[e] \in Nat
<1>. SUFFICES ASSUME NEW e \in live PROVE charge[e] \in Nat
  OBVIOUS
<1>1. e \in Entries
  BY DEF IInv, TypeOK
<1>2. charge[e] \in Charges \cup {0}
  BY <1>1 DEF IInv, TypeOK
<1>3. Charges \subseteq Nat
  BY CacheAssumption
<1>4. CASE charge[e] \in Charges
  BY <1>3, <1>4
<1>5. CASE charge[e] = 0
  BY <1>5
<1>. QED  BY <1>2, <1>4, <1>5

(* Freeing entries and taking their charge off usage_ keeps it exact.      *)
LEMMA Refunded ==
  ASSUME IInv, NEW D, D \subseteq live, live' = live \ D,
         \A e \in live \ D : charge'[e] = charge[e], usage' = usage - ChargeOf(D)
  PROVE  IsFiniteSet(live') /\ UsageExact'
<1>1. IsFiniteSet(live) /\ IsFiniteSet(D) /\ IsFiniteSet(live \ D)
  BY FS_Subset DEF IInv, Accounted
<1>2. \A e \in live : charge[e] \in Nat
  BY ChargesAreNumbers
<1>3. /\ ChargeOf(live) = ChargeOf(D) + ChargeOf(live \ D)
      /\ ChargeOf(D) \in Nat /\ ChargeOf(live \ D) \in Nat
  <2>1. ChargeOf(live) = ChargeOf(D) + ChargeOf(live \ D)
    BY <1>1, <1>2, SumSplit DEF ChargeOf
  <2>2. ChargeOf(D) \in Nat
    BY <1>1, <1>2, SumNat DEF ChargeOf
  <2>3. ChargeOf(live \ D) \in Nat
    BY <1>1, <1>2, SumNat DEF ChargeOf
  <2>. QED  BY <2>1, <2>2, <2>3
<1>4. SumFunctionOnSet(charge', live \ D) = ChargeOf(live \ D)
  BY <1>1, <1>2, SumSame DEF ChargeOf
<1>5. usage = ChargeOf(live)
  BY DEF IInv, Accounted, UsageExact
<1>6. usage' = SumFunctionOnSet(charge', live')
  BY <1>3, <1>4, <1>5
<1>. QED  BY <1>1, <1>6 DEF UsageExact, ChargeOf

LEMMA LookupKeeps ==
  ASSUME IInv, NEW k \in Keys, Lookup(k)
  PROVE  IInv'
<1>. DEFINE e == table[k]
<1>1. /\ e \in Entries /\ e \in live /\ in_cache[e] /\ key[e] = k /\ refs[e] \in Nat
      /\ handles[e] \in Nat /\ refs[e] = handles[e] + 1
  BY DEF Lookup, IInv, TypeOK, TableExact, RefsExact
<1>2. /\ refs' = [refs EXCEPT ![e] = @ + 1] /\ handles' = [handles EXCEPT ![e] = @ + 1]
      /\ UNCHANGED <<table, live, key, charge, in_cache, usage, orphans, phase>>
  BY DEF Lookup, Ref, fields
<1>. HIDE DEF e
<1>3. /\ lru' \in Seq(Entries) /\ IsInjective(lru') /\ ToSet(lru') = ToSet(lru) \ {e}
      /\ in_use' = in_use \cup {e}
  <2>1. CASE refs[e] = 1
    <3>1. lru' = Without(lru, e) /\ in_use' = in_use \cup {e}
      BY <1>1, <2>1 DEF Lookup, Ref, e
    <3>. QED  BY <3>1, ListFacts, WithoutOne
  <2>2. CASE refs[e] # 1
    <3>1. lru' = lru /\ in_use' = in_use
      BY <2>2 DEF Lookup, Ref, e
    <3>2. e \notin ToSet(lru) /\ e \in in_use
      BY <1>1, <2>2 DEF IInv, ListsExact
    <3>. QED  BY <3>1, <3>2, ListFacts
  <2>. QED  BY <2>1, <2>2
<1>4. TypeOK'
  BY <1>1, <1>2, <1>3 DEF IInv, TypeOK
<1>5. TableExact'
  BY <1>2 DEF IInv, TableExact
<1>6. RefsExact'
  BY <1>1, <1>2 DEF IInv, RefsExact, TypeOK
<1>7. ListsExact'
  <2>1. ToSet(lru') = {x \in live' : in_cache'[x] /\ refs'[x] = 1}
    <3>1. \A x \in live : refs'[x] = IF x = e THEN refs[x] + 1 ELSE refs[x]
      BY <1>2 DEF IInv, TypeOK
    <3>2. refs[e] # 0
      BY <1>1
    <3>. QED  BY <1>1, <1>2, <1>3, <3>1, <3>2 DEF IInv, ListsExact
  <2>2. in_use' = live' \ ToSet(lru')
    BY <1>1, <1>2, <1>3 DEF IInv, ListsExact
  <2>. QED  BY <1>3, <2>1, <2>2 DEF ListsExact
<1>8. NotFreedInUse'
  BY <1>1, <1>2 DEF IInv, NotFreedInUse, TypeOK
<1>9. Accounted'
  BY <1>2 DEF IInv, Accounted, UsageExact, ChargeOf, DestructorClean
<1>. QED  BY <1>4, <1>5, <1>6, <1>7, <1>8, <1>9 DEF IInv

LEMMA ReleaseKeeps ==
  ASSUME IInv, NEW e \in Entries, Release(e)
  PROVE  IInv'
<1>1. /\ e \in live /\ handles[e] \in Nat \ {0} /\ refs[e] \in Nat \ {0}
      /\ e \notin ToSet(lru)
      /\ refs[e] = handles[e] + 1 /\ refs[e] # 1
  BY ListFacts DEF Release, IInv, TypeOK, NotFreedInUse, RefsExact
<1>2. /\ refs' = [refs EXCEPT ![e] = @ - 1] /\ handles' = [handles EXCEPT ![e] = @ - 1]
      /\ UNCHANGED <<table, in_cache, phase>>
  BY DEF Release, Unref
<1>3. UNCHANGED <<live, orphans, usage, key, charge>>
  BY <1>1 DEF Release, Unref
<1>4. /\ lru' \in Seq(Entries) /\ IsInjective(lru')
      /\ ToSet(lru') = IF refs[e] = 2 /\ in_cache[e] THEN ToSet(lru) \cup {e} ELSE ToSet(lru)
      /\ in_use' = IF refs[e] = 2 /\ in_cache[e] THEN in_use \ {e} ELSE in_use
  <2>1. /\ lru \in Seq(Entries) /\ IsInjective(lru)
        /\ lru' = (IF refs[e] = 2 /\ in_cache[e] THEN Append(lru, e) ELSE lru)
        /\ in_use' = (IF refs[e] = 2 /\ in_cache[e] THEN in_use \ {e} ELSE in_use)
    BY ListFacts DEF Release, Unref
  <2>2. /\ Append(lru, e) \in Seq(Entries) /\ IsInjective(Append(lru, e))
        /\ ToSet(Append(lru, e)) = ToSet(lru) \cup {e}
    BY <1>1, <2>1, AppendNew
  <2>. QED  BY <2>1, <2>2
<1>5. TypeOK'
  <2>1. refs[e] - 1 \in Nat /\ handles[e] - 1 \in Nat
    BY <1>1
  <2>2. refs' \in [Entries -> Nat] /\ handles' \in [Entries -> Nat] /\ in_use' \subseteq Entries
    BY <1>2, <1>4, <2>1 DEF IInv, TypeOK
  <2>. QED  BY <1>2, <1>3, <1>4, <2>2 DEF IInv, TypeOK
<1>6. TableExact'
  BY <1>2, <1>3 DEF IInv, TableExact
<1>7. RefsExact'
  BY <1>1, <1>2, <1>3 DEF IInv, RefsExact, TypeOK
<1>8. ListsExact'
  <2>1. \A x \in live : refs'[x] = IF x = e THEN refs[x] - 1 ELSE refs[x]
    BY <1>2 DEF IInv, TypeOK
  <2>2. refs[e] - 1 = 1 <=> refs[e] = 2
    BY <1>1
  <2>3. ToSet(lru') = {x \in live' : in_cache'[x] /\ refs'[x] = 1}
    BY <1>1, <1>2, <1>3, <1>4, <2>1, <2>2 DEF IInv, ListsExact
  <2>4. in_use' = live' \ ToSet(lru')
    BY <1>1, <1>3, <1>4 DEF IInv, ListsExact
  <2>. QED  BY <1>4, <2>3, <2>4 DEF ListsExact
<1>9. NotFreedInUse'
  BY <1>1, <1>2, <1>3 DEF IInv, NotFreedInUse, TypeOK
<1>10. Accounted'
  BY <1>2, <1>3 DEF IInv, Accounted, UsageExact, ChargeOf, DestructorClean
<1>. QED  BY <1>5, <1>6, <1>7, <1>8, <1>9, <1>10 DEF IInv

LEMMA EraseKeeps ==
  ASSUME IInv, NEW k \in Keys, Erase(k)
  PROVE  IInv'
<1>. DEFINE e == table[k]
<1>1. /\ e \in Entries /\ e \in live /\ in_cache[e] /\ key[e] = k /\ e # NoEntry
      /\ handles[e] \in Nat /\ refs[e] = handles[e] + 1
  BY DEF Erase, IInv, TypeOK, TableExact, RefsExact
<1>2. /\ table' = [table EXCEPT ![k] = NoEntry] /\ in_cache' = [in_cache EXCEPT ![e] = FALSE]
      /\ phase = "open" /\ UNCHANGED <<in_use, handles, phase>>
  BY DEF Erase, Unmark
<1>3. \A x \in Entries : in_cache[x] /\ x # e => key[x] # k /\ table[key[x]] = x /\ x \in live
  BY DEF IInv, TableExact
<1>4. CASE Idle(e)
  <2>1. /\ lru' = Without(lru, e) /\ refs' = [refs EXCEPT ![e] = 0] /\ live' = live \ {e}
        /\ key' = [key EXCEPT ![e] = NoEntry] /\ charge' = [charge EXCEPT ![e] = 0]
        /\ orphans' = orphans /\ usage' = usage - ChargeOf({e})
    BY <1>4 DEF Erase, Refund
  <2>2. refs[e] = 1 /\ handles[e] = 0 /\ e \in ToSet(lru)
    BY <1>1, <1>4, ListFacts DEF Idle
  <2>. HIDE DEF e
  <2>3. /\ lru' \in Seq(Entries) /\ IsInjective(lru') /\ ToSet(lru') = ToSet(lru) \ {e}
    BY <2>1, ListFacts, WithoutOne
  <2>4. TypeOK'
    BY <1>1, <1>2, <2>1, <2>3 DEF IInv, TypeOK
  <2>5. TableExact'
    BY <1>1, <1>2, <1>3, <2>1 DEF IInv, TypeOK, TableExact
  <2>6. RefsExact'
    BY <1>1, <1>2, <2>1 DEF IInv, TypeOK, RefsExact
  <2>7. ListsExact'
    BY <1>1, <1>2, <2>1, <2>2, <2>3 DEF IInv, TypeOK, ListsExact
  <2>8. NotFreedInUse'
    BY <1>1, <1>2, <2>1, <2>2 DEF IInv, NotFreedInUse
  <2>9. Accounted'
    <3>1. IsFiniteSet(live') /\ UsageExact'
      <4>1. {e} \subseteq live /\ \A x \in live \ {e} : charge'[x] = charge[x]
        BY <1>1, <2>1, ListFacts DEF IInv, TypeOK
      <4>. QED  BY <2>1, <4>1, Refunded
    <3>. QED  BY <1>2, <3>1 DEF Accounted, DestructorClean
  <2>. QED  BY <2>4, <2>5, <2>6, <2>7, <2>8, <2>9 DEF IInv
<1>5. CASE ~Idle(e)
  <2>1. orphans' = orphans \cup {e} /\ UNCHANGED <<lru, refs, live, key, charge, usage>>
    BY <1>5 DEF Erase, fields
  <2>2. refs[e] # 1 /\ e \notin ToSet(lru)
    BY <1>1, <1>5, ListFacts DEF Idle
  <2>. HIDE DEF e
  <2>3. TypeOK'
    BY <1>1, <1>2, <2>1 DEF IInv, TypeOK
  <2>4. TableExact'
    BY <1>1, <1>2, <1>3, <2>1 DEF IInv, TypeOK, TableExact
  <2>5. RefsExact'
    BY <1>1, <1>2, <2>1 DEF IInv, TypeOK, RefsExact
  <2>6. ListsExact'
    BY <1>1, <1>2, <2>1, <2>2 DEF IInv, TypeOK, ListsExact
  <2>7. NotFreedInUse'
    BY <1>2, <2>1 DEF IInv, NotFreedInUse
  <2>8. Accounted'
    BY <1>2, <2>1 DEF IInv, Accounted, UsageExact, ChargeOf, DestructorClean
  <2>. QED  BY <2>3, <2>4, <2>5, <2>6, <2>7, <2>8 DEF IInv
<1>. QED  BY <1>4, <1>5

LEMMA DestroyKeeps ==
  ASSUME IInv, Destroy
  PROVE  IInv'
<1>1. UNCHANGED <<in_use, handles, orphans>> /\ \A e \in Entries : handles[e] = 0
  BY DEF Destroy
<1>2. CASE in_use # {}
  <2>1. phase' = "aborted" /\ UNCHANGED <<table, live, key, charge, refs, in_cache, lru, usage>>
    BY <1>2 DEF Destroy, fields
  <2>2. PICK e \in live : e \notin ToSet(lru)
    BY <1>2 DEF IInv, ListsExact
  <2>3. e \in Entries /\ refs[e] = 1
    BY <1>1, <2>2, ListFacts DEF IInv, RefsExact
  <2>4. e \in orphans
    BY <2>2, <2>3, ListFacts DEF IInv, RefsExact
  <2>5. Accounted'
    BY <1>1, <2>1, <2>4 DEF IInv, Accounted, UsageExact, ChargeOf, DestructorClean
  <2>. QED  BY <1>1, <2>1, <2>5 DEF IInv, TypeOK, TableExact, RefsExact, ListsExact, NotFreedInUse
<1>3. CASE in_use = {}
  <2>. DEFINE L == ToSet(lru)
  <2>1. /\ phase' = "destroyed" /\ live' = live \ L
        /\ table' = [k \in Keys |-> IF \E e \in L : key[e] = k THEN NoEntry ELSE table[k]]
        /\ refs' = [e \in Entries |-> IF e \in L THEN 0 ELSE refs[e]]
        /\ key' = [e \in Entries |-> IF e \in L THEN NoEntry ELSE key[e]]
        /\ charge' = [e \in Entries |-> IF e \in L THEN 0 ELSE charge[e]]
        /\ in_cache' = [e \in Entries |-> in_cache[e] /\ e \notin L]
        /\ lru' = <<>> /\ usage' = usage - ChargeOf(L)
    BY <1>3 DEF Destroy, Cleared, Refund
  <2>2. live \subseteq L /\ L \subseteq live /\ live' = {}
    BY <1>3, <2>1, ListFacts DEF IInv, ListsExact
  <2>3. \A e \in Entries : ~in_cache'[e]
    BY <2>1, <2>2 DEF IInv, TableExact
  <2>4. \A k \in Keys : table'[k] = NoEntry
    BY <2>1, <2>2 DEF IInv, TableExact
  <2>5. lru' \in Seq(Entries) /\ IsInjective(lru') /\ ToSet(lru') = {}
    BY <2>1 DEF IsInjective, ToSet
  <2>. HIDE DEF L
  <2>6. TypeOK'
    BY <1>1, <2>1, <2>2, <2>4, <2>5 DEF IInv, TypeOK
  <2>7. TableExact'
    BY <2>2, <2>3, <2>4 DEF TableExact
  <2>8. orphans = {}
    BY <2>2, ListFacts DEF IInv, RefsExact, L
  <2>9. RefsExact'
    BY <1>1, <2>2, <2>8 DEF RefsExact
  <2>10. ListsExact'
    BY <1>1, <1>3, <2>2, <2>5 DEF ListsExact
  <2>11. NotFreedInUse'
    BY <1>1 DEF Destroy, NotFreedInUse, IInv, TypeOK
  <2>12. Accounted'
    <3>1. IsFiniteSet(live') /\ UsageExact'
      BY <2>1, <2>2, Refunded
    <3>2. usage' = 0
      BY <2>2, <3>1, SumNone DEF UsageExact, ChargeOf
    <3>. QED  BY <2>1, <2>2, <3>1, <3>2 DEF Accounted, DestructorClean
  <2>. QED  BY <2>6, <2>7, <2>9, <2>10, <2>11, <2>12 DEF IInv
<1>. QED  BY <1>2, <1>3

(* Insert: what it frees is unused, and what it takes out of the table is  *)
(* exactly what it frees and the entry it replaces.                        *)
LEMMA InsertKeeps ==
  ASSUME IInv, NEW k \in Keys, NEW c \in Charges, NEW e \in Entries, Insert(k, c, e)
  PROVE  IInv'
<1>. DEFINE old   == table[k]
            freed == IF Idle(old) THEN {old} ELSE {}
            rest  == IF Idle(old) THEN Without(lru, old) ELSE lru
<1>1. PICK n \in 0 .. Len(rest) :
        LET gone   == Oldest(rest, n)
            erased == {key[g] : g \in gone}
        IN /\ table' = [x \in Keys |-> IF x \in erased THEN NoEntry
                                        ELSE IF x = k THEN e ELSE table[x]]
           /\ live' = (live \cup {e}) \ (freed \cup gone)
           /\ key' = [Cleared(key, NoEntry, freed \cup gone) EXCEPT ![e] = k]
           /\ charge' = [Cleared(charge, 0, freed \cup gone) EXCEPT ![e] = c]
           /\ refs' = [Cleared(refs, 0, freed \cup gone) EXCEPT ![e] = 2]
           /\ in_cache' = [x \in Entries |-> x = e \/ (in_cache[x] /\ x # old /\ x \notin gone)]
           /\ lru' = SubSeq(rest, n + 1, Len(rest))
           /\ in_use' = in_use \cup {e}
           /\ usage' = (usage + c - Refund(freed)) - Refund(gone)
  BY ZenonT(60) DEF Insert
<1>. DEFINE gone == Oldest(rest, n)
            dead == freed \cup gone
<1>2. /\ phase = "open" /\ e \notin live /\ handles' = [handles EXCEPT ![e] = 1] /\ phase' = phase
      /\ orphans' = IF old = NoEntry \/ Idle(old) THEN orphans ELSE orphans \cup {old}
  BY DEF Insert
<1>3. /\ rest \in Seq(Entries) /\ IsInjective(rest) /\ ToSet(rest) = ToSet(lru) \ freed
  BY ListFacts, WithoutOne
<1>4. /\ lru' \in Seq(Entries) /\ IsInjective(lru') /\ ToSet(lru') = ToSet(rest) \ gone
      /\ gone \subseteq ToSet(rest)
  BY <1>1, <1>3, DropOldest
<1>5. old # NoEntry => old \in live /\ old \in Entries /\ in_cache[old] /\ key[old] = k
  BY DEF IInv, TypeOK, TableExact
<1>6. freed \subseteq ToSet(lru)
  BY <1>5, ListFacts DEF Idle
<1>7. /\ dead \subseteq ToSet(lru) /\ e \notin dead /\ ToSet(lru') = ToSet(lru) \ dead
      /\ old \notin gone /\ e # old
  <2>1. old \in ToSet(lru) => old \in freed
    BY ListFacts, CacheAssumption DEF Idle
  <2>2. dead = freed \cup gone
    OBVIOUS
  <2>. HIDE DEF old, freed, rest, gone, dead
  <2>3. old \notin gone /\ dead \subseteq ToSet(lru) /\ ToSet(lru') = ToSet(lru) \ dead
    BY <1>3, <1>4, <1>6, <2>1, <2>2
  <2>4. e # old
    BY <1>2, <1>5, CacheAssumption
  <2>. QED  BY <1>2, <2>3, <2>4, ListFacts
<1>8. /\ \A x \in Entries : key'[x] = IF x = e THEN k ELSE IF x \in dead THEN NoEntry ELSE key[x]
      /\ \A x \in Entries : refs'[x] = IF x = e THEN 2 ELSE IF x \in dead THEN 0 ELSE refs[x]
      /\ \A x \in Entries : charge'[x] = IF x = e THEN c ELSE IF x \in dead THEN 0 ELSE charge[x]
      /\ \A x \in Entries : handles'[x] = IF x = e THEN 1 ELSE handles[x]
  BY <1>1, <1>2 DEF Cleared, IInv, TypeOK
<1>9. /\ live' = (live \cup {e}) \ dead /\ in_use' = in_use \cup {e}
      /\ \A x \in Entries : in_cache'[x] <=> x = e \/ (in_cache[x] /\ x # old /\ x \notin gone)
      /\ \A x \in Keys : table'[x] = IF x \in {key[g] : g \in gone} THEN NoEntry
                                      ELSE IF x = k THEN e ELSE table[x]
      /\ usage' = (usage + c - ChargeOf(freed)) - ChargeOf(gone)
  BY <1>1 DEF Refund
<1>10. /\ freed \subseteq {old} /\ table[k] = old
       /\ old # NoEntry /\ old \notin freed => refs[old] # 1 /\ orphans' = orphans \cup {old}
       /\ old = NoEntry \/ old \in freed => orphans' = orphans
  BY <1>2 DEF Idle
<1>11. TypeOK'
  <2>1. /\ table' \in [Keys -> Entries \cup {NoEntry}] /\ live' \subseteq Entries
        /\ key' \in [Entries -> Keys \cup {NoEntry}] /\ charge' \in [Entries -> Charges \cup {0}]
    BY <1>1 DEF IInv, TypeOK, Cleared
  <2>2. /\ refs' \in [Entries -> Nat] /\ in_cache' \in [Entries -> BOOLEAN]
        /\ handles' \in [Entries -> Nat]
    BY <1>1, <1>2 DEF IInv, TypeOK, Cleared
  <2>3. orphans' \subseteq Entries /\ in_use' \subseteq Entries
    BY <1>5, <1>9, <1>10 DEF IInv, TypeOK
  <2>. QED  BY <1>2, <1>4, <2>1, <2>2, <2>3 DEF IInv, TypeOK
<1>. HIDE DEF old, freed, rest, gone, dead
<1>12. dead = freed \cup gone
  BY DEF dead
<1>13. TableExact'
  <2>1. \A x \in Entries : in_cache[x] => x \in live /\ key[x] \in Keys /\ table[key[x]] = x
    BY DEF IInv, TableExact
  <2>2. \A g \in gone : g \in Entries /\ in_cache[g] /\ g # old /\ key[g] # k
    BY <1>7, <1>10, <1>12, <2>1, ListFacts
  <2>3. ASSUME NEW x \in Keys, table'[x] # NoEntry
        PROVE  table'[x] \in live' /\ in_cache'[table'[x]] /\ key'[table'[x]] = x
    <3>1. x \notin {key[g] : g \in gone}
      BY <1>9, <2>3
    <3>2. CASE x = k
      BY <1>7, <1>8, <1>9, <3>1, <3>2
    <3>3. CASE x # k
      <4>. DEFINE y == table[x]
      <4>1. table'[x] = y /\ y # NoEntry
        BY <1>9, <2>3, <3>1, <3>3
      <4>2. y \in Entries /\ y \in live /\ in_cache[y] /\ key[y] = x
        BY <4>1 DEF IInv, TypeOK, TableExact
      <4>3. y \notin gone /\ y # e
        BY <1>2, <3>1, <4>2
      <4>4. y # old
        BY <1>5, <3>3, <4>1, <4>2
      <4>5. y \notin dead
        BY <1>10, <1>12, <4>3, <4>4
      <4>. QED  BY <1>8, <1>9, <4>1, <4>2, <4>3, <4>4, <4>5
    <3>. QED  BY <3>2, <3>3
  <2>4. ASSUME NEW x \in Entries, in_cache'[x]
        PROVE  x \in live' /\ key'[x] \in Keys /\ table'[key'[x]] = x
    <3>1. CASE x = e
      BY <1>7, <1>8, <1>9, <2>2, <3>1
    <3>2. CASE x # e
      <4>1. in_cache[x] /\ x # old /\ x \notin gone /\ x \notin dead
        BY <1>9, <1>10, <1>12, <2>4, <3>2
      <4>2. key'[x] = key[x] /\ key[x] # k /\ key[x] \notin {key[g] : g \in gone}
        BY <1>8, <1>10, <2>1, <2>2, <3>2, <4>1
      <4>. QED  BY <1>9, <2>1, <4>1, <4>2
    <3>. QED  BY <3>1, <3>2
  <2>. QED  BY <2>3, <2>4 DEF TableExact
<1>14. RefsExact'
  <2>1. ASSUME NEW x \in Entries
        PROVE  x \in orphans' <=> x \in live' /\ ~in_cache'[x]
    <3>1. x \in orphans <=> x \in live /\ ~in_cache[x]
      BY DEF IInv, RefsExact
    <3>2. x \in dead => in_cache[x]
      BY <1>7, ListFacts
    <3>3. x = old => x # NoEntry
      BY CacheAssumption
    <3>. QED  BY <1>2, <1>5, <1>7, <1>9, <1>10, <1>12, <3>1, <3>2, <3>3
  <2>2. ASSUME NEW x \in live' PROVE refs'[x] = handles'[x] + 1
    <3>1. x \in Entries /\ (x = e \/ (x \in live /\ x \notin dead))
      BY <1>9, ListFacts
    <3>. QED  BY <1>8, <3>1 DEF IInv, RefsExact
  <2>3. orphans' \subseteq Entries /\ live' \subseteq Entries
    BY <1>11 DEF TypeOK
  <2>. QED  BY <2>1, <2>2, <2>3 DEF RefsExact
<1>15. ListsExact'
  <2>1. ASSUME NEW x \in Entries
        PROVE  x \in ToSet(lru') <=> x \in live' /\ in_cache'[x] /\ refs'[x] = 1
    <3>1. x \in ToSet(lru) <=> x \in live /\ in_cache[x] /\ refs[x] = 1
      BY ListFacts
    <3>2. x \in ToSet(lru) /\ x = old => x \in freed
      BY <1>10, <3>1, CacheAssumption
    <3>3. CASE x = e
      BY <1>2, <1>7, <1>8, <3>1, <3>3
    <3>4. CASE x # e
      BY <1>7, <1>8, <1>9, <1>12, <3>1, <3>2, <3>4
    <3>. QED  BY <3>3, <3>4
  <2>2. ToSet(lru') \subseteq Entries /\ live' \subseteq Entries
    BY <1>7, <1>11, ListFacts DEF TypeOK
  <2>3. in_use' = live' \ ToSet(lru')
    <3>1. in_use = live \ ToSet(lru)
      BY DEF IInv, ListsExact
    <3>. QED  BY <1>2, <1>7, <1>9, <3>1, ListFacts
  <2>. QED  BY <1>4, <2>1, <2>2, <2>3 DEF ListsExact
<1>16. NotFreedInUse'
  BY <1>7, <1>8, <1>9, ListFacts DEF IInv, NotFreedInUse
<1>17. Accounted'
  <2>1. /\ IsFiniteSet(live) /\ IsFiniteSet(dead) /\ IsFiniteSet(live \ dead)
        /\ \A x \in live : charge[x] \in Nat
        /\ c \in Nat /\ dead \subseteq live
    <3>1. dead \subseteq live
      BY <1>7, ListFacts
    <3>2. IsFiniteSet(live)
      BY DEF IInv, Accounted
    <3>3. IsFiniteSet(dead) /\ IsFiniteSet(live \ dead)
      BY <3>1, <3>2, FS_Subset
    <3>. QED  BY <3>1, <3>2, <3>3, ChargesAreNumbers, CacheAssumption
  <2>2. /\ ChargeOf(live) = ChargeOf(dead) + ChargeOf(live \ dead)
        /\ ChargeOf(dead) = ChargeOf(freed) + ChargeOf(dead \ freed)
    BY <1>12, <2>1, SumSplit DEF ChargeOf
  <2>3. dead \ freed = gone /\ freed \subseteq dead /\ gone \subseteq dead
    BY <1>3, <1>4, <1>12
  <2>4. ChargeOf(freed) \in Nat /\ ChargeOf(gone) \in Nat /\ ChargeOf(live \ dead) \in Nat
    <3>1. IsFiniteSet(freed) /\ IsFiniteSet(gone)
      BY <2>1, <2>3, FS_Subset
    <3>. QED  BY <2>1, <2>3, <3>1, SumNat DEF ChargeOf
  <2>5. usage' = ChargeOf(live \ dead) + c
    <3>1. usage' = (usage + c - ChargeOf(freed)) - ChargeOf(gone)
      BY <1>9
    <3>2. usage = ChargeOf(live)
      BY DEF IInv, Accounted, UsageExact
    <3>3. ChargeOf(dead) = ChargeOf(freed) + ChargeOf(gone)
      BY <2>2, <2>3
    <3>4. usage = ChargeOf(freed) + ChargeOf(gone) + ChargeOf(live \ dead)
      BY <2>2, <3>2, <3>3
    <3>. QED  BY <2>1, <2>4, <3>1, <3>4
  <2>6. /\ live' \ {e} = live \ dead /\ e \in live' /\ IsFiniteSet(live')
        /\ \A x \in live' : charge'[x] \in Nat
    <3>1. live' = (live \ dead) \cup {e}
      BY <1>7, <1>9
    <3>2. IsFiniteSet(live')
      BY <2>1, <3>1, FS_AddElement
    <3>. QED  BY <1>2, <1>8, <2>1, <3>1, <3>2, ListFacts
  <2>7. SumFunctionOnSet(charge', live') =
          SumFunctionOnSet(charge', {e}) + SumFunctionOnSet(charge', live \ dead)
    BY <2>6, SumSplit
  <2>8. SumFunctionOnSet(charge', {e}) = c
    <3>1. charge'[e] \in Nat /\ charge'[e] = c
      BY <1>8, <2>1
    <3>2. SumFunctionOnSet(charge', {e}) = charge'[e]
      BY ONLY <3>1, SumOne
    <3>. QED  BY <3>1, <3>2
  <2>9. SumFunctionOnSet(charge', live \ dead) = ChargeOf(live \ dead)
    <3>1. \A x \in live \ dead : charge[x] \in Nat /\ charge[x] = charge'[x]
      BY <1>2, <1>8, <2>1, ListFacts
    <3>. QED  BY <2>1, <3>1, SumSame DEF ChargeOf
  <2>10. UsageExact'
    BY <2>1, <2>4, <2>5, <2>7, <2>8, <2>9 DEF UsageExact, ChargeOf
  <2>. QED  BY <1>2, <2>6, <2>10 DEF Accounted, DestructorClean
<1>. QED  BY <1>11, <1>13, <1>14, <1>15, <1>16, <1>17 DEF IInv

-----------------------------------------------------------------------------
LEMMA CacheKeeps ==
  ASSUME IInv, [CacheNext]_cacheVars
  PROVE  IInv'
<1>1. CASE CacheNext
  BY <1>1, InsertKeeps, LookupKeeps, EraseKeeps, ReleaseKeeps, DestroyKeeps DEF CacheNext
<1>2. CASE UNCHANGED cacheVars
  BY <1>2 DEF cacheVars, fields, IInv, TypeOK, TableExact, RefsExact, ListsExact, NotFreedInUse,
              Accounted, UsageExact, ChargeOf, DestructorClean
<1>. QED  BY <1>1, <1>2

LEMMA InitKeeps == Init => IInv
<1>. SUFFICES ASSUME Init PROVE IInv
  OBVIOUS
<1>1. lru \in Seq(Entries) /\ IsInjective(lru) /\ ToSet(lru) = {}
  BY DEF Init, IsInjective, ToSet
<1>2. TypeOK
  BY <1>1 DEF Init, TypeOK
<1>3. Accounted
  BY FS_EmptySet, SumNone DEF Init, Accounted, UsageExact, ChargeOf, DestructorClean
<1>. QED  BY <1>1, <1>2, <1>3 DEF Init, IInv, TableExact, RefsExact, ListsExact, NotFreedInUse

(* Every step of the two threads is a call of the cache or leaves it alone.*)
LEMMA ThreadsCallTheCache ==
  ASSUME OpeningOK, [Next]_vars
  PROVE  OpeningOK' /\ [CacheNext]_cacheVars
<1>0. OpeningOK'
  BY DEF OpeningOK, Next, ThreadStep, FindHit, FindMiss, OpenTable, OpenFails,
         ReleaseTable, Evict, DestroyTableCache, Terminated, vars
<1>. SUFFICES [CacheNext]_cacheVars
  BY <1>0
<1>1. CASE \E t \in Threads : ThreadStep(t)
  <2>. PICK t \in Threads : ThreadStep(t)
    BY <1>1
  <2>1. CASE \E file \in Keys : FindHit(t, file) \/ FindMiss(t, file)
    BY <2>1 DEF FindHit, FindMiss, CacheNext
  <2>2. CASE \E e \in Entries : ReleaseTable(t, e)
    BY <2>2 DEF ReleaseTable, CacheNext
  <2>3. CASE \E e \in Entries, c \in Charges : OpenTable(t, c, e)
    <3>1. PICK e \in Entries, c \in Charges : Insert(opening[t], c, e)
      BY <2>3 DEF OpenTable
    <3>2. opening[t] \in Keys
      BY <2>3 DEF OpeningOK, OpenTable
    <3>. QED  BY <3>1, <3>2 DEF CacheNext
  <2>4. CASE OpenFails(t)
    BY <2>4 DEF OpenFails
  <2>. QED  BY <2>1, <2>2, <2>3, <2>4 DEF ThreadStep
<1>2. CASE DestroyTableCache
  BY <1>2 DEF DestroyTableCache, CacheNext
<1>3. CASE Terminated \/ UNCHANGED vars
  BY <1>3 DEF Terminated, vars
<1>4. CASE \E t \in Threads, file \in Keys : Evict(t, file)
  BY <1>4 DEF Evict, CacheNext
<1>. QED  BY <1>1, <1>2, <1>3, <1>4 DEF Next

LEMMA Inductive == Spec => []IInv
<1>1. TableInit => IInv /\ OpeningOK
  BY InitKeeps DEF TableInit, OpeningOK
<1>2. IInv /\ OpeningOK /\ [Next]_vars => (IInv /\ OpeningOK)'
  BY CacheKeeps, ThreadsCallTheCache
<1>. QED  BY <1>1, <1>2, PTL DEF Spec

(* Every field of the cache keeps its type.                                *)
THEOREM TypeCorrect == Spec => []TypeOK
<1>1. IInv => TypeOK
  BY DEF IInv
<1>. QED  BY <1>1, Inductive, PTL

(* However the two threads interleave their lookups, reads of files and    *)
(* insertions, and whatever is evicted or erased: the hash table of        *)
(* util/cache.cc finds exactly the live entries marked in_cache, so the    *)
(* loop of Insert that removes what it evicts by key removes that entry.   *)
THEOREM TableIsExact == Spec => []TableExact
<1>1. IInv => TableExact
  BY DEF IInv
<1>. QED  BY <1>1, Inductive, PTL

(* The reference counts of util/cache.cc are the callers' handles and one; *)
(* what is taken out of the table while in use is therefore never freed.   *)
THEOREM RefsAreExact == Spec => []RefsExact
<1>1. IInv => RefsExact
  BY DEF IInv
<1>. QED  BY <1>1, Inductive, PTL

(* lru_ holds, once each, exactly the entries the cache alone refers to:   *)
(* the assertion of Insert's loop (refs == 1) never fails.                 *)
THEOREM ListsAreExact == Spec => []ListsExact
<1>1. IInv => ListsExact
  BY DEF IInv
<1>. QED  BY <1>1, Inductive, PTL

(* No call frees a table or block while an iterator or a Get holds it.     *)
THEOREM NoEntryFreedInUse == Spec => []NotFreedInUse
<1>1. IInv => NotFreedInUse
  BY DEF IInv
<1>. QED  BY <1>1, Inductive, PTL

(* usage_ is the charge of what is allocated after every call, though one  *)
(* insertion may free many entries: FreeEntry takes off each what Insert   *)
(* put on for it, so eviction (usage_ > capacity_) is never misled.        *)
THEOREM UsageIsExact == Spec => []UsageExact
<1>1. IInv => UsageExact
  BY DEF IInv, Accounted
<1>. QED  BY <1>1, Inductive, PTL

(* ~LRUCacheImpl frees every entry, and its assertion that none is in use  *)
(* fails only after an entry was erased or replaced while in use.          *)
THEOREM DestructorIsClean == Spec => []DestructorClean
<1>1. IInv => DestructorClean
  BY DEF IInv, Accounted
<1>. QED  BY <1>1, Inductive, PTL
=============================================================================
