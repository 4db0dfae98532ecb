-------------------------- MODULE IteratorsProofs --------------------------
(***************************************************************************)
(* The iterator is a cursor over the keys of its snapshot, for every value *)
(* of the constants.  Each layer is shown to find what it is asked for,    *)
(* and nothing is said of the layers below it but that: the searches of    *)
(* the skip list and of a block; the table that TableBuilder makes, and    *)
(* TwoLevelIterator and InternalGet over it; MergingIterator over children *)
(* that each find the nearest entry; DBIter's loops over the merging       *)
(* iterator.                                                               *)
(*                                                                         *)
(* The loops are recursive functions (Loop of SkipList); a lemma ...Run    *)
(* names the turns of each, a lemma about one turn says what it preserves, *)
(* and LoopEnds that there are turns enough.  IterInv is the invariant.    *)
(***************************************************************************)
EXTENDS Iterators, NumberLemmas, SequenceTheorems

-----------------------------------------------------------------------------
(* Keys and loops.                                                         *)

(* x is the first, or the last, of the keys in R; Nil if there is none.    *)
IsFirst(x, R) == IF R = {} THEN x = Nil ELSE x \in R /\ \A e \in R \ {x} : Before(x, e)
IsLast(x, R)  == IF R = {} THEN x = Nil ELSE x \in R /\ \A e \in R \ {x} : Before(e, x)

(* InternalKeyComparator is a strict total order.                          *)
LEMMA KeyOrder ==
  ASSUME NEW a \in InternalKeys, NEW b \in InternalKeys
  PROVE  /\ ~Before(a, a)
         /\ Before(a, b) => ~Before(b, a)
         /\ a = b \/ Before(a, b) \/ Before(b, a)
<1>1. /\ a.user \in Nat /\ a.seq \in Nat /\ a.type \in {0, 1}
      /\ b.user \in Nat /\ b.seq \in Nat /\ b.type \in {0, 1}
  BY DEF InternalKeys, kTypeDeletion, kTypeValue
<1>2. a.user = b.user /\ a.seq = b.seq /\ a.type = b.type => a = b
  BY DEF InternalKeys
<1>3. QED
  BY <1>1, <1>2 DEF Before

(* It is transitive.                                                       *)
LEMMA KeyOrderTransitive ==
  ASSUME NEW a \in InternalKeys, NEW b \in InternalKeys, NEW c \in InternalKeys, Before(a, b), Before(b, c)
  PROVE  Before(a, c)
<1>1. /\ a.user \in Nat /\ a.seq \in Nat /\ a.type \in {0, 1}
      /\ b.user \in Nat /\ b.seq \in Nat /\ b.type \in {0, 1}
      /\ c.user \in Nat /\ c.seq \in Nat /\ c.type \in {0, 1}
  BY DEF InternalKeys, kTypeDeletion, kTypeValue
<1>2. QED
  BY <1>1 DEF Before

(* A loop ends within n turns when each turn before the end shrinks a set  *)
(* that has fewer than n elements.                                         *)
LEMMA LoopEnds ==
  ASSUME NEW S, IsFiniteSet(S), NEW n \in Nat, Cardinality(S) < n, NEW M, NEW Stopped,
         \A i \in 0 .. n : M[i] \subseteq S,
         \A i \in 1 .. n : i - 1 \in Stopped => i \in Stopped,
         \A i \in 1 .. n : i - 1 \notin Stopped => i \in Stopped \/ (M[i] \subseteq M[i - 1] /\ M[i] # M[i - 1])
  PROVE  n \in Stopped
<1> DEFINE T == {i \in 0 .. n : i \in Stopped \/ Cardinality(M[i]) + i <= Cardinality(S)}
<1>1. \A i \in 0 .. n : IsFiniteSet(M[i]) /\ Cardinality(M[i]) \in Nat /\ Cardinality(M[i]) <= Cardinality(S)
  BY FS_Subset, FS_CardinalityType
<1>2. Cardinality(S) \in Nat
  BY FS_CardinalityType
<1>3. 0 \in T
  BY <1>1, <1>2
<1>4. ASSUME NEW i \in 1 .. n, i - 1 \in T PROVE i \in T
  <2>1. CASE i \in Stopped
    BY <2>1
  <2>2. CASE i \notin Stopped
    <3>1. i - 1 \in 0 .. n /\ i - 1 \notin Stopped
      BY <2>2
    <3>2. M[i] \subseteq M[i - 1] /\ M[i] # M[i - 1]
      BY <2>2, <3>1
    <3>3. Cardinality(M[i]) <= Cardinality(M[i - 1]) /\ Cardinality(M[i]) # Cardinality(M[i - 1])
      BY <1>1, <3>1, <3>2, FS_Subset
    <3>4. Cardinality(M[i - 1]) + (i - 1) <= Cardinality(S)
      BY <1>4, <3>1
    <3>5. Cardinality(M[i]) \in Nat /\ Cardinality(M[i - 1]) \in Nat
      BY <1>1, <3>1
    <3>6. Cardinality(M[i]) + i <= Cardinality(S)
      BY <1>2, <3>3, <3>4, <3>5
    <3>7. QED
      BY <3>6
  <2>3. QED
    BY <2>1, <2>2
<1>5. n \in T
  <2> HIDE DEF T
  <2>1. QED
    BY <1>3, <1>4, UpTo
<1>6. QED
  BY <1>1, <1>2, <1>5

(* A finite set of keys has a first and a last one.                        *)
LEMMA FirstAndLast ==
  ASSUME NEW S \in SUBSET InternalKeys, IsFiniteSet(S), S # {}
  PROVE  (\E x \in S : IsFirst(x, S)) /\ (\E x \in S : IsLast(x, S))
<1> DEFINE Bad == {U \in FiniteSubsetsOf(S) : U # {} /\ ~((\E x \in U : IsFirst(x, U)) /\ (\E x \in U : IsLast(x, U)))}
<1>1. SUFFICES ASSUME Bad # {} PROVE FALSE
  BY DEF FiniteSubsetsOf
<1>2. PICK U \in Bad : \A V \in Bad : ~(<<V, U>> \in StrictSubsetOrdering(S))
  <2>1. IsWellFoundedOn(StrictSubsetOrdering(S), FiniteSubsetsOf(S))
    BY FS_StrictSubsetOrderingWellFounded
  <2>2. QED
    BY <1>1, <2>1, WFMin
<1>3. U \subseteq S /\ IsFiniteSet(U) /\ U # {}
  BY DEF FiniteSubsetsOf
<1>4. ~((\E x \in U : IsFirst(x, U)) /\ (\E x \in U : IsLast(x, U)))
  BY <1>2
<1>5. PICK x \in U : TRUE
  BY <1>3
<1> DEFINE V == U \ {x}
<1>6. V \in FiniteSubsetsOf(S)
  BY <1>3, FS_RemoveElement DEF FiniteSubsetsOf
<1>7. <<V, U>> \in StrictSubsetOrdering(S)
  BY <1>3, <1>5 DEF StrictSubsetOrdering
<1>8. V \notin Bad
  BY <1>2, <1>7
<1>9. V # {}
  <2>1. ASSUME V = {} PROVE IsFirst(x, U) /\ IsLast(x, U)
    BY <1>5, <2>1 DEF IsFirst, IsLast
  <2>2. QED
    BY <1>4, <1>5, <2>1
<1>10. PICK f \in V, g \in V : IsFirst(f, V) /\ IsLast(g, V)
  BY <1>6, <1>8, <1>9
<1>11. \A e \in U : e = x \/ e \in V
  OBVIOUS
<1>12. V \subseteq InternalKeys /\ x \in InternalKeys
  BY <1>3, <1>5
<1>13. \E y \in U : IsFirst(y, U)
  <2>1. (\A e \in V \ {f} : Before(f, e)) /\ f \in U /\ x # f /\ f \in InternalKeys
    BY <1>9, <1>10, <1>12 DEF IsFirst
  <2>2. CASE Before(f, x)
    BY <1>11, <2>1, <2>2 DEF IsFirst
  <2>3. CASE Before(x, f)
    <3>1. \A e \in V : Before(x, e)
      BY <1>12, <2>1, <2>3, KeyOrderTransitive
    <3>2. QED
      BY <1>5, <1>11, <3>1 DEF IsFirst
  <2>4. QED
    BY <1>12, <2>1, <2>2, <2>3, KeyOrder
<1>14. \E y \in U : IsLast(y, U)
  <2>1. (\A e \in V \ {g} : Before(e, g)) /\ g \in U /\ x # g /\ g \in InternalKeys
    BY <1>9, <1>10, <1>12 DEF IsLast
  <2>2. CASE Before(x, g)
    BY <1>11, <2>1, <2>2 DEF IsLast
  <2>3. CASE Before(g, x)
    <3>1. \A e \in V : Before(e, x)
      BY <1>12, <2>1, <2>3, KeyOrderTransitive
    <3>2. QED
      BY <1>5, <1>11, <3>1 DEF IsLast
  <2>4. QED
    BY <1>12, <2>1, <2>2, <2>3, KeyOrder
<1>15. QED
  BY <1>4, <1>13, <1>14

-----------------------------------------------------------------------------
(* The skip list.                                                          *)

(* The keys of R that x stands before; the head stands before all of them. *)
Beyond(x, R) == {e \in R : x = ListHead \/ Before(x, e)}

(* The nodes of a level are linked in order, from the head to Nil.         *)
LevelOK(list, l) ==
  /\ IsFiniteSet(DOMAIN list.next[l]) /\ ListHead \in DOMAIN list.next[l]
  /\ Nodes(list, l) \subseteq InternalKeys
  /\ \A x \in DOMAIN list.next[l] : IsFirst(list.next[l][x], Beyond(x, Nodes(list, l)))

(* A skip list as insertions leave it: its levels are linked, each a part  *)
(* of the one below, and those not in use empty.                           *)
ListOK(list) ==
  /\ list.max_height \in 1 .. MaxHeight
  /\ \A l \in 0 .. MaxHeight - 1 : LevelOK(list, l)
  /\ \A l \in 1 .. MaxHeight - 1 : Nodes(list, l) \subseteq Nodes(list, l - 1)
  /\ \A l \in list.max_height .. MaxHeight - 1 : Nodes(list, l) = {}

(* The target of a search of the list: a key, or Nil for its end.          *)
SearchTarget(target) == target = Nil \/ target \in InternalKeys

(* y is where a search of level l for the target stops.                    *)
Stop(list, l, target, y) ==
  /\ y \in DOMAIN list.next[l]
  /\ y = ListHead \/ KeyIsAfterNode(target, y)
  /\ \A e \in Nodes(list, l) : KeyIsAfterNode(target, e) => y # ListHead /\ (e = y \/ Before(e, y))

(* One turn of the search of a level.                                      *)
LevelTurn(list, l, target, n) ==
  IF KeyIsAfterNode(target, list.next[l][n]) THEN list.next[l][n] ELSE n

(* The turns of StopOnLevel.                                               *)
LEMMA LevelRun ==
  ASSUME NEW list, NEW l, NEW target, NEW x, NEW n \in Nat, n = Cardinality(DOMAIN list.next[l])
  PROVE  \E r : /\ StopOnLevel(list, l, x, target) = r[n]
                /\ r[0] = x /\ \A i \in 1 .. n : r[i] = LevelTurn(list, l, target, r[i - 1])
<1> DEFINE Turn(y) == LevelTurn(list, l, target, y)
           Runs(r, m) == r = [i \in 0 .. m |-> IF i = 0 THEN x ELSE Turn(r[i - 1])]
           T == {m \in Nat : \E r : Runs(r, m)}
<1>0. StopOnLevel(list, l, x, target) = Loop(n, x, Turn)
  BY DEF StopOnLevel, LevelTurn
<1> HIDE DEF Turn
<1>1. 0 \in T
  <2>1. Runs([i \in 0 .. 0 |-> x], 0)
    OBVIOUS
  <2>2. QED
    BY <2>1
<1>2. ASSUME NEW m \in 1 .. n, m - 1 \in T PROVE m \in T
  <2>1. PICK r : Runs(r, m - 1)
    BY <1>2
  <2>2. Runs([i \in 0 .. m |-> IF i = 0 THEN x ELSE Turn(r[i - 1])], m)
    BY <2>1
  <2> HIDE DEF Runs
  <2>3. QED
    BY <2>2
<1>3. n \in T
  <2> HIDE DEF T
  <2>1. QED
    BY <1>1, <1>2, UpTo
<1> DEFINE r == CHOOSE r : Runs(r, n)
<1>4. Runs(r, n)
  BY <1>3
<1>5. Loop(n, x, Turn) = r[n]
  BY DEF Loop
<1> HIDE DEF r
<1>6. r[0] = x /\ \A i \in 1 .. n : r[i] = Turn(r[i - 1])
  BY <1>4
<1>7. QED
  BY <1>0, <1>5, <1>6 DEF Turn

(* A search of a level stops at the last node before the target.           *)
LEMMA StopsThere ==
  ASSUME NEW list, NEW l, LevelOK(list, l), NEW target, SearchTarget(target),
         NEW x \in DOMAIN list.next[l], x = ListHead \/ KeyIsAfterNode(target, x)
  PROVE  Stop(list, l, target, StopOnLevel(list, l, x, target))
<1> DEFINE D == DOMAIN list.next[l]
           N == Nodes(list, l)
           n == Cardinality(D)
<1>1. /\ N \subseteq InternalKeys /\ N = D \ {ListHead} /\ ListHead \in D /\ IsFiniteSet(D) /\ IsFiniteSet(N)
      /\ n \in Nat /\ Cardinality(N) < n
  <2>1. IsFiniteSet(D) /\ ListHead \in D /\ N = D \ {ListHead} /\ N \subseteq InternalKeys
    BY DEF LevelOK, Nodes
  <2>2. IsFiniteSet(N) /\ Cardinality(N) = n - 1 /\ n \in Nat
    BY <2>1, FS_RemoveElement, FS_CardinalityType
  <2>3. QED
    BY <2>1, <2>2
<1>2. PICK r : /\ StopOnLevel(list, l, x, target) = r[n]
               /\ r[0] = x /\ \A i \in 1 .. n : r[i] = LevelTurn(list, l, target, r[i - 1])
  BY <1>1, LevelRun
<1>3. \A y \in D : IsFirst(list.next[l][y], Beyond(y, N))
  BY DEF LevelOK
<1>4. ListHead \notin InternalKeys /\ Nil \notin InternalKeys
  BY ListAssumption
<1> DEFINE T == {i \in 0 .. n : r[i] \in D /\ (r[i] = ListHead \/ KeyIsAfterNode(target, r[i]))}
           M == [i \in 0 .. n |-> Beyond(r[i], N)]
           Stopped == {i \in 0 .. n : ~KeyIsAfterNode(target, list.next[l][r[i]])}
<1>5. ASSUME NEW y \in D, KeyIsAfterNode(target, list.next[l][y])
      PROVE  list.next[l][y] \in N /\ list.next[l][y] \in Beyond(y, N)
  BY <1>1, <1>3, <1>5 DEF IsFirst, Beyond, KeyIsAfterNode
<1>6. ASSUME NEW i \in 0 .. n PROVE i \in T
  <2>1. 0 \in T
    BY <1>1, <1>2
  <2>2. ASSUME NEW j \in 1 .. n, j - 1 \in T PROVE j \in T
    BY <1>1, <1>2, <1>5, <2>2 DEF LevelTurn
  <2> HIDE DEF T
  <2>3. QED
    BY <1>1, <2>1, <2>2, UpTo
<1>7. n \in Stopped
  <2>1. \A i \in 0 .. n : M[i] \subseteq N
    BY DEF Beyond
  <2>2. \A i \in 1 .. n : i - 1 \in Stopped => i \in Stopped
    BY <1>1, <1>2 DEF LevelTurn
  <2>3. ASSUME NEW i \in 1 .. n, i - 1 \notin Stopped
        PROVE  M[i] \subseteq M[i - 1] /\ M[i] # M[i - 1]
    <3>1. i - 1 \in 0 .. n /\ r[i - 1] \in D /\ KeyIsAfterNode(target, list.next[l][r[i - 1]])
      BY <1>1, <1>6, <2>3
    <3>2. r[i] = list.next[l][r[i - 1]] /\ r[i] \in N /\ r[i] \in Beyond(r[i - 1], N)
      BY <1>2, <1>5, <3>1 DEF LevelTurn
    <3>3. r[i] \notin Beyond(r[i], N)
      BY <1>1, <1>4, <3>2, KeyOrder DEF Beyond
    <3>4. \A e \in Beyond(r[i], N) : e \in Beyond(r[i - 1], N)
      BY <1>1, <1>4, <3>1, <3>2, KeyOrderTransitive DEF Beyond
    <3>5. M[i] = Beyond(r[i], N) /\ M[i - 1] = Beyond(r[i - 1], N)
      BY <1>1, <3>1
    <3> HIDE DEF M
    <3>6. QED
      BY <3>2, <3>3, <3>4, <3>5
  <2>4. \A i \in 1 .. n : i - 1 \notin Stopped => i \in Stopped \/ (M[i] \subseteq M[i - 1] /\ M[i] # M[i - 1])
    BY <2>3
  <2>5. IsFiniteSet(N) /\ n \in Nat /\ Cardinality(N) < n
    BY <1>1
  <2> HIDE DEF M, Stopped, N, n
  <2>6. QED
    BY ONLY <2>1, <2>2, <2>4, <2>5, LoopEnds
<1> DEFINE y == r[n]
<1>8. y \in D /\ (y = ListHead \/ KeyIsAfterNode(target, y)) /\ ~KeyIsAfterNode(target, list.next[l][y])
  BY <1>1, <1>6, <1>7
<1> HIDE DEF y
<1>9. ASSUME NEW e \in N, KeyIsAfterNode(target, e) PROVE y # ListHead /\ (e = y \/ Before(e, y))
  <2>1. SUFFICES ASSUME e \in Beyond(y, N) PROVE FALSE
    BY <1>1, <1>8, KeyOrder DEF Beyond
  <2> DEFINE z == list.next[l][y]
  <2>2. z \in N /\ (e = z \/ Before(z, e))
    BY <1>3, <1>8, <2>1 DEF IsFirst, Beyond
  <2>3. ~KeyIsAfterNode(target, z)
    BY <1>8
  <2> HIDE DEF z
  <2>4. z \in InternalKeys /\ e \in InternalKeys /\ z # Nil
    BY <1>1, <1>4, <2>2
  <2>5. QED
    BY <1>9, <2>2, <2>3, <2>4, KeyOrderTransitive DEF KeyIsAfterNode, SearchTarget
<1>10. QED
  BY <1>2, <1>8, <1>9 DEF Stop, y

(* A level is entered where the level above it was left.                   *)
LEMMA PrevsRun ==
  ASSUME NEW list, NEW target, NEW h \in Nat \ {0}, list.max_height = h
  PROVE  \A l \in 0 .. h - 1 :
           Prevs(list, target)[l] =
             StopOnLevel(list, l, IF l = h - 1 THEN ListHead ELSE Prevs(list, target)[l + 1], target)
<1> DEFINE From(l, x) == StopOnLevel(list, l, x, target)
           Runs(r, m) == r = [l \in h - m .. h - 1 |-> From(l, IF l = h - 1 THEN ListHead ELSE r[l + 1])]
           T == {m \in 0 .. h : \E r : Runs(r, m)}
<1>0. Prevs(list, target) =
        CHOOSE r : r = [l \in 0 .. h - 1 |-> From(l, IF l = h - 1 THEN ListHead ELSE r[l + 1])]
  BY Zenon DEF Prevs
<1> HIDE DEF From
<1>1. 0 \in T
  <2>1. h - 0 .. h - 1 = {}
    OBVIOUS
  <2>2. Runs([l \in {} |-> 0], 0)
    BY <2>1
  <2> HIDE DEF Runs
  <2>3. QED
    BY <2>2
<1>2. ASSUME NEW m \in 1 .. h, m - 1 \in T PROVE m \in T
  <2>1. PICK r : Runs(r, m - 1)
    BY <1>2
  <2> DEFINE q == [l \in h - m .. h - 1 |-> From(l, IF l = h - 1 THEN ListHead ELSE r[l + 1])]
  <2>2. ASSUME NEW l \in h - (m - 1) .. h - 1 PROVE q[l] = r[l]
    <3>1. r[l] = From(l, IF l = h - 1 THEN ListHead ELSE r[l + 1])
      BY <2>1
    <3>2. l \in h - m .. h - 1
      OBVIOUS
    <3>3. QED
      BY <3>1, <3>2
  <2>3. ASSUME NEW l \in h - m .. h - 1 PROVE q[l] = From(l, IF l = h - 1 THEN ListHead ELSE q[l + 1])
    <3>1. CASE l = h - 1
      BY <3>1
    <3>2. CASE l # h - 1
      <4>1. l + 1 \in h - (m - 1) .. h - 1
        BY <3>2
      <4>2. q[l] = From(l, r[l + 1])
        BY <3>2
      <4>3. QED
        BY <2>2, <3>2, <4>1, <4>2
    <3>3. QED
      BY <3>1, <3>2
  <2>4. Runs(q, m)
    <3>1. q = [l \in h - m .. h - 1 |-> q[l]]
      OBVIOUS
    <3> HIDE DEF q
    <3>2. QED
      BY <2>3, <3>1
  <2> HIDE DEF Runs, q
  <2>5. QED
    BY <2>4
<1>3. h \in T
  <2> HIDE DEF T
  <2>1. QED
    BY <1>1, <1>2, UpTo
<1>4. PICK r : Runs(r, h)
  BY <1>3
<1>5. r = [l \in 0 .. h - 1 |-> From(l, IF l = h - 1 THEN ListHead ELSE r[l + 1])]
  BY <1>4
<1> DEFINE p == Prevs(list, target)
<1>6. p = [l \in 0 .. h - 1 |-> From(l, IF l = h - 1 THEN ListHead ELSE p[l + 1])]
  BY <1>0, <1>5, Zenon
<1> HIDE DEF p
<1>7. \A l \in 0 .. h - 1 : p[l] = From(l, IF l = h - 1 THEN ListHead ELSE p[l + 1])
  BY <1>6
<1>8. QED
  BY <1>7 DEF From, p

(* On every level the search stops at the last node before the target.     *)
LEMMA PrevsStop ==
  ASSUME NEW list, ListOK(list), NEW target, SearchTarget(target), NEW k \in 0 .. list.max_height - 1
  PROVE  Stop(list, k, target, Prevs(list, target)[k])
<1> DEFINE h == list.max_height
           p == Prevs(list, target)
           T == {i \in 0 .. h - 1 : Stop(list, h - 1 - i, target, p[h - 1 - i])}
<1>1. h \in 1 .. MaxHeight /\ h \in Nat \ {0} /\ MaxHeight \in Nat
  BY ListAssumption DEF ListOK
<1>2. \A l \in 0 .. h - 1 : LevelOK(list, l) /\ ListHead \in DOMAIN list.next[l]
  BY <1>1 DEF ListOK, LevelOK
<1>3. \A l \in 0 .. h - 1 : p[l] = StopOnLevel(list, l, IF l = h - 1 THEN ListHead ELSE p[l + 1], target)
  BY <1>1, PrevsRun
<1> HIDE DEF p
<1>4. 0 \in T
  <2>1. h - 1 \in 0 .. h - 1 /\ h - 1 - 0 = h - 1
    BY <1>1
  <2>2. p[h - 1] = StopOnLevel(list, h - 1, ListHead, target)
    BY <1>3, <2>1
  <2>3. Stop(list, h - 1, target, p[h - 1])
    BY <1>2, <2>1, <2>2, StopsThere
  <2>4. QED
    BY <1>1, <2>1, <2>3
<1>5. ASSUME NEW i \in 1 .. h - 1, i - 1 \in T PROVE i \in T
  <2> DEFINE l == h - 1 - i
  <2>1. l \in 0 .. h - 1 /\ l + 1 \in 1 .. h - 1 /\ l + 1 = h - 1 - (i - 1) /\ l # h - 1 /\ l + 1 \in 1 .. MaxHeight - 1
    BY <1>1
  <2>2. Stop(list, l + 1, target, p[l + 1])
    BY <1>5, <2>1
  <2> HIDE DEF l
  <2>3. p[l] = StopOnLevel(list, l, p[l + 1], target)
    BY <1>3, <2>1
  <2>4. Nodes(list, l + 1) \subseteq Nodes(list, l)
    <3>1. \A m \in 1 .. MaxHeight - 1 : Nodes(list, m) \subseteq Nodes(list, m - 1)
      BY DEF ListOK
    <3>2. l + 1 - 1 = l
      BY <2>1
    <3>3. QED
      BY <2>1, <3>1, <3>2
  <2>5. p[l + 1] \in DOMAIN list.next[l] /\ (p[l + 1] = ListHead \/ KeyIsAfterNode(target, p[l + 1]))
    BY <1>2, <2>1, <2>2, <2>4 DEF Stop, Nodes
  <2>6. Stop(list, l, target, p[l])
    BY <1>2, <2>1, <2>3, <2>5, StopsThere
  <2>7. QED
    BY <2>1, <2>6 DEF l
<1>6. \A i \in 0 .. h - 1 : i \in T
  <2> HIDE DEF T
  <2>1. QED
    BY <1>1, <1>4, <1>5, UpTo
<1>7. h - 1 - k \in 0 .. h - 1 /\ h - 1 - (h - 1 - k) = k
  BY <1>1
<1>8. QED
  BY <1>6, <1>7 DEF p

(* What the searches of a list return.                                     *)
LEMMA ListSearch ==
  ASSUME NEW list, ListOK(list), NEW target \in InternalKeys
  PROVE  /\ IsFirst(FindGreaterOrEqual(list, target), {e \in ListEntries(list) : ~Before(e, target)})
         /\ IsLast(OrNil(FindLessThan(list, target)), {e \in ListEntries(list) : Before(e, target)})
<1> DEFINE N == Nodes(list, 0)
           y == Prevs(list, target)[0]
<1>1. list.max_height \in 1 .. MaxHeight /\ MaxHeight \in Nat
  BY ListAssumption DEF ListOK
<1>2. Stop(list, 0, target, y)
  BY <1>1, PrevsStop DEF SearchTarget
<1> HIDE DEF y
<1>3. LevelOK(list, 0) /\ N \subseteq InternalKeys /\ ListHead \notin N
  <2>1. LevelOK(list, 0)
    BY <1>1 DEF ListOK
  <2>2. QED
    BY <2>1 DEF LevelOK, Nodes
<1>4. ListHead \notin InternalKeys /\ Nil \notin InternalKeys
  BY ListAssumption
<1>5. y \in DOMAIN list.next[0] /\ (y = ListHead \/ (y \in N /\ Before(y, target)))
  BY <1>2, <1>4 DEF Stop, KeyIsAfterNode, Nodes
<1>6. \A e \in N : Before(e, target) => y # ListHead /\ (e = y \/ Before(e, y))
  BY <1>2, <1>3, <1>4 DEF Stop, KeyIsAfterNode
<1>7. ASSUME NEW e \in N PROVE e \in Beyond(y, N) <=> ~Before(e, target)
  <2>1. ASSUME e \in Beyond(y, N), Before(e, target) PROVE FALSE
    BY <1>3, <1>5, <1>6, <2>1, KeyOrder DEF Beyond
  <2>2. ASSUME ~Before(e, target), y # ListHead PROVE Before(y, e)
    <3>1. y \in InternalKeys /\ e \in InternalKeys /\ Before(y, target)
      BY <1>3, <1>5, <2>2
    <3>2. e = target \/ Before(target, e)
      BY <2>2, <3>1, KeyOrder
    <3>3. QED
      BY <3>1, <3>2, KeyOrderTransitive
  <2>3. QED
    BY <2>1, <2>2 DEF Beyond
<1>8. Beyond(y, N) = {e \in N : ~Before(e, target)}
  BY <1>7 DEF Beyond
<1>9. IsFirst(list.next[0][y], Beyond(y, N))
  BY <1>3, <1>5 DEF LevelOK
<1>10. IsLast(OrNil(y), {e \in N : Before(e, target)})
  <2>1. CASE y = ListHead
    BY <1>6, <2>1 DEF IsLast, OrNil
  <2>2. CASE y # ListHead
    BY <1>5, <1>6, <2>2 DEF IsLast, OrNil
  <2>3. QED
    BY <2>1, <2>2
<1>11. QED
  BY <1>8, <1>9, <1>10 DEF FindGreaterOrEqual, FindLessThan, ListEntries, y

(* What the moves of a MemTableIterator return.                            *)
LEMMA ListMoves ==
  ASSUME NEW list, ListOK(list)
  PROVE  /\ IsFirst(MemSeekToFirst(list), ListEntries(list))
         /\ IsLast(MemSeekToLast(list), ListEntries(list))
         /\ \A n \in ListEntries(list) :
              /\ IsFirst(MemNext(list, n), {e \in ListEntries(list) : Before(n, e)})
              /\ IsLast(MemPrev(list, n), {e \in ListEntries(list) : Before(e, n)})
<1> DEFINE N == Nodes(list, 0)
           y == Prevs(list, Nil)[0]
<1>1. list.max_height \in 1 .. MaxHeight /\ MaxHeight \in Nat
  BY ListAssumption DEF ListOK
<1>2. Stop(list, 0, Nil, y)
  BY <1>1, PrevsStop DEF SearchTarget
<1> HIDE DEF y
<1>3. /\ LevelOK(list, 0) /\ N \subseteq InternalKeys /\ ListHead \notin N
      /\ ListHead \in DOMAIN list.next[0] /\ N \subseteq DOMAIN list.next[0]
  <2>1. LevelOK(list, 0)
    BY <1>1 DEF ListOK
  <2>2. QED
    BY <2>1 DEF LevelOK, Nodes
<1>4. ListHead \notin InternalKeys /\ Nil \notin InternalKeys /\ ListHead # Nil
  BY ListAssumption
<1>5. IsLast(OrNil(y), N)
  <2>1. \A e \in N : KeyIsAfterNode(Nil, e)
    BY <1>3, <1>4 DEF KeyIsAfterNode
  <2>2. y \in DOMAIN list.next[0] /\ \A e \in N : y # ListHead /\ (e = y \/ Before(e, y))
    BY <1>2, <2>1 DEF Stop
  <2>3. QED
    BY <2>2 DEF IsLast, OrNil, Nodes
<1>6. IsFirst(list.next[0][ListHead], N)
  <2>1. Beyond(ListHead, N) = N
    BY DEF Beyond
  <2>2. QED
    BY <1>3, <2>1 DEF LevelOK
<1>7. ASSUME NEW n \in N
      PROVE  /\ IsFirst(MemNext(list, n), {e \in N : Before(n, e)})
             /\ IsLast(MemPrev(list, n), {e \in N : Before(e, n)})
  <2>1. Beyond(n, N) = {e \in N : Before(n, e)}
    BY <1>3 DEF Beyond
  <2>2. IsFirst(MemNext(list, n), {e \in N : Before(n, e)})
    BY <1>3, <2>1 DEF LevelOK, MemNext
  <2>3. IsLast(MemPrev(list, n), {e \in N : Before(e, n)})
    BY <1>3, ListSearch DEF MemPrev, ListEntries
  <2>4. QED
    BY <2>2, <2>3
<1>8. QED
  BY <1>5, <1>6, <1>7 DEF MemSeekToFirst, MemSeekToLast, FindLast, ListEntries, y

(* Linking a node into a level, after the last node before it.             *)
LEMMA LinkLevel ==
  ASSUME NEW list, NEW l, LevelOK(list, l), NEW e \in InternalKeys, e \notin Nodes(list, l),
         NEW p, Stop(list, l, e, p),
         NEW new, new.next[l] = [x \in DOMAIN list.next[l] \cup {e} |->
                                   IF x = e THEN list.next[l][p] ELSE IF x = p THEN e ELSE list.next[l][x]]
  PROVE  LevelOK(new, l) /\ Nodes(new, l) = Nodes(list, l) \cup {e}
<1> DEFINE D == DOMAIN list.next[l]
           N == Nodes(list, l)
           f == list.next[l]
           g == new.next[l]
<1>1. ListHead \notin InternalKeys /\ Nil \notin InternalKeys
  BY ListAssumption
<1>2. /\ IsFiniteSet(D) /\ ListHead \in D /\ N \subseteq InternalKeys /\ N = D \ {ListHead} /\ ListHead \notin N
      /\ \A x \in D : IsFirst(f[x], Beyond(x, N))
  BY DEF LevelOK, Nodes
<1>3. e \notin D
  BY <1>1, <1>2
<1>4. p \in D /\ (p = ListHead \/ (p \in N /\ Before(p, e)))
  BY <1>1, <1>2 DEF Stop, KeyIsAfterNode
<1>5. \A a \in N : Before(a, e) => p # ListHead /\ (a = p \/ Before(a, p))
  BY <1>1, <1>2 DEF Stop, KeyIsAfterNode
<1>6. /\ DOMAIN g = D \cup {e} /\ g[e] = f[p] /\ g[p] = e
      /\ \A x \in D \ {p} : g[x] = f[x]
  BY <1>3, <1>4
<1>7. Nodes(new, l) = N \cup {e}
  BY <1>1, <1>2, <1>6 DEF Nodes
<1> DEFINE M == N \cup {e}
<1> HIDE DEF N, f, g, D, M
<1>8. \A a \in N : a \in InternalKeys /\ a # e /\ (a \in Beyond(p, N) <=> Before(e, a))
  <2>1. SUFFICES ASSUME NEW a \in N PROVE a \in InternalKeys /\ a # e /\ (a \in Beyond(p, N) <=> Before(e, a))
    OBVIOUS
  <2>2. a \in InternalKeys /\ a # e
    BY <1>2, <1>3
  <2>3. a \in Beyond(p, N) => Before(e, a)
    BY <1>2, <1>4, <1>5, <2>2, KeyOrder DEF Beyond
  <2>4. ASSUME Before(e, a), p # ListHead PROVE Before(p, a)
    <3>1. p \in InternalKeys /\ Before(p, e)
      BY <1>2, <1>4, <2>4
    <3>2. QED
      BY <2>2, <2>4, <3>1, KeyOrderTransitive
  <2>5. QED
    BY <2>2, <2>3, <2>4 DEF Beyond
<1>9. ASSUME NEW x \in D \cup {e} PROVE IsFirst(g[x], Beyond(x, M))
  <2>1. CASE x = e
    <3>1. Beyond(e, M) = Beyond(p, N)
      BY <1>1, <1>8, KeyOrder DEF Beyond, M
    <3>2. QED
      BY <1>2, <1>4, <1>6, <2>1, <3>1
  <2>2. CASE x = p
    <3>1. e \in Beyond(p, M) /\ \A a \in Beyond(p, M) : a = e \/ a \in Beyond(p, N)
      BY <1>4 DEF Beyond, M
    <3>2. \A a \in Beyond(p, N) : a \in N
      BY DEF Beyond
    <3>3. QED
      BY <1>6, <1>8, <2>2, <3>1, <3>2 DEF IsFirst
  <2>3. CASE x # e /\ x # p
    <3>1. x \in D \ {p} /\ g[x] = f[x] /\ IsFirst(f[x], Beyond(x, N))
      BY <1>2, <1>6, <2>3
    <3>2. CASE e \notin Beyond(x, M)
      <4>1. Beyond(x, M) = Beyond(x, N)
        BY <3>2 DEF Beyond, M
      <4>2. QED
        BY <3>1, <4>1
    <3>3. CASE e \in Beyond(x, M)
      <4>1. p \in Beyond(x, N)
        BY <1>2, <1>4, <1>5, <3>1, <3>3 DEF Beyond
      <4>2. f[x] \in N /\ f[x] \in Beyond(x, N) /\ (p = f[x] \/ Before(f[x], p))
        BY <3>1, <4>1 DEF IsFirst, Beyond
      <4>3. p \in N /\ Before(p, e)
        BY <1>2, <1>4, <4>1 DEF Beyond
      <4>4. Before(f[x], e)
        BY <1>8, <4>2, <4>3, KeyOrderTransitive
      <4>5. \A a \in Beyond(x, M) : a = e \/ a \in Beyond(x, N)
        BY DEF Beyond, M
      <4>6. f[x] \in Beyond(x, M)
        BY <4>2 DEF Beyond, M
      <4>7. QED
        BY <3>1, <4>1, <4>4, <4>5, <4>6 DEF IsFirst
    <3>4. QED
      BY <3>2, <3>3
  <2>4. QED
    BY <2>1, <2>2, <2>3
<1>10. IsFiniteSet(D \cup {e}) /\ M \subseteq InternalKeys
  BY <1>2, FS_AddElement DEF M
<1>11. QED
  BY <1>2, <1>6, <1>7, <1>9, <1>10 DEF LevelOK, g, M, N

(* Insert keeps the list in order and adds the entry to it.                *)
LEMMA InsertOK ==
  ASSUME NEW list, ListOK(list), NEW e \in InternalKeys, e \notin ListEntries(list), NEW height \in 1 .. MaxHeight
  PROVE  ListOK(Insert(list, e, height)) /\ ListEntries(Insert(list, e, height)) = ListEntries(list) \cup {e}
<1> DEFINE new == Insert(list, e, height)
           prev == [l \in 0 .. MaxHeight - 1 |-> IF l < list.max_height THEN Prevs(list, e)[l] ELSE ListHead]
<1>1. MaxHeight \in Nat \ {0} /\ list.max_height \in 1 .. MaxHeight
  BY ListAssumption DEF ListOK
<1>2. /\ \A l \in 0 .. MaxHeight - 1 : LevelOK(list, l)
      /\ \A l \in 1 .. MaxHeight - 1 : Nodes(list, l) \subseteq Nodes(list, l - 1)
      /\ \A l \in list.max_height .. MaxHeight - 1 : Nodes(list, l) = {}
  BY DEF ListOK
<1>3. /\ new.max_height = IF height > list.max_height THEN height ELSE list.max_height
      /\ \A l \in 0 .. MaxHeight - 1 : l < height =>
           new.next[l] = [x \in DOMAIN list.next[l] \cup {e} |->
                            IF x = e THEN list.next[l][prev[l]] ELSE IF x = prev[l] THEN e ELSE list.next[l][x]]
      /\ \A l \in 0 .. MaxHeight - 1 : ~(l < height) => new.next[l] = list.next[l]
  BY DEF Insert
<1>4. ASSUME NEW l \in 0 .. MaxHeight - 1 PROVE Stop(list, l, e, prev[l])
  <2>1. CASE l < list.max_height
    <3>1. l \in 0 .. list.max_height - 1 /\ SearchTarget(e)
      BY <1>1, <2>1 DEF SearchTarget
    <3>2. Stop(list, l, e, Prevs(list, e)[l])
      BY <3>1, PrevsStop
    <3>3. QED
      BY <2>1, <3>2
  <2>2. CASE ~(l < list.max_height)
    <3>1. l \in list.max_height .. MaxHeight - 1
      BY <1>1, <2>2
    <3>2. prev[l] = ListHead /\ Nodes(list, l) = {} /\ ListHead \in DOMAIN list.next[l]
      BY <1>2, <2>2, <3>1 DEF LevelOK
    <3>3. QED
      BY <3>2 DEF Stop
  <2>3. QED
    BY <2>1, <2>2
<1> HIDE DEF new, prev
<1>5. ASSUME NEW l \in 0 .. MaxHeight - 1 PROVE e \notin Nodes(list, l)
  <2> DEFINE T == {i \in 0 .. MaxHeight - 1 : e \notin Nodes(list, i)}
  <2>1. 0 \in T
    BY <1>1 DEF ListEntries
  <2>2. \A i \in 1 .. MaxHeight - 1 : i - 1 \in T => i \in T
    BY <1>2
  <2>3. \A i \in 0 .. MaxHeight - 1 : i \in T
    <3> HIDE DEF T
    <3>1. QED
      BY <1>1, <2>1, <2>2, UpTo
  <2>4. QED
    BY <2>3
<1>6. ASSUME NEW l \in 0 .. MaxHeight - 1, l < height
      PROVE  LevelOK(new, l) /\ Nodes(new, l) = Nodes(list, l) \cup {e}
  <2>1. PICK p : p = prev[l]
    OBVIOUS
  <2>2. new.next[l] = [x \in DOMAIN list.next[l] \cup {e} |->
                         IF x = e THEN list.next[l][p] ELSE IF x = p THEN e ELSE list.next[l][x]]
    BY <1>3, <1>6, <2>1
  <2>3. Stop(list, l, e, p) /\ e \notin Nodes(list, l) /\ LevelOK(list, l)
    BY <1>2, <1>4, <1>5, <2>1
  <2>4. QED
    BY <2>2, <2>3, LinkLevel
<1>7. ASSUME NEW l \in 0 .. MaxHeight - 1, ~(l < height)
      PROVE  LevelOK(new, l) /\ Nodes(new, l) = Nodes(list, l)
  BY <1>2, <1>3, <1>7 DEF LevelOK, Nodes
<1>8. \A l \in 1 .. MaxHeight - 1 : Nodes(new, l) \subseteq Nodes(new, l - 1)
  <2>1. SUFFICES ASSUME NEW l \in 1 .. MaxHeight - 1 PROVE Nodes(new, l) \subseteq Nodes(new, l - 1)
    OBVIOUS
  <2>2. l \in 0 .. MaxHeight - 1 /\ l - 1 \in 0 .. MaxHeight - 1 /\ (l < height => l - 1 < height)
    BY <1>1
  <2>3. Nodes(list, l) \subseteq Nodes(list, l - 1)
    BY <1>2
  <2>4. QED
    BY <1>6, <1>7, <2>2, <2>3
<1>9. new.max_height \in 1 .. MaxHeight /\ new.max_height >= list.max_height /\ new.max_height >= height
  BY <1>1, <1>3
<1>10. \A l \in new.max_height .. MaxHeight - 1 : Nodes(new, l) = {}
  <2>1. SUFFICES ASSUME NEW l \in new.max_height .. MaxHeight - 1 PROVE Nodes(new, l) = {}
    OBVIOUS
  <2>2. l \in list.max_height .. MaxHeight - 1 /\ l \in 0 .. MaxHeight - 1 /\ ~(l < height)
    BY <1>1, <1>9
  <2>3. QED
    BY <1>2, <1>7, <2>2
<1>11. 0 \in 0 .. MaxHeight - 1 /\ 0 < height
  BY <1>1
<1>12. ListOK(new)
  BY <1>6, <1>7, <1>8, <1>9, <1>10 DEF ListOK
<1>13. QED
  BY <1>6, <1>11, <1>12 DEF new, ListEntries

(* A new list is empty.                                                    *)
LEMMA EmptyListOK == ListOK(EmptyList) /\ ListEntries(EmptyList) = {}
<1>1. MaxHeight \in Nat \ {0} /\ ListHead \notin InternalKeys
  BY ListAssumption
<1>2. EmptyList.max_height = 1 /\ \A l \in 0 .. MaxHeight - 1 : EmptyList.next[l] = [x \in {ListHead} |-> Nil]
  BY DEF EmptyList
<1>3. \A l \in 0 .. MaxHeight - 1 : Nodes(EmptyList, l) = {} /\ LevelOK(EmptyList, l)
  <2>1. SUFFICES ASSUME NEW l \in 0 .. MaxHeight - 1 PROVE Nodes(EmptyList, l) = {} /\ LevelOK(EmptyList, l)
    OBVIOUS
  <2>2. /\ DOMAIN EmptyList.next[l] = {ListHead} /\ Nodes(EmptyList, l) = {}
        /\ EmptyList.next[l][ListHead] = Nil /\ IsFiniteSet({ListHead})
    BY <1>2, FS_Singleton DEF Nodes
  <2>3. QED
    BY <2>2 DEF LevelOK, IsFirst, Beyond
<1>4. QED
  BY <1>1, <1>2, <1>3 DEF ListOK, ListEntries

(* The list a memtable's writes make holds their entries in order.         *)
LEMMA InsertedOK ==
  ASSUME NEW nodes, NEW n \in Nat, n = Len(nodes),
         \A i \in 1 .. n : nodes[i].entry \in InternalKeys /\ nodes[i].height \in 1 .. MaxHeight,
         \A i, j \in 1 .. n : nodes[i].entry = nodes[j].entry => i = j
  PROVE  ListOK(Inserted(nodes)) /\ ListEntries(Inserted(nodes)) = {nodes[i].entry : i \in 1 .. n}
<1> DEFINE Put(i, y) == Insert(y, nodes[i].entry, nodes[i].height)
           Runs(r, m) == r = [i \in 0 .. m |-> IF i = 0 THEN EmptyList ELSE Put(i, r[i - 1])]
           T == {m \in Nat : \E r : Runs(r, m)}
<1>0. Inserted(nodes) = (CHOOSE r : Runs(r, n))[n]
  BY Zenon DEF Inserted
<1>1. \A i \in 1 .. n : nodes[i].entry \in InternalKeys /\ nodes[i].height \in 1 .. MaxHeight
  OBVIOUS
<1>2. ASSUME NEW i \in 1 .. n, NEW y, ListOK(y), nodes[i].entry \notin ListEntries(y)
      PROVE  ListOK(Put(i, y)) /\ ListEntries(Put(i, y)) = ListEntries(y) \cup {nodes[i].entry}
  BY <1>1, <1>2, InsertOK
<1> HIDE DEF Put
<1>3. 0 \in T
  <2>1. Runs([i \in 0 .. 0 |-> EmptyList], 0)
    OBVIOUS
  <2> HIDE DEF Runs
  <2>2. QED
    BY <2>1
<1>4. ASSUME NEW m \in 1 .. n, m - 1 \in T PROVE m \in T
  <2>1. PICK r : Runs(r, m - 1)
    BY <1>4
  <2>2. Runs([i \in 0 .. m |-> IF i = 0 THEN EmptyList ELSE Put(i, r[i - 1])], m)
    BY <2>1
  <2> HIDE DEF Runs
  <2>3. QED
    BY <2>2
<1>5. n \in T
  <2> HIDE DEF T
  <2>1. \A i \in 1 .. n : i - 1 \in T => i \in T
    BY <1>4
  <2>2. \A i \in 0 .. n : i \in T
    BY <1>3, <2>1, UpTo
  <2>3. QED
    BY <2>2
<1> DEFINE r == CHOOSE r : Runs(r, n)
<1>6. Runs(r, n)
  BY <1>5
<1> HIDE DEF r
<1>7. r[0] = EmptyList /\ \A i \in 1 .. n : r[i] = Put(i, r[i - 1])
  BY <1>1, <1>6
<1> DEFINE U == {m \in 0 .. n : ListOK(r[m]) /\ ListEntries(r[m]) = {nodes[i].entry : i \in 1 .. m}}
<1>8. 0 \in U
  BY <1>1, <1>7, EmptyListOK
<1>9. ASSUME NEW m \in 1 .. n, m - 1 \in U PROVE m \in U
  <2>1. ListOK(r[m - 1]) /\ ListEntries(r[m - 1]) = {nodes[i].entry : i \in 1 .. m - 1}
    BY <1>9
  <2>2. nodes[m].entry \notin ListEntries(r[m - 1])
    <3>1. \A i \in 1 .. m - 1 : i \in 1 .. n /\ i # m
      BY <1>1
    <3>2. QED
      BY <2>1, <3>1
  <2>3. ListOK(r[m]) /\ ListEntries(r[m]) = {nodes[i].entry : i \in 1 .. m - 1} \cup {nodes[m].entry}
    <3>1. PICK y : y = r[m - 1]
      OBVIOUS
    <3>2. r[m] = Put(m, y)
      BY <1>7, <3>1
    <3>3. ListOK(Put(m, y)) /\ ListEntries(Put(m, y)) = ListEntries(y) \cup {nodes[m].entry}
      BY ONLY <1>2, <2>1, <2>2, <3>1
    <3>4. QED
      BY <2>1, <3>1, <3>2, <3>3
  <2>4. {nodes[i].entry : i \in 1 .. m - 1} \cup {nodes[m].entry} = {nodes[i].entry : i \in 1 .. m}
    BY <1>1
  <2>5. QED
    BY <2>3, <2>4
<1>10. n \in U
  <2> HIDE DEF U
  <2>1. n \in Nat
    OBVIOUS
  <2>2. QED
    BY ONLY <1>8, <1>9, <2>1, UpTo
<1>11. QED
  BY <1>0, <1>10, Zenon DEF r

-----------------------------------------------------------------------------
(* Blocks.                                                                 *)

(* A block that was built: entries in order, restart points among them.    *)
BlockOK(b) ==
  /\ Len(b.keys) \in Nat \ {0} /\ NumRestarts(b) \in Nat \ {0}
  /\ \A p \in 1 .. Len(b.keys) : b.keys[p] \in InternalKeys
  /\ \A p, q \in 1 .. Len(b.keys) : p < q => Before(b.keys[p], b.keys[q])
  /\ RestartPoint(b, 0) = 1
  /\ \A i \in 0 .. NumRestarts(b) - 1 : RestartPoint(b, i) \in 1 .. Len(b.keys)
  /\ \A i \in 1 .. NumRestarts(b) - 1 : RestartPoint(b, i - 1) < RestartPoint(b, i)

(* A BlockIter on an entry knows a restart point at or before it.          *)
CursorOK(b, it) ==
  /\ it \in [current : Nat, restart_index : Nat]
  /\ it.current \in 1 .. Len(b.keys) + 1
  /\ BlockValid(b, it) => it.restart_index \in 0 .. NumRestarts(b) - 1 /\ RestartPoint(b, it.restart_index) <= it.current

(* ParseNextKey lands on the entry at pos.                                 *)
LEMMA ParseLands ==
  ASSUME NEW b, BlockOK(b), NEW i \in 0 .. NumRestarts(b) - 1, NEW pos \in 1 .. Len(b.keys) + 1, RestartPoint(b, i) <= pos
  PROVE  ParseNextKey(b, i, pos).current = pos /\ CursorOK(b, ParseNextKey(b, i, pos))
<1>1. Len(b.keys) \in Nat \ {0} /\ NumRestarts(b) \in Nat \ {0}
  BY DEF BlockOK
<1>2. CASE pos > Len(b.keys)
  <2>1. ParseNextKey(b, i, pos) = PastEnd(b) /\ pos = Len(b.keys) + 1
    BY <1>1, <1>2 DEF ParseNextKey
  <2>2. QED
    BY <1>1, <2>1 DEF PastEnd, CursorOK, BlockValid
<1>3. CASE ~(pos > Len(b.keys))
  <2> DEFINE S == {j \in i .. NumRestarts(b) - 1 : j + 1 < NumRestarts(b) => RestartPoint(b, j + 1) >= pos}
             k == Min(S)
  <2>1. NumRestarts(b) - 1 \in S /\ S \subseteq Nat
    BY <1>1
  <2>2. k \in S /\ \A j \in S : k <= j
    BY <2>1, LeastInSet
  <2>3. k \in i .. NumRestarts(b) - 1
    BY <2>2
  <2> HIDE DEF k
  <2>4. RestartPoint(b, k) <= pos
    <3>1. CASE k = i
      BY <3>1
    <3>2. CASE k # i
      <4>1. k - 1 \in i .. NumRestarts(b) - 1 /\ k - 1 \notin S /\ k - 1 + 1 = k
        BY <1>1, <2>2, <2>3, <3>2
      <4>2. ~(RestartPoint(b, k) >= pos)
        BY <4>1
      <4>3. RestartPoint(b, k) \in 1 .. Len(b.keys)
        BY <1>1, <2>3 DEF BlockOK
      <4>4. QED
        BY <1>1, <4>2, <4>3
    <3>3. QED
      BY <3>1, <3>2
  <2>5. ParseNextKey(b, i, pos) = [current |-> pos, restart_index |-> k]
    BY <1>3 DEF ParseNextKey, AdvanceRestart, k
  <2>6. QED
    BY <1>1, <2>3, <2>4, <2>5 DEF CursorOK
<1>4. QED
  BY <1>2, <1>3

(* The moves of a BlockIter that do not search.                            *)
LEMMA BlockFirst ==
  ASSUME NEW b, BlockOK(b)
  PROVE  BlockSeekToFirst(b).current = 1 /\ CursorOK(b, BlockSeekToFirst(b))
BY ParseLands DEF BlockSeekToFirst, BlockOK

(* Next steps to the entry after, or off the last one.                     *)
LEMMA BlockNextIs ==
  ASSUME NEW b, BlockOK(b), NEW it, CursorOK(b, it), BlockValid(b, it)
  PROVE  BlockNext(b, it).current = it.current + 1 /\ CursorOK(b, BlockNext(b, it))
<1>1. Len(b.keys) \in Nat /\ it.current \in 1 .. Len(b.keys)
  BY DEF BlockOK, CursorOK, BlockValid
<1>2. it.current + 1 \in 1 .. Len(b.keys) + 1 /\ it.restart_index \in 0 .. NumRestarts(b) - 1
  BY <1>1 DEF CursorOK
<1>3. RestartPoint(b, it.restart_index) \in 1 .. Len(b.keys) /\ RestartPoint(b, it.restart_index) <= it.current
  BY <1>2 DEF BlockOK, CursorOK
<1>4. RestartPoint(b, it.restart_index) <= it.current + 1
  BY <1>1, <1>3
<1>5. QED
  BY <1>2, <1>4, ParseLands DEF BlockNext

(* Parsing on from an entry.                                               *)
LEMMA ParseOnLands ==
  ASSUME NEW b, BlockOK(b), NEW it, CursorOK(b, it), BlockValid(b, it), NEW pos \in it.current .. Len(b.keys) + 1
  PROVE  ParseOn(b, it, pos).current = pos /\ CursorOK(b, ParseOn(b, it, pos))
<1>1. Len(b.keys) \in Nat /\ it.current \in 1 .. Len(b.keys)
  BY DEF BlockOK, CursorOK, BlockValid
<1>2. pos \in 1 .. Len(b.keys) + 1 /\ it.restart_index \in 0 .. NumRestarts(b) - 1
  BY <1>1 DEF CursorOK
<1>3. RestartPoint(b, it.restart_index) \in 1 .. Len(b.keys) /\ RestartPoint(b, it.restart_index) <= it.current
  BY <1>2 DEF BlockOK, CursorOK
<1>4. RestartPoint(b, it.restart_index) <= pos
  BY <1>1, <1>2, <1>3
<1>5. QED
  BY <1>2, <1>4, ParseLands DEF ParseOn

(* SeekToLast parses from the last restart point to the last entry.        *)
LEMMA BlockLast ==
  ASSUME NEW b, BlockOK(b)
  PROVE  BlockSeekToLast(b).current = Len(b.keys) /\ CursorOK(b, BlockSeekToLast(b))
<1> DEFINE i == NumRestarts(b) - 1
           s == ParseNextKey(b, i, RestartPoint(b, i))
<1>1. Len(b.keys) \in Nat \ {0} /\ i \in 0 .. NumRestarts(b) - 1
  BY DEF BlockOK
<1>2. RestartPoint(b, i) \in 1 .. Len(b.keys)
  BY <1>1 DEF BlockOK
<1>3. s.current = RestartPoint(b, i) /\ CursorOK(b, s)
  BY <1>1, <1>2, ParseLands
<1>4. BlockSeekToLast(b) = IF BlockValid(b, s) /\ s.current < Len(b.keys) THEN ParseOn(b, s, Len(b.keys)) ELSE s
  BY DEF BlockSeekToLast, ParseUpTo
<1> HIDE DEF s, i
<1>5. BlockValid(b, s)
  BY <1>1, <1>2, <1>3 DEF BlockValid
<1>6. CASE s.current < Len(b.keys)
  <2>1. Len(b.keys) \in s.current .. Len(b.keys) + 1
    BY <1>1, <1>2, <1>3, <1>6
  <2>2. QED
    BY <1>3, <1>4, <1>5, <1>6, <2>1, ParseOnLands
<1>7. CASE ~(s.current < Len(b.keys))
  BY <1>1, <1>2, <1>3, <1>4, <1>7
<1>8. QED
  BY <1>6, <1>7

(* Prev steps to the entry before, or off the first one.                   *)
LEMMA BlockPrevIs ==
  ASSUME NEW b, BlockOK(b), NEW it, CursorOK(b, it), BlockValid(b, it)
  PROVE  /\ CursorOK(b, BlockPrev(b, it))
         /\ it.current = 1 => ~BlockValid(b, BlockPrev(b, it))
         /\ it.current # 1 => BlockPrev(b, it).current = it.current - 1
<1> DEFINE S == RestartsBefore(b, it)
<1>1. /\ Len(b.keys) \in Nat \ {0} /\ NumRestarts(b) \in Nat \ {0} /\ it.current \in 1 .. Len(b.keys)
      /\ it.restart_index \in 0 .. NumRestarts(b) - 1
  BY DEF BlockOK, CursorOK, BlockValid
<1>2. \A i \in 0 .. it.restart_index : i \in 0 .. NumRestarts(b) - 1 /\ RestartPoint(b, i) \in 1 .. Len(b.keys)
  BY <1>1 DEF BlockOK
<1>3. RestartPoint(b, 0) = 1 /\ 0 \in 0 .. it.restart_index
  BY <1>1 DEF BlockOK
<1>4. CASE S = {}
  <2>1. ~(1 < it.current)
    BY <1>3, <1>4 DEF RestartsBefore
  <2>2. it.current = 1
    BY <1>1, <2>1
  <2>3. BlockPrev(b, it) = PastEnd(b)
    BY <1>4 DEF BlockPrev
  <2>4. QED
    BY <1>1, <2>2, <2>3 DEF PastEnd, CursorOK, BlockValid
<1>5. CASE S # {}
  <2> DEFINE i == Max(S)
             s == ParseNextKey(b, i, RestartPoint(b, i))
  <2>1. S \subseteq 0 .. it.restart_index /\ S \subseteq Nat
    BY <1>1 DEF RestartsBefore
  <2>2. IsFiniteSet(S)
    <3>1. IsFiniteSet(0 .. it.restart_index)
      BY <1>1, FS_Interval
    <3>2. QED
      BY <2>1, <3>1, FS_Subset
  <2>3. i \in S
    BY <1>5, <2>1, <2>2, LargestInSet
  <2>4. i \in 0 .. it.restart_index /\ RestartPoint(b, i) < it.current
    BY <2>3 DEF RestartsBefore
  <2>5. BlockPrev(b, it) = ParseUpTo(b, s, it.current - 1)
    BY <1>5 DEF BlockPrev
  <2> HIDE DEF i
  <2>6. i \in 0 .. NumRestarts(b) - 1 /\ RestartPoint(b, i) \in 1 .. Len(b.keys)
    BY <1>2, <2>4
  <2>7. s.current = RestartPoint(b, i) /\ CursorOK(b, s)
    BY <1>1, <2>6, ParseLands
  <2> HIDE DEF s, S
  <2>8. BlockValid(b, s) /\ s.current \in 1 .. it.current - 1 /\ it.current # 1
    BY <1>1, <2>4, <2>6, <2>7 DEF BlockValid
  <2>9. CASE s.current < it.current - 1
    <3>1. it.current - 1 \in s.current .. Len(b.keys) + 1
      BY <1>1, <2>8
    <3>2. BlockPrev(b, it) = ParseOn(b, s, it.current - 1)
      BY <2>5, <2>8, <2>9 DEF ParseUpTo
    <3>3. QED
      BY <2>7, <2>8, <3>1, <3>2, ParseOnLands
  <2>10. CASE ~(s.current < it.current - 1)
    <3>1. BlockPrev(b, it) = s /\ s.current = it.current - 1
      BY <1>1, <2>5, <2>8, <2>10 DEF ParseUpTo
    <3>2. QED
      BY <2>7, <2>8, <3>1
  <2>11. QED
    BY <2>9, <2>10
<1>6. QED
  BY <1>4, <1>5

(* The binary search over restart points, turn by turn.                    *)
Halve(b, target, s) ==
  LET mid == (s.left + s.right + 1) \div 2
  IN IF s.left >= s.right THEN s
     ELSE IF Before(b.keys[RestartPoint(b, mid)], target) THEN [s EXCEPT !.left = mid]
     ELSE [s EXCEPT !.right = mid - 1]

(* The turns of SearchRestarts.                                            *)
LEMMA SearchRun ==
  ASSUME NEW b, NEW target, NEW left, NEW right, NEW n \in Nat, n = NumRestarts(b)
  PROVE  \E r : /\ SearchRestarts(b, left, right, target) = r[n].left
                /\ r[0] = [left |-> left, right |-> right]
                /\ \A i \in 1 .. n : r[i] = Halve(b, target, r[i - 1])
<1> DEFINE x == [left |-> left, right |-> right]
           Turn(y) == Halve(b, target, y)
           Runs(r, m) == r = [i \in 0 .. m |-> IF i = 0 THEN x ELSE Turn(r[i - 1])]
           T == {m \in Nat : \E r : Runs(r, m)}
<1>0. SearchRestarts(b, left, right, target) = Loop(n, x, Turn).left
  BY DEF SearchRestarts, Halve
<1> HIDE DEF Turn, x
<1>1. 0 \in T
  <2>1. Runs([i \in 0 .. 0 |-> x], 0)
    OBVIOUS
  <2>2. QED
    BY <2>1
<1>2. ASSUME NEW m \in 1 .. n, m - 1 \in T PROVE m \in T
  <2>1. PICK r : Runs(r, m - 1)
    BY <1>2
  <2>2. Runs([i \in 0 .. m |-> IF i = 0 THEN x ELSE Turn(r[i - 1])], m)
    BY <2>1
  <2> HIDE DEF Runs
  <2>3. QED
    BY <2>2
<1>3. n \in T
  <2> HIDE DEF T
  <2>1. \A i \in 1 .. n : i - 1 \in T => i \in T
    BY <1>2
  <2>2. \A i \in 0 .. n : i \in T
    BY <1>1, <2>1, UpTo
  <2>3. QED
    BY <2>2
<1> DEFINE r == CHOOSE r : Runs(r, n)
<1>4. Runs(r, n)
  BY <1>3
<1>5. Loop(n, x, Turn) = r[n]
  BY DEF Loop
<1> HIDE DEF r
<1>6. r[0] = x /\ \A i \in 1 .. n : r[i] = Turn(r[i - 1])
  BY <1>4
<1>7. QED
  BY <1>0, <1>5, <1>6 DEF Turn, x

(* The search ends, and only entries before the target precede the restart *)
(* point it finds, unless that is the one it began with.                   *)
LEMMA SearchFinds ==
  ASSUME NEW b, BlockOK(b), NEW target, NEW left \in 0 .. NumRestarts(b) - 1, NEW right \in 0 .. NumRestarts(b) - 1,
         left <= right, NEW found, found = SearchRestarts(b, left, right, target)
  PROVE  /\ found \in left .. right
         /\ found = left \/ Before(b.keys[RestartPoint(b, found)], target)
<1> DEFINE n == NumRestarts(b)
           Far(s) == s.left = left \/ Before(b.keys[RestartPoint(b, s.left)], target)
           Good(s) == /\ s \in [left : left .. right, right : left .. right] /\ s.left <= s.right /\ Far(s)
<1>1. n \in Nat \ {0}
  BY DEF BlockOK
<1>2. PICK r : /\ SearchRestarts(b, left, right, target) = r[n].left
               /\ r[0] = [left |-> left, right |-> right]
               /\ \A i \in 1 .. n : r[i] = Halve(b, target, r[i - 1])
  BY <1>1, SearchRun
<1> DEFINE T == {i \in 0 .. n : Good(r[i])}
<1>3. 0 \in T
  BY <1>1, <1>2
<1>4. ASSUME NEW s, Good(s) PROVE Good(Halve(b, target, s))
  <2> DEFINE mid == (s.left + s.right + 1) \div 2
  <2>1. CASE s.left >= s.right
    BY <1>4, <2>1 DEF Halve
  <2>2. CASE ~(s.left >= s.right)
    <3>1. s.left \in left .. right /\ s.right \in left .. right /\ s.left < s.right /\ left \in Nat /\ right \in Nat
      BY <1>1, <1>4, <2>2
    <3>2. mid \in Nat /\ s.left < mid /\ mid <= s.right
      BY <3>1
    <3> HIDE DEF mid
    <3>3. mid \in left .. right /\ mid - 1 \in left .. right /\ s.left <= mid - 1
      BY <3>1, <3>2
    <3>4. Halve(b, target, s) = IF Before(b.keys[RestartPoint(b, mid)], target) THEN [s EXCEPT !.left = mid]
                                ELSE [s EXCEPT !.right = mid - 1]
      BY <2>2 DEF Halve, mid
    <3>5. CASE Before(b.keys[RestartPoint(b, mid)], target)
      <4>1. Halve(b, target, s) = [left |-> mid, right |-> s.right]
        BY <1>4, <3>4, <3>5
      <4>2. QED
        BY <3>1, <3>2, <3>3, <3>5, <4>1
    <3>6. CASE ~Before(b.keys[RestartPoint(b, mid)], target)
      <4>1. Halve(b, target, s) = [left |-> s.left, right |-> mid - 1]
        BY <1>4, <3>4, <3>6
      <4>2. QED
        BY <1>4, <3>1, <3>2, <3>3, <4>1
    <3>7. QED
      BY <3>5, <3>6
  <2>3. QED
    BY <2>1, <2>2
<1>5. Good(r[n])
  <2> HIDE DEF Good
  <2>1. \A i \in 1 .. n : i - 1 \in T => i \in T
    BY <1>1, <1>2, <1>4
  <2> HIDE DEF T
  <2>2. \A i \in 0 .. n : i \in T
    BY <1>1, <1>3, <2>1, UpTo
  <2>3. QED
    BY <1>1, <2>2 DEF T
<1>6. QED
  BY <1>2, <1>5

(* Seek lands on the first entry not before the target, from wherever the  *)
(* iterator stood.                                                         *)
LEMMA BlockSeekIs ==
  ASSUME NEW b, BlockOK(b), NEW it, CursorOK(b, it), NEW target \in InternalKeys, NEW s, s = BlockSeek(b, it, target)
  PROVE  /\ CursorOK(b, s)
         /\ \A p \in 1 .. Len(b.keys) : p < s.current => Before(b.keys[p], target)
         /\ BlockValid(b, s) => ~Before(b.keys[s.current], target)
<1> DEFINE L == Len(b.keys)
           N == NumRestarts(b)
           valid   == BlockValid(b, it)
           smaller == valid /\ Before(BlockKey(b, it), target)
           greater == valid /\ Before(target, BlockKey(b, it))
           left0   == IF smaller THEN it.restart_index ELSE 0
           right0  == IF greater THEN it.restart_index ELSE N - 1
           left    == SearchRestarts(b, left0, right0, target)
<1>1. /\ L \in Nat \ {0} /\ N \in Nat \ {0} /\ it.current \in 1 .. L + 1
      /\ \A p \in 1 .. L : b.keys[p] \in InternalKeys
      /\ \A p, q \in 1 .. L : p < q => Before(b.keys[p], b.keys[q])
  BY DEF BlockOK, CursorOK
<1>2. valid => /\ it.current \in 1 .. L /\ it.restart_index \in 0 .. N - 1
               /\ RestartPoint(b, it.restart_index) <= it.current
  BY <1>1 DEF CursorOK, BlockValid
<1>3. ASSUME NEW q \in 1 .. L, Before(b.keys[q], target), NEW p \in 1 .. L, p <= q
      PROVE  Before(b.keys[p], target)
  <2>1. p = q \/ Before(b.keys[p], b.keys[q])
    BY <1>1, <1>3
  <2>2. QED
    BY <1>1, <1>3, <2>1, KeyOrderTransitive
<1>4. CASE valid /\ ~smaller /\ ~greater
  <2>1. s = it /\ it.current \in 1 .. L
    BY <1>2, <1>4 DEF BlockSeek
  <2>2. b.keys[it.current] = target
    BY <1>1, <1>4, <2>1, KeyOrder DEF BlockKey
  <2>3. \A p \in 1 .. L : p < it.current => Before(b.keys[p], target)
    BY <1>1, <2>1, <2>2
  <2>4. QED
    BY <2>1, <2>2, <2>3, KeyOrder
<1>5. CASE ~(valid /\ ~smaller /\ ~greater)
  <2> DEFINE start == IF smaller /\ left = it.restart_index THEN BlockNext(b, it)
                      ELSE ParseNextKey(b, left, RestartPoint(b, left))
             S == {pos \in start.current .. L + 1 : pos <= L => ~Before(b.keys[pos], target)}
             to == Min(S)
  <2>1. s = ParseOn(b, start, to)
    BY <1>5 DEF BlockSeek, ScanFrom, ParseToTarget
  <2>2. left0 \in 0 .. N - 1 /\ right0 \in 0 .. N - 1 /\ left0 <= right0
    <3>1. smaller => ~greater
      BY <1>1, <1>2, KeyOrder DEF BlockKey
    <3>2. QED
      BY <1>1, <1>2, <3>1
  <2>3. left \in left0 .. right0 /\ (left = left0 \/ Before(b.keys[RestartPoint(b, left)], target))
    BY <2>2, SearchFinds
  <2>4. left \in 0 .. N - 1
    BY <1>1, <2>2, <2>3
  <2>5. RestartPoint(b, left) \in 1 .. L
    BY <2>4 DEF BlockOK
  <2>6. CursorOK(b, start) /\ \A p \in 1 .. L : p < start.current => Before(b.keys[p], target)
    <3>1. CASE smaller /\ left = it.restart_index
      <4>1. start.current = it.current + 1 /\ CursorOK(b, start)
        BY <3>1, BlockNextIs
      <4>2. it.current \in 1 .. L /\ Before(b.keys[it.current], target)
        BY <1>2, <3>1 DEF BlockKey
      <4>3. \A p \in 1 .. L : p < it.current + 1 => p <= it.current
        BY <4>2
      <4>4. QED
        BY <1>3, <4>1, <4>2, <4>3
    <3>2. CASE ~(smaller /\ left = it.restart_index)
      <4>1. start = ParseNextKey(b, left, RestartPoint(b, left))
        BY <3>2
      <4> HIDE DEF left, start
      <4>2. RestartPoint(b, left) \in 1 .. L + 1 /\ RestartPoint(b, left) <= RestartPoint(b, left)
        BY <1>1, <2>5
      <4>3. start.current = RestartPoint(b, left) /\ CursorOK(b, start)
        BY <2>4, <4>1, <4>2, ParseLands
      <4>4. CASE Before(b.keys[RestartPoint(b, left)], target)
        <5>1. \A p \in 1 .. L : p < RestartPoint(b, left) => p <= RestartPoint(b, left)
          BY <2>5
        <5>2. QED
          BY <1>3, <2>5, <4>3, <4>4, <5>1
      <4>5. CASE left = left0
        <5>1. left = 0
          BY <3>2, <4>5 DEF left
        <5>2. RestartPoint(b, left) = 1
          BY <5>1 DEF BlockOK
        <5>3. QED
          BY <1>1, <4>3, <5>2
      <4>6. QED
        BY <2>3, <4>4, <4>5 DEF left
    <3>3. QED
      BY <3>1, <3>2
  <2> HIDE DEF start
  <2>7. start.current \in 1 .. L + 1
    BY <2>6 DEF CursorOK
  <2>8. L + 1 \in S /\ S \subseteq Nat
    BY <1>1, <2>7
  <2>9. to \in S /\ \A pos \in S : to <= pos
    BY <2>8, LeastInSet
  <2>10. to \in start.current .. L + 1 /\ (to <= L => ~Before(b.keys[to], target))
    BY <2>9
  <2>11. ASSUME NEW p \in 1 .. L, p < to PROVE Before(b.keys[p], target)
    <3>1. CASE p < start.current
      BY <2>6, <3>1
    <3>2. CASE ~(p < start.current)
      <4>1. p \in start.current .. L + 1 /\ p \notin S
        BY <1>1, <2>7, <2>9, <2>10, <2>11, <3>2
      <4>2. QED
        BY <4>1
    <3>3. QED
      BY <3>1, <3>2
  <2> HIDE DEF to, S
  <2>12. s.current = to /\ CursorOK(b, s)
    <3>1. CASE BlockValid(b, start)
      BY <2>1, <2>6, <2>10, <3>1, ParseOnLands
    <3>2. CASE ~BlockValid(b, start)
      <4>1. to = start.current
        BY <1>1, <2>7, <2>10, <3>2 DEF BlockValid
      <4>2. QED
        BY <2>1, <2>6, <4>1 DEF ParseOn
    <3>3. QED
      BY <3>1, <3>2
  <2>13. QED
    BY <2>10, <2>11, <2>12 DEF BlockValid
<1>6. QED
  BY <1>4, <1>5

-----------------------------------------------------------------------------
(* Building a table.                                                       *)

(* The first, the last and all keys of a block.                            *)
FirstKey(b) == b.keys[1]
LastKey(b)  == b.keys[Len(b.keys)]
KeysOf(b)   == {b.keys[p] : p \in 1 .. Len(b.keys)}

(* A key of the index lies between the last key of its block and the first *)
(* key of the next; unless it is that last key it has a smaller user key.  *)
Separates(sep, last, next) ==
  ~Before(sep, last) /\ Before(sep, next) /\ (sep = last \/ sep.user < next.user)

(* A table as TableBuilder leaves it: blocks of entries in order, and an   *)
(* index entry for each block, in order, that separates it from the next.  *)
TableOK(t) ==
  /\ Len(t.blocks) \in Nat \ {0}
  /\ \A h \in 1 .. Len(t.blocks) : BlockOK(t.blocks[h]) /\ DOMAIN t.blocks[h].keys = 1 .. Len(t.blocks[h].keys)
  /\ BlockOK(t.index) /\ Len(t.index.keys) = Len(t.blocks)
  /\ \A h \in 1 .. Len(t.blocks) : t.index.handles[h] = h /\ ~Before(t.index.keys[h], LastKey(t.blocks[h]))
  /\ \A h \in 1 .. Len(t.blocks) - 1 :
       Separates(t.index.keys[h], LastKey(t.blocks[h]), FirstKey(t.blocks[h + 1]))

(* Blocks, whatever is in them.                                            *)
BlockSet == [keys : Seq(InternalKeys), restarts : Seq(Nat), handles : Seq(Nat), counter : Nat]

(* A block that is being built.                                            *)
Growing(b) == b \in BlockSet /\ (b = EmptyBlock \/ BlockOK(b)) /\ Len(b.handles) = Len(b.keys)

(* Its parts.                                                              *)
LEMMA GrowingFacts ==
  ASSUME NEW b, Growing(b)
  PROVE  /\ Len(b.keys) \in Nat /\ (Len(b.keys) = 0 <=> b = EmptyBlock)
         /\ b.keys \in Seq(InternalKeys) /\ b.restarts \in Seq(Nat) /\ b.handles \in Seq(Nat) /\ b.counter \in Nat
         /\ b # EmptyBlock => /\ BlockOK(b) /\ LastKey(b) \in InternalKeys /\ FirstKey(b) \in InternalKeys
                              /\ ~Before(LastKey(b), FirstKey(b))
<1>1. b.keys \in Seq(InternalKeys) /\ b.restarts \in Seq(Nat) /\ b.handles \in Seq(Nat) /\ b.counter \in Nat
  BY DEF Growing, BlockSet
<1>2. Len(b.keys) \in Nat
  BY <1>1, LenProperties
<1>3. b = EmptyBlock => Len(b.keys) = 0
  BY DEF EmptyBlock
<1>4. ASSUME b # EmptyBlock
      PROVE  /\ BlockOK(b) /\ LastKey(b) \in InternalKeys /\ FirstKey(b) \in InternalKeys
             /\ ~Before(LastKey(b), FirstKey(b)) /\ Len(b.keys) # 0
  <2>1. BlockOK(b)
    BY <1>4 DEF Growing
  <2>2. Len(b.keys) \in 1 .. Len(b.keys) /\ 1 \in 1 .. Len(b.keys) /\ Len(b.keys) # 0
    BY <2>1 DEF BlockOK
  <2>3. LastKey(b) \in InternalKeys /\ FirstKey(b) \in InternalKeys
    BY <2>1, <2>2 DEF BlockOK, LastKey, FirstKey
  <2>4. FirstKey(b) = LastKey(b) \/ Before(FirstKey(b), LastKey(b))
    BY <1>2, <2>1, <2>2 DEF BlockOK, LastKey, FirstKey
  <2>5. QED
    BY <2>1, <2>2, <2>3, <2>4, KeyOrder
<1>5. QED
  BY <1>1, <1>2, <1>3, <1>4

(* Adding a key after the last one.                                        *)
LEMMA AddToBlockOK ==
  ASSUME NEW b, Growing(b), NEW interval \in Nat \ {0}, NEW key \in InternalKeys, NEW handle \in Nat,
         b = EmptyBlock \/ Before(LastKey(b), key),
         NEW new, new = AddToBlock(b, interval, key, handle)
  PROVE  /\ Growing(new) /\ new # EmptyBlock
         /\ Len(new.keys) = Len(b.keys) + 1 /\ LastKey(new) = key
         /\ new.handles[Len(b.keys) + 1] = handle
         /\ \A p \in 1 .. Len(b.keys) : new.keys[p] = b.keys[p] /\ new.handles[p] = b.handles[p]
         /\ FirstKey(new) = IF b = EmptyBlock THEN key ELSE FirstKey(b)
         /\ KeysOf(new) = KeysOf(b) \cup {key}
<1> DEFINE L == Len(b.keys)
           more == ~(b.counter < interval)
           keys == Append(b.keys, key)
           handles == Append(b.handles, handle)
           restarts == IF more THEN Append(b.restarts, L + 1) ELSE b.restarts
<1>1. /\ L \in Nat /\ (L = 0 <=> b = EmptyBlock) /\ Len(b.handles) = L
      /\ b.keys \in Seq(InternalKeys) /\ b.restarts \in Seq(Nat) /\ b.handles \in Seq(Nat) /\ b.counter \in Nat
      /\ b # EmptyBlock => BlockOK(b)
  BY GrowingFacts DEF Growing
<1> DEFINE counter == IF more THEN 1 ELSE b.counter + 1
<1>2. /\ new = [keys |-> keys, handles |-> handles, restarts |-> restarts, counter |-> counter]
      /\ new.keys = keys /\ new.handles = handles /\ new.restarts = restarts /\ counter \in Nat
  <2>1. new = [keys |-> keys, handles |-> handles, restarts |-> restarts, counter |-> counter]
    BY DEF AddToBlock
  <2>2. counter \in Nat
    BY <1>1
  <2> HIDE DEF keys, handles, restarts, counter
  <2>3. QED
    BY <2>1, <2>2
<1>3. /\ keys \in Seq(InternalKeys) /\ Len(keys) = L + 1 /\ keys[L + 1] = key
      /\ \A p \in 1 .. L : keys[p] = b.keys[p]
  BY <1>1, AppendProperties
<1>4. /\ handles \in Seq(Nat) /\ Len(handles) = L + 1 /\ handles[L + 1] = handle
      /\ \A p \in 1 .. L : handles[p] = b.handles[p]
  BY <1>1, AppendProperties
<1>5. Len(b.restarts) \in Nat
  BY <1>1, LenProperties
<1>6. /\ restarts \in Seq(Nat) /\ Len(restarts) = IF more THEN Len(b.restarts) + 1 ELSE Len(b.restarts)
      /\ \A i \in 1 .. Len(b.restarts) : restarts[i] = b.restarts[i]
      /\ more => restarts[Len(b.restarts) + 1] = L + 1
  <2>1. CASE more
    BY <1>1, <2>1, AppendProperties
  <2>2. CASE ~more
    BY <1>1, <2>2
  <2>3. QED
    BY <2>1, <2>2
<1> HIDE DEF keys, handles, restarts, counter
<1>7. new \in BlockSet
  BY <1>2, <1>3, <1>4, <1>6 DEF BlockSet
<1>8. \A p \in 1 .. L + 1 : new.keys[p] \in InternalKeys
  <2>1. \A p \in 1 .. L : new.keys[p] \in InternalKeys
    BY <1>1, <1>2, <1>3, ElementOfSeq
  <2>2. QED
    BY <1>1, <1>2, <1>3, <2>1
<1>9. ASSUME NEW p \in 1 .. L + 1, NEW q \in 1 .. L + 1, p < q PROVE Before(new.keys[p], new.keys[q])
  <2>1. p \in 1 .. L /\ b # EmptyBlock
    BY <1>1, <1>9
  <2>2. BlockOK(b) /\ new.keys[p] = b.keys[p] /\ b.keys[p] \in InternalKeys
    BY <1>1, <1>2, <1>3, <2>1 DEF BlockOK
  <2>3. CASE q \in 1 .. L
    BY <1>2, <1>3, <1>9, <2>1, <2>2, <2>3 DEF BlockOK
  <2>4. CASE q = L + 1
    <3>1. L \in 1 .. L /\ (p = L \/ p < L)
      BY <1>1, <2>1
    <3>2. LastKey(b) \in InternalKeys /\ (b.keys[p] = LastKey(b) \/ Before(b.keys[p], LastKey(b)))
      BY <2>1, <2>2, <3>1 DEF BlockOK, LastKey
    <3>3. Before(b.keys[p], key)
      BY <2>1, <2>2, <3>2, KeyOrderTransitive
    <3>4. QED
      BY <1>2, <1>3, <2>2, <2>4, <3>3
  <2>5. QED
    BY <1>1, <2>3, <2>4
<1>10. /\ NumRestarts(new) \in Nat \ {0} /\ RestartPoint(new, 0) = 1
       /\ \A i \in 0 .. NumRestarts(new) - 1 : RestartPoint(new, i) \in 1 .. L + 1
       /\ \A i \in 1 .. NumRestarts(new) - 1 : RestartPoint(new, i - 1) < RestartPoint(new, i)
  <2>1. CASE b = EmptyBlock
    <3>1. b.restarts = <<1>> /\ b.counter = 0 /\ Len(b.restarts) = 1 /\ b.restarts[1] = 1
      BY <2>1 DEF EmptyBlock
    <3>2. ~more
      BY <3>1
    <3>3. Len(new.restarts) = 1 /\ new.restarts[1] = 1
      BY <1>2, <1>6, <3>1, <3>2
    <3>4. QED
      BY <1>1, <3>3 DEF NumRestarts, RestartPoint
  <2>2. CASE b # EmptyBlock
    <3> DEFINE N == Len(b.restarts)
    <3>1. /\ N \in Nat \ {0} /\ L \in Nat \ {0} /\ b.restarts[1] = 1
          /\ \A i \in 0 .. N - 1 : b.restarts[i + 1] \in 1 .. L
          /\ \A i \in 1 .. N - 1 : b.restarts[i - 1 + 1] < b.restarts[i + 1]
      BY <1>1, <2>2 DEF BlockOK, NumRestarts, RestartPoint
    <3>2. \A i \in 0 .. N - 1 : new.restarts[i + 1] = b.restarts[i + 1]
      <4>1. \A i \in 0 .. N - 1 : i + 1 \in 1 .. Len(b.restarts)
        BY <3>1
      <4>2. QED
        BY <1>2, <1>6, <4>1
    <3>3. Len(new.restarts) = IF more THEN N + 1 ELSE N
      BY <1>2, <1>6
    <3>4. more => new.restarts[N + 1] = L + 1
      BY <1>2, <1>6
    <3> HIDE DEF N, more
    <3>5. ASSUME NEW i \in 0 .. Len(new.restarts) - 1 PROVE new.restarts[i + 1] \in 1 .. L + 1
      <4>1. CASE i \in 0 .. N - 1
        BY <3>1, <3>2, <4>1
      <4>2. CASE i = N /\ more
        BY <3>1, <3>4, <4>2
      <4>3. QED
        BY <3>1, <3>3, <4>1, <4>2
    <3>6. ASSUME NEW i \in 1 .. Len(new.restarts) - 1 PROVE new.restarts[i - 1 + 1] < new.restarts[i + 1]
      <4>1. CASE i \in 1 .. N - 1
        <5>1. i - 1 \in 0 .. N - 1 /\ i \in 0 .. N - 1
          BY <3>1, <4>1
        <5>2. new.restarts[i - 1 + 1] = b.restarts[i - 1 + 1] /\ new.restarts[i + 1] = b.restarts[i + 1]
          BY <3>2, <5>1
        <5>3. QED
          BY <3>1, <4>1, <5>2
      <4>2. CASE i = N /\ more
        <5>1. N - 1 \in 0 .. N - 1
          BY <3>1
        <5>2. new.restarts[N - 1 + 1] = b.restarts[N - 1 + 1] /\ b.restarts[N - 1 + 1] \in 1 .. L
          BY <3>1, <3>2, <5>1
        <5>3. QED
          BY <3>1, <3>4, <4>2, <5>2
      <4>3. QED
        BY <3>1, <3>3, <4>1, <4>2
    <3>7. new.restarts[1] = 1 /\ Len(new.restarts) \in Nat \ {0}
      <4>1. 0 \in 0 .. N - 1 /\ 0 + 1 = 1
        BY <3>1
      <4>2. QED
        BY <3>1, <3>2, <3>3, <4>1
    <3>8. QED
      BY <3>5, <3>6, <3>7 DEF NumRestarts, RestartPoint
  <2>3. QED
    BY <2>1, <2>2
<1>11. BlockOK(new) /\ new # EmptyBlock /\ Len(new.handles) = Len(new.keys)
  <2>1. Len(new.keys) = L + 1 /\ L + 1 \in Nat \ {0}
    BY <1>1, <1>2, <1>3
  <2>2. BlockOK(new)
    BY <1>8, <1>9, <1>10, <2>1 DEF BlockOK
  <2>3. QED
    BY <1>2, <1>4, <2>1, <2>2 DEF EmptyBlock
<1>12. KeysOf(new) = KeysOf(b) \cup {key}
  <2>1. \A p \in 1 .. L + 1 : p \in 1 .. L \/ p = L + 1
    BY <1>1
  <2>2. \A p \in 1 .. L : p \in 1 .. L + 1 /\ new.keys[p] = b.keys[p]
    BY <1>1, <1>2, <1>3
  <2>3. L + 1 \in 1 .. L + 1 /\ new.keys[L + 1] = key /\ Len(new.keys) = L + 1
    BY <1>1, <1>2, <1>3
  <2>4. QED
    BY <2>1, <2>2, <2>3 DEF KeysOf
<1>13. FirstKey(new) = IF b = EmptyBlock THEN key ELSE FirstKey(b)
  <2>1. CASE b = EmptyBlock
    BY <1>1, <1>2, <1>3, <2>1 DEF FirstKey
  <2>2. CASE b # EmptyBlock
    <3>1. 1 \in 1 .. L
      BY <1>1, <2>2
    <3>2. QED
      BY <1>2, <1>3, <2>2, <3>1 DEF FirstKey
  <2>3. QED
    BY <2>1, <2>2
<1>14. QED
  BY <1>2, <1>3, <1>4, <1>7, <1>11, <1>12, <1>13 DEF Growing, LastKey

(* The keys of the index separate the blocks on either side.               *)
LEMMA SeparatorOK ==
  ASSUME NEW shorten \in BOOLEAN, NEW last \in InternalKeys, NEW next \in InternalKeys, Before(last, next)
  PROVE  Separator(shorten, last, next) \in InternalKeys /\ Separates(Separator(shorten, last, next), last, next)
<1>1. last.user \in Nat /\ next.user \in Nat /\ MaxSequence \in Nat
  BY TableAssumption DEF InternalKeys
<1>2. CASE shorten /\ last.user + 1 < next.user
  <2> DEFINE sep == [user |-> last.user + 1, seq |-> MaxSequence, type |-> kTypeValue]
  <2>1. Separator(shorten, last, next) = sep
    BY <1>2 DEF Separator, LookupKey
  <2>2. sep \in InternalKeys /\ sep.user = last.user + 1
    BY <1>1 DEF InternalKeys
  <2> HIDE DEF sep
  <2>3. ~Before(sep, last) /\ Before(sep, next) /\ sep.user < next.user
    BY <1>1, <1>2, <2>2 DEF Before
  <2>4. QED
    BY <2>1, <2>2, <2>3 DEF Separates
<1>3. CASE ~(shorten /\ last.user + 1 < next.user)
  <2>1. Separator(shorten, last, next) = last
    BY <1>3 DEF Separator
  <2>2. QED
    BY <2>1, KeyOrder DEF Separates
<1>4. QED
  BY <1>2, <1>3

(* The key of the last block is at or after its last entry.                *)
LEMMA SuccessorOK ==
  ASSUME NEW shorten \in BOOLEAN, NEW key \in InternalKeys
  PROVE  Successor(shorten, key) \in InternalKeys /\ ~Before(Successor(shorten, key), key)
<1>1. key.user \in Nat /\ MaxSequence \in Nat
  BY TableAssumption DEF InternalKeys
<1>2. CASE shorten
  <2> DEFINE next == [user |-> key.user + 1, seq |-> MaxSequence, type |-> kTypeValue]
  <2>1. Successor(shorten, key) = next
    BY <1>2 DEF Successor, LookupKey
  <2>2. next \in InternalKeys /\ next.user = key.user + 1
    BY <1>1 DEF InternalKeys
  <2> HIDE DEF next
  <2>3. QED
    BY <1>1, <2>1, <2>2 DEF Before
<1>3. CASE ~shorten
  BY <1>3, KeyOrder DEF Successor
<1>4. QED
  BY <1>2, <1>3

(* Builders, whatever is in them.                                          *)
BuilderSet == [blocks : Seq(BlockSet), index : BlockSet, data : BlockSet,
               last_key : InternalKeys \cup {Nil}, pending : BOOLEAN]

(* The key that follows block h of a builder.                              *)
NextFirst(r, h) == IF h < Len(r.blocks) THEN FirstKey(r.blocks[h + 1]) ELSE FirstKey(r.data)

(* A table that is being built: blocks with keys, an index that separates  *)
(* each from the next key, and at most one block still to be indexed.      *)
Building(r) ==
  /\ r \in BuilderSet /\ Growing(r.data) /\ Growing(r.index)
  /\ \A h \in 1 .. Len(r.blocks) : Growing(r.blocks[h]) /\ r.blocks[h] # EmptyBlock
  /\ Len(r.index.keys) = IF r.pending THEN Len(r.blocks) - 1 ELSE Len(r.blocks)
  /\ \A h \in 1 .. Len(r.index.keys) :
       r.index.handles[h] = h /\ Separates(r.index.keys[h], LastKey(r.blocks[h]), NextFirst(r, h))
  /\ r.pending => r.data = EmptyBlock /\ Len(r.blocks) # 0 /\ r.last_key = LastKey(r.blocks[Len(r.blocks)])
  /\ r.data # EmptyBlock => r.last_key = LastKey(r.data)
  /\ r.data = EmptyBlock /\ ~r.pending => Len(r.blocks) = 0

(* The keys in the blocks, and in a table that is being built.             *)
InBlocks(blocks) == UNION {KeysOf(blocks[h]) : h \in 1 .. Len(blocks)}
Built(r) == InBlocks(r.blocks) \cup KeysOf(r.data)

(* The index entry of the last block.                                      *)
LEMMA IndexStep ==
  ASSUME NEW r, Building(r), r.pending, NEW sep \in InternalKeys, ~Before(sep, r.last_key),
         NEW n, n = Len(r.blocks), NEW index, index = AddToBlock(r.index, 1, sep, n)
  PROVE  /\ n \in Nat \ {0} /\ Growing(index) /\ index # EmptyBlock /\ Len(index.keys) = n
         /\ index.keys[n] = sep /\ index.handles[n] = n
         /\ \A h \in 1 .. n - 1 : index.keys[h] = r.index.keys[h] /\ index.handles[h] = h
<1> DEFINE last == r.blocks[n]
<1>1. n \in Nat /\ n # 0 /\ Len(r.index.keys) = n - 1 /\ Growing(r.index) /\ r.last_key = LastKey(last)
  <2>1. r.blocks \in Seq(BlockSet)
    BY DEF Building, BuilderSet
  <2>2. n \in Nat
    BY <2>1, LenProperties
  <2>3. QED
    BY <2>2 DEF Building
<1>2. Growing(last) /\ last # EmptyBlock
  BY <1>1 DEF Building
<1>3. LastKey(last) \in InternalKeys /\ FirstKey(last) \in InternalKeys /\ ~Before(LastKey(last), FirstKey(last))
  BY <1>2, GrowingFacts
<1>4. r.index = EmptyBlock \/ Before(LastKey(r.index), sep)
  <2>1. SUFFICES ASSUME r.index # EmptyBlock PROVE Before(LastKey(r.index), sep)
    OBVIOUS
  <2>2. n - 1 \in 1 .. n - 1 /\ LastKey(r.index) = r.index.keys[n - 1] /\ LastKey(r.index) \in InternalKeys
    <3>1. Len(r.index.keys) # 0 /\ LastKey(r.index) \in InternalKeys
      BY <1>1, <2>1, GrowingFacts
    <3>2. LastKey(r.index) = r.index.keys[n - 1] /\ n - 1 # 0
      BY <1>1, <3>1 DEF LastKey
    <3>3. n - 1 \in 1 .. n - 1
      BY ONLY <1>1, <3>2
    <3>4. QED
      BY <3>1, <3>2, <3>3
  <2>3. Before(LastKey(r.index), NextFirst(r, n - 1))
    BY <1>1, <2>2 DEF Building, Separates
  <2>4. NextFirst(r, n - 1) = FirstKey(last)
    BY <1>1, <2>2 DEF NextFirst
  <2> HIDE DEF last
  <2>5. FirstKey(last) = LastKey(last) \/ Before(FirstKey(last), LastKey(last))
    BY <1>3, KeyOrder
  <2>6. LastKey(last) = sep \/ Before(LastKey(last), sep)
    BY <1>1, <1>3, KeyOrder
  <2>7. QED
    BY <1>3, <2>2, <2>3, <2>4, <2>5, <2>6, KeyOrderTransitive
<1>5. 1 \in Nat \ {0}
  OBVIOUS
<1>6. /\ Growing(index) /\ index # EmptyBlock
      /\ Len(index.keys) = Len(r.index.keys) + 1 /\ LastKey(index) = sep
      /\ index.handles[Len(r.index.keys) + 1] = n
      /\ \A p \in 1 .. Len(r.index.keys) : index.keys[p] = r.index.keys[p] /\ index.handles[p] = r.index.handles[p]
  <2>1. PICK b : b = r.index
    OBVIOUS
  <2>2. Growing(b) /\ (b = EmptyBlock \/ Before(LastKey(b), sep)) /\ index = AddToBlock(b, 1, sep, n)
    BY <1>1, <1>4, <2>1
  <2>3. /\ Growing(index) /\ index # EmptyBlock
        /\ Len(index.keys) = Len(b.keys) + 1 /\ LastKey(index) = sep
        /\ index.handles[Len(b.keys) + 1] = n
        /\ \A p \in 1 .. Len(b.keys) : index.keys[p] = b.keys[p] /\ index.handles[p] = b.handles[p]
    BY <1>1, <1>5, <2>2, AddToBlockOK
  <2>4. QED
    BY <2>1, <2>3
<1>7. \A h \in 1 .. n - 1 : r.index.handles[h] = h
  BY <1>1 DEF Building
<1>8. QED
  BY <1>1, <1>6, <1>7 DEF LastKey

(* Adding a key to the table, before a full block is flushed.              *)
WithKey(shorten, r, key) ==
  LET indexed == IF r.pending THEN AddIndexEntry(r, Separator(shorten, r.last_key, key), key) ELSE r
  IN [indexed EXCEPT !.data = AddToBlock(@, RestartInterval, key, 0), !.last_key = key]

(* It goes behind all the keys there are.                                  *)
LEMMA AddStep ==
  ASSUME NEW r, Building(r), NEW shorten \in BOOLEAN, NEW key \in InternalKeys,
         (r.data = EmptyBlock /\ ~r.pending) \/ Before(r.last_key, key),
         NEW a, a = WithKey(shorten, r, key)
  PROVE  /\ Building(a) /\ a.data # EmptyBlock /\ a.last_key = key /\ Built(a) = Built(r) \cup {key}
<1> DEFINE n == Len(r.blocks)
           sep == Separator(shorten, r.last_key, key)
           index == IF r.pending THEN AddToBlock(r.index, 1, sep, n) ELSE r.index
           data == AddToBlock(r.data, RestartInterval, key, 0)
<1>1. /\ r \in BuilderSet /\ Growing(r.data) /\ Growing(r.index)
      /\ \A h \in 1 .. n : Growing(r.blocks[h]) /\ r.blocks[h] # EmptyBlock
      /\ Len(r.index.keys) = IF r.pending THEN n - 1 ELSE n
      /\ \A h \in 1 .. Len(r.index.keys) :
           r.index.handles[h] = h /\ Separates(r.index.keys[h], LastKey(r.blocks[h]), NextFirst(r, h))
      /\ r.pending => r.data = EmptyBlock /\ n # 0 /\ r.last_key = LastKey(r.blocks[n])
      /\ r.data # EmptyBlock => r.last_key = LastKey(r.data)
      /\ r.data = EmptyBlock /\ ~r.pending => n = 0
  BY DEF Building
<1>2. n \in Nat /\ r.blocks \in Seq(BlockSet)
  BY <1>1, LenProperties DEF BuilderSet
<1>3. a = [blocks |-> r.blocks, index |-> index, data |-> data, last_key |-> key, pending |-> FALSE]
  <2>1. CASE r.pending
    BY <1>1, <2>1 DEF WithKey, AddIndexEntry, BuilderSet
  <2>2. CASE ~r.pending
    BY <1>1, <2>2 DEF WithKey, BuilderSet
  <2>3. QED
    BY <1>1, <2>1, <2>2 DEF BuilderSet
<1>4. r.data = EmptyBlock \/ Before(LastKey(r.data), key)
  BY <1>1
<1>5. /\ Growing(data) /\ data # EmptyBlock /\ LastKey(data) = key
      /\ FirstKey(data) = IF r.data = EmptyBlock THEN key ELSE FirstKey(r.data)
      /\ KeysOf(data) = KeysOf(r.data) \cup {key}
  <2>1. RestartInterval \in Nat \ {0} /\ 0 \in Nat
    BY TableAssumption
  <2>2. QED
    BY <1>1, <1>4, <2>1, AddToBlockOK
<1> HIDE DEF data, sep
<1>6. ASSUME r.pending PROVE sep \in InternalKeys /\ Separates(sep, r.last_key, key)
  <2>1. r.last_key \in InternalKeys
    <3>1. n \in 1 .. n /\ r.last_key = LastKey(r.blocks[n])
      BY <1>1, <1>2, <1>6
    <3>2. Growing(r.blocks[n]) /\ r.blocks[n] # EmptyBlock
      BY <1>1, <3>1
    <3>3. QED
      BY <3>1, <3>2, GrowingFacts
  <2>2. Before(r.last_key, key)
    BY <1>6
  <2>3. QED
    BY <2>1, <2>2, SeparatorOK DEF sep
<1>7. /\ Growing(index) /\ Len(index.keys) = n
      /\ \A h \in 1 .. n : index.handles[h] = h /\ Separates(index.keys[h], LastKey(r.blocks[h]), NextFirst(a, h))
  <2>1. \A h \in 1 .. n : NextFirst(a, h) = IF h < n THEN FirstKey(r.blocks[h + 1]) ELSE FirstKey(data)
    BY <1>3 DEF NextFirst
  <2>2. CASE r.pending
    <3>1. /\ n \in Nat \ {0} /\ Growing(index) /\ Len(index.keys) = n
          /\ index.keys[n] = sep /\ index.handles[n] = n
          /\ \A h \in 1 .. n - 1 : index.keys[h] = r.index.keys[h] /\ index.handles[h] = h
      <4>1. PICK i, k, z : i = index /\ k = sep /\ z = n
        OBVIOUS
      <4>2. i = AddToBlock(r.index, 1, k, z) /\ z = Len(r.blocks)
        BY <2>2, <4>1
      <4>3. k \in InternalKeys /\ ~Before(k, r.last_key)
        BY <1>6, <2>2, <4>1 DEF Separates
      <4>4. /\ z \in Nat \ {0} /\ Growing(i) /\ Len(i.keys) = z
            /\ i.keys[z] = k /\ i.handles[z] = z
            /\ \A h \in 1 .. z - 1 : i.keys[h] = r.index.keys[h] /\ i.handles[h] = h
        BY <2>2, <4>2, <4>3, IndexStep
      <4>5. QED
        BY <4>1, <4>4
    <3>2. ASSUME NEW h \in 1 .. n - 1
          PROVE  index.handles[h] = h /\ Separates(index.keys[h], LastKey(r.blocks[h]), NextFirst(a, h))
      <4>1. h \in 1 .. n /\ h < n
        BY <1>2
      <4>2. NextFirst(a, h) = NextFirst(r, h)
        BY <2>1, <4>1 DEF NextFirst
      <4>3. Separates(r.index.keys[h], LastKey(r.blocks[h]), NextFirst(r, h))
        BY <1>1, <2>2
      <4>4. QED
        BY <3>1, <4>2, <4>3
    <3>3. NextFirst(a, n) = key
      BY <1>1, <1>2, <1>5, <2>1, <2>2, <3>1
    <3>4. Separates(sep, LastKey(r.blocks[n]), key)
      BY <1>1, <1>6, <2>2
    <3>5. \A h \in 1 .. n : h \in 1 .. n - 1 \/ h = n
      BY <1>2
    <3>6. QED
      BY <3>1, <3>2, <3>3, <3>4, <3>5
  <2>3. CASE ~r.pending
    <3>1. index = r.index /\ Len(index.keys) = n
      BY <1>1, <2>3
    <3>2. ASSUME NEW h \in 1 .. n PROVE NextFirst(a, h) = NextFirst(r, h)
      <4>1. r.data # EmptyBlock
        BY <1>1, <2>3, <3>2
      <4>2. QED
        BY <1>5, <2>1, <4>1 DEF NextFirst
    <3>3. QED
      BY <1>1, <2>3, <3>1, <3>2
  <2>4. QED
    BY <2>2, <2>3
<1> HIDE DEF index
<1>8. a \in BuilderSet
  <2>1. data \in BlockSet /\ index \in BlockSet
    BY <1>5, <1>7 DEF Growing
  <2>2. QED
    BY <1>2, <1>3, <2>1 DEF BuilderSet
<1>9. a.blocks = r.blocks /\ a.index = index /\ a.data = data /\ a.last_key = key /\ a.pending = FALSE
  BY <1>3
<1>10. Building(a)
  <2>1. /\ Growing(a.data) /\ Growing(a.index) /\ a.data # EmptyBlock /\ a.last_key = LastKey(a.data)
        /\ \A h \in 1 .. Len(a.blocks) : Growing(a.blocks[h]) /\ a.blocks[h] # EmptyBlock
        /\ Len(a.index.keys) = Len(a.blocks)
    BY <1>1, <1>5, <1>7, <1>9
  <2>2. \A h \in 1 .. Len(a.index.keys) :
          a.index.handles[h] = h /\ Separates(a.index.keys[h], LastKey(a.blocks[h]), NextFirst(a, h))
    BY <1>7, <1>9
  <2>3. QED
    BY <1>8, <1>9, <2>1, <2>2 DEF Building
<1>11. Built(a) = Built(r) \cup {key}
  <2>1. InBlocks(a.blocks) = InBlocks(r.blocks)
    BY <1>9
  <2>2. KeysOf(a.data) = KeysOf(r.data) \cup {key}
    BY <1>5, <1>9
  <2>3. QED
    BY ONLY <2>1, <2>2 DEF Built
<1>12. QED
  BY <1>5, <1>9, <1>10, <1>11

(* Flush makes the data block the last one, to be indexed.                 *)
LEMMA FlushStep ==
  ASSUME NEW r, Building(r), r.data # EmptyBlock, NEW f, f = FlushBlock(r)
  PROVE  Building(f) /\ f.pending /\ f.last_key = r.last_key /\ Built(f) = Built(r)
<1> DEFINE n == Len(r.blocks)
           blocks == Append(r.blocks, r.data)
<1>1. /\ r \in BuilderSet /\ Growing(r.data) /\ Growing(r.index)
      /\ \A h \in 1 .. n : Growing(r.blocks[h]) /\ r.blocks[h] # EmptyBlock
      /\ ~r.pending /\ Len(r.index.keys) = n
      /\ \A h \in 1 .. n :
           r.index.handles[h] = h /\ Separates(r.index.keys[h], LastKey(r.blocks[h]), NextFirst(r, h))
      /\ r.last_key = LastKey(r.data)
  BY DEF Building
<1>2. n \in Nat /\ r.blocks \in Seq(BlockSet) /\ r.data \in BlockSet
  BY <1>1, LenProperties DEF BuilderSet
<1>3. /\ blocks \in Seq(BlockSet) /\ Len(blocks) = n + 1 /\ blocks[n + 1] = r.data
      /\ \A h \in 1 .. n : blocks[h] = r.blocks[h]
  BY <1>2, AppendProperties
<1> HIDE DEF blocks
<1>4. r.data.keys # <<>>
  BY <1>1, GrowingFacts
<1>5. f = [blocks |-> blocks, index |-> r.index, data |-> EmptyBlock, last_key |-> r.last_key, pending |-> TRUE]
  BY <1>1, <1>4 DEF FlushBlock, BuilderSet, blocks
<1>13. f.blocks = blocks /\ f.index = r.index /\ f.data = EmptyBlock /\ f.last_key = r.last_key /\ f.pending = TRUE
  BY <1>5
<1>6. EmptyBlock \in BlockSet /\ Len(EmptyBlock.keys) = 0 /\ Len(EmptyBlock.handles) = 0
  BY DEF EmptyBlock, BlockSet
<1>7. f \in BuilderSet /\ Growing(f.data)
  BY <1>1, <1>3, <1>5, <1>6 DEF BuilderSet, Growing
<1>8. ASSUME NEW h \in 1 .. n PROVE NextFirst(f, h) = NextFirst(r, h)
  <2>1. CASE h < n
    BY <1>2, <1>3, <1>5, <2>1 DEF NextFirst
  <2>2. CASE h = n
    BY <1>2, <1>3, <1>5, <2>2 DEF NextFirst
  <2>3. QED
    BY <1>2, <2>1, <2>2
<1>9. \A h \in 1 .. n + 1 : Growing(blocks[h]) /\ blocks[h] # EmptyBlock
  BY <1>1, <1>2, <1>3
<1>10. Building(f)
  <2>1. Len(f.blocks) = n + 1 /\ n + 1 # 0 /\ Len(f.index.keys) = n /\ n + 1 - 1 = n
    BY <1>1, <1>2, <1>3, <1>5
  <2>2. \A h \in 1 .. Len(f.index.keys) :
          f.index.handles[h] = h /\ Separates(f.index.keys[h], LastKey(f.blocks[h]), NextFirst(f, h))
    <3>1. Len(f.index.keys) = n /\ f.index = r.index /\ \A h \in 1 .. n : f.blocks[h] = r.blocks[h]
      BY <1>1, <1>3, <1>13
    <3>2. QED
      BY <1>1, <1>8, <3>1
  <2>3. f.pending /\ f.data = EmptyBlock /\ f.last_key = LastKey(f.blocks[Len(f.blocks)])
    BY <1>1, <1>3, <1>13
  <2>4. /\ Growing(f.index) /\ \A h \in 1 .. Len(f.blocks) : Growing(f.blocks[h]) /\ f.blocks[h] # EmptyBlock
        /\ Len(f.index.keys) = Len(f.blocks) - 1 /\ Len(f.blocks) # 0
    <3>1. Growing(f.index) /\ f.blocks = blocks
      BY <1>1, <1>13
    <3>2. Len(f.blocks) = n + 1
      BY <2>1
    <3>3. QED
      BY <1>9, <2>1, <3>1, <3>2
  <2>5. QED
    BY <1>7, <2>2, <2>3, <2>4 DEF Building
<1>11. Built(f) = Built(r)
  <2>1. KeysOf(EmptyBlock) = {}
    BY <1>6 DEF KeysOf
  <2>2. InBlocks(blocks) = InBlocks(r.blocks) \cup KeysOf(r.data)
    <3>1. \A x : x \in InBlocks(blocks) <=> \E h \in 1 .. n + 1 : x \in KeysOf(blocks[h])
      BY <1>3 DEF InBlocks
    <3>2. \A x : x \in InBlocks(r.blocks) <=> \E h \in 1 .. n : x \in KeysOf(r.blocks[h])
      BY DEF InBlocks
    <3>3. \A h \in 1 .. n + 1 : h \in 1 .. n \/ h = n + 1
      BY <1>2
    <3>4. n + 1 \in 1 .. n + 1 /\ \A h \in 1 .. n : h \in 1 .. n + 1 /\ KeysOf(blocks[h]) = KeysOf(r.blocks[h])
      BY <1>2, <1>3
    <3>5. KeysOf(blocks[n + 1]) = KeysOf(r.data)
      BY <1>3
    <3>6. ASSUME NEW x PROVE x \in InBlocks(blocks) <=> x \in InBlocks(r.blocks) \/ x \in KeysOf(r.data)
      BY ONLY <3>1, <3>2, <3>3, <3>4, <3>5, Zenon
    <3>7. QED
      BY ONLY <3>6
  <2>3. f.blocks = blocks /\ f.data = EmptyBlock
    BY <1>13
  <2>4. QED
    BY ONLY <2>1, <2>2, <2>3 DEF Built
<1>12. QED
  BY <1>10, <1>11, <1>13

(* TableBuilder::Add, with the flush of a full block.                      *)
LEMMA AddTableStep ==
  ASSUME NEW r, Building(r), NEW shorten \in BOOLEAN, NEW key \in InternalKeys,
         (r.data = EmptyBlock /\ ~r.pending) \/ Before(r.last_key, key),
         NEW s, s = AddToTable(shorten, r, key)
  PROVE  /\ Building(s) /\ (s.data # EmptyBlock \/ s.pending) /\ s.last_key = key
         /\ Built(s) = Built(r) \cup {key}
<1>1. PICK a : a = WithKey(shorten, r, key)
  OBVIOUS
<1>2. Building(a) /\ a.data # EmptyBlock /\ a.last_key = key /\ Built(a) = Built(r) \cup {key}
  BY <1>1, AddStep
<1>3. s = IF Len(a.data.keys) >= BlockSize THEN FlushBlock(a) ELSE a
  BY <1>1 DEF AddToTable, WithKey
<1>4. CASE Len(a.data.keys) >= BlockSize
  BY <1>2, <1>3, <1>4, FlushStep
<1>5. CASE ~(Len(a.data.keys) >= BlockSize)
  BY <1>2, <1>3, <1>5
<1>6. QED
  BY <1>4, <1>5

(* TableBuilder::Finish leaves a table of everything that was added.       *)
LEMMA FinishStep ==
  ASSUME NEW r, Building(r), r.data # EmptyBlock \/ r.pending, NEW shorten \in BOOLEAN,
         NEW g, g = FinishTable(shorten, r), NEW t, t.blocks = g.blocks, t.index = g.index
  PROVE  TableOK(t) /\ TableEntries(t) = Built(r)
<1>1. PICK f : f = FlushBlock(r)
  OBVIOUS
<1>2. Building(f) /\ f.pending /\ Built(f) = Built(r)
  <2>1. CASE r.data # EmptyBlock
    BY <1>1, <2>1, FlushStep
  <2>2. CASE r.data = EmptyBlock
    <3>1. f = r
      BY <1>1, <2>2 DEF FlushBlock, EmptyBlock
    <3>2. QED
      BY <2>2, <3>1
  <2>3. QED
    BY <2>1, <2>2
<1> DEFINE n == Len(f.blocks)
           sep == Successor(shorten, f.last_key)
           index == AddToBlock(f.index, 1, sep, n)
<1>3. /\ f \in BuilderSet /\ n # 0 /\ f.data = EmptyBlock /\ f.last_key = LastKey(f.blocks[n])
      /\ Len(f.index.keys) = n - 1
      /\ \A h \in 1 .. n : Growing(f.blocks[h]) /\ f.blocks[h] # EmptyBlock
      /\ \A h \in 1 .. n - 1 : Separates(f.index.keys[h], LastKey(f.blocks[h]), NextFirst(f, h))
  BY <1>2 DEF Building
<1>4. n \in Nat /\ n \in 1 .. n
  <2>1. f.blocks \in Seq(BlockSet)
    BY <1>3 DEF BuilderSet
  <2>2. QED
    BY <1>3, <2>1, LenProperties
<1>5. t.blocks = f.blocks /\ t.index = index
  <2>1. g = [f EXCEPT !.index = AddToBlock(@, 1, sep, n), !.pending = FALSE]
    BY <1>1, <1>2 DEF FinishTable, AddIndexEntry
  <2> HIDE DEF sep
  <2>2. g.blocks = f.blocks /\ g.index = index
    BY <1>3, <2>1 DEF BuilderSet
  <2>3. QED
    BY <2>2
<1>6. \A h \in 1 .. n : /\ BlockOK(f.blocks[h]) /\ LastKey(f.blocks[h]) \in InternalKeys
                        /\ DOMAIN f.blocks[h].keys = 1 .. Len(f.blocks[h].keys)
  <2>1. SUFFICES ASSUME NEW h \in 1 .. n
                 PROVE  /\ BlockOK(f.blocks[h]) /\ LastKey(f.blocks[h]) \in InternalKeys
                        /\ DOMAIN f.blocks[h].keys = 1 .. Len(f.blocks[h].keys)
    OBVIOUS
  <2>2. PICK b : b = f.blocks[h]
    OBVIOUS
  <2>3. Growing(b) /\ b # EmptyBlock
    BY <1>3, <2>2
  <2>4. BlockOK(b) /\ LastKey(b) \in InternalKeys /\ b.keys \in Seq(InternalKeys)
    BY <2>3, GrowingFacts
  <2>5. DOMAIN b.keys = 1 .. Len(b.keys)
    BY <2>4, LenProperties
  <2>6. QED
    BY <2>2, <2>4, <2>5
<1>7. sep \in InternalKeys /\ ~Before(sep, f.last_key)
  BY <1>3, <1>4, <1>6, SuccessorOK
<1> HIDE DEF sep, index
<1>8. /\ Growing(index) /\ index # EmptyBlock /\ Len(index.keys) = n
      /\ index.keys[n] = sep /\ index.handles[n] = n
      /\ \A h \in 1 .. n - 1 : index.keys[h] = f.index.keys[h] /\ index.handles[h] = h
  <2>1. PICK x : x = index
    OBVIOUS
  <2>2. PICK m : m = n
    OBVIOUS
  <2>3. m = Len(f.blocks) /\ x = AddToBlock(f.index, 1, sep, m)
    BY <2>1, <2>2 DEF index
  <2> HIDE DEF n
  <2>4. /\ Growing(x) /\ x # EmptyBlock /\ Len(x.keys) = m /\ x.keys[m] = sep /\ x.handles[m] = m
        /\ \A h \in 1 .. m - 1 : x.keys[h] = f.index.keys[h] /\ x.handles[h] = h
    BY <1>2, <1>7, <2>3, IndexStep
  <2>5. QED
    BY <2>1, <2>2, <2>4
<1>9. BlockOK(index)
  BY <1>8, GrowingFacts
<1>10. ASSUME NEW h \in 1 .. n PROVE index.handles[h] = h /\ ~Before(index.keys[h], LastKey(f.blocks[h]))
  <2>1. CASE h = n
    BY <1>3, <1>7, <1>8, <2>1
  <2>2. CASE h \in 1 .. n - 1
    BY <1>3, <1>8, <2>2 DEF Separates
  <2>3. QED
    BY <1>4, <2>1, <2>2
<1>11. ASSUME NEW h \in 1 .. n - 1 PROVE Separates(index.keys[h], LastKey(f.blocks[h]), FirstKey(f.blocks[h + 1]))
  <2>1. h < n
    BY <1>4
  <2>2. NextFirst(f, h) = FirstKey(f.blocks[h + 1])
    BY <2>1 DEF NextFirst
  <2>3. QED
    BY <1>3, <1>8, <2>2
<1>12. TableOK(t)
  <2>1. Len(t.blocks) = n /\ n \in Nat \ {0}
    BY <1>3, <1>4, <1>5
  <2>2. QED
    BY <1>5, <1>6, <1>8, <1>9, <1>10, <1>11, <2>1 DEF TableOK
<1>13. TableEntries(t) = InBlocks(f.blocks)
  <2>1. ASSUME NEW h \in 1 .. n PROVE ToSet(f.blocks[h].keys) = KeysOf(f.blocks[h])
    BY <1>6 DEF ToSet, KeysOf
  <2>2. QED
    BY <1>5, <2>1 DEF TableEntries, InBlocks
<1>14. KeysOf(EmptyBlock) = {}
  BY DEF EmptyBlock, KeysOf
<1>15. QED
  BY <1>2, <1>3, <1>12, <1>13, <1>14 DEF Built

(* A table that was built from entries in order is well formed and holds   *)
(* them.                                                                   *)
LEMMA TableBuilt ==
  ASSUME NEW shorten \in BOOLEAN, NEW entries, NEW n \in Nat \ {0}, n = Len(entries),
         \A i \in 1 .. n : entries[i] \in InternalKeys,
         \A i, j \in 1 .. n : i < j => Before(entries[i], entries[j])
  PROVE  /\ TableOK(BuildTable(shorten, entries))
         /\ TableEntries(BuildTable(shorten, entries)) = {entries[i] : i \in 1 .. n}
<1> DEFINE Put(i, r) == AddToTable(shorten, r, entries[i])
           Runs(r, m) == r = [i \in 0 .. m |-> IF i = 0 THEN NewTable ELSE Put(i, r[i - 1])]
           T == {m \in Nat : \E r : Runs(r, m)}
           r == CHOOSE r : r = [i \in 0 .. n |-> IF i = 0 THEN NewTable ELSE Put(i, r[i - 1])]
           g == FinishTable(shorten, r[n])
           t == BuildTable(shorten, entries)
<1>1. t.blocks = g.blocks /\ t.index = g.index
  <2>1. t = [blocks |-> g.blocks, index |-> g.index]
    BY Zenon DEF BuildTable
  <2> HIDE DEF t, g
  <2>2. QED
    BY <2>1
<1> HIDE DEF Put
<1>2. 0 \in T
  <2>1. Runs([i \in 0 .. 0 |-> NewTable], 0)
    OBVIOUS
  <2>2. QED
    BY <2>1
<1>3. ASSUME NEW m \in 1 .. n, m - 1 \in T PROVE m \in T
  <2>1. PICK q : Runs(q, m - 1)
    BY <1>3
  <2>2. Runs([i \in 0 .. m |-> IF i = 0 THEN NewTable ELSE Put(i, q[i - 1])], m)
    BY <2>1
  <2> HIDE DEF Runs
  <2>3. QED
    BY <2>2
<1>4. n \in T
  <2> HIDE DEF T
  <2>1. \A i \in 1 .. n : i - 1 \in T => i \in T
    BY <1>3
  <2>2. \A i \in 0 .. n : i \in T
    BY <1>2, <2>1, UpTo
  <2>3. QED
    BY <2>2
<1>5. Runs(r, n)
  BY <1>4
<1>6. r[0] = NewTable /\ \A i \in 1 .. n : r[i] = AddToTable(shorten, r[i - 1], entries[i])
  <2> HIDE DEF r
  <2>1. QED
    BY <1>5 DEF Put
<1> HIDE DEF r, Runs, T
<1> DEFINE J(i) == /\ Building(r[i]) /\ Built(r[i]) = {entries[j] : j \in 1 .. i}
                   /\ IF i = 0 THEN r[i].data = EmptyBlock /\ ~r[i].pending
                      ELSE (r[i].data # EmptyBlock \/ r[i].pending) /\ r[i].last_key = entries[i]
           U == {i \in 0 .. n : J(i)}
<1>7. J(0)
  <2>1. /\ EmptyBlock \in BlockSet /\ Len(EmptyBlock.keys) = 0 /\ Len(EmptyBlock.handles) = 0
        /\ KeysOf(EmptyBlock) = {} /\ Growing(EmptyBlock)
    BY DEF EmptyBlock, BlockSet, KeysOf, Growing
  <2>2. /\ r[0].blocks = <<>> /\ r[0].index = EmptyBlock /\ r[0].data = EmptyBlock /\ r[0].pending = FALSE
        /\ r[0] \in BuilderSet /\ Len(r[0].blocks) = 0
    BY <1>6, <2>1 DEF NewTable, BuilderSet
  <2>3. Building(r[0])
    BY <2>1, <2>2 DEF Building
  <2>4. InBlocks(r[0].blocks) = {}
    BY <2>2 DEF InBlocks
  <2>5. Built(r[0]) = {}
    BY <2>1, <2>2, <2>4 DEF Built
  <2>6. {entries[j] : j \in 1 .. 0} = {}
    OBVIOUS
  <2>7. QED
    BY <2>2, <2>3, <2>5, <2>6
<1>8. ASSUME NEW i \in 1 .. n, J(i - 1) PROVE J(i)
  <2>1. PICK q : q = r[i - 1]
    OBVIOUS
  <2>2. Building(q) /\ Built(q) = {entries[j] : j \in 1 .. i - 1} /\ entries[i] \in InternalKeys
    BY <1>8, <2>1
  <2>3. (q.data = EmptyBlock /\ ~q.pending) \/ Before(q.last_key, entries[i])
    <3>1. CASE i - 1 = 0
      BY <1>8, <2>1, <3>1
    <3>2. CASE i - 1 # 0
      <4>1. q.last_key = entries[i - 1] /\ i - 1 \in 1 .. n /\ i - 1 < i
        BY <1>8, <2>1, <3>2
      <4>2. QED
        BY <4>1
    <3>3. QED
      BY <3>1, <3>2
  <2>4. PICK s : s = r[i]
    OBVIOUS
  <2>5. s = AddToTable(shorten, q, entries[i])
    BY <1>6, <2>1, <2>4
  <2>6. /\ Building(s) /\ (s.data # EmptyBlock \/ s.pending) /\ s.last_key = entries[i]
        /\ Built(s) = Built(q) \cup {entries[i]}
    BY <2>2, <2>3, <2>5, AddTableStep
  <2>7. {entries[j] : j \in 1 .. i} = {entries[j] : j \in 1 .. i - 1} \cup {entries[i]}
    <3>1. \A j : j \in 1 .. i <=> j \in 1 .. i - 1 \/ j = i
      OBVIOUS
    <3>2. QED
      BY ONLY <3>1
  <2>8. i # 0
    OBVIOUS
  <2>9. QED
    BY <2>2, <2>4, <2>6, <2>7, <2>8
<1>9. J(n)
  <2>1. n \in Nat
    OBVIOUS
  <2>2. 0 \in U
    BY <1>7
  <2>3. \A i \in 1 .. n : i - 1 \in U => i \in U
    <3> HIDE DEF J
    <3>1. QED
      BY <1>8
  <2> HIDE DEF U
  <2>4. \A i \in 0 .. n : i \in U
    BY ONLY <2>1, <2>2, <2>3, UpTo
  <2>5. n \in U
    BY <2>1, <2>4
  <2>6. QED
    BY <2>5 DEF U
<1>10. QED
  <2>1. PICK q : q = r[n]
    OBVIOUS
  <2>2. Building(q) /\ (q.data # EmptyBlock \/ q.pending) /\ Built(q) = {entries[j] : j \in 1 .. n}
    BY <1>9, <2>1
  <2>3. g = FinishTable(shorten, q)
    BY <2>1
  <2> HIDE DEF t, g
  <2>4. TableOK(t) /\ TableEntries(t) = Built(q)
    BY <1>1, <2>2, <2>3, FinishStep
  <2>5. QED
    BY <2>2, <2>4 DEF t

-----------------------------------------------------------------------------
(* The iterator of a table, and Table::InternalGet.                        *)

(* The entry a table iterator is on, or Nil.                               *)
TableAt(t, it) == IF TableValid(t, it) THEN TableKey(t, it) ELSE Nil

(* A two-level iterator while it moves: the data block it has open is the  *)
(* one the index names.  Between moves it is on an entry or has none open. *)
Opened(t, it) ==
  /\ it = [index |-> it.index, data |-> it.data, handle |-> it.handle]
  /\ CursorOK(t.index, it.index)
  /\ it.data # Nil => /\ BlockValid(t.index, it.index) /\ it.handle = it.index.current
                      /\ CursorOK(t.blocks[it.handle], it.data)

(* Between moves it is on an entry or has no data block open.              *)
TableItOK(t, it) == Opened(t, it) /\ (it.data # Nil => TableValid(t, it))

(* The key of an entry of a block.                                         *)
Slot(t, h, p) == t.blocks[h].keys[p]

(* Entries ascend with their slots, and the index separates the blocks.    *)
LEMMA TableSlots ==
  ASSUME NEW t, TableOK(t), NEW n, n = Len(t.blocks)
  PROVE  /\ n \in Nat \ {0} /\ Len(t.index.keys) = n
         /\ \A h \in 1 .. n : BlockOK(t.blocks[h]) /\ Len(t.blocks[h].keys) \in Nat \ {0}
         /\ \A h \in 1 .. n : \A p \in 1 .. Len(t.blocks[h].keys) :
              Slot(t, h, p) \in InternalKeys /\ Slot(t, h, p) \in TableEntries(t)
         /\ \A e \in TableEntries(t) : \E h \in 1 .. n : \E p \in 1 .. Len(t.blocks[h].keys) : e = Slot(t, h, p)
         /\ \A h \in 1 .. n : t.index.keys[h] \in InternalKeys
         /\ \A h \in 1 .. n : \A p \in 1 .. Len(t.blocks[h].keys) : ~Before(t.index.keys[h], Slot(t, h, p))
         /\ \A g, h \in 1 .. n : \A p \in 1 .. Len(t.blocks[h].keys) :
              g < h => Before(t.index.keys[g], Slot(t, h, p))
         /\ \A g, h \in 1 .. n : \A p \in 1 .. Len(t.blocks[g].keys), q \in 1 .. Len(t.blocks[h].keys) :
              g < h \/ (g = h /\ p < q) => Before(Slot(t, g, p), Slot(t, h, q))
<1>1. n \in Nat \ {0} /\ Len(t.index.keys) = n
  BY DEF TableOK
<1>2. \A h \in 1 .. n : BlockOK(t.blocks[h]) /\ DOMAIN t.blocks[h].keys = 1 .. Len(t.blocks[h].keys)
  BY DEF TableOK
<1>3. \A h \in 1 .. n : Len(t.blocks[h].keys) \in Nat \ {0}
  BY <1>2 DEF BlockOK
<1>4. \A h \in 1 .. n : \A p \in 1 .. Len(t.blocks[h].keys) : Slot(t, h, p) \in InternalKeys
  BY <1>2 DEF BlockOK, Slot
<1>5. \A h \in 1 .. n : \A p \in 1 .. Len(t.blocks[h].keys) : Slot(t, h, p) \in TableEntries(t)
  BY <1>2 DEF TableEntries, ToSet, Slot
<1>6. \A e \in TableEntries(t) : \E h \in 1 .. n : \E p \in 1 .. Len(t.blocks[h].keys) : e = Slot(t, h, p)
  BY <1>2 DEF TableEntries, ToSet, Slot
<1>7. \A h \in 1 .. n : t.index.keys[h] \in InternalKeys
  BY <1>1 DEF TableOK, BlockOK
<1>8. ASSUME NEW h \in 1 .. n, NEW p \in 1 .. Len(t.blocks[h].keys), NEW q \in 1 .. Len(t.blocks[h].keys), p < q
      PROVE  Before(Slot(t, h, p), Slot(t, h, q))
  BY <1>2, <1>8 DEF BlockOK, Slot
<1>9. ASSUME NEW h \in 1 .. n, NEW p \in 1 .. Len(t.blocks[h].keys) PROVE ~Before(t.index.keys[h], Slot(t, h, p))
  <2> DEFINE m == Len(t.blocks[h].keys)
  <2>1. m \in 1 .. m /\ (p = m \/ p < m)
    BY <1>3
  <2>2. Slot(t, h, p) = Slot(t, h, m) \/ Before(Slot(t, h, p), Slot(t, h, m))
    BY <1>8, <2>1
  <2>3. ~Before(t.index.keys[h], Slot(t, h, m))
    BY DEF TableOK, LastKey, Slot
  <2> HIDE DEF m
  <2>4. Slot(t, h, m) \in InternalKeys /\ Slot(t, h, p) \in InternalKeys /\ t.index.keys[h] \in InternalKeys
    BY <1>4, <1>7, <2>1 DEF m
  <2>5. QED
    BY <2>2, <2>3, <2>4, KeyOrderTransitive
<1>10. ASSUME NEW g \in 1 .. n, NEW h \in 1 .. n, g < h, NEW p \in 1 .. Len(t.blocks[h].keys)
       PROVE  Before(t.index.keys[g], Slot(t, h, p))
  <2>1. h - 1 \in 1 .. n - 1 /\ h - 1 \in 1 .. n /\ (g = h - 1 \/ g < h - 1) /\ h - 1 + 1 = h
    BY <1>1, <1>10
  <2>2. 1 \in 1 .. Len(t.blocks[h].keys) /\ (p = 1 \/ 1 < p)
    BY <1>3
  <2>3. Before(t.index.keys[h - 1], Slot(t, h, 1))
    BY <1>1, <2>1 DEF TableOK, Separates, FirstKey, Slot
  <2>4. Slot(t, h, 1) = Slot(t, h, p) \/ Before(Slot(t, h, 1), Slot(t, h, p))
    BY <1>8, <2>2
  <2>5. t.index.keys[g] = t.index.keys[h - 1] \/ Before(t.index.keys[g], t.index.keys[h - 1])
    BY <1>1, <2>1 DEF TableOK, BlockOK
  <2>6. /\ t.index.keys[g] \in InternalKeys /\ t.index.keys[h - 1] \in InternalKeys
        /\ Slot(t, h, 1) \in InternalKeys /\ Slot(t, h, p) \in InternalKeys
    BY <1>4, <1>7, <2>1, <2>2
  <2>7. Before(t.index.keys[h - 1], Slot(t, h, p))
    BY <2>3, <2>4, <2>6, KeyOrderTransitive
  <2>8. QED
    BY <2>5, <2>6, <2>7, KeyOrderTransitive
<1>11. ASSUME NEW g \in 1 .. n, NEW h \in 1 .. n, g < h,
              NEW p \in 1 .. Len(t.blocks[g].keys), NEW q \in 1 .. Len(t.blocks[h].keys)
       PROVE  Before(Slot(t, g, p), Slot(t, h, q))
  <2>1. Before(t.index.keys[g], Slot(t, h, q)) /\ ~Before(t.index.keys[g], Slot(t, g, p))
    BY <1>9, <1>10, <1>11
  <2>2. Slot(t, g, p) \in InternalKeys /\ Slot(t, h, q) \in InternalKeys /\ t.index.keys[g] \in InternalKeys
    BY <1>4, <1>7
  <2>3. QED
    BY <2>1, <2>2, KeyOrder, KeyOrderTransitive
<1>12. ASSUME NEW g \in 1 .. n, NEW h \in 1 .. n,
              NEW p \in 1 .. Len(t.blocks[g].keys), NEW q \in 1 .. Len(t.blocks[h].keys),
              g < h \/ (g = h /\ p < q)
       PROVE  Before(Slot(t, g, p), Slot(t, h, q))
  BY <1>8, <1>11, <1>12
<1>13. QED
  BY <1>1, <1>2, <1>3, <1>4, <1>5, <1>6, <1>7, <1>9, <1>10, <1>12

(* The entry of R in the lowest, or the highest, slot.                     *)
LEMMA LowestSlot ==
  ASSUME NEW t, TableOK(t), NEW n, n = Len(t.blocks), NEW R, R \subseteq TableEntries(t),
         NEW h \in 1 .. n, NEW p \in 1 .. Len(t.blocks[h].keys), Slot(t, h, p) \in R,
         \A g \in 1 .. n : \A q \in 1 .. Len(t.blocks[g].keys) : g < h \/ (g = h /\ q < p) => Slot(t, g, q) \notin R
  PROVE  IsFirst(Slot(t, h, p), R)
<1>1. ASSUME NEW e \in R, e # Slot(t, h, p) PROVE Before(Slot(t, h, p), e)
  <2>0. PICK g \in 1 .. n : \E q \in 1 .. Len(t.blocks[g].keys) : e = Slot(t, g, q)
    BY TableSlots
  <2>1. PICK q \in 1 .. Len(t.blocks[g].keys) : e = Slot(t, g, q)
    BY <2>0
  <2>2. n \in Nat /\ Len(t.blocks[g].keys) \in Nat /\ Len(t.blocks[h].keys) \in Nat
    BY TableSlots
  <2>3. ~(g < h \/ (g = h /\ q < p)) /\ ~(g = h /\ q = p)
    BY <1>1, <2>1
  <2>4. h < g \/ (h = g /\ p < q)
    BY ONLY <2>2, <2>3, h \in 1 .. n, p \in 1 .. Len(t.blocks[h].keys), g \in 1 .. n, q \in 1 .. Len(t.blocks[g].keys)
  <2>5. QED
    BY <2>1, <2>4, TableSlots
<1>2. QED
  BY <1>1 DEF IsFirst

(* The same for the highest slot.                                          *)
LEMMA HighestSlot ==
  ASSUME NEW t, TableOK(t), NEW n, n = Len(t.blocks), NEW R, R \subseteq TableEntries(t),
         NEW h \in 1 .. n, NEW p \in 1 .. Len(t.blocks[h].keys), Slot(t, h, p) \in R,
         \A g \in 1 .. n : \A q \in 1 .. Len(t.blocks[g].keys) : h < g \/ (g = h /\ p < q) => Slot(t, g, q) \notin R
  PROVE  IsLast(Slot(t, h, p), R)
<1>1. ASSUME NEW e \in R, e # Slot(t, h, p) PROVE Before(e, Slot(t, h, p))
  <2>0. PICK g \in 1 .. n : \E q \in 1 .. Len(t.blocks[g].keys) : e = Slot(t, g, q)
    BY TableSlots
  <2>1. PICK q \in 1 .. Len(t.blocks[g].keys) : e = Slot(t, g, q)
    BY <2>0
  <2>2. n \in Nat /\ Len(t.blocks[g].keys) \in Nat /\ Len(t.blocks[h].keys) \in Nat
    BY TableSlots
  <2>3. ~(h < g \/ (g = h /\ p < q)) /\ ~(g = h /\ q = p)
    BY <1>1, <2>1
  <2>4. g < h \/ (g = h /\ q < p)
    BY ONLY <2>2, <2>3, h \in 1 .. n, p \in 1 .. Len(t.blocks[h].keys), g \in 1 .. n, q \in 1 .. Len(t.blocks[g].keys)
  <2>5. QED
    BY <2>1, <2>4, TableSlots
<1>2. QED
  BY <1>1 DEF IsLast

(* Of a set without a slot there is no first or last entry.                *)
LEMMA NoSlot ==
  ASSUME NEW t, TableOK(t), NEW n, n = Len(t.blocks), NEW R, R \subseteq TableEntries(t),
         \A g \in 1 .. n : \A q \in 1 .. Len(t.blocks[g].keys) : Slot(t, g, q) \notin R
  PROVE  IsFirst(Nil, R) /\ IsLast(Nil, R)
<1>1. R = {}
  BY TableSlots
<1>2. QED
  BY <1>1 DEF IsFirst, IsLast

(* One turn of the loops over data blocks.                                 *)
ForwardTurn(t, x) ==
  IF TableValid(t, x) THEN x
  ELSE IF ~BlockValid(t.index, x.index) THEN [x EXCEPT !.data = Nil]
  ELSE FirstInBlock(t, InitDataBlock(t, [x EXCEPT !.index = BlockNext(t.index, @)]))

(* The same for the way back.                                              *)
BackwardTurn(t, x) ==
  IF TableValid(t, x) THEN x
  ELSE IF ~BlockValid(t.index, x.index) THEN [x EXCEPT !.data = Nil]
  ELSE LastInBlock(t, InitDataBlock(t, [x EXCEPT !.index = BlockPrev(t.index, @)]))

(* The turns of SkipEmptyDataBlocksForward.                                *)
LEMMA SkipForwardRun ==
  ASSUME NEW t, NEW it, NEW n \in Nat, n = Len(t.blocks) + 1
  PROVE  \E r : /\ SkipEmptyDataBlocksForward(t, it) = r[n]
                /\ r[0] = it
                /\ \A i \in 1 .. n : r[i] = ForwardTurn(t, r[i - 1])
<1> DEFINE x == it
           Turn(y) == ForwardTurn(t, y)
           Runs(r, m) == r = [i \in 0 .. m |-> IF i = 0 THEN x ELSE Turn(r[i - 1])]
           T == {m \in Nat : \E r : Runs(r, m)}
<1>0. SkipEmptyDataBlocksForward(t, it) = Loop(n, x, Turn)
  BY DEF SkipEmptyDataBlocksForward, ForwardTurn
<1> HIDE DEF Turn, x
<1>1. 0 \in T
  <2>1. Runs([i \in 0 .. 0 |-> x], 0)
    OBVIOUS
  <2>2. QED
    BY <2>1
<1>2. ASSUME NEW m \in 1 .. n, m - 1 \in T PROVE m \in T
  <2>1. PICK r : Runs(r, m - 1)
    BY <1>2
  <2>2. Runs([i \in 0 .. m |-> IF i = 0 THEN x ELSE Turn(r[i - 1])], m)
    BY <2>1
  <2> HIDE DEF Runs
  <2>3. QED
    BY <2>2
<1>3. n \in T
  <2> HIDE DEF T
  <2>1. \A i \in 1 .. n : i - 1 \in T => i \in T
    BY <1>2
  <2>2. \A i \in 0 .. n : i \in T
    BY <1>1, <2>1, UpTo
  <2>3. QED
    BY <2>2
<1> DEFINE r == CHOOSE r : Runs(r, n)
<1>4. Runs(r, n)
  BY <1>3
<1>5. Loop(n, x, Turn) = r[n]
  BY DEF Loop
<1> HIDE DEF r
<1>6. r[0] = x /\ \A i \in 1 .. n : r[i] = Turn(r[i - 1])
  BY <1>4
<1>7. QED
  BY <1>0, <1>5, <1>6 DEF Turn, x

(* The turns of SkipEmptyDataBlocksBackward.                               *)
LEMMA SkipBackwardRun ==
  ASSUME NEW t, NEW it, NEW n \in Nat, n = Len(t.blocks) + 1
  PROVE  \E r : /\ SkipEmptyDataBlocksBackward(t, it) = r[n]
                /\ r[0] = it
                /\ \A i \in 1 .. n : r[i] = BackwardTurn(t, r[i - 1])
<1> DEFINE x == it
           Turn(y) == BackwardTurn(t, y)
           Runs(r, m) == r = [i \in 0 .. m |-> IF i = 0 THEN x ELSE Turn(r[i - 1])]
           T == {m \in Nat : \E r : Runs(r, m)}
<1>0. SkipEmptyDataBlocksBackward(t, it) = Loop(n, x, Turn)
  BY DEF SkipEmptyDataBlocksBackward, BackwardTurn
<1> HIDE DEF Turn, x
<1>1. 0 \in T
  <2>1. Runs([i \in 0 .. 0 |-> x], 0)
    OBVIOUS
  <2>2. QED
    BY <2>1
<1>2. ASSUME NEW m \in 1 .. n, m - 1 \in T PROVE m \in T
  <2>1. PICK r : Runs(r, m - 1)
    BY <1>2
  <2>2. Runs([i \in 0 .. m |-> IF i = 0 THEN x ELSE Turn(r[i - 1])], m)
    BY <2>1
  <2> HIDE DEF Runs
  <2>3. QED
    BY <2>2
<1>3. n \in T
  <2> HIDE DEF T
  <2>1. \A i \in 1 .. n : i - 1 \in T => i \in T
    BY <1>2
  <2>2. \A i \in 0 .. n : i \in T
    BY <1>1, <2>1, UpTo
  <2>3. QED
    BY <2>2
<1> DEFINE r == CHOOSE r : Runs(r, n)
<1>4. Runs(r, n)
  BY <1>3
<1>5. Loop(n, x, Turn) = r[n]
  BY DEF Loop
<1> HIDE DEF r
<1>6. r[0] = x /\ \A i \in 1 .. n : r[i] = Turn(r[i - 1])
  BY <1>4
<1>7. QED
  BY <1>0, <1>5, <1>6 DEF Turn, x

(* A loop that has come to rest.                                           *)
LEMMA Rests ==
  ASSUME NEW r, NEW n \in Nat, NEW k \in 0 .. n, \A i \in k + 1 .. n : r[i - 1] = r[k] => r[i] = r[k]
  PROVE  r[n] = r[k]
<1> DEFINE T == {i \in 0 .. n : i >= k => r[i] = r[k]}
<1>1. 0 \in T
  OBVIOUS
<1>2. ASSUME NEW i \in 1 .. n, i - 1 \in T PROVE i \in T
  <2>1. CASE i = k \/ i < k
    BY <2>1
  <2>2. CASE i > k
    <3>1. i - 1 >= k /\ i \in k + 1 .. n
      BY <2>2
    <3>2. QED
      BY <1>2, <3>1
  <2>3. QED
    BY <2>1, <2>2
<1>3. n \in T
  <2> HIDE DEF T
  <2>1. \A i \in 1 .. n : i - 1 \in T => i \in T
    BY <1>2
  <2>2. \A i \in 0 .. n : i \in T
    BY <1>1, <2>1, UpTo
  <2>3. QED
    BY <2>2
<1>4. QED
  BY <1>3

(* A BlockIter is not a null pointer, and on an entry or past the end.     *)
LEMMA BlockIters ==
  ASSUME NEW b, BlockOK(b), NEW it, CursorOK(b, it)
  PROVE  /\ it # Nil /\ Len(b.keys) \in Nat \ {0} /\ it.current \in Nat
         /\ BlockValid(b, it) <=> it.current \in 1 .. Len(b.keys)
         /\ ~BlockValid(b, it) <=> it.current = Len(b.keys) + 1
BY TableAssumption DEF CursorOK, BlockOK, BlockValid

(* A new BlockIter is past the end.                                        *)
LEMMA FreshCursorOK == ASSUME NEW b, BlockOK(b) PROVE CursorOK(b, PastEnd(b)) /\ ~BlockValid(b, PastEnd(b))
BY DEF CursorOK, BlockOK, BlockValid, PastEnd

(* InitDataBlock opens the block the index names.                          *)
LEMMA OpensBlock ==
  ASSUME NEW t, TableOK(t), NEW it, Opened(t, it), NEW index, CursorOK(t.index, index),
         NEW y, y = InitDataBlock(t, [it EXCEPT !.index = index])
  PROVE  /\ Opened(t, y) /\ y.index = index
         /\ ~BlockValid(t.index, index) => y.data = Nil
         /\ BlockValid(t.index, index) => y.data # Nil /\ y.handle = index.current /\ index.current \in 1 .. Len(t.blocks)
<1> DEFINE n == Len(t.blocks)
<1>1. n \in Nat /\ Len(t.index.keys) = n /\ BlockOK(t.index) /\ \A h \in 1 .. n : BlockOK(t.blocks[h]) /\ t.index.handles[h] = h
  BY DEF TableOK
<1>2. PICK x : x = [it EXCEPT !.index = index]
  OBVIOUS
<1>3. x = [index |-> index, data |-> it.data, handle |-> it.handle]
  BY <1>2 DEF Opened
<1>4. CASE ~BlockValid(t.index, index)
  <2>1. y = [index |-> index, data |-> Nil, handle |-> it.handle]
    BY <1>2, <1>3, <1>4 DEF InitDataBlock
  <2>2. QED
    BY <1>4, <2>1 DEF Opened
<1>5. CASE BlockValid(t.index, index)
  <2>1. index.current \in 1 .. n
    BY <1>1, <1>5, BlockIters
  <2>2. y = IF it.data # Nil /\ it.handle = index.current THEN x
            ELSE [x EXCEPT !.data = PastEnd(t.blocks[index.current]), !.handle = index.current]
    BY <1>1, <1>2, <1>3, <1>5, <2>1 DEF InitDataBlock
  <2>3. CASE it.data # Nil /\ it.handle = index.current
    <3>1. y = [index |-> index, data |-> it.data, handle |-> it.handle]
      BY <1>3, <2>2, <2>3
    <3>2. CursorOK(t.blocks[it.handle], it.data)
      BY <2>3 DEF Opened
    <3>3. QED
      BY <1>5, <2>1, <2>3, <3>1, <3>2 DEF Opened
  <2>4. CASE ~(it.data # Nil /\ it.handle = index.current)
    <3> DEFINE d == PastEnd(t.blocks[index.current])
    <3>1. CursorOK(t.blocks[index.current], d) /\ d # Nil
      BY <1>1, <2>1, FreshCursorOK, BlockIters
    <3> HIDE DEF d
    <3>2. y = [index |-> index, data |-> d, handle |-> index.current]
      BY <1>3, <2>2, <2>4 DEF d
    <3>3. QED
      BY <1>5, <2>1, <3>1, <3>2 DEF Opened
  <2>5. QED
    BY <2>3, <2>4
<1>6. QED
  BY <1>4, <1>5

(* The data block iterator is put somewhere in its block.                  *)
LEMMA PutInBlock ==
  ASSUME NEW t, TableOK(t), NEW it, Opened(t, it), it.data # Nil, NEW d, CursorOK(t.blocks[it.handle], d),
         NEW y, y = [it EXCEPT !.data = d]
  PROVE  /\ Opened(t, y) /\ y.index = it.index /\ y.data = d /\ y.data # Nil
         /\ y.handle = it.index.current /\ it.index.current \in 1 .. Len(t.blocks)
         /\ TableValid(t, y) <=> BlockValid(t.blocks[it.index.current], d)
         /\ TableKey(t, y) = Slot(t, it.index.current, d.current)
<1>1. Len(t.index.keys) = Len(t.blocks) /\ BlockOK(t.index) /\ \A h \in 1 .. Len(t.blocks) : BlockOK(t.blocks[h])
  BY DEF TableOK
<1>2. BlockValid(t.index, it.index) /\ it.handle = it.index.current /\ CursorOK(t.index, it.index)
  BY DEF Opened
<1>3. it.index.current \in 1 .. Len(t.blocks)
  BY <1>1, <1>2, BlockIters
<1>4. d # Nil
  BY <1>1, <1>2, <1>3, BlockIters
<1>5. y = [index |-> it.index, data |-> d, handle |-> it.handle]
  BY DEF Opened
<1>6. Opened(t, y)
  BY <1>2, <1>5 DEF Opened
<1>7. TableValid(t, y) <=> BlockValid(t.blocks[it.index.current], d)
  BY <1>2, <1>4, <1>5 DEF TableValid, DataBlock
<1>8. TableKey(t, y) = Slot(t, it.index.current, d.current)
  BY <1>2, <1>5 DEF TableKey, DataBlock, BlockKey, Slot
<1>9. QED
  BY <1>2, <1>3, <1>4, <1>5, <1>6, <1>7, <1>8

(* From past the end of a block the iterator goes on in the next one.      *)
LEMMA ForwardTurnIs ==
  ASSUME NEW t, TableOK(t), NEW it, Opened(t, it), ~TableValid(t, it), NEW y, y = ForwardTurn(t, it)
  PROVE  /\ Opened(t, y)
         /\ ~BlockValid(t.index, it.index) => y.data = Nil /\ y.index = it.index
         /\ BlockValid(t.index, it.index) => it.index.current \in 1 .. Len(t.blocks)
         /\ BlockValid(t.index, it.index) /\ it.index.current = Len(t.blocks) => y.data = Nil /\ ~BlockValid(t.index, y.index)
         /\ BlockValid(t.index, it.index) /\ it.index.current # Len(t.blocks) =>
              TableValid(t, y) /\ TableKey(t, y) = Slot(t, it.index.current + 1, 1)
<1> DEFINE n == Len(t.blocks)
<1>1. n \in Nat \ {0} /\ Len(t.index.keys) = n /\ BlockOK(t.index) /\ \A h \in 1 .. n : BlockOK(t.blocks[h])
  BY DEF TableOK
<1>2. CursorOK(t.index, it.index)
  BY DEF Opened
<1>3. CASE ~BlockValid(t.index, it.index)
  <2>1. y = [it EXCEPT !.data = Nil]
    BY <1>3 DEF ForwardTurn
  <2>2. y = [index |-> it.index, data |-> Nil, handle |-> it.handle]
    BY <2>1 DEF Opened
  <2>3. QED
    BY <1>2, <1>3, <2>2 DEF Opened
<1>4. CASE BlockValid(t.index, it.index)
  <2>1. it.index.current \in 1 .. n
    BY <1>1, <1>2, <1>4, BlockIters
  <2>2. PICK index : index = BlockNext(t.index, it.index)
    OBVIOUS
  <2>3. PICK z : z = InitDataBlock(t, [it EXCEPT !.index = index])
    OBVIOUS
  <2>4. y = FirstInBlock(t, z)
    BY <1>4, <2>2, <2>3 DEF ForwardTurn
  <2>5. CursorOK(t.index, index) /\ index.current = it.index.current + 1
    BY <1>1, <1>2, <1>4, <2>2, BlockNextIs
  <2>6. BlockValid(t.index, index) <=> it.index.current # n
    BY <1>1, <2>1, <2>5 DEF BlockValid
  <2>7. /\ Opened(t, z) /\ z.index = index
        /\ ~BlockValid(t.index, index) => z.data = Nil
        /\ BlockValid(t.index, index) => z.data # Nil /\ z.handle = index.current /\ index.current \in 1 .. n
    BY <2>3, <2>5, OpensBlock
  <2>8. CASE it.index.current = Len(t.blocks)
    <3>1. y = z
      BY <2>4, <2>6, <2>7, <2>8 DEF FirstInBlock
    <3>2. QED
      BY <1>4, <2>1, <2>6, <2>7, <2>8, <3>1
  <2>9. CASE it.index.current # Len(t.blocks)
    <3> DEFINE b == t.blocks[index.current]
               s == BlockSeekToFirst(b)
    <3>1. z.data # Nil /\ z.handle = index.current /\ index.current \in 1 .. n /\ index.current = it.index.current + 1
      BY <2>5, <2>6, <2>7, <2>9
    <3>2. BlockOK(b)
      BY <1>1, <3>1
    <3>3. CursorOK(b, s) /\ s.current = 1
      BY <3>2, BlockFirst
    <3>4. BlockValid(b, s)
      BY <3>2, <3>3 DEF BlockValid, BlockOK
    <3>5. y = [z EXCEPT !.data = s]
      BY <2>4, <3>1 DEF FirstInBlock, DataBlock
    <3> HIDE DEF s, b
    <3>6. CursorOK(t.blocks[z.handle], s)
      BY <3>1, <3>3 DEF b
    <3>7. /\ Opened(t, y) /\ (TableValid(t, y) <=> BlockValid(t.blocks[z.index.current], s))
          /\ TableKey(t, y) = Slot(t, z.index.current, s.current)
      BY <2>7, <3>1, <3>5, <3>6, PutInBlock
    <3>8. QED
      BY <1>4, <2>1, <2>7, <2>9, <3>1, <3>3, <3>4, <3>7 DEF b
  <2>10. QED
    BY <2>8, <2>9
<1>5. QED
  BY <1>3, <1>4

(* ...after at most two turns.                                             *)
LEMMA SkipForwardIs ==
  ASSUME NEW t, TableOK(t), NEW it, Opened(t, it), NEW y, y = SkipEmptyDataBlocksForward(t, it)
  PROVE  /\ TableItOK(t, y)
         /\ TableValid(t, it) => y = it
         /\ ~TableValid(t, it) /\ BlockValid(t.index, it.index) /\ it.index.current # Len(t.blocks) =>
              TableValid(t, y) /\ TableKey(t, y) = Slot(t, it.index.current + 1, 1)
         /\ ~TableValid(t, it) /\ ~(BlockValid(t.index, it.index) /\ it.index.current # Len(t.blocks)) => ~TableValid(t, y)
<1> DEFINE n == Len(t.blocks) + 1
<1>1. n \in Nat /\ 2 <= n
  BY DEF TableOK
<1>2. PICK r : /\ y = r[n] /\ r[0] = it
               /\ \A i \in 1 .. n : r[i] = ForwardTurn(t, r[i - 1])
  <2>1. PICK m : m = n
    OBVIOUS
  <2>2. \E r : /\ y = r[m] /\ r[0] = it
               /\ \A i \in 1 .. m : r[i] = ForwardTurn(t, r[i - 1])
    BY <1>1, <2>1, SkipForwardRun
  <2>3. QED
    BY <2>1, <2>2
<1> HIDE DEF n
<1>3. ASSUME NEW k \in 0 .. n, ForwardTurn(t, r[k]) = r[k] PROVE y = r[k]
  <2>1. \A i \in k + 1 .. n : r[i - 1] = r[k] => r[i] = r[k]
    <3>1. \A i \in k + 1 .. n : i \in 1 .. n
      BY <1>1
    <3>2. QED
      BY <1>2, <1>3, <3>1
  <2>2. QED
    BY <1>1, <1>2, <2>1, Rests
<1>4. ASSUME NEW x, TableValid(t, x) PROVE ForwardTurn(t, x) = x
  BY <1>4 DEF ForwardTurn
<1>5. ASSUME NEW x, Opened(t, x), x.data = Nil, ~BlockValid(t.index, x.index) PROVE ForwardTurn(t, x) = x
  BY <1>5 DEF ForwardTurn, TableValid, Opened
<1>6. CASE TableValid(t, it)
  <2>1. y = it
    BY <1>1, <1>2, <1>3, <1>4, <1>6
  <2>2. QED
    BY <1>6, <2>1 DEF TableItOK
<1>7. CASE ~TableValid(t, it)
  <2>1. r[1] = ForwardTurn(t, it) /\ 1 \in 0 .. n
    BY <1>1, <1>2
  <2>2. PICK x : x = r[1]
    OBVIOUS
  <2>3. /\ Opened(t, x)
        /\ ~BlockValid(t.index, it.index) => x.data = Nil /\ x.index = it.index
        /\ BlockValid(t.index, it.index) /\ it.index.current = Len(t.blocks) => x.data = Nil /\ ~BlockValid(t.index, x.index)
        /\ BlockValid(t.index, it.index) /\ it.index.current # Len(t.blocks) =>
             TableValid(t, x) /\ TableKey(t, x) = Slot(t, it.index.current + 1, 1)
    BY <1>7, <2>1, <2>2, ForwardTurnIs
  <2>4. ForwardTurn(t, x) = x
    BY <1>4, <1>5, <2>3
  <2>5. y = x
    BY <1>3, <2>1, <2>2, <2>4
  <2>6. x.data = Nil => ~TableValid(t, x)
    BY DEF TableValid
  <2>7. QED
    BY <1>7, <2>3, <2>5, <2>6 DEF TableItOK
<1>8. QED
  BY <1>6, <1>7

(* From past the end of a block the iterator goes on in the next one.      *)
LEMMA BackwardTurnIs ==
  ASSUME NEW t, TableOK(t), NEW it, Opened(t, it), ~TableValid(t, it), NEW y, y = BackwardTurn(t, it)
  PROVE  /\ Opened(t, y)
         /\ ~BlockValid(t.index, it.index) => y.data = Nil /\ y.index = it.index
         /\ BlockValid(t.index, it.index) => it.index.current \in 1 .. Len(t.blocks)
         /\ BlockValid(t.index, it.index) /\ it.index.current = 1 => y.data = Nil /\ ~BlockValid(t.index, y.index)
         /\ BlockValid(t.index, it.index) /\ it.index.current # 1 =>
              TableValid(t, y) /\ TableKey(t, y) = Slot(t, it.index.current - 1, Len(t.blocks[it.index.current - 1].keys))
<1> DEFINE n == Len(t.blocks)
<1>1. n \in Nat \ {0} /\ Len(t.index.keys) = n /\ BlockOK(t.index) /\ \A h \in 1 .. n : BlockOK(t.blocks[h])
  BY DEF TableOK
<1>2. CursorOK(t.index, it.index)
  BY DEF Opened
<1>3. CASE ~BlockValid(t.index, it.index)
  <2>1. y = [it EXCEPT !.data = Nil]
    BY <1>3 DEF BackwardTurn
  <2>2. y = [index |-> it.index, data |-> Nil, handle |-> it.handle]
    BY <2>1 DEF Opened
  <2>3. QED
    BY <1>2, <1>3, <2>2 DEF Opened
<1>4. CASE BlockValid(t.index, it.index)
  <2>1. it.index.current \in 1 .. n
    BY <1>1, <1>2, <1>4, BlockIters
  <2>2. PICK index : index = BlockPrev(t.index, it.index)
    OBVIOUS
  <2>3. PICK z : z = InitDataBlock(t, [it EXCEPT !.index = index])
    OBVIOUS
  <2>4. y = LastInBlock(t, z)
    BY <1>4, <2>2, <2>3 DEF BackwardTurn
  <2>5. CursorOK(t.index, index) /\ (it.index.current # 1 => index.current = it.index.current - 1)
    BY <1>1, <1>2, <1>4, <2>2, BlockPrevIs
  <2>6. BlockValid(t.index, index) <=> it.index.current # 1
    <3>1. it.index.current = 1 => ~BlockValid(t.index, index)
      BY <1>1, <1>2, <1>4, <2>2, BlockPrevIs
    <3>2. QED
      BY <1>1, <2>1, <2>5, <3>1 DEF BlockValid
  <2>7. /\ Opened(t, z) /\ z.index = index
        /\ ~BlockValid(t.index, index) => z.data = Nil
        /\ BlockValid(t.index, index) => z.data # Nil /\ z.handle = index.current /\ index.current \in 1 .. n
    BY <2>3, <2>5, OpensBlock
  <2>8. CASE it.index.current = 1
    <3>1. y = z
      BY <2>4, <2>6, <2>7, <2>8 DEF LastInBlock
    <3>2. QED
      BY <1>4, <2>1, <2>6, <2>7, <2>8, <3>1
  <2>9. CASE it.index.current # 1
    <3> DEFINE b == t.blocks[index.current]
               s == BlockSeekToLast(b)
    <3>1. z.data # Nil /\ z.handle = index.current /\ index.current \in 1 .. n /\ index.current = it.index.current - 1
      BY <2>5, <2>6, <2>7, <2>9
    <3>2. BlockOK(b)
      BY <1>1, <3>1
    <3>3. CursorOK(b, s) /\ s.current = Len(b.keys)
      BY <3>2, BlockLast
    <3>4. BlockValid(b, s)
      BY <3>2, <3>3 DEF BlockValid, BlockOK
    <3>5. y = [z EXCEPT !.data = s]
      BY <2>4, <3>1 DEF LastInBlock, DataBlock
    <3> HIDE DEF s, b
    <3>6. CursorOK(t.blocks[z.handle], s)
      BY <3>1, <3>3 DEF b
    <3>7. /\ Opened(t, y) /\ (TableValid(t, y) <=> BlockValid(t.blocks[z.index.current], s))
          /\ TableKey(t, y) = Slot(t, z.index.current, s.current)
      BY <2>7, <3>1, <3>5, <3>6, PutInBlock
    <3>8. QED
      BY <1>4, <2>1, <2>7, <2>9, <3>1, <3>3, <3>4, <3>7 DEF b
  <2>10. QED
    BY <2>8, <2>9
<1>5. QED
  BY <1>3, <1>4

(* ...after at most two turns.                                             *)
LEMMA SkipBackwardIs ==
  ASSUME NEW t, TableOK(t), NEW it, Opened(t, it), NEW y, y = SkipEmptyDataBlocksBackward(t, it)
  PROVE  /\ TableItOK(t, y)
         /\ TableValid(t, it) => y = it
         /\ ~TableValid(t, it) /\ BlockValid(t.index, it.index) /\ it.index.current # 1 =>
              TableValid(t, y) /\ TableKey(t, y) = Slot(t, it.index.current - 1, Len(t.blocks[it.index.current - 1].keys))
         /\ ~TableValid(t, it) /\ ~(BlockValid(t.index, it.index) /\ it.index.current # 1) => ~TableValid(t, y)
<1> DEFINE n == Len(t.blocks) + 1
<1>1. n \in Nat /\ 2 <= n
  BY DEF TableOK
<1>2. PICK r : /\ y = r[n] /\ r[0] = it
               /\ \A i \in 1 .. n : r[i] = BackwardTurn(t, r[i - 1])
  <2>1. PICK m : m = n
    OBVIOUS
  <2>2. \E r : /\ y = r[m] /\ r[0] = it
               /\ \A i \in 1 .. m : r[i] = BackwardTurn(t, r[i - 1])
    BY <1>1, <2>1, SkipBackwardRun
  <2>3. QED
    BY <2>1, <2>2
<1> HIDE DEF n
<1>3. ASSUME NEW k \in 0 .. n, BackwardTurn(t, r[k]) = r[k] PROVE y = r[k]
  <2>1. \A i \in k + 1 .. n : r[i - 1] = r[k] => r[i] = r[k]
    <3>1. \A i \in k + 1 .. n : i \in 1 .. n
      BY <1>1
    <3>2. QED
      BY <1>2, <1>3, <3>1
  <2>2. QED
    BY <1>1, <1>2, <2>1, Rests
<1>4. ASSUME NEW x, TableValid(t, x) PROVE BackwardTurn(t, x) = x
  BY <1>4 DEF BackwardTurn
<1>5. ASSUME NEW x, Opened(t, x), x.data = Nil, ~BlockValid(t.index, x.index) PROVE BackwardTurn(t, x) = x
  BY <1>5 DEF BackwardTurn, TableValid, Opened
<1>6. CASE TableValid(t, it)
  <2>1. y = it
    BY <1>1, <1>2, <1>3, <1>4, <1>6
  <2>2. QED
    BY <1>6, <2>1 DEF TableItOK
<1>7. CASE ~TableValid(t, it)
  <2>1. r[1] = BackwardTurn(t, it) /\ 1 \in 0 .. n
    BY <1>1, <1>2
  <2>2. PICK x : x = r[1]
    OBVIOUS
  <2>3. /\ Opened(t, x)
        /\ ~BlockValid(t.index, it.index) => x.data = Nil /\ x.index = it.index
        /\ BlockValid(t.index, it.index) /\ it.index.current = 1 => x.data = Nil /\ ~BlockValid(t.index, x.index)
        /\ BlockValid(t.index, it.index) /\ it.index.current # 1 =>
             TableValid(t, x) /\ TableKey(t, x) = Slot(t, it.index.current - 1, Len(t.blocks[it.index.current - 1].keys))
    BY <1>7, <2>1, <2>2, BackwardTurnIs
  <2>4. BackwardTurn(t, x) = x
    BY <1>4, <1>5, <2>3
  <2>5. y = x
    BY <1>3, <2>1, <2>2, <2>4
  <2>6. x.data = Nil => ~TableValid(t, x)
    BY DEF TableValid
  <2>7. QED
    BY <1>7, <2>3, <2>5, <2>6 DEF TableItOK
<1>8. QED
  BY <1>6, <1>7

(* A new table iterator is on no entry.                                    *)
LEMMA NewTableIteratorOK ==
  ASSUME NEW t, TableOK(t)
  PROVE  TableItOK(t, NewTableIterator(t)) /\ ~TableValid(t, NewTableIterator(t))
<1> DEFINE past == PastEnd(t.index)
<1>1. CursorOK(t.index, past)
  BY FreshCursorOK DEF TableOK
<1> HIDE DEF past
<1>2. NewTableIterator(t) = [index |-> past, data |-> Nil, handle |-> 0]
  BY DEF NewTableIterator, past
<1>3. QED
  BY <1>1, <1>2 DEF TableItOK, Opened, TableValid

(* Where a table iterator on an entry is.                                  *)
LEMMA TableItAt ==
  ASSUME NEW t, TableOK(t), NEW it, TableItOK(t, it), TableValid(t, it), NEW n, n = Len(t.blocks)
  PROVE  /\ it.data # Nil /\ it.handle = it.index.current /\ it.index.current \in 1 .. n
         /\ BlockValid(t.index, it.index) /\ CursorOK(t.blocks[it.handle], it.data)
         /\ BlockValid(t.blocks[it.handle], it.data) /\ BlockOK(t.blocks[it.handle])
         /\ it.data.current \in 1 .. Len(t.blocks[it.index.current].keys)
         /\ TableKey(t, it) = Slot(t, it.index.current, it.data.current)
         /\ TableKey(t, it) \in TableEntries(t)
<1>1. Len(t.index.keys) = n /\ BlockOK(t.index) /\ \A h \in 1 .. n : BlockOK(t.blocks[h])
  BY DEF TableOK
<1>2. /\ it.data # Nil /\ BlockValid(t.index, it.index) /\ it.handle = it.index.current
      /\ CursorOK(t.index, it.index) /\ CursorOK(t.blocks[it.handle], it.data)
  BY DEF TableItOK, Opened, TableValid
<1>3. it.index.current \in 1 .. n
  BY <1>1, <1>2, BlockIters
<1>4. BlockValid(t.blocks[it.handle], it.data)
  BY DEF TableValid, DataBlock
<1>5. it.data.current \in 1 .. Len(t.blocks[it.index.current].keys)
  BY <1>1, <1>2, <1>3, <1>4, BlockIters
<1>6. TableKey(t, it) = Slot(t, it.index.current, it.data.current)
  BY <1>2 DEF TableKey, DataBlock, BlockKey, Slot
<1>7. QED
  BY <1>1, <1>2, <1>3, <1>4, <1>5, <1>6, TableSlots

(* SeekToFirst finds the first entry of the table.                         *)
LEMMA TableFirstIs ==
  ASSUME NEW t, TableOK(t), NEW it, TableItOK(t, it), NEW y, y = TableSeekToFirst(t, it)
  PROVE  TableItOK(t, y) /\ IsFirst(TableAt(t, y), TableEntries(t))
<1> DEFINE n == Len(t.blocks)
           b == t.blocks[1]
           d == BlockSeekToFirst(b)
<1>1. n \in Nat \ {0} /\ Len(t.index.keys) = n /\ BlockOK(t.index) /\ \A h \in 1 .. n : BlockOK(t.blocks[h])
  BY DEF TableOK
<1>2. PICK index : index = BlockSeekToFirst(t.index)
  OBVIOUS
<1>3. CursorOK(t.index, index) /\ index.current = 1 /\ BlockValid(t.index, index)
  BY <1>1, <1>2, BlockFirst DEF BlockValid
<1>4. PICK z : z = InitDataBlock(t, [it EXCEPT !.index = index])
  OBVIOUS
<1>5. Opened(t, z) /\ z.index = index /\ z.data # Nil /\ z.handle = 1
  BY <1>3, <1>4, OpensBlock DEF TableItOK
<1>6. PICK x : x = FirstInBlock(t, z)
  OBVIOUS
<1>7. 1 \in 1 .. n /\ BlockOK(b)
  BY <1>1
<1>8. CursorOK(b, d) /\ d.current = 1 /\ BlockValid(b, d) /\ 1 \in 1 .. Len(b.keys)
  <2>1. CursorOK(b, d) /\ d.current = 1
    BY <1>7, BlockFirst
  <2>2. Len(b.keys) \in Nat \ {0}
    BY <1>7 DEF BlockOK
  <2>3. QED
    BY <2>1, <2>2 DEF BlockValid
<1>9. x = [z EXCEPT !.data = d]
  BY <1>5, <1>6 DEF FirstInBlock, DataBlock
<1> HIDE DEF d
<1>10. CursorOK(t.blocks[z.handle], d)
  BY <1>5, <1>8
<1>11. Opened(t, x) /\ TableValid(t, x) /\ TableKey(t, x) = Slot(t, 1, 1)
  BY <1>3, <1>5, <1>8, <1>9, <1>10, PutInBlock
<1>12. y = SkipEmptyDataBlocksForward(t, x)
  BY <1>2, <1>4, <1>6 DEF TableSeekToFirst
<1>13. TableItOK(t, y) /\ y = x
  BY <1>11, <1>12, SkipForwardIs
<1>14. IsFirst(Slot(t, 1, 1), TableEntries(t))
  <2>1. Slot(t, 1, 1) \in TableEntries(t)
    BY <1>7, <1>8, TableSlots
  <2>2. \A g \in 1 .. n : \A q \in 1 .. Len(t.blocks[g].keys) : ~(g < 1 \/ (g = 1 /\ q < 1))
    BY <1>1, TableSlots
  <2>3. QED
    BY <1>7, <1>8, <2>1, <2>2, LowestSlot
<1>15. QED
  BY <1>11, <1>13, <1>14 DEF TableAt

(* SeekToLast finds its last entry.                                        *)
LEMMA TableLastIs ==
  ASSUME NEW t, TableOK(t), NEW it, TableItOK(t, it), NEW y, y = TableSeekToLast(t, it)
  PROVE  TableItOK(t, y) /\ IsLast(TableAt(t, y), TableEntries(t))
<1> DEFINE n == Len(t.blocks)
           b == t.blocks[n]
           d == BlockSeekToLast(b)
<1>1. n \in Nat \ {0} /\ Len(t.index.keys) = n /\ BlockOK(t.index) /\ \A h \in 1 .. n : BlockOK(t.blocks[h])
  BY DEF TableOK
<1>2. PICK index : index = BlockSeekToLast(t.index)
  OBVIOUS
<1>3. CursorOK(t.index, index) /\ index.current = n /\ BlockValid(t.index, index)
  BY <1>1, <1>2, BlockLast DEF BlockValid
<1>4. PICK z : z = InitDataBlock(t, [it EXCEPT !.index = index])
  OBVIOUS
<1>5. Opened(t, z) /\ z.index = index /\ z.data # Nil /\ z.handle = n
  BY <1>3, <1>4, OpensBlock DEF TableItOK
<1>6. PICK x : x = LastInBlock(t, z)
  OBVIOUS
<1>7. n \in 1 .. n /\ BlockOK(b)
  BY <1>1
<1>8. CursorOK(b, d) /\ d.current = Len(b.keys) /\ BlockValid(b, d) /\ Len(b.keys) \in 1 .. Len(b.keys)
  <2>1. CursorOK(b, d) /\ d.current = Len(b.keys)
    BY <1>7, BlockLast
  <2>2. Len(b.keys) \in Nat \ {0}
    BY <1>7 DEF BlockOK
  <2>3. QED
    BY <2>1, <2>2 DEF BlockValid
<1>9. x = [z EXCEPT !.data = d]
  BY <1>5, <1>6 DEF LastInBlock, DataBlock
<1> HIDE DEF d
<1>10. CursorOK(t.blocks[z.handle], d)
  BY <1>5, <1>8
<1>11. Opened(t, x) /\ TableValid(t, x) /\ TableKey(t, x) = Slot(t, n, Len(b.keys))
  BY <1>3, <1>5, <1>8, <1>9, <1>10, PutInBlock
<1>12. y = SkipEmptyDataBlocksBackward(t, x)
  BY <1>2, <1>4, <1>6 DEF TableSeekToLast
<1>13. TableItOK(t, y) /\ y = x
  BY <1>11, <1>12, SkipBackwardIs
<1>14. IsLast(Slot(t, n, Len(b.keys)), TableEntries(t))
  <2>1. Slot(t, n, Len(b.keys)) \in TableEntries(t)
    <3>1. \A g \in 1 .. n : \A q \in 1 .. Len(t.blocks[g].keys) : Slot(t, g, q) \in TableEntries(t)
      BY TableSlots
    <3>2. QED
      BY <1>7, <1>8, <3>1
  <2>2. ASSUME NEW g \in 1 .. n, NEW q \in 1 .. Len(t.blocks[g].keys) PROVE ~(n < g \/ (g = n /\ Len(b.keys) < q))
    <3>1. Len(t.blocks[g].keys) \in Nat
      BY TableSlots
    <3>2. QED
      BY <1>1, <3>1
  <2>3. QED
    BY <1>7, <1>8, <2>1, <2>2, HighestSlot
<1>15. QED
  BY <1>11, <1>13, <1>14 DEF TableAt

(* Next finds the first entry after the current one, in the next block if  *)
(* need be.                                                                *)
LEMMA TableNextIs ==
  ASSUME NEW t, TableOK(t), NEW it, TableItOK(t, it), TableValid(t, it), NEW y, y = TableNext(t, it)
  PROVE  TableItOK(t, y) /\ IsFirst(TableAt(t, y), {e \in TableEntries(t) : Before(TableKey(t, it), e)})
<1> DEFINE n == Len(t.blocks)
           R == {e \in TableEntries(t) : Before(TableKey(t, it), e)}
<1>0. PICK h, p : h = it.index.current /\ p = it.data.current
  OBVIOUS
<1>1. /\ it.data # Nil /\ it.handle = h /\ h \in 1 .. n
      /\ BlockValid(t.index, it.index) /\ CursorOK(t.blocks[h], it.data) /\ BlockValid(t.blocks[h], it.data)
      /\ BlockOK(t.blocks[h]) /\ p \in 1 .. Len(t.blocks[h].keys) /\ TableKey(t, it) = Slot(t, h, p)
  BY <1>0, TableItAt
<1>2. PICK d : d = BlockNext(t.blocks[h], it.data)
  OBVIOUS
<1>3. CursorOK(t.blocks[h], d) /\ d.current = p + 1
  BY <1>0, <1>1, <1>2, BlockNextIs
<1>4. PICK x : x = [it EXCEPT !.data = d]
  OBVIOUS
<1>5. /\ Opened(t, x) /\ x.index = it.index /\ x.data # Nil
      /\ TableValid(t, x) <=> BlockValid(t.blocks[h], d)
      /\ TableKey(t, x) = Slot(t, h, d.current)
  BY <1>0, <1>1, <1>3, <1>4, PutInBlock DEF TableItOK
<1>6. y = SkipEmptyDataBlocksForward(t, x)
  BY <1>1, <1>2, <1>4 DEF TableNext, DataBlock
<1>7. /\ TableItOK(t, y)
      /\ TableValid(t, x) => y = x
      /\ ~TableValid(t, x) /\ BlockValid(t.index, it.index) /\ h # n =>
           TableValid(t, y) /\ TableKey(t, y) = Slot(t, h + 1, 1)
      /\ ~TableValid(t, x) /\ ~(BlockValid(t.index, it.index) /\ h # n) => ~TableValid(t, y)
  <2>1. x.index.current = h
    BY <1>0, <1>5
  <2>2. QED
    BY <1>5, <1>6, <2>1, SkipForwardIs
<1>8. /\ n \in Nat \ {0} /\ \A g \in 1 .. n : Len(t.blocks[g].keys) \in Nat \ {0}
      /\ \A g \in 1 .. n : \A q \in 1 .. Len(t.blocks[g].keys) :
           Slot(t, g, q) \in InternalKeys /\ Slot(t, g, q) \in TableEntries(t)
      /\ \A g, k \in 1 .. n : \A q \in 1 .. Len(t.blocks[g].keys), s \in 1 .. Len(t.blocks[k].keys) :
           g < k \/ (g = k /\ q < s) => Before(Slot(t, g, q), Slot(t, k, s))
  BY TableSlots
<1>9. ASSUME NEW g \in 1 .. n, NEW q \in 1 .. Len(t.blocks[g].keys)
      PROVE  Slot(t, g, q) \in R <=> h < g \/ (g = h /\ p < q)
  <2>1. CASE h < g \/ (g = h /\ p < q)
    BY <1>1, <1>8, <2>1
  <2>2. CASE g < h \/ (g = h /\ q < p) \/ (g = h /\ q = p)
    <3>1. Slot(t, g, q) = Slot(t, h, p) \/ Before(Slot(t, g, q), Slot(t, h, p))
      BY <1>1, <1>8, <2>2
    <3>2. ~Before(Slot(t, h, p), Slot(t, g, q))
      BY <1>1, <1>8, <3>1, KeyOrder
    <3>3. ~(h < g \/ (g = h /\ p < q))
      BY <1>1, <1>8, <2>2
    <3>4. QED
      BY <1>1, <3>2, <3>3
  <2>3. QED
    BY <1>1, <1>8, <2>1, <2>2
<1>10. CASE TableValid(t, x)
  <2>1. d.current \in 1 .. Len(t.blocks[h].keys)
    BY <1>1, <1>3, <1>5, <1>10, BlockIters
  <2>2. \A g \in 1 .. n : \A q \in 1 .. Len(t.blocks[g].keys) : g < h \/ (g = h /\ q < p + 1) => Slot(t, g, q) \notin R
    BY <1>1, <1>8, <1>9
  <2>3. Slot(t, h, p + 1) \in R
    BY <1>1, <1>3, <1>9, <2>1
  <2>4. IsFirst(Slot(t, h, p + 1), R)
    BY <1>1, <1>3, <2>1, <2>2, <2>3, LowestSlot
  <2>5. QED
    BY <1>3, <1>5, <1>7, <1>10, <2>4 DEF TableAt
<1>11. CASE ~TableValid(t, x)
  <2>1. p = Len(t.blocks[h].keys)
    BY <1>1, <1>3, <1>5, <1>11 DEF BlockValid, BlockOK
  <2>2. CASE h = n
    <3>1. \A g \in 1 .. n : \A q \in 1 .. Len(t.blocks[g].keys) : Slot(t, g, q) \notin R
      BY <1>8, <1>9, <2>1, <2>2
    <3>2. IsFirst(Nil, R)
      BY <3>1, NoSlot
    <3>3. QED
      BY <1>7, <1>11, <2>2, <3>2 DEF TableAt
  <2>3. CASE h # n
    <3>1. h + 1 \in 1 .. n /\ 1 \in 1 .. Len(t.blocks[h + 1].keys)
      <4>1. h + 1 \in 1 .. n
        BY <1>1, <1>8, <2>3
      <4>2. QED
        BY <1>8, <4>1
    <3>2. Slot(t, h + 1, 1) \in R
      BY <1>1, <1>9, <3>1
    <3>3. \A g \in 1 .. n : \A q \in 1 .. Len(t.blocks[g].keys) :
            g < h + 1 \/ (g = h + 1 /\ q < 1) => Slot(t, g, q) \notin R
      BY <1>1, <1>8, <1>9, <2>1
    <3>4. IsFirst(Slot(t, h + 1, 1), R)
      BY <3>1, <3>2, <3>3, LowestSlot
    <3>5. QED
      BY <1>1, <1>7, <1>11, <2>3, <3>4 DEF TableAt
  <2>4. QED
    BY <2>2, <2>3
<1>12. QED
  BY <1>10, <1>11

(* Prev finds the last entry before it.                                    *)
LEMMA TablePrevIs ==
  ASSUME NEW t, TableOK(t), NEW it, TableItOK(t, it), TableValid(t, it), NEW y, y = TablePrev(t, it)
  PROVE  TableItOK(t, y) /\ IsLast(TableAt(t, y), {e \in TableEntries(t) : Before(e, TableKey(t, it))})
<1> DEFINE n == Len(t.blocks)
           R == {e \in TableEntries(t) : Before(e, TableKey(t, it))}
<1>0. PICK h, p : h = it.index.current /\ p = it.data.current
  OBVIOUS
<1>1. /\ it.data # Nil /\ it.handle = h /\ h \in 1 .. n
      /\ BlockValid(t.index, it.index) /\ CursorOK(t.blocks[h], it.data) /\ BlockValid(t.blocks[h], it.data)
      /\ BlockOK(t.blocks[h]) /\ p \in 1 .. Len(t.blocks[h].keys) /\ TableKey(t, it) = Slot(t, h, p)
  BY <1>0, TableItAt
<1>2. PICK d : d = BlockPrev(t.blocks[h], it.data)
  OBVIOUS
<1>3. /\ CursorOK(t.blocks[h], d) /\ (p # 1 => d.current = p - 1)
      /\ p = 1 => ~BlockValid(t.blocks[h], d)
  BY <1>0, <1>1, <1>2, BlockPrevIs
<1>4. PICK x : x = [it EXCEPT !.data = d]
  OBVIOUS
<1>5. /\ Opened(t, x) /\ x.index = it.index /\ x.data # Nil
      /\ TableValid(t, x) <=> BlockValid(t.blocks[h], d)
      /\ TableKey(t, x) = Slot(t, h, d.current)
  BY <1>0, <1>1, <1>3, <1>4, PutInBlock DEF TableItOK
<1>6. y = SkipEmptyDataBlocksBackward(t, x)
  BY <1>1, <1>2, <1>4 DEF TablePrev, DataBlock
<1>7. /\ TableItOK(t, y)
      /\ TableValid(t, x) => y = x
      /\ ~TableValid(t, x) /\ BlockValid(t.index, it.index) /\ h # 1 =>
           TableValid(t, y) /\ TableKey(t, y) = Slot(t, h - 1, Len(t.blocks[h - 1].keys))
      /\ ~TableValid(t, x) /\ ~(BlockValid(t.index, it.index) /\ h # 1) => ~TableValid(t, y)
  <2>1. x.index.current = h
    BY <1>0, <1>5
  <2>2. QED
    BY <1>5, <1>6, <2>1, SkipBackwardIs
<1>8. /\ n \in Nat \ {0} /\ \A g \in 1 .. n : Len(t.blocks[g].keys) \in Nat \ {0}
      /\ \A g \in 1 .. n : \A q \in 1 .. Len(t.blocks[g].keys) :
           Slot(t, g, q) \in InternalKeys /\ Slot(t, g, q) \in TableEntries(t)
      /\ \A g, k \in 1 .. n : \A q \in 1 .. Len(t.blocks[g].keys), s \in 1 .. Len(t.blocks[k].keys) :
           g < k \/ (g = k /\ q < s) => Before(Slot(t, g, q), Slot(t, k, s))
  BY TableSlots
<1>9. ASSUME NEW g \in 1 .. n, NEW q \in 1 .. Len(t.blocks[g].keys)
      PROVE  Slot(t, g, q) \in R <=> g < h \/ (g = h /\ q < p)
  <2>1. CASE g < h \/ (g = h /\ q < p)
    BY <1>1, <1>8, <2>1
  <2>2. CASE h < g \/ (g = h /\ p < q) \/ (g = h /\ q = p)
    <3>1. Slot(t, g, q) = Slot(t, h, p) \/ Before(Slot(t, h, p), Slot(t, g, q))
      BY <1>1, <1>8, <2>2
    <3>2. ~Before(Slot(t, g, q), Slot(t, h, p))
      BY <1>1, <1>8, <3>1, KeyOrder
    <3>3. ~(g < h \/ (g = h /\ q < p))
      BY <1>1, <1>8, <2>2
    <3>4. QED
      BY <1>1, <3>2, <3>3
  <2>3. QED
    BY <1>1, <1>8, <2>1, <2>2
<1>10. CASE TableValid(t, x)
  <2>1. d.current \in 1 .. Len(t.blocks[h].keys) /\ d.current = p - 1
    BY <1>1, <1>3, <1>5, <1>10, BlockIters
  <2>2. \A g \in 1 .. n : \A q \in 1 .. Len(t.blocks[g].keys) : h < g \/ (g = h /\ p - 1 < q) => Slot(t, g, q) \notin R
    BY <1>1, <1>8, <1>9
  <2>3. Slot(t, h, p - 1) \in R
    BY <1>1, <1>9, <2>1
  <2>4. IsLast(Slot(t, h, p - 1), R)
    BY <1>1, <2>1, <2>2, <2>3, HighestSlot
  <2>5. QED
    BY <1>5, <1>7, <1>10, <2>1, <2>4 DEF TableAt
<1>11. CASE ~TableValid(t, x)
  <2>1. p = 1
    BY <1>1, <1>3, <1>5, <1>11 DEF BlockValid, BlockOK
  <2>2. CASE h = 1
    <3>1. \A g \in 1 .. n : \A q \in 1 .. Len(t.blocks[g].keys) : Slot(t, g, q) \notin R
      BY <1>8, <1>9, <2>1, <2>2
    <3>2. IsLast(Nil, R)
      BY <3>1, NoSlot
    <3>3. QED
      BY <1>7, <1>11, <2>2, <3>2 DEF TableAt
  <2>3. CASE h # 1
    <3> DEFINE m == Len(t.blocks[h - 1].keys)
    <3>1. h - 1 \in 1 .. n /\ m \in 1 .. m
      <4>1. h - 1 \in 1 .. n
        BY <1>1, <1>8, <2>3
      <4>2. QED
        BY <1>8, <4>1
    <3>2. Slot(t, h - 1, m) \in R
      BY <1>1, <1>9, <3>1
    <3>3. \A g \in 1 .. n : \A q \in 1 .. Len(t.blocks[g].keys) :
            h - 1 < g \/ (g = h - 1 /\ m < q) => Slot(t, g, q) \notin R
      BY <1>1, <1>8, <1>9, <2>1
    <3>4. IsLast(Slot(t, h - 1, m), R)
      BY <3>1, <3>2, <3>3, HighestSlot
    <3>5. QED
      BY <1>1, <1>7, <1>11, <2>3, <3>4 DEF TableAt
  <2>4. QED
    BY <2>2, <2>3
<1>12. QED
  BY <1>10, <1>11

(* Seek finds the first entry not before the target, wherever the iterator *)
(* stood: in the block the index names, or at the start of the next.       *)
LEMMA TableSeekIs ==
  ASSUME NEW t, TableOK(t), NEW it, TableItOK(t, it), NEW target \in InternalKeys, NEW y, y = TableSeek(t, it, target)
  PROVE  TableItOK(t, y) /\ IsFirst(TableAt(t, y), {e \in TableEntries(t) : ~Before(e, target)})
<1> DEFINE n == Len(t.blocks)
           R == {e \in TableEntries(t) : ~Before(e, target)}
<1>1. /\ n \in Nat \ {0} /\ Len(t.index.keys) = n /\ BlockOK(t.index) /\ \A h \in 1 .. n : BlockOK(t.blocks[h])
      /\ CursorOK(t.index, it.index)
  BY DEF TableOK, TableItOK, Opened
<1>2. PICK index : index = BlockSeek(t.index, it.index, target)
  OBVIOUS
<1>3. /\ CursorOK(t.index, index)
      /\ \A h \in 1 .. n : h < index.current => Before(t.index.keys[h], target)
      /\ BlockValid(t.index, index) => ~Before(t.index.keys[index.current], target)
  BY <1>1, <1>2, BlockSeekIs
<1>4. PICK z : z = InitDataBlock(t, [it EXCEPT !.index = index])
  OBVIOUS
<1>5. /\ Opened(t, z) /\ z.index = index
      /\ ~BlockValid(t.index, index) => z.data = Nil
      /\ BlockValid(t.index, index) => z.data # Nil /\ z.handle = index.current /\ index.current \in 1 .. n
  BY <1>3, <1>4, OpensBlock DEF TableItOK
<1>6. PICK x : x = SoughtInBlock(t, z, target)
  OBVIOUS
<1>7. y = SkipEmptyDataBlocksForward(t, x)
  <2>1. [it EXCEPT !.index = BlockSeek(t.index, @, target)] = [it EXCEPT !.index = index]
    BY <1>2
  <2>2. QED
    BY <1>4, <1>6, <2>1 DEF TableSeek
<1>8. /\ \A g \in 1 .. n : Len(t.blocks[g].keys) \in Nat \ {0} /\ t.index.keys[g] \in InternalKeys
      /\ \A g \in 1 .. n : \A q \in 1 .. Len(t.blocks[g].keys) :
           Slot(t, g, q) \in InternalKeys /\ Slot(t, g, q) \in TableEntries(t)
      /\ \A h \in 1 .. n : \A p \in 1 .. Len(t.blocks[h].keys) : ~Before(t.index.keys[h], Slot(t, h, p))
      /\ \A g, h \in 1 .. n : \A p \in 1 .. Len(t.blocks[h].keys) : g < h => Before(t.index.keys[g], Slot(t, h, p))
      /\ \A g, k \in 1 .. n : \A q \in 1 .. Len(t.blocks[g].keys), s \in 1 .. Len(t.blocks[k].keys) :
           g < k \/ (g = k /\ q < s) => Before(Slot(t, g, q), Slot(t, k, s))
  BY TableSlots
<1>9. ASSUME NEW g \in 1 .. n, g < index.current, NEW q \in 1 .. Len(t.blocks[g].keys) PROVE Slot(t, g, q) \notin R
  <2>1. Before(t.index.keys[g], target) /\ ~Before(t.index.keys[g], Slot(t, g, q))
    BY <1>3, <1>8, <1>9
  <2>2. Before(Slot(t, g, q), target)
    BY <1>8, <2>1, KeyOrder, KeyOrderTransitive
  <2>3. QED
    BY <2>2
<1>10. CASE ~BlockValid(t.index, index)
  <2>1. x = z
    BY <1>5, <1>6, <1>10 DEF SoughtInBlock
  <2>2. ~TableValid(t, x)
    BY <1>5, <1>10, <2>1 DEF TableValid
  <2>3. TableItOK(t, y) /\ ~TableValid(t, y)
    BY <1>5, <1>7, <1>10, <2>1, <2>2, SkipForwardIs
  <2>4. \A g \in 1 .. n : g < index.current
    BY <1>1, <1>3, <1>10, BlockIters
  <2>5. IsFirst(Nil, R)
    BY <1>9, <2>4, NoSlot
  <2>6. QED
    BY <2>3, <2>5 DEF TableAt
<1>11. CASE BlockValid(t.index, index)
  <2>1. PICK h : h = index.current
    OBVIOUS
  <2>2. z.data # Nil /\ z.handle = h /\ h \in 1 .. n /\ BlockOK(t.blocks[h]) /\ CursorOK(t.blocks[h], z.data)
    <3>1. z.data # Nil /\ z.handle = h /\ h \in 1 .. n
      BY <1>5, <1>11, <2>1
    <3>2. CursorOK(t.blocks[z.handle], z.data)
      BY <1>5, <3>1 DEF Opened
    <3>3. QED
      BY <1>1, <3>1, <3>2
  <2>3. PICK d : d = BlockSeek(t.blocks[h], z.data, target)
    OBVIOUS
  <2>4. /\ CursorOK(t.blocks[h], d)
        /\ \A p \in 1 .. Len(t.blocks[h].keys) : p < d.current => Before(Slot(t, h, p), target)
        /\ BlockValid(t.blocks[h], d) => ~Before(Slot(t, h, d.current), target)
    BY <2>2, <2>3, BlockSeekIs DEF Slot
  <2>5. x = [z EXCEPT !.data = d]
    <3>1. x = [z EXCEPT !.data = BlockSeek(DataBlock(t, z), @, target)]
      BY <1>6, <2>2 DEF SoughtInBlock
    <3>2. BlockSeek(DataBlock(t, z), z.data, target) = d
      BY <2>2, <2>3 DEF DataBlock
    <3>3. QED
      BY <3>1, <3>2
  <2>6. /\ Opened(t, x) /\ x.index = index /\ x.data # Nil
        /\ TableValid(t, x) <=> BlockValid(t.blocks[h], d)
        /\ TableKey(t, x) = Slot(t, h, d.current)
    <3>1. Opened(t, z) /\ z.data # Nil /\ CursorOK(t.blocks[z.handle], d) /\ z.index.current = h /\ z.index = index
      BY <1>5, <2>1, <2>2, <2>4
    <3>2. QED
      BY <2>5, <3>1, PutInBlock
  <2>7. /\ TableItOK(t, y)
        /\ TableValid(t, x) => y = x
        /\ ~TableValid(t, x) /\ BlockValid(t.index, index) /\ h # n =>
             TableValid(t, y) /\ TableKey(t, y) = Slot(t, h + 1, 1)
        /\ ~TableValid(t, x) /\ ~(BlockValid(t.index, index) /\ h # n) => ~TableValid(t, y)
    BY <1>7, <2>1, <2>6, SkipForwardIs
  <2>8. CASE TableValid(t, x)
    <3>1. d.current \in 1 .. Len(t.blocks[h].keys)
      BY <2>2, <2>4, <2>6, <2>8, BlockIters
    <3>2. Slot(t, h, d.current) \in R
      BY <1>8, <2>2, <2>4, <2>6, <2>8, <3>1
    <3>3. \A q \in 1 .. Len(t.blocks[h].keys) : q < d.current => Slot(t, h, q) \notin R
      BY <2>4
    <3>4. \A g \in 1 .. n : \A q \in 1 .. Len(t.blocks[g].keys) :
            g < h \/ (g = h /\ q < d.current) => Slot(t, g, q) \notin R
      BY <1>9, <2>1, <3>3
    <3>5. IsFirst(Slot(t, h, d.current), R)
      BY <2>2, <3>1, <3>2, <3>4, LowestSlot
    <3>6. QED
      BY <2>6, <2>7, <2>8, <3>5 DEF TableAt
  <2>9. CASE ~TableValid(t, x)
    <3>1. \A q \in 1 .. Len(t.blocks[h].keys) : Slot(t, h, q) \notin R
      <4>1. d.current = Len(t.blocks[h].keys) + 1 /\ Len(t.blocks[h].keys) \in Nat
        BY <2>2, <2>4, <2>6, <2>9, BlockIters
      <4>2. QED
        BY <2>4, <4>1
    <3>2. CASE h = n
      <4>1. \A g \in 1 .. n : g < h \/ g = h
        BY <1>1, <3>2
      <4>2. \A g \in 1 .. n : \A q \in 1 .. Len(t.blocks[g].keys) : Slot(t, g, q) \notin R
        BY <1>9, <2>1, <3>1, <4>1
      <4>3. IsFirst(Nil, R)
        BY <4>2, NoSlot
      <4>4. QED
        BY <2>7, <2>9, <3>2, <4>3 DEF TableAt
    <3>3. CASE h # n
      <4>1. h + 1 \in 1 .. n /\ h < h + 1 /\ \A g \in 1 .. n : g < h + 1 => g < h \/ g = h
        BY <1>1, <2>2, <3>3
      <4>2. 1 \in 1 .. Len(t.blocks[h + 1].keys) /\ \A q \in 1 .. Len(t.blocks[h + 1].keys) : ~(q < 1)
        BY <1>8, <4>1
      <4>3. Before(t.index.keys[h], Slot(t, h + 1, 1)) /\ ~Before(t.index.keys[h], target)
        BY <1>3, <1>8, <1>11, <2>1, <2>2, <4>1, <4>2
      <4>4. ~Before(Slot(t, h + 1, 1), target)
        BY <1>8, <2>2, <4>1, <4>2, <4>3, KeyOrderTransitive
      <4>5. Slot(t, h + 1, 1) \in R
        BY <1>8, <4>1, <4>2, <4>4
      <4>6. \A g \in 1 .. n : \A q \in 1 .. Len(t.blocks[g].keys) :
              g < h + 1 \/ (g = h + 1 /\ q < 1) => Slot(t, g, q) \notin R
        BY <1>9, <2>1, <3>1, <4>1, <4>2
      <4>7. IsFirst(Slot(t, h + 1, 1), R)
        BY <4>1, <4>2, <4>5, <4>6, LowestSlot
      <4>8. QED
        BY <1>11, <2>7, <2>9, <3>3, <4>7 DEF TableAt
    <3>4. QED
      BY <3>2, <3>3
  <2>10. QED
    BY <2>8, <2>9
<1>12. QED
  BY <1>10, <1>11

(* There is one first entry.                                               *)
LEMMA FirstUnique ==
  ASSUME NEW R, R \subseteq InternalKeys, NEW x, IsFirst(x, R), NEW y, IsFirst(y, R)
  PROVE  x = y
BY KeyOrder DEF IsFirst

(* The entries of a table are keys.                                        *)
LEMMA TableKeys == ASSUME NEW t, TableOK(t) PROVE TableEntries(t) \subseteq InternalKeys
<1> DEFINE n == Len(t.blocks)
<1>1. \A e \in TableEntries(t) : \E h \in 1 .. n : \E p \in 1 .. Len(t.blocks[h].keys) : e = Slot(t, h, p)
  BY TableSlots
<1>2. \A h \in 1 .. n : \A p \in 1 .. Len(t.blocks[h].keys) : Slot(t, h, p) \in InternalKeys
  BY TableSlots
<1>3. QED
  BY <1>1, <1>2

(* Table::InternalGet reads the block the index names and no other: the    *)
(* first entry it looks for is there, or has another user key.             *)
LEMMA InternalGetIs ==
  ASSUME NEW t, TableOK(t), NEW target \in InternalKeys, NEW found, found = InternalGet(t, target),
         NEW x, IsFirst(x, {e \in TableEntries(t) : ~Before(e, target)})
  PROVE  (found = x) \/ (found = Nil /\ x # Nil /\ x.user # target.user)
<1> DEFINE n == Len(t.blocks)
           R == {e \in TableEntries(t) : ~Before(e, target)}
<1>1. n \in Nat \ {0} /\ Len(t.index.keys) = n /\ BlockOK(t.index) /\ \A h \in 1 .. n : BlockOK(t.blocks[h]) /\ t.index.handles[h] = h
  BY DEF TableOK
<1>2. PICK index : index = BlockSeek(t.index, PastEnd(t.index), target)
  OBVIOUS
<1>3. /\ CursorOK(t.index, index)
      /\ \A h \in 1 .. n : h < index.current => Before(t.index.keys[h], target)
      /\ BlockValid(t.index, index) => ~Before(t.index.keys[index.current], target)
  <2>1. CursorOK(t.index, PastEnd(t.index))
    BY <1>1, FreshCursorOK
  <2>2. QED
    BY <1>1, <1>2, <2>1, BlockSeekIs
<1>4. /\ \A g \in 1 .. n : Len(t.blocks[g].keys) \in Nat \ {0} /\ t.index.keys[g] \in InternalKeys
      /\ \A g \in 1 .. n : \A q \in 1 .. Len(t.blocks[g].keys) :
           Slot(t, g, q) \in InternalKeys /\ Slot(t, g, q) \in TableEntries(t)
      /\ \A h \in 1 .. n : \A p \in 1 .. Len(t.blocks[h].keys) : ~Before(t.index.keys[h], Slot(t, h, p))
  BY TableSlots
<1>5. ASSUME NEW g \in 1 .. n, g < index.current, NEW q \in 1 .. Len(t.blocks[g].keys) PROVE Slot(t, g, q) \notin R
  <2>1. Before(t.index.keys[g], target) /\ ~Before(t.index.keys[g], Slot(t, g, q))
    BY <1>3, <1>4, <1>5
  <2>2. Before(Slot(t, g, q), target)
    BY <1>4, <2>1, KeyOrder, KeyOrderTransitive
  <2>3. QED
    BY <2>2
<1>6. R \subseteq InternalKeys /\ R \subseteq TableEntries(t)
  BY TableKeys
<1>7. CASE ~BlockValid(t.index, index)
  <2>1. \A g \in 1 .. n : g < index.current
    BY <1>1, <1>3, <1>7, BlockIters
  <2>2. IsFirst(Nil, R)
    BY <1>5, <2>1, NoSlot
  <2>3. found = Nil
    BY <1>2, <1>7 DEF InternalGet
  <2>4. QED
    BY <1>6, <2>2, <2>3, FirstUnique
<1>8. CASE BlockValid(t.index, index)
  <2>1. PICK h : h = index.current
    OBVIOUS
  <2>2. h \in 1 .. n /\ BlockOK(t.blocks[h])
    BY <1>1, <1>3, <1>8, <2>1, BlockIters
  <2>3. PICK d : d = BlockSeek(t.blocks[h], PastEnd(t.blocks[h]), target)
    OBVIOUS
  <2>4. /\ CursorOK(t.blocks[h], d)
        /\ \A p \in 1 .. Len(t.blocks[h].keys) : p < d.current => Before(Slot(t, h, p), target)
        /\ BlockValid(t.blocks[h], d) => ~Before(Slot(t, h, d.current), target)
    <3>1. CursorOK(t.blocks[h], PastEnd(t.blocks[h]))
      BY <2>2, FreshCursorOK
    <3>2. QED
      BY <2>2, <2>3, <3>1, BlockSeekIs DEF Slot
  <2>5. found = IF BlockValid(t.blocks[h], d) THEN Slot(t, h, d.current) ELSE Nil
    <3>1. t.index.handles[index.current] = h
      BY <1>1, <2>1, <2>2
    <3>2. QED
      BY <1>2, <1>8, <2>3, <3>1 DEF InternalGet, BlockKey, Slot
  <2>6. CASE BlockValid(t.blocks[h], d)
    <3>1. d.current \in 1 .. Len(t.blocks[h].keys)
      BY <2>2, <2>4, <2>6, BlockIters
    <3>2. Slot(t, h, d.current) \in R
      BY <1>4, <2>2, <2>4, <2>6, <3>1
    <3>3. \A g \in 1 .. n : \A q \in 1 .. Len(t.blocks[g].keys) :
            g < h \/ (g = h /\ q < d.current) => Slot(t, g, q) \notin R
      BY <1>5, <2>1, <2>4
    <3>4. IsFirst(Slot(t, h, d.current), R)
      BY <1>6, <2>2, <3>1, <3>2, <3>3, LowestSlot
    <3>5. QED
      BY <1>6, <2>5, <2>6, <3>4, FirstUnique
  <2>7. CASE ~BlockValid(t.blocks[h], d)
    <3> DEFINE m == Len(t.blocks[h].keys)
    <3>1. d.current = m + 1 /\ m \in Nat \ {0}
      BY <2>2, <2>4, <2>7, BlockIters
    <3>2. \A q \in 1 .. m : Before(Slot(t, h, q), target)
      BY <2>4, <3>1
    <3>3. \A q \in 1 .. m : Slot(t, h, q) \notin R
      BY <3>2
    <3>4. CASE h = n
      <4>1. \A g \in 1 .. n : g < h \/ g = h
        BY <1>1, <3>4
      <4>2. \A g \in 1 .. n : \A q \in 1 .. Len(t.blocks[g].keys) : Slot(t, g, q) \notin R
        BY <1>5, <2>1, <3>3, <4>1
      <4>3. IsFirst(Nil, R)
        BY <4>2, NoSlot
      <4>4. QED
        BY <1>6, <2>5, <2>7, <4>3, FirstUnique
    <3>5. CASE h # n
      <4>1. h + 1 \in 1 .. n /\ h < h + 1 /\ h \in 1 .. n - 1 /\ \A g \in 1 .. n : g < h + 1 => g < h \/ g = h
        BY <1>1, <2>2, <3>5
      <4>2. 1 \in 1 .. Len(t.blocks[h + 1].keys) /\ \A q \in 1 .. Len(t.blocks[h + 1].keys) : ~(q < 1)
        BY <1>4, <4>1
      <4>3. PICK sep, next : sep = t.index.keys[h] /\ next = Slot(t, h + 1, 1)
        OBVIOUS
      <4>4. Separates(sep, Slot(t, h, m), next) /\ ~Before(sep, target) /\ m \in 1 .. m
        <5>1. Separates(t.index.keys[h], LastKey(t.blocks[h]), FirstKey(t.blocks[h + 1]))
          BY <4>1 DEF TableOK
        <5>2. LastKey(t.blocks[h]) = Slot(t, h, m) /\ FirstKey(t.blocks[h + 1]) = Slot(t, h + 1, 1)
          BY DEF LastKey, FirstKey, Slot
        <5>3. ~Before(sep, target)
          BY <1>3, <1>8, <2>1, <4>3
        <5>4. m \in 1 .. m
          BY <3>1
        <5>5. QED
          BY <4>3, <5>1, <5>2, <5>3, <5>4
      <4>5. sep \in InternalKeys /\ next \in InternalKeys
        BY <1>4, <2>2, <4>1, <4>2, <4>3
      <4>6. sep.user < next.user
        BY <3>2, <4>4 DEF Separates
      <4>7. target.user < next.user
        <5>1. target.user \in Nat /\ sep.user \in Nat /\ next.user \in Nat
          BY <4>5 DEF InternalKeys
        <5>2. ~(sep.user < target.user)
          BY <4>4 DEF Before
        <5>3. QED
          BY <4>6, <5>1, <5>2
      <4>8. next \in R
        <5>1. ~Before(next, target)
          BY <4>4, <4>5, KeyOrderTransitive DEF Separates
        <5>2. QED
          BY <1>4, <4>1, <4>2, <4>3, <5>1
      <4>9. \A g \in 1 .. n : \A q \in 1 .. Len(t.blocks[g].keys) :
              g < h + 1 \/ (g = h + 1 /\ q < 1) => Slot(t, g, q) \notin R
        BY <1>5, <2>1, <3>3, <4>1, <4>2
      <4>10. IsFirst(next, R)
        BY <1>6, <4>1, <4>2, <4>3, <4>8, <4>9, LowestSlot
      <4>11. x = next
        BY <1>6, <4>10, FirstUnique
      <4>12. found = Nil /\ next # Nil /\ next.user # target.user
        <5>1. target.user \in Nat /\ next.user \in Nat
          BY <4>5 DEF InternalKeys
        <5>2. next # Nil
          BY <4>5, ListAssumption
        <5>3. QED
          BY <2>5, <2>7, <4>7, <5>1, <5>2
      <4>13. QED
        BY <4>11, <4>12
    <3>6. QED
      BY <3>4, <3>5
  <2>8. QED
    BY <2>6, <2>7
<1>9. QED
  BY <1>7, <1>8

-----------------------------------------------------------------------------
(* The iterator: what is true of the entries and between moves.            *)

(* The number of children of the merging iterator.                         *)
Width == Len(tables) + 1

(* What is true of the entries: the skip list and the tables are built as  *)
(* they must be, and nothing is newer than the last sequence number.       *)
DataOK ==
  /\ ListOK(mem)
  /\ Len(tables) \in Nat /\ DOMAIN tables = 1 .. Len(tables) /\ \A i \in 1 .. Len(tables) : TableOK(tables[i])
  /\ IsFiniteSet(Entries)
  /\ last_sequence \in Nat /\ sequence \in 0 .. last_sequence /\ writes \in 0 .. MaxWrites
  /\ \A i \in 1 .. Width : \A e \in ChildEntries(i) :
       e \in InternalKeys /\ e.user \in UserKeys /\ e.seq \in 1 .. last_sequence

(* A child stands on one of its entries, or is not valid.                  *)
ChildOK(i, c) == IF i = 1 THEN c \in ListEntries(mem) \cup {Nil} ELSE TableItOK(tables[i - 1], c)

(* The entry a child is on, or Nil.                                        *)
ChildAt(i, c) == IF ChildValid(i, c) THEN ChildKey(i, c) ELSE Nil

(* An entry on the far side of the key of the merging iterator.            *)
Ahead(m, e)  == IF m.forward THEN Before(MergedKey(m), e) ELSE Before(e, MergedKey(m))

(* An entry nearer to that key than the one child i is on.                 *)
Nearer(m, i, e) == IF m.forward THEN Before(e, ChildKey(i, m.children[i])) ELSE Before(ChildKey(i, m.children[i]), e)

(* The merging iterator with its children, wherever they stand.            *)
MergedShape(m) ==
  /\ m = [children |-> m.children, current |-> m.current, forward |-> m.forward] /\ m.forward \in BOOLEAN
  /\ m.children = [i \in 1 .. Width |-> m.children[i]] /\ \A i \in 1 .. Width : ChildOK(i, m.children[i])

(* Between moves: every other child is on the far side of the key of the   *)
(* current one, at its nearest entry there or one that comes before all    *)
(* those the snapshot sees; or it comes after the current one and is on a  *)
(* copy of its key.                                                        *)
MergedOK(m) ==
  /\ MergedShape(m) /\ m.current \in {0} \cup ValidChildren(m)
  /\ MergedValid(m) => \A i \in 1 .. Width : i # m.current =>
       /\ ChildValid(i, m.children[i]) =>
            Ahead(m, ChildKey(i, m.children[i])) \/ (ChildKey(i, m.children[i]) = MergedKey(m) /\ i > m.current)
       /\ \A e \in ChildEntries(i) : Visible(e) /\ Ahead(m, e) => ChildValid(i, m.children[i]) /\ ~Nearer(m, i, e)

(* From m to y the merging iterator moved on, or back: to a key beyond, or *)
(* to a copy of its key in a later child.                                  *)
Further(m, y)     == Before(MergedKey(m), MergedKey(y)) \/ (MergedKey(y) = MergedKey(m) /\ y.current > m.current)
FurtherBack(m, y) == Before(MergedKey(y), MergedKey(m)) \/ (MergedKey(y) = MergedKey(m) /\ y.current > m.current)

(* An entry the snapshot shows: the newest it sees of its key, and a       *)
(* value.                                                                  *)
OnNewest(e) == e \in Newest(e.user) /\ e.type = kTypeValue

(* A valid DBIter that goes back has passed every entry of its key, has    *)
(* the newest of them saved, and the merging iterator is at the last entry *)
(* before them that the snapshot sees, if there is one.                    *)
Behind(d) ==
  /\ \E e \in Entries : OnNewest(e) /\ e.user = d.saved_key /\ e.seq = d.saved_value
  /\ MergedValid(d.merged) => Visible(MergedKey(d.merged)) /\ MergedKey(d.merged).user < d.saved_key
  /\ \A e \in Entries : Visible(e) /\ e.user < d.saved_key =>
       MergedValid(d.merged) /\ ~Before(MergedKey(d.merged), e)

(* Where DBIter is: forward it stands on the newest value of its key, back *)
(* it has that one saved and is behind.                                    *)
IterOK(d) ==
  /\ d = [merged |-> d.merged, forward |-> d.forward, valid |-> d.valid,
          saved_key |-> d.saved_key, saved_value |-> d.saved_value]
  /\ d.forward \in BOOLEAN /\ d.valid \in BOOLEAN /\ MergedOK(d.merged)
  /\ d.valid /\ d.forward  => d.merged.forward /\ MergedValid(d.merged) /\ OnNewest(MergedKey(d.merged))
  /\ d.valid /\ ~d.forward => ~d.merged.forward /\ Behind(d)

(* What DataOK says of the entries of all children together.               *)
LEMMA EntryFacts ==
  ASSUME DataOK
  PROVE  /\ Width \in Nat /\ \A e : e \in Entries <=> \E i \in 1 .. Width : e \in ChildEntries(i)
         /\ \A i \in 1 .. Width : ChildEntries(i) \subseteq Entries /\ ChildEntries(i) \subseteq InternalKeys
         /\ Entries \subseteq InternalKeys /\ IsFiniteSet(Entries) /\ Nil \notin Entries
         /\ \A e \in Entries : e.user \in UserKeys /\ e.user \in Nat /\ e.user > 0 /\ e.seq \in 1 .. last_sequence
                               /\ e.seq \in Nat /\ e.type \in {kTypeDeletion, kTypeValue}
         /\ last_sequence \in Nat /\ sequence \in Nat /\ sequence <= last_sequence
<1>1. Len(tables) \in Nat /\ DOMAIN tables = 1 .. Len(tables) /\ IsFiniteSet(Entries)
      /\ last_sequence \in Nat /\ sequence \in 0 .. last_sequence
  BY DEF DataOK
<1>2. Width \in Nat /\ 1 \in 1 .. Width /\ (\A i \in 1 .. Len(tables) : i + 1 \in 1 .. Width /\ i + 1 # 1 /\ i + 1 - 1 = i)
      /\ \A i \in 1 .. Width : i = 1 \/ i - 1 \in 1 .. Len(tables)
  BY <1>1 DEF Width
<1>3. ASSUME NEW e PROVE e \in Entries <=> \E i \in 1 .. Width : e \in ChildEntries(i)
  <2>1. e \in Entries <=> e \in ListEntries(mem) \/ \E i \in 1 .. Len(tables) : e \in TableEntries(tables[i])
    BY <1>1 DEF Entries
  <2>2. ASSUME e \in Entries PROVE \E i \in 1 .. Width : e \in ChildEntries(i)
    <3>1. CASE e \in ListEntries(mem)
      BY <1>2, <3>1 DEF ChildEntries
    <3>2. CASE \E i \in 1 .. Len(tables) : e \in TableEntries(tables[i])
      <4>1. PICK i \in 1 .. Len(tables) : e \in TableEntries(tables[i])
        BY <3>2
      <4>2. ChildEntries(i + 1) = TableEntries(tables[i])
        BY <1>2 DEF ChildEntries
      <4>3. QED
        BY <1>2, <4>1, <4>2
    <3>3. QED
      BY <2>1, <2>2, <3>1, <3>2
  <2>3. ASSUME NEW i \in 1 .. Width, e \in ChildEntries(i) PROVE e \in Entries
    BY <1>2, <2>1, <2>3 DEF ChildEntries
  <2>4. QED
    BY <2>2, <2>3
<1>4. \A i \in 1 .. Width : \A e \in ChildEntries(i) : e \in InternalKeys /\ e.user \in UserKeys /\ e.seq \in 1 .. last_sequence
  BY DEF DataOK
<1>5. ASSUME NEW e \in Entries
      PROVE  /\ e \in InternalKeys /\ e.user \in UserKeys /\ e.user \in Nat /\ e.user > 0 /\ e.seq \in 1 .. last_sequence
             /\ e.seq \in Nat /\ e.type \in {kTypeDeletion, kTypeValue}
  <2>1. e \in InternalKeys /\ e.user \in UserKeys /\ e.seq \in 1 .. last_sequence
    BY <1>3, <1>4
  <2>2. QED
    BY <2>1, IteratorAssumption DEF InternalKeys
<1>6. \A i \in 1 .. Width : ChildEntries(i) \subseteq Entries /\ ChildEntries(i) \subseteq InternalKeys
  BY <1>3, <1>4
<1>7. Nil \notin Entries
  BY <1>5, ListAssumption
<1>8. QED
  BY <1>1, <1>2, <1>3, <1>5, <1>6, <1>7

(* The places entries are in: finitely many.                               *)
LEMMA PlaceFacts ==
  ASSUME DataOK
  PROVE  /\ IsFiniteSet(Places) /\ Cardinality(Places) \in Nat
         /\ \A i \in 1 .. Width : \A e \in ChildEntries(i) : <<i, e>> \in Places
         /\ \A p \in Places : p[1] \in 1 .. Width /\ p[1] \in Nat /\ p[2] \in Entries /\ p[2] \in InternalKeys
<1>1. Places = UNION {{i} \X ChildEntries(i) : i \in 1 .. Width}
  BY DEF Places, Width
<1>2. Width \in Nat /\ IsFiniteSet(Entries) /\ Entries \subseteq InternalKeys
      /\ \A i \in 1 .. Width : ChildEntries(i) \subseteq Entries
  BY EntryFacts
<1>3. Places \subseteq (1 .. Width) \X Entries
  BY <1>1, <1>2
<1>4. IsFiniteSet((1 .. Width) \X Entries)
  <2>1. IsFiniteSet(1 .. Width)
    BY <1>2, FS_Interval
  <2>2. QED
    BY <1>2, <2>1, FS_Product
<1>5. IsFiniteSet(Places) /\ Cardinality(Places) \in Nat
  BY <1>3, <1>4, FS_Subset, FS_CardinalityType
<1>6. \A i \in 1 .. Width : \A e \in ChildEntries(i) : <<i, e>> \in Places
  BY <1>1
<1>7. \A p \in Places : p[1] \in 1 .. Width /\ p[1] \in Nat /\ p[2] \in Entries /\ p[2] \in InternalKeys
  BY <1>2, <1>3
<1>8. QED
  BY <1>5, <1>6, <1>7

(* The key of a valid child is an entry of it.                             *)
LEMMA ChildKeyIs ==
  ASSUME DataOK, NEW i \in 1 .. Width, NEW c, ChildOK(i, c)
  PROVE  /\ ChildValid(i, c) => ChildKey(i, c) \in ChildEntries(i) /\ ChildKey(i, c) \in Entries
                                /\ ChildKey(i, c) \in InternalKeys /\ ChildAt(i, c) = ChildKey(i, c)
         /\ ChildValid(i, c) <=> ChildAt(i, c) # Nil
<1>1. ChildValid(i, c) => ChildKey(i, c) \in ChildEntries(i)
  <2>1. CASE i = 1
    BY <2>1 DEF ChildOK, ChildValid, ChildKey, ChildEntries
  <2>2. CASE i # 1
    <3>1. i - 1 \in 1 .. Len(tables)
      BY <2>2 DEF Width, DataOK
    <3>2. TableOK(tables[i - 1]) /\ TableItOK(tables[i - 1], c)
      BY <2>2, <3>1 DEF DataOK, ChildOK
    <3>3. TableValid(tables[i - 1], c) => TableKey(tables[i - 1], c) \in TableEntries(tables[i - 1])
      BY <3>2, TableItAt
    <3>4. QED
      BY <2>2, <3>3 DEF ChildValid, ChildKey, ChildEntries
  <2>3. QED
    BY <2>1, <2>2
<1>2. ChildEntries(i) \subseteq Entries /\ ChildEntries(i) \subseteq InternalKeys /\ Nil \notin Entries
  BY EntryFacts
<1>3. QED
  BY <1>1, <1>2 DEF ChildAt

(* A child is where its last move left it: the searches and moves of a     *)
(* memtable or a table iterator find the entry they are for.               *)
LEMMA ChildMoves ==
  ASSUME DataOK, NEW i \in 1 .. Width, NEW c, ChildOK(i, c)
  PROVE  /\ ChildOK(i, ChildFirst(i, c)) /\ IsFirst(ChildAt(i, ChildFirst(i, c)), ChildEntries(i))
         /\ ChildOK(i, ChildLast(i, c)) /\ IsLast(ChildAt(i, ChildLast(i, c)), ChildEntries(i))
         /\ \A target \in InternalKeys :
              /\ ChildOK(i, ChildSeek(i, c, target))
              /\ IsFirst(ChildAt(i, ChildSeek(i, c, target)), {e \in ChildEntries(i) : ~Before(e, target)})
         /\ ChildValid(i, c) =>
              /\ ChildOK(i, ChildNext(i, c))
              /\ IsFirst(ChildAt(i, ChildNext(i, c)), {e \in ChildEntries(i) : Before(ChildKey(i, c), e)})
              /\ ChildOK(i, ChildPrev(i, c))
              /\ IsLast(ChildAt(i, ChildPrev(i, c)), {e \in ChildEntries(i) : Before(e, ChildKey(i, c))})
<1>1. CASE i = 1
  <2>1. ListOK(mem)
    BY DEF DataOK
  <2>2. \A n : ChildAt(i, n) = n
    BY <1>1 DEF ChildAt, ChildValid, ChildKey
  <2>3. ASSUME NEW R \in SUBSET ListEntries(mem), NEW x, IsFirst(x, R) \/ IsLast(x, R) PROVE ChildOK(i, x)
    BY <1>1, <2>3 DEF IsFirst, IsLast, ChildOK
  <2>4. ChildEntries(i) = ListEntries(mem) /\ (ChildValid(i, c) => ChildKey(i, c) = c /\ c \in ListEntries(mem))
    BY <1>1 DEF ChildEntries, ChildValid, ChildKey, ChildOK
  <2>5. IsFirst(ChildFirst(i, c), ListEntries(mem)) /\ IsLast(ChildLast(i, c), ListEntries(mem))
    BY <1>1, <2>1, ListMoves DEF ChildFirst, ChildLast
  <2>6. ASSUME NEW target \in InternalKeys
        PROVE  IsFirst(ChildSeek(i, c, target), {e \in ListEntries(mem) : ~Before(e, target)})
    BY <1>1, <2>1, ListSearch DEF ChildSeek, MemSeek
  <2>7. ASSUME ChildValid(i, c)
        PROVE  /\ IsFirst(ChildNext(i, c), {e \in ListEntries(mem) : Before(c, e)})
               /\ IsLast(ChildPrev(i, c), {e \in ListEntries(mem) : Before(e, c)})
    BY <1>1, <2>1, <2>4, <2>7, ListMoves DEF ChildNext, ChildPrev
  <2>8. ChildOK(i, ChildFirst(i, c)) /\ ChildOK(i, ChildLast(i, c))
    BY <2>3, <2>5
  <2>9. ASSUME NEW target \in InternalKeys PROVE ChildOK(i, ChildSeek(i, c, target))
    <3>1. {e \in ListEntries(mem) : ~Before(e, target)} \in SUBSET ListEntries(mem)
      OBVIOUS
    <3>2. QED
      BY <2>3, <2>6, <3>1
  <2>10. ASSUME ChildValid(i, c) PROVE ChildOK(i, ChildNext(i, c)) /\ ChildOK(i, ChildPrev(i, c))
    <3>1. /\ {e \in ListEntries(mem) : Before(c, e)} \in SUBSET ListEntries(mem)
          /\ {e \in ListEntries(mem) : Before(e, c)} \in SUBSET ListEntries(mem)
      OBVIOUS
    <3>2. QED
      BY <2>3, <2>7, <2>10, <3>1
  <2>11. QED
    BY <2>2, <2>4, <2>5, <2>6, <2>7, <2>8, <2>9, <2>10
<1>2. CASE i # 1
  <2>1. PICK t : t = tables[i - 1]
    OBVIOUS
  <2>2. i - 1 \in 1 .. Len(tables)
    BY <1>2 DEF Width, DataOK
  <2>3. TableOK(t) /\ TableItOK(t, c)
    BY <1>2, <2>1, <2>2 DEF DataOK, ChildOK
  <2>4. /\ \A x : ChildOK(i, x) <=> TableItOK(t, x)
        /\ \A x : ChildAt(i, x) = TableAt(t, x)
        /\ ChildEntries(i) = TableEntries(t)
        /\ ChildValid(i, c) <=> TableValid(t, c)
        /\ ChildKey(i, c) = TableKey(t, c)
    BY <1>2, <2>1 DEF ChildOK, ChildAt, TableAt, ChildEntries, ChildValid, ChildKey
  <2>5. /\ ChildFirst(i, c) = TableSeekToFirst(t, c) /\ ChildLast(i, c) = TableSeekToLast(t, c)
        /\ \A target : ChildSeek(i, c, target) = TableSeek(t, c, target)
        /\ ChildNext(i, c) = TableNext(t, c) /\ ChildPrev(i, c) = TablePrev(t, c)
    BY <1>2, <2>1 DEF ChildFirst, ChildLast, ChildSeek, ChildNext, ChildPrev
  <2>6. /\ TableItOK(t, TableSeekToFirst(t, c)) /\ IsFirst(TableAt(t, TableSeekToFirst(t, c)), TableEntries(t))
        /\ TableItOK(t, TableSeekToLast(t, c)) /\ IsLast(TableAt(t, TableSeekToLast(t, c)), TableEntries(t))
    BY <2>3, TableFirstIs, TableLastIs
  <2>7. \A target \in InternalKeys :
          /\ TableItOK(t, TableSeek(t, c, target))
          /\ IsFirst(TableAt(t, TableSeek(t, c, target)), {e \in TableEntries(t) : ~Before(e, target)})
    BY <2>3, TableSeekIs
  <2>8. TableValid(t, c) =>
          /\ TableItOK(t, TableNext(t, c))
          /\ IsFirst(TableAt(t, TableNext(t, c)), {e \in TableEntries(t) : Before(TableKey(t, c), e)})
          /\ TableItOK(t, TablePrev(t, c))
          /\ IsLast(TableAt(t, TablePrev(t, c)), {e \in TableEntries(t) : Before(e, TableKey(t, c))})
    BY <2>3, TableNextIs, TablePrevIs
  <2>9. QED
    BY ONLY <2>4, <2>5, <2>6, <2>7, <2>8
<1>3. QED
  BY <1>1, <1>2

-----------------------------------------------------------------------------
(* MergingIterator.                                                        *)

(* FindSmallest, when every child stands on a key of Q, and no later than  *)
(* its first entry of R that the snapshot sees; beyond a key of Q all are  *)
(* in R.                                                                   *)
LEMMA SmallestIs ==
  ASSUME DataOK, NEW m, MergedShape(m), m.forward = TRUE, NEW Q \in SUBSET Entries, NEW R \in SUBSET Entries,
         \A e \in Q, f \in Entries : Before(e, f) => f \in R,
         \A i \in 1 .. Width :
           /\ ChildValid(i, m.children[i]) => ChildKey(i, m.children[i]) \in Q
           /\ \A e \in ChildEntries(i) : Visible(e) /\ e \in R =>
                ChildValid(i, m.children[i]) /\ ~Before(e, ChildKey(i, m.children[i])),
         NEW y, y = FindSmallest(m)
  PROVE  /\ MergedOK(y) /\ y.forward = TRUE
         /\ MergedValid(y) => /\ MergedKey(y) \in Q
                              /\ y.current \in 1 .. Width /\ ChildValid(y.current, m.children[y.current])
                              /\ MergedKey(y) = ChildKey(y.current, m.children[y.current])
         /\ \A e \in R : Visible(e) => MergedValid(y) /\ ~Before(e, MergedKey(y))
<1> DEFINE K(i) == ChildKey(i, m.children[i])
           V == ValidChildren(m)
           C == CHOOSE i \in V : \A j \in V \ {i} : Before(K(i), K(j)) \/ (K(i) = K(j) /\ i < j)
<1>1. V = {i \in 1 .. Width : ChildValid(i, m.children[i])} /\ Width \in Nat
  BY EntryFacts DEF ValidChildren, MergedShape
<1>2. \A i \in V : K(i) \in Q /\ K(i) \in ChildEntries(i) /\ K(i) \in InternalKeys /\ i \in 1 .. Width /\ i # 0
  <2>1. SUFFICES ASSUME NEW i \in V
                 PROVE  K(i) \in Q /\ K(i) \in ChildEntries(i) /\ K(i) \in InternalKeys /\ i \in 1 .. Width /\ i # 0
    OBVIOUS
  <2>2. i \in 1 .. Width /\ ChildValid(i, m.children[i]) /\ i # 0
    BY <1>1
  <2>3. ChildOK(i, m.children[i])
    BY <2>2 DEF MergedShape
  <2>4. QED
    BY <2>2, <2>3, ChildKeyIs
<1>3. y = [children |-> m.children, current |-> IF V = {} THEN 0 ELSE C, forward |-> TRUE]
  <2>1. y = [m EXCEPT !.current = IF V = {} THEN 0 ELSE C]
    BY DEF FindSmallest
  <2> HIDE DEF C, V
  <2>2. QED
    BY <2>1 DEF MergedShape
<1>4. y.children = m.children /\ y.current = (IF V = {} THEN 0 ELSE C) /\ y.forward = TRUE
  <2> HIDE DEF C, V
  <2>1. QED
    BY <1>3
<1>5. MergedShape(y)
  <2> HIDE DEF C, V
  <2>1. QED
    BY <1>3, <1>4 DEF MergedShape
<1>6. CASE V = {}
  <2>1. y.current = 0
    BY <1>4, <1>6
  <2>2. MergedOK(y) /\ ~MergedValid(y)
    BY <1>5, <2>1 DEF MergedOK, MergedValid
  <2>3. ASSUME NEW e \in R, Visible(e) PROVE FALSE
    <3>1. PICK i \in 1 .. Width : e \in ChildEntries(i)
      BY EntryFacts
    <3>2. ChildValid(i, m.children[i])
      BY <2>3, <3>1
    <3>3. QED
      BY <1>1, <1>6, <3>2
  <2>4. QED
    BY <1>4, <2>2, <2>3
<1>7. CASE V # {}
  <2>1. PICK x \in InternalKeys : (\E k \in V : K(k) = x) /\ \A j \in V : K(j) # x => Before(x, K(j))
    <3> DEFINE S == {K(i) : i \in V}
    <3>1. S \subseteq Q /\ S \subseteq InternalKeys /\ S # {}
      BY <1>2, <1>7
    <3>2. IsFiniteSet(S)
      BY <3>1, EntryFacts, FS_Subset
    <3>3. PICK x \in S : IsFirst(x, S)
      BY <3>1, <3>2, FirstAndLast
    <3>4. \A j \in V : K(j) # x => Before(x, K(j))
      BY <3>1, <3>3 DEF IsFirst
    <3>5. x \in InternalKeys /\ \E k \in V : K(k) = x
      BY <3>1, <3>3
    <3>6. QED
      BY <3>4, <3>5
  <2>2. \E i \in V : \A j \in V \ {i} : Before(K(i), K(j)) \/ (K(i) = K(j) /\ i < j)
    <3> DEFINE W == {i \in V : K(i) = x}
    <3>1. W \subseteq Nat /\ W # {}
      BY <1>1, <2>1
    <3>2. PICK k \in W : \A j \in W : k <= j
      BY <3>1, Smallest
    <3>3. ASSUME NEW j \in V \ {k} PROVE Before(K(k), K(j)) \/ (K(k) = K(j) /\ k < j)
      <4>1. CASE K(j) = x
        <5>1. j \in W /\ k \in Nat /\ j \in Nat /\ k # j
          BY <3>1, <3>2, <3>3, <4>1
        <5>2. k < j
          BY <3>2, <5>1
        <5>3. QED
          BY <4>1, <5>2
      <4>2. CASE K(j) # x
        BY <2>1, <4>2
      <4>3. QED
        BY <4>1, <4>2
    <3>4. QED
      BY <3>3
  <2>3. PICK c : c = C
    OBVIOUS
  <2>4. c \in V /\ \A j \in V \ {c} : Before(K(c), K(j)) \/ (K(c) = K(j) /\ c < j)
    BY <2>2, <2>3
  <2>5. y.current = c
    BY <1>4, <1>7, <2>3
  <2> HIDE DEF C
  <2>6. MergedValid(y) /\ MergedKey(y) = K(c) /\ K(c) \in Q /\ K(c) \in InternalKeys /\ c \in 1 .. Width /\ c \in V
    BY <1>2, <1>4, <2>4, <2>5 DEF MergedValid, MergedKey
  <2>7. y.current \in ValidChildren(y)
    BY <1>4, <2>4, <2>5 DEF ValidChildren
  <2>8. ASSUME NEW i \in 1 .. Width, i # c
        PROVE  /\ ChildValid(i, y.children[i]) =>
                    Ahead(y, ChildKey(i, y.children[i])) \/ (ChildKey(i, y.children[i]) = MergedKey(y) /\ i > y.current)
               /\ \A e \in ChildEntries(i) : Visible(e) /\ Ahead(y, e) => ChildValid(i, y.children[i]) /\ ~Nearer(y, i, e)
    <3>1. ChildValid(i, y.children[i]) =>
            Ahead(y, ChildKey(i, y.children[i])) \/ (ChildKey(i, y.children[i]) = MergedKey(y) /\ i > y.current)
      <4>1. SUFFICES ASSUME ChildValid(i, y.children[i]) PROVE Before(K(c), K(i)) \/ (K(c) = K(i) /\ c < i)
        BY <1>1, <1>4, <2>5, <2>6 DEF Ahead
      <4>2. i \in V \ {c}
        BY <1>1, <1>4, <2>8, <4>1
      <4>3. QED
        BY <2>4, <4>2
    <3>2. ASSUME NEW e \in ChildEntries(i), Visible(e), Ahead(y, e)
          PROVE  ChildValid(i, y.children[i]) /\ ~Nearer(y, i, e)
      <4>1. Before(K(c), e) /\ e \in Entries
        BY <1>4, <2>6, <3>2, EntryFacts DEF Ahead
      <4>2. e \in R
        BY <2>6, <4>1
      <4>3. ChildValid(i, m.children[i]) /\ ~Before(e, ChildKey(i, m.children[i]))
        BY <3>2, <4>2
      <4>4. QED
        BY <1>4, <4>3 DEF Nearer
    <3>3. QED
      BY <3>1, <3>2
  <2>9. MergedOK(y)
    BY <1>5, <2>5, <2>7, <2>8 DEF MergedOK
  <2>10. ASSUME NEW e \in R, Visible(e) PROVE ~Before(e, K(c))
    <3>1. PICK i \in 1 .. Width : e \in ChildEntries(i)
      BY EntryFacts
    <3>2. ChildValid(i, m.children[i]) /\ ~Before(e, K(i)) /\ i \in V
      BY <1>1, <2>10, <3>1
    <3>3. e \in InternalKeys /\ K(i) \in InternalKeys /\ (K(i) = K(c) \/ Before(K(c), K(i)))
      BY <1>2, <2>4, <3>2, EntryFacts
    <3>4. QED
      BY <2>6, <3>2, <3>3, KeyOrderTransitive
  <2>11. /\ y.current \in 1 .. Width /\ ChildValid(y.current, m.children[y.current])
         /\ MergedKey(y) = ChildKey(y.current, m.children[y.current])
    BY <1>1, <2>5, <2>6
  <2>12. QED
    BY <1>4, <2>6, <2>9, <2>10, <2>11
<1>8. QED
  BY <1>6, <1>7

(* FindLargest, when every child stands on a key of Q, and no earlier than  *)
(* its last entry of R that the snapshot sees; before  a key of Q all are  *)
(* in R.                                                                   *)
LEMMA LargestIs ==
  ASSUME DataOK, NEW m, MergedShape(m), m.forward = FALSE, NEW Q \in SUBSET Entries, NEW R \in SUBSET Entries,
         \A e \in Q, f \in Entries : Before(f, e) => f \in R,
         \A i \in 1 .. Width :
           /\ ChildValid(i, m.children[i]) => ChildKey(i, m.children[i]) \in Q
           /\ \A e \in ChildEntries(i) : Visible(e) /\ e \in R =>
                ChildValid(i, m.children[i]) /\ ~Before(ChildKey(i, m.children[i]), e),
         NEW y, y = FindLargest(m)
  PROVE  /\ MergedOK(y) /\ y.forward = FALSE
         /\ MergedValid(y) => /\ MergedKey(y) \in Q
                              /\ y.current \in 1 .. Width /\ ChildValid(y.current, m.children[y.current])
                              /\ MergedKey(y) = ChildKey(y.current, m.children[y.current])
         /\ \A e \in R : Visible(e) => MergedValid(y) /\ ~Before(MergedKey(y), e)
<1> DEFINE K(i) == ChildKey(i, m.children[i])
           V == ValidChildren(m)
           C == CHOOSE i \in V : \A j \in V \ {i} : Before(K(j), K(i)) \/ (K(i) = K(j) /\ i < j)
<1>1. V = {i \in 1 .. Width : ChildValid(i, m.children[i])} /\ Width \in Nat
  BY EntryFacts DEF ValidChildren, MergedShape
<1>2. \A i \in V : K(i) \in Q /\ K(i) \in ChildEntries(i) /\ K(i) \in InternalKeys /\ i \in 1 .. Width /\ i # 0
  <2>1. SUFFICES ASSUME NEW i \in V
                 PROVE  K(i) \in Q /\ K(i) \in ChildEntries(i) /\ K(i) \in InternalKeys /\ i \in 1 .. Width /\ i # 0
    OBVIOUS
  <2>2. i \in 1 .. Width /\ ChildValid(i, m.children[i]) /\ i # 0
    BY <1>1
  <2>3. ChildOK(i, m.children[i])
    BY <2>2 DEF MergedShape
  <2>4. QED
    BY <2>2, <2>3, ChildKeyIs
<1>3. y = [children |-> m.children, current |-> IF V = {} THEN 0 ELSE C, forward |-> FALSE]
  <2>1. y = [m EXCEPT !.current = IF V = {} THEN 0 ELSE C]
    BY DEF FindLargest
  <2> HIDE DEF C, V
  <2>2. QED
    BY <2>1 DEF MergedShape
<1>4. y.children = m.children /\ y.current = (IF V = {} THEN 0 ELSE C) /\ y.forward = FALSE
  <2> HIDE DEF C, V
  <2>1. QED
    BY <1>3
<1>5. MergedShape(y)
  <2> HIDE DEF C, V
  <2>1. QED
    BY <1>3, <1>4 DEF MergedShape
<1>6. CASE V = {}
  <2>1. y.current = 0
    BY <1>4, <1>6
  <2>2. MergedOK(y) /\ ~MergedValid(y)
    BY <1>5, <2>1 DEF MergedOK, MergedValid
  <2>3. ASSUME NEW e \in R, Visible(e) PROVE FALSE
    <3>1. PICK i \in 1 .. Width : e \in ChildEntries(i)
      BY EntryFacts
    <3>2. ChildValid(i, m.children[i])
      BY <2>3, <3>1
    <3>3. QED
      BY <1>1, <1>6, <3>2
  <2>4. QED
    BY <1>4, <2>2, <2>3
<1>7. CASE V # {}
  <2>1. PICK x \in InternalKeys : (\E k \in V : K(k) = x) /\ \A j \in V : K(j) # x => Before(K(j), x)
    <3> DEFINE S == {K(i) : i \in V}
    <3>1. S \subseteq Q /\ S \subseteq InternalKeys /\ S # {}
      BY <1>2, <1>7
    <3>2. IsFiniteSet(S)
      BY <3>1, EntryFacts, FS_Subset
    <3>3. PICK x \in S : IsLast(x, S)
      BY <3>1, <3>2, FirstAndLast
    <3>4. \A j \in V : K(j) # x => Before(K(j), x)
      BY <3>1, <3>3 DEF IsLast
    <3>5. x \in InternalKeys /\ \E k \in V : K(k) = x
      BY <3>1, <3>3
    <3>6. QED
      BY <3>4, <3>5
  <2>2. \E i \in V : \A j \in V \ {i} : Before(K(j), K(i)) \/ (K(i) = K(j) /\ i < j)
    <3> DEFINE W == {i \in V : K(i) = x}
    <3>1. W \subseteq Nat /\ W # {}
      BY <1>1, <2>1
    <3>2. PICK k \in W : \A j \in W : k <= j
      BY <3>1, Smallest
    <3>3. ASSUME NEW j \in V \ {k} PROVE Before(K(j), K(k)) \/ (K(k) = K(j) /\ k < j)
      <4>1. CASE K(j) = x
        <5>1. j \in W /\ k \in Nat /\ j \in Nat /\ k # j
          BY <3>1, <3>2, <3>3, <4>1
        <5>2. k < j
          BY <3>2, <5>1
        <5>3. QED
          BY <4>1, <5>2
      <4>2. CASE K(j) # x
        BY <2>1, <4>2
      <4>3. QED
        BY <4>1, <4>2
    <3>4. QED
      BY <3>3
  <2>3. PICK c : c = C
    OBVIOUS
  <2>4. c \in V /\ \A j \in V \ {c} : Before(K(j), K(c)) \/ (K(c) = K(j) /\ c < j)
    BY <2>2, <2>3
  <2>5. y.current = c
    BY <1>4, <1>7, <2>3
  <2> HIDE DEF C
  <2>6. MergedValid(y) /\ MergedKey(y) = K(c) /\ K(c) \in Q /\ K(c) \in InternalKeys /\ c \in 1 .. Width /\ c \in V
    BY <1>2, <1>4, <2>4, <2>5 DEF MergedValid, MergedKey
  <2>7. y.current \in ValidChildren(y)
    BY <1>4, <2>4, <2>5 DEF ValidChildren
  <2>8. ASSUME NEW i \in 1 .. Width, i # c
        PROVE  /\ ChildValid(i, y.children[i]) =>
                    Ahead(y, ChildKey(i, y.children[i])) \/ (ChildKey(i, y.children[i]) = MergedKey(y) /\ i > y.current)
               /\ \A e \in ChildEntries(i) : Visible(e) /\ Ahead(y, e) => ChildValid(i, y.children[i]) /\ ~Nearer(y, i, e)
    <3>1. ChildValid(i, y.children[i]) =>
            Ahead(y, ChildKey(i, y.children[i])) \/ (ChildKey(i, y.children[i]) = MergedKey(y) /\ i > y.current)
      <4>1. SUFFICES ASSUME ChildValid(i, y.children[i]) PROVE Before(K(i), K(c)) \/ (K(c) = K(i) /\ c < i)
        BY <1>1, <1>4, <2>5, <2>6 DEF Ahead
      <4>2. i \in V \ {c}
        BY <1>1, <1>4, <2>8, <4>1
      <4>3. QED
        BY <2>4, <4>2
    <3>2. ASSUME NEW e \in ChildEntries(i), Visible(e), Ahead(y, e)
          PROVE  ChildValid(i, y.children[i]) /\ ~Nearer(y, i, e)
      <4>1. Before(e, K(c)) /\ e \in Entries
        BY <1>4, <2>6, <3>2, EntryFacts DEF Ahead
      <4>2. e \in R
        BY <2>6, <4>1
      <4>3. ChildValid(i, m.children[i]) /\ ~Before(ChildKey(i, m.children[i]), e)
        BY <3>2, <4>2
      <4>4. QED
        BY <1>4, <4>3 DEF Nearer
    <3>3. QED
      BY <3>1, <3>2
  <2>9. MergedOK(y)
    BY <1>5, <2>5, <2>7, <2>8 DEF MergedOK
  <2>10. ASSUME NEW e \in R, Visible(e) PROVE ~Before(K(c), e)
    <3>1. PICK i \in 1 .. Width : e \in ChildEntries(i)
      BY EntryFacts
    <3>2. ChildValid(i, m.children[i]) /\ ~Before(K(i), e) /\ i \in V
      BY <1>1, <2>10, <3>1
    <3>3. e \in InternalKeys /\ K(i) \in InternalKeys /\ (K(i) = K(c) \/ Before(K(i), K(c)))
      BY <1>2, <2>4, <3>2, EntryFacts
    <3>4. QED
      BY <2>6, <3>2, <3>3, KeyOrderTransitive
  <2>11. /\ y.current \in 1 .. Width /\ ChildValid(y.current, m.children[y.current])
         /\ MergedKey(y) = ChildKey(y.current, m.children[y.current])
    BY <1>1, <2>5, <2>6
  <2>12. QED
    BY <1>4, <2>6, <2>9, <2>10, <2>11
<1>8. QED
  BY <1>6, <1>7

(* A merging iterator that is given children and a direction.              *)
LEMMA MergedExcept ==
  ASSUME NEW m, NEW X, NEW v, m = [children |-> m.children, current |-> m.current, forward |-> m.forward]
  PROVE  /\ [m EXCEPT !.children = X, !.forward = v] = [children |-> X, current |-> m.current, forward |-> v]
         /\ [m EXCEPT !.forward = v, !.children = X] = [children |-> X, current |-> m.current, forward |-> v]
<1>1. PICK w : w = [m EXCEPT !.children = X]
  OBVIOUS
<1>2. PICK z : z = [m EXCEPT !.forward = v]
  OBVIOUS
<1>3. w = [children |-> X, current |-> m.current, forward |-> m.forward]
  BY <1>1
<1>4. z = [children |-> m.children, current |-> m.current, forward |-> v]
  BY <1>2
<1>5. [w EXCEPT !.forward = v] = [children |-> X, current |-> m.current, forward |-> v]
  BY ONLY <1>3
<1>6. [z EXCEPT !.children = X] = [children |-> X, current |-> m.current, forward |-> v]
  BY ONLY <1>4
<1>7. QED
  BY ONLY <1>1, <1>2, <1>5, <1>6, Zenon

(* A child at its first entry of R.                                          *)
LEMMA FirstStands ==
  ASSUME DataOK, NEW i \in 1 .. Width, NEW c, ChildOK(i, c), NEW R, NEW S, IsFirst(ChildAt(i, c), S),
         S \subseteq ChildEntries(i), \A e \in ChildEntries(i) : e \in S <=> e \in R
  PROVE  /\ ChildValid(i, c) => ChildKey(i, c) \in R
         /\ \A e \in ChildEntries(i) : e \in R => ChildValid(i, c) /\ ~Before(e, ChildKey(i, c))
<1>1. ChildEntries(i) \subseteq InternalKeys /\ Nil \notin InternalKeys
  BY EntryFacts, ListAssumption
<1>2. /\ ChildValid(i, c) => ChildAt(i, c) = ChildKey(i, c)
      /\ ChildValid(i, c) <=> ChildAt(i, c) # Nil
  BY ChildKeyIs
<1>3. CASE S = {}
  BY <1>2, <1>3 DEF IsFirst
<1>4. CASE S # {}
  <2>1. ChildAt(i, c) \in S /\ \A e \in S \ {ChildAt(i, c)} : Before(ChildAt(i, c), e)
    BY <1>4 DEF IsFirst
  <2>2. ChildAt(i, c) = ChildKey(i, c) /\ ChildValid(i, c)
    BY <1>1, <1>2, <2>1
  <2>3. ChildKey(i, c) \in InternalKeys /\ \A e \in S : e \in InternalKeys /\ (e = ChildKey(i, c) \/ Before(ChildKey(i, c), e))
    BY <1>1, <2>1, <2>2
  <2>4. \A e \in S : ~Before(e, ChildKey(i, c))
    BY <2>3, KeyOrder
  <2>5. QED
    BY <2>1, <2>2, <2>4
<1>5. QED
  BY <1>3, <1>4

(* A child at its last entry of R.                                          *)
LEMMA LastStands ==
  ASSUME DataOK, NEW i \in 1 .. Width, NEW c, ChildOK(i, c), NEW R, NEW S, IsLast(ChildAt(i, c), S),
         S \subseteq ChildEntries(i), \A e \in ChildEntries(i) : e \in S <=> e \in R
  PROVE  /\ ChildValid(i, c) => ChildKey(i, c) \in R
         /\ \A e \in ChildEntries(i) : e \in R => ChildValid(i, c) /\ ~Before(ChildKey(i, c), e)
<1>1. ChildEntries(i) \subseteq InternalKeys /\ Nil \notin InternalKeys
  BY EntryFacts, ListAssumption
<1>2. /\ ChildValid(i, c) => ChildAt(i, c) = ChildKey(i, c)
      /\ ChildValid(i, c) <=> ChildAt(i, c) # Nil
  BY ChildKeyIs
<1>3. CASE S = {}
  BY <1>2, <1>3 DEF IsLast
<1>4. CASE S # {}
  <2>1. ChildAt(i, c) \in S /\ \A e \in S \ {ChildAt(i, c)} : Before(e, ChildAt(i, c))
    BY <1>4 DEF IsLast
  <2>2. ChildAt(i, c) = ChildKey(i, c) /\ ChildValid(i, c)
    BY <1>1, <1>2, <2>1
  <2>3. ChildKey(i, c) \in InternalKeys /\ \A e \in S : e \in InternalKeys /\ (e = ChildKey(i, c) \/ Before(e, ChildKey(i, c)))
    BY <1>1, <2>1, <2>2
  <2>4. \A e \in S : ~Before(ChildKey(i, c), e)
    BY <2>3, KeyOrder
  <2>5. QED
    BY <2>1, <2>2, <2>4
<1>5. QED
  BY <1>3, <1>4

(* SeekToFirst of the merging iterator passes no entry.                    *)
LEMMA MergedFirstIs ==
  ASSUME DataOK, NEW m, MergedShape(m), NEW y, y = MergedSeekToFirst(m)
  PROVE  /\ MergedOK(y) /\ y.forward = TRUE /\ (MergedValid(y) => MergedKey(y) \in Entries)
         /\ \A e \in Entries : Visible(e) => MergedValid(y) /\ ~Before(e, MergedKey(y))
<1> DEFINE X == [i \in 1 .. Width |-> ChildFirst(i, m.children[i])]
           x == [children |-> X, current |-> m.current, forward |-> TRUE]
<1>1. y = FindSmallest(x)
  <2>1. DOMAIN m.children = 1 .. Width
    BY DEF MergedShape
  <2>2. [m EXCEPT !.children = [i \in DOMAIN @ |-> ChildFirst(i, @[i])], !.forward = TRUE] = x
    <3>1. m = [children |-> m.children, current |-> m.current, forward |-> m.forward]
      BY DEF MergedShape
    <3>2. [i \in DOMAIN m.children |-> ChildFirst(i, m.children[i])] = X
      BY <2>1
    <3> HIDE DEF X
    <3>3. [m EXCEPT !.children = X, !.forward = TRUE] = x
      BY <3>1, MergedExcept
    <3>4. QED
      BY <3>2, <3>3
  <2>3. QED
    BY <2>2 DEF MergedSeekToFirst
<1>2. \A i \in 1 .. Width : X[i] = ChildFirst(i, m.children[i]) /\ ChildOK(i, m.children[i])
  BY DEF MergedShape
<1>3. \A i \in 1 .. Width : ChildOK(i, X[i]) /\ IsFirst(ChildAt(i, X[i]), ChildEntries(i))
  BY <1>2, ChildMoves
<1>4. X = [i \in 1 .. Width |-> X[i]]
  OBVIOUS
<1> HIDE DEF X
<1>5. MergedShape(x) /\ x.children = X /\ x.forward = TRUE
  BY <1>3, <1>4 DEF MergedShape
<1> HIDE DEF x
<1>6. ASSUME NEW i \in 1 .. Width
      PROVE  /\ ChildValid(i, X[i]) => ChildKey(i, X[i]) \in Entries
             /\ \A e \in ChildEntries(i) : e \in Entries => ChildValid(i, X[i]) /\ ~Before(e, ChildKey(i, X[i]))
  <2>1. \A e \in ChildEntries(i) : e \in ChildEntries(i) <=> e \in Entries
    BY EntryFacts
  <2>2. QED
    BY <1>3, <2>1, FirstStands
<1>7. Entries \in SUBSET Entries /\ \A e \in Entries, f \in Entries : Before(e, f) => f \in Entries
  OBVIOUS
<1>8. QED
  BY <1>1, <1>5, <1>6, <1>7, SmallestIs

(* SeekToLast of the merging iterator passes no entry.                     *)
LEMMA MergedLastIs ==
  ASSUME DataOK, NEW m, MergedShape(m), NEW y, y = MergedSeekToLast(m)
  PROVE  /\ MergedOK(y) /\ y.forward = FALSE /\ (MergedValid(y) => MergedKey(y) \in Entries)
         /\ \A e \in Entries : Visible(e) => MergedValid(y) /\ ~Before(MergedKey(y), e)
<1> DEFINE X == [i \in 1 .. Width |-> ChildLast(i, m.children[i])]
           x == [children |-> X, current |-> m.current, forward |-> FALSE]
<1>1. y = FindLargest(x)
  <2>1. DOMAIN m.children = 1 .. Width
    BY DEF MergedShape
  <2>2. [m EXCEPT !.children = [i \in DOMAIN @ |-> ChildLast(i, @[i])], !.forward = FALSE] = x
    <3>1. m = [children |-> m.children, current |-> m.current, forward |-> m.forward]
      BY DEF MergedShape
    <3>2. [i \in DOMAIN m.children |-> ChildLast(i, m.children[i])] = X
      BY <2>1
    <3> HIDE DEF X
    <3>3. [m EXCEPT !.children = X, !.forward = FALSE] = x
      BY <3>1, MergedExcept
    <3>4. QED
      BY <3>2, <3>3
  <2>3. QED
    BY <2>2 DEF MergedSeekToLast
<1>2. \A i \in 1 .. Width : X[i] = ChildLast(i, m.children[i]) /\ ChildOK(i, m.children[i])
  BY DEF MergedShape
<1>3. \A i \in 1 .. Width : ChildOK(i, X[i]) /\ IsLast(ChildAt(i, X[i]), ChildEntries(i))
  BY <1>2, ChildMoves
<1>4. X = [i \in 1 .. Width |-> X[i]]
  OBVIOUS
<1> HIDE DEF X
<1>5. MergedShape(x) /\ x.children = X /\ x.forward = FALSE
  BY <1>3, <1>4 DEF MergedShape
<1> HIDE DEF x
<1>6. ASSUME NEW i \in 1 .. Width
      PROVE  /\ ChildValid(i, X[i]) => ChildKey(i, X[i]) \in Entries
             /\ \A e \in ChildEntries(i) : e \in Entries => ChildValid(i, X[i]) /\ ~Before(ChildKey(i, X[i]), e)
  <2>1. \A e \in ChildEntries(i) : e \in ChildEntries(i) <=> e \in Entries
    BY EntryFacts
  <2>2. QED
    BY <1>3, <2>1, LastStands
<1>7. Entries \in SUBSET Entries /\ \A e \in Entries, f \in Entries : Before(f, e) => f \in Entries
  OBVIOUS
<1>8. QED
  BY <1>1, <1>5, <1>6, <1>7, LargestIs

(* Seek of the merging iterator passes no entry from the target on that    *)
(* the snapshot sees.                                                      *)
LEMMA MergedSeekIs ==
  ASSUME DataOK, NEW m, MergedShape(m), NEW target \in InternalKeys, NEW y, y = MergedSeek(m, target)
  PROVE  /\ MergedOK(y) /\ y.forward = TRUE /\ (MergedValid(y) => MergedKey(y) \in Entries /\ ~Before(MergedKey(y), target))
         /\ \A e \in Entries : Visible(e) /\ ~Before(e, target) => MergedValid(y) /\ ~Before(e, MergedKey(y))
<1> DEFINE X == [i \in 1 .. Width |-> ChildSeek(i, m.children[i], target)]
           x == [children |-> X, current |-> m.current, forward |-> TRUE]
           R == {e \in Entries : ~Before(e, target)}
<1>1. y = FindSmallest(x)
  <2>1. DOMAIN m.children = 1 .. Width
    BY DEF MergedShape
  <2>2. [m EXCEPT !.children = [i \in DOMAIN @ |-> ChildSeek(i, @[i], target)], !.forward = TRUE] = x
    <3>1. m = [children |-> m.children, current |-> m.current, forward |-> m.forward]
      BY DEF MergedShape
    <3>2. [i \in DOMAIN m.children |-> ChildSeek(i, m.children[i], target)] = X
      BY <2>1
    <3> HIDE DEF X
    <3>3. [m EXCEPT !.children = X, !.forward = TRUE] = x
      BY <3>1, MergedExcept
    <3>4. QED
      BY <3>2, <3>3
  <2>3. QED
    BY <2>2 DEF MergedSeek
<1>2. \A i \in 1 .. Width : X[i] = ChildSeek(i, m.children[i], target) /\ ChildOK(i, m.children[i])
  BY DEF MergedShape
<1>3. \A i \in 1 .. Width : ChildOK(i, X[i]) /\ IsFirst(ChildAt(i, X[i]), {e \in ChildEntries(i) : ~Before(e, target)})
  BY <1>2, ChildMoves
<1>4. X = [i \in 1 .. Width |-> X[i]]
  OBVIOUS
<1> HIDE DEF X
<1>5. MergedShape(x) /\ x.children = X /\ x.forward = TRUE
  BY <1>3, <1>4 DEF MergedShape
<1> HIDE DEF x
<1>6. ASSUME NEW i \in 1 .. Width
      PROVE  /\ ChildValid(i, X[i]) => ChildKey(i, X[i]) \in R
             /\ \A e \in ChildEntries(i) : e \in R => ChildValid(i, X[i]) /\ ~Before(e, ChildKey(i, X[i]))
  <2> DEFINE S == {e \in ChildEntries(i) : ~Before(e, target)}
  <2>1. S \subseteq ChildEntries(i) /\ \A e \in ChildEntries(i) : e \in S <=> e \in R
    BY EntryFacts
  <2>2. IsFirst(ChildAt(i, X[i]), S) /\ ChildOK(i, X[i])
    BY <1>3
  <2> HIDE DEF S, R
  <2>3. QED
    BY <2>1, <2>2, FirstStands
<1>7. ASSUME NEW e \in R, NEW f \in Entries, Before(e, f) PROVE f \in R
  <2>1. e \in InternalKeys /\ f \in InternalKeys
    BY EntryFacts
  <2>2. QED
    BY <1>7, <2>1, KeyOrderTransitive
<1>8. R \in SUBSET Entries /\ \A e \in Entries : e \in R <=> ~Before(e, target)
  OBVIOUS
<1> HIDE DEF R
<1>9. /\ MergedOK(y) /\ y.forward = TRUE /\ (MergedValid(y) => MergedKey(y) \in R)
      /\ \A e \in R : Visible(e) => MergedValid(y) /\ ~Before(e, MergedKey(y))
  BY <1>1, <1>5, <1>6, <1>7, <1>8, SmallestIs
<1>10. QED
  BY <1>8, <1>9

(* The key of the merging iterator is an entry of the child it comes from. *)
LEMMA MergedKeyIs ==
  ASSUME DataOK, NEW m, MergedShape(m), m.current \in {0} \cup ValidChildren(m), MergedValid(m)
  PROVE  /\ m.current \in 1 .. Width /\ ChildValid(m.current, m.children[m.current])
         /\ MergedKey(m) = ChildKey(m.current, m.children[m.current])
         /\ MergedKey(m) \in ChildEntries(m.current) /\ MergedKey(m) \in Entries /\ MergedKey(m) \in InternalKeys
<1>1. m.current \in 1 .. Width /\ ChildValid(m.current, m.children[m.current])
  BY DEF MergedValid, ValidChildren, MergedShape
<1>2. ChildOK(m.current, m.children[m.current])
  BY <1>1 DEF MergedShape
<1>3. MergedKey(m) = ChildKey(m.current, m.children[m.current])
  BY DEF MergedKey
<1>4. MergedKey(m) \in ChildEntries(m.current) /\ MergedKey(m) \in Entries /\ MergedKey(m) \in InternalKeys
  BY <1>1, <1>2, <1>3, ChildKeyIs
<1>5. QED
  BY <1>1, <1>3, <1>4

(* Next moves to a later entry or to a copy in a later child, and passes   *)
(* none the snapshot sees.  When it turns the other children, which stand  *)
(* before the key, are sought again, and no copy of the key is left.       *)
LEMMA MergedNextIs ==
  ASSUME DataOK, NEW m, MergedOK(m), MergedValid(m), NEW y, y = MergedNext(m), NEW key, key = MergedKey(m)
  PROVE  /\ MergedOK(y) /\ y.forward = TRUE /\ (MergedValid(y) => MergedKey(y) \in Entries /\ Further(m, y))
         /\ MergedValid(y) /\ ~m.forward => Before(key, MergedKey(y))
         /\ \A e \in Entries : Visible(e) /\ Before(key, e) => MergedValid(y) /\ ~Before(e, MergedKey(y))
<1> DEFINE n == m.current
           X == [i \in 1 .. Width |-> IF i = n THEN ChildNext(n, m.children[n])
                                     ELSE IF m.forward THEN m.children[i]
                                     ELSE AfterKey(i, ChildSeek(i, m.children[i], key), key)]
           x == [children |-> X, current |-> n, forward |-> TRUE]
           Q == {e \in Entries : IF m.forward THEN ~Before(e, key) ELSE Before(key, e)}
           R == {e \in Entries : Before(key, e)}
<1>1. MergedShape(m) /\ n \in 1 .. Width /\ n # 0 /\ m.current \in {0} \cup ValidChildren(m)
  BY MergedKeyIs DEF MergedOK
<1>2. /\ ChildValid(n, m.children[n]) /\ key = ChildKey(n, m.children[n]) /\ key \in Entries /\ key \in InternalKeys
  BY <1>1, MergedKeyIs
<1>3. y = FindSmallest(x)
  <2>1. DOMAIN m.children = 1 .. Width
    BY <1>1 DEF MergedShape
  <2> DEFINE turned == IF m.forward THEN m.children
                       ELSE [i \in DOMAIN m.children |-> IF i = n THEN m.children[i] ELSE AfterKey(i, ChildSeek(i, m.children[i], key), key)]
             moved == [turned EXCEPT ![n] = ChildNext(n, @)]
  <2>2. y = FindSmallest([m EXCEPT !.forward = TRUE, !.children = moved])
    BY DEF MergedNext
  <2>3. moved = X
    <3>1. CASE m.forward
      <4>1. m.children = [i \in 1 .. Width |-> m.children[i]]
        BY <1>1 DEF MergedShape
      <4>2. QED
        BY <1>1, <3>1, <4>1
    <3>2. CASE ~(m.forward)
      BY <1>1, <2>1, <3>2
    <3>3. QED
      BY <3>1, <3>2
  <2> HIDE DEF moved, X
  <2>4. [m EXCEPT !.forward = TRUE, !.children = moved] = x
    <3>1. m = [children |-> m.children, current |-> m.current, forward |-> m.forward]
      BY <1>1 DEF MergedShape
    <3>2. [m EXCEPT !.forward = TRUE, !.children = moved] = [children |-> moved, current |-> n, forward |-> TRUE]
      BY <3>1, MergedExcept
    <3>3. QED
      BY <2>3, <3>2
  <2>5. QED
    BY <2>2, <2>4
<1>4. \A i \in 1 .. Width : ChildOK(i, m.children[i])
  BY <1>1 DEF MergedShape
<1>5. ASSUME NEW i \in 1 .. Width
      PROVE  /\ ChildOK(i, X[i])
             /\ ChildValid(i, X[i]) => IF i # n /\ m.forward THEN ChildKey(i, X[i]) \in Q ELSE ChildKey(i, X[i]) \in R
             /\ \A e \in ChildEntries(i) : Visible(e) /\ e \in R => ChildValid(i, X[i]) /\ ~Before(e, ChildKey(i, X[i]))
  <2> DEFINE S == {e \in ChildEntries(i) : Before(key, e)}
  <2>1. S \subseteq ChildEntries(i) /\ \A e \in ChildEntries(i) : e \in S <=> e \in R
    BY EntryFacts
  <2>2. ASSUME ChildOK(i, X[i]), IsFirst(ChildAt(i, X[i]), S)
        PROVE  /\ ChildValid(i, X[i]) => ChildKey(i, X[i]) \in R
               /\ \A e \in ChildEntries(i) : e \in R => ChildValid(i, X[i]) /\ ~Before(e, ChildKey(i, X[i]))
    <3> HIDE DEF S, R, X
    <3>1. QED
      BY <2>1, <2>2, FirstStands
  <2>3. CASE i = n
    <3>1. X[i] = ChildNext(i, m.children[i])
      BY <2>3
    <3>2. ChildOK(i, X[i]) /\ IsFirst(ChildAt(i, X[i]), S)
      <4> HIDE DEF X
      <4>1. QED
        BY <1>2, <1>4, <2>3, <3>1, ChildMoves
    <3>3. QED
      BY <2>2, <2>3, <3>2
  <2>4. CASE i # n /\ m.forward
    <3>1. X[i] = m.children[i]
      BY <2>4
    <3>2. ChildOK(i, m.children[i]) /\ (ChildValid(i, m.children[i]) =>
            ChildKey(i, m.children[i]) \in Entries /\ ChildKey(i, m.children[i]) \in InternalKeys)
      BY <1>4, ChildKeyIs
    <3>3. /\ ChildValid(i, m.children[i]) => Before(key, ChildKey(i, m.children[i])) \/ ChildKey(i, m.children[i]) = key
          /\ \A e \in ChildEntries(i) : Visible(e) /\ Before(key, e) =>
               ChildValid(i, m.children[i]) /\ ~Before(e, ChildKey(i, m.children[i]))
      BY <2>4 DEF MergedOK, Ahead, Nearer
    <3>4. ChildValid(i, m.children[i]) => ~Before(ChildKey(i, m.children[i]), key)
      BY <1>2, <3>2, <3>3, KeyOrder
    <3>5. QED
      BY <2>4, <3>1, <3>2, <3>3, <3>4
  <2>5. CASE i # n /\ ~m.forward
    <3> DEFINE s == ChildSeek(i, m.children[i], key)
               T == {e \in ChildEntries(i) : ~Before(e, key)}
    <3>1. X[i] = AfterKey(i, s, key)
      BY <2>5
    <3>2. ChildOK(i, s) /\ IsFirst(ChildAt(i, s), T)
      BY <1>2, <1>4, ChildMoves
    <3> HIDE DEF s, X
    <3>3. CASE ChildValid(i, s) /\ ChildKey(i, s) = key
      <4>1. X[i] = ChildNext(i, s)
        BY <3>1, <3>3 DEF AfterKey
      <4>2. ChildOK(i, X[i]) /\ IsFirst(ChildAt(i, X[i]), S)
        BY <3>2, <3>3, <4>1, ChildMoves
      <4>3. QED
        BY <2>2, <2>5, <4>2
    <3>4. CASE ~(ChildValid(i, s) /\ ChildKey(i, s) = key)
      <4>1. X[i] = s
        BY <3>1, <3>4 DEF AfterKey
      <4>2. \A e \in ChildEntries(i) : e \in InternalKeys
        BY EntryFacts
      <4>3. key \notin ChildEntries(i)
        <5>1. SUFFICES ASSUME key \in ChildEntries(i) PROVE FALSE
          OBVIOUS
        <5>2. T \subseteq ChildEntries(i) /\ (\A e \in ChildEntries(i) : e \in T <=> e \in T) /\ key \in T
          BY <1>2, <5>1, KeyOrder
        <5> HIDE DEF T
        <5>3. ChildValid(i, s) /\ ~Before(key, ChildKey(i, s)) /\ ChildKey(i, s) \in T
          BY <3>2, <5>2, FirstStands
        <5>4. ChildKey(i, s) \in InternalKeys /\ ~Before(ChildKey(i, s), key)
          BY <4>2, <5>2, <5>3 DEF T
        <5>5. QED
          BY <1>2, <3>4, <5>3, <5>4, KeyOrder
      <4>4. T = S
        BY <1>2, <4>2, <4>3, KeyOrder
      <4>5. QED
        BY <2>2, <2>5, <3>2, <4>1, <4>4
    <3>5. QED
      BY <3>3, <3>4
  <2>6. QED
    BY <2>3, <2>4, <2>5
<1>6. X = [i \in 1 .. Width |-> X[i]]
  OBVIOUS
<1> HIDE DEF X
<1>7. MergedShape(x) /\ x.children = X /\ x.forward = TRUE
  BY <1>5, <1>6 DEF MergedShape
<1> HIDE DEF x
<1>8. ASSUME NEW e \in Q, NEW f \in Entries, Before(e, f) PROVE f \in R
  <2>1. e \in InternalKeys /\ f \in InternalKeys /\ (e = key \/ Before(key, e))
    BY <1>2, EntryFacts, KeyOrder
  <2>2. QED
    BY <1>2, <1>8, <2>1, KeyOrderTransitive
<1>9. /\ Q \in SUBSET Entries /\ R \in SUBSET Entries /\ R \subseteq Q
      /\ \A e \in Entries : e \in R <=> Before(key, e)
  BY <1>2, EntryFacts, KeyOrder
<1> HIDE DEF Q, R
<1>10. \A i \in 1 .. Width : ChildValid(i, X[i]) => ChildKey(i, X[i]) \in Q
  BY <1>5, <1>9
<1>11. /\ MergedOK(y) /\ y.forward = TRUE
       /\ MergedValid(y) => /\ MergedKey(y) \in Q
                            /\ y.current \in 1 .. Width /\ ChildValid(y.current, X[y.current])
                            /\ MergedKey(y) = ChildKey(y.current, X[y.current])
       /\ \A e \in R : Visible(e) => MergedValid(y) /\ ~Before(e, MergedKey(y))
  BY <1>3, <1>5, <1>7, <1>8, <1>9, <1>10, SmallestIs
<1>12. ASSUME MergedValid(y) PROVE Further(m, y) /\ (~m.forward => Before(key, MergedKey(y)))
  <2>1. PICK i \in 1 .. Width : i = y.current /\ ChildValid(i, X[i]) /\ MergedKey(y) = ChildKey(i, X[i])
    BY <1>11, <1>12
  <2>2. CASE i # n /\ m.forward
    <3>1. X[i] = m.children[i]
      BY <2>2 DEF X
    <3>2. Ahead(m, MergedKey(y)) \/ (MergedKey(y) = key /\ i > n)
      BY <1>1, <2>1, <2>2, <3>1 DEF MergedOK
    <3>3. QED
      BY <2>1, <2>2, <3>2 DEF Ahead, Further
  <2>3. CASE ~(i # n /\ m.forward)
    <3>1. MergedKey(y) \in R
      BY <1>5, <2>1, <2>3
    <3>2. Before(key, MergedKey(y))
      BY <1>9, <3>1
    <3>3. QED
      BY <3>2 DEF Further
  <2>4. QED
    BY <2>2, <2>3
<1>13. QED
  BY <1>9, <1>11, <1>12

(* Prev moves to an earlier entry or to a copy in a later child, and       *)
(* passes none the snapshot sees, also when it turns: a child with nothing *)
(* from the key on goes to its last entry.                                 *)
LEMMA MergedPrevIs ==
  ASSUME DataOK, NEW m, MergedOK(m), MergedValid(m), NEW y, y = MergedPrev(m), NEW key, key = MergedKey(m)
  PROVE  /\ MergedOK(y) /\ y.forward = FALSE /\ (MergedValid(y) => MergedKey(y) \in Entries /\ FurtherBack(m, y))
         /\ MergedValid(y) /\ m.forward => Before(MergedKey(y), key)
         /\ \A e \in Entries : Visible(e) /\ Before(e, key) => MergedValid(y) /\ ~Before(MergedKey(y), e)
<1> DEFINE n == m.current
           X == [i \in 1 .. Width |-> IF i = n THEN ChildPrev(n, m.children[n])
                                     ELSE IF ~m.forward THEN m.children[i]
                                     ELSE BeforeKey(i, ChildSeek(i, m.children[i], key))]
           x == [children |-> X, current |-> n, forward |-> FALSE]
           Q == {e \in Entries : IF m.forward THEN Before(e, key) ELSE ~Before(key, e)}
           R == {e \in Entries : Before(e, key)}
<1>1. MergedShape(m) /\ n \in 1 .. Width /\ n # 0 /\ m.current \in {0} \cup ValidChildren(m)
  BY MergedKeyIs DEF MergedOK
<1>2. /\ ChildValid(n, m.children[n]) /\ key = ChildKey(n, m.children[n]) /\ key \in Entries /\ key \in InternalKeys
  BY <1>1, MergedKeyIs
<1>3. y = FindLargest(x)
  <2>1. DOMAIN m.children = 1 .. Width
    BY <1>1 DEF MergedShape
  <2> DEFINE turned == IF ~m.forward THEN m.children
                       ELSE [i \in DOMAIN m.children |-> IF i = n THEN m.children[i] ELSE BeforeKey(i, ChildSeek(i, m.children[i], key))]
             moved == [turned EXCEPT ![n] = ChildPrev(n, @)]
  <2>2. y = FindLargest([m EXCEPT !.forward = FALSE, !.children = moved])
    BY DEF MergedPrev
  <2>3. moved = X
    <3>1. CASE ~m.forward
      <4>1. m.children = [i \in 1 .. Width |-> m.children[i]]
        BY <1>1 DEF MergedShape
      <4>2. QED
        BY <1>1, <3>1, <4>1
    <3>2. CASE ~(~m.forward)
      BY <1>1, <2>1, <3>2
    <3>3. QED
      BY <3>1, <3>2
  <2> HIDE DEF moved, X
  <2>4. [m EXCEPT !.forward = FALSE, !.children = moved] = x
    <3>1. m = [children |-> m.children, current |-> m.current, forward |-> m.forward]
      BY <1>1 DEF MergedShape
    <3>2. [m EXCEPT !.forward = FALSE, !.children = moved] = [children |-> moved, current |-> n, forward |-> FALSE]
      BY <3>1, MergedExcept
    <3>3. QED
      BY <2>3, <3>2
  <2>5. QED
    BY <2>2, <2>4
<1>4. \A i \in 1 .. Width : ChildOK(i, m.children[i])
  BY <1>1 DEF MergedShape
<1>5. ASSUME NEW i \in 1 .. Width
      PROVE  /\ ChildOK(i, X[i])
             /\ ChildValid(i, X[i]) => IF i # n /\ ~m.forward THEN ChildKey(i, X[i]) \in Q ELSE ChildKey(i, X[i]) \in R
             /\ \A e \in ChildEntries(i) : Visible(e) /\ e \in R => ChildValid(i, X[i]) /\ ~Before(ChildKey(i, X[i]), e)
  <2> DEFINE S == {e \in ChildEntries(i) : Before(e, key)}
  <2>1. S \subseteq ChildEntries(i) /\ \A e \in ChildEntries(i) : e \in S <=> e \in R
    BY EntryFacts
  <2>2. ASSUME ChildOK(i, X[i]), IsLast(ChildAt(i, X[i]), S)
        PROVE  /\ ChildValid(i, X[i]) => ChildKey(i, X[i]) \in R
               /\ \A e \in ChildEntries(i) : e \in R => ChildValid(i, X[i]) /\ ~Before(ChildKey(i, X[i]), e)
    <3> HIDE DEF S, R, X
    <3>1. QED
      BY <2>1, <2>2, LastStands
  <2>3. CASE i = n
    <3>1. X[i] = ChildPrev(i, m.children[i])
      BY <2>3
    <3>2. ChildOK(i, X[i]) /\ IsLast(ChildAt(i, X[i]), S)
      <4> HIDE DEF X
      <4>1. QED
        BY <1>2, <1>4, <2>3, <3>1, ChildMoves
    <3>3. QED
      BY <2>2, <2>3, <3>2
  <2>4. CASE i # n /\ ~m.forward
    <3>1. X[i] = m.children[i]
      BY <2>4
    <3>2. ChildOK(i, m.children[i]) /\ (ChildValid(i, m.children[i]) =>
            ChildKey(i, m.children[i]) \in Entries /\ ChildKey(i, m.children[i]) \in InternalKeys)
      BY <1>4, ChildKeyIs
    <3>3. /\ ChildValid(i, m.children[i]) => Before(ChildKey(i, m.children[i]), key) \/ ChildKey(i, m.children[i]) = key
          /\ \A e \in ChildEntries(i) : Visible(e) /\ Before(e, key) =>
               ChildValid(i, m.children[i]) /\ ~Before(ChildKey(i, m.children[i]), e)
      BY <2>4 DEF MergedOK, Ahead, Nearer
    <3>4. ChildValid(i, m.children[i]) => ~Before(key, ChildKey(i, m.children[i]))
      BY <1>2, <3>2, <3>3, KeyOrder
    <3>5. QED
      BY <2>4, <3>1, <3>2, <3>3, <3>4
  <2>5. CASE i # n /\ m.forward
    <3> DEFINE s == ChildSeek(i, m.children[i], key)
               T == {e \in ChildEntries(i) : ~Before(e, key)}
    <3>1. X[i] = BeforeKey(i, s)
      BY <2>5
    <3>2. ChildOK(i, s) /\ IsFirst(ChildAt(i, s), T)
      BY <1>2, <1>4, ChildMoves
    <3> HIDE DEF s, X
    <3>3. \A e \in ChildEntries(i) : e \in InternalKeys
      BY EntryFacts
    <3>4. T \subseteq ChildEntries(i) /\ \A e \in ChildEntries(i) : e \in T <=> e \in T
      OBVIOUS
    <3>5. /\ ChildValid(i, s) => ChildKey(i, s) \in T
          /\ \A e \in ChildEntries(i) : e \in T => ChildValid(i, s) /\ ~Before(e, ChildKey(i, s))
      <4> HIDE DEF T
      <4>1. QED
        BY <3>2, <3>4, FirstStands
    <3>6. CASE ChildValid(i, s)
      <4>1. PICK k : k = ChildKey(i, s)
        OBVIOUS
      <4>2. k \in ChildEntries(i) /\ ~Before(k, key) /\ k \in InternalKeys
        BY <3>3, <3>5, <3>6, <4>1
      <4>3. ASSUME NEW e \in ChildEntries(i) PROVE Before(e, k) <=> Before(e, key)
        <5>1. e \in InternalKeys
          BY <3>3
        <5>2. key = k \/ Before(key, k)
          BY <1>2, <4>2, KeyOrder
        <5>3. Before(e, key) => Before(e, k)
          BY <1>2, <4>2, <5>1, <5>2, KeyOrderTransitive
        <5>4. ~Before(e, key) => ~Before(e, k)
          BY <3>5, <4>1
        <5>5. QED
          BY <5>3, <5>4
      <4>4. {e \in ChildEntries(i) : Before(e, k)} = S
        BY <4>3
      <4>5. X[i] = ChildPrev(i, s)
        BY <3>1, <3>6 DEF BeforeKey
      <4>6. ChildOK(i, X[i]) /\ IsLast(ChildAt(i, X[i]), {e \in ChildEntries(i) : Before(e, k)})
        BY <3>2, <3>6, <4>1, <4>5, ChildMoves
      <4>7. QED
        BY <2>2, <2>5, <4>4, <4>6
    <3>7. CASE ~ChildValid(i, s)
      <4>1. \A e \in ChildEntries(i) : Before(e, key)
        BY <3>5, <3>7
      <4>2. ChildEntries(i) = S
        BY <4>1
      <4>3. X[i] = ChildLast(i, s)
        BY <3>1, <3>7 DEF BeforeKey
      <4>4. ChildOK(i, X[i]) /\ IsLast(ChildAt(i, X[i]), ChildEntries(i))
        BY <3>2, <4>3, ChildMoves
      <4>5. QED
        BY <2>2, <2>5, <4>2, <4>4
    <3>8. QED
      BY <3>6, <3>7
  <2>6. QED
    BY <2>3, <2>4, <2>5
<1>6. X = [i \in 1 .. Width |-> X[i]]
  OBVIOUS
<1> HIDE DEF X
<1>7. MergedShape(x) /\ x.children = X /\ x.forward = FALSE
  BY <1>5, <1>6 DEF MergedShape
<1> HIDE DEF x
<1>8. ASSUME NEW e \in Q, NEW f \in Entries, Before(f, e) PROVE f \in R
  <2>1. e \in InternalKeys /\ f \in InternalKeys /\ (e = key \/ Before(e, key))
    BY <1>2, EntryFacts, KeyOrder
  <2>2. QED
    BY <1>2, <1>8, <2>1, KeyOrderTransitive
<1>9. /\ Q \in SUBSET Entries /\ R \in SUBSET Entries /\ R \subseteq Q
      /\ \A e \in Entries : e \in R <=> Before(e, key)
  BY <1>2, EntryFacts, KeyOrder
<1> HIDE DEF Q, R
<1>10. \A i \in 1 .. Width : ChildValid(i, X[i]) => ChildKey(i, X[i]) \in Q
  BY <1>5, <1>9
<1>11. /\ MergedOK(y) /\ y.forward = FALSE
       /\ MergedValid(y) => /\ MergedKey(y) \in Q
                            /\ y.current \in 1 .. Width /\ ChildValid(y.current, X[y.current])
                            /\ MergedKey(y) = ChildKey(y.current, X[y.current])
       /\ \A e \in R : Visible(e) => MergedValid(y) /\ ~Before(MergedKey(y), e)
  BY <1>3, <1>5, <1>7, <1>8, <1>9, <1>10, LargestIs
<1>12. ASSUME MergedValid(y) PROVE FurtherBack(m, y) /\ (m.forward => Before(MergedKey(y), key))
  <2>1. PICK i \in 1 .. Width : i = y.current /\ ChildValid(i, X[i]) /\ MergedKey(y) = ChildKey(i, X[i])
    BY <1>11, <1>12
  <2>2. CASE i # n /\ ~m.forward
    <3>1. X[i] = m.children[i]
      BY <2>2 DEF X
    <3>2. Ahead(m, MergedKey(y)) \/ (MergedKey(y) = key /\ i > n)
      BY <1>1, <2>1, <2>2, <3>1 DEF MergedOK
    <3>3. QED
      BY <2>1, <2>2, <3>2 DEF Ahead, FurtherBack
  <2>3. CASE ~(i # n /\ ~m.forward)
    <3>1. MergedKey(y) \in R
      BY <1>5, <2>1, <2>3
    <3>2. Before(MergedKey(y), key)
      BY <1>9, <3>1
    <3>3. QED
      BY <3>2 DEF FurtherBack
  <2>4. QED
    BY <2>2, <2>3
<1>13. QED
  BY <1>9, <1>11, <1>12

-----------------------------------------------------------------------------
(* DBIter forward.                                                         *)

(* A loop that moves the merging iterator one way ends: fewer and fewer    *)
(* places of entries, in the order of keys and then of children, lie       *)
(* before it.                                                              *)
LEMMA ForwardEnds ==
  ASSUME DataOK, NEW n \in Nat, n = Cardinality(Places) + 1, NEW m, NEW Stopped,
         \A i \in 0 .. n : MergedOK(m[i]),
         \A i \in 1 .. n : i - 1 \in Stopped => i \in Stopped,
         \A i \in 1 .. n : i - 1 \notin Stopped =>
           i \in Stopped \/ (MergedValid(m[i - 1]) /\ (MergedValid(m[i]) => Further(m[i - 1], m[i])))
  PROVE  n \in Stopped
<1> DEFINE K(i) == MergedKey(m[i])
           C(i) == m[i].current
           M == [i \in 0 .. n |-> {p \in Places : MergedValid(m[i]) /\ ~Before(p[2], K(i)) /\ (p[2] = K(i) => p[1] >= C(i))}]
<1>1. /\ IsFiniteSet(Places) /\ Cardinality(Places) < n
      /\ \A p \in Places : p[1] \in Nat /\ p[2] \in InternalKeys
  BY PlaceFacts
<1>2. ASSUME NEW i \in 0 .. n, MergedValid(m[i]) PROVE <<C(i), K(i)>> \in Places /\ K(i) \in InternalKeys /\ C(i) \in Nat
  <2>1. MergedShape(m[i]) /\ m[i].current \in {0} \cup ValidChildren(m[i])
    BY DEF MergedOK
  <2>2. C(i) \in 1 .. Width /\ K(i) \in ChildEntries(C(i)) /\ K(i) \in InternalKeys
    BY <1>2, <2>1, MergedKeyIs
  <2>3. Width \in Nat
    BY EntryFacts
  <2> HIDE DEF C, K
  <2>4. QED
    BY <2>2, <2>3, PlaceFacts
<1>3. \A i \in 0 .. n : M[i] \subseteq Places
  OBVIOUS
<1>4. ASSUME NEW i \in 1 .. n, i - 1 \notin Stopped
      PROVE  i \in Stopped \/ (M[i] \subseteq M[i - 1] /\ M[i] # M[i - 1])
  <2>1. SUFFICES ASSUME i \notin Stopped PROVE M[i] \subseteq M[i - 1] /\ M[i] # M[i - 1]
    OBVIOUS
  <2>2. MergedValid(m[i - 1]) /\ (MergedValid(m[i]) => Before(K(i - 1), K(i)) \/ (K(i) = K(i - 1) /\ C(i) > C(i - 1)))
    BY <1>4, <2>1 DEF Further
  <2>3. i \in 0 .. n /\ i - 1 \in 0 .. n
    OBVIOUS
  <2>4. /\ <<C(i - 1), K(i - 1)>> \in Places /\ K(i - 1) \in InternalKeys /\ C(i - 1) \in Nat
        /\ MergedValid(m[i]) => K(i) \in InternalKeys /\ C(i) \in Nat
    BY <1>2, <2>2, <2>3
  <2> HIDE DEF K, C
  <2>5. /\ M[i] = {p \in Places : MergedValid(m[i]) /\ ~Before(p[2], K(i)) /\ (p[2] = K(i) => p[1] >= C(i))}
        /\ M[i - 1] = {p \in Places : MergedValid(m[i - 1]) /\ ~Before(p[2], K(i - 1)) /\ (p[2] = K(i - 1) => p[1] >= C(i - 1))}
    BY <2>3
  <2> HIDE DEF M
  <2>6. <<C(i - 1), K(i - 1)>> \in M[i - 1] /\ <<C(i - 1), K(i - 1)>> \notin M[i]
    <3>1. PICK q \in Places : q[1] = C(i - 1) /\ q[2] = K(i - 1) /\ q = <<C(i - 1), K(i - 1)>>
      BY <2>4
    <3>2. q \in M[i - 1]
      BY <2>2, <2>4, <2>5, <3>1, KeyOrder
    <3>3. q \notin M[i]
      BY <2>2, <2>4, <2>5, <3>1, KeyOrder
    <3>4. QED
      BY <3>1, <3>2, <3>3
  <2>7. ASSUME NEW p \in M[i] PROVE p \in M[i - 1]
    <3>1. /\ p \in Places /\ p[2] \in InternalKeys /\ p[1] \in Nat /\ MergedValid(m[i])
          /\ ~Before(p[2], K(i)) /\ (p[2] = K(i) => p[1] >= C(i))
      BY <1>1, <2>5, <2>7
    <3>2. CASE Before(K(i - 1), K(i))
      <4>1. ~Before(p[2], K(i - 1)) /\ p[2] # K(i - 1)
        BY <2>4, <3>1, <3>2, KeyOrder, KeyOrderTransitive
      <4>2. QED
        BY <2>2, <2>5, <3>1, <4>1
    <3>3. CASE K(i) = K(i - 1) /\ C(i) > C(i - 1)
      BY <2>2, <2>4, <2>5, <3>1, <3>3
    <3>4. QED
      BY <2>2, <3>1, <3>2, <3>3
  <2>8. QED
    BY <2>6, <2>7
<1> HIDE DEF M
<1>5. QED
  BY <1>1, <1>3, <1>4, LoopEnds

(* The same for a loop that moves it back.                                 *)
LEMMA BackwardEnds ==
  ASSUME DataOK, NEW n \in Nat, n = Cardinality(Places) + 1, NEW m, NEW Stopped,
         \A i \in 0 .. n : MergedOK(m[i]),
         \A i \in 1 .. n : i - 1 \in Stopped => i \in Stopped,
         \A i \in 1 .. n : i - 1 \notin Stopped =>
           i \in Stopped \/ (MergedValid(m[i - 1]) /\ (MergedValid(m[i]) => FurtherBack(m[i - 1], m[i])))
  PROVE  n \in Stopped
<1> DEFINE K(i) == MergedKey(m[i])
           C(i) == m[i].current
           M == [i \in 0 .. n |-> {p \in Places : MergedValid(m[i]) /\ ~Before(K(i), p[2]) /\ (p[2] = K(i) => p[1] >= C(i))}]
<1>1. /\ IsFiniteSet(Places) /\ Cardinality(Places) < n
      /\ \A p \in Places : p[1] \in Nat /\ p[2] \in InternalKeys
  BY PlaceFacts
<1>2. ASSUME NEW i \in 0 .. n, MergedValid(m[i]) PROVE <<C(i), K(i)>> \in Places /\ K(i) \in InternalKeys /\ C(i) \in Nat
  <2>1. MergedShape(m[i]) /\ m[i].current \in {0} \cup ValidChildren(m[i])
    BY DEF MergedOK
  <2>2. C(i) \in 1 .. Width /\ K(i) \in ChildEntries(C(i)) /\ K(i) \in InternalKeys
    BY <1>2, <2>1, MergedKeyIs
  <2>3. Width \in Nat
    BY EntryFacts
  <2> HIDE DEF C, K
  <2>4. QED
    BY <2>2, <2>3, PlaceFacts
<1>3. \A i \in 0 .. n : M[i] \subseteq Places
  OBVIOUS
<1>4. ASSUME NEW i \in 1 .. n, i - 1 \notin Stopped
      PROVE  i \in Stopped \/ (M[i] \subseteq M[i - 1] /\ M[i] # M[i - 1])
  <2>1. SUFFICES ASSUME i \notin Stopped PROVE M[i] \subseteq M[i - 1] /\ M[i] # M[i - 1]
    OBVIOUS
  <2>2. MergedValid(m[i - 1]) /\ (MergedValid(m[i]) => Before(K(i), K(i - 1)) \/ (K(i) = K(i - 1) /\ C(i) > C(i - 1)))
    BY <1>4, <2>1 DEF FurtherBack
  <2>3. i \in 0 .. n /\ i - 1 \in 0 .. n
    OBVIOUS
  <2>4. /\ <<C(i - 1), K(i - 1)>> \in Places /\ K(i - 1) \in InternalKeys /\ C(i - 1) \in Nat
        /\ MergedValid(m[i]) => K(i) \in InternalKeys /\ C(i) \in Nat
    BY <1>2, <2>2, <2>3
  <2> HIDE DEF K, C
  <2>5. /\ M[i] = {p \in Places : MergedValid(m[i]) /\ ~Before(K(i), p[2]) /\ (p[2] = K(i) => p[1] >= C(i))}
        /\ M[i - 1] = {p \in Places : MergedValid(m[i - 1]) /\ ~Before(K(i - 1), p[2]) /\ (p[2] = K(i - 1) => p[1] >= C(i - 1))}
    BY <2>3
  <2> HIDE DEF M
  <2>6. <<C(i - 1), K(i - 1)>> \in M[i - 1] /\ <<C(i - 1), K(i - 1)>> \notin M[i]
    <3>1. PICK q \in Places : q[1] = C(i - 1) /\ q[2] = K(i - 1) /\ q = <<C(i - 1), K(i - 1)>>
      BY <2>4
    <3>2. q \in M[i - 1]
      BY <2>2, <2>4, <2>5, <3>1, KeyOrder
    <3>3. q \notin M[i]
      BY <2>2, <2>4, <2>5, <3>1, KeyOrder
    <3>4. QED
      BY <3>1, <3>2, <3>3
  <2>7. ASSUME NEW p \in M[i] PROVE p \in M[i - 1]
    <3>1. /\ p \in Places /\ p[2] \in InternalKeys /\ p[1] \in Nat /\ MergedValid(m[i])
          /\ ~Before(K(i), p[2]) /\ (p[2] = K(i) => p[1] >= C(i))
      BY <1>1, <2>5, <2>7
    <3>2. CASE Before(K(i), K(i - 1))
      <4>1. ~Before(K(i - 1), p[2]) /\ p[2] # K(i - 1)
        BY <2>4, <3>1, <3>2, KeyOrder, KeyOrderTransitive
      <4>2. QED
        BY <2>2, <2>5, <3>1, <4>1
    <3>3. CASE K(i) = K(i - 1) /\ C(i) > C(i - 1)
      BY <2>2, <2>4, <2>5, <3>1, <3>3
    <3>4. QED
      BY <2>2, <3>1, <3>2, <3>3
  <2>8. QED
    BY <2>6, <2>7
<1> HIDE DEF M
<1>5. QED
  BY <1>1, <1>3, <1>4, LoopEnds

(* The least and the greatest of a set are what they are taken for.        *)
LEMMA LeastIs ==
  ASSUME NEW S, S \subseteq Nat, NEW k \in S
  PROVE  ((\A l \in S : k <= l) => Least(S) = k) /\ ((\A l \in S : k >= l) => Greatest(S) = k)
<1>1. S # {}
  OBVIOUS
<1>2. ASSUME \A l \in S : k <= l PROVE Least(S) = k
  <2> DEFINE c == CHOOSE x \in S : \A l \in S : x <= l
  <2>1. c \in S /\ \A l \in S : c <= l
    BY <1>2
  <2>2. Least(S) = c
    BY <1>1 DEF Least
  <2> HIDE DEF c
  <2>3. QED
    BY <1>2, <2>1, <2>2
<1>3. ASSUME \A l \in S : k >= l PROVE Greatest(S) = k
  <2> DEFINE c == CHOOSE x \in S : \A l \in S : x >= l
  <2>1. c \in S /\ \A l \in S : c >= l
    BY <1>3
  <2>2. Greatest(S) = c
    BY <1>1 DEF Greatest
  <2> HIDE DEF c
  <2>3. QED
    BY <1>3, <2>1, <2>2
<1>4. QED
  BY <1>2, <1>3

(* The keys of the snapshot are those of the entries it shows.             *)
LEMMA VisibleKeyIs ==
  ASSUME DataOK
  PROVE  /\ \A k \in VisibleKeys : \E x \in Entries : x.user = k /\ OnNewest(x) /\ Visible(x)
         /\ \A x \in Entries : OnNewest(x) => x.user \in VisibleKeys
         /\ \A x \in Entries : OnNewest(x) => Visible(x)
         /\ VisibleKeys \subseteq Nat /\ \A k \in VisibleKeys : k # None
<1>1. \A e \in Entries : e.user \in UserKeys /\ e.user \in Nat
  BY EntryFacts
<1>2. ASSUME NEW k \in VisibleKeys PROVE \E x \in Entries : x.user = k /\ OnNewest(x) /\ Visible(x)
  <2>1. PICK x \in Newest(k) : x.type = kTypeValue
    BY DEF VisibleKeys
  <2>2. x \in Entries /\ x.user = k /\ Visible(x)
    BY DEF Newest, Visible
  <2>3. QED
    BY <2>1, <2>2 DEF OnNewest
<1>3. ASSUME NEW x \in Entries, OnNewest(x) PROVE x.user \in VisibleKeys /\ Visible(x)
  BY <1>1, <1>3 DEF OnNewest, VisibleKeys, Newest, Visible
<1>4. VisibleKeys \subseteq Nat /\ \A k \in VisibleKeys : k # None
  <2>1. VisibleKeys \subseteq UserKeys
    BY DEF VisibleKeys
  <2>2. UserKeys \subseteq Nat /\ \A k \in UserKeys : k # 0
    BY IteratorAssumption
  <2>3. QED
    BY <2>1, <2>2 DEF None
<1>5. QED
  BY <1>2, <1>3, <1>4

(* The fields of a DBIter.                                                 *)
DBShape(d) ==
  d = [merged |-> d.merged, forward |-> d.forward, valid |-> d.valid,
       saved_key |-> d.saved_key, saved_value |-> d.saved_value]

(* FindNextUserEntry on its way to the first key from low on: whatever it  *)
(* has passed belongs to deleted keys.                                     *)
OnTheWay(f, d, low) ==
  LET m == f.d.merged
  IN /\ f = [d |-> f.d, skipping |-> f.skipping, skip |-> f.skip] /\ f.skipping \in BOOLEAN /\ f.skip \in Nat
     /\ f.d = [merged |-> m, forward |-> d.forward, valid |-> d.valid, saved_key |-> d.saved_key, saved_value |-> d.saved_value]
     /\ MergedOK(m) /\ m.forward = TRUE
     /\ \A e \in Entries : Visible(e) /\ e.user >= low =>
          \/ MergedValid(m) /\ ~Before(e, MergedKey(m))
          \/ e.user \notin VisibleKeys /\ f.skipping /\ e.user <= f.skip
     /\ f.skipping /\ MergedValid(m) => MergedKey(m).user >= f.skip
     /\ f.skipping /\ f.skip >= low => f.skip \notin VisibleKeys
     /\ (f.skipping /\ low <= f.skip + 1) \/ (MergedValid(m) => MergedKey(m).user >= low)

(* What FindNextUserEntry makes of the DBIter its loop ends with.          *)
Landed(d) == IF MergedValid(d.merged) THEN [d EXCEPT !.valid = TRUE, !.saved_key = None] ELSE Invalid(d)

(* The turns of FindNextUserEntry.                                         *)
LEMMA FindNextRun ==
  ASSUME NEW d, NEW skipping, NEW skip, NEW n \in Nat, n = Cardinality(Places) + 1
  PROVE  \E r : /\ FindNextUserEntry(d, skipping, skip) = Landed(r[n].d)
                /\ r[0] = [d |-> d, skipping |-> skipping, skip |-> skip]
                /\ \A i \in 1 .. n : r[i] = FindTurn(r[i - 1])
<1> DEFINE x == [d |-> d, skipping |-> skipping, skip |-> skip]
           Turn(y) == FindTurn(y)
           Runs(r, m) == r = [i \in 0 .. m |-> IF i = 0 THEN x ELSE Turn(r[i - 1])]
           T == {m \in Nat : \E r : Runs(r, m)}
<1>0. FindNextUserEntry(d, skipping, skip) = Landed(Loop(n, x, Turn).d)
  BY DEF FindNextUserEntry, Landed, Loop
<1> HIDE DEF Turn, x
<1>1. 0 \in T
  <2>1. Runs([i \in 0 .. 0 |-> x], 0)
    OBVIOUS
  <2>2. QED
    BY <2>1
<1>2. ASSUME NEW m \in 1 .. n, m - 1 \in T PROVE m \in T
  <2>1. PICK r : Runs(r, m - 1)
    BY <1>2
  <2>2. Runs([i \in 0 .. m |-> IF i = 0 THEN x ELSE Turn(r[i - 1])], m)
    BY <2>1
  <2> HIDE DEF Runs
  <2>3. QED
    BY <2>2
<1>3. n \in T
  <2> HIDE DEF T
  <2>1. \A i \in 1 .. n : i - 1 \in T => i \in T
    BY <1>2
  <2>2. \A i \in 0 .. n : i \in T
    BY <1>1, <2>1, UpTo
  <2>3. QED
    BY <2>2
<1> DEFINE r == CHOOSE r : Runs(r, n)
<1>4. Runs(r, n)
  BY <1>3
<1>5. Loop(n, x, Turn) = r[n]
  BY DEF Loop
<1> HIDE DEF r
<1>6. r[0] = x /\ \A i \in 1 .. n : r[i] = Turn(r[i - 1])
  BY <1>4
<1>7. QED
  BY <1>0, <1>5, <1>6 DEF Turn, x

(* A visible deletion no visible entry of its key is newer than ends the   *)
(* key, and a value like that is what the key has.                         *)
LEMMA NewestDecides ==
  ASSUME DataOK, NEW e \in Entries, Visible(e),
         \A f \in Entries : Visible(f) /\ f.user = e.user => ~Before(f, e)
  PROVE  /\ e \in Newest(e.user)
         /\ e.type = kTypeValue => OnNewest(e)
         /\ e.type = kTypeDeletion => e.user \notin VisibleKeys
<1>1. \A f \in Entries : f.user \in Nat /\ f.seq \in Nat /\ f.type \in {kTypeDeletion, kTypeValue}
  BY EntryFacts
<1>2. \A f \in Entries : f.user = e.user /\ f.seq <= sequence => f.seq <= e.seq
  BY <1>1 DEF Visible, Before
<1>3. e \in Newest(e.user)
  BY <1>2 DEF Newest, Visible
<1>4. ASSUME e.type = kTypeDeletion, e.user \in VisibleKeys PROVE FALSE
  <2>1. PICK x \in Newest(e.user) : x.type = kTypeValue
    BY <1>4 DEF VisibleKeys
  <2>2. x \in Entries /\ x.user = e.user /\ x.seq <= sequence /\ e.seq <= x.seq
    BY DEF Newest, Visible
  <2>3. x.seq <= e.seq
    BY <1>2, <2>2
  <2>4. x.seq = e.seq
    BY <1>1, <2>2, <2>3
  <2>5. Before(x, e) /\ Visible(x)
    BY <1>1, <1>4, <2>1, <2>2, <2>4 DEF Before, Visible, kTypeValue, kTypeDeletion
  <2>6. QED
    BY <2>2, <2>5
<1>5. QED
  BY <1>3, <1>4 DEF OnNewest

(* A turn of FindNextUserEntry.                                            *)
LEMMA FindNextStep ==
  ASSUME DataOK, NEW d, NEW low \in Nat, NEW f, OnTheWay(f, d, low),
         MergedValid(f.d.merged), ~Shown(f), NEW g, g = Passed(f)
  PROVE  OnTheWay(g, d, low) /\ (MergedValid(g.d.merged) => Further(f.d.merged, g.d.merged))
<1> DEFINE m == f.d.merged
           e0 == MergedKey(m)
           deleted == e0.seq <= sequence /\ e0.type = kTypeDeletion
<1>1. MergedOK(m) /\ m.forward = TRUE /\ f.skipping \in BOOLEAN /\ f.skip \in Nat
  BY DEF OnTheWay
<1>2. PICK e : e = e0
  OBVIOUS
<1>3. e \in Entries /\ e \in InternalKeys
  BY <1>1, <1>2, MergedKeyIs DEF MergedOK
<1>4. PICK n : n = MergedNext(m)
  OBVIOUS
<1>5. /\ MergedOK(n) /\ n.forward = TRUE /\ (MergedValid(n) => MergedKey(n) \in Entries /\ Further(m, n))
      /\ \A x \in Entries : Visible(x) /\ Before(e, x) => MergedValid(n) /\ ~Before(x, MergedKey(n))
  <2> HIDE DEF m
  <2>1. MergedOK(m) /\ MergedValid(m) /\ e = MergedKey(m) /\ n = MergedNext(m)
    BY <1>1, <1>2, <1>4 DEF m
  <2>2. QED
    BY <2>1, MergedNextIs
<1>6. \A x \in Entries : /\ x \in InternalKeys /\ x.user \in Nat /\ x.seq \in Nat
                         /\ x.type \in {kTypeDeletion, kTypeValue}
  BY EntryFacts
<1>7. /\ g = [d |-> [f.d EXCEPT !.merged = n], skipping |-> f.skipping \/ deleted,
              skip |-> IF deleted THEN e.user ELSE f.skip]
  BY <1>2, <1>4 DEF Passed
<1>8. f.d = [merged |-> m, forward |-> d.forward, valid |-> d.valid, saved_key |-> d.saved_key,
             saved_value |-> d.saved_value]
  BY DEF OnTheWay
<1>9. /\ \A x \in Entries : Visible(x) /\ x.user >= low =>
           \/ ~Before(x, e)
           \/ x.user \notin VisibleKeys /\ f.skipping /\ x.user <= f.skip
      /\ f.skipping => e.user >= f.skip
      /\ f.skipping /\ f.skip >= low => f.skip \notin VisibleKeys
      /\ (f.skipping /\ low <= f.skip + 1) \/ e.user >= low
  BY <1>2 DEF OnTheWay
<1>10. deleted <=> Visible(e) /\ e.type = kTypeDeletion
  BY <1>2 DEF Visible
<1>11. Visible(e) /\ ~deleted => f.skipping /\ e.user <= f.skip
  BY <1>2, <1>3, <1>6, <1>10 DEF Shown, Visible
<1>12. /\ g.d.merged = n /\ (f.skipping \/ deleted => g.skipping)
       /\ (deleted => g.skip = e.user) /\ (~deleted => g.skip = f.skip /\ (g.skipping <=> f.skipping))
  <2> HIDE DEF deleted, m
  <2>1. g.d.merged = n /\ g.skipping = (f.skipping \/ deleted) /\ g.skip = IF deleted THEN e.user ELSE f.skip
    BY <1>7, <1>8
  <2>2. QED
    BY <2>1
<1>13. /\ g = [d |-> g.d, skipping |-> g.skipping, skip |-> g.skip] /\ g.skipping \in BOOLEAN /\ g.skip \in Nat
       /\ g.d = [merged |-> n, forward |-> d.forward, valid |-> d.valid, saved_key |-> d.saved_key,
                 saved_value |-> d.saved_value]
  BY <1>1, <1>3, <1>6, <1>7, <1>8
<1>14. ASSUME deleted, e.user >= low PROVE e.user \notin VisibleKeys
  <2>1. CASE \A x \in Entries : Visible(x) /\ x.user = e.user => ~Before(x, e)
    BY <1>3, <1>10, <1>14, <2>1, NewestDecides
  <2>2. CASE \E x \in Entries : Visible(x) /\ x.user = e.user /\ Before(x, e)
    BY <1>9, <1>14, <2>2
  <2>3. QED
    BY <2>1, <2>2
<1>15. MergedValid(n) => MergedKey(n).user \in Nat /\ MergedKey(n).user >= e.user
  <2>1. MergedValid(n) => Before(e, MergedKey(n)) \/ MergedKey(n) = e
    BY <1>2, <1>5 DEF Further
  <2>2. QED
    BY <1>3, <1>5, <1>6, <2>1 DEF Before
<1> HIDE DEF deleted, e0, m
<1>16. ASSUME NEW x \in Entries, Visible(x), x.user >= low
       PROVE  \/ MergedValid(n) /\ ~Before(x, MergedKey(n))
              \/ x.user \notin VisibleKeys /\ g.skipping /\ x.user <= g.skip
  <2>1. CASE Before(e, x)
    BY <1>5, <1>16, <2>1
  <2>2. CASE x = e
    <3>1. CASE deleted
      <4>1. e.user \notin VisibleKeys
        BY <1>14, <1>16, <2>2, <3>1
      <4>2. g.skipping /\ g.skip = e.user /\ e.user \in Nat
        BY <1>3, <1>6, <1>12, <3>1
      <4>3. QED
        BY <2>2, <4>1, <4>2
    <3>2. CASE ~deleted
      <4>1. f.skipping /\ e.user = f.skip
        BY <1>1, <1>3, <1>6, <1>9, <1>11, <1>16, <2>2, <3>2
      <4>2. QED
        BY <1>1, <1>9, <1>12, <1>16, <2>2, <3>2, <4>1
    <3>3. QED
      BY <3>1, <3>2
  <2>3. CASE Before(x, e)
    <3>1. x.user \notin VisibleKeys /\ f.skipping /\ x.user <= f.skip
      BY <1>9, <1>16, <2>3
    <3>2. x.user <= e.user
      BY <1>3, <1>6, <2>3 DEF Before
    <3>3. QED
      BY <1>12, <3>1, <3>2
  <2>4. QED
    BY <1>3, <1>6, <2>1, <2>2, <2>3, KeyOrder
<1>17. /\ g.skipping /\ MergedValid(n) => MergedKey(n).user >= g.skip
       /\ g.skipping /\ g.skip >= low => g.skip \notin VisibleKeys
  <2>1. CASE deleted
    BY <1>12, <1>14, <1>15, <2>1
  <2>2. CASE ~deleted
    BY <1>1, <1>3, <1>6, <1>9, <1>12, <1>15, <2>2
  <2>3. QED
    BY <2>1, <2>2
<1>18. (g.skipping /\ low <= g.skip + 1) \/ (MergedValid(n) => MergedKey(n).user >= low)
  <2>1. CASE f.skipping /\ low <= f.skip + 1
    <3>1. e.user \in Nat /\ f.skip \in Nat /\ e.user >= f.skip
      BY <1>1, <1>3, <1>6, <1>9, <2>1
    <3>2. g.skipping /\ (g.skip = e.user \/ g.skip = f.skip)
      BY <1>12, <2>1
    <3>3. QED
      BY <2>1, <3>1, <3>2
  <2>2. CASE e.user >= low
    BY <1>3, <1>6, <1>15, <2>2
  <2>3. QED
    BY <1>9, <2>1, <2>2
<1>19. OnTheWay(g, d, low)
  BY <1>5, <1>12, <1>13, <1>16, <1>17, <1>18 DEF OnTheWay
<1>20. QED
  BY <1>5, <1>12, <1>19 DEF m

(* The two ways a DBIter ends a move.                                      *)
LEMMA Stands ==
  ASSUME NEW d, DBShape(d), NEW v, NEW x
  PROVE  [d EXCEPT !.valid = v, !.saved_key = x] =
              [merged |-> d.merged, forward |-> d.forward, valid |-> v, saved_key |-> x, saved_value |-> d.saved_value]
<1>1. d = [merged |-> d.merged, forward |-> d.forward, valid |-> d.valid,
           saved_key |-> d.saved_key, saved_value |-> d.saved_value]
  BY DEF DBShape
<1> DEFINE a == [merged |-> d.merged, forward |-> d.forward, valid |-> v,
                 saved_key |-> d.saved_key, saved_value |-> d.saved_value]
<1>2. [d EXCEPT !.valid = v] = a
  BY <1>1
<1>3. [a EXCEPT !.saved_key = x] =
        [merged |-> d.merged, forward |-> d.forward, valid |-> v, saved_key |-> x, saved_value |-> d.saved_value]
  OBVIOUS
<1>4. [d EXCEPT !.valid = v, !.saved_key = x] = [[d EXCEPT !.valid = v] EXCEPT !.saved_key = x]
  OBVIOUS
<1>5. QED
  BY <1>2, <1>3, <1>4

(* A move that ends valid at k, or not valid if k is None.                 *)
Lands(y, k) == IterOK(y) /\ Key(y) = k /\ (y.valid => \E e \in Newest(Key(y)) : Value(y) = e.seq)

(* Where FindNextUserEntry ends.                                           *)
LEMMA NextEnds ==
  ASSUME DataOK, NEW d, d.forward = TRUE, NEW low \in Nat, NEW f, OnTheWay(f, d, low),
         ~MergedValid(f.d.merged) \/ Shown(f), NEW y, y = Landed(f.d)
  PROVE  Lands(y, Least({k \in VisibleKeys : k >= low}))
<1> DEFINE S == {k \in VisibleKeys : k >= low}
<1>1. PICK m : m = f.d.merged
  OBVIOUS
<1>2. /\ MergedOK(m) /\ m.forward = TRUE
      /\ f.d = [merged |-> m, forward |-> TRUE, valid |-> d.valid, saved_key |-> d.saved_key, saved_value |-> d.saved_value]
  BY <1>1 DEF OnTheWay
<1>3. DBShape(f.d) /\ f.d.merged = m
  BY <1>2 DEF DBShape
<1>4. y = [merged |-> m, forward |-> TRUE, valid |-> MergedValid(m), saved_key |-> None,
           saved_value |-> d.saved_value]
  <2>1. PICK g : g = f.d
    OBVIOUS
  <2>2. /\ g = [merged |-> m, forward |-> TRUE, valid |-> d.valid, saved_key |-> d.saved_key,
                saved_value |-> d.saved_value]
        /\ g.forward = TRUE /\ g.saved_value = d.saved_value /\ g.merged = m /\ DBShape(g)
    BY <1>2, <1>3, <2>1
  <2>3. CASE MergedValid(m)
    <3>1. y = [g EXCEPT !.valid = TRUE, !.saved_key = None]
      BY <1>1, <2>1, <2>3 DEF Landed
    <3>2. MergedValid(m) = TRUE
      BY <2>3 DEF MergedValid
    <3>3. QED
      BY <2>2, <3>1, <3>2, Stands
  <2>4. CASE ~MergedValid(m)
    <3>1. y = [g EXCEPT !.valid = FALSE, !.saved_key = None]
      BY <1>1, <2>1, <2>4 DEF Landed, Invalid
    <3>2. MergedValid(m) = FALSE
      BY <2>4 DEF MergedValid
    <3>3. QED
      BY <2>2, <3>1, <3>2, Stands
  <2>5. QED
    BY <2>3, <2>4
<1>5. y.merged = m /\ y.forward = TRUE /\ y.valid = MergedValid(m) /\ y.valid \in BOOLEAN
  BY <1>4 DEF MergedValid
<1>6. \A e \in Entries : Visible(e) /\ e.user >= low =>
        \/ MergedValid(m) /\ ~Before(e, MergedKey(m))
        \/ e.user \notin VisibleKeys /\ f.skipping /\ e.user <= f.skip
  BY <1>1 DEF OnTheWay
<1>7. \A x \in Entries : x.user \in Nat /\ x.seq \in Nat /\ x.type \in {kTypeDeletion, kTypeValue}
  BY EntryFacts
<1>8. S \subseteq Nat
  BY VisibleKeyIs
<1>9. \A k \in S : \E x \in Entries : x.user = k /\ Visible(x)
  BY VisibleKeyIs
<1>10. CASE ~MergedValid(m)
  <2>1. ASSUME NEW k \in S PROVE FALSE
    <3>1. PICK x \in Entries : x.user = k /\ Visible(x)
      BY <1>9
    <3>2. QED
      BY <1>6, <1>10, <3>1
  <2>2. Least(S) = None
    BY <2>1 DEF Least
  <2>3. ~y.valid /\ Key(y) = None
    BY <1>5, <1>10 DEF Key
  <2>4. IterOK(y)
    BY <1>2, <1>4, <1>5, <2>3 DEF IterOK
  <2>5. QED
    BY <2>2, <2>3, <2>4 DEF Lands
<1>11. CASE MergedValid(m)
  <2>1. PICK e : e = MergedKey(m)
    OBVIOUS
  <2>2. e \in Entries /\ e.user \in Nat
    BY <1>2, <1>7, <1>11, <2>1, MergedKeyIs DEF MergedOK
  <2>3. Visible(e) /\ e.type = kTypeValue /\ ~(f.skipping /\ e.user <= f.skip)
    BY <1>1, <1>11, <2>1 DEF Shown, Visible
  <2>4. e.user >= low
    <3>1. (f.skipping /\ low <= f.skip + 1) \/ e.user >= low
      BY <1>1, <1>11, <2>1 DEF OnTheWay
    <3>2. f.skip \in Nat
      BY DEF OnTheWay
    <3>3. QED
      BY <2>2, <2>3, <3>1, <3>2
  <2>5. ASSUME NEW x \in Entries, Visible(x), x.user = e.user PROVE ~Before(x, e)
    BY <1>6, <2>1, <2>3, <2>4, <2>5
  <2>6. OnNewest(e) /\ e \in Newest(e.user)
    BY <2>2, <2>3, <2>5, NewestDecides
  <2>7. e.user \in S
    BY <2>2, <2>4, <2>6, VisibleKeyIs
  <2>8. ASSUME NEW k \in S PROVE e.user <= k
    <3>1. PICK x \in Entries : x.user = k /\ Visible(x)
      BY <1>9
    <3>2. ~Before(x, e)
      BY <1>6, <2>1, <2>8, <3>1
    <3>3. QED
      BY <1>7, <2>2, <3>1, <3>2 DEF Before
  <2>9. Least(S) = e.user
    BY <1>8, <2>7, <2>8, LeastIs
  <2>10. y.valid /\ Key(y) = e.user /\ Value(y) = e.seq
    BY <1>5, <1>11, <2>1 DEF Key, Value
  <2>11. IterOK(y)
    BY <1>2, <1>4, <1>5, <1>11, <2>1, <2>6 DEF IterOK
  <2> HIDE DEF S
  <2>12. QED
    BY <2>6, <2>9, <2>10, <2>11 DEF S, Lands
<1>12. QED
  BY <1>10, <1>11

(* FindNextUserEntry finds the first key the snapshot has from low on: low *)
(* is the key after skip, when it skips.                                   *)
LEMMA FindNextIs ==
  ASSUME DataOK, NEW d, DBShape(d), d.forward = TRUE, MergedOK(d.merged), d.merged.forward = TRUE,
         NEW low \in Nat, NEW skip \in Nat, NEW skipping \in BOOLEAN,
         skipping => low = skip + 1 /\ (MergedValid(d.merged) => MergedKey(d.merged).user >= skip),
         ~skipping /\ MergedValid(d.merged) => MergedKey(d.merged).user >= low,
         \A e \in Entries : Visible(e) /\ e.user >= low => MergedValid(d.merged) /\ ~Before(e, MergedKey(d.merged)),
         NEW y, y = FindNextUserEntry(d, skipping, skip)
  PROVE  Lands(y, Least({k \in VisibleKeys : k >= low}))
<1>1. PICK n \in Nat : n = Cardinality(Places) + 1
  BY PlaceFacts
<1>2. PICK r : /\ y = Landed(r[n].d)
               /\ r[0] = [d |-> d, skipping |-> skipping, skip |-> skip]
               /\ \A i \in 1 .. n : r[i] = FindTurn(r[i - 1])
  <2>1. \E r : /\ FindNextUserEntry(d, skipping, skip) = Landed(r[n].d)
               /\ r[0] = [d |-> d, skipping |-> skipping, skip |-> skip]
               /\ \A i \in 1 .. n : r[i] = FindTurn(r[i - 1])
    BY <1>1, FindNextRun
  <2>2. QED
    BY <2>1
<1>3. OnTheWay(r[0], d, low)
  <2>1. PICK f : f = r[0]
    OBVIOUS
  <2>2. f = [d |-> d, skipping |-> skipping, skip |-> skip] /\ f.d = d /\ f.skipping = skipping /\ f.skip = skip
    BY <1>2, <2>1
  <2>3. d = [merged |-> d.merged, forward |-> d.forward, valid |-> d.valid,
             saved_key |-> d.saved_key, saved_value |-> d.saved_value]
    BY DEF DBShape
  <2>4. /\ (skipping /\ low <= skip + 1) \/ (MergedValid(d.merged) => MergedKey(d.merged).user >= low)
        /\ skipping /\ skip >= low => skip \notin VisibleKeys
    OBVIOUS
  <2>5. OnTheWay(f, d, low)
    BY <2>2, <2>3, <2>4 DEF OnTheWay
  <2>6. QED
    BY <2>1, <2>5
<1> DEFINE P == {i \in 0 .. n : OnTheWay(r[i], d, low)}
<1>4. \A i \in 0 .. n : i \in P
  <2>1. ASSUME NEW i \in 1 .. n, i - 1 \in P PROVE i \in P
    <3>1. PICK f : f = r[i - 1]
      OBVIOUS
    <3>2. OnTheWay(f, d, low) /\ r[i] = FindTurn(f)
      BY <1>2, <2>1, <3>1
    <3>3. OnTheWay(FindTurn(f), d, low)
      BY <3>2, FindNextStep DEF FindTurn
    <3>4. QED
      BY <3>2, <3>3
  <2>2. 0 \in P
    BY <1>3
  <2> HIDE DEF P
  <2>3. \A i \in 1 .. n : i - 1 \in P => i \in P
    BY <2>1
  <2>4. QED
    BY <2>2, <2>3, UpTo
<1>5. \A i \in 0 .. n : OnTheWay(r[i], d, low)
  BY <1>4
<1> DEFINE m == [i \in 0 .. n |-> r[i].d.merged]
           Stopped == {i \in 0 .. n : ~MergedValid(r[i].d.merged) \/ Shown(r[i])}
<1>6. n \in Stopped
  <2>1. \A i \in 0 .. n : MergedOK(m[i])
    BY <1>5 DEF OnTheWay
  <2>2. \A i \in 1 .. n : i - 1 \in Stopped => i \in Stopped
    <3>1. SUFFICES ASSUME NEW i \in 1 .. n, i - 1 \in Stopped PROVE i \in Stopped
      OBVIOUS
    <3>2. r[i] = r[i - 1]
      BY <1>2, <3>1 DEF FindTurn
    <3>3. QED
      BY <3>1, <3>2
  <2>3. \A i \in 1 .. n : i - 1 \notin Stopped =>
           i \in Stopped \/ (MergedValid(m[i - 1]) /\ (MergedValid(m[i]) => Further(m[i - 1], m[i])))
    <3>1. SUFFICES ASSUME NEW i \in 1 .. n, i - 1 \notin Stopped
                   PROVE  MergedValid(m[i - 1]) /\ (MergedValid(m[i]) => Further(m[i - 1], m[i]))
      OBVIOUS
    <3>2. PICK f : f = r[i - 1]
      OBVIOUS
    <3>3. MergedValid(f.d.merged) /\ ~Shown(f) /\ m[i - 1] = f.d.merged /\ OnTheWay(f, d, low)
      BY <1>5, <3>1, <3>2
    <3>4. r[i] = Passed(f) /\ m[i] = r[i].d.merged
      BY <1>2, <3>2, <3>3 DEF FindTurn
    <3> HIDE DEF m, Stopped
    <3>5. MergedValid(r[i].d.merged) => Further(f.d.merged, r[i].d.merged)
      BY <3>3, <3>4, FindNextStep
    <3>6. QED
      BY <3>3, <3>4, <3>5
  <2> HIDE DEF m, Stopped
  <2>4. QED
    BY <1>1, <2>1, <2>2, <2>3, ForwardEnds
<1>7. PICK f : f = r[n]
  OBVIOUS
<1>8. OnTheWay(f, d, low) /\ (~MergedValid(f.d.merged) \/ Shown(f)) /\ y = Landed(f.d)
  BY <1>2, <1>5, <1>6, <1>7
<1> HIDE DEF P, m, Stopped
<1>9. QED
  BY <1>8, NextEnds

-----------------------------------------------------------------------------
(* DBIter back.                                                            *)

(* One turn of the loop of Prev back past the current key.                 *)
PastKeyTurn(x, key) == IF MergedValid(x) /\ MergedKey(x).user >= key THEN MergedPrev(x) ELSE x

(* The turns of PastKey.                                                   *)
LEMMA PastKeyRun ==
  ASSUME NEW m, NEW key, NEW n \in Nat, n = Cardinality(Places) + 1
  PROVE  \E r : /\ PastKey(m, key) = r[n]
                /\ r[0] = m
                /\ \A i \in 1 .. n : r[i] = PastKeyTurn(r[i - 1], key)
<1> DEFINE x == m
           Turn(y) == PastKeyTurn(y, key)
           Runs(r, j) == r = [i \in 0 .. j |-> IF i = 0 THEN x ELSE Turn(r[i - 1])]
           T == {j \in Nat : \E r : Runs(r, j)}
<1>0. PastKey(m, key) = Loop(n, x, Turn)
  BY DEF PastKey, PastKeyTurn, Loop
<1> HIDE DEF Turn, x
<1>1. 0 \in T
  <2>1. Runs([i \in 0 .. 0 |-> x], 0)
    OBVIOUS
  <2>2. QED
    BY <2>1
<1>2. ASSUME NEW j \in 1 .. n, j - 1 \in T PROVE j \in T
  <2>1. PICK r : Runs(r, j - 1)
    BY <1>2
  <2>2. Runs([i \in 0 .. j |-> IF i = 0 THEN x ELSE Turn(r[i - 1])], j)
    BY <2>1
  <2> HIDE DEF Runs
  <2>3. QED
    BY <2>2
<1>3. n \in T
  <2> HIDE DEF T
  <2>1. \A i \in 1 .. n : i - 1 \in T => i \in T
    BY <1>2
  <2>2. \A i \in 0 .. n : i \in T
    BY <1>1, <2>1, UpTo
  <2>3. QED
    BY <2>2
<1> DEFINE r == CHOOSE r : Runs(r, n)
<1>4. Runs(r, n)
  BY <1>3
<1>5. Loop(n, x, Turn) = r[n]
  BY DEF Loop
<1> HIDE DEF r
<1>6. r[0] = x /\ \A i \in 1 .. n : r[i] = Turn(r[i - 1])
  BY <1>4
<1>7. QED
  BY <1>0, <1>5, <1>6 DEF Turn, x

(* The merging iterator in that loop: it has passed no entry of an older   *)
(* key that the snapshot sees.                                             *)
PastTurns(x, m, key) ==
  /\ MergedOK(x) /\ (x = m \/ x.forward = FALSE)
  /\ \A e \in Entries : Visible(e) /\ e.user < key => MergedValid(x) /\ ~Before(MergedKey(x), e)

(* PastKey leaves the merging iterator on the last entry before the key    *)
(* that the snapshot sees, or before that one.                             *)
LEMMA PastKeyIs ==
  ASSUME DataOK, NEW m, MergedOK(m), MergedValid(m), NEW key, key = MergedKey(m).user, NEW y, y = PastKey(m, key)
  PROVE  /\ MergedOK(y) /\ y.forward = FALSE /\ (MergedValid(y) => MergedKey(y).user < key)
         /\ \A e \in Entries : Visible(e) /\ e.user < key => MergedValid(y) /\ ~Before(MergedKey(y), e)
<1>1. PICK n \in Nat : n = Cardinality(Places) + 1
  BY PlaceFacts
<1>2. PICK r : y = r[n] /\ r[0] = m /\ \A i \in 1 .. n : r[i] = PastKeyTurn(r[i - 1], key)
  <2>1. \E r : PastKey(m, key) = r[n] /\ r[0] = m /\ \A i \in 1 .. n : r[i] = PastKeyTurn(r[i - 1], key)
    BY <1>1, PastKeyRun
  <2>2. QED
    BY <2>1
<1>3. \A x \in Entries : /\ x \in InternalKeys /\ x.user \in Nat /\ x.seq \in Nat
                         /\ x.type \in {kTypeDeletion, kTypeValue}
  BY EntryFacts
<1>4. ASSUME NEW x, MergedOK(x), MergedValid(x)
      PROVE  MergedKey(x) \in Entries
  BY <1>4, MergedKeyIs DEF MergedOK
<1>5. MergedKey(m) \in Entries /\ key \in Nat
  BY <1>3, <1>4
<1>6. PastTurns(m, m, key)
  <2>1. ASSUME NEW e \in Entries, e.user < key PROVE ~Before(MergedKey(m), e)
    BY <1>3, <1>5, <2>1 DEF Before
  <2>2. QED
    BY <2>1 DEF PastTurns
<1>7. ASSUME NEW x, PastTurns(x, m, key), MergedValid(x), MergedKey(x).user >= key, NEW z, z = MergedPrev(x)
      PROVE  PastTurns(z, m, key) /\ z.forward = FALSE /\ (MergedValid(z) => FurtherBack(x, z))
  <2>1. MergedOK(x)
    BY <1>7 DEF PastTurns
  <2>2. PICK k : k = MergedKey(x)
    OBVIOUS
  <2>3. k \in Entries /\ k.user >= key
    BY <1>4, <1>7, <2>1, <2>2
  <2>4. /\ MergedOK(z) /\ z.forward = FALSE /\ (MergedValid(z) => FurtherBack(x, z))
        /\ \A e \in Entries : Visible(e) /\ Before(e, k) => MergedValid(z) /\ ~Before(MergedKey(z), e)
    BY <1>7, <2>1, <2>2, MergedPrevIs
  <2>5. ASSUME NEW e \in Entries, e.user < key PROVE Before(e, k)
    BY <1>3, <1>5, <2>3, <2>5 DEF Before
  <2>6. QED
    BY <2>2, <2>4, <2>5 DEF PastTurns
<1> DEFINE P == {i \in 0 .. n : PastTurns(r[i], m, key)}
<1>8. \A i \in 0 .. n : i \in P
  <2>1. ASSUME NEW i \in 1 .. n, i - 1 \in P PROVE i \in P
    <3>1. PICK x : x = r[i - 1]
      OBVIOUS
    <3>2. PastTurns(x, m, key) /\ r[i] = PastKeyTurn(x, key)
      BY <1>2, <2>1, <3>1
    <3>3. PastTurns(r[i], m, key)
      BY <1>7, <3>2 DEF PastKeyTurn
    <3>4. QED
      BY <3>3
  <2>2. 0 \in P
    BY <1>2, <1>6
  <2> HIDE DEF P
  <2>3. \A i \in 1 .. n : i - 1 \in P => i \in P
    BY <2>1
  <2>4. QED
    BY <2>2, <2>3, UpTo
<1>9. \A i \in 0 .. n : PastTurns(r[i], m, key)
  BY <1>8
<1> DEFINE Stopped == {i \in 0 .. n : ~(MergedValid(r[i]) /\ MergedKey(r[i]).user >= key)}
<1>10. n \in Stopped
  <2>1. \A i \in 0 .. n : MergedOK(r[i])
    BY <1>9 DEF PastTurns
  <2>2. ASSUME NEW i \in 1 .. n, i - 1 \in Stopped PROVE i \in Stopped
    <3>1. r[i] = r[i - 1]
      BY <1>2, <2>2 DEF PastKeyTurn
    <3>2. QED
      BY <2>2, <3>1
  <2>3. ASSUME NEW i \in 1 .. n, i - 1 \notin Stopped
        PROVE  MergedValid(r[i - 1]) /\ (MergedValid(r[i]) => FurtherBack(r[i - 1], r[i]))
    <3>1. PICK x : x = r[i - 1]
      OBVIOUS
    <3>2. MergedValid(x) /\ MergedKey(x).user >= key /\ PastTurns(x, m, key)
      BY <1>9, <2>3, <3>1
    <3>3. r[i] = MergedPrev(x)
      BY <1>2, <3>1, <3>2 DEF PastKeyTurn
    <3> HIDE DEF Stopped
    <3>4. QED
      BY <1>7, <3>1, <3>2, <3>3
  <2> HIDE DEF Stopped
  <2>4. QED
    BY <1>1, <2>1, <2>2, <2>3, BackwardEnds
<1>11. PastTurns(y, m, key) /\ ~(MergedValid(y) /\ MergedKey(y).user >= key)
  BY <1>2, <1>9, <1>10
<1>12. y # m
  BY <1>5, <1>11
<1>13. MergedValid(y) => MergedKey(y).user < key
  BY <1>3, <1>4, <1>5, <1>11 DEF PastTurns
<1>14. QED
  BY <1>11, <1>12, <1>13 DEF PastTurns

(* The turns of FindPrevUserEntry.                                         *)
LEMMA ScanRun ==
  ASSUME NEW d, NEW n \in Nat, n = Cardinality(Places) + 1
  PROVE  \E r : /\ FindPrevUserEntry(d) = AfterScan(r[n].d, r[n].type)
                /\ r[0] = [d |-> d, type |-> kTypeDeletion]
                /\ \A i \in 1 .. n : r[i] = ScanTurn(r[i - 1])
<1> DEFINE x == [d |-> d, type |-> kTypeDeletion]
           Turn(y) == ScanTurn(y)
           Runs(r, m) == r = [i \in 0 .. m |-> IF i = 0 THEN x ELSE Turn(r[i - 1])]
           T == {m \in Nat : \E r : Runs(r, m)}
<1>0. FindPrevUserEntry(d) = AfterScan(Loop(n, x, Turn).d, Loop(n, x, Turn).type)
  BY DEF FindPrevUserEntry, Loop
<1> HIDE DEF Turn, x
<1>1. 0 \in T
  <2>1. Runs([i \in 0 .. 0 |-> x], 0)
    OBVIOUS
  <2>2. QED
    BY <2>1
<1>2. ASSUME NEW m \in 1 .. n, m - 1 \in T PROVE m \in T
  <2>1. PICK r : Runs(r, m - 1)
    BY <1>2
  <2>2. Runs([i \in 0 .. m |-> IF i = 0 THEN x ELSE Turn(r[i - 1])], m)
    BY <2>1
  <2> HIDE DEF Runs
  <2>3. QED
    BY <2>2
<1>3. n \in T
  <2> HIDE DEF T
  <2>1. \A i \in 1 .. n : i - 1 \in T => i \in T
    BY <1>2
  <2>2. \A i \in 0 .. n : i \in T
    BY <1>1, <2>1, UpTo
  <2>3. QED
    BY <2>2
<1> DEFINE r == CHOOSE r : Runs(r, n)
<1>4. Runs(r, n)
  BY <1>3
<1>5. Loop(n, x, Turn) = r[n]
  BY DEF Loop
<1> HIDE DEF r
<1>6. r[0] = x /\ \A i \in 1 .. n : r[i] = Turn(r[i - 1])
  BY <1>4
<1>7. QED
  BY <1>0, <1>5, <1>6 DEF Turn, x

(* What FindPrevUserEntry makes of the fields of a DBIter.                 *)
LEMMA SavedIs ==
  ASSUME NEW d, DBShape(d), NEW n, NEW x, NEW v, NEW y,
         y = [[d EXCEPT !.saved_key = x, !.saved_value = v] EXCEPT !.merged = n]
  PROVE  y = [merged |-> n, forward |-> d.forward, valid |-> d.valid, saved_key |-> x, saved_value |-> v]
<1>1. d = [merged |-> d.merged, forward |-> d.forward, valid |-> d.valid,
           saved_key |-> d.saved_key, saved_value |-> d.saved_value]
  BY DEF DBShape
<1>2. PICK a : a = [d EXCEPT !.saved_key = x]
  OBVIOUS
<1>3. PICK b : b = [a EXCEPT !.saved_value = v]
  OBVIOUS
<1>4. PICK c : c = [b EXCEPT !.merged = n]
  OBVIOUS
<1>5. a = [merged |-> d.merged, forward |-> d.forward, valid |-> d.valid, saved_key |-> x, saved_value |-> d.saved_value]
  BY ONLY <1>1, <1>2
<1>6. b = [merged |-> d.merged, forward |-> d.forward, valid |-> d.valid, saved_key |-> x, saved_value |-> v]
  BY ONLY <1>3, <1>5
<1>7. c = [merged |-> n, forward |-> d.forward, valid |-> d.valid, saved_key |-> x, saved_value |-> v]
  BY ONLY <1>4, <1>6
<1>8. c = [[d EXCEPT !.saved_key = x, !.saved_value = v] EXCEPT !.merged = n]
  BY ONLY <1>2, <1>3, <1>4, Zenon
<1>9. QED
  BY <1>7, <1>8, Zenon

(* An iterator that is no longer valid, turned forward.                    *)
LEMMA AbandonedIs ==
  ASSUME NEW d, DBShape(d), NEW v, NEW y, y = [Invalid(d) EXCEPT !.saved_value = None, !.forward = v]
  PROVE  y = [merged |-> d.merged, forward |-> v, valid |-> FALSE, saved_key |-> None, saved_value |-> None]
<1>1. PICK i : i = [d EXCEPT !.valid = FALSE, !.saved_key = None]
  OBVIOUS
<1>2. i = [merged |-> d.merged, forward |-> d.forward, valid |-> FALSE, saved_key |-> None, saved_value |-> d.saved_value]
  BY <1>1, Stands
<1>3. PICK j : j = [i EXCEPT !.saved_value = None]
  OBVIOUS
<1>4. PICK k : k = [j EXCEPT !.forward = v]
  OBVIOUS
<1>5. j = [merged |-> d.merged, forward |-> d.forward, valid |-> FALSE, saved_key |-> None, saved_value |-> None]
  BY ONLY <1>2, <1>3
<1>6. k = [merged |-> d.merged, forward |-> v, valid |-> FALSE, saved_key |-> None, saved_value |-> None]
  BY ONLY <1>4, <1>5
<1>7. k = [i EXCEPT !.saved_value = None, !.forward = v]
  BY ONLY <1>3, <1>4, Zenon
<1>8. QED
  BY <1>1, <1>6, <1>7, Zenon DEF Invalid

(* What FindPrevUserEntry has passed: the entries the snapshot sees, of a  *)
(* key in H, that are after the key of the merging iterator.               *)
Gone(m, H) == {e \in Entries : Visible(e) /\ e.user \in H /\ ~(MergedValid(m) /\ ~Before(MergedKey(m), e))}

(* What it keeps of an entry.                                              *)
Remembers(r, g) == g.type = r.type /\ (r.type = kTypeValue => r.d.saved_key = g.user /\ r.d.saved_value = g.seq)

(* It has passed G: the entries gone and, when the merging iterator is on  *)
(* a copy of one it has passed, that one.  The first of G is saved, when   *)
(* that is a value, and all those with another key belong to deleted keys. *)
KeptOf(r, m, G, H) ==
  /\ Gone(m, H) \subseteq G
  /\ \A x \in G : x \in Gone(m, H) \/ (MergedValid(m) /\ x = MergedKey(m) /\ Visible(x))
  /\ \/ G = {} /\ r.type = kTypeDeletion
     \/ \E g \in G :
          /\ \A x \in G : (x = g \/ Before(g, x)) /\ (x.user # g.user => x.user \notin VisibleKeys)
          /\ Remembers(r, g)

(* FindPrevUserEntry on its way.                                           *)
OnTheWayBack(r, d, H) ==
  LET m == r.d.merged
  IN /\ r = [d |-> r.d, type |-> r.type]
     /\ r.d = [merged |-> m, forward |-> d.forward, valid |-> d.valid,
               saved_key |-> r.d.saved_key, saved_value |-> r.d.saved_value]
     /\ MergedOK(m) /\ m.forward = FALSE /\ (MergedValid(m) => MergedKey(m).user \in H)
     /\ \E G \in SUBSET Entries : KeptOf(r, m, G, H)

(* Nothing of its key is newer than the first of the entries passed, once  *)
(* the merging iterator has left the key.                                  *)
LEMMA GoneNewest ==
  ASSUME DataOK, NEW m, MergedOK(m), NEW H \in SUBSET Nat, NEW g \in Gone(m, H),
         \A x \in Gone(m, H) : x = g \/ Before(g, x),
         MergedValid(m) => MergedKey(m).user < g.user
  PROVE  /\ g.type = kTypeDeletion => g.user \notin VisibleKeys
         /\ g.type = kTypeValue => OnNewest(g)
<1>1. \A x \in Entries : /\ x \in InternalKeys /\ x.user \in Nat /\ x.seq \in Nat
                         /\ x.type \in {kTypeDeletion, kTypeValue}
  BY EntryFacts
<1>2. MergedValid(m) => MergedKey(m) \in Entries
  BY MergedKeyIs DEF MergedOK
<1>3. g \in Entries /\ Visible(g) /\ g.user \in H
  BY DEF Gone
<1>4. ASSUME NEW f \in Entries, Visible(f), f.user = g.user PROVE ~Before(f, g)
  <2>1. CASE f \in Gone(m, H)
    BY <1>1, <1>3, <2>1, KeyOrder
  <2>2. CASE f \notin Gone(m, H)
    <3>1. MergedValid(m) /\ ~Before(MergedKey(m), f)
      BY <1>3, <1>4, <2>2 DEF Gone
    <3>2. QED
      BY <1>1, <1>2, <1>3, <1>4, <3>1 DEF Before
  <2>3. QED
    BY <2>1, <2>2
<1>5. QED
  BY <1>3, <1>4, NewestDecides

(* A turn of FindPrevUserEntry.                                            *)
LEMMA ScanStep ==
  ASSUME DataOK, NEW d, NEW H \in SUBSET Nat, \A k \in H : \A l \in Nat : l < k => l \in H,
         NEW r, OnTheWayBack(r, d, H), ~Scanned(r), NEW s, s = ScanTurn(r)
  PROVE  /\ OnTheWayBack(s, d, H) /\ MergedValid(r.d.merged)
         /\ MergedValid(s.d.merged) => FurtherBack(r.d.merged, s.d.merged)
<1>1. PICK m : m = r.d.merged
  OBVIOUS
<1>2. /\ MergedOK(m) /\ m.forward = FALSE /\ (MergedValid(m) => MergedKey(m).user \in H)
      /\ r.d = [merged |-> m, forward |-> d.forward, valid |-> d.valid,
                saved_key |-> r.d.saved_key, saved_value |-> r.d.saved_value]
  BY <1>1 DEF OnTheWayBack
<1>3. MergedValid(m)
  BY <1>1 DEF Scanned
<1>4. PICK e : e = MergedKey(m)
  OBVIOUS
<1>5. \A x \in Entries : /\ x \in InternalKeys /\ x.user \in Nat /\ x.seq \in Nat
                         /\ x.type \in {kTypeDeletion, kTypeValue}
  BY EntryFacts
<1>6. e \in Entries /\ e.user \in H
  BY <1>2, <1>3, <1>4, MergedKeyIs DEF MergedOK
<1>7. ~(Visible(e) /\ r.type = kTypeValue /\ e.user < r.d.saved_key)
  BY <1>1, <1>4 DEF Scanned
<1>8. PICK n : n = MergedPrev(m)
  OBVIOUS
<1>9. /\ MergedOK(n) /\ n.forward = FALSE
      /\ MergedValid(n) => MergedKey(n) \in Entries /\ FurtherBack(m, n) /\ (Before(MergedKey(n), e) \/ MergedKey(n) = e)
      /\ \A x \in Entries : Visible(x) /\ Before(x, e) => MergedValid(n) /\ ~Before(MergedKey(n), x)
  BY <1>2, <1>3, <1>4, <1>8, MergedPrevIs DEF FurtherBack
<1>10. MergedValid(n) => MergedKey(n).user \in H
  BY <1>5, <1>6, <1>9 DEF Before
<1>11. DBShape(r.d)
  BY <1>2 DEF DBShape
<1>12. PICK p : p = Saved(r.d, e)
  OBVIOUS
<1>13. s = [d |-> [p EXCEPT !.merged = n], type |-> IF Visible(e) THEN e.type ELSE r.type]
  <2>1. p.merged = m
    <3>1. CASE ~Visible(e)
      BY <1>1, <1>12, <3>1 DEF Saved
    <3>2. CASE Visible(e)
      BY <1>2, <1>12, <3>2 DEF Saved
    <3>3. QED
      BY <3>1, <3>2
  <2>2. QED
    BY <1>1, <1>4, <1>8, <1>12, <2>1 DEF ScanTurn
<1>14. s.d = [p EXCEPT !.merged = n] /\ s = [d |-> s.d, type |-> s.type]
       /\ (Visible(e) => s.type = e.type) /\ (~Visible(e) => s.type = r.type)
  BY <1>13
<1>15. /\ s.d = [merged |-> n, forward |-> d.forward, valid |-> d.valid,
                 saved_key |-> s.d.saved_key, saved_value |-> s.d.saved_value]
       /\ ~Visible(e) => s.d.saved_key = r.d.saved_key /\ s.d.saved_value = r.d.saved_value
       /\ Visible(e) /\ e.type = kTypeValue => s.d.saved_key = e.user /\ s.d.saved_value = e.seq
  <2>1. r.d.forward = d.forward /\ r.d.valid = d.valid
    BY <1>2
  <2>2. CASE ~Visible(e)
    <3>1. s.d = [r.d EXCEPT !.merged = n]
      BY <1>12, <1>14, <2>2 DEF Saved
    <3>2. s.d = [merged |-> n, forward |-> d.forward, valid |-> d.valid,
                 saved_key |-> r.d.saved_key, saved_value |-> r.d.saved_value]
      BY <1>2, <3>1
    <3>3. QED
      BY <2>2, <3>2
  <2>3. CASE Visible(e)
    <3>1. PICK q, v : /\ p = [r.d EXCEPT !.saved_key = q, !.saved_value = v]
                      /\ e.type = kTypeValue => q = e.user /\ v = e.seq
      <4>1. CASE e.type = kTypeDeletion
        <5>1. p = [r.d EXCEPT !.saved_key = None, !.saved_value = None]
          BY <1>12, <2>3, <4>1 DEF Saved
        <5>2. e.type # kTypeValue
          BY <4>1 DEF kTypeValue, kTypeDeletion
        <5>3. QED
          BY <5>1, <5>2
      <4>2. CASE e.type # kTypeDeletion
        BY <1>12, <2>3, <4>2 DEF Saved
      <4>3. QED
        BY <4>1, <4>2
    <3>2. PICK z : z = r.d
      OBVIOUS
    <3>3. s.d = [[z EXCEPT !.saved_key = q, !.saved_value = v] EXCEPT !.merged = n]
      BY <1>14, <3>1, <3>2
    <3>4. DBShape(z)
      BY <1>11, <3>2
    <3>5. s.d = [merged |-> n, forward |-> z.forward, valid |-> z.valid, saved_key |-> q, saved_value |-> v]
      BY ONLY <3>3, <3>4, SavedIs
    <3>6. QED
      BY <2>1, <2>3, <3>1, <3>2, <3>5
  <2>4. QED
    BY <2>2, <2>3
<1>16. /\ \A x \in Gone(m, H) : x \in Gone(n, H) /\ Before(e, x)
       /\ \A x \in Gone(n, H) : x \in Gone(m, H) \/ (x = e /\ Visible(e))
       /\ Visible(e) => e \in Gone(n, H) \/ (MergedValid(n) /\ e = MergedKey(n))
  <2>1. ASSUME NEW x \in Gone(m, H) PROVE x \in Gone(n, H) /\ Before(e, x)
    <3>1. x \in Entries /\ Visible(x) /\ x.user \in H /\ Before(e, x)
      BY <1>3, <1>4 DEF Gone
    <3>2. MergedValid(n) => Before(MergedKey(n), x)
      BY <1>5, <1>6, <1>9, <3>1, KeyOrderTransitive
    <3>3. QED
      BY <3>1, <3>2 DEF Gone
  <2>2. ASSUME NEW x \in Gone(n, H) PROVE x \in Gone(m, H) \/ (x = e /\ Visible(e))
    <3>1. x \in Entries /\ Visible(x) /\ x.user \in H /\ ~(MergedValid(n) /\ ~Before(MergedKey(n), x))
      BY DEF Gone
    <3>2. ~Before(x, e)
      BY <1>9, <3>1
    <3>3. x = e \/ Before(e, x)
      BY <1>5, <1>6, <3>1, <3>2, KeyOrder
    <3>4. QED
      BY <1>4, <3>1, <3>3 DEF Gone
  <2>3. ASSUME Visible(e) PROVE e \in Gone(n, H) \/ (MergedValid(n) /\ e = MergedKey(n))
    BY <1>6, <1>9, <2>3 DEF Gone
  <2>4. QED
    BY <2>1, <2>2, <2>3
<1>17. PICK G \in SUBSET Entries : KeptOf(r, m, G, H)
  BY <1>1 DEF OnTheWayBack
<1>18. \E K \in SUBSET Entries : KeptOf(s, n, K, H)
  <2>1. CASE ~Visible(e)
    <3>1. s.type = r.type /\ \A g : Remembers(r, g) => Remembers(s, g)
      BY <1>14, <1>15, <2>1 DEF Remembers
    <3>2. /\ \A x : x \in Gone(n, H) <=> x \in Gone(m, H)
          /\ \A x \in G : x \in Gone(m, H)
      BY <1>4, <1>16, <1>17, <2>1 DEF KeptOf
    <3>3. KeptOf(s, n, G, H)
      BY <1>17, <3>1, <3>2 DEF KeptOf
    <3>4. QED
      BY <3>3
  <2>2. CASE Visible(e)
    <3> DEFINE K == G \cup {e}
    <3>1. Remembers(s, e)
      BY <1>14, <1>15, <2>2 DEF Remembers
    <3>2. ASSUME NEW x \in G, x.user # e.user PROVE x.user \notin VisibleKeys
      <4>1. PICK g \in G :
              /\ \A z \in G : (z = g \/ Before(g, z)) /\ (z.user # g.user => z.user \notin VisibleKeys)
              /\ Remembers(r, g)
        BY <1>17 DEF KeptOf
      <4>2. CASE x.user # g.user
        BY <4>1, <4>2
      <4>3. CASE x.user = g.user
        <5>1. g \in Gone(m, H) /\ \A z \in Gone(m, H) : z = g \/ Before(g, z)
          BY <1>4, <1>17, <3>2, <4>1, <4>3 DEF KeptOf
        <5>2. g \in Entries /\ Before(e, g)
          BY <1>16, <5>1 DEF Gone
        <5>3. e.user < g.user
          BY <1>5, <1>6, <3>2, <4>3, <5>2 DEF Before
        <5>4. g.type # kTypeValue
          BY <1>7, <2>2, <4>1, <5>3 DEF Remembers
        <5>5. g.type = kTypeDeletion
          BY <1>5, <5>2, <5>4
        <5>6. g.user \notin VisibleKeys
          BY <1>2, <1>4, <5>1, <5>3, <5>5, GoneNewest
        <5>7. QED
          BY <4>3, <5>6
      <4>4. QED
        BY <4>2, <4>3
    <3>3. \A x \in G : x = e \/ Before(e, x)
      BY <1>4, <1>16, <1>17 DEF KeptOf
    <3>4. \A x \in K : (x = e \/ Before(e, x)) /\ (x.user # e.user => x.user \notin VisibleKeys)
      BY <3>2, <3>3
    <3>5. Gone(n, H) \subseteq K
      BY <1>16, <1>17 DEF KeptOf
    <3>6. \A x \in K : x \in Gone(n, H) \/ (MergedValid(n) /\ x = MergedKey(n) /\ Visible(x))
      BY <1>4, <1>16, <1>17, <2>2 DEF KeptOf
    <3>7. K \in SUBSET Entries /\ e \in K
      BY <1>6
    <3> HIDE DEF K
    <3>8. KeptOf(s, n, K, H)
      BY <3>1, <3>4, <3>5, <3>6, <3>7 DEF KeptOf
    <3>9. QED
      BY <3>7, <3>8
  <2>3. QED
    BY <2>1, <2>2
<1>19. s.d.merged = n
  BY <1>15
<1>20. OnTheWayBack(s, d, H)
  BY <1>9, <1>10, <1>14, <1>15, <1>18, <1>19 DEF OnTheWayBack
<1>21. QED
  BY <1>1, <1>3, <1>4, <1>9, <1>19, <1>20

(* Where FindPrevUserEntry ends.                                           *)
LEMMA ScanEnds ==
  ASSUME DataOK, NEW d, d.forward = FALSE, NEW H \in SUBSET Nat, \A k \in H : \A l \in Nat : l < k => l \in H,
         NEW r, OnTheWayBack(r, d, H), Scanned(r), NEW y, y = AfterScan(r.d, r.type)
  PROVE  Lands(y, Greatest({k \in VisibleKeys : k \in H}))
<1> DEFINE S == {k \in VisibleKeys : k \in H}
<1>1. PICK m : m = r.d.merged
  OBVIOUS
<1>2. PICK z : z = r.d
  OBVIOUS
<1>3. /\ MergedOK(m) /\ m.forward = FALSE /\ DBShape(z) /\ z.merged = m
      /\ z = [merged |-> m, forward |-> FALSE, valid |-> d.valid, saved_key |-> z.saved_key, saved_value |-> z.saved_value]
  BY <1>1, <1>2 DEF OnTheWayBack, DBShape
<1>4. \A x \in Entries : /\ x \in InternalKeys /\ x.user \in Nat /\ x.seq \in Nat
                         /\ x.type \in {kTypeDeletion, kTypeValue}
  BY EntryFacts
<1>5. MergedValid(m) => MergedKey(m) \in Entries
  BY <1>3, MergedKeyIs DEF MergedOK
<1>6. ~MergedValid(m) \/ (Visible(MergedKey(m)) /\ r.type = kTypeValue /\ MergedKey(m).user < z.saved_key)
  BY <1>1, <1>2 DEF Scanned
<1>7. \/ Gone(m, H) = {} /\ r.type = kTypeDeletion
      \/ \E g \in Gone(m, H) :
           /\ \A x \in Gone(m, H) : (x = g \/ Before(g, x)) /\ (x.user # g.user => x.user \notin VisibleKeys)
           /\ Remembers(r, g)
  <2>1. PICK G \in SUBSET Entries : KeptOf(r, m, G, H)
    BY <1>1 DEF OnTheWayBack
  <2>2. ASSUME NEW x \in G, x \notin Gone(m, H) PROVE FALSE
    <3>1. MergedValid(m) /\ x = MergedKey(m)
      BY <2>1, <2>2 DEF KeptOf
    <3>2. PICK g \in G : (x = g \/ Before(g, x)) /\ Remembers(r, g)
      BY <2>1, <2>2 DEF KeptOf
    <3>3. r.type = kTypeValue /\ x.user < z.saved_key
      BY <1>6, <3>1
    <3>4. z.saved_key = g.user
      BY <1>2, <3>2, <3>3 DEF Remembers
    <3>5. QED
      BY <1>4, <3>2, <3>3, <3>4 DEF Before
  <2>3. G = Gone(m, H)
    BY <2>1, <2>2 DEF KeptOf
  <2>4. QED
    BY <2>1, <2>3 DEF KeptOf
<1>8. S \subseteq Nat /\ \A k \in S : \E x \in Entries : x.user = k /\ Visible(x)
  BY VisibleKeyIs
<1>9. \A x \in Entries : Visible(x) /\ x.user \in H =>
        x \in Gone(m, H) \/ (MergedValid(m) /\ ~Before(MergedKey(m), x))
  BY DEF Gone
<1>10. CASE r.type = kTypeDeletion
  <2>1. ~MergedValid(m)
    BY <1>6, <1>10 DEF kTypeValue, kTypeDeletion
  <2>2. \A x \in Gone(m, H) : x.user \notin VisibleKeys
    <3>1. CASE Gone(m, H) = {}
      BY <3>1
    <3>2. CASE Gone(m, H) # {}
      <4>1. PICK g \in Gone(m, H) :
              /\ \A x \in Gone(m, H) : (x = g \/ Before(g, x)) /\ (x.user # g.user => x.user \notin VisibleKeys)
              /\ Remembers(r, g)
        BY <1>7, <3>2
      <4>2. g.user \notin VisibleKeys
        BY <1>3, <1>10, <2>1, <4>1, GoneNewest DEF Remembers
      <4>3. QED
        BY <4>1, <4>2
    <3>3. QED
      BY <3>1, <3>2
  <2>3. ASSUME NEW k \in S PROVE FALSE
    <3>1. PICK x \in Entries : x.user = k /\ Visible(x)
      BY <1>8
    <3>2. QED
      BY <1>9, <2>1, <2>2, <3>1
  <2>4. Greatest(S) = None
    BY <2>3 DEF Greatest
  <2>5. y = [Invalid(z) EXCEPT !.saved_value = None, !.forward = TRUE]
    BY <1>2, <1>10 DEF AfterScan
  <2>6. y = [merged |-> z.merged, forward |-> TRUE, valid |-> FALSE, saved_key |-> None, saved_value |-> None]
    BY <1>3, <2>5, AbandonedIs
  <2>7. ~y.valid /\ Key(y) = None
    BY <2>6 DEF Key
  <2>8. IterOK(y)
    BY <1>3, <2>6 DEF IterOK
  <2>9. QED
    BY <2>4, <2>7, <2>8 DEF Lands
<1>11. CASE r.type # kTypeDeletion
  <2>1. PICK g \in Gone(m, H) :
          /\ \A x \in Gone(m, H) : (x = g \/ Before(g, x)) /\ (x.user # g.user => x.user \notin VisibleKeys)
          /\ Remembers(r, g)
    BY <1>7, <1>11
  <2>2. g \in Entries /\ Visible(g) /\ g.user \in H
    BY DEF Gone
  <2>3. g.type = kTypeValue /\ r.type = kTypeValue /\ z.saved_key = g.user /\ z.saved_value = g.seq
    BY <1>2, <1>4, <1>11, <2>1, <2>2 DEF Remembers
  <2>4. MergedValid(m) => Visible(MergedKey(m)) /\ MergedKey(m).user < g.user
    BY <1>6, <2>3
  <2>5. OnNewest(g) /\ g.user \in VisibleKeys
    BY <1>3, <2>1, <2>2, <2>3, <2>4, GoneNewest, VisibleKeyIs
  <2>6. g.user \in S
    BY <2>2, <2>5
  <2>7. ASSUME NEW k \in S PROVE g.user >= k
    <3>1. PICK x \in Entries : x.user = k /\ Visible(x)
      BY <1>8
    <3>2. CASE x \in Gone(m, H)
      BY <1>8, <2>1, <2>6, <2>7, <3>1, <3>2
    <3>3. CASE MergedValid(m) /\ ~Before(MergedKey(m), x)
      BY <1>4, <1>5, <2>2, <2>4, <3>1, <3>3 DEF Before
    <3>4. QED
      BY <1>9, <2>7, <3>1, <3>2, <3>3
  <2>8. Greatest(S) = g.user
    BY <1>8, <2>6, <2>7, LeastIs
  <2>9. y = [merged |-> m, forward |-> FALSE, valid |-> TRUE, saved_key |-> z.saved_key, saved_value |-> z.saved_value]
    <3>1. y = [z EXCEPT !.valid = TRUE]
      BY <1>2, <1>11 DEF AfterScan
    <3>2. y = [merged |-> z.merged, forward |-> z.forward, valid |-> TRUE, saved_key |-> z.saved_key,
               saved_value |-> z.saved_value]
      BY <1>3, <3>1 DEF DBShape
    <3>3. z.merged = m /\ z.forward = FALSE
      BY <1>3
    <3>4. QED
      BY <3>2, <3>3
  <2>10. y.valid /\ Key(y) = g.user /\ Value(y) = g.seq
    BY <2>3, <2>9 DEF Key, Value
  <2>11. ASSUME NEW e \in Entries, Visible(e), e.user < g.user
         PROVE  MergedValid(m) /\ ~Before(MergedKey(m), e)
    <3>1. e.user \in H
      BY <1>4, <2>2, <2>11
    <3>2. e \notin Gone(m, H)
      BY <1>4, <2>1, <2>2, <2>11 DEF Before
    <3>3. QED
      BY <1>9, <2>11, <3>1, <3>2
  <2>12. y.merged = m /\ y.forward = FALSE /\ y.valid = TRUE /\ y.saved_key = g.user /\ y.saved_value = g.seq
    BY <2>3, <2>9
  <2>13. Behind(y)
    BY <2>2, <2>4, <2>5, <2>11, <2>12 DEF Behind
  <2>14. IterOK(y)
    BY <1>3, <2>9, <2>12, <2>13 DEF IterOK
  <2>15. g \in Newest(Key(y)) /\ Value(y) = g.seq
    BY <2>5, <2>10 DEF OnNewest
  <2> HIDE DEF S
  <2>16. QED
    BY <2>8, <2>10, <2>14, <2>15 DEF S, Lands
<1>12. QED
  BY <1>10, <1>11

(* FindPrevUserEntry finds the last key the snapshot has of those in H,    *)
(* once everything the snapshot sees of them is at or before the key of    *)
(* the merging iterator.                                                   *)
LEMMA FindPrevIs ==
  ASSUME DataOK, NEW d, DBShape(d), d.forward = FALSE, MergedOK(d.merged), d.merged.forward = FALSE,
         NEW H \in SUBSET Nat, \A k \in H : \A l \in Nat : l < k => l \in H,
         MergedValid(d.merged) => MergedKey(d.merged).user \in H,
         \A e \in Entries : Visible(e) /\ e.user \in H => MergedValid(d.merged) /\ ~Before(MergedKey(d.merged), e),
         NEW y, y = FindPrevUserEntry(d)
  PROVE  Lands(y, Greatest({k \in VisibleKeys : k \in H}))
<1>1. PICK n \in Nat : n = Cardinality(Places) + 1
  BY PlaceFacts
<1>2. PICK r : /\ y = AfterScan(r[n].d, r[n].type)
               /\ r[0] = [d |-> d, type |-> kTypeDeletion]
               /\ \A i \in 1 .. n : r[i] = ScanTurn(r[i - 1])
  <2>1. \E r : /\ FindPrevUserEntry(d) = AfterScan(r[n].d, r[n].type)
               /\ r[0] = [d |-> d, type |-> kTypeDeletion]
               /\ \A i \in 1 .. n : r[i] = ScanTurn(r[i - 1])
    BY <1>1, ScanRun
  <2>2. QED
    BY <2>1
<1>3. OnTheWayBack(r[0], d, H)
  <2>1. PICK f : f = r[0]
    OBVIOUS
  <2>2. f = [d |-> d, type |-> kTypeDeletion] /\ f.d = d /\ f.type = kTypeDeletion
    BY <1>2, <2>1
  <2>3. d = [merged |-> d.merged, forward |-> d.forward, valid |-> d.valid,
             saved_key |-> d.saved_key, saved_value |-> d.saved_value]
    BY DEF DBShape
  <2>4. Gone(d.merged, H) = {}
    BY DEF Gone
  <2>5. KeptOf(f, d.merged, {}, H)
    BY <2>2, <2>4 DEF KeptOf
  <2>6. \E G \in SUBSET Entries : KeptOf(f, d.merged, G, H)
    BY <2>5
  <2>7. OnTheWayBack(f, d, H)
    BY <2>2, <2>3, <2>6 DEF OnTheWayBack
  <2>8. QED
    BY <2>1, <2>7
<1> DEFINE P == {i \in 0 .. n : OnTheWayBack(r[i], d, H)}
<1>4. \A i \in 0 .. n : i \in P
  <2>1. ASSUME NEW i \in 1 .. n, i - 1 \in P PROVE i \in P
    <3>1. PICK f : f = r[i - 1]
      OBVIOUS
    <3>2. OnTheWayBack(f, d, H) /\ r[i] = ScanTurn(f)
      BY <1>2, <2>1, <3>1
    <3>3. OnTheWayBack(r[i], d, H)
      <4>1. CASE Scanned(f)
        BY <3>2, <4>1 DEF ScanTurn
      <4>2. CASE ~Scanned(f)
        BY <3>2, <4>2, ScanStep
      <4>3. QED
        BY <4>1, <4>2
    <3>4. QED
      BY <3>3
  <2>2. 0 \in P
    BY <1>3
  <2> HIDE DEF P
  <2>3. \A i \in 1 .. n : i - 1 \in P => i \in P
    BY <2>1
  <2>4. QED
    BY <2>2, <2>3, UpTo
<1>5. \A i \in 0 .. n : OnTheWayBack(r[i], d, H)
  BY <1>4
<1> DEFINE m == [i \in 0 .. n |-> r[i].d.merged]
           Stopped == {i \in 0 .. n : Scanned(r[i])}
<1>6. n \in Stopped
  <2>1. \A i \in 0 .. n : MergedOK(m[i])
    BY <1>5 DEF OnTheWayBack
  <2>2. ASSUME NEW i \in 1 .. n, i - 1 \in Stopped PROVE i \in Stopped
    <3>1. r[i] = r[i - 1]
      BY <1>2, <2>2 DEF ScanTurn
    <3>2. QED
      BY <2>2, <3>1
  <2>3. ASSUME NEW i \in 1 .. n, i - 1 \notin Stopped
        PROVE  MergedValid(m[i - 1]) /\ (MergedValid(m[i]) => FurtherBack(m[i - 1], m[i]))
    <3>1. PICK f : f = r[i - 1]
      OBVIOUS
    <3>2. ~Scanned(f) /\ m[i - 1] = f.d.merged /\ OnTheWayBack(f, d, H)
      BY <1>5, <2>3, <3>1
    <3>3. r[i] = ScanTurn(f) /\ m[i] = r[i].d.merged
      BY <1>2, <3>1
    <3> HIDE DEF m, Stopped
    <3>4. MergedValid(f.d.merged) /\ (MergedValid(r[i].d.merged) => FurtherBack(f.d.merged, r[i].d.merged))
      BY <3>2, <3>3, ScanStep
    <3>5. QED
      BY <3>2, <3>3, <3>4
  <2> HIDE DEF m, Stopped
  <2>4. QED
    BY <1>1, <2>1, <2>2, <2>3, BackwardEnds
<1>7. PICK f : f = r[n]
  OBVIOUS
<1>8. OnTheWayBack(f, d, H) /\ Scanned(f) /\ y = AfterScan(f.d, f.type)
  BY <1>2, <1>5, <1>6, <1>7
<1> HIDE DEF P, m, Stopped
<1>9. QED
  BY <1>8, ScanEnds

-----------------------------------------------------------------------------
(* The five calls.                                                         *)

(* Seek and SeekToFirst, once the merging iterator is at the first entry   *)
(* the snapshot sees from low on.                                          *)
LEMMA FromFirstIs ==
  ASSUME DataOK, NEW d, DBShape(d), d.forward = TRUE, MergedOK(d.merged), d.merged.forward = TRUE,
         NEW low \in Nat, MergedValid(d.merged) => MergedKey(d.merged).user >= low,
         \A e \in Entries : Visible(e) /\ e.user >= low => MergedValid(d.merged) /\ ~Before(e, MergedKey(d.merged)),
         NEW y, y = FromFirst(d)
  PROVE  Lands(y, Least({k \in VisibleKeys : k >= low}))
<1>1. CASE MergedValid(d.merged)
  <2>1. y = FindNextUserEntry(d, FALSE, 0)
    BY <1>1 DEF FromFirst, None
  <2>2. QED
    BY <2>1, FindNextIs
<1>2. CASE ~MergedValid(d.merged)
  <2>1. y = [d EXCEPT !.valid = FALSE]
    BY <1>2 DEF FromFirst
  <2>2. d = [merged |-> d.merged, forward |-> d.forward, valid |-> d.valid,
             saved_key |-> d.saved_key, saved_value |-> d.saved_value]
    BY DEF DBShape
  <2>3. y = [merged |-> d.merged, forward |-> d.forward, valid |-> FALSE,
             saved_key |-> d.saved_key, saved_value |-> d.saved_value]
    BY <2>1, <2>2
  <2>4. ~y.valid /\ Key(y) = None
    BY <2>3 DEF Key
  <2>5. IterOK(y)
    <3>1. y.merged = d.merged /\ y.forward = TRUE /\ y.valid = FALSE
      BY <2>3
    <3>2. y = [merged |-> y.merged, forward |-> y.forward, valid |-> y.valid,
               saved_key |-> y.saved_key, saved_value |-> y.saved_value]
      BY <2>3
    <3>3. QED
      BY <3>1, <3>2 DEF IterOK
  <2>6. ASSUME NEW k \in {k \in VisibleKeys : k >= low} PROVE FALSE
    <3>1. PICK x \in Entries : x.user = k /\ Visible(x)
      BY VisibleKeyIs
    <3>2. QED
      BY <1>2, <2>6, <3>1
  <2>7. Least({k \in VisibleKeys : k >= low}) = None
    BY <2>6 DEF Least
  <2>8. QED
    BY <2>4, <2>5, <2>7 DEF Lands
<1>3. QED
  BY <1>1, <1>2

(* A DBIter that is given a direction, a key and a place.                  *)
LEMMA DirectedIs ==
  ASSUME NEW d, DBShape(d), NEW v, NEW n, NEW y, y = [d EXCEPT !.forward = v, !.merged = n]
  PROVE  y = [merged |-> n, forward |-> v, valid |-> d.valid, saved_key |-> d.saved_key, saved_value |-> d.saved_value]
<1>1. PICK a : a = [d EXCEPT !.forward = v]
  OBVIOUS
<1>2. a = [merged |-> d.merged, forward |-> v, valid |-> d.valid,
           saved_key |-> d.saved_key, saved_value |-> d.saved_value]
  BY <1>1 DEF DBShape
<1>3. PICK b : b = [a EXCEPT !.merged = n]
  OBVIOUS
<1>4. b = [merged |-> n, forward |-> v, valid |-> d.valid, saved_key |-> d.saved_key, saved_value |-> d.saved_value]
  BY ONLY <1>2, <1>3
<1>5. b = [d EXCEPT !.forward = v, !.merged = n]
  BY ONLY <1>1, <1>3, Zenon
<1>6. QED
  BY <1>4, <1>5, Zenon

(* A DBIter that is given a key and a place.                               *)
LEMMA PlacedIs ==
  ASSUME NEW d, DBShape(d), NEW n, NEW k, NEW y, y = [d EXCEPT !.saved_key = k, !.merged = n]
  PROVE  y = [merged |-> n, forward |-> d.forward, valid |-> d.valid, saved_key |-> k, saved_value |-> d.saved_value]
<1>1. PICK a : a = [d EXCEPT !.saved_key = k]
  OBVIOUS
<1>2. a = [merged |-> d.merged, forward |-> d.forward, valid |-> d.valid, saved_key |-> k, saved_value |-> d.saved_value]
  BY <1>1 DEF DBShape
<1>3. PICK b : b = [a EXCEPT !.merged = n]
  OBVIOUS
<1>4. b = [merged |-> n, forward |-> d.forward, valid |-> d.valid, saved_key |-> k, saved_value |-> d.saved_value]
  BY ONLY <1>2, <1>3
<1>5. b = [d EXCEPT !.saved_key = k, !.merged = n]
  BY ONLY <1>1, <1>3, Zenon
<1>6. QED
  BY <1>4, <1>5, Zenon

(* A DBIter that is given a direction, a value and a place.                *)
LEMMA ReplacedIs ==
  ASSUME NEW d, DBShape(d), NEW v, NEW x, NEW n, NEW y, y = [d EXCEPT !.forward = v, !.saved_value = x, !.merged = n]
  PROVE  y = [merged |-> n, forward |-> v, valid |-> d.valid, saved_key |-> d.saved_key, saved_value |-> x]
<1>1. PICK a : a = [d EXCEPT !.forward = v]
  OBVIOUS
<1>2. a = [merged |-> d.merged, forward |-> v, valid |-> d.valid, saved_key |-> d.saved_key, saved_value |-> d.saved_value]
  BY <1>1 DEF DBShape
<1>3. PICK b : b = [a EXCEPT !.saved_value = x]
  OBVIOUS
<1>4. b = [merged |-> d.merged, forward |-> v, valid |-> d.valid, saved_key |-> d.saved_key, saved_value |-> x]
  BY ONLY <1>2, <1>3
<1>5. PICK c : c = [b EXCEPT !.merged = n]
  OBVIOUS
<1>6. c = [merged |-> n, forward |-> v, valid |-> d.valid, saved_key |-> d.saved_key, saved_value |-> x]
  BY ONLY <1>4, <1>5
<1>7. c = [d EXCEPT !.forward = v, !.saved_value = x, !.merged = n]
  BY ONLY <1>1, <1>3, <1>5, Zenon
<1>8. QED
  BY <1>6, <1>7, Zenon

(* FindNextUserEntry when it skips a key.                                  *)
LEMMA SkipKeyIs ==
  ASSUME DataOK, NEW d, DBShape(d), d.forward = TRUE, MergedOK(d.merged), d.merged.forward = TRUE,
         NEW low \in Nat, NEW key \in Nat, low = key + 1,
         MergedValid(d.merged) => MergedKey(d.merged).user >= key,
         \A e \in Entries : Visible(e) /\ e.user >= low => MergedValid(d.merged) /\ ~Before(e, MergedKey(d.merged)),
         NEW y, y = FindNextUserEntry(d, TRUE, key)
  PROVE  Lands(y, Least({k \in VisibleKeys : k >= low}))
<1>1. PICK skipping \in BOOLEAN : skipping = TRUE
  OBVIOUS
<1>2. y = FindNextUserEntry(d, skipping, key)
  BY <1>1
<1>3. skipping => low = key + 1 /\ (MergedValid(d.merged) => MergedKey(d.merged).user >= key)
  OBVIOUS
<1>4. ~skipping /\ MergedValid(d.merged) => MergedKey(d.merged).user >= low
  BY <1>1
<1>5. QED
  BY <1>2, <1>3, <1>4, FindNextIs

(* Next, once the merging iterator goes forward from an entry.             *)
LEMMA NextFromIs ==
  ASSUME DataOK, NEW d, DBShape(d), d.forward = TRUE, MergedOK(d.merged), d.merged.forward = TRUE,
         MergedValid(d.merged), NEW key, key = MergedKey(d.merged).user, NEW y, y = NextFrom(d)
  PROVE  Lands(y, Least({k \in VisibleKeys : k > key}))
<1>1. PICK a : a = [d EXCEPT !.saved_key = key]
  OBVIOUS
<1>2. y = FindNextUserEntry(a, TRUE, key)
  BY <1>1 DEF NextFrom
<1>3. a = [merged |-> d.merged, forward |-> d.forward, valid |-> d.valid,
           saved_key |-> key, saved_value |-> d.saved_value]
  BY <1>1 DEF DBShape
<1>4. PICK m : m = d.merged
  OBVIOUS
<1>5. DBShape(a) /\ a.forward = TRUE /\ a.merged = m
  BY <1>3, <1>4 DEF DBShape
<1>6. PICK e \in Entries : e = MergedKey(m)
  BY <1>4, MergedKeyIs DEF MergedOK
<1>7. \A x \in Entries : x.user \in Nat
  BY EntryFacts
<1>8. key \in Nat /\ e.user = key
  BY <1>4, <1>6, <1>7
<1>9. ASSUME NEW x \in Entries, x.user >= key + 1 PROVE ~Before(x, e)
  BY <1>7, <1>8, <1>9 DEF Before
<1>10. PICK low \in Nat : low = key + 1
  BY <1>8
<1>11. Lands(y, Least({k \in VisibleKeys : k >= low}))
  <2>1. e.user >= key
    BY <1>8
  <2>2. MergedOK(a.merged) /\ a.merged.forward = TRUE /\ MergedValid(a.merged) /\ MergedKey(a.merged) = e
    BY <1>4, <1>5, <1>6
  <2>3. \A x \in Entries : Visible(x) /\ x.user >= low => MergedValid(a.merged) /\ ~Before(x, MergedKey(a.merged))
    BY <1>9, <1>10, <2>2
  <2>4. MergedValid(a.merged) => MergedKey(a.merged).user >= key
    BY <2>1, <2>2
  <2>5. QED
    BY <1>2, <1>5, <1>8, <1>10, <2>2, <2>3, <2>4, SkipKeyIs
<1>12. {k \in VisibleKeys : k >= low} = {k \in VisibleKeys : k > key}
  <2>1. \A k \in VisibleKeys : k \in Nat
    BY VisibleKeyIs
  <2>2. QED
    BY <1>8, <1>10, <2>1
<1>13. QED
  BY <1>11, <1>12

(* Next turns forward from behind the entries of its key, and stands on    *)
(* one of them again unless it is in the window Repeats.                   *)
LEMMA TurnedIs ==
  ASSUME DataOK, NEW d, IterOK(d), d.valid = TRUE, d.forward = FALSE, NEW m, m = d.merged, NEW n, n = Turned(m)
  PROVE  /\ MergedOK(n) /\ n.forward = TRUE /\ MergedValid(n)
         /\ ~Repeats(d) => MergedKey(n).user = d.saved_key
<1>1. \A x \in Entries : /\ x \in InternalKeys /\ x.user \in Nat /\ x.seq \in Nat
                         /\ x.type \in {kTypeDeletion, kTypeValue}
  BY EntryFacts
<1>2. sequence \in Nat
  BY EntryFacts
<1>3. MergedOK(m) /\ ~m.forward /\ Behind(d)
  BY DEF IterOK
<1>4. PICK g \in Entries : OnNewest(g) /\ g.user = d.saved_key
  BY <1>3 DEF Behind
<1>5. Visible(g)
  BY <1>4, VisibleKeyIs
<1>6. /\ MergedValid(m) => Visible(MergedKey(m)) /\ MergedKey(m).user < g.user
      /\ \A e \in Entries : Visible(e) /\ e.user < g.user => MergedValid(m) /\ ~Before(MergedKey(m), e)
  BY <1>3, <1>4 DEF Behind
<1>7. CASE MergedValid(m)
  <2>1. PICK k \in Entries : k = MergedKey(m)
    BY <1>3, <1>7, MergedKeyIs DEF MergedOK
  <2>2. n = MergedNext(m)
    BY <1>7 DEF Turned
  <2>3. /\ MergedOK(n) /\ n.forward = TRUE /\ (MergedValid(n) => MergedKey(n) \in Entries /\ Before(k, MergedKey(n)))
        /\ \A e \in Entries : Visible(e) /\ Before(k, e) => MergedValid(n) /\ ~Before(e, MergedKey(n))
    BY <1>3, <1>7, <2>1, <2>2, MergedNextIs
  <2>4. Before(k, g)
    BY <1>6, <1>7, <2>1 DEF Before
  <2>5. MergedValid(n) /\ ~Before(g, MergedKey(n))
    BY <1>5, <2>3, <2>4
  <2>6. PICK e \in Entries : e = MergedKey(n)
    BY <2>3, <2>5
  <2>7. Before(k, e) /\ e.user <= g.user
    BY <1>1, <2>3, <2>5, <2>6 DEF Before
  <2>8. ASSUME e.user # g.user PROVE Repeats(d)
    <3>1. e.user < g.user
      BY <1>1, <2>7, <2>8
    <3>2. Visible(k) /\ k.user < g.user
      BY <1>6, <1>7, <2>1
    <3>3. ~Visible(e)
      BY <1>1, <1>6, <2>1, <2>7, <3>1, KeyOrder
    <3>4. e.seq > sequence
      BY <1>1, <1>2, <3>3 DEF Visible
    <3>5. ASSUME NEW f \in Entries, f.user < g.user, f.seq <= sequence PROVE f.user < e.user
      <4>1. ~Before(k, f)
        BY <1>6, <2>1, <3>5 DEF Visible
      <4>2. f.user <= k.user
        BY <1>1, <4>1 DEF Before
      <4>3. k.user < e.user
        BY <1>1, <1>2, <2>7, <3>2, <3>4 DEF Before, Visible
      <4>4. QED
        BY <1>1, <4>2, <4>3
    <3>6. QED
      BY <1>4, <3>1, <3>4, <3>5 DEF Repeats
  <2>9. QED
    BY <1>4, <2>3, <2>5, <2>6, <2>8
<1>8. CASE ~MergedValid(m)
  <2>1. n = MergedSeekToFirst(m)
    BY <1>8 DEF Turned
  <2>2. /\ MergedOK(n) /\ n.forward = TRUE /\ (MergedValid(n) => MergedKey(n) \in Entries)
        /\ \A e \in Entries : Visible(e) => MergedValid(n) /\ ~Before(e, MergedKey(n))
    BY <1>3, <2>1, MergedFirstIs DEF MergedOK
  <2>3. MergedValid(n) /\ ~Before(g, MergedKey(n))
    BY <1>5, <2>2
  <2>4. PICK e \in Entries : e = MergedKey(n)
    BY <2>2, <2>3
  <2>5. e.user <= g.user
    BY <1>1, <2>3, <2>4 DEF Before
  <2>6. ASSUME e.user # g.user PROVE Repeats(d)
    <3>1. e.user < g.user
      BY <1>1, <2>5, <2>6
    <3>2. ~Visible(e)
      BY <1>6, <1>8, <3>1
    <3>3. e.seq > sequence
      BY <1>1, <1>2, <3>2 DEF Visible
    <3>4. ASSUME NEW f \in Entries, f.user < g.user, f.seq <= sequence PROVE FALSE
      BY <1>6, <1>8, <3>4 DEF Visible
    <3>5. QED
      BY <1>4, <3>1, <3>3, <3>4 DEF Repeats
  <2>7. QED
    BY <1>4, <2>2, <2>3, <2>4, <2>6
<1>9. QED
  BY <1>7, <1>8

(* Next ends valid at the next key of the snapshot, or not valid after the *)
(* last, unless it was called in the window Repeats.                       *)
LEMMA NextIs ==
  ASSUME DataOK, NEW d, IterOK(d), d.valid = TRUE, NEW y, y = DBNext(d)
  PROVE  IterOK(y) /\ (~Repeats(d) => Lands(y, Least({k \in VisibleKeys : k > Key(d)})))
<1>1. MergedOK(d.merged) /\ DBShape(d) /\ d.forward \in BOOLEAN
  BY DEF IterOK, DBShape
<1>2. CASE d.forward = TRUE
  <2>1. d.merged.forward = TRUE /\ MergedValid(d.merged)
    BY <1>2 DEF IterOK
  <2>2. Key(d) = MergedKey(d.merged).user /\ y = NextFrom(d)
    BY <1>2 DEF Key, DBNext
  <2>3. Lands(y, Least({k \in VisibleKeys : k > Key(d)}))
    BY <1>1, <1>2, <2>1, <2>2, NextFromIs
  <2>4. QED
    BY <2>3 DEF Lands
<1>3. CASE d.forward = FALSE
  <2>1. PICK n : n = Turned(d.merged)
    OBVIOUS
  <2>2. /\ MergedOK(n) /\ n.forward = TRUE /\ MergedValid(n)
        /\ ~Repeats(d) => MergedKey(n).user = d.saved_key
    BY <1>3, <2>1, TurnedIs
  <2>3. PICK b : b = [d EXCEPT !.forward = TRUE, !.merged = n]
    OBVIOUS
  <2>4. b = [merged |-> n, forward |-> TRUE, valid |-> d.valid,
             saved_key |-> d.saved_key, saved_value |-> d.saved_value]
    BY <1>1, <2>3, DirectedIs
  <2>5. DBShape(b) /\ b.merged = n /\ b.forward = TRUE
    BY <2>4 DEF DBShape
  <2>6. y = NextFrom(b)
    BY <1>3, <2>1, <2>3 DEF DBNext
  <2>7. PICK key : key = MergedKey(n).user
    OBVIOUS
  <2>8. Lands(y, Least({k \in VisibleKeys : k > key}))
    BY <2>2, <2>5, <2>6, <2>7, NextFromIs
  <2>9. Key(d) = d.saved_key
    BY <1>3 DEF Key
  <2>10. IterOK(y)
    BY <2>8 DEF Lands
  <2>11. QED
    BY <2>2, <2>7, <2>8, <2>9, <2>10
<1>4. QED
  BY <1>1, <1>2, <1>3

(* Prev from a DBIter that goes back.                                      *)
LEMMA PrevBackIs ==
  ASSUME DataOK, NEW d, IterOK(d), d.valid = TRUE, d.forward = FALSE, NEW y, y = FindPrevUserEntry(d)
  PROVE  Lands(y, Greatest({k \in VisibleKeys : k < Key(d)}))
<1>1. \A x \in Entries : x \in InternalKeys /\ x.user \in Nat
  BY EntryFacts
<1>2. PICK m : m = d.merged
  OBVIOUS
<1>3. MergedOK(m) /\ DBShape(d) /\ Behind(d) /\ m.forward = FALSE
  BY <1>2 DEF IterOK, DBShape
<1>4. PICK key \in Nat : key = d.saved_key
  BY <1>1, <1>3 DEF Behind
<1>5. Key(d) = key
  BY <1>4 DEF Key
<1>6. PICK H : H = {k \in Nat : k < key}
  OBVIOUS
<1>7. H \in SUBSET Nat /\ \A k \in H : \A l \in Nat : l < k => l \in H
  BY <1>4, <1>6
<1>8. MergedValid(m) => MergedKey(m).user \in H
  <2>1. ASSUME MergedValid(m) PROVE MergedKey(m) \in Entries
    BY <1>3, <2>1, MergedKeyIs DEF MergedOK
  <2>2. MergedValid(m) => MergedKey(m).user < key
    BY <1>2, <1>3, <1>4 DEF Behind
  <2>3. QED
    BY <1>1, <1>6, <2>1, <2>2
<1>9. \A e \in Entries : Visible(e) /\ e.user \in H => MergedValid(m) /\ ~Before(MergedKey(m), e)
  BY <1>2, <1>3, <1>4, <1>6 DEF Behind
<1>10. Lands(y, Greatest({k \in VisibleKeys : k \in H}))
  BY <1>2, <1>3, <1>7, <1>8, <1>9, FindPrevIs
<1>11. {k \in VisibleKeys : k \in H} = {k \in VisibleKeys : k < key}
  BY <1>6, VisibleKeyIs
<1>12. QED
  BY <1>5, <1>10, <1>11

(* Prev from a DBIter that goes forward.                                   *)
LEMMA PrevTurnIs ==
  ASSUME DataOK, NEW d, IterOK(d), d.valid = TRUE, d.forward = TRUE, NEW key, key = MergedKey(d.merged).user,
         NEW y, y = PrevFrom([d EXCEPT !.saved_key = key, !.merged = PastKey(d.merged, key)])
  PROVE  Lands(y, Greatest({k \in VisibleKeys : k < key}))
<1>1. \A x \in Entries : x \in InternalKeys /\ x.user \in Nat
  BY EntryFacts
<1>2. PICK m : m = d.merged
  OBVIOUS
<1>3. MergedOK(m) /\ DBShape(d) /\ MergedValid(m) /\ key = MergedKey(m).user
  BY <1>2 DEF IterOK, DBShape
<1>4. key \in Nat
  BY <1>1, <1>3, MergedKeyIs DEF MergedOK
<1>5. PICK n : n = PastKey(m, key)
  OBVIOUS
<1>6. /\ MergedOK(n) /\ n.forward = FALSE /\ (MergedValid(n) => MergedKey(n).user < key)
      /\ \A e \in Entries : Visible(e) /\ e.user < key => MergedValid(n) /\ ~Before(MergedKey(n), e)
  BY <1>3, <1>5, PastKeyIs
<1>7. PICK a : a = [d EXCEPT !.saved_key = key, !.merged = n]
  OBVIOUS
<1>8. a = [merged |-> n, forward |-> d.forward, valid |-> d.valid, saved_key |-> key, saved_value |-> d.saved_value]
  <2>1. DBShape(d)
    BY <1>3
  <2>2. QED
    BY ONLY <1>7, <2>1, PlacedIs
<1>9. y = PrevFrom(a) /\ a.merged = n /\ DBShape(a)
  <2>1. y = PrevFrom(a)
    BY <1>2, <1>5, <1>7
  <2>2. QED
    BY <1>8, <2>1 DEF DBShape
<1>10. PICK H : H = {k \in Nat : k < key}
  OBVIOUS
<1>11. {k \in VisibleKeys : k \in H} = {k \in VisibleKeys : k < key}
  BY <1>10, VisibleKeyIs
<1>12. CASE MergedValid(n)
  <2>1. PICK b : b = [a EXCEPT !.forward = FALSE]
    OBVIOUS
  <2>2. y = FindPrevUserEntry(b)
    BY <1>9, <1>12, <2>1 DEF PrevFrom
  <2>3. b = [merged |-> a.merged, forward |-> FALSE, valid |-> a.valid,
             saved_key |-> a.saved_key, saved_value |-> a.saved_value]
    BY <1>9, <2>1 DEF DBShape
  <2>4. DBShape(b) /\ b.forward = FALSE /\ b.merged = n
    BY <1>9, <2>3 DEF DBShape
  <2>5. H \in SUBSET Nat /\ \A k \in H : \A l \in Nat : l < k => l \in H
    BY <1>4, <1>10
  <2>6. MergedKey(n).user \in H
    <3>1. MergedKey(n) \in Entries
      BY <1>6, <1>12, MergedKeyIs DEF MergedOK
    <3>2. QED
      BY <1>1, <1>6, <1>10, <1>12, <3>1
  <2>7. \A e \in Entries : Visible(e) /\ e.user \in H => MergedValid(n) /\ ~Before(MergedKey(n), e)
    BY <1>6, <1>10
  <2>8. Lands(y, Greatest({k \in VisibleKeys : k \in H}))
    BY <1>6, <2>2, <2>4, <2>5, <2>6, <2>7, FindPrevIs
  <2>9. QED
    BY <1>11, <2>8
<1>13. CASE ~MergedValid(n)
  <2>1. y = [Invalid(a) EXCEPT !.saved_value = None]
    BY <1>9, <1>13 DEF PrevFrom
  <2>2. PICK i : i = [a EXCEPT !.valid = FALSE, !.saved_key = None]
    OBVIOUS
  <2>3. i = [merged |-> a.merged, forward |-> a.forward, valid |-> FALSE, saved_key |-> None, saved_value |-> a.saved_value]
    BY <1>9, <2>2, Stands
  <2>4. y = [i EXCEPT !.saved_value = None]
    BY <2>1, <2>2 DEF Invalid
  <2>5. y = [merged |-> a.merged, forward |-> a.forward, valid |-> FALSE, saved_key |-> None, saved_value |-> None]
    BY ONLY <2>3, <2>4
  <2>6. y.merged = n /\ y.forward = TRUE /\ y.valid = FALSE
    <3>1. a.forward = TRUE
      BY <1>8
    <3>2. QED
      BY <1>9, <2>5, <3>1
  <2>7. y = [merged |-> y.merged, forward |-> y.forward, valid |-> y.valid,
             saved_key |-> y.saved_key, saved_value |-> y.saved_value]
    BY <2>5
  <2>8. IterOK(y)
    BY <1>6, <2>6, <2>7 DEF IterOK
  <2>9. ASSUME NEW k \in {k \in VisibleKeys : k < key} PROVE FALSE
    <3>1. PICK x \in Entries : x.user = k /\ Visible(x)
      BY VisibleKeyIs
    <3>2. QED
      BY <1>6, <1>13, <2>9, <3>1
  <2>10. Greatest({k \in VisibleKeys : k < key}) = None
    BY <2>9 DEF Greatest
  <2>11. Key(y) = None
    BY <2>6 DEF Key
  <2>12. QED
    BY <2>6, <2>8, <2>10, <2>11 DEF Lands
<1>14. QED
  BY <1>12, <1>13

(* Prev ends at the previous key of the snapshot, whichever way the DBIter *)
(* went before.                                                            *)
LEMMA PrevIs ==
  ASSUME DataOK, NEW d, IterOK(d), d.valid = TRUE, NEW y, y = DBPrev(d)
  PROVE  Lands(y, Greatest({k \in VisibleKeys : k < Key(d)}))
<1>1. d.forward \in BOOLEAN
  BY DEF IterOK
<1>2. CASE d.forward = FALSE
  <2>1. y = FindPrevUserEntry(d)
    BY <1>2 DEF DBPrev
  <2>2. QED
    BY <1>2, <2>1, PrevBackIs
<1>3. CASE d.forward = TRUE
  <2>1. PICK key : key = MergedKey(d.merged).user
    OBVIOUS
  <2>2. y = PrevFrom([d EXCEPT !.saved_key = key, !.merged = PastKey(d.merged, key)]) /\ Key(d) = key
    BY <1>3, <2>1 DEF DBPrev, Key
  <2>3. QED
    BY <1>3, <2>1, <2>2, PrevTurnIs
<1>4. QED
  BY <1>1, <1>2, <1>3

(* SeekToFirst ends at the first key of the snapshot.                      *)
LEMMA SeekToFirstIs ==
  ASSUME DataOK, NEW d, IterOK(d), NEW y, y = DBSeekToFirst(d)
  PROVE  Lands(y, Least(VisibleKeys))
<1>1. DBShape(d) /\ MergedShape(d.merged)
  BY DEF IterOK, DBShape, MergedOK
<1>2. PICK n : n = MergedSeekToFirst(d.merged)
  OBVIOUS
<1>3. /\ MergedOK(n) /\ n.forward = TRUE /\ (MergedValid(n) => MergedKey(n) \in Entries)
      /\ \A e \in Entries : Visible(e) => MergedValid(n) /\ ~Before(e, MergedKey(n))
  BY <1>1, <1>2, MergedFirstIs
<1>4. PICK a : a = [d EXCEPT !.forward = TRUE, !.saved_value = None, !.merged = n]
  OBVIOUS
<1>5. a = [merged |-> n, forward |-> TRUE, valid |-> d.valid, saved_key |-> d.saved_key, saved_value |-> None]
  BY <1>1, <1>4, ReplacedIs
<1>6. DBShape(a) /\ a.merged = n /\ a.forward = TRUE
  BY <1>5 DEF DBShape
<1>7. y = FromFirst(a)
  BY <1>2, <1>4 DEF DBSeekToFirst
<1>8. PICK low \in Nat : low = 0
  OBVIOUS
<1>9. MergedValid(n) => MergedKey(n).user >= low
  BY <1>3, <1>8, EntryFacts
<1>10. Lands(y, Least({k \in VisibleKeys : k >= low}))
  BY <1>3, <1>6, <1>7, <1>9, FromFirstIs
<1>11. {k \in VisibleKeys : k >= low} = VisibleKeys
  <2>1. \A k \in VisibleKeys : k \in Nat
    BY VisibleKeyIs
  <2>2. QED
    BY <1>8, <2>1
<1>12. QED
  BY <1>10, <1>11

(* Seek ends at the first key of the snapshot from the target on.          *)
LEMMA SeekIs ==
  ASSUME DataOK, NEW d, IterOK(d), NEW target \in Nat, NEW y, y = DBSeek(d, target)
  PROVE  Lands(y, Least({k \in VisibleKeys : k >= target}))
<1>1. DBShape(d) /\ MergedShape(d.merged)
  BY DEF IterOK, DBShape, MergedOK
<1>2. PICK t : t = LookupKey(target, sequence)
  OBVIOUS
<1>3. sequence \in Nat
  BY EntryFacts
<1>4. t \in InternalKeys /\ t.user = target /\ t.seq = sequence /\ t.type = kTypeValue
  BY <1>2, <1>3 DEF LookupKey, InternalKeys
<1>5. PICK n : n = MergedSeek(d.merged, t)
  OBVIOUS
<1>6. /\ MergedOK(n) /\ n.forward = TRUE /\ (MergedValid(n) => MergedKey(n) \in Entries /\ ~Before(MergedKey(n), t))
      /\ \A e \in Entries : Visible(e) /\ ~Before(e, t) => MergedValid(n) /\ ~Before(e, MergedKey(n))
  BY <1>1, <1>4, <1>5, MergedSeekIs
<1>7. \A x \in Entries : /\ x.user \in Nat /\ x.seq \in Nat /\ x.type \in {kTypeDeletion, kTypeValue}
  BY EntryFacts
<1>8. PICK a : a = [d EXCEPT !.forward = TRUE, !.saved_value = None, !.saved_key = target, !.merged = n]
  OBVIOUS
<1>9. a = [merged |-> n, forward |-> TRUE, valid |-> d.valid, saved_key |-> target, saved_value |-> None]
  <2>1. DBShape(a)
    BY <1>1, <1>8 DEF DBShape
  <2>2. a.merged = n /\ a.forward = TRUE /\ a.valid = d.valid /\ a.saved_key = target /\ a.saved_value = None
    BY <1>1, <1>8 DEF DBShape
  <2>3. QED
    BY <2>1, <2>2 DEF DBShape
<1>10. DBShape(a) /\ a.merged = n /\ a.forward = TRUE
  BY <1>9 DEF DBShape
<1>11. y = FromFirst(a)
  BY <1>2, <1>5, <1>8 DEF DBSeek
<1>12. MergedValid(n) => MergedKey(n).user >= target
  BY <1>4, <1>6, <1>7 DEF Before
<1>13. ASSUME NEW e \in Entries, Visible(e), e.user >= target PROVE ~Before(e, t)
  BY <1>3, <1>4, <1>7, <1>13 DEF Before, Visible, kTypeDeletion, kTypeValue
<1>14. \A e \in Entries : Visible(e) /\ e.user >= target => MergedValid(n) /\ ~Before(e, MergedKey(n))
  BY <1>6, <1>13
<1>15. QED
  BY <1>6, <1>10, <1>11, <1>12, <1>14, FromFirstIs

(* SeekToLast ends at the last key of the snapshot.                        *)
LEMMA SeekToLastIs ==
  ASSUME DataOK, NEW d, IterOK(d), NEW y, y = DBSeekToLast(d)
  PROVE  Lands(y, Greatest(VisibleKeys))
<1>1. DBShape(d) /\ MergedShape(d.merged)
  BY DEF IterOK, DBShape, MergedOK
<1>2. PICK n : n = MergedSeekToLast(d.merged)
  OBVIOUS
<1>3. /\ MergedOK(n) /\ n.forward = FALSE /\ (MergedValid(n) => MergedKey(n) \in Entries)
      /\ \A e \in Entries : Visible(e) => MergedValid(n) /\ ~Before(MergedKey(n), e)
  BY <1>1, <1>2, MergedLastIs
<1>4. PICK a : a = [d EXCEPT !.forward = FALSE, !.saved_value = None, !.merged = n]
  OBVIOUS
<1>5. a = [merged |-> n, forward |-> FALSE, valid |-> d.valid, saved_key |-> d.saved_key, saved_value |-> None]
  BY <1>1, <1>4, ReplacedIs
<1>6. DBShape(a) /\ a.merged = n /\ a.forward = FALSE
  BY <1>5 DEF DBShape
<1>7. y = FindPrevUserEntry(a)
  BY <1>2, <1>4 DEF DBSeekToLast
<1>8. PICK H \in SUBSET Nat : H = Nat
  OBVIOUS
<1>9. \A k \in H : \A l \in Nat : l < k => l \in H
  BY <1>8
<1>10. MergedValid(n) => MergedKey(n).user \in H
  BY <1>3, <1>8, EntryFacts
<1>11. Lands(y, Greatest({k \in VisibleKeys : k \in H}))
  BY <1>3, <1>6, <1>7, <1>9, <1>10, FindPrevIs
<1>12. {k \in VisibleKeys : k \in H} = VisibleKeys
  BY <1>8, VisibleKeyIs
<1>13. QED
  BY <1>11, <1>12

-----------------------------------------------------------------------------
(* The invariant.                                                          *)

(* The inductive invariant: the data are sound, the iterator is where it   *)
(* may stand, and the last call left it where it should.                   *)
IterInv == DataOK /\ (\A d \in {iter} : IterOK(d)) /\ CursorExact

(* What a move leaves as it is.                                            *)
LEMMA SameData ==
  ASSUME mem' = mem, tables' = tables, sequence' = sequence
  PROVE  /\ Entries' = Entries
         /\ \A d : (IterOK(d)' <=> IterOK(d)) /\ Key(d)' = Key(d) /\ Value(d)' = Value(d)
         /\ \A k : Newest(k)' = Newest(k)
         /\ VisibleKeys' = VisibleKeys
<1>1. Entries' = Entries
  BY DEF Entries
<1>2. Width' = Width /\ \A i : ChildEntries(i)' = ChildEntries(i)
  BY DEF Width, ChildEntries
<1>3. \A i, c : (ChildValid(i, c)' <=> ChildValid(i, c)) /\ ChildKey(i, c)' = ChildKey(i, c)
                /\ (ChildOK(i, c)' <=> ChildOK(i, c))
  BY DEF ChildValid, ChildKey, ChildOK
<1>4. \A e : Visible(e)' <=> Visible(e)
  BY DEF Visible
<1>5. \A m : MergedKey(m)' = MergedKey(m)
  BY DEF MergedKey, ChildKey
<1>6. \A m : ValidChildren(m)' = ValidChildren(m)
  BY DEF ValidChildren, ChildValid
<1>7. \A m, e : Ahead(m, e)' <=> Ahead(m, e)
  BY <1>5 DEF Ahead
<1>8. \A m, i, e : Nearer(m, i, e)' <=> Nearer(m, i, e)
  BY DEF Nearer, ChildKey
<1>9. \A m : MergedShape(m)' <=> MergedShape(m)
  BY DEF MergedShape, Width, ChildOK
<1>10. ASSUME NEW m PROVE MergedOK(m)' <=> MergedOK(m)
  BY <1>6, <1>9 DEF MergedOK, Width, ChildEntries, Visible, Ahead, Nearer, MergedKey, ChildValid, ChildKey
<1>11. \A k : Newest(k)' = Newest(k)
  BY <1>1 DEF Newest
<1>12. \A e : OnNewest(e)' <=> OnNewest(e)
  BY <1>1 DEF OnNewest, Newest
<1>13. \A d : Behind(d)' <=> Behind(d)
  BY <1>1, <1>12 DEF Behind, MergedKey, ChildKey, Visible
<1>14. \A d : IterOK(d)' <=> IterOK(d)
  BY <1>1, <1>10, <1>13 DEF IterOK, OnNewest, Newest, MergedKey, ChildKey
<1>15. \A d : Key(d)' = Key(d) /\ Value(d)' = Value(d)
  BY DEF Key, Value, MergedKey, ChildKey
<1>16. VisibleKeys' = VisibleKeys
  BY <1>1 DEF VisibleKeys, Newest
<1>17. QED
  BY <1>1, <1>11, <1>14, <1>15, <1>16

(* A move that lands where Expected says, or is in the window, keeps the   *)
(* invariant.                                                              *)
LEMMA MoveKeeps ==
  ASSUME DataOK, NEW y, NEW k, IterOK(y), iter' = y, ~call'.repeats => Lands(y, k),
         mem' = mem, tables' = tables, last_sequence' = last_sequence, sequence' = sequence, writes' = writes,
         Expected' = k
  PROVE  IterInv'
<1>1. /\ Entries' = Entries
      /\ \A d : (IterOK(d)' <=> IterOK(d)) /\ Key(d)' = Key(d) /\ Value(d)' = Value(d)
      /\ \A x : Newest(x)' = Newest(x)
  BY SameData
<1>2. DataOK'
  BY <1>1 DEF DataOK, ChildEntries, Width
<1>3. \A d \in {iter'} : IterOK(d)'
  BY <1>1
<1>4. Key(iter)' = Key(y) /\ Value(iter)' = Value(y) /\ (iter.valid)' = y.valid
  BY DEF Key, Value, MergedKey, ChildKey
<1>5. CursorExact'
  <2>1. SUFFICES ASSUME ~call'.repeats
                 PROVE  /\ Key(iter)' = Expected'
                        /\ (iter.valid)' => \E e \in Newest(Key(iter))' : Value(iter)' = e.seq
    BY DEF CursorExact
  <2>2. Key(y) = k /\ (y.valid => \E e \in Newest(Key(y)) : Value(y) = e.seq)
    BY <2>1 DEF Lands
  <2>3. Newest(Key(iter))' = Newest(Key(y))
    BY <1>1, <1>4 DEF Newest
  <2>4. QED
    BY <1>4, <2>2, <2>3
<1>6. QED
  BY <1>2, <1>3, <1>5 DEF IterInv

(* Each of the five moves does.                                            *)
LEMMA MovesKeep ==
  ASSUME IterInv, NEW target \in Nat
  PROVE  /\ Next_ => IterInv'
         /\ Prev => IterInv'
         /\ Seek(target) => IterInv'
         /\ SeekToFirst => IterInv'
         /\ SeekToLast => IterInv'
<1>1. DataOK /\ IterOK(iter)
  BY DEF IterInv
<1>2. PICK d : d = iter
  OBVIOUS
<1>3. IterOK(d) /\ Key(iter) = Key(d) /\ Repeats(iter) = Repeats(d)
  BY <1>1, <1>2
<1>4. ASSUME NEW name, NEW t, NEW y, Move(name, t, y)
      PROVE  /\ iter' = y /\ mem' = mem /\ tables' = tables /\ last_sequence' = last_sequence
             /\ sequence' = sequence /\ writes' = writes /\ VisibleKeys' = VisibleKeys
             /\ call'.name = name /\ call'.target = t /\ call'.from = Key(d)
             /\ call'.repeats <=> name = "Next" /\ Repeats(d)
  <2>1. mem' = mem /\ tables' = tables /\ sequence' = sequence
    BY <1>4 DEF Move
  <2>2. VisibleKeys' = VisibleKeys
    BY <2>1, SameData
  <2>3. QED
    BY <1>3, <1>4, <2>2 DEF Move
<1>5. ASSUME Next_ PROVE IterInv'
  <2>1. PICK y : y = DBNext(d)
    OBVIOUS
  <2>2. Move("Next", None, y) /\ d.valid = TRUE
    BY <1>1, <1>2, <1>5, <2>1 DEF Next_, IterOK
  <2>3. PICK k : k = Least({x \in VisibleKeys : x > Key(d)})
    OBVIOUS
  <2>4. IterOK(y) /\ (~Repeats(d) => Lands(y, k))
    BY <1>1, <1>3, <2>1, <2>2, <2>3, NextIs
  <2>5. Expected' = k
    <3>1. call'.name = "Next"
      BY <1>4, <2>2
    <3>2. {x \in VisibleKeys' : x > call'.from} = {x \in VisibleKeys : x > Key(d)}
      BY <1>4, <2>2
    <3>3. Expected' = Least({x \in VisibleKeys' : x > call'.from})
      BY <3>1 DEF Expected
    <3>4. QED
      BY <2>3, <3>2, <3>3
  <2>6. ~call'.repeats => Lands(y, k)
    BY <1>4, <2>2, <2>4
  <2>7. QED
    BY <1>1, <1>4, <2>2, <2>4, <2>5, <2>6, MoveKeeps
<1>6. ASSUME Prev PROVE IterInv'
  <2>1. PICK y : y = DBPrev(d)
    OBVIOUS
  <2>2. Move("Prev", None, y) /\ d.valid = TRUE
    BY <1>1, <1>2, <1>6, <2>1 DEF Prev, IterOK
  <2>3. PICK k : k = Greatest({x \in VisibleKeys : x < Key(d)})
    OBVIOUS
  <2>4. Lands(y, k)
    BY <1>1, <1>3, <2>1, <2>2, <2>3, PrevIs
  <2>5. Expected' = k
    <3>1. call'.name = "Prev"
      BY <1>4, <2>2
    <3>2. {x \in VisibleKeys' : x < call'.from} = {x \in VisibleKeys : x < Key(d)}
      BY <1>4, <2>2
    <3>3. Expected' = Greatest({x \in VisibleKeys' : x < call'.from})
      BY <3>1 DEF Expected
    <3>4. QED
      BY <2>3, <3>2, <3>3
  <2>6. IterOK(y)
    BY <2>4 DEF Lands
  <2>7. QED
    BY <1>1, <1>4, <2>2, <2>4, <2>5, <2>6, MoveKeeps
<1>7. ASSUME Seek(target) PROVE IterInv'
  <2>1. PICK y : y = DBSeek(d, target)
    OBVIOUS
  <2>2. Move("Seek", target, y)
    BY <1>2, <1>7, <2>1 DEF Seek
  <2>3. PICK k : k = Least({x \in VisibleKeys : x >= target})
    OBVIOUS
  <2>4. Lands(y, k)
    BY <1>1, <1>3, <2>1, <2>2, <2>3, SeekIs
  <2>5. Expected' = k
    <3>1. call'.name = "Seek"
      BY <1>4, <2>2
    <3>2. {x \in VisibleKeys' : x >= call'.target} = {x \in VisibleKeys : x >= target}
      BY <1>4, <2>2
    <3>3. Expected' = Least({x \in VisibleKeys' : x >= call'.target})
      BY <3>1 DEF Expected
    <3>4. QED
      BY <2>3, <3>2, <3>3
  <2>6. IterOK(y)
    BY <2>4 DEF Lands
  <2>7. QED
    BY <1>1, <1>4, <2>2, <2>4, <2>5, <2>6, MoveKeeps
<1>8. ASSUME SeekToFirst PROVE IterInv'
  <2>1. PICK y : y = DBSeekToFirst(d)
    OBVIOUS
  <2>2. Move("SeekToFirst", None, y)
    BY <1>2, <1>8, <2>1 DEF SeekToFirst
  <2>3. PICK k : k = Least(VisibleKeys)
    OBVIOUS
  <2>4. Lands(y, k)
    BY <1>1, <1>3, <2>1, <2>2, <2>3, SeekToFirstIs
  <2>5. Expected' = k
    <3>1. call'.name = "SeekToFirst"
      BY <1>4, <2>2
    <3>2. VisibleKeys' = VisibleKeys
      BY <1>4, <2>2
    <3>3. Expected' = Least(VisibleKeys')
      BY <3>1 DEF Expected
    <3>4. QED
      BY <2>3, <3>2, <3>3
  <2>6. IterOK(y)
    BY <2>4 DEF Lands
  <2>7. QED
    BY <1>1, <1>4, <2>2, <2>4, <2>5, <2>6, MoveKeeps
<1>9. ASSUME SeekToLast PROVE IterInv'
  <2>1. PICK y : y = DBSeekToLast(d)
    OBVIOUS
  <2>2. Move("SeekToLast", None, y)
    BY <1>2, <1>9, <2>1 DEF SeekToLast
  <2>3. PICK k : k = Greatest(VisibleKeys)
    OBVIOUS
  <2>4. Lands(y, k)
    BY <1>1, <1>3, <2>1, <2>2, <2>3, SeekToLastIs
  <2>5. Expected' = k
    <3>1. call'.name = "SeekToLast"
      BY <1>4, <2>2
    <3>2. VisibleKeys' = VisibleKeys
      BY <1>4, <2>2
    <3>3. Expected' = Greatest(VisibleKeys')
      BY <3>1 DEF Expected
    <3>4. QED
      BY <2>3, <3>2, <3>3
  <2>6. IterOK(y)
    BY <2>4 DEF Lands
  <2>7. QED
    BY <1>1, <1>4, <2>2, <2>4, <2>5, <2>6, MoveKeeps
<1>10. QED
  BY <1>5, <1>6, <1>7, <1>8, <1>9

(* A write adds an entry the snapshot does not see to the memtable.        *)
LEMMA WriteAdds ==
  ASSUME DataOK, NEW k \in UserKeys, NEW type \in {kTypeDeletion, kTypeValue}, NEW height \in 1 .. MaxHeight,
         Write(k, type, height), NEW e, e = [user |-> k, seq |-> last_sequence + 1, type |-> type]
  PROVE  /\ e \in InternalKeys /\ e.user = k /\ e.seq = last_sequence + 1 /\ ~(e.seq <= sequence)
         /\ ListOK(mem') /\ ListEntries(mem') = ListEntries(mem) \cup {e} /\ Entries' = Entries \cup {e}
         /\ tables' = tables /\ sequence' = sequence /\ iter' = iter /\ call' = call
         /\ last_sequence' = last_sequence + 1 /\ writes' = writes + 1 /\ writes + 1 <= MaxWrites
<1>1. /\ last_sequence \in Nat /\ sequence \in Nat /\ sequence <= last_sequence /\ k \in Nat
      /\ writes \in Nat /\ MaxWrites \in Nat
  <2>1. k \in Nat /\ MaxWrites \in Nat
    BY IteratorAssumption
  <2>2. writes \in Nat
    BY DEF DataOK
  <2>3. QED
    BY <2>1, <2>2, EntryFacts
<1>2. e \in InternalKeys /\ e.user = k /\ e.seq = last_sequence + 1 /\ ~(e.seq <= sequence)
  BY <1>1 DEF InternalKeys
<1>3. /\ mem' = Insert(mem, e, height) /\ tables' = tables /\ sequence' = sequence /\ iter' = iter /\ call' = call
      /\ last_sequence' = last_sequence + 1 /\ writes' = writes + 1 /\ writes < MaxWrites
  BY DEF Write
<1>4. e \notin ListEntries(mem)
  <2>1. ListEntries(mem) \subseteq Entries
    BY DEF Entries
  <2>2. e \notin Entries
    BY <1>1, <1>2, EntryFacts
  <2>3. QED
    BY <2>1, <2>2
<1>5. ListOK(mem') /\ ListEntries(mem') = ListEntries(mem) \cup {e}
  <2>1. ListOK(mem)
    BY DEF DataOK
  <2>2. QED
    BY <1>2, <1>3, <1>4, <2>1, InsertOK
<1>6. Entries' = Entries \cup {e}
  BY <1>3, <1>5 DEF Entries
<1>7. writes + 1 <= MaxWrites
  BY <1>1, <1>3
<1>8. QED
  BY <1>2, <1>3, <1>5, <1>6, <1>7

(* A write takes a new sequence number and a place of its own in the skip  *)
(* list.                                                                   *)
LEMMA WriteKeepsData ==
  ASSUME DataOK, NEW k \in UserKeys, NEW type \in {kTypeDeletion, kTypeValue}, NEW height \in 1 .. MaxHeight,
         Write(k, type, height)
  PROVE  DataOK'
<1>1. PICK e : e = [user |-> k, seq |-> last_sequence + 1, type |-> type]
  OBVIOUS
<1>2. /\ e \in InternalKeys /\ e.user = k /\ e.seq = last_sequence + 1 /\ ~(e.seq <= sequence)
      /\ ListOK(mem') /\ ListEntries(mem') = ListEntries(mem) \cup {e} /\ Entries' = Entries \cup {e}
      /\ tables' = tables /\ sequence' = sequence
      /\ last_sequence' = last_sequence + 1 /\ writes' = writes + 1 /\ writes + 1 <= MaxWrites
  BY <1>1, WriteAdds
<1>3. Width' = Width
  BY <1>2 DEF Width
<1>4. /\ last_sequence \in Nat /\ sequence \in 0 .. last_sequence /\ writes \in 0 .. MaxWrites
      /\ IsFiniteSet(Entries) /\ Len(tables) \in Nat /\ DOMAIN tables = 1 .. Len(tables)
      /\ \A i \in 1 .. Len(tables) : TableOK(tables[i])
  BY DEF DataOK
<1>5. MaxWrites \in Nat
  BY IteratorAssumption
<1>6. ASSUME NEW i \in 1 .. Width, NEW x \in ChildEntries(i)'
      PROVE  x \in ChildEntries(i) \/ (i = 1 /\ x = e)
  BY <1>2 DEF ChildEntries
<1>7. \A i \in 1 .. Width : \A x \in ChildEntries(i) : x \in InternalKeys /\ x.user \in UserKeys /\ x.seq \in 1 .. last_sequence
  BY DEF DataOK
<1>8. ASSUME NEW i \in 1 .. Width, NEW x \in ChildEntries(i)'
      PROVE  x \in InternalKeys /\ x.user \in UserKeys /\ x.seq \in 1 .. last_sequence + 1
  <2>1. CASE x \in ChildEntries(i)
    BY <1>4, <1>7, <2>1
  <2>2. CASE x = e
    BY <1>2, <1>4, <2>2
  <2>3. QED
    BY <1>6, <2>1, <2>2
<1>9. IsFiniteSet(Entries')
  BY <1>2, <1>4, FS_AddElement
<1>10. last_sequence' \in Nat /\ sequence' \in 0 .. last_sequence' /\ writes' \in 0 .. MaxWrites
  BY <1>2, <1>4, <1>5
<1>11. \A i \in 1 .. Width : \A x \in ChildEntries(i)' :
         x \in InternalKeys /\ x.user \in UserKeys /\ x.seq \in 1 .. last_sequence'
  BY <1>2, <1>8
<1>12. Len(tables') \in Nat /\ DOMAIN tables' = 1 .. Len(tables') /\ \A i \in 1 .. Len(tables') : TableOK(tables'[i])
  BY <1>2, <1>4
<1>13. QED
  BY <1>2, <1>3, <1>9, <1>10, <1>11, <1>12 DEF DataOK

(* It changes nothing of what the iterator sees.                           *)
LEMMA WriteKeepsIter ==
  ASSUME DataOK, NEW k \in UserKeys, NEW type \in {kTypeDeletion, kTypeValue}, NEW height \in 1 .. MaxHeight,
         Write(k, type, height)
  PROVE  /\ \A d : (IterOK(d) => IterOK(d)') /\ Key(d)' = Key(d) /\ Value(d)' = Value(d)
         /\ \A x : Newest(x)' = Newest(x)
         /\ VisibleKeys' = VisibleKeys
<1>1. PICK e : e = [user |-> k, seq |-> last_sequence + 1, type |-> type]
  OBVIOUS
<1>2. /\ ~(e.seq <= sequence)
      /\ ListEntries(mem') = ListEntries(mem) \cup {e} /\ Entries' = Entries \cup {e}
      /\ tables' = tables /\ sequence' = sequence
  BY <1>1, WriteAdds
<1>3. Width' = Width
  BY <1>2 DEF Width
<1>4. \A x : Visible(x)' <=> Visible(x)
  BY <1>2 DEF Visible
<1>5. ~Visible(e)
  BY <1>2 DEF Visible
<1>6. ASSUME NEW x PROVE Newest(x)' = Newest(x)
  <2>1. Newest(x)' = {f \in Entries' : f.user = x /\ f.seq <= sequence
                  /\ \A g \in Entries' : g.user = x /\ g.seq <= sequence => g.seq <= f.seq}
    BY <1>2 DEF Newest
  <2>2. Newest(x) = {f \in Entries : f.user = x /\ f.seq <= sequence
                  /\ \A g \in Entries : g.user = x /\ g.seq <= sequence => g.seq <= f.seq}
    BY DEF Newest
  <2>3. QED
    BY <1>2, <2>1, <2>2
<1>7. \A x : OnNewest(x)' <=> OnNewest(x)
  BY <1>6 DEF OnNewest, Newest
<1>8. VisibleKeys' = VisibleKeys
  BY <1>6 DEF VisibleKeys, Newest
<1>9. \A m : MergedKey(m)' = MergedKey(m) /\ ValidChildren(m)' = ValidChildren(m)
  BY <1>2 DEF MergedKey, ChildKey, ValidChildren, ChildValid
<1>10. \A d : Key(d)' = Key(d) /\ Value(d)' = Value(d)
  BY <1>2 DEF Key, Value, MergedKey, ChildKey
<1>11. ASSUME NEW m, MergedShape(m) PROVE MergedShape(m)'
  <2>1. ASSUME NEW i, NEW c, ChildOK(i, c) PROVE ChildOK(i, c)'
    BY <1>2, <2>1 DEF ChildOK
  <2>2. QED
    BY <1>2, <1>11, <2>1 DEF MergedShape, Width, ChildOK
<1>12. ASSUME NEW m, MergedOK(m) PROVE MergedOK(m)'
  <2>1. \A i : \A x : x \in ChildEntries(i)' => x \in ChildEntries(i) \/ x = e
    BY <1>2 DEF ChildEntries
  <2>2. \A i, c : (ChildValid(i, c)' <=> ChildValid(i, c)) /\ ChildKey(i, c)' = ChildKey(i, c)
    BY <1>2 DEF ChildValid, ChildKey
  <2>3. \A x : Ahead(m, x)' <=> Ahead(m, x)
    BY <1>9 DEF Ahead, MergedKey, ChildKey
  <2>4. \A i, x : Nearer(m, i, x)' <=> Nearer(m, i, x)
    BY <1>2 DEF Nearer, ChildKey
  <2>5. MergedShape(m)' /\ m.current \in {0} \cup ValidChildren(m)'
    BY <1>9, <1>11, <1>12 DEF MergedOK
  <2>6. ASSUME MergedValid(m), NEW i \in 1 .. Width, i # m.current
        PROVE  /\ ChildValid(i, m.children[i])' =>
                    Ahead(m, ChildKey(i, m.children[i]))' \/ (ChildKey(i, m.children[i])' = MergedKey(m)' /\ i > m.current)
               /\ \A x \in ChildEntries(i)' : Visible(x)' /\ Ahead(m, x)' =>
                    ChildValid(i, m.children[i])' /\ ~Nearer(m, i, x)'
    <3>1. ChildValid(i, m.children[i]) =>
            Ahead(m, ChildKey(i, m.children[i])) \/ (ChildKey(i, m.children[i]) = MergedKey(m) /\ i > m.current)
      BY <1>12, <2>6 DEF MergedOK
    <3>2. Ahead(m, ChildKey(i, m.children[i]))' <=> Ahead(m, ChildKey(i, m.children[i]))
      BY <1>2 DEF Ahead, MergedKey, ChildKey
    <3>3. /\ ChildValid(i, m.children[i])' <=> ChildValid(i, m.children[i])
          /\ ChildKey(i, m.children[i])' = ChildKey(i, m.children[i]) /\ MergedKey(m)' = MergedKey(m)
      BY <1>9, <2>2
    <3>4. ASSUME NEW x \in ChildEntries(i)', Visible(x), Ahead(m, x)
          PROVE  ChildValid(i, m.children[i]) /\ ~Nearer(m, i, x)
      <4>1. x \in ChildEntries(i)
        BY <1>5, <2>1, <3>4
      <4>2. QED
        BY <1>12, <2>6, <3>4, <4>1 DEF MergedOK
    <3>5. QED
      BY <1>4, <2>3, <2>4, <3>1, <3>2, <3>3, <3>4
  <2>7. QED
    BY <1>3, <2>5, <2>6 DEF MergedOK, MergedValid
<1>13. ASSUME NEW d, Behind(d) PROVE Behind(d)'
  <2>1. MergedKey(d.merged)' = MergedKey(d.merged)
    BY <1>2 DEF MergedKey, ChildKey
  <2>2. \A x \in Entries' : Visible(x) => x \in Entries
    BY <1>2, <1>5
  <2>3. Visible(MergedKey(d.merged))' <=> Visible(MergedKey(d.merged))
    BY <1>2, <2>1 DEF Visible
  <2>4. \E x \in Entries' : OnNewest(x)' /\ x.user = d.saved_key /\ x.seq = d.saved_value
    BY <1>2, <1>7, <1>13 DEF Behind
  <2>5. QED
    BY <1>4, <1>13, <2>1, <2>2, <2>3, <2>4 DEF Behind
<1>14. ASSUME NEW d, IterOK(d) PROVE IterOK(d)'
  <2>1. MergedOK(d.merged)'
    <3>1. PICK m : m = d.merged
      OBVIOUS
    <3>2. MergedOK(m)'
      BY <1>12, <1>14, <3>1 DEF IterOK
    <3>3. QED
      BY <3>1, <3>2
  <2>2. d.valid /\ ~d.forward => Behind(d)'
    BY <1>13, <1>14 DEF IterOK
  <2>3. MergedKey(d.merged)' = MergedKey(d.merged)
    BY <1>2 DEF MergedKey, ChildKey
  <2>4. d.valid /\ d.forward => OnNewest(MergedKey(d.merged))'
    <3>1. ASSUME d.valid /\ d.forward PROVE OnNewest(MergedKey(d.merged))'
      <4>1. PICK x : x = MergedKey(d.merged)
        OBVIOUS
      <4>2. OnNewest(x)'
        BY <1>7, <1>14, <3>1, <4>1 DEF IterOK
      <4>3. QED
        BY <2>3, <4>1, <4>2 DEF OnNewest, Newest
    <3>2. QED
      BY <3>1
  <2>5. QED
    BY <1>14, <2>1, <2>2, <2>4 DEF IterOK
<1>15. QED
  BY <1>6, <1>8, <1>10, <1>14

(* A write keeps the invariant.                                            *)
LEMMA WriteKeeps ==
  ASSUME IterInv, NEW k \in UserKeys, NEW type \in {kTypeDeletion, kTypeValue}, NEW height \in 1 .. MaxHeight,
         Write(k, type, height)
  PROVE  IterInv'
<1>1. DataOK /\ IterOK(iter) /\ CursorExact
  BY DEF IterInv
<1>2. iter' = iter /\ call' = call
  BY DEF Write
<1>3. PICK d : d = iter
  OBVIOUS
<1>4. /\ IterOK(d)' /\ Key(d)' = Key(d) /\ Value(d)' = Value(d)
      /\ \A x : Newest(x)' = Newest(x)
      /\ VisibleKeys' = VisibleKeys
  BY <1>1, <1>3, WriteKeepsIter
<1>5. DataOK'
  BY <1>1, WriteKeepsData
<1>6. \A y \in {iter'} : IterOK(y)'
  BY <1>2, <1>3, <1>4
<1>7. Key(iter)' = Key(iter) /\ Value(iter)' = Value(iter)
  <2>1. tables' = tables
    BY DEF Write
  <2>2. QED
    BY <1>2, <2>1 DEF Key, Value, MergedKey, ChildKey
<1>8. Newest(Key(iter))' = Newest(Key(iter))
  <2>1. PICK x : x = Key(iter)
    OBVIOUS
  <2>2. Newest(Key(iter))' = Newest(x)'
    BY <1>7, <2>1 DEF Newest
  <2>3. QED
    BY <1>4, <2>1, <2>2
<1>9. Expected' = Expected
  BY <1>2, <1>4 DEF Expected
<1>10. CursorExact'
  BY <1>1, <1>2, <1>7, <1>8, <1>9 DEF CursorExact
<1>11. QED
  BY <1>5, <1>6, <1>10 DEF IterInv

-----------------------------------------------------------------------------
(* The length of a function on 1 .. n, whatever its values are.            *)
LEMMA LenOf ==
  ASSUME NEW n \in Nat, NEW f, DOMAIN f = 1 .. n, f = [i \in 1 .. n |-> f[i]]
  PROVE  Len(f) = n
<1> DEFINE S == {f[i] : i \in 1 .. n}
<1>1. f \in [1 .. n -> S]
  OBVIOUS
<1>2. f \in Seq(S)
  BY <1>1, SeqDef
<1>3. Len(f) \in Nat /\ DOMAIN f = 1 .. Len(f)
  BY <1>2, LenProperties
<1>4. QED
  BY <1>3

(* What a content the iterator may find says of its parts.                 *)
LEMMA ContentIs ==
  ASSUME NEW c \in Contents, NEW N, N = Len(c.tables)
  PROVE  /\ N \in Nat /\ Len(c.mem) \in Nat /\ c.last_sequence \in Nat
         /\ c.snapshots \subseteq 0 .. c.last_sequence
         /\ \A p \in 1 .. Len(c.mem) : c.mem[p].entry \in InternalKeys /\ c.mem[p].height \in 1 .. MaxHeight
                                       /\ c.mem[p].entry.user \in UserKeys /\ c.mem[p].entry.seq \in 1 .. c.last_sequence
         /\ \A i \in 1 .. N :
              /\ Len(c.tables[i]) \in Nat \ {0}
              /\ \A p \in 1 .. Len(c.tables[i]) : c.tables[i][p] \in InternalKeys
                   /\ c.tables[i][p].user \in UserKeys /\ c.tables[i][p].seq \in 1 .. c.last_sequence
              /\ \A p, q \in 1 .. Len(c.tables[i]) : p < q => Before(c.tables[i][p], c.tables[i][q])
         /\ \A p, q \in 1 .. Len(c.mem) : c.mem[p].entry = c.mem[q].entry => p = q
<1>1. Content(c)
  BY IteratorAssumption
<1>2. UserKeys \subseteq Nat
  BY IteratorAssumption
<1>3. c.last_sequence \in Nat /\ c.snapshots \subseteq 0 .. c.last_sequence
  BY <1>1 DEF Content
<1>4. ASSUME NEW e \in Written(c)
      PROVE  e \in InternalKeys /\ e.user \in UserKeys /\ e.seq \in 1 .. c.last_sequence
  <2>1. PICK n \in Nat : n = c.last_sequence
    BY <1>3
  <2>2. /\ e = [user |-> e.user, seq |-> e.seq, type |-> e.type]
        /\ e.user \in UserKeys /\ e.seq \in 1 .. n /\ e.type \in {kTypeDeletion, kTypeValue}
    BY <2>1 DEF Written
  <2>3. e.user \in Nat /\ e.seq \in Nat
    BY <1>2, <2>2
  <2>4. e \in InternalKeys
    BY <2>2, <2>3 DEF InternalKeys
  <2>5. QED
    BY <2>1, <2>2, <2>4
<1>5. c.mem \in Seq([entry : Written(c), height : 1 .. MaxHeight])
  BY <1>1 DEF Content
<1>6. /\ Len(c.mem) \in Nat
      /\ \A p \in 1 .. Len(c.mem) : c.mem[p].entry \in Written(c) /\ c.mem[p].height \in 1 .. MaxHeight
  <2>1. Len(c.mem) \in Nat
    BY <1>5, LenProperties
  <2>2. \A p \in 1 .. Len(c.mem) : c.mem[p] \in [entry : Written(c), height : 1 .. MaxHeight]
    BY <1>5, ElementOfSeq
  <2>3. QED
    BY <2>1, <2>2
<1>7. c.tables \in Seq(Seq(Written(c)) \ {<<>>})
  BY <1>1 DEF Content
<1>8. N \in Nat /\ \A i \in 1 .. N : c.tables[i] \in Seq(Written(c)) /\ c.tables[i] # <<>>
  <2>1. N \in Nat
    BY <1>7, LenProperties
  <2>2. \A i \in 1 .. N : c.tables[i] \in Seq(Written(c)) \ {<<>>}
    BY <1>7, ElementOfSeq
  <2>3. QED
    BY <2>1, <2>2
<1>9. ASSUME NEW i \in 1 .. N
      PROVE  Len(c.tables[i]) \in Nat \ {0} /\ \A p \in 1 .. Len(c.tables[i]) : c.tables[i][p] \in Written(c)
  <2>1. Len(c.tables[i]) \in Nat \ {0}
    BY <1>8, EmptySeq
  <2>2. \A p \in 1 .. Len(c.tables[i]) : c.tables[i][p] \in Written(c)
    BY <1>8, ElementOfSeq
  <2>3. QED
    BY <2>1, <2>2
<1>10. ASSUME NEW i \in 1 .. N
       PROVE  \A p, q \in 1 .. Len(c.tables[i]) : p < q => Before(c.tables[i][p], c.tables[i][q])
  BY <1>1 DEF Content
<1>11. \A p, q \in 1 .. Len(c.mem) : c.mem[p].entry = c.mem[q].entry => p = q
  BY <1>1 DEF Content
<1>12. QED
  BY <1>3, <1>4, <1>6, <1>8, <1>9, <1>10, <1>11

(* What NewIterator finds.                                                 *)
LEMMA InitData ==
  ASSUME NEW c \in Contents, NEW shorten \in BOOLEAN, mem = Inserted(c.mem),
         tables = [i \in 1 .. Len(c.tables) |-> BuildTable(shorten, c.tables[i])],
         last_sequence = c.last_sequence, sequence \in c.snapshots, writes = 0
  PROVE  DataOK
<1>1. PICK N : N = Len(c.tables)
  OBVIOUS
<1>2. PICK M : M = Len(c.mem)
  OBVIOUS
<1>3. /\ N \in Nat /\ M \in Nat /\ c.last_sequence \in Nat
      /\ c.snapshots \subseteq 0 .. c.last_sequence
      /\ \A p \in 1 .. M : c.mem[p].entry \in InternalKeys /\ c.mem[p].height \in 1 .. MaxHeight
                           /\ c.mem[p].entry.user \in UserKeys /\ c.mem[p].entry.seq \in 1 .. c.last_sequence
      /\ \A i \in 1 .. N :
           /\ Len(c.tables[i]) \in Nat \ {0}
           /\ \A p \in 1 .. Len(c.tables[i]) : c.tables[i][p] \in InternalKeys
                /\ c.tables[i][p].user \in UserKeys /\ c.tables[i][p].seq \in 1 .. c.last_sequence
           /\ \A p, q \in 1 .. Len(c.tables[i]) : p < q => Before(c.tables[i][p], c.tables[i][q])
  BY <1>1, <1>2, ContentIs
<1>4. \A p, q \in 1 .. M : c.mem[p].entry = c.mem[q].entry => p = q
  BY <1>1, <1>2, ContentIs
<1>5. ListOK(mem) /\ ListEntries(mem) = {c.mem[p].entry : p \in 1 .. M}
  <2>1. PICK nodes : nodes = c.mem
    OBVIOUS
  <2>2. /\ \A p \in 1 .. M : nodes[p].entry \in InternalKeys /\ nodes[p].height \in 1 .. MaxHeight
        /\ \A p, q \in 1 .. M : nodes[p].entry = nodes[q].entry => p = q
        /\ M = Len(nodes)
    BY <1>2, <1>3, <1>4, <2>1
  <2>3. ListOK(Inserted(nodes)) /\ ListEntries(Inserted(nodes)) = {nodes[p].entry : p \in 1 .. M}
    BY <1>3, <2>2, InsertedOK
  <2>4. QED
    BY <2>1, <2>3
<1>6. ASSUME NEW i \in 1 .. N
      PROVE  TableOK(tables[i]) /\ TableEntries(tables[i]) = {c.tables[i][p] : p \in 1 .. Len(c.tables[i])}
  <2>1. tables[i] = BuildTable(shorten, c.tables[i])
    BY <1>1
  <2>2. PICK entries : entries = c.tables[i]
    OBVIOUS
  <2>3. PICK n \in Nat \ {0} : n = Len(entries)
    BY <1>3, <2>2
  <2>4. /\ \A p \in 1 .. n : entries[p] \in InternalKeys
        /\ \A p, q \in 1 .. n : p < q => Before(entries[p], entries[q])
    BY <1>3, <2>2, <2>3
  <2>5. /\ TableOK(BuildTable(shorten, entries))
        /\ TableEntries(BuildTable(shorten, entries)) = {entries[p] : p \in 1 .. n}
    BY <2>3, <2>4, TableBuilt
  <2>6. QED
    BY <2>1, <2>2, <2>3, <2>5
<1>7. DOMAIN tables = 1 .. N /\ Len(tables) = N
  <2>1. DOMAIN tables = 1 .. N /\ tables = [i \in 1 .. N |-> tables[i]]
    BY <1>1
  <2>2. PICK f : f = tables
    OBVIOUS
  <2>3. Len(f) = N
    BY <1>3, <2>1, <2>2, LenOf
  <2>4. QED
    BY <2>1, <2>2, <2>3
<1>8. Width = N + 1
  BY <1>7 DEF Width
<1>9. ASSUME NEW i \in 1 .. N + 1
      PROVE  /\ i = 1 => ChildEntries(i) = {c.mem[p].entry : p \in 1 .. M}
             /\ i # 1 => /\ i - 1 \in 1 .. N
                         /\ ChildEntries(i) = {c.tables[i - 1][p] : p \in 1 .. Len(c.tables[i - 1])}
  <2>1. i # 1 => i - 1 \in 1 .. N
    BY <1>3
  <2>2. QED
    BY <1>5, <1>6, <2>1 DEF ChildEntries
<1>10. IsFiniteSet(Entries)
  <2>1. IsFiniteSet(ListEntries(mem))
    <3>1. PICK f : f = [p \in 1 .. M |-> c.mem[p].entry]
      OBVIOUS
    <3>2. IsFiniteSet(1 .. M)
      BY <1>3, FS_Interval
    <3>3. DOMAIN f = 1 .. M /\ \A y \in ListEntries(mem) : \E p \in 1 .. M : y = f[p]
      BY <1>5, <3>1
    <3>4. QED
      BY <3>2, <3>3, FiniteImage
  <2>2. ASSUME NEW i \in 1 .. N PROVE IsFiniteSet(TableEntries(tables[i]))
    <3>1. PICK f : f = [p \in 1 .. Len(c.tables[i]) |-> c.tables[i][p]]
      OBVIOUS
    <3>2. PICK n \in Nat : n = Len(c.tables[i])
      BY <1>3
    <3>3. IsFiniteSet(1 .. n)
      BY FS_Interval
    <3>4. DOMAIN f = 1 .. n /\ \A y \in TableEntries(tables[i]) : \E p \in 1 .. n : y = f[p]
      BY <1>6, <3>1, <3>2
    <3>5. PICK T : T = TableEntries(tables[i])
      OBVIOUS
    <3>6. PICK X : X = 1 .. n
      OBVIOUS
    <3>7. IsFiniteSet(X) /\ DOMAIN f = X /\ \A y \in T : \E p \in X : y = f[p]
      BY <3>3, <3>4, <3>5, <3>6
    <3>8. IsFiniteSet(T)
      BY <3>7, FiniteImage
    <3>9. QED
      BY <3>5, <3>8
  <2> DEFINE U == {TableEntries(tables[i]) : i \in DOMAIN tables}
  <2>3. IsFiniteSet(U)
    <3>1. PICK f : f = [i \in 1 .. N |-> TableEntries(tables[i])]
      OBVIOUS
    <3>2. IsFiniteSet(1 .. N)
      BY <1>3, FS_Interval
    <3>3. DOMAIN f = 1 .. N /\ \A y \in U : \E i \in 1 .. N : y = f[i]
      BY <1>7, <3>1
    <3> HIDE DEF U
    <3>4. QED
      BY <3>2, <3>3, FiniteImage
  <2>4. \A T \in U : IsFiniteSet(T)
    BY <1>7, <2>2
  <2>5. Entries = ListEntries(mem) \cup UNION U
    BY DEF Entries
  <2> HIDE DEF U
  <2>6. IsFiniteSet(UNION U)
    BY <2>3, <2>4, FS_UNION
  <2>7. QED
    BY <2>1, <2>5, <2>6, FS_Union
<1>11. /\ last_sequence \in Nat /\ sequence \in 0 .. last_sequence /\ writes \in 0 .. MaxWrites
  <2>1. MaxWrites \in Nat
    BY IteratorAssumption
  <2>2. QED
    BY <1>3, <2>1
<1>12. ASSUME NEW i \in 1 .. N + 1, NEW e \in ChildEntries(i)
       PROVE  e \in InternalKeys /\ e.user \in UserKeys /\ e.seq \in 1 .. last_sequence
  <2>1. CASE i = 1
    BY <1>3, <1>9, <2>1
  <2>2. CASE i # 1
    <3>1. PICK h \in 1 .. N : h = i - 1
      BY <1>9, <2>2
    <3>2. PICK p \in 1 .. Len(c.tables[h]) : e = c.tables[h][p]
      BY <1>9, <2>2, <3>1
    <3>3. QED
      BY <1>3, <3>2
  <2>3. QED
    BY <2>1, <2>2
<1>13. QED
  BY <1>3, <1>5, <1>6, <1>7, <1>8, <1>10, <1>11, <1>12 DEF DataOK

(* The initial states satisfy the invariant.                               *)
LEMMA InitOK == Init => IterInv
<1> SUFFICES ASSUME Init PROVE IterInv
  OBVIOUS
<1>1. PICK c \in Contents, shorten \in BOOLEAN :
        /\ mem = Inserted(c.mem) /\ tables = [i \in 1 .. Len(c.tables) |-> BuildTable(shorten, c.tables[i])]
        /\ last_sequence = c.last_sequence /\ sequence \in c.snapshots
  BY DEF Init
<1>2. writes = 0 /\ iter = NewIterator /\ call.name = "none"
  BY DEF Init
<1>3. DataOK
  BY <1>1, <1>2, InitData
<1>4. PICK d : d = NewIterator
  OBVIOUS
<1>5. PICK m : m = d.merged
  OBVIOUS
<1>6. PICK W : W = Width
  OBVIOUS
<1>7. W \in Nat /\ Len(tables) + 1 = W
  BY <1>3, <1>6 DEF DataOK, Width
<1>8. /\ d = [merged |-> m, forward |-> TRUE, valid |-> FALSE, saved_key |-> None, saved_value |-> None]
      /\ m = [children |-> m.children, current |-> 0, forward |-> TRUE]
      /\ m.children = [i \in 1 .. W |-> IF i = 1 THEN Nil ELSE NewTableIterator(tables[i - 1])]
  BY <1>4, <1>5, <1>7 DEF NewIterator
<1>9. ASSUME NEW i \in 1 .. W PROVE ChildOK(i, m.children[i])
  <2>1. CASE i = 1
    BY <1>8, <2>1 DEF ChildOK
  <2>2. CASE i # 1
    <3>1. i - 1 \in 1 .. Len(tables) /\ TableOK(tables[i - 1])
      BY <1>3, <1>7, <2>2 DEF DataOK
    <3>2. TableItOK(tables[i - 1], NewTableIterator(tables[i - 1]))
      BY <3>1, NewTableIteratorOK
    <3>3. QED
      BY <1>8, <2>2, <3>2 DEF ChildOK
  <2>3. QED
    BY <2>1, <2>2
<1>10. MergedShape(m)
  <2>1. m.children = [i \in 1 .. W |-> m.children[i]]
    BY <1>8
  <2>2. m = [children |-> m.children, current |-> m.current, forward |-> m.forward] /\ m.forward \in BOOLEAN
    <3>1. PICK c0 : c0 = m.children
      OBVIOUS
    <3>2. m = [children |-> c0, current |-> 0, forward |-> TRUE]
      BY <1>8, <3>1
    <3>3. QED
      BY ONLY <3>2
  <2>3. QED
    BY <1>6, <1>9, <2>1, <2>2 DEF MergedShape
<1>11. m.current = 0
  BY <1>8
<1>12. MergedOK(m)
  BY <1>10, <1>11 DEF MergedOK, MergedValid
<1>13. /\ d = [merged |-> d.merged, forward |-> d.forward, valid |-> d.valid,
               saved_key |-> d.saved_key, saved_value |-> d.saved_value]
       /\ d.forward \in BOOLEAN /\ d.valid = FALSE /\ d.merged = m
  BY <1>8
<1>14. IterOK(d)
  BY <1>12, <1>13 DEF IterOK
<1>15. CursorExact
  BY <1>2 DEF CursorExact
<1>16. QED
  BY <1>2, <1>3, <1>4, <1>14, <1>15 DEF IterInv

(* Every step of the iterator keeps it.                                    *)
LEMMA StepKeeps == IterInv /\ [Next]_vars => IterInv'
<1> SUFFICES ASSUME IterInv, [Next]_vars PROVE IterInv'
  OBVIOUS
<1>1. CASE Next_
  <2>1. 0 \in Nat
    OBVIOUS
  <2>2. QED
    BY <1>1, <2>1, MovesKeep
<1>2. CASE Prev
  <2>1. 0 \in Nat
    OBVIOUS
  <2>2. QED
    BY <1>2, <2>1, MovesKeep
<1>3. CASE SeekToFirst
  <2>1. 0 \in Nat
    OBVIOUS
  <2>2. QED
    BY <1>3, <2>1, MovesKeep
<1>4. CASE SeekToLast
  <2>1. 0 \in Nat
    OBVIOUS
  <2>2. QED
    BY <1>4, <2>1, MovesKeep
<1>5. CASE \E target \in Targets : Seek(target)
  <2>1. PICK target \in Targets : Seek(target)
    BY <1>5
  <2>2. target \in Nat
    BY <2>1, IteratorAssumption
  <2>3. QED
    BY <2>1, <2>2, MovesKeep
<1>6. CASE \E k \in UserKeys, type \in {kTypeDeletion, kTypeValue}, height \in 1 .. MaxHeight : Write(k, type, height)
  <2>1. PICK k \in UserKeys, type \in {kTypeDeletion, kTypeValue}, height \in 1 .. MaxHeight : Write(k, type, height)
    BY <1>6
  <2>2. QED
    BY <2>1, WriteKeeps
<1>7. CASE UNCHANGED vars
  <2>1. /\ mem' = mem /\ tables' = tables /\ sequence' = sequence /\ iter' = iter /\ call' = call
        /\ last_sequence' = last_sequence /\ writes' = writes
    BY <1>7 DEF vars
  <2>2. /\ Entries' = Entries /\ VisibleKeys' = VisibleKeys /\ \A k : Newest(k)' = Newest(k)
        /\ \A d : (IterOK(d)' <=> IterOK(d)) /\ Key(d)' = Key(d) /\ Value(d)' = Value(d)
    BY <2>1, SameData
  <2>3. DataOK'
    BY <2>1, <2>2 DEF IterInv, DataOK, ChildEntries, Width
  <2>4. \A d \in {iter'} : IterOK(d)'
    BY <2>1, <2>2 DEF IterInv
  <2>5. CursorExact'
    <3>1. Key(iter)' = Key(iter) /\ Value(iter)' = Value(iter)
      BY <2>1 DEF Key, Value, MergedKey, ChildKey
    <3>2. Expected' = Expected
      BY <2>1, <2>2 DEF Expected
    <3>3. Newest(Key(iter))' = Newest(Key(iter))
      BY <2>1, <2>2, <3>1 DEF Newest
    <3>4. QED
      BY <2>1, <3>1, <3>2, <3>3 DEF IterInv, CursorExact
  <2>6. QED
    BY <2>3, <2>4, <2>5 DEF IterInv
<1>8. QED
  BY <1>1, <1>2, <1>3, <1>4, <1>5, <1>6, <1>7 DEF Next

(* The invariant holds, for any memtable and tables NewIterator may find,  *)
(* any keys, heights of nodes, sizes of blocks, restart intervals and      *)
(* separators, any snapshot, any number of writes and any sequence of      *)
(* calls.                                                                  *)
THEOREM IterInvariance == Spec => []IterInv
<1>1. Init => IterInv
  BY InitOK
<1>2. IterInv /\ [Next]_vars => IterInv'
  BY StepKeeps
<1>3. QED
  BY <1>1, <1>2, PTL DEF Spec

(* DBIter is a cursor over the keys of its snapshot: after every call it   *)
(* is at the key such a cursor would be at and shows the newest value of   *)
(* that key, but for a Next in the window Repeats (db_iter.cc 47-212).     *)
(* Any entry may be in any number of tables, as after a flush and a reopen.*)
THEOREM CursorAlwaysExact == Spec => []CursorExact
<1>1. IterInv => CursorExact
  BY DEF IterInv
<1>2. QED
  BY <1>1, IterInvariance, PTL

-----------------------------------------------------------------------------
(* The theorems.                                                           *)

(* What MergedOK says of each child, NothingSkipped says of the children.  *)
LEMMA InvSkips == IterInv => NothingSkipped
<1> SUFFICES ASSUME IterInv PROVE NothingSkipped
  OBVIOUS
<1>1. PICK m : m = iter.merged
  OBVIOUS
<1>2. MergedOK(m)
  BY <1>1 DEF IterInv, IterOK
<1>3. DOMAIN m.children = 1 .. Width
  BY <1>2 DEF MergedOK, MergedShape
<1>4. ASSUME MergedValid(m), NEW i \in DOMAIN m.children, i # m.current
      PROVE  /\ ChildValid(i, m.children[i]) =>
                  Ahead(m, ChildKey(i, m.children[i])) \/ (ChildKey(i, m.children[i]) = MergedKey(m) /\ i > m.current)
             /\ \A e \in ChildEntries(i) : e.seq <= sequence /\ Ahead(m, e) =>
                  ChildValid(i, m.children[i]) /\ ~Nearer(m, i, e)
  BY <1>2, <1>3, <1>4 DEF MergedOK, Visible
<1>5. QED
  BY <1>1, <1>4 DEF NothingSkipped, Ahead, Nearer

(* The types follow from the invariant.                                    *)
LEMMA InvTypes == IterInv => TypeOK
<1> SUFFICES ASSUME IterInv PROVE TypeOK
  OBVIOUS
<1>1. PICK d : d = iter
  OBVIOUS
<1>2. PICK m : m = d.merged
  OBVIOUS
<1>3. DataOK /\ IterOK(d) /\ MergedOK(m) /\ MergedShape(m)
  BY <1>1, <1>2 DEF IterInv, IterOK, MergedOK
<1>4. /\ \A e \in Entries : e.user \in UserKeys /\ e.user \in Nat /\ e.seq \in 1 .. last_sequence
                            /\ e.seq \in Nat /\ e.type \in {0, 1}
      /\ last_sequence \in Nat /\ sequence \in Nat /\ Width \in Nat
  BY <1>3, EntryFacts DEF kTypeDeletion, kTypeValue
<1>5. sequence \in 0 .. last_sequence /\ writes \in 0 .. MaxWrites
  BY <1>3 DEF DataOK
<1>6. DOMAIN m.children = 1 .. Width /\ m.children = [i \in 1 .. Width |-> m.children[i]]
  BY <1>3 DEF MergedShape
<1>7. Len(m.children) = Len(tables) + 1
  <2>1. PICK W \in Nat : W = Width
    BY <1>4
  <2>2. PICK f : f = m.children
    OBVIOUS
  <2>3. DOMAIN f = 1 .. W /\ f = [i \in 1 .. W |-> f[i]]
    BY <1>6, <2>1, <2>2
  <2>4. Len(f) = W
    BY <2>3, LenOf
  <2>5. QED
    BY <2>1, <2>2, <2>4 DEF Width
<1>8. ASSUME NEW i \in DOMAIN m.children, ChildValid(i, m.children[i])
      PROVE  ChildKey(i, m.children[i]) \in Entries
  <2>1. i \in 1 .. Width
    BY <1>6
  <2>2. PICK c : c = m.children[i]
    OBVIOUS
  <2>3. ChildOK(i, c) /\ ChildValid(i, c)
    BY <1>3, <1>8, <2>1, <2>2 DEF MergedShape
  <2>4. ChildKey(i, c) \in Entries
    BY <1>3, <2>1, <2>3, ChildKeyIs
  <2>5. QED
    BY <2>2, <2>4
<1>9. m.current \in {0} \cup ValidChildren(m)
  BY <1>3 DEF MergedOK
<1>10. d.valid /\ d.forward => MergedValid(m)
  BY <1>2, <1>3 DEF IterOK
<1>11. ASSUME d.valid, ~d.forward PROVE d.saved_key \in UserKeys /\ d.saved_value \in 1 .. sequence
  <2>1. Behind(d)
    BY <1>3, <1>11 DEF IterOK
  <2>2. PICK e \in Entries : OnNewest(e) /\ e.user = d.saved_key /\ e.seq = d.saved_value
    BY <2>1 DEF Behind
  <2>3. e.seq <= sequence
    BY <2>2 DEF OnNewest, Newest
  <2>4. PICK s : s = e.seq
    OBVIOUS
  <2>5. s \in Nat /\ s \in 1 .. last_sequence /\ s <= sequence
    BY <1>4, <2>3, <2>4
  <2>6. s \in 1 .. sequence
    BY <1>4, <2>5
  <2>7. QED
    BY <1>4, <2>2, <2>4, <2>6
<1>12. \A e \in Entries : e.user \in UserKeys /\ e.seq \in 1 .. last_sequence /\ e.type \in {0, 1}
  BY <1>4
<1>13. QED
  BY <1>1, <1>2, <1>5, <1>7, <1>8, <1>9, <1>10, <1>11, <1>12 DEF TypeOK

(* FirstFrom is the entry IsFirst speaks of.                               *)
LEMMA FirstFromIs ==
  ASSUME NEW S, S \subseteq InternalKeys, NEW target, NEW x, IsFirst(x, {e \in S : ~Before(e, target)})
  PROVE  FirstFrom(S, target) = x
<1>1. PICK R : R = {e \in S : ~Before(e, target)}
  OBVIOUS
<1>2. R \subseteq InternalKeys /\ IsFirst(x, R)
  BY <1>1
<1>3. CASE R = {}
  BY <1>1, <1>2, <1>3 DEF FirstFrom, IsFirst
<1>4. CASE R # {}
  <2>1. x \in R /\ \A f \in R \ {x} : Before(x, f)
    BY <1>2, <1>4 DEF IsFirst
  <2>2. PICK y : y = CHOOSE e \in R : \A f \in R \ {e} : Before(e, f)
    OBVIOUS
  <2>3. y \in R /\ \A f \in R \ {y} : Before(y, f)
    BY <2>1, <2>2
  <2>4. IsFirst(y, R)
    BY <2>3 DEF IsFirst
  <2>5. x = y
    BY <1>2, <2>4, FirstUnique
  <2>6. FirstFrom(S, target) = y
    BY <1>1, <1>4, <2>2 DEF FirstFrom
  <2>7. QED
    BY <2>5, <2>6
<1>5. QED
  BY <1>3, <1>4

(* Every search is exact while the invariant holds.                        *)
LEMMA InvSearches == IterInv => SearchExact
<1> SUFFICES ASSUME IterInv, NEW k \in Targets, NEW seq \in {1, sequence}, NEW target, target = LookupKey(k, seq)
             PROVE  /\ FindGreaterOrEqual(mem, target) = FirstFrom(ListEntries(mem), target)
                    /\ \A i \in DOMAIN tables :
                         LET t     == tables[i]
                             first == FirstFrom(TableEntries(t), target)
                             s     == TableSeek(t, iter.merged.children[i + 1], target)
                             found == InternalGet(t, target)
                         IN /\ IF TableValid(t, s) THEN TableKey(t, s) = first ELSE first = Nil
                            /\ IF first # Nil /\ first.user = k THEN found = first
                               ELSE found # Nil => found.user # k
  BY DEF SearchExact
<1>1. PICK m : m = iter.merged
  OBVIOUS
<1>2. DataOK /\ MergedShape(m) /\ Len(tables) \in Nat /\ DOMAIN tables = 1 .. Len(tables)
  BY <1>1 DEF IterInv, IterOK, MergedOK, DataOK
<1>3. target \in InternalKeys /\ target.user = k
  <2>1. k \in Nat
    BY IteratorAssumption
  <2>2. seq \in Nat
    BY <1>2, EntryFacts
  <2>3. QED
    BY <2>1, <2>2 DEF LookupKey, InternalKeys
<1>4. FindGreaterOrEqual(mem, target) = FirstFrom(ListEntries(mem), target)
  <2>1. PICK list : list = mem
    OBVIOUS
  <2>2. ListOK(list) /\ ListEntries(list) \subseteq InternalKeys
    <3>1. 1 \in 1 .. Width
      BY <1>2 DEF Width
    <3>2. ChildEntries(1) \subseteq InternalKeys /\ ListOK(mem)
      BY <1>2, <3>1, EntryFacts DEF DataOK
    <3>3. QED
      BY <2>1, <3>2 DEF ChildEntries
  <2>3. IsFirst(FindGreaterOrEqual(list, target), {e \in ListEntries(list) : ~Before(e, target)})
    BY <1>3, <2>2, ListSearch
  <2>4. FirstFrom(ListEntries(list), target) = FindGreaterOrEqual(list, target)
    BY <2>2, <2>3, FirstFromIs
  <2>5. QED
    BY <2>1, <2>4
<1>5. ASSUME NEW i \in DOMAIN tables, NEW t, t = tables[i],
             NEW first, first = FirstFrom(TableEntries(t), target),
             NEW s, s = TableSeek(t, m.children[i + 1], target), NEW found, found = InternalGet(t, target)
      PROVE  /\ IF TableValid(t, s) THEN TableKey(t, s) = first ELSE first = Nil
             /\ IF first # Nil /\ first.user = k THEN found = first ELSE found # Nil => found.user # k
  <2>1. TableOK(t) /\ TableEntries(t) \subseteq InternalKeys
    <3>1. TableOK(t)
      BY <1>2, <1>5 DEF DataOK
    <3>2. QED
      BY <3>1, TableKeys
  <2>2. PICK it : it = m.children[i + 1]
    OBVIOUS
  <2>3. TableItOK(t, it)
    <3>1. i + 1 \in 1 .. Width /\ i + 1 # 1 /\ (i + 1) - 1 = i
      BY <1>2 DEF Width
    <3>2. PICK j : j = i + 1
      OBVIOUS
    <3>3. ChildOK(j, m.children[j]) /\ j # 1 /\ tables[j - 1] = t /\ m.children[j] = it
      BY <1>2, <1>5, <2>2, <3>1, <3>2 DEF MergedShape
    <3>4. QED
      BY <3>3 DEF ChildOK
  <2>4. s = TableSeek(t, it, target)
    BY <1>5, <2>2
  <2>5. IsFirst(TableAt(t, s), {e \in TableEntries(t) : ~Before(e, target)})
    BY <1>3, <2>1, <2>3, <2>4, TableSeekIs
  <2>6. first = TableAt(t, s)
    BY <1>5, <2>1, <2>5, FirstFromIs
  <2>7. TableValid(t, s) => TableKey(t, s) = first
    BY <2>6 DEF TableAt
  <2>8. ~TableValid(t, s) => first = Nil
    BY <2>6 DEF TableAt
  <2>9. found = first \/ (found = Nil /\ first # Nil /\ first.user # target.user)
    BY <1>3, <1>5, <2>1, <2>5, <2>6, InternalGetIs
  <2>10. QED
    BY <1>3, <2>7, <2>8, <2>9
<1>6. QED
  BY <1>1, <1>4, <1>5

(* Entries, children and the saved key and value of DBIter are what they   *)
(* are taken for.                                                          *)
THEOREM TypeCorrect == Spec => []TypeOK
<1>1. QED
  BY InvTypes, IterInvariance, PTL

(* MergingIterator's children stand on the far side of its key, each at    *)
(* its nearest entry the snapshot sees there, or, after the current child, *)
(* on a copy of its key: whatever turns and writes come between, the       *)
(* iterator steps over no entry, comes back to none and leaves every copy  *)
(* (merger.cc 50-120).                                                     *)
THEOREM NothingEverSkipped == Spec => []NothingSkipped
<1>1. QED
  BY InvSkips, IterInvariance, PTL

(* Every search of the memtable and of a table finds the first entry from  *)
(* its target on, and the one block that Table::InternalGet reads is the   *)
(* one that has the entry it looks for (skiplist.cc 100-130, block.cc      *)
(* 84-116, table.cc 170-197).                                              *)
THEOREM SearchesExact == Spec => []SearchExact
<1>1. QED
  BY InvSearches, IterInvariance, PTL
=============================================================================
