---------------------------- MODULE NumberLemmas ----------------------------
(***************************************************************************)
(* Least and largest numbers, induction, iteration and sums, in the form   *)
(* that the proofs of this project use, and remainders.  A predicate is a  *)
(* set here, and an induction a search for the least counterexample.       *)
(***************************************************************************)
EXTENDS Naturals, FiniteSetsExt, Functions, TLAPS, WellFoundedInduction, FiniteSetTheorems

Less == {p \in Nat \X Nat : p[1] < p[2]}

(* Every set of numbers has a least one.                                   *)
LEMMA Smallest ==
  ASSUME NEW T, T \subseteq Nat, T # {}
  PROVE  \E m \in T : \A k \in T : m <= k
<1>1. IsWellFoundedOn(Less, Nat)
  BY ONLY NatLessThanWellFounded, Zenon DEF OpToRel, Less
<1>2. PICK m \in T : \A k \in T : ~(<<k, m>> \in Less)
  BY WFMin, <1>1
<1>3. ASSUME NEW k \in T PROVE m <= k
  <2>1. k \in Nat /\ m \in Nat /\ ~(<<k, m>> \in Less)
    BY <1>2
  <2>2. ~(k < m)
    BY <2>1 DEF Less
  <2>3. QED
    BY <2>1, <2>2
<1>4. QED
  BY <1>3

(* What Min gives on numbers.                                              *)
LEMMA LeastInSet ==
  ASSUME NEW T, T \subseteq Nat, T # {}
  PROVE  Min(T) \in T /\ \A k \in T : Min(T) <= k
BY Smallest DEF Min

(* A finite set of numbers is bounded: no smallest set is not.             *)
LEMMA Bounded ==
  ASSUME NEW T, T \subseteq Nat, IsFiniteSet(T)
  PROVE  \E b \in Nat : \A k \in T : k <= b
<1> DEFINE Unbounded == {U \in FiniteSubsetsOf(T) : ~\E b \in Nat : \A k \in U : k <= b}
<1>1. SUFFICES ASSUME Unbounded # {} PROVE FALSE
  BY DEF FiniteSubsetsOf
<1>2. PICK U \in Unbounded : \A V \in Unbounded : ~(<<V, U>> \in StrictSubsetOrdering(T))
  <2>1. IsWellFoundedOn(StrictSubsetOrdering(T), FiniteSubsetsOf(T))
    BY FS_StrictSubsetOrderingWellFounded
  <2>2. QED
    BY <1>1, <2>1, WFMin
<1>3. U \subseteq T /\ IsFiniteSet(U) /\ ~\E b \in Nat : \A k \in U : k <= b
  BY DEF FiniteSubsetsOf
<1>4. PICK x \in U : TRUE
  BY <1>3
<1>5. U \ {x} \in FiniteSubsetsOf(T)
  BY <1>3, FS_RemoveElement DEF FiniteSubsetsOf
<1>6. <<U \ {x}, U>> \in StrictSubsetOrdering(T)
  BY <1>3, <1>4 DEF StrictSubsetOrdering
<1>7. PICK b \in Nat : \A k \in U \ {x} : k <= b
  BY <1>2, <1>5, <1>6
<1>8. x \in Nat
  BY <1>3, <1>4
<1>9. \A k \in U : k <= b + x
  BY <1>3, <1>7, <1>8
<1>10. QED
  BY <1>3, <1>8, <1>9

(* What Max gives on a finite set of numbers: some number bounds the set,  *)
(* and the smallest such number is in it.                                  *)
LEMMA LargestInSet ==
  ASSUME NEW T, T \subseteq Nat, T # {}, IsFiniteSet(T)
  PROVE  Max(T) \in T /\ \A k \in T : k <= Max(T)
<1> DEFINE Bounds == {b \in Nat : \A k \in T : k <= b}
<1>1. PICK b \in Bounds : \A c \in Bounds : b <= c
  BY Bounded, Smallest
<1>2. b \in T
  <2>1. SUFFICES ASSUME b \notin T PROVE FALSE
    OBVIOUS
  <2>2. \A k \in T : k \in Nat /\ k <= b /\ k # b
    BY <1>1, <2>1
  <2>3. b # 0
    <3>1. PICK k \in T : TRUE
      OBVIOUS
    <3>2. QED
      BY <2>2, <3>1
  <2>4. b - 1 \in Bounds
    <3>1. \A k \in T : k <= b - 1
      BY <1>1, <2>2
    <3>2. b - 1 \in Nat
      BY <1>1, <2>3
    <3>3. QED
      BY <3>1, <3>2
  <2>5. b <= b - 1
    BY <1>1, <2>4
  <2>6. QED
    BY <1>1, <2>5
<1>3. \E m \in T : \A k \in T : m >= k
  BY <1>1, <1>2
<1>4. Max(T) \in T /\ \A k \in T : Max(T) >= k
  BY <1>3 DEF Max
<1>5. QED
  BY <1>4

-----------------------------------------------------------------------------
(* Induction up to n: a set with 0 and with every successor has them all,  *)
(* for there is no least number that it misses.                            *)
LEMMA UpTo ==
  ASSUME NEW n \in Nat, NEW T, 0 \in T, \A i \in 1 .. n : i - 1 \in T => i \in T
  PROVE  \A i \in 0 .. n : i \in T
<1> DEFINE Missed == {i \in 0 .. n : i \notin T}
<1>1. SUFFICES ASSUME Missed # {} PROVE FALSE
  OBVIOUS
<1>2. PICK i \in Missed : \A k \in Missed : i <= k
  <2>1. Missed \subseteq Nat
    OBVIOUS
  <2> HIDE DEF Missed
  <2>2. QED
    BY <1>1, <2>1, Smallest
<1>3. i \in 1 .. n /\ i - 1 \in 0 .. n
  BY <1>2
<1>4. i - 1 \notin Missed
  BY <1>2, <1>3
<1>5. QED
  BY <1>2, <1>3, <1>4

(* r is what a loop with turn g makes of a in up to n turns.               *)
Turns(r, n, g, a) == r[0] = a /\ \A i \in 1 .. n : r[i] = g[r[i - 1]]

(* A loop can make any number of turns.                                    *)
LEMMA TurnsExist ==
  ASSUME NEW D, NEW g \in [D -> D], NEW a \in D, NEW n \in Nat
  PROVE  \E r : Turns(r, n, g, a) /\ \A i \in 0 .. n : r[i] \in D
<1> DEFINE T == {m \in Nat : \E r : Turns(r, m, g, a) /\ \A i \in 0 .. m : r[i] \in D}
<1>1. 0 \in T
  <2> DEFINE r == [i \in 0 .. 0 |-> a]
  <2>1. Turns(r, 0, g, a) /\ \A i \in 0 .. 0 : r[i] \in D
    BY DEF Turns
  <2>2. QED
    BY <2>1
<1>2. ASSUME NEW m \in 1 .. n, m - 1 \in T PROVE m \in T
  <2>1. PICK r : Turns(r, m - 1, g, a) /\ \A i \in 0 .. m - 1 : r[i] \in D
    BY <1>2
  <2> DEFINE s == [i \in 0 .. m |-> IF i = m THEN g[r[m - 1]] ELSE r[i]]
  <2>2. g[r[m - 1]] \in D
    BY <2>1
  <2>3. \A i \in 0 .. m - 1 : s[i] = r[i]
    OBVIOUS
  <2>4. s[m] = g[s[m - 1]] /\ s[m] \in D
    BY <2>2, <2>3
  <2>5. \A i \in 1 .. m : s[i] = g[s[i - 1]]
    BY <2>1, <2>3, <2>4 DEF Turns
  <2>6. s[0] = a /\ \A i \in 0 .. m : s[i] \in D
    BY <2>1, <2>3, <2>4 DEF Turns
  <2> HIDE DEF s
  <2>7. Turns(s, m, g, a)
    BY <2>5, <2>6 DEF Turns
  <2>8. QED
    BY <2>6, <2>7
<1>3. n \in T
  <2> HIDE DEF T
  <2>1. QED
    BY <1>1, <1>2, UpTo
<1>4. QED
  BY <1>3

(* The values of a function on a finite set are finitely many.             *)
LEMMA FiniteImage ==
  ASSUME NEW S, IsFiniteSet(S), NEW f, DOMAIN f = S, NEW T, \A y \in T : \E x \in S : y = f[x]
  PROVE  IsFiniteSet(T)
<1> DEFINE R == {f[x] : x \in S}
           g == [x \in S |-> f[x]]
<1>1. g \in Surjection(S, R)
  BY DEF Surjection
<1>2. IsFiniteSet(R)
  BY <1>1, FS_Surjection
<1>3. QED
  BY <1>2, FS_Subset

(* A set between fs and fs \cup L, by the number of elements it adds.      *)
LEMMA Added ==
  ASSUME NEW L, IsFiniteSet(L), NEW fs, NEW x, fs \subseteq x, x \subseteq fs \cup L
  PROVE  /\ IsFiniteSet(x \ fs) /\ Cardinality(x \ fs) \in Nat
         /\ Cardinality(x \ fs) >= Cardinality(L) => x = fs \cup L
<1>1. x \ fs \in SUBSET L
  OBVIOUS
<1>2. /\ IsFiniteSet(x \ fs) /\ Cardinality(x \ fs) <= Cardinality(L)
      /\ Cardinality(L) = Cardinality(x \ fs) => L = x \ fs
  BY <1>1, FS_Subset
<1>3. Cardinality(x \ fs) \in Nat /\ Cardinality(L) \in Nat
  BY <1>2, FS_CardinalityType
<1>4. ASSUME Cardinality(x \ fs) >= Cardinality(L) PROVE x = fs \cup L
  <2>1. L = x \ fs
    BY <1>2, <1>3, <1>4
  <2>2. QED
    BY <2>1
<1>5. QED
  BY <1>2, <1>3, <1>4

(* A set that grows within L stops growing after as many turns as L has    *)
(* elements: until then every turn adds one.                               *)
LEMMA GrowthEnds ==
  ASSUME NEW L, IsFiniteSet(L), NEW fs, NEW g, NEW r, Turns(r, Cardinality(L), g, fs),
         \A x \in SUBSET (fs \cup L) : x \subseteq g[x] /\ g[x] \subseteq fs \cup L
  PROVE  LET n == Cardinality(L)
         IN  fs \subseteq r[n] /\ r[n] \subseteq fs \cup L /\ g[r[n]] = r[n]
<1> DEFINE n == Cardinality(L)
           Between(x) == fs \subseteq x /\ x \subseteq fs \cup L
           Grown(x, i) == g[x] = x \/ Cardinality(x \ fs) >= i
           T == {i \in 0 .. n : Between(r[i]) /\ Grown(r[i], i)}
<1>1. n \in Nat /\ r[0] = fs
  BY FS_CardinalityType DEF Turns
<1>2. 0 \in T
  <2>1. Cardinality(fs \ fs) \in Nat
    BY Added
  <2>2. Between(fs) /\ Grown(fs, 0)
    BY <2>1
  <2> HIDE DEF Between, Grown
  <2>3. QED
    BY <1>1, <2>2
<1>3. ASSUME NEW i \in 1 .. n, i - 1 \in T PROVE i \in T
  <2> DEFINE x == r[i - 1]
             y == r[i]
  <2>1. Between(x) /\ Grown(x, i - 1) /\ y = g[x]
    BY <1>3 DEF Turns
  <2> HIDE DEF x, y
  <2>2. x \subseteq y /\ Between(y)
    BY <2>1
  <2>3. ASSUME y # x PROVE Cardinality(y \ fs) >= i
    <3>1. PICK z \in y : z \notin x
      BY <2>2, <2>3
    <3>2. z \notin x \ fs /\ (x \ fs) \cup {z} \in SUBSET (y \ fs)
      BY <2>1, <2>2, <3>1
    <3>3. /\ IsFiniteSet(x \ fs) /\ Cardinality(x \ fs) \in Nat
          /\ IsFiniteSet(y \ fs) /\ Cardinality(y \ fs) \in Nat
      BY <2>1, <2>2, Added
    <3>4. Cardinality((x \ fs) \cup {z}) = Cardinality(x \ fs) + 1
      BY <3>2, <3>3, FS_AddElement
    <3>5. Cardinality((x \ fs) \cup {z}) <= Cardinality(y \ fs)
      BY <3>2, <3>3, FS_Subset
    <3>6. Cardinality(x \ fs) >= i - 1
      BY <2>1, <2>3
    <3>7. QED
      BY <3>3, <3>4, <3>5, <3>6
  <2>4. Grown(y, i)
    BY <2>1, <2>3
  <2> HIDE DEF Grown, Between
  <2>5. QED
    BY <2>2, <2>4 DEF y
<1>4. n \in T
  <2> HIDE DEF T, n
  <2>1. QED
    BY <1>1, <1>2, <1>3, UpTo
<1> DEFINE y == r[n]
<1>5. Between(y) /\ Grown(y, n)
  BY <1>4
<1> HIDE DEF y
<1>6. CASE Cardinality(y \ fs) >= n
  <2>1. y = fs \cup L
    BY <1>5, <1>6, Added
  <2>2. g[y] = y
    BY <2>1
  <2>3. QED
    BY <1>5, <2>2 DEF y
<1>7. QED
  BY <1>5, <1>6 DEF y

-----------------------------------------------------------------------------
(* Sums.  Every e in S stands for f[e] units, the pairs <<e, i>>: the sum  *)
(* of f over S is their number, so that it splits as cardinalities do.     *)
Units(f, S) == UNION {{e} \X (1 .. f[e]) : e \in S}

(* A member has as many units as f says.                                   *)
LEMMA UnitsOfOne ==
  ASSUME NEW f, NEW e, f[e] \in Nat
  PROVE  IsFiniteSet({e} \X (1 .. f[e])) /\ Cardinality({e} \X (1 .. f[e])) = f[e]
<1>1. IsFiniteSet({e}) /\ Cardinality({e}) = 1
  BY FS_Singleton
<1>2. IsFiniteSet(1 .. f[e]) /\ Cardinality(1 .. f[e]) = f[e]
  BY FS_Interval
<1>3. IsFiniteSet({e} \X (1 .. f[e])) /\ Cardinality({e} \X (1 .. f[e])) = 1 * f[e]
  <2> DEFINE row == 1 .. f[e]
  <2> HIDE DEF row
  <2>1. IsFiniteSet({e} \X row) /\ Cardinality({e} \X row) = Cardinality({e}) * Cardinality(row)
    BY <1>1, <1>2, FS_Product DEF row
  <2>2. QED
    BY <1>1, <1>2, <2>1 DEF row
<1>4. QED
  BY <1>3

(* One member more adds its own units to those of the others.              *)
LEMMA UnitsOfMore ==
  ASSUME NEW f, NEW S, NEW e \in S, IsFiniteSet(Units(f, S \ {e})), f[e] \in Nat
  PROVE  /\ IsFiniteSet(Units(f, S))
         /\ Cardinality(Units(f, S)) = f[e] + Cardinality(Units(f, S \ {e}))
<1> DEFINE one == {e} \X (1 .. f[e])
           rest == Units(f, S \ {e})
<1>1. Units(f, S) = one \cup rest /\ one \cap rest = {}
  BY DEF Units
<1>2. IsFiniteSet(one) /\ Cardinality(one) = f[e]
  BY UnitsOfOne
<1>3. Cardinality(rest) \in Nat
  BY FS_CardinalityType
<1> HIDE DEF one, rest
<1>4. IsFiniteSet(rest)
  BY DEF rest
<1>5. /\ IsFiniteSet(one \cup rest)
      /\ Cardinality(one \cup rest) = Cardinality(one) + Cardinality(rest) - Cardinality({})
  BY <1>1, <1>2, <1>4, FS_Union
<1>6. QED
  BY <1>1, <1>2, <1>3, <1>5, FS_EmptySet DEF rest

(* A smallest set with infinitely many units cannot be empty, and without  *)
(* one of its members it would be smaller: there is none.                  *)
LEMMA UnitsFinite ==
  ASSUME NEW f, NEW S, IsFiniteSet(S), \A e \in S : f[e] \in Nat
  PROVE  IsFiniteSet(Units(f, S))
<1> DEFINE Bad == {T \in FiniteSubsetsOf(S) : ~IsFiniteSet(Units(f, T))}
<1>1. S \in FiniteSubsetsOf(S)
  BY DEF FiniteSubsetsOf
<1>2. SUFFICES ASSUME Bad # {} PROVE FALSE
  BY <1>1
<1>3. PICK T \in Bad : \A U \in Bad : ~(<<U, T>> \in StrictSubsetOrdering(S))
  <2>1. IsWellFoundedOn(StrictSubsetOrdering(S), FiniteSubsetsOf(S))
    BY FS_StrictSubsetOrderingWellFounded
  <2>2. QED
    BY <1>2, <2>1, WFMin
<1>4. T \subseteq S /\ IsFiniteSet(T) /\ ~IsFiniteSet(Units(f, T))
  BY DEF FiniteSubsetsOf
<1>5. T # {}
  BY <1>4, FS_EmptySet DEF Units
<1>6. PICK e \in T : TRUE
  BY <1>5
<1>7. T \ {e} \in FiniteSubsetsOf(S) /\ <<T \ {e}, T>> \in StrictSubsetOrdering(S)
  BY <1>4, <1>6, FS_RemoveElement DEF FiniteSubsetsOf, StrictSubsetOrdering
<1>8. IsFiniteSet(Units(f, T \ {e}))
  BY <1>3, <1>7
<1>9. QED
  BY <1>4, <1>6, <1>8, UnitsOfMore

(* The fold of SumFunctionOnSet counts the units: both functions obey the  *)
(* same recursion, so there is no smallest set on which they differ.       *)
LEMMA SumIsUnits ==
  ASSUME NEW f, NEW S, IsFiniteSet(S), \A e \in S : f[e] \in Nat
  PROVE  SumFunctionOnSet(f, S) = Cardinality(Units(f, S))
<1> DEFINE Step(g, s) == IF s = {} THEN 0
                         ELSE LET x == CHOOSE x \in s : TRUE IN f[x] + g[s \ {x}]
           Sums(g) == g = [s \in SUBSET S |-> Step(g, s)]
           sum == CHOOSE g : Sums(g)
           units == [s \in SUBSET S |-> Cardinality(Units(f, s))]
<1>1. SumFunctionOnSet(f, S) = sum[S]
  BY DEF SumFunctionOnSet, FoldFunctionOnSet, MapThenFoldSet
<1>2. \A s \in SUBSET S : IsFiniteSet(s) /\ IsFiniteSet(Units(f, s))
  BY FS_Subset, UnitsFinite
<1>3. Sums(units)
  <2>1. ASSUME NEW s \in SUBSET S PROVE Cardinality(Units(f, s)) = Step(units, s)
    <3>1. CASE s = {}
      BY <3>1, FS_EmptySet DEF Units
    <3>2. CASE s # {}
      <4> DEFINE x == CHOOSE x \in s : TRUE
      <4>1. x \in s /\ s \ {x} \in SUBSET S
        BY <3>2
      <4> HIDE DEF x
      <4>2. Cardinality(Units(f, s)) = f[x] + Cardinality(Units(f, s \ {x}))
        BY <1>2, <4>1, UnitsOfMore
      <4>3. Cardinality(Units(f, s)) = f[x] + units[s \ {x}]
        BY <4>1, <4>2
      <4>4. QED
        BY <3>2, <4>3 DEF x
    <3>3. QED
      BY <3>1, <3>2
  <2> HIDE DEF Step
  <2>2. QED
    BY <2>1
<1>4. Sums(sum)
  <2> HIDE DEF Sums, units
  <2>1. QED
    BY <1>3
<1> HIDE DEF sum
<1>5. \A s \in SUBSET S : sum[s] = Step(sum, s) /\ units[s] = Step(units, s)
  BY <1>3, <1>4
<1> DEFINE Bad == {s \in FiniteSubsetsOf(S) : sum[s] # units[s]}
<1>6. SUFFICES ASSUME Bad # {} PROVE FALSE
  BY <1>1 DEF FiniteSubsetsOf
<1> HIDE DEF units
<1>7. PICK s \in Bad : \A t \in Bad : ~(<<t, s>> \in StrictSubsetOrdering(S))
  <2>1. IsWellFoundedOn(StrictSubsetOrdering(S), FiniteSubsetsOf(S))
    BY FS_StrictSubsetOrderingWellFounded
  <2>2. QED
    BY <1>6, <2>1, WFMin
<1>8. s \in SUBSET S /\ IsFiniteSet(s) /\ sum[s] # units[s]
  BY DEF FiniteSubsetsOf
<1>9. s # {}
  BY <1>5, <1>8
<1> DEFINE x == CHOOSE x \in s : TRUE
<1>10. x \in s
  BY <1>9
<1>11. sum[s] = f[x] + sum[s \ {x}] /\ units[s] = f[x] + units[s \ {x}]
  BY <1>5, <1>8, <1>9
<1> HIDE DEF x, Step, Sums
<1>12. s \ {x} \in FiniteSubsetsOf(S) /\ <<s \ {x}, s>> \in StrictSubsetOrdering(S)
  BY <1>8, <1>10, FS_RemoveElement DEF FiniteSubsetsOf, StrictSubsetOrdering
<1>13. sum[s \ {x}] = units[s \ {x}]
  BY <1>7, <1>12
<1>14. QED
  BY <1>8, <1>11, <1>13

(* What follows for sums of numbers: they are numbers,                     *)
LEMMA SumNat ==
  ASSUME NEW f, NEW S, IsFiniteSet(S), \A e \in S : f[e] \in Nat
  PROVE  SumFunctionOnSet(f, S) \in Nat
BY SumIsUnits, UnitsFinite, FS_CardinalityType

(* nothing over no member,                                                 *)
LEMMA SumNone == ASSUME NEW f PROVE SumFunctionOnSet(f, {}) = 0
<1>1. Units(f, {}) = {}
  BY DEF Units
<1>2. QED
  BY <1>1, SumIsUnits, FS_EmptySet

(* its value over one member,                                              *)
LEMMA SumOne ==
  ASSUME NEW f, NEW e, f[e] \in Nat
  PROVE  SumFunctionOnSet(f, {e}) = f[e]
<1>1. Units(f, {e}) = {e} \X (1 .. f[e])
  BY DEF Units
<1>2. IsFiniteSet({e}) /\ \A d \in {e} : f[d] \in Nat
  BY FS_Singleton
<1>3. SumFunctionOnSet(f, {e}) = Cardinality(Units(f, {e}))
  BY <1>2, SumIsUnits
<1>4. QED
  BY <1>1, <1>3, UnitsOfOne

(* that over a part and that over the rest together,                       *)
LEMMA SumSplit ==
  ASSUME NEW f, NEW S, IsFiniteSet(S), \A e \in S : f[e] \in Nat, NEW T, T \subseteq S
  PROVE  SumFunctionOnSet(f, S) = SumFunctionOnSet(f, T) + SumFunctionOnSet(f, S \ T)
<1>1. IsFiniteSet(T) /\ IsFiniteSet(S \ T)
  BY FS_Subset
<1>2. Units(f, S) = Units(f, T) \cup Units(f, S \ T) /\ Units(f, T) \cap Units(f, S \ T) = {}
  BY DEF Units
<1>3. IsFiniteSet(Units(f, T)) /\ IsFiniteSet(Units(f, S \ T))
  BY <1>1, UnitsFinite
<1>4. /\ Cardinality(Units(f, T)) \in Nat /\ Cardinality(Units(f, S \ T)) \in Nat
      /\ Cardinality(Units(f, S)) =
           Cardinality(Units(f, T)) + Cardinality(Units(f, S \ T)) - Cardinality({})
  <2> DEFINE A == Units(f, T)
             B == Units(f, S \ T)
  <2> HIDE DEF A, B
  <2>1. IsFiniteSet(A) /\ IsFiniteSet(B)
    BY <1>3 DEF A, B
  <2>2. Cardinality(A \cup B) = Cardinality(A) + Cardinality(B) - Cardinality(A \cap B)
    BY <2>1, FS_Union
  <2>3. Cardinality(A) \in Nat /\ Cardinality(B) \in Nat
    BY <2>1, FS_CardinalityType
  <2>4. QED
    BY <1>2, <2>2, <2>3 DEF A, B
<1>5. Cardinality(Units(f, S)) = Cardinality(Units(f, T)) + Cardinality(Units(f, S \ T))
  BY <1>4, FS_EmptySet
<1>6. QED
  BY <1>1, <1>5, SumIsUnits

(* and the same for functions that agree on the set.                       *)
LEMMA SumSame ==
  ASSUME NEW f, NEW g, NEW S, IsFiniteSet(S), \A e \in S : f[e] \in Nat /\ f[e] = g[e]
  PROVE  SumFunctionOnSet(f, S) = SumFunctionOnSet(g, S)
<1>1. Units(f, S) = Units(g, S)
  <2>1. \A e \in S : {e} \X (1 .. f[e]) = {e} \X (1 .. g[e])
    OBVIOUS
  <2>2. QED
    BY <2>1 DEF Units
<1>2. QED
  BY <1>1, SumIsUnits

-----------------------------------------------------------------------------
(* Remainders.                                                             *)

(* A product, one factor larger by one.                                    *)
LEMMA Dist ==
  ASSUME NEW B \in Nat, NEW q \in Nat
  PROVE  B * (q + 1) = B * q + B
OBVIOUS

(* A product, one factor larger by any number.                             *)
LEMMA Mono ==
  ASSUME NEW B \in Nat, NEW q \in Nat, NEW d \in Nat
  PROVE  B * (q + d) = B * q + B * d /\ B * d \in Nat
OBVIOUS

(* A product is no less than a factor.                                     *)
LEMMA AtLeast ==
  ASSUME NEW B \in Nat, NEW d \in Nat \ {0}
  PROVE  B * d >= B
OBVIOUS

(* A number is its quotient and its remainder.                             *)
LEMMA DivMod ==
  ASSUME NEW n \in Nat, NEW B \in Nat \ {0}
  PROVE  n \div B \in Nat /\ n = B * (n \div B) + (n % B) /\ n % B \in 0 .. B - 1
OBVIOUS

(* The remainder of a number is unique.                                    *)
LEMMA Unique ==
  ASSUME NEW B \in Nat \ {0}, NEW p \in Nat, NEW q \in Nat,
         NEW r \in 0 .. B - 1, NEW s \in 0 .. B - 1, B * p + r = B * q + s
  PROVE  r = s
<1>1. ASSUME NEW x \in Nat, NEW y \in Nat, x < y PROVE B * y >= B * x + B
  <2>1. y - x \in Nat \ {0} /\ y = x + (y - x)
    BY <1>1
  <2>. QED BY <2>1, Mono, AtLeast
<1>2. CASE p < q
  BY <1>1, <1>2
<1>3. CASE q < p
  BY <1>1, <1>3
<1>4. CASE p = q
  BY <1>4
<1>. QED BY <1>2, <1>3, <1>4

(* The remainder of a number that is given as quotient and remainder.      *)
LEMMA ModOf ==
  ASSUME NEW B \in Nat \ {0}, NEW q \in Nat, NEW r \in 0 .. B - 1
  PROVE  (B * q + r) % B = r
<1>1. B * q + r \in Nat
  OBVIOUS
<1>. QED BY <1>1, DivMod, Unique

(* A sum that stays below the next multiple.                               *)
LEMMA ModAdd ==
  ASSUME NEW n \in Nat, NEW B \in Nat \ {0}, NEW k \in Nat, (n % B) + k < B
  PROVE  (n + k) % B = (n % B) + k
<1> DEFINE q == n \div B
<1>1. q \in Nat /\ n = B * q + (n % B) /\ n % B \in 0 .. B - 1
  BY DivMod
<1> HIDE DEF q
<1>. B * q \in Nat
  BY <1>1
<1>2. n + k = B * q + ((n % B) + k) /\ (n % B) + k \in 0 .. B - 1
  BY <1>1
<1>. QED BY <1>1, <1>2, ModOf

(* A sum that comes to the next multiple.                                  *)
LEMMA ModUp ==
  ASSUME NEW n \in Nat, NEW B \in Nat \ {0}, NEW k \in Nat, (n % B) + k = B
  PROVE  (n + k) % B = 0
<1> DEFINE q == n \div B
<1>1. q \in Nat /\ n = B * q + (n % B) /\ n % B \in 0 .. B - 1
  BY DivMod
<1> HIDE DEF q
<1>. B * q \in Nat
  BY <1>1
<1>2. n + k = B * (q + 1) + 0
  BY <1>1, Dist
<1>3. q + 1 \in Nat /\ 0 \in 0 .. B - 1
  BY <1>1
<1>. QED BY <1>2, <1>3, ModOf
=============================================================================
