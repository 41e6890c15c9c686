---------------------------- MODULE DataTheorems ---------------------------
(***************************************************************************)
(* Facts about the sums that the specifications take with SumFunction and  *)
(* FoldLeft, which the library computes with a recursive function, and     *)
(* about sequences.                                                        *)
(*                                                                         *)
(* A recursive function is some function that solves its equation.  That   *)
(* there is one is shown with a solution that is not recursive, the number *)
(* of units in the counters; that any solution has a value, by looking at  *)
(* the smallest set for which it has not, which a well-founded order gives.*)
(***************************************************************************)
EXTENDS SequencesExt, SequenceTheorems, FiniteSetTheorems, WellFoundedInduction,
        NaturalsInduction, TLAPS

(* The subsets of a finite set have no endless descent, ...                *)
LEMMA SubsetsWellFounded ==
  ASSUME NEW S, IsFiniteSet(S)
  PROVE  IsWellFoundedOn(StrictSubsetOrdering(S), SUBSET S)
  BY FS_StrictSubsetOrderingWellFounded, FS_FiniteSubsetsOfFinite

(* ... so of some subsets one has none of the others inside, ...           *)
LEMMA SmallestSubset ==
  ASSUME NEW S, IsFiniteSet(S), NEW C, C \subseteq SUBSET S, C # {}
  PROVE  \E m \in C : \A k \in C : <<k, m>> \notin StrictSubsetOrdering(S)
<1>1. IsWellFoundedOn(StrictSubsetOrdering(S), SUBSET S)
  BY SubsetsWellFounded
<1>. QED  BY <1>1, WFMin, Zenon

(* ... and what is kept by every element more is true of all of them.      *)
LEMMA SubsetInduction ==
  ASSUME NEW S, IsFiniteSet(S), NEW G, {} \in G,
         \A t \in SUBSET S : \A x \in t : t \ {x} \in G => t \in G
  PROVE  \A t \in SUBSET S : t \in G
<1>. DEFINE C == {t \in SUBSET S : t \notin G}
<1>. SUFFICES ASSUME C # {} PROVE FALSE
  OBVIOUS
<1>2. C \subseteq SUBSET S
  OBVIOUS
<1>. HIDE DEF C
<1>3. PICK m \in C : \A k \in C : <<k, m>> \notin StrictSubsetOrdering(S)
  BY <1>2, SmallestSubset
<1>. USE DEF C
<1>5. PICK x \in m : m \ {x} \notin G
  OBVIOUS
<1>6. m \ {x} \in C /\ m \ {x} # m
  BY <1>5
<1>7. <<m \ {x}, m>> \in StrictSubsetOrdering(S)
  BY <1>6 DEF StrictSubsetOrdering
<1>. QED  BY <1>3, <1>6, <1>7

-----------------------------------------------------------------------------
(* The units that the counters f of the places s have counted, each the    *)
(* place and what was counted there before, and how many they are.         *)
Units(f, s) == {u \in s \X Nat : u[2] < f[u[1]]}
Count(f, s) == Cardinality(Units(f, s))

(* One place has as many as its counter says, ...                          *)
LEMMA UnitsOfOne ==
  ASSUME NEW x, NEW n \in Nat
  PROVE  /\ IsFiniteSet({x} \X (0 .. n - 1))
         /\ Cardinality({x} \X (0 .. n - 1)) = n
<1>1. IsFiniteSet({x}) /\ Cardinality({x}) = 1
  BY FS_Singleton
<1>2. IsFiniteSet(0 .. n - 1) /\ Cardinality(0 .. n - 1) = n
  BY FS_Interval
<1>3. /\ IsFiniteSet({x} \X (0 .. n - 1))
      /\ Cardinality({x} \X (0 .. n - 1)) = Cardinality({x}) * Cardinality(0 .. n - 1)
  BY <1>1, <1>2, FS_Product
<1>. QED  BY <1>1, <1>2, <1>3

(* ... apart from those of the other places.                               *)
LEMMA UnitsSplit ==
  ASSUME NEW S, NEW f \in [S -> Nat], NEW s \in SUBSET S, NEW x \in s
  PROVE  /\ Units(f, s) = Units(f, s \ {x}) \cup ({x} \X (0 .. f[x] - 1))
         /\ Units(f, s \ {x}) \cap ({x} \X (0 .. f[x] - 1)) = {}
<1>1. f[x] \in Nat
  OBVIOUS
<1>. QED  BY <1>1 DEF Units

(* Finitely many places have counted finitely many, ...                    *)
LEMMA UnitsFinite ==
  ASSUME NEW S, IsFiniteSet(S), NEW f \in [S -> Nat], NEW s \in SUBSET S
  PROVE  IsFiniteSet(Units(f, s))
<1>. DEFINE G == {t \in SUBSET S : IsFiniteSet(Units(f, t))}
<1>1. {} \in G
  <2>1. Units(f, {}) = {}
    BY DEF Units
  <2>. QED  BY <2>1, FS_EmptySet
<1>2. ASSUME NEW t \in SUBSET S, NEW x \in t, t \ {x} \in G
      PROVE  t \in G
  <2>. DEFINE one == {x} \X (0 .. f[x] - 1)
  <2>1. f[x] \in Nat
    BY <1>2
  <2>2. IsFiniteSet(one) /\ IsFiniteSet(Units(f, t \ {x}))
    BY <1>2, <2>1, UnitsOfOne
  <2>3. Units(f, t) = Units(f, t \ {x}) \cup one
    BY <1>2, UnitsSplit
  <2>. HIDE DEF one
  <2>4. IsFiniteSet(Units(f, t \ {x}) \cup one)
    BY <2>2, FS_Union
  <2>. QED  BY <1>2, <2>3, <2>4
<1>. HIDE DEF G
<1>3. \A t \in SUBSET S : t \in G
  BY <1>1, <1>2, SubsetInduction
<1>. QED  BY <1>3 DEF G

(* ... and a place adds its counter to the others.                         *)
LEMMA CountSplit ==
  ASSUME NEW S, IsFiniteSet(S), NEW f \in [S -> Nat], NEW s \in SUBSET S
  PROVE  /\ Count(f, s) \in Nat
         /\ Count(f, {}) = 0
         /\ \A x \in s : Count(f, s) = f[x] + Count(f, s \ {x})
<1>1. \A t \in SUBSET S : Count(f, t) \in Nat
  BY UnitsFinite, FS_CardinalityType DEF Count
<1>2. Count(f, {}) = 0
  <2>1. Units(f, {}) = {}
    BY DEF Units
  <2>. QED  BY <2>1, FS_EmptySet DEF Count
<1>3. ASSUME NEW x \in s
      PROVE  Count(f, s) = f[x] + Count(f, s \ {x})
  <2>. DEFINE one == {x} \X (0 .. f[x] - 1)
              rest == Units(f, s \ {x})
  <2>1. f[x] \in Nat /\ s \ {x} \in SUBSET S
    BY <1>3
  <2>2. IsFiniteSet(one) /\ Cardinality(one) = f[x] /\ IsFiniteSet(rest)
    BY <2>1, UnitsOfOne, UnitsFinite
  <2>3. Units(f, s) = rest \cup one /\ rest \cap one = {}
    BY <1>3, UnitsSplit
  <2>. HIDE DEF one, rest
  <2>4. Cardinality(rest \cup one) = Cardinality(rest) + Cardinality(one) - Cardinality(rest \cap one)
    BY <2>2, FS_Union
  <2>5. Cardinality(rest) \in Nat /\ Cardinality(rest \cap one) = 0
    BY <2>2, <2>3, FS_CardinalityType, FS_EmptySet
  <2>. QED  BY <2>1, <2>2, <2>3, <2>4, <2>5 DEF Count, rest
<1>. QED  BY <1>1, <1>2, <1>3

(* The same in the other order.                                            *)
LEMMA CountTaken ==
  ASSUME NEW S, IsFiniteSet(S), NEW f \in [S -> Nat], NEW s \in SUBSET S, NEW x \in s
  PROVE  Count(f, s) = Count(f, s \ {x}) + f[x]
<1>1. s \ {x} \in SUBSET S /\ f[x] \in Nat
  OBVIOUS
<1>2. Count(f, s) = f[x] + Count(f, s \ {x})
  BY CountSplit
<1>3. Count(f, s \ {x}) \in Nat
  BY <1>1, CountSplit
<1>. QED  BY <1>1, <1>2, <1>3

(* Only the counters of the places matter.                                 *)
LEMMA CountAgrees ==
  ASSUME NEW f, NEW g, NEW s, \A x \in s : f[x] = g[x]
  PROVE  Count(f, s) = Count(g, s)
<1>1. Units(f, s) = Units(g, s)
  BY DEF Units
<1>. QED  BY <1>1 DEF Count

(* A counter that changes changes the sum by as much.                      *)
LEMMA CountUpdate ==
  ASSUME NEW S, IsFiniteSet(S), NEW f \in [S -> Nat], NEW g \in [S -> Nat],
         NEW x \in S, \A y \in S \ {x} : g[y] = f[y]
  PROVE  Count(g, S) = Count(f, S) - f[x] + g[x]
<1>. DEFINE others == S \ {x}
<1>1. others \in SUBSET S
  OBVIOUS
<1>2. Count(g, S) = g[x] + Count(g, others)
  BY CountSplit
<1>3. Count(f, S) = f[x] + Count(f, others)
  BY CountSplit
<1>4. Count(g, others) = Count(f, others)
  BY CountAgrees
<1>5. Count(f, others) \in Nat /\ f[x] \in Nat /\ g[x] \in Nat
  BY <1>1, CountSplit
<1>. HIDE DEF others
<1>. QED  BY <1>2, <1>3, <1>4, <1>5

(* Nothing is counted where every counter is zero, ...                     *)
LEMMA CountNothing ==
  ASSUME NEW S, IsFiniteSet(S), NEW f \in [S -> Nat]
  PROVE  Count(f, S) = 0 <=> \A x \in S : f[x] = 0
<1>1. IsFiniteSet(Units(f, S))
  BY UnitsFinite
<1>2. Count(f, S) = 0 <=> Units(f, S) = {}
  BY <1>1, FS_EmptySet DEF Count
<1>3. Units(f, S) = {} <=> \A x \in S : f[x] = 0
  <2>1. ASSUME NEW x \in S, f[x] # 0
        PROVE  <<x, 0>> \in Units(f, S)
    BY <2>1 DEF Units
  <2>2. ASSUME NEW u \in Units(f, S)
        PROVE  u[1] \in S /\ f[u[1]] # 0
    BY <2>2 DEF Units
  <2>. QED  BY <2>1, <2>2
<1>. QED  BY <1>2, <1>3

(* ... and less where every counter is less.                               *)
LEMMA CountMonotone ==
  ASSUME NEW S, IsFiniteSet(S), NEW f \in [S -> Nat], NEW g \in [S -> Nat],
         \A x \in S : f[x] <= g[x]
  PROVE  Count(f, S) <= Count(g, S)
<1>1. Units(f, S) \subseteq Units(g, S)
  BY DEF Units
<1>2. IsFiniteSet(Units(g, S))
  BY UnitsFinite
<1>. QED  BY <1>1, <1>2, FS_Subset DEF Count

-----------------------------------------------------------------------------
(* What a recursive sum does: it takes one place after another, whichever  *)
(* it chooses, and adds its counter on one side or on the other.           *)
AddsUp(it, f, S) ==
  /\ it[{}] = 0
  /\ \A s \in SUBSET S :
       s # {} => \E x \in s : it[s] = f[x] + it[s \ {x}] \/ it[s] = it[s \ {x}] + f[x]

(* Whatever does so finds how many units there are.                        *)
LEMMA FoldIsCount ==
  ASSUME NEW S, IsFiniteSet(S), NEW f \in [S -> Nat], NEW it, AddsUp(it, f, S)
  PROVE  it[S] = Count(f, S)
<1>. DEFINE C == {s \in SUBSET S : it[s] # Count(f, s)}
<1>. SUFFICES ASSUME C # {} PROVE FALSE
  OBVIOUS
<1>1. C \subseteq SUBSET S
  OBVIOUS
<1>. HIDE DEF C
<1>2. PICK m \in C : \A k \in C : <<k, m>> \notin StrictSubsetOrdering(S)
  BY <1>1, SmallestSubset
<1>3. m \in SUBSET S /\ it[m] # Count(f, m)
  BY DEF C
<1>4. m # {}
  BY <1>3, CountSplit DEF AddsUp
<1>5. PICK x \in m : it[m] = f[x] + it[m \ {x}] \/ it[m] = it[m \ {x}] + f[x]
  BY <1>3, <1>4 DEF AddsUp
<1>6. m \ {x} \in SUBSET S /\ <<m \ {x}, m>> \in StrictSubsetOrdering(S)
  BY <1>3 DEF StrictSubsetOrdering
<1>7. it[m \ {x}] = Count(f, m \ {x})
  BY <1>2, <1>6 DEF C
<1>8. Count(f, m) = f[x] + Count(f, m \ {x}) /\ Count(f, m \ {x}) \in Nat /\ f[x] \in Nat
  BY <1>3, <1>6, CountSplit
<1>. QED  BY <1>3, <1>5, <1>7, <1>8

(* SumFunction does.                                                       *)
LEMMA SumFunctionIsCount ==
  ASSUME NEW S, IsFiniteSet(S), NEW f \in [S -> Nat]
  PROVE  SumFunction(f) = Count(f, S)
<1>. DEFINE Step(it) == [s \in SUBSET S |->
                           IF s = {} THEN 0
                           ELSE f[CHOOSE x \in s : TRUE] + it[s \ {CHOOSE x \in s : TRUE}]]
            it == CHOOSE it : it = Step(it)
            count == [s \in SUBSET S |-> Count(f, s)]
<1>1. \A s \in SUBSET S : s # {} => (CHOOSE x \in s : TRUE) \in s
  OBVIOUS
<1>2. \A s \in SUBSET S : s # {} =>
        Count(f, s) = f[CHOOSE x \in s : TRUE] + Count(f, s \ {CHOOSE x \in s : TRUE})
  <2>. SUFFICES ASSUME NEW s \in SUBSET S, s # {}
                PROVE  Count(f, s) = f[CHOOSE x \in s : TRUE] + Count(f, s \ {CHOOSE x \in s : TRUE})
    OBVIOUS
  <2>1. PICK y \in s : y = CHOOSE x \in s : TRUE
    BY <1>1
  <2>2. Count(f, s) = f[y] + Count(f, s \ {y})
    BY CountSplit
  <2>. QED  BY <2>1, <2>2, Zenon
<1>3. count = Step(count)
  <2>1. Count(f, {}) = 0
    BY CountSplit
  <2>. QED  BY <1>2, <2>1
<1>4. it = Step(it)
  <2>. HIDE DEF Step, count
  <2>. QED  BY <1>3
<1>5. SumFunction(f) = it[S]
  BY Zenon DEF SumFunction, SumFunctionOnSet, FoldFunctionOnSet, MapThenFoldSet
<1>. HIDE DEF it
<1>6. AddsUp(it, f, S)
  BY <1>1, <1>4 DEF AddsUp
<1>. QED  BY <1>5, <1>6, FoldIsCount

-----------------------------------------------------------------------------
(* The order of the numbers, ...                                           *)
Below == {ss \in Nat \X Nat : ss[1] < ss[2]}

(* ... which has no endless descent either, ...                          *)
LEMMA BelowWF == IsWellFoundedOn(Below, Nat)
  BY NatLessThanWellFounded, Zenon DEF OpToRel, Below

(* ... so that any numbers have a least one.                               *)
LEMMA Least ==
  ASSUME NEW T, T \subseteq Nat, T # {}
  PROVE  \E m \in T : \A k \in T : m <= k
<1>1. PICK m \in T : \A k \in T : <<k, m>> \notin Below
  BY BelowWF, WFMin
<1>2. \A k \in T : ~(k < m)
  BY <1>1 DEF Below
<1>. QED  BY <1>2

(* Their Min is such a one, ...                                            *)
LEMMA MinOfNumbers ==
  ASSUME NEW T, T \subseteq Nat, T # {}
  PROVE  Min(T) \in T /\ \A k \in T : Min(T) <= k
<1>1. PICK m \in T : \A k \in T : m <= k
  BY Least
<1>. QED  BY <1>1 DEF Min

(* ... and what has it for a bound is the Min.                             *)
LEMMA MinIs ==
  ASSUME NEW T, T \subseteq Nat, NEW m \in T, \A k \in T : m <= k
  PROVE  Min(T) = m
<1>1. PICK l : l = Min(T)
  OBVIOUS
<1>2. l \in T /\ l <= m
  BY <1>1, MinOfNumbers
<1>3. m <= l /\ l \in Nat /\ m \in Nat
  BY <1>2
<1>. QED  BY <1>1, <1>2, <1>3

(* The Min of numbers that are those of U, shifted, and some behind them.  *)
Shifted(T, U, d, k) ==
  /\ \A u \in U : u <= k /\ d + u \in T
  /\ \A t \in T : t >= d /\ (t - d <= k => t - d \in U)

LEMMA MinShifted ==
  ASSUME NEW T, T \subseteq Nat, NEW U, U \subseteq Nat, NEW d \in Nat, NEW k \in Int,
         U # {}, Shifted(T, U, d, k)
  PROVE  T # {} /\ Min(T) = d + Min(U)
<1>1. PICK m : m = Min(U)
  OBVIOUS
<1>2. m \in U /\ \A u \in U : m <= u
  BY <1>1, MinOfNumbers
<1>3. m \in Nat /\ m <= k /\ d + m \in T
  BY <1>2 DEF Shifted
<1>4. ASSUME NEW t \in T PROVE d + m <= t
  <2>1. t \in Nat /\ t >= d /\ (t - d <= k => t - d \in U)
    BY DEF Shifted
  <2>2. CASE t - d <= k
    <3>1. m <= t - d
      BY <1>2, <2>1, <2>2
    <3>. QED  BY <1>3, <2>1, <3>1
  <2>3. CASE ~(t - d <= k)
    BY <1>3, <2>1, <2>3
  <2>. QED  BY <2>2, <2>3
<1>5. PICK l \in T : l = d + m
  BY <1>3
<1>6. Min(T) = l
  BY <1>4, <1>5, MinIs
<1>. QED  BY <1>1, <1>5, <1>6

(* What is true of a number when it is true of all the greater ones, if it *)
(* is below a bound, and without them if it is not, is true of all.        *)
LEMMA Downward ==
  ASSUME NEW e \in Nat, NEW G,
         \A i \in Nat : (i < e => \A j \in Nat : j > i => j \in G) => i \in G
  PROVE  \A i \in Nat : i \in G
<1>. DEFINE T == {k \in 0 .. e : e - k \notin G}
<1>1. SUFFICES ASSUME NEW i \in Nat, i \notin G PROVE FALSE
  OBVIOUS
<1>2. i < e
  BY <1>1
<1>3. e - i \in T
  <2>1. e - i \in 0 .. e /\ e - (e - i) = i
    BY <1>2
  <2>. QED  BY <1>1, <2>1
<1>4. T \subseteq Nat /\ T # {}
  BY <1>3
<1>. HIDE DEF T
<1>5. PICK k \in T : \A l \in T : k <= l
  BY <1>4, Least
<1>6. k \in 0 .. e /\ e - k \notin G
  BY DEF T
<1>7. ASSUME NEW j \in Nat, j > e - k PROVE j \in G
  <2>1. CASE j >= e
    BY <2>1
  <2>2. CASE j < e
    <3>1. e - j \in 0 .. e /\ e - (e - j) = j /\ ~(k <= e - j)
      BY <1>6, <1>7, <2>2
    <3>2. e - j \notin T
      BY <1>5, <3>1
    <3>. QED  BY <3>1, <3>2 DEF T
  <2>. QED  BY <2>1, <2>2
<1>. QED  BY <1>6, <1>7

(* Some of the numbers up to n have a greatest one, which is their Max.    *)
LEMMA MaxInInterval ==
  ASSUME NEW n \in Nat, NEW s, s \subseteq 1 .. n, s # {}
  PROVE  Max(s) \in s
<1>. DEFINE T == {k \in Nat : n - k \in s}
<1>1. T # {}
  <2>1. PICK x \in s : x \in 1 .. n
    OBVIOUS
  <2>2. n - x \in Nat /\ n - (n - x) = x
    BY <2>1
  <2>. QED  BY <2>2
<1>2. T \subseteq Nat
  OBVIOUS
<1>. HIDE DEF T
<1>3. PICK k \in T : \A j \in T : k <= j
  BY <1>1, <1>2, Least
<1>4. n - k \in s /\ k \in Nat
  BY DEF T
<1>5. ASSUME NEW y \in s
      PROVE  n - k >= y
  <2>1. n - y \in Nat /\ n - (n - y) = y
    BY <1>5
  <2>2. n - y \in T
    BY <2>1 DEF T
  <2>3. k <= n - y
    BY <1>3, <2>2
  <2>. QED  BY <1>4, <2>1, <2>3
<1>6. \E x \in s : \A y \in s : x >= y
  BY <1>4, <1>5
<1>. QED  BY <1>6 DEF Max

(* FoldLeft, which takes the last element first, finds the sum.            *)
LEMMA FoldLeftIsCount ==
  ASSUME NEW n \in Nat, NEW f \in [1 .. n -> Nat]
  PROVE  FoldLeft(LAMBDA a, b : a + b, 0, f) = Count(f, 1 .. n)
<1>. DEFINE Step(it) == [s \in SUBSET (1 .. n) |->
                           IF s = {} THEN 0 ELSE it[s \ {Max(s)}] + f[Max(s)]]
            it == CHOOSE it : it = Step(it)
            count == [s \in SUBSET (1 .. n) |-> Count(f, s)]
<1>1. IsFiniteSet(1 .. n)
  BY FS_Interval
<1>2. \A s \in SUBSET (1 .. n) : s # {} => Max(s) \in s
  BY MaxInInterval
<1>3. count = Step(count)
  <2>1. ASSUME NEW s \in SUBSET (1 .. n), NEW x \in s
        PROVE  Count(f, s) = Count(f, s \ {x}) + f[x]
    BY <1>1, CountTaken, Zenon
  <2>2. Count(f, {}) = 0
    BY <1>1, CountSplit
  <2>. QED  BY <1>2, <2>1, <2>2
<1>4. it = Step(it)
  <2>. HIDE DEF Step, count
  <2>. QED  BY <1>3
<1>5. FoldLeft(LAMBDA a, b : a + b, 0, f) = it[1 .. n]
  BY Zenon DEF FoldLeft, MapThenFoldSet
<1>. HIDE DEF it
<1>6. AddsUp(it, f, 1 .. n)
  BY <1>2, <1>4 DEF AddsUp
<1>. QED  BY <1>1, <1>5, <1>6, FoldIsCount

-----------------------------------------------------------------------------
(* Sequences, element by element.                                          *)

(* One element exchanged, ...                                              *)
LEMMA SeqExcept ==
  ASSUME NEW S, NEW q \in Seq(S), NEW i \in 1 .. Len(q), NEW c \in S,
         NEW l, l = [q EXCEPT ![i] = c]
  PROVE  /\ l \in Seq(S) /\ Len(l) = Len(q)
         /\ \A j \in 1 .. Len(q) : l[j] = IF j = i THEN c ELSE q[j]
  BY ExceptSeq

(* ... one sequence after another, ...                                     *)
LEMMA SeqConcat ==
  ASSUME NEW S, NEW s \in Seq(S), NEW t \in Seq(S), NEW w, w = s \o t
  PROVE  /\ w \in Seq(S) /\ Len(w) = Len(s) + Len(t)
         /\ \A j \in 1 .. Len(s) : w[j] = s[j]
         /\ \A j \in Len(s) + 1 .. Len(w) : w[j] = t[j - Len(s)]
  BY ConcatProperties, LenProperties

(* ... and both: the exchange is in the second of them.                    *)
LEMMA ExceptRight ==
  ASSUME NEW S, NEW s \in Seq(S), NEW t \in Seq(S), NEW i \in 1 .. Len(t), NEW c \in S,
         NEW k, k = Len(s) + i
  PROVE  [(s \o t) EXCEPT ![k] = c] = s \o [t EXCEPT ![i] = c]
<1>w. PICK w : w = s \o t
  OBVIOUS
<1>l. PICK l : l = [w EXCEPT ![k] = c]
  OBVIOUS
<1>1. Len(s) \in Nat /\ Len(t) \in Nat
  BY LenProperties
<1>2. /\ w \in Seq(S) /\ Len(w) = Len(s) + Len(t)
      /\ \A j \in 1 .. Len(s) : w[j] = s[j]
      /\ \A j \in Len(s) + 1 .. Len(w) : w[j] = t[j - Len(s)]
  BY <1>w, SeqConcat
<1>3. k \in 1 .. Len(w)
  BY <1>1, <1>2
<1>4. l \in Seq(S) /\ Len(l) = Len(w) /\ \A j \in 1 .. Len(w) : l[j] = IF j = k THEN c ELSE w[j]
  <2>1. w \in Seq(S)
    BY <1>2
  <2>. QED  BY <1>3, <1>l, <2>1, SeqExcept
<1>e. PICK e : e = [t EXCEPT ![i] = c]
  OBVIOUS
<1>r. PICK r : r = s \o e
  OBVIOUS
<1>5. e \in Seq(S) /\ Len(e) = Len(t) /\ \A j \in 1 .. Len(t) : e[j] = IF j = i THEN c ELSE t[j]
  BY <1>e, SeqExcept
<1>6. e \in Seq(S)
  BY <1>5
<1>7. /\ r \in Seq(S) /\ Len(r) = Len(s) + Len(e)
      /\ \A j \in 1 .. Len(s) : r[j] = s[j]
      /\ \A j \in Len(s) + 1 .. Len(r) : r[j] = e[j - Len(s)]
  BY <1>6, <1>r, SeqConcat
<1>8. ASSUME NEW j \in 1 .. Len(l) PROVE l[j] = r[j]
  <2>1. CASE j <= Len(s)
    BY <1>1, <1>2, <1>4, <1>5, <1>7, <2>1
  <2>2. CASE j > Len(s)
    <3>1. PICK h : h = j - Len(s)
      OBVIOUS
    <3>2. j \in Len(s) + 1 .. Len(w) /\ j \in 1 .. Len(w) /\ h \in 1 .. Len(t)
      BY <1>1, <1>2, <1>4, <2>2, <3>1
    <3>3. l[j] = IF j = k THEN c ELSE t[h]
      BY <1>2, <1>4, <3>1, <3>2
    <3>4. j \in Len(s) + 1 .. Len(r)
      BY <1>1, <1>2, <1>5, <1>7, <3>2
    <3>5. r[j] = IF h = i THEN c ELSE t[h]
      BY <1>5, <1>7, <3>1, <3>2, <3>4
    <3>6. j = k <=> h = i
      BY <1>1, <3>1, <3>2
    <3>. QED  BY <3>3, <3>5, <3>6
  <2>. QED  BY <1>1, <1>2, <1>4, <2>1, <2>2
<1>9. l = r
  <2>1. l \in Seq(S) /\ r \in Seq(S)
    BY <1>4, <1>7
  <2>2. Len(l) = Len(r)
    BY <1>1, <1>2, <1>4, <1>5, <1>7
  <2>. QED  BY <1>8, <2>1, <2>2, SeqEqual
<1>. QED  BY <1>9, <1>w, <1>l, <1>e, <1>r

(* The elements of a piece, by its first place and its length, ...         *)
LEMMA PieceElements ==
  ASSUME NEW S, NEW q \in Seq(S), NEW a \in Nat, a >= 1, NEW len \in Nat,
         NEW b, b = a + len - 1, b <= Len(q)
  PROVE  /\ SubSeq(q, a, b) \in Seq(S)
         /\ Len(SubSeq(q, a, b)) = len
         /\ \A j \in 1 .. len : SubSeq(q, a, b)[j] = q[a + j - 1]
<1>1. b \in Int /\ a - 1 <= b /\ b - a + 1 = len /\ (a <= b <=> len # 0) /\ Len(q) \in Nat
  BY LenProperties
<1>2. \A i \in a .. b : q[i] \in S
  <2>. SUFFICES ASSUME NEW i \in a .. b PROVE q[i] \in S
    OBVIOUS
  <2>1. i \in 1 .. Len(q)
    BY <1>1
  <2>. QED  BY <2>1, ElementOfSeq
<1>3. /\ SubSeq(q, a, b) \in Seq(S)
      /\ Len(SubSeq(q, a, b)) = IF a <= b THEN b - a + 1 ELSE 0
      /\ \A i \in 1 .. b - a + 1 : SubSeq(q, a, b)[i] = q[a + i - 1]
  BY <1>1, <1>2, SubSeqProperties
<1>. QED  BY <1>1, <1>3

(* ... which two sequences have in common if their elements there agree.   *)
SameThere(q, r, a, len) == \A j \in 1 .. len : q[a + j - 1] = r[a + j - 1]
SamePiece(q, r, a, b) == SubSeq(q, a, b) = SubSeq(r, a, b)
LEMMA PiecesAgree ==
  ASSUME NEW S, NEW q \in Seq(S), NEW r \in Seq(S), NEW a \in Nat, a >= 1, NEW len \in Nat,
         NEW b, b = a + len - 1, b <= Len(q), b <= Len(r),
         SameThere(q, r, a, len)
  PROVE  SamePiece(q, r, a, b)
<1>1. PICK s, t : s = SubSeq(q, a, b) /\ t = SubSeq(r, a, b)
  OBVIOUS
<1>2. /\ s \in Seq(S) /\ Len(s) = len
      /\ \A j \in 1 .. len : s[j] = q[a + j - 1]
  BY <1>1, PieceElements
<1>3. /\ t \in Seq(S) /\ Len(t) = len
      /\ \A j \in 1 .. len : t[j] = r[a + j - 1]
  BY <1>1, PieceElements
<1>4. s = t
  <2>1. \A j \in 1 .. len : s[j] = t[j]
    BY <1>2, <1>3 DEF SameThere
  <2>. QED  BY <1>2, <1>3, <2>1, SeqEqual
<1>. QED  BY <1>1, <1>4 DEF SamePiece

(* A piece of a piece is a piece.                                          *)
LEMMA PieceOfPiece ==
  ASSUME NEW S, NEW q \in Seq(S), NEW d \in Nat, NEW l \in Nat, d + l <= Len(q),
         NEW i \in Nat, NEW j \in Int, j <= l
  PROVE  SubSeq(SubSeq(q, d + 1, d + l), i + 1, j) = SubSeq(q, d + i + 1, d + j)
<1>0. Len(q) \in Nat
  BY LenProperties
<1>1. PICK s : s = SubSeq(q, d + 1, d + l)
  OBVIOUS
<1>2. /\ s \in Seq(S) /\ Len(s) = l
      /\ \A m \in 1 .. l : s[m] = q[d + 1 + m - 1]
  BY <1>1, PieceElements
<1>3. CASE i > j
  <2>1. i + 1 \in Int /\ j < i + 1 /\ d + i + 1 \in Int /\ d + j \in Int /\ d + j < d + i + 1
    BY <1>3
  <2>. QED  BY <1>1, <2>1, SubSeqEmpty
<1>4. CASE i <= j
  <2>1. PICK a \in Nat, b \in Nat, len \in Nat, e \in Nat, f \in Nat :
          a = i + 1 /\ b = d + i + 1 /\ len = j - i /\ e = j /\ f = d + j
    BY <1>4
  <2>2. /\ a >= 1 /\ b >= 1 /\ e = a + len - 1 /\ f = b + len - 1
        /\ e <= Len(s) /\ f <= Len(q)
    BY <1>0, <1>2, <1>4, <2>1
  <2>3. PICK t, u : t = SubSeq(s, a, e) /\ u = SubSeq(q, b, f)
    OBVIOUS
  <2>4. /\ t \in Seq(S) /\ Len(t) = len
        /\ \A m \in 1 .. len : t[m] = s[a + m - 1]
    BY ONLY <1>2, <2>2, <2>3, a \in Nat, len \in Nat, PieceElements
  <2>5. /\ u \in Seq(S) /\ Len(u) = len
        /\ \A m \in 1 .. len : u[m] = q[b + m - 1]
    BY ONLY q \in Seq(S), <2>2, <2>3, b \in Nat, len \in Nat, PieceElements
  <2>6. \A m \in 1 .. len : t[m] = u[m]
    <3>. SUFFICES ASSUME NEW m \in 1 .. len PROVE t[m] = u[m]
      OBVIOUS
    <3>1. PICK k \in 1 .. l : k = a + m - 1
      BY <1>4, <2>1
    <3>2. d + 1 + k - 1 = b + m - 1
      BY <2>1, <3>1
    <3>. QED  BY <1>2, <2>4, <2>5, <3>1, <3>2
  <2>7. t = u
    BY <2>4, <2>5, <2>6, SeqEqual
  <2>. QED  BY <1>1, <2>1, <2>3, <2>7
<1>. QED  BY <1>3, <1>4

(* A piece of a sequence is known by its elements.                         *)
LEMMA SubSeqIs ==
  ASSUME NEW S, NEW q \in Seq(S), NEW t \in Seq(S), NEW a \in 1 .. Len(q) + 1,
         NEW b, b = a + Len(t) - 1, b <= Len(q),
         \A j \in 1 .. Len(t) : q[a + j - 1] = t[j]
  PROVE  SubSeq(q, a, b) = t
<1>1. b \in Int /\ a - 1 <= b /\ a \in Nat /\ a >= 1 /\ Len(q) \in Nat /\ Len(t) \in Nat
  BY LenProperties
<1>2. /\ SubSeq(q, a, b) \in Seq(S)
      /\ Len(SubSeq(q, a, b)) = IF a <= b THEN b - a + 1 ELSE 0
      /\ \A i \in 1 .. b - a + 1 : SubSeq(q, a, b)[i] = q[a + i - 1]
  BY <1>1, SubSeqProperties
<1>3. Len(SubSeq(q, a, b)) = Len(t)
  BY <1>1, <1>2
<1>. QED  BY <1>1, <1>2, <1>3, SeqEqual

-----------------------------------------------------------------------------
(* Payloads: what is in them are bytes, and two may agree up to a length.  *)
Octets == Seq(0 .. 255)
Agree(p, q, n) ==
  /\ p \in Octets /\ q \in Octets /\ n \in Nat /\ n <= Len(p) /\ n <= Len(q)
  /\ \A i \in 1 .. n : p[i] = q[i]

LEMMA OctetRead ==
  ASSUME NEW p \in Octets, NEW k \in 1 .. Len(p)
  PROVE  p[k] \in Nat
<1>1. p[k] \in 0 .. 255
  BY ElementOfSeq DEF Octets
<1>2. 0 .. 255 \subseteq Nat
  OBVIOUS
<1>. QED  BY <1>1, <1>2, Zenon

LEMMA AgreePieces ==
  ASSUME NEW p, NEW q, NEW n, Agree(p, q, n), NEW i \in Nat, NEW len \in Nat, i + len <= n
  PROVE  SamePiece(p, q, i + 1, i + len)
<1>0. /\ n \in Nat /\ p \in Octets /\ q \in Octets /\ n <= Len(p) /\ n <= Len(q)
      /\ Len(p) \in Nat /\ Len(q) \in Nat
  BY LenProperties DEF Agree, Octets
<1>1. PICK a \in Nat, b \in Nat : a = i + 1 /\ b = i + len
  OBVIOUS
<1>2. a >= 1 /\ b = a + len - 1 /\ b <= Len(p) /\ b <= Len(q)
  BY <1>0, <1>1
<1>3. \A j \in 1 .. len : a + j - 1 \in 1 .. n
  BY <1>0, <1>1
<1>4. SameThere(p, q, a, len)
  BY <1>3 DEF Agree, SameThere
<1>5. PICK S : S = 0 .. 255
  OBVIOUS
<1>6. p \in Seq(S) /\ q \in Seq(S)
  BY <1>0, <1>5, Zenon DEF Octets
<1>7. SamePiece(p, q, a, b)
  BY ONLY <1>6, <1>2, <1>4, a \in Nat, len \in Nat, PiecesAgree, Zenon
<1>. QED  BY <1>1, <1>7

LEMMA FrontAgrees ==
  ASSUME NEW p \in Octets, NEW k \in Nat, k <= Len(p)
  PROVE  Agree(SubSeq(p, 1, k), p, k)
<1>1. PICK S : S = 0 .. 255
  OBVIOUS
<1>2. p \in Seq(S) /\ Len(p) \in Nat /\ k = 1 + k - 1 /\ 1 \in Nat /\ 1 >= 1
  BY <1>1, LenProperties DEF Octets
<1>3. /\ SubSeq(p, 1, k) \in Seq(S) /\ Len(SubSeq(p, 1, k)) = k
      /\ \A j \in 1 .. k : SubSeq(p, 1, k)[j] = p[1 + j - 1]
  BY ONLY <1>2, k \in Nat, k <= Len(p), PieceElements
<1>4. \A j \in 1 .. k : 1 + j - 1 = j
  OBVIOUS
<1>5. SubSeq(p, 1, k) \in Octets /\ k <= Len(SubSeq(p, 1, k))
  BY <1>1, <1>3 DEF Octets
<1>. QED  BY <1>3, <1>4, <1>5 DEF Agree

-----------------------------------------------------------------------------
(* How often a value is in a queue from one place on.                      *)
Places(q, v, k) == {i \in k .. Len(q) : q[i] = v}
Times(q, v, k) == Cardinality(Places(q, v, k))

(* It is a number, and zero behind the end.                                *)
LEMMA TimesType ==
  ASSUME NEW S, NEW q \in Seq(S), NEW v, NEW k \in Nat
  PROVE  /\ IsFiniteSet(Places(q, v, k))
         /\ Times(q, v, k) \in Nat
         /\ k > Len(q) => Times(q, v, k) = 0
<1>1. Len(q) \in Nat
  BY LenProperties
<1>2. IsFiniteSet(k .. Len(q))
  BY <1>1, FS_Interval
<1>3. Places(q, v, k) \subseteq k .. Len(q)
  BY DEF Places
<1>4. IsFiniteSet(Places(q, v, k))
  BY <1>2, <1>3, FS_Subset
<1>5. k > Len(q) => Places(q, v, k) = {}
  BY <1>1 DEF Places
<1>. QED  BY <1>4, <1>5, FS_CardinalityType, FS_EmptySet DEF Times

(* One value more at the end is one more of that value, ...                *)
LEMMA TimesAppend ==
  ASSUME NEW S, NEW q \in Seq(S), NEW p \in S, NEW v, NEW k \in 1 .. Len(q) + 1
  PROVE  Times(Append(q, p), v, k) = Times(q, v, k) + (IF p = v THEN 1 ELSE 0)
<1>r. PICK r : r = Append(q, p)
  OBVIOUS
<1>1. /\ Len(q) \in Nat /\ Len(r) = Len(q) + 1 /\ k \in Nat /\ k >= 1
      /\ \A i \in 1 .. Len(q) : r[i] = q[i]
      /\ r[Len(q) + 1] = p
  BY <1>r, AppendProperties, LenProperties
<1>2. IsFiniteSet(Places(q, v, k)) /\ Times(q, v, k) \in Nat
  BY <1>1, TimesType
<1>3. ASSUME p = v PROVE Times(r, v, k) = Times(q, v, k) + 1
  <2>1. Places(r, v, k) = Places(q, v, k) \cup {Len(q) + 1}
    BY <1>1, <1>3 DEF Places
  <2>2. Len(q) + 1 \notin Places(q, v, k)
    BY <1>1 DEF Places
  <2>. QED  BY <1>2, <2>1, <2>2, FS_AddElement DEF Times
<1>4. ASSUME p # v PROVE Times(r, v, k) = Times(q, v, k)
  <2>1. Places(r, v, k) = Places(q, v, k)
    BY <1>1, <1>4 DEF Places
  <2>. QED  BY <2>1 DEF Times
<1>. QED  BY <1>2, <1>3, <1>4, <1>r

(* ... and without its head a queue is what it was from the second place.  *)
LEMMA TimesTail ==
  ASSUME NEW S, NEW q \in Seq(S), q # <<>>, NEW v, NEW k \in Nat \ {0}
  PROVE  Times(Tail(q), v, k) = Times(q, v, k + 1)
<1>r. PICK r : r = Tail(q)
  OBVIOUS
<1>1. /\ Len(q) \in Nat /\ Len(r) = Len(q) - 1
      /\ \A i \in 1 .. Len(r) : r[i] = q[i + 1]
  BY <1>r, HeadTailProperties, LenProperties
<1>2. IsFiniteSet(Places(q, v, k + 1))
  BY TimesType
<1>. DEFINE shift == [i \in Places(q, v, k + 1) |-> i - 1]
<1>3. shift \in Bijection(Places(q, v, k + 1), Places(r, v, k))
  <2>1. shift \in [Places(q, v, k + 1) -> Places(r, v, k)]
    BY <1>1 DEF Places
  <2>2. \A i, j \in Places(q, v, k + 1) : i - 1 = j - 1 => i = j
    BY <1>1 DEF Places
  <2>3. ASSUME NEW i \in Places(r, v, k)
        PROVE  \E j \in Places(q, v, k + 1) : shift[j] = i
    <3>1. PICK j : j = i + 1
      OBVIOUS
    <3>2. j \in Places(q, v, k + 1) /\ j - 1 = i
      BY <1>1, <3>1 DEF Places
    <3>3. shift[j] = i
      BY <3>2
    <3>. QED  BY <3>2, <3>3, Zenon
  <2>4. \A i \in Places(r, v, k) : \E j \in Places(q, v, k + 1) : shift[j] = i
    BY <2>3
  <2>. QED  BY <2>1, <2>2, <2>4 DEF Bijection, Injection, Surjection, IsInjective
<1>. HIDE DEF shift
<1>4. ExistsBijection(Places(q, v, k + 1), Places(r, v, k))
  BY <1>3 DEF ExistsBijection
<1>. QED  BY <1>2, <1>4, <1>r, FS_Bijection DEF Times
=============================================================================
