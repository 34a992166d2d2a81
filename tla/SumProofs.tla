----------------------------- MODULE SumProofs -----------------------------
(***************************************************************************)
(* Lemmas that the proofs about several modules need: least elements of a  *)
(* set of numbers, induction on numbers and on finite sets, folds, and     *)
(* sums (Sums).                                                            *)
(***************************************************************************)
EXTENDS Integers, FiniteSets, Sums, FiniteSetTheorems, TLAPS

-----------------------------------------------------------------------------
(* Numbers.                                                                *)

\* Among natural numbers there is a least one.
LEMMA Less ==
  \E R : /\ IsWellFoundedOn(R, Nat)
         /\ \A x, y \in Nat : <<y, x>> \in R <=> y < x
  <1>1. \A x, y \in Nat : <<y, x>> \in OpToRel(<, Nat) <=> y < x
    BY DEF OpToRel
  <1> QED
    BY <1>1, NatLessThanWellFounded

LEMMA Smallest ==
  ASSUME NEW T \in SUBSET Nat, T # {}
  PROVE  Min(T) \in T /\ \A m \in T : Min(T) <= m
  <1>1. PICK R : /\ IsWellFoundedOn(R, Nat)
                 /\ \A x, y \in Nat : <<y, x>> \in R <=> y < x
    BY Less
  <1>2. \E x \in T : \A y \in T : <<y, x>> \notin R
    BY <1>1, WFMin
  <1>3. \E x \in T : \A y \in T : ~(y < x)
    BY <1>1, <1>2, Zenon
  <1>4. \E x \in T : \A y \in T : x <= y
    BY <1>3
  <1> QED
    BY <1>4 DEF Min

\* Induction on the natural numbers, for a set of them.
LEMMA Inductive ==
  ASSUME NEW G, 0 \in G, \A n \in Nat : n \in G => n + 1 \in G
  PROVE  Nat \subseteq G
  <1> SUFFICES ASSUME Nat \ G # {} PROVE FALSE
    OBVIOUS
  <1>1. PICK n \in Nat \ G : \A m \in Nat \ G : n <= m
    <2>1. Nat \ G \in SUBSET Nat
      OBVIOUS
    <2> QED
      BY <2>1, Smallest
  <1>2. n # 0 /\ n - 1 \in Nat /\ n - 1 \notin G
    BY <1>1
  <1> QED
    BY <1>1, <1>2

\* Induction on the parts of a finite set, by size.
LEMMA InductiveParts ==
  ASSUME NEW S, IsFiniteSet(S), NEW G, {} \in G,
         \A T \in SUBSET S : T # {} /\ (\A x \in T : T \ {x} \in G) => T \in G
  PROVE  \A T \in SUBSET S : T \in G
  <1> DEFINE Sizes == {n \in Nat : \A T \in SUBSET S : Cardinality(T) = n => T \in G}
  <1>1. \A T \in SUBSET S : /\ IsFiniteSet(T) /\ Cardinality(T) \in Nat
                            /\ T = {} <=> Cardinality(T) = 0
    BY FS_Subset, FS_CardinalityType, FS_EmptySet
  <1>2. 0 \in Sizes
    BY <1>1
  <1>3. ASSUME NEW n \in Nat, n \in Sizes PROVE n + 1 \in Sizes
    <2>1. ASSUME NEW T \in SUBSET S, Cardinality(T) = n + 1 PROVE T \in G
      <3>1. T # {}
        BY <1>1, <2>1
      <3>2. ASSUME NEW x \in T PROVE T \ {x} \in G
        <4>1. Cardinality(T \ {x}) = Cardinality(T) - 1
          BY <1>1, FS_RemoveElement
        <4> QED
          BY <1>3, <2>1, <4>1
      <3> QED
        BY <3>1, <3>2
    <2> QED
      BY <2>1
  <1>4. Nat \subseteq Sizes
    <2> HIDE DEF Sizes
    <2> QED
      BY <1>2, <1>3, Inductive
  <1> QED
    BY <1>1, <1>4

-----------------------------------------------------------------------------
(* Folds.                                                                  *)

\* A fold is a recursive function on the parts of a set, one element of each
\* part being taken first.
FoldOf(S, V, base, first, step, fold) ==
  /\ fold \in [SUBSET S -> V]
  /\ \A T \in SUBSET S :
       fold[T] = IF T = {} THEN base ELSE step[first[T]][fold[T \ {first[T]}]]

LEMMA FoldExists ==
  ASSUME NEW S, IsFiniteSet(S), NEW V, NEW base \in V, NEW first,
         \A T \in SUBSET S : T # {} => first[T] \in T,
         NEW step, \A x \in S : \A v \in V : step[x][v] \in V
  PROVE  \E fold : FoldOf(S, V, base, first, step, fold)
  <1> DEFINE rest(T) == T \ {first[T]}
             value(fold, T) == IF T = {} THEN base ELSE step[first[T]][fold[rest(T)]]
             G == {n \in Nat : \E fold \in [SUBSET S -> V] :
                      \A T \in SUBSET S : Cardinality(T) <= n => fold[T] = value(fold, T)}
  <1>1. \A T \in SUBSET S : /\ IsFiniteSet(T) /\ Cardinality(T) \in Nat
                            /\ T = {} <=> Cardinality(T) = 0
    BY FS_Subset, FS_CardinalityType, FS_EmptySet
  <1>2. ASSUME NEW T \in SUBSET S, T # {}
        PROVE  /\ first[T] \in S /\ rest(T) \in SUBSET S
               /\ Cardinality(rest(T)) = Cardinality(T) - 1
    BY <1>1, <1>2, FS_RemoveElement
  <1>3. \A fold \in [SUBSET S -> V], T \in SUBSET S : value(fold, T) \in V
    BY <1>2
  <1> HIDE DEF rest
  <1>4. 0 \in G
    <2> DEFINE fold == [T \in SUBSET S |-> base]
    <2>1. \A T \in SUBSET S : Cardinality(T) <= 0 => fold[T] = value(fold, T)
      BY <1>1
    <2> QED
      BY <2>1
  <1>5. ASSUME NEW n \in Nat, n \in G PROVE n + 1 \in G
    <2>1. PICK fold \in [SUBSET S -> V] :
            \A T \in SUBSET S : Cardinality(T) <= n => fold[T] = value(fold, T)
      BY <1>5
    <2> DEFINE more == [T \in SUBSET S |->
                          IF Cardinality(T) <= n THEN fold[T] ELSE value(fold, T)]
    <2>2. more \in [SUBSET S -> V]
      BY <1>3
    <2>3. ASSUME NEW T \in SUBSET S, Cardinality(T) <= n + 1
          PROVE  more[T] = value(more, T)
      <3>1. more[T] = value(fold, T)
        BY <2>1
      <3>2. ASSUME T # {} PROVE more[rest(T)] = fold[rest(T)]
        <4>1. rest(T) \in SUBSET S /\ Cardinality(rest(T)) <= n
          BY <1>1, <1>2, <2>3, <3>2
        <4> QED
          BY <4>1
      <3> QED
        BY <3>1, <3>2
    <2>4. \A T \in SUBSET S : Cardinality(T) <= n + 1 => more[T] = value(more, T)
      BY <2>3
    <2> HIDE DEF more, value
    <2> QED
      BY <2>2, <2>4
  <1>6. Cardinality(S) \in G
    <2>1. Nat \subseteq G
      <3> HIDE DEF G
      <3> QED
        BY <1>4, <1>5, Inductive
    <2> QED
      BY <1>1, <2>1
  <1>7. PICK fold \in [SUBSET S -> V] :
          \A T \in SUBSET S : Cardinality(T) <= Cardinality(S) => fold[T] = value(fold, T)
    BY <1>6
  <1>8. \A T \in SUBSET S : Cardinality(T) <= Cardinality(S)
    BY FS_Subset
  <1>9. \A T \in SUBSET S : fold[T] = value(fold, T)
    BY <1>7, <1>8
  <1> QED
    BY <1>9 DEF rest, FoldOf

\* Among the first n numbers of a part of them there is a greatest one.
LEMMA Largest ==
  ASSUME NEW n \in Nat, NEW T \in SUBSET (1..n), T # {}
  PROVE  \E x \in T : \A m \in T : x >= m
  <1> DEFINE back == {n - x : x \in T}
  <1>1. back \in SUBSET Nat /\ back # {}
    <2>1. \A x \in T : x \in 1..n /\ n - x \in Nat
      OBVIOUS
    <2> QED
      BY <2>1
  <1>2. Min(back) \in back /\ \A m \in back : Min(back) <= m
    BY <1>1, Smallest
  <1>3. PICK x \in T : Min(back) = n - x
    BY <1>2
  <1>4. ASSUME NEW m \in T PROVE x >= m
    <2>1. n - m \in back /\ x \in 1..n /\ m \in 1..n
      OBVIOUS
    <2>2. n - x <= n - m
      BY <1>2, <1>3, <2>1
    <2> QED
      BY <2>1, <2>2
  <1> QED
    BY <1>4

\* Of a part of the numbers the greatest comes last: without it the first m
\* are the first m - 1.
Latest(T) == CHOOSE x \in T : \A m \in T : x >= m

LEMMA LatestIs ==
  ASSUME NEW n \in Nat
  PROVE  /\ \A T \in SUBSET (1..n) : T # {} => Latest(T) \in T
         /\ \A m \in 1..n : Latest(1..m) = m /\ (1..m) \ {m} = 1..(m-1)
  <1>1. ASSUME NEW T \in SUBSET (1..n), T # {}
        PROVE  Latest(T) \in T /\ \A m \in T : Latest(T) >= m
    BY <1>1, Largest DEF Latest
  <1>2. ASSUME NEW m \in 1..n PROVE Latest(1..m) = m
    <2>1. 1..m \in SUBSET (1..n) /\ m \in 1..m
      OBVIOUS
    <2>2. Latest(1..m) \in 1..m /\ Latest(1..m) >= m
      BY <1>1, <2>1
    <2> QED
      BY <2>2
  <1> QED
    BY <1>1, <1>2

\* A fold that takes the latest first, which is what FoldLeft chooses.
LEMMA FoldLeftExists ==
  ASSUME NEW n \in Nat, NEW V, NEW base \in V,
         NEW step, \A x \in 1..n : \A v \in V : step[x][v] \in V
  PROVE  \E fold : FoldOf(1..n, V, base, [T \in SUBSET (1..n) |-> Latest(T)], step, fold)
  <1> DEFINE first == [T \in SUBSET (1..n) |-> Latest(T)]
  <1>1. \A T \in SUBSET (1..n) : T # {} => first[T] \in T
    BY LatestIs
  <1>2. IsFiniteSet(1..n)
    BY FS_Interval
  <1> HIDE DEF first
  <1>3. \E fold : FoldOf(1..n, V, base, first, step, fold)
    BY <1>1, <1>2, FoldExists, Zenon
  <1> QED
    BY <1>3 DEF first

-----------------------------------------------------------------------------
(* Sums.                                                                   *)

\* A sum is a recursive function on the parts of a set.
Adds(S, count, sum) ==
  \A T \in SUBSET S :
    sum[T] = IF T = {} THEN 0
             ELSE count[CHOOSE x \in T : TRUE] + sum[T \ {CHOOSE x \in T : TRUE}]

LEMMA AddsExists ==
  ASSUME NEW S, IsFiniteSet(S), NEW count, \A x \in S : count[x] \in Nat
  PROVE  \E sum \in [SUBSET S -> Nat] : Adds(S, count, sum)
  <1> DEFINE first == [T \in SUBSET S |-> CHOOSE x \in T : TRUE]
             step == [x \in S |-> [v \in Nat |-> count[x] + v]]
  <1>1. \A T \in SUBSET S : T # {} => first[T] \in T
    OBVIOUS
  <1>2. \A x \in S : \A v \in Nat : step[x][v] \in Nat
    OBVIOUS
  <1>3. PICK sum : FoldOf(S, Nat, 0, first, step, sum)
    <2> HIDE DEF first, step
    <2>1. 0 \in Nat
      OBVIOUS
    <2> QED
      BY <1>1, <1>2, <2>1, FoldExists, Zenon
  <1>4. ASSUME NEW T \in SUBSET S, T # {}
        PROVE  step[first[T]][sum[T \ {first[T]}]] = count[first[T]] + sum[T \ {first[T]}]
    <2>1. first[T] \in S /\ sum[T \ {first[T]}] \in Nat
      BY <1>1, <1>3, <1>4 DEF FoldOf
    <2> HIDE DEF first
    <2> QED
      BY <2>1
  <1>5. ASSUME NEW T \in SUBSET S, T # {}
        PROVE  sum[T] = count[CHOOSE x \in T : TRUE] + sum[T \ {CHOOSE x \in T : TRUE}]
    <2>1. first[T] = CHOOSE x \in T : TRUE
      OBVIOUS
    <2>2. sum[T] = count[first[T]] + sum[T \ {first[T]}]
      <3> HIDE DEF first, step
      <3> QED
        BY <1>3, <1>4, <1>5 DEF FoldOf
    <2> QED
      BY <2>1, <2>2, Zenon
  <1>6. sum[{}] = 0
    BY <1>3 DEF FoldOf
  <1>7. Adds(S, count, sum)
    BY <1>5, <1>6, Zenon DEF Adds
  <1> QED
    BY <1>3, <1>7 DEF FoldOf

\* Two such functions agree.
LEMMA AddsAgree ==
  ASSUME NEW S, IsFiniteSet(S), NEW count, NEW sum, Adds(S, count, sum),
         NEW other, Adds(S, count, other)
  PROVE  \A T \in SUBSET S : sum[T] = other[T]
  <1> DEFINE G == {T \in SUBSET S : sum[T] = other[T]}
  <1>1. {} \in G
    BY DEF Adds
  <1>2. ASSUME NEW T \in SUBSET S, T # {}, \A x \in T : T \ {x} \in G PROVE T \in G
    <2>1. (CHOOSE x \in T : TRUE) \in T
      BY <1>2
    <2>2. sum[T \ {CHOOSE x \in T : TRUE}] = other[T \ {CHOOSE x \in T : TRUE}]
      BY <1>2, <2>1
    <2> QED
      BY <1>2, <2>2 DEF Adds
  <1>3. \A T \in SUBSET S : T \in G
    <2> HIDE DEF G
    <2> QED
      BY <1>1, <1>2, InductiveParts
  <1> QED
    BY <1>3

\* Such a function gives the sums of all parts.
Sums(S, count, sum) ==
  /\ sum \in [SUBSET S -> Nat] /\ Adds(S, count, sum)
  /\ \A T \in SUBSET S : Sum(T, count) = sum[T]

LEMMA SumsOfParts ==
  ASSUME NEW S, IsFiniteSet(S), NEW count, \A x \in S : count[x] \in Nat
  PROVE  \E sum : Sums(S, count, sum)
  <1>1. PICK sum \in [SUBSET S -> Nat] : Adds(S, count, sum)
    BY AddsExists
  <1>2. ASSUME NEW T \in SUBSET S PROVE Sum(T, count) = sum[T]
    <2> DEFINE step(f, P) == IF P = {} THEN 0
                             ELSE count[CHOOSE x \in P : TRUE] + f[P \ {CHOOSE x \in P : TRUE}]
               chosen == CHOOSE f : f = [P \in SUBSET T |-> step(f, P)]
    <2>1. IsFiniteSet(T) /\ \A x \in T : count[x] \in Nat
      BY FS_Subset
    <2>2. PICK f \in [SUBSET T -> Nat] : Adds(T, count, f)
      BY <2>1, AddsExists
    <2>3. f = [P \in SUBSET T |-> step(f, P)]
      BY <2>2 DEF Adds
    <2>4. chosen = [P \in SUBSET T |-> step(chosen, P)]
      BY <2>3
    <2>5. Sum(T, count) = chosen[T]
      BY DEF Sum, MapThenSumSet, MapThenFoldSet
    <2>6. Adds(T, count, chosen)
      <3> HIDE DEF chosen
      <3> QED
        BY <2>4 DEF Adds
    <2>7. Adds(T, count, sum)
      BY <1>1 DEF Adds
    <2> HIDE DEF chosen
    <2> QED
      BY <2>1, <2>5, <2>6, <2>7, AddsAgree
  <1> QED
    BY <1>1, <1>2 DEF Sums

\* A sum is what any one adds to the sum of the others.
LEMMA SumRemove ==
  ASSUME NEW S, IsFiniteSet(S), NEW count, \A x \in S : count[x] \in Nat
  PROVE  /\ Sum({}, count) = 0
         /\ \A T \in SUBSET S : Sum(T, count) \in Nat
         /\ \A T \in SUBSET S : \A x \in T : Sum(T, count) = count[x] + Sum(T \ {x}, count)
  <1>0. PICK sum : Sums(S, count, sum)
    BY SumsOfParts
  <1>1. /\ sum \in [SUBSET S -> Nat] /\ Adds(S, count, sum)
        /\ \A T \in SUBSET S : Sum(T, count) = sum[T]
    BY <1>0 DEF Sums
  <1> DEFINE G == {T \in SUBSET S : \A x \in T : sum[T] = count[x] + sum[T \ {x}]}
  <1>2. {} \in G
    OBVIOUS
  <1>3. ASSUME NEW T \in SUBSET S, T # {}, \A x \in T : T \ {x} \in G PROVE T \in G
    <2> DEFINE y == CHOOSE x \in T : TRUE
    <2>1. y \in T /\ sum[T] = count[y] + sum[T \ {y}]
      BY <1>1, <1>3 DEF Adds
    <2> HIDE DEF y
    <2>2. ASSUME NEW x \in T, x # y PROVE sum[T] = count[x] + sum[T \ {x}]
      <3> DEFINE both == T \ {x, y}
      <3>1. (T \ {y}) \ {x} = both /\ (T \ {x}) \ {y} = both
        OBVIOUS
      <3>2. sum[T \ {y}] = count[x] + sum[both]
        BY <1>3, <2>1, <2>2, <3>1
      <3>3. sum[T \ {x}] = count[y] + sum[both]
        BY <1>3, <2>1, <2>2, <3>1
      <3>4. sum[both] \in Nat /\ count[x] \in Nat /\ count[y] \in Nat
        BY <1>1, <2>1
      <3> HIDE DEF both
      <3> QED
        BY <2>1, <3>2, <3>3, <3>4
    <2> QED
      BY <2>1, <2>2
  <1>4. \A T \in SUBSET S : T \in G
    <2> HIDE DEF G
    <2> QED
      BY <1>2, <1>3, InductiveParts
  <1>5. sum[{}] = 0
    BY <1>1 DEF Adds
  <1> QED
    BY <1>1, <1>4, <1>5

\* More counted of more is more.
LEMMA SumGrows ==
  ASSUME NEW S, IsFiniteSet(S), NEW T \in SUBSET S, NEW few, NEW many,
         \A x \in S : many[x] \in Nat,
         \A x \in T : few[x] \in Nat /\ few[x] <= many[x]
  PROVE  Sum(T, few) <= Sum(S, many)
  <1> DEFINE G == {P \in SUBSET S : Sum(P \cap T, few) <= Sum(P, many)}
  <1>1. /\ Sum({}, many) = 0
        /\ \A P \in SUBSET S : Sum(P, many) \in Nat
        /\ \A P \in SUBSET S : \A x \in P : Sum(P, many) = many[x] + Sum(P \ {x}, many)
    BY SumRemove
  <1>2. IsFiniteSet(T)
    BY FS_Subset
  <1>3. /\ Sum({}, few) = 0
        /\ \A P \in SUBSET T : Sum(P, few) \in Nat
        /\ \A P \in SUBSET T : \A x \in P : Sum(P, few) = few[x] + Sum(P \ {x}, few)
    BY <1>2, SumRemove
  <1>4. {} \in G
    BY <1>1, <1>3
  <1>5. ASSUME NEW P \in SUBSET S, P # {}, \A x \in P : P \ {x} \in G PROVE P \in G
    <2>1. PICK x \in P : TRUE
      BY <1>5
    <2> DEFINE rest == P \ {x}
    <2>2. rest \in SUBSET S /\ Sum(rest \cap T, few) <= Sum(rest, many)
      BY <1>5, <2>1
    <2>3. Sum(P, many) = many[x] + Sum(rest, many) /\ many[x] \in Nat
      BY <1>1, <2>1
    <2>4. Sum(rest, many) \in Nat /\ Sum(rest \cap T, few) \in Nat
      BY <1>1, <1>3, <2>2
    <2>5. Sum(P \cap T, few) <= Sum(P, many)
      <3>1. CASE x \in T
        <4>1. (P \cap T) \ {x} = rest \cap T /\ x \in P \cap T
          BY <2>1, <3>1
        <4>2. Sum(P \cap T, few) = few[x] + Sum(rest \cap T, few)
          BY <1>3, <4>1
        <4>3. few[x] \in Nat /\ few[x] <= many[x]
          BY <3>1
        <4> HIDE DEF rest
        <4> QED
          BY <2>2, <2>3, <2>4, <4>2, <4>3
      <3>2. CASE x \notin T
        <4>1. P \cap T = rest \cap T
          BY <3>2
        <4> HIDE DEF rest
        <4> QED
          BY <2>2, <2>3, <2>4, <4>1
      <3> QED
        BY <3>1, <3>2
    <2> QED
      BY <2>5
  <1>6. S \in G
    <2> HIDE DEF G
    <2> QED
      BY <1>4, <1>5, InductiveParts
  <1>7. S \cap T = T
    OBVIOUS
  <1> QED
    BY <1>6, <1>7

\* Apart, two sets sum up to the sum of both.
LEMMA SumApart ==
  ASSUME NEW S, IsFiniteSet(S), NEW T, IsFiniteSet(T), S \cap T = {},
         NEW count, \A x \in S \cup T : count[x] \in Nat
  PROVE  Sum(S \cup T, count) = Sum(S, count) + Sum(T, count)
  <1> DEFINE U == S \cup T
             G == {P \in SUBSET S : Sum(P \cup T, count) = Sum(P, count) + Sum(T, count)}
  <1>1. IsFiniteSet(U)
    BY FS_Union
  <1>2. /\ Sum({}, count) = 0
        /\ \A P \in SUBSET U : Sum(P, count) \in Nat
        /\ \A P \in SUBSET U : \A x \in P : Sum(P, count) = count[x] + Sum(P \ {x}, count)
    BY <1>1, SumRemove
  <1>3. {} \in G
    <2>1. {} \cup T = T /\ Sum(T, count) \in Nat
      BY <1>2
    <2> QED
      BY <1>2, <2>1
  <1>4. ASSUME NEW P \in SUBSET S, P # {}, \A x \in P : P \ {x} \in G PROVE P \in G
    <2>1. PICK x \in P : TRUE
      BY <1>4
    <2> DEFINE rest == P \ {x}
    <2>2. Sum(rest \cup T, count) = Sum(rest, count) + Sum(T, count)
      BY <1>4, <2>1
    <2>3. (P \cup T) \ {x} = rest \cup T /\ x \in P \cup T
      BY <2>1
    <2>4. Sum(P \cup T, count) = count[x] + Sum(rest \cup T, count)
      BY <1>2, <2>3
    <2>5. Sum(P, count) = count[x] + Sum(rest, count)
      BY <1>2, <2>1
    <2>6. Sum(rest, count) \in Nat /\ Sum(T, count) \in Nat /\ count[x] \in Nat
      BY <1>2, <2>1
    <2> HIDE DEF rest
    <2>7. Sum(P \cup T, count) = Sum(P, count) + Sum(T, count)
      BY <2>2, <2>4, <2>5, <2>6
    <2> QED
      BY <2>7
  <1>5. S \in G
    <2> HIDE DEF G
    <2> QED
      BY <1>3, <1>4, InductiveParts
  <1> QED
    BY <1>5

=============================================================================
