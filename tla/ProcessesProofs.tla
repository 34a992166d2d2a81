--------------------------- MODULE ProcessesProofs ---------------------------
(***************************************************************************)
(* Proofs about Processes: for any number of pids, however they are        *)
(* recycled, any budgets and runs of any length, percentages are those of  *)
(* processes, a tree keeps a family together and strangers out, and what   *)
(* takes the most of a machine is shown.                                   *)
(***************************************************************************)
EXTENDS Processes, SumProofs

-----------------------------------------------------------------------------
(* The first of an order.                                                  *)

\* ahead gives for each element those ahead of it.
Strict(ahead) ==
  /\ IsFiniteSet(DOMAIN ahead)
  /\ \A p \in DOMAIN ahead :
       /\ ahead[p] \in SUBSET DOMAIN ahead
       /\ p \notin ahead[p]
       /\ \A q \in ahead[p] : ahead[q] \subseteq ahead[p]

Total(ahead) ==
  /\ Strict(ahead)
  /\ \A p, q \in DOMAIN ahead : p = q \/ p \in ahead[q] \/ q \in ahead[p]

\* A nonempty part has an element that no other of it is ahead of.
LEMMA Foremost ==
  ASSUME NEW ahead, Strict(ahead), NEW T \in SUBSET DOMAIN ahead, T # {}
  PROVE  \E p \in T : ahead[p] \cap T = {}
  <1> DEFINE Sizes == {Cardinality(ahead[p]) : p \in T}
  <1>1. \A p \in DOMAIN ahead : IsFiniteSet(ahead[p]) /\ Cardinality(ahead[p]) \in Nat
    BY FS_Subset, FS_CardinalityType DEF Strict
  <1>2. Sizes \in SUBSET Nat /\ Sizes # {}
    BY <1>1
  <1>3. Min(Sizes) \in Sizes /\ \A m \in Sizes : Min(Sizes) <= m
    <2> HIDE DEF Sizes
    <2> QED
      BY <1>2, Smallest
  <1>4. PICK p \in T : \A q \in T : Cardinality(ahead[p]) <= Cardinality(ahead[q])
    BY <1>3
  <1>5. ASSUME NEW q \in ahead[p] \cap T PROVE FALSE
    <2>1. ahead[q] \subseteq ahead[p] /\ q \notin ahead[q]
      BY <1>5 DEF Strict
    <2>2. Cardinality(ahead[q]) <= Cardinality(ahead[p])
      BY <1>1, <2>1, FS_Subset
    <2>3. Cardinality(ahead[q]) # Cardinality(ahead[p])
      BY <1>1, <1>5, <2>1, FS_Subset
    <2> QED
      BY <1>1, <1>4, <1>5, <2>2, <2>3
  <1> QED
    BY <1>5

\* And in a total order one that all others are ahead of.
LEMMA Hindmost ==
  ASSUME NEW ahead, Total(ahead), NEW T \in SUBSET DOMAIN ahead, T # {}
  PROVE  \E p \in T : T \ {p} \subseteq ahead[p]
  <1> DEFINE behind == [p \in DOMAIN ahead |-> {q \in DOMAIN ahead : p \in ahead[q]}]
  <1>1. Strict(behind)
    BY DEF Strict, Total
  <1>2. DOMAIN behind = DOMAIN ahead
    OBVIOUS
  <1>3. PICK p \in T : behind[p] \cap T = {}
    <2> HIDE DEF behind
    <2> QED
      BY <1>1, <1>2, Foremost
  <1>4. \A q \in T \ {p} : q \in ahead[p]
    BY <1>3 DEF Total
  <1> QED
    BY <1>4

\* Among the first n there are n, or all.
LEMMA FirstAtLeast ==
  ASSUME NEW ahead, Strict(ahead), NEW n \in Nat, First(n, ahead) # DOMAIN ahead
  PROVE  Cardinality(First(n, ahead)) >= n
  <1> DEFINE others == DOMAIN ahead \ First(n, ahead)
  <1>1. First(n, ahead) \in SUBSET DOMAIN ahead /\ others # {}
    BY DEF First
  <1>2. PICK p \in others : ahead[p] \cap others = {}
    <2>1. others \in SUBSET DOMAIN ahead
      OBVIOUS
    <2> HIDE DEF others
    <2> QED
      BY <1>1, <2>1, Foremost
  <1>3. ahead[p] \subseteq First(n, ahead)
    BY <1>2 DEF Strict
  <1>4. IsFiniteSet(First(n, ahead)) /\ IsFiniteSet(ahead[p])
    BY <1>1, <1>3, FS_Subset DEF Strict
  <1>5. Cardinality(ahead[p]) <= Cardinality(First(n, ahead))
    BY <1>3, <1>4, FS_Subset
  <1>6. ~(Cardinality(ahead[p]) < n)
    BY DEF First
  <1> QED
    BY <1>4, <1>5, <1>6, FS_CardinalityType

\* And of a total order no more.
LEMMA FirstAtMost ==
  ASSUME NEW ahead, Total(ahead), NEW n \in Nat
  PROVE  Cardinality(First(n, ahead)) <= n
  <1> DEFINE F == First(n, ahead)
  <1>1. F \in SUBSET DOMAIN ahead /\ IsFiniteSet(F) /\ Cardinality(F) \in Nat
    BY FS_Subset, FS_CardinalityType DEF First, Total, Strict
  <1>2. CASE F = {}
    BY <1>2, FS_EmptySet
  <1>3. CASE F # {}
    <2>1. PICK p \in F : F \ {p} \subseteq ahead[p]
      <3> HIDE DEF F
      <3> QED
        BY <1>1, <1>3, Hindmost
    <2>2. IsFiniteSet(ahead[p]) /\ Cardinality(ahead[p]) \in Nat /\ Cardinality(ahead[p]) < n
      BY <1>1, <2>1, FS_Subset, FS_CardinalityType DEF First, Total, Strict
    <2>3. Cardinality(F \ {p}) <= Cardinality(ahead[p])
      BY <2>1, <2>2, FS_Subset
    <2>4. Cardinality(F \ {p}) = Cardinality(F) - 1
      BY <1>1, <2>1, FS_RemoveElement
    <2>5. Cardinality(F) <= n
      <3> HIDE DEF F
      <3> QED
        BY <1>1, <2>2, <2>3, <2>4
    <2> QED
      BY <2>5
  <1> QED
    BY <1>2, <1>3

\* The foremost of all is among the first.
LEMMA ForemostIsFirst ==
  ASSUME NEW ahead, NEW p \in DOMAIN ahead, ahead[p] = {}, NEW n \in Nat \ {0}
  PROVE  p \in First(n, ahead)
  <1>1. Cardinality(ahead[p]) = 0
    BY FS_EmptySet
  <1> QED
    BY <1>1 DEF First

-----------------------------------------------------------------------------
(* The list.                                                               *)

\* What is compared are numbers.
Measured(percent, S) ==
  /\ S \in SUBSET Nat /\ IsFiniteSet(S)
  /\ \A p \in S : percent[p].delta \in Nat

CpuOrder(percent, S) == [p \in S |-> {q \in S : ByCpuThenMemory(percent, q, p)}]
MemoryOrder(percent, S) == [p \in S |-> {q \in S : ByMemory(percent, q, p)}]

LEMMA MemType == \A p : Mem(p) \in Nat
  BY DEF Mem

LEMMA CpuOrderTotal ==
  ASSUME NEW percent, NEW S, Measured(percent, S)
  PROVE  Total(CpuOrder(percent, S))
  <1> DEFINE ahead == CpuOrder(percent, S)
  <1>1. \A p, q \in S : q \in ahead[p] <=> ByCpuThenMemory(percent, q, p)
    BY DEF CpuOrder
  <1>2. \A p \in S : p \in Nat /\ percent[p].delta \in Nat /\ Mem(p) \in Nat
    BY MemType DEF Measured
  <1>3. \A p \in S : ~ByCpuThenMemory(percent, p, p)
    BY <1>2 DEF ByCpuThenMemory
  <1>4. \A p, q, r \in S : ByCpuThenMemory(percent, r, q) /\ ByCpuThenMemory(percent, q, p)
                             => ByCpuThenMemory(percent, r, p)
    BY <1>2 DEF ByCpuThenMemory
  <1>5. \A p, q \in S : \/ p = q
                        \/ ByCpuThenMemory(percent, p, q) \/ ByCpuThenMemory(percent, q, p)
    BY <1>2 DEF ByCpuThenMemory
  <1>6. DOMAIN ahead = S /\ IsFiniteSet(S) /\ \A p \in S : ahead[p] \subseteq S
    BY DEF CpuOrder, Measured
  <1> HIDE DEF ahead
  <1>7. Strict(ahead)
    BY <1>1, <1>3, <1>4, <1>6 DEF Strict
  <1>8. Total(ahead)
    BY <1>1, <1>5, <1>6, <1>7 DEF Total
  <1> QED
    BY <1>8 DEF ahead

LEMMA MemoryOrderTotal ==
  ASSUME NEW percent, NEW S, Measured(percent, S)
  PROVE  Total(MemoryOrder(percent, S))
  <1> DEFINE ahead == MemoryOrder(percent, S)
  <1>1. \A p, q \in S : q \in ahead[p] <=> ByMemory(percent, q, p)
    BY DEF MemoryOrder
  <1>2. \A p \in S : p \in Nat /\ percent[p].delta \in Nat /\ Mem(p) \in Nat
    BY MemType DEF Measured
  <1>3. \A p \in S : ~ByMemory(percent, p, p)
    BY <1>2 DEF ByMemory, ByCpuThenMemory
  <1>4. \A p, q, r \in S : ByMemory(percent, r, q) /\ ByMemory(percent, q, p)
                             => ByMemory(percent, r, p)
    BY <1>2 DEF ByMemory, ByCpuThenMemory
  <1>5. \A p, q \in S : p = q \/ ByMemory(percent, p, q) \/ ByMemory(percent, q, p)
    BY <1>2 DEF ByMemory, ByCpuThenMemory
  <1>6. DOMAIN ahead = S /\ IsFiniteSet(S) /\ \A p \in S : ahead[p] \subseteq S
    BY DEF MemoryOrder, Measured
  <1> HIDE DEF ahead
  <1>7. Strict(ahead)
    BY <1>1, <1>3, <1>4, <1>6 DEF Strict
  <1>8. Total(ahead)
    BY <1>1, <1>5, <1>6, <1>7 DEF Total
  <1> QED
    BY <1>8 DEF ahead

\* A table the budget does not cover is listed from both ends.
Busy(percent, S) == First(Top \div 2, CpuOrder(percent, S))
Rest(percent, S) == S \ Busy(percent, S)
Large(percent, S) ==
  First(Top - Top \div 2, MemoryOrder(percent, Rest(percent, S)))

LEMMA SelectTopIs ==
  ASSUME NEW percent, NEW S
  PROVE  SelectTop(percent, S) =
           IF Cardinality(S) <= Top THEN S ELSE Busy(percent, S) \cup Large(percent, S)
  BY DEF SelectTop, Busy, Rest, Large, CpuOrder, MemoryOrder

LEMMA Halves ==
  /\ Top \div 2 \in Nat /\ Top \div 2 < Top
  /\ Top - Top \div 2 \in Nat \ {0}
  /\ Top > 1 => Top \div 2 \in Nat \ {0}
  BY ProcessesAssumption

\* The budget is used up.
LEMMA ListCounts ==
  ASSUME NEW percent, NEW S, Measured(percent, S)
  PROVE  Cardinality(SelectTop(percent, S)) =
           IF Cardinality(S) < Top THEN Cardinality(S) ELSE Top
  <1> DEFINE busy == Busy(percent, S)
             rest == Rest(percent, S)
             large == Large(percent, S)
  <1>1. IsFiniteSet(S) /\ Cardinality(S) \in Nat
    BY FS_CardinalityType DEF Measured
  <1>2. CASE Cardinality(S) <= Top
    BY <1>1, <1>2, SelectTopIs, ProcessesAssumption
  <1>3. CASE ~(Cardinality(S) <= Top)
    <2>1. /\ Total(CpuOrder(percent, S)) /\ DOMAIN CpuOrder(percent, S) = S
          /\ Strict(CpuOrder(percent, S))
      BY CpuOrderTotal DEF CpuOrder, Total
    <2>2. busy \in SUBSET S /\ rest \in SUBSET S
      BY DEF Busy, Rest, First, CpuOrder
    <2>3. Measured(percent, rest)
      BY <2>2, FS_Subset DEF Measured
    <2>4. /\ Total(MemoryOrder(percent, rest)) /\ DOMAIN MemoryOrder(percent, rest) = rest
          /\ Strict(MemoryOrder(percent, rest))
      BY <2>3, MemoryOrderTotal DEF MemoryOrder, Total
    <2>5. large \in SUBSET rest
      BY DEF Large, First, MemoryOrder
    <2>6. /\ IsFiniteSet(busy) /\ Cardinality(busy) \in Nat
          /\ IsFiniteSet(large) /\ Cardinality(large) \in Nat
      BY <1>1, <2>2, <2>5, FS_Subset, FS_CardinalityType
    <2>7. Cardinality(busy) = Top \div 2
      <3>1. Cardinality(busy) <= Top \div 2
        BY <2>1, Halves, FirstAtMost DEF Busy
      <3>2. busy # S
        BY <1>1, <1>3, <2>6, <3>1, Halves, ProcessesAssumption
      <3>3. Cardinality(busy) >= Top \div 2
        BY <2>1, <3>2, Halves, FirstAtLeast DEF Busy
      <3> HIDE DEF busy
      <3> QED
        BY <2>6, <3>1, <3>3, Halves
    <2>8. Cardinality(rest) = Cardinality(S) - Top \div 2
      <3>1. S \cap busy = busy
        BY <2>2
      <3>2. Cardinality(S \ busy) = Cardinality(S) - Cardinality(S \cap busy)
        BY <1>1, FS_Difference
      <3> QED
        BY <2>7, <3>1, <3>2 DEF Rest
    <2>9. Cardinality(large) = Top - Top \div 2
      <3>1. Cardinality(large) <= Top - Top \div 2
        BY <2>4, Halves, FirstAtMost DEF Large
      <3>2. large # rest
        BY <1>1, <1>3, <2>6, <2>8, <3>1, Halves, ProcessesAssumption
      <3>3. Cardinality(large) >= Top - Top \div 2
        BY <2>4, <3>2, Halves, FirstAtLeast DEF Large
      <3> HIDE DEF large
      <3> QED
        BY <2>6, <3>1, <3>3, Halves
    <2>10. busy \cap large = {}
      BY <2>5 DEF Rest
    <2>11. Cardinality(busy \cup large) = Cardinality(busy) + Cardinality(large)
      <3>1. Cardinality(busy \cup large) =
              Cardinality(busy) + Cardinality(large) - Cardinality(busy \cap large)
        BY <2>6, FS_Union
      <3>2. Cardinality(busy \cap large) = 0
        BY <2>10, FS_EmptySet
      <3> HIDE DEF busy, large
      <3> QED
        BY <2>6, <3>1, <3>2
    <2>12. SelectTop(percent, S) = busy \cup large
      BY <1>3, SelectTopIs
    <2> HIDE DEF busy, large, rest
    <2> QED
      BY <1>1, <1>3, <2>7, <2>9, <2>11, <2>12, Halves, ProcessesAssumption
  <1> QED
    BY <1>2, <1>3

\* The largest process is in the list.
LEMMA LargestListed ==
  ASSUME NEW percent, NEW S, Measured(percent, S), S # {}
  PROVE  \E p \in SelectTop(percent, S) : \A q \in S : Mem(q) <= Mem(p)
  <1> DEFINE ahead == MemoryOrder(percent, S)
             rest == Rest(percent, S)
  <1>1. Strict(ahead) /\ DOMAIN ahead = S
    BY MemoryOrderTotal DEF Total, MemoryOrder
  <1>2. PICK p \in S : ahead[p] \cap S = {}
    <2> HIDE DEF ahead
    <2> QED
      BY <1>1, Foremost
  <1>3. \A q \in S : ~ByMemory(percent, q, p)
    BY <1>2 DEF MemoryOrder
  <1>4. \A q \in S : Mem(q) <= Mem(p)
    BY <1>3, MemType DEF ByMemory
  <1>5. ASSUME ~(Cardinality(S) <= Top), p \notin Busy(percent, S)
        PROVE  p \in Large(percent, S)
    <2>1. p \in rest /\ DOMAIN MemoryOrder(percent, rest) = rest
      BY <1>5 DEF Rest, MemoryOrder
    <2>2. MemoryOrder(percent, rest)[p] = {}
      BY <1>3, <2>1 DEF Rest, MemoryOrder
    <2> QED
      BY <2>1, <2>2, Halves, ForemostIsFirst DEF Large
  <1>6. p \in SelectTop(percent, S)
    BY <1>5, SelectTopIs
  <1> QED
    BY <1>4, <1>6

\* And the busiest one.
LEMMA BusiestListed ==
  ASSUME NEW percent, NEW S, Measured(percent, S), S # {}, Top > 1
  PROVE  \E p \in SelectTop(percent, S) :
           \A q \in S : percent[q].delta <= percent[p].delta
  <1> DEFINE ahead == CpuOrder(percent, S)
  <1>1. Strict(ahead) /\ DOMAIN ahead = S
    BY CpuOrderTotal DEF Total, CpuOrder
  <1>2. PICK p \in S : ahead[p] \cap S = {}
    <2> HIDE DEF ahead
    <2> QED
      BY <1>1, Foremost
  <1>3. \A q \in S : ~ByCpuThenMemory(percent, q, p)
    BY <1>2 DEF CpuOrder
  <1>4. \A q \in S : percent[q].delta <= percent[p].delta
    BY <1>3 DEF ByCpuThenMemory, Measured
  <1>5. p \in Busy(percent, S)
    <2>1. ahead[p] = {}
      BY <1>2 DEF CpuOrder
    <2> HIDE DEF ahead
    <2>2. p \in First(Top \div 2, ahead)
      BY <1>1, <2>1, Halves, ForemostIsFirst
    <2> QED
      BY <2>2 DEF Busy, ahead
  <1>6. p \in SelectTop(percent, S)
    BY <1>5, SelectTopIs
  <1> QED
    BY <1>4, <1>6

-----------------------------------------------------------------------------
(* Climbs and roots.                                                       *)

LEMMA ClimbStays ==
  ASSUME NEW t, NEW p, Climbs(t, p)
  PROVE  t[p].parent \in DOMAIN t
  BY DEF Climbs, IsPlausibleParent

LEMMA ChainIs ==
  ASSUME NEW t, NEW p \in DOMAIN t
  PROVE  /\ Chain(t, p) \in SUBSET DOMAIN t
         /\ p \in Chain(t, p)
         /\ Closed(t, Chain(t, p))
         /\ \A S \in SUBSET DOMAIN t : p \in S /\ Closed(t, S) => Chain(t, p) \subseteq S
         /\ \A q \in Chain(t, p) : Chain(t, q) \subseteq Chain(t, p)
  <1>1. /\ Chain(t, p) \in SUBSET DOMAIN t /\ p \in Chain(t, p)
        /\ \A S \in SUBSET DOMAIN t : p \in S /\ Closed(t, S) => Chain(t, p) \subseteq S
    BY DEF Chain
  <1>2. Closed(t, Chain(t, p))
    <2> SUFFICES ASSUME NEW q \in Chain(t, p), Climbs(t, q)
                 PROVE  t[q].parent \in Chain(t, p)
      BY DEF Closed
    <2>1. \A S \in SUBSET DOMAIN t : p \in S /\ Closed(t, S) => t[q].parent \in S
      BY <1>1 DEF Closed
    <2> QED
      BY <2>1, ClimbStays DEF Chain
  <1>3. ASSUME NEW q \in Chain(t, p) PROVE Chain(t, q) \subseteq Chain(t, p)
    BY <1>1, <1>2, <1>3 DEF Chain
  <1> QED
    BY <1>1, <1>2, <1>3

\* A climb is a step and the climb from there.
LEMMA ChainStep ==
  ASSUME NEW t, NEW p \in DOMAIN t, Climbs(t, p)
  PROVE  /\ t[p].parent \in Chain(t, p)
         /\ Chain(t, p) = {p} \cup Chain(t, t[p].parent)
  <1> DEFINE parent == t[p].parent
             S == {p} \cup Chain(t, parent)
  <1>1. parent \in DOMAIN t
    BY ClimbStays
  <1>2. parent \in Chain(t, p)
    BY ChainIs DEF Closed
  <1>3. S \subseteq Chain(t, p)
    BY <1>2, ChainIs
  <1>4. S \in SUBSET DOMAIN t /\ p \in S
    BY <1>1, ChainIs
  <1>5. Closed(t, S)
    <2>1. parent \in Chain(t, parent) /\ Closed(t, Chain(t, parent))
      BY <1>1, ChainIs
    <2> QED
      BY <2>1 DEF Closed
  <1>6. Chain(t, p) \subseteq S
    <2> HIDE DEF S
    <2> QED
      BY <1>4, <1>5, ChainIs
  <1> QED
    BY <1>2, <1>3, <1>6

\* Where it stops, there is nothing to pass.
LEMMA ChainEnd ==
  ASSUME NEW t, NEW p \in DOMAIN t, ~Climbs(t, p)
  PROVE  Chain(t, p) = {p}
  <1>1. Closed(t, {p})
    BY DEF Closed
  <1> QED
    BY <1>1, ChainIs

\* Of two processes on a climb, it passes one after the other.
LEMMA ChainLinear ==
  ASSUME NEW t, NEW p \in DOMAIN t, NEW q \in Chain(t, p), NEW r \in Chain(t, p)
  PROVE  q \in Chain(t, r) \/ r \in Chain(t, q)
  <1> DEFINE S == {x \in DOMAIN t : q \in Chain(t, x) \/ x \in Chain(t, q)}
  <1>1. q \in DOMAIN t
    BY ChainIs
  <1>2. S \in SUBSET DOMAIN t /\ p \in S
    OBVIOUS
  <1>3. Closed(t, S)
    <2> SUFFICES ASSUME NEW x \in S, Climbs(t, x)
                 PROVE  t[x].parent \in S
      BY DEF Closed
    <2>1. x \in DOMAIN t /\ t[x].parent \in DOMAIN t
      BY ClimbStays
    <2>2. CASE q \in Chain(t, x)
      <3>1. q = x \/ q \in Chain(t, t[x].parent)
        BY <2>1, <2>2, ChainStep
      <3>2. q = x => t[x].parent \in Chain(t, q)
        BY <2>1, ChainStep
      <3> QED
        BY <2>1, <3>1, <3>2
    <2>3. CASE x \in Chain(t, q)
      <3>1. t[x].parent \in Chain(t, q)
        BY <1>1, <2>3, ChainIs DEF Closed
      <3> QED
        BY <2>1, <3>1
    <2> QED
      BY <2>2, <2>3
  <1>4. Chain(t, p) \subseteq S
    <2> HIDE DEF S
    <2> QED
      BY <1>2, <1>3, ChainIs
  <1> QED
    BY <1>4

\* Every climb has a root, at which it ends or which it comes back to.
LEMMA RootsNonempty ==
  ASSUME NEW t, IsFiniteSet(DOMAIN t), NEW p \in DOMAIN t
  PROVE  Roots(t, p) \in SUBSET Chain(t, p) /\ Roots(t, p) # {}
  <1> DEFINE ends == {q \in Chain(t, p) : ~Climbs(t, q)}
  <1>1. CASE ends # {}
    BY <1>1 DEF Roots
  <1>2. CASE ends = {}
    <2> DEFINE Sizes == {Cardinality(Chain(t, q)) : q \in Chain(t, p)}
    <2>1. \A q \in Chain(t, p) : /\ q \in DOMAIN t /\ IsFiniteSet(Chain(t, q))
                                 /\ Cardinality(Chain(t, q)) \in Nat
      BY ChainIs, FS_Subset, FS_CardinalityType
    <2>2. Sizes \in SUBSET Nat /\ Sizes # {}
      BY <2>1, ChainIs
    <2>3. Min(Sizes) \in Sizes /\ \A m \in Sizes : Min(Sizes) <= m
      <3> HIDE DEF Sizes
      <3> QED
        BY <2>2, Smallest
    <2>4. PICK q \in Chain(t, p) :
            \A r \in Chain(t, p) : Cardinality(Chain(t, q)) <= Cardinality(Chain(t, r))
      BY <2>3
    <2>5. ASSUME NEW r \in Chain(t, p) PROVE q \in Chain(t, r)
      <3>1. CASE r \in Chain(t, q)
        <4>1. Chain(t, r) \subseteq Chain(t, q)
          BY <2>1, <3>1, ChainIs
        <4>2. Cardinality(Chain(t, q)) <= Cardinality(Chain(t, r))
          BY <2>4
        <4>3. Chain(t, r) = Chain(t, q)
          <5>1. /\ Cardinality(Chain(t, r)) <= Cardinality(Chain(t, q))
                /\ Cardinality(Chain(t, r)) = Cardinality(Chain(t, q))
                     => Chain(t, r) = Chain(t, q)
            BY <2>1, <4>1, FS_Subset
          <5> QED
            BY <2>1, <4>2, <5>1
        <4> QED
          BY <2>1, <4>3, ChainIs
      <3>2. CASE ~(r \in Chain(t, q))
        BY <3>2, ChainLinear
      <3> QED
        BY <3>1, <3>2
    <2> QED
      BY <1>2, <2>5 DEF Roots
  <1> QED
    BY <1>1, <1>2

\* A step up does not change where a climb ends.
LEMMA RootsOfParent ==
  ASSUME NEW t, NEW p \in DOMAIN t, Climbs(t, p)
  PROVE  Roots(t, p) = Roots(t, t[p].parent)
  <1> DEFINE parent == t[p].parent
             ends(q) == {r \in Chain(t, q) : ~Climbs(t, r)}
             back(q) == {r \in Chain(t, q) : \A s \in Chain(t, q) : r \in Chain(t, s)}
  <1>1. parent \in DOMAIN t /\ parent \in Chain(t, p)
    BY ClimbStays, ChainStep
  <1>2. Chain(t, p) = {p} \cup Chain(t, parent) /\ p \in Chain(t, p)
    BY ChainStep, ChainIs
  <1>3. ends(p) = ends(parent)
    BY <1>2
  <1>4. back(p) = back(parent)
    BY <1>1, <1>2
  <1>5. \A q : Roots(t, q) = IF ends(q) # {} THEN ends(q) ELSE back(q)
    BY DEF Roots
  <1> HIDE DEF ends, back
  <1> QED
    BY <1>3, <1>4, <1>5

\* So a whole climb has the same root.
LEMMA RootsOfChain ==
  ASSUME NEW t, NEW p \in DOMAIN t
  PROVE  \A q \in Chain(t, p) : Roots(t, q) = Roots(t, p)
  <1> DEFINE S == {q \in DOMAIN t : Roots(t, q) = Roots(t, p)}
  <1>1. S \in SUBSET DOMAIN t /\ p \in S
    OBVIOUS
  <1>2. Closed(t, S)
    BY RootsOfParent, ClimbStays DEF Closed
  <1>3. Chain(t, p) \subseteq S
    <2> HIDE DEF S
    <2> QED
      BY <1>1, <1>2, ChainIs
  <1> QED
    BY <1>3

-----------------------------------------------------------------------------
(* Trees.                                                                  *)

\* A table of the machine, and what was measured of it.
IsTable(t) == DOMAIN t \in SUBSET Pids
Known(t, percent) == IsTable(t) /\ \A p \in DOMAIN t : percent[p].delta \in Nat

LEMMA PidsAre == Pids \in SUBSET Nat /\ IsFiniteSet(Pids) /\ INIT_PID \notin Pids
  BY ProcessesAssumption DEF INIT_PID

LEMMA TableIs ==
  ASSUME NEW t, IsTable(t)
  PROVE  DOMAIN t \in SUBSET Nat /\ IsFiniteSet(DOMAIN t)
  BY PidsAre, FS_Subset DEF IsTable

LEMMA TreeIs ==
  ASSUME NEW t, IsTable(t), NEW g \in Trees(t)
  PROVE  /\ g.members \in SUBSET DOMAIN t /\ g.members # {} /\ IsFiniteSet(g.members)
         /\ g.roots \in SUBSET Nat /\ g.roots # {}
         /\ g.members = {q \in DOMAIN t : Roots(t, q) = g.roots}
         /\ \A p \in g.members : Chain(t, p) \in SUBSET g.members
         /\ g = [roots |-> g.roots, members |-> g.members]
  <1>1. PICK p \in DOMAIN t : g = [roots |-> Roots(t, p),
                                   members |-> {q \in DOMAIN t : Roots(t, q) = Roots(t, p)}]
    BY DEF Trees
  <1>2. /\ g.roots = Roots(t, p) /\ g.members = {q \in DOMAIN t : Roots(t, q) = g.roots}
        /\ g = [roots |-> g.roots, members |-> g.members]
    BY <1>1
  <1>3. g.members \in SUBSET DOMAIN t /\ p \in g.members /\ IsFiniteSet(g.members)
    <2>1. g.members \in SUBSET DOMAIN t /\ p \in g.members
      BY <1>2
    <2> QED
      BY <2>1, TableIs, FS_Subset
  <1>4. g.roots \in SUBSET DOMAIN t /\ g.roots # {}
    <2>1. Roots(t, p) \in SUBSET Chain(t, p) /\ Roots(t, p) # {}
      BY TableIs, RootsNonempty
    <2>2. Chain(t, p) \in SUBSET DOMAIN t
      BY ChainIs
    <2> QED
      BY <1>2, <2>1, <2>2
  <1>5. ASSUME NEW q \in g.members PROVE Chain(t, q) \in SUBSET g.members
    <2>1. q \in DOMAIN t /\ Roots(t, q) = g.roots
      BY <1>2
    <2>2. /\ Chain(t, q) \in SUBSET DOMAIN t
          /\ \A r \in Chain(t, q) : Roots(t, r) = Roots(t, q)
      BY <2>1, ChainIs, RootsOfChain
    <2> QED
      BY <1>2, <2>1, <2>2
  <1> QED
    BY <1>2, <1>3, <1>4, <1>5, TableIs

\* Every process is in a tree.
LEMMA TreesCover ==
  ASSUME NEW t, NEW p \in DOMAIN t
  PROVE  \E g \in Trees(t) : p \in g.members
  <1> DEFINE g == [roots |-> Roots(t, p),
                   members |-> {q \in DOMAIN t : Roots(t, q) = Roots(t, p)}]
  <1>1. g \in Trees(t) /\ p \in g.members
    BY DEF Trees
  <1> QED
    BY <1>1

\* And in one only.
LEMMA TreesApart ==
  ASSUME NEW t, IsTable(t), NEW g \in Trees(t), NEW h \in Trees(t), g # h
  PROVE  g.members \cap h.members = {}
  <1> SUFFICES ASSUME NEW p \in g.members, p \in h.members PROVE FALSE
    OBVIOUS
  <1>1. g.roots = Roots(t, p) /\ h.roots = Roots(t, p)
    BY TreeIs
  <1>2. g.members = h.members
    <2>1. g.members = {q \in DOMAIN t : Roots(t, q) = g.roots}
      BY TreeIs
    <2>2. h.members = {q \in DOMAIN t : Roots(t, q) = h.roots}
      BY TreeIs
    <2>3. g.roots = h.roots
      BY <1>1
    <2> QED
      BY <2>1, <2>2, <2>3
  <1>3. g = [roots |-> g.roots, members |-> g.members] /\ h = [roots |-> h.roots, members |-> h.members]
    BY TreeIs
  <1> QED
    BY <1>1, <1>2, <1>3

\* A function has as many values as arguments at the most.
LEMMA FiniteImage ==
  ASSUME NEW f, NEW S, IsFiniteSet(S)
  PROVE  IsFiniteSet({f[x] : x \in S})
  <1> DEFINE T == {f[x] : x \in S}
             g == [x \in S |-> f[x]]
  <1>1. g \in Surjection(S, T)
    BY DEF Surjection
  <1> HIDE DEF g, T
  <1>2. IsFiniteSet(T)
    BY <1>1, FS_Surjection
  <1> QED
    BY <1>2 DEF T

LEMMA TreesFinite ==
  ASSUME NEW t, IsTable(t)
  PROVE  IsFiniteSet(Trees(t))
  <1> DEFINE tree == [p \in DOMAIN t |->
                        [roots |-> Roots(t, p),
                         members |-> {q \in DOMAIN t : Roots(t, q) = Roots(t, p)}]]
  <1>1. DOMAIN tree = DOMAIN t /\ Trees(t) = {tree[p] : p \in DOMAIN t}
    BY DEF Trees
  <1> HIDE DEF tree
  <1> QED
    BY <1>1, TableIs, FiniteImage

LEMMA SumType ==
  ASSUME NEW S, IsFiniteSet(S), NEW count, \A x \in S : count[x] \in Nat
  PROVE  Sum(S, count) \in Nat
  BY SumRemove

LEMMA BestOfType == \A p : BestOf(Footprint(p), Mem(p)) \in Nat
  <1>1. \A p : Footprint(p) # {} => \E f \in Nat : Footprint(p) = {f}
    BY MemType DEF Footprint
  <1> QED
    BY <1>1, MemType DEF BestOf

LEMMA HeldType == \A S : IsFiniteSet(S) => Held(S) \in Nat
  <1> SUFFICES ASSUME NEW S, IsFiniteSet(S) PROVE Held(S) \in Nat
    OBVIOUS
  <1> DEFINE count == [p \in S |-> BestOf(Footprint(p), Mem(p))]
  <1>1. \A p \in S : count[p] \in Nat
    BY BestOfType
  <1> HIDE DEF count
  <1>2. Sum(S, count) \in Nat
    BY <1>1, SumType
  <1> QED
    BY <1>2 DEF Held, count

LEMMA TotalsType ==
  ASSUME NEW t, NEW percent, Known(t, percent), NEW g \in Trees(t)
  PROVE  /\ TotalCpu(percent, g) \in Nat /\ Totals(g).mem \in Nat
         /\ Min(g.roots) \in Nat
  <1>1. IsFiniteSet(g.members) /\ g.members \in SUBSET DOMAIN t
    BY TreeIs DEF Known
  <1>2. TotalCpu(percent, g) \in Nat
    <2> DEFINE count == [p \in g.members |-> percent[p].delta]
    <2>1. \A p \in g.members : count[p] \in Nat
      BY <1>1 DEF Known
    <2> HIDE DEF count
    <2>2. Sum(g.members, count) \in Nat
      BY <1>1, <2>1, SumType
    <2> QED
      BY <2>2 DEF TotalCpu, count
  <1>3. Totals(g).mem \in Nat
    <2> DEFINE count == [p \in g.members |-> Mem(p)]
    <2>1. \A p \in g.members : count[p] \in Nat
      BY MemType
    <2> HIDE DEF count
    <2>2. Sum(g.members, count) \in Nat
      BY <1>1, <2>1, SumType
    <2> QED
      BY <2>2 DEF Totals, count
  <1>4. Min(g.roots) \in Nat
    BY TreeIs, Smallest DEF Known
  <1> QED
    BY <1>2, <1>3, <1>4

\* The order in which trees are published.
TreeOrder(t, percent) ==
  [g \in Trees(t) |-> {h \in Trees(t) : ByTotalCpu(percent, h, g)}]

LEMMA TreeOrderStrict ==
  ASSUME NEW t, NEW percent, Known(t, percent)
  PROVE  Strict(TreeOrder(t, percent)) /\ DOMAIN TreeOrder(t, percent) = Trees(t)
  <1> DEFINE ahead == TreeOrder(t, percent)
  <1>1. \A g, h \in Trees(t) : h \in ahead[g] <=> ByTotalCpu(percent, h, g)
    BY DEF TreeOrder
  <1>2. \A g \in Trees(t) : /\ TotalCpu(percent, g) \in Nat /\ Totals(g).mem \in Nat
                            /\ Min(g.roots) \in Nat
    BY TotalsType
  <1>3. \A g \in Trees(t) : ~ByTotalCpu(percent, g, g)
    BY <1>2 DEF ByTotalCpu
  <1>4. \A g, h, i \in Trees(t) : ByTotalCpu(percent, i, h) /\ ByTotalCpu(percent, h, g)
                                    => ByTotalCpu(percent, i, g)
    BY <1>2 DEF ByTotalCpu
  <1>5. DOMAIN ahead = Trees(t) /\ \A g \in Trees(t) : ahead[g] \subseteq Trees(t)
    BY DEF TreeOrder
  <1>6. IsFiniteSet(Trees(t))
    BY TreesFinite DEF Known
  <1> HIDE DEF ahead
  <1>7. Strict(ahead)
    BY <1>1, <1>3, <1>4, <1>5, <1>6 DEF Strict
  <1> QED
    BY <1>5, <1>7 DEF ahead

\* What is published of the trees: as many as the budget allows.
LEMMA GroupsAre ==
  ASSUME NEW t, NEW percent, Known(t, percent)
  PROVE  /\ Groups(t, percent) \in SUBSET Trees(t)
         /\ Cardinality(Groups(t, percent)) < Top => Groups(t, percent) = Trees(t)
  <1>1. Groups(t, percent) = First(Top, TreeOrder(t, percent))
    BY DEF Groups, TreeOrder
  <1>2. Groups(t, percent) \in SUBSET Trees(t)
    BY <1>1 DEF First, TreeOrder
  <1>3. IsFiniteSet(Groups(t, percent)) /\ Cardinality(Groups(t, percent)) \in Nat
    BY <1>2, TreesFinite, FS_Subset, FS_CardinalityType DEF Known
  <1>4. Groups(t, percent) # Trees(t) => Cardinality(Groups(t, percent)) >= Top
    BY <1>1, TreeOrderStrict, FirstAtLeast, ProcessesAssumption
  <1> QED
    BY <1>2, <1>3, <1>4, ProcessesAssumption

\* The pid a tree is published under is that of a member.
LEMMA RootIsMember ==
  ASSUME NEW t, IsTable(t), NEW g \in Trees(t)
  PROVE  Min(g.roots) \in g.members
  <1>1. PICK p \in g.members : TRUE
    BY TreeIs
  <1>2. p \in DOMAIN t /\ Roots(t, p) = g.roots
    BY TreeIs
  <1>3. Roots(t, p) \in SUBSET Chain(t, p)
    BY <1>2, TableIs, RootsNonempty
  <1>4. Chain(t, p) \in SUBSET g.members
    BY TreeIs
  <1>5. Min(g.roots) \in g.roots
    BY TreeIs, Smallest
  <1> QED
    BY <1>2, <1>3, <1>4, <1>5

\* So no two trees tie.
LEMMA TreeOrderTotal ==
  ASSUME NEW t, NEW percent, Known(t, percent)
  PROVE  Total(TreeOrder(t, percent))
  <1> DEFINE ahead == TreeOrder(t, percent)
  <1>1. Strict(ahead) /\ DOMAIN ahead = Trees(t)
    BY TreeOrderStrict
  <1>2. \A g, h \in Trees(t) : h \in ahead[g] <=> ByTotalCpu(percent, h, g)
    BY DEF TreeOrder
  <1>3. ASSUME NEW g \in Trees(t), NEW h \in Trees(t), g # h
        PROVE  ByTotalCpu(percent, g, h) \/ ByTotalCpu(percent, h, g)
    <2>1. /\ TotalCpu(percent, g) \in Nat /\ Totals(g).mem \in Nat /\ Min(g.roots) \in Nat
          /\ TotalCpu(percent, h) \in Nat /\ Totals(h).mem \in Nat /\ Min(h.roots) \in Nat
      BY TotalsType
    <2>2. Min(g.roots) # Min(h.roots)
      <3>1. g.members \cap h.members = {}
        BY <1>3, TreesApart DEF Known
      <3>2. Min(g.roots) \in g.members /\ Min(h.roots) \in h.members
        BY RootIsMember DEF Known
      <3> QED
        BY <3>1, <3>2
    <2> QED
      BY <2>1, <2>2 DEF ByTotalCpu
  <1> HIDE DEF ahead
  <1>4. Total(ahead)
    BY <1>1, <1>2, <1>3 DEF Total
  <1> QED
    BY <1>4 DEF ahead

\* The order is by CPU first.
LEMMA BusierAhead ==
  ASSUME NEW t, NEW percent, Known(t, percent), NEW g \in Trees(t), NEW h \in Trees(t),
         TotalCpu(percent, g) > TotalCpu(percent, h)
  PROVE  TreeOrder(t, percent)[g] \subseteq TreeOrder(t, percent)[h]
  <1> DEFINE ahead == TreeOrder(t, percent)
  <1>1. g \in ahead[h] /\ h \in DOMAIN ahead
    BY DEF TreeOrder, ByTotalCpu
  <1>2. Strict(ahead)
    BY TreeOrderStrict
  <1> HIDE DEF ahead
  <1>3. ahead[g] \subseteq ahead[h]
    BY <1>1, <1>2 DEF Strict
  <1> QED
    BY <1>3 DEF ahead

\* A tree that is not published is kept out by a full budget of trees that use
\* at least as much CPU.
LEMMA GroupsCut ==
  ASSUME NEW t, NEW percent, Known(t, percent),
         NEW g \in Trees(t), g \notin Groups(t, percent)
  PROVE  /\ Cardinality(Groups(t, percent)) = Top
         /\ \A h \in Groups(t, percent) : TotalCpu(percent, h) >= TotalCpu(percent, g)
  <1> DEFINE ahead == TreeOrder(t, percent)
             F == First(Top, ahead)
  <1>1. Groups(t, percent) = F
    BY DEF Groups, TreeOrder
  <1>2. Total(ahead) /\ Strict(ahead) /\ DOMAIN ahead = Trees(t)
    BY TreeOrderTotal, TreeOrderStrict
  <1>3. Top \in Nat
    BY ProcessesAssumption
  <1>4. F \in SUBSET Trees(t) /\ g \notin F
    BY <1>1, <1>2 DEF First
  <1>5. IsFiniteSet(F) /\ Cardinality(F) \in Nat
    BY <1>4, TreesFinite, FS_Subset, FS_CardinalityType DEF Known
  <1>6. Cardinality(F) >= Top
    <2>1. F # DOMAIN ahead
      BY <1>2, <1>4
    <2> QED
      BY <1>2, <1>3, <2>1, FirstAtLeast
  <1>7. Cardinality(F) <= Top
    BY <1>2, <1>3, FirstAtMost
  <1>8. ASSUME NEW h \in F PROVE TotalCpu(percent, h) >= TotalCpu(percent, g)
    <2>1. TotalCpu(percent, h) \in Nat /\ TotalCpu(percent, g) \in Nat
      BY <1>4, TotalsType
    <2>2. ASSUME TotalCpu(percent, g) > TotalCpu(percent, h) PROVE FALSE
      <3>1. ahead[g] \subseteq ahead[h]
        BY <1>4, <2>2, BusierAhead
      <3>2. ahead[h] \subseteq Trees(t)
        BY <1>2, <1>4 DEF Strict
      <3>3. IsFiniteSet(ahead[h])
        BY <3>2, TreesFinite, FS_Subset DEF Known
      <3>4. IsFiniteSet(ahead[g]) /\ Cardinality(ahead[g]) <= Cardinality(ahead[h])
        BY <3>1, <3>3, FS_Subset
      <3>5. Cardinality(ahead[g]) \in Nat /\ Cardinality(ahead[h]) \in Nat
        BY <3>3, <3>4, FS_CardinalityType
      <3>6. Cardinality(ahead[h]) < Top
        BY DEF First
      <3>7. ~(Cardinality(ahead[g]) < Top)
        BY <1>2, <1>4 DEF First
      <3> HIDE DEF ahead
      <3> QED
        BY <1>3, <3>4, <3>5, <3>6, <3>7
    <2> QED
      BY <2>1, <2>2
  <1> HIDE DEF F, ahead
  <1> QED
    BY <1>1, <1>3, <1>5, <1>6, <1>7, <1>8

-----------------------------------------------------------------------------
(* The attribution of an alert.                                            *)

ConsumerOf(g) == Consumer(g.roots, g.members, Totals(g))

\* A consumer is said to hold what its processes hold.
LEMMA ConsumerIs ==
  ASSUME NEW t, IsTable(t), NEW g \in Trees(t)
  PROVE  /\ ConsumerOf(g).members = g.members
         /\ ConsumerOf(g).bytes = Held(g.members) /\ Held(g.members) \in Nat
         /\ ConsumerOf(g).pid \in Nat
  <1>1. Held(g.members) \in Nat
    BY TreeIs, HeldType
  <1>2. BestOf(Totals(g).footprint, Totals(g).mem) = Held(g.members)
    <2>1. CASE \A p \in g.members : Footprint(p) = {}
      <3>1. \A p \in g.members : BestOf(Footprint(p), Mem(p)) = Mem(p)
        BY <2>1 DEF BestOf
      <3>2. [p \in g.members |-> BestOf(Footprint(p), Mem(p))] =
              [p \in g.members |-> Mem(p)]
        BY <3>1
      <3>3. Totals(g).mem = Held(g.members)
        BY <3>2 DEF Totals, Held
      <3>4. Totals(g).footprint = {}
        BY <2>1 DEF Totals
      <3> QED
        BY <3>3, <3>4 DEF BestOf
    <2>2. CASE ~(\A p \in g.members : Footprint(p) = {})
      <3>1. Totals(g).footprint = {Held(g.members)}
        BY <2>2 DEF Totals
      <3> QED
        BY <3>1 DEF BestOf
    <2> QED
      BY <2>1, <2>2
  <1>3. Min(g.roots) \in Nat
    BY TreeIs, Smallest
  <1> QED
    BY <1>1, <1>2, <1>3 DEF ConsumerOf, Consumer

LEMMA HolderIsNamed ==
  ASSUME NEW t, IsTable(t), NEW sample, sample.groups \in SUBSET Trees(t),
         TotalMemory # 0, NEW g \in sample.groups,
         Held(g.members) * Floor >= TotalMemory
  PROVE  \E c \in TopMemoryConsumers(sample, TRUE) : Held(c.members) >= Held(g.members)
  <1> DEFINE all == {ConsumerOf(h) : h \in sample.groups}
             worth == {c \in all : c.bytes * Floor >= TotalMemory}
             ahead == [c \in worth |-> {d \in worth : HoldsMore(d, c)}]
  <1>1. \A c \in all : c.bytes \in Nat /\ c.pid \in Nat /\ c.bytes = Held(c.members)
    BY ConsumerIs
  <1>2. ConsumerOf(g) \in worth
    BY ConsumerIs
  <1>3. TopMemoryConsumers(sample, TRUE) = First(Named, ahead)
    <2>1. Consumers(sample, TRUE) = all
      BY DEF Consumers, ConsumerOf
    <2> QED
      BY <2>1 DEF TopMemoryConsumers
  <1>4. IsFiniteSet(worth)
    <2>1. IsFiniteSet(sample.groups)
      BY TreesFinite, FS_Subset
    <2> DEFINE f == [h \in sample.groups |-> ConsumerOf(h)]
    <2>2. all = {f[h] : h \in sample.groups}
      OBVIOUS
    <2>3. IsFiniteSet(all)
      <3> HIDE DEF f, all
      <3> QED
        BY <2>1, <2>2, FiniteImage
    <2>4. worth \in SUBSET all
      OBVIOUS
    <2> HIDE DEF all, worth
    <2> QED
      BY <2>3, <2>4, FS_Subset
  <1>5. \A c, d \in worth : d \in ahead[c] <=> HoldsMore(d, c)
    OBVIOUS
  <1>6. \A c \in worth : c.bytes \in Nat /\ c.pid \in Nat /\ c.bytes = Held(c.members)
    BY <1>1
  <1>7. DOMAIN ahead = worth /\ \A c \in worth : ahead[c] \in SUBSET worth
    OBVIOUS
  <1> HIDE DEF ahead, worth
  <1>8. Strict(ahead)
    <2>1. \A c \in worth : ~HoldsMore(c, c)
      BY <1>6 DEF HoldsMore
    <2>2. \A c, d, e \in worth : HoldsMore(e, d) /\ HoldsMore(d, c) => HoldsMore(e, c)
      BY <1>6 DEF HoldsMore
    <2> QED
      BY <1>4, <1>5, <1>7, <2>1, <2>2 DEF Strict
  <1>9. PICK c \in worth : ahead[c] \cap worth = {}
    BY <1>2, <1>7, <1>8, Foremost
  <1>10. c \in First(Named, ahead)
    <2>1. ahead[c] = {}
      BY <1>7, <1>9
    <2> QED
      BY <1>7, <2>1, ForemostIsFirst, ProcessesAssumption
  <1>11. ~HoldsMore(ConsumerOf(g), c)
    BY <1>2, <1>5, <1>9
  <1>12. c.bytes >= ConsumerOf(g).bytes
    BY <1>2, <1>6, <1>11 DEF HoldsMore
  <1>13. ConsumerOf(g).bytes = Held(g.members)
    BY ConsumerIs
  <1> QED
    BY <1>3, <1>6, <1>10, <1>12, <1>13

-----------------------------------------------------------------------------
(* The machine.                                                            *)

Process ==
  [life : Nat, parent : Pids \cup {INIT_PID}, work : Nat, start : Nat, line : Nat,
   parentLife : Nat \cup {-1}]
Tables == UNION {[S -> Process] : S \in SUBSET Pids}

MachineType ==
  /\ reparents \in BOOLEAN /\ now \in Nat /\ lives \in Nat
  /\ table \in Tables

\* Lives are told apart, and nobody started later than now.
Aged ==
  \A p \in DOMAIN table : table[p].life < lives /\ table[p].start <= now

\* Start times can be trusted as far as they are known: the process that
\* started another one is the older of the two, one that took over its pid the
\* younger.
Older(t, p, q) == 0 \in {t[p].start, t[q].start} \/ t[p].start <= t[q].start

Lineage(t) ==
  \A p \in DOMAIN t :
    LET q == t[p].parent IN
    /\ q # p
    /\ t[p].parentLife < t[p].life
    /\ q \in DOMAIN t /\ t[q].life = t[p].parentLife =>
         Older(t, q, p) /\ (q \notin Managers => t[q].line = t[p].line)
    /\ q \in DOMAIN t /\ t[q].life # t[p].parentLife => Older(t, p, q)

MachineInv == MachineType /\ Aged /\ Lineage(table)

LEMMA TablesAre ==
  /\ \A t \in Tables : IsTable(t) /\ \A p \in DOMAIN t : t[p] \in Process
  /\ \A S \in SUBSET Pids : [S -> Process] \subseteq Tables
  /\ <<>> \in Tables /\ DOMAIN <<>> = {}
  <1>1. <<>> \in [{} -> Process] /\ {} \in SUBSET Pids /\ DOMAIN <<>> = {}
    OBVIOUS
  <1> QED
    BY <1>1 DEF Tables, IsTable

LEMMA InitMachine == Init => MachineInv
  BY TablesAre DEF Init, MachineInv, MachineType, Aged, Lineage

\* A new process is younger than all there are, and nobody's parent so far.
LEMMA SpawnMachine ==
  ASSUME MachineInv, NEW pid \in Pids, NEW parent \in Pids \cup {INIT_PID},
         Spawn(pid, parent)
  PROVE  MachineInv'
  <1> DEFINE new == [life |-> lives, parent |-> parent, work |-> 0,
                     start |-> IF pid \in Hidden THEN 0 ELSE now,
                     line |-> IF parent \in Managers \cup {INIT_PID} THEN lives
                              ELSE table[parent].line,
                     parentLife |-> IF parent = INIT_PID THEN -1 ELSE table[parent].life]
  <1>1. /\ pid \notin DOMAIN table
        /\ parent = INIT_PID \/ parent \in DOMAIN table
        /\ lives' = lives + 1 /\ now' = now /\ reparents' = reparents
        /\ table' = [p \in DOMAIN table \cup {pid} |-> IF p = pid THEN new ELSE table[p]]
    BY DEF Spawn
  <1>2. /\ now \in Nat /\ lives \in Nat /\ DOMAIN table \in SUBSET Pids
        /\ \A p \in DOMAIN table :
             /\ table[p] \in Process
             /\ table[p].life \in Nat /\ table[p].start \in Nat
             /\ table[p].line \in Nat /\ table[p].parentLife \in Nat \cup {-1}
             /\ table[p].life < lives /\ table[p].start <= now
    BY TablesAre DEF MachineInv, MachineType, Aged, IsTable, Process
  <1>3. /\ new \in Process /\ new.life = lives /\ new.parent = parent
        /\ new.start \in Nat /\ new.start <= now
        /\ new.start = 0 \/ \A p \in DOMAIN table : table[p].start <= new.start
        /\ parent # INIT_PID => /\ new.parentLife = table[parent].life
                                /\ parent \notin Managers => new.line = table[parent].line
        /\ new.parentLife < lives
    <2>1. new.line \in Nat /\ new.parentLife \in Nat \cup {-1} /\ new.start \in Nat
      BY <1>1, <1>2
    <2>2. new \in Process
      BY <1>2, <2>1 DEF Process
    <2> QED
      BY <1>1, <1>2, <2>1, <2>2
  <1> HIDE DEF new
  <1>4. table' \in Tables
    <2>1. table' \in [DOMAIN table \cup {pid} -> Process]
      BY <1>1, <1>2, <1>3
    <2>2. DOMAIN table \cup {pid} \in SUBSET Pids
      BY <1>2
    <2> QED
      BY <2>1, <2>2, TablesAre
  <1>5. /\ DOMAIN table' = DOMAIN table \cup {pid} /\ table'[pid] = new
        /\ \A p \in DOMAIN table : table'[p] = table[p]
    BY <1>1
  <1>6. Aged'
    BY <1>1, <1>2, <1>3, <1>5 DEF Aged
  <1>7. Lineage(table')
    <2> SUFFICES ASSUME NEW p \in DOMAIN table', NEW q, q = table'[p].parent
                 PROVE  /\ q # p
                        /\ table'[p].parentLife < table'[p].life
                        /\ q \in DOMAIN table' /\ table'[q].life = table'[p].parentLife =>
                             /\ Older(table', q, p)
                             /\ q \notin Managers => table'[q].line = table'[p].line
                        /\ q \in DOMAIN table' /\ table'[q].life # table'[p].parentLife =>
                             Older(table', p, q)
      BY DEF Lineage
    <2>1. CASE p = pid
      <3>1. q = parent /\ q # p
        BY <1>1, <1>3, <1>5, <2>1, PidsAre
      <3>2. q \in DOMAIN table' => q # INIT_PID /\ q \in DOMAIN table
        BY <1>1, <1>2, <3>1, PidsAre
      <3> QED
        BY <1>2, <1>3, <1>5, <2>1, <3>1, <3>2 DEF Older
    <2>2. CASE p # pid
      <3>1. p \in DOMAIN table /\ table'[p] = table[p] /\ q = table[p].parent
        BY <1>5, <2>2
      <3>2. /\ q # p
            /\ table[p].parentLife < table[p].life
            /\ q \in DOMAIN table /\ table[q].life = table[p].parentLife =>
                 Older(table, q, p) /\ (q \notin Managers => table[q].line = table[p].line)
            /\ q \in DOMAIN table /\ table[q].life # table[p].parentLife => Older(table, p, q)
        BY <3>1 DEF MachineInv, Lineage
      <3>3. CASE q # pid
        <4>1. q \in DOMAIN table' => q \in DOMAIN table /\ table'[q] = table[q]
          BY <1>5, <3>3
        <4> QED
          BY <3>1, <3>2, <4>1 DEF Older
      <3>4. CASE q = pid
        <4>1. table'[q] = new /\ new.life # table[p].parentLife
          BY <1>2, <1>3, <1>5, <3>1, <3>2, <3>4
        <4>2. Older(table', p, q)
          BY <1>2, <1>3, <3>1, <4>1 DEF Older
        <4> QED
          BY <3>1, <3>2, <4>1, <4>2
      <3> QED
        BY <3>3, <3>4
    <2> QED
      BY <2>1, <2>2
  <1> QED
    BY <1>1, <1>2, <1>4, <1>6, <1>7 DEF MachineInv, MachineType

\* One that ends leaves orphans behind, with or without a new parent.
LEMMA ExitMachine ==
  ASSUME MachineInv, NEW pid, Exit(pid)
  PROVE  MachineInv'
  <1>1. /\ lives' = lives /\ now' = now /\ reparents' = reparents
        /\ DOMAIN table' = DOMAIN table \ {pid}
        /\ \A p \in DOMAIN table' :
             \/ table'[p] = table[p]
             \/ table'[p] = [table[p] EXCEPT !.parent = INIT_PID]
        /\ table' = [p \in DOMAIN table' |-> table'[p]]
    BY DEF Exit
  <1>2. /\ DOMAIN table \in SUBSET Pids /\ \A p \in DOMAIN table : table[p] \in Process
        /\ now \in Nat /\ lives \in Nat /\ reparents \in BOOLEAN
    BY TablesAre DEF MachineInv, MachineType, IsTable
  <1>3. \A p \in DOMAIN table' :
          /\ table'[p] \in Process
          /\ table'[p].parent \in {table[p].parent, INIT_PID}
          /\ table'[p].life = table[p].life /\ table'[p].start = table[p].start
          /\ table'[p].line = table[p].line /\ table'[p].work = table[p].work
          /\ table'[p].parentLife = table[p].parentLife
    <2> SUFFICES ASSUME NEW p \in DOMAIN table'
                 PROVE  /\ table'[p] \in Process
                        /\ table'[p].parent \in {table[p].parent, INIT_PID}
                        /\ table'[p].life = table[p].life /\ table'[p].start = table[p].start
                        /\ table'[p].line = table[p].line /\ table'[p].work = table[p].work
                        /\ table'[p].parentLife = table[p].parentLife
      OBVIOUS
    <2>1. table[p] \in Process
      BY <1>1, <1>2
    <2>2. CASE table'[p] = table[p]
      BY <2>1, <2>2
    <2>3. CASE table'[p] = [table[p] EXCEPT !.parent = INIT_PID]
      BY <2>1, <2>3 DEF Process
    <2> QED
      BY <1>1, <2>2, <2>3
  <1>4. table' \in Tables
    <2>1. table' \in [DOMAIN table' -> Process] /\ DOMAIN table' \in SUBSET Pids
      BY <1>1, <1>2, <1>3
    <2> QED
      BY <2>1, TablesAre
  <1>5. Aged'
    BY <1>1, <1>3 DEF MachineInv, Aged
  <1>6. INIT_PID \notin DOMAIN table
    BY <1>2, PidsAre
  <1>7. Lineage(table')
    <2> SUFFICES ASSUME NEW p \in DOMAIN table', NEW q, q = table'[p].parent
                 PROVE  /\ q # p
                        /\ table'[p].parentLife < table'[p].life
                        /\ q \in DOMAIN table' /\ table'[q].life = table'[p].parentLife =>
                             /\ Older(table', q, p)
                             /\ q \notin Managers => table'[q].line = table'[p].line
                        /\ q \in DOMAIN table' /\ table'[q].life # table'[p].parentLife =>
                             Older(table', p, q)
      BY DEF Lineage
    <2>1. p \in DOMAIN table /\ q \in {table[p].parent, INIT_PID}
      BY <1>1, <1>3
    <2>2. q \in DOMAIN table' => q \in DOMAIN table /\ q = table[p].parent
      BY <1>1, <1>6, <2>1
    <2>3. LET r == table[p].parent IN
          /\ r # p
          /\ table[p].parentLife < table[p].life
          /\ r \in DOMAIN table /\ table[r].life = table[p].parentLife =>
               Older(table, r, p) /\ (r \notin Managers => table[r].line = table[p].line)
          /\ r \in DOMAIN table /\ table[r].life # table[p].parentLife => Older(table, p, r)
      BY <2>1 DEF MachineInv, Lineage
    <2>4. q # p
      BY <1>6, <2>1, <2>3
    <2> QED
      BY <1>3, <2>2, <2>3, <2>4 DEF Older
  <1> QED
    BY <1>1, <1>2, <1>4, <1>5, <1>7 DEF MachineInv, MachineType

LEMMA RunMachine ==
  ASSUME MachineInv, NEW pid, Run(pid)
  PROVE  MachineInv'
  <1>1. /\ lives' = lives /\ now' = now /\ reparents' = reparents
        /\ pid \in DOMAIN table /\ DOMAIN table' = DOMAIN table
        /\ \A p \in DOMAIN table :
             table'[p] = IF p = pid THEN [table[p] EXCEPT !.work = @ + 1] ELSE table[p]
        /\ table' = [p \in DOMAIN table' |-> table'[p]]
    <2>1. table = [p \in DOMAIN table |-> table[p]]
      BY DEF MachineInv, MachineType, Tables
    <2> QED
      BY <2>1 DEF Run
  <1>2. /\ DOMAIN table \in SUBSET Pids /\ \A p \in DOMAIN table : table[p] \in Process
        /\ now \in Nat /\ lives \in Nat /\ reparents \in BOOLEAN
    BY TablesAre DEF MachineInv, MachineType, IsTable
  <1>3. \A p \in DOMAIN table :
          /\ table'[p] \in Process
          /\ table'[p].parent = table[p].parent
          /\ table'[p].life = table[p].life /\ table'[p].start = table[p].start
          /\ table'[p].line = table[p].line
          /\ table'[p].parentLife = table[p].parentLife
    BY <1>1, <1>2 DEF Process
  <1>4. table' \in Tables
    <2>1. table' \in [DOMAIN table' -> Process] /\ DOMAIN table' \in SUBSET Pids
      BY <1>1, <1>2, <1>3
    <2> QED
      BY <2>1, TablesAre
  <1>5. Aged'
    BY <1>1, <1>3 DEF MachineInv, Aged
  <1>6. Lineage(table')
    BY <1>1, <1>3 DEF MachineInv, Lineage, Older
  <1> QED
    BY <1>1, <1>2, <1>4, <1>5, <1>6 DEF MachineInv, MachineType

LEMMA TickMachine ==
  ASSUME MachineInv, Tick
  PROVE  MachineInv'
  <1>1. /\ lives' = lives /\ now' = now + 1 /\ reparents' = reparents /\ table' = table
        /\ now \in Nat
    BY DEF Tick, MachineInv, MachineType
  <1>2. \A p \in DOMAIN table : table[p].start \in Nat
    BY TablesAre DEF MachineInv, MachineType, Process
  <1>3. Aged'
    BY <1>1, <1>2 DEF MachineInv, Aged
  <1> QED
    BY <1>1, <1>3 DEF MachineInv, MachineType, Lineage

LEMMA StillMachine ==
  ASSUME MachineInv, UNCHANGED <<reparents, now, table, lives>>
  PROVE  MachineInv'
  BY DEF MachineInv, MachineType, Aged, Lineage

LEMMA CollectKeepsMachine ==
  ASSUME NEW busy, Collect(busy)
  PROVE  UNCHANGED <<reparents, now, table, lives>>
  BY DEF Collect, vars

\* The machine keeps to its history whatever the collector does.
LEMMA StepMachine ==
  ASSUME MachineInv, [Next]_vars
  PROVE  MachineInv'
  <1>1. CASE UNCHANGED vars
    BY <1>1, StillMachine DEF vars
  <1>2. ASSUME NEW busy \in 0..Cores, Collect(busy) PROVE MachineInv'
    BY <1>2, CollectKeepsMachine, StillMachine
  <1>3. ASSUME NEW pid \in Pids, NEW parent \in Pids \cup {INIT_PID}, Spawn(pid, parent)
        PROVE  MachineInv'
    BY <1>3, SpawnMachine
  <1>4. ASSUME NEW pid \in Pids, Exit(pid) PROVE MachineInv'
    BY <1>4, ExitMachine
  <1>5. ASSUME NEW pid \in Pids, Run(pid) PROVE MachineInv'
    BY <1>5, RunMachine
  <1> QED
    BY <1>1, <1>2, <1>3, <1>4, <1>5, TickMachine DEF Next

-----------------------------------------------------------------------------
(* Families.                                                               *)

\* As far as the code can see, a climb leads from a process to the one that
\* started it.
Kin(t) ==
  \A p \in DOMAIN t :
    Climbs(t, p) => Mistaken(t, p) \/ t[t[p].parent].line = t[p].line

LEMMA LineageIsKin ==
  ASSUME NEW t \in Tables, Lineage(t)
  PROVE  Kin(t)
  <1> SUFFICES ASSUME NEW p \in DOMAIN t, NEW q, q = t[p].parent, Climbs(t, p),
                      ~Mistaken(t, p)
               PROVE  t[q].line = t[p].line
    BY DEF Kin
  <1>1. /\ q \in DOMAIN t /\ q \notin Managers
        /\ 0 \in {t[p].start, t[q].start} \/ t[q].start <= t[p].start
    BY DEF Climbs, IsServiceManager, IsPlausibleParent
  <1>2. t[p].start \in Nat /\ t[q].start \in Nat
    BY <1>1, TablesAre DEF Process
  <1>3. CASE t[q].life = t[p].parentLife
    BY <1>1, <1>3 DEF Lineage
  <1>4. CASE t[q].life # t[p].parentLife
    <2>1. Older(t, p, q)
      BY <1>1, <1>4 DEF Lineage
    <2> QED
      BY <1>1, <1>2, <1>4, <2>1 DEF Mistaken, Older
  <1> QED
    BY <1>3, <1>4

LEMMA OneLine ==
  ASSUME NEW t, IsTable(t), Kin(t), NEW g \in Trees(t),
         \A p \in g.members : ~Mistaken(t, p)
  PROVE  \A p, q \in g.members : t[p].line = t[q].line
  <1>1. ASSUME NEW p \in g.members, NEW x \in g.roots PROVE t[x].line = t[p].line
    <2> DEFINE S == {q \in Chain(t, p) : t[q].line = t[p].line}
    <2>1. p \in DOMAIN t /\ Roots(t, p) = g.roots /\ Chain(t, p) \in SUBSET g.members
      BY TreeIs
    <2>2. S \in SUBSET DOMAIN t /\ p \in S
      BY <2>1, ChainIs
    <2>3. Closed(t, S)
      <3> SUFFICES ASSUME NEW q \in S, Climbs(t, q)
                   PROVE  t[q].parent \in S
        BY DEF Closed
      <3>1. t[q].parent \in Chain(t, p)
        BY <2>1, ChainIs DEF Closed
      <3>2. t[t[q].parent].line = t[q].line
        BY <2>1, <2>2 DEF Kin
      <3> QED
        BY <3>1, <3>2
    <2>4. Chain(t, p) \subseteq S
      <3> HIDE DEF S
      <3> QED
        BY <2>1, <2>2, <2>3, ChainIs
    <2>5. x \in Chain(t, p)
      BY <2>1, TableIs, RootsNonempty
    <2> QED
      BY <2>4, <2>5
  <1>2. PICK x : x \in g.roots
    BY TreeIs
  <1> QED
    BY <1>1, <1>2

\* A process and one it climbs to are in the same tree.
LEMMA OneTree ==
  ASSUME NEW t, IsTable(t), NEW p \in DOMAIN t, Climbs(t, p), NEW g \in Trees(t)
  PROVE  p \in g.members <=> t[p].parent \in g.members
  <1>1. Roots(t, p) = Roots(t, t[p].parent) /\ t[p].parent \in DOMAIN t
    BY RootsOfParent, ClimbStays
  <1>2. g.members = {q \in DOMAIN t : Roots(t, q) = g.roots}
    BY TreeIs
  <1> QED
    BY <1>1, <1>2

-----------------------------------------------------------------------------
(* The collector.                                                          *)

\* A later table of the machine knows a process of an earlier one by its life
\* only, and then it has the start it had and has not lost CPU time.
Remembers(old, t) ==
  \A p \in DOMAIN old \cap DOMAIN t :
    old[p].life = t[p].life => old[p].start = t[p].start /\ old[p].work <= t[p].work

\* What is kept for the next refresh is what the last one read.
Remembered ==
  /\ last # None <=> cached # None
  /\ cached # None =>
       /\ last.at = cached.at /\ cached.at \in Nat /\ cached.at <= now
       /\ base = Baseline(cached.table)
       /\ cached.table \in Tables
       /\ \A p \in DOMAIN cached.table : cached.table[p].life < lives
       /\ Remembers(cached.table, table)

TrueReport(s) ==
  \A p \in DOMAIN s.percent :
    LET r == s.percent[p]
        current == s.table[p]
        known == s.before # None /\ p \in DOMAIN s.before.table
    IN IF known /\ s.before.table[p].life = current.life
         THEN s.at > s.before.at =>
                /\ r.span = s.at - s.before.at
                /\ r.delta = current.work - s.before.table[p].work
         ELSE \/ r.delta = 0
              \/ known /\ s.before.table[p].start = current.start

\* A refresh reports what it read.
Reported(s) ==
  /\ Lineage(s.table) /\ Known(s.table, s.percent)
  /\ s.list = SelectTop(s.percent, DOMAIN s.table)
  /\ s.groups = Groups(s.table, s.percent)
  /\ s.trees = Trees(s.table)
  /\ TrueReport(s)

ProcessesInv ==
  /\ MachineInv
  /\ Remembered
  /\ cached # None => Reported(cached)

LEMMA InitProcesses == Init => ProcessesInv
  BY InitMachine DEF Init, ProcessesInv, Remembered

\* The machine goes on: a process keeps its start and gains CPU time, a new
\* one has a new life.
GoesOn ==
  /\ lives <= lives' /\ now <= now'
  /\ \A p \in DOMAIN table' :
       \/ /\ p \in DOMAIN table
          /\ table'[p].life = table[p].life /\ table'[p].start = table[p].start
          /\ table[p].work <= table'[p].work
       \/ lives <= table'[p].life

LEMMA SpawnGoesOn ==
  ASSUME MachineInv, NEW pid \in Pids, NEW parent \in Pids \cup {INIT_PID},
         Spawn(pid, parent)
  PROVE  GoesOn
  <1>1. /\ lives' = lives + 1 /\ now' = now /\ lives \in Nat /\ now \in Nat
        /\ DOMAIN table' = DOMAIN table \cup {pid} /\ pid \notin DOMAIN table
        /\ table'[pid].life = lives
        /\ \A p \in DOMAIN table : table'[p] = table[p] /\ table[p].work \in Nat
    <2>1. \A p \in DOMAIN table : table[p].work \in Nat
      BY TablesAre DEF MachineInv, MachineType, Process
    <2> QED
      BY <2>1 DEF Spawn, MachineInv, MachineType
  <1> QED
    BY <1>1 DEF GoesOn

LEMMA ExitGoesOn ==
  ASSUME MachineInv, NEW pid, Exit(pid)
  PROVE  GoesOn
  <1>1. /\ lives' = lives /\ now' = now /\ lives \in Nat /\ now \in Nat
        /\ DOMAIN table' = DOMAIN table \ {pid}
        /\ \A p \in DOMAIN table' :
             \/ table'[p] = table[p]
             \/ table'[p] = [table[p] EXCEPT !.parent = INIT_PID]
    BY DEF Exit, MachineInv, MachineType
  <1>2. \A p \in DOMAIN table : table[p] \in Process
    BY TablesAre DEF MachineInv, MachineType
  <1>3. \A p \in DOMAIN table' :
          /\ table'[p].life = table[p].life /\ table'[p].start = table[p].start
          /\ table[p].work <= table'[p].work
    BY <1>1, <1>2 DEF Process
  <1> QED
    BY <1>1, <1>3 DEF GoesOn

LEMMA RunGoesOn ==
  ASSUME MachineInv, NEW pid, Run(pid)
  PROVE  GoesOn
  <1>1. /\ lives' = lives /\ now' = now /\ lives \in Nat /\ now \in Nat
        /\ DOMAIN table' = DOMAIN table
        /\ \A p \in DOMAIN table :
             table'[p] = IF p = pid THEN [table[p] EXCEPT !.work = @ + 1] ELSE table[p]
    BY DEF Run, MachineInv, MachineType, Tables
  <1>2. \A p \in DOMAIN table : table[p] \in Process
    BY TablesAre DEF MachineInv, MachineType
  <1>3. \A p \in DOMAIN table' :
          /\ table'[p].life = table[p].life /\ table'[p].start = table[p].start
          /\ table[p].work <= table'[p].work
    BY <1>1, <1>2 DEF Process
  <1> QED
    BY <1>1, <1>3 DEF GoesOn

LEMMA TickGoesOn ==
  ASSUME MachineInv, Tick
  PROVE  GoesOn
  <1>1. \A p \in DOMAIN table : table[p].work \in Nat
    BY TablesAre DEF MachineInv, MachineType, Process
  <1> QED
    BY <1>1 DEF Tick, GoesOn, MachineInv, MachineType

LEMMA KeepsProcesses ==
  ASSUME ProcessesInv, MachineInv', GoesOn, UNCHANGED <<last, base, cached>>
  PROVE  ProcessesInv'
  <1>1. Remembered'
    <2> SUFFICES ASSUME cached # None
                 PROVE  /\ cached.at <= now'
                        /\ \A p \in DOMAIN cached.table : cached.table[p].life < lives'
                        /\ Remembers(cached.table, table')
      BY DEF Remembered, ProcessesInv
    <2>1. /\ cached.at \in Nat /\ cached.at <= now /\ cached.table \in Tables
          /\ \A p \in DOMAIN cached.table : cached.table[p].life < lives
          /\ Remembers(cached.table, table)
      BY DEF ProcessesInv, Remembered
    <2>2. /\ now \in Nat /\ now' \in Nat /\ lives \in Nat /\ lives' \in Nat
          /\ \A p \in DOMAIN cached.table : /\ cached.table[p].life \in Nat
                                            /\ cached.table[p].work \in Nat
          /\ \A p \in DOMAIN table : table[p].work \in Nat
          /\ \A p \in DOMAIN table' : table'[p].work \in Nat /\ table'[p].life \in Nat
      BY <2>1, TablesAre DEF ProcessesInv, MachineInv, MachineType, Process
    <2>3. Remembers(cached.table, table')
      BY <2>1, <2>2 DEF Remembers, GoesOn
    <2> QED
      BY <2>1, <2>2, <2>3 DEF GoesOn
  <1> QED
    BY <1>1 DEF ProcessesInv

\* The percentages of a refresh, in terms of the tables it compares.
LEMMA PercentsAre ==
  ASSUME MachineInv, Remembered
  PROVE  /\ DOMAIN Percents(table) = DOMAIN table
         /\ \A p \in DOMAIN table :
              LET r == Percents(table)[p] IN
              /\ r.delta \in Nat
              /\ IF cached # None /\ p \in DOMAIN cached.table
                   THEN /\ r.span = now - cached.at
                        /\ cached.table[p].start # table[p].start => r.delta = 0
                        /\ /\ cached.table[p].start = table[p].start
                           /\ cached.table[p].work <= table[p].work
                           /\ now > cached.at
                           => r.delta = table[p].work - cached.table[p].work
                   ELSE r.delta = 0
  <1>1. DOMAIN Percents(table) = DOMAIN table
    BY DEF Percents
  <1> SUFFICES ASSUME NEW p \in DOMAIN table, NEW r, r = Percents(table)[p]
               PROVE  /\ r.delta \in Nat
                      /\ IF cached # None /\ p \in DOMAIN cached.table
                           THEN /\ r.span = now - cached.at
                                /\ cached.table[p].start # table[p].start => r.delta = 0
                                /\ /\ cached.table[p].start = table[p].start
                                   /\ cached.table[p].work <= table[p].work
                                   /\ now > cached.at
                                   => r.delta = table[p].work - cached.table[p].work
                           ELSE r.delta = 0
    BY <1>1
  <1>2. /\ table[p].work \in Nat /\ now \in Nat
        /\ Baseline(table)[p] = [work |-> table[p].work, start |-> table[p].start]
    BY TablesAre DEF MachineInv, MachineType, Process, Baseline
  <1>3. CASE cached # None /\ p \in DOMAIN cached.table
    <2>1. /\ last # None /\ last.at = cached.at /\ cached.at \in Nat /\ cached.at <= now
          /\ base = Baseline(cached.table) /\ cached.table[p].work \in Nat
      BY <1>3, TablesAre DEF Remembered, Process
    <2>2. p \in DOMAIN base /\ base[p] = [work |-> cached.table[p].work,
                                          start |-> cached.table[p].start]
      BY <1>3, <2>1 DEF Baseline
    <2>3. r = PercentBetween(base[p], Baseline(table)[p], now - cached.at)
      BY <2>1, <2>2 DEF Percents
    <2> QED
      BY <1>2, <1>3, <2>1, <2>2, <2>3 DEF PercentBetween
  <1>4. CASE ~(cached # None /\ p \in DOMAIN cached.table)
    <2>1. ~(last # None /\ p \in DOMAIN base)
      BY <1>4 DEF Remembered, Baseline
    <2>2. r = [delta |-> 0, span |-> 0]
      BY <2>1 DEF Percents
    <2> QED
      BY <1>4, <2>2
  <1> QED
    BY <1>3, <1>4

LEMMA SampleIs ==
  /\ Sample # None
  /\ Sample.at = now /\ Sample.table = table /\ Sample.percent = Percents(table)
  /\ Sample.list = SelectTop(Sample.percent, DOMAIN table)
  /\ Sample.groups = Groups(table, Sample.percent)
  /\ Sample.trees = Trees(table)
  /\ Sample.before # None <=> cached # None
  /\ cached # None =>
       /\ Sample.before.at = cached.at
       /\ DOMAIN Sample.before.table = DOMAIN cached.table
       /\ \A p \in DOMAIN cached.table :
            /\ Sample.before.table[p].life = cached.table[p].life
            /\ Sample.before.table[p].work = cached.table[p].work
            /\ Sample.before.table[p].start = cached.table[p].start
  <1>1. /\ Sample.at = now /\ Sample.table = table /\ Sample.percent = Percents(table)
        /\ Sample.list = SelectTop(Percents(table), DOMAIN table)
        /\ Sample.groups = Groups(table, Percents(table))
        /\ Sample.trees = Trees(table)
        /\ Sample.before = IF cached = None THEN None
                ELSE [at |-> cached.at,
                      table |-> [p \in DOMAIN cached.table |->
                                   [f \in {"life", "work", "start"} |-> cached.table[p][f]]]]
    BY DEF Sample, CollectProcesses, CollectProcessGroups
  <1>2. "at" \in DOMAIN Sample /\ "at" \notin DOMAIN None
    BY DEF Sample, None
  <1>3. Sample # None
    BY <1>2
  <1>4. CASE cached # None
    <2> DEFINE t == [p \in DOMAIN cached.table |->
                       [f \in {"life", "work", "start"} |-> cached.table[p][f]]]
    <2>1. Sample.before = [at |-> cached.at, table |-> t]
      BY <1>1, <1>4
    <2>2. "at" \in DOMAIN [at |-> cached.at, table |-> t] /\ "at" \notin DOMAIN None
      BY DEF None
    <2>3. Sample.before # None
      BY <2>1, <2>2
    <2>4. /\ DOMAIN t = DOMAIN cached.table
          /\ \A p \in DOMAIN cached.table :
               /\ t[p].life = cached.table[p].life
               /\ t[p].work = cached.table[p].work
               /\ t[p].start = cached.table[p].start
      OBVIOUS
    <2>5. Sample.before.at = cached.at /\ Sample.before.table = t
      BY <2>1
    <2> HIDE DEF t
    <2> QED
      BY <1>1, <1>3, <1>4, <2>3, <2>4, <2>5
  <1>5. CASE cached = None
    BY <1>1, <1>3, <1>5
  <1> QED
    BY <1>4, <1>5

\* A refresh reports the CPU time of the processes of its table.
LEMMA SampleTrue ==
  ASSUME MachineInv, Remembered
  PROVE  TrueReport(Sample)
  <1> DEFINE s == Sample
             r(p) == Percents(table)[p]
             old == cached.table
  <1>1. /\ s.at = now /\ s.table = table /\ s.percent = Percents(table)
        /\ DOMAIN s.percent = DOMAIN table
        /\ s.before # None <=> cached # None
        /\ cached # None => /\ s.before.at = cached.at
                            /\ DOMAIN s.before.table = DOMAIN old
                            /\ \A p \in DOMAIN old :
                                 /\ s.before.table[p].life = old[p].life
                                 /\ s.before.table[p].work = old[p].work
                                 /\ s.before.table[p].start = old[p].start
    BY SampleIs, PercentsAre
  <1> SUFFICES ASSUME NEW p \in DOMAIN table
               PROVE  LET known == s.before # None /\ p \in DOMAIN s.before.table IN
                      IF known /\ s.before.table[p].life = table[p].life
                        THEN now > s.before.at =>
                               /\ r(p).span = now - s.before.at
                               /\ r(p).delta = table[p].work - s.before.table[p].work
                        ELSE \/ r(p).delta = 0
                             \/ known /\ s.before.table[p].start = table[p].start
    BY <1>1 DEF TrueReport
  <1>2. IF cached # None /\ p \in DOMAIN old
          THEN /\ r(p).span = now - cached.at
               /\ old[p].start # table[p].start => r(p).delta = 0
               /\ /\ old[p].start = table[p].start
                  /\ old[p].work <= table[p].work
                  /\ now > cached.at
                  => r(p).delta = table[p].work - old[p].work
          ELSE r(p).delta = 0
    BY PercentsAre
  <1>3. cached # None /\ p \in DOMAIN old /\ old[p].life = table[p].life =>
          old[p].start = table[p].start /\ old[p].work <= table[p].work
    BY DEF Remembered, Remembers
  <1> HIDE DEF s, r, old
  <1>4. CASE cached # None /\ p \in DOMAIN old
    BY <1>1, <1>2, <1>3, <1>4
  <1>5. CASE ~(cached # None /\ p \in DOMAIN old)
    BY <1>1, <1>2, <1>5
  <1> QED
    BY <1>4, <1>5

LEMMA SampleReported ==
  ASSUME MachineInv, Remembered
  PROVE  Reported(Sample)
  <1>1. Known(table, Percents(table))
    BY PercentsAre, TablesAre DEF Known, MachineInv, MachineType
  <1> QED
    BY <1>1, SampleIs, SampleTrue DEF Reported, MachineInv

LEMMA CollectProcessesInv ==
  ASSUME ProcessesInv, NEW busy, Collect(busy)
  PROVE  ProcessesInv'
  <1>1. CASE UNCHANGED vars
    BY <1>1 DEF vars, ProcessesInv, Remembered, MachineInv, MachineType, Aged
  <1>2. CASE /\ last' = [at |-> now] /\ base' = Baseline(table) /\ cached' = Sample
             /\ UNCHANGED <<reparents, now, table, lives>>
    <2>1. MachineInv'
      BY <1>2, StillMachine DEF ProcessesInv
    <2>2. Reported(cached')
      BY <1>2, SampleReported DEF ProcessesInv
    <2>3. Remembered'
      <3>1. "at" \in DOMAIN [at |-> now] /\ "at" \notin DOMAIN None
        BY DEF None
      <3>2. last' # None /\ last'.at = now /\ cached' # None
        BY <1>2, <3>1, SampleIs
      <3>3. now \in Nat /\ table \in Tables /\ \A p \in DOMAIN table : table[p].life < lives
        BY DEF ProcessesInv, MachineInv, MachineType, Aged
      <3>4. cached'.at = now /\ cached'.table = table
        BY <1>2, SampleIs
      <3>5. Remembers(table, table)
        <4>1. \A p \in DOMAIN table : table[p].work \in Nat
          BY <3>3, TablesAre DEF Process
        <4> QED
          BY <4>1 DEF Remembers
      <3> QED
        BY <1>2, <3>2, <3>3, <3>4, <3>5 DEF Remembered
    <2> QED
      BY <2>1, <2>2, <2>3 DEF ProcessesInv
  <1> QED
    BY <1>1, <1>2 DEF Collect, refresh_process_table

LEMMA StepProcesses ==
  ASSUME ProcessesInv, [Next]_vars
  PROVE  ProcessesInv'
  <1>1. MachineInv /\ MachineInv'
    BY StepMachine DEF ProcessesInv
  <1>2. CASE UNCHANGED vars
    BY <1>2 DEF vars, ProcessesInv, Remembered, MachineInv, MachineType, Aged
  <1>3. ASSUME NEW busy \in 0..Cores, Collect(busy) PROVE ProcessesInv'
    BY <1>3, CollectProcessesInv
  <1>4. ASSUME NEW pid \in Pids, NEW parent \in Pids \cup {INIT_PID}, Spawn(pid, parent)
        PROVE  ProcessesInv'
    BY <1>1, <1>4, SpawnGoesOn, KeepsProcesses DEF Spawn
  <1>5. ASSUME NEW pid \in Pids, Exit(pid) PROVE ProcessesInv'
    BY <1>1, <1>5, ExitGoesOn, KeepsProcesses DEF Exit
  <1>6. ASSUME NEW pid \in Pids, Run(pid) PROVE ProcessesInv'
    BY <1>1, <1>6, RunGoesOn, KeepsProcesses DEF Run
  <1>7. CASE Tick
    BY <1>1, <1>7, TickGoesOn, KeepsProcesses DEF Tick
  <1> QED
    BY <1>2, <1>3, <1>4, <1>5, <1>6, <1>7 DEF Next

\* The inductive invariant: the machine's history, what the collector keeps of
\* it, and that the last refresh reports what it read (local.rs, the process
\* side of collect).
THEOREM ProcessesInvariant == Spec => []ProcessesInv
  BY InitProcesses, StepProcesses, PTL DEF Spec

-----------------------------------------------------------------------------
(* The theorems.                                                           *)

\* The percentage of a process is the CPU time it gained since the refresh
\* before over the time since then, however often its pid was recycled
\* (percent_between, update_cpu_percents).
THEOREM PercentagesAreTrue == Spec => []TrueCpu
  <1>1. ProcessesInv => TrueCpu
    BY DEF ProcessesInv, Reported, TrueReport, TrueCpu
  <1> QED
    BY <1>1, ProcessesInvariant, PTL

\* No tree mixes two applications, on a platform that reparents orphans and on
\* one that does not (is_plausible_parent, aggregate_process_groups).
THEOREM TreesAreOfOneFamily == Spec => []NoStrangers
  <1>1. ProcessesInv => NoStrangers
    <2> SUFFICES ASSUME ProcessesInv, cached # None, NEW g \in cached.groups,
                        \A p \in g.members : ~Mistaken(cached.table, p)
                 PROVE  \A p, q \in g.members :
                          cached.table[p].line = cached.table[q].line
      BY DEF NoStrangers
    <2>1. /\ Known(cached.table, cached.percent) /\ Lineage(cached.table)
          /\ cached.groups = Groups(cached.table, cached.percent)
          /\ cached.table \in Tables
      BY DEF ProcessesInv, Reported, Remembered
    <2>2. IsTable(cached.table) /\ g \in Trees(cached.table)
      BY <2>1, GroupsAre DEF Known
    <2>3. Kin(cached.table)
      BY <2>1, LineageIsKin
    <2> QED
      BY <2>2, <2>3, OneLine
  <1> QED
    BY <1>1, ProcessesInvariant, PTL

\* The trees cover every process once as far as the budget goes, and each with
\* the parent that started it (aggregate_process_groups).
THEOREM FamiliesStayTogether == Spec => []FamiliesTogether
  <1>1. ProcessesInv => FamiliesTogether
    <2> SUFFICES ASSUME ProcessesInv, cached # None
                 PROVE  FamiliesTogether
      BY DEF FamiliesTogether
    <2> DEFINE t == cached.table
    <2>1. /\ Known(t, cached.percent) /\ Lineage(t) /\ t \in Tables
          /\ cached.groups = Groups(t, cached.percent) /\ IsTable(t)
      BY DEF ProcessesInv, Reported, Remembered, Known
    <2>2. /\ cached.groups \in SUBSET Trees(t)
          /\ Cardinality(cached.groups) < Top => cached.groups = Trees(t)
      BY <2>1, GroupsAre
    <2> HIDE DEF t
    <2>3. \A g, h \in cached.groups : g # h => g.members \cap h.members = {}
      BY <2>1, <2>2, TreesApart
    <2>4. Cardinality(cached.groups) < Top =>
            UNION {g.members : g \in cached.groups} = DOMAIN t
      <3>1. UNION {g.members : g \in Trees(t)} \subseteq DOMAIN t
        BY <2>1, TreeIs
      <3>2. DOMAIN t \subseteq UNION {g.members : g \in Trees(t)}
        BY TreesCover
      <3> QED
        BY <2>2, <3>1, <3>2
    <2>5. ASSUME NEW g \in cached.groups, NEW p \in DOMAIN t,
                 t[p].parent \in DOMAIN t \ Managers,
                 t[t[p].parent].life = t[p].parentLife
          PROVE  p \in g.members <=> t[p].parent \in g.members
      <3>1. Climbs(t, p)
        <4>1. t[p].parent # p /\ Older(t, t[p].parent, p)
          BY <2>1, <2>5 DEF Lineage
        <4>2. t[p].parent # INIT_PID
          BY <2>1, <2>5, PidsAre DEF IsTable
        <4> QED
          BY <2>5, <4>1, <4>2 DEF Climbs, IsServiceManager, IsPlausibleParent, Older
      <3> QED
        BY <2>1, <2>2, <3>1, OneTree
    <2> QED
      BY <2>3, <2>4, <2>5 DEF FamiliesTogether, t
  <1> QED
    BY <1>1, ProcessesInvariant, PTL

\* What takes the most of a machine is shown: the largest and the busiest
\* process are in the list (select_top_pids), and a memory-pressure alert names
\* the application that holds most (top_memory_consumers) unless the groups it
\* chooses from are full of others at least as busy (aggregate_process_groups).
THEOREM HogsAreShown == Spec => []HogsListed
  <1>1. ASSUME ProcessesInv, cached # None
        PROVE  /\ Known(cached.table, cached.percent) /\ IsTable(cached.table)
               /\ Measured(cached.percent, DOMAIN cached.table)
               /\ cached.list = SelectTop(cached.percent, DOMAIN cached.table)
               /\ cached.groups = Groups(cached.table, cached.percent)
               /\ cached.trees = Trees(cached.table)
               /\ cached.groups \in SUBSET Trees(cached.table)
    BY <1>1, GroupsAre, TableIs DEF ProcessesInv, Reported, Known, Measured
  <1>2. ProcessesInv => HogsInList
    BY <1>1, ListCounts, LargestListed, BusiestListed DEF HogsInList
  <1>3. ProcessesInv => HolderNamed
    <2> SUFFICES ASSUME ProcessesInv, cached # None, TotalMemory # 0,
                        NEW g \in cached.trees,
                        Held(g.members) * Floor >= TotalMemory
                 PROVE  \/ \E c \in TopMemoryConsumers(cached, TRUE) :
                              Held(c.members) >= Held(g.members)
                        \/ /\ g \notin cached.groups
                           /\ Cardinality(cached.groups) = Top
                           /\ \A h \in cached.groups :
                                 TotalCpu(cached.percent, h) >= TotalCpu(cached.percent, g)
      BY DEF HolderNamed
    <2>1. CASE g \in cached.groups
      BY <1>1, <2>1, HolderIsNamed
    <2>2. CASE g \notin cached.groups
      BY <1>1, <2>2, GroupsCut
    <2> QED
      BY <2>1, <2>2
  <1>4. ProcessesInv => HogsListed
    BY <1>2, <1>3 DEF HogsListed
  <1> QED
    BY <1>4, ProcessesInvariant, PTL

=============================================================================
