------------------------------ MODULE SumFacts ------------------------------
(***************************************************************************)
(* Facts about sums over finite sets, which the library defines by         *)
(* recursion and says nothing of: a sum is the number of elements of a     *)
(* set, and about those the library has its theorems.                      *)
(***************************************************************************)
EXTENDS Integers, FiniteSets, Functions, FiniteSetTheorems, TLAPS

\* Of some finite sets, one has none of the others within it.
LEMMA OneIsSmallest ==
  ASSUME NEW S, IsFiniteSet(S), NEW Q, Q \subseteq SUBSET S, Q # {}
  PROVE  \E x \in Q : \A y \in Q : y \subseteq x => y = x
<1>1. IsWellFoundedOn(StrictSubsetOrdering(S), SUBSET S)
  BY FS_StrictSubsetOrderingWellFounded, FS_FiniteSubsetsOfFinite
<1>2. \E x \in Q : \A y \in Q : ~(<<y, x>> \in StrictSubsetOrdering(S))
  BY <1>1, WFMin
<1> QED BY <1>2 DEF StrictSubsetOrdering

\* As many pairs as the values of f over T add up to.
Units(f, T) == {p \in T \X Nat : p[2] < f[p[1]]}

LEMMA UnitsOfOne ==
  ASSUME NEW S, NEW f \in [S -> Nat], NEW x \in S
  PROVE  IsFiniteSet(Units(f, {x})) /\ Cardinality(Units(f, {x})) = f[x]
<1> DEFINE n == f[x]
           b == [k \in 0 .. n - 1 |-> <<x, k>>]
<1>1. n \in Nat  OBVIOUS
<1>2. IsFiniteSet(0 .. n - 1) /\ Cardinality(0 .. n - 1) = n  BY <1>1, FS_Interval
<1>3. Units(f, {x}) = {<<x, k>> : k \in 0 .. n - 1}  BY <1>1 DEF Units
<1>4. b \in Bijection(0 .. n - 1, Units(f, {x}))
  BY <1>3 DEF Bijection, Injection, Surjection, IsInjective
<1>5. ExistsBijection(0 .. n - 1, Units(f, {x}))  BY <1>4 DEF ExistsBijection
<1> QED BY <1>2, <1>5, FS_Bijection

LEMMA UnitsOfMore ==
  ASSUME NEW S, NEW f \in [S -> Nat], NEW T \in SUBSET S, NEW x \in T,
         IsFiniteSet(Units(f, T \ {x}))
  PROVE  /\ IsFiniteSet(Units(f, T))
         /\ Cardinality(Units(f, T)) = f[x] + Cardinality(Units(f, T \ {x}))
<1> DEFINE A == Units(f, {x})
           B == Units(f, T \ {x})
<1>1. Units(f, T) = A \cup B  BY DEF Units
<1>2. A \cap B = {}  BY DEF Units
<1>3. IsFiniteSet(A) /\ Cardinality(A) = f[x] /\ f[x] \in Nat  BY UnitsOfOne
<1>4. Cardinality(B) \in Nat /\ Cardinality({}) = 0  BY FS_CardinalityType, FS_EmptySet
<1> HIDE DEF A
<1>5. IsFiniteSet(A \cup B) /\ Cardinality(A \cup B) = Cardinality(A) + Cardinality(B) - Cardinality(A \cap B)
  BY <1>3, FS_Union
<1>6. Cardinality(A \cap B) = 0  BY <1>2, <1>4
<1>7. Cardinality(A \cup B) = f[x] + Cardinality(B)
  <2> HIDE DEF B
  <2> QED BY <1>3, <1>4, <1>5, <1>6
<1> QED BY <1>1, <1>5, <1>7

LEMMA UnitsFinite ==
  ASSUME NEW S, IsFiniteSet(S), NEW f \in [S -> Nat], NEW R \in SUBSET S
  PROVE  IsFiniteSet(Units(f, R))
<1> DEFINE Bad == {T \in SUBSET S : ~IsFiniteSet(Units(f, T))}
<1> SUFFICES ASSUME Bad # {} PROVE FALSE  OBVIOUS
<1>0. Bad \subseteq SUBSET S  OBVIOUS
<1>1. PICK T \in Bad : \A U \in Bad : U \subseteq T => U = T
  <2> HIDE DEF Bad
  <2> QED BY <1>0, OneIsSmallest
<1>2. T # {}
  <2>1. Units(f, {}) = {}  BY DEF Units
  <2> QED BY <2>1, FS_EmptySet
<1>3. PICK x \in T : TRUE  BY <1>2
<1>4. T \ {x} \notin Bad  BY <1>1, <1>3
<1>5. IsFiniteSet(Units(f, T \ {x}))  BY <1>4
<1> QED BY <1>5, UnitsOfMore

\* The sum of a function is that many units.
LEMMA SumIsUnits ==
  ASSUME NEW S, IsFiniteSet(S), NEW f \in [S -> Nat]
  PROVE  SumFunction(f) = Cardinality(Units(f, S))
<1> DEFINE pick(s) == CHOOSE x \in s : TRUE
           body(h, s) == IF s = {} THEN 0 ELSE f[pick(s)] + h[s \ {pick(s)}]
           count == [s \in SUBSET S |-> Cardinality(Units(f, s))]
           iter == CHOOSE h : h = [s \in SUBSET S |-> body(h, s)]
<1>1. ASSUME NEW s \in SUBSET S PROVE count[s] = body(count, s)
  <2>1. CASE s = {}
    <3>1. Units(f, {}) = {}  BY DEF Units
    <3> QED BY <2>1, <3>1, FS_EmptySet
  <2>2. CASE s # {}
    <3>1. pick(s) \in s  BY <2>2
    <3>2. IsFiniteSet(Units(f, s \ {pick(s)}))  BY UnitsFinite
    <3>3. Cardinality(Units(f, s)) = f[pick(s)] + Cardinality(Units(f, s \ {pick(s)}))
      <4> HIDE DEF pick
      <4> QED BY <3>1, <3>2, UnitsOfMore
    <3> QED BY <2>2, <3>3
  <2> QED BY <2>1, <2>2
<1>2. count = [s \in SUBSET S |-> body(count, s)]  BY <1>1
<1> HIDE DEF count
<1>3. iter = [s \in SUBSET S |-> body(iter, s)]  BY <1>2
<1> HIDE DEF iter
<1>4. iter = count
  <2> DEFINE Bad == {s \in SUBSET S : iter[s] # count[s]}
  <2>1. ASSUME Bad # {} PROVE FALSE
    <3>0. Bad \subseteq SUBSET S  OBVIOUS
    <3>1. PICK s \in Bad : \A u \in Bad : u \subseteq s => u = s
      <4> HIDE DEF Bad
      <4> QED BY <2>1, <3>0, OneIsSmallest
    <3>2. iter[s] = body(iter, s) /\ count[s] = body(count, s)  BY <1>2, <1>3
    <3>3. s # {}  BY <3>1, <3>2
    <3>4. pick(s) \in s  BY <3>3
    <3>5. s \ {pick(s)} \in SUBSET S /\ s \ {pick(s)} \notin Bad  BY <3>1, <3>4
    <3>6. iter[s \ {pick(s)}] = count[s \ {pick(s)}]  BY <3>5
    <3>7. iter[s] = count[s]  BY <3>2, <3>6
    <3> QED BY <3>1, <3>7
  <2>2. \A s \in SUBSET S : iter[s] = count[s]  BY <2>1
  <2> QED BY <2>2, <1>2, <1>3
<1>5. SumFunction(f) = iter[S]
  BY DEF SumFunction, SumFunctionOnSet, FoldFunctionOnSet, MapThenFoldSet, iter
<1> QED BY <1>4, <1>5 DEF count

\* One value that grows makes the sum grow as much.
LEMMA SumGrows ==
  ASSUME NEW S, IsFiniteSet(S), NEW f \in [S -> Nat], NEW x \in S, NEW n \in Nat,
         NEW g \in [S -> Nat], g[x] = f[x] + n, \A y \in S \ {x} : g[y] = f[y]
  PROVE  SumFunction(g) = SumFunction(f) + n
<1>1. Units(g, S \ {x}) = Units(f, S \ {x})  BY DEF Units
<1>2. IsFiniteSet(Units(f, S \ {x})) /\ IsFiniteSet(Units(g, S \ {x}))  BY UnitsFinite
<1>3. Cardinality(Units(f, S \ {x})) \in Nat  BY <1>2, FS_CardinalityType
<1>4. Cardinality(Units(f, S)) = f[x] + Cardinality(Units(f, S \ {x}))  BY <1>2, UnitsOfMore
<1>5. Cardinality(Units(g, S)) = g[x] + Cardinality(Units(g, S \ {x}))  BY <1>2, UnitsOfMore
<1> QED BY <1>1, <1>3, <1>4, <1>5, SumIsUnits

LEMMA SumOfNothing ==
  ASSUME NEW S, IsFiniteSet(S), NEW f \in [S -> Nat], \A x \in S : f[x] = 0
  PROVE  SumFunction(f) = 0
<1>1. Units(f, S) = {}  BY DEF Units
<1> QED BY <1>1, SumIsUnits, FS_EmptySet

LEMMA SumIsNat ==
  ASSUME NEW S, IsFiniteSet(S), NEW f \in [S -> Nat]
  PROVE  SumFunction(f) \in Nat
BY SumIsUnits, UnitsFinite, FS_CardinalityType

\* One value more.
LEMMA SumOfMore ==
  ASSUME NEW S, IsFiniteSet(S), NEW f \in [S -> Nat], NEW x \in S
  PROVE  SumFunction(f) = f[x] + SumFunction([y \in S \ {x} |-> f[y]])
<1> DEFINE g == [y \in S \ {x} |-> f[y]]
<1>1. IsFiniteSet(S \ {x}) /\ g \in [S \ {x} -> Nat]  BY FS_RemoveElement
<1>2. Units(g, S \ {x}) = Units(f, S \ {x})  BY DEF Units
<1>3. IsFiniteSet(Units(f, S \ {x}))  BY UnitsFinite
<1>4. Cardinality(Units(f, S)) = f[x] + Cardinality(Units(f, S \ {x}))  BY <1>3, UnitsOfMore
<1>5. SumFunction(g) = Cardinality(Units(g, S \ {x}))
  <2> HIDE DEF g
  <2> QED BY <1>1, SumIsUnits
<1> QED BY <1>2, <1>4, <1>5, SumIsUnits

\* The same values in other places.
LEMMA SumMoved ==
  ASSUME NEW S, IsFiniteSet(S), NEW f \in [S -> Nat],
         NEW T, IsFiniteSet(T), NEW g \in [T -> Nat],
         NEW b \in Bijection(S, T), \A x \in S : g[b[x]] = f[x]
  PROVE  SumFunction(g) = SumFunction(f)
<1> DEFINE c == [p \in Units(f, S) |-> <<b[p[1]], p[2]>>]
<1>1. /\ b \in [S -> T] /\ \A t \in T : \E x \in S : b[x] = t
      /\ \A x, y \in S : b[x] = b[y] => x = y
  BY DEF Bijection, Injection, Surjection, IsInjective
<1>2. ASSUME NEW p \in Units(f, S)
      PROVE  p[1] \in S /\ p[2] \in Nat /\ p = <<p[1], p[2]>> /\ <<b[p[1]], p[2]>> \in Units(g, T)
  BY <1>1 DEF Units
<1>3. c \in [Units(f, S) -> Units(g, T)]  BY <1>2
<1>4. ASSUME NEW p \in Units(f, S), NEW q \in Units(f, S), c[p] = c[q] PROVE p = q
  BY <1>1, <1>2, <1>4
<1>5. ASSUME NEW q \in Units(g, T) PROVE \E p \in Units(f, S) : c[p] = q
  <2>1. q = <<q[1], q[2]>> /\ q[1] \in T /\ q[2] \in Nat /\ q[2] < g[q[1]]  BY DEF Units
  <2>2. PICK x \in S : b[x] = q[1]  BY <1>1, <2>1
  <2>3. <<x, q[2]>> \in Units(f, S)  BY <2>1, <2>2 DEF Units
  <2> QED BY <2>1, <2>2, <2>3
<1>6. c \in Bijection(Units(f, S), Units(g, T))
  BY <1>3, <1>4, <1>5 DEF Bijection, Injection, Surjection, IsInjective
<1>7. ExistsBijection(Units(f, S), Units(g, T))  BY <1>6 DEF ExistsBijection
<1>8. IsFiniteSet(Units(f, S))  BY UnitsFinite
<1>9. Cardinality(Units(g, T)) = Cardinality(Units(f, S))  BY <1>7, <1>8, FS_Bijection
<1> QED BY <1>9, SumIsUnits
=============================================================================
