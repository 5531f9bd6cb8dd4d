----------------------------- MODULE SumLemmas -----------------------------
(***************************************************************************)
(* What SumFunction of the community modules returns, for every function   *)
(* from a finite set to the naturals. It is a fold that picks the elements *)
(* in an unspecified order; here it is shown to count a set, the units of  *)
(* the function, and everything else follows from what is known of         *)
(* cardinalities.                                                          *)
(***************************************************************************)
EXTENDS Naturals, FiniteSets, Functions, FiniteSetTheorems, WellFoundedInduction, TLAPS

(* One unit <<x, k>> for each of the f[x] units that f has at x.            *)
Units(f, T) == {u \in T \X Nat : 1 <= u[2] /\ u[2] <= f[u[1]]}

Natural(f, T) == IsFiniteSet(T) /\ \A x \in T : f[x] \in Nat

(* The units are finitely many: a finite union of finite columns.           *)
LEMMA UnitsFinite ==
  ASSUME NEW f, NEW T, Natural(f, T)
  PROVE  IsFiniteSet(Units(f, T)) /\ Cardinality(Units(f, T)) \in Nat
<1> DEFINE column(x) == {x} \X (1..f[x])
           columns == {column(x) : x \in T}
           h == [x \in T |-> column(x)]
<1>1. h \in Surjection(T, columns)
  BY DEF Surjection
<1>2. IsFiniteSet(columns)
  BY <1>1, FS_Surjection DEF Natural
<1>3. ASSUME NEW x \in T PROVE IsFiniteSet(column(x))
  <2>1. f[x] \in Int /\ 1 \in Int
    BY DEF Natural
  <2>2. IsFiniteSet(1..f[x]) /\ IsFiniteSet({x})
    BY <2>1, FS_Interval, FS_Singleton
  <2> QED BY <2>2, FS_Product
<1>4. IsFiniteSet(UNION columns)
  BY <1>2, <1>3, FS_UNION
<1>5. Units(f, T) \subseteq UNION columns
  <2> SUFFICES ASSUME NEW u \in Units(f, T) PROVE u \in UNION columns
    OBVIOUS
  <2>1. u[1] \in T /\ u = <<u[1], u[2]>> /\ u[2] \in 1..f[u[1]]
    BY DEF Units, Natural
  <2>2. u \in column(u[1])
    BY <2>1
  <2> QED BY <2>1, <2>2
<1> QED BY <1>4, <1>5, FS_Subset, FS_CardinalityType

(* The units at x, and those elsewhere.                                     *)
LEMMA UnitsStep ==
  ASSUME NEW f, NEW T, Natural(f, T), NEW x \in T
  PROVE  Cardinality(Units(f, T)) = f[x] + Cardinality(Units(f, T \ {x}))
<1> DEFINE column == {x} \X (1..f[x])
           rest == Units(f, T \ {x})
<1>1. Natural(f, T \ {x})
  BY FS_RemoveElement DEF Natural
<1>2. IsFiniteSet(rest) /\ Cardinality(rest) \in Nat
  BY <1>1, UnitsFinite
<1>3. IsFiniteSet(column) /\ Cardinality(column) = f[x]
  <2>1. f[x] \in Int /\ 1 \in Int /\ f[x] \in Nat
    BY DEF Natural
  <2>2. IsFiniteSet({x}) /\ Cardinality({x}) = 1
    BY FS_Singleton
  <2>4. IsFiniteSet(1..f[x]) /\ Cardinality(1..f[x]) = IF 1 > f[x] THEN 0 ELSE f[x] - 1 + 1
    BY <2>1, FS_Interval
  <2>5. Cardinality(1..f[x]) = f[x]
    BY <2>1, <2>4
  <2>3. IsFiniteSet(column) /\ Cardinality(column) = Cardinality({x}) * Cardinality(1..f[x])
    BY <2>2, <2>4, FS_Product
  <2> QED BY <2>1, <2>2, <2>3, <2>5
<1>4. Units(f, T) = column \cup rest
  BY DEF Units, Natural
<1>5. column \cap rest = {}
  BY DEF Units
<1>6. Cardinality(Units(f, T)) = Cardinality(column) + Cardinality(rest) - 0
  <2>1. Cardinality(column \cup rest) =
          Cardinality(column) + Cardinality(rest) - Cardinality(column \cap rest)
    BY <1>2, <1>3, FS_Union
  <2>2. Cardinality(column \cap rest) = 0
    BY <1>5, FS_EmptySet
  <2> HIDE DEF column, rest
  <2> QED BY <1>4, <2>1, <2>2
<1>7. f[x] \in Nat
  BY DEF Natural
<1> QED BY <1>2, <1>3, <1>6, <1>7

(* No elements, no units.                                                   *)
LEMMA UnitsEmpty ==
  ASSUME NEW f
  PROVE  Cardinality(Units(f, {})) = 0
BY FS_EmptySet DEF Units

(* The fold counts the units. Counting them satisfies the recursive         *)
(* equation of the fold, so the fold has a solution, and satisfies it too;  *)
(* a smallest set on which the two differ would have a smaller one.         *)
THEOREM SumIsCount ==
  ASSUME NEW f, NEW T, Natural(f, T)
  PROVE  SumFunctionOnSet(f, T) = Cardinality(Units(f, T))
<1> DEFINE pick(s) == CHOOSE x \in s : TRUE
           fold(g) == [s \in SUBSET T |->
                         IF s = {} THEN 0 ELSE f[pick(s)] + g[s \ {pick(s)}]]
           iter == CHOOSE g : g = fold(g)
           count == [s \in SUBSET T |-> Cardinality(Units(f, s))]
<1>1. \A s \in SUBSET T : Natural(f, s)
  BY FS_Subset DEF Natural
<1>2. \A s \in SUBSET T : s # {} => pick(s) \in s /\ s \ {pick(s)} \in SUBSET T
  OBVIOUS
<1>3. SumFunctionOnSet(f, T) = iter[T]
  BY DEF SumFunctionOnSet, FoldFunctionOnSet, MapThenFoldSet
<1> HIDE DEF pick
<1>4. ASSUME NEW s \in SUBSET T, s # {}
      PROVE  Cardinality(Units(f, s))
               = f[pick(s)] + Cardinality(Units(f, s \ {pick(s)}))
  BY <1>1, <1>2, <1>4, UnitsStep
<1>5. count = fold(count)
  <2>1. \A s \in SUBSET T : count[s] = fold(count)[s]
    BY <1>2, <1>4, UnitsEmpty
  <2> QED BY <2>1
<1> HIDE DEF count
<1>6. iter = fold(iter)
  BY <1>5
<1>7. \A s \in SUBSET T : iter[s] = count[s]
  <2> DEFINE Wrong == {s \in SUBSET T : iter[s] # count[s]}
             sizes == {Cardinality(s) : s \in Wrong}
  <2>1. SUFFICES ASSUME Wrong # {} PROVE FALSE
    OBVIOUS
  <2>2. \A s \in SUBSET T : IsFiniteSet(s) /\ Cardinality(s) \in Nat
    BY FS_Subset, FS_CardinalityType DEF Natural
  <2>3. sizes \subseteq Nat /\ sizes # {}
    BY <2>1, <2>2
  <2>4. PICK n \in sizes : \A k \in sizes : ~(<<k, n>> \in OpToRel(<, Nat))
    BY <2>3, WFMin, NatLessThanWellFounded
  <2>5. PICK s \in Wrong : n = Cardinality(s)
    OBVIOUS
  <2>6. CASE s = {}
    <3>1. iter[s] = 0
      BY <1>6, <2>6
    <3>2. count[s] = 0
      BY <1>5, <2>6
    <3> QED BY <3>1, <3>2
  <2>7. CASE s # {}
    <3> DEFINE r == s \ {pick(s)}
    <3>1. r \in SUBSET T /\ Cardinality(r) = Cardinality(s) - 1
      BY <1>2, <2>2, <2>7, FS_RemoveElement
    <3>2. Cardinality(r) < n /\ Cardinality(r) \in Nat /\ n \in Nat
      BY <2>2, <2>5, <3>1
    <3>3. <<Cardinality(r), n>> \in OpToRel(<, Nat)
      BY <3>2 DEF OpToRel
    <3>4. r \notin Wrong
      BY <2>4, <3>3
    <3>5. iter[r] = count[r]
      BY <3>1, <3>4
    <3>6. iter[s] = f[pick(s)] + iter[r]
      BY <1>6, <2>7
    <3>7. count[s] = f[pick(s)] + count[r]
      BY <1>5, <2>7
    <3> QED BY <3>5, <3>6, <3>7
  <2> QED BY <2>6, <2>7
<1> QED BY <1>3, <1>7 DEF count

(* The same, for a function from a finite set to the naturals.              *)
LEMMA SumCounts ==
  ASSUME NEW S, IsFiniteSet(S), NEW f \in [S -> Nat]
  PROVE  /\ SumFunction(f) = Cardinality(Units(f, S))
         /\ IsFiniteSet(Units(f, S)) /\ SumFunction(f) \in Nat
<1>1. Natural(f, S) /\ DOMAIN f = S
  BY DEF Natural
<1> QED BY <1>1, SumIsCount, UnitsFinite DEF SumFunction

(* The sum of zeros.                                                        *)
LEMMA SumZero ==
  ASSUME NEW S, IsFiniteSet(S), NEW f \in [S -> Nat], \A x \in S : f[x] = 0
  PROVE  SumFunction(f) = 0
<1>1. Units(f, S) = {}
  BY DEF Units
<1> QED BY <1>1, SumCounts, FS_EmptySet

(* A function that is nowhere less has no smaller sum.                      *)
LEMMA SumMonotone ==
  ASSUME NEW S, IsFiniteSet(S), NEW f \in [S -> Nat], NEW g \in [S -> Nat],
         \A x \in S : f[x] <= g[x]
  PROVE  SumFunction(f) <= SumFunction(g)
<1>1. Units(f, S) \subseteq Units(g, S)
  BY DEF Units
<1> QED BY <1>1, SumCounts, FS_Subset

(* One more at one element is one more in the sum.                          *)
LEMMA SumIncrement ==
  ASSUME NEW S, IsFiniteSet(S), NEW f \in [S -> Nat], NEW x \in S
  PROVE  SumFunction([f EXCEPT ![x] = @ + 1]) = SumFunction(f) + 1
<1> DEFINE g == [f EXCEPT ![x] = @ + 1]
           unit == <<x, f[x] + 1>>
<1>1. g \in [S -> Nat]
  OBVIOUS
<1>2. Units(g, S) = Units(f, S) \cup {unit}
  BY DEF Units
<1>3. unit \notin Units(f, S)
  BY DEF Units
<1> HIDE DEF g, unit
<1>4. Cardinality(Units(f, S) \cup {unit}) = Cardinality(Units(f, S)) + 1
  BY <1>3, SumCounts, FS_AddElement
<1>5. SumFunction(g) = SumFunction(f) + 1
  BY <1>1, <1>2, <1>4, SumCounts
<1> QED BY <1>5 DEF g

(* One less is one less.                                                    *)
LEMMA SumDecrement ==
  ASSUME NEW S, IsFiniteSet(S), NEW f \in [S -> Nat], NEW x \in S, f[x] > 0
  PROVE  /\ [f EXCEPT ![x] = @ - 1] \in [S -> Nat]
         /\ SumFunction([f EXCEPT ![x] = @ - 1]) = SumFunction(f) - 1
<1> DEFINE g == [f EXCEPT ![x] = @ - 1]
<1>1. g \in [S -> Nat]
  OBVIOUS
<1>2. [g EXCEPT ![x] = @ + 1] = f
  <2>1. \A y \in S : [g EXCEPT ![x] = @ + 1][y] = f[y]
    OBVIOUS
  <2>2. [g EXCEPT ![x] = @ + 1] \in [S -> Nat]
    BY <1>1
  <2> HIDE DEF g
  <2> QED BY <2>1, <2>2
<1> HIDE DEF g
<1>3. SumFunction(f) = SumFunction(g) + 1
  BY <1>1, <1>2, SumIncrement
<1>4. SumFunction(g) \in Nat
  BY <1>1, SumCounts
<1>5. SumFunction(g) = SumFunction(f) - 1
  BY <1>3, <1>4
<1> QED BY <1>1, <1>5 DEF g

(* The sum is at least each of its terms.                                   *)
LEMMA SumAtLeast ==
  ASSUME NEW S, IsFiniteSet(S), NEW f \in [S -> Nat], NEW x \in S
  PROVE  f[x] <= SumFunction(f)
<1> DEFINE column == {x} \X (1..f[x])
<1>1. f[x] \in Int /\ 1 \in Int /\ f[x] \in Nat
  OBVIOUS
<1>2. Natural(f, S)
  BY DEF Natural
<1>3. Natural(f, S \ {x})
  BY FS_RemoveElement DEF Natural
<1> QED BY <1>1, <1>2, <1>3, SumCounts, UnitsStep, UnitsFinite

(* Reading f through a map that reaches all of its domain loses nothing.    *)
LEMMA SumReindexed ==
  ASSUME NEW S, IsFiniteSet(S), NEW f \in [S -> Nat],
         NEW D, IsFiniteSet(D), NEW h \in Surjection(D, S),
         NEW g \in [D -> Nat], \A d \in D : g[d] = f[h[d]]
  PROVE  SumFunction(f) <= SumFunction(g)
<1> DEFINE move == [u \in Units(g, D) |-> <<h[u[1]], u[2]>>]
<1>1. h \in [D -> S] /\ \A x \in S : \E d \in D : h[d] = x
  BY DEF Surjection
<1>2. move \in [Units(g, D) -> Units(f, S)]
  BY <1>1 DEF Units
<1>3. ASSUME NEW v \in Units(f, S) PROVE \E u \in Units(g, D) : move[u] = v
  <2>1. v = <<v[1], v[2]>> /\ v[1] \in S /\ v[2] \in Nat /\ 1 <= v[2] /\ v[2] <= f[v[1]]
    BY DEF Units
  <2>2. PICK d \in D : h[d] = v[1]
    BY <1>1, <2>1
  <2>3. <<d, v[2]>> \in Units(g, D)
    BY <2>1, <2>2 DEF Units
  <2> QED BY <2>1, <2>2, <2>3
<1>4. move \in Surjection(Units(g, D), Units(f, S))
  BY <1>2, <1>3 DEF Surjection
<1> QED BY <1>4, SumCounts, FS_Surjection
=============================================================================
