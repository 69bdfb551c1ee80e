-------------------------------- MODULE Sums --------------------------------
(***************************************************************************)
(* What a sum over a finite set comes to.                                  *)
(*                                                                         *)
(* MapThenSumSet is a fold, a recursive function on the subsets of the set *)
(* it adds up.  That there is such a function is shown by counting units:  *)
(* as many as are added, less as many as are taken away.  That it is the   *)
(* only one is shown from a smallest set on which two of them would        *)
(* differ.                                                                 *)
(***************************************************************************)
EXTENDS Integers, FiniteSets, FiniteSetsExt, FiniteSetTheorems, TLAPS

\* The sum of w[x] over the elements x of S.
SumOf(w, S) == MapThenSumSet(LAMBDA x : w[x], S)

\* What the fold unfolds to.
Adds(g, w, S) ==
  g = [T \in SUBSET S |-> IF T = {} THEN 0
                          ELSE LET x == CHOOSE x \in T : TRUE IN w[x] + g[T \ {x}]]

\* n units of x for each x, in a set.
Heap(w, S) == {u \in S \X Nat : u[2] \in 1..w[u[1]]}

\* A sum is a value of a function that adds up.
LEMMA SumUnfolded ==
  ASSUME NEW w, NEW S
  PROVE  SumOf(w, S) = (CHOOSE g : Adds(g, w, S))[S]
BY DEF SumOf, MapThenSumSet, MapThenFoldSet, Adds

\* The units of one of them.
Own(w, x) == {x} \X (1..w[x])

\* As many units as a number is worth, when it is worth any.
Positive(n) == IF n > 0 THEN n ELSE 0

\* One of them has as many units as it is worth.
LEMMA UnitsOfOne ==
  ASSUME NEW w, NEW x, w[x] \in Int
  PROVE  IsFiniteSet(Own(w, x)) /\ Cardinality(Own(w, x)) = Positive(w[x])
<1>1. IsFiniteSet({x}) /\ Cardinality({x}) = 1
  BY FS_Singleton
<1>2. IsFiniteSet(1..w[x]) /\ Cardinality(1..w[x]) = Positive(w[x])
  BY FS_Interval DEF Positive
<1>3. ASSUME NEW S, IsFiniteSet(S), NEW n \in Nat, Cardinality(S) = n
      PROVE  IsFiniteSet({x} \X S) /\ Cardinality({x} \X S) = n
  <2>1. IsFiniteSet({x} \X S) /\ Cardinality({x} \X S) = Cardinality({x}) * Cardinality(S)
    BY <1>1, <1>3, FS_Product
  <2>2. 1 * n = n
    OBVIOUS
  <2> QED
    BY <1>1, <1>3, <2>1, <2>2
<1>4. Positive(w[x]) \in Nat
  BY DEF Positive
<1> QED
  BY <1>2, <1>3, <1>4 DEF Own

\* The heap of a finite set is finite.
LEMMA HeapFinite ==
  ASSUME NEW S, IsFiniteSet(S), NEW w, \A x \in S : w[x] \in Int
  PROVE  IsFiniteSet(Heap(w, S)) /\ Cardinality(Heap(w, S)) \in Nat
<1> DEFINE own == [x \in S |-> Own(w, x)]
           Parts == {own[x] : x \in S}
<1>1. own \in Surjection(S, Parts)
  BY Zenon DEF Surjection
<1>2. IsFiniteSet(Parts)
  BY <1>1, FS_Surjection
<1>3. \A P \in Parts : IsFiniteSet(P)
  BY UnitsOfOne
<1>4. IsFiniteSet(UNION Parts)
  BY <1>2, <1>3, FS_UNION
<1>5. Heap(w, S) \subseteq UNION Parts
  <2>1. ASSUME NEW u \in S \X Nat, u[2] \in 1..w[u[1]]
        PROVE  u \in own[u[1]] /\ own[u[1]] \in Parts
    <3>1. u[1] \in S /\ u \in Own(w, u[1])
      BY <2>1 DEF Own
    <3> QED
      BY <3>1
  <2> QED
    BY <2>1 DEF Heap
<1>6. IsFiniteSet(Heap(w, S))
  BY <1>4, <1>5, FS_Subset
<1> QED
  BY <1>6, FS_CardinalityType

\* The heap is that of one of them and that of the others.
LEMMA HeapSplit ==
  ASSUME NEW S, IsFiniteSet(S), NEW w, \A x \in S : w[x] \in Int, NEW x \in S
  PROVE  Cardinality(Heap(w, S)) = Positive(w[x]) + Cardinality(Heap(w, S \ {x}))
<1> DEFINE Rest == Heap(w, S \ {x})
<1>1. IsFiniteSet(S \ {x})
  BY FS_RemoveElement
<1>2. /\ IsFiniteSet(Heap(w, S)) /\ IsFiniteSet(Rest)
      /\ Cardinality(Heap(w, S)) \in Nat /\ Cardinality(Rest) \in Nat
  BY <1>1, HeapFinite
<1>3. IsFiniteSet(Own(w, x)) /\ Cardinality(Own(w, x)) = Positive(w[x])
  BY UnitsOfOne
<1>4. Heap(w, S) = Rest \cup Own(w, x)
  <2>1. ASSUME NEW u \in S \X Nat
        PROVE  u \in Heap(w, S) <=> u \in Rest \cup Own(w, x)
    <3>1. CASE u[1] = x
      <4>1. u \notin Rest /\ (u \in Own(w, x) <=> u[2] \in 1..w[x])
        BY <3>1 DEF Heap, Own
      <4>2. u \in Heap(w, S) <=> u[2] \in 1..w[x]
        BY <3>1 DEF Heap
      <4> QED
        BY <4>1, <4>2
    <3>2. CASE u[1] # x
      BY <3>2 DEF Heap, Own
    <3> QED
      BY <3>1, <3>2
  <2>2. Own(w, x) \subseteq S \X Nat /\ Rest \subseteq S \X Nat /\ Heap(w, S) \subseteq S \X Nat
    BY DEF Heap, Own
  <2> QED
    BY <2>1, <2>2
<1>5. Rest \cap Own(w, x) = {}
  BY DEF Heap, Own
<1> HIDE DEF Rest
<1>6. Cardinality(Rest \cup Own(w, x)) =
        Cardinality(Rest) + Cardinality(Own(w, x)) - Cardinality(Rest \cap Own(w, x))
  BY <1>2, <1>3, FS_Union
<1>7. Cardinality(Rest \cap Own(w, x)) = 0
  BY <1>5, FS_EmptySet
<1>8. Positive(w[x]) \in Nat
  BY DEF Positive
<1>9. Cardinality(Heap(w, S)) = Cardinality(Rest) + Positive(w[x])
  BY <1>2, <1>3, <1>4, <1>6, <1>7, <1>8
<1> QED
  BY <1>2, <1>8, <1>9 DEF Rest

\* What is added less what is taken away.
Negated(w) == [x \in DOMAIN w |-> -w[x]]
Weight(w, S) == Cardinality(Heap(w, S)) - Cardinality(Heap(Negated(w), S))

\* A weight is that of one of them and that of the others.
LEMMA WeightSplit ==
  ASSUME NEW S, IsFiniteSet(S), NEW w, S \subseteq DOMAIN w, \A x \in S : w[x] \in Int
  PROVE  /\ Weight(w, S) \in Int
         /\ \A x \in S : Weight(w, S) = w[x] + Weight(w, S \ {x})
         /\ S = {} => Weight(w, S) = 0
<1>1. \A x \in S : Negated(w)[x] = -w[x] /\ -w[x] \in Int
  BY DEF Negated
<1>2. /\ Cardinality(Heap(w, S)) \in Nat
      /\ Cardinality(Heap(Negated(w), S)) \in Nat
  BY <1>1, HeapFinite
<1>3. ASSUME NEW x \in S
      PROVE  Weight(w, S) = w[x] + Weight(w, S \ {x})
  <2>1. IsFiniteSet(S \ {x})
    BY FS_RemoveElement
  <2>2. /\ Cardinality(Heap(w, S \ {x})) \in Nat
        /\ Cardinality(Heap(Negated(w), S \ {x})) \in Nat
    BY <1>1, <2>1, HeapFinite
  <2>3. /\ Cardinality(Heap(w, S)) = Positive(w[x]) + Cardinality(Heap(w, S \ {x}))
        /\ Cardinality(Heap(Negated(w), S)) =
             Positive(Negated(w)[x]) + Cardinality(Heap(Negated(w), S \ {x}))
    BY <1>1, HeapSplit
  <2>4. Positive(w[x]) - Positive(-w[x]) = w[x] /\ Positive(w[x]) \in Int /\ Positive(-w[x]) \in Int
    BY DEF Positive
  <2> QED
    BY <1>1, <1>2, <2>2, <2>3, <2>4 DEF Weight
<1>4. S = {} => Heap(w, S) = {} /\ Heap(Negated(w), S) = {}
  BY DEF Heap
<1>5. Weight(w, S) \in Int
  BY <1>2 DEF Weight
<1>6. S = {} => Weight(w, S) = 0
  BY <1>4, FS_EmptySet DEF Weight
<1>7. \A x \in S : Weight(w, S) = w[x] + Weight(w, S \ {x})
  BY <1>3 DEF Weight
<1> QED
  BY <1>5, <1>6, <1>7

\* A function that adds up exists, and any such function weighs.
LEMMA SumWeighs ==
  ASSUME NEW S, IsFiniteSet(S), NEW w, S \subseteq DOMAIN w, \A x \in S : w[x] \in Int
  PROVE  SumOf(w, S) = Weight(w, S)
<1> DEFINE weigh == [T \in SUBSET S |-> Weight(w, T)]
           any(T) == CHOOSE x \in T : TRUE
<1>1. ASSUME NEW T \in SUBSET S
      PROVE  /\ Weight(w, T) \in Int
             /\ \A x \in T : Weight(w, T) = w[x] + Weight(w, T \ {x})
             /\ T = {} => Weight(w, T) = 0
  <2>1. IsFiniteSet(T) /\ T \subseteq DOMAIN w /\ \A x \in T : w[x] \in Int
    BY FS_Subset
  <2> QED
    BY <2>1, WeightSplit
<1>2. ASSUME NEW T \in SUBSET S, T # {}
      PROVE  any(T) \in T /\ T \ {any(T)} \in SUBSET S
  BY <1>2
<1>3. Adds(weigh, w, S)
  <2>1. ASSUME NEW T \in SUBSET S
        PROVE  Weight(w, T) = IF T = {} THEN 0
                              ELSE LET x == CHOOSE x \in T : TRUE IN w[x] + weigh[T \ {x}]
    BY <1>1, <1>2, <2>1
  <2> QED
    BY <2>1 DEF Adds
<1> DEFINE g == CHOOSE f : Adds(f, w, S)
<1>4. Adds(g, w, S)
  BY <1>3
<1> HIDE DEF g
<1> DEFINE Bad == {T \in SUBSET S : g[T] # Weight(w, T)}
<1>5. Bad = {}
  <2>1. SUFFICES ASSUME Bad # {} PROVE FALSE
    OBVIOUS
  <2>2. IsWellFoundedOn(StrictSubsetOrdering(S), SUBSET S)
    BY FS_StrictSubsetOrderingWellFounded, FS_FiniteSubsetsOfFinite
  <2>3. PICK T \in Bad : \A U \in Bad : ~(<<U, T>> \in StrictSubsetOrdering(S))
    BY <2>1, <2>2, WFMin
  <2>4. \A U \in SUBSET S : U \subseteq T /\ U # T => g[U] = Weight(w, U)
    BY <2>3 DEF StrictSubsetOrdering
  <2>5. g[T] = IF T = {} THEN 0 ELSE w[any(T)] + g[T \ {any(T)}]
    BY <1>4 DEF Adds
  <2>6. CASE T = {}
    BY <1>1, <2>5, <2>6
  <2>7. CASE T # {}
    <3>1. any(T) \in T /\ T \ {any(T)} \in SUBSET S /\ T \ {any(T)} # T
      BY <1>2, <2>7
    <3>2. g[T \ {any(T)}] = Weight(w, T \ {any(T)})
      BY <2>4, <3>1
    <3> QED
      BY <1>1, <2>5, <2>7, <3>1, <3>2
  <2> QED
    BY <2>6, <2>7
<1> QED
  BY <1>5, SumUnfolded DEF g

\* A sum is one of its terms and the sum of the others.
LEMMA SumSplit ==
  ASSUME NEW S, IsFiniteSet(S), NEW w, S \subseteq DOMAIN w, \A x \in S : w[x] \in Int
  PROVE  /\ SumOf(w, S) \in Int
         /\ \A x \in S : SumOf(w, S) = w[x] + SumOf(w, S \ {x})
         /\ S = {} => SumOf(w, S) = 0
<1>1. ASSUME NEW x \in S PROVE SumOf(w, S \ {x}) = Weight(w, S \ {x})
  BY SumWeighs, FS_RemoveElement
<1> QED
  BY <1>1, SumWeighs, WeightSplit

\* The same terms have the same sum.
LEMMA SumSame ==
  ASSUME NEW S, IsFiniteSet(S), NEW w, NEW v, S \subseteq DOMAIN w, S \subseteq DOMAIN v,
         \A x \in S : w[x] \in Int /\ v[x] = w[x]
  PROVE  SumOf(v, S) = SumOf(w, S)
<1>1. Heap(v, S) = Heap(w, S) /\ Heap(Negated(v), S) = Heap(Negated(w), S)
  BY DEF Heap, Negated
<1> QED
  BY <1>1, SumWeighs DEF Weight

\* What one term changes by, the sum changes by.
LEMMA SumChanged ==
  ASSUME NEW S, IsFiniteSet(S), NEW w, NEW v, S \subseteq DOMAIN w, S \subseteq DOMAIN v,
         NEW x \in S, w[x] \in Int, v[x] \in Int,
         \A y \in S \ {x} : w[y] \in Int /\ v[y] = w[y]
  PROVE  SumOf(v, S) = SumOf(w, S) - w[x] + v[x]
<1>1. IsFiniteSet(S \ {x})
  BY FS_RemoveElement
<1>2. SumOf(v, S \ {x}) = SumOf(w, S \ {x}) /\ SumOf(w, S \ {x}) \in Int
  BY <1>1, SumSame, SumSplit
<1>3. (\A y \in S : w[y] \in Int) /\ (\A y \in S : v[y] \in Int)
  OBVIOUS
<1>4. SumOf(v, S) = v[x] + SumOf(v, S \ {x}) /\ SumOf(w, S) = w[x] + SumOf(w, S \ {x})
  BY <1>3, SumSplit
<1> QED
  BY <1>2, <1>4

\* What is never negative adds up to no less than any of it.
LEMMA SumNatural ==
  ASSUME NEW S, IsFiniteSet(S), NEW w, S \subseteq DOMAIN w, \A x \in S : w[x] \in Nat
  PROVE  /\ SumOf(w, S) \in Nat
         /\ \A x \in S : w[x] <= SumOf(w, S)
         /\ (\A x \in S : w[x] = 0) => SumOf(w, S) = 0
<1>1. ASSUME NEW T \in SUBSET S
      PROVE  SumOf(w, T) = Cardinality(Heap(w, T)) /\ Cardinality(Heap(w, T)) \in Nat
  <2>1. IsFiniteSet(T)
    BY FS_Subset
  <2>2. Heap(Negated(w), T) = {}
    BY DEF Heap, Negated
  <2>3. Cardinality(Heap(w, T)) \in Nat
    BY <2>1, HeapFinite
  <2>4. SumOf(w, T) = Weight(w, T)
    BY <2>1, SumWeighs
  <2>5. Cardinality(Heap(Negated(w), T)) = 0
    BY <2>2, FS_EmptySet
  <2> QED
    BY <2>3, <2>4, <2>5 DEF Weight
<1>2. (\A x \in S : w[x] = 0) => Heap(w, S) = {}
  BY DEF Heap
<1>3. \A x \in S : SumOf(w, S) = w[x] + SumOf(w, S \ {x}) /\ SumOf(w, S \ {x}) \in Nat
  BY <1>1, SumSplit
<1>4. ASSUME NEW x \in S PROVE w[x] <= SumOf(w, S)
  <2>1. w[x] \in Nat /\ SumOf(w, S) = w[x] + SumOf(w, S \ {x}) /\ SumOf(w, S \ {x}) \in Nat
    BY <1>3
  <2> QED
    BY <2>1
<1>5. (\A x \in S : w[x] = 0) => SumOf(w, S) = 0
  BY <1>1, <1>2, FS_EmptySet
<1> QED
  BY <1>1, <1>4, <1>5

\* More terms, or larger ones, add up to more, as long as none is negative.
LEMMA SumGrows ==
  ASSUME NEW S, NEW T, IsFiniteSet(S), IsFiniteSet(T), NEW w, NEW v,
         S \subseteq DOMAIN w, T \subseteq DOMAIN v,
         \A x \in S : w[x] \in Nat, \A x \in T : v[x] \in Nat,
         \A x \in S : w[x] = 0 \/ (x \in T /\ w[x] <= v[x])
  PROVE  SumOf(w, S) \in Nat /\ SumOf(v, T) \in Nat /\ SumOf(w, S) <= SumOf(v, T)
<1>1. ASSUME NEW U, IsFiniteSet(U), NEW u, U \subseteq DOMAIN u, \A x \in U : u[x] \in Nat
      PROVE  SumOf(u, U) = Cardinality(Heap(u, U)) /\ Cardinality(Heap(u, U)) \in Nat
  <2>1. Heap(Negated(u), U) = {}
    BY <1>1 DEF Heap, Negated
  <2>2. Cardinality(Heap(u, U)) \in Nat
    BY <1>1, HeapFinite
  <2>3. SumOf(u, U) = Weight(u, U)
    BY <1>1, SumWeighs
  <2>4. Cardinality(Heap(Negated(u), U)) = 0
    BY <2>1, FS_EmptySet
  <2> QED
    BY <2>2, <2>3, <2>4 DEF Weight
<1>2. Heap(w, S) \subseteq Heap(v, T)
  BY DEF Heap
<1>3. IsFiniteSet(Heap(v, T))
  BY HeapFinite
<1>4. Cardinality(Heap(w, S)) <= Cardinality(Heap(v, T))
  BY <1>2, <1>3, FS_Subset
<1>5. /\ SumOf(w, S) = Cardinality(Heap(w, S)) /\ Cardinality(Heap(w, S)) \in Nat
      /\ SumOf(v, T) = Cardinality(Heap(v, T)) /\ Cardinality(Heap(v, T)) \in Nat
  BY <1>1
<1> QED
  BY <1>4, <1>5

\* A term more adds to the sum what it is worth.
LEMMA SumExtended ==
  ASSUME NEW S, IsFiniteSet(S), NEW x, x \notin S, NEW w, NEW v,
         S \subseteq DOMAIN w, S \cup {x} \subseteq DOMAIN v,
         \A y \in S : w[y] \in Int /\ v[y] = w[y], v[x] \in Int
  PROVE  SumOf(v, S \cup {x}) = SumOf(w, S) + v[x]
<1>1. IsFiniteSet(S \cup {x})
  BY FS_AddElement
<1>2. (S \cup {x}) \ {x} = S
  OBVIOUS
<1>3. SumOf(v, S) = SumOf(w, S) /\ SumOf(w, S) \in Int
  BY SumSame, SumSplit
<1>4. \A y \in S \cup {x} : v[y] \in Int
  OBVIOUS
<1>5. SumOf(v, S \cup {x}) = v[x] + SumOf(v, (S \cup {x}) \ {x})
  BY <1>1, <1>4, SumSplit
<1>6. SumOf(v, S \cup {x}) = v[x] + SumOf(v, S)
  BY <1>2, <1>5
<1> QED
  BY <1>3, <1>6

\* The sum over two sets that have nothing in common is that of the two sums.
LEMMA SumJoined ==
  ASSUME NEW S, NEW T, IsFiniteSet(S), IsFiniteSet(T), S \cap T = {},
         NEW w, S \cup T \subseteq DOMAIN w, \A x \in S \cup T : w[x] \in Int
  PROVE  SumOf(w, S \cup T) = SumOf(w, S) + SumOf(w, T)
<1>1. IsFiniteSet(S \cup T)
  BY FS_Union
<1>2. ASSUME NEW v, \A x \in S \cup T : v[x] \in Int
      PROVE  /\ Cardinality(Heap(v, S \cup T)) = Cardinality(Heap(v, S)) + Cardinality(Heap(v, T))
             /\ Cardinality(Heap(v, S)) \in Nat /\ Cardinality(Heap(v, T)) \in Nat
  <2>1. /\ IsFiniteSet(Heap(v, S)) /\ Cardinality(Heap(v, S)) \in Nat
        /\ IsFiniteSet(Heap(v, T)) /\ Cardinality(Heap(v, T)) \in Nat
    BY <1>2, HeapFinite
  <2>2. Heap(v, S \cup T) = Heap(v, S) \cup Heap(v, T)
    BY DEF Heap
  <2>3. Heap(v, S) \cap Heap(v, T) = {}
    BY DEF Heap
  <2>4. Cardinality({}) = 0
    BY FS_EmptySet
  <2> DEFINE A == Heap(v, S)
             B == Heap(v, T)
  <2> HIDE DEF A, B
  <2>5. IsFiniteSet(A) /\ IsFiniteSet(B) /\ A \cap B = {}
    BY <2>1, <2>3 DEF A, B
  <2>6. Cardinality(A \cup B) = Cardinality(A) + Cardinality(B) - Cardinality(A \cap B)
    BY <2>5, FS_Union
  <2>7. Cardinality(A) \in Nat /\ Cardinality(B) \in Nat
    BY <2>1 DEF A, B
  <2>8. Cardinality(A \cap B) = 0
    BY <2>4, <2>5, Zenon
  <2>9. Cardinality(A \cup B) = Cardinality(A) + Cardinality(B)
    BY <2>6, <2>7, <2>8
  <2> QED
    BY <2>1, <2>2, <2>9 DEF A, B
<1>3. \A x \in S \cup T : Negated(w)[x] \in Int
  BY DEF Negated
<1>4. Weight(w, S \cup T) = Weight(w, S) + Weight(w, T)
  <2> DEFINE v == Negated(w)
  <2> HIDE DEF v
  <2>1. \A x \in S \cup T : v[x] \in Int
    BY <1>3 DEF v
  <2>2. /\ Cardinality(Heap(v, S \cup T)) = Cardinality(Heap(v, S)) + Cardinality(Heap(v, T))
        /\ Cardinality(Heap(v, S)) \in Nat /\ Cardinality(Heap(v, T)) \in Nat
    BY <1>2, <2>1
  <2>3. /\ Cardinality(Heap(w, S \cup T)) = Cardinality(Heap(w, S)) + Cardinality(Heap(w, T))
        /\ Cardinality(Heap(w, S)) \in Nat /\ Cardinality(Heap(w, T)) \in Nat
    BY <1>2
  <2>4. ASSUME NEW U
        PROVE  Weight(w, U) = Cardinality(Heap(w, U)) - Cardinality(Heap(v, U))
    BY DEF Weight, v
  <2> QED
    BY <2>2, <2>3, <2>4
<1>5. /\ SumOf(w, S \cup T) = Weight(w, S \cup T)
      /\ SumOf(w, S) = Weight(w, S) /\ SumOf(w, T) = Weight(w, T)
  BY <1>1, SumWeighs
<1> QED
  BY <1>4, <1>5
=============================================================================
