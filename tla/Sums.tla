-------------------------------- MODULE Sums --------------------------------
(***************************************************************************)
(* The sum of a function over a finite set (SumFunctionOnSet of Functions, *)
(* which is defined by recursion over the set): it is a whole number if    *)
(* the values are, depends on them alone, and may be taken in any order or *)
(* by groups.  The payslips and the credited hours are such sums.          *)
(*                                                                         *)
(* The lemmas are by induction over the size of the set or over its        *)
(* subsets, with a set G of the numbers or subsets for which a statement   *)
(* holds in the place of the statement: UpFrom0 and UpFromEmpty.           *)
(***************************************************************************)
EXTENDS Integers, FiniteSetsExt, Functions, FiniteSetTheorems, TLAPS

\* Induction over the numbers.
LEMMA UpFrom0 ==
  ASSUME NEW G, 0 \in G, \A n \in Nat : n \in G => n + 1 \in G
  PROVE  Nat \subseteq G
<1> SUFFICES ASSUME NEW b \in Nat, b \notin G PROVE FALSE
  OBVIOUS
<1> DEFINE Bad == {n \in Nat : n \notin G}
<1>1. PICK m \in Bad : \A n \in Bad : ~ (<<n, m>> \in OpToRel(<, Nat))
  <2>1. Bad \subseteq Nat /\ Bad # {}
    OBVIOUS
  <2> HIDE DEF Bad
  <2>2. QED
    BY <2>1, NatLessThanWellFounded, WFMin
<1>2. \A n \in Bad : ~(n < m)
  BY <1>1 DEF OpToRel
<1>3. m \in Nat /\ m # 0 /\ m - 1 \in Nat
  OBVIOUS
<1>4. m - 1 \in G
  BY <1>2, <1>3
<1>5. (m - 1) + 1 \in G
  BY <1>3, <1>4
<1> QED BY <1>3, <1>5

----------------------------------------------------------------------------
(* The recursive function behind a sum, and that there is one.             *)

\* g adds up h over every subset of S, one element after the other.
Adds(h, S, g) ==
  g = [T \in SUBSET S |-> IF T = {} THEN 0
                          ELSE h[CHOOSE x \in T : TRUE] + g[T \ {CHOOSE x \in T : TRUE}]]

Fix(h, S) == CHOOSE g : Adds(h, S, g)
AnyOf(T)  == CHOOSE x \in T : TRUE

LEMMA SumIsFix ==
  ASSUME NEW h, NEW S
  PROVE  SumFunctionOnSet(h, S) = Fix(h, S)[S]
BY Zenon DEF SumFunctionOnSet, FoldFunctionOnSet, MapThenFoldSet, Fix, Adds

LEMMA AnyIsIn ==
  ASSUME NEW T, T # {}
  PROVE  AnyOf(T) \in T
BY DEF AnyOf

\* What one more element does to the size.
LEMMA OneLess ==
  ASSUME NEW S, IsFiniteSet(S), NEW T \in SUBSET S, NEW x \in T
  PROVE  /\ IsFiniteSet(T) /\ Cardinality(T) \in Nat /\ Cardinality(T) # 0
         /\ T \ {x} \in SUBSET S /\ Cardinality(T \ {x}) = Cardinality(T) - 1
<1>1. IsFiniteSet(T) /\ Cardinality(T) \in Nat
  BY FS_Subset, FS_CardinalityType
<1>2. Cardinality(T) # 0
  BY <1>1, FS_EmptySet
<1>3. Cardinality(T \ {x}) = Cardinality(T) - 1
  BY <1>1, FS_RemoveElement
<1> QED BY <1>1, <1>2, <1>3

LEMMA AddsIs ==
  ASSUME NEW h, NEW S, NEW g
  PROVE  Adds(h, S, g) <=>
           g = [T \in SUBSET S |-> IF T = {} THEN 0 ELSE h[AnyOf(T)] + g[T \ {AnyOf(T)}]]
BY Zenon DEF Adds, AnyOf

\* There is such a function: the values for the sets of at most n elements can be
\* had for any n.
LEMMA FixAdds ==
  ASSUME NEW S, IsFiniteSet(S), NEW h
  PROVE  Adds(h, S, Fix(h, S))
<1> DEFINE Body(g, T) == IF T = {} THEN 0 ELSE h[AnyOf(T)] + g[T \ {AnyOf(T)}]
           UpTo(g, n) == \A T \in SUBSET S : Cardinality(T) <= n => g[T] = Body(g, T)
           G == {n \in Nat : \E g : UpTo(g, n)}
<1>1. \A T \in SUBSET S : Cardinality(T) \in Nat /\ (Cardinality(T) = 0 <=> T = {})
  BY FS_Subset, FS_CardinalityType, FS_EmptySet
<1>2. 0 \in G
  <2> DEFINE g == [T \in SUBSET S |-> 0]
  <2>1. UpTo(g, 0)
    BY <1>1
  <2>2. QED
    BY <2>1
<1>3. ASSUME NEW n \in Nat, n \in G PROVE n + 1 \in G
  <2>1. PICK g : UpTo(g, n)
    BY <1>3
  <2> DEFINE f == [T \in SUBSET S |-> Body(g, T)]
  <2>6. \A T \in SUBSET S : f[T] = Body(g, T)
    OBVIOUS
  <2> HIDE DEF f
  <2>2. \A T \in SUBSET S : Cardinality(T) <= n => f[T] = g[T]
    BY <2>1, <2>6
  <2>3. ASSUME NEW T \in SUBSET S, Cardinality(T) <= n + 1 PROVE f[T] = Body(f, T)
    <3>1. CASE T = {}
      BY <2>6, <3>1
    <3>2. CASE T # {}
      <4>1. /\ T \ {AnyOf(T)} \in SUBSET S
            /\ Cardinality(T \ {AnyOf(T)}) = Cardinality(T) - 1 /\ Cardinality(T) \in Nat
        BY <3>2, AnyIsIn, OneLess
      <4>2. f[T \ {AnyOf(T)}] = g[T \ {AnyOf(T)}]
        BY <2>2, <2>3, <4>1
      <4>3. QED
        BY <2>6, <3>2, <4>2
    <3>3. QED BY <3>1, <3>2
  <2>4. UpTo(f, n + 1)
    BY <2>3
  <2> HIDE DEF UpTo
  <2>5. QED
    BY <2>4
<1>4. Cardinality(S) \in G
  <2> HIDE DEF G
  <2>1. Nat \subseteq G
    BY <1>2, <1>3, UpFrom0
  <2>2. QED
    BY <2>1, FS_CardinalityType
<1>5. PICK g : UpTo(g, Cardinality(S))
  BY <1>4
<1>6. \A T \in SUBSET S : g[T] = Body(g, T)
  BY <1>5, FS_Subset
<1> DEFINE f == [T \in SUBSET S |-> Body(g, T)]
<1>7. \A T \in SUBSET S : f[T] = g[T]
  BY <1>6
<1>8. f = [T \in SUBSET S |-> Body(f, T)]
  <2>1. ASSUME NEW T \in SUBSET S PROVE Body(f, T) = Body(g, T)
    BY <1>7
  <2>2. QED
    BY <2>1
<1> HIDE DEF f
<1>9. Adds(h, S, f)
  BY <1>8, AddsIs
<1> QED BY <1>9 DEF Fix

\* Induction over the subsets of a finite set.
LEMMA UpFromEmpty ==
  ASSUME NEW S, IsFiniteSet(S), NEW G,
         \A T \in SUBSET S : (\A x \in T : T \ {x} \in G) => T \in G
  PROVE  SUBSET S \subseteq G
<1> DEFINE N == {n \in Nat : \A T \in SUBSET S : Cardinality(T) <= n => T \in G}
<1>1. \A T \in SUBSET S : Cardinality(T) \in Nat /\ (Cardinality(T) = 0 <=> T = {})
  BY FS_Subset, FS_CardinalityType, FS_EmptySet
<1>2. 0 \in N
  BY <1>1
<1>3. ASSUME NEW n \in Nat, n \in N PROVE n + 1 \in N
  <2>1. ASSUME NEW T \in SUBSET S, Cardinality(T) <= n + 1 PROVE T \in G
    <3>1. ASSUME NEW x \in T PROVE T \ {x} \in G
      <4>1. T \ {x} \in SUBSET S /\ Cardinality(T \ {x}) = Cardinality(T) - 1
        BY OneLess
      <4>2. Cardinality(T \ {x}) <= n
        BY <1>1, <2>1, <4>1
      <4>3. QED
        BY <1>3, <4>1, <4>2
    <3>2. QED
      BY <3>1
  <2>2. QED
    BY <2>1
<1>4. Nat \subseteq N
  <2> HIDE DEF N
  <2>1. QED
    BY <1>2, <1>3, UpFrom0
<1>5. ASSUME NEW T \in SUBSET S PROVE T \in G
  <2>1. Cardinality(T) \in N
    BY <1>1, <1>4
  <2>2. QED
    BY <1>1, <2>1
<1> QED BY <1>5

LEMMA FixStep ==
  ASSUME NEW S, IsFiniteSet(S), NEW h, NEW T \in SUBSET S
  PROVE  Fix(h, S)[T] = IF T = {} THEN 0 ELSE h[AnyOf(T)] + Fix(h, S)[T \ {AnyOf(T)}]
<1> DEFINE g == Fix(h, S)
<1>1. g = [V \in SUBSET S |-> IF V = {} THEN 0 ELSE h[AnyOf(V)] + g[V \ {AnyOf(V)}]]
  BY FixAdds, AddsIs
<1> HIDE DEF g
<1>2. g[T] = IF T = {} THEN 0 ELSE h[AnyOf(T)] + g[T \ {AnyOf(T)}]
  BY <1>1
<1> QED BY <1>2 DEF g

\* A sum depends on the elements' values only, and not on the set they are in.
LEMMA FixesAgree ==
  ASSUME NEW S, IsFiniteSet(S), NEW h, NEW U, IsFiniteSet(U), NEW k,
         NEW T \in SUBSET S, T \subseteq U, \A x \in T : h[x] = k[x]
  PROVE  Fix(h, S)[T] = Fix(k, U)[T]
<1> DEFINE G == {V \in SUBSET T : Fix(h, S)[V] = Fix(k, U)[V]}
<1>1. IsFiniteSet(T)
  BY FS_Subset
<1>2. ASSUME NEW V \in SUBSET T, \A x \in V : V \ {x} \in G PROVE V \in G
  <2>1. CASE V = {}
    BY <2>1, FixStep
  <2>2. CASE V # {}
    <3>1. AnyOf(V) \in V /\ h[AnyOf(V)] = k[AnyOf(V)]
      BY <2>2, AnyIsIn
    <3>2. Fix(h, S)[V \ {AnyOf(V)}] = Fix(k, U)[V \ {AnyOf(V)}]
      BY <1>2, <3>1
    <3>3. Fix(h, S)[V] = h[AnyOf(V)] + Fix(h, S)[V \ {AnyOf(V)}]
      <4>1. V \in SUBSET S
        OBVIOUS
      <4>2. QED
        BY <2>2, <4>1, FixStep
    <3>4. V \in SUBSET U
      OBVIOUS
    <3>5. Fix(k, U)[V] = k[AnyOf(V)] + Fix(k, U)[V \ {AnyOf(V)}]
      BY <2>2, <3>4, FixStep
    <3>6. QED
      BY <3>1, <3>2, <3>3, <3>5
  <2>3. QED BY <2>1, <2>2
<1>3. T \in G
  <2> HIDE DEF G
  <2>1. SUBSET T \subseteq G
    BY <1>1, <1>2, UpFromEmpty
  <2>2. QED
    BY <2>1
<1> QED BY <1>3

----------------------------------------------------------------------------
(* What a sum is.                                                          *)

LEMMA SumOfPart ==
  ASSUME NEW S, IsFiniteSet(S), NEW h, NEW T \in SUBSET S
  PROVE  SumFunctionOnSet(h, T) = Fix(h, S)[T]
<1>1. IsFiniteSet(T)
  BY FS_Subset
<1> QED BY <1>1, SumIsFix, FixesAgree

\* Only the values over the set count.
LEMMA SumSame ==
  ASSUME NEW S, IsFiniteSet(S), NEW h, NEW k, \A x \in S : h[x] = k[x]
  PROVE  SumFunctionOnSet(h, S) = SumFunctionOnSet(k, S)
BY SumIsFix, FixesAgree

LEMMA SumOfNone == \A h : SumFunctionOnSet(h, {}) = 0
BY FS_EmptySet, SumIsFix, FixStep

LEMMA SumFirst ==
  ASSUME NEW S, IsFiniteSet(S), S # {}, NEW h
  PROVE  SumFunctionOnSet(h, S) = h[AnyOf(S)] + SumFunctionOnSet(h, S \ {AnyOf(S)})
<1>1. SumFunctionOnSet(h, S) = h[AnyOf(S)] + Fix(h, S)[S \ {AnyOf(S)}]
  BY SumIsFix, FixStep
<1>2. SumFunctionOnSet(h, S \ {AnyOf(S)}) = Fix(h, S)[S \ {AnyOf(S)}]
  BY SumOfPart
<1> QED BY <1>1, <1>2

\* A sum of whole numbers is one ...
LEMMA SumIsInt ==
  ASSUME NEW S, IsFiniteSet(S), NEW h, \A x \in S : h[x] \in Int
  PROVE  SumFunctionOnSet(h, S) \in Int
<1> DEFINE sum(T) == SumFunctionOnSet(h, T)
           G == {T \in SUBSET S : sum(T) \in Int}
<1>1. \A T \in SUBSET S : T # {} => AnyOf(T) \in T /\ sum(T) = h[AnyOf(T)] + sum(T \ {AnyOf(T)})
  BY FS_Subset, SumFirst, AnyIsIn
<1>2. sum({}) = 0
  BY SumOfNone
<1> HIDE DEF sum
<1>3. ASSUME NEW T \in SUBSET S, \A x \in T : T \ {x} \in G PROVE T \in G
  <2>1. CASE T = {}
    BY <1>2, <2>1
  <2>2. CASE T # {}
    <3>1. AnyOf(T) \in T /\ sum(T) = h[AnyOf(T)] + sum(T \ {AnyOf(T)})
      BY <1>1, <2>2
    <3>2. sum(T \ {AnyOf(T)}) \in Int /\ h[AnyOf(T)] \in Int
      BY <1>3, <3>1
    <3>3. QED
      BY <3>1, <3>2
  <2>3. QED BY <2>1, <2>2
<1>4. S \in G
  <2> HIDE DEF G
  <2>1. SUBSET S \subseteq G
    BY <1>3, UpFromEmpty
  <2>2. QED
    BY <2>1
<1> QED BY <1>4 DEF sum

\* ... and may be taken in any order.
LEMMA SumWithout ==
  ASSUME NEW S, IsFiniteSet(S), NEW h, \A x \in S : h[x] \in Int
  PROVE  \A x \in S : SumFunctionOnSet(h, S) = h[x] + SumFunctionOnSet(h, S \ {x})
<1> DEFINE sum(T) == SumFunctionOnSet(h, T)
           G == {T \in SUBSET S : \A x \in T : sum(T) = h[x] + sum(T \ {x})}
<1>1. \A T \in SUBSET S : IsFiniteSet(T)
  BY FS_Subset
<1>2. \A T \in SUBSET S : T # {} => AnyOf(T) \in T /\ sum(T) = h[AnyOf(T)] + sum(T \ {AnyOf(T)})
  BY <1>1, SumFirst, AnyIsIn
<1>3. sum({}) = 0
  BY SumOfNone
<1>6. \A T \in SUBSET S : sum(T) \in Int
  <2> SUFFICES ASSUME NEW T \in SUBSET S PROVE sum(T) \in Int
    OBVIOUS
  <2>1. IsFiniteSet(T) /\ \A x \in T : h[x] \in Int
    BY <1>1
  <2>2. QED
    BY <2>1, SumIsInt
<1> HIDE DEF sum
<1>4. ASSUME NEW T \in SUBSET S, \A x \in T : T \ {x} \in G PROVE T \in G
  <2>1. CASE T = {}
    BY <1>3, <2>1
  <2>2. CASE T # {}
    <3>1. PICK y \in T : sum(T) = h[y] + sum(T \ {y})
      BY <1>2, <2>2
    <3>3. ASSUME NEW x \in T PROVE sum(T) = h[x] + sum(T \ {x})
      <4>1. CASE x = y
        BY <3>1, <4>1
      <4>2. CASE x # y
        <5>1. sum(T \ {y}) = h[x] + sum((T \ {y}) \ {x})
          BY <1>4, <4>2
        <5>2. sum(T \ {x}) = h[y] + sum((T \ {x}) \ {y})
          BY <1>4, <4>2
        <5>3. (T \ {y}) \ {x} = (T \ {x}) \ {y} /\ (T \ {y}) \ {x} \in SUBSET S
          OBVIOUS
        <5>4. sum(T \ {y}) \in Int /\ sum(T \ {x}) \in Int /\ h[x] \in Int /\ h[y] \in Int
          BY <1>6
        <5>5. sum((T \ {y}) \ {x}) \in Int
          BY <1>6
        <5>6. QED
          BY <3>1, <5>1, <5>2, <5>3, <5>4, <5>5
      <4>3. QED BY <4>1, <4>2
    <3>4. QED
      BY <3>3
  <2>3. QED BY <2>1, <2>2
<1>5. S \in G
  <2> HIDE DEF G
  <2>1. SUBSET S \subseteq G
    BY <1>4, UpFromEmpty
  <2>2. QED
    BY <2>1
<1> QED BY <1>5 DEF sum

\* A part and the rest make the whole.
LEMMA SumSplits ==
  ASSUME NEW S, IsFiniteSet(S), NEW h, \A x \in S : h[x] \in Int, NEW T \in SUBSET S
  PROVE  SumFunctionOnSet(h, S) = SumFunctionOnSet(h, T) + SumFunctionOnSet(h, S \ T)
<1> DEFINE sum(V) == SumFunctionOnSet(h, V)
           G == {V \in SUBSET S : sum(S) = sum(V) + sum(S \ V)}
<1>1. ASSUME NEW V \in SUBSET S
      PROVE  sum(V) \in Int /\ \A x \in V : sum(V) = h[x] + sum(V \ {x})
  <2>1. IsFiniteSet(V) /\ \A x \in V : h[x] \in Int
    BY FS_Subset
  <2>2. QED
    BY <2>1, SumIsInt, SumWithout
<1>2. sum({}) = 0
  BY SumOfNone
<1> HIDE DEF sum
<1>3. ASSUME NEW V \in SUBSET S, \A x \in V : V \ {x} \in G PROVE V \in G
  <2>1. CASE V = {}
    <3>1. S \ {} = S /\ sum(S) \in Int
      BY <1>1
    <3>2. QED
      BY <1>2, <2>1, <3>1
  <2>2. CASE V # {}
    <3>1. PICK x \in V : TRUE
      BY <2>2
    <3>2. sum(S) = sum(V \ {x}) + sum(S \ (V \ {x}))
      BY <1>3
    <3>3. sum(V) = h[x] + sum(V \ {x})
      BY <1>1
    <3>4. sum(S \ (V \ {x})) = h[x] + sum(S \ V)
      <4>1. (S \ (V \ {x})) \ {x} = S \ V /\ x \in S \ (V \ {x})
        OBVIOUS
      <4>2. QED
        BY <1>1, <4>1
    <3>5. sum(V \ {x}) \in Int /\ sum(S \ V) \in Int /\ h[x] \in Int
      BY <1>1
    <3>6. QED
      BY <3>2, <3>3, <3>4, <3>5
  <2>3. QED BY <2>1, <2>2
<1>4. T \in G
  <2> HIDE DEF G
  <2>1. SUBSET S \subseteq G
    BY <1>3, UpFromEmpty
  <2>2. QED
    BY <2>1
<1> QED BY <1>4 DEF sum

LEMMA SumOfZeros ==
  ASSUME NEW S, IsFiniteSet(S), NEW h, \A x \in S : h[x] = 0
  PROVE  SumFunctionOnSet(h, S) = 0
<1> DEFINE G == {T \in SUBSET S : SumFunctionOnSet(h, T) = 0}
<1>1. ASSUME NEW T \in SUBSET S, \A x \in T : T \ {x} \in G PROVE T \in G
  <2>1. CASE T = {}
    BY <2>1, SumOfNone
  <2>2. CASE T # {}
    <3>1. IsFiniteSet(T) /\ AnyOf(T) \in T
      BY <2>2, FS_Subset, AnyIsIn
    <3>2. SumFunctionOnSet(h, T) = h[AnyOf(T)] + SumFunctionOnSet(h, T \ {AnyOf(T)})
      BY <2>2, <3>1, SumFirst
    <3>3. h[AnyOf(T)] = 0 /\ SumFunctionOnSet(h, T \ {AnyOf(T)}) = 0
      BY <1>1, <3>1
    <3>4. QED
      BY <3>2, <3>3
  <2>3. QED BY <2>1, <2>2
<1>2. S \in G
  <2> HIDE DEF G
  <2>1. SUBSET S \subseteq G
    BY <1>1, UpFromEmpty
  <2>2. QED
    BY <2>1
<1> QED BY <1>2

\* More at every element is no less in all.
LEMMA SumGrows ==
  ASSUME NEW S, IsFiniteSet(S), NEW h, NEW k,
         \A x \in S : h[x] \in Int /\ k[x] \in Int /\ h[x] <= k[x]
  PROVE  SumFunctionOnSet(h, S) <= SumFunctionOnSet(k, S)
<1> DEFINE G == {T \in SUBSET S : SumFunctionOnSet(h, T) <= SumFunctionOnSet(k, T)}
<1>1. ASSUME NEW T \in SUBSET S, \A x \in T : T \ {x} \in G PROVE T \in G
  <2>1. CASE T = {}
    BY <2>1, SumOfNone
  <2>2. CASE T # {}
    <3> DEFINE x == AnyOf(T)
    <3>1. x \in T
      BY <2>2, AnyIsIn
    <3>2. IsFiniteSet(T) /\ IsFiniteSet(T \ {x})
      BY FS_Subset
    <3>3. /\ SumFunctionOnSet(h, T) = h[x] + SumFunctionOnSet(h, T \ {x})
          /\ SumFunctionOnSet(k, T) = k[x] + SumFunctionOnSet(k, T \ {x})
      BY <2>2, <3>2, SumFirst
    <3>4. SumFunctionOnSet(h, T \ {x}) \in Int /\ SumFunctionOnSet(k, T \ {x}) \in Int
      BY <3>2, SumIsInt
    <3>5. SumFunctionOnSet(h, T \ {x}) <= SumFunctionOnSet(k, T \ {x})
      BY <1>1, <3>1
    <3>6. h[x] \in Int /\ k[x] \in Int /\ h[x] <= k[x]
      BY <3>1
    <3> HIDE DEF x
    <3>7. QED
      BY <3>3, <3>4, <3>5, <3>6
  <2>3. QED BY <2>1, <2>2
<1>2. SUBSET S \subseteq G
  <2> HIDE DEF G
  <2>1. QED
    BY <1>1, UpFromEmpty
<1> QED BY <1>2

\* The sum over the groups of the sums over each group.
LEMMA SumOfGroups ==
  ASSUME NEW S, IsFiniteSet(S), NEW h, \A x \in S : h[x] \in Int, NEW D, IsFiniteSet(D),
         NEW day, NEW c, \A d \in D : c[d] = SumFunctionOnSet(h, {x \in S : day[x] = d})
  PROVE  SumFunctionOnSet(c, D) = SumFunctionOnSet(h, {x \in S : day[x] \in D})
<1> DEFINE sum(T) == SumFunctionOnSet(h, T)
           G == {E \in SUBSET D : SumFunctionOnSet(c, E) = sum({x \in S : day[x] \in E})}
<1>1. ASSUME NEW T \in SUBSET S
      PROVE  sum(T) \in Int /\ \A V \in SUBSET T : sum(T) = sum(V) + sum(T \ V)
  <2>1. IsFiniteSet(T) /\ \A x \in T : h[x] \in Int
    BY FS_Subset
  <2>2. QED
    BY <2>1, SumIsInt, SumSplits
<1>2. sum({}) = 0
  BY SumOfNone
<1>3. \A d \in D : c[d] = sum({x \in S : day[x] = d})
  OBVIOUS
<1> HIDE DEF sum
<1>4. ASSUME NEW E \in SUBSET D, \A d \in E : E \ {d} \in G PROVE E \in G
  <2>1. CASE E = {}
    <3>1. {x \in S : day[x] \in E} = {}
      BY <2>1
    <3>2. QED
      BY <1>2, <2>1, <3>1, SumOfNone
  <2>2. CASE E # {}
    <3>1. PICK d \in E : TRUE
      BY <2>2
    <3>2. SumFunctionOnSet(c, E) = c[d] + SumFunctionOnSet(c, E \ {d})
      <4>1. \A e \in E : c[e] \in Int
        BY <1>1, <1>3
      <4>2. IsFiniteSet(E)
        BY FS_Subset
      <4>3. QED
        BY <4>1, <4>2, SumWithout
    <3>3. SumFunctionOnSet(c, E \ {d}) = sum({x \in S : day[x] \in E \ {d}})
      BY <1>4
    <3> DEFINE T == {x \in S : day[x] \in E}
               V == {x \in S : day[x] = d}
    <3>4. T \in SUBSET S /\ V \in SUBSET T /\ T \ V = {x \in S : day[x] \in E \ {d}}
      OBVIOUS
    <3>5. c[d] = sum(V)
      BY <1>3
    <3> HIDE DEF T, V
    <3>6. sum(T) = sum(V) + sum(T \ V)
      BY <1>1, <3>4
    <3>7. SumFunctionOnSet(c, E) = sum(T)
      BY <3>2, <3>3, <3>4, <3>5, <3>6
    <3>8. QED
      BY <3>7 DEF T
  <2>3. QED BY <2>1, <2>2
<1>5. D \in G
  <2> HIDE DEF G
  <2>1. SUBSET D \subseteq G
    BY <1>4, UpFromEmpty
  <2>2. QED
    BY <2>1
<1> QED BY <1>5 DEF sum
=============================================================================
