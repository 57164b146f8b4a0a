-------------------------- MODULE StatisticsProofs --------------------------
(***************************************************************************)
(* What the operators on measured numbers compute, for every input: sums   *)
(* over finite sets, and the figures of module Statistics.  The library's  *)
(* induction rules take an operator, which no installed prover can supply; *)
(* induction is by the least counterexample instead.                       *)
(***************************************************************************)
EXTENDS Statistics, FiniteSetTheorems, TLAPS

-----------------------------------------------------------------------------
(* Induction.                                                              *)

\* A set of naturals has a least element ...
LEMMA LeastNumber ==
  ASSUME NEW T \in SUBSET Nat, T # {}
  PROVE  \E n \in T : \A m \in T : n <= m
<1>. DEFINE Less == OpToRel(<, Nat)
<1>1. \E n \in T : \A m \in T : <<m, n>> \notin Less
  BY NatLessThanWellFounded, WFMin, Zenon
<1>2. \A m, n \in Nat : m < n => <<m, n>> \in Less
  BY Zenon DEF OpToRel
<1>. HIDE DEF Less
<1>3. \A m, n \in Nat : ~ m < n => n <= m
  OBVIOUS
<1>. QED  BY <1>1, <1>2, <1>3

\* ... and a family of subsets of a finite set a smallest one.
LEMMA SmallestSet ==
  ASSUME NEW S, IsFiniteSet(S), NEW T \in SUBSET SUBSET S, T # {}
  PROVE  \E s \in T : \A t \in T : Cardinality(s) <= Cardinality(t)
<1>1. \A s \in T : Cardinality(s) \in Nat
  BY FS_Subset, FS_CardinalityType
<1>. DEFINE Sizes == {Cardinality(s) : s \in T}
<1>2. Sizes \in SUBSET Nat /\ Sizes # {}
  BY <1>1
<1>. HIDE DEF Sizes
<1>3. PICK n \in Sizes : \A m \in Sizes : n <= m
  BY <1>2, LeastNumber
<1>. QED  BY <1>3 DEF Sizes

-----------------------------------------------------------------------------
(* Sums, as the community modules fold them.                               *)

\* The element that is added last.
Elem(s) == CHOOSE x \in s : TRUE

\* g maps the subsets of S to their sums.
Adds(f, S, g) ==
  g = [s \in SUBSET S |-> IF s = {} THEN 0 ELSE f[Elem(s)] + g[s \ {Elem(s)}]]

\* The fold of the community modules is such a g.
LEMMA SumUnfolds ==
  ASSUME NEW f, NEW S
  PROVE  SumFunctionOnSet(f, S) = (CHOOSE g : Adds(f, S, g))[S]
BY Zenon DEF SumFunctionOnSet, FoldFunctionOnSet, MapThenFoldSet, Adds, Elem

LEMMA ElemIn == ASSUME NEW s, s # {}  PROVE Elem(s) \in s
BY DEF Elem

\* Taking an element out of a finite set makes it smaller.
LEMMA Without ==
  ASSUME NEW s, IsFiniteSet(s), NEW x \in s
  PROVE  /\ IsFiniteSet(s \ {x}) /\ Cardinality(s \ {x}) = Cardinality(s) - 1
         /\ Cardinality(s) \in Nat /\ Cardinality(s \ {x}) \in Nat
BY FS_RemoveElement, FS_CardinalityType

\* g satisfies the equation on the sets of at most n elements.
AddsUpTo(f, S, g, n) ==
  /\ DOMAIN g = SUBSET S
  /\ \A s \in SUBSET S : Cardinality(s) <= n =>
       g[s] = IF s = {} THEN 0 ELSE f[Elem(s)] + g[s \ {Elem(s)}]

\* There is one, for any f.
LEMMA AddingExists ==
  ASSUME NEW f, NEW S, IsFiniteSet(S)
  PROVE  \E g : Adds(f, S, g)
<1>. DEFINE Eq(g, s) == IF s = {} THEN 0 ELSE f[Elem(s)] + g[s \ {Elem(s)}]
<1>. DEFINE Unsolved == {n \in Nat : ~ \E g : AddsUpTo(f, S, g, n)}
<1>1. \A s \in SUBSET S : IsFiniteSet(s) /\ Cardinality(s) \in Nat /\ Cardinality(s) <= Cardinality(S)
  BY FS_Subset, FS_CardinalityType
<1>2. Unsolved = {}
  <2>. SUFFICES ASSUME Unsolved # {}  PROVE FALSE
    OBVIOUS
  <2>1. PICK n \in Unsolved : \A m \in Unsolved : n <= m
    BY LeastNumber
  <2>2. CASE n = 0
    <3>. DEFINE g == [s \in SUBSET S |-> 0]
    <3>1. \A s \in SUBSET S : Cardinality(s) <= 0 => s = {}
      BY <1>1, FS_EmptySet
    <3>2. AddsUpTo(f, S, g, 0)
      BY <3>1 DEF AddsUpTo
    <3>. QED  BY <2>2, <3>2
  <2>3. CASE n > 0
    <3>1. n - 1 \in Nat /\ n - 1 \notin Unsolved
      BY <2>1, <2>3
    <3>2. PICK g : AddsUpTo(f, S, g, n - 1)
      BY <3>1
    <3>. DEFINE h == [s \in SUBSET S |-> IF Cardinality(s) <= n - 1 THEN g[s] ELSE Eq(g, s)]
    <3>3. ASSUME NEW s \in SUBSET S, Cardinality(s) <= n
          PROVE  h[s] = Eq(h, s)
      <4>0. h[s] = Eq(g, s)
        BY <3>2 DEF AddsUpTo
      <4>1. CASE s = {}
        BY <4>0, <4>1
      <4>2. CASE s # {}
        <5>1. Elem(s) \in s
          BY <4>2, ElemIn
        <5>2. Cardinality(s \ {Elem(s)}) <= n - 1 /\ s \ {Elem(s)} \in SUBSET S
          BY <1>1, <3>3, <5>1, Without
        <5>3. h[s \ {Elem(s)}] = g[s \ {Elem(s)}]
          BY <5>2
        <5>. QED  BY <4>0, <4>2, <5>3
      <4>. QED  BY <4>1, <4>2
    <3>4. AddsUpTo(f, S, h, n)
      BY <3>3 DEF AddsUpTo
    <3>. QED  BY <3>4
  <2>. QED  BY <2>2, <2>3
<1>3. PICK g : AddsUpTo(f, S, g, Cardinality(S))
  BY <1>1, <1>2
<1>. DEFINE h == [s \in SUBSET S |-> g[s]]
<1>4. \A s \in SUBSET S : h[s] = Eq(h, s)
  BY <1>1, <1>3 DEF AddsUpTo
<1>5. h = [s \in SUBSET S |-> Eq(h, s)]
  BY <1>4
<1>. QED  BY <1>5 DEF Adds

\* One equation has one solution, on every set that two of them have in common.
LEMMA AddingUnique ==
  ASSUME NEW f, NEW S, IsFiniteSet(S), NEW U \in SUBSET S,
         NEW g, Adds(f, S, g), NEW h, Adds(f, U, h)
  PROVE  \A s \in SUBSET U : g[s] = h[s]
<1>. DEFINE Bad == {s \in SUBSET U : g[s] # h[s]}
<1>. SUFFICES ASSUME Bad # {}  PROVE FALSE
  OBVIOUS
<1>1. Bad \in SUBSET SUBSET S
  OBVIOUS
<1>2. PICK s \in Bad : \A t \in Bad : Cardinality(s) <= Cardinality(t)
  BY <1>1, SmallestSet
<1>3. /\ g[s] = IF s = {} THEN 0 ELSE f[Elem(s)] + g[s \ {Elem(s)}]
      /\ h[s] = IF s = {} THEN 0 ELSE f[Elem(s)] + h[s \ {Elem(s)}]
  BY DEF Adds
<1>4. s # {} /\ Elem(s) \in s /\ IsFiniteSet(s)
  BY <1>3, ElemIn, FS_Subset
<1>5. s \ {Elem(s)} \notin Bad
  BY <1>2, <1>4, Without
<1>. QED  BY <1>3, <1>4, <1>5

\* The two cases of the recursion.
LEMMA SumOfNone == ASSUME NEW f  PROVE SumFunctionOnSet(f, {}) = 0
<1>1. PICK g : Adds(f, {}, g)
  BY AddingExists, FS_EmptySet
<1>2. \A h : Adds(f, {}, h) => h[{}] = 0
  BY DEF Adds
<1>3. Adds(f, {}, CHOOSE h : Adds(f, {}, h))
  BY <1>1, Zenon
<1>. QED  BY <1>2, <1>3, SumUnfolds

LEMMA SumStep ==
  ASSUME NEW f, NEW S, IsFiniteSet(S), S # {}
  PROVE  SumFunctionOnSet(f, S) = f[Elem(S)] + SumFunctionOnSet(f, S \ {Elem(S)})
<1>. DEFINE U == S \ {Elem(S)}  G == CHOOSE g : Adds(f, S, g)  H == CHOOSE g : Adds(f, U, g)
<1>1. Elem(S) \in S /\ IsFiniteSet(U) /\ U \in SUBSET S
  BY ElemIn, FS_Subset
<1>2. Adds(f, S, G)
  BY AddingExists, Zenon
<1>3. Adds(f, U, H)
  BY <1>1, AddingExists, Zenon
<1>. HIDE DEF G, H, U
<1>4. G[U] = H[U]
  BY <1>1, <1>2, <1>3, AddingUnique
<1>5. G[S] = f[Elem(S)] + G[U]
  BY <1>2 DEF Adds, U
<1>6. SumFunctionOnSet(f, S) = G[S] /\ SumFunctionOnSet(f, U) = H[U]
  BY SumUnfolds DEF G, H
<1>. QED  BY <1>4, <1>5, <1>6 DEF U

\* What adds up to a number.
LEMMA SumIsNat ==
  ASSUME NEW f, NEW S, IsFiniteSet(S), \A x \in S : f[x] \in Nat
  PROVE  SumFunctionOnSet(f, S) \in Nat
<1>. DEFINE Bad == {s \in SUBSET S : SumFunctionOnSet(f, s) \notin Nat}
<1>. SUFFICES ASSUME Bad # {}  PROVE FALSE
  OBVIOUS
<1>1. PICK s \in Bad : \A t \in Bad : Cardinality(s) <= Cardinality(t)
  BY SmallestSet
<1>2. s # {} /\ IsFiniteSet(s)
  <2>1. SumFunctionOnSet(f, s) # 0 /\ IsFiniteSet(s)
    BY FS_Subset
  <2>. QED  BY <2>1, SumOfNone
<1>3. Elem(s) \in s /\ s \ {Elem(s)} \notin Bad
  BY <1>1, <1>2, ElemIn, Without
<1>4. SumFunctionOnSet(f, s) = f[Elem(s)] + SumFunctionOnSet(f, s \ {Elem(s)})
  BY <1>2, SumStep
<1>. QED  BY <1>3, <1>4

\* Any element may be taken out of a sum.
LEMMA SumTakeOut ==
  ASSUME NEW f, NEW S, IsFiniteSet(S), \A y \in S : f[y] \in Nat, NEW x \in S
  PROVE  SumFunctionOnSet(f, S) = f[x] + SumFunctionOnSet(f, S \ {x})
<1>. DEFINE Sum(s) == SumFunctionOnSet(f, s)
            Bad == {s \in SUBSET S : \E y \in s : Sum(s) # f[y] + Sum(s \ {y})}
<1>. SUFFICES ASSUME Bad # {}  PROVE FALSE
  OBVIOUS
<1>1. PICK s \in Bad : \A t \in Bad : Cardinality(s) <= Cardinality(t)
  BY SmallestSet
<1>2. PICK y \in s : Sum(s) # f[y] + Sum(s \ {y})
  BY <1>1
<1>. DEFINE e == Elem(s)
<1>3. IsFiniteSet(s) /\ e \in s /\ Sum(s) = f[e] + Sum(s \ {e})
  BY <1>2, FS_Subset, ElemIn, SumStep
<1>4. s \ {e} \notin Bad /\ s \ {y} \notin Bad
  <2>1. \A z \in s : Cardinality(s \ {z}) < Cardinality(s)
    BY <1>3, Without
  <2>2. \A z \in s : s \ {z} \notin Bad
    <3>. HIDE DEF Bad
    <3>. QED  BY <1>1, <1>3, <2>1, Without
  <2>. QED  BY <1>2, <1>3, <2>2
<1>5. y # e
  BY <1>2, <1>3
<1>6. Sum(s \ {e}) = f[y] + Sum((s \ {e}) \ {y}) /\ Sum(s \ {y}) = f[e] + Sum((s \ {y}) \ {e})
  BY <1>2, <1>3, <1>4, <1>5
<1>7. (s \ {e}) \ {y} = (s \ {y}) \ {e} /\ IsFiniteSet((s \ {e}) \ {y})
  BY <1>3, FS_Subset
<1>8. Sum((s \ {e}) \ {y}) \in Nat /\ f[e] \in Nat /\ f[y] \in Nat
  BY <1>2, <1>3, <1>7, SumIsNat
<1>. HIDE DEF Sum, e
<1>. QED  BY <1>2, <1>3, <1>6, <1>7, <1>8

\* Functions that agree on a set have the same sum over it.
LEMMA SumAgrees ==
  ASSUME NEW f, NEW g, NEW S, IsFiniteSet(S), \A x \in S : f[x] = g[x]
  PROVE  SumFunctionOnSet(f, S) = SumFunctionOnSet(g, S)
<1>. DEFINE Bad == {s \in SUBSET S : SumFunctionOnSet(f, s) # SumFunctionOnSet(g, s)}
<1>. SUFFICES ASSUME Bad # {}  PROVE FALSE
  OBVIOUS
<1>1. PICK s \in Bad : \A t \in Bad : Cardinality(s) <= Cardinality(t)
  BY SmallestSet
<1>2. s # {} /\ IsFiniteSet(s)
  BY SumOfNone, FS_Subset
<1>3. Elem(s) \in s /\ s \ {Elem(s)} \notin Bad
  BY <1>1, <1>2, ElemIn, Without
<1>. QED  BY <1>2, <1>3, SumStep

\* One more element.
LEMMA SumPutIn ==
  ASSUME NEW f, NEW S, IsFiniteSet(S), NEW x, x \notin S, \A y \in S \cup {x} : f[y] \in Nat
  PROVE  SumFunctionOnSet(f, S \cup {x}) = f[x] + SumFunctionOnSet(f, S)
<1>. DEFINE U == S \cup {x}
<1>1. IsFiniteSet(U) /\ U \ {x} = S /\ x \in U
  BY FS_AddElement
<1>2. SumFunctionOnSet(f, U) = f[x] + SumFunctionOnSet(f, U \ {x})
  BY <1>1, SumTakeOut
<1>. QED  BY <1>1, <1>2

LEMMA ImageFinite ==
  ASSUME NEW S, IsFiniteSet(S), NEW h
  PROVE  IsFiniteSet({h[x] : x \in S})
<1>. DEFINE r == [x \in S |-> h[x]]  T == {h[x] : x \in S}
<1>1. r \in Surjection(S, T)
  BY DEF Surjection
<1>. HIDE DEF r, T
<1>2. IsFiniteSet(T)
  BY <1>1, FS_Surjection
<1>. QED  BY <1>2 DEF T

\* A sum does not depend on what its terms are called.
LEMMA SumRenamed ==
  ASSUME NEW S, IsFiniteSet(S), NEW f, \A x \in S : f[x] \in Nat,
         NEW h, \A x, y \in S : h[x] = h[y] => x = y, NEW g, \A x \in S : g[h[x]] = f[x]
  PROVE  SumFunctionOnSet(f, S) = SumFunctionOnSet(g, {h[x] : x \in S})
<1>. DEFINE Image(s) == {h[x] : x \in s}
            Bad == {s \in SUBSET S : SumFunctionOnSet(f, s) # SumFunctionOnSet(g, Image(s))}
<1>. SUFFICES ASSUME Bad # {}  PROVE FALSE
  OBVIOUS
<1>1. PICK s \in Bad : \A t \in Bad : Cardinality(s) <= Cardinality(t)
  BY SmallestSet
<1>2. IsFiniteSet(s) /\ s \subseteq S
  BY FS_Subset
<1>3. s # {}
  <2>1. Image({}) = {}
    OBVIOUS
  <2>. QED  BY <2>1, SumOfNone
<1>4. PICK e \in s : TRUE
  BY <1>3
<1>. DEFINE t == s \ {e}
<1>5. t \notin Bad /\ IsFiniteSet(t)
  <2>. HIDE DEF Bad
  <2>. QED  BY <1>1, <1>2, Without
<1>6. SumFunctionOnSet(f, s) = f[e] + SumFunctionOnSet(f, t)
  BY <1>2, SumTakeOut
<1>7. Image(s) = Image(t) \cup {h[e]} /\ h[e] \notin Image(t)
  BY <1>2
<1>8. IsFiniteSet(Image(t)) /\ \A y \in Image(t) \cup {h[e]} : g[y] \in Nat
  <2>1. IsFiniteSet(Image(t))
    BY <1>5, ImageFinite
  <2>. QED  BY <1>2, <2>1
<1>. HIDE DEF Image
<1>9. SumFunctionOnSet(g, Image(s)) = g[h[e]] + SumFunctionOnSet(g, Image(t))
  BY <1>7, <1>8, SumPutIn
<1>10. SumFunctionOnSet(f, t) = SumFunctionOnSet(g, Image(t))
  BY <1>2, <1>5
<1>. QED  BY <1>2, <1>6, <1>9, <1>10

-----------------------------------------------------------------------------
(* Quotients, minima and maxima.                                           *)

\* The quotient that is rounded up is the least that reaches the dividend.
LEMMA CeilDivLeast ==
  ASSUME NEW a \in Nat, NEW b \in Nat \ {0}
  PROVE  /\ CeilDiv(a, b) \in Nat /\ b * CeilDiv(a, b) >= a
         /\ \A x \in Nat : b * x >= a => CeilDiv(a, b) <= x
<1>. DEFINE c == CeilDiv(a, b)
<1>1. c \in Nat /\ b * c <= a + b - 1 /\ a + b - 1 < b * c + b
  BY DEF CeilDiv
<1>. HIDE DEF c
<1>2. b * c \in Nat
  BY <1>1
<1>3. b * c >= a
  BY <1>1, <1>2
<1>4. ASSUME NEW x \in Nat, b * x >= a  PROVE c <= x
  <2>. SUFFICES ASSUME x + 1 <= c  PROVE FALSE
    BY <1>1
  <2>1. PICK k \in Nat : c = x + 1 + k
    <3>1. c - (x + 1) \in Nat /\ c = x + 1 + (c - (x + 1))
      BY <1>1
    <3>. QED  BY <3>1
  <2>2. b * c = b * x + b + b * k /\ b * k \in Nat /\ b * x \in Nat
    BY <2>1
  <2>. QED  BY <1>1, <1>4, <2>2
<1>. QED  BY <1>1, <1>3, <1>4 DEF c

\* The community modules' Max, of numbers below a bound.
LEMMA MaxIsGreatest ==
  ASSUME NEW k \in Nat, NEW S \in SUBSET (0..k), S # {}
  PROVE  Max(S) \in S /\ \A y \in S : y <= Max(S)
<1>. DEFINE Gaps == {n \in Nat : k - n \in S}
<1>1. Gaps # {}
  <2>1. PICK x \in S : TRUE
    OBVIOUS
  <2>2. k - x \in Nat /\ k - (k - x) = x
    BY <2>1
  <2>. QED  BY <2>2
<1>2. PICK n \in Gaps : \A m \in Gaps : n <= m
  BY <1>1, LeastNumber
<1>3. ASSUME NEW y \in S  PROVE k - n >= y
  <2>1. k - y \in Nat /\ k - (k - y) = y
    OBVIOUS
  <2>2. k - y \in Gaps
    BY <2>1
  <2>3. n <= k - y /\ n \in Nat
    BY <1>2, <2>2
  <2>. HIDE DEF Gaps
  <2>. QED  BY <2>1, <2>3
<1>4. \E x \in S : \A y \in S : x >= y
  BY <1>2, <1>3
<1>5. Max(S) \in S /\ \A y \in S : Max(S) >= y
  BY <1>4 DEF Max
<1>. QED  BY <1>5

\* Its Min, of any numbers.
LEMMA MinIsLeast ==
  ASSUME NEW S \in SUBSET Nat, S # {}
  PROVE  Min(S) \in S /\ \A y \in S : Min(S) <= y
BY LeastNumber DEF Min

\* A value that no other one exceeds.
LEMMA GreatestValue ==
  ASSUME NEW D, IsFiniteSet(D), D # {}, NEW values \in [D -> Nat]
  PROVE  \E x \in D : \A y \in D : values[y] <= values[x]
<1>. DEFINE Above(x) == {y \in D : values[y] > values[x]}
            Sets == {Above(x) : x \in D}
<1>1. Sets \in SUBSET SUBSET D /\ Sets # {}
  <2>1. Sets \in SUBSET SUBSET D
    OBVIOUS
  <2>2. \A y \in D : Above(y) \in Sets
    OBVIOUS
  <2>. HIDE DEF Sets
  <2>. QED  BY <2>1, <2>2
<1>2. PICK s \in Sets : \A t \in Sets : Cardinality(s) <= Cardinality(t)
  BY <1>1, SmallestSet
<1>3. PICK x \in D : s = Above(x)
  BY <1>2
<1>4. ASSUME NEW y \in D, values[y] > values[x]  PROVE FALSE
  <2>1. Above(y) \in Sets /\ Above(y) \subseteq s /\ y \in s /\ y \notin Above(y)
    BY <1>3, <1>4
  <2>2. IsFiniteSet(s) /\ Cardinality(s) \in Nat /\ Cardinality(Above(y)) \in Nat
    BY FS_Subset, FS_CardinalityType
  <2>3. Cardinality(Above(y)) <= Cardinality(s) /\ Cardinality(Above(y)) # Cardinality(s)
    BY <2>1, <2>2, FS_Subset
  <2>. QED  BY <1>2, <2>1, <2>2, <2>3
<1>. QED  BY <1>4

\* An element at which a function is least.
LEMMA LeastBy ==
  ASSUME NEW S, S # {}, NEW f \in [S -> Nat]
  PROVE  \E x \in S : \A y \in S : f[x] <= f[y]
<1>. DEFINE Values == {f[x] : x \in S}
<1>1. Values \in SUBSET Nat /\ Values # {}
  OBVIOUS
<1>2. PICK v \in Values : \A w \in Values : v <= w
  <2>. HIDE DEF Values
  <2>. QED  BY <1>1, LeastNumber
<1>. QED  BY <1>2

\* x costs less than y, or is better, or comes first in the alphabet.
Ahead(cost, quality, alias, x, y) ==
  \/ cost[x] < cost[y]
  \/ cost[x] = cost[y] /\ quality[x] > quality[y]
  \/ cost[x] = cost[y] /\ quality[x] = quality[y] /\ alias[x] < alias[y]

\* The first of the cheapest, best and alphabetically first: none is ahead of
\* it, and it is ahead of all that stand before it.
LEMMA Foremost ==
  ASSUME NEW S \in SUBSET Nat, S # {},
         NEW cost \in [S -> Nat], NEW quality \in [S -> 0..100], NEW alias \in [S -> Nat]
  PROVE  \E i \in S : \A k \in S : /\ ~Ahead(cost, quality, alias, k, i)
                                   /\ k < i => Ahead(cost, quality, alias, i, k)
<1>1. PICK a \in S : \A y \in S : cost[a] <= cost[y]
  BY LeastBy
<1>. DEFINE A == {x \in S : cost[x] = cost[a]}
<1>2. PICK b \in A : \A y \in A : quality[b] >= quality[y]
  <2>. DEFINE gap == [x \in A |-> 100 - quality[x]]
  <2>1. gap \in [A -> Nat] /\ A # {}
    <3>1. \A x \in A : quality[x] \in 0..100 /\ 100 - quality[x] \in Nat
      OBVIOUS
    <3>2. a \in A
      OBVIOUS
    <3>. HIDE DEF A
    <3>. QED  BY <3>1, <3>2
  <2>2. PICK b \in A : \A y \in A : gap[b] <= gap[y]
    <3>. HIDE DEF gap, A
    <3>. QED  BY <2>1, LeastBy
  <2>3. \A y \in A : 100 - quality[b] <= 100 - quality[y] /\ quality[b] \in Int /\ quality[y] \in Int
    BY <2>2
  <2>. QED  BY <2>3
<1>. DEFINE B == {x \in A : quality[x] = quality[b]}
<1>3. PICK c \in B : \A y \in B : alias[c] <= alias[y]
  <2>. DEFINE name == [x \in B |-> alias[x]]
  <2>1. name \in [B -> Nat] /\ B # {}
    BY <1>2
  <2>2. PICK c \in B : \A y \in B : name[c] <= name[y]
    <3>. HIDE DEF name, B
    <3>. QED  BY <2>1, LeastBy
  <2>. QED  BY <2>2
<1>. DEFINE C == {x \in B : alias[x] = alias[c]}
<1>4. PICK i \in C : \A y \in C : i <= y
  <2>1. C \in SUBSET Nat /\ C # {}
    BY <1>3
  <2>. HIDE DEF C
  <2>. QED  BY <2>1, LeastNumber
<1>5. /\ i \in S /\ cost[i] = cost[a] /\ quality[i] = quality[b] /\ alias[i] = alias[c]
  BY <1>4
<1>6. ASSUME NEW k \in S
      PROVE  /\ cost[i] <= cost[k]
             /\ cost[i] = cost[k] => quality[i] >= quality[k]
             /\ cost[i] = cost[k] /\ quality[i] = quality[k] => alias[i] <= alias[k]
             /\ cost[i] = cost[k] /\ quality[i] = quality[k] /\ alias[i] = alias[k] => i <= k
  BY <1>1, <1>2, <1>3, <1>4, <1>5
<1>7. /\ \A k \in S : cost[k] \in Nat /\ quality[k] \in Nat /\ alias[k] \in Nat /\ k \in Nat
  OBVIOUS
<1>. HIDE DEF A, B, C
<1>8. ASSUME NEW k \in S
      PROVE  /\ ~Ahead(cost, quality, alias, k, i)
             /\ k < i => Ahead(cost, quality, alias, i, k)
  <2>1. /\ cost[k] \in Nat /\ quality[k] \in Nat /\ alias[k] \in Nat /\ k \in Nat
        /\ cost[i] \in Nat /\ quality[i] \in Nat /\ alias[i] \in Nat /\ i \in Nat
    BY <1>5, <1>7
  <2>. QED  BY <2>1, <1>6 DEF Ahead
<1>. QED  BY <1>5, <1>8

-----------------------------------------------------------------------------
(* The figures of a sample.                                                *)

\* Shortfall squared is what the interval needs at q per cent.
Below(s, n, q) ==
  LET d == 100 * s - q * n IN d >= 0 /\ d * d >= CeilDiv(2401 * n * q * (100 - q), 625)

\* The bound is the greatest per cent that the sample is above.
LEMMA WilsonIsGreatest ==
  ASSUME NEW s \in Nat, NEW n \in Nat
  PROVE  /\ WilsonLower(s, n) \in 0..99 /\ Below(s, n, WilsonLower(s, n))
         /\ \A q \in 0..99 : Below(s, n, q) => q <= WilsonLower(s, n)
<1>. DEFINE Bounds == {q \in 0..99 : Below(s, n, q)}
<1>1. WilsonLower(s, n) = Max(Bounds)
  BY DEF WilsonLower, Below
<1>2. 0 \in Bounds
  <2>1. 0 * n = 0 /\ 100 * s - 0 = 100 * s /\ (100 * s) * (100 * s) \in Nat
    OBVIOUS
  <2>2. 2401 * n * 0 * (100 - 0) = 0 /\ CeilDiv(0, 625) = 0
    BY DEF CeilDiv
  <2>. QED  BY <2>1, <2>2 DEF Below
<1>3. Bounds \in SUBSET (0..99) /\ Bounds # {}
  BY <1>2
<1>. HIDE DEF Bounds
<1>4. Max(Bounds) \in Bounds /\ \A q \in Bounds : q <= Max(Bounds)
  BY <1>3, MaxIsGreatest
<1>. QED  BY <1>1, <1>4 DEF Bounds

\* The same without rounding.
Slack(s, n, q) == 100 * s - q * n
Spread(n, q) == n * q * (100 - q)
Reaches(d, m) == 625 * (d * d) >= 2401 * m

LEMMA BelowTells ==
  ASSUME NEW s \in Nat, NEW n \in Nat, NEW q \in 0..99
  PROVE  /\ Slack(s, n, q) \in Int /\ Spread(n, q) \in Nat
         /\ Below(s, n, q) <=> Slack(s, n, q) >= 0 /\ Reaches(Slack(s, n, q), Spread(n, q))
<1>. DEFINE d == 100 * s - q * n  a == 2401 * n * q * (100 - q)  m == n * q * (100 - q)
<1>1. d \in Int /\ m \in Nat
  <2>1. \A x, y \in Nat : x * y \in Nat
    OBVIOUS
  <2>2. n * q \in Nat /\ 100 - q \in Nat
    BY <2>1
  <2>. QED  BY <2>1, <2>2
<1>2. a = 2401 * m
  <2>1. \A x, y, z \in Int : 2401 * x * y * z = 2401 * (x * y * z)
    OBVIOUS
  <2>. QED  BY <2>1
<1>3. Below(s, n, q) <=> d >= 0 /\ d * d >= CeilDiv(a, 625)
  BY DEF Below
<1>4. a \in Nat /\ d * d \in Nat
  <2>1. \A x \in Int : x * x \in Nat
    OBVIOUS
  <2>. HIDE DEF a, d, m
  <2>. QED  BY <1>1, <1>2, <2>1
<1>5. d * d >= CeilDiv(a, 625) <=> 625 * (d * d) >= a
  <2>. HIDE DEF a, d
  <2>. DEFINE x == d * d
  <2>1. x \in Nat /\ 625 \in Nat \ {0}
    BY <1>4
  <2>. HIDE DEF x
  <2>2. CeilDiv(a, 625) \in Nat /\ 625 * CeilDiv(a, 625) >= a /\ (625 * x >= a => CeilDiv(a, 625) <= x)
    BY <1>4, <2>1, CeilDivLeast
  <2>3. x >= CeilDiv(a, 625) <=> 625 * x >= a
    BY <1>4, <2>1, <2>2
  <2>. QED  BY <2>3 DEF x
<1>. HIDE DEF a, d, m
<1>6. Below(s, n, q) <=> d >= 0 /\ 625 * (d * d) >= 2401 * m
  BY <1>2, <1>3, <1>5
<1>7. Slack(s, n, q) = d /\ Spread(n, q) = m
  BY DEF Slack, Spread, d, m
<1>. QED  BY <1>1, <1>6, <1>7 DEF Reaches

LEMMA SquaresGrow == \A x, y \in Nat : x <= y => x * x <= y * y
<1>. SUFFICES ASSUME NEW x \in Nat, NEW y \in Nat, x <= y  PROVE x * x <= y * y
  OBVIOUS
<1>1. PICK k \in Nat : y = x + k
  <2>1. y - x \in Nat /\ y = x + (y - x)
    OBVIOUS
  <2>. QED  BY <2>1
<1>2. y * y = x * x + 2 * (x * k) + k * k /\ x * k \in Nat /\ k * k \in Nat /\ x * x \in Nat
  BY <1>1
<1>. QED  BY <1>2

\* What stays below one sample stays below another that is not worse.
LEMMA BelowMoves ==
  ASSUME NEW s \in Nat, NEW n \in Nat \ {0}, NEW q \in 0..99
  PROVE  /\ Below(s, n + 1, q) => Below(s, n, q)
         /\ s <= n /\ Below(s, n, q) => Below(s + 1, n + 1, q)
         /\ Below(s, n, q) => Below(2 * s, 2 * n, q)
<1>. DEFINE d == 100 * s - q * n  r == 100 - q  p == q * r  m == n * p
<1>1. d \in Int /\ r \in 1..100 /\ p \in Nat /\ m \in Nat /\ q \in Nat
  <2>1. \A x, y \in Nat : x * y \in Nat
    OBVIOUS
  <2>2. r \in 1..100 /\ q \in Nat
    OBVIOUS
  <2>. HIDE DEF r
  <2>3. p \in Nat
    BY <2>1, <2>2
  <2>. QED  BY <2>1, <2>2, <2>3
<1>2. ASSUME NEW k \in Nat  PROVE Spread(k, q) = k * p
  <2>1. \A x, y, z \in Int : x * y * z = x * (y * z)
    OBVIOUS
  <2>. QED  BY <1>1, <2>1 DEF Spread
<1>3. Below(s, n, q) <=> d >= 0 /\ 625 * (d * d) >= 2401 * m
  <2>1. Slack(s, n, q) = d /\ Spread(n, q) = m
    BY <1>2 DEF Slack
  <2>. HIDE DEF d, m
  <2>2. Below(s, n, q) <=> d >= 0 /\ Reaches(d, m)
    BY <2>1, BelowTells
  <2>. QED  BY <2>2 DEF Reaches
<1>4. Below(s, n + 1, q) => Below(s, n, q)
  <2>. SUFFICES ASSUME Below(s, n + 1, q)  PROVE Below(s, n, q)
    OBVIOUS
  <2>. DEFINE e == 100 * s - q * (n + 1)
  <2>1. n + 1 \in Nat /\ Slack(s, n + 1, q) = e /\ Spread(n + 1, q) = (n + 1) * p
    BY <1>2 DEF Slack
  <2>2. e >= 0 /\ 625 * (e * e) >= 2401 * ((n + 1) * p)
    <3>. HIDE DEF e, p
    <3>1. Below(s, n + 1, q) <=> e >= 0 /\ Reaches(e, (n + 1) * p)
      BY <2>1, BelowTells
    <3>. QED  BY <3>1 DEF Reaches
  <2>3. d = e + q /\ (n + 1) * p = m + p
    <3>1. \A x \in Int : (n + 1) * x = n * x + x
      OBVIOUS
    <3>2. q * (n + 1) = q * n + q
      OBVIOUS
    <3>. QED  BY <1>1, <3>1, <3>2
  <2>4. e \in Nat
    BY <1>1, <2>2, <2>3
  <2>. HIDE DEF d, e, m, p
  <2>5. d \in Nat /\ e * e <= d * d
    BY <1>1, <2>3, <2>4, SquaresGrow
  <2>6. d * d \in Nat /\ e * e \in Nat
    BY <2>4, <2>5
  <2>. QED  BY <1>1, <1>3, <2>2, <2>3, <2>5, <2>6
<1>5. s <= n /\ Below(s, n, q) => Below(s + 1, n + 1, q)
  <2>. SUFFICES ASSUME s <= n, Below(s, n, q)  PROVE Below(s + 1, n + 1, q)
    OBVIOUS
  <2>. DEFINE e == 100 * (s + 1) - q * (n + 1)
  <2>1. s + 1 \in Nat /\ n + 1 \in Nat /\ Slack(s + 1, n + 1, q) = e /\ Spread(n + 1, q) = (n + 1) * p
    BY <1>2 DEF Slack
  <2>2. Below(s + 1, n + 1, q) <=> e >= 0 /\ 625 * (e * e) >= 2401 * ((n + 1) * p)
    <3>. HIDE DEF e, p
    <3>1. Below(s + 1, n + 1, q) <=> e >= 0 /\ Reaches(e, (n + 1) * p)
      BY <2>1, BelowTells
    <3>. QED  BY <3>1 DEF Reaches
  <2>3. e = d + r /\ (n + 1) * p = m + p
    <3>1. \A x \in Int : (n + 1) * x = n * x + x
      OBVIOUS
    <3>2. q * (n + 1) = q * n + q
      OBVIOUS
    <3>. QED  BY <1>1, <3>1, <3>2
  <2>4. d \in Nat /\ 625 * (d * d) >= 2401 * m
    BY <1>1, <1>3
  <2>5. d <= n * r
    <3>1. n * r = 100 * n - q * n
      OBVIOUS
    <3>2. q * n \in Nat
      BY <1>1
    <3>. QED  BY <3>1, <3>2
  <2>6. 625 * d >= 2401 * q
    <3>1. CASE d = 0
      <4>1. m = 0
        <5>. HIDE DEF d, m
        <5>. QED  BY <1>1, <2>4, <3>1
      <4>2. \A x, y \in Nat : x * y = 0 => x = 0 \/ y = 0
        OBVIOUS
      <4>3. q = 0
        <5>. HIDE DEF r
        <5>1. p = 0
          <6>. HIDE DEF p
          <6>. QED  BY <1>1, <4>1, <4>2
        <5>. QED  BY <1>1, <4>2, <5>1
      <4>. QED  BY <3>1, <4>3
    <3>2. CASE d > 0
      <4>1. m = q * (n * r)
        <5>1. \A x, y, z \in Int : x * (y * z) = y * (x * z)
          OBVIOUS
        <5>2. r \in Int
          BY <1>1
        <5>. HIDE DEF r
        <5>. QED  BY <1>1, <5>1, <5>2
      <4>2. \A w, x, y \in Nat : x <= y => w * x <= w * y
        <5>. SUFFICES ASSUME NEW w \in Nat, NEW x \in Nat, NEW y \in Nat, x <= y  PROVE w * x <= w * y
          OBVIOUS
        <5>1. PICK k \in Nat : y = x + k
          <6>1. y - x \in Nat /\ y = x + (y - x)
            OBVIOUS
          <6>. QED  BY <6>1
        <5>2. w * y = w * x + w * k /\ w * k \in Nat /\ w * x \in Nat
          BY <5>1
        <5>. QED  BY <5>2
      <4>3. n * r \in Nat
        <5>1. \A x, y \in Nat : x * y \in Nat
          OBVIOUS
        <5>. HIDE DEF r
        <5>. QED  BY <1>1, <5>1
      <4>4. q * d <= m
        <5>. HIDE DEF d, m, r
        <5>. QED  BY <1>1, <2>4, <2>5, <4>1, <4>2, <4>3
      <4>5. 625 * (d * d) >= 2401 * (q * d)
        <5>1. q * d \in Nat /\ d * d \in Nat
          <6>. HIDE DEF d
          <6>. QED  BY <1>1, <2>4
        <5>. HIDE DEF d, m
        <5>. QED  BY <1>1, <2>4, <4>4, <5>1
      <4>6. \A x, y, z \in Nat : z > 0 /\ x * z >= y * z => x >= y
        <5>. SUFFICES ASSUME NEW x \in Nat, NEW y \in Nat, NEW z \in Nat, z > 0, x < y  PROVE x * z < y * z
          OBVIOUS
        <5>1. PICK k \in Nat : y = x + 1 + k
          <6>1. y - (x + 1) \in Nat /\ y = x + 1 + (y - (x + 1))
            OBVIOUS
          <6>. QED  BY <6>1
        <5>2. y * z = x * z + z + k * z /\ k * z \in Nat /\ x * z \in Nat
          BY <5>1
        <5>. QED  BY <5>2
      <4>7. 625 * (d * d) = (625 * d) * d /\ 2401 * (q * d) = (2401 * q) * d
        BY <1>1
      <4>8. 625 * d \in Nat /\ 2401 * q \in Nat
        BY <1>1, <2>4
      <4>. HIDE DEF d
      <4>. QED  BY <2>4, <3>2, <4>5, <4>6, <4>7, <4>8
    <3>. QED  BY <2>4, <3>1, <3>2
  <2>7. 625 * (e * e) = 625 * (d * d) + 1250 * (d * r) + 625 * (r * r)
    <3>1. \A x, y \in Int : 625 * ((x + y) * (x + y)) = 625 * (x * x) + 1250 * (x * y) + 625 * (y * y)
      OBVIOUS
    <3>. HIDE DEF d, r, e
    <3>. QED  BY <1>1, <2>3, <3>1
  <2>8. 625 * (d * r) >= 2401 * p
    <3>1. PICK k \in Nat : 625 * d = 2401 * q + k
      <4>1. \A x, y \in Nat : x >= y => x - y \in Nat /\ x = y + (x - y)
        OBVIOUS
      <4>2. 625 * d \in Nat /\ 2401 * q \in Nat
        BY <1>1, <2>4
      <4>. HIDE DEF d
      <4>. QED  BY <2>6, <4>1, <4>2
    <3>2. \A x, y \in Int : 625 * (x * y) = (625 * x) * y
      OBVIOUS
    <3>3. \A x, y, z \in Int : (2401 * x + y) * z = 2401 * (x * z) + y * z
      OBVIOUS
    <3>4. \A x, y \in Nat : x * y \in Nat
      OBVIOUS
    <3>. HIDE DEF d, r
    <3>5. 625 * (d * r) = 2401 * p + k * r /\ k * r \in Nat
      BY <1>1, <3>1, <3>2, <3>3, <3>4
    <3>. HIDE DEF p
    <3>. QED  BY <1>1, <3>5
  <2>9. d * d \in Nat /\ d * r \in Nat /\ r * r \in Nat
    <3>1. \A x, y \in Nat : x * y \in Nat
      OBVIOUS
    <3>. HIDE DEF d, r
    <3>. QED  BY <1>1, <2>4, <3>1
  <2>. HIDE DEF d, r, e, m, p
  <2>. QED  BY <1>1, <2>2, <2>3, <2>4, <2>7, <2>8, <2>9
<1>6. Below(s, n, q) => Below(2 * s, 2 * n, q)
  <2>. SUFFICES ASSUME Below(s, n, q)  PROVE Below(2 * s, 2 * n, q)
    OBVIOUS
  <2>. DEFINE e == 100 * (2 * s) - q * (2 * n)
  <2>1. 2 * s \in Nat /\ 2 * n \in Nat /\ Slack(2 * s, 2 * n, q) = e /\ Spread(2 * n, q) = (2 * n) * p
    BY <1>2 DEF Slack
  <2>2. Below(2 * s, 2 * n, q) <=> e >= 0 /\ 625 * (e * e) >= 2401 * ((2 * n) * p)
    <3>. HIDE DEF e, p
    <3>1. Below(2 * s, 2 * n, q) <=> e >= 0 /\ Reaches(e, (2 * n) * p)
      BY <2>1, BelowTells
    <3>. QED  BY <3>1 DEF Reaches
  <2>3. e = 2 * d /\ (2 * n) * p = 2 * m
    <3>1. \A x \in Int : (2 * n) * x = 2 * (n * x)
      OBVIOUS
    <3>2. q * (2 * n) = 2 * (q * n) /\ q * n \in Int
      BY <1>1
    <3>. QED  BY <1>1, <3>1, <3>2
  <2>4. d \in Nat /\ 625 * (d * d) >= 2401 * m
    BY <1>1, <1>3
  <2>. HIDE DEF d, e, m, p
  <2>5. e * e = 4 * (d * d) /\ d * d \in Nat
    BY <2>3, <2>4
  <2>. QED  BY <1>1, <2>2, <2>3, <2>4, <2>5
<1>. QED  BY <1>4, <1>5, <1>6

\* The bound stays below the rate that was measured, and moves as it should.
LEMMA WilsonMoves ==
  ASSUME NEW n \in Nat \ {0}, NEW s \in 0..n
  PROVE  LET q == WilsonLower(s, n) IN
         /\ q * n <= 100 * s /\ (s > 0 => q * n < 100 * s)
         /\ WilsonLower(s, n + 1) <= q /\ q <= WilsonLower(s + 1, n + 1)
         /\ q <= WilsonLower(2 * s, 2 * n)
<1>. DEFINE q == WilsonLower(s, n)
<1>0. s \in Nat /\ n \in Nat /\ s + 1 \in Nat /\ n + 1 \in Nat /\ 2 * s \in Nat /\ 2 * n \in Nat /\ s <= n
  OBVIOUS
<1>1. q \in 0..99 /\ Below(s, n, q) /\ \A x \in 0..99 : Below(s, n, x) => x <= q
  BY <1>0, WilsonIsGreatest
<1>. HIDE DEF q
<1>2. 100 * s - q * n \in Nat /\ 625 * ((100 * s - q * n) * (100 * s - q * n)) >= 2401 * (n * q * (100 - q))
  <2>1. /\ Slack(s, n, q) \in Int /\ Slack(s, n, q) >= 0
        /\ Reaches(Slack(s, n, q), Spread(n, q))
    BY <1>0, <1>1, BelowTells
  <2>. QED  BY <2>1 DEF Slack, Spread, Reaches
<1>3. q * n <= 100 * s
  <2>1. q * n \in Int /\ 100 * s \in Int
    BY <1>1
  <2>. QED  BY <1>2, <2>1
<1>4. s > 0 => q * n < 100 * s
  <2>. SUFFICES ASSUME s > 0, 100 * s - q * n = 0  PROVE FALSE
    <3>1. q * n \in Int /\ 100 * s \in Int
      BY <1>1
    <3>. QED  BY <1>3, <3>1
  <2>1. n * q * (100 - q) = 0
    <3>1. n * q * (100 - q) \in Nat
      <4>1. Spread(n, q) \in Nat
        BY <1>0, <1>1, BelowTells
      <4>. QED  BY <4>1 DEF Spread
    <3>. QED  BY <1>2, <3>1
  <2>2. \A x, y \in Nat : x * y = 0 => x = 0 \/ y = 0
    OBVIOUS
  <2>3. n * q \in Nat /\ 100 - q \in Nat \ {0}
    BY <1>1
  <2>4. q = 0
    BY <1>0, <1>1, <2>1, <2>2, <2>3
  <2>. QED  BY <2>4
<1>5. WilsonLower(s, n + 1) <= q
  <2>1. WilsonLower(s, n + 1) \in 0..99 /\ Below(s, n + 1, WilsonLower(s, n + 1))
    BY <1>0, WilsonIsGreatest
  <2>. QED  BY <1>0, <1>1, <2>1, BelowMoves
<1>6. q <= WilsonLower(s + 1, n + 1)
  <2>1. Below(s + 1, n + 1, q)
    BY <1>0, <1>1, BelowMoves
  <2>. QED  BY <1>0, <1>1, <2>1, WilsonIsGreatest
<1>7. q <= WilsonLower(2 * s, 2 * n)
  <2>1. Below(2 * s, 2 * n, q)
    BY <1>0, <1>1, BelowMoves
  <2>. QED  BY <1>0, <1>1, <2>1, WilsonIsGreatest
<1>. QED  BY <1>3, <1>4, <1>5, <1>6, <1>7 DEF q

\* Which value has a rank: so many others are not greater, and not so many
\* are less.
LEMMA RankedTells ==
  ASSUME NEW D, IsFiniteSet(D), NEW values \in [D -> Nat], NEW rank \in 1..Cardinality(D)
  PROVE  LET v == Ranked(values, rank) IN
         /\ v \in Nat /\ \E x \in D : values[x] = v
         /\ Cardinality({j \in D : values[j] <= v}) >= rank
         /\ Cardinality({j \in D : values[j] < v}) < rank
<1>. DEFINE UpTo(v) == {j \in D : values[j] <= v}
            Good == {v \in Range(values) : Cardinality(UpTo(v)) >= rank}
<1>1. DOMAIN values = D /\ Range(values) \subseteq Nat
  BY DEF Range
<1>2. D # {} /\ Cardinality(D) \in Nat
  BY FS_EmptySet, FS_CardinalityType
<1>3. PICK x \in D : \A y \in D : values[y] <= values[x]
  BY <1>2, GreatestValue
<1>4. values[x] \in Good
  <2>1. UpTo(values[x]) = D
    BY <1>3
  <2>. QED  BY <1>1, <1>2, <2>1 DEF Range
<1>5. Good \in SUBSET Nat /\ Good # {}
  BY <1>1, <1>4
<1>6. Ranked(values, rank) = Min(Good)
  BY <1>1 DEF Ranked
<1>. DEFINE v == Ranked(values, rank)
<1>. HIDE DEF Good, v
<1>7. v \in Good /\ \A w \in Good : v <= w
  BY <1>5, <1>6, MinIsLeast DEF v
<1>8. v \in Nat /\ (\E y \in D : values[y] = v) /\ Cardinality(UpTo(v)) >= rank
  BY <1>1, <1>7 DEF Good, Range
<1>9. Cardinality({j \in D : values[j] < v}) < rank
  <2>. DEFINE Less == {j \in D : values[j] < v}
  <2>1. IsFiniteSet(Less) /\ Cardinality(Less) \in Nat
    BY FS_Subset, FS_CardinalityType
  <2>2. CASE Less = {}
    BY <2>1, <2>2, FS_EmptySet
  <2>3. CASE Less # {}
    <3>1. [j \in Less |-> values[j]] \in [Less -> Nat]
      OBVIOUS
    <3>2. PICK y \in Less : \A j \in Less : values[j] <= values[y]
      <4>. HIDE DEF Less
      <4>1. PICK y \in Less : \A j \in Less : [k \in Less |-> values[k]][j] <= [k \in Less |-> values[k]][y]
        BY <2>1, <2>3, <3>1, GreatestValue
      <4>. QED  BY <4>1
    <3>3. y \in D /\ values[y] < v /\ values[y] \in Nat
      BY <3>2
    <3>4. values[y] \notin Good
      BY <1>7, <1>8, <3>3
    <3>5. UpTo(values[y]) = Less
      BY <1>8, <3>2, <3>3
    <3>6. values[y] \in Range(values)
      BY <1>1, <3>3 DEF Range
    <3>. QED  BY <2>1, <3>4, <3>5, <3>6 DEF Good
  <2>. QED  BY <2>2, <2>3
<1>. QED  BY <1>8, <1>9 DEF v

\* The rank of the 95th percentile is one that there is.
LEMMA PercentileRank ==
  ASSUME NEW n \in Nat \ {0}
  PROVE  LET rank == Max({1, CeilDiv(95 * n, 100)}) IN
         rank \in 1..n /\ rank = CeilDiv(95 * n, 100)
<1>. DEFINE c == CeilDiv(95 * n, 100)
<1>1. c \in 1..n
  BY DEF CeilDiv
<1>. HIDE DEF c
<1>2. Max({1, c}) \in {1, c} /\ \A y \in {1, c} : y <= Max({1, c})
  <2>1. {1, c} \in SUBSET (0..n) /\ {1, c} # {}
    BY <1>1
  <2>. QED  BY <2>1, MaxIsGreatest
<1>3. Max({1, c}) = c
  BY <1>1, <1>2
<1>. QED  BY <1>1, <1>3 DEF c

\* The 95th percentile covers 95 values of 100, and no smaller number does.
LEMMA PercentileCovers ==
  ASSUME NEW D, IsFiniteSet(D), D # {}, NEW values \in [D -> Nat]
  PROVE  LET v == Percentile95(values) IN
         /\ v \in Nat
         /\ 100 * Cardinality({j \in D : values[j] <= v}) >= 95 * Cardinality(D)
         /\ 100 * Cardinality({j \in D : values[j] < v}) < 95 * Cardinality(D)
<1>. DEFINE n == Cardinality(D)  rank == CeilDiv(95 * n, 100)
<1>1. n \in Nat \ {0}
  BY FS_EmptySet, FS_CardinalityType
<1>2. rank \in 1..n /\ Percentile95(values) = Ranked(values, rank)
  <2>1. DOMAIN values = D
    OBVIOUS
  <2>. QED  BY <1>1, <2>1, PercentileRank DEF Percentile95
<1>3. 100 * rank >= 95 * n /\ \A x \in Nat : x < rank => 100 * x < 95 * n
  <2>1. 95 * n \in Nat /\ 100 \in Nat \ {0}
    BY <1>1
  <2>2. 100 * rank >= 95 * n /\ \A x \in Nat : 100 * x >= 95 * n => rank <= x
    BY <2>1, CeilDivLeast
  <2>3. 95 * n \in Nat /\ rank \in Nat
    BY <1>1, <1>2
  <2>. HIDE DEF rank, n
  <2>. QED  BY <2>2, <2>3
<1>4. \A T \in SUBSET D : Cardinality(T) \in Nat
  BY FS_Subset, FS_CardinalityType
<1>. HIDE DEF rank
<1>. DEFINE v == Ranked(values, rank)
            UpTo == {j \in D : values[j] <= v}
            Less == {j \in D : values[j] < v}
<1>5. v \in Nat /\ Cardinality(UpTo) >= rank /\ Cardinality(Less) < rank
  BY <1>2, RankedTells
<1>6. Cardinality(UpTo) \in Nat /\ Cardinality(Less) \in Nat
  BY <1>4
<1>7. 100 * Cardinality(UpTo) >= 95 * n /\ 100 * Cardinality(Less) < 95 * n
  <2>. HIDE DEF UpTo, Less, n
  <2>. QED  BY <1>1, <1>2, <1>3, <1>5, <1>6
<1>. QED  BY <1>2, <1>5, <1>7
=============================================================================
