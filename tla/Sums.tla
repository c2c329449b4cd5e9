-------------------------------- MODULE Sums --------------------------------
(***************************************************************************)
(* Facts about SumFunction and SumFunctionOnSet of module Functions, the   *)
(* totals of settlements and bookings.  They need induction over the       *)
(* summands; it is taken from a smallest set of summands that has not the  *)
(* wanted property.                                                        *)
(***************************************************************************)
EXTENDS Integers, FiniteSets, Functions, FiniteSetTheorems, WellFoundedInduction, TLAPS

-----------------------------------------------------------------------------
(* Induction over the subsets of a finite set.                             *)

Below == {p \in Nat \X Nat : p[1] < p[2]}

LEMMA LeastNatural ==
  ASSUME NEW T \in SUBSET Nat, T # {}
  PROVE  \E n \in T : \A m \in T : n <= m
<1>1. OpToRel(<, Nat) = Below
  BY Zenon DEF OpToRel, Below
<1>2. IsWellFoundedOn(Below, Nat)
  BY <1>1, NatLessThanWellFounded, Zenon
<1>3. PICK n \in T : \A m \in T : ~ (<<m, n>> \in Below)
  BY <1>2, WFMin
<1>4. ASSUME NEW m \in T PROVE n <= m
  <2>1. m \in Nat /\ n \in Nat
    OBVIOUS
  <2>2. m < n => <<m, n>> \in Below
    BY <2>1 DEF Below
  <2> QED BY <1>3, <2>1, <2>2
<1> QED BY <1>4

\* A property of sets holds of every subset of D if it holds of a set whenever
\* it holds of the set without any one of its elements.
LEMMA SubsetInduction ==
  ASSUME NEW D, IsFiniteSet(D), NEW G,
         \A s \in SUBSET D : (\A x \in s : s \ {x} \in G) => s \in G
  PROVE  \A s \in SUBSET D : s \in G
<1> SUFFICES ASSUME NEW u \in SUBSET D, u \notin G PROVE FALSE
  OBVIOUS
<1> DEFINE B == {s \in SUBSET D : s \notin G}
           T == {n \in Nat : \E s \in B : n = Cardinality(s)}
<1>1. \A s \in SUBSET D : IsFiniteSet(s) /\ Cardinality(s) \in Nat
  BY FS_Subset, FS_CardinalityType
<1>2. Cardinality(u) \in T
  BY <1>1
<1>3. PICK n \in T : \A m \in T : n <= m
  BY <1>2, LeastNatural
<1>4. PICK s \in B : n = Cardinality(s)
  OBVIOUS
<1>5. ASSUME NEW x \in s PROVE s \ {x} \in G
  <2>1. Cardinality(s \ {x}) = n - 1 /\ s \ {x} \in SUBSET D
    BY <1>1, <1>4, FS_RemoveElement
  <2>2. n \in Nat /\ ~(n <= n - 1)
    OBVIOUS
  <2>3. Cardinality(s \ {x}) \in Nat
    BY <1>1, <2>1
  <2> QED BY <1>3, <2>1, <2>2, <2>3
<1> QED BY <1>4, <1>5

\* A finite set of natural numbers has a largest element.
LEMMA LargestNatural ==
  ASSUME NEW S \in SUBSET Nat, IsFiniteSet(S), S # {}
  PROVE  \E m \in S : \A n \in S : n <= m
<1> DEFINE G == {s \in SUBSET S : s = {} \/ \E m \in s : \A n \in s : n <= m}
<1>1. ASSUME NEW s \in SUBSET S, \A x \in s : s \ {x} \in G
      PROVE  s \in G
  <2> SUFFICES ASSUME s # {} PROVE \E m \in s : \A n \in s : n <= m
    OBVIOUS
  <2>1. PICK x \in s : TRUE
    OBVIOUS
  <2>2. CASE s \ {x} = {}
    <3>1. \A n \in s : n = x
      BY <2>2
    <3> QED BY <3>1
  <2>3. CASE s \ {x} # {}
    <3>1. PICK m \in s \ {x} : \A n \in s \ {x} : n <= m
      BY <1>1, <2>3
    <3>2. \A n \in s : n \in Nat /\ (n = x \/ n <= m)
      BY <3>1
    <3>3. CASE x <= m
      BY <3>2, <3>3
    <3>4. CASE ~(x <= m)
      <4>1. \A n \in s : n <= x
        BY <3>1, <3>2, <3>4
      <4> QED BY <4>1
    <3> QED BY <3>3, <3>4
  <2> QED BY <2>2, <2>3
<1> HIDE DEF G
<1>2. \A s \in SUBSET S : s \in G
  BY <1>1, SubsetInduction
<1>3. S \in G
  BY <1>2
<1> QED BY <1>3 DEF G

-----------------------------------------------------------------------------
(* The sum satisfies the equation that defines it.                         *)

Pick(s) == CHOOSE x \in s : TRUE

Step(f, it, s) == IF s = {} THEN 0 ELSE f[Pick(s)] + it[s \ {Pick(s)}]

\* `it' adds up f over the sets of the family P.
Adds(f, it, P) == it = [s \in P |-> Step(f, it, s)]

LEMMA PickIn == ASSUME NEW s, s # {} PROVE Pick(s) \in s
  BY DEF Pick

LEMMA AddsExists ==
  ASSUME NEW D, IsFiniteSet(D), NEW f
  PROVE  \E it : Adds(f, it, SUBSET D)
<1> DEFINE P(n) == {s \in SUBSET D : Cardinality(s) <= n}
           T == {n \in Nat : ~\E it : Adds(f, it, P(n))}
<1>1. \A s \in SUBSET D : IsFiniteSet(s) /\ Cardinality(s) \in Nat
  BY FS_Subset, FS_CardinalityType
<1>2. ASSUME NEW n \in T, \A m \in T : n <= m
      PROVE  FALSE
  <2>1. CASE n = 0
    <3>1. \A s \in P(0) : s = {}
      BY <1>1, FS_EmptySet
    <3>2. Adds(f, [s \in P(0) |-> 0], P(0))
      BY <3>1 DEF Adds, Step
    <3> QED BY <2>1, <3>2
  <2>2. CASE n # 0
    <3>1. n \in Nat
      OBVIOUS
    <3>0. n - 1 \in Nat /\ ~(n <= n - 1)
      BY <2>2, <3>1
    <3>a. n - 1 \notin T
      <4> HIDE DEF T
      <4> QED BY <1>2, <3>0
    <3>2. PICK g : Adds(f, g, P(n - 1))
      <4> HIDE DEF P
      <4> QED BY <3>0, <3>a
    <3> DEFINE h == [s \in P(n) |-> Step(f, g, s)]
    <3>3. ASSUME NEW s \in P(n), s # {} PROVE h[s \ {Pick(s)}] = g[s \ {Pick(s)}]
      <4>1. Cardinality(s \ {Pick(s)}) = Cardinality(s) - 1 /\ s \ {Pick(s)} \in SUBSET D
        BY <1>1, <3>3, PickIn, FS_RemoveElement
      <4>2. s \ {Pick(s)} \in P(n - 1) /\ s \ {Pick(s)} \in P(n)
        BY <1>1, <4>1
      <4> HIDE DEF P
      <4> QED BY <3>2, <4>2 DEF Adds
    <3>4. \A s \in P(n) : Step(f, g, s) = Step(f, h, s)
      BY <3>3 DEF Step
    <3>5. Adds(f, h, P(n))
      BY <3>4 DEF Adds
    <3> QED BY <3>5
  <2> QED BY <2>1, <2>2
<1>3. T = {}
  BY <1>2, LeastNatural
<1>4. Cardinality(D) \in Nat /\ P(Cardinality(D)) = SUBSET D
  BY <1>1, FS_Subset, FS_CardinalityType
<1> HIDE DEF P
<1>5. \E it : Adds(f, it, P(Cardinality(D)))
  BY <1>3, <1>4
<1> QED BY <1>4, <1>5

LEMMA SumIsAdded ==
  ASSUME NEW S, IsFiniteSet(S), NEW f
  PROVE  \E it : Adds(f, it, SUBSET S) /\ SumFunctionOnSet(f, S) = it[S]
<1> DEFINE sum == CHOOSE it : it = [s \in SUBSET S |->
              IF s = {} THEN 0
              ELSE f[CHOOSE x \in s : TRUE] + it[s \ {CHOOSE x \in s : TRUE}]]
<1>1. SumFunctionOnSet(f, S) = sum[S]
  BY DEF SumFunctionOnSet, FoldFunctionOnSet, MapThenFoldSet
<1>2. sum = CHOOSE it : Adds(f, it, SUBSET S)
  BY DEF Adds, Step, Pick
<1> HIDE DEF sum
<1>3. Adds(f, sum, SUBSET S)
  BY <1>2, AddsExists
<1> QED BY <1>1, <1>3

\* What is added up over a set depends on the summands in it only.
LEMMA AddsSame ==
  ASSUME NEW S, NEW T \in SUBSET S, IsFiniteSet(T), NEW f, NEW g, NEW i, NEW j,
         Adds(f, i, SUBSET S), Adds(g, j, SUBSET T),
         \A x \in T : f[x] = g[x]
  PROVE  i[T] = j[T]
<1> DEFINE G == {u \in SUBSET T : i[u] = j[u]}
<1>1. ASSUME NEW u \in SUBSET T, \A x \in u : u \ {x} \in G
      PROVE  u \in G
  <2>1. i[u] = Step(f, i, u) /\ j[u] = Step(g, j, u)
    BY DEF Adds
  <2>2. CASE u = {}
    BY <2>1, <2>2 DEF Step
  <2>3. CASE u # {}
    <3>1. Pick(u) \in u
      BY <2>3, PickIn
    <3>2. i[u \ {Pick(u)}] = j[u \ {Pick(u)}] /\ f[Pick(u)] = g[Pick(u)]
      BY <1>1, <3>1
    <3> QED BY <2>1, <2>3, <3>2 DEF Step
  <2> QED BY <2>2, <2>3
<1>2. \A u \in SUBSET T : u \in G
  <2> HIDE DEF G
  <2> QED BY <1>1, SubsetInduction
<1> QED BY <1>2

LEMMA SumSame ==
  ASSUME NEW S, IsFiniteSet(S), NEW f, NEW g, \A x \in S : f[x] = g[x]
  PROVE  SumFunctionOnSet(f, S) = SumFunctionOnSet(g, S)
<1>1. PICK i : Adds(f, i, SUBSET S) /\ SumFunctionOnSet(f, S) = i[S]
  BY SumIsAdded
<1>2. PICK j : Adds(g, j, SUBSET S) /\ SumFunctionOnSet(g, S) = j[S]
  BY SumIsAdded
<1>3. i[S] = j[S]
  BY <1>1, <1>2, AddsSame
<1> QED BY <1>1, <1>2, <1>3

LEMMA SumEmpty ==
  ASSUME NEW f
  PROVE  SumFunctionOnSet(f, {}) = 0
<1>1. PICK i : Adds(f, i, SUBSET {}) /\ SumFunctionOnSet(f, {}) = i[{}]
  BY SumIsAdded, FS_EmptySet
<1> QED BY <1>1 DEF Adds, Step

LEMMA SumPick ==
  ASSUME NEW S, IsFiniteSet(S), S # {}, NEW f
  PROVE  SumFunctionOnSet(f, S) = f[Pick(S)] + SumFunctionOnSet(f, S \ {Pick(S)})
<1> DEFINE R == S \ {Pick(S)}
<1>1. IsFiniteSet(R)
  BY FS_RemoveElement
<1>2. PICK i : Adds(f, i, SUBSET S) /\ SumFunctionOnSet(f, S) = i[S]
  BY SumIsAdded
<1>3. PICK j : Adds(f, j, SUBSET R) /\ SumFunctionOnSet(f, R) = j[R]
  BY <1>1, SumIsAdded
<1>4. i[R] = j[R]
  <2>1. R \in SUBSET S /\ \A x \in R : f[x] = f[x]
    OBVIOUS
  <2> HIDE DEF R
  <2> QED BY <1>1, <1>2, <1>3, <2>1, AddsSame
<1>5. i[S] = Step(f, i, S)
  BY <1>2 DEF Adds
<1> QED BY <1>2, <1>3, <1>4, <1>5 DEF Step
-----------------------------------------------------------------------------
(* The laws of sums.                                                       *)

LEMMA SumInt ==
  ASSUME NEW S, IsFiniteSet(S), NEW f, \A x \in S : f[x] \in Int
  PROVE  SumFunctionOnSet(f, S) \in Int
<1> DEFINE G == {s \in SUBSET S : SumFunctionOnSet(f, s) \in Int}
<1>1. ASSUME NEW s \in SUBSET S, \A x \in s : s \ {x} \in G
      PROVE  s \in G
  <2>1. CASE s = {}
    <3>1. SumFunctionOnSet(f, {}) = 0
      BY SumEmpty
    <3> QED BY <2>1, <3>1
  <2>2. CASE s # {}
    <3>1. SumFunctionOnSet(f, s) = f[Pick(s)] + SumFunctionOnSet(f, s \ {Pick(s)})
      BY <2>2, SumPick, FS_Subset
    <3>2. Pick(s) \in s
      BY <2>2, PickIn
    <3> QED BY <1>1, <3>1, <3>2
  <2> QED BY <2>1, <2>2
<1>2. \A s \in SUBSET S : s \in G
  <2> HIDE DEF G
  <2> QED BY <1>1, SubsetInduction
<1> QED BY <1>2

\* Any summand may be taken out of a sum first.
LEMMA SumTakeOut ==
  ASSUME NEW S, IsFiniteSet(S), NEW f, \A x \in S : f[x] \in Int
  PROVE  \A x \in S : SumFunctionOnSet(f, S) = f[x] + SumFunctionOnSet(f, S \ {x})
<1> DEFINE sum(s) == SumFunctionOnSet(f, s)
           G == {s \in SUBSET S : \A x \in s : sum(s) = f[x] + sum(s \ {x})}
<1>0. \A s \in SUBSET S : sum(s) \in Int
  BY SumInt, FS_Subset
<1>1. ASSUME NEW s \in SUBSET S, \A x \in s : s \ {x} \in G
      PROVE  s \in G
  <2> SUFFICES ASSUME NEW x \in s PROVE sum(s) = f[x] + sum(s \ {x})
    OBVIOUS
  <2> DEFINE p == Pick(s)
  <2>1. p \in s
    BY PickIn
  <2>2. sum(s) = f[p] + sum(s \ {p})
    BY SumPick, FS_Subset
  <2> HIDE DEF sum, p
  <2>3. CASE x = p
    BY <2>2, <2>3
  <2>4. CASE x # p
    <3> DEFINE r == (s \ {x}) \ {p}
    <3>1. sum(s \ {p}) = f[x] + sum((s \ {p}) \ {x})
      BY <1>1, <2>1, <2>4
    <3>2. sum(s \ {x}) = f[p] + sum(r)
      BY <1>1, <2>1, <2>4
    <3>3. (s \ {p}) \ {x} = r
      OBVIOUS
    <3>4. sum(r) \in Int /\ f[x] \in Int /\ f[p] \in Int
      BY <1>0, <2>1
    <3> HIDE DEF r
    <3>5. sum(s) = f[p] + (f[x] + sum(r)) /\ sum(s \ {x}) = f[p] + sum(r)
      BY <2>2, <3>1, <3>2, <3>3
    <3> QED BY <3>4, <3>5
  <2> QED BY <2>3, <2>4
<1>2. \A s \in SUBSET S : s \in G
  <2> HIDE DEF G
  <2> QED BY <1>1, SubsetInduction
<1> QED BY <1>2

\* The sum of sums.
LEMMA SumPlus ==
  ASSUME NEW S, IsFiniteSet(S), NEW f, NEW g, NEW h,
         \A x \in S : f[x] \in Int /\ g[x] \in Int /\ h[x] = f[x] + g[x]
  PROVE  SumFunctionOnSet(h, S) = SumFunctionOnSet(f, S) + SumFunctionOnSet(g, S)
<1> DEFINE F(s) == SumFunctionOnSet(f, s)
           H(s) == SumFunctionOnSet(h, s)
           K(s) == SumFunctionOnSet(g, s)
           G == {s \in SUBSET S : H(s) = F(s) + K(s)}
<1>0. \A s \in SUBSET S : F(s) \in Int /\ K(s) \in Int
  BY SumInt, FS_Subset
<1>1. ASSUME NEW s \in SUBSET S, \A x \in s : s \ {x} \in G
      PROVE  s \in G
  <2>1. CASE s = {}
    <3>1. F({}) = 0 /\ K({}) = 0 /\ H({}) = 0
      BY SumEmpty
    <3> QED BY <2>1, <3>1
  <2>2. CASE s # {}
    <3> DEFINE p == Pick(s)  r == s \ {p}
    <3>1. p \in s
      BY <2>2, PickIn
    <3>2. F(s) = f[p] + F(r) /\ K(s) = g[p] + K(r) /\ H(s) = h[p] + H(r)
      BY <2>2, SumPick, FS_Subset
    <3>3. F(r) \in Int /\ K(r) \in Int /\ f[p] \in Int /\ g[p] \in Int
      BY <1>0, <3>1
    <3>4. H(r) = F(r) + K(r) /\ h[p] = f[p] + g[p]
      BY <1>1, <3>1
    <3> HIDE DEF F, H, K, p, r
    <3>5. H(s) = F(s) + K(s)
      BY <3>2, <3>3, <3>4
    <3> QED BY <3>5
  <2> QED BY <2>1, <2>2
<1>2. \A s \in SUBSET S : s \in G
  <2> HIDE DEF G
  <2> QED BY <1>1, SubsetInduction
<1> QED BY <1>2

\* Larger summands have a larger sum.
LEMMA SumAtMost ==
  ASSUME NEW S, IsFiniteSet(S), NEW f, NEW g,
         \A x \in S : f[x] \in Int /\ g[x] \in Int /\ f[x] <= g[x]
  PROVE  SumFunctionOnSet(f, S) <= SumFunctionOnSet(g, S)
<1> DEFINE F(s) == SumFunctionOnSet(f, s)
           K(s) == SumFunctionOnSet(g, s)
           G == {s \in SUBSET S : F(s) <= K(s)}
<1>0. \A s \in SUBSET S : F(s) \in Int /\ K(s) \in Int
  BY SumInt, FS_Subset
<1>1. ASSUME NEW s \in SUBSET S, \A x \in s : s \ {x} \in G
      PROVE  s \in G
  <2>1. CASE s = {}
    <3>1. F({}) = 0 /\ K({}) = 0
      BY SumEmpty
    <3> QED BY <2>1, <3>1
  <2>2. CASE s # {}
    <3> DEFINE p == Pick(s)  r == s \ {p}
    <3>1. p \in s
      BY <2>2, PickIn
    <3>2. F(s) = f[p] + F(r) /\ K(s) = g[p] + K(r)
      BY <2>2, SumPick, FS_Subset
    <3>3. F(r) \in Int /\ K(r) \in Int /\ f[p] \in Int /\ g[p] \in Int
      BY <1>0, <3>1
    <3>4. F(r) <= K(r) /\ f[p] <= g[p]
      BY <1>1, <3>1
    <3> HIDE DEF F, K, p, r
    <3>5. F(s) <= K(s)
      BY <3>2, <3>3, <3>4
    <3> QED BY <3>5
  <2> QED BY <2>1, <2>2
<1>2. \A s \in SUBSET S : s \in G
  <2> HIDE DEF G
  <2> QED BY <1>1, SubsetInduction
<1> QED BY <1>2

LEMMA SumZero ==
  ASSUME NEW S, IsFiniteSet(S), NEW f, \A x \in S : f[x] = 0
  PROVE  SumFunctionOnSet(f, S) = 0
<1> DEFINE t == SumFunctionOnSet(f, S)
<1>0. \A x \in S : f[x] \in Int /\ f[x] = f[x] + f[x]
  OBVIOUS
<1>1. t = t + t
  BY <1>0, SumPlus
<1>2. t \in Int
  BY <1>0, SumInt
<1> HIDE DEF t
<1>3. t = 0
  BY <1>1, <1>2
<1> QED BY <1>3 DEF t

\* No summand exceeds the sum where none is negative.
LEMMA SumCovers ==
  ASSUME NEW S, IsFiniteSet(S), NEW f, \A x \in S : f[x] \in Nat
  PROVE  /\ SumFunctionOnSet(f, S) \in Nat
         /\ \A x \in S : f[x] <= SumFunctionOnSet(f, S)
<1>1. ASSUME NEW s \in SUBSET S
      PROVE  SumFunctionOnSet(f, s) \in Nat
  <2> DEFINE z == [x \in s |-> 0]
  <2>1. IsFiniteSet(s) /\ \A x \in s : z[x] = 0 /\ f[x] \in Int /\ z[x] \in Int /\ z[x] <= f[x]
    BY FS_Subset
  <2> HIDE DEF z
  <2>2. SumFunctionOnSet(z, s) = 0 /\ SumFunctionOnSet(f, s) \in Int
    BY <2>1, SumZero, SumInt
  <2>3. SumFunctionOnSet(z, s) <= SumFunctionOnSet(f, s)
    BY <2>1, SumAtMost
  <2> QED BY <2>2, <2>3
<1>2. ASSUME NEW x \in S
      PROVE  f[x] <= SumFunctionOnSet(f, S)
  <2>1. SumFunctionOnSet(f, S) = f[x] + SumFunctionOnSet(f, S \ {x})
    BY SumTakeOut
  <2>2. SumFunctionOnSet(f, S \ {x}) \in Nat /\ f[x] \in Nat
    BY <1>1
  <2> QED BY <2>1, <2>2
<1> QED BY <1>1, <1>2

\* One summand changes.
LEMMA SumChange ==
  ASSUME NEW S, IsFiniteSet(S), NEW f, NEW g, NEW e \in S,
         \A x \in S : f[x] \in Int /\ g[x] \in Int,
         \A x \in S \ {e} : f[x] = g[x]
  PROVE  SumFunctionOnSet(g, S) = SumFunctionOnSet(f, S) + (g[e] - f[e])
<1>1. IsFiniteSet(S \ {e})
  BY FS_RemoveElement
<1>2. /\ SumFunctionOnSet(g, S) = g[e] + SumFunctionOnSet(g, S \ {e})
      /\ SumFunctionOnSet(f, S) = f[e] + SumFunctionOnSet(f, S \ {e})
  BY SumTakeOut
<1>3. SumFunctionOnSet(g, S \ {e}) = SumFunctionOnSet(f, S \ {e})
  BY <1>1, SumSame
<1>4. SumFunctionOnSet(f, S \ {e}) \in Int
  BY <1>1, SumInt
<1> QED BY <1>2, <1>3, <1>4

\* One summand only.
LEMMA SumOfOne ==
  ASSUME NEW S, IsFiniteSet(S), NEW f, NEW e \in S, f[e] \in Int,
         \A x \in S \ {e} : f[x] = 0
  PROVE  SumFunctionOnSet(f, S) = f[e]
<1>1. SumFunctionOnSet(f, S) = f[e] + SumFunctionOnSet(f, S \ {e})
  BY SumTakeOut
<1>2. SumFunctionOnSet(f, S \ {e}) = 0
  BY FS_RemoveElement, SumZero
<1> QED BY <1>1, <1>2

\* Summands of zero may be left out.
LEMMA SumOverPart ==
  ASSUME NEW S, IsFiniteSet(S), NEW T \in SUBSET S, NEW f,
         \A x \in S : f[x] \in Int, \A x \in S \ T : f[x] = 0
  PROVE  SumFunctionOnSet(f, S) = SumFunctionOnSet(f, T)
<1> DEFINE sum(s) == SumFunctionOnSet(f, s)
           G == {s \in SUBSET S : sum(s) = sum(s \cap T)}
<1>1. ASSUME NEW s \in SUBSET S, \A x \in s : s \ {x} \in G
      PROVE  s \in G
  <2>1. CASE s = {}
    <3>1. s \cap T = s
      BY <2>1
    <3> QED BY <3>1
  <2>2. CASE s # {}
    <3> DEFINE p == Pick(s)  r == s \ {p}
    <3>1. p \in s /\ r \in SUBSET S
      BY <2>2, PickIn
    <3>2. sum(s) = f[p] + sum(r) /\ sum(r) \in Int /\ sum(r) = sum(r \cap T)
      BY <1>1, <2>2, <3>1, SumPick, SumInt, FS_Subset
    <3> HIDE DEF p
    <3>3. CASE p \in T
      <4>1. sum(s \cap T) = f[p] + sum((s \cap T) \ {p})
        BY <3>1, <3>3, SumTakeOut, FS_Subset
      <4>2. (s \cap T) \ {p} = r \cap T
        OBVIOUS
      <4> QED BY <3>2, <4>1, <4>2
    <3>4. CASE p \notin T
      <4>1. s \cap T = r \cap T /\ f[p] = 0
        BY <3>1, <3>4
      <4>2. sum(s \cap T) = sum(r \cap T)
        BY <4>1
      <4> HIDE DEF sum, r
      <4>3. sum(s) = sum(s \cap T)
        BY <3>2, <4>1, <4>2
      <4> QED BY <4>3
    <3> QED BY <3>3, <3>4
  <2> QED BY <2>1, <2>2
<1>2. \A s \in SUBSET S : s \in G
  <2> HIDE DEF G
  <2> QED BY <1>1, SubsetInduction
<1>3. S \cap T = T
  OBVIOUS
<1> QED BY <1>2, <1>3

\* A table has one total, by rows or by columns.
LEMMA SumByRowsOrColumns ==
  ASSUME NEW S, IsFiniteSet(S), NEW T, IsFiniteSet(T), NEW f,
         \A x \in S, y \in T : f[x][y] \in Int
  PROVE  SumFunctionOnSet([x \in S |-> SumFunctionOnSet(f[x], T)], S)
           = SumFunctionOnSet([y \in T |-> SumFunctionOnSet([x \in S |-> f[x][y]], S)], T)
<1> DEFINE row == [x \in S |-> SumFunctionOnSet(f[x], T)]
           col(y) == [x \in S |-> f[x][y]]
           cols(s) == [y \in T |-> SumFunctionOnSet(col(y), s)]
           G == {s \in SUBSET S : SumFunctionOnSet(row, s) = SumFunctionOnSet(cols(s), T)}
<1>0. /\ \A x \in S : row[x] = SumFunctionOnSet(f[x], T)
      /\ \A x \in S, y \in T : col(y)[x] = f[x][y]
      /\ \A s \in SUBSET S : \A y \in T : cols(s)[y] = SumFunctionOnSet(col(y), s)
  OBVIOUS
<1>1. ASSUME NEW s \in SUBSET S, \A x \in s : s \ {x} \in G
      PROVE  s \in G
  <2>0. IsFiniteSet(s)
    BY FS_Subset
  <2>1. CASE s = {}
    <3> HIDE DEF row, col, cols
    <3>1. \A y \in T : cols(s)[y] = 0
      BY <1>0, <2>1, SumEmpty
    <3>2. SumFunctionOnSet(cols(s), T) = 0 /\ SumFunctionOnSet(row, s) = 0
      BY <2>1, <3>1, SumZero, SumEmpty
    <3> QED BY <3>2
  <2>2. CASE s # {}
    <3> DEFINE p == Pick(s)  r == s \ {p}
    <3>1. p \in s /\ p \in S /\ r \in SUBSET S /\ r \in G
      BY <1>1, <2>2, PickIn
    <3> HIDE DEF row, col, cols
    <3>2. SumFunctionOnSet(row, s) = SumFunctionOnSet(f[p], T) + SumFunctionOnSet(row, r)
      BY <1>0, <2>0, <2>2, <3>1, SumPick
    <3>3. \A y \in T : cols(s)[y] = f[p][y] + cols(r)[y]
      <4> TAKE y \in T
      <4>1. SumFunctionOnSet(col(y), s) = col(y)[p] + SumFunctionOnSet(col(y), r)
        BY <2>0, <2>2, SumPick
      <4> QED BY <1>0, <3>1, <4>1
    <3>4. \A y \in T : f[p][y] \in Int /\ cols(r)[y] \in Int
      <4> TAKE y \in T
      <4>1. IsFiniteSet(r) /\ \A x \in r : col(y)[x] \in Int
        BY <1>0, <3>1, FS_Subset
      <4>2. SumFunctionOnSet(col(y), r) \in Int
        BY <4>1, SumInt
      <4> QED BY <1>0, <3>1, <4>2
    <3>5. SumFunctionOnSet(cols(s), T)
            = SumFunctionOnSet(f[p], T) + SumFunctionOnSet(cols(r), T)
      BY <3>3, <3>4, SumPlus
    <3> QED BY <3>1, <3>2, <3>5
  <2> QED BY <2>1, <2>2
<1>2. \A s \in SUBSET S : s \in G
  <2> HIDE DEF G
  <2> QED BY <1>1, SubsetInduction
<1> QED BY <1>2
=============================================================================
