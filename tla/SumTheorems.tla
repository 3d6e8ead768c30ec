----------------------------- MODULE SumTheorems -----------------------------
(***************************************************************************)
(* How Total changes when a function changes at one place, grows by one    *)
(* place, or vanishes.  The whole argument is about disjoint sets of       *)
(* units; no induction is used.                                            *)
(***************************************************************************)
EXTENDS Sums, FiniteSetTheorems, TLAPS

\* The units counted at place x.
At(f, x) == {x} \X (1..f[x])

\* n units at one place are n units.
LEMMA AtCardinality ==
    ASSUME NEW S, NEW f \in [S -> Nat], NEW x \in S
    PROVE  IsFiniteSet(At(f, x)) /\ Cardinality(At(f, x)) = f[x]
<1> DEFINE pair == [n \in 1..f[x] |-> <<x, n>>]
<1>1. pair \in Bijection(1..f[x], At(f, x))
  <2>1. pair \in [1..f[x] -> At(f, x)]
    BY DEF At
  <2>2. \A m, n \in 1..f[x] : pair[m] = pair[n] => m = n
    OBVIOUS
  <2>3. \A u \in At(f, x) : \E n \in 1..f[x] : pair[n] = u
    BY DEF At
  <2> QED
    BY <2>1, <2>2, <2>3 DEF Bijection, Injection, Surjection, IsInjective
<1>2. ExistsBijection(1..f[x], At(f, x))
  BY <1>1 DEF ExistsBijection
<1>3. IsFiniteSet(1..f[x]) /\ Cardinality(1..f[x]) = f[x]
  BY FS_Interval
<1> QED
  BY <1>2, <1>3, FS_Bijection

\* A function on a finite set counts finitely many units.
LEMMA TotalType ==
    ASSUME NEW S, IsFiniteSet(S), NEW f \in [S -> Nat]
    PROVE  IsFiniteSet(Units(f)) /\ Total(f) \in Nat
<1> DEFINE all == {At(f, x) : x \in S}
           at  == [x \in S |-> At(f, x)]
<1>1. at \in Surjection(S, all)
  BY DEF Surjection
<1>2. IsFiniteSet(all)
  BY <1>1, FS_Surjection
<1>3. \A T \in all : IsFiniteSet(T)
  BY AtCardinality
<1>4. Units(f) = UNION all
  BY DEF Units, At
<1>5. IsFiniteSet(Units(f))
  BY <1>2, <1>3, <1>4, FS_UNION
<1> QED
  BY <1>5, FS_CardinalityType DEF Total

\* The units elsewhere than at x.
Elsewhere(f, x) == Units(f) \ At(f, x)

\* A total is what is counted at x and what is counted elsewhere.
LEMMA TotalSplit ==
    ASSUME NEW S, IsFiniteSet(S), NEW f \in [S -> Nat], NEW x \in S
    PROVE  /\ Cardinality(Elsewhere(f, x)) \in Nat
           /\ Total(f) = Cardinality(Elsewhere(f, x)) + f[x]
<1>1. IsFiniteSet(Units(f)) /\ Total(f) \in Nat
  BY TotalType
<1>2. At(f, x) \subseteq Units(f)
  BY DEF Units, At
<1>3. Units(f) \cap At(f, x) = At(f, x)
  BY <1>2
<1>4. Cardinality(At(f, x)) = f[x]
  BY AtCardinality
<1>5. /\ IsFiniteSet(Elsewhere(f, x))
      /\ Cardinality(Elsewhere(f, x)) = Total(f) - Cardinality(At(f, x))
  BY <1>1, <1>3, FS_Difference DEF Elsewhere, Total
<1>6. Cardinality(Elsewhere(f, x)) \in Nat
  BY <1>5, FS_CardinalityType
<1> QED
  BY <1>1, <1>4, <1>5, <1>6

\* No summand exceeds the total.
LEMMA TotalBound ==
    ASSUME NEW S, IsFiniteSet(S), NEW f \in [S -> Nat], NEW x \in S
    PROVE  f[x] <= Total(f)
BY TotalSplit

\* Two functions that agree except at x differ by what they count there.
LEMMA TotalUpdate ==
    ASSUME NEW S, IsFiniteSet(S), NEW f \in [S -> Nat], NEW g \in [S -> Nat], NEW x \in S,
           \A y \in S \ {x} : g[y] = f[y]
    PROVE  Total(g) = Total(f) - f[x] + g[x]
<1>1. Elsewhere(f, x) = Elsewhere(g, x)
  BY DEF Elsewhere, Units, At
<1> QED
  BY <1>1, TotalSplit

\* A function with one place more counts what is there in addition.
LEMMA TotalExtend ==
    ASSUME NEW S, IsFiniteSet(S), NEW x, x \notin S,
           NEW f \in [S -> Nat], NEW g \in [S \cup {x} -> Nat],
           \A y \in S : g[y] = f[y]
    PROVE  Total(g) = Total(f) + g[x]
<1>1. IsFiniteSet(S \cup {x})
  BY FS_AddElement
<1>2. Elsewhere(g, x) = Units(f)
  BY DEF Elsewhere, Units, At
<1> QED
  BY <1>1, <1>2, TotalSplit, TotalType DEF Total

\* Nothing anywhere makes nothing in total.
LEMMA TotalZero ==
    ASSUME NEW f, \A x \in DOMAIN f : f[x] = 0
    PROVE  Total(f) = 0
<1>1. Units(f) = {}
  BY DEF Units
<1> QED
  BY <1>1, FS_EmptySet DEF Total
=============================================================================
