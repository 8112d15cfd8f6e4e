------------------------- MODULE CoverageScoringProofs -------------------------
(***************************************************************************)
(* What holds of the algorithm of CoverageScoring for any number of        *)
(* safeguards, any texts, risks, scale and clock, and any floating point   *)
(* numbers that satisfy FloatsAssumption.                                  *)
(*                                                                         *)
(* Lists are data, and what is said of all of them needs an induction.     *)
(* The proofs get it from the least number of a set: LeastNumber, and      *)
(* Induction over a set S of the numbers for which the claim holds.        *)
(***************************************************************************)
EXTENDS CoverageScoring, SequenceTheorems, FiniteSetTheorems, FunctionTheorems,
        WellFoundedInduction, TLAPS

-----------------------------------------------------------------------------
(* Numbers, products and orders.                                           *)

\* A set of numbers has a least one: by it, properties of all numbers are proved.
LEMMA LeastNumber ==
  ASSUME NEW S \in SUBSET Nat, S # {}
  PROVE  \E least \in S : \A n \in S : least <= n
<1>1. PICK least \in S : \A n \in S : ~(<<n, least>> \in OpToRel(<, Nat))
  BY NatLessThanWellFounded, WFMin
<1>2. \A n \in S : ~(n < least)
  BY <1>1 DEF OpToRel
<1> QED BY <1>2

\* What holds of 0 and of each number up to n after its predecessor holds up to n.
LEMMA Induction ==
  ASSUME NEW n \in Nat, NEW S, 0 \in S, \A i \in 1..n : i - 1 \in S => i \in S
  PROVE  \A i \in 0..n : i \in S
<1> DEFINE T == {i \in 0..n : i \notin S}
<1> SUFFICES ASSUME T # {} PROVE FALSE
  OBVIOUS
<1>1. T \in SUBSET Nat
  OBVIOUS
<1>2. PICK m \in T : \A k \in T : m <= k
  <2> HIDE DEF T
  <2> QED BY <1>1, LeastNumber
<1>3. m \in 1..n /\ m - 1 \in 0..n /\ m - 1 \notin T
  BY <1>2
<1> QED BY <1>3

\* Rounding up, in whole numbers.
LEMMA Ceiling ==
  ASSUME NEW a \in Nat, NEW w \in Nat \ {0}
  PROVE  LET q == (a + w - 1) \div w IN
         q \in Nat /\ q * w >= a /\ (q - 1) * w < a
<1> DEFINE x == a + w - 1
           q == x \div w
<1>1. x \in Nat
  OBVIOUS
<1> HIDE DEF x
<1>2. q \in Nat /\ q * w <= x /\ x < q * w + w
  BY <1>1
<1> HIDE DEF q
<1>3. q * w \in Nat /\ (q - 1) * w = q * w - w
  BY <1>2
<1>4. q * w >= a /\ (q - 1) * w < a
  BY <1>2, <1>3 DEF x
<1> QED BY <1>2, <1>4 DEF q, x

LEMMA LessByFactor ==
  ASSUME NEW b \in Int, NEW c \in Int, NEW w \in Nat \ {0}, b * w < c * w
  PROVE  b < c
OBVIOUS

LEMMA AtMostByFactor ==
  ASSUME NEW b \in Nat, NEW c \in Nat, NEW w \in Nat, b <= c
  PROVE  b * w <= c * w
OBVIOUS

\* What is left of the days when each safeguard takes its share of them.
Product(factors) ==
  LET upto[n \in 0..Len(factors)] == IF n = 0 THEN 1 ELSE upto[n - 1] * factors[n] IN
  upto[Len(factors)]

Whole(safeguards) == Product([n \in DOMAIN safeguards |-> Scale])
Remaining(safeguards) ==
  Product([n \in DOMAIN safeguards |-> Scale - safeguards[n].effectiveness])

\* The partial products of a sequence of numbers.
IsProductOf(f, n, factors) ==
  /\ f \in [0..n -> Nat]
  /\ f[0] = 1
  /\ \A i \in 1..n : f[i] = f[i - 1] * factors[i]

\* A sequence of numbers has partial products.
LEMMA PartialProducts ==
  ASSUME NEW n \in Nat, NEW factors \in [1..n -> Nat]
  PROVE  \E f : IsProductOf(f, n, factors)
<1> DEFINE S == {m \in 0..n : \E f : IsProductOf(f, m, factors)}
<1>1. 0 \in S
  <2>1. IsProductOf([i \in 0..0 |-> 1], 0, factors)
    BY DEF IsProductOf
  <2> QED BY <2>1
<1>2. ASSUME NEW m \in 1..n, m - 1 \in S PROVE m \in S
  <2>1. PICK f : IsProductOf(f, m - 1, factors)
    BY <1>2
  <2> DEFINE g == [i \in 0..m |-> IF i = m THEN f[m - 1] * factors[m] ELSE f[i]]
  <2>2. factors[m] \in Nat /\ f \in [0..(m - 1) -> Nat] /\ f[m - 1] \in Nat
    BY <2>1 DEF IsProductOf
  <2>3. f[m - 1] * factors[m] \in Nat
    BY <2>2
  <2>4. g \in [0..m -> Nat]
    BY <2>2, <2>3
  <2>5. \A i \in 1..m : g[i] = g[i - 1] * factors[i]
    <3> SUFFICES ASSUME NEW i \in 1..m PROVE g[i] = g[i - 1] * factors[i]
      OBVIOUS
    <3>1. CASE i = m
      BY <3>1
    <3>2. CASE i # m
      BY <2>1, <3>2 DEF IsProductOf
    <3> QED BY <3>1, <3>2
  <2>6. IsProductOf(g, m, factors)
    BY <2>1, <2>4, <2>5 DEF IsProductOf
  <2> QED BY <2>6
<1>3. n \in 0..n
  OBVIOUS
<1> HIDE DEF S
<1>4. n \in S
  BY <1>1, <1>2, <1>3, Induction
<1> QED BY <1>4 DEF S

\* Product is the last of the partial products.
LEMMA ProductIs ==
  ASSUME NEW n \in Nat, NEW factors \in [1..n -> Nat]
  PROVE  \E f : IsProductOf(f, n, factors) /\ Product(factors) = f[n]
<1>1. Len(factors) = n
  BY SeqDef, LenProperties
<1> DEFINE Upto(f) == f = [i \in 0..n |-> IF i = 0 THEN 1 ELSE f[i - 1] * factors[i]]
           upto == CHOOSE f : Upto(f)
<1>2. PICK f : IsProductOf(f, n, factors)
  BY PartialProducts
<1>3. Upto(f)
  <2>1. \A i \in 0..n : f[i] = IF i = 0 THEN 1 ELSE f[i - 1] * factors[i]
    BY <1>2 DEF IsProductOf
  <2> QED BY <1>2, <2>1 DEF IsProductOf
<1>4. Upto(upto)
  BY <1>3
<1>5. Product(factors) = upto[n]
  BY <1>1 DEF Product
<1>6. IsProductOf(upto, n, factors)
  <2> HIDE DEF upto
  <2>1. \A i \in 0..n : upto[i] = IF i = 0 THEN 1 ELSE upto[i - 1] * factors[i]
    BY <1>4
  <2>2. upto[0] = 1 /\ \A i \in 1..n : upto[i] = upto[i - 1] * factors[i]
    BY <2>1
  <2> DEFINE S == {i \in 0..n : upto[i] \in Nat}
  <2>3. 0 \in S
    BY <2>2
  <2>4. \A i \in 1..n : i - 1 \in S => i \in S
    BY <2>2
  <2>5. \A i \in 0..n : i \in S
    <3> HIDE DEF S
    <3> QED BY <2>3, <2>4, Induction
  <2>6. upto \in [0..n -> Nat]
    BY <1>4, <2>5
  <2> QED BY <2>2, <2>6 DEF IsProductOf
<1> QED BY <1>5, <1>6

\* The functions above a bound in each place are as many as the product of what is left
\* above the bounds.
Rest(m, low) == [i \in 1..m |-> Scale - low[i]]
Over(m, low) == {d \in [1..m -> 1..Scale] : \A i \in 1..m : low[i] < d[i]}

LEMMA CountOver ==
  ASSUME NEW n \in Nat, NEW low \in [1..n -> 0..Scale]
  PROVE  /\ IsFiniteSet(Over(n, low))
         /\ Cardinality(Over(n, low)) = Product(Rest(n, low))
<1> DEFINE factors == Rest(n, low)
<1>0. Scale \in Nat \ {0}
  BY ConstantsAssumption
<1>1. factors \in [1..n -> Nat] /\ \A i \in 1..n : factors[i] = Scale - low[i]
  BY <1>0 DEF Rest
<1>2. PICK f : IsProductOf(f, n, factors) /\ Product(factors) = f[n]
  <2> HIDE DEF factors
  <2> QED BY <1>1, ProductIs
<1> DEFINE S == {m \in 0..n : IsFiniteSet(Over(m, low)) /\ Cardinality(Over(m, low)) = f[m]}
<1>3. 0 \in S
  <2> DEFINE none == [i \in {} |-> 1]
  <2>1. 1..0 = {}
    OBVIOUS
  <2>2. Over(0, low) = {d \in [{} -> 1..Scale] : TRUE}
    BY <2>1 DEF Over
  <2>3. none \in [{} -> 1..Scale] /\ \A d \in [{} -> 1..Scale] : d = none
    OBVIOUS
  <2>4. Over(0, low) = {none}
    BY <2>2, <2>3
  <2>5. IsFiniteSet({none}) /\ Cardinality({none}) = 1
    BY FS_Singleton
  <2>6. f[0] = 1
    BY <1>2 DEF IsProductOf
  <2>7. IsFiniteSet(Over(0, low)) /\ Cardinality(Over(0, low)) = f[0]
    BY <2>4, <2>5, <2>6
  <2> HIDE DEF factors, none
  <2> QED BY <2>7
<1>4. ASSUME NEW m \in 1..n, m - 1 \in S PROVE m \in S
  <2> DEFINE pairs == Over(m - 1, low) \X ((low[m] + 1)..Scale)
             h == [x \in pairs |-> [i \in 1..m |-> IF i = m THEN x[2] ELSE x[1][i]]]
  <2>1. low[m] \in 0..Scale
    OBVIOUS
  <2>2. IsFiniteSet((low[m] + 1)..Scale) /\ Cardinality((low[m] + 1)..Scale) = Scale - low[m]
    <3>1. low[m] + 1 \in Int /\ Scale \in Int
      BY <1>0, <2>1
    <3>2. /\ IsFiniteSet((low[m] + 1)..Scale)
          /\ Cardinality((low[m] + 1)..Scale)
               = IF low[m] + 1 > Scale THEN 0 ELSE Scale - (low[m] + 1) + 1
      BY <3>1, FS_Interval
    <3> QED BY <1>0, <2>1, <3>2
  <2>3. IsFiniteSet(pairs) /\ Cardinality(pairs) = f[m - 1] * (Scale - low[m])
    <3> DEFINE B == (low[m] + 1)..Scale
               A == Over(m - 1, low)
    <3>1. IsFiniteSet(A) /\ Cardinality(A) = f[m - 1]
      BY <1>4
    <3>2. IsFiniteSet(B) /\ Cardinality(B) = Scale - low[m]
      BY <2>2
    <3>3. pairs = A \X B
      OBVIOUS
    <3> HIDE DEF A, B, pairs, h, S
    <3>4. IsFiniteSet(A \X B) /\ Cardinality(A \X B) = Cardinality(A) * Cardinality(B)
      BY <3>1, <3>2, FS_Product
    <3> QED BY <3>1, <3>2, <3>3, <3>4
  <2>4. f[m] = f[m - 1] * (Scale - low[m])
    BY <1>1, <1>2 DEF IsProductOf
  <2>5. ASSUME NEW x \in pairs PROVE h[x] \in Over(m, low)
    <3>1. x[1] \in [1..(m - 1) -> 1..Scale] /\ \A i \in 1..(m - 1) : low[i] < x[1][i]
      BY DEF Over
    <3>2. x[2] \in (low[m] + 1)..Scale
      OBVIOUS
    <3>3. h[x] = [i \in 1..m |-> IF i = m THEN x[2] ELSE x[1][i]]
      OBVIOUS
    <3>4. x[2] \in 1..Scale /\ low[m] < x[2]
      BY <1>0, <2>1, <3>2
    <3> HIDE DEF h, pairs
    <3>5. \A i \in 1..m : h[x][i] \in 1..Scale /\ low[i] < h[x][i]
      BY <3>1, <3>3, <3>4
    <3>6. h[x] \in [1..m -> 1..Scale]
      BY <3>3, <3>5
    <3> QED BY <3>5, <3>6 DEF Over
  <2>6. ASSUME NEW x \in pairs, NEW y \in pairs, h[x] = h[y] PROVE x = y
    <3>1. x[1] \in [1..(m - 1) -> 1..Scale] /\ y[1] \in [1..(m - 1) -> 1..Scale]
      BY DEF Over
    <3>2. \A i \in 1..m : h[x][i] = h[y][i]
      BY <2>6
    <3>3. x[2] = y[2]
      BY <3>2
    <3>4. \A i \in 1..(m - 1) : x[1][i] = y[1][i]
      BY <3>2
    <3> QED BY <3>1, <3>3, <3>4
  <2>7. ASSUME NEW d \in Over(m, low) PROVE \E x \in pairs : h[x] = d
    <3> DEFINE x == <<[i \in 1..(m - 1) |-> d[i]], d[m]>>
    <3>1. d \in [1..m -> 1..Scale] /\ \A i \in 1..m : low[i] < d[i]
      BY DEF Over
    <3>2. x \in pairs
      BY <2>1, <3>1 DEF Over
    <3>3. h[x] = d
      BY <3>1, <3>2
    <3> QED BY <3>2, <3>3
  <2>8. h \in Bijection(pairs, Over(m, low))
    <3> HIDE DEF pairs
    <3>1. h \in [pairs -> Over(m, low)]
      BY <2>5
    <3> HIDE DEF h
    <3> QED BY <2>6, <2>7, <3>1 DEF Bijection, Injection, Surjection, IsInjective
  <2> HIDE DEF pairs, h
  <2>9. IsFiniteSet(Over(m, low)) /\ Cardinality(Over(m, low)) = Cardinality(pairs)
    BY <2>3, <2>8, FS_Bijection DEF ExistsBijection
  <2> QED BY <2>3, <2>4, <2>9
<1>5. \A i \in 0..n : i \in S
  <2> HIDE DEF S
  <2> QED BY <1>3, <1>4, Induction
<1> QED BY <1>2, <1>5

-----------------------------------------------------------------------------
(* Orders.                                                                 *)

\* R is a strict total order of I.
StrictOrder(R, I) ==
  /\ \A i \in I : <<i, i>> \notin R
  /\ \A i, j, k \in I : <<i, j>> \in R /\ <<j, k>> \in R => <<i, k>> \in R
  /\ \A i, j \in I : i # j => <<i, j>> \in R \/ <<j, i>> \in R

\* The n values of t are the elements of I, in the order R.
Enumerates(t, n, I, R) ==
  /\ t \in [1..n -> I]
  /\ \A i \in I : \E p \in 1..n : t[p] = i
  /\ \A p, q \in 1..n : p < q => <<t[p], t[q]>> \in R

\* A finite set that is ordered can be enumerated.
LEMMA EnumerationExists ==
  ASSUME NEW I, IsFiniteSet(I), NEW R, StrictOrder(R, I)
  PROVE  \E t : Enumerates(t, Cardinality(I), I, R)
<1> DEFINE n == Cardinality(I)
           Below(i) == {j \in I : j = i \/ <<j, i>> \in R}
           rank == [i \in I |-> Cardinality(Below(i))]
<1>1. n \in Nat
  BY FS_CardinalityType
<1>2. ASSUME NEW i \in I PROVE IsFiniteSet(Below(i)) /\ rank[i] \in 1..n
  <2>1. IsFiniteSet(Below(i)) /\ Cardinality(Below(i)) <= n
    BY FS_Subset
  <2>2. Below(i) # {}
    OBVIOUS
  <2>3. Cardinality(Below(i)) \in Nat /\ Cardinality(Below(i)) # 0
    BY <2>1, <2>2, FS_CardinalityType, FS_EmptySet
  <2> QED BY <1>1, <2>1, <2>3
<1>3. ASSUME NEW i \in I, NEW j \in I, <<i, j>> \in R PROVE rank[i] < rank[j]
  <2>1. Below(i) \in SUBSET Below(j) /\ j \notin Below(i) /\ j \in Below(j)
    BY <1>3 DEF StrictOrder
  <2>2. Cardinality(Below(i)) <= Cardinality(Below(j))
        /\ Cardinality(Below(i)) # Cardinality(Below(j))
    BY <1>2, <2>1, FS_Subset
  <2> QED BY <1>2, <2>2
<1> HIDE DEF rank
<1>4. rank \in [I -> 1..n]
  BY <1>2 DEF rank
<1>5. rank \in Injection(I, 1..n)
  <2>1. ASSUME NEW i \in I, NEW j \in I, rank[i] = rank[j] PROVE i = j
    <3>1. ~(<<i, j>> \in R) /\ ~(<<j, i>> \in R)
      BY <1>1, <1>3, <1>4, <2>1
    <3> QED BY <3>1 DEF StrictOrder
  <2> QED BY <1>4, <2>1, Fun_IsInj
<1>6. IsFiniteSet(1..n) /\ Cardinality(1..n) = n
  BY <1>1, FS_Interval
<1>7. rank \in Surjection(I, 1..n)
  BY <1>5, <1>6, FS_Injection
<1>8. \A p \in 1..n : \E i \in I : rank[i] = p
  BY <1>7 DEF Surjection
<1> DEFINE t == [p \in 1..n |-> CHOOSE i \in I : rank[i] = p]
<1>9. \A p \in 1..n : t[p] \in I /\ rank[t[p]] = p
  BY <1>8
<1> HIDE DEF t
<1>10. t \in [1..n -> I]
  BY <1>9 DEF t
<1>11. ASSUME NEW i \in I PROVE \E p \in 1..n : t[p] = i
  BY <1>4, <1>5, <1>9 DEF Injection, IsInjective
<1>12. ASSUME NEW p \in 1..n, NEW q \in 1..n, p < q PROVE <<t[p], t[q]>> \in R
  <2>1. ~(<<t[q], t[p]>> \in R)
    BY <1>3, <1>9, <1>12
  <2>2. t[p] # t[q]
    BY <1>9, <1>12
  <2> QED BY <1>9, <2>1, <2>2 DEF StrictOrder
<1> QED BY <1>10, <1>11, <1>12 DEF Enumerates

\* An ordered list of as many elements as the set has is an enumeration of it.
LEMMA AscendingIsEnumeration ==
  ASSUME NEW I, IsFiniteSet(I), NEW R, StrictOrder(R, I), NEW t \in [1..Cardinality(I) -> I],
         \A p, q \in 1..Cardinality(I) : p < q => <<t[p], t[q]>> \in R
  PROVE  Enumerates(t, Cardinality(I), I, R)
<1> DEFINE n == Cardinality(I)
<1>1. n \in Nat
  BY FS_CardinalityType
<1>2. IsFiniteSet(1..n) /\ Cardinality(1..n) = n
  BY <1>1, FS_Interval
<1>3. ASSUME NEW p \in 1..n, NEW q \in 1..n, t[p] = t[q] PROVE p = q
  <2>1. ~(p < q) /\ ~(q < p)
    BY <1>3 DEF StrictOrder
  <2> QED BY <1>1, <2>1
<1>4. t \in Injection(1..n, I)
  BY <1>3 DEF Injection, IsInjective
<1>5. t \in Surjection(1..n, I)
  BY <1>2, <1>4, FS_Injection
<1> QED BY <1>5 DEF Surjection, Enumerates

\* A set has one enumeration in an order.
LEMMA EnumerationIsUnique ==
  ASSUME NEW I, NEW R, StrictOrder(R, I), NEW n \in Nat,
         NEW t, Enumerates(t, n, I, R), NEW u, Enumerates(u, n, I, R)
  PROVE  t = u
<1> DEFINE Differ == {p \in 1..n : t[p] # u[p]}
<1> SUFFICES ASSUME Differ # {} PROVE FALSE
  <2>1. t \in [1..n -> I] /\ u \in [1..n -> I]
    BY DEF Enumerates
  <2> QED BY <2>1
<1>1. Differ \in SUBSET Nat
  OBVIOUS
<1>2. PICK p \in Differ : \A q \in Differ : p <= q
  <2> HIDE DEF Differ
  <2> QED BY <1>1, LeastNumber
<1>3. \A q \in 1..n : q < p => t[q] = u[q]
  BY <1>2
<1>4. t[p] \in I /\ u[p] \in I /\ t[p] # u[p]
  BY <1>2 DEF Enumerates
<1>5. CASE <<t[p], u[p]>> \in R
  <2>1. PICK q \in 1..n : u[q] = t[p]
    BY <1>4 DEF Enumerates
  <2>2. q < p \/ q > p
    BY <1>4, <2>1
  <2>3. CASE q < p
    <3>1. t[q] = t[p] /\ <<t[q], t[p]>> \in R
      BY <1>2, <1>3, <2>1, <2>3 DEF Enumerates
    <3> QED BY <1>4, <3>1 DEF StrictOrder
  <2>4. CASE q > p
    <3>1. <<u[p], t[p]>> \in R
      BY <1>2, <2>1, <2>4 DEF Enumerates
    <3> QED BY <1>4, <1>5, <3>1 DEF StrictOrder
  <2> QED BY <2>2, <2>3, <2>4
<1>6. CASE <<u[p], t[p]>> \in R
  <2>1. PICK q \in 1..n : t[q] = u[p]
    BY <1>4 DEF Enumerates
  <2>2. q < p \/ q > p
    BY <1>4, <2>1
  <2>3. CASE q < p
    <3>1. u[q] = u[p] /\ <<u[q], u[p]>> \in R
      BY <1>2, <1>3, <2>1, <2>3 DEF Enumerates
    <3> QED BY <1>4, <3>1 DEF StrictOrder
  <2>4. CASE q > p
    <3>1. <<t[p], u[p]>> \in R
      BY <1>2, <2>1, <2>4 DEF Enumerates
    <3> QED BY <1>4, <1>6, <3>1 DEF StrictOrder
  <2> QED BY <2>2, <2>3, <2>4
<1> QED BY <1>4, <1>5, <1>6 DEF StrictOrder

-----------------------------------------------------------------------------
(* Sorting.                                                                *)

\* The order of the places that a sort goes by.
Placed(s, I, less) == {e \in I \X I : Precedes(s, less, e[1], e[2])}

LEMMA PlacedIs ==
  ASSUME NEW s, NEW I, NEW less, NEW i \in I, NEW j \in I
  PROVE  <<i, j>> \in Placed(s, I, less) <=> Precedes(s, less, i, j)
BY DEF Placed

\* The elements in the order in which t names their places.
Along(s, t, n) == [p \in 1..n |-> s[t[p]]]

\* A sort enumerates the places in the order it goes by.
LEMMA SortedEnumerates ==
  ASSUME NEW s, NEW I, IsFiniteSet(I), NEW less, StrictOrder(Placed(s, I, less), I)
  PROVE  \E t : /\ Enumerates(t, Cardinality(I), I, Placed(s, I, less))
                /\ Sorted(s, I, less) = Along(s, t, Cardinality(I))
<1> DEFINE n == Cardinality(I)
           R == Placed(s, I, less)
           Orders(t) == \A p, q \in 1..n : p < q => Precedes(s, less, t[p], t[q])
           order == CHOOSE t \in [1..n -> I] : Orders(t)
<1>1. PICK t : Enumerates(t, n, I, R)
  BY EnumerationExists
<1>2. t \in [1..n -> I] /\ Orders(t)
  BY <1>1 DEF Enumerates, Placed
<1>3. order \in [1..n -> I] /\ Orders(order)
  BY <1>2
<1>4. Sorted(s, I, less) = Along(s, order, n)
  BY DEF Sorted, Along
<1> HIDE DEF order
<1>5. \A p, q \in 1..n : p < q => <<order[p], order[q]>> \in R
  BY <1>3 DEF Placed
<1>6. Enumerates(order, n, I, R)
  BY <1>3, <1>5, AscendingIsEnumeration
<1> QED BY <1>4, <1>6

\* The elements at a set of places.
Values(s, I) == {s[i] : i \in I}

\* Where the elements differ and are ordered themselves, the sort enumerates the elements.
LEMMA SortedByValue ==
  ASSUME NEW s, NEW I \in SUBSET Nat, IsFiniteSet(I),
         NEW less, StrictOrder(less, Values(s, I)),
         \A i, j \in I : s[i] = s[j] => i = j
  PROVE  /\ IsFiniteSet(Values(s, I))
         /\ Enumerates(Sorted(s, I, less), Cardinality(Values(s, I)), Values(s, I), less)
<1> DEFINE n == Cardinality(I)
           V == Values(s, I)
           R == Placed(s, I, less)
<1>1. ASSUME NEW i \in I, NEW j \in I PROVE <<i, j>> \in R <=> <<s[i], s[j]>> \in less
  <2>1. <<i, j>> \in R <=> Precedes(s, less, i, j)
    BY PlacedIs
  <2>2. s[i] \in V /\ s[j] \in V
    BY DEF Values
  <2>3. CASE i = j
    <3>1. ~(<<s[i], s[j]>> \in less)
      BY <2>2, <2>3 DEF StrictOrder
    <3>2. ~(i < j)
      BY <2>3
    <3> QED BY <2>1, <3>1, <3>2 DEF Precedes
  <2>4. CASE i # j
    <3>1. <<s[i], s[j]>> \in less \/ <<s[j], s[i]>> \in less
      BY <2>2, <2>4 DEF StrictOrder
    <3> QED BY <2>1, <3>1 DEF Precedes
  <2> QED BY <2>3, <2>4
<1>2. StrictOrder(R, I)
  <2>1. \A i \in I : s[i] \in V
    BY DEF Values
  <2> HIDE DEF R
  <2>2. \A i \in I : <<i, i>> \notin R
    BY <1>1, <2>1 DEF StrictOrder
  <2>3. \A i, j, k \in I : <<i, j>> \in R /\ <<j, k>> \in R => <<i, k>> \in R
    <3> SUFFICES ASSUME NEW i \in I, NEW j \in I, NEW k \in I,
                        <<i, j>> \in R, <<j, k>> \in R
                 PROVE  <<i, k>> \in R
      OBVIOUS
    <3>1. s[i] \in V /\ s[j] \in V /\ s[k] \in V
      BY <2>1
    <3>2. <<s[i], s[j]>> \in less /\ <<s[j], s[k]>> \in less
      BY <1>1
    <3> HIDE DEF V
    <3>3. StrictOrder(less, V)
      BY DEF V
    <3>4. <<s[i], s[k]>> \in less
      BY <3>1, <3>2, <3>3 DEF StrictOrder
    <3> QED BY <1>1, <3>4
  <2>4. \A i, j \in I : i # j => <<i, j>> \in R \/ <<j, i>> \in R
    BY <1>1, <2>1 DEF StrictOrder
  <2> QED BY <2>2, <2>3, <2>4 DEF StrictOrder
<1>3. PICK t : Enumerates(t, n, I, R) /\ Sorted(s, I, less) = Along(s, t, n)
  BY <1>2, SortedEnumerates
<1> DEFINE u == [p \in 1..n |-> s[t[p]]]
<1> HIDE DEF R
<1>4. u \in [1..n -> V]
  BY <1>3 DEF Enumerates, Values
<1>5. \A v \in V : \E p \in 1..n : u[p] = v
  BY <1>3 DEF Enumerates, Values
<1>6. \A p, q \in 1..n : p < q => <<u[p], u[q]>> \in less
  BY <1>1, <1>3 DEF Enumerates
<1>7. IsFiniteSet(V) /\ Cardinality(V) = n
  <2> DEFINE value == [i \in I |-> s[i]]
  <2>1. value \in Bijection(I, V)
    BY Fun_IsBij DEF Values
  <2> HIDE DEF value
  <2> QED BY <2>1, FS_Bijection, Fun_ExistsBij
<1>8. Sorted(s, I, less) = u
  BY <1>3 DEF Along
<1> QED BY <1>4, <1>5, <1>6, <1>7, <1>8 DEF Enumerates

\* The order of numbers.
Smaller(S) == {e \in S \X S : e[1] < e[2]}

LEMMA SmallerIs ==
  ASSUME NEW S, NEW i \in S, NEW j \in S
  PROVE  <<i, j>> \in Smaller(S) <=> i < j
BY DEF Smaller

LEMMA SmallerIsStrict ==
  ASSUME NEW S \in SUBSET Nat
  PROVE  StrictOrder(Smaller(S), S)
<1>1. \A i \in S : <<i, i>> \notin Smaller(S)
  BY SmallerIs
<1>2. \A i, j, k \in S : <<i, j>> \in Smaller(S) /\ <<j, k>> \in Smaller(S)
                          => <<i, k>> \in Smaller(S)
  BY SmallerIs
<1>3. \A i, j \in S : i # j => <<i, j>> \in Smaller(S) \/ <<j, i>> \in Smaller(S)
  BY SmallerIs
<1> QED BY <1>1, <1>2, <1>3 DEF StrictOrder

\* The places that are sorted by no order stay in their order.
LEMMA PlacedByNone ==
  ASSUME NEW s, NEW I \in SUBSET Nat
  PROVE  Placed(s, I, {}) = Smaller(I)
BY DEF Placed, Smaller, Precedes

LEMMA SortedByNone ==
  ASSUME NEW s, NEW I \in SUBSET Nat, IsFiniteSet(I)
  PROVE  \E t : /\ Enumerates(t, Cardinality(I), I, Smaller(I))
                /\ Sorted(s, I, {}) = Along(s, t, Cardinality(I))
<1> DEFINE none == {}
<1>1. StrictOrder(Placed(s, I, none), I)
  BY PlacedByNone, SmallerIsStrict
<1> HIDE DEF none
<1>2. \E t : /\ Enumerates(t, Cardinality(I), I, Placed(s, I, none))
             /\ Sorted(s, I, none) = Along(s, t, Cardinality(I))
  BY <1>1, SortedEnumerates
<1> USE DEF none
<1> QED BY <1>2, PlacedByNone

LEMMA AscendingEnumerates ==
  ASSUME NEW S \in SUBSET Nat, IsFiniteSet(S)
  PROVE  Enumerates(Ascending(S), Cardinality(S), S, Smaller(S))
<1> DEFINE n == Cardinality(S)
<1>1. PICK t : /\ Enumerates(t, n, S, Smaller(S))
               /\ Ascending(S) = Along([m \in S |-> m], t, n)
  BY SortedByNone DEF Ascending
<1>2. t \in [1..n -> S]
  BY <1>1 DEF Enumerates
<1>3. Along([m \in S |-> m], t, n) = t
  BY <1>2 DEF Along
<1> QED BY <1>1, <1>3

\* An enumeration has each element at one place.
LEMMA EnumeratesOnce ==
  ASSUME NEW I, NEW R, StrictOrder(R, I), NEW n \in Nat, NEW t, Enumerates(t, n, I, R),
         NEW p \in 1..n, NEW q \in 1..n, t[p] = t[q]
  PROVE  p = q
<1>1. t[p] \in I
  BY DEF Enumerates
<1>2. ~(p < q) /\ ~(q < p)
  BY <1>1 DEF Enumerates, StrictOrder
<1> QED BY <1>2

-----------------------------------------------------------------------------
(* The orders of the safeguards.                                           *)

\* No two safeguards have one id.
Identified(R) == \A a, b \in R : a.id = b.id => a = b

LEMMA BeforeIs ==
  ASSUME NEW S, NEW a \in S, NEW b \in S
  PROVE  <<a, b>> \in Order(S, Before) <=> a.key < b.key \/ (a.key = b.key /\ a.id < b.id)
BY DEF Order, Before

LEMMA BetterIs ==
  ASSUME NEW S, NEW a \in S, NEW b \in S
  PROVE  <<a, b>> \in Order(S, Better)
           <=> \/ a.effectiveness > b.effectiveness
               \/ a.effectiveness = b.effectiveness /\ a.id < b.id
BY DEF Order, Better

LEMMA RowFields ==
  ASSUME NEW a \in Rows
  PROVE  /\ a.id \in Nat /\ a.key \in Nat /\ a.effectiveness \in 1..Scale
         /\ a.effectiveness \in Nat /\ a.interval \in Nat \ {0}
         /\ a.verifiedAt \in Nat \cup {None}
BY DEF Rows

LEMMA BeforeIsStrict ==
  ASSUME NEW S \in SUBSET Rows, NEW R \in SUBSET S, Identified(S)
  PROVE  StrictOrder(Order(S, Before), R)
<1> DEFINE P == Order(S, Before)
<1>1. \A a \in R : a.id \in Nat /\ a.key \in Nat
  BY RowFields
<1>2. \A a, b \in R : <<a, b>> \in P <=> a.key < b.key \/ (a.key = b.key /\ a.id < b.id)
  BY BeforeIs
<1> HIDE DEF P
<1>3. \A a \in R : <<a, a>> \notin P
  BY <1>1, <1>2
<1>4. \A a, b, c \in R : <<a, b>> \in P /\ <<b, c>> \in P => <<a, c>> \in P
  BY <1>1, <1>2
<1>5. ASSUME NEW a \in R, NEW b \in R, a # b PROVE <<a, b>> \in P \/ <<b, a>> \in P
  <2>1. a.id # b.id
    BY <1>5 DEF Identified
  <2> QED BY <1>1, <1>2, <2>1
<1> QED BY <1>3, <1>4, <1>5 DEF StrictOrder, P

LEMMA BetterIsStrict ==
  ASSUME NEW S \in SUBSET Rows, NEW R \in SUBSET S, Identified(S)
  PROVE  StrictOrder(Order(S, Better), R)
<1> DEFINE P == Order(S, Better)
<1>1. \A a \in R : a.id \in Nat /\ a.effectiveness \in Nat
  BY RowFields
<1>2. \A a, b \in R : <<a, b>> \in P <=> \/ a.effectiveness > b.effectiveness
                                         \/ a.effectiveness = b.effectiveness /\ a.id < b.id
  BY BetterIs
<1> HIDE DEF P
<1>3. \A a \in R : <<a, a>> \notin P
  BY <1>1, <1>2
<1>4. \A a, b, c \in R : <<a, b>> \in P /\ <<b, c>> \in P => <<a, c>> \in P
  BY <1>1, <1>2
<1>5. ASSUME NEW a \in R, NEW b \in R, a # b PROVE <<a, b>> \in P \/ <<b, a>> \in P
  <2>1. a.id # b.id
    BY <1>5 DEF Identified
  <2> QED BY <1>1, <1>2, <2>1
<1> QED BY <1>3, <1>4, <1>5 DEF StrictOrder, P

-----------------------------------------------------------------------------
(* The states.                                                             *)

\* Ids are given in the order of registration, and what is active was verified by now.
Registry ==
  \A i \in DOMAIN rows :
    /\ rows[i].id = i
    /\ rows[i].state = "active" => rows[i].verifiedAt \in 0..now

IInv == TypeOK /\ Registry

LEMMA KindFields ==
  ASSUME NEW kind \in Kinds
  PROVE  /\ kind.key \in Nat /\ kind.effectiveness \in 1..Scale
         /\ kind.interval \in Nat \ {0} /\ kind.verified \in BOOLEAN
<1>1. kind \in [key : Nat, effectiveness : 1..Scale, interval : Nat \ {0}, verified : BOOLEAN]
  BY ConstantsAssumption
<1> QED BY <1>1

LEMMA InitEstablishesRegistry == Init => IInv
<1> SUFFICES ASSUME Init PROVE IInv
  OBVIOUS
<1>1. rows \in Seq(Rows) /\ DOMAIN rows = {}
  BY EmptySeq DEF Init
<1> QED BY <1>1 DEF Init, IInv, TypeOK, Registry

LEMMA RegisterKeepsRegistry ==
  ASSUME IInv, NEW kind \in Kinds, Register(kind)
  PROVE  IInv'
<1> DEFINE row == [id |-> Len(rows) + 1, key |-> kind.key,
                   effectiveness |-> kind.effectiveness, interval |-> kind.interval,
                   verifiedAt |-> IF kind.verified THEN now ELSE None,
                   state |-> IF kind.verified THEN "active" ELSE "pending"]
<1>1. rows \in Seq(Rows) /\ Len(rows) \in Nat /\ DOMAIN rows = 1..Len(rows) /\ now \in Nat
  BY LenProperties DEF IInv, TypeOK
<1>2. row \in Rows
  BY <1>1, KindFields DEF Rows, States
<1>3. rows' = Append(rows, row) /\ scenario' = scenario /\ now' = now
  BY DEF Register
<1> HIDE DEF row
<1>4. /\ rows' \in Seq(Rows)
      /\ Len(rows') = Len(rows) + 1
      /\ \A i \in 1..Len(rows) : rows'[i] = rows[i]
      /\ rows'[Len(rows) + 1] = row
  BY <1>1, <1>2, <1>3, AppendProperties
<1>5. DOMAIN rows' = 1..(Len(rows) + 1)
  BY <1>4, LenProperties
<1>6. ASSUME NEW i \in DOMAIN rows'
      PROVE  rows'[i].id = i /\ (rows'[i].state = "active" => rows'[i].verifiedAt \in 0..now')
  <2>1. CASE i \in 1..Len(rows)
    BY <1>1, <1>3, <1>4, <2>1 DEF IInv, Registry
  <2>2. CASE i = Len(rows) + 1
    <3>1. row.id = i /\ (row.state = "active" => row.verifiedAt \in 0..now)
      BY <1>1, <2>2 DEF row
    <3> QED BY <1>3, <1>4, <2>2, <3>1
  <2> QED BY <1>1, <1>5, <2>1, <2>2
<1> QED BY <1>3, <1>4, <1>6 DEF IInv, TypeOK, Registry

LEMMA InvalidateKeepsRegistry ==
  ASSUME IInv, NEW i \in DOMAIN rows, Invalidate(i)
  PROVE  IInv'
<1> DEFINE row == [rows[i] EXCEPT !.state = "invalid"]
<1>1. rows \in Seq(Rows) /\ Len(rows) \in Nat /\ DOMAIN rows = 1..Len(rows) /\ now \in Nat
  BY LenProperties DEF IInv, TypeOK
<1>2. rows[i] \in Rows
  BY <1>1, ElementOfSeq
<1>3. row \in Rows /\ row.id = rows[i].id /\ row.state = "invalid"
  BY <1>2 DEF Rows, States
<1>4. rows' = [rows EXCEPT ![i] = row] /\ scenario' = scenario /\ now' = now
  BY DEF Invalidate
<1> HIDE DEF row
<1>5. rows' \in Seq(Rows) /\ DOMAIN rows' = DOMAIN rows
  BY <1>1, <1>3, <1>4, ExceptSeq
<1>6. ASSUME NEW j \in DOMAIN rows'
      PROVE  rows'[j].id = j /\ (rows'[j].state = "active" => rows'[j].verifiedAt \in 0..now')
  <2>1. rows'[j] = IF j = i THEN row ELSE rows[j]
    BY <1>4, <1>5
  <2> QED BY <1>3, <1>4, <1>5, <2>1 DEF IInv, Registry
<1> QED BY <1>4, <1>5, <1>6 DEF IInv, TypeOK, Registry

LEMMA NextKeepsRegistry == IInv /\ [Next]_vars => IInv'
<1> SUFFICES ASSUME IInv, [Next]_vars PROVE IInv'
  OBVIOUS
<1>1. CASE \E kind \in Kinds : Register(kind)
  BY <1>1, RegisterKeepsRegistry
<1>2. CASE \E i \in DOMAIN rows : Invalidate(i)
  BY <1>2, InvalidateKeepsRegistry
<1>3. CASE Age
  <2>1. now \in Nat /\ now' = now + 1 /\ rows' = rows /\ scenario' = scenario
    BY <1>3 DEF Age, IInv, TypeOK
  <2> QED BY <2>1 DEF IInv, TypeOK, Registry
<1>4. CASE Settled \/ UNCHANGED vars
  BY <1>4 DEF Settled, vars, IInv, TypeOK, Registry
<1> QED BY <1>1, <1>2, <1>3, <1>4 DEF Next

\* The registry keeps its types and ids, and nothing active was verified in the future.
THEOREM RegistryHolds == Spec => []IInv
<1>1. Init => IInv
  BY InitEstablishesRegistry
<1>2. IInv /\ [Next]_vars => IInv'
  BY NextKeepsRegistry
<1> QED BY <1>1, <1>2, PTL DEF Spec

\* The scenario, the safeguards and the clock keep their types.
THEOREM TypeCorrect == Spec => []TypeOK
<1>1. IInv => TypeOK
  BY DEF IInv
<1> QED BY <1>1, RegistryHolds, PTL

-----------------------------------------------------------------------------
(* Lists of safeguards, and what does not depend on their order.           *)

\* Lists of different safeguards.
Listing == {ss \in Seq(Rows) : \A i, j \in DOMAIN ss : ss[i].id = ss[j].id => i = j}

LEMMA ListingFacts ==
  ASSUME NEW ss \in Listing
  PROVE  /\ Len(ss) \in Nat /\ DOMAIN ss = 1..Len(ss)
         /\ ss \in [1..Len(ss) -> Rows]
         /\ DOMAIN ss \in SUBSET Nat /\ IsFiniteSet(DOMAIN ss)
         /\ \A i \in DOMAIN ss : ss[i] \in ToSet(ss)
         /\ ToSet(ss) \in SUBSET Rows /\ IsFiniteSet(ToSet(ss)) /\ Identified(ToSet(ss))
         /\ \A i, j \in DOMAIN ss : ss[i] = ss[j] => i = j
<1>1. ss \in Seq(Rows) /\ \A i, j \in DOMAIN ss : ss[i].id = ss[j].id => i = j
  BY DEF Listing
<1>2. Len(ss) \in Nat /\ DOMAIN ss = 1..Len(ss) /\ ss \in [1..Len(ss) -> Rows]
  BY <1>1, LenProperties
<1>3. DOMAIN ss \in SUBSET Nat /\ IsFiniteSet(DOMAIN ss)
  BY <1>2, FS_Interval
<1>4. ToSet(ss) = {ss[i] : i \in DOMAIN ss}
  BY DEF ToSet
<1>5. IsFiniteSet(ToSet(ss))
  <2> DEFINE f == [i \in DOMAIN ss |-> ss[i]]
  <2>1. f \in Surjection(DOMAIN ss, ToSet(ss))
    BY <1>4, Fun_IsSurj
  <2> HIDE DEF f
  <2> QED BY <1>3, <2>1, FS_Surjection
<1>6. Identified(ToSet(ss))
  BY <1>1, <1>4 DEF Identified
<1> QED BY <1>1, <1>2, <1>3, <1>4, <1>5, <1>6

LEMMA ByKeyEnumerates ==
  ASSUME NEW ss \in Listing
  PROVE  Enumerates(ByKey(ss), Cardinality(ToSet(ss)), ToSet(ss), Order(ToSet(ss), Before))
<1> DEFINE S == ToSet(ss)
           less == Order(S, Before)
           V == Values(ss, DOMAIN ss)
<1>1. V = S
  BY DEF ToSet, Values
<1>2. StrictOrder(less, V)
  BY <1>1, ListingFacts, BeforeIsStrict
<1> HIDE DEF less
<1>3. Enumerates(Sorted(ss, DOMAIN ss, less), Cardinality(V), V, less)
  BY <1>2, ListingFacts, SortedByValue
<1>4. ByKey(ss) = Sorted(ss, DOMAIN ss, less)
  BY DEF ByKey, less
<1> QED BY <1>1, <1>3, <1>4 DEF less

\* The snapshot lists the same safeguards.
LEMMA ByKeyLists ==
  ASSUME NEW ss \in Listing
  PROVE  ByKey(ss) \in Listing /\ ToSet(ByKey(ss)) = ToSet(ss)
<1> DEFINE S == ToSet(ss)
           n == Cardinality(S)
           bb == ByKey(ss)
<1>1. Enumerates(bb, n, S, Order(S, Before)) /\ StrictOrder(Order(S, Before), S)
  BY ByKeyEnumerates, ListingFacts, BeforeIsStrict
<1>2. n \in Nat
  BY ListingFacts, FS_CardinalityType
<1> HIDE DEF n, bb
<1>3. bb \in [1..n -> S] /\ \A v \in S : \E p \in 1..n : bb[p] = v
  BY <1>1 DEF Enumerates
<1>4. bb \in Seq(Rows) /\ DOMAIN bb = 1..n
  BY <1>2, <1>3, ListingFacts, SeqDef
<1>5. ASSUME NEW i \in DOMAIN bb, NEW j \in DOMAIN bb, bb[i].id = bb[j].id PROVE i = j
  <2>1. bb[i] = bb[j]
    BY <1>3, <1>4, <1>5, ListingFacts DEF Identified
  <2> QED BY <1>1, <1>2, <1>4, <2>1, EnumeratesOnce
<1>6. ToSet(bb) = S
  BY <1>3, <1>4 DEF ToSet
<1> QED BY <1>4, <1>5, <1>6 DEF Listing, bb

LEMMA ByKeyIgnoresOrder ==
  ASSUME NEW ss \in Listing, NEW tt \in Listing, ToSet(ss) = ToSet(tt)
  PROVE  ByKey(ss) = ByKey(tt)
<1> DEFINE S == ToSet(ss)
<1>1. Cardinality(S) \in Nat /\ StrictOrder(Order(S, Before), S)
  BY ListingFacts, FS_CardinalityType, BeforeIsStrict
<1>2. Enumerates(ByKey(ss), Cardinality(S), S, Order(S, Before))
  BY ByKeyEnumerates
<1>3. Enumerates(ByKey(tt), Cardinality(S), S, Order(S, Before))
  BY ByKeyEnumerates
<1> HIDE DEF S
<1> QED BY <1>1, <1>2, <1>3, EnumerationIsUnique

\* The safeguards of a set that may count.
Counting(R, reference) == {row \in R : ~Rejects(row, reference)}

LEMMA EligibleRows ==
  ASSUME NEW ss \in Listing, NEW reference \in Nat
  PROVE  /\ Eligible(ss, reference) \in SUBSET (DOMAIN ss)
         /\ {ss[i] : i \in Eligible(ss, reference)} = Counting(ToSet(ss), reference)
         /\ Keys(ss, reference) = {row.key : row \in Counting(ToSet(ss), reference)}
<1>1. Eligible(ss, reference) \in SUBSET (DOMAIN ss)
  BY DEF Eligible
<1>2. {ss[i] : i \in Eligible(ss, reference)} = Counting(ToSet(ss), reference)
  BY DEF Eligible, Counting, ToSet
<1>3. Keys(ss, reference) = {row.key : row \in {ss[i] : i \in Eligible(ss, reference)}}
  BY DEF Keys
<1> QED BY <1>1, <1>2, <1>3

\* The safeguards of one key.
OfKey(key, R) == {row \in R : row.key = key}

LEMMA GroupEnumerates ==
  ASSUME NEW ss \in Listing, NEW reference \in Nat, NEW key
  PROVE  LET V == OfKey(key, Counting(ToSet(ss), reference)) IN
         /\ IsFiniteSet(V)
         /\ StrictOrder(Order(ToSet(ss), Better), V)
         /\ Enumerates(Group(key, ss, reference), Cardinality(V), V, Order(ToSet(ss), Better))
<1> DEFINE S == ToSet(ss)
           E == Eligible(ss, reference)
           I == {i \in E : ss[i].key = key}
           V == OfKey(key, Counting(S, reference))
           W == Values(ss, I)
           less == Order(S, Better)
<1>1. W = V
  <2>1. {ss[i] : i \in E} = Counting(S, reference)
    BY EligibleRows
  <2> HIDE DEF E
  <2> QED BY <2>1 DEF OfKey, Values
<1>2. I \in SUBSET (DOMAIN ss)
  BY EligibleRows
<1>3. I \in SUBSET Nat /\ IsFiniteSet(I)
  BY <1>2, ListingFacts, FS_Subset
<1>4. W \in SUBSET S
  BY <1>2, ListingFacts DEF Values
<1>5. StrictOrder(less, W)
  BY <1>4, ListingFacts, BetterIsStrict
<1>6. Group(key, ss, reference) = Sorted(ss, I, less)
  BY DEF Group
<1>7. \A i, j \in I : ss[i] = ss[j] => i = j
  BY <1>2, ListingFacts
<1> HIDE DEF I, less
<1>8. IsFiniteSet(W) /\ Enumerates(Sorted(ss, I, less), Cardinality(W), W, less)
  BY <1>3, <1>5, <1>7, SortedByValue
<1> QED BY <1>1, <1>5, <1>6, <1>8 DEF less

LEMMA GroupIgnoresOrder ==
  ASSUME NEW ss \in Listing, NEW tt \in Listing, ToSet(ss) = ToSet(tt),
         NEW reference \in Nat, NEW key
  PROVE  Group(key, ss, reference) = Group(key, tt, reference)
<1> DEFINE S == ToSet(ss)
           V == OfKey(key, Counting(S, reference))
           less == Order(S, Better)
<1>1. IsFiniteSet(V) /\ StrictOrder(less, V)
  BY GroupEnumerates
<1>2. Enumerates(Group(key, ss, reference), Cardinality(V), V, less)
  BY GroupEnumerates
<1>3. Enumerates(Group(key, tt, reference), Cardinality(V), V, less)
  BY GroupEnumerates
<1>4. Cardinality(V) \in Nat
  BY <1>1, FS_CardinalityType
<1> HIDE DEF V, less
<1> QED BY <1>1, <1>2, <1>3, <1>4, EnumerationIsUnique

\* The keys are listed in ascending order, each once.
LEMMA KeysEnumerate ==
  ASSUME NEW ss \in Listing, NEW reference \in Nat, NEW K \in SUBSET Keys(ss, reference)
  PROVE  /\ K \in SUBSET (Nat \ {0}) /\ IsFiniteSet(K) /\ Cardinality(K) \in Nat
         /\ Enumerates(Ascending(K), Cardinality(K), K, Smaller(K))
         /\ StrictOrder(Smaller(K), K)
         /\ Ascending(K) \in [1..Cardinality(K) -> K]
         /\ DOMAIN Ascending(K) = 1..Cardinality(K)
         /\ \A key \in K : \E p \in 1..Cardinality(K) : Ascending(K)[p] = key
<1> DEFINE C == Counting(ToSet(ss), reference)
           keyOf == [row \in C |-> row.key]
<1>1. C \in SUBSET ToSet(ss) /\ Keys(ss, reference) = {row.key : row \in C}
  BY EligibleRows DEF Counting
<1>2. IsFiniteSet(C)
  BY <1>1, ListingFacts, FS_Subset
<1>3. keyOf \in Surjection(C, Keys(ss, reference))
  BY <1>1, Fun_IsSurj
<1>4. IsFiniteSet(Keys(ss, reference))
  <2> HIDE DEF keyOf
  <2> QED BY <1>2, <1>3, FS_Surjection
<1>5. \A row \in C : row.key \in Nat \ {0}
  BY ListingFacts, RowFields DEF Counting, Rejects
<1>6. Keys(ss, reference) \in SUBSET (Nat \ {0})
  BY <1>1, <1>5
<1>7. K \in SUBSET (Nat \ {0}) /\ K \in SUBSET Nat /\ IsFiniteSet(K) /\ Cardinality(K) \in Nat
  BY <1>4, <1>6, FS_Subset, FS_CardinalityType
<1>8. Enumerates(Ascending(K), Cardinality(K), K, Smaller(K)) /\ StrictOrder(Smaller(K), K)
  BY <1>7, AscendingEnumerates, SmallerIsStrict
<1>9. /\ Ascending(K) \in [1..Cardinality(K) -> K]
      /\ \A key \in K : \E p \in 1..Cardinality(K) : Ascending(K)[p] = key
  BY <1>8 DEF Enumerates
<1> QED BY <1>7, <1>8, <1>9

\* What is made of safeguards does not depend on their order.
LEMMA ResolutionIgnoresOrder ==
  ASSUME NEW ss \in Listing, NEW tt \in Listing, ToSet(ss) = ToSet(tt),
         NEW reference \in Nat
  PROVE  ResolveIndependence(ss, reference) = ResolveIndependence(tt, reference)
<1>1. Keys(ss, reference) = Keys(tt, reference)
  BY EligibleRows
<1>2. \A key : Group(key, ss, reference) = Group(key, tt, reference)
  BY GroupIgnoresOrder
<1>3. Retained(ss, reference) = Retained(tt, reference)
  BY <1>1, <1>2 DEF Retained
<1>4. Deduplicated(ss, reference) = Deduplicated(tt, reference)
  <2> DEFINE K == {key \in Keys(ss, reference) : Len(Group(key, ss, reference)) > 1}
             L == {key \in Keys(tt, reference) : Len(Group(key, tt, reference)) > 1}
  <2>1. K = L
    BY <1>1, <1>2
  <2> QED BY <1>2, <2>1 DEF Deduplicated
<1>5. Rejected(ss, reference) = Rejected(tt, reference)
  <2> DEFINE I == {ss[i].id : i \in DOMAIN ss \ Eligible(ss, reference)}
             J == {tt[i].id : i \in DOMAIN tt \ Eligible(tt, reference)}
             C == {row.id : row \in {r \in ToSet(ss) : Rejects(r, reference)}}
  <2>1. I = C
    BY DEF ToSet, Eligible
  <2>2. J = C
    <3>1. J = {row.id : row \in {r \in ToSet(tt) : Rejects(r, reference)}}
      BY DEF ToSet, Eligible
    <3> QED BY <3>1
  <2> QED BY <2>1, <2>2 DEF Rejected
<1> QED BY <1>3, <1>4, <1>5 DEF ResolveIndependence

\* The rows are different safeguards.
LEMMA RowsAreListed ==
  ASSUME IInv
  PROVE  rows \in Listing /\ now \in Nat /\ scenario \in Scenarios
BY DEF IInv, TypeOK, Registry, Listing

LEMMA ShuffledAreListed ==
  ASSUME NEW ss \in Listing, NEW order \in Bijection(DOMAIN ss, DOMAIN ss)
  PROVE  LET tt == [i \in DOMAIN ss |-> ss[order[i]]] IN
         tt \in Listing /\ ToSet(tt) = ToSet(ss)
<1> DEFINE n == Len(ss)
           tt == [i \in DOMAIN ss |-> ss[order[i]]]
<1>1. n \in Nat /\ DOMAIN ss = 1..n /\ ss \in [1..n -> Rows] /\ ss \in Listing
  BY ListingFacts
<1>2. /\ order \in [DOMAIN ss -> DOMAIN ss]
      /\ \A i, j \in DOMAIN ss : order[i] = order[j] => i = j
      /\ \A j \in DOMAIN ss : \E i \in DOMAIN ss : order[i] = j
  BY Fun_BijectionProperties
<1>3. DOMAIN tt = DOMAIN ss /\ \A i \in DOMAIN ss : tt[i] = ss[order[i]] /\ tt[i] \in Rows
  BY <1>1, <1>2
<1> HIDE DEF n
<1>4. tt \in Seq(Rows)
  BY <1>1, <1>3, SeqDef
<1> HIDE DEF tt
<1>5. \A i, j \in DOMAIN ss : ss[i].id = ss[j].id => i = j
  BY <1>1 DEF Listing
<1>6. \A i, j \in DOMAIN tt : tt[i].id = tt[j].id => i = j
  BY <1>2, <1>3, <1>5
<1>7. ToSet(tt) = ToSet(ss)
  <2>1. ToSet(tt) = {tt[i] : i \in DOMAIN ss} /\ ToSet(ss) = {ss[i] : i \in DOMAIN ss}
    BY <1>3 DEF ToSet
  <2>2. \A i \in DOMAIN ss : tt[i] \in ToSet(ss)
    BY <1>2, <1>3, <2>1
  <2>3. \A j \in DOMAIN ss : ss[j] \in ToSet(tt)
    BY <1>2, <1>3, <2>1
  <2> QED BY <2>1, <2>2, <2>3
<1> QED BY <1>4, <1>6, <1>7 DEF Listing, tt

\* Whatever the order in which the database returns the safeguards, the snapshot, and what
\* is made of it, are the same.
THEOREM DatabaseOrderIsIrrelevant == Spec => []OrderIrrelevant
<1>1. IInv => OrderIrrelevant
  <2> SUFFICES ASSUME IInv, NEW order \in Bijection(DOMAIN rows, DOMAIN rows)
               PROVE  LET shuffled == [i \in DOMAIN rows |-> rows[order[i]]] IN
                      /\ NewSnapshot(scenario, shuffled, now) = NewSnapshot(scenario, rows, now)
                      /\ ResolveIndependence(shuffled, now) = ResolveIndependence(rows, now)
    BY DEF OrderIrrelevant
  <2> DEFINE shuffled == [i \in DOMAIN rows |-> rows[order[i]]]
  <2>1. rows \in Listing /\ now \in Nat
    BY RowsAreListed
  <2>2. shuffled \in Listing /\ ToSet(shuffled) = ToSet(rows)
    BY <2>1, ShuffledAreListed
  <2> HIDE DEF shuffled
  <2>3. ByKey(shuffled) = ByKey(rows)
    BY <2>1, <2>2, ByKeyIgnoresOrder
  <2>4. ResolveIndependence(shuffled, now) = ResolveIndependence(rows, now)
    BY <2>1, <2>2, ResolutionIgnoresOrder
  <2>5. NewSnapshot(scenario, shuffled, now) = NewSnapshot(scenario, rows, now)
    BY <2>3 DEF NewSnapshot
  <2> QED BY <2>4, <2>5 DEF shuffled
<1> QED BY <1>1, RegistryHolds, PTL

-----------------------------------------------------------------------------
(* The safeguards that count.                                              *)

\* The first of a group is the best of its key.
LEMMA FirstOfGroupIsBest ==
  ASSUME NEW ss \in Listing, NEW reference \in Nat, NEW key \in Keys(ss, reference)
  PROVE  LET V == OfKey(key, Counting(ToSet(ss), reference))
             group == Group(key, ss, reference) IN
         /\ Cardinality(V) \in Nat \ {0} /\ group \in [1..Cardinality(V) -> V]
         /\ Len(group) = Cardinality(V) /\ group \in Seq(V)
         /\ group[1] \in V
         /\ \A row \in V : row.effectiveness <= group[1].effectiveness
<1> DEFINE V == OfKey(key, Counting(ToSet(ss), reference))
           group == Group(key, ss, reference)
           n == Cardinality(V)
           less == Order(ToSet(ss), Better)
<1>1. IsFiniteSet(V) /\ StrictOrder(less, V) /\ Enumerates(group, n, V, less)
  BY GroupEnumerates
<1>2. V # {}
  BY EligibleRows DEF OfKey
<1>3. n \in Nat \ {0}
  BY <1>1, <1>2, FS_CardinalityType, FS_EmptySet
<1>4. V \in SUBSET ToSet(ss) /\ ToSet(ss) \in SUBSET Rows
  BY ListingFacts DEF OfKey, Counting
<1> HIDE DEF V, group, n, less
<1>5. group \in [1..n -> V]
  BY <1>1 DEF Enumerates
<1>6. group \in Seq(V) /\ Len(group) = n
  BY <1>3, <1>5, SeqDef, LenProperties
<1>7. 1 \in 1..n /\ group[1] \in V
  BY <1>3, <1>5
<1>8. ASSUME NEW row \in V PROVE row.effectiveness <= group[1].effectiveness
  <2>1. PICK p \in 1..n : group[p] = row
    BY <1>1 DEF Enumerates
  <2>2. row.effectiveness \in Nat /\ group[1].effectiveness \in Nat
    BY <1>4, <1>7, RowFields
  <2>3. CASE p = 1
    BY <2>1, <2>2, <2>3
  <2>4. CASE p # 1
    <3>1. <<group[1], row>> \in less
      BY <1>1, <1>7, <2>1, <2>4 DEF Enumerates
    <3>2. row.effectiveness < group[1].effectiveness
          \/ row.effectiveness = group[1].effectiveness
      BY <1>4, <1>7, <2>2, <3>1, BetterIs DEF less
    <3> QED BY <2>2, <3>2
  <2> QED BY <2>3, <2>4
<1> QED BY <1>3, <1>5, <1>6, <1>7, <1>8 DEF V, group, n

\* One safeguard is retained for each key, the best.
LEMMA RetainedAreBest ==
  ASSUME NEW ss \in Listing, NEW reference \in Nat
  PROVE  LET C == Counting(ToSet(ss), reference)
             K == Keys(ss, reference)
             n == Cardinality(K)
             retained == Retained(ss, reference) IN
         /\ n \in Nat /\ retained \in [1..n -> C] /\ DOMAIN retained = 1..n
         /\ Len(retained) = n /\ retained \in Seq(Rows)
         /\ \A p \in 1..n : /\ retained[p].key = Ascending(K)[p]
                            /\ retained[p] = Group(Ascending(K)[p], ss, reference)[1]
                            /\ \A row \in C : row.key = Ascending(K)[p] =>
                                 row.effectiveness <= retained[p].effectiveness
<1> DEFINE C == Counting(ToSet(ss), reference)
           K == Keys(ss, reference)
           n == Cardinality(K)
           keys == Ascending(K)
           retained == Retained(ss, reference)
<1>1. n \in Nat /\ keys \in [1..n -> K] /\ DOMAIN keys = 1..n
  BY KeysEnumerate
<1>2. retained = [p \in 1..n |-> Group(keys[p], ss, reference)[1]]
  BY <1>1 DEF Retained
<1> HIDE DEF n, keys
<1>3. ASSUME NEW p \in 1..n
      PROVE  /\ retained[p] \in C
             /\ retained[p] = Group(keys[p], ss, reference)[1]
             /\ retained[p].key = keys[p]
             /\ \A row \in C : row.key = keys[p] =>
                  row.effectiveness <= retained[p].effectiveness
  <2> DEFINE V == OfKey(keys[p], C)
             best == Group(keys[p], ss, reference)[1]
  <2>1. keys[p] \in K
    BY <1>1
  <2>2. best \in V /\ \A row \in V : row.effectiveness <= best.effectiveness
    BY <2>1, FirstOfGroupIsBest
  <2>3. retained[p] = best
    BY <1>2
  <2> HIDE DEF best, C, retained
  <2>4. best \in C /\ best.key = keys[p]
    BY <2>2 DEF OfKey
  <2>5. \A row \in C : row.key = keys[p] => row.effectiveness <= best.effectiveness
    BY <2>2 DEF OfKey
  <2> QED BY <2>3, <2>4, <2>5 DEF best
<1> HIDE DEF retained
<1>4. retained \in [1..n -> C]
  BY <1>2, <1>3
<1>5. C \in SUBSET Rows
  BY ListingFacts DEF Counting
<1>6. retained \in Seq(Rows) /\ Len(retained) = n
  <2> HIDE DEF C
  <2>1. retained \in [1..n -> Rows]
    BY <1>4, <1>5
  <2> QED BY <1>1, <2>1, SeqDef, LenProperties
<1> QED BY <1>1, <1>3, <1>4, <1>6 DEF n, keys, retained

-----------------------------------------------------------------------------
(* What the score counts.                                                  *)

\* The days that are above a bound at each of the n keys.
AboveAt(K, n, keys, low) == {d \in [K -> 1..Scale] : \A p \in 1..n : low[p] < d[keys[p]]}

LEMMA CountDays ==
  ASSUME NEW K, NEW n \in Nat, NEW keys \in [1..n -> K],
         \A key \in K : \E p \in 1..n : keys[p] = key,
         \A p, q \in 1..n : keys[p] = keys[q] => p = q,
         NEW low \in [1..n -> 0..Scale]
  PROVE  /\ IsFiniteSet(AboveAt(K, n, keys, low))
         /\ Cardinality(AboveAt(K, n, keys, low)) = Product(Rest(n, low))
<1> DEFINE days == {d \in [K -> 1..Scale] : \A p \in 1..n : low[p] < d[keys[p]]}
           A == Over(n, low)
           place(key) == CHOOSE p \in 1..n : keys[p] = key
           h == [a \in A |-> [key \in K |-> a[place(key)]]]
<1>1. \A key \in K : place(key) \in 1..n /\ keys[place(key)] = key
  OBVIOUS
<1>2. \A p \in 1..n : place(keys[p]) = p
  BY <1>1
<1> HIDE DEF place
<1>3. \A a \in A : a \in [1..n -> 1..Scale] /\ \A p \in 1..n : low[p] < a[p]
  BY DEF Over
<1> HIDE DEF A
<1>4. \A a \in A : h[a] \in days
  BY <1>1, <1>2, <1>3
<1>5. h \in [A -> days]
  BY <1>4
<1>6. ASSUME NEW a \in A, NEW b \in A, h[a] = h[b] PROVE a = b
  <2>1. \A p \in 1..n : h[a][keys[p]] = a[p] /\ h[b][keys[p]] = b[p]
    BY <1>2
  <2> HIDE DEF h
  <2>2. \A p \in 1..n : a[p] = b[p]
    BY <1>6, <2>1
  <2> QED BY <1>3, <2>2
<1>7. ASSUME NEW d \in days PROVE \E a \in A : h[a] = d
  <2> DEFINE a == [p \in 1..n |-> d[keys[p]]]
  <2>1. a \in A
    BY DEF A, Over
  <2>2. h[a] = [key \in K |-> d[key]]
    BY <1>1, <2>1
  <2> QED BY <2>1, <2>2
<1> HIDE DEF h, days
<1>8. h \in Bijection(A, days)
  BY <1>5, <1>6, <1>7, Fun_IsBij
<1>9. IsFiniteSet(A) /\ Cardinality(A) = Product(Rest(n, low))
  BY CountOver DEF A
<1> QED BY <1>8, <1>9, FS_Bijection, Fun_ExistsBij DEF days, AboveAt

\* The whole is the number of days, and what remains that of the unprotected days.
LEMMA ScoreCounts ==
  ASSUME NEW ss \in Listing, NEW reference \in Nat
  PROVE  LET C == Counting(ToSet(ss), reference)
             K == Keys(ss, reference)
             retained == Retained(ss, reference) IN
         /\ IsFiniteSet(Days(K)) /\ Cardinality(Days(K)) = Whole(retained)
         /\ IsFiniteSet(Unprotected(C, K))
         /\ Cardinality(Unprotected(C, K)) = Remaining(retained)
<1> DEFINE C == Counting(ToSet(ss), reference)
           K == Keys(ss, reference)
           n == Cardinality(K)
           keys == Ascending(K)
           retained == Retained(ss, reference)
           none == [p \in 1..n |-> 0]
           low == [p \in 1..n |-> retained[p].effectiveness]
<1>1. /\ n \in Nat /\ keys \in [1..n -> K] /\ \A key \in K : \E p \in 1..n : keys[p] = key
  BY KeysEnumerate
<1>2. \A p, q \in 1..n : keys[p] = keys[q] => p = q
  BY <1>1, KeysEnumerate, EnumeratesOnce
<1>3. /\ retained \in [1..n -> C] /\ DOMAIN retained = 1..n
      /\ \A p \in 1..n : retained[p].key = keys[p] /\ \A row \in C : row.key = keys[p] =>
           row.effectiveness <= retained[p].effectiveness
  BY RetainedAreBest
<1>4. C \in SUBSET Rows /\ K = {row.key : row \in C}
  BY ListingFacts, EligibleRows DEF Counting
<1>5. Scale \in Nat \ {0}
  BY ConstantsAssumption
<1> HIDE DEF C, K, n, keys, retained
<1>6. \A row \in C :
        row.effectiveness \in 1..Scale /\ row.effectiveness \in Nat /\ row.key \in K
  BY <1>4, RowFields
<1>7. none \in [1..n -> 0..Scale] /\ low \in [1..n -> 0..Scale]
  BY <1>3, <1>5, <1>6
<1>8. IsFiniteSet(Days(K)) /\ Cardinality(Days(K)) = Whole(retained)
  <2> DEFINE days == AboveAt(K, n, keys, none)
  <2>1. days = Days(K)
    BY <1>1, <1>5 DEF Days, AboveAt
  <2>2. Rest(n, none) = [p \in DOMAIN retained |-> Scale]
    BY <1>3, <1>5 DEF Rest
  <2> HIDE DEF none
  <2>3. IsFiniteSet(days) /\ Cardinality(days) = Product(Rest(n, none))
    BY <1>1, <1>2, <1>7, CountDays
  <2> QED BY <2>1, <2>2, <2>3 DEF Whole
<1>9. IsFiniteSet(Unprotected(C, K)) /\ Cardinality(Unprotected(C, K)) = Remaining(retained)
  <2> DEFINE days == AboveAt(K, n, keys, low)
  <2>1. ASSUME NEW d \in [K -> 1..Scale]
        PROVE  (\A p \in 1..n : low[p] < d[keys[p]])
                 <=> \A row \in C : row.effectiveness < d[row.key]
    <3>1. ASSUME \A p \in 1..n : low[p] < d[keys[p]], NEW row \in C
          PROVE  row.effectiveness < d[row.key]
      <4>1. PICK p \in 1..n : keys[p] = row.key
        BY <1>1, <1>6
      <4>2. row.effectiveness <= low[p] /\ low[p] < d[row.key]
        BY <1>3, <3>1, <4>1
      <4>3. row.effectiveness \in Nat /\ low[p] \in Nat /\ d[row.key] \in Nat
        BY <1>3, <1>6
      <4> QED BY <4>2, <4>3
    <3>2. ASSUME \A row \in C : row.effectiveness < d[row.key], NEW p \in 1..n
          PROVE  low[p] < d[keys[p]]
      BY <1>3, <3>2
    <3> QED BY <3>1, <3>2
  <2>2. days = Unprotected(C, K)
    BY <2>1 DEF Unprotected, Days, AboveAt
  <2>3. Rest(n, low) = [p \in DOMAIN retained |-> Scale - retained[p].effectiveness]
    BY <1>3 DEF Rest
  <2> HIDE DEF low
  <2>4. IsFiniteSet(days) /\ Cardinality(days) = Product(Rest(n, low))
    BY <1>1, <1>2, <1>7, CountDays
  <2> QED BY <2>2, <2>3, <2>4 DEF Remaining
<1> QED BY <1>8, <1>9 DEF C, K, n, keys, retained

-----------------------------------------------------------------------------
(* Rounding.                                                               *)

\* The float64s about q, with none in between, and how far apart they are.
LEMMA Neighbours ==
  ASSUME NEW q \in 0..(26 * One - 1)
  PROVE  LET a == Down(q)
             b == Up(q) IN
         /\ a \in Floats /\ b \in Floats /\ a \in Nat /\ b \in Nat /\ a <= q /\ q < b
         /\ \A f \in Floats : f <= a \/ b <= f
         /\ b - a <= 32 * Gap /\ (q < One => b - a <= Gap)
<1> DEFINE Is(k) == /\ k \in 0..(32 * Gap) /\ q - k \in Floats
                    /\ \A j \in 0..(k - 1) : q - j \notin Floats
           IsUp(k) == /\ k \in 1..(32 * Gap) /\ q + k \in Floats
                      /\ \A j \in 1..(k - 1) : q + j \notin Floats
<1>0. /\ One \in Nat \ {0} /\ Gap \in Nat \ {0} /\ Floats \subseteq Nat /\ 0 \in Floats
      /\ q \in Nat /\ q < 26 * One
  <2>1. One \in Nat \ {0} /\ Gap \in Nat \ {0} /\ Floats \subseteq Nat
    BY FloatsAssumption
  <2>2. 0 * One \in Floats
    BY FloatsAssumption
  <2> QED BY <2>1, <2>2
<1>1. PICK f \in Floats : f <= q /\ \A g \in Floats : g <= q => g <= f
  <2> DEFINE S == {k \in 0..q : q - k \in Floats}
  <2>1. S \in SUBSET Nat /\ q \in S
    BY <1>0
  <2>2. PICK k \in S : \A j \in S : k <= j
    BY <2>1, LeastNumber
  <2>3. k \in Nat /\ q - k \in Floats /\ q - k <= q
    BY <1>0, <2>2
  <2>4. ASSUME NEW g \in Floats, g <= q PROVE g <= q - k
    <3>1. g \in Nat /\ q - (q - g) = g /\ q - g \in 0..q
      BY <1>0, <2>4
    <3>2. q - g \in S
      BY <3>1
    <3>3. k <= q - g
      BY <2>2, <3>2
    <3> QED BY <1>0, <2>3, <3>1, <3>3
  <2> QED BY <2>3, <2>4
<1>2. PICK k \in 1..(32 * Gap) : f + k \in Floats
  <2>1. f \in 0..(26 * One - 1)
    BY <1>0, <1>1
  <2> QED BY <2>1, FloatsAssumption
<1>3. f \in Nat /\ q < f + k
  BY <1>0, <1>1, <1>2
<1>4. Is(q - f)
  <2>1. q - f \in 0..(32 * Gap) /\ q - (q - f) = f
    BY <1>0, <1>1, <1>2, <1>3
  <2>2. ASSUME NEW j \in 0..(q - f - 1) PROVE ~(q - j \in Floats)
    BY <1>0, <1>1, <1>3, <2>2
  <2> QED BY <1>1, <2>1, <2>2
<1> DEFINE down == CHOOSE i \in 0..(32 * Gap) :
                     q - i \in Floats /\ \A j \in 0..(i - 1) : q - j \notin Floats
<1>5. Is(down)
  BY <1>4
<1>6. Down(q) = q - down
  BY DEF Down
<1> HIDE DEF down
<1>7. Down(q) = f
  <2>1. down \in Nat /\ q - down \in Floats /\ q - down <= q
    BY <1>0, <1>5
  <2>2. q - down <= f
    BY <1>1, <2>1
  <2>3. ~(q - f < down)
    <3>1. q - f < down => q - f \in 0..(down - 1) /\ q - (q - f) = f
      BY <1>0, <1>1, <1>3, <2>1
    <3> QED BY <1>1, <1>5, <3>1
  <2> QED BY <1>0, <1>3, <1>6, <2>1, <2>2, <2>3
<1>8. PICK g \in Floats : q < g /\ \A h \in Floats : q < h => g <= h
  <2> DEFINE S == {h \in Floats : q < h}
  <2>1. S \in SUBSET Nat /\ f + k \in S
    BY <1>0, <1>2, <1>3
  <2>2. PICK g \in S : \A h \in S : g <= h
    BY <2>1, LeastNumber
  <2> QED BY <2>2
<1>9. g \in Nat /\ g <= f + k /\ g - f <= 32 * Gap
  BY <1>0, <1>2, <1>3, <1>8
<1>10. IsUp(g - q)
  <2>1. g - q \in 1..(32 * Gap) /\ q + (g - q) = g
    BY <1>0, <1>1, <1>3, <1>8, <1>9
  <2>2. ASSUME NEW j \in 1..(g - q - 1) PROVE q + j \notin Floats
    BY <1>0, <1>8, <1>9, <2>2
  <2> QED BY <1>8, <2>1, <2>2
<1> DEFINE up == CHOOSE i \in 1..(32 * Gap) :
                   q + i \in Floats /\ \A j \in 1..(i - 1) : q + j \notin Floats
<1>11. IsUp(up)
  BY <1>10
<1>12. Up(q) = q + up
  BY DEF Up
<1> HIDE DEF up
<1>13. Up(q) = g
  <2>1. up \in Nat /\ q + up \in Floats /\ q < q + up
    BY <1>0, <1>11
  <2>2. g <= q + up
    BY <1>8, <2>1
  <2>3. ~(g - q < up)
    <3>1. g - q < up => g - q \in 1..(up - 1) /\ q + (g - q) = g
      BY <1>0, <1>8, <1>9, <2>1
    <3> QED BY <1>8, <1>11, <3>1
  <2> QED BY <1>0, <1>9, <1>12, <2>1, <2>2, <2>3
<1>14. \A h \in Floats : h <= f \/ g <= h
  BY <1>0, <1>1, <1>8, <1>9
<1>15. q < One => g - f <= Gap
  <2> SUFFICES ASSUME q < One PROVE g - f <= Gap
    OBVIOUS
  <2>1. PICK i \in 1..Gap : f + i \in Floats
    <3>1. f \in 0..(One - 1)
      BY <1>0, <1>1
    <3> QED BY <3>1, FloatsAssumption
  <2>2. q < f + i
    BY <1>0, <1>1, <1>3, <2>1
  <2> QED BY <1>0, <1>3, <1>8, <1>9, <2>1, <2>2
<1> QED BY <1>1, <1>3, <1>7, <1>8, <1>9, <1>13, <1>14, <1>15

\* What can be rounded.
Roundable(n, d) == n \in Nat /\ d \in Nat \ {0} /\ n < (26 * One) * d

\* A number lies between its neighbours, and the nearest float64 is one of them.
LEMMA NearestIs ==
  ASSUME NEW n, NEW d, Roundable(n, d)
  PROVE  LET q == n \div d
             a == Down(q)
             b == Up(q)
             r == Nearest(n, d) IN
         /\ q \in 0..(26 * One - 1) /\ q * d <= n /\ n < q * d + d
         /\ a * d <= n /\ n < b * d /\ (a + b) * d = a * d + b * d
         /\ a * d \in Nat /\ b * d \in Nat
         /\ IF 2 * n < a * d + b * d \/ (2 * n = a * d + b * d /\ a % (2 * (b - a)) = 0)
            THEN r = a ELSE r = b
<1> DEFINE q == n \div d
           a == Down(q)
           b == Up(q)
<1>1. n \in Nat /\ d \in Nat \ {0} /\ n < (26 * One) * d /\ One \in Nat
  BY FloatsAssumption DEF Roundable
<1>2. q \in Nat /\ q * d <= n /\ n < q * d + d
  BY <1>1
<1> HIDE DEF q
<1>3. q \in 0..(26 * One - 1)
  <2> DEFINE top == 26 * One
  <2>1. top \in Nat /\ n < top * d
    BY <1>1
  <2> HIDE DEF top
  <2>2. ASSUME top <= q PROVE FALSE
    <3>1. top * d <= q * d
      BY <1>1, <1>2, <2>1, <2>2, AtMostByFactor
    <3> QED BY <1>1, <1>2, <2>1, <3>1
  <2>3. q < top
    BY <1>2, <2>1, <2>2
  <2> QED BY <1>1, <1>2, <2>3 DEF top
<1>4. a \in Nat /\ b \in Nat /\ a <= q /\ q + 1 <= b
  BY <1>2, <1>3, Neighbours
<1>6. Nearest(n, d) = IF \/ 2 * n < (a + b) * d
                         \/ 2 * n = (a + b) * d /\ a % (2 * (b - a)) = 0 THEN a ELSE b
  BY DEF Nearest, q
<1> HIDE DEF a, b
<1>7. a * d <= q * d /\ (q + 1) * d <= b * d
  BY <1>1, <1>2, <1>4, AtMostByFactor
<1>8. (q + 1) * d = q * d + d /\ (a + b) * d = a * d + b * d
  BY <1>1, <1>2, <1>4
<1>9. a * d \in Nat /\ b * d \in Nat /\ q * d \in Nat
  BY <1>1, <1>2, <1>4
<1>10. a * d <= n /\ n < b * d
  BY <1>1, <1>2, <1>7, <1>8, <1>9
<1> QED BY <1>2, <1>3, <1>6, <1>8, <1>9, <1>10 DEF q, a, b

\* Rounding gives a float64, keeps float64s, and does not pass one.
LEMMA NearestIsFloat ==
  ASSUME NEW n, NEW d, Roundable(n, d)
  PROVE  /\ Nearest(n, d) \in Floats /\ Nearest(n, d) \in Nat
         /\ \A f \in Floats : /\ n <= f * d => Nearest(n, d) <= f
                              /\ f * d <= n => f <= Nearest(n, d)
<1> DEFINE q == n \div d
           a == Down(q)
           b == Up(q)
           r == Nearest(n, d)
<1>1. /\ q \in 0..(26 * One - 1) /\ a * d <= n /\ n < b * d
      /\ a * d \in Nat /\ b * d \in Nat
      /\ 2 * n < a * d + b * d => r = a
      /\ r = a \/ r = b
  BY NearestIs
<1>2. n \in Nat /\ d \in Nat \ {0} /\ Floats \subseteq Nat
  BY FloatsAssumption DEF Roundable
<1>3. /\ a \in Floats /\ b \in Floats /\ a \in Nat /\ b \in Nat /\ a < b
      /\ \A f \in Floats : f <= a \/ b <= f
  <2> HIDE DEF q
  <2>1. /\ a \in Floats /\ b \in Floats /\ a \in Nat /\ b \in Nat /\ a <= q /\ q < b
        /\ \A f \in Floats : f <= a \/ b <= f
    BY <1>1, Neighbours
  <2>2. q \in Nat
    BY <1>1
  <2> QED BY <2>1, <2>2
<1> HIDE DEF q, a, b, r
<1>4. ASSUME NEW f \in Floats, n <= f * d PROVE r <= f
  <2>1. f \in Nat /\ f * d \in Nat
    BY <1>2
  <2>2. CASE b <= f
    BY <1>1, <1>3, <2>1, <2>2
  <2>3. CASE f <= a
    <3>1. f * d <= a * d
      BY <1>2, <1>3, <2>1, <2>3, AtMostByFactor
    <3>2. a * d = n /\ f * d = a * d
      BY <1>1, <1>2, <1>4, <2>1, <3>1
    <3>3. r = a
      BY <1>1, <1>2, <3>2
    <3>4. ~(f < a)
      BY <1>2, <1>3, <2>1, <3>2
    <3> QED BY <1>3, <2>1, <2>3, <3>3, <3>4
  <2> QED BY <1>3, <2>2, <2>3
<1>5. ASSUME NEW f \in Floats, f * d <= n PROVE f <= r
  <2>1. f \in Nat /\ f * d \in Nat
    BY <1>2
  <2>2. ~(b <= f)
    <3>1. b <= f => b * d <= f * d
      BY <1>2, <1>3, <2>1, AtMostByFactor
    <3> QED BY <1>1, <1>2, <1>5, <2>1, <3>1
  <2> QED BY <1>1, <1>3, <2>1, <2>2
<1> QED BY <1>1, <1>3, <1>4, <1>5 DEF r

\* Rounding keeps the order.
LEMMA NearestGrows ==
  ASSUME NEW n, NEW m, NEW d, Roundable(n, d), Roundable(m, d), n <= m
  PROVE  Nearest(n, d) <= Nearest(m, d)
<1> DEFINE a == Down(m \div d)
           b == Up(m \div d)
           r == Nearest(n, d)
           t == Nearest(m, d)
<1> SUFFICES r <= t
  OBVIOUS
<1>1. /\ n \in Nat /\ m \in Nat /\ d \in Nat \ {0}
      /\ r \in Nat /\ t \in Nat /\ r \in Floats /\ t \in Floats
  BY NearestIsFloat DEF Roundable
<1>2. \A f \in Floats : (n <= f * d => r <= f) /\ (f * d <= n => f <= r)
  BY NearestIsFloat
<1>3. /\ m \div d \in 0..(26 * One - 1) /\ a * d <= m /\ m < b * d
      /\ a * d \in Nat /\ b * d \in Nat
      /\ IF 2 * m < a * d + b * d \/ (2 * m = a * d + b * d /\ a % (2 * (b - a)) = 0)
         THEN t = a ELSE t = b
  BY NearestIs
<1>4. a \in Floats /\ b \in Floats /\ a \in Nat /\ b \in Nat /\ \A f \in Floats : f <= a \/ b <= f
  BY <1>3, Neighbours
<1> HIDE DEF a, b, r, t
<1>5. CASE t = b
  BY <1>1, <1>2, <1>3, <1>4, <1>5
<1>6. CASE t = a /\ n <= a * d
  BY <1>2, <1>4, <1>6
<1>7. CASE t = a /\ ~(n <= a * d)
  <2> DEFINE x == Down(n \div d)
             y == Up(n \div d)
  <2>1. /\ n \div d \in 0..(26 * One - 1) /\ x * d <= n /\ n < y * d
        /\ x * d \in Nat /\ y * d \in Nat
        /\ IF 2 * n < x * d + y * d \/ (2 * n = x * d + y * d /\ x % (2 * (y - x)) = 0)
           THEN r = x ELSE r = y
    BY NearestIs DEF r
  <2>2. x \in Floats /\ y \in Floats /\ x \in Nat /\ y \in Nat /\ \A f \in Floats : f <= x \/ y <= f
    BY <2>1, Neighbours
  <2> HIDE DEF x, y
  <2>3. ~(y <= a) /\ ~(b <= x)
    <3>1. y <= a => y * d <= a * d
      BY <1>1, <1>4, <2>2, AtMostByFactor
    <3>2. b <= x => b * d <= x * d
      BY <1>1, <1>4, <2>2, AtMostByFactor
    <3> QED BY <1>1, <1>3, <1>7, <2>1, <3>1, <3>2
  <2>4. a = x
    BY <1>4, <2>2, <2>3
  <2>5. b = y
    <3>1. b <= x \/ y <= b
      BY <1>4, <2>2
    <3>2. y <= a \/ b <= y
      BY <1>4, <2>2
    <3> QED BY <1>4, <2>2, <2>3, <3>1, <3>2
  <2>6. a # b
    BY <1>3, <1>1
  <2>7. 2 * m < a * d + b * d \/ (2 * m = a * d + b * d /\ a % (2 * (b - a)) = 0)
    BY <1>3, <1>7, <2>6
  <2>8. 2 * n < a * d + b * d \/ (2 * n = a * d + b * d /\ a % (2 * (b - a)) = 0)
    <3> DEFINE Even == a % (2 * (b - a)) = 0
    <3>1. 2 * m < a * d + b * d \/ (2 * m = a * d + b * d /\ Even)
      BY <2>7
    <3> HIDE DEF Even
    <3>2. 2 * n < a * d + b * d \/ (2 * n = a * d + b * d /\ Even)
      BY <1>1, <1>3, <3>1
    <3> QED BY <3>2 DEF Even
  <2>9. r = a
    BY <2>1, <2>4, <2>5, <2>8
  <2> QED BY <1>4, <1>7, <2>9
<1> QED BY <1>3, <1>5, <1>6, <1>7

\* How far rounding goes, in halves.
LEMMA NearestIsWithin ==
  ASSUME NEW n, NEW d, Roundable(n, d)
  PROVE  /\ Within(2 * (Nearest(n, d) * d), 2 * n, (32 * Gap) * d)
         /\ n <= One * d => Within(2 * (Nearest(n, d) * d), 2 * n, Gap * d)
<1> DEFINE q == n \div d
           a == Down(q)
           b == Up(q)
           r == Nearest(n, d)
<1>1. /\ q \in 0..(26 * One - 1) /\ q * d <= n /\ a * d <= n /\ n < b * d
      /\ a * d \in Nat /\ b * d \in Nat
      /\ 2 * n < a * d + b * d => r = a
      /\ r = b => 2 * n >= a * d + b * d
      /\ r = a => 2 * n <= a * d + b * d
      /\ r = a \/ r = b
  <2>1. /\ q \in 0..(26 * One - 1) /\ q * d <= n /\ a * d <= n /\ n < b * d
        /\ a * d \in Nat /\ b * d \in Nat
        /\ IF 2 * n < a * d + b * d \/ (2 * n = a * d + b * d /\ a % (2 * (b - a)) = 0)
           THEN r = a ELSE r = b
    BY NearestIs
  <2>2. n \in Nat
    BY DEF Roundable
  <2>3. a # b
    BY <2>1, <2>2
  <2> HIDE DEF a, b, r, q
  <2> QED BY <2>1, <2>2, <2>3
<1>2. n \in Nat /\ d \in Nat \ {0} /\ Gap \in Nat \ {0} /\ One \in Nat \ {0}
  BY FloatsAssumption DEF Roundable
<1>3. /\ a \in Nat /\ b \in Nat /\ b - a <= 32 * Gap
      /\ q < One => b - a <= Gap
  <2> HIDE DEF q
  <2> QED BY <1>1, Neighbours
<1>4. q \in Nat /\ a < b
  <2>1. ~(b <= a)
    <3>1. b <= a => b * d <= a * d
      BY <1>2, <1>3, AtMostByFactor
    <3> QED BY <1>1, <1>2, <3>1
  <2> QED BY <1>1, <1>3, <2>1
<1> HIDE DEF q, a, b, r
<1>5. ASSUME NEW gap \in Nat, b - a <= gap
      PROVE  Within(2 * (r * d), 2 * n, gap * d)
  <2>1. b - a \in Nat /\ (b - a) * d <= gap * d
    BY <1>2, <1>3, <1>4, <1>5, AtMostByFactor
  <2>2. (b - a) * d = b * d - a * d
    BY <1>2, <1>3
  <2>3. gap * d \in Nat
    BY <1>2
  <2>4. CASE r = a
    BY <1>1, <1>2, <2>1, <2>2, <2>3, <2>4 DEF Within
  <2>5. CASE r = b
    BY <1>1, <1>2, <2>1, <2>2, <2>3, <2>5 DEF Within
  <2> QED BY <1>1, <2>4, <2>5
<1>6. Within(2 * (r * d), 2 * n, (32 * Gap) * d)
  <2>1. 32 * Gap \in Nat
    BY <1>2
  <2> QED BY <1>3, <1>5, <2>1
<1>7. ASSUME n <= One * d PROVE Within(2 * (r * d), 2 * n, Gap * d)
  <2>1. CASE q < One
    BY <1>2, <1>3, <1>5, <2>1
  <2>2. CASE ~(q < One)
    <3>1. One * d <= q * d
      BY <1>2, <1>4, <2>2, AtMostByFactor
    <3>2. n = One * d
      BY <1>1, <1>2, <1>4, <1>7, <3>1
    <3>3. One \in Floats
      <4>1. 1 * One \in Floats
        BY FloatsAssumption
      <4> QED BY <1>2, <4>1
    <3>4. r = One
      <4>1. r <= One /\ One <= r /\ r \in Nat
        BY <1>2, <3>2, <3>3, NearestIsFloat DEF r
      <4> QED BY <1>2, <4>1
    <3>5. Gap * d \in Nat /\ One * d \in Nat
      BY <1>2
    <3> QED BY <3>2, <3>4, <3>5 DEF Within
  <2> QED BY <2>1, <2>2
<1> QED BY <1>6, <1>7 DEF r

\* Numbers that are close, scaled, one after the other, and scaled back.
LEMMA WithinScaled ==
  ASSUME NEW x \in Nat, NEW y \in Nat, NEW e \in Nat, NEW c \in Nat, Within(x, y, e)
  PROVE  Within(x * c, y * c, e * c)
<1>1. x \in Nat /\ y + e \in Nat /\ x <= y + e /\ y <= x + e /\ x + e \in Nat
  BY DEF Within
<1>2. x * c <= (y + e) * c /\ y * c <= (x + e) * c
  BY <1>1, AtMostByFactor
<1>3. (y + e) * c = y * c + e * c /\ (x + e) * c = x * c + e * c
  OBVIOUS
<1> QED BY <1>2, <1>3 DEF Within

LEMMA WithinInTurn ==
  ASSUME NEW x \in Nat, NEW y \in Nat, NEW z \in Nat, NEW e \in Nat, NEW f \in Nat,
         Within(x, y, e), Within(y, z, f)
  PROVE  Within(x, z, e + f)
BY DEF Within

LEMMA WithinDivided ==
  ASSUME NEW x \in Nat, NEW y \in Nat, NEW e \in Nat, NEW c \in Nat \ {0},
         Within(x * c, y * c, e * c)
  PROVE  Within(x, y, e)
<1>1. (y + e) * c = y * c + e * c /\ (x + e) * c = x * c + e * c
  OBVIOUS
<1>2. ~((y + e) * c < x * c) /\ ~((x + e) * c < y * c)
  <2>1. x * c \in Nat /\ y * c \in Nat /\ e * c \in Nat
    OBVIOUS
  <2> QED BY <1>1, <2>1 DEF Within
<1>3. ASSUME NEW a \in Nat, NEW b \in Nat, a < b PROVE a * c < b * c
  BY <1>3
<1>4. y + e \in Nat /\ x + e \in Nat
  OBVIOUS
<1>5. ~(y + e < x) /\ ~(x + e < y)
  BY <1>2, <1>3, <1>4
<1> QED BY <1>4, <1>5 DEF Within

\* The constants.
LEMMA FloatConstants ==
  /\ One \in Nat \ {0} /\ Gap \in Nat \ {0} /\ Scale \in Nat \ {0}
  /\ One \in Floats /\ One \div 2 \in Floats /\ 2 * (One \div 2) = One /\ One \div 2 \in Nat
  /\ \A n \in 0..26 : n * One \in Floats
<1>1. One \in Nat \ {0} /\ Gap \in Nat \ {0} /\ Scale \in Nat \ {0}
  BY FloatsAssumption, ConstantsAssumption
<1>2. One \div 2 \in Floats /\ 2 * (One \div 2) = One /\ One \div 2 \in Nat
  BY FloatsAssumption
<1>3. \A n \in 0..26 : n * One \in Floats
  BY FloatsAssumption
<1>4. 1 * One \in Floats
  BY <1>3
<1> QED BY <1>1, <1>2, <1>3, <1>4

\* Parts of one as such.
LEMMA PartsAreRoundable ==
  ASSUME NEW x \in 0..One
  PROVE  /\ Roundable(x, 1) /\ Nearest(x, 1) \in 0..One /\ Nearest(x, 1) \in Floats
         /\ x \in Floats => Nearest(x, 1) = x
         /\ Within(2 * Nearest(x, 1), 2 * x, Gap)
<1> DEFINE r == Nearest(x, 1)
<1>1. Roundable(x, 1)
  BY FloatConstants DEF Roundable
<1>2. r \in Floats /\ r \in Nat /\ \A f \in Floats : (x <= f * 1 => r <= f) /\ (f * 1 <= x => f <= r)
  BY <1>1, NearestIsFloat
<1>3. Within(2 * (r * 1), 2 * x, Gap * 1)
  <2>1. x <= One * 1
    BY FloatConstants
  <2> QED BY <1>1, <2>1, NearestIsWithin
<1> HIDE DEF r
<1>4. r <= One
  BY <1>2, FloatConstants
<1>5. x \in Floats => r = x
  <2>1. x \in Floats => r <= x /\ x <= r
    BY <1>2, FloatConstants
  <2> QED BY <1>2, <2>1, FloatConstants
<1>6. Within(2 * r, 2 * x, Gap)
  BY <1>2, <1>3, FloatConstants DEF Within
<1> QED BY <1>1, <1>2, <1>4, <1>5, <1>6, FloatConstants DEF r

\* The product of two parts of one.
LEMMA ProductOfParts ==
  ASSUME NEW x \in 0..One, NEW y \in 0..One
  PROVE  LET r == Nearest(x * y, One) IN
         /\ Roundable(x * y, One) /\ r \in 0..One /\ r \in Floats
         /\ x \in Floats => r <= x
         /\ y \in Floats => r <= y
         /\ Within(2 * (r * One), 2 * (x * y), Gap * One)
<1> DEFINE r == Nearest(x * y, One)
           z == x * y
<1>1. One \in Nat \ {0} /\ One \in Floats /\ x \in Nat /\ y \in Nat /\ x <= One /\ y <= One
  BY FloatConstants
<1>2. z \in Nat /\ z <= One * One /\ z <= x * One /\ z <= y * One
  <2>1. x * y <= One * y /\ y * x <= One * x /\ y * One <= One * One
    BY <1>1, AtMostByFactor
  <2>2. x * y \in Nat /\ One * y \in Nat /\ One * x \in Nat /\ One * One \in Nat
        /\ x * y = y * x /\ One * y = y * One /\ One * x = x * One
    BY <1>1
  <2> QED BY <2>1, <2>2
<1>3. Roundable(z, One)
  <2>1. One * One \in Nat /\ One * One > 0 /\ (26 * One) * One = 26 * (One * One)
    BY <1>1
  <2> HIDE DEF z
  <2>2. z < 26 * (One * One)
    BY <1>2, <2>1
  <2> QED BY <1>1, <1>2, <2>1, <2>2 DEF Roundable
<1>4. r \in Floats /\ r \in Nat /\ \A f \in Floats : z <= f * One => r <= f
  BY <1>3, NearestIsFloat
<1>5. Within(2 * (r * One), 2 * z, Gap * One)
  BY <1>2, <1>3, NearestIsWithin
<1> HIDE DEF r, z
<1>6. r <= One /\ (x \in Floats => r <= x) /\ (y \in Floats => r <= y)
  BY <1>1, <1>2, <1>4
<1> QED BY <1>1, <1>3, <1>4, <1>5, <1>6 DEF r, z

\* What one safeguard leaves.
LEMMA FactorIs ==
  ASSUME NEW s, s.effectiveness \in 1..Scale
  PROVE  LET e == s.effectiveness
             f == Factor(s) IN
         /\ f \in 0..One /\ f \in Floats
         /\ Within(2 * (f * Scale), 2 * ((Scale - e) * One), (2 * Gap) * Scale)
         /\ 2 * e >= Scale => f <= One \div 2
<1> DEFINE e == s.effectiveness
           E == Nearest(e * One, Scale)
           f == Factor(s)
<1>1. /\ One \in Nat \ {0} /\ Gap \in Nat \ {0} /\ Scale \in Nat \ {0}
      /\ One \div 2 \in Floats /\ 2 * (One \div 2) = One /\ One \div 2 \in Nat
      /\ One \in Floats
  BY FloatConstants
<1>2. e \in Nat /\ e <= Scale
  BY <1>1
<1>3. e * One \in Nat /\ e * One <= One * Scale /\ Roundable(e * One, Scale)
  <2>1. e * One <= Scale * One
    BY <1>1, <1>2, AtMostByFactor
  <2>2. e * One \in Nat /\ Scale * One = One * Scale /\ One * Scale \in Nat /\ One * Scale > 0
        /\ (26 * One) * Scale = 26 * (One * Scale)
    BY <1>1, <1>2
  <2>3. e * One < 26 * (One * Scale)
    BY <2>1, <2>2
  <2> QED BY <1>1, <2>1, <2>2, <2>3 DEF Roundable
<1>4. /\ E \in Nat /\ E <= One
      /\ (One \div 2) * Scale <= e * One => One \div 2 <= E
      /\ Within(2 * (E * Scale), 2 * (e * One), Gap * Scale)
  BY <1>1, <1>3, NearestIsFloat, NearestIsWithin
<1>5. f = Nearest(One - E, 1)
  BY DEF Factor
<1> HIDE DEF e, E, f
<1>6. E \in 0..One /\ One - E \in 0..One
  <2>1. E \in Nat /\ E <= One
    BY <1>4
  <2> QED BY <1>1, <2>1
<1>7. f \in 0..One /\ f \in Floats /\ Within(2 * f, 2 * (One - E), Gap) /\ Roundable(One - E, 1)
  BY <1>5, <1>6, PartsAreRoundable
<1>8. 2 * e >= Scale => f <= One \div 2
  <2> DEFINE half == One \div 2
  <2>1. half \in Nat /\ 2 * half = One /\ half \in Floats
    BY <1>1
  <2> HIDE DEF half
  <2>2. ASSUME 2 * e >= Scale PROVE half * Scale <= e * One
    <3>1. Scale * half <= (2 * e) * half
      BY <1>1, <1>2, <2>1, <2>2, AtMostByFactor
    <3>2. Scale * half = half * Scale /\ (2 * e) * half = e * (2 * half)
      BY <1>1, <1>2, <2>1
    <3> QED BY <2>1, <3>1, <3>2
  <2>3. ASSUME 2 * e >= Scale PROVE One - E <= half * 1
    BY <1>1, <1>4, <2>1, <2>2, <2>3 DEF half
  <2>4. 2 * e >= Scale => f <= half
    BY <1>5, <1>7, <2>1, <2>3, NearestIsFloat
  <2> QED BY <2>4 DEF half
<1>9. Within(2 * (f * Scale), 2 * ((Scale - e) * One), (2 * Gap) * Scale)
  <2>1. Within((2 * f) * Scale, (2 * (One - E)) * Scale, Gap * Scale)
    <3>1. 2 * f \in Nat /\ 2 * (One - E) \in Nat /\ Gap \in Nat /\ Scale \in Nat
      BY <1>1, <1>6, <1>7
    <3> QED BY <1>7, <3>1, WithinScaled
  <2>2. /\ (2 * f) * Scale = 2 * (f * Scale)
        /\ (2 * (One - E)) * Scale = 2 * (One * Scale) - 2 * (E * Scale)
        /\ 2 * ((Scale - e) * One) = 2 * (One * Scale) - 2 * (e * One)
        /\ (2 * Gap) * Scale = Gap * Scale + Gap * Scale
    BY <1>1, <1>2, <1>6, <1>7
  <2>3. /\ f * Scale \in Nat /\ E * Scale \in Nat /\ e * One \in Nat /\ One * Scale \in Nat
        /\ Gap * Scale \in Nat
    BY <1>1, <1>2, <1>6, <1>7
  <2> QED BY <1>4, <2>1, <2>2, <2>3 DEF Within
<1> QED BY <1>7, <1>8, <1>9 DEF e, f

\* A more effective safeguard leaves no more.
LEMMA FactorGrows ==
  ASSUME NEW s, NEW t, s.effectiveness \in 1..Scale, t.effectiveness \in 1..Scale,
         s.effectiveness <= t.effectiveness
  PROVE  Factor(t) <= Factor(s)
<1> DEFINE a == s.effectiveness
           b == t.effectiveness
           A == Nearest(a * One, Scale)
           B == Nearest(b * One, Scale)
<1>1. One \in Nat \ {0} /\ Scale \in Nat \ {0} /\ One \in Floats
  BY FloatConstants
<1>2. ASSUME NEW e \in 1..Scale
      PROVE  /\ Roundable(e * One, Scale) /\ Nearest(e * One, Scale) \in 0..One
  <2>1. e * One <= Scale * One
    BY <1>1, AtMostByFactor
  <2>2. e * One \in Nat /\ Scale * One = One * Scale /\ One * Scale \in Nat /\ One * Scale > 0
        /\ (26 * One) * Scale = 26 * (One * Scale)
    BY <1>1
  <2>3. e * One < 26 * (One * Scale) /\ e * One <= One * Scale
    BY <2>1, <2>2
  <2>4. Roundable(e * One, Scale)
    BY <1>1, <2>2, <2>3 DEF Roundable
  <2>5. Nearest(e * One, Scale) \in Nat /\ Nearest(e * One, Scale) <= One
    BY <1>1, <2>3, <2>4, NearestIsFloat
  <2> QED BY <1>1, <2>4, <2>5
<1>3. A <= B
  <2>1. a * One <= b * One
    BY <1>1, AtMostByFactor
  <2> QED BY <1>2, <2>1, NearestGrows
<1>4. A \in 0..One /\ B \in 0..One
  BY <1>2
<1>5. Factor(s) = Nearest(One - A, 1) /\ Factor(t) = Nearest(One - B, 1)
  BY DEF Factor
<1> HIDE DEF A, B
<1>6. One - A \in 0..One /\ One - B \in 0..One /\ One - B <= One - A
  BY <1>1, <1>3, <1>4
<1> QED BY <1>5, <1>6, PartsAreRoundable, NearestGrows

-----------------------------------------------------------------------------
(* The probability that no safeguard works.                                *)

\* The probabilities after each of the first n safeguards.
IsChance(f, n, ss) ==
  /\ f \in [0..n -> 0..One]
  /\ f[0] = One /\ \A i \in 0..n : f[i] \in Floats
  /\ \A i \in 1..n : f[i] = Nearest(f[i - 1] * Factor(ss[i]), One)

\* A list of safeguards has such probabilities.
LEMMA PartialChances ==
  ASSUME NEW n \in Nat, NEW ss, \A i \in 1..n : ss[i].effectiveness \in 1..Scale
  PROVE  \E f : IsChance(f, n, ss)
<1> DEFINE S == {m \in 0..n : \E f : IsChance(f, m, ss)}
<1>1. 0 \in S
  <2>1. One \in 0..One /\ One \in Floats
    BY FloatConstants
  <2>2. IsChance([i \in 0..0 |-> One], 0, ss)
    BY <2>1 DEF IsChance
  <2> QED BY <2>2
<1>2. ASSUME NEW m \in 1..n, m - 1 \in S PROVE m \in S
  <2>1. PICK f : IsChance(f, m - 1, ss)
    BY <1>2
  <2> DEFINE last == Nearest(f[m - 1] * Factor(ss[m]), One)
             g == [i \in 0..m |-> IF i = m THEN last ELSE f[i]]
  <2>2. f \in [0..(m - 1) -> 0..One] /\ f[m - 1] \in 0..One
    BY <2>1 DEF IsChance
  <2>3. Factor(ss[m]) \in 0..One
    BY FactorIs
  <2>4. last \in 0..One /\ last \in Floats
    BY <2>2, <2>3, ProductOfParts
  <2>5. g \in [0..m -> 0..One]
    <3> HIDE DEF last
    <3> QED BY <2>2, <2>4
  <2>6. ASSUME NEW i \in 1..m PROVE g[i] = Nearest(g[i - 1] * Factor(ss[i]), One)
    <3>1. CASE i = m
      BY <3>1
    <3>2. CASE i # m
      BY <2>1, <3>2 DEF IsChance
    <3> QED BY <3>1, <3>2
  <2>7. g[0] = One /\ \A i \in 0..m : g[i] \in Floats
    <3> HIDE DEF last
    <3> QED BY <2>1, <2>4 DEF IsChance
  <2>8. IsChance(g, m, ss)
    <3> HIDE DEF g
    <3> QED BY <2>5, <2>6, <2>7 DEF IsChance
  <2> QED BY <2>8
<1>3. n \in 0..n
  OBVIOUS
<1> HIDE DEF S
<1>4. n \in S
  BY <1>1, <1>2, <1>3, Induction
<1> QED BY <1>4 DEF S

\* RemainingProbability is the last of them.
LEMMA RemainingProbabilityIs ==
  ASSUME NEW ss \in Seq(Rows), NEW n \in Nat, n = Len(ss)
  PROVE  /\ \A i \in 1..n : ss[i] \in Rows /\ ss[i].effectiveness \in 1..Scale
         /\ \E f : IsChance(f, n, ss) /\ RemainingProbability(ss) = f[n]
<1> DEFINE After(f) == f = [i \in 0..n |-> IF i = 0 THEN One
                                           ELSE Nearest(f[i - 1] * Factor(ss[i]), One)]
           after == CHOOSE f : After(f)
<1>1. \A i \in 1..n : ss[i] \in Rows /\ ss[i].effectiveness \in 1..Scale
  <2>1. \A i \in 1..n : ss[i] \in Rows
    BY ElementOfSeq
  <2>2. \A row \in Rows : row.effectiveness \in 1..Scale
    BY DEF Rows
  <2> QED BY <2>1, <2>2
<1>2. PICK f : IsChance(f, n, ss)
  BY <1>1, PartialChances
<1>3. After(f)
  <2>1. \A i \in 0..n : f[i] = IF i = 0 THEN One ELSE Nearest(f[i - 1] * Factor(ss[i]), One)
    BY <1>2 DEF IsChance
  <2> QED BY <1>2, <2>1 DEF IsChance
<1>4. After(after)
  BY <1>3
<1>5. RemainingProbability(ss) = after[n]
  BY DEF RemainingProbability
<1>6. IsChance(after, n, ss)
  <2> HIDE DEF after
  <2>1. \A i \in 0..n :
          after[i] = IF i = 0 THEN One ELSE Nearest(after[i - 1] * Factor(ss[i]), One)
    BY <1>4
  <2>2. after[0] = One /\ \A i \in 1..n : after[i] = Nearest(after[i - 1] * Factor(ss[i]), One)
    BY <2>1
  <2> DEFINE S == {i \in 0..n : after[i] \in 0..One /\ after[i] \in Floats}
  <2>3. 0 \in S
    <3>1. One \in 0..One /\ One \in Floats
      BY FloatConstants
    <3> QED BY <2>2, <3>1
  <2>4. ASSUME NEW i \in 1..n, i - 1 \in S PROVE i \in S
    <3>1. Factor(ss[i]) \in 0..One /\ after[i - 1] \in 0..One
      BY <1>1, <2>4, FactorIs
    <3> DEFINE r == Nearest(after[i - 1] * Factor(ss[i]), One)
    <3>2. r \in 0..One /\ r \in Floats
      BY <3>1, ProductOfParts
    <3>3. after[i] = r
      BY <2>2
    <3> HIDE DEF r
    <3> QED BY <3>2, <3>3
  <2>5. \A i \in 0..n : i \in S
    <3> HIDE DEF S
    <3> QED BY <2>3, <2>4, Induction
  <2>6. after \in [0..n -> 0..One]
    BY <1>4, <2>5
  <2> QED BY <2>2, <2>5, <2>6 DEF IsChance
<1> QED BY <1>1, <1>5, <1>6

\* No safeguard leaves more than its own share.
LEMMA RemainingAtMostFactor ==
  ASSUME NEW ss \in Seq(Rows), NEW n \in Nat, n = Len(ss), NEW k \in 1..n
  PROVE  RemainingProbability(ss) <= Factor(ss[k])
<1>1. PICK f : IsChance(f, n, ss) /\ RemainingProbability(ss) = f[n]
  BY RemainingProbabilityIs
<1>2. \A i \in 1..n : ss[i].effectiveness \in 1..Scale
  BY RemainingProbabilityIs
<1>3. \A i \in 1..n : /\ Factor(ss[i]) \in 0..One /\ Factor(ss[i]) \in Floats
                      /\ f[i - 1] \in 0..One /\ f[i - 1] \in Floats /\ f[i] \in 0..One
                      /\ f[i] = Nearest(f[i - 1] * Factor(ss[i]), One)
  <2> SUFFICES ASSUME NEW i \in 1..n
               PROVE  /\ Factor(ss[i]) \in 0..One /\ Factor(ss[i]) \in Floats
                      /\ f[i - 1] \in 0..One /\ f[i - 1] \in Floats /\ f[i] \in 0..One
                      /\ f[i] = Nearest(f[i - 1] * Factor(ss[i]), One)
    OBVIOUS
  <2>1. Factor(ss[i]) \in 0..One /\ Factor(ss[i]) \in Floats
    BY <1>2, FactorIs
  <2>2. i \in 0..n /\ i - 1 \in 0..n
    OBVIOUS
  <2> QED BY <1>1, <2>1, <2>2 DEF IsChance
<1>4. \A i \in 1..n : f[i] <= f[i - 1] /\ f[i] <= Factor(ss[i])
  BY <1>3, ProductOfParts
<1> DEFINE S == {i \in 0..n : i >= k => f[i] <= Factor(ss[k])}
<1>5. 0 \in S
  OBVIOUS
<1>6. ASSUME NEW i \in 1..n, i - 1 \in S PROVE i \in S
  <2>1. CASE i = k
    BY <1>4, <2>1
  <2>2. CASE i > k
    <3>1. f[i - 1] <= Factor(ss[k]) /\ f[i] <= f[i - 1]
      BY <1>4, <1>6, <2>2
    <3>2. f[i - 1] \in Nat /\ f[i] \in Nat /\ Factor(ss[k]) \in Nat
      BY <1>3
    <3> QED BY <3>1, <3>2
  <2>3. CASE i < k
    BY <2>3
  <2> QED BY <2>1, <2>2, <2>3
<1>7. \A i \in 0..n : i \in S
  <2> HIDE DEF S
  <2> QED BY <1>5, <1>6, Induction
<1> QED BY <1>1, <1>7

\* One more safeguard in the list, and its share, in exact numbers and in float64s.
LEMMA ErrorAfterOneMore ==
  ASSUME NEW r \in 0..One, NEW f \in 0..One, NEW next \in 0..One,
         NEW p \in Nat, NEW w \in Nat \ {0}, p <= w, NEW e \in 1..Scale, NEW slack \in Nat,
         Within(2 * (r * w), 2 * (p * One), slack * w),
         Within(2 * (f * Scale), 2 * ((Scale - e) * One), (2 * Gap) * Scale),
         Within(2 * (next * One), 2 * (r * f), Gap * One)
  PROVE  Within(2 * (next * (w * Scale)), 2 * ((p * (Scale - e)) * One),
                (slack + 3 * Gap) * (w * Scale))
<1>1. /\ One \in Nat \ {0} /\ Gap \in Nat /\ Scale \in Nat \ {0}
      /\ r \in Nat /\ f \in Nat /\ next \in Nat /\ e \in Nat
      /\ r <= One
  BY FloatConstants
<1> DEFINE s == Scale
           left == Scale - e
           ws == w * s
           x == 2 * (next * One)
           y == 2 * (r * f)
<1>2. s \in Nat \ {0} /\ left \in Nat /\ left <= s /\ ws \in Nat /\ ws > 0
  BY <1>1
<1> HIDE DEF s, left
\* next * One * ws and r * f * ws
<1>3. Within(x * ws, y * ws, (Gap * One) * ws)
  <2>1. x \in Nat /\ y \in Nat /\ Gap * One \in Nat
    BY <1>1
  <2> HIDE DEF x, y, ws
  <2>2. Within(x, y, Gap * One)
    BY DEF x, y
  <2> QED BY <1>2, <2>1, <2>2, WithinScaled
\* r * w * f * s and r * w * left * One
<1>4. Within(y * ws, (2 * (left * One)) * (r * w), (((2 * Gap) * One) * ws))
  <2> DEFINE a == 2 * (f * s)
             b == 2 * (left * One)
             c == r * w
             d == (2 * Gap) * s
  <2>1. a \in Nat /\ b \in Nat /\ c \in Nat /\ d \in Nat
    BY <1>1, <1>2
  <2>2. a * c = y * ws
    BY <1>1, <1>2
  <2>3. d * c <= ((2 * Gap) * One) * ws
    <3> DEFINE u == (2 * Gap) * ws
    <3>1. u \in Nat /\ r * u <= One * u
      BY <1>1, <1>2, AtMostByFactor
    <3>2. d * c = r * u /\ ((2 * Gap) * One) * ws = One * u
      BY <1>1, <1>2
    <3> QED BY <3>1, <3>2
  <2>4. y * ws \in Nat /\ b * c \in Nat /\ d * c \in Nat /\ ((2 * Gap) * One) * ws \in Nat
    BY <1>1, <1>2
  <2>5. Within(a, b, d)
    BY DEF s, left
  <2> HIDE DEF a, b, c, d, y, ws
  <2>6. Within(a * c, b * c, d * c)
    BY <2>1, <2>5, WithinScaled
  <2>7. Within(y * ws, b * c, ((2 * Gap) * One) * ws)
    BY <2>2, <2>3, <2>4, <2>6 DEF Within
  <2> QED BY <2>7 DEF b, c
\* r * w * left * One and p * One * left * One
<1>5. Within((2 * (left * One)) * (r * w), (2 * ((p * left) * One)) * One, (slack * One) * ws)
  <2> DEFINE a == 2 * (r * w)
             b == 2 * (p * One)
             c == left * One
             d == slack * w
  <2>1. a \in Nat /\ b \in Nat /\ c \in Nat /\ d \in Nat
    BY <1>1, <1>2
  <2>2. a * c = (2 * (left * One)) * (r * w) /\ b * c = (2 * ((p * left) * One)) * One
    BY <1>1, <1>2
  <2>3. d * c <= (slack * One) * ws
    <3> DEFINE u == (slack * w) * One
    <3>1. u \in Nat /\ left * u <= s * u
      BY <1>1, <1>2, AtMostByFactor
    <3>2. d * c = left * u /\ (slack * One) * ws = s * u
      BY <1>1, <1>2
    <3> QED BY <3>1, <3>2
  <2>4. a * c \in Nat /\ b * c \in Nat /\ d * c \in Nat /\ (slack * One) * ws \in Nat
    BY <1>1, <1>2
  <2> HIDE DEF a, b, c, d
  <2>5. Within(a * c, b * c, d * c)
    BY <2>1, WithinScaled DEF a, b, d
  <2>6. Within(a * c, b * c, (slack * One) * ws)
    BY <2>3, <2>4, <2>5 DEF Within
  <2> QED BY <2>2, <2>6
<1> DEFINE v == (2 * (left * One)) * (r * w)
           z == (2 * ((p * left) * One)) * One
           e1 == (Gap * One) * ws
           e2 == ((2 * Gap) * One) * ws
           e3 == (slack * One) * ws
<1>6. /\ x * ws \in Nat /\ y * ws \in Nat /\ v \in Nat /\ z \in Nat
      /\ e1 \in Nat /\ e2 \in Nat /\ e3 \in Nat
  BY <1>1, <1>2
<1>7. Within(x * ws, z, (e1 + e2) + e3)
  <2> HIDE DEF v, z, e1, e2, e3, x, y, ws
  <2>1. Within(x * ws, v, e1 + e2)
    BY <1>3, <1>4, <1>6, WithinInTurn DEF v, e1, e2
  <2>2. Within(v, z, e3)
    BY <1>5 DEF v, z, e3
  <2>3. e1 + e2 \in Nat
    BY <1>6
  <2> QED BY <1>6, <2>1, <2>2, <2>3, WithinInTurn
<1>8. Within((2 * (next * ws)) * One, (2 * ((p * left) * One)) * One,
             ((slack + 3 * Gap) * ws) * One)
  <2>1. x * ws = (2 * (next * ws)) * One
    BY <1>1, <1>2
  <2>2. (e1 + e2) + e3 = ((slack + 3 * Gap) * ws) * One
    BY <1>1, <1>2
  <2> HIDE DEF x, ws, e1, e2, e3
  <2> QED BY <1>7, <2>1, <2>2 DEF z
<1>9. Within(2 * (next * ws), 2 * ((p * left) * One), (slack + 3 * Gap) * ws)
  <2> DEFINE a == 2 * (next * ws)
             b == 2 * ((p * left) * One)
             c == (slack + 3 * Gap) * ws
  <2>1. a \in Nat /\ b \in Nat /\ c \in Nat
    BY <1>1, <1>2
  <2>2. Within(a * One, b * One, c * One)
    BY <1>8
  <2> HIDE DEF a, b, c
  <2>3. Within(a, b, c)
    BY <1>1, <2>1, <2>2, WithinDivided
  <2> QED BY <2>3 DEF a, b, c
<1> QED BY <1>9 DEF ws, s, left

\* What the float64s are next to: the exact share that remains, up to half a Gap for each of
\* three operations on each safeguard.
LEMMA RemainingIsNear ==
  ASSUME NEW ss \in Seq(Rows), NEW n \in Nat, n = Len(ss)
  PROVE  LET r == RemainingProbability(ss)
             w == Whole(ss)
             p == Remaining(ss) IN
         /\ r \in 0..One /\ r \in Floats
         /\ w \in Nat \ {0} /\ p \in Nat /\ p <= w
         /\ Within(2 * (r * w), 2 * (p * One), ((3 * n) * Gap) * w)
<1> DEFINE wholes == [i \in DOMAIN ss |-> Scale]
           lefts == [i \in DOMAIN ss |-> Scale - ss[i].effectiveness]
<1>1. One \in Nat \ {0} /\ Gap \in Nat \ {0} /\ Scale \in Nat \ {0}
  BY FloatConstants
<1>2. PICK f : IsChance(f, n, ss) /\ RemainingProbability(ss) = f[n]
  BY RemainingProbabilityIs
<1>3. \A i \in 1..n : ss[i].effectiveness \in 1..Scale
  BY RemainingProbabilityIs
<1>4. DOMAIN ss = 1..n
  BY LenProperties
<1>5. /\ wholes \in [1..n -> Nat] /\ \A i \in 1..n : wholes[i] = Scale
      /\ lefts \in [1..n -> Nat] /\ \A i \in 1..n : lefts[i] = Scale - ss[i].effectiveness
  BY <1>1, <1>3, <1>4
<1>6. Whole(ss) = Product(wholes) /\ Remaining(ss) = Product(lefts)
  BY DEF Whole, Remaining
<1> HIDE DEF wholes, lefts
<1>7. PICK w : IsProductOf(w, n, wholes) /\ Product(wholes) = w[n]
  BY <1>5, ProductIs
<1>8. PICK p : IsProductOf(p, n, lefts) /\ Product(lefts) = p[n]
  BY <1>5, ProductIs
<1> DEFINE Near(i) == /\ f[i] \in 0..One /\ f[i] \in Floats
                      /\ w[i] \in Nat \ {0} /\ p[i] \in Nat /\ p[i] <= w[i]
                      /\ Within(2 * (f[i] * w[i]), 2 * (p[i] * One), ((3 * i) * Gap) * w[i])
           S == {i \in 0..n : Near(i)}
<1>9. Near(0)
  <2>1. f[0] = One /\ f[0] \in 0..One /\ f[0] \in Floats /\ w[0] = 1 /\ p[0] = 1
    BY <1>2, <1>7, <1>8 DEF IsChance, IsProductOf
  <2>2. Within(2 * (One * 1), 2 * (1 * One), ((3 * 0) * Gap) * 1)
    BY <1>1 DEF Within
  <2> QED BY <2>1, <2>2
<1>10. ASSUME NEW i \in 1..n, Near(i - 1) PROVE Near(i)
  <2> DEFINE e == ss[i].effectiveness
             slack == (3 * (i - 1)) * Gap
  <2>1. e \in 1..Scale /\ e \in Nat /\ e <= Scale
    BY <1>1, <1>3
  <2>2. /\ Factor(ss[i]) \in 0..One
        /\ Within(2 * (Factor(ss[i]) * Scale), 2 * ((Scale - e) * One), (2 * Gap) * Scale)
    BY <1>3, FactorIs
  <2>3. /\ w[i] = w[i - 1] * Scale /\ p[i] = p[i - 1] * (Scale - e)
        /\ f[i] = Nearest(f[i - 1] * Factor(ss[i]), One)
    BY <1>2, <1>5, <1>7, <1>8 DEF IsChance, IsProductOf
  <2> HIDE DEF e
  <2>4. /\ f[i] \in 0..One /\ f[i] \in Floats
        /\ Within(2 * (f[i] * One), 2 * (f[i - 1] * Factor(ss[i])), Gap * One)
    BY <1>10, <2>2, <2>3, ProductOfParts
  <2>5. slack \in Nat /\ slack + 3 * Gap = (3 * i) * Gap
    BY <1>1
  <2>6. Within(2 * (f[i] * w[i]), 2 * (p[i] * One), (slack + 3 * Gap) * w[i])
    <3> HIDE DEF slack
    <3>1. Within(2 * (f[i] * (w[i - 1] * Scale)), 2 * ((p[i - 1] * (Scale - e)) * One),
                 (slack + 3 * Gap) * (w[i - 1] * Scale))
      BY <1>10, <2>1, <2>2, <2>4, <2>5, ErrorAfterOneMore DEF slack
    <3> QED BY <2>3, <3>1
  <2>7. w[i] \in Nat \ {0} /\ p[i] \in Nat /\ p[i] <= w[i]
    <3> DEFINE x == w[i - 1]
               y == p[i - 1]
               left == Scale - e
    <3>1. x \in Nat \ {0} /\ y \in Nat /\ y <= x /\ left \in Nat /\ left <= Scale
      BY <1>1, <1>10, <2>1
    <3> HIDE DEF x, y, left
    <3>2. y * left <= x * left /\ left * x <= Scale * x
      BY <1>1, <3>1, AtMostByFactor
    <3>3. x * Scale \in Nat \ {0} /\ y * left \in Nat /\ x * left = left * x /\ x * Scale = Scale * x
          /\ x * left \in Nat
      BY <1>1, <3>1
    <3>4. x * Scale \in Nat \ {0} /\ y * left \in Nat /\ y * left <= x * Scale
      BY <3>2, <3>3
    <3> QED BY <2>3, <3>4 DEF x, y, left
  <2> QED BY <2>4, <2>5, <2>6, <2>7
<1>11. \A i \in 0..n : i \in S
  <2>1. 0 \in S
    BY <1>9
  <2>2. \A i \in 1..n : i - 1 \in S => i \in S
    BY <1>10
  <2> HIDE DEF S
  <2> QED BY <2>1, <2>2, Induction
<1>12. Near(n)
  BY <1>11
<1> QED BY <1>2, <1>6, <1>7, <1>8, <1>12

\* The combined protection, next to the exact one.
LEMMA CombinedIsNear ==
  ASSUME NEW ss \in Seq(Rows), NEW n \in Nat, n = Len(ss)
  PROVE  LET c == Combined(ss)
             w == Whole(ss)
             p == Remaining(ss) IN
         /\ c \in 0..One
         /\ Within(2 * (c * w), 2 * ((w - p) * One), ((3 * n + 1) * Gap) * w)
<1> DEFINE r == RemainingProbability(ss)
           c == Combined(ss)
           w == Whole(ss)
           p == Remaining(ss)
<1>1. One \in Nat \ {0} /\ Gap \in Nat \ {0}
  BY FloatConstants
<1>2. /\ r \in 0..One /\ w \in Nat \ {0} /\ p \in Nat /\ p <= w
      /\ Within(2 * (r * w), 2 * (p * One), ((3 * n) * Gap) * w)
  BY RemainingIsNear
<1>3. c = Nearest(One - r, 1)
  BY DEF Combined
<1> HIDE DEF r, c, w, p
<1>4. One - r \in 0..One
  BY <1>1, <1>2
<1>5. c \in 0..One /\ Within(2 * c, 2 * (One - r), Gap)
  BY <1>3, <1>4, PartsAreRoundable
<1>6. Within((2 * c) * w, (2 * (One - r)) * w, Gap * w)
  <2>1. 2 * c \in Nat /\ 2 * (One - r) \in Nat /\ w \in Nat /\ Gap \in Nat
    BY <1>1, <1>2, <1>4, <1>5
  <2> QED BY <1>5, <2>1, WithinScaled
<1>7. /\ (2 * c) * w = 2 * (c * w) /\ (2 * (One - r)) * w = 2 * (One * w) - 2 * (r * w)
      /\ 2 * ((w - p) * One) = 2 * (One * w) - 2 * (p * One)
      /\ ((3 * n + 1) * Gap) * w = ((3 * n) * Gap) * w + Gap * w
  BY <1>1, <1>2, <1>5
<1>8. /\ c * w \in Nat /\ r * w \in Nat /\ p * One \in Nat /\ One * w \in Nat /\ Gap * w \in Nat
      /\ ((3 * n) * Gap) * w \in Nat
  BY <1>1, <1>2, <1>5
<1>9. Within(2 * (c * w), 2 * ((w - p) * One), ((3 * n + 1) * Gap) * w)
  <2> DEFINE cw == c * w
             rw == r * w
             p1 == p * One
             w1 == One * w
             g == Gap * w
             e == ((3 * n) * Gap) * w
  <2>1. Within(2 * rw, 2 * p1, e) /\ Within(2 * cw, 2 * w1 - 2 * rw, g)
    BY <1>2, <1>6, <1>7
  <2>2. cw \in Nat /\ rw \in Nat /\ p1 \in Nat /\ w1 \in Nat /\ g \in Nat /\ e \in Nat
    BY <1>8
  <2>3. 2 * ((w - p) * One) = 2 * w1 - 2 * p1 /\ ((3 * n + 1) * Gap) * w = e + g
    BY <1>7
  <2> HIDE DEF rw, p1, w1, g, e
  <2> SUFFICES Within(2 * cw, 2 * w1 - 2 * p1, e + g)
    BY <2>3
  <2> HIDE DEF cw
  <2> QED BY <2>1, <2>2 DEF Within
<1> QED BY <1>5, <1>9 DEF c, w, p

-----------------------------------------------------------------------------
(* The residual risk.                                                      *)

\* The risk before it is rounded up.
Risk(initial, c) == Nearest(initial * Nearest(One - c, 1), 1)

LEMMA RiskIs ==
  ASSUME NEW initial \in 1..25, NEW c \in 0..One
  PROVE  LET m == Nearest(One - c, 1)
             v == Risk(initial, c) IN
         /\ Roundable(One - c, 1) /\ Roundable(initial * m, 1)
         /\ m \in 0..One /\ v \in Nat /\ v <= initial * One
         /\ Within(2 * m, 2 * (One - c), Gap)
         /\ Within(2 * v, 2 * (initial * m), 32 * Gap)
<1> DEFINE m == Nearest(One - c, 1)
           v == Risk(initial, c)
           x == initial * m
<1>1. One \in Nat \ {0} /\ Gap \in Nat \ {0} /\ initial * One \in Floats /\ initial \in Nat
  BY FloatConstants
<1>2. One - c \in 0..One
  BY <1>1
<1>3. m \in 0..One /\ Within(2 * m, 2 * (One - c), Gap) /\ Roundable(One - c, 1)
  BY <1>2, PartsAreRoundable
<1>4. v = Nearest(x, 1)
  BY DEF Risk
<1> HIDE DEF m, v
<1>5. x \in Nat /\ x <= initial * One /\ x < (26 * One) * 1
  <2>1. m \in Nat /\ m * initial <= One * initial /\ initial * One <= 25 * One
    BY <1>1, <1>3, AtMostByFactor
  <2>2. m * initial = initial * m /\ One * initial = initial * One /\ x \in Nat
        /\ initial * One \in Nat
    BY <1>1, <2>1
  <2> QED BY <1>1, <2>1, <2>2
<1> HIDE DEF x
<1>6. Roundable(x, 1)
  BY <1>5 DEF Roundable
<1>7. v \in Nat /\ v <= initial * One
  <2>1. x <= (initial * One) * 1
    BY <1>1, <1>5
  <2> QED BY <1>1, <1>4, <1>6, <2>1, NearestIsFloat
<1>8. Within(2 * v, 2 * x, 32 * Gap)
  <2>1. Within(2 * (v * 1), 2 * x, (32 * Gap) * 1)
    BY <1>4, <1>6, NearestIsWithin
  <2>2. v * 1 = v /\ (32 * Gap) * 1 = 32 * Gap
    BY <1>1, <1>7
  <2> QED BY <2>1, <2>2
<1> QED BY <1>3, <1>6, <1>7, <1>8 DEF m, v, x

LEMMA ResidualIs ==
  ASSUME NEW initial \in 1..25, NEW ss, Combined(ss) \in 0..One
  PROVE  LET v == Risk(initial, Combined(ss))
             r == Residual(initial, ss) IN
         r \in 1..initial /\ v <= r * One /\ (r > 1 => (r - 1) * One < v)
<1> DEFINE v == Risk(initial, Combined(ss))
           q == (v + One - 1) \div One
           r == Residual(initial, ss)
<1>1. One \in Nat \ {0} /\ v \in Nat /\ v <= initial * One
  BY FloatConstants, RiskIs
<1>2. r = IF q < 1 THEN 1 ELSE q
  BY DEF Residual, Risk
<1> HIDE DEF v, r
<1>3. q \in Nat /\ q * One >= v /\ (q - 1) * One < v
  BY <1>1, Ceiling
<1> HIDE DEF q
<1>4. q <= initial
  <2>1. (q - 1) * One \in Int /\ initial * One \in Int
    BY <1>1, <1>3
  <2>2. (q - 1) * One < initial * One
    BY <1>1, <1>3, <2>1
  <2>3. q - 1 < initial
    BY <1>1, <1>3, <2>2, LessByFactor
  <2> QED BY <1>3, <2>3
<1>5. r \in 1..initial
  BY <1>2, <1>3, <1>4
<1>6. v <= r * One
  <2>1. CASE q < 1
    <3>1. r = 1 /\ q = 0
      BY <1>2, <1>3, <2>1
    <3> QED BY <1>1, <1>3, <3>1
  <2>2. CASE ~(q < 1)
    BY <1>2, <1>3, <2>2
  <2> QED BY <2>1, <2>2
<1>7. r > 1 => (r - 1) * One < v
  BY <1>2, <1>3
<1> QED BY <1>5, <1>6, <1>7 DEF r, v

\* The residual risk, next to the exact one.
LEMMA ResidualIsNear ==
  ASSUME NEW initial \in 1..25, NEW ss \in Seq(Rows), NEW n \in Nat, n = Len(ss)
  PROVE  LET r == Residual(initial, ss)
             w == Whole(ss)
             lost == 2 * ((initial * Remaining(ss)) * One)
             slack == ((initial * (3 * n + 2) + 32) * Gap) * w IN
         /\ r \in 1..initial
         /\ lost <= 2 * ((r * One) * w) + slack
         /\ r > 1 => 2 * (((r - 1) * One) * w) < lost + slack
<1> DEFINE c == Combined(ss)
           m == Nearest(One - c, 1)
           v == Risk(initial, c)
           r == Residual(initial, ss)
           w == Whole(ss)
           p == Remaining(ss)
           slack == ((initial * (3 * n + 2) + 32) * Gap) * w
<1>1. One \in Nat \ {0} /\ Gap \in Nat \ {0} /\ initial \in Nat
  BY FloatConstants
<1>2. /\ c \in 0..One /\ Within(2 * (c * w), 2 * ((w - p) * One), ((3 * n + 1) * Gap) * w)
      /\ w \in Nat \ {0} /\ p \in Nat /\ p <= w
  BY CombinedIsNear, RemainingIsNear
<1>3. /\ m \in 0..One /\ v \in Nat /\ Within(2 * m, 2 * (One - c), Gap)
      /\ Within(2 * v, 2 * (initial * m), 32 * Gap)
  BY <1>2, RiskIs
<1>4. r \in 1..initial /\ v <= r * One /\ (r > 1 => (r - 1) * One < v)
  BY <1>2, ResidualIs
<1> HIDE DEF c, m, v, r, w, p
<1>5. Within(2 * (m * w), 2 * (p * One), ((3 * n + 2) * Gap) * w)
  <2> DEFINE cw == c * w
             mw == m * w
             p1 == p * One
             w1 == One * w
             g == Gap * w
             e == ((3 * n + 1) * Gap) * w
  <2>1. cw \in Nat /\ mw \in Nat /\ p1 \in Nat /\ w1 \in Nat /\ g \in Nat /\ e \in Nat
    BY <1>1, <1>2, <1>3
  <2>2. /\ 2 * ((w - p) * One) = 2 * w1 - 2 * p1 /\ ((3 * n + 2) * Gap) * w = e + g
        /\ (2 * m) * w = 2 * mw /\ (2 * (One - c)) * w = 2 * w1 - 2 * cw
    BY <1>1, <1>2, <1>3
  <2>3. Within((2 * m) * w, (2 * (One - c)) * w, Gap * w)
    <3>1. 2 * m \in Nat /\ 2 * (One - c) \in Nat /\ w \in Nat /\ Gap \in Nat
      BY <1>1, <1>2, <1>3
    <3> QED BY <1>3, <3>1, WithinScaled
  <2>4. Within(2 * mw, 2 * w1 - 2 * cw, g) /\ Within(2 * cw, 2 * w1 - 2 * p1, e)
    BY <1>2, <2>2, <2>3
  <2> HIDE DEF cw, p1, w1, g, e
  <2> SUFFICES Within(2 * mw, 2 * p1, e + g)
    BY <2>2 DEF p1
  <2> HIDE DEF mw
  <2> QED BY <2>1, <2>4 DEF Within
<1>6. Within(2 * (v * w), 2 * ((initial * p) * One), slack)
  <2> DEFINE a == 2 * (m * w)
             b == 2 * (p * One)
             e == ((3 * n + 2) * Gap) * w
             g == (32 * Gap) * w
  <2>1. a \in Nat /\ b \in Nat /\ e \in Nat /\ g \in Nat
    BY <1>1, <1>2, <1>3
  <2>2. Within((2 * v) * w, (2 * (initial * m)) * w, g)
    <3>1. 2 * v \in Nat /\ 2 * (initial * m) \in Nat /\ w \in Nat /\ 32 * Gap \in Nat
      BY <1>1, <1>2, <1>3
    <3> QED BY <1>3, <3>1, WithinScaled
  <2>3. /\ (2 * v) * w = 2 * (v * w) /\ (2 * (initial * m)) * w = a * initial
        /\ b * initial = 2 * ((initial * p) * One) /\ slack = g + e * initial
    BY <1>1, <1>2, <1>3
  <2>4. 2 * (v * w) \in Nat /\ a * initial \in Nat /\ b * initial \in Nat /\ e * initial \in Nat
    BY <1>1, <1>2, <1>3, <2>1
  <2> HIDE DEF a, b, e, g, slack
  <2>5. Within(a * initial, b * initial, e * initial)
    BY <1>1, <1>5, <2>1, WithinScaled DEF a, b, e
  <2>6. Within(2 * (v * w), a * initial, g)
    BY <2>2, <2>3
  <2>7. Within(2 * (v * w), b * initial, g + e * initial)
    BY <2>1, <2>4, <2>5, <2>6, WithinInTurn
  <2> QED BY <2>3, <2>7
<1> HIDE DEF slack
<1>7. v * w <= (r * One) * w /\ (r > 1 => ((r - 1) * One) * w < v * w)
  <2>1. r * One \in Nat /\ (r > 1 => (r - 1) * One \in Nat)
    BY <1>1, <1>4
  <2>2. v * w <= (r * One) * w
    BY <1>2, <1>3, <1>4, <2>1, AtMostByFactor
  <2>3. ASSUME r > 1 PROVE ((r - 1) * One) * w < v * w
    <3> DEFINE x == (r - 1) * One
    <3>1. x \in Nat /\ x < v
      BY <1>4, <2>1, <2>3
    <3> HIDE DEF x
    <3>2. x * w < v * w
      BY <1>2, <1>3, <3>1
    <3> QED BY <3>2 DEF x
  <2> QED BY <2>2, <2>3
<1>8. /\ 2 * ((initial * p) * One) <= 2 * ((r * One) * w) + slack
      /\ r > 1 => 2 * (((r - 1) * One) * w) < 2 * ((initial * p) * One) + slack
  <2> DEFINE vw == v * w
             rw == (r * One) * w
             sw == ((r - 1) * One) * w
             ip == (initial * p) * One
  <2>1. vw \in Nat /\ rw \in Nat /\ sw \in Int /\ ip \in Nat /\ slack \in Nat
    BY <1>1, <1>2, <1>3, <1>4 DEF slack
  <2>2. vw <= rw /\ (r > 1 => sw < vw) /\ Within(2 * vw, 2 * ip, slack)
    BY <1>6, <1>7
  <2> HIDE DEF vw, rw, sw, ip
  <2>3. 2 * ip <= 2 * rw + slack /\ (r > 1 => 2 * sw < 2 * ip + slack)
    BY <2>1, <2>2 DEF Within
  <2> QED BY <2>3 DEF rw, sw, ip
<1> QED BY <1>4, <1>8 DEF r, w, p, slack

\* More protection does not raise the residual risk.
LEMMA ResidualGrows ==
  ASSUME NEW initial \in 1..25, NEW few, NEW many,
         Combined(few) \in 0..One, Combined(many) \in 0..One, Combined(few) <= Combined(many)
  PROVE  Residual(initial, many) <= Residual(initial, few)
<1> DEFINE c == Combined(few)
           d == Combined(many)
           m == Nearest(One - c, 1)
           k == Nearest(One - d, 1)
           v == Risk(initial, c)
           u == Risk(initial, d)
           p == Residual(initial, few)
           q == Residual(initial, many)
<1>1. One \in Nat \ {0} /\ initial \in Nat
  BY FloatConstants
<1>2. /\ p \in 1..initial /\ v <= p * One
      /\ q \in 1..initial /\ (q > 1 => (q - 1) * One < u)
  BY ResidualIs
<1>3. /\ Roundable(One - c, 1) /\ Roundable(One - d, 1) /\ m \in 0..One /\ k \in 0..One
      /\ Roundable(initial * m, 1) /\ Roundable(initial * k, 1) /\ v \in Nat /\ u \in Nat
  BY RiskIs
<1>4. k <= m
  <2>1. One - d <= One - c
    BY <1>1
  <2> QED BY <1>3, <2>1, NearestGrows
<1>5. u <= v
  <2>1. initial * k <= initial * m
    <3> HIDE DEF k, m
    <3>1. k \in Nat /\ m \in Nat
      BY <1>3
    <3>2. k * initial <= m * initial
      BY <1>1, <1>4, <3>1, AtMostByFactor
    <3> QED BY <1>1, <3>1, <3>2
  <2> QED BY <1>3, <2>1, NearestGrows DEF Risk
<1> HIDE DEF c, d, m, k, v, u, p, q
<1>6. ~(q > p)
  <2>1. ASSUME q > p PROVE FALSE
    <3>1. p \in Nat /\ q - 1 \in Nat /\ p <= q - 1 /\ q > 1
      BY <1>1, <1>2, <2>1
    <3>2. p * One <= (q - 1) * One
      BY <1>1, <3>1, AtMostByFactor
    <3>3. p * One \in Nat /\ (q - 1) * One \in Nat
      BY <1>1, <3>1
    <3> QED BY <1>2, <1>3, <1>5, <3>1, <3>2, <3>3
  <2> QED BY <2>1
<1> QED BY <1>1, <1>2, <1>6 DEF p, q

-----------------------------------------------------------------------------
(* The score.                                                              *)

\* What an evaluation is made of.
LEMMA EvaluateFields ==
  ASSUME NEW snapshot
  PROVE  LET e == Evaluate(snapshot)
             retained == Retained(snapshot.safeguards, snapshot.reference)
             initial == snapshot.scenario.likelihood * snapshot.scenario.severity IN
         /\ e.combined = Combined(retained)
         /\ e.paths = Paths(snapshot.scenario)
         /\ e.uncovered = IF Covered(retained) THEN <<>> ELSE Paths(snapshot.scenario)
         /\ e.residual = Residual(initial, retained)
         /\ e.riskBefore = RiskRank(initial)
         /\ e.riskAfter = RiskRank(Residual(initial, retained))
         /\ e.resolved = ResolveIndependence(snapshot.safeguards, snapshot.reference)
BY DEF Evaluate, ResolveIndependence

LEMMA SnapshotFields ==
  /\ Snapshot.scenario = scenario
  /\ Snapshot.safeguards = ByKey(rows)
  /\ Snapshot.reference = now
BY DEF Snapshot, NewSnapshot

\* The snapshot of a state, and what it lists.
LEMMA SnapshotLists ==
  ASSUME IInv
  PROVE  /\ ByKey(rows) \in Listing /\ ToSet(ByKey(rows)) = ToSet(rows)
         /\ now \in Nat /\ scenario \in Scenarios
BY RowsAreListed, ByKeyLists

LEMMA CountingIsInForce ==
  ASSUME IInv
  PROVE  Counting(ToSet(rows), now) = InForce(ToSet(rows), now)
<1>1. rows \in Listing /\ now \in Nat
  BY RowsAreListed
<1>2. ASSUME NEW row \in ToSet(rows)
      PROVE  /\ row.state = "active" => row.verifiedAt \in 0..now
             /\ row \in Rows
  <2>1. PICK i \in DOMAIN rows : rows[i] = row
    BY DEF ToSet
  <2> QED BY <1>1, <2>1, ListingFacts DEF IInv, Registry
<1>3. ASSUME NEW row \in ToSet(rows)
      PROVE  ~Rejects(row, now) <=> /\ row.key # 0 /\ row.state = "active"
                                    /\ now - row.verifiedAt <= row.interval
  <2>1. row.effectiveness \in 1..Scale /\ row.interval \in Nat \ {0}
    BY <1>2, RowFields
  <2>2. CASE row.state # "active"
    BY <2>2 DEF Rejects, Ineligible
  <2>3. CASE row.state = "active"
    <3>1. row.verifiedAt \in 0..now /\ row.verifiedAt \in Nat /\ row.verifiedAt # None
      BY <1>2, <2>3, ConstantsAssumption
    <3>2. now > row.verifiedAt + row.interval <=> ~(now - row.verifiedAt <= row.interval)
      BY <1>1, <2>1, <3>1
    <3> QED BY <2>1, <2>3, <3>1, <3>2 DEF Rejects, Ineligible
  <2> QED BY <2>2, <2>3
<1> QED BY <1>3 DEF Counting, InForce

\* What the reference counts, and what the algorithm retains.
LEMMA RetainedIsCounted ==
  ASSUME IInv
  PROVE  LET C == InForce(ToSet(rows), now)
             K == {row.key : row \in C}
             retained == Retained(ByKey(rows), now) IN
         /\ retained \in Seq(Rows) /\ Len(retained) = Cardinality(K) /\ Cardinality(K) \in Nat
         /\ Whole(retained) = Cardinality(Days(K))
         /\ Remaining(retained) = Cardinality(Unprotected(C, K))
         /\ \A row \in C : /\ row \in Rows
                          /\ \E p \in 1..Len(retained) : row.effectiveness <= retained[p].effectiveness
<1> DEFINE ss == ByKey(rows)
           C == InForce(ToSet(rows), now)
           K == {row.key : row \in C}
           keys == Ascending(K)
           retained == Retained(ss, now)
<1>1. ss \in Listing /\ ToSet(ss) = ToSet(rows) /\ now \in Nat
  BY SnapshotLists
<1> HIDE DEF ss, C
<1>2. Counting(ToSet(ss), now) = C
  BY <1>1, CountingIsInForce DEF C
<1>3. Keys(ss, now) = K
  BY <1>1, <1>2, EligibleRows
<1> HIDE DEF K, keys, retained
<1>4. /\ Whole(retained) = Cardinality(Days(K))
      /\ Remaining(retained) = Cardinality(Unprotected(C, K))
  BY <1>1, <1>2, <1>3, ScoreCounts DEF retained
<1>5. /\ Cardinality(K) \in Nat /\ retained \in Seq(Rows) /\ Len(retained) = Cardinality(K)
      /\ \A p \in 1..Cardinality(K) :
           \A row \in C : row.key = keys[p] => row.effectiveness <= retained[p].effectiveness
  BY <1>1, <1>2, <1>3, RetainedAreBest DEF retained, keys
<1>6. \A key \in K : \E p \in 1..Cardinality(K) : keys[p] = key
  BY <1>1, <1>3, KeysEnumerate DEF keys
<1>7. C \in SUBSET Rows
  BY <1>1, <1>2, ListingFacts DEF Counting
<1>8. \A row \in C : \E p \in 1..Len(retained) : row.effectiveness <= retained[p].effectiveness
  <2>1. \A row \in C : row.key \in K
    BY DEF K
  <2> QED BY <1>5, <1>6, <2>1
<1> QED BY <1>4, <1>5, <1>7, <1>8 DEF retained, K, C, ss

\* But for rounding, the score is the share of the days on which a safeguard works: the
\* best safeguard of each key decides, and the keys are independent.
THEOREM ScoreIsReference == Spec => []ScoreMatchesReference
<1>1. IInv => ScoreMatchesReference
  <2> SUFFICES ASSUME IInv PROVE ScoreMatchesReference
    OBVIOUS
  <2> DEFINE C == InForce(ToSet(rows), now)
             K == {row.key : row \in C}
             n == Cardinality(K)
             retained == Retained(ByKey(rows), now)
             c == Combined(retained)
             w == Cardinality(Days(K))
             p == Cardinality(Unprotected(C, K))
  <2>1. /\ retained \in Seq(Rows) /\ Len(retained) = n /\ n \in Nat
        /\ Whole(retained) = w /\ Remaining(retained) = p
    BY RetainedIsCounted
  <2>2. Evaluation.combined = c
    BY EvaluateFields, SnapshotFields DEF Evaluation
  <2> HIDE DEF retained, n, w, p, C, K
  <2>3. /\ c \in 0..One /\ w \in Nat /\ p \in Nat /\ p <= w
        /\ Within(2 * (c * w), 2 * ((w - p) * One), ((3 * n + 1) * Gap) * w)
    BY <2>1, CombinedIsNear, RemainingIsNear
  <2>4. One \in Nat /\ Gap \in Nat
    BY FloatConstants
  <2> HIDE DEF c
  <2>5. Within(2 * c * w, 2 * One * (w - p), (3 * n + 1) * Gap * w)
    <3>1. 2 * c * w = 2 * (c * w) /\ 2 * One * (w - p) = 2 * ((w - p) * One)
      BY <2>3, <2>4
    <3> QED BY <2>3, <3>1
  <2> QED BY <2>2, <2>5 DEF ScoreMatchesReference, w, p, n, K, C
<1> QED BY <1>1, RegistryHolds, PTL

LEMMA RiskRankGrows ==
  ASSUME NEW a \in Nat, NEW b \in Nat, a <= b
  PROVE  RiskRank(a) <= RiskRank(b)
BY DEF RiskRank

LEMMA InitialRisk ==
  ASSUME NEW s \in Scenarios
  PROVE  s.likelihood * s.severity \in 1..25
<1>1. s.likelihood \in 1..5 /\ s.severity \in 1..5
  BY ConstantsAssumption
<1> QED BY <1>1

\* What a safeguard of one half and more covers.
LEMMA OneHalfCovers ==
  ASSUME NEW ss \in Seq(Rows), NEW n \in Nat, n = Len(ss), NEW k \in 1..n,
         2 * ss[k].effectiveness >= Scale
  PROVE  Covered(ss)
<1> DEFINE half == One \div 2
           r == RemainingProbability(ss)
           f == Factor(ss[k])
<1>1. One \in Nat /\ half \in Nat /\ 2 * half = One /\ half \in Floats
  BY FloatConstants
<1>2. r \in 0..One /\ r <= f
  BY RemainingIsNear, RemainingAtMostFactor
<1>3. f \in 0..One /\ f <= half
  BY RemainingProbabilityIs, FactorIs
<1> HIDE DEF r, f, half
<1>4. One - r \in 0..One /\ half * 1 <= One - r
  BY <1>1, <1>2, <1>3
<1>5. half <= Nearest(One - r, 1)
  BY <1>1, <1>4, PartsAreRoundable, NearestIsFloat
<1>6. Nearest(One - r, 1) \in Nat
  BY <1>1, <1>4, PartsAreRoundable
<1> QED BY <1>1, <1>5, <1>6 DEF Covered, Combined, half, r

\* Rounding decides only what is within it.
THEOREM RoundingStaysBounded == Spec => []RoundingIsBounded
<1>1. IInv => RoundingIsBounded
  <2> SUFFICES ASSUME IInv PROVE RoundingIsBounded
    OBVIOUS
  <2> DEFINE initial == scenario.likelihood * scenario.severity
             C == InForce(ToSet(rows), now)
             K == {row.key : row \in C}
             n == Cardinality(K)
             retained == Retained(ByKey(rows), now)
             c == Combined(retained)
             r == Residual(initial, retained)
             w == Cardinality(Days(K))
             p == Cardinality(Unprotected(C, K))
             slack == (3 * n + 1) * Gap * w
             slackOfRisk == (initial * (3 * n + 2) + 32) * Gap * w
             e == Evaluation
  <2>1. /\ retained \in Seq(Rows) /\ Len(retained) = n /\ n \in Nat
        /\ Whole(retained) = w /\ Remaining(retained) = p
        /\ \A row \in C : /\ row \in Rows
                         /\ \E k \in 1..n : row.effectiveness <= retained[k].effectiveness
    BY RetainedIsCounted
  <2>2. initial \in 1..25
    BY SnapshotLists, InitialRisk
  <2>3. /\ e.residual = r /\ e.paths = Paths(scenario)
        /\ e.uncovered = IF Covered(retained) THEN <<>> ELSE Paths(scenario)
        /\ e.riskBefore = RiskRank(initial) /\ e.riskAfter = RiskRank(r)
    BY EvaluateFields, SnapshotFields DEF Evaluation
  <2> HIDE DEF initial, C, K, n, retained, w, p, e
  <2>4. /\ c \in 0..One /\ w \in Nat /\ p \in Nat /\ p <= w
        /\ Within(2 * (c * w), 2 * ((w - p) * One), ((3 * n + 1) * Gap) * w)
    BY <2>1, CombinedIsNear, RemainingIsNear
  <2>5. One \in Nat /\ Gap \in Nat /\ One \div 2 \in Nat /\ 2 * (One \div 2) = One
    BY FloatConstants
  <2>6. /\ r \in 1..initial
        /\ 2 * ((initial * p) * One) <= 2 * ((r * One) * w) + slackOfRisk
        /\ r > 1 => 2 * (((r - 1) * One) * w) < 2 * ((initial * p) * One) + slackOfRisk
    BY <2>1, <2>2, ResidualIsNear
  <2>7. e.riskAfter <= e.riskBefore
    <3>1. r \in Nat /\ initial \in Nat /\ r <= initial
      BY <2>2, <2>6
    <3> QED BY <2>3, <3>1, RiskRankGrows
  <2> HIDE DEF r
  <2>8. /\ 2 * One * initial * p <= 2 * One * r * w + slackOfRisk
        /\ r > 1 => 2 * One * (r - 1) * w < 2 * One * initial * p + slackOfRisk
    <3>1. /\ 2 * One * initial * p = 2 * ((initial * p) * One)
          /\ 2 * One * r * w = 2 * ((r * One) * w)
          /\ 2 * One * (r - 1) * w = 2 * (((r - 1) * One) * w)
      BY <2>2, <2>4, <2>5, <2>6
    <3> QED BY <2>6, <3>1
  <2>9. /\ Covered(retained) => 2 * One * p <= One * w + slack
        /\ ~Covered(retained) => One * w < 2 * One * p + slack
    <3> DEFINE half == One \div 2
               cw == c * w
               hw == half * w
               p1 == p * One
    <3>1. Covered(retained) <=> c >= half
      BY DEF Covered
    <3> HIDE DEF c, half
    <3>2. half \in Nat /\ 2 * half = One
      BY <2>5 DEF half
    <3>3. cw \in Nat /\ hw \in Nat /\ p1 \in Nat /\ slack \in Nat
      BY <2>1, <2>4, <2>5, <3>2
    <3>4. /\ 2 * ((w - p) * One) = 4 * hw - 2 * p1 /\ One * w = 2 * hw /\ 2 * One * p = 2 * p1
      BY <2>4, <2>5, <3>2
    <3>5. Within(2 * cw, 4 * hw - 2 * p1, slack)
      BY <2>4, <3>4
    <3>6. c >= half => hw <= cw
      BY <2>4, <3>2, AtMostByFactor
    <3>7. ASSUME ~(c >= half) PROVE cw < hw \/ w = 0
      <4>1. c \in Nat /\ c < half
        BY <2>4, <2>5, <3>2, <3>7
      <4> QED BY <2>4, <3>2, <4>1
    <3>8. w # 0
      BY <2>1, RemainingIsNear
    <3> HIDE DEF cw, hw, p1, slack
    <3> QED BY <3>1, <3>3, <3>4, <3>5, <3>6, <3>7, <3>8 DEF Within
  <2>10. ASSUME NEW row \in C, 2 * row.effectiveness >= Scale PROVE e.uncovered = <<>>
    <3>1. PICK k \in 1..n : row.effectiveness <= retained[k].effectiveness
      BY <2>1
    <3>2. row.effectiveness \in 1..Scale /\ retained[k].effectiveness \in 1..Scale
      BY <2>1, RowFields, RemainingProbabilityIs
    <3>3. 2 * retained[k].effectiveness >= Scale
      BY <2>10, <3>1, <3>2, FloatConstants
    <3>4. Covered(retained)
      BY <2>1, <3>3, OneHalfCovers
    <3> QED BY <2>3, <3>4
  <2>11. (\E path \in ToSet(e.paths) : path \notin ToSet(e.uncovered)) => Covered(retained)
    BY <2>3
  <2>12. e.uncovered # <<>> => ~Covered(retained)
    BY <2>3
  <2> HIDE DEF slack, slackOfRisk
  <2> QED BY <2>3, <2>6, <2>7, <2>8, <2>9, <2>10, <2>11, <2>12
          DEF RoundingIsBounded, initial, C, K, n, w, p, slack, slackOfRisk, e
<1> QED BY <1>1, RegistryHolds, PTL

-----------------------------------------------------------------------------
(* The paths.                                                              *)

\* What a text says, up to case.
Said(text) ==
  LET said == {text[i].says : i \in DOMAIN text} \ {0} IN
  IF said = {} THEN {Unspecified.says} ELSE said

\* The statements of c say each thing of S once.
SaysEachOnce(c, S) ==
  /\ Len(c) \in Nat \ {0} /\ c \in [1..Len(c) -> Fragments]
  /\ {c[p].says : p \in 1..Len(c)} = S
  /\ \A p, q \in 1..Len(c) : c[p].says = c[q].says => p = q

\* What is said is first said somewhere.
LEMMA FirstSaid ==
  ASSUME NEW text \in Seq(Fragments), NEW j \in DOMAIN text
  PROVE  \E i \in DOMAIN text : text[i].says = text[j].says /\ ~Seen(text, i)
<1> DEFINE S == {i \in DOMAIN text : text[i].says = text[j].says}
<1>1. DOMAIN text = 1..Len(text) /\ Len(text) \in Nat
  BY LenProperties
<1>2. S \in SUBSET Nat /\ S # {}
  BY <1>1
<1>3. PICK i \in S : \A k \in S : i <= k
  <2> HIDE DEF S
  <2> QED BY <1>2, LeastNumber
<1>4. i \in 1..Len(text) /\ text[i].says = text[j].says
  BY <1>1, <1>3
<1>5. ASSUME NEW k \in 1..(i - 1), text[k].says = text[i].says PROVE FALSE
  <2>1. k \in S /\ k < i
    BY <1>1, <1>4, <1>5
  <2> QED BY <1>3, <1>4, <2>1
<1>6. ~Seen(text, i)
  BY <1>5 DEF Seen
<1> QED BY <1>1, <1>4, <1>6

LEMMA StatementsSayEachOnce ==
  ASSUME NEW text \in Seq(Fragments)
  PROVE  SaysEachOnce(SplitStatements(text), Said(text))
<1> DEFINE clean == {i \in DOMAIN text : text[i].says # 0 /\ ~Seen(text, i)}
           said == {text[i].says : i \in DOMAIN text} \ {0}
<1>1. DOMAIN text = 1..Len(text) /\ Len(text) \in Nat /\ text \in [1..Len(text) -> Fragments]
  BY LenProperties
<1>2. said = {text[i].says : i \in clean}
  <2>1. ASSUME NEW v \in said PROVE \E i \in clean : text[i].says = v
    <3>1. PICK j \in DOMAIN text : text[j].says = v /\ v # 0
      OBVIOUS
    <3> QED BY <3>1, FirstSaid
  <2> QED BY <2>1
<1>3. CASE clean = {}
  <2>1. SplitStatements(text) = <<Unspecified>>
    BY <1>3 DEF SplitStatements
  <2>2. Said(text) = {Unspecified.says}
    BY <1>2, <1>3 DEF Said
  <2>3. Len(<<Unspecified>>) = 1 /\ <<Unspecified>> \in [1..1 -> Fragments]
    BY ConstantsAssumption
  <2> QED BY <2>1, <2>2, <2>3 DEF SaysEachOnce
<1>4. CASE clean # {}
  <2> DEFINE n == Cardinality(clean)
             c == SplitStatements(text)
  <2>1. clean \in SUBSET Nat /\ IsFiniteSet(clean)
    <3>1. IsFiniteSet(1..Len(text))
      BY <1>1, FS_Interval
    <3>2. clean \in SUBSET (1..Len(text))
      BY <1>1
    <3> HIDE DEF clean
    <3>3. IsFiniteSet(clean)
      BY <3>1, <3>2, FS_Subset
    <3> QED BY <3>2, <3>3
  <2>2. n \in Nat \ {0}
    BY <1>4, <2>1, FS_CardinalityType, FS_EmptySet
  <2>3. c = Sorted(text, clean, {})
    BY <1>4 DEF SplitStatements
  <2>4. PICK t : /\ Enumerates(t, n, clean, Smaller(clean))
                 /\ Sorted(text, clean, {}) = Along(text, t, n)
    <3> HIDE DEF clean
    <3> QED BY <2>1, SortedByNone
  <2>5. /\ t \in [1..n -> clean] /\ \A i \in clean : \E p \in 1..n : t[p] = i
        /\ \A p, q \in 1..n : p < q => t[p] < t[q]
    <3> HIDE DEF clean, n
    <3> QED BY <2>4, SmallerIs DEF Enumerates
  <2>6. \A i \in clean : /\ i \in 1..Len(text) /\ text[i] \in Fragments
                         /\ text[i].says # 0 /\ ~Seen(text, i)
    BY <1>1
  <2> HIDE DEF clean, n, c
  <2>7. c = [p \in 1..n |-> text[t[p]]]
    BY <2>3, <2>4 DEF Along
  <2>8. c \in [1..n -> Fragments]
    BY <2>5, <2>6, <2>7
  <2>9. Len(c) = n
    BY <2>2, <2>8, SeqDef, LenProperties
  <2>10. {c[p].says : p \in 1..n} = said
    BY <1>2, <2>5, <2>7
  <2>11. Said(text) = said
    <3>1. said # {}
      BY <1>2, <1>4
    <3> QED BY <3>1 DEF Said
  <2>12. ASSUME NEW p \in 1..n, NEW q \in 1..n, p < q PROVE c[p].says # c[q].says
    <3>1. t[p] \in clean /\ t[q] \in clean /\ t[p] < t[q]
      BY <2>5, <2>12
    <3>2. t[p] \in 1..(t[q] - 1)
      BY <1>1, <2>6, <3>1
    <3>3. text[t[p]].says # text[t[q]].says
      BY <2>6, <3>1, <3>2 DEF Seen
    <3> QED BY <2>7, <3>3
  <2>13. \A p, q \in 1..n : c[p].says = c[q].says => p = q
    BY <2>2, <2>12
  <2> QED BY <2>2, <2>8, <2>9, <2>10, <2>11, <2>13 DEF SaysEachOnce, c
<1> QED BY <1>3, <1>4

\* Numbers and their pairs of quotient and remainder.
LEMMA QuotientAndRemainder ==
  ASSUME NEW k \in Nat \ {0}, NEW m \in Nat \ {0}
  PROVE  /\ \A p \in 1..(k * m) : ((p - 1) \div m) + 1 \in 1..k /\ ((p - 1) % m) + 1 \in 1..m
         /\ \A a \in 1..k, b \in 1..m : \E p \in 1..(k * m) :
              ((p - 1) \div m) + 1 = a /\ ((p - 1) % m) + 1 = b
         /\ \A p, q \in 1..(k * m) :
              (p - 1) \div m = (q - 1) \div m /\ (p - 1) % m = (q - 1) % m => p = q
<1>1. ASSUME NEW p \in 1..(k * m)
      PROVE  ((p - 1) \div m) + 1 \in 1..k /\ ((p - 1) % m) + 1 \in 1..m
  OBVIOUS
<1>2. ASSUME NEW a \in 1..k, NEW b \in 1..m
      PROVE  \E p \in 1..(k * m) : ((p - 1) \div m) + 1 = a /\ ((p - 1) % m) + 1 = b
  <2> DEFINE p == (a - 1) * m + b
  <2>1. p - 1 = (a - 1) * m + (b - 1) /\ a - 1 \in Nat /\ b - 1 \in 0..(m - 1)
    OBVIOUS
  <2>2. (p - 1) \div m = a - 1 /\ (p - 1) % m = b - 1
    <3> DEFINE c == a - 1
               r == b - 1
    <3>1. c \in Nat /\ r \in 0..(m - 1) /\ p - 1 = c * m + r
      BY <2>1
    <3> HIDE DEF c, r, p
    <3>2. (c * m + r) \div m = c /\ (c * m + r) % m = r
      BY <3>1
    <3> QED BY <3>1, <3>2 DEF c, r
  <2>3. p \in 1..(k * m)
    <3>1. (a - 1) * m <= (k - 1) * m
      BY AtMostByFactor
    <3>2. (a - 1) * m \in Nat /\ (k - 1) * m = k * m - m
      OBVIOUS
    <3> QED BY <3>1, <3>2
  <2> HIDE DEF p
  <2> QED BY <2>2, <2>3
<1>3. ASSUME NEW p \in 1..(k * m), NEW q \in 1..(k * m),
             (p - 1) \div m = (q - 1) \div m, (p - 1) % m = (q - 1) % m
      PROVE  p = q
  <2> DEFINE x == p - 1
             y == q - 1
  <2>1. x \in Nat /\ y \in Nat /\ x \div m = y \div m /\ x % m = y % m
    BY <1>3
  <2> HIDE DEF x, y
  <2>2. x = y
    BY <2>1
  <2> QED BY <2>2 DEF x, y
<1> QED BY <1>1, <1>2, <1>3

\* The paths are the pairs of a cause and a consequence, each once.
LEMMA PathsPair ==
  ASSUME NEW s, NEW A, NEW B,
         SaysEachOnce(SplitStatements(s.cause), A),
         SaysEachOnce(SplitStatements(s.consequence), B)
  PROVE  LET paths == Paths(s) IN
         /\ {<<paths[p].cause.says, paths[p].consequence.says>> : p \in DOMAIN paths} = A \X B
         /\ \A p, q \in DOMAIN paths :
              p # q => <<paths[p].cause.says, paths[p].consequence.says>>
                         # <<paths[q].cause.says, paths[q].consequence.says>>
<1> DEFINE causes == SplitStatements(s.cause)
           consequences == SplitStatements(s.consequence)
           k == Len(causes)
           m == Len(consequences)
           paths == Paths(s)
           row(p) == ((p - 1) \div m) + 1
           col(p) == ((p - 1) % m) + 1
<1>1. /\ k \in Nat \ {0} /\ {causes[p].says : p \in 1..k} = A
      /\ \A p, q \in 1..k : causes[p].says = causes[q].says => p = q
  BY DEF SaysEachOnce
<1>2. /\ m \in Nat \ {0} /\ {consequences[p].says : p \in 1..m} = B
      /\ \A p, q \in 1..m : consequences[p].says = consequences[q].says => p = q
  BY DEF SaysEachOnce
<1>3. paths = [p \in 1..(k * m) |->
                 [cause |-> causes[row(p)], consequence |-> consequences[col(p)]]]
  BY DEF Paths
<1> HIDE DEF causes, consequences, k, m, paths
<1>4. /\ \A p \in 1..(k * m) : row(p) \in 1..k /\ col(p) \in 1..m
      /\ \A a \in 1..k, b \in 1..m : \E p \in 1..(k * m) : row(p) = a /\ col(p) = b
  BY <1>1, <1>2, QuotientAndRemainder
<1>5. \A p, q \in 1..(k * m) : row(p) = row(q) /\ col(p) = col(q) => p = q
  <2> SUFFICES ASSUME NEW p \in 1..(k * m), NEW q \in 1..(k * m),
                      row(p) = row(q), col(p) = col(q)
               PROVE  p = q
    OBVIOUS
  <2>1. p - 1 \in Nat /\ q - 1 \in Nat
    BY <1>1, <1>2
  <2>2. (p - 1) \div m = (q - 1) \div m /\ (p - 1) % m = (q - 1) % m
    BY <1>2, <2>1
  <2> QED BY <1>1, <1>2, <2>2, QuotientAndRemainder
<1> HIDE DEF row, col
<1>6. DOMAIN paths = 1..(k * m)
      /\ \A p \in 1..(k * m) : /\ paths[p].cause.says = causes[row(p)].says
                               /\ paths[p].consequence.says = consequences[col(p)].says
  BY <1>3
<1>7. {<<paths[p].cause.says, paths[p].consequence.says>> : p \in DOMAIN paths} = A \X B
  <2>1. ASSUME NEW p \in 1..(k * m)
        PROVE  paths[p].cause.says \in A /\ paths[p].consequence.says \in B
    <3>1. row(p) \in 1..k /\ col(p) \in 1..m
      BY <1>4
    <3>2. causes[row(p)].says \in A /\ consequences[col(p)].says \in B
      BY <1>1, <1>2, <3>1
    <3> QED BY <1>6, <3>2
  <2>2. ASSUME NEW x \in A, NEW y \in B
        PROVE  \E p \in 1..(k * m) : paths[p].cause.says = x /\ paths[p].consequence.says = y
    <3>1. PICK a \in 1..k : causes[a].says = x
      BY <1>1
    <3>2. PICK b \in 1..m : consequences[b].says = y
      BY <1>2
    <3>3. PICK p \in 1..(k * m) : row(p) = a /\ col(p) = b
      BY <1>4
    <3> QED BY <1>6, <3>1, <3>2, <3>3
  <2> QED BY <1>6, <2>1, <2>2
<1>8. ASSUME NEW p \in 1..(k * m), NEW q \in 1..(k * m),
             paths[p].cause.says = paths[q].cause.says,
             paths[p].consequence.says = paths[q].consequence.says
      PROVE  p = q
  <2>1. row(p) = row(q) /\ col(p) = col(q)
    <3>1. row(p) \in 1..k /\ row(q) \in 1..k /\ col(p) \in 1..m /\ col(q) \in 1..m
      BY <1>4
    <3>2. /\ causes[row(p)].says = causes[row(q)].says
          /\ consequences[col(p)].says = consequences[col(q)].says
      BY <1>6, <1>8
    <3> QED BY <1>1, <1>2, <3>1, <3>2
  <2> QED BY <1>5, <2>1
<1> QED BY <1>6, <1>7, <1>8 DEF paths

\* The text of a scenario has each pair of a cause and a consequence as one path.
THEOREM PathsAreThePairs == Spec => []PathsArePairs
<1>1. IInv => PathsArePairs
  <2> SUFFICES ASSUME IInv PROVE PathsArePairs
    OBVIOUS
  <2>1. Evaluation.paths = Paths(scenario)
    BY EvaluateFields, SnapshotFields DEF Evaluation
  <2>2. scenario.cause \in Seq(Fragments) /\ scenario.consequence \in Seq(Fragments)
    BY SnapshotLists, ConstantsAssumption
  <2>3. /\ SaysEachOnce(SplitStatements(scenario.cause), Said(scenario.cause))
        /\ SaysEachOnce(SplitStatements(scenario.consequence), Said(scenario.consequence))
    BY <2>2, StatementsSayEachOnce
  <2> DEFINE paths == Evaluation.paths
  <2>4. /\ {<<paths[p].cause.says, paths[p].consequence.says>> : p \in DOMAIN paths}
             = Said(scenario.cause) \X Said(scenario.consequence)
        /\ \A p, q \in DOMAIN paths :
             p # q => <<paths[p].cause.says, paths[p].consequence.says>>
                        # <<paths[q].cause.says, paths[q].consequence.says>>
    BY <2>1, <2>3, PathsPair
  <2> QED BY <2>4 DEF PathsArePairs, Said
<1> QED BY <1>1, RegistryHolds, PTL

-----------------------------------------------------------------------------
(* Duplicates and rejected safeguards.                                     *)

\* The keys of which more than one safeguard may count.
Doubled(ss, reference) == {key \in Keys(ss, reference) : Len(Group(key, ss, reference)) > 1}

\* A duplicate is listed at one place below that of its group.
LEMMA DuplicatesAreListed ==
  ASSUME NEW ss \in Listing, NEW reference \in Nat
  PROVE  LET D == Doubled(ss, reference)
             keys == Ascending(D)
             duplicates == Deduplicated(ss, reference) IN
         /\ DOMAIN duplicates = 1..Cardinality(D)
         /\ \A e \in 1..Cardinality(D) :
              LET group == Group(keys[e], ss, reference)
                  ignored == duplicates[e].ignored IN
              /\ keys[e] \in D
              /\ DOMAIN ignored = 1..(Len(group) - 1)
              /\ \A p \in 1..(Len(group) - 1) : ignored[p] = group[p + 1].id
<1> DEFINE D == Doubled(ss, reference)
           n == Cardinality(D)
           keys == Ascending(D)
           duplicates == Deduplicated(ss, reference)
<1>1. D \in SUBSET Keys(ss, reference)
  BY DEF Doubled
<1>2. keys \in [1..n -> D] /\ DOMAIN keys = 1..n
  <2> HIDE DEF D
  <2> QED BY <1>1, KeysEnumerate
<1>3. /\ DOMAIN duplicates = 1..n
      /\ \A e \in 1..n :
           duplicates[e].ignored = Ignored(Group(keys[e], ss, reference))
  BY <1>2 DEF Deduplicated, Doubled
<1>4. ASSUME NEW e \in 1..n
      PROVE  LET group == Group(keys[e], ss, reference)
                 ignored == duplicates[e].ignored IN
             /\ keys[e] \in D
             /\ DOMAIN ignored = 1..(Len(group) - 1)
             /\ \A p \in 1..(Len(group) - 1) : ignored[p] = group[p + 1].id
  <2> DEFINE group == Group(keys[e], ss, reference)
             V == OfKey(keys[e], Counting(ToSet(ss), reference))
             rest == SubSeq(group, 2, Len(group))
  <2>1. keys[e] \in D
    BY <1>2
  <2>2. keys[e] \in Keys(ss, reference)
    BY <1>1, <2>1
  <2>3. group \in Seq(V) /\ Len(group) \in Nat \ {0}
    BY <2>2, FirstOfGroupIsBest
  <2>4. duplicates[e].ignored = [p \in DOMAIN rest |-> rest[p].id]
    BY <1>3 DEF Ignored, Ids
  <2> HIDE DEF group, V
  <2>5. \A p \in 2..Len(group) : group[p] \in V
    BY <2>3
  <2>6. /\ rest \in Seq(V) /\ Len(rest) = Len(group) - 1
        /\ \A p \in 1..(Len(group) - 1) : rest[p] = group[p + 1]
    <3>1. /\ rest \in Seq(V)
          /\ Len(rest) = IF 2 <= Len(group) THEN Len(group) - 2 + 1 ELSE 0
          /\ \A p \in 1..(Len(group) - 2 + 1) : rest[p] = group[2 + p - 1]
      <4>1. 2 \in Int /\ Len(group) \in Int
        BY <2>3
      <4> QED BY <2>5, <4>1, SubSeqProperties
    <3> HIDE DEF rest
    <3>2. \A p \in 1..(Len(group) - 1) : p \in 1..(Len(group) - 2 + 1) /\ 2 + p - 1 = p + 1
      BY <2>3
    <3>3. \A p \in 1..(Len(group) - 1) : rest[p] = group[p + 1]
      BY <3>1, <3>2
    <3>4. Len(rest) = Len(group) - 1
      <4>1. CASE 2 <= Len(group)
        BY <2>3, <3>1, <4>1
      <4>2. CASE ~(2 <= Len(group))
        <5>1. Len(group) = 1
          BY <2>3, <4>2
        <5>2. Len(rest) = 0
          BY <3>1, <4>2
        <5> QED BY <5>1, <5>2
      <4> QED BY <4>1, <4>2
    <3> QED BY <3>1, <3>3, <3>4
  <2>7. DOMAIN rest = 1..(Len(group) - 1)
    BY <2>6, LenProperties
  <2> QED BY <2>1, <2>4, <2>6, <2>7 DEF group
<1> QED BY <1>3, <1>4

\* The ids of the safeguards of R that may not count.
RefusedIds(R, reference) == {row.id : row \in {r \in R : Rejects(r, reference)}}

LEMMA RejectedAreListed ==
  ASSUME NEW ss \in Listing, NEW reference \in Nat
  PROVE  LET F == RefusedIds(ToSet(ss), reference)
             n == Cardinality(F)
             rejected == Rejected(ss, reference) IN
         /\ DOMAIN rejected = 1..n
         /\ \A p \in 1..n : rejected[p] \in F
         /\ \A id \in F : \E p \in 1..n : rejected[p] = id
         /\ \A p, q \in 1..n : rejected[p] = rejected[q] => p = q
<1> DEFINE S == ToSet(ss)
           R == {r \in S : Rejects(r, reference)}
           F == RefusedIds(S, reference)
           n == Cardinality(F)
           idOf == [row \in R |-> row.id]
           rejected == Rejected(ss, reference)
<1>1. rejected = Ascending(F)
  <2>1. {ss[i].id : i \in DOMAIN ss \ Eligible(ss, reference)} = F
    BY DEF ToSet, Eligible, RefusedIds
  <2> QED BY <2>1 DEF Rejected
<1>2. S \in SUBSET Rows /\ IsFiniteSet(S)
  BY ListingFacts
<1>3. F \in SUBSET Nat
  BY <1>2, RowFields DEF RefusedIds
<1>4. IsFiniteSet(F)
  <2>1. R \in SUBSET S
    OBVIOUS
  <2>2. IsFiniteSet(R)
    BY <1>2, <2>1, FS_Subset
  <2>3. idOf \in Surjection(R, F)
    BY Fun_IsSurj DEF RefusedIds
  <2> HIDE DEF R, F, idOf
  <2> QED BY <2>2, <2>3, FS_Surjection
<1> HIDE DEF F, n, rejected
<1>5. /\ Enumerates(rejected, n, F, Smaller(F)) /\ StrictOrder(Smaller(F), F) /\ n \in Nat
  BY <1>1, <1>3, <1>4, AscendingEnumerates, SmallerIsStrict, FS_CardinalityType DEF n
<1>6. /\ DOMAIN rejected = 1..n /\ \A p \in 1..n : rejected[p] \in F
      /\ \A id \in F : \E p \in 1..n : rejected[p] = id
  BY <1>5 DEF Enumerates
<1>7. \A p, q \in 1..n : rejected[p] = rejected[q] => p = q
  BY <1>5, EnumeratesOnce
<1> QED BY <1>6, <1>7 DEF F, n, rejected

-----------------------------------------------------------------------------
(* Each safeguard is counted once.                                         *)

\* The places at which an id is counted, ignored and refused.
CountsOf(id, ss, reference) ==
  {p \in DOMAIN Retained(ss, reference) : Retained(ss, reference)[p].id = id}

IgnoresOf(id, ss, reference) ==
  UNION {{e} \X {p \in DOMAIN Deduplicated(ss, reference)[e].ignored :
                   Deduplicated(ss, reference)[e].ignored[p] = id} :
           e \in DOMAIN Deduplicated(ss, reference)}

RefusesOf(id, ss, reference) ==
  {p \in DOMAIN Rejected(ss, reference) : Rejected(ss, reference)[p] = id}

\* Safeguards that may not count are refused, once, and those that may are not.
LEMMA RefusedOnce ==
  ASSUME NEW ss \in Listing, NEW reference \in Nat, NEW row \in ToSet(ss)
  PROVE  IF Rejects(row, reference) THEN \E p : RefusesOf(row.id, ss, reference) = {p}
                                    ELSE RefusesOf(row.id, ss, reference) = {}
<1> DEFINE S == ToSet(ss)
           F == RefusedIds(S, reference)
           n == Cardinality(F)
           rejected == Rejected(ss, reference)
<1>1. /\ DOMAIN rejected = 1..n /\ \A p \in 1..n : rejected[p] \in F
      /\ \A id \in F : \E p \in 1..n : rejected[p] = id
      /\ \A p, q \in 1..n : rejected[p] = rejected[q] => p = q
  BY RejectedAreListed
<1>2. Identified(S) /\ row \in S
  BY ListingFacts
<1>3. row.id \in F <=> Rejects(row, reference)
  BY <1>2 DEF RefusedIds, Identified
<1> HIDE DEF F, n, rejected
<1>4. RefusesOf(row.id, ss, reference) = {p \in 1..n : rejected[p] = row.id}
  BY <1>1 DEF RefusesOf, rejected
<1>5. CASE Rejects(row, reference)
  <2>1. PICK p \in 1..n : rejected[p] = row.id
    BY <1>1, <1>3, <1>5
  <2>2. RefusesOf(row.id, ss, reference) = {p}
    BY <1>1, <1>4, <2>1
  <2> QED BY <1>5, <2>2
<1>6. CASE ~Rejects(row, reference)
  BY <1>1, <1>3, <1>4, <1>6
<1> QED BY <1>5, <1>6

\* What a safeguard's place in a group is.
LEMMA GroupsAreApart ==
  ASSUME NEW ss \in Listing, NEW reference \in Nat, NEW key \in Keys(ss, reference),
         NEW p \in 1..Len(Group(key, ss, reference)), NEW row \in ToSet(ss),
         Group(key, ss, reference)[p].id = row.id
  PROVE  /\ Group(key, ss, reference)[p] = row /\ row.key = key
         /\ row \in Counting(ToSet(ss), reference)
<1> DEFINE V == OfKey(key, Counting(ToSet(ss), reference))
           group == Group(key, ss, reference)
<1>1. group \in [1..Cardinality(V) -> V] /\ Len(group) = Cardinality(V)
  BY FirstOfGroupIsBest
<1> HIDE DEF group
<1>2. group[p] \in V
  BY <1>1 DEF group
<1>3. group[p] \in Counting(ToSet(ss), reference) /\ group[p].key = key
  BY <1>2 DEF OfKey
<1>4. group[p] \in ToSet(ss) /\ group[p].id = row.id
  BY <1>3 DEF Counting, group
<1>5. group[p] = row
  BY <1>4, ListingFacts DEF Identified
<1> QED BY <1>3, <1>5 DEF group

LEMMA PlaceInGroup ==
  ASSUME NEW ss \in Listing, NEW reference \in Nat,
         NEW row \in Counting(ToSet(ss), reference)
  PROVE  LET group == Group(row.key, ss, reference) IN
         /\ row.key \in Keys(ss, reference)
         /\ Len(group) \in Nat \ {0}
         /\ \E q \in 1..Len(group) : group[q] = row
         /\ \A p, q \in 1..Len(group) : group[p] = group[q] => p = q
<1> DEFINE V == OfKey(row.key, Counting(ToSet(ss), reference))
           group == Group(row.key, ss, reference)
           n == Cardinality(V)
           less == Order(ToSet(ss), Better)
<1>1. row.key \in Keys(ss, reference)
  BY EligibleRows
<1>2. n \in Nat \ {0} /\ Len(group) = n
  BY <1>1, FirstOfGroupIsBest
<1>3. StrictOrder(less, V) /\ Enumerates(group, n, V, less)
  BY GroupEnumerates
<1>4. row \in V
  BY DEF OfKey
<1> HIDE DEF V, n, group, less
<1>5. \E q \in 1..n : group[q] = row
  BY <1>3, <1>4 DEF Enumerates
<1>6. \A p, q \in 1..n : group[p] = group[q] => p = q
  BY <1>2, <1>3, EnumeratesOnce
<1> QED BY <1>1, <1>2, <1>5, <1>6 DEF group

\* A safeguard that may count is counted, if it is the first of its group, or ignored.
LEMMA CountedOrIgnored ==
  ASSUME NEW ss \in Listing, NEW reference \in Nat, NEW row \in Counting(ToSet(ss), reference)
  PROVE  LET counts == CountsOf(row.id, ss, reference)
             ignores == IgnoresOf(row.id, ss, reference) IN
         \/ (\E p : counts = {p}) /\ ignores = {}
         \/ counts = {} /\ \E p : ignores = {p}
<1> DEFINE S == ToSet(ss)
           C == Counting(S, reference)
           K == Keys(ss, reference)
           keys == Ascending(K)
           n == Cardinality(K)
           retained == Retained(ss, reference)
           group == Group(row.key, ss, reference)
           D == Doubled(ss, reference)
           doubled == Ascending(D)
           m == Cardinality(D)
           duplicates == Deduplicated(ss, reference)
<1>0. row \in S
  BY DEF Counting
<1>1. /\ row.key \in K /\ Len(group) \in Nat \ {0}
      /\ \A p, q \in 1..Len(group) : group[p] = group[q] => p = q
  BY PlaceInGroup
<1>2. PICK q \in 1..Len(group) : group[q] = row
  BY PlaceInGroup
<1>3. /\ n \in Nat /\ keys \in [1..n -> K]
      /\ \A key \in K : \E p \in 1..n : keys[p] = key
  BY KeysEnumerate
<1>4. \A p, r \in 1..n : keys[p] = keys[r] => p = r
  BY <1>3, KeysEnumerate, EnumeratesOnce
<1>5. /\ DOMAIN retained = 1..n
      /\ \A p \in 1..n : retained[p] = Group(keys[p], ss, reference)[1]
  BY RetainedAreBest
<1>6. D \in SUBSET K
  BY DEF Doubled
<1>7. /\ m \in Nat /\ doubled \in [1..m -> D]
      /\ \A key \in D : \E e \in 1..m : doubled[e] = key
  <2> HIDE DEF D, K
  <2> QED BY <1>6, KeysEnumerate DEF K
<1>8. \A e, f \in 1..m : doubled[e] = doubled[f] => e = f
  <2> HIDE DEF D, K
  <2> QED BY <1>6, <1>7, KeysEnumerate, EnumeratesOnce DEF K
<1>9. /\ DOMAIN duplicates = 1..m
      /\ \A e \in 1..m :
           /\ DOMAIN duplicates[e].ignored = 1..(Len(Group(doubled[e], ss, reference)) - 1)
           /\ \A p \in 1..(Len(Group(doubled[e], ss, reference)) - 1) :
                duplicates[e].ignored[p] = Group(doubled[e], ss, reference)[p + 1].id
  BY DuplicatesAreListed
<1>10. \A key \in K : Len(Group(key, ss, reference)) \in Nat \ {0}
  BY FirstOfGroupIsBest
<1> HIDE DEF S, C, K, keys, n, retained, group, D, doubled, m, duplicates
<1>11. ASSUME NEW p \in 1..n
       PROVE  retained[p].id = row.id <=> keys[p] = row.key /\ q = 1
  <2>1. keys[p] \in K /\ 1 \in 1..Len(Group(keys[p], ss, reference))
    BY <1>3, <1>10
  <2>2. ASSUME retained[p].id = row.id PROVE keys[p] = row.key /\ q = 1
    <3>1. Group(keys[p], ss, reference)[1] = row /\ row.key = keys[p]
      BY <1>0, <1>5, <2>1, <2>2, GroupsAreApart DEF S, K
    <3>2. group[1] = row /\ 1 \in 1..Len(group)
      BY <2>1, <3>1 DEF group
    <3> QED BY <1>1, <1>2, <3>1, <3>2
  <2>3. ASSUME keys[p] = row.key, q = 1 PROVE retained[p].id = row.id
    BY <1>2, <1>5, <2>3 DEF group
  <2> QED BY <2>2, <2>3
<1>12. ASSUME NEW e \in 1..m, NEW p \in 1..(Len(Group(doubled[e], ss, reference)) - 1)
       PROVE  duplicates[e].ignored[p] = row.id <=> doubled[e] = row.key /\ p + 1 = q
  <2> DEFINE other == Group(doubled[e], ss, reference)
  <2>1. doubled[e] \in K /\ Len(other) \in Nat
    BY <1>6, <1>7, <1>10
  <2>2. p + 1 \in 1..Len(other) /\ duplicates[e].ignored[p] = other[p + 1].id
    BY <1>9, <2>1
  <2>3. ASSUME other[p + 1].id = row.id PROVE doubled[e] = row.key /\ p + 1 = q
    <3>1. other[p + 1] = row /\ row.key = doubled[e]
      BY <1>0, <2>1, <2>2, <2>3, GroupsAreApart DEF S, K
    <3>2. group[p + 1] = row /\ p + 1 \in 1..Len(group)
      BY <2>2, <3>1 DEF group
    <3> QED BY <1>1, <1>2, <3>1, <3>2
  <2>4. ASSUME doubled[e] = row.key, p + 1 = q PROVE other[p + 1].id = row.id
    BY <1>2, <2>4 DEF group
  <2> QED BY <2>2, <2>3, <2>4
<1>13. CountsOf(row.id, ss, reference) = {p \in 1..n : retained[p].id = row.id}
  BY <1>5 DEF CountsOf, retained
<1>14. \A x : x \in IgnoresOf(row.id, ss, reference)
                <=> \E e \in 1..m : \E p \in 1..(Len(Group(doubled[e], ss, reference)) - 1) :
                      x = <<e, p>> /\ duplicates[e].ignored[p] = row.id
  <2>1. \A e \in 1..m : DOMAIN duplicates[e].ignored
                          = 1..(Len(Group(doubled[e], ss, reference)) - 1)
    BY <1>9
  <2>2. DOMAIN duplicates = 1..m
    BY <1>9
  <2>3. IgnoresOf(row.id, ss, reference)
          = UNION {{e} \X {p \in DOMAIN duplicates[e].ignored :
                             duplicates[e].ignored[p] = row.id} : e \in 1..m}
    BY <2>2 DEF IgnoresOf, duplicates
  <2> QED BY <2>1, <2>3
<1>15. CASE q = 1
  <2>1. PICK p \in 1..n : keys[p] = row.key
    BY <1>1, <1>3
  <2>2. CountsOf(row.id, ss, reference) = {p}
    BY <1>4, <1>11, <1>13, <1>15, <2>1
  <2>3. ASSUME NEW e \in 1..m, NEW r \in 1..(Len(Group(doubled[e], ss, reference)) - 1)
        PROVE  duplicates[e].ignored[r] # row.id
    BY <1>12, <1>15
  <2>4. IgnoresOf(row.id, ss, reference) = {}
    BY <1>14, <2>3
  <2> QED BY <2>2, <2>4
<1>16. CASE q # 1
  <2>1. CountsOf(row.id, ss, reference) = {}
    BY <1>11, <1>13, <1>16
  <2>2. row.key \in D
    <3>1. Len(group) > 1
      BY <1>1, <1>16
    <3> QED BY <1>1, <3>1 DEF D, Doubled, K, group
  <2>3. PICK e \in 1..m : doubled[e] = row.key
    BY <1>7, <2>2
  <2>4. q - 1 \in 1..(Len(Group(doubled[e], ss, reference)) - 1)
    BY <1>1, <1>16, <2>3 DEF group
  <2>5. ASSUME NEW f \in 1..m, NEW p \in 1..(Len(Group(doubled[f], ss, reference)) - 1)
        PROVE  duplicates[f].ignored[p] = row.id <=> f = e /\ p = q - 1
    <3>1. duplicates[f].ignored[p] = row.id <=> doubled[f] = row.key /\ p + 1 = q
      BY <1>12
    <3>2. p \in Int
      OBVIOUS
    <3> QED BY <1>8, <2>3, <3>1, <3>2
  <2>6. \A x : x \in IgnoresOf(row.id, ss, reference) <=> x = <<e, q - 1>>
    BY <1>14, <2>4, <2>5
  <2>7. IgnoresOf(row.id, ss, reference) = {<<e, q - 1>>}
    BY <2>6
  <2> QED BY <2>1, <2>7
<1> QED BY <1>15, <1>16

\* A safeguard that may not count is neither counted nor ignored.
LEMMA RefusedIsNotCounted ==
  ASSUME NEW ss \in Listing, NEW reference \in Nat, NEW row \in ToSet(ss),
         Rejects(row, reference)
  PROVE  CountsOf(row.id, ss, reference) = {} /\ IgnoresOf(row.id, ss, reference) = {}
<1> DEFINE C == Counting(ToSet(ss), reference)
           K == Keys(ss, reference)
           n == Cardinality(K)
           retained == Retained(ss, reference)
           D == Doubled(ss, reference)
           m == Cardinality(D)
           doubled == Ascending(D)
           duplicates == Deduplicated(ss, reference)
<1>1. row \notin C
  BY DEF Counting
<1>2. retained \in [1..n -> C] /\ DOMAIN retained = 1..n
  BY RetainedAreBest
<1>3. ASSUME NEW other \in C, other.id = row.id PROVE FALSE
  <2>1. other \in ToSet(ss)
    BY DEF Counting
  <2>2. other = row
    BY <1>3, <2>1, ListingFacts DEF Identified
  <2> QED BY <1>1, <2>2
<1>4. CountsOf(row.id, ss, reference) = {}
  <2> HIDE DEF C, n, retained
  <2>1. \A p \in DOMAIN retained : retained[p].id # row.id
    BY <1>2, <1>3
  <2> QED BY <2>1 DEF CountsOf, retained
<1>5. ASSUME NEW e \in DOMAIN duplicates, NEW p \in DOMAIN duplicates[e].ignored,
             duplicates[e].ignored[p] = row.id
      PROVE  FALSE
  <2> DEFINE group == Group(doubled[e], ss, reference)
  <2>1. /\ doubled[e] \in D /\ p \in 1..(Len(group) - 1)
        /\ duplicates[e].ignored[p] = group[p + 1].id
    <3>1. /\ DOMAIN duplicates = 1..m
          /\ \A f \in 1..m :
               /\ doubled[f] \in D
               /\ DOMAIN duplicates[f].ignored = 1..(Len(Group(doubled[f], ss, reference)) - 1)
               /\ \A r \in 1..(Len(Group(doubled[f], ss, reference)) - 1) :
                    duplicates[f].ignored[r] = Group(doubled[f], ss, reference)[r + 1].id
      BY DuplicatesAreListed
    <3> HIDE DEF duplicates, m, D, doubled
    <3> QED BY <3>1
  <2>2. doubled[e] \in K /\ Len(group) \in Nat
    BY <2>1, FirstOfGroupIsBest DEF Doubled
  <2>3. p + 1 \in 1..Len(group)
    BY <2>1, <2>2
  <2>4. group[p + 1].id = row.id
    BY <1>5, <2>1
  <2> HIDE DEF D, C, K, doubled
  <2>5. row \in C
    BY <2>2, <2>3, <2>4, GroupsAreApart DEF C, K
  <2> QED BY <1>1, <2>5
<1>6. IgnoresOf(row.id, ss, reference) = {}
  <2> HIDE DEF duplicates
  <2>1. \A e \in DOMAIN duplicates :
          {e} \X {p \in DOMAIN duplicates[e].ignored : duplicates[e].ignored[p] = row.id} = {}
    BY <1>5
  <2> QED BY <2>1 DEF IgnoresOf, duplicates
<1> QED BY <1>4, <1>6

\* Every id is counted, ignored or refused, once.
LEMMA OnceInAll ==
  ASSUME NEW ss \in Listing, NEW reference \in Nat, NEW row \in ToSet(ss)
  PROVE  Cardinality(CountsOf(row.id, ss, reference))
           + Cardinality(IgnoresOf(row.id, ss, reference))
           + Cardinality(RefusesOf(row.id, ss, reference)) = 1
<1> DEFINE counts == CountsOf(row.id, ss, reference)
           ignores == IgnoresOf(row.id, ss, reference)
           refuses == RefusesOf(row.id, ss, reference)
<1>1. \A x : Cardinality({x}) = 1
  BY FS_Singleton
<1>2. Cardinality({}) = 0
  BY FS_EmptySet
<1>3. CASE Rejects(row, reference)
  <2>1. counts = {} /\ ignores = {} /\ \E p : refuses = {p}
    BY <1>3, RefusedIsNotCounted, RefusedOnce
  <2> HIDE DEF counts, ignores, refuses
  <2>2. Cardinality(counts) = 0 /\ Cardinality(ignores) = 0 /\ Cardinality(refuses) = 1
    BY <1>1, <1>2, <2>1
  <2> QED BY <2>2 DEF counts, ignores, refuses
<1>4. CASE ~Rejects(row, reference)
  <2>1. row \in Counting(ToSet(ss), reference)
    BY <1>4 DEF Counting
  <2>2. refuses = {} /\ \/ (\E p : counts = {p}) /\ ignores = {}
                        \/ counts = {} /\ \E p : ignores = {p}
    BY <1>4, <2>1, RefusedOnce, CountedOrIgnored
  <2> HIDE DEF counts, ignores, refuses
  <2>3. /\ Cardinality(refuses) = 0
        /\ \/ Cardinality(counts) = 1 /\ Cardinality(ignores) = 0
           \/ Cardinality(counts) = 0 /\ Cardinality(ignores) = 1
    BY <1>1, <1>2, <2>2
  <2> QED BY <2>3 DEF counts, ignores, refuses
<1> QED BY <1>3, <1>4

\* The ids of the safeguards of R.
IdsOf(R) == {row.id : row \in R}

LEMMA ReportedIdsExist ==
  ASSUME NEW ss \in Listing, NEW reference \in Nat
  PROVE  /\ ToSet(Ids(Retained(ss, reference))) \subseteq IdsOf(ToSet(ss))
         /\ \A e \in DOMAIN Deduplicated(ss, reference) :
              ToSet(Deduplicated(ss, reference)[e].ignored) \subseteq IdsOf(ToSet(ss))
         /\ ToSet(Rejected(ss, reference)) \subseteq IdsOf(ToSet(ss))
         /\ \A p, q \in DOMAIN Retained(ss, reference) :
              p # q => Retained(ss, reference)[p].key # Retained(ss, reference)[q].key
<1> DEFINE S == ToSet(ss)
           C == Counting(S, reference)
           K == Keys(ss, reference)
           keys == Ascending(K)
           n == Cardinality(K)
           retained == Retained(ss, reference)
           D == Doubled(ss, reference)
           m == Cardinality(D)
           doubled == Ascending(D)
           duplicates == Deduplicated(ss, reference)
           F == RefusedIds(S, reference)
           k == Cardinality(F)
           rejected == Rejected(ss, reference)
<1>0. C \in SUBSET S
  BY DEF Counting
<1>1. /\ retained \in [1..n -> C] /\ DOMAIN retained = 1..n
      /\ \A p \in 1..n : retained[p].key = keys[p]
  BY RetainedAreBest
<1>2. \A p, q \in 1..n : keys[p] = keys[q] => p = q
  BY KeysEnumerate, EnumeratesOnce
<1>3. /\ DOMAIN duplicates = 1..m
      /\ \A e \in 1..m :
           /\ doubled[e] \in D
           /\ DOMAIN duplicates[e].ignored = 1..(Len(Group(doubled[e], ss, reference)) - 1)
           /\ \A p \in 1..(Len(Group(doubled[e], ss, reference)) - 1) :
                duplicates[e].ignored[p] = Group(doubled[e], ss, reference)[p + 1].id
  BY DuplicatesAreListed
<1>4. DOMAIN rejected = 1..k /\ \A p \in 1..k : rejected[p] \in F
  BY RejectedAreListed
<1>5. F \subseteq IdsOf(S)
  BY DEF RefusedIds, IdsOf
<1>6. \A key \in D : /\ Len(Group(key, ss, reference)) \in Nat
                     /\ \A p \in 1..Len(Group(key, ss, reference)) :
                          Group(key, ss, reference)[p] \in S
  <2> SUFFICES ASSUME NEW key \in D
               PROVE  /\ Len(Group(key, ss, reference)) \in Nat
                      /\ \A p \in 1..Len(Group(key, ss, reference)) :
                           Group(key, ss, reference)[p] \in S
    OBVIOUS
  <2> DEFINE V == OfKey(key, C)
             group == Group(key, ss, reference)
  <2>1. key \in K
    BY DEF Doubled
  <2>2. group \in Seq(V) /\ Len(group) \in Nat
    BY <2>1, FirstOfGroupIsBest
  <2>3. V \subseteq S
    BY <1>0 DEF OfKey
  <2> HIDE DEF V, group, S
  <2> QED BY <2>2, <2>3 DEF group
<1> HIDE DEF S, C, K, keys, n, retained, D, m, doubled, duplicates, F, k, rejected
<1>7. ToSet(Ids(retained)) \subseteq IdsOf(S)
  <2>1. \A p \in 1..n : retained[p].id \in IdsOf(S)
    BY <1>0, <1>1 DEF IdsOf
  <2>2. ToSet(Ids(retained)) = {retained[p].id : p \in 1..n}
    BY <1>1 DEF ToSet, Ids
  <2> QED BY <2>1, <2>2
<1>8. ASSUME NEW e \in DOMAIN duplicates
      PROVE  ToSet(duplicates[e].ignored) \subseteq IdsOf(S)
  <2> DEFINE group == Group(doubled[e], ss, reference)
  <2>1. /\ doubled[e] \in D /\ DOMAIN duplicates[e].ignored = 1..(Len(group) - 1)
        /\ \A p \in 1..(Len(group) - 1) : duplicates[e].ignored[p] = group[p + 1].id
    BY <1>3
  <2>2. Len(group) \in Nat /\ \A p \in 1..Len(group) : group[p] \in S
    BY <1>6, <2>1
  <2> HIDE DEF group
  <2>3. ASSUME NEW p \in 1..(Len(group) - 1) PROVE duplicates[e].ignored[p] \in IdsOf(S)
    <3>1. p + 1 \in 1..Len(group)
      BY <2>2
    <3> QED BY <2>1, <2>2, <3>1 DEF IdsOf
  <2> QED BY <2>1, <2>3 DEF ToSet
<1>9. ToSet(rejected) \subseteq IdsOf(S)
  BY <1>4, <1>5 DEF ToSet
<1>10. \A p, q \in DOMAIN retained : p # q => retained[p].key # retained[q].key
  BY <1>1, <1>2
<1> QED BY <1>7, <1>8, <1>9, <1>10 DEF S, retained, duplicates, rejected

\* Every safeguard is counted, reported as a duplicate or reported as rejected, and only
\* one of these.
THEOREM SafeguardsAreCountedOnce == Spec => []EachCountedOnce
<1>1. IInv => EachCountedOnce
  <2> SUFFICES ASSUME IInv PROVE EachCountedOnce
    OBVIOUS
  <2> DEFINE ss == ByKey(rows)
  <2>1. ss \in Listing /\ ToSet(ss) = ToSet(rows) /\ now \in Nat
    BY SnapshotLists
  <2>2. /\ Evaluation.resolved.retained = Retained(ss, now)
        /\ Evaluation.resolved.deduplicated = Deduplicated(ss, now)
        /\ Evaluation.resolved.rejected = Rejected(ss, now)
    <3>1. Evaluation.resolved = ResolveIndependence(ss, now)
      BY EvaluateFields, SnapshotFields DEF Evaluation
    <3> HIDE DEF ss
    <3> QED BY <3>1 DEF ResolveIndependence
  <2>3. \A i \in DOMAIN rows : rows[i] \in ToSet(rows)
    BY DEF ToSet
  <2>4. ToSet(Ids(rows)) = IdsOf(ToSet(rows))
    BY DEF ToSet, Ids, IdsOf
  <2> HIDE DEF ss
  <2>5. ASSUME NEW i \in DOMAIN rows
        PROVE  Cardinality(CountsOf(rows[i].id, ss, now))
                 + Cardinality(IgnoresOf(rows[i].id, ss, now))
                 + Cardinality(RefusesOf(rows[i].id, ss, now)) = 1
    BY <2>1, <2>3, OnceInAll
  <2>6. /\ ToSet(Ids(Retained(ss, now))) \subseteq ToSet(Ids(rows))
        /\ \A e \in DOMAIN Deduplicated(ss, now) :
             ToSet(Deduplicated(ss, now)[e].ignored) \subseteq ToSet(Ids(rows))
        /\ ToSet(Rejected(ss, now)) \subseteq ToSet(Ids(rows))
        /\ \A p, q \in DOMAIN Retained(ss, now) :
             p # q => Retained(ss, now)[p].key # Retained(ss, now)[q].key
    BY <2>1, <2>4, ReportedIdsExist
  <2> QED BY <2>2, <2>5, <2>6 DEF EachCountedOnce, CountsOf, IgnoresOf, RefusesOf
<1> QED BY <1>1, RegistryHolds, PTL

-----------------------------------------------------------------------------
(* The score from one evaluation to the next.                              *)

\* A list that holds, at ascending places, safeguards at least as effective as those of
\* another leaves no more.
LEMMA LongerListLeavesLess ==
  ASSUME NEW few \in Seq(Rows), NEW many \in Seq(Rows), NEW n \in Nat, NEW m \in Nat,
         n = Len(few), m = Len(many), NEW h \in [1..n -> 1..m],
         \A i, j \in 1..n : i < j => h[i] < h[j],
         \A i \in 1..n : few[i].effectiveness <= many[h[i]].effectiveness
  PROVE  RemainingProbability(many) <= RemainingProbability(few)
<1>1. PICK f : IsChance(f, n, few) /\ RemainingProbability(few) = f[n]
  BY RemainingProbabilityIs
<1>2. PICK g : IsChance(g, m, many) /\ RemainingProbability(many) = g[m]
  BY RemainingProbabilityIs
<1>3. /\ \A i \in 1..n : few[i].effectiveness \in 1..Scale
      /\ \A i \in 1..m : many[i].effectiveness \in 1..Scale
  BY RemainingProbabilityIs
<1>4. One \in Nat /\ \A i \in 0..n : f[i] \in 0..One
  BY <1>1, FloatConstants DEF IsChance
<1>5. \A j \in 0..m : g[j] \in 0..One /\ g[j] \in Floats
  BY <1>2 DEF IsChance
<1>6. \A j \in 1..m : Factor(many[j]) \in 0..One
  BY <1>3, FactorIs
<1>7. \A i \in 1..n : Factor(few[i]) \in 0..One /\ Factor(many[h[i]]) <= Factor(few[i])
  <2> SUFFICES ASSUME NEW i \in 1..n
               PROVE  Factor(few[i]) \in 0..One /\ Factor(many[h[i]]) <= Factor(few[i])
    OBVIOUS
  <2>1. few[i].effectiveness \in 1..Scale /\ many[h[i]].effectiveness \in 1..Scale
    BY <1>3
  <2> QED BY <2>1, FactorIs, FactorGrows
<1> DEFINE Reached(i, j) == i = 0 \/ h[i] <= j
           S == {j \in 0..m : \A i \in 0..n : Reached(i, j) => g[j] <= f[i]}
<1>8. 0 \in S
  <2>1. f[0] = One /\ g[0] \in 0..One
    BY <1>1, <1>5 DEF IsChance
  <2>2. \A i \in 0..n : Reached(i, 0) => i = 0
    OBVIOUS
  <2> QED BY <1>4, <2>1, <2>2
<1>9. ASSUME NEW j \in 1..m, j - 1 \in S PROVE j \in S
  <2>1. /\ g[j] = Nearest(g[j - 1] * Factor(many[j]), One)
        /\ g[j - 1] \in 0..One /\ g[j - 1] \in Floats /\ g[j] \in 0..One
    BY <1>2, <1>5 DEF IsChance
  <2>2. g[j] <= g[j - 1]
    BY <1>6, <2>1, ProductOfParts
  <2>3. ASSUME NEW i \in 0..n, Reached(i, j) PROVE g[j] <= f[i]
    <3>1. CASE Reached(i, j - 1)
      <4>1. g[j - 1] <= f[i]
        BY <1>9, <3>1
      <4> QED BY <1>4, <2>1, <2>2, <4>1
    <3>2. CASE ~Reached(i, j - 1)
      <4>1. i \in 1..n /\ i - 1 \in 0..n /\ h[i] = j
        BY <2>3, <3>2
      <4>2. Reached(i - 1, j - 1)
        <5>1. CASE i = 1
          BY <5>1
        <5>2. CASE i # 1
          <6>1. i - 1 \in 1..n /\ i - 1 < i
            BY <4>1, <5>2
          <6>2. h[i - 1] < h[i] /\ h[i - 1] \in 1..m
            BY <4>1, <6>1
          <6> QED BY <4>1, <6>2
        <5> QED BY <5>1, <5>2
      <4>3. g[j - 1] <= f[i - 1]
        BY <1>9, <4>1, <4>2
      <4>4. /\ Factor(many[j]) <= Factor(few[i])
            /\ Factor(many[j]) \in 0..One /\ Factor(few[i]) \in 0..One
        BY <1>6, <1>7, <4>1
      <4>5. f[i] = Nearest(f[i - 1] * Factor(few[i]), One) /\ f[i - 1] \in 0..One
        BY <1>1, <1>4, <4>1 DEF IsChance
      <4>6. g[j - 1] * Factor(many[j]) <= f[i - 1] * Factor(few[i])
        <5> DEFINE a == g[j - 1]
                   b == Factor(many[j])
                   c == f[i - 1]
                   d == Factor(few[i])
        <5>1. a \in Nat /\ b \in Nat /\ c \in Nat /\ d \in Nat /\ a <= c /\ b <= d
          BY <1>4, <2>1, <4>3, <4>4, <4>5
        <5> HIDE DEF a, b, c, d
        <5>2. a * b <= c * b /\ b * c <= d * c
          BY <5>1, AtMostByFactor
        <5>3. a * b \in Nat /\ c * b = b * c /\ d * c = c * d /\ b * c \in Nat /\ c * d \in Nat
          BY <5>1
        <5>4. a * b <= c * d
          BY <5>2, <5>3
        <5> QED BY <5>4 DEF a, b, c, d
      <4>7. /\ Roundable(g[j - 1] * Factor(many[j]), One)
            /\ Roundable(f[i - 1] * Factor(few[i]), One)
        BY <2>1, <4>4, <4>5, ProductOfParts
      <4> QED BY <2>1, <4>5, <4>6, <4>7, NearestGrows
    <3> QED BY <3>1, <3>2
  <2> QED BY <2>3
<1>10. m \in S
  <2>1. \A j \in 0..m : j \in S
    <3> HIDE DEF S
    <3> QED BY <1>8, <1>9, Induction
  <2> QED BY <2>1
<1>11. Reached(n, m)
  <2>1. n # 0 => h[n] \in 1..m
    OBVIOUS
  <2> QED BY <2>1
<1> QED BY <1>1, <1>2, <1>10, <1>11

\* More safeguards that may count leave no more.
LEMMA MoreLeaveLess ==
  ASSUME NEW ss \in Listing, NEW r \in Nat, NEW tt \in Listing, NEW u \in Nat,
         Counting(ToSet(ss), r) \subseteq Counting(ToSet(tt), u)
  PROVE  RemainingProbability(Retained(tt, u)) <= RemainingProbability(Retained(ss, r))
<1> DEFINE C == Counting(ToSet(ss), r)
           D == Counting(ToSet(tt), u)
           K == Keys(ss, r)
           L == Keys(tt, u)
           n == Cardinality(K)
           m == Cardinality(L)
           a == Ascending(K)
           b == Ascending(L)
           few == Retained(ss, r)
           many == Retained(tt, u)
<1>1. /\ n \in Nat /\ few \in Seq(Rows) /\ Len(few) = n /\ few \in [1..n -> C]
      /\ \A p \in 1..n : few[p].key = a[p]
  BY RetainedAreBest
<1>2. /\ m \in Nat /\ many \in Seq(Rows) /\ Len(many) = m
      /\ \A p \in 1..m : \A row \in D :
           row.key = b[p] => row.effectiveness <= many[p].effectiveness
  BY RetainedAreBest
<1>3. K = {row.key : row \in C} /\ L = {row.key : row \in D}
  BY EligibleRows
<1>4. /\ K \in SUBSET Nat /\ a \in [1..n -> K]
      /\ \A p, q \in 1..n : p < q => <<a[p], a[q]>> \in Smaller(K)
  BY KeysEnumerate DEF Enumerates
<1>5. /\ L \in SUBSET Nat /\ b \in [1..m -> L] /\ \A key \in L : \E p \in 1..m : b[p] = key
      /\ \A p, q \in 1..m : p < q => <<b[p], b[q]>> \in Smaller(L)
  BY KeysEnumerate DEF Enumerates
<1> HIDE DEF C, D, K, L, n, m, a, b, few, many
<1>6. K \in SUBSET L
  BY <1>3 DEF C, D
<1> DEFINE h == [i \in 1..n |-> CHOOSE p \in 1..m : b[p] = a[i]]
<1>7. \A i \in 1..n : h[i] \in 1..m /\ b[h[i]] = a[i]
  BY <1>4, <1>5, <1>6
<1>8. h \in [1..n -> 1..m]
  BY <1>7
<1> HIDE DEF h
<1>9. ASSUME NEW i \in 1..n, NEW j \in 1..n, i < j PROVE h[i] < h[j]
  <2>1. a[i] < a[j] /\ a[i] \in Nat /\ a[j] \in Nat
    BY <1>4, <1>9, SmallerIs
  <2>2. h[i] \in 1..m /\ h[j] \in 1..m /\ b[h[i]] = a[i] /\ b[h[j]] = a[j]
    BY <1>7
  <2>3. h[i] # h[j]
    BY <2>1, <2>2
  <2>4. ~(h[j] < h[i])
    <3>1. h[j] < h[i] => b[h[j]] < b[h[i]]
      BY <1>5, <2>2, SmallerIs
    <3> QED BY <2>1, <2>2, <3>1
  <2> QED BY <2>2, <2>3, <2>4
<1>10. \A i \in 1..n : few[i].effectiveness <= many[h[i]].effectiveness
  <2> SUFFICES ASSUME NEW i \in 1..n PROVE few[i].effectiveness <= many[h[i]].effectiveness
    OBVIOUS
  <2>1. few[i] \in D /\ few[i].key = b[h[i]] /\ h[i] \in 1..m
    BY <1>1, <1>7 DEF C, D
  <2> QED BY <1>2, <2>1
<1>11. RemainingProbability(many) <= RemainingProbability(few)
  BY <1>1, <1>2, <1>8, <1>9, <1>10, LongerListLeavesLess
<1> QED BY <1>11 DEF few, many

LEMMA MoreIsNotWorse ==
  ASSUME NEW s \in Scenarios,
         NEW ss \in Listing, NEW r \in Nat, NEW tt \in Listing, NEW u \in Nat,
         Counting(ToSet(ss), r) \subseteq Counting(ToSet(tt), u)
  PROVE  NotWorse(Evaluate([scenario |-> s, safeguards |-> ss, reference |-> r]),
                  Evaluate([scenario |-> s, safeguards |-> tt, reference |-> u]))
<1> DEFINE initial == s.likelihood * s.severity
           few == Retained(ss, r)
           many == Retained(tt, u)
           a == Evaluate([scenario |-> s, safeguards |-> ss, reference |-> r])
           b == Evaluate([scenario |-> s, safeguards |-> tt, reference |-> u])
<1>1. /\ a.combined = Combined(few)
      /\ a.uncovered = IF Covered(few) THEN <<>> ELSE Paths(s)
      /\ a.residual = Residual(initial, few) /\ a.riskAfter = RiskRank(Residual(initial, few))
  BY EvaluateFields
<1>2. /\ b.combined = Combined(many)
      /\ b.uncovered = IF Covered(many) THEN <<>> ELSE Paths(s)
      /\ b.residual = Residual(initial, many) /\ b.riskAfter = RiskRank(Residual(initial, many))
  BY EvaluateFields
<1>3. RemainingProbability(many) <= RemainingProbability(few)
  BY MoreLeaveLess
<1>4. /\ few \in Seq(Rows) /\ Len(few) \in Nat
      /\ many \in Seq(Rows) /\ Len(many) \in Nat
      /\ initial \in 1..25
  BY RetainedAreBest, InitialRisk
<1> HIDE DEF initial, few, many, a, b
<1>5. /\ RemainingProbability(few) \in 0..One /\ Combined(few) \in 0..One
      /\ RemainingProbability(many) \in 0..One /\ Combined(many) \in 0..One
  BY <1>4, RemainingIsNear, CombinedIsNear
<1>6. Combined(few) <= Combined(many)
  <2> DEFINE x == RemainingProbability(few)
             y == RemainingProbability(many)
  <2>1. One - x \in 0..One /\ One - y \in 0..One /\ One - x <= One - y
    BY <1>3, <1>5, FloatConstants
  <2>2. Nearest(One - x, 1) <= Nearest(One - y, 1)
    <3> HIDE DEF x, y
    <3> QED BY <2>1, PartsAreRoundable, NearestGrows
  <2> QED BY <2>2 DEF Combined
<1>7. Residual(initial, many) <= Residual(initial, few)
  BY <1>4, <1>5, <1>6, ResidualGrows
<1>8. RiskRank(Residual(initial, many)) <= RiskRank(Residual(initial, few))
  <2>1. Residual(initial, many) \in Nat /\ Residual(initial, few) \in Nat
    <3>1. Residual(initial, many) \in 1..initial /\ Residual(initial, few) \in 1..initial
      BY <1>4, <1>5, ResidualIs
    <3> QED BY <3>1
  <2> QED BY <1>7, <2>1, RiskRankGrows
<1>9. ToSet(b.uncovered) \subseteq ToSet(a.uncovered)
  <2>1. CASE Covered(many)
    <3>1. b.uncovered = <<>>
      BY <1>2, <2>1
    <3>2. ToSet(b.uncovered) = {}
      BY <3>1 DEF ToSet
    <3> QED BY <3>2
  <2>2. CASE ~Covered(many)
    <3>1. ~Covered(few)
      BY <1>5, <1>6, <2>2, FloatConstants DEF Covered
    <3> QED BY <1>1, <1>2, <2>2, <3>1
  <2> QED BY <2>1, <2>2
<1>10. NotWorse(a, b)
  BY <1>1, <1>2, <1>6, <1>7, <1>8, <1>9 DEF NotWorse
<1> QED BY <1>10 DEF a, b

\* The snapshot of rows lists as many as there are.
LEMMA SnapshotLength ==
  ASSUME NEW ss \in Listing
  PROVE  Len(ByKey(ss)) = Len(ss)
<1>1. ByKey(ss) \in Listing /\ Len(ss) \in Nat /\ DOMAIN ss = 1..Len(ss)
  BY ByKeyLists, ListingFacts
<1>2. Cardinality(DOMAIN ss) = Len(ss)
  <2>1. Cardinality(1..Len(ss)) = IF 1 > Len(ss) THEN 0 ELSE Len(ss) - 1 + 1
    BY <1>1, FS_Interval
  <2> QED BY <1>1, <2>1
<1>3. DOMAIN ByKey(ss) = 1..Len(ss)
  BY <1>2 DEF ByKey, Sorted
<1>4. Len(ByKey(ss)) \in Nat /\ DOMAIN ByKey(ss) = 1..Len(ByKey(ss))
  BY <1>1, ListingFacts
<1> QED BY <1>1, <1>3, <1>4

\* From one state to the next, what counts only grows with a registration, and only
\* shrinks with what else happens.
LEMMA CountingInSteps ==
  ASSUME IInv, IInv', [Next]_vars
  PROVE  /\ rows \in Listing /\ rows' \in Listing /\ now \in Nat /\ now' \in Nat
         /\ scenario \in Scenarios /\ scenario' = scenario
         /\ IF Len(rows') > Len(rows)
            THEN Counting(ToSet(rows), now) \subseteq Counting(ToSet(rows'), now')
            ELSE Counting(ToSet(rows'), now') \subseteq Counting(ToSet(rows), now)
<1>1. rows \in Listing /\ now \in Nat /\ scenario \in Scenarios
  BY RowsAreListed
<1>2. rows' \in Listing /\ now' \in Nat
  BY DEF IInv, TypeOK, Registry, Listing
<1>3. Len(rows) \in Nat /\ DOMAIN rows = 1..Len(rows) /\ rows \in [1..Len(rows) -> Rows]
  BY <1>1, ListingFacts
<1>4. CASE \E kind \in Kinds : Register(kind)
  <2>1. PICK kind \in Kinds : Register(kind)
    BY <1>4
  <2>2. PICK row : rows' = Append(rows, row) /\ now' = now /\ scenario' = scenario
    BY <2>1 DEF Register
  <2>3. rows \in Seq(Rows)
    BY <1>1 DEF Listing
  <2>4. DOMAIN rows' = 1..(Len(rows) + 1) /\ Len(rows') = Len(rows) + 1
        /\ \A i \in 1..Len(rows) : rows'[i] = rows[i]
    BY <1>3, <2>2
  <2>5. ToSet(rows) \subseteq ToSet(rows')
    BY <1>3, <2>4 DEF ToSet
  <2>6. Counting(ToSet(rows), now) \subseteq Counting(ToSet(rows'), now')
    BY <2>2, <2>5 DEF Counting
  <2> QED BY <1>1, <1>2, <1>3, <2>2, <2>4, <2>6
<1>5. CASE \E i \in DOMAIN rows : Invalidate(i)
  <2>1. PICK i \in DOMAIN rows : Invalidate(i)
    BY <1>5
  <2>2. rows' = [rows EXCEPT ![i].state = "invalid"] /\ now' = now /\ scenario' = scenario
    BY <2>1 DEF Invalidate
  <2>3. DOMAIN rows' = DOMAIN rows
    BY <2>2
  <2>4. Len(rows') = Len(rows)
    BY <1>2, <1>3, <2>3, ListingFacts
  <2>5. rows'[i].state = "invalid"
    <3>1. rows[i] \in Rows
      BY <1>3
    <3> QED BY <1>3, <2>2, <3>1 DEF Rows
  <2>6. \A j \in DOMAIN rows : j # i => rows'[j] = rows[j]
    BY <2>2
  <2>7. ASSUME NEW row \in Counting(ToSet(rows'), now') PROVE row \in Counting(ToSet(rows), now)
    <3>1. PICK j \in DOMAIN rows : row = rows'[j]
      BY <2>3 DEF Counting, ToSet
    <3>2. ~Rejects(row, now)
      BY <2>2 DEF Counting
    <3>3. j # i
      BY <2>5, <3>1, <3>2 DEF Rejects, Ineligible
    <3> QED BY <2>6, <3>1, <3>2, <3>3 DEF Counting, ToSet
  <2>8. ~(Len(rows') > Len(rows))
    BY <1>3, <2>4
  <2> QED BY <1>1, <1>2, <2>2, <2>7, <2>8
<1>6. CASE Age
  <2>1. now' = now + 1 /\ rows' = rows /\ scenario' = scenario
    BY <1>6 DEF Age
  <2>2. ASSUME NEW row \in Counting(ToSet(rows'), now') PROVE row \in Counting(ToSet(rows), now)
    <3>1. row \in ToSet(rows) /\ ~Rejects(row, now + 1)
      BY <2>1 DEF Counting
    <3>2. row.verifiedAt \in Nat \cup {None} /\ row.interval \in Nat
      BY <1>1, <3>1, ListingFacts, RowFields
    <3>3. ~Rejects(row, now)
      BY <1>1, <3>1, <3>2 DEF Rejects, Ineligible
    <3> QED BY <3>1, <3>3 DEF Counting
  <2> QED BY <1>1, <1>2, <1>3, <2>1, <2>2
<1>7. CASE Settled \/ UNCHANGED vars
  <2>1. rows' = rows /\ now' = now /\ scenario' = scenario
    BY <1>7 DEF Settled, vars
  <2> QED BY <1>1, <1>2, <1>3, <2>1
<1> QED BY <1>4, <1>5, <1>6, <1>7 DEF Next

\* A safeguard more is never worse for the coverage, and nothing else is better.
THEOREM CoverageOnlyGrowsBySafeguards == Spec => CoverageIsMonotone
<1>1. IInv /\ IInv' /\ [Next]_vars => StepKeepsOrder
  <2> SUFFICES ASSUME IInv, IInv', [Next]_vars PROVE StepKeepsOrder
    OBVIOUS
  <2>1. /\ rows \in Listing /\ rows' \in Listing /\ now \in Nat /\ now' \in Nat
        /\ scenario \in Scenarios /\ scenario' = scenario
    BY CountingInSteps
  <2> DEFINE ss == ByKey(rows)
             tt == ByKey(rows')
  <2>2. /\ ss \in Listing /\ ToSet(ss) = ToSet(rows) /\ Len(ss) = Len(rows)
        /\ tt \in Listing /\ ToSet(tt) = ToSet(rows') /\ Len(tt) = Len(rows')
    BY <2>1, ByKeyLists, SnapshotLength
  <2>3. /\ Snapshot = [scenario |-> scenario, safeguards |-> ss, reference |-> now]
        /\ Snapshot' = [scenario |-> scenario, safeguards |-> tt, reference |-> now']
    BY <2>1 DEF Snapshot, NewSnapshot
  <2> HIDE DEF ss, tt
  <2>4. CASE Len(rows') > Len(rows)
    <3>1. Counting(ToSet(ss), now) \subseteq Counting(ToSet(tt), now')
      BY <2>2, <2>4, CountingInSteps
    <3>2. NotWorse(Evaluate(Snapshot), Evaluate(Snapshot'))
      BY <2>1, <2>2, <2>3, <3>1, MoreIsNotWorse
    <3>3. Len(Snapshot'.safeguards) > Len(Snapshot.safeguards)
      BY <2>2, <2>3, <2>4
    <3> QED BY <3>2, <3>3 DEF StepKeepsOrder
  <2>5. CASE ~(Len(rows') > Len(rows))
    <3>1. Counting(ToSet(tt), now') \subseteq Counting(ToSet(ss), now)
      BY <2>2, <2>5, CountingInSteps
    <3>2. NotWorse(Evaluate(Snapshot'), Evaluate(Snapshot))
      BY <2>1, <2>2, <2>3, <3>1, MoreIsNotWorse
    <3>3. ~(Len(Snapshot'.safeguards) > Len(Snapshot.safeguards))
      BY <2>2, <2>3, <2>5
    <3> QED BY <3>2, <3>3 DEF StepKeepsOrder
  <2> QED BY <2>4, <2>5
<1> QED BY <1>1, RegistryHolds, PTL DEF Spec, CoverageIsMonotone
================================================================================
