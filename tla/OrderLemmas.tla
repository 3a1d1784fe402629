------------------------------ MODULE OrderLemmas ------------------------------
(***************************************************************************)
(* What the proofs need of orders and of recursion: a finite set that is   *)
(* ordered has a first element and can be listed in its order, and a       *)
(* function can be defined step by step.  Each follows from the            *)
(* least-number principle, by looking at the smallest counterexample.      *)
(***************************************************************************)
EXTENDS Integers, Sequences, FiniteSets, FiniteSetTheorems, WellFoundedInduction, TLAPS

\* The elements of a sequence are of the set it is a sequence of.
LEMMA ElementOf ==
  ASSUME NEW S, NEW s \in Seq(S), NEW i \in DOMAIN s
  PROVE  s[i] \in S
OBVIOUS

LEMMA UpToIsFinite ==
  ASSUME NEW n \in Nat PROVE IsFiniteSet(1 .. n)
  BY FS_Interval

\* The least-number principle.
LEMMA LeastNumber ==
  ASSUME NEW T \in SUBSET Nat, T # {}
  PROVE  \E n \in T : \A k \in T : n <= k
<1>1. PICK n \in T : \A k \in T : ~(<<k, n>> \in OpToRel(<, Nat))
  BY NatLessThanWellFounded, WFMin
<1>2. \A k \in T : ~(k < n)
  BY <1>1 DEF OpToRel
<1>3. QED
  BY <1>2

\* What holds at zero, and goes from each number to the next, holds up to n.
Climbs(Good, n) == 0 \in Good /\ \A k \in 1 .. n : k - 1 \in Good => k \in Good

LEMMA CountUp ==
  ASSUME NEW n \in Nat, NEW Good, Climbs(Good, n)
  PROVE  \A k \in 0 .. n : k \in Good
<1> DEFINE Bad == {k \in 0 .. n : k \notin Good}
<1>1. ASSUME Bad # {} PROVE FALSE
  <2>1. Bad \in SUBSET Nat
    OBVIOUS
  <2>2. PICK k \in Bad : \A j \in Bad : k <= j
    BY <1>1, <2>1, LeastNumber
  <2>3. k \in 1 .. n /\ k \notin Good
    BY <2>2 DEF Climbs
  <2>4. k - 1 \in 0 .. n /\ k - 1 \notin Bad
    BY <2>2, <2>3
  <2>5. QED
    BY <2>3, <2>4 DEF Climbs
<1>2. QED
  BY <1>1

\* A finite set that is not empty has an element that none goes before.
LEMMA FirstExists ==
  ASSUME NEW S, IsFiniteSet(S), S # {}, NEW R,
         \A x \in S : <<x, x>> \notin R,
         \A x, y, z \in S : <<x, y>> \in R /\ <<y, z>> \in R => <<x, z>> \in R
  PROVE  \E x \in S : \A y \in S : <<y, x>> \notin R
<1> DEFINE First(U, x) == x \in U /\ \A y \in U : <<y, x>> \notin R
<1> DEFINE Bad == {n \in Nat : \E U \in SUBSET S : U # {} /\ Cardinality(U) = n
                                                 /\ \A x \in U : ~First(U, x)}
<1>1. ASSUME Bad # {} PROVE FALSE
  <2>1. PICK n \in Bad : \A k \in Bad : n <= k
    BY <1>1, LeastNumber
  <2>2. PICK U \in SUBSET S : U # {} /\ Cardinality(U) = n /\ \A x \in U : ~First(U, x)
    BY <2>1
  <2>3. PICK a \in U : TRUE
    BY <2>2
  <2>4. PICK b \in U : <<b, a>> \in R
    BY <2>2, <2>3
  <2> DEFINE V == {x \in U : <<x, a>> \in R}
  <2>5. V # {} /\ V \in SUBSET S /\ V \in SUBSET (U \ {a})
    BY <2>4
  <2>6. IsFiniteSet(V) /\ Cardinality(V) \in Nat /\ Cardinality(V) < n
    <3> HIDE DEF V
    <3>1. IsFiniteSet(U)
      BY <2>2, FS_Subset
    <3>2. IsFiniteSet(U \ {a}) /\ Cardinality(U \ {a}) = n - 1
      BY <2>2, <2>3, <3>1, FS_RemoveElement
    <3>3. IsFiniteSet(V) /\ Cardinality(V) <= Cardinality(U \ {a})
      BY <2>5, <3>2, FS_Subset
    <3>4. Cardinality(V) \in Nat
      BY <3>3, FS_CardinalityType
    <3>5. QED
      BY <2>1, <3>2, <3>3, <3>4
  <2>8. Cardinality(V) \notin Bad
    BY <2>1, <2>6
  <2>9. PICK x \in V : First(V, x)
    BY <2>5, <2>6, <2>8
  <2>10. PICK y \in U : <<y, x>> \in R
    BY <2>2, <2>9
  <2>11. y \in V
    BY <2>3, <2>9, <2>10
  <2>12. QED
    BY <2>9, <2>10, <2>11
<1>2. Cardinality(S) \in Nat
  BY FS_CardinalityType
<1>3. QED
  BY <1>1, <1>2

\* The ways to list a set in the order R.
Listings(R, U, n) ==
  {f \in [1 .. n -> U] : /\ \A i, j \in 1 .. n : i < j => <<f[i], f[j]>> \in R
                         /\ \A x \in U : \E i \in 1 .. n : f[i] = x}

\* A finite set that is ordered by R can be listed in that order.
LEMMA SortedExists ==
  ASSUME NEW S, IsFiniteSet(S), NEW R,
         \A x \in S : <<x, x>> \notin R,
         \A x, y, z \in S : <<x, y>> \in R /\ <<y, z>> \in R => <<x, z>> \in R,
         \A x, y \in S : x = y \/ <<x, y>> \in R \/ <<y, x>> \in R
  PROVE  Listings(R, S, Cardinality(S)) # {}
<1> DEFINE Bad == {n \in Nat : \E U \in SUBSET S : Cardinality(U) = n /\ Listings(R, U, n) = {}}
<1>1. ASSUME Bad # {} PROVE FALSE
  <2>1. PICK n \in Bad : \A k \in Bad : n <= k
    BY <1>1, LeastNumber
  <2>2. PICK U \in SUBSET S : Cardinality(U) = n /\ Listings(R, U, n) = {}
    BY <2>1
  <2>3. IsFiniteSet(U)
    BY <2>2, FS_Subset
  <2>4. U # {}
    <3>1. ASSUME U = {} PROVE FALSE
      <4>1. n = 0
        BY <2>2, <3>1, FS_EmptySet
      <4>2. [i \in 1 .. 0 |-> 0] \in Listings(R, U, n)
        BY <3>1, <4>1 DEF Listings
      <4>3. QED
        BY <2>2, <4>2
    <3>2. QED
      BY <3>1
  <2>5. PICK x \in U : \A y \in U : <<y, x>> \notin R
    <3>1. \A y \in U : <<y, y>> \notin R
      OBVIOUS
    <3>2. \A u, v, w \in U : <<u, v>> \in R /\ <<v, w>> \in R => <<u, w>> \in R
      OBVIOUS
    <3>3. QED
      BY <2>3, <2>4, <3>1, <3>2, FirstExists
  <2>6. IsFiniteSet(U \ {x}) /\ Cardinality(U \ {x}) = n - 1 /\ n \in Nat
    BY <2>1, <2>2, <2>3, <2>5, FS_RemoveElement
  <2>7. n - 1 \in Nat
    BY <2>6, FS_CardinalityType
  <2>8. PICK g \in Listings(R, U \ {x}, n - 1) : TRUE
    <3>1. n - 1 \notin Bad
      BY <2>1, <2>6
    <3>2. QED
      BY <2>6, <2>7, <3>1
  <2> DEFINE f == [i \in 1 .. n |-> IF i = 1 THEN x ELSE g[i - 1]]
  <2>9. g \in [1 .. n - 1 -> U \ {x}]
    BY <2>8 DEF Listings
  <2>10. \A i \in 1 .. n : i # 1 => i - 1 \in 1 .. n - 1 /\ f[i] = g[i - 1] /\ g[i - 1] \in U \ {x}
    BY <2>6, <2>9
  <2>11. f \in [1 .. n -> U]
    BY <2>5, <2>10
  <2>12. ASSUME NEW i \in 1 .. n, NEW j \in 1 .. n, i < j PROVE <<f[i], f[j]>> \in R
    <3>1. j # 1 /\ f[j] = g[j - 1] /\ g[j - 1] \in U \ {x} /\ j - 1 \in 1 .. n - 1
      BY <2>10, <2>12, <2>6
    <3>2. CASE i = 1
      <4>1. <<g[j - 1], x>> \notin R /\ x # g[j - 1]
        BY <2>5, <3>1
      <4>2. f[i] = x
        BY <3>2
      <4>3. QED
        BY <3>1, <4>1, <4>2
    <3>3. CASE i # 1
      <4>1. f[i] = g[i - 1] /\ i - 1 \in 1 .. n - 1
        BY <2>10, <3>3
      <4>2. i - 1 < j - 1
        BY <2>6, <2>12
      <4>3. QED
        BY <2>8, <3>1, <4>1, <4>2 DEF Listings
    <3>4. QED
      BY <3>2, <3>3
  <2>13. ASSUME NEW y \in U PROVE \E i \in 1 .. n : f[i] = y
    <3>1. 1 \in 1 .. n /\ f[1] = x
      BY <2>6, <2>7
    <3>2. ASSUME y # x PROVE \E i \in 1 .. n : f[i] = y
      <4>1. PICK k \in 1 .. n - 1 : g[k] = y
        BY <2>8, <3>2 DEF Listings
      <4>2. k + 1 \in 1 .. n /\ k + 1 # 1 /\ (k + 1) - 1 = k
        BY <2>6, <4>1
      <4>3. f[k + 1] = y
        BY <4>1, <4>2
      <4>4. QED
        BY <4>2, <4>3
    <3>3. QED
      BY <3>1, <3>2
  <2>14. f \in Listings(R, U, n)
    BY <2>11, <2>12, <2>13 DEF Listings
  <2>15. QED
    BY <2>2, <2>14
<1>2. Cardinality(S) \in Nat
  BY FS_CardinalityType
<1>3. QED
  BY <1>1, <1>2

\* Numbers that are given values: one comes before another if its value is less, or
\* the same and it is the smaller number.
Before(f, x, y) == f[x] < f[y] \/ (f[x] = f[y] /\ x < y)

\* The pairs of them of which one comes before the other.
BeforePairs(f, S) == {xy \in S \X S : Before(f, xy[1], xy[2])}

\* They are in a total order.
LEMMA BeforeIsOrder ==
  ASSUME NEW S \in SUBSET Int, NEW f \in [S -> Int]
  PROVE  /\ \A x, y \in S : <<x, y>> \in BeforePairs(f, S) <=> Before(f, x, y)
         /\ \A x \in S : <<x, x>> \notin BeforePairs(f, S)
         /\ \A x, y, z \in S :
              <<x, y>> \in BeforePairs(f, S) /\ <<y, z>> \in BeforePairs(f, S) =>
                <<x, z>> \in BeforePairs(f, S)
         /\ \A x, y \in S :
              x = y \/ <<x, y>> \in BeforePairs(f, S) \/ <<y, x>> \in BeforePairs(f, S)
<1>1. \A x, y \in S : <<x, y>> \in BeforePairs(f, S) <=> Before(f, x, y)
  BY DEF BeforePairs
<1>2. \A x \in S : x \in Int /\ f[x] \in Int
  OBVIOUS
<1>3. \A x \in S : ~Before(f, x, x)
  BY <1>2 DEF Before
<1>4. ASSUME NEW x \in S, NEW y \in S, NEW z \in S, Before(f, x, y), Before(f, y, z)
      PROVE  Before(f, x, z)
  BY <1>2, <1>4 DEF Before
<1>5. ASSUME NEW x \in S, NEW y \in S, x # y PROVE Before(f, x, y) \/ Before(f, y, x)
  BY <1>2, <1>5 DEF Before
<1>6. QED
  BY <1>1, <1>3, <1>4, <1>5

\* A first one exists.
LEMMA LeastExists ==
  ASSUME NEW S \in SUBSET Int, IsFiniteSet(S), S # {}, NEW f \in [S -> Int]
  PROVE  \E x \in S : \A y \in S \ {x} : Before(f, x, y)
<1>1. PICK x \in S : \A y \in S : <<y, x>> \notin BeforePairs(f, S)
  BY BeforeIsOrder, FirstExists
<1>2. \A y \in S \ {x} : Before(f, x, y)
  BY <1>1, BeforeIsOrder
<1>3. QED
  BY <1>2

\* They can be sorted by their values.
LEMMA SortExists ==
  ASSUME NEW S \in SUBSET Int, IsFiniteSet(S), NEW f \in [S -> Int]
  PROVE  \E g \in [1 .. Cardinality(S) -> S] :
           \A i, j \in 1 .. Cardinality(S) : i < j => Before(f, g[i], g[j])
<1>1. PICK R : R = BeforePairs(f, S)
  OBVIOUS
<1>2. /\ \A x \in S : <<x, x>> \notin R
      /\ \A x, y, z \in S : <<x, y>> \in R /\ <<y, z>> \in R => <<x, z>> \in R
      /\ \A x, y \in S : x = y \/ <<x, y>> \in R \/ <<y, x>> \in R
  BY <1>1, BeforeIsOrder
<1>3. PICK g : g \in Listings(R, S, Cardinality(S))
  <2>1. Listings(R, S, Cardinality(S)) # {}
    BY <1>2, SortedExists
  <2>2. QED
    BY <2>1
<1>4. \A x, y \in S : <<x, y>> \in R <=> Before(f, x, y)
  BY <1>1, BeforeIsOrder
<1>5. QED
  BY <1>3, <1>4 DEF Listings

\* What is sorted leaves none out.
LEMMA SortIsOnto ==
  ASSUME NEW S \in SUBSET Int, IsFiniteSet(S), NEW f \in [S -> Int],
         NEW g \in [1 .. Cardinality(S) -> S],
         \A i, j \in 1 .. Cardinality(S) : i < j => Before(f, g[i], g[j])
  PROVE  \A x \in S : \E i \in 1 .. Cardinality(S) : g[i] = x
<1> DEFINE n == Cardinality(S)
<1>1. n \in Nat
  BY FS_CardinalityType
<1>2. ASSUME NEW i \in 1 .. n, NEW j \in 1 .. n, g[i] = g[j] PROVE i = j
  <2>1. g[i] \in S /\ g[i] \in Int /\ f[g[i]] \in Int
    OBVIOUS
  <2>2. ~Before(f, g[i], g[j]) /\ ~Before(f, g[j], g[i])
    BY <1>2, <2>1 DEF Before
  <2>3. QED
    BY <1>1, <2>2
<1>3. g \in Injection(1 .. n, S)
  BY <1>2 DEF Injection, IsInjective
<1>4. Cardinality(1 .. n) = n /\ IsFiniteSet(1 .. n)
  BY <1>1, FS_Interval
<1>5. g \in Surjection(1 .. n, S)
  BY <1>3, <1>4, FS_Injection
<1>6. QED
  BY <1>5 DEF Surjection

\* What is defined by recursion over 0 .. n in a set V.
Recursions(n, V, base, g) ==
  {f \in [0 .. n -> V] : f[0] = base /\ \A k \in 1 .. n : f[k] = g[<<k, f[k - 1]>>]}

\* Such a function exists.
LEMMA RecursionExists ==
  ASSUME NEW n \in Nat, NEW V, NEW base \in V, NEW g \in [(1 .. n) \X V -> V]
  PROVE  Recursions(n, V, base, g) # {}
<1> DEFINE Bad == {m \in 0 .. n : Recursions(m, V, base, g) = {}}
<1>1. ASSUME Bad # {} PROVE FALSE
  <2>1. PICK m \in Bad : \A k \in Bad : m <= k
    <3>1. Bad \in SUBSET Nat
      OBVIOUS
    <3>2. QED
      BY <1>1, <3>1, LeastNumber
  <2>2. m # 0
    <3>1. [i \in 0 .. 0 |-> base] \in Recursions(0, V, base, g)
      BY DEF Recursions
    <3>2. QED
      BY <2>1, <3>1
  <2>3. m - 1 \in 0 .. n /\ m - 1 \notin Bad /\ m \in 1 .. n
    BY <2>1, <2>2
  <2>4. PICK h \in Recursions(m - 1, V, base, g) : TRUE
    BY <2>3
  <2> DEFINE f == [i \in 0 .. m |-> IF i = m THEN g[<<m, h[m - 1]>>] ELSE h[i]]
  <2>5. h \in [0 .. m - 1 -> V] /\ m - 1 \in 0 .. m - 1 /\ h[m - 1] \in V
    BY <2>3, <2>4 DEF Recursions
  <2>6. g[<<m, h[m - 1]>>] \in V
    BY <2>3, <2>5
  <2>7. f \in [0 .. m -> V] /\ f[0] = base
    BY <2>3, <2>4, <2>5, <2>6 DEF Recursions
  <2>8. ASSUME NEW k \in 1 .. m PROVE f[k] = g[<<k, f[k - 1]>>]
    <3>1. CASE k = m
      <4>1. f[k] = g[<<m, h[m - 1]>>] /\ f[k - 1] = h[m - 1]
        BY <2>3, <3>1
      <4>2. QED
        BY <3>1, <4>1
    <3>2. CASE k # m
      <4>1. k \in 1 .. m - 1 /\ f[k] = h[k] /\ f[k - 1] = h[k - 1]
        BY <2>3, <3>2
      <4>2. QED
        BY <2>4, <4>1 DEF Recursions
    <3>3. QED
      BY <3>1, <3>2
  <2>9. f \in Recursions(m, V, base, g)
    BY <2>7, <2>8 DEF Recursions
  <2>10. QED
    BY <2>1, <2>9
<1>2. QED
  BY <1>1

\* What a function makes of a finite set is finite.
LEMMA ImageIsFinite ==
  ASSUME NEW S, IsFiniteSet(S), NEW f
  PROVE  IsFiniteSet({f[x] : x \in S})
<1> DEFINE T == {f[x] : x \in S}
           g == [x \in S |-> f[x]]
<1>1. g \in Surjection(S, T)
  BY DEF Surjection
<1>2. QED
  BY <1>1, FS_Surjection

\* A finite set of integers that is not empty has a least and a greatest element.
LEMMA EndsExist ==
  ASSUME NEW S \in SUBSET Int, IsFiniteSet(S), S # {}
  PROVE  /\ \E low \in S : \A y \in S : low <= y
         /\ \E high \in S : \A y \in S : y <= high
<1> DEFINE Less == {xy \in S \X S : xy[1] < xy[2]}
           More == {xy \in S \X S : xy[1] > xy[2]}
<1>1. \A x, y \in S : (<<x, y>> \in Less <=> x < y) /\ (<<x, y>> \in More <=> x > y)
  OBVIOUS
<1> HIDE DEF Less, More
<1>2. PICK low \in S : \A y \in S : <<y, low>> \notin Less
  <2>1. \A x \in S : <<x, x>> \notin Less
    BY <1>1
  <2>2. \A x, y, z \in S : <<x, y>> \in Less /\ <<y, z>> \in Less => <<x, z>> \in Less
    BY <1>1
  <2>3. QED
    BY <2>1, <2>2, FirstExists
<1>3. PICK high \in S : \A y \in S : <<y, high>> \notin More
  <2>1. \A x \in S : <<x, x>> \notin More
    BY <1>1
  <2>2. \A x, y, z \in S : <<x, y>> \in More /\ <<y, z>> \in More => <<x, z>> \in More
    BY <1>1
  <2>3. QED
    BY <2>1, <2>2, FirstExists
<1>4. \A y \in S : low <= y /\ y <= high
  <2> TAKE y \in S
  <2>1. low \in Int /\ high \in Int /\ y \in Int
    OBVIOUS
  <2>2. ~(y < low) /\ ~(y > high)
    BY <1>1, <1>2, <1>3
  <2>3. QED
    BY <2>1, <2>2
<1>5. QED
  BY <1>4

\* Every rank is taken: k - 1 elements come before one of them.
LEMMA RankExists ==
  ASSUME NEW S, IsFiniteSet(S), NEW R,
         \A x \in S : <<x, x>> \notin R,
         \A x, y, z \in S : <<x, y>> \in R /\ <<y, z>> \in R => <<x, z>> \in R,
         \A x, y \in S : x = y \/ <<x, y>> \in R \/ <<y, x>> \in R,
         NEW k \in 1 .. Cardinality(S)
  PROVE  \E x \in S : Cardinality({y \in S : <<y, x>> \in R}) = k - 1
<1>1. PICK n : n = Cardinality(S) /\ n \in Nat
  BY FS_CardinalityType
<1>2. PICK g \in Listings(R, S, n) : TRUE
  BY <1>1, SortedExists
<1>3. /\ \A i \in 1 .. n : g[i] \in S
      /\ \A i, j \in 1 .. n : i < j => <<g[i], g[j]>> \in R
      /\ \A x \in S : \E i \in 1 .. n : g[i] = x
  BY <1>2 DEF Listings
<1>4. ASSUME NEW i \in 1 .. n, NEW j \in 1 .. n, <<g[i], g[j]>> \in R PROVE i < j
  <2>1. i # j
    BY <1>3, <1>4
  <2>2. ASSUME j < i PROVE FALSE
    <3>1. <<g[j], g[i]>> \in R /\ g[i] \in S /\ g[j] \in S
      BY <1>3, <2>2
    <3>2. QED
      BY <1>4, <3>1
  <2>3. QED
    BY <1>1, <2>1, <2>2
<1> DEFINE below == {y \in S : <<y, g[k]>> \in R}
           h == [j \in 1 .. k - 1 |-> g[j]]
<1>5. k \in 1 .. n /\ g[k] \in S
  BY <1>1, <1>3
<1>6. \A j \in 1 .. k - 1 : j \in 1 .. n /\ j < k /\ g[j] \in below
  BY <1>1, <1>3, <1>5
<1>7. \A y \in below : \E j \in 1 .. k - 1 : h[j] = y
  <2> TAKE y \in below
  <2>1. PICK j \in 1 .. n : g[j] = y
    BY <1>3
  <2>2. j < k
    BY <1>4, <1>5, <2>1
  <2>3. j \in 1 .. k - 1
    BY <1>1, <1>5, <2>2
  <2>4. QED
    BY <2>1, <2>3
<1>8. ASSUME NEW i \in 1 .. k - 1, NEW j \in 1 .. k - 1, h[i] = h[j] PROVE i = j
  <2>1. i \in 1 .. n /\ j \in 1 .. n /\ g[i] = g[j] /\ g[i] \in S
    BY <1>3, <1>6, <1>8
  <2>2. ~(i < j) /\ ~(j < i)
    BY <1>3, <2>1
  <2>3. QED
    BY <1>1, <2>1, <2>2
<1>9. h \in Bijection(1 .. k - 1, below)
  <2>1. h \in [1 .. k - 1 -> below]
    BY <1>6
  <2> HIDE DEF h, below
  <2>2. QED
    BY <1>7, <1>8, <2>1 DEF Bijection, Injection, Surjection, IsInjective
<1> HIDE DEF h, below
<1>10. IsFiniteSet(1 .. k - 1) /\ Cardinality(1 .. k - 1) = k - 1
  <2>1. PICK m \in Nat : m = k - 1
    BY <1>1, <1>5
  <2>2. IsFiniteSet(1 .. m) /\ Cardinality(1 .. m) = m
    BY FS_Interval
  <2>3. QED
    BY <2>1, <2>2
<1>11. Cardinality(below) = k - 1
  <2>1. ExistsBijection(1 .. k - 1, below)
    BY <1>9 DEF ExistsBijection
  <2>2. QED
    BY <1>10, <2>1, FS_Bijection
<1>12. QED
  BY <1>5, <1>11 DEF below

\* A finite set of integers in its order: the element that n - 1 others are below is
\* the n-th.
Ascending(S) ==
  [n \in 1 .. Cardinality(S) |-> CHOOSE x \in S : Cardinality({y \in S : y < x}) = n - 1]

LEMMA AscendingFacts ==
  ASSUME NEW S \in SUBSET Int, IsFiniteSet(S)
  PROVE  /\ Cardinality(S) \in Nat
         /\ Ascending(S) \in [1 .. Cardinality(S) -> S]
         /\ \A v, w \in 1 .. Cardinality(S) : v < w => Ascending(S)[v] < Ascending(S)[w]
         /\ \A x \in S : \E w \in 1 .. Cardinality(S) : Ascending(S)[w] = x
<1> DEFINE n == Cardinality(S)
           f == [x \in S |-> x]
<1>1. n \in Nat
  BY FS_CardinalityType
<1>2. f \in [S -> Int]
  OBVIOUS
<1>3. PICK g \in [1 .. n -> S] : \A i, j \in 1 .. n : i < j => Before(f, g[i], g[j])
  <2> HIDE DEF f
  <2>1. QED
    BY <1>2, SortExists
<1>4. \A x \in S : \E i \in 1 .. n : g[i] = x
  <2> HIDE DEF f
  <2>1. QED
    BY <1>2, <1>3, SortIsOnto
<1> HIDE DEF n
<1>5. ASSUME NEW i \in 1 .. n, NEW j \in 1 .. n, i < j PROVE g[i] < g[j]
  <2>1. Before(f, g[i], g[j]) /\ g[i] \in S /\ g[j] \in S
    BY <1>3, <1>5
  <2>2. QED
    BY <2>1 DEF Before
<1>6. ASSUME NEW i \in 1 .. n, NEW j \in 1 .. n, g[j] < g[i] PROVE j < i
  <2>1. g[i] \in Int /\ g[j] \in Int
    BY <1>3
  <2>2. i # j
    BY <1>6, <2>1
  <2>3. ~(i < j)
    BY <1>5, <1>6, <2>1
  <2>4. QED
    BY <1>1, <2>2, <2>3
<1>7. ASSUME NEW i \in 1 .. n PROVE Cardinality({y \in S : y < g[i]}) = i - 1
  <2> DEFINE below == {y \in S : y < g[i]}
             h == [j \in 1 .. i - 1 |-> g[j]]
  <2>1. \A j \in 1 .. i - 1 : j \in 1 .. n /\ j < i
    BY <1>1
  <2>2. \A j \in 1 .. i - 1 : g[j] \in below
    BY <1>3, <1>5, <2>1
  <2>3. ASSUME NEW y \in below PROVE \E j \in 1 .. i - 1 : h[j] = y
    <3>1. PICK j \in 1 .. n : g[j] = y
      BY <1>4, <2>3
    <3>2. j < i
      BY <1>6, <2>3, <3>1
    <3>3. j \in 1 .. i - 1
      BY <1>1, <3>2
    <3>4. QED
      BY <3>1, <3>3
  <2>4. ASSUME NEW j \in 1 .. i - 1, NEW k \in 1 .. i - 1, h[j] = h[k] PROVE j = k
    <3>1. j \in 1 .. n /\ k \in 1 .. n /\ g[j] = g[k] /\ g[j] \in Int
      BY <1>3, <2>1, <2>4
    <3>2. ~(g[j] < g[k]) /\ ~(g[k] < g[j])
      BY <3>1
    <3>3. QED
      BY <1>5, <3>1, <3>2
  <2>5. h \in [1 .. i - 1 -> below]
    BY <2>2
  <2>6. h \in Bijection(1 .. i - 1, below)
    <3> HIDE DEF h, below
    <3>1. QED
      BY <2>3, <2>4, <2>5 DEF Bijection, Injection, Surjection, IsInjective
  <2>7. IsFiniteSet(1 .. i - 1) /\ Cardinality(1 .. i - 1) = i - 1
    BY <1>1, FS_Interval
  <2> HIDE DEF h, below
  <2>8. Cardinality(below) = Cardinality(1 .. i - 1)
    <3>1. ExistsBijection(1 .. i - 1, below)
      BY <2>6 DEF ExistsBijection
    <3>2. QED
      BY <2>7, <3>1, FS_Bijection
  <2>9. QED
    BY <2>7, <2>8 DEF below
<1>8. ASSUME NEW i \in 1 .. n PROVE Ascending(S)[i] = g[i]
  <2>1. g[i] \in S /\ Cardinality({y \in S : y < g[i]}) = i - 1
    BY <1>3, <1>7
  <2>2. ASSUME NEW x \in S, Cardinality({y \in S : y < x}) = i - 1 PROVE x = g[i]
    <3>1. PICK j \in 1 .. n : g[j] = x
      BY <1>4
    <3>2. j - 1 = i - 1
      BY <1>7, <2>2, <3>1
    <3>3. QED
      BY <3>1, <3>2
  <2>3. Ascending(S)[i] = CHOOSE x \in S : Cardinality({y \in S : y < x}) = i - 1
    BY DEF Ascending, n
  <2>4. QED
    BY <2>1, <2>2, <2>3
<1>9. Ascending(S) = g
  <2>1. Ascending(S) = [i \in 1 .. n |-> Ascending(S)[i]]
    BY DEF Ascending, n
  <2>2. g = [i \in 1 .. n |-> g[i]]
    BY <1>3
  <2>3. QED
    BY <1>8, <2>1, <2>2
<1>10. QED
  BY <1>1, <1>3, <1>4, <1>5, <1>9 DEF n

\* R orders D.
Orders(R, D) ==
  /\ \A x \in D : <<x, x>> \notin R
  /\ \A x, y, z \in D : <<x, y>> \in R /\ <<y, z>> \in R => <<x, z>> \in R
  /\ \A x, y \in D : x = y \/ <<x, y>> \in R \/ <<y, x>> \in R

\* What has k - 1 elements before it.
Nth(R, D, k) == CHOOSE i \in D : Cardinality({j \in D : <<j, i>> \in R}) + 1 = k

\* In an order of finitely many elements, every place is taken.
LEMMA PlaceIsTaken ==
  ASSUME NEW D, IsFiniteSet(D), NEW R, Orders(R, D), NEW k \in 1 .. Cardinality(D)
  PROVE  Nth(R, D, k) \in D
<1>1. Cardinality(D) \in Nat
  BY FS_CardinalityType
<1>2. PICK i \in D : Cardinality({j \in D : <<j, i>> \in R}) = k - 1
  BY RankExists DEF Orders
<1>3. Cardinality({j \in D : <<j, i>> \in R}) + 1 = k
  BY <1>1, <1>2
<1>4. QED
  BY <1>3 DEF Nth

-----------------------------------------------------------------------------
(* Sums *)

\* What FoldSet computes when it adds up g over a finite set, in the order in which
\* CHOOSE takes the elements.
AddsUp(S, g, sum) ==
  sum = [U \in SUBSET S |->
           IF U = {} THEN 0
           ELSE LET x == CHOOSE x \in U : TRUE IN sum[U \ {x}] + g[x]]

\* What a fold computes over the subsets with no more than n elements: of each set
\* the element pick is combined with what the others give.
Foldings(S, V, base, op, pick, n) ==
  {f \in [{U \in SUBSET S : Cardinality(U) <= n} -> V] :
     \A U \in SUBSET S : Cardinality(U) <= n =>
       f[U] = IF U = {} THEN base ELSE op[<<pick[U], f[U \ {pick[U]}]>>]}

LEMMA FoldingsExist ==
  ASSUME NEW S, IsFiniteSet(S), NEW V, NEW base \in V, NEW op \in [S \X V -> V],
         NEW pick, \A U \in SUBSET S : U # {} => pick[U] \in U, NEW n \in Nat
  PROVE  Foldings(S, V, base, op, pick, n) # {}
<1> DEFINE Bad == {k \in Nat : Foldings(S, V, base, op, pick, k) = {}}
<1>1. ASSUME Bad # {} PROVE FALSE
  <2>1. PICK k \in Bad : \A j \in Bad : k <= j
    <3>1. Bad \in SUBSET Nat
      OBVIOUS
    <3>2. QED
      BY <1>1, <3>1, LeastNumber
  <2>2. \A U \in SUBSET S : IsFiniteSet(U) /\ Cardinality(U) \in Nat
    BY FS_Subset, FS_CardinalityType
  <2>3. \A U \in SUBSET S : Cardinality(U) = 0 <=> U = {}
    BY <2>2, FS_EmptySet
  <2>4. k # 0
    <3>1. [U \in {U \in SUBSET S : Cardinality(U) <= 0} |-> base]
            \in Foldings(S, V, base, op, pick, 0)
      BY <2>2, <2>3 DEF Foldings
    <3>2. QED
      BY <2>1, <3>1
  <2>5. PICK below : below \in Foldings(S, V, base, op, pick, k - 1)
    BY <2>1, <2>4
  <2> DEFINE Small == {U \in SUBSET S : Cardinality(U) <= k}
             f == [U \in Small |->
                     IF U = {} THEN base ELSE op[<<pick[U], below[U \ {pick[U]}]>>]]
  <2>6. ASSUME NEW U \in SUBSET S, Cardinality(U) <= k, U # {}
        PROVE  /\ pick[U] \in S /\ U \ {pick[U]} \in SUBSET S
               /\ Cardinality(U \ {pick[U]}) <= k - 1
               /\ below[U \ {pick[U]}] \in V
    <3>1. pick[U] \in U
      BY <2>6
    <3>2. Cardinality(U \ {pick[U]}) = Cardinality(U) - 1
      BY <2>2, <3>1, FS_RemoveElement
    <3>3. Cardinality(U \ {pick[U]}) <= k - 1 /\ U \ {pick[U]} \in SUBSET S
      BY <2>1, <2>2, <2>6, <3>2
    <3>4. below \in [{W \in SUBSET S : Cardinality(W) <= k - 1} -> V]
      BY <2>5 DEF Foldings
    <3>5. below[U \ {pick[U]}] \in V
      BY <3>3, <3>4
    <3>6. QED
      BY <3>1, <3>3, <3>5
  <2>7. ASSUME NEW U \in Small PROVE f[U] \in V
    <3>1. f[U] = IF U = {} THEN base ELSE op[<<pick[U], below[U \ {pick[U]}]>>]
      OBVIOUS
    <3>2. U # {} => op[<<pick[U], below[U \ {pick[U]}]>>] \in V
      BY <2>6
    <3> HIDE DEF f
    <3>3. QED
      BY <3>1, <3>2
  <2>8. f \in [Small -> V]
    <3>1. f = [U \in Small |-> f[U]]
      OBVIOUS
    <3> HIDE DEF f, Small
    <3>2. QED
      BY <2>7, <3>1
  <2>9. ASSUME NEW U \in SUBSET S, Cardinality(U) <= k - 1 PROVE f[U] = below[U]
    <3>1. f[U] = IF U = {} THEN base ELSE op[<<pick[U], below[U \ {pick[U]}]>>]
      BY <2>1, <2>2, <2>9
    <3>2. below[U] = IF U = {} THEN base ELSE op[<<pick[U], below[U \ {pick[U]}]>>]
      BY <2>5, <2>9 DEF Foldings
    <3>3. QED
      BY <3>1, <3>2
  <2>10. ASSUME NEW U \in SUBSET S, Cardinality(U) <= k
         PROVE  f[U] = IF U = {} THEN base ELSE op[<<pick[U], f[U \ {pick[U]}]>>]
    <3>1. f[U] = IF U = {} THEN base ELSE op[<<pick[U], below[U \ {pick[U]}]>>]
      BY <2>10
    <3>2. U # {} => f[U \ {pick[U]}] = below[U \ {pick[U]}]
      BY <2>6, <2>9, <2>10
    <3> HIDE DEF f
    <3>3. QED
      BY <3>1, <3>2
  <2> HIDE DEF f
  <2>11. f \in Foldings(S, V, base, op, pick, k)
    BY <2>8, <2>10 DEF Foldings
  <2>12. QED
    BY <2>1, <2>11
<1>2. QED
  BY <1>1

\* A fold over a finite set has a value for every subset.
Picks(S, pick) == \A U \in SUBSET S : U # {} => pick[U] \in U

Folds(S, V, base, op, pick, f) ==
  /\ f \in [SUBSET S -> V]
  /\ \A U \in SUBSET S :
       f[U] = IF U = {} THEN base ELSE op[<<pick[U], f[U \ {pick[U]}]>>]

LEMMA FoldExists ==
  ASSUME NEW S, IsFiniteSet(S), NEW V, NEW base \in V, NEW op \in [S \X V -> V],
         NEW pick, Picks(S, pick)
  PROVE  \E f : Folds(S, V, base, op, pick, f)
<1>1. Cardinality(S) \in Nat
  BY FS_CardinalityType
<1>2. PICK f : f \in Foldings(S, V, base, op, pick, Cardinality(S))
  BY <1>1, FoldingsExist DEF Picks
<1>3. \A U \in SUBSET S : Cardinality(U) <= Cardinality(S)
  BY FS_Subset
<1>4. {U \in SUBSET S : Cardinality(U) <= Cardinality(S)} = SUBSET S
  BY <1>3
<1>5. f \in [SUBSET S -> V]
  BY <1>2, <1>4 DEF Foldings
<1>6. \A U \in SUBSET S :
        f[U] = IF U = {} THEN base ELSE op[<<pick[U], f[U \ {pick[U]}]>>]
  BY <1>2, <1>3 DEF Foldings
<1>7. QED
  BY <1>5, <1>6 DEF Folds

LEMMA SumExists ==
  ASSUME NEW S, IsFiniteSet(S), NEW g \in [S -> Int]
  PROVE  \E sum : AddsUp(S, g, sum)
<1> DEFINE op == [xv \in S \X Int |-> xv[2] + g[xv[1]]]
           pick == [U \in SUBSET S |-> CHOOSE x \in U : TRUE]
<1>1. op \in [S \X Int -> Int]
  OBVIOUS
<1>2. Picks(S, pick)
  BY DEF Picks
<1>3. PICK f : Folds(S, Int, 0, op, pick, f)
  <2> HIDE DEF op, pick
  <2>1. 0 \in Int
    OBVIOUS
  <2>2. QED
    BY <1>1, <1>2, <2>1, FoldExists
<1>4. ASSUME NEW U \in SUBSET S, U # {}
      PROVE  op[<<pick[U], f[U \ {pick[U]}]>>] = f[U \ {pick[U]}] + g[pick[U]]
  <2>1. pick[U] \in S /\ U \ {pick[U]} \in SUBSET S
    BY <1>2, <1>4 DEF Picks
  <2>2. f[U \ {pick[U]}] \in Int
    BY <1>3, <2>1 DEF Folds
  <2> HIDE DEF pick
  <2>3. QED
    BY <2>1, <2>2
<1>5. ASSUME NEW U \in SUBSET S
      PROVE  f[U] = IF U = {} THEN 0
                    ELSE LET x == CHOOSE x \in U : TRUE IN f[U \ {x}] + g[x]
  <2>1. pick[U] = CHOOSE x \in U : TRUE
    OBVIOUS
  <2> HIDE DEF op, pick
  <2>2. QED
    BY <1>3, <1>4, <2>1 DEF Folds
<1>6. AddsUp(S, g, f)
  <2>1. f = [U \in SUBSET S |-> f[U]]
    BY <1>3 DEF Folds
  <2> HIDE DEF op, pick
  <2>2. QED
    BY <1>5, <2>1 DEF AddsUp
<1>7. QED
  BY <1>6

\* A sum is an integer; a sum of zeros is zero; and what is not negative adds up to
\* what is not.
LEMMA SumOf ==
  ASSUME NEW S, IsFiniteSet(S), NEW g \in [S -> Int], NEW sum, AddsUp(S, g, sum),
         NEW U \in SUBSET S
  PROVE  /\ sum[U] \in Int
         /\ (\A x \in U : g[x] = 0) => sum[U] = 0
         /\ (\A x \in U : g[x] >= 0) => sum[U] >= 0
<1> DEFINE Good(V) == /\ sum[V] \in Int
                      /\ (\A x \in V : g[x] = 0) => sum[V] = 0
                      /\ (\A x \in V : g[x] >= 0) => sum[V] >= 0
           Bad == {k \in Nat : \E V \in SUBSET S : Cardinality(V) = k /\ ~Good(V)}
<1>1. \A V \in SUBSET S : IsFiniteSet(V) /\ Cardinality(V) \in Nat
  BY FS_Subset, FS_CardinalityType
<1>2. ASSUME Bad # {} PROVE FALSE
  <2>1. PICK k \in Bad : \A j \in Bad : k <= j
    <3>1. Bad \in SUBSET Nat
      OBVIOUS
    <3>2. QED
      BY <1>2, <3>1, LeastNumber
  <2>2. PICK V \in SUBSET S : Cardinality(V) = k /\ ~Good(V)
    BY <2>1
  <2>3. V # {}
    BY <2>2 DEF AddsUp
  <2>4. PICK x \in V : x = CHOOSE y \in V : TRUE
    BY <2>3
  <2>5. sum[V] = sum[V \ {x}] + g[x]
    BY <2>3, <2>4 DEF AddsUp
  <2>6. Cardinality(V \ {x}) = k - 1 /\ Cardinality(V \ {x}) \in Nat /\ V \ {x} \in SUBSET S
    BY <1>1, <2>2, FS_RemoveElement
  <2> HIDE DEF Good
  <2>7. Good(V \ {x})
    BY <2>1, <2>6
  <2>8. Good(V)
    BY <2>4, <2>5, <2>7 DEF Good
  <2>9. QED
    BY <2>2, <2>8
<1>3. Good(U)
  <2>1. Cardinality(U) \in Nat
    BY <1>1
  <2> HIDE DEF Good
  <2>2. QED
    BY <1>2, <2>1
<1>4. QED
  BY <1>3

\* The sizes of sets that have no element in common add up to that of their union.
LEMMA SizesAddUp ==
  ASSUME NEW P, IsFiniteSet(P), NEW cell, \A p \in P : IsFiniteSet(cell[p]),
         \A p, q \in P : p # q => cell[p] \cap cell[q] = {},
         NEW g, g = [p \in P |-> Cardinality(cell[p])], NEW sum, AddsUp(P, g, sum)
  PROVE  sum[P] = Cardinality(UNION {cell[p] : p \in P})
<1> DEFINE All(U) == UNION {cell[p] : p \in U}
           Good(U) == IsFiniteSet(All(U)) /\ sum[U] = Cardinality(All(U))
           Bad == {k \in Nat : \E U \in SUBSET P : Cardinality(U) = k /\ ~Good(U)}
<1>1. \A U \in SUBSET P : IsFiniteSet(U) /\ Cardinality(U) \in Nat
  BY FS_Subset, FS_CardinalityType
<1>2. ASSUME Bad # {} PROVE FALSE
  <2>1. PICK k \in Bad : \A j \in Bad : k <= j
    <3>1. Bad \in SUBSET Nat
      OBVIOUS
    <3>2. QED
      BY <1>2, <3>1, LeastNumber
  <2>2. PICK U \in SUBSET P : Cardinality(U) = k /\ ~Good(U)
    BY <2>1
  <2>3. U # {}
    <3>1. All({}) = {} /\ sum[{}] = 0
      BY DEF AddsUp
    <3>2. Good({})
      BY <3>1, FS_EmptySet
    <3>3. QED
      BY <2>2, <3>2
  <2>4. PICK x \in U : x = CHOOSE y \in U : TRUE
    BY <2>3
  <2>5. sum[U] = sum[U \ {x}] + Cardinality(cell[x])
    <3>1. sum[U] = sum[U \ {x}] + g[x]
      BY <2>3, <2>4 DEF AddsUp
    <3>2. QED
      BY <3>1
  <2>6. Cardinality(U \ {x}) = k - 1 /\ Cardinality(U \ {x}) \in Nat /\ U \ {x} \in SUBSET P
    BY <1>1, <2>2, FS_RemoveElement
  <2>7. Good(U \ {x})
    <3> HIDE DEF Good
    <3>1. QED
      BY <2>1, <2>6
  <2>8. All(U) = All(U \ {x}) \cup cell[x]
    OBVIOUS
  <2>9. All(U \ {x}) \cap cell[x] = {}
    OBVIOUS
  <2>10. IsFiniteSet(cell[x]) /\ IsFiniteSet(All(U \ {x})) /\ Cardinality({}) = 0
    BY <2>7, FS_EmptySet
  <2> HIDE DEF All
  <2>11. /\ IsFiniteSet(All(U))
         /\ Cardinality(All(U)) = Cardinality(All(U \ {x})) + Cardinality(cell[x]) - 0
    <3>1. PICK A : A = All(U \ {x})
      OBVIOUS
    <3>2. PICK B : B = cell[x]
      OBVIOUS
    <3>3. IsFiniteSet(A) /\ IsFiniteSet(B) /\ A \cap B = {} /\ All(U) = A \cup B
      BY <2>8, <2>9, <2>10, <3>1, <3>2
    <3>4. /\ IsFiniteSet(A \cup B)
          /\ Cardinality(A \cup B) = Cardinality(A) + Cardinality(B) - Cardinality(A \cap B)
      BY <3>3, FS_Union
    <3>5. QED
      BY <2>10, <3>1, <3>2, <3>3, <3>4
  <2>12. Cardinality(All(U \ {x})) \in Nat /\ Cardinality(cell[x]) \in Nat
    BY <2>10, FS_CardinalityType
  <2>13. QED
    BY <2>2, <2>5, <2>7, <2>11, <2>12
<1>3. Good(P)
  <2>1. Cardinality(P) \in Nat
    BY <1>1
  <2> HIDE DEF Good
  <2>2. QED
    BY <1>2, <2>1
<1>4. QED
  BY <1>3

================================================================================
