---------------------------- MODULE NumberLemmas ----------------------------
(***************************************************************************)
(* What the proofs keep needing of numbers: least and greatest elements,    *)
(* which stand in for induction, products, quotients, and counting; and     *)
(* products of the values of a function, the folds behind trip counts,      *)
(* factors and the number of configurations: they exist, take any order,    *)
(* and go well with products of functions and with sequences.               *)
(***************************************************************************)
EXTENDS Integers, FiniteSets, Sequences, Functions, FiniteSetTheorems, WellFoundedInduction, TLAPS

\* A non-empty set of natural numbers has a least element.
LEMMA LeastNat ==
    ASSUME NEW T \in SUBSET Nat, T # {}
    PROVE  \E x \in T : \A y \in T : x <= y
<1> DEFINE R == {p \in Nat \X Nat : p[1] < p[2]}
<1>1. IsWellFoundedOn(R, Nat)
  BY NatLessThanWellFounded DEF OpToRel
<1>2. \A p, q \in Nat : <<p, q>> \in R <=> p < q
  OBVIOUS
<1> HIDE DEF R
<1>3. PICK x \in T : \A y \in T : ~(<<y, x>> \in R)
  BY <1>1, WFMin
<1>4. \A y \in T : ~(y < x)
  BY <1>2, <1>3
<1> QED
  BY <1>4

\* A finite, non-empty set of natural numbers has a greatest element: else take the
\* smallest of its subsets that have none.
LEMMA GreatestNat ==
    ASSUME NEW T \in SUBSET Nat, IsFiniteSet(T), T # {}
    PROVE  \E x \in T : \A y \in T : y <= x
<1> DEFINE HasMax(S) == \E x \in S : \A y \in S : y <= x
           Bad == {S \in SUBSET T : S # {} /\ ~HasMax(S)}
           K == {Cardinality(S) : S \in Bad}
<1>1. \A S \in SUBSET T : IsFiniteSet(S) /\ Cardinality(S) \in Nat
  BY FS_Subset, FS_CardinalityType
<1>2. ASSUME Bad # {} PROVE FALSE
  <2>1. K \in SUBSET Nat /\ K # {}
    BY <1>1, <1>2
  <2> HIDE DEF K
  <2>2. PICK k \in K : \A l \in K : k <= l
    BY <2>1, LeastNat
  <2>3. PICK S \in Bad : Cardinality(S) = k
    BY <2>2 DEF K
  <2>4. PICK x \in S : TRUE
    BY <2>3
  <2> DEFINE R == S \ {x}
  <2>5. Cardinality(R) = k - 1 /\ k \in Nat
    BY <1>1, <2>1, <2>3, <2>4, FS_RemoveElement
  <2>6. R \notin Bad
    <3>1. R \in Bad => Cardinality(R) \in K
      BY DEF K
    <3> QED
      BY <2>2, <2>5, <3>1
  <2>7. CASE R = {}
    <3>1. \A y \in S : y <= x
      BY <2>3, <2>4, <2>7
    <3> QED
      BY <2>3, <2>4, <3>1
  <2>8. CASE R # {}
    <3>1. PICK z \in R : \A y \in R : y <= z
      BY <2>3, <2>6, <2>8
    <3>2. x \in Nat /\ z \in Nat /\ z \in S
      BY <2>3, <2>4, <3>1
    <3>3. CASE x <= z
      <4>1. \A y \in S : y <= z
        BY <2>3, <3>1, <3>2, <3>3
      <4> QED
        BY <2>3, <3>2, <4>1
    <3>4. CASE z <= x
      <4>1. \A y \in S : y <= x
        BY <2>3, <3>1, <3>2, <3>4
      <4> QED
        BY <2>3, <2>4, <4>1
    <3> QED
      BY <3>2, <3>3, <3>4
  <2> QED
    BY <2>7, <2>8
<1> QED
  BY <1>2

-----------------------------------------------------------------------------
(* Products and quotients *)

\* Quotients are natural.
LEMMA DivIsNat == \A x \in Nat, y \in Nat \ {0} : x \div y \in Nat
OBVIOUS

\* Products are natural.
LEMMA TimesIsNat == \A x, y \in Nat : x * y \in Nat
OBVIOUS

\* Products grow with a factor.
LEMMA TimesMonotone ==
    ASSUME NEW f \in Nat, NEW x \in Nat, NEW y \in Nat, x <= y
    PROVE  f * x <= f * y
OBVIOUS

\* A quotient and its remainder.
LEMMA DivDefined ==
    ASSUME NEW x \in Nat, NEW c \in Nat \ {0}
    PROVE  /\ x = c * (x \div c) + (x % c)
           /\ x \div c \in Nat /\ x % c \in Nat /\ x % c < c
OBVIOUS

\* Multiples are ordered as what is multiplied.
LEMMA MultiplesOrdered ==
    ASSUME NEW c \in Nat \ {0}, NEW x \in Nat, NEW y \in Nat, c * x < c * y + c
    PROVE  x <= y
<1> SUFFICES ASSUME y + 1 <= x PROVE FALSE
  OBVIOUS
<1>1. c * (y + 1) <= c * x
  BY TimesMonotone
<1>2. c * (y + 1) = c * y + c /\ c * x \in Nat /\ c * y \in Nat
  OBVIOUS
<1> QED
  BY <1>1, <1>2

\* Quotients grow with the dividend.
LEMMA DivMonotone ==
    ASSUME NEW x \in Nat, NEW y \in Nat, x <= y, NEW c \in Nat \ {0}
    PROVE  x \div c <= y \div c
<1>1. c * (x \div c) \in Nat /\ c * (y \div c) \in Nat
  BY DivDefined
<1>2. c * (x \div c) < c * (y \div c) + c
  BY <1>1, DivDefined
<1> QED
  BY <1>2, MultiplesOrdered, DivDefined

\* A product is divided by a factor.
LEMMA DivOfProduct ==
    ASSUME NEW f \in Nat, NEW c \in Nat \ {0}
    PROVE  (f * c) \div c = f
<1>1. f * c \in Nat /\ f * c = c * f
  OBVIOUS
<1>2. c * ((f * c) \div c) <= c * f /\ c * f < c * ((f * c) \div c) + c
  BY <1>1, DivDefined
<1> QED
  BY <1>1, <1>2, MultiplesOrdered, DivDefined, TimesMonotone

\* Rounded up, a quotient is no greater than a bound on the dividend.
LEMMA CeilBelow ==
    ASSUME NEW x \in Int, NEW c \in Nat \ {0}, NEW e \in Nat, x <= e
    PROVE  (x + c - 1) \div c \in Int /\ (x + c - 1) \div c <= e
<1> DEFINE d == (x + c - 1) \div c
<1>1. d \in Int /\ c * d <= x + c - 1
  OBVIOUS
<1> HIDE DEF d
<1>2. SUFFICES ASSUME e + 1 <= d PROVE FALSE
  BY <1>1 DEF d
<1>3. c * (e + 1) <= c * d
  BY <1>1, <1>2, TimesMonotone
<1>4. c * (e + 1) = c * e + c /\ c * e \in Nat /\ c * d \in Int /\ 1 * e <= c * e
  BY <1>1
<1> QED
  BY <1>1, <1>3, <1>4

\* What is at least the quotient, rounded up, covers the dividend.
LEMMA CeilCovers ==
    ASSUME NEW x \in Int, NEW c \in Nat \ {0}, NEW n \in Nat, (x + c - 1) \div c <= n
    PROVE  x <= n * c
<1> DEFINE d == (x + c - 1) \div c
<1>1. d \in Int /\ x + c - 1 < c * d + c
  OBVIOUS
<1> HIDE DEF d
<1>2. d <= n
  BY DEF d
<1>3. c * d <= c * n
  BY <1>1, <1>2
<1>4. c * d \in Int /\ c * n \in Nat /\ c * n = n * c
  BY <1>1
<1> QED
  BY <1>1, <1>3, <1>4

-----------------------------------------------------------------------------
(* Bounded and finite sets *)

\* A bounded set of integers, one of them natural, has a greatest element.
LEMMA GreatestBelow ==
    ASSUME NEW S \in SUBSET Int, NEW b \in Nat, \A y \in S : y <= b,
           NEW a \in S, a \in Nat
    PROVE  \E x \in S : x \in Nat /\ \A y \in S : y <= x
<1> DEFINE T == {y \in S : y \in Nat}
<1>1. T \in SUBSET Nat /\ a \in T /\ \A y \in T : y <= b
  OBVIOUS
<1>2. IsFiniteSet(T)
  BY <1>1, FS_BoundedSetOfNaturals
<1>3. PICK x \in T : \A y \in T : y <= x
  BY <1>1, <1>2, GreatestNat
<1>4. \A y \in S : y <= x
  BY <1>1, <1>3
<1> QED
  BY <1>3, <1>4

\* The values of a function on a finite set are finitely many, and no more.
LEMMA FiniteImage ==
    ASSUME NEW S, IsFiniteSet(S), NEW f, DOMAIN f = S
    PROVE  /\ IsFiniteSet({f[x] : x \in S})
           /\ Cardinality({f[x] : x \in S}) <= Cardinality(S)
<1> DEFINE T == {f[x] : x \in S}
           g == [x \in S |-> f[x]]
<1>1. g \in Surjection(S, T)
  BY DEF Surjection
<1> QED
  BY <1>1, FS_Surjection

\* One element for each value of a function.
LEMMA Representatives ==
    ASSUME NEW S, NEW f
    PROVE  \E R \in SUBSET S : /\ {f[x] : x \in R} = {f[x] : x \in S}
                               /\ \A x, y \in R : f[x] = f[y] => x = y
<1> DEFINE T   == {f[x] : x \in S}
           rep == [t \in T |-> CHOOSE x \in S : f[x] = t]
           R   == {rep[t] : t \in T}
<1>1. \A t \in T : rep[t] \in S /\ f[rep[t]] = t
  OBVIOUS
<1> HIDE DEF rep
<1>2. \A x \in R : x \in S /\ f[x] \in T /\ x = rep[f[x]]
  BY <1>1
<1>3. \A x, y \in R : f[x] = f[y] => x = y
  BY <1>2
<1>4. \A t \in T : \E x \in R : f[x] = t
  BY <1>1
<1>5. {f[x] : x \in R} = T
  BY <1>2, <1>4
<1> HIDE DEF R
<1> QED
  BY <1>2, <1>3, <1>5

\* A set is at most as large as the values of a function on it times the largest
\* number of elements with one value.
LEMMA FibreBound ==
    ASSUME NEW X, IsFiniteSet(X), NEW V, IsFiniteSet(V), NEW f \in [X -> V], NEW k \in Nat,
           \A v \in V : Cardinality({x \in X : f[x] = v}) <= k
    PROVE  Cardinality(X) <= Cardinality(V) * k
<1> DEFINE Fibre(v) == {x \in X : f[x] = v}
           g == [v \in V |-> CHOOSE h : h \in Injection(Fibre(v), 1..k)]
           F == [x \in X |-> <<f[x], g[f[x]][x]>>]
<1>1. \A v \in V : \E h : h \in Injection(Fibre(v), 1..k)
  <2> TAKE v \in V
  <2>1. IsFiniteSet(Fibre(v)) /\ Cardinality(Fibre(v)) \in Nat
    BY FS_Subset, FS_CardinalityType
  <2> DEFINE n == Cardinality(Fibre(v))
  <2>2. n <= k
    OBVIOUS
  <2>3. IsFiniteSet(1..n) /\ Cardinality(1..n) = n
    BY <2>1, FS_Interval
  <2>4. ExistsBijection(Fibre(v), 1..n)
    BY <2>1, <2>3, FS_SameCardinalityBij
  <2>5. PICK h : h \in Bijection(Fibre(v), 1..n)
    BY <2>4 DEF ExistsBijection
  <2> HIDE DEF n, Fibre
  <2>6. h \in Injection(Fibre(v), 1..k)
    BY <2>1, <2>2, <2>5 DEF n, Bijection, Injection
  <2> QED
    BY <2>6
<1>2. \A v \in V : g[v] \in Injection(Fibre(v), 1..k)
  BY <1>1
<1>3. \A x \in X : f[x] \in V /\ x \in Fibre(f[x])
  OBVIOUS
<1> HIDE DEF g, Fibre
<1>4. F \in [X -> V \X (1..k)]
  BY <1>2, <1>3 DEF Injection
<1>5. \A x, y \in X : F[x] = F[y] => x = y
  BY <1>2, <1>3 DEF Injection, IsInjective
<1>6. F \in Injection(X, V \X (1..k))
  BY <1>4, <1>5 DEF Injection, IsInjective
<1>7. IsFiniteSet(1..k) /\ Cardinality(1..k) = k
  BY FS_Interval
<1>8. IsFiniteSet(V \X (1..k)) /\ Cardinality(V \X (1..k)) = Cardinality(V) * k
  BY <1>7, FS_Product
<1> QED
  BY <1>6, <1>8, FS_Injection


\* What holds at zero and goes on with the next number holds up to N.
LEMMA UpTo ==
    ASSUME NEW N \in Nat, NEW S, 0 \in S, \A k \in 1..N : k - 1 \in S => k \in S
    PROVE  0..N \subseteq S
<1> DEFINE T == (0..N) \ S
<1> SUFFICES ASSUME T # {} PROVE FALSE
  OBVIOUS
<1>1. T \in SUBSET Nat
  OBVIOUS
<1> HIDE DEF T
<1>2. PICK k \in T : \A j \in T : k <= j
  BY <1>1, LeastNat
<1>3. k \in 1..N /\ k \notin S
  BY <1>2 DEF T
<1>4. k - 1 \in 0..N /\ ~(k <= k - 1)
  BY <1>3
<1> QED
  BY <1>2, <1>3, <1>4 DEF T

\* g is F, applied again and again to a.
Iterated(g, A, a, F, N) ==
    g \in [0..N -> A] /\ g[0] = a /\ \A k \in 1..N : g[k] = F[g[k - 1]]

\* A function can be iterated as often as one likes.
LEMMA Iterates ==
    ASSUME NEW A, NEW a \in A, NEW F \in [A -> A], NEW N \in Nat
    PROVE  \E g : Iterated(g, A, a, F, N)
<1> DEFINE Steps(n) == \E g \in [0..n -> A] : g[0] = a /\ \A k \in 1..n : g[k] = F[g[k - 1]]
           S == {n \in 0..N : Steps(n)}
<1>1. 0 \in S
  <2> DEFINE g == [k \in 0..0 |-> a]
  <2>1. g \in [0..0 -> A] /\ g[0] = a /\ \A k \in 1..0 : g[k] = F[g[k - 1]]
    OBVIOUS
  <2> HIDE DEF g
  <2>2. Steps(0)
    BY <2>1
  <2> QED
    BY <2>2
<1>2. ASSUME NEW n \in 1..N, n - 1 \in S PROVE n \in S
  <2>1. PICK g \in [0..(n - 1) -> A] : g[0] = a /\ \A k \in 1..(n - 1) : g[k] = F[g[k - 1]]
    BY <1>2
  <2> DEFINE h == [k \in 0..n |-> IF k = n THEN F[g[n - 1]] ELSE g[k]]
  <2>2. \A k \in 0..n : k # n => k \in 0..(n - 1) /\ h[k] = g[k]
    OBVIOUS
  <2>3. h \in [0..n -> A]
    <3>1. n - 1 \in 0..(n - 1)
      OBVIOUS
    <3> QED
      BY <2>1, <2>2, <3>1
  <2>4. h[0] = a
    BY <2>1, <2>2
  <2>5. \A k \in 1..n : h[k] = F[h[k - 1]]
    <3> TAKE k \in 1..n
    <3>1. k - 1 \in 0..n /\ k - 1 # n /\ k \in 0..n
      OBVIOUS
    <3>2. h[k - 1] = g[k - 1]
      BY <2>2, <3>1
    <3>3. CASE k = n
      BY <3>1, <3>2, <3>3
    <3>4. CASE k # n
      <4>1. k \in 1..(n - 1) /\ h[k] = g[k]
        BY <2>2, <3>1, <3>4
      <4> QED
        BY <2>1, <3>2, <4>1
    <3> QED
      BY <3>3, <3>4
  <2> HIDE DEF h
  <2>6. Steps(n)
    BY <2>3, <2>4, <2>5
  <2> QED
    BY <2>6
<1> HIDE DEF S
<1>3. 0..N \subseteq S
  BY <1>1, <1>2, UpTo
<1>4. Steps(N)
  <2>1. N \in S
    BY <1>3
  <2> QED
    BY <2>1 DEF S
<1> QED
  BY <1>4 DEF Iterated

\* F defines functions from D to A by recursion: its value at x reads its argument only
\* where r is less.
IsRecursion(F, D, A, r) ==
    /\ F \in [[D -> A] -> [D -> A]] /\ r \in [D -> Nat]
    /\ \A g, h \in [D -> A] : \A x \in D :
          (\A y \in D : r[y] < r[x] => g[y] = h[y]) => F[g][x] = F[h][x]

\* What is defined by recursion exists, when r has a bound.
LEMMA FixedPoint ==
    ASSUME NEW D, NEW A, NEW F, NEW r, IsRecursion(F, D, A, r), NEW a \in A,
           NEW N \in Nat, \A x \in D : r[x] < N
    PROVE  \E g \in [D -> A] : g = F[g]
<1> DEFINE B == [D -> A]
           b == [x \in D |-> a]
<1>0. F \in [B -> B] /\ r \in [D -> Nat] /\ b \in B
  BY DEF IsRecursion
<1>1. PICK it : it \in [0..N -> B] /\ it[0] = b /\ \A k \in 1..N : it[k] = F[it[k - 1]]
  <2> HIDE DEF B, b
  <2>1. \E g : Iterated(g, B, b, F, N)
    BY <1>0, Iterates
  <2> QED
    BY <2>1 DEF Iterated
<1> DEFINE Fixed(k) == \A x \in D : r[x] < k => F[it[k]][x] = it[k][x]
           S == {k \in 0..N : Fixed(k)}
<1>2. 0 \in S
  BY <1>0
<1>3. ASSUME NEW k \in 1..N, k - 1 \in S PROVE k \in S
  <2>1. it[k - 1] \in B /\ it[k] \in B /\ it[k] = F[it[k - 1]]
    <3>1. k - 1 \in 0..N /\ k \in 0..N
      OBVIOUS
    <3> HIDE DEF B
    <3> QED
      BY <1>1, <3>1
  <2>2. ASSUME NEW x \in D, r[x] < k PROVE F[it[k]][x] = it[k][x]
    <3>1. \A y \in D : r[y] < r[x] => it[k][y] = it[k - 1][y]
      <4> SUFFICES ASSUME NEW y \in D, r[y] < r[x] PROVE it[k][y] = it[k - 1][y]
        OBVIOUS
      <4>1. r[y] < k - 1
        BY <1>0, <2>2
      <4> QED
        BY <1>3, <2>1, <4>1
    <3> QED
      BY <2>1, <3>1 DEF IsRecursion
  <2> QED
    BY <2>2
<1> HIDE DEF S
<1>4. N \in S
  <2>1. 0..N \subseteq S
    BY <1>2, <1>3, UpTo
  <2> QED
    BY <2>1
<1>5. it[N] \in B /\ F[it[N]] \in B
  BY <1>0, <1>1
<1>6. \A x \in D : F[it[N]][x] = it[N][x]
  BY <1>4 DEF S
<1> QED
  BY <1>5, <1>6

\* One place more than there are values: a value comes twice.
LEMMA Pigeonhole ==
    ASSUME NEW V, IsFiniteSet(V), NEW g \in [0..Cardinality(V) -> V]
    PROVE  \E i, j \in 0..Cardinality(V) : i < j /\ g[i] = g[j]
<1> DEFINE N == Cardinality(V)
<1>1. N \in Nat
  BY FS_CardinalityType
<1>2. IsFiniteSet(0..N) /\ Cardinality(0..N) = N + 1
  BY <1>1, FS_Interval
<1>3. SUFFICES ASSUME \A i, j \in 0..N : i # j => g[i] # g[j] PROVE FALSE
  <2>1. \A i, j \in 0..N : i # j => i < j \/ j < i
    BY <1>1
  <2> HIDE DEF N
  <2> QED
    BY <2>1 DEF N
<1>4. g \in Injection(0..N, V)
  BY <1>3 DEF Injection, IsInjective
<1>5. Cardinality(0..N) <= N
  BY <1>2, <1>4, FS_Injection
<1> QED
  BY <1>1, <1>2, <1>5

-----------------------------------------------------------------------------
(* A measure to fold a finite set by: see FoldLemmas. *)

\* There is a measure that each element takes something of.
LEMMA MeasureExists ==
    ASSUME NEW S, IsFiniteSet(S)
    PROVE  \E r : /\ r \in [SUBSET S -> Nat] /\ r[{}] = 0
                  /\ \A U \in SUBSET S : r[U] <= r[S] /\ \A x \in U : r[U \ {x}] < r[U]
<1> DEFINE r == [U \in SUBSET S |-> Cardinality(U)]
<1>1. \A U \in SUBSET S : IsFiniteSet(U) /\ Cardinality(U) \in Nat
  BY FS_Subset, FS_CardinalityType
<1>2. r \in [SUBSET S -> Nat] /\ r[{}] = 0
  BY <1>1, FS_EmptySet
<1>3. ASSUME NEW U \in SUBSET S PROVE r[U] <= r[S]
  BY FS_Subset
<1>4. ASSUME NEW U \in SUBSET S, NEW x \in U PROVE r[U \ {x}] < r[U]
  <2>1. Cardinality(U \ {x}) = Cardinality(U) - 1
    BY <1>1, FS_RemoveElement
  <2> QED
    BY <1>1, <2>1
<1> HIDE DEF r
<1> QED
  BY <1>2, <1>3, <1>4
-----------------------------------------------------------------------------
(* Products of the values of a function *)

\* The product of the values of f on T.
Prod(f, T) == FoldFunctionOnSet(LAMBDA x, y : x * y, 1, f, T)

-----------------------------------------------------------------------------
(* Induction *)

\* What holds of the empty set and of a set when it holds of what is left without any
\* of its elements holds of all subsets.
LEMMA SubsetInduction ==
    ASSUME NEW T, IsFiniteSet(T), NEW S, {} \in S,
           \A U \in SUBSET T : U # {} /\ (\A x \in U : U \ {x} \in S) => U \in S
    PROVE  SUBSET T \subseteq S
<1> DEFINE Bad == (SUBSET T) \ S
           K == {Cardinality(U) : U \in Bad}
<1> SUFFICES ASSUME Bad # {} PROVE FALSE
  OBVIOUS
<1>1. \A U \in SUBSET T : IsFiniteSet(U) /\ Cardinality(U) \in Nat
  BY FS_Subset, FS_CardinalityType
<1>2. K \in SUBSET Nat /\ K # {}
  BY <1>1
<1> HIDE DEF K
<1>3. PICK k \in K : \A l \in K : k <= l
  BY <1>2, LeastNat
<1>4. PICK U \in Bad : Cardinality(U) = k
  BY <1>3 DEF K
<1>5. PICK x \in U : U \ {x} \notin S
  BY <1>4
<1>6. U \ {x} \in Bad /\ Cardinality(U \ {x}) = k - 1 /\ k \in Nat
  BY <1>1, <1>2, <1>3, <1>4, <1>5, FS_RemoveElement
<1>7. k - 1 \in K
  BY <1>6 DEF K
<1> QED
  BY <1>3, <1>6, <1>7

-----------------------------------------------------------------------------
(* The fold *)

Pick(U) == CHOOSE x \in U : TRUE

\* g takes the product on each subset of T.
IsProduct(g, f, T) ==
    g = [U \in SUBSET T |-> IF U = {} THEN 1 ELSE f[Pick(U)] * g[U \ {Pick(U)}]]

\* There is such a function: improve any other one as often as T has subsets' sizes.
LEMMA ProductExists ==
    ASSUME NEW T, IsFiniteSet(T), NEW f, \A x \in T : f[x] \in Nat
    PROVE  \E g \in [SUBSET T -> Nat] : IsProduct(g, f, T)
<1> DEFINE A == [SUBSET T -> Nat]
           Better(g) == [U \in SUBSET T |-> IF U = {} THEN 1 ELSE f[Pick(U)] * g[U \ {Pick(U)}]]
           F == [g \in A |-> Better(g)]
           a == [U \in SUBSET T |-> 0]
           N == Cardinality(T)
<1>1. N \in Nat /\ \A U \in SUBSET T : IsFiniteSet(U) /\ Cardinality(U) \in Nat /\ Cardinality(U) <= N
  BY FS_Subset, FS_CardinalityType
<1>2. \A U \in SUBSET T : U # {} => Pick(U) \in U /\ U \ {Pick(U)} \in SUBSET T
                                    /\ Cardinality(U \ {Pick(U)}) = Cardinality(U) - 1
  BY <1>1, FS_RemoveElement DEF Pick
<1>3. \A g \in A : Better(g) \in A
  <2> SUFFICES ASSUME NEW g \in A, NEW U \in SUBSET T, U # {}
               PROVE  f[Pick(U)] * g[U \ {Pick(U)}] \in Nat
    OBVIOUS
  <2>1. f[Pick(U)] \in Nat /\ g[U \ {Pick(U)}] \in Nat
    BY <1>2
  <2> QED
    BY <2>1, TimesIsNat
<1>4. F \in [A -> A] /\ a \in A /\ N + 2 \in Nat
  <2>1. a \in A /\ N + 2 \in Nat
    BY <1>1
  <2> HIDE DEF A, Better
  <2> QED
    BY <1>3, <2>1
<1>5. PICK h \in [0..(N + 2) -> A] : h[0] = a /\ \A k \in 1..(N + 2) : h[k] = F[h[k - 1]]
  <2> HIDE DEF A, F, a, N, Better
  <2>1. \E h : Iterated(h, A, a, F, N + 2)
    BY <1>4, Iterates
  <2> QED
    BY <2>1 DEF Iterated
<1>6. \A k \in 1..(N + 2) : k - 1 \in 0..(N + 2) /\ h[k - 1] \in A /\ h[k] = Better(h[k - 1])
  <2>1. \A k \in 1..(N + 2) : k - 1 \in 0..(N + 2)
    BY <1>1
  <2>2. \A g \in A : F[g] = Better(g)
    OBVIOUS
  <2> HIDE DEF A, F, Better, N
  <2> QED
    BY <1>5, <2>1, <2>2
<1> DEFINE Stable(k) == \A U \in SUBSET T : Cardinality(U) <= k => h[k + 2][U] = h[k + 1][U]
           S == {k \in 0..N : Stable(k)}
<1>7. 0 \in S
  <2>1. \A U \in SUBSET T : Cardinality(U) <= 0 => U = {}
    BY <1>1, FS_EmptySet
  <2>2. 2 \in 1..(N + 2) /\ 1 \in 1..(N + 2)
    BY <1>1
  <2>3. h[2][{}] = 1 /\ h[1][{}] = 1
    BY <1>6, <2>2
  <2>4. 0 \in 0..N /\ 0 + 2 = 2 /\ 0 + 1 = 1
    BY <1>1
  <2> HIDE DEF N
  <2>5. Stable(0)
    BY <2>1, <2>3, <2>4
  <2> QED
    BY <2>4, <2>5
<1>8. ASSUME NEW k \in 1..N, k - 1 \in S PROVE k \in S
  <2>1. k + 2 \in 1..(N + 2) /\ k + 1 \in 1..(N + 2) /\ k \in Nat
        /\ (k + 2) - 1 = k + 1 /\ (k + 1) - 1 = k /\ (k - 1) + 2 = k + 1 /\ (k - 1) + 1 = k
    BY <1>1
  <2>2. \A U \in SUBSET T : Cardinality(U) <= k - 1 => h[k + 1][U] = h[k][U]
    BY <1>8, <2>1
  <2>3. ASSUME NEW U \in SUBSET T, Cardinality(U) <= k PROVE h[k + 2][U] = h[k + 1][U]
    <3>1. h[k + 2] = Better(h[k + 1]) /\ h[k + 1] = Better(h[k])
      BY <1>6, <2>1
    <3>2. CASE U = {}
      BY <3>1, <3>2
    <3>3. CASE U # {}
      <4>1. Cardinality(U \ {Pick(U)}) <= k - 1 /\ U \ {Pick(U)} \in SUBSET T
        <5>1. /\ Cardinality(U \ {Pick(U)}) = Cardinality(U) - 1 /\ U \ {Pick(U)} \in SUBSET T
              /\ Cardinality(U) \in Nat
          BY <1>1, <1>2, <3>3
        <5> QED
          BY <2>1, <2>3, <5>1
      <4>2. h[k + 1][U \ {Pick(U)}] = h[k][U \ {Pick(U)}]
        BY <2>2, <4>1
      <4>3. /\ h[k + 2][U] = f[Pick(U)] * h[k + 1][U \ {Pick(U)}]
            /\ h[k + 1][U] = f[Pick(U)] * h[k][U \ {Pick(U)}]
        BY <3>1, <3>3
      <4> QED
        BY <4>2, <4>3
    <3> QED
      BY <3>2, <3>3
  <2> HIDE DEF N
  <2> QED
    BY <1>1, <2>3
<1> HIDE DEF S
<1>9. 0..N \subseteq S
  BY <1>1, <1>7, <1>8, UpTo
<1> DEFINE g == h[N + 1]
<1>10. g \in A /\ h[N + 2] = Better(g) /\ h[N + 2] \in A
  <2>1. N + 2 \in 1..(N + 2) /\ (N + 2) - 1 = N + 1 /\ N + 2 \in 0..(N + 2)
    BY <1>1
  <2> HIDE DEF N, A, Better
  <2> QED
    BY <1>5, <1>6, <2>1
<1>11. \A U \in SUBSET T : h[N + 2][U] = g[U]
  <2>1. N \in S
    BY <1>1, <1>9
  <2> QED
    BY <1>1, <2>1 DEF S
<1>12. h[N + 2] = g
  <2> HIDE DEF g, N, Better
  <2> QED
    BY <1>10, <1>11
<1>13. g = Better(g)
  BY <1>10, <1>12
<1> HIDE DEF g
<1>14. IsProduct(g, f, T)
  BY <1>13 DEF IsProduct
<1> QED
  BY <1>10, <1>14

\* The product on a subset is the same from whatever set one starts.
LEMMA ProductUnique ==
    ASSUME NEW T, IsFiniteSet(T), NEW R \in SUBSET T, NEW f,
           NEW g, IsProduct(g, f, T), NEW h, IsProduct(h, f, R)
    PROVE  \A U \in SUBSET R : g[U] = h[U]
<1> DEFINE S == {U \in SUBSET R : g[U] = h[U]}
<1>1. IsFiniteSet(R)
  BY FS_Subset
<1>2. /\ \A U \in SUBSET T : g[U] = IF U = {} THEN 1 ELSE f[Pick(U)] * g[U \ {Pick(U)}]
      /\ \A U \in SUBSET R : h[U] = IF U = {} THEN 1 ELSE f[Pick(U)] * h[U \ {Pick(U)}]
  BY DEF IsProduct
<1>3. {} \in S
  BY <1>2
<1>4. \A U \in SUBSET R : U # {} /\ (\A x \in U : U \ {x} \in S) => U \in S
  <2> TAKE U \in SUBSET R
  <2> HAVE U # {} /\ (\A x \in U : U \ {x} \in S)
  <2>1. Pick(U) \in U /\ U \in SUBSET T
    BY DEF Pick
  <2>2. g[U \ {Pick(U)}] = h[U \ {Pick(U)}]
    BY <2>1
  <2> QED
    BY <1>2, <2>1, <2>2
<1> HIDE DEF S
<1>5. SUBSET R \subseteq S
  BY <1>1, <1>3, <1>4, SubsetInduction
<1> QED
  BY <1>5 DEF S

\* The product is the value of such a function.
LEMMA ProdIs ==
    ASSUME NEW T, IsFiniteSet(T), NEW f, \A x \in T : f[x] \in Nat
    PROVE  \E g \in [SUBSET T -> Nat] : IsProduct(g, f, T) /\ Prod(f, T) = g[T]
<1> DEFINE g == CHOOSE g : IsProduct(g, f, T)
<1>1. Prod(f, T) = g[T]
  BY DEF Prod, FoldFunctionOnSet, MapThenFoldSet, IsProduct, Pick
<1>2. PICK h \in [SUBSET T -> Nat] : IsProduct(h, f, T)
  BY ProductExists
<1>3. IsProduct(g, f, T)
  BY <1>2
<1> HIDE DEF g
<1>4. \A U \in SUBSET T : g[U] = h[U]
  BY <1>2, <1>3, ProductUnique
<1>5. g = [U \in SUBSET T |-> g[U]]
  BY <1>3 DEF IsProduct
<1>6. g \in [SUBSET T -> Nat]
  BY <1>4, <1>5
<1> QED
  BY <1>1, <1>3, <1>6

-----------------------------------------------------------------------------
(* The product *)

\* Factors in any order.
LEMMA TimesCommutes ==
    \A x, y, z \in Nat : /\ x * y = y * x
                        /\ x * (y * z) = y * (x * z)
                        /\ x * (y * z) = (x * y) * z
OBVIOUS

\* No factors.
LEMMA ProdEmpty == \A f : Prod(f, {}) = 1
<1> TAKE f
<1>1. IsFiniteSet({}) /\ \A x \in {} : f[x] \in Nat
  BY FS_EmptySet
<1>2. PICK g \in [SUBSET {} -> Nat] : IsProduct(g, f, {}) /\ Prod(f, {}) = g[{}]
  BY <1>1, ProdIs
<1> QED
  BY <1>2 DEF IsProduct

\* Any factor can be taken first.
LEMMA ProdSplit ==
    ASSUME NEW T, IsFiniteSet(T), NEW f, \A x \in T : f[x] \in Nat, NEW x \in T
    PROVE  /\ Prod(f, T) \in Nat /\ Prod(f, T \ {x}) \in Nat
           /\ Prod(f, T) = f[x] * Prod(f, T \ {x})
<1>1. PICK g \in [SUBSET T -> Nat] : IsProduct(g, f, T) /\ Prod(f, T) = g[T]
  BY ProdIs
<1> DEFINE R == T \ {x}
<1>2. R \in SUBSET T /\ IsFiniteSet(R) /\ \A y \in R : f[y] \in Nat
  BY FS_Subset
<1>3. PICK h \in [SUBSET R -> Nat] : IsProduct(h, f, R) /\ Prod(f, R) = h[R]
  BY <1>2, ProdIs
<1>4. g[R] = h[R]
  BY <1>1, <1>2, <1>3, ProductUnique
<1> DEFINE S == {U \in SUBSET T : \A y \in U : g[U] = f[y] * g[U \ {y}]}
<1>5. \A U \in SUBSET T : U # {} => g[U] = f[Pick(U)] * g[U \ {Pick(U)}]
  BY <1>1 DEF IsProduct
<1>6. {} \in S
  OBVIOUS
<1>7. \A U \in SUBSET T : U # {} /\ (\A y \in U : U \ {y} \in S) => U \in S
  <2> SUFFICES ASSUME NEW U \in SUBSET T, U # {}, \A y \in U : U \ {y} \in S, NEW y \in U
               PROVE  g[U] = f[y] * g[U \ {y}]
    OBVIOUS
  <2> DEFINE p == Pick(U)
  <2>1. p \in U
    BY DEF Pick
  <2>2. g[U] = f[p] * g[U \ {p}]
    BY <1>5
  <2> HIDE DEF p
  <2>3. CASE y = p
    BY <2>2, <2>3
  <2>4. CASE y # p
    <3>1. (U \ {p}) \ {y} = (U \ {y}) \ {p}
      OBVIOUS
    <3>2. g[U \ {p}] = f[y] * g[(U \ {p}) \ {y}] /\ g[U \ {y}] = f[p] * g[(U \ {p}) \ {y}]
      BY <2>1, <2>4, <3>1
    <3>3. f[p] \in Nat /\ f[y] \in Nat /\ g[(U \ {p}) \ {y}] \in Nat
      BY <1>1, <2>1
    <3> QED
      BY <2>2, <3>2, <3>3, TimesCommutes
  <2> QED
    BY <2>3, <2>4
<1> HIDE DEF S
<1>8. SUBSET T \subseteq S
  BY <1>6, <1>7, SubsetInduction
<1>9. T \in S
  BY <1>8
<1>10. g[T] = f[x] * g[R]
  BY <1>9 DEF S
<1> QED
  BY <1>1, <1>2, <1>3, <1>4, <1>10

\* Products of numbers are numbers.
LEMMA ProdIsNat ==
    ASSUME NEW T, IsFiniteSet(T), NEW f, \A x \in T : f[x] \in Nat
    PROVE  Prod(f, T) \in Nat
<1>1. PICK g \in [SUBSET T -> Nat] : Prod(f, T) = g[T]
  BY ProdIs
<1> QED
  BY <1>1

\* Two functions that agree have the same product, and more: the product of the
\* products is the product.
LEMMA ProdTimes ==
    ASSUME NEW T, IsFiniteSet(T), NEW f, NEW g, NEW h,
           \A x \in T : f[x] \in Nat /\ g[x] \in Nat /\ h[x] = f[x] * g[x]
    PROVE  Prod(h, T) = Prod(f, T) * Prod(g, T)
<1> DEFINE S == {U \in SUBSET T : Prod(h, U) = Prod(f, U) * Prod(g, U)}
<1>1. \A x \in T : h[x] \in Nat
  BY TimesIsNat
<1>2. {} \in S
  BY ProdEmpty
<1>3. ASSUME NEW U \in SUBSET T, U # {}, \A x \in U : U \ {x} \in S
      PROVE  U \in S
  <2>1. PICK x \in U : TRUE
    BY <1>3
  <2>2. IsFiniteSet(U)
    BY FS_Subset
  <2>3. /\ Prod(f, U) = f[x] * Prod(f, U \ {x}) /\ Prod(f, U \ {x}) \in Nat
        /\ Prod(g, U) = g[x] * Prod(g, U \ {x}) /\ Prod(g, U \ {x}) \in Nat
        /\ Prod(h, U) = h[x] * Prod(h, U \ {x})
    <3>1. \A y \in U : f[y] \in Nat
      OBVIOUS
    <3>2. \A y \in U : g[y] \in Nat
      OBVIOUS
    <3>3. \A y \in U : h[y] \in Nat
      BY <1>1
    <3>4. Prod(f, U) = f[x] * Prod(f, U \ {x}) /\ Prod(f, U \ {x}) \in Nat
      BY <2>2, <3>1, ProdSplit
    <3>5. Prod(g, U) = g[x] * Prod(g, U \ {x}) /\ Prod(g, U \ {x}) \in Nat
      BY <2>2, <3>2, ProdSplit
    <3>6. Prod(h, U) = h[x] * Prod(h, U \ {x})
      BY <2>2, <3>3, ProdSplit
    <3> QED
      BY <3>4, <3>5, <3>6
  <2>4. Prod(h, U \ {x}) = Prod(f, U \ {x}) * Prod(g, U \ {x})
    BY <1>3
  <2>5. \A a, b, c, d \in Nat : (a * b) * (c * d) = (a * c) * (b * d)
    OBVIOUS
  <2>6. f[x] \in Nat /\ g[x] \in Nat /\ h[x] = f[x] * g[x]
    OBVIOUS
  <2> QED
    BY <2>3, <2>4, <2>5, <2>6
<1> HIDE DEF S
<1>4. SUBSET T \subseteq S
  BY <1>2, <1>3, SubsetInduction
<1>5. T \in S
  BY <1>4
<1> QED
  BY <1>5 DEF S

\* The product depends on the values in the set only.
LEMMA ProdSame ==
    ASSUME NEW T, IsFiniteSet(T), NEW f, NEW h, \A x \in T : f[x] \in Nat /\ h[x] = f[x]
    PROVE  Prod(h, T) = Prod(f, T)
<1> DEFINE one == [x \in T |-> 1]
           S == {U \in SUBSET T : Prod(one, U) = 1}
<1>1. {} \in S
  BY ProdEmpty
<1>2. ASSUME NEW U \in SUBSET T, U # {}, \A x \in U : U \ {x} \in S
      PROVE  U \in S
  <2>1. PICK x \in U : TRUE
    BY <1>2
  <2>2. IsFiniteSet(U) /\ \A y \in U : one[y] = 1
    BY FS_Subset
  <2> HIDE DEF one
  <2>3. Prod(one, U) = one[x] * Prod(one, U \ {x})
    BY <2>2, ProdSplit
  <2> QED
    BY <1>2, <2>2, <2>3
<1>3. \A x \in T : f[x] \in Nat /\ one[x] \in Nat /\ h[x] = f[x] * one[x]
  OBVIOUS
<1> HIDE DEF S, one
<1>4. SUBSET T \subseteq S
  BY <1>1, <1>2, SubsetInduction
<1>5. Prod(one, T) = 1
  <2>1. T \in S
    BY <1>4
  <2> QED
    BY <2>1 DEF S
<1>6. Prod(h, T) = Prod(f, T) * Prod(one, T)
  BY <1>3, ProdTimes
<1>7. Prod(f, T) \in Nat
  BY ProdIsNat
<1> QED
  BY <1>5, <1>6, <1>7

\* A product of positive numbers is positive.
LEMMA ProdPositive ==
    ASSUME NEW T, IsFiniteSet(T), NEW f, \A x \in T : f[x] \in Nat \ {0}
    PROVE  Prod(f, T) \in Nat \ {0}
<1> DEFINE S == {U \in SUBSET T : Prod(f, U) \in Nat \ {0}}
<1>1. {} \in S
  BY ProdEmpty
<1>2. ASSUME NEW U \in SUBSET T, U # {}, \A x \in U : U \ {x} \in S
      PROVE  U \in S
  <2>1. PICK x \in U : TRUE
    BY <1>2
  <2>2. IsFiniteSet(U) /\ \A y \in U : f[y] \in Nat
    BY FS_Subset
  <2>3. Prod(f, U) = f[x] * Prod(f, U \ {x})
    BY <2>2, ProdSplit
  <2>4. \A a, b \in Nat \ {0} : a * b \in Nat \ {0}
    OBVIOUS
  <2>5. f[x] \in Nat \ {0} /\ Prod(f, U \ {x}) \in Nat \ {0}
    BY <1>2
  <2> QED
    BY <2>3, <2>4, <2>5
<1> HIDE DEF S
<1>3. SUBSET T \subseteq S
  BY <1>1, <1>2, SubsetInduction
<1>4. T \in S
  BY <1>3
<1> QED
  BY <1>4 DEF S

-----------------------------------------------------------------------------
(* Sequences *)

\* The last element of a range comes off.
LEMMA ProdLast ==
    ASSUME NEW l \in Int, NEW n \in Int, l <= n, NEW f, \A i \in l..n : f[i] \in Nat
    PROVE  Prod(f, l..n) = Prod(f, l..(n - 1)) * f[n] /\ Prod(f, l..(n - 1)) \in Nat
<1>1. IsFiniteSet(l..n) /\ n \in l..n /\ (l..n) \ {n} = l..(n - 1)
  BY FS_Interval
<1>2. Prod(f, l..n) = f[n] * Prod(f, l..(n - 1)) /\ Prod(f, l..(n - 1)) \in Nat /\ f[n] \in Nat
  BY <1>1, ProdSplit
<1> QED
  BY <1>2, TimesCommutes

\* The factors at an interval, the first one taken off.
LEMMA ProdFirst ==
    ASSUME NEW l \in Int, NEW n \in Int, l <= n, NEW f, \A i \in l..n : f[i] \in Nat
    PROVE  Prod(f, l..n) = f[l] * Prod(f, (l + 1)..n) /\ Prod(f, (l + 1)..n) \in Nat
<1>1. IsFiniteSet(l..n) /\ l \in l..n /\ (l..n) \ {l} = (l + 1)..n
  BY FS_Interval
<1> QED
  BY <1>1, ProdSplit

\* h is the first n values of f, then the first m of g.
Concatenated(h, f, n, g, m) ==
    /\ \A i \in 1..n : f[i] \in Nat /\ h[i] = f[i]
    /\ \A i \in 1..m : g[i] \in Nat /\ h[n + i] = g[i]

\* The factors of two sequences, one after the other.
LEMMA ProdConcat ==
    ASSUME NEW n \in Nat, NEW m \in Nat, NEW f, NEW g, NEW h, Concatenated(h, f, n, g, m)
    PROVE  Prod(h, 1..(n + m)) = Prod(f, 1..n) * Prod(g, 1..m)
<1> USE DEF Concatenated
<1> DEFINE S == {k \in 0..m : Prod(h, 1..(n + k)) = Prod(f, 1..n) * Prod(g, 1..k)}
<1>0. IsFiniteSet(1..n)
  BY FS_Interval
<1>1. Prod(f, 1..n) \in Nat
  BY <1>0, ProdIsNat
<1>2. 0 \in S
  <2>1. Prod(h, 1..n) = Prod(f, 1..n)
    BY <1>0, ProdSame
  <2>2. 1..0 = {} /\ n + 0 = n /\ 0 \in 0..m
    OBVIOUS
  <2>3. Prod(g, 1..0) = 1
    BY <2>2, ProdEmpty
  <2> QED
    BY <1>1, <2>1, <2>2, <2>3
<1>3. ASSUME NEW k \in 1..m, k - 1 \in S PROVE k \in S
  <2>1. /\ \A i \in 1..(n + k) : h[i] \in Nat
        /\ \A i \in 1..k : g[i] \in Nat
    <3>1. \A i \in 1..k : i \in 1..m
      OBVIOUS
    <3>2. ASSUME NEW i \in 1..(n + k), ~(i \in 1..n) PROVE i - n \in 1..m /\ n + (i - n) = i
      BY <3>2
    <3>3. ASSUME NEW i \in 1..(n + k) PROVE h[i] \in Nat
      <4>1. CASE i \in 1..n
        BY <4>1
      <4>2. CASE ~(i \in 1..n)
        BY <3>2, <4>2
      <4> QED
        BY <4>1, <4>2
    <3> QED
      BY <3>1, <3>3
  <2>2. Prod(g, 1..k) = Prod(g, 1..(k - 1)) * g[k] /\ Prod(g, 1..(k - 1)) \in Nat /\ g[k] \in Nat
    BY <2>1, ProdLast
  <2>3. Prod(h, 1..(n + k)) = Prod(h, 1..(n + (k - 1))) * h[n + k]
    <3>1. n + k \in Int /\ 1 <= n + k /\ (n + k) - 1 = n + (k - 1)
      OBVIOUS
    <3> QED
      BY <2>1, <3>1, ProdLast
  <2>4. h[n + k] = g[k] /\ Prod(h, 1..(n + (k - 1))) = Prod(f, 1..n) * Prod(g, 1..(k - 1))
    BY <1>3
  <2>5. Prod(h, 1..(n + k)) = Prod(f, 1..n) * Prod(g, 1..k)
    BY <1>1, <2>2, <2>3, <2>4, TimesCommutes
  <2> QED
    BY <2>5
<1> HIDE DEF S
<1>4. 0..m \subseteq S
  BY <1>2, <1>3, UpTo
<1>5. m \in S
  BY <1>4
<1> QED
  BY <1>5 DEF S

\* The product of all values of a function.
LEMMA ProdOfDomain ==
    \A f : FoldFunction(LAMBDA x, y : x * y, 1, f) = Prod(f, DOMAIN f)
BY DEF FoldFunction, Prod
=============================================================================
