----------------------------- MODULE FoldLemmas -----------------------------
(***************************************************************************)
(* Induction over a fold.  Step(a, b, c, t, x) is what the fold does to t  *)
(* with element x, in a context of three values; Choice(U) is the element   *)
(* of U it takes last; Inv(a, b, c, t, U) is what is to be shown of t when  *)
(* the elements of U are done.  A module that folds instantiates this one,  *)
(* once for each operator it folds with.                                    *)
(***************************************************************************)
EXTENDS NumberLemmas

CONSTANTS Step(_, _, _, _, _), Choice(_), Inv(_, _, _, _, _)

\* The fold, the form in which ForEachIn and ForEachOf of DataflowIR have it.
Fold(a, b, c, s, S) ==
    LET iter[U \in SUBSET S] ==
            IF U = {} THEN s
            ELSE LET x == Choice(U)
                 IN  CHOOSE r \in {Step(a, b, c, u, x) : u \in {iter[U \ {x}]}} : TRUE
    IN  iter[S]

\* h folds s over the subsets of S with at most k elements, by the measure r.
FoldUpTo(h, a, b, c, s, S, r, k) ==
    h = [U \in {V \in SUBSET S : r[V] <= k} |->
            IF U = {} THEN s ELSE Step(a, b, c, h[U \ {Choice(U)}], Choice(U))]

IsFold(h, a, b, c, s, S) ==
    h = [U \in SUBSET S |->
            IF U = {} THEN s
            ELSE LET x == Choice(U)
                 IN  CHOOSE r \in {Step(a, b, c, u, x) : u \in {h[U \ {x}]}} : TRUE]

\* r measures the subsets of S.
Measures(r, S) ==
    /\ r \in [SUBSET S -> Nat] /\ r[{}] = 0
    /\ \A U \in SUBSET S : r[U] <= r[S] /\ \A x \in U : r[U \ {x}] < r[U]

\* Choice takes elements.
Chooses(S) == \A U \in SUBSET S : U # {} => Choice(U) \in U

\* h unfolds, from S down to nothing.
Unfolds(h, a, b, c, s, S) ==
    /\ Fold(a, b, c, s, S) = h[S] /\ h[{}] = s
    /\ \A U \in SUBSET S : U # {} => h[U] = Step(a, b, c, h[U \ {Choice(U)}], Choice(U))

\* A step keeps the invariant.
Keeps(a, b, c, S) ==
    \A U \in SUBSET S : U # {} =>
        \A t : Inv(a, b, c, t, U \ {Choice(U)}) => Inv(a, b, c, Step(a, b, c, t, Choice(U)), U)

-----------------------------------------------------------------------------
\* The function the fold is defined by exists.
LEMMA FoldExists ==
    ASSUME NEW a, NEW b, NEW c, NEW s, NEW S, NEW r, Measures(r, S), Chooses(S)
    PROVE  \E h : IsFold(h, a, b, c, s, S)
<1> DEFINE N == r[S]
           K == {k \in 0..N : \E h : FoldUpTo(h, a, b, c, s, S, r, k)}
<1>1. N \in Nat /\ \A U \in SUBSET S : r[U] \in Nat /\ r[U] <= N
  BY DEF Measures
<1>2. \A U \in SUBSET S : U # {} => /\ U \ {Choice(U)} \in SUBSET S
                                    /\ r[U \ {Choice(U)}] < r[U]
  BY DEF Measures, Chooses
<1>3. 0 \in K
  <2> DEFINE h == [U \in {V \in SUBSET S : r[V] <= 0} |-> s]
  <2>1. \A U \in SUBSET S : r[U] <= 0 => U = {}
    <3> SUFFICES ASSUME NEW U \in SUBSET S, r[U] <= 0, U # {} PROVE FALSE
      OBVIOUS
    <3>1. r[U \ {Choice(U)}] < r[U] /\ r[U \ {Choice(U)}] \in Nat /\ r[U] \in Nat
      BY <1>1, <1>2
    <3> QED
      BY <3>1
  <2>2. FoldUpTo(h, a, b, c, s, S, r, 0)
    BY <2>1 DEF FoldUpTo
  <2> QED
    BY <1>1, <2>2
<1>4. ASSUME NEW k \in 1..N, k - 1 \in K PROVE k \in K
  <2>1. PICK g : FoldUpTo(g, a, b, c, s, S, r, k - 1)
    BY <1>4
  <2> DEFINE D == {V \in SUBSET S : r[V] <= k}
             E == {V \in SUBSET S : r[V] <= k - 1}
             h == [U \in D |-> IF U \in E THEN g[U]
                               ELSE Step(a, b, c, g[U \ {Choice(U)}], Choice(U))]
  <2>2. \A U \in D : U # {} => U \ {Choice(U)} \in E
    BY <1>1, <1>2, <1>4
  <2>3. E \subseteq D
    BY <1>1, <1>4
  <2>4. \A U \in E : g[U] = IF U = {} THEN s ELSE Step(a, b, c, g[U \ {Choice(U)}], Choice(U))
    BY <2>1 DEF FoldUpTo
  <2>5. \A U \in D : U # {} => h[U \ {Choice(U)}] = g[U \ {Choice(U)}]
    BY <2>2, <2>3
  <2>6. {} \in D => {} \in E
    BY <1>4 DEF Measures
  <2>7. \A U \in D : h[U] = IF U = {} THEN s ELSE Step(a, b, c, h[U \ {Choice(U)}], Choice(U))
    BY <2>4, <2>5, <2>6
  <2>8. h = [U \in D |-> IF U = {} THEN s ELSE Step(a, b, c, h[U \ {Choice(U)}], Choice(U))]
    BY <2>7
  <2> HIDE DEF h
  <2>9. FoldUpTo(h, a, b, c, s, S, r, k)
    BY <2>8 DEF FoldUpTo
  <2> QED
    BY <2>9
<1> HIDE DEF K
<1>5. 0..N \subseteq K
  BY <1>1, <1>3, <1>4, UpTo
<1>6. PICK h : FoldUpTo(h, a, b, c, s, S, r, N)
  BY <1>1, <1>5 DEF K
<1>7. {V \in SUBSET S : r[V] <= N} = SUBSET S
  BY <1>1
<1>8. \A t, x : Step(a, b, c, t, x) = CHOOSE q \in {Step(a, b, c, u, x) : u \in {t}} : TRUE
  OBVIOUS
<1>9. IsFold(h, a, b, c, s, S)
  <2>1. h = [U \in SUBSET S |->
               IF U = {} THEN s ELSE Step(a, b, c, h[U \ {Choice(U)}], Choice(U))]
    BY <1>6, <1>7 DEF FoldUpTo
  <2>2. \A U \in SUBSET S : Step(a, b, c, h[U \ {Choice(U)}], Choice(U)) =
           CHOOSE q \in {Step(a, b, c, u, Choice(U)) : u \in {h[U \ {Choice(U)}]}} : TRUE
    BY <1>8
  <2> QED
    BY <2>1, <2>2 DEF IsFold
<1> QED
  BY <1>9

\* The fold is a fold.
LEMMA FoldFolds ==
    ASSUME NEW a, NEW b, NEW c, NEW s, NEW S, NEW r, Measures(r, S), Chooses(S)
    PROVE  \E h : Unfolds(h, a, b, c, s, S)
<1> DEFINE h == CHOOSE g : IsFold(g, a, b, c, s, S)
<1>1. IsFold(h, a, b, c, s, S)
  BY FoldExists
<1>2. \A t, x : (CHOOSE q \in {Step(a, b, c, u, x) : u \in {t}} : TRUE) = Step(a, b, c, t, x)
  OBVIOUS
<1>3. Fold(a, b, c, s, S) = h[S]
  BY DEF Fold, IsFold
<1> HIDE DEF h
<1>4. h[{}] = s /\ \A U \in SUBSET S : U # {} =>
         h[U] = CHOOSE q \in {Step(a, b, c, u, Choice(U)) : u \in {h[U \ {Choice(U)}]}} : TRUE
  BY <1>1 DEF IsFold
<1>5. Unfolds(h, a, b, c, s, S)
  BY <1>2, <1>3, <1>4 DEF Unfolds
<1> QED
  BY <1>5

\* What holds of the first s and is kept by each step holds of the fold.
LEMMA FoldInduction ==
    ASSUME NEW a, NEW b, NEW c, NEW s, NEW S, NEW r, Measures(r, S), Chooses(S),
           Inv(a, b, c, s, {}), Keeps(a, b, c, S)
    PROVE  Inv(a, b, c, Fold(a, b, c, s, S), S)
<1>a. PICK h : Unfolds(h, a, b, c, s, S)
  BY FoldFolds
<1>0. /\ Fold(a, b, c, s, S) = h[S]
      /\ h[{}] = s
      /\ \A U \in SUBSET S : U # {} => h[U] = Step(a, b, c, h[U \ {Choice(U)}], Choice(U))
  BY <1>a DEF Unfolds
<1> DEFINE N == r[S]
           K == {k \in 0..N : \A U \in SUBSET S : r[U] <= k => Inv(a, b, c, h[U], U)}
<1>1. N \in Nat /\ \A U \in SUBSET S : r[U] \in Nat /\ r[U] <= N
  BY DEF Measures
<1>2. \A U \in SUBSET S : U # {} => /\ U \ {Choice(U)} \in SUBSET S
                                    /\ r[U \ {Choice(U)}] < r[U]
  BY DEF Measures, Chooses
<1>4. 0 \in K
  <2>1. \A U \in SUBSET S : r[U] <= 0 => U = {}
    <3> SUFFICES ASSUME NEW U \in SUBSET S, r[U] <= 0, U # {} PROVE FALSE
      OBVIOUS
    <3>1. r[U \ {Choice(U)}] < r[U] /\ r[U \ {Choice(U)}] \in Nat /\ r[U] \in Nat
      BY <1>1, <1>2
    <3> QED
      BY <3>1
  <2>2. Inv(a, b, c, h[{}], {})
    BY <1>0
  <2>3. \A U \in SUBSET S : r[U] <= 0 => Inv(a, b, c, h[U], U)
    BY <2>1, <2>2
  <2> QED
    BY <1>1, <2>3
<1>5. ASSUME NEW k \in 1..N, k - 1 \in K PROVE k \in K
  <2> SUFFICES ASSUME NEW U \in SUBSET S, r[U] <= k
               PROVE  Inv(a, b, c, h[U], U)
    BY <1>1
  <2>1. CASE U = {}
    BY <1>0, <2>1
  <2>2. CASE U # {}
    <3>1. r[U \ {Choice(U)}] <= k - 1
      <4> DEFINE m == r[U \ {Choice(U)}]
                 n == r[U]
      <4>1. m < n /\ n <= k /\ m \in Nat /\ n \in Nat /\ k \in Int
        BY <1>1, <1>2, <2>2
      <4> HIDE DEF m, n
      <4>2. m <= k - 1
        BY <4>1
      <4> QED
        BY <4>2 DEF m
    <3>2. Inv(a, b, c, h[U \ {Choice(U)}], U \ {Choice(U)})
      BY <1>2, <1>5, <2>2, <3>1
    <3> QED
      BY <1>0, <2>2, <3>2 DEF Keeps
  <2> QED
    BY <2>1, <2>2
<1> HIDE DEF K
<1>6. 0..N \subseteq K
  BY <1>1, <1>4, <1>5, UpTo
<1>7. N \in K
  BY <1>1, <1>6
<1> QED
  BY <1>0, <1>1, <1>7 DEF K
=============================================================================
