---------------------- MODULE DesignSpaceExploreProofs ----------------------
(***************************************************************************)
(* For all functions, all estimates and all settings of the exploration:    *)
(* nests are unrolled from the outside in, no band is unrolled fully,       *)
(* pruning keeps the Pareto frontier, a band that is given up early has     *)
(* nothing left near its frontier, and the design that is applied is the    *)
(* best of all combinations of points found.                                *)
(*                                                                          *)
(* Pruning comes first; then forests of loops, on which functions are       *)
(* defined by recursion, and what stage 1 does to them; then tile configs,  *)
(* bands and design spaces; the invariant and what it says; the refinement  *)
(* of BestDesign; and the types.                                            *)
(***************************************************************************)
EXTENDS DesignSpaceExplore, NumberLemmas

AreEstimates(S) == \A p \in S : IsEstimate(p)

-----------------------------------------------------------------------------
(* Pruning *)

\* p is as fast and as small as q.
Covers(p, q) == p.latency <= q.latency /\ p.dspNum <= q.dspNum

\* Of the points of a set some is the smallest.
LEMMA SmallestPoint ==
    ASSUME NEW S, AreEstimates(S), S # {}
    PROVE  \E p \in S : \A q \in S : p.dspNum <= q.dspNum
<1> DEFINE T == {p.dspNum : p \in S}
<1>1. T \in SUBSET Nat /\ T # {}
  BY DEF AreEstimates, IsEstimate
<1> HIDE DEF T
<1>2. PICK x \in T : \A y \in T : x <= y
  BY <1>1, LeastNat
<1> QED
  BY <1>2 DEF T

\* Of the points of a set some is the fastest.
LEMMA FastestPoint ==
    ASSUME NEW S, AreEstimates(S), S # {}
    PROVE  \E p \in S : \A q \in S : p.latency <= q.latency
<1> DEFINE T == {p.latency : p \in S}
<1>1. T \in SUBSET Nat /\ T # {}
  BY DEF AreEstimates, IsEstimate
<1> HIDE DEF T
<1>2. PICK x \in T : \A y \in T : x <= y
  BY <1>1, LeastNat
<1> QED
  BY <1>2 DEF T

\* updateParetoPoints loses no point without keeping one as fast and as small:
\* the fastest of the smallest of those below it.
LEMMA PruningCovers ==
    ASSUME NEW S, AreEstimates(S), NEW a \in S
    PROVE  \E f \in UpdateParetoPoints(S) : Covers(f, a)
<1> DEFINE D == {q \in S : Covers(q, a)}
<1>1. AreEstimates(D) /\ a \in D
  BY DEF AreEstimates, IsEstimate, Covers
<1>2. PICK d \in D : \A q \in D : d.dspNum <= q.dspNum
  BY <1>1, SmallestPoint
<1> DEFINE E == {q \in D : q.dspNum = d.dspNum}
<1>3. AreEstimates(E) /\ d \in E
  BY <1>1 DEF AreEstimates
<1>4. PICK f \in E : \A q \in E : f.latency <= q.latency
  BY <1>3, FastestPoint
<1>5. ASSUME NEW q \in S, SortedBefore(q, f), ~(q.dspNum > f.dspNum)
      PROVE  FALSE
  <2>1. /\ q.latency \in Nat /\ q.dspNum \in Nat
        /\ f.latency \in Nat /\ f.dspNum \in Nat
        /\ a.latency \in Nat /\ a.dspNum \in Nat
    BY DEF AreEstimates, IsEstimate
  <2>2. q \in D
    BY <1>5, <2>1 DEF SortedBefore, Covers
  <2>3. q \in E
    BY <1>2, <1>5, <2>1, <2>2
  <2>4. f.latency <= q.latency
    BY <1>4, <2>3
  <2> QED
    BY <1>5, <2>1, <2>3, <2>4 DEF SortedBefore
<1> QED
  BY <1>5 DEF UpdateParetoPoints

\* The scan over the sorted points keeps just those that none dominates.
LEMMA PruningIsFrontier ==
    ASSUME NEW S, AreEstimates(S)
    PROVE  UpdateParetoPoints(S) = {p \in S : \A q \in S : ~Dominates(q, p)}
<1>1. ASSUME NEW p \in S, NEW q \in S
      PROVE  (SortedBefore(q, p) => q.dspNum > p.dspNum) <=> ~Dominates(q, p)
  BY DEF AreEstimates, IsEstimate, SortedBefore, Dominates
<1> QED
  BY <1>1 DEF UpdateParetoPoints

\* Points may be pruned before others are added.
LEMMA PruningInSteps ==
    ASSUME NEW S, AreEstimates(S), NEW N, AreEstimates(N)
    PROVE  UpdateParetoPoints(UpdateParetoPoints(S) \cup N) = UpdateParetoPoints(S \cup N)
<1> DEFINE F == UpdateParetoPoints(S)
<1>1. F \subseteq S /\ \A p \in F : \A q \in S : SortedBefore(q, p) => q.dspNum > p.dspNum
  BY DEF UpdateParetoPoints
<1>2. \A a \in S : \E f \in F : Covers(f, a)
  BY PruningCovers
<1> HIDE DEF F
<1>3. \A p \in S \cup N : p.latency \in Nat /\ p.dspNum \in Nat
  BY DEF AreEstimates, IsEstimate
<1>4. ASSUME NEW p \in UpdateParetoPoints(F \cup N)
      PROVE  p \in UpdateParetoPoints(S \cup N)
  <2>1. p \in F \cup N /\ \A q \in F \cup N : SortedBefore(q, p) => q.dspNum > p.dspNum
    BY DEF UpdateParetoPoints
  <2>2. ASSUME NEW q \in S, SortedBefore(q, p)
        PROVE  q.dspNum > p.dspNum
    <3>1. PICK f \in F : Covers(f, q)
      BY <1>2
    <3>2. CASE SortedBefore(f, p)
      BY <1>1, <1>3, <2>1, <3>1, <3>2 DEF Covers
    <3>3. CASE ~SortedBefore(f, p)
      BY <1>1, <1>3, <2>1, <2>2, <3>1, <3>3 DEF Covers, SortedBefore
    <3> QED
      BY <3>2, <3>3
  <2> QED
    BY <1>1, <2>1, <2>2 DEF UpdateParetoPoints
<1>5. ASSUME NEW p \in UpdateParetoPoints(S \cup N)
      PROVE  p \in UpdateParetoPoints(F \cup N)
  <2>1. p \in S \cup N /\ \A q \in S \cup N : SortedBefore(q, p) => q.dspNum > p.dspNum
    BY DEF UpdateParetoPoints
  <2>2. p \in F \cup N
    BY <2>1 DEF F, UpdateParetoPoints
  <2> QED
    BY <1>1, <2>1, <2>2 DEF UpdateParetoPoints
<1> QED
  BY <1>4, <1>5 DEF F

-----------------------------------------------------------------------------
(* Forests *)

\* The loops of a function have numbers below some bound.
LEMMA LoopsBelow ==
    ASSUME NEW f, IsForest(f)
    PROVE  \E N \in Nat : \A l \in Loops(f) : l \in Nat \ {NoLoop} /\ l < N
<1>1. Loops(f) \in SUBSET Nat /\ IsFiniteSet(Loops(f)) /\ \A l \in Loops(f) : l \in Nat \ {NoLoop}
  BY DEF IsForest
<1>2. CASE Loops(f) = {}
  BY <1>2
<1>3. CASE Loops(f) # {}
  <2>1. PICK x \in Loops(f) : \A y \in Loops(f) : y <= x
    BY <1>1, <1>3, GreatestNat
  <2>2. x + 1 \in Nat /\ \A y \in Loops(f) : y < x + 1
    BY <1>1, <2>1
  <2> QED
    BY <1>1, <2>2
<1> QED
  BY <1>2, <1>3

\* The parent of a loop is a loop before it.
LEMMA ParentBefore ==
    ASSUME NEW f, IsForest(f), NEW m \in Loops(f)
    PROVE  /\ m \in Nat \ {NoLoop}
           /\ f.parent[m] \in Loops(f) \cup {NoLoop} /\ f.parent[m] < m
           /\ f.parent[m] # NoLoop => f.parent[m] \in Loops(f)
BY DEF IsForest

\* g takes the loops around each loop.
IsAround(g, f) ==
    g = [m \in Loops(f) |-> IF f.parent[m] = NoLoop THEN {}
                            ELSE {f.parent[m]} \cup g[f.parent[m]]]

\* There is such a function: inside-out, each value needs that of the parent only.
LEMMA AroundExists ==
    ASSUME NEW f, IsForest(f)
    PROVE  \E g \in [Loops(f) -> SUBSET Loops(f)] : IsAround(g, f)
<1> DEFINE D == Loops(f)
           A == SUBSET D
           G(g) == [m \in D |-> IF f.parent[m] = NoLoop THEN {}
                                ELSE {f.parent[m]} \cup g[f.parent[m]]]
           F == [g \in [D -> A] |-> G(g)]
           r == [m \in D |-> m]
<1>1. PICK N \in Nat : \A l \in D : l \in Nat \ {NoLoop} /\ l < N
  BY LoopsBelow
<1>2. \A m \in D : f.parent[m] # NoLoop => f.parent[m] \in D /\ f.parent[m] < m
  BY ParentBefore
<1> HIDE DEF D
<1>3. r \in [D -> Nat] /\ \A m \in D : r[m] < N
  BY <1>1
<1>4. F \in [[D -> A] -> [D -> A]]
  <2> SUFFICES ASSUME NEW g \in [D -> A] PROVE G(g) \in [D -> A]
    OBVIOUS
  <2> QED
    BY <1>2
<1>5. ASSUME NEW g \in [D -> A], NEW h \in [D -> A], NEW x \in D,
             \A y \in D : r[y] < r[x] => g[y] = h[y]
      PROVE  F[g][x] = F[h][x]
  <2>1. F[g][x] = G(g)[x] /\ F[h][x] = G(h)[x]
    OBVIOUS
  <2>2. f.parent[x] # NoLoop => g[f.parent[x]] = h[f.parent[x]]
    BY <1>2, <1>5
  <2> QED
    BY <2>1, <2>2
<1> HIDE DEF F, A, r
<1>6. PICK g \in [D -> A] : g = F[g]
  <2>1. IsRecursion(F, D, A, r)
    BY <1>3, <1>4, <1>5 DEF IsRecursion
  <2>2. {} \in A
    BY DEF A
  <2> QED
    BY <1>3, <2>1, <2>2, FixedPoint
<1>7. g = G(g)
  BY <1>6 DEF F
<1> QED
  BY <1>7 DEF IsAround, D, A

\* What lies inside of a loop has it as parent, or a parent inside of it.
LEMMA InsideIs ==
    ASSUME NEW f, IsForest(f), NEW l
    PROVE  /\ Inside(f, l) \subseteq Loops(f)
           /\ \A m \in Loops(f) :
                 m \in Inside(f, l) <=> /\ f.parent[m] # NoLoop
                                        /\ f.parent[m] = l \/ f.parent[m] \in Inside(f, l)
<1> DEFINE g == CHOOSE g : IsAround(g, f)
<1>1. IsAround(g, f)
  BY AroundExists
<1>2. Inside(f, l) = {m \in Loops(f) : l \in g[m]}
  BY DEF Inside, IsAround
<1> HIDE DEF g
<1>3. ASSUME NEW m \in Loops(f)
      PROVE  g[m] = IF f.parent[m] = NoLoop THEN {} ELSE {f.parent[m]} \cup g[f.parent[m]]
  BY <1>1 DEF IsAround
<1>4. ASSUME NEW m \in Loops(f)
      PROVE  m \in Inside(f, l) <=> /\ f.parent[m] # NoLoop
                                    /\ f.parent[m] = l \/ f.parent[m] \in Inside(f, l)
  <2>1. m \in Inside(f, l) <=> l \in g[m]
    BY <1>2
  <2>2. f.parent[m] # NoLoop => (f.parent[m] \in Inside(f, l) <=> l \in g[f.parent[m]])
    BY <1>2, ParentBefore
  <2>3. CASE f.parent[m] = NoLoop
    <3>1. g[m] = {}
      BY <1>3, <2>3
    <3> QED
      BY <2>1, <2>3, <3>1
  <2>4. CASE f.parent[m] # NoLoop
    <3>1. g[m] = {f.parent[m]} \cup g[f.parent[m]]
      BY <1>3, <2>4
    <3> QED
      BY <2>1, <2>2, <2>4, <3>1
  <2> QED
    BY <2>3, <2>4
<1> QED
  BY <1>2, <1>4

\* What holds of a loop when it holds of its parent holds of all loops.
LEMMA ForestInduction ==
    ASSUME NEW f, IsForest(f), NEW S,
           \A m \in Loops(f) : (f.parent[m] # NoLoop => f.parent[m] \in S) => m \in S
    PROVE  Loops(f) \subseteq S
<1> DEFINE Bad == Loops(f) \ S
<1> SUFFICES ASSUME Bad # {} PROVE FALSE
  OBVIOUS
<1>1. Bad \in SUBSET Nat
  BY DEF IsForest
<1>2. PICK m \in Bad : \A n \in Bad : m <= n
  BY <1>1, LeastNat
<1>3. ~(f.parent[m] < m) \/ f.parent[m] = NoLoop \/ f.parent[m] \in S
  <2>1. f.parent[m] < m /\ f.parent[m] # NoLoop /\ f.parent[m] \notin S => f.parent[m] \in Bad
    BY ParentBefore
  <2> SUFFICES ASSUME f.parent[m] \in Bad, f.parent[m] < m PROVE FALSE
    BY <2>1
  <2>2. m <= f.parent[m] /\ m \in Nat /\ f.parent[m] \in Nat
    BY <1>1, <1>2
  <2> QED
    BY <2>2
<1>4. f.parent[m] < m
  BY ParentBefore
<1> QED
  BY <1>2, <1>3, <1>4

\* Inside is a strict order: what is inside comes later, and it is transitive.
LEMMA InsideOrdered ==
    ASSUME NEW f, IsForest(f)
    PROVE  /\ \A l, m \in Loops(f) : m \in Inside(f, l) => l < m
           /\ \A l : \A m \in Inside(f, l) : l \in Loops(f)
           /\ \A l, m, n \in Loops(f) :
                 m \in Inside(f, l) /\ n \in Inside(f, m) => n \in Inside(f, l)
<1> DEFINE p == f.parent
           Before == {m \in Loops(f) : \A l : m \in Inside(f, l) => l \in Loops(f) /\ l < m}
           Trans == {n \in Loops(f) : \A l, m \in Loops(f) :
                        m \in Inside(f, l) /\ n \in Inside(f, m) => n \in Inside(f, l)}
<1>1. Loops(f) \subseteq Before
  <2>1. ASSUME NEW m \in Loops(f), p[m] # NoLoop => p[m] \in Before PROVE m \in Before
    <3> SUFFICES ASSUME NEW l, m \in Inside(f, l) PROVE l \in Loops(f) /\ l < m
      OBVIOUS
    <3>1. p[m] # NoLoop /\ (p[m] = l \/ p[m] \in Inside(f, l))
      BY InsideIs
    <3>2. m \in Nat /\ p[m] \in Loops(f) /\ p[m] \in Nat /\ p[m] < m
      BY <3>1, ParentBefore
    <3>3. CASE p[m] = l
      BY <3>2, <3>3
    <3>4. CASE p[m] \in Inside(f, l)
      <4>1. l \in Loops(f) /\ l < p[m]
        BY <2>1, <3>1, <3>4
      <4>2. l \in Nat
        BY <4>1, ParentBefore
      <4> QED
        BY <3>2, <4>1, <4>2
    <3> QED
      BY <3>1, <3>3, <3>4
  <2> HIDE DEF Before
  <2> QED
    BY <2>1, ForestInduction
<1>2. Loops(f) \subseteq Trans
  <2>1. ASSUME NEW n \in Loops(f), p[n] # NoLoop => p[n] \in Trans PROVE n \in Trans
    <3> SUFFICES ASSUME NEW l \in Loops(f), NEW m \in Loops(f),
                        m \in Inside(f, l), n \in Inside(f, m)
                 PROVE  n \in Inside(f, l)
      OBVIOUS
    <3>1. p[n] # NoLoop /\ (p[n] = m \/ p[n] \in Inside(f, m))
      BY InsideIs
    <3>2. p[n] \in Inside(f, l)
      BY <2>1, <3>1
    <3> QED
      BY <3>1, <3>2, InsideIs
  <2> HIDE DEF Trans
  <2> QED
    BY <2>1, ForestInduction
<1>3. \A l : \A m \in Inside(f, l) : m \in Loops(f)
  BY InsideIs
<1> QED
  BY <1>1, <1>2, <1>3

\* Of two loops around a third one, one is around the other.
LEMMA InsideCompares ==
    ASSUME NEW f, IsForest(f), NEW l \in Loops(f), NEW m \in Loops(f), NEW n \in Loops(f),
           n \in Inside(f, l), n \in Inside(f, m)
    PROVE  l = m \/ l \in Inside(f, m) \/ m \in Inside(f, l)
<1> DEFINE p == f.parent
           Chain == {x \in Loops(f) : x \in Inside(f, l) /\ x \in Inside(f, m) =>
                                      l = m \/ l \in Inside(f, m) \/ m \in Inside(f, l)}
<1>1. ASSUME NEW x \in Loops(f), p[x] # NoLoop => p[x] \in Chain PROVE x \in Chain
  <2> SUFFICES ASSUME x \in Inside(f, l), x \in Inside(f, m)
               PROVE  l = m \/ l \in Inside(f, m) \/ m \in Inside(f, l)
    OBVIOUS
  <2>1. p[x] # NoLoop /\ (p[x] = l \/ p[x] \in Inside(f, l))
                      /\ (p[x] = m \/ p[x] \in Inside(f, m))
    BY InsideIs
  <2> QED
    BY <1>1, <2>1
<1> HIDE DEF Chain
<1>2. n \in Chain
  BY <1>1, ForestInduction
<1> QED
  BY <1>2 DEF Chain

\* What is inside of a loop is a child loop of it or inside of one.
LEMMA InsideByChild ==
    ASSUME NEW f, IsForest(f), NEW l \in Loops(f), NEW n \in Inside(f, l)
    PROVE  \E c \in ChildLoops(f, l) : n = c \/ n \in Inside(f, c)
<1> DEFINE p == f.parent
           Below == {x \in Loops(f) : x \in Inside(f, l) =>
                        \E c \in ChildLoops(f, l) : x = c \/ x \in Inside(f, c)}
<1>1. ASSUME NEW x \in Loops(f), p[x] # NoLoop => p[x] \in Below PROVE x \in Below
  <2> SUFFICES ASSUME x \in Inside(f, l)
               PROVE  \E c \in ChildLoops(f, l) : x = c \/ x \in Inside(f, c)
    OBVIOUS
  <2>1. p[x] # NoLoop /\ (p[x] = l \/ p[x] \in Inside(f, l))
    BY InsideIs
  <2>2. CASE p[x] = l
    BY <2>2 DEF ChildLoops
  <2>3. CASE p[x] \in Inside(f, l)
    <3>1. PICK c \in ChildLoops(f, l) : p[x] = c \/ p[x] \in Inside(f, c)
      BY <1>1, <2>1, <2>3
    <3>2. x \in Inside(f, c)
      BY <2>1, <3>1, InsideIs
    <3> QED
      BY <3>2
  <2> QED
    BY <2>1, <2>2, <2>3
<1> HIDE DEF Below
<1>2. n \in Loops(f)
  BY InsideIs
<1>3. n \in Below
  BY <1>1, <1>2, ForestInduction
<1> QED
  BY <1>3 DEF Below

\* The only child loop is a child loop.
LEMMA OnlyChildIs ==
    ASSUME NEW f, IsForest(f), NEW l \in Loops(f), HasOneChild(f, l)
    PROVE  ChildLoops(f, l) = {OnlyChild(f, l)}
<1>1. IsFiniteSet(ChildLoops(f, l))
  BY FS_Subset DEF ChildLoops, IsForest
<1>2. PICK x : ChildLoops(f, l) = {x}
  BY <1>1, FS_Singleton DEF HasOneChild
<1>3. x \in Loops(f)
  BY <1>2 DEF ChildLoops
<1> QED
  BY <1>2, <1>3 DEF OnlyChild

\* A child loop stands behind its parent.
LEMMA ChildIs ==
    ASSUME NEW f, IsForest(f), NEW l \in Loops(f), NEW c \in ChildLoops(f, l)
    PROVE  c \in Loops(f) /\ f.parent[c] = l /\ l < c /\ c \in Inside(f, l)
<1>1. c \in Loops(f) /\ f.parent[c] = l
  BY DEF ChildLoops
<1>2. l < c /\ l # NoLoop
  BY <1>1, ParentBefore
<1> QED
  BY <1>1, <1>2, InsideIs

\* g takes the loop at which the band from each loop down ends.
IsDown(g, f) ==
    g = [m \in Loops(f) |-> IF HasOneChild(f, m) THEN g[OnlyChild(f, m)] ELSE m]

\* There is such a function: each value needs that of a later loop only.
LEMMA DownExists ==
    ASSUME NEW f, IsForest(f)
    PROVE  \E g \in [Loops(f) -> Loops(f)] : IsDown(g, f)
<1> DEFINE D == Loops(f)
           G(g) == [m \in D |-> IF HasOneChild(f, m) THEN g[OnlyChild(f, m)] ELSE m]
           F == [g \in [D -> D] |-> G(g)]
<1>1. PICK N \in Nat : \A l \in D : l \in Nat \ {NoLoop} /\ l < N
  BY LoopsBelow
<1>2. \A m \in D : HasOneChild(f, m) => OnlyChild(f, m) \in D /\ m < OnlyChild(f, m)
  BY OnlyChildIs, ChildIs
<1> HIDE DEF D
<1> DEFINE r == [m \in D |-> N - m]
<1>3. r \in [D -> Nat] /\ \A m \in D : r[m] < N
  BY <1>1 DEF NoLoop
<1>4. F \in [[D -> D] -> [D -> D]]
  <2> SUFFICES ASSUME NEW g \in [D -> D] PROVE G(g) \in [D -> D]
    OBVIOUS
  <2> QED
    BY <1>2
<1>5. ASSUME NEW g \in [D -> D], NEW h \in [D -> D], NEW x \in D,
             \A y \in D : r[y] < r[x] => g[y] = h[y]
      PROVE  F[g][x] = F[h][x]
  <2>1. F[g][x] = G(g)[x] /\ F[h][x] = G(h)[x]
    OBVIOUS
  <2>2. ASSUME HasOneChild(f, x) PROVE g[OnlyChild(f, x)] = h[OnlyChild(f, x)]
    <3>1. OnlyChild(f, x) \in D /\ x < OnlyChild(f, x) /\ x \in Nat /\ OnlyChild(f, x) \in Nat
      BY <1>1, <1>2, <2>2
    <3>2. r[OnlyChild(f, x)] < r[x]
      BY <3>1
    <3> QED
      BY <1>5, <3>1, <3>2
  <2> QED
    BY <2>1, <2>2
<1> HIDE DEF F, r
<1>6. CASE D = {}
  BY <1>6 DEF IsDown, D
<1>7. CASE D # {}
  <2>1. PICK g \in [D -> D] : g = F[g]
    <3>1. IsRecursion(F, D, D, r)
      BY <1>3, <1>4, <1>5 DEF IsRecursion
    <3>2. PICK a \in D : TRUE
      BY <1>7
    <3> QED
      BY <1>3, <3>1, <3>2, FixedPoint
  <2>2. g = G(g)
    BY <2>1 DEF F
  <2> QED
    BY <2>2 DEF IsDown, D
<1> QED
  BY <1>6, <1>7

\* The band from a loop down ends at that loop or inside of it, at a loop without an
\* only child, and all loops of it before have one.
BandEndsAt(f, t, x) ==
    /\ x \in Loops(f) /\ ~HasOneChild(f, x)
    /\ x = t \/ x \in Inside(f, t)
    /\ \A m \in Loops(f) : (m = t \/ m \in Inside(f, t)) /\ x \in Inside(f, m) => HasOneChild(f, m)

\* getLoopBandFromOutermost finds that loop.
LEMMA InnermostIs ==
    ASSUME NEW f, IsForest(f), NEW t \in Loops(f)
    PROVE  BandEndsAt(f, t, InnermostLoop(f, t))
<1> DEFINE g == CHOOSE g : IsDown(g, f)
<1>1. IsDown(g, f)
  BY DownExists
<1>2. InnermostLoop(f, t) = g[t]
  BY DEF InnermostLoop, IsDown
<1> HIDE DEF g
<1>3. \A m \in Loops(f) : g[m] = IF HasOneChild(f, m) THEN g[OnlyChild(f, m)] ELSE m
  BY <1>1 DEF IsDown
<1> DEFINE Bad == {m \in Loops(f) : ~BandEndsAt(f, m, g[m])}
<1>4. ASSUME Bad # {} PROVE FALSE
  <2>1. Bad \in SUBSET Nat /\ IsFiniteSet(Bad)
    BY FS_Subset DEF IsForest
  <2> HIDE DEF Bad
  <2>2. PICK m \in Bad : \A n \in Bad : n <= m
    BY <1>4, <2>1, GreatestNat
  <2>3. m \in Loops(f) /\ m \in Nat /\ ~BandEndsAt(f, m, g[m])
    BY <2>1, <2>2 DEF Bad
  <2>4. CASE ~HasOneChild(f, m)
    <3>1. g[m] = m
      BY <1>3, <2>3, <2>4
    <3>2. \A n \in Loops(f) : ~((n = m \/ n \in Inside(f, m)) /\ m \in Inside(f, n))
      <4> SUFFICES ASSUME NEW n \in Loops(f), n = m \/ n \in Inside(f, m), m \in Inside(f, n)
                   PROVE  FALSE
        OBVIOUS
      <4>1. n < m /\ n \in Nat
        BY <2>3, InsideOrdered, ParentBefore
      <4>2. n # m => m < n
        BY <2>3, InsideOrdered
      <4> QED
        BY <2>3, <4>1, <4>2
    <3> QED
      BY <2>3, <2>4, <3>1, <3>2 DEF BandEndsAt
  <2>5. CASE HasOneChild(f, m)
    <3> DEFINE c == OnlyChild(f, m)
               x == g[c]
    <3>1. ChildLoops(f, m) = {c} /\ g[m] = x
      BY <1>3, <2>3, <2>5, OnlyChildIs
    <3>2. c \in Loops(f) /\ m < c /\ c \in Inside(f, m) /\ c \in Nat
      BY <2>3, <3>1, ChildIs, ParentBefore
    <3> HIDE DEF c
    <3>3. BandEndsAt(f, c, x)
      <4>1. c \notin Bad
        BY <2>2, <2>3, <3>2
      <4> QED
        BY <3>2, <4>1 DEF Bad
    <3> HIDE DEF x
    <3>4. x \in Loops(f) /\ ~HasOneChild(f, x) /\ x \in Inside(f, m)
      <4>1. x \in Loops(f) /\ ~HasOneChild(f, x) /\ (x = c \/ x \in Inside(f, c))
        BY <3>3 DEF BandEndsAt
      <4> QED
        BY <2>3, <3>2, <4>1, InsideOrdered
    <3>5. ASSUME NEW n \in Loops(f), n = m \/ n \in Inside(f, m), x \in Inside(f, n)
          PROVE  HasOneChild(f, n)
      <4>1. CASE n = m
        BY <2>5, <4>1
      <4>2. CASE n \in Inside(f, m)
        <5>1. n = c \/ n \in Inside(f, c)
          BY <2>3, <3>1, <4>2, InsideByChild
        <5> QED
          BY <3>3, <3>5, <5>1 DEF BandEndsAt
      <4> QED
        BY <3>5, <4>1, <4>2
    <3>6. BandEndsAt(f, m, x)
      BY <3>4, <3>5 DEF BandEndsAt
    <3> QED
      BY <2>3, <3>1, <3>6
  <2> QED
    BY <2>4, <2>5
<1> QED
  BY <1>2, <1>4

\* When the body of l is unrolled, the loops in it are gone, and nothing else changes but
\* that l has no child loops.
LEMMA UnrollIs ==
    ASSUME NEW f, IsForest(f), NEW l \in Loops(f), NEW g, g = UnrollBody(f, l)
    PROVE  /\ IsForest(g)
           /\ Loops(g) = Loops(f) \ Inside(f, l)
           /\ \A m \in Loops(g) : /\ Inside(g, m) \subseteq Inside(f, m)
                                  /\ m # l => ChildLoops(g, m) = ChildLoops(f, m)
<1> DEFINE L == Loops(f) \ Inside(f, l)
<1>1. g = [trip |-> Restrict(f.trip, L), parent |-> Restrict(f.parent, L)]
  BY DEF UnrollBody, IsForest
<1>2. /\ Loops(g) = L /\ g.trip = [m \in L |-> f.trip[m]]
      /\ g.parent = [m \in L |-> f.parent[m]]
  BY <1>1 DEF Loops, Restrict
<1>3. ASSUME NEW m \in L PROVE f.parent[m] \in L \cup {NoLoop} /\ f.parent[m] < m
  <2>1. m \in Loops(f) /\ m \notin Inside(f, l)
    BY <1>3
  <2>2. f.parent[m] # NoLoop => f.parent[m] \notin Inside(f, l)
    BY <2>1, InsideIs
  <2> QED
    BY <2>1, <2>2, ParentBefore
<1>4. IsForest(g)
  <2>1. L \subseteq Nat \ {NoLoop} /\ IsFiniteSet(L)
    BY FS_Subset DEF IsForest
  <2>2. g.trip \in [L -> Nat]
    BY <1>2 DEF IsForest
  <2>3. g.parent \in [L -> L \cup {NoLoop}]
    BY <1>2, <1>3
  <2>4. \A m \in L : g.parent[m] < m
    BY <1>2, <1>3
  <2>5. g = [trip |-> g.trip, parent |-> g.parent]
    BY <1>1
  <2> HIDE DEF L
  <2> QED
    BY <1>2, <2>1, <2>2, <2>3, <2>4, <2>5 DEF IsForest
<1>5. ASSUME NEW m \in L PROVE Inside(g, m) \subseteq Inside(f, m)
  <2> DEFINE S == {n \in L : n \in Inside(g, m) => n \in Inside(f, m)}
  <2>1. ASSUME NEW n \in Loops(g), g.parent[n] # NoLoop => g.parent[n] \in S PROVE n \in S
    <3> SUFFICES ASSUME n \in Inside(g, m) PROVE n \in Inside(f, m)
      BY <1>2
    <3>1. g.parent[n] # NoLoop /\ (g.parent[n] = m \/ g.parent[n] \in Inside(g, m))
      BY <1>4, InsideIs
    <3>2. g.parent[n] = f.parent[n] /\ n \in Loops(f)
      BY <1>2, <2>1
    <3> QED
      BY <2>1, <3>1, <3>2, InsideIs
  <2> HIDE DEF S
  <2>2. Loops(g) \subseteq S
    BY <1>4, <2>1, ForestInduction
  <2>3. Inside(g, m) \subseteq Loops(g)
    BY <1>4, InsideIs
  <2> QED
    BY <2>2, <2>3 DEF S
<1>6. ASSUME NEW m \in L, m # l PROVE ChildLoops(g, m) = ChildLoops(f, m)
  <2>1. ASSUME NEW c \in Loops(f), f.parent[c] = m PROVE c \in L
    <3>1. c \in Inside(f, l) => f.parent[c] = l \/ f.parent[c] \in Inside(f, l)
      BY <2>1, InsideIs
    <3> QED
      BY <1>6, <2>1, <3>1
  <2>2. \A c \in L : g.parent[c] = f.parent[c]
    BY <1>2
  <2> QED
    BY <1>2, <2>1, <2>2 DEF ChildLoops
<1> QED
  BY <1>2, <1>4, <1>5, <1>6

-----------------------------------------------------------------------------
(* The nests are tried from the outside in *)

Waiting == targetLoops \cup candidateLoops

\* Of the loops that wait none is inside of another, and the nests around them were all
\* tried and kept.
NestInv ==
    /\ IsForest(forest)
    /\ Waiting \subseteq Loops(forest) /\ targetLoops \cap candidateLoops = {}
    /\ \A x, y \in Waiting : x \notin Inside(forest, y)
    /\ \A x \in Waiting, m \in Loops(forest) :
          x \in Inside(forest, m) /\ ~HasOneChild(forest, m) => m \in rejected

\* At first the outermost loops wait.
LEMMA NestInit == Init => NestInv
<1> SUFFICES ASSUME Init PROVE NestInv
  OBVIOUS
<1>1. /\ IsForest(forest)
      /\ targetLoops = {l \in Loops(forest) : forest.parent[l] = NoLoop}
      /\ candidateLoops = {}
  BY ForestAssumption DEF Init, SimplifyInit
<1>2. \A x \in Waiting : forest.parent[x] = NoLoop /\ x \in Loops(forest)
  BY <1>1 DEF Waiting
<1>3. \A x \in Waiting, m \in Loops(forest) : x \notin Inside(forest, m)
  BY <1>1, <1>2, InsideIs
<1> QED
  BY <1>1, <1>2, <1>3 DEF NestInv

\* The candidates are the ends of the bands of the targets: the loops around them are
\* those around the targets, and loops with one child.
LEMMA CollectKeepsNests ==
    ASSUME NestInv, CollectCandidates
    PROVE  NestInv'
<1> DEFINE f == forest
<1>1. /\ candidateLoops = {} /\ targetLoops' = {} /\ forest' = f /\ rejected' = rejected
      /\ candidateLoops' \subseteq {InnermostLoop(f, t) : t \in targetLoops}
  BY DEF CollectCandidates, Candidates
<1>2. IsForest(f) /\ Waiting = targetLoops /\ targetLoops \subseteq Loops(f)
  BY <1>1 DEF NestInv, Waiting
<1>3. ASSUME NEW x \in Waiting'
      PROVE  \E t \in Waiting : BandEndsAt(f, t, x)
  <2>1. PICK t \in targetLoops : x = InnermostLoop(f, t)
    BY <1>1 DEF Waiting
  <2> QED
    BY <1>2, <2>1, InnermostIs
<1>4. ASSUME NEW t \in Waiting, NEW x, BandEndsAt(f, t, x), NEW m \in Loops(f),
             x \in Inside(f, m), ~HasOneChild(f, m)
      PROVE  t \in Inside(f, m)
  <2>1. t \in Loops(f) /\ x \in Loops(f) /\ (x = t \/ x \in Inside(f, t))
    BY <1>2, <1>4 DEF BandEndsAt
  <2>2. m # t /\ m \notin Inside(f, t)
    BY <1>4 DEF BandEndsAt
  <2> QED
    BY <1>2, <1>4, <2>1, <2>2, InsideCompares
<1>5. ASSUME NEW x \in Waiting', NEW m \in Loops(f), x \in Inside(f, m), ~HasOneChild(f, m)
      PROVE  m \in rejected
  <2>1. PICK t \in Waiting : BandEndsAt(f, t, x)
    BY <1>3
  <2>2. t \in Inside(f, m)
    BY <1>4, <1>5, <2>1
  <2> QED
    BY <1>5, <2>2 DEF NestInv
<1>6. ASSUME NEW x \in Waiting', NEW y \in Waiting', x \in Inside(f, y) PROVE FALSE
  <2>1. PICK t \in Waiting : BandEndsAt(f, t, x)
    BY <1>3
  <2>2. PICK u \in Waiting : BandEndsAt(f, u, y)
    BY <1>3
  <2>3. y \in Loops(f) /\ ~HasOneChild(f, y) /\ (y = u \/ y \in Inside(f, u))
    BY <2>2 DEF BandEndsAt
  <2>4. t \in Inside(f, y) /\ t \in Loops(f) /\ u \in Loops(f)
    BY <1>2, <1>4, <1>6, <2>1, <2>3
  <2>5. t \in Inside(f, u)
    BY <1>2, <2>3, <2>4, InsideOrdered
  <2> QED
    BY <2>5 DEF NestInv
<1>7. \A x \in Waiting' : x \in Loops(f)
  BY <1>3 DEF BandEndsAt
<1>8. targetLoops' \cap candidateLoops' = {}
  BY <1>1
<1> QED
  BY <1>1, <1>2, <1>5, <1>6, <1>7, <1>8 DEF NestInv

\* A nest that is kept gives way to its child loops.
LEMMA RejectKeepsNests ==
    ASSUME NestInv, NEW l \in candidateLoops,
           candidateLoops' = candidateLoops \ {l},
           targetLoops' = targetLoops \cup DelveInto(forest, l),
           rejected' = rejected \cup {l}, UNCHANGED forest
    PROVE  NestInv'
<1> DEFINE f == forest
<1>1. IsForest(f) /\ l \in Loops(f) /\ l \in Waiting
  BY DEF NestInv, Waiting
<1>2. ASSUME NEW c \in DelveInto(f, l)
      PROVE  c \in Loops(f) /\ f.parent[c] = l /\ c \in Inside(f, l)
  BY <1>1, <1>2, ChildIs DEF DelveInto
<1>3. ASSUME NEW x \in Waiting'
      PROVE  \/ x \in DelveInto(f, l) /\ x \notin Waiting
             \/ x \in Waiting /\ x # l
  <2>1. x \in DelveInto(f, l) => x \notin Waiting
    BY <1>1, <1>2 DEF NestInv
  <2>2. x \notin DelveInto(f, l) => x \in Waiting /\ x # l
    BY <1>3 DEF Waiting, NestInv
  <2>3. l \notin DelveInto(f, l)
    BY <1>1, <1>2 DEF NestInv
  <2> QED
    BY <1>3, <2>1, <2>2
<1>4. Waiting' \subseteq Loops(f)
  BY <1>2, <1>3 DEF NestInv
<1>5. targetLoops' \cap candidateLoops' = {}
  BY <1>1, <1>2 DEF NestInv, Waiting
<1>6. ASSUME NEW x \in Waiting', NEW y \in Waiting', x \in Inside(f, y) PROVE FALSE
  <2>1. x \in Loops(f) /\ y \in Loops(f)
    BY <1>4
  <2>2. ASSUME y \in DelveInto(f, l) PROVE x \in Inside(f, l)
    BY <1>1, <1>2, <1>6, <2>1, <2>2, InsideOrdered
  <2>3. CASE x \in Waiting
    <3>1. y \in DelveInto(f, l)
      BY <1>3, <1>6, <2>3 DEF NestInv
    <3> QED
      BY <1>1, <2>2, <2>3, <3>1 DEF NestInv
  <2>4. CASE x \in DelveInto(f, l)
    <3>1. l = y \/ l \in Inside(f, y)
      BY <1>1, <1>2, <1>6, <2>1, <2>4, InsideIs
    <3>2. CASE y \in Waiting /\ y # l
      BY <1>1, <3>1, <3>2 DEF NestInv
    <3>3. CASE y \in DelveInto(f, l)
      <4>1. l < y /\ l \in Nat /\ y \in Nat
        BY <1>1, <1>2, <2>1, <3>3, InsideOrdered, ParentBefore
      <4>2. l # y => y < l
        BY <1>1, <2>1, <3>1, InsideOrdered
      <4> QED
        BY <4>1, <4>2
    <3> QED
      BY <1>3, <3>2, <3>3
  <2> QED
    BY <1>3, <2>3, <2>4
<1>7. ASSUME NEW x \in Waiting', NEW m \in Loops(f), x \in Inside(f, m), ~HasOneChild(f, m)
      PROVE  m \in rejected'
  <2>1. CASE x \in Waiting
    BY <1>7, <2>1 DEF NestInv
  <2>2. CASE x \in DelveInto(f, l)
    <3>1. l = m \/ l \in Inside(f, m)
      BY <1>1, <1>2, <1>7, <2>2, InsideIs
    <3> QED
      BY <1>1, <1>7, <3>1 DEF NestInv
  <2> QED
    BY <1>3, <2>1, <2>2
<1> QED
  BY <1>1, <1>4, <1>5, <1>6, <1>7 DEF NestInv

\* The loops of a nest that is unrolled wait for nothing.
LEMMA UnrollKeepsNests ==
    ASSUME NestInv, NEW l \in candidateLoops,
           candidateLoops' = candidateLoops \ {l}, forest' = UnrollBody(forest, l),
           UNCHANGED <<targetLoops, rejected>>
    PROVE  NestInv'
<1> DEFINE f == forest
           g == forest'
<1>1. IsForest(f) /\ l \in Loops(f) /\ l \in Waiting
  BY DEF NestInv, Waiting
<1>2. /\ IsForest(g) /\ Loops(g) = Loops(f) \ Inside(f, l)
      /\ \A m \in Loops(g) : /\ Inside(g, m) \subseteq Inside(f, m)
                             /\ m # l => ChildLoops(g, m) = ChildLoops(f, m)
  BY <1>1, UnrollIs
<1>3. Waiting' = Waiting \ {l}
  BY DEF Waiting, NestInv
<1>4. Waiting' \subseteq Loops(g)
  BY <1>1, <1>2, <1>3 DEF NestInv
<1>5. ASSUME NEW x \in Waiting', NEW y \in Waiting' PROVE x \notin Inside(g, y)
  BY <1>2, <1>3, <1>4 DEF NestInv
<1>6. ASSUME NEW x \in Waiting', NEW m \in Loops(g), x \in Inside(g, m), ~HasOneChild(g, m)
      PROVE  m \in rejected
  <2>1. x \in Inside(f, m) /\ m \in Loops(f)
    BY <1>2, <1>6
  <2>2. m # l
    BY <1>1, <1>3, <2>1 DEF NestInv
  <2>3. ~HasOneChild(f, m)
    BY <1>2, <1>6, <2>2 DEF HasOneChild
  <2> QED
    BY <1>3, <2>1, <2>3 DEF NestInv
<1>7. targetLoops' \cap candidateLoops' = {}
  BY DEF NestInv
<1> QED
  BY <1>2, <1>4, <1>5, <1>6, <1>7 DEF NestInv

\* Each step of the exploration keeps it; after the first stage none touches the loops.
LEMMA NestStep == NestInv /\ [Next]_vars => NestInv'
<1> SUFFICES ASSUME NestInv, [Next]_vars PROVE NestInv'
  OBVIOUS
<1>1. ASSUME UNCHANGED <<forest, targetLoops, candidateLoops, rejected>> PROVE NestInv'
  BY <1>1 DEF NestInv, Waiting
<1>2. CASE SimplifyLoopNests
  <2>1. CASE UNCHANGED nestVars
    BY <1>1, <2>1 DEF nestVars
  <2>2. CASE CollectCandidates
    BY <2>2, CollectKeepsNests
  <2>3. ASSUME NEW l \in candidateLoops, TryCandidate(l) PROVE NestInv'
    BY <2>3, RejectKeepsNests, UnrollKeepsNests DEF TryCandidate
  <2> QED
    BY <1>2, <2>1, <2>2, <2>3 DEF SimplifyLoopNests, Simplify
<1>3. CASE OptimizeLoopBands
  BY <1>1, <1>3 DEF OptimizeLoopBands
<1>4. CASE InitializeLoopDesignSpace \/ ExploreLoopDesignSpace \/ CombLoopDesignSpaces
              \/ ApplyBestDesign
  <2>1. UNCHANGED nestVars
    BY <1>4 DEF InitializeLoopDesignSpace, ExploreLoopDesignSpace, CombLoopDesignSpaces,
                ApplyBestDesign
  <2> QED
    BY <1>1, <2>1 DEF nestVars
<1>5. CASE UNCHANGED vars
  BY <1>1, <1>5 DEF vars, nestVars
<1> QED
  BY <1>2, <1>3, <1>4, <1>5 DEF Next

\* So it holds in every state.
LEMMA NestInvariance == Spec => []NestInv
BY NestInit, NestStep, PTL DEF Spec

\* A nest is unrolled only after all nests around it that can be tried were tried and did
\* not fit, for every function, however deep its loops are and whatever the estimator says.
THEOREM NestsAreTriedOutsideIn == Spec => []NestsOutsideIn
<1>1. NestInv => NestsOutsideIn
  BY DEF NestInv, NestsOutsideIn, Waiting
<1> QED
  BY <1>1, NestInvariance, PTL

-----------------------------------------------------------------------------
(* Tile configs *)

\* The numbers of a finite set, from the least to the greatest: at each place stands one
\* with as many smaller ones as there are places before.
LEMMA AscendingIs ==
    ASSUME NEW S \in SUBSET Nat, IsFiniteSet(S)
    PROVE  /\ Cardinality(S) \in Nat
           /\ Ascending(S) \in [1..Cardinality(S) -> S]
           /\ \A i \in 1..Cardinality(S) : Cardinality({y \in S : y < Ascending(S)[i]}) = i - 1
<1> DEFINE K == Cardinality(S)
           smaller(x) == {y \in S : y < x}
           rank == [x \in S |-> Cardinality(smaller(x))]
<1>1. K \in Nat /\ \A x \in S : x \in Nat
  BY FS_CardinalityType
<1>2. \A x \in S : /\ smaller(x) \subseteq S /\ x \notin smaller(x)
                   /\ IsFiniteSet(smaller(x)) /\ Cardinality(smaller(x)) \in Nat
  BY FS_Subset, FS_CardinalityType
<1>3. ASSUME NEW x \in S PROVE rank[x] \in 0..(K - 1)
  <2>1. Cardinality(smaller(x)) <= K /\ (K = Cardinality(smaller(x)) => S = smaller(x))
    BY <1>2, FS_Subset
  <2>2. Cardinality(smaller(x)) # K /\ Cardinality(smaller(x)) \in Nat
    BY <1>2, <2>1
  <2>3. rank[x] = Cardinality(smaller(x))
    OBVIOUS
  <2> HIDE DEF rank, smaller, K
  <2> QED
    BY <1>1, <2>1, <2>2, <2>3
<1>4. ASSUME NEW x \in S, NEW y \in S, x < y PROVE rank[x] < rank[y]
  <2>1. smaller(x) \subseteq smaller(y) /\ x \in smaller(y) /\ x \notin smaller(x)
    <3>1. \A z \in S : z < x => z < y
      BY <1>1, <1>4
    <3> QED
      BY <1>2, <1>4, <3>1
  <2>2. /\ Cardinality(smaller(x)) <= Cardinality(smaller(y))
        /\ Cardinality(smaller(y)) = Cardinality(smaller(x)) => smaller(y) = smaller(x)
    BY <1>2, <2>1, FS_Subset
  <2>3. Cardinality(smaller(y)) # Cardinality(smaller(x))
    BY <2>1, <2>2
  <2>4. Cardinality(smaller(y)) \in Nat /\ Cardinality(smaller(x)) \in Nat
    BY <1>2
  <2> HIDE DEF smaller
  <2> QED
    BY <2>2, <2>3, <2>4
<1>5. \A x, y \in S : rank[x] = rank[y] => x = y
  <2> SUFFICES ASSUME NEW x \in S, NEW y \in S, x # y PROVE rank[x] # rank[y]
    OBVIOUS
  <2>1. x < y \/ y < x
    OBVIOUS
  <2>2. rank[x] \in Nat /\ rank[y] \in Nat
    BY <1>2
  <2> HIDE DEF rank
  <2> QED
    BY <1>4, <2>1, <2>2
<1>6. \A i \in 0..(K - 1) : \E x \in S : rank[x] = i
  <2>1. rank \in Injection(S, 0..(K - 1))
    <3>1. rank \in [S -> 0..(K - 1)]
      BY <1>3
    <3> HIDE DEF rank
    <3> QED
      BY <1>5, <3>1 DEF Injection, IsInjective
  <2>2. IsFiniteSet(0..(K - 1)) /\ Cardinality(0..(K - 1)) = K
    <3>1. 0..(K - 1) = {} \/ K > 0
      BY <1>1
    <3> QED
      BY <1>1, <3>1, FS_Interval
  <2>3. rank \in Surjection(S, 0..(K - 1))
    BY <2>1, <2>2, FS_Injection
  <2> HIDE DEF rank
  <2> QED
    BY <2>3 DEF Surjection
<1>7. ASSUME NEW i \in 1..K PROVE \E x \in S : Cardinality(smaller(x)) = i - 1
  <2>1. i - 1 \in 0..(K - 1)
    BY <1>1
  <2> QED
    BY <1>6, <2>1
<1>8. \A i \in 1..K : Ascending(S)[i] = CHOOSE x \in S : Cardinality(smaller(x)) = i - 1
  BY DEF Ascending
<1>9. \A i \in 1..K : Ascending(S)[i] \in S /\ Cardinality(smaller(Ascending(S)[i])) = i - 1
  BY <1>7, <1>8
<1>10. Ascending(S) \in [1..K -> S]
  BY <1>9 DEF Ascending
<1> QED
  BY <1>1, <1>9, <1>10

\* The greatest one comes last.
LEMMA GreatestIsLast ==
    ASSUME NEW S \in SUBSET Nat, IsFiniteSet(S), NEW i \in 1..Cardinality(S),
           \A y \in S : y <= Ascending(S)[i]
    PROVE  i = Cardinality(S)
<1> DEFINE x == Ascending(S)[i]
<1>1. x \in S /\ Cardinality({y \in S : y < x}) = i - 1 /\ Cardinality(S) \in Nat
  BY AscendingIs
<1>2. {y \in S : y < x} = S \ {x}
  <2>1. \A y \in S : y \in Nat /\ x \in Nat /\ y <= x
    BY <1>1
  <2>2. \A y \in S : y < x <=> y # x
    BY <2>1
  <2> HIDE DEF x
  <2> QED
    BY <2>2
<1>3. Cardinality(S \ {x}) = Cardinality(S) - 1
  BY <1>1, FS_RemoveElement
<1> QED
  BY <1>1, <1>2, <1>3

\* A number that is one less than a multiple of g, and whose digit above g is the
\* greatest of r ones, is one less than a multiple of g * r.
LEMMA GreatestDigit ==
    ASSUME NEW g \in Nat \ {0}, NEW r \in Nat \ {0}, NEW c \in Nat, NEW s \in Nat,
           c + 1 = g * s, (c \div g) % r = r - 1
    PROVE  \E t \in Nat : c + 1 = (g * r) * t
<1>1. s # 0
  OBVIOUS
<1>2. g * s = g * (s - 1) + g /\ g * (s - 1) \in Nat /\ s - 1 \in Nat
  BY <1>1
<1>3. c \div g = s - 1
  <2>1. c = g * (c \div g) + (c % g) /\ c \div g \in Nat /\ c % g \in Nat /\ c % g < g
    BY DivDefined
  <2>2. g * (s - 1) < g * (c \div g) + g /\ g * (c \div g) < g * (s - 1) + g
    BY <1>2, <2>1
  <2>3. s - 1 <= c \div g /\ c \div g <= s - 1
    BY <1>2, <2>1, <2>2, MultiplesOrdered
  <2> QED
    BY <1>2, <2>1, <2>3
<1> DEFINE q == (s - 1) \div r
<1>4. s - 1 = r * q + (r - 1) /\ q \in Nat
  BY <1>2, <1>3, DivDefined
<1> HIDE DEF q
<1>5. s = r * (q + 1)
  <2>1. r * (q + 1) = r * q + r /\ r * q \in Nat
    BY <1>4
  <2> QED
    BY <1>4, <2>1
<1>6. q + 1 \in Nat
  BY <1>4
<1>7. g * (r * (q + 1)) = (g * r) * (q + 1)
  BY <1>6, TimesCommutes
<1> QED
  BY <1>5, <1>6, <1>7

\* The sizes of a loop are finitely many.
LEMMA SizesFinite ==
    ASSUME NEW trip \in Nat
    PROVE  LET S == {size \in 1..trip : size <= MaxLoopParallel /\ trip % size = 0}
           IN  S \in SUBSET Nat /\ IsFiniteSet(S) /\ \A y \in S : y <= trip
<1> DEFINE S == {size \in 1..trip : size <= MaxLoopParallel /\ trip % size = 0}
<1>1. S \subseteq 1..trip
  BY Zenon
<1> HIDE DEF S
<1>2. IsFiniteSet(1..trip)
  BY FS_Interval
<1>3. S \in SUBSET Nat /\ \A y \in S : y <= trip
  <2>1. \A y \in 1..trip : y \in Nat /\ y <= trip
    OBVIOUS
  <2> QED
    BY <1>1, <2>1
<1>4. IsFiniteSet(S)
  BY <1>1, <1>2, FS_Subset
<1> QED
  BY <1>3, <1>4 DEF S

\* The sizes of a loop: its trip count is the last one, if it is one of them.
LEMMA TripIsLastSize ==
    ASSUME NEW trip \in Nat, NEW i \in 1..Len(ValidTileSizes(trip)),
           ValidTileSizes(trip)[i] = trip
    PROVE  i = Len(ValidTileSizes(trip))
<1> DEFINE S == {size \in 1..trip : size <= MaxLoopParallel /\ trip % size = 0}
<1>1. S \in SUBSET Nat /\ IsFiniteSet(S) /\ \A y \in S : y <= trip
  BY SizesFinite
<1>2. ValidTileSizes(trip) = Ascending(S)
  BY DEF ValidTileSizes
<1> HIDE DEF S
<1>3. Len(Ascending(S)) = Cardinality(S)
  BY <1>1, AscendingIs
<1> QED
  BY <1>1, <1>2, <1>3, GreatestIsLast

\* The sizes of a loop are counted.
LEMMA SizesCounted ==
    ASSUME NEW trip \in Nat
    PROVE  Len(ValidTileSizes(trip)) \in Nat
<1> DEFINE S == {size \in 1..trip : size <= MaxLoopParallel /\ trip % size = 0}
<1>1. S \in SUBSET Nat /\ IsFiniteSet(S)
  BY SizesFinite
<1>2. ValidTileSizes(trip) = Ascending(S)
  BY DEF ValidTileSizes
<1> HIDE DEF S
<1> QED
  BY <1>1, <1>2, AscendingIs

\* The product of all values is the product on the domain.
LEMMA ProductIs == \A f : ProductOf(f) = Prod(f, DOMAIN f)
BY ProdOfDomain DEF ProductOf

\* How many sizes each loop has.
Radix(trips) == [i \in DOMAIN trips |-> Len(ValidTileSizes(trips[i]))]

\* g takes the weight of each digit of a tile config.
IsFactor(g, trips) ==
    g = [i \in DOMAIN trips |-> IF i = 1 THEN 1 ELSE g[i - 1] * Len(ValidTileSizes(trips[i - 1]))]

\* The weight of a digit is the number of configs of the loops before.
LEMMA FactorIs ==
    ASSUME NEW trips \in Seq(Nat)
    PROVE  LET g == CHOOSE g : IsFactor(g, trips)
           IN  IsFactor(g, trips) /\ \A i \in 1..Len(trips) : g[i] = Prod(Radix(trips), 1..(i - 1))
<1> DEFINE n == Len(trips)
           R == Radix(trips)
           h == [i \in 1..n |-> Prod(R, 1..(i - 1))]
           g == CHOOSE g : IsFactor(g, trips)
<1>1. n \in Nat /\ DOMAIN trips = 1..n /\ \A i \in 1..n : trips[i] \in Nat
  OBVIOUS
<1>2. \A i \in 1..n : R[i] \in Nat /\ R[i] = Len(ValidTileSizes(trips[i]))
  BY <1>1, SizesCounted DEF Radix
<1> HIDE DEF R
<1>3. Prod(R, {}) = 1
  BY ProdEmpty
<1>4. ASSUME NEW i \in 1..n, i # 1
      PROVE  /\ i - 1 \in 1..n
             /\ Prod(R, 1..(i - 1)) = Prod(R, 1..((i - 1) - 1)) * R[i - 1]
  <2>1. i - 1 \in 1..n /\ i - 1 \in Int /\ 1 <= i - 1
    BY <1>1, <1>4
  <2>2. \A j \in 1..(i - 1) : R[j] \in Nat
    BY <1>2, <2>1
  <2> QED
    BY <2>1, <2>2, ProdLast
<1>5. IsFactor(h, trips)
  <2>1. ASSUME NEW i \in 1..n
        PROVE  h[i] = IF i = 1 THEN 1 ELSE h[i - 1] * Len(ValidTileSizes(trips[i - 1]))
    <3>1. CASE i = 1
      <4>1. 1..(i - 1) = {}
        BY <3>1
      <4> QED
        BY <1>3, <3>1, <4>1
    <3>2. CASE i # 1
      BY <1>2, <1>4, <3>2
    <3> QED
      BY <3>1, <3>2
  <2> QED
    BY <1>1, <2>1 DEF IsFactor
<1>6. IsFactor(g, trips)
  <2> HIDE DEF h
  <2> QED
    BY <1>5
<1> HIDE DEF g
<1>7. \A i \in 1..n : g[i] = IF i = 1 THEN 1 ELSE g[i - 1] * Len(ValidTileSizes(trips[i - 1]))
  BY <1>1, <1>6 DEF IsFactor
<1> DEFINE S == {i \in 0..n : i # 0 => g[i] = Prod(R, 1..(i - 1))}
<1>8. ASSUME NEW i \in 1..n, i - 1 \in S PROVE i \in S
  <2>1. CASE i = 1
    <3>1. 1..(i - 1) = {}
      BY <2>1
    <3> QED
      BY <1>1, <1>3, <1>7, <2>1, <3>1
  <2>2. CASE i # 1
    <3>1. i - 1 \in 1..n /\ i - 1 # 0 /\ i # 0
      BY <1>1, <1>4, <2>2
    <3>2. g[i] = g[i - 1] * R[i - 1]
      BY <1>2, <1>7, <2>2, <3>1
    <3>3. g[i - 1] = Prod(R, 1..((i - 1) - 1))
      BY <1>8, <3>1
    <3> QED
      BY <1>1, <1>4, <2>2, <3>1, <3>2, <3>3
  <2> QED
    BY <2>1, <2>2
<1>9. 0 \in S
  BY <1>1
<1> HIDE DEF S
<1>10. 0..n \subseteq S
  BY <1>1, <1>8, <1>9, UpTo
<1>11. \A i \in 1..n : g[i] = Prod(R, 1..(i - 1))
  BY <1>1, <1>10 DEF S
<1> QED
  BY <1>6, <1>11 DEF g, R

\* How many configs the first k loops have.
Configs(trips, k) == Prod(Radix(trips), 1..k)

\* If there is a config at all, each loop has a size, and the digits of a config are the
\* places of sizes.
LEMMA DigitsAre ==
    ASSUME NEW trips \in Seq(Nat), NEW c \in 0..(ValidTileConfigNum(trips) - 1)
    PROVE  LET n == Len(trips)
               R == Radix(trips)
               index == TileIndex(trips, c)
           IN  /\ c \in Nat /\ c + 1 < Configs(trips, n)
               /\ Configs(trips, 0) = 1
               /\ \A k \in 0..n : Configs(trips, k) \in Nat \ {0}
               /\ \A k \in 1..n : /\ Configs(trips, k) = Configs(trips, k - 1) * R[k]
                                  /\ R[k] = Len(ValidTileSizes(trips[k])) /\ R[k] \in Nat \ {0}
                                  /\ index[k] = (c \div Configs(trips, k - 1)) % R[k]
                                  /\ index[k] \in 0..(R[k] - 1)
<1> DEFINE n == Len(trips)
           R == Radix(trips)
           G(k) == Configs(trips, k)
           g == CHOOSE g : IsFactor(g, trips)
<1>1. n \in Nat /\ DOMAIN trips = 1..n /\ \A i \in 1..n : trips[i] \in Nat
  OBVIOUS
<1>2. \A i \in 1..n : R[i] \in Nat /\ R[i] = Len(ValidTileSizes(trips[i]))
  BY <1>1, SizesCounted DEF Radix
<1>3. IsFactor(g, trips) /\ \A i \in 1..n : g[i] = G(i - 1)
  BY FactorIs DEF Configs
<1>4. ValidTileConfigNum(trips) = G(n) - 1
  <2>1. ValidTileConfigNum(trips) = ProductOf(R) - 1
    BY DEF ValidTileConfigNum, Radix
  <2>2. DOMAIN R = 1..n
    BY <1>1 DEF Radix
  <2> QED
    BY <2>1, <2>2, ProductIs DEF Configs
<1>5. \A i \in 1..n : TileIndex(trips, c)[i] = (c \div g[i]) % R[i]
  BY <1>1, <1>2, <1>3 DEF TileIndex, IsFactor
<1> HIDE DEF R, g, n
<1>7. \A k \in 0..n : G(k) \in Nat
  <2> SUFFICES ASSUME NEW k \in 0..n PROVE G(k) \in Nat
    OBVIOUS
  <2>1. \A i \in 1..k : R[i] \in Nat
    BY <1>1, <1>2
  <2>2. IsFiniteSet(1..k)
    BY <1>1, FS_Interval
  <2> QED
    BY <2>1, <2>2, ProdIsNat DEF Configs, R
<1>8. c \in Nat /\ c + 1 < G(n)
  <2>1. G(n) \in Nat
    BY <1>1, <1>7
  <2> HIDE DEF G
  <2> QED
    BY <1>4, <2>1
<1>9. \A k \in 1..n : G(k) = G(k - 1) * R[k]
  <2> SUFFICES ASSUME NEW k \in 1..n PROVE G(k) = G(k - 1) * R[k]
    OBVIOUS
  <2>1. k \in Int /\ 1 <= k /\ \A i \in 1..k : R[i] \in Nat
    BY <1>1, <1>2
  <2> QED
    BY <2>1, ProdLast DEF Configs, R
<1>10. G(0) = 1
  <2>1. 1..0 = {}
    OBVIOUS
  <2> QED
    BY <2>1, ProdEmpty DEF Configs
<1> HIDE DEF G
<1>11. \A k \in 0..n : G(k) # 0 /\ (k # 0 => R[k] # 0)
  <2> DEFINE S == {j \in 0..n : /\ G(n - j) # 0
                               /\ \A i \in (n - j + 1)..n : R[i] # 0}
  <2>1. 0 \in S
    <3>1. n - 0 = n /\ (n - 0 + 1)..n = {}
      BY <1>1
    <3> QED
      BY <1>1, <1>8, <3>1
  <2>2. ASSUME NEW j \in 1..n, j - 1 \in S PROVE j \in S
    <3> DEFINE k == n - j + 1
    <3>1. k \in 1..n /\ n - (j - 1) = k /\ n - j = k - 1 /\ k - 1 \in 0..n
      BY <1>1
    <3> HIDE DEF k
    <3>2. G(k) # 0 /\ \A i \in (k + 1)..n : R[i] # 0
      BY <2>2, <3>1
    <3>3. G(k) = G(k - 1) * R[k] /\ G(k - 1) \in Nat /\ R[k] \in Nat
      BY <1>2, <1>7, <1>9, <3>1
    <3>4. G(k - 1) # 0 /\ R[k] # 0
      BY <3>2, <3>3
    <3>5. \A i \in k..n : i = k \/ i \in (k + 1)..n
      BY <1>1, <3>1
    <3> QED
      BY <3>1, <3>2, <3>4, <3>5
  <2> HIDE DEF S
  <2>3. 0..n \subseteq S
    BY <1>1, <2>1, <2>2, UpTo
  <2> SUFFICES ASSUME NEW k \in 0..n PROVE G(k) # 0 /\ (k # 0 => R[k] # 0)
    OBVIOUS
  <2>4. n - k \in 0..n /\ n - (n - k) = k
    BY <1>1
  <2>5. G(k) # 0
    BY <2>3, <2>4 DEF S
  <2>6. \A i \in 1..n : R[i] # 0
    <3>1. n \in 0..n /\ n - n + 1 = 1
      BY <1>1
    <3> QED
      BY <2>3, <3>1 DEF S
  <2> QED
    BY <1>1, <2>5, <2>6
<1>12. ASSUME NEW k \in 1..n
       PROVE  /\ R[k] \in Nat \ {0} /\ TileIndex(trips, c)[k] = (c \div G(k - 1)) % R[k]
              /\ TileIndex(trips, c)[k] \in 0..(R[k] - 1)
  <2>1. k - 1 \in 0..n
    BY <1>1
  <2>2. R[k] \in Nat \ {0} /\ G(k - 1) \in Nat \ {0}
    BY <1>1, <1>2, <1>7, <1>11, <2>1
  <2>3. TileIndex(trips, c)[k] = (c \div G(k - 1)) % R[k]
    BY <1>3, <1>5
  <2>4. (c \div G(k - 1)) % R[k] \in 0..(R[k] - 1)
    <3>1. c \div G(k - 1) \in Nat
      BY <1>8, <2>2, DivDefined
    <3>2. (c \div G(k - 1)) % R[k] \in Nat /\ (c \div G(k - 1)) % R[k] < R[k]
      BY <2>2, <3>1, DivDefined
    <3> HIDE DEF R, G
    <3> QED
      BY <2>2, <3>2
  <2> QED
    BY <2>2, <2>3, <2>4
<1>13. \A k \in 0..n : G(k) \in Nat \ {0}
  BY <1>7, <1>11
<1> QED
  BY <1>2, <1>8, <1>9, <1>10, <1>12, <1>13 DEF G, R, n

\* The sizes a config selects are sizes of the loops.
LEMMA TilesAre ==
    ASSUME NEW trips \in Seq(Nat), NEW c \in 0..(ValidTileConfigNum(trips) - 1),
           NEW i \in 1..Len(trips)
    PROVE  TileList(trips, c)[i] \in Nat \ {0}
<1> DEFINE index == TileIndex(trips, c)[i]
           sizes == ValidTileSizes(trips[i])
           S == {size \in 1..trips[i] : size <= MaxLoopParallel /\ trips[i] % size = 0}
<1>1. trips[i] \in Nat /\ i \in DOMAIN trips
  OBVIOUS
<1>2. S \in SUBSET Nat /\ IsFiniteSet(S) /\ S \subseteq 1..trips[i]
  <2>1. S \subseteq 1..trips[i]
    BY Zenon
  <2> QED
    BY <1>1, <2>1, SizesFinite
<1>3. sizes = Ascending(S)
  BY DEF ValidTileSizes
<1>4. TileList(trips, c)[i] = sizes[1 + index]
  BY <1>1 DEF TileList
<1>5. index \in 0..(Len(sizes) - 1) /\ Len(sizes) \in Nat
  BY <1>1, DigitsAre
<1> HIDE DEF S, index
<1>6. Cardinality(S) \in Nat /\ sizes \in [1..Cardinality(S) -> S]
  BY <1>2, <1>3, AscendingIs
<1> HIDE DEF sizes
<1>7. 1 + index \in 1..Cardinality(S)
  <2>1. Len(sizes) = Cardinality(S)
    BY <1>6
  <2> QED
    BY <1>5, <1>6, <2>1
<1>8. sizes[1 + index] \in 1..trips[i]
  BY <1>2, <1>6, <1>7
<1> QED
  BY <1>1, <1>4, <1>8

\* The bands run a number of iterations.
LEMMA IterNumIs ==
    ASSUME NEW trips \in Seq(Nat), NEW c \in 0..(ValidTileConfigNum(trips) - 1)
    PROVE  IterNum(trips, c) \in Nat
<1> DEFINE n == Len(trips)
           f == [i \in DOMAIN trips |-> trips[i] \div TileList(trips, c)[i]]
<1>1. n \in Nat /\ DOMAIN trips = 1..n /\ DOMAIN f = 1..n /\ \A i \in 1..n : trips[i] \in Nat
  OBVIOUS
<1>2. ASSUME NEW i \in 1..n PROVE f[i] \in Nat
  <2>1. TileList(trips, c)[i] \in Nat \ {0}
    BY TilesAre
  <2> QED
    BY <1>1, <2>1, DivIsNat
<1>3. IterNum(trips, c) = Prod(f, 1..n)
  <2>1. IterNum(trips, c) = ProductOf(f)
    BY DEF IterNum
  <2> HIDE DEF f
  <2> QED
    BY <1>1, <2>1, ProductIs
<1>4. IsFiniteSet(1..n)
  BY <1>1, FS_Interval
<1> HIDE DEF f, n
<1> QED
  BY <1>2, <1>3, <1>4, ProdIsNat

\* The only config that unrolls each loop fully is the last one, which is dropped.
LEMMA NotFullyUnrolled ==
    ASSUME NEW trips \in Seq(Nat), NEW c \in 0..(ValidTileConfigNum(trips) - 1)
    PROVE  TileList(trips, c) # trips
<1> DEFINE n == Len(trips)
           R == Radix(trips)
           G(k) == Configs(trips, k)
           index == TileIndex(trips, c)
<1> SUFFICES ASSUME TileList(trips, c) = trips PROVE FALSE
  OBVIOUS
<1>1. n \in Nat /\ DOMAIN trips = 1..n /\ \A i \in 1..n : trips[i] \in Nat
  OBVIOUS
<1>2. \A i \in 1..n : trips[i] = ValidTileSizes(trips[i])[1 + index[i]]
  BY <1>1 DEF TileList
<1>3. c \in Nat /\ c + 1 < G(n) /\ G(0) = 1 /\ \A k \in 0..n : G(k) \in Nat \ {0}
  BY DigitsAre
<1>4. \A k \in 1..n : /\ G(k) = G(k - 1) * R[k]
                      /\ R[k] = Len(ValidTileSizes(trips[k])) /\ R[k] \in Nat \ {0}
                      /\ index[k] = (c \div G(k - 1)) % R[k] /\ index[k] \in 0..(R[k] - 1)
  BY DigitsAre
<1> HIDE DEF R, G, n, index
\* Each digit is the greatest one.
<1>5. ASSUME NEW k \in 1..n PROVE (c \div G(k - 1)) % R[k] = R[k] - 1
  <2>1. R[k] \in Nat \ {0} /\ index[k] \in 0..(R[k] - 1)
    BY <1>4
  <2>2. 1 + index[k] \in 1..Len(ValidTileSizes(trips[k]))
        /\ trips[k] = ValidTileSizes(trips[k])[1 + index[k]]
    <3>1. Len(ValidTileSizes(trips[k])) = R[k]
      BY <1>4
    <3>2. 1 + index[k] \in 1..R[k]
      BY ONLY <2>1
    <3>3. trips[k] = ValidTileSizes(trips[k])[1 + index[k]]
      BY <1>2
    <3> QED
      BY ONLY <3>1, <3>2, <3>3
  <2>3. 1 + index[k] = R[k]
    BY <1>1, <1>4, <2>2, TripIsLastSize
  <2> QED
    BY <1>4, <2>1, <2>3
\* So the config is one less than a multiple of the number of all of them.
<1>6. \E s \in Nat : c + 1 = G(n) * s
  <2> DEFINE S == {k \in 0..n : \E s \in Nat : c + 1 = G(k) * s}
  <2>1. 0 \in S
    <3>1. c + 1 = G(0) * (c + 1) /\ c + 1 \in Nat
      BY <1>3
    <3> QED
      BY <1>1, <3>1
  <2>2. ASSUME NEW k \in 1..n, k - 1 \in S PROVE k \in S
    <3>1. k - 1 \in 0..n /\ k \in 0..n
      BY <1>1
    <3>2. R[k] \in Nat \ {0} /\ G(k - 1) \in Nat \ {0}
      BY <1>3, <1>4, <3>1
    <3>3. PICK s \in Nat : c + 1 = G(k - 1) * s
      BY <2>2
    <3>4. \E t \in Nat : c + 1 = (G(k - 1) * R[k]) * t
      BY <1>3, <1>5, <3>2, <3>3, GreatestDigit
    <3> QED
      BY <1>4, <3>1, <3>4
  <2> HIDE DEF S
  <2>3. n \in S
    <3>1. 0..n \subseteq S
      BY <1>1, <2>1, <2>2, UpTo
    <3> QED
      BY <1>1, <3>1
  <2> QED
    BY <2>3 DEF S
<1> QED
  <2>1. PICK s \in Nat : c + 1 = G(n) * s
    BY <1>6
  <2>2. G(n) \in Nat
    BY <1>1, <1>3
  <2>3. s # 0
    BY <1>3, <2>1, <2>2
  <2>4. G(n) * 1 <= G(n) * s /\ G(n) * 1 = G(n)
    BY <2>2, <2>3, TimesMonotone
  <2> QED
    BY <1>3, <2>1, <2>2, <2>4

-----------------------------------------------------------------------------
(* Bands *)

\* One more loop at the end of a band.
LEMMA AppendIs ==
    ASSUME NEW S, NEW q \in Seq(S), NEW x \in S
    PROVE  Append(q, x) \in Seq(S) /\ Append(q, x) # <<>>
<1>1. Append(q, x) \in Seq(S) /\ Len(Append(q, x)) = Len(q) + 1 /\ Len(q) \in Nat
  OBVIOUS
<1>2. Len(<<>>) = 0
  OBVIOUS
<1> QED
  BY <1>1, <1>2

\* g takes the band that ends at each loop.
IsUp(g, f) ==
    g = [m \in Loops(f) |-> IF f.parent[m] # NoLoop /\ HasOneChild(f, f.parent[m])
                            THEN Append(g[f.parent[m]], m) ELSE <<m>>]

\* There is such a function: each value needs that of the parent only.
LEMMA UpExists ==
    ASSUME NEW f, IsForest(f)
    PROVE  \E g \in [Loops(f) -> Seq(Loops(f)) \ {<<>>}] : IsUp(g, f)
<1> DEFINE D == Loops(f)
           A == Seq(D) \ {<<>>}
           G(g) == [m \in D |-> IF f.parent[m] # NoLoop /\ HasOneChild(f, f.parent[m])
                                THEN Append(g[f.parent[m]], m) ELSE <<m>>]
           F == [g \in [D -> A] |-> G(g)]
           r == [m \in D |-> m]
<1>1. PICK N \in Nat : \A l \in D : l \in Nat \ {NoLoop} /\ l < N
  BY LoopsBelow
<1>2. \A m \in D : f.parent[m] # NoLoop => f.parent[m] \in D /\ f.parent[m] < m
  BY ParentBefore
<1> HIDE DEF D
<1>3. r \in [D -> Nat] /\ \A m \in D : r[m] < N
  BY <1>1
<1>4. F \in [[D -> A] -> [D -> A]]
  <2> SUFFICES ASSUME NEW g \in [D -> A], NEW m \in D PROVE G(g)[m] \in A
    OBVIOUS
  <2>1. <<m>> \in A
    OBVIOUS
  <2>2. ASSUME NEW q \in A PROVE Append(q, m) \in A
    BY AppendIs
  <2> QED
    BY <1>2, <2>1, <2>2
<1>5. ASSUME NEW g \in [D -> A], NEW h \in [D -> A], NEW x \in D,
             \A y \in D : r[y] < r[x] => g[y] = h[y]
      PROVE  F[g][x] = F[h][x]
  <2>1. F[g][x] = G(g)[x] /\ F[h][x] = G(h)[x]
    OBVIOUS
  <2>2. f.parent[x] # NoLoop => g[f.parent[x]] = h[f.parent[x]]
    BY <1>2, <1>5
  <2> QED
    BY <2>1, <2>2
<1> HIDE DEF F, r
<1>6. CASE D = {}
  BY <1>6 DEF IsUp, D
<1>7. CASE D # {}
  <2>1. PICK g \in [D -> A] : g = F[g]
    <3>1. PICK a \in D : TRUE
      BY <1>7
    <3>2. <<a>> \in A
      OBVIOUS
    <3> HIDE DEF A
    <3>3. IsRecursion(F, D, A, r)
      BY <1>3, <1>4, <1>5 DEF IsRecursion
    <3> QED
      BY <1>3, <3>2, <3>3, FixedPoint
  <2>2. g = G(g)
    BY <2>1 DEF F
  <2> QED
    BY <2>2 DEF IsUp, D
<1> QED
  BY <1>6, <1>7

\* A band is made of loops, at least one.
LEMMA BandIs ==
    ASSUME NEW f, IsForest(f), NEW l \in Loops(f)
    PROVE  BandTo(f, l) \in Seq(Loops(f)) /\ BandTo(f, l) # <<>>
<1> DEFINE g == CHOOSE g : IsUp(g, f)
           p == f.parent
           S == {m \in Loops(f) : g[m] \in Seq(Loops(f)) /\ g[m] # <<>>}
<1>1. IsUp(g, f)
  BY UpExists
<1>2. BandTo(f, l) = g[l]
  BY DEF BandTo, IsUp
<1> HIDE DEF g
<1>3. ASSUME NEW m \in Loops(f), p[m] # NoLoop => p[m] \in S PROVE m \in S
  <2>1. g[m] = IF p[m] # NoLoop /\ HasOneChild(f, p[m]) THEN Append(g[p[m]], m) ELSE <<m>>
    BY <1>1 DEF IsUp
  <2>2. <<m>> \in Seq(Loops(f)) /\ <<m>> # <<>>
    OBVIOUS
  <2>3. \A q \in Seq(Loops(f)) : Append(q, m) \in Seq(Loops(f)) /\ Append(q, m) # <<>>
    BY AppendIs
  <2>4. p[m] # NoLoop => g[p[m]] \in Seq(Loops(f))
    BY <1>3
  <2> QED
    BY <2>1, <2>2, <2>3, <2>4
<1> HIDE DEF S
<1>4. l \in S
  BY <1>3, ForestInduction
<1> QED
  BY <1>2, <1>4 DEF S

\* getLoopBands finds such bands.
LEMMA BandsAre ==
    ASSUME NEW f, IsForest(f)
    PROVE  /\ Len(LoopBands(f)) \in Nat
           /\ \A b \in 1..Len(LoopBands(f)) :
                 LoopBands(f)[b] \in Seq(Loops(f)) /\ LoopBands(f)[b] # <<>>
<1> DEFINE S == {l \in Loops(f) : ChildLoops(f, l) = {}}
           leaves == Ascending(S)
<1>1. S \in SUBSET Nat /\ IsFiniteSet(S) /\ S \subseteq Loops(f)
  BY FS_Subset DEF IsForest
<1> HIDE DEF S
<1>2. Cardinality(S) \in Nat /\ leaves \in [1..Cardinality(S) -> S]
  BY <1>1, AscendingIs
<1> HIDE DEF leaves
<1>3. LoopBands(f) = [i \in DOMAIN leaves |-> BandTo(f, leaves[i])]
  BY DEF LoopBands, leaves, S
<1>4. LoopBands(f) = [i \in 1..Cardinality(S) |-> BandTo(f, leaves[i])]
  BY <1>2, <1>3
<1>5. \A i \in 1..Cardinality(S) : BandTo(f, leaves[i]) \in Seq(Loops(f))
                                   /\ BandTo(f, leaves[i]) # <<>>
  BY <1>1, <1>2, BandIs
<1>6. Len(LoopBands(f)) = Cardinality(S)
  BY <1>2, <1>4
<1> QED
  BY <1>2, <1>4, <1>5, <1>6

\* The trip counts of a band are numbers.
LEMMA TripCountsAre ==
    ASSUME IsForest(forest), NEW b \in 1..Len(Bands)
    PROVE  TripCounts(b) \in Seq(Nat)
<1> DEFINE q == Bands[b]
<1>1. q \in Seq(Loops(forest))
  BY BandsAre DEF Bands
<1>2. TripCounts(b) = [i \in DOMAIN q |-> forest.trip[q[i]]]
  BY DEF TripCounts
<1> HIDE DEF q
<1>3. \A i \in 1..Len(q) : forest.trip[q[i]] \in Nat
  BY <1>1 DEF IsForest
<1>4. Len(q) \in Nat /\ DOMAIN q = 1..Len(q)
  BY <1>1
<1> QED
  BY <1>2, <1>3, <1>4

\* g takes how often each loop is run.
IsTimes(g, f) ==
    g = [m \in Loops(f) |-> IF f.parent[m] = NoLoop THEN 1
                            ELSE f.trip[f.parent[m]] * g[f.parent[m]]]

\* There is such a function: each value needs that of the parent only.
LEMMA TimesExists ==
    ASSUME NEW f, IsForest(f)
    PROVE  \E g \in [Loops(f) -> Nat] : IsTimes(g, f)
<1> DEFINE D == Loops(f)
           G(g) == [m \in D |-> IF f.parent[m] = NoLoop THEN 1
                                ELSE f.trip[f.parent[m]] * g[f.parent[m]]]
           F == [g \in [D -> Nat] |-> G(g)]
           r == [m \in D |-> m]
<1>1. PICK N \in Nat : \A l \in D : l \in Nat \ {NoLoop} /\ l < N
  BY LoopsBelow
<1>2. \A m \in D : f.parent[m] # NoLoop => f.parent[m] \in D /\ f.parent[m] < m
  BY ParentBefore
<1>3. \A m \in D : f.trip[m] \in Nat
  BY DEF IsForest
<1> HIDE DEF D
<1>4. r \in [D -> Nat] /\ \A m \in D : r[m] < N
  BY <1>1
<1>5. F \in [[D -> Nat] -> [D -> Nat]]
  <2> SUFFICES ASSUME NEW g \in [D -> Nat], NEW m \in D PROVE G(g)[m] \in Nat
    OBVIOUS
  <2>1. f.parent[m] # NoLoop => f.trip[f.parent[m]] \in Nat /\ g[f.parent[m]] \in Nat
    BY <1>2, <1>3
  <2> QED
    BY <2>1, TimesIsNat
<1>6. ASSUME NEW g \in [D -> Nat], NEW h \in [D -> Nat], NEW x \in D,
             \A y \in D : r[y] < r[x] => g[y] = h[y]
      PROVE  F[g][x] = F[h][x]
  <2>1. F[g][x] = G(g)[x] /\ F[h][x] = G(h)[x]
    OBVIOUS
  <2>2. f.parent[x] # NoLoop => g[f.parent[x]] = h[f.parent[x]]
    BY <1>2, <1>6
  <2> QED
    BY <2>1, <2>2
<1> HIDE DEF F, r
<1>7. PICK g \in [D -> Nat] : g = F[g]
  <2>1. IsRecursion(F, D, Nat, r)
    BY <1>4, <1>5, <1>6 DEF IsRecursion
  <2> QED
    BY <1>4, <2>1, FixedPoint
<1>8. g = G(g)
  BY <1>7 DEF F
<1> QED
  BY <1>8 DEF IsTimes, D

\* A loop of the function runs a number of times.
LEMMA TimesAreCounted ==
    ASSUME NEW f, IsForest(f), NEW l \in Loops(f)
    PROVE  TimesRun(f, l) \in Nat
<1> DEFINE g == CHOOSE g : IsTimes(g, f)
           p == f.parent
           S == {m \in Loops(f) : g[m] \in Nat}
<1>1. IsTimes(g, f)
  BY TimesExists
<1>2. TimesRun(f, l) = g[l]
  BY DEF TimesRun, IsTimes
<1> HIDE DEF g
<1>3. ASSUME NEW m \in Loops(f), p[m] # NoLoop => p[m] \in S PROVE m \in S
  <2>1. g[m] = IF p[m] = NoLoop THEN 1 ELSE f.trip[p[m]] * g[p[m]]
    BY <1>1 DEF IsTimes
  <2>2. p[m] # NoLoop => f.trip[p[m]] \in Nat /\ g[p[m]] \in Nat
    BY <1>3 DEF IsForest
  <2> QED
    BY <2>1, <2>2, TimesIsNat
<1> HIDE DEF S
<1>4. l \in S
  BY <1>3, ForestInduction
<1> QED
  BY <1>2, <1>4 DEF S

Fields == {"trips", "config", "iter", "unestimated", "allPoints", "paretoPoints", "inactive"}

\* A design space of some trip counts, with configs that are not the last one.
IsSpace(s) ==
    /\ Fields \subseteq DOMAIN s
    /\ s.trips \in Seq(Nat)
    /\ s.unestimated \subseteq 0..(ValidTileConfigNum(s.trips) - 1)

\* The bands are explored one after the other, and combined when all are.
BandsInv ==
    /\ IsSpace(space)
    /\ \E S : loopSpaces \in Seq(S)
    /\ stage \in {"simplify", "optimize"} => loopSpaces = <<>>
    /\ stage \in {"initialize", "explore"} =>
          band \in 1..Len(Bands) /\ Len(loopSpaces) = band - 1
    /\ stage = "combine" => band \in 1..Len(Bands) /\ Len(loopSpaces) = Len(Bands)

\* The constructor of LoopDesignSpace makes one.
LEMMA NewIsSpace ==
    ASSUME NEW trips \in Seq(Nat), NEW directives
    PROVE  IsSpace(NewSpace(trips, directives))
BY DEF IsSpace, NewSpace, Fields

\* Points, and another turn, leave the configs alone.
LEMMA StaysSpace ==
    ASSUME NEW s, IsSpace(s), NEW t, DOMAIN t = DOMAIN s, t.trips = s.trips,
           t.unestimated \subseteq s.unestimated
    PROVE  IsSpace(t)
BY DEF IsSpace

\* evaluateTileConfig keeps one.
LEMMA EvaluatedIsSpace ==
    ASSUME NEW s, IsSpace(s), NEW c, NEW points
    PROVE  IsSpace(Evaluated(s, c, points))
<1> DEFINE t == Evaluated(s, c, points)
<1>1. /\ DOMAIN t = DOMAIN s /\ t.trips = s.trips
      /\ t.unestimated = s.unestimated \ {c}
  BY DEF Evaluated, IsSpace, Fields
<1> QED
  BY <1>1, StaysSpace

\* A turn of initializeLoopDesignSpace keeps one.
LEMMA InitializeStaysSpace ==
    ASSUME IsSpace(space), InitializeStep
    PROVE  IsSpace(space')
<1> DEFINE c == space.config
<1>1. ASSUME NEW s, IsSpace(s), space' = [s EXCEPT !.config = c + 1] PROVE IsSpace(space')
  <2>1. DOMAIN space' = DOMAIN s /\ space'.trips = s.trips /\ space'.unestimated = s.unestimated
    BY <1>1 DEF IsSpace, Fields
  <2> QED
    BY <1>1, <2>1, StaysSpace
<1>2. \/ space' = [space EXCEPT !.config = c + 1]
      \/ \E points : space' = [Evaluated(space, c, points) EXCEPT !.config = c + 1]
  BY DEF InitializeStep
<1> QED
  BY <1>1, <1>2, EvaluatedIsSpace

\* A turn of exploreLoopDesignSpace keeps one.
LEMMA ExploreStaysSpace ==
    ASSUME IsSpace(space), ExploreStep
    PROVE  IsSpace(space')
<1>1. PICK c, points, P, I : LET s == Evaluated(space, c, points)
                             IN  space' = [s EXCEPT !.iter = @ + 1, !.paretoPoints = P, !.inactive = I]
  BY DEF ExploreStep
<1> DEFINE s == Evaluated(space, c, points)
<1>2. IsSpace(s)
  BY EvaluatedIsSpace
<1>3. space' = [s EXCEPT !.iter = @ + 1, !.paretoPoints = P, !.inactive = I]
  BY <1>1
<1> HIDE DEF s
<1>4. DOMAIN space' = DOMAIN s /\ space'.trips = s.trips /\ space'.unestimated = s.unestimated
  BY <1>2, <1>3 DEF IsSpace, Fields
<1> QED
  BY <1>2, <1>4, StaysSpace

\* A band that is begun.
LEMMA ExploreBandIsSpace ==
    ASSUME IsForest(forest), NEW b \in 1..Len(Bands), ExploreBand(b)
    PROVE  IsSpace(space') /\ stage' \in {"initialize", "crashed"} /\ band' = b
<1>1. TripCounts(b) \in Seq(Nat)
  BY TripCountsAre
<1> QED
  BY <1>1, NewIsSpace DEF ExploreBand

\* At first no band is explored.
LEMMA BandsInit == Init => BandsInv
<1>1. <<>> \in Seq(Nat)
  OBVIOUS
<1>2. IsSpace(NoSpace)
  BY <1>1, NewIsSpace DEF NoSpace
<1> QED
  BY <1>1, <1>2 DEF Init, BandsInv

\* One more element.
LEMMA AppendCounts ==
    ASSUME NEW q, NEW S, q \in Seq(S), NEW x
    PROVE  /\ Len(Append(q, x)) = Len(q) + 1 /\ Len(q) \in Nat
           /\ Append(q, x) \in Seq(S \cup {x})
OBVIOUS

\* Each step goes on with the next band, or leaves the bands alone.
LEMMA BandsStep == NestInv /\ BandsInv /\ [Next]_vars => BandsInv'
<1> SUFFICES ASSUME NestInv, BandsInv, [Next]_vars PROVE BandsInv'
  OBVIOUS
<1>1. IsForest(forest) /\ Len(Bands) \in Nat
  BY BandsAre DEF NestInv, Bands
<1>2. ASSUME UNCHANGED forest PROVE Bands' = Bands
  BY <1>2 DEF Bands
<1>3. CASE SimplifyLoopNests
  <2>1. stage = "simplify" /\ stage' \in {"simplify", "optimize", "rejected"}
        /\ UNCHANGED <<space, loopSpaces>>
    BY <1>3 DEF SimplifyLoopNests, spaceVars
  <2> QED
    BY <2>1 DEF BandsInv
<1>4. CASE OptimizeLoopBands
  <2>1. stage = "optimize" /\ UNCHANGED <<forest, loopSpaces>> /\ loopSpaces = <<>>
    BY <1>4 DEF OptimizeLoopBands, BandsInv
  <2>2. CASE Len(Bands) > 0 /\ ExploreBand(1)
    <3>1. 1 \in 1..Len(Bands)
      BY <1>1, <2>2
    <3>2. IsSpace(space') /\ stage' \in {"initialize", "crashed"} /\ band' = 1
      BY <1>1, <2>2, <3>1, ExploreBandIsSpace
    <3>3. Len(loopSpaces') = band' - 1
      BY <2>1, <3>2
    <3> QED
      BY <1>2, <2>1, <3>1, <3>2, <3>3 DEF BandsInv
  <2>3. CASE stage' \in {"crashed", "rejected"} /\ UNCHANGED <<space, band>>
    BY <2>1, <2>3 DEF BandsInv
  <2> QED
    BY <1>4, <2>2, <2>3 DEF OptimizeLoopBands
<1>5. CASE InitializeLoopDesignSpace
  <2>1. stage = "initialize" /\ UNCHANGED <<forest, band, loopSpaces>>
        /\ stage' \in {"initialize", "explore", "crashed"}
    BY <1>5 DEF InitializeLoopDesignSpace, nestVars
  <2>2. IsSpace(space')
    <3>1. CASE InitializeStep
      BY <3>1, InitializeStaysSpace DEF BandsInv
    <3>2. CASE space' = [space EXCEPT !.paretoPoints = UpdateParetoPoints(@)]
      <4>1. DOMAIN space' = DOMAIN space /\ space'.trips = space.trips
            /\ space'.unestimated = space.unestimated
        BY <3>2 DEF BandsInv, IsSpace, Fields
      <4> QED
        BY <4>1, StaysSpace DEF BandsInv
    <3> QED
      BY <1>5, <3>1, <3>2 DEF InitializeLoopDesignSpace
  <2> QED
    BY <1>2, <2>1, <2>2 DEF BandsInv
<1>6. CASE ExploreLoopDesignSpace
  <2>1. stage = "explore" /\ UNCHANGED forest
    BY <1>6 DEF ExploreLoopDesignSpace, nestVars
  <2>2. CASE ExploreStep /\ UNCHANGED <<stage, band, loopSpaces>>
    <3>1. IsSpace(space')
      BY <2>2, ExploreStaysSpace DEF BandsInv
    <3> QED
      BY <1>2, <2>1, <2>2, <3>1 DEF BandsInv
  <2>3. CASE loopSpaces' = Append(loopSpaces, space)
    <3>1. PICK S : loopSpaces \in Seq(S)
      BY DEF BandsInv
    <3>2. /\ Len(loopSpaces') = Len(loopSpaces) + 1
          /\ \E T : loopSpaces' \in Seq(T)
      BY <2>3, <3>1, AppendCounts
    <3>3. band \in 1..Len(Bands) /\ Len(loopSpaces) = band - 1
      BY <2>1 DEF BandsInv
    <3>4. Len(loopSpaces') = band
      BY <1>1, <3>2, <3>3
    <3>5. CASE band < Len(Bands) /\ ExploreBand(band + 1)
      <4>1. band + 1 \in 1..Len(Bands)
        BY <1>1, <3>3, <3>5
      <4>2. IsSpace(space') /\ stage' \in {"initialize", "crashed"} /\ band' = band + 1
        BY <1>1, <3>5, <4>1, ExploreBandIsSpace
      <4>3. Len(loopSpaces') = band' - 1
        BY <3>3, <3>4, <4>2
      <4> QED
        BY <1>2, <2>1, <3>2, <4>1, <4>2, <4>3 DEF BandsInv
    <3>6. CASE ~(band < Len(Bands)) /\ stage' = "combine" /\ band' = 1 /\ UNCHANGED space
      <4>1. band = Len(Bands) /\ 1 \in 1..Len(Bands)
        BY <1>1, <3>3, <3>6
      <4> QED
        BY <1>2, <2>1, <3>2, <3>4, <3>6, <4>1 DEF BandsInv
    <3> QED
      BY <1>6, <2>1, <2>3, <3>5, <3>6 DEF ExploreLoopDesignSpace, ExploreBand
  <2> QED
    BY <1>6, <2>2, <2>3 DEF ExploreLoopDesignSpace
<1>7. CASE CombLoopDesignSpaces
  <2>1. /\ stage = "combine" /\ stage' \in {"crashed", "apply", "combine"}
        /\ UNCHANGED <<forest, space, loopSpaces>>
        /\ band' = IF band < Len(loopSpaces) THEN band + 1 ELSE band
    BY <1>7 DEF CombLoopDesignSpaces, nestVars
  <2>2. band \in 1..Len(Bands) /\ Len(loopSpaces) = Len(Bands)
    BY <2>1 DEF BandsInv
  <2>3. band' \in 1..Len(Bands)
    BY <1>1, <2>1, <2>2
  <2> QED
    BY <1>2, <2>1, <2>2, <2>3 DEF BandsInv
<1>8. CASE ApplyBestDesign
  BY <1>8 DEF ApplyBestDesign, BandsInv, spaceVars
<1>9. CASE UNCHANGED vars
  <2>1. UNCHANGED <<forest, space, band, loopSpaces, stage>>
    BY <1>9 DEF vars, nestVars, spaceVars
  <2> QED
    BY <1>2, <2>1 DEF BandsInv
<1> QED
  BY <1>3, <1>4, <1>5, <1>6, <1>7, <1>8, <1>9 DEF Next

\* So it holds in every state.
LEMMA BandsInvariance == Spec => []BandsInv
BY NestInvariance, BandsInit, BandsStep, PTL DEF Spec

\* The config that unrolls every loop of the band is not among those to estimate, whatever
\* the trip counts are and however many sizes each loop has: it would be the last one, and
\* the last one is dropped.
THEOREM FullUnrollingIsLeftOut == Spec => []NeverFullyUnrolled
<1>1. BandsInv => NeverFullyUnrolled
  BY NotFullyUnrolled DEF BandsInv, IsSpace, NeverFullyUnrolled
<1> QED
  BY <1>1, BandsInvariance, PTL

\* A band runs a number of times.
LEMMA TimesOfBand ==
    ASSUME NestInv, BandsInv, stage = "combine"
    PROVE  TimesRun(forest, Head(Bands[band])) \in Nat
<1>1. IsForest(forest) /\ band \in 1..Len(Bands)
  BY DEF NestInv, BandsInv
<1>2. Bands[band] \in Seq(Loops(forest)) /\ Bands[band] # <<>>
  BY <1>1, BandsAre DEF Bands
<1>3. Head(Bands[band]) \in Loops(forest)
  BY <1>2
<1> QED
  BY <1>1, <1>3, TimesAreCounted

\* A config that is not estimated yet has a number of iterations.
LEMMA EstimatedIterNum ==
    ASSUME NEW s, IsSpace(s), NEW c \in s.unestimated
    PROVE  IterNum(s.trips, c) \in Nat
BY IterNumIs DEF IsSpace

-----------------------------------------------------------------------------
(* The design space of one band *)

\* The points of a config count latency and DSPs, whatever the estimator answers.
LEMMA PointsAreEstimates ==
    ASSUME NEW trips, NEW config, IterNum(trips, config) \in Nat,
           NEW points \in Estimates(trips, config)
    PROVE  AreEstimates(points)
<1>1. CASE points = {}
  BY <1>1 DEF AreEstimates
<1>2. CASE points # {}
  <2>1. PICK q \in Outcomes : points = PointsOf(trips, config, q)
    BY <1>2 DEF Estimates
  <2>2. /\ q.minII \in Nat \ {0} /\ q.iterLatency \in Nat
        /\ q.dsp \in Nat
    BY SpaceAssumption
  <2> DEFINE n == IterNum(trips, config)
  <2>3. n \in Nat
    OBVIOUS
  <2> HIDE DEF n
  <2>4. ASSUME NEW ii \in q.minII..q.iterLatency
        PROVE  /\ q.iterLatency + ii * (n - 1) + 2 \in Nat
               /\ (q.dsp * q.minII) \div ii + 1 \in Nat
    <3>1. ii \in Nat \ {0} /\ ii <= q.iterLatency
      BY <2>2
    <3>2. CASE n = 0
      BY <2>2, <3>1, <3>2
    <3>3. CASE n # 0
      <4>1. n - 1 \in Nat
        BY <2>3, <3>3
      <4>2. ii * (n - 1) \in Nat
        BY <3>1, <4>1
      <4> QED
        BY <2>2, <4>2
    <3>4. q.dsp * q.minII \in Nat
      BY <2>2
    <3>5. (q.dsp * q.minII) \div ii \in Nat
      BY <3>1, <3>4
    <3>6. q.iterLatency + ii * (n - 1) + 2 \in Nat
      BY <3>2, <3>3
    <3> QED
      BY <3>5, <3>6
  <2>5. \A p \in points : \E ii \in q.minII..q.iterLatency :
          /\ p.latency = q.iterLatency + ii * (n - 1) + 2
          /\ p.dspNum = (q.dsp * q.minII) \div ii + 1
    BY <2>1 DEF PointsOf, n
  <2> QED
    BY <2>4, <2>5 DEF AreEstimates, IsEstimate
<1> QED
  BY <1>1, <1>2

\* A design space in which the points that were found inactive have no
\* neighbor left.
SpaceOK(s) ==
    /\ Fields \subseteq DOMAIN s
    /\ AreEstimates(s.allPoints)
    /\ s.iter \in Nat
    /\ \A p \in s.inactive : Neighbors(s, p) = {}

IsFrontier(s) == s.paretoPoints = UpdateParetoPoints(Affordable(s.allPoints))

IsExplored(s) ==
    s.iter < MaxIterNum => \A p \in s.paretoPoints : Neighbors(s, p) = {}

\* A new design space has no points.
LEMMA NewSpaceOK ==
    ASSUME NEW trips, NEW directives
    PROVE  LET s == NewSpace(trips, directives)
           IN  SpaceOK(s) /\ s.paretoPoints = Affordable(s.allPoints)
BY DEF NewSpace, SpaceOK, AreEstimates, Affordable, Fields

\* The configs near a point only become fewer.
LEMMA NeighborsShrink ==
    ASSUME NEW s, NEW t, t.trips = s.trips, t.unestimated \subseteq s.unestimated, NEW p
    PROVE  Neighbors(t, p) \subseteq Neighbors(s, p)
BY DEF Neighbors

\* evaluateTileConfig adds the points it found to both lists, but for those that
\* do not fit.
LEMMA EvaluatedOK ==
    ASSUME NEW s, SpaceOK(s), NEW c, NEW points, AreEstimates(points)
    PROVE  LET t == Evaluated(s, c, points)
           IN  /\ SpaceOK(t)
               /\ Affordable(t.allPoints) = Affordable(s.allPoints) \cup Affordable(points)
               /\ t.paretoPoints = s.paretoPoints \cup Affordable(points)
               /\ t.inactive = s.inactive
<1> DEFINE t == Evaluated(s, c, points)
<1>1. /\ Fields \subseteq DOMAIN t
      /\ t.trips = s.trips /\ t.iter = s.iter /\ t.inactive = s.inactive
      /\ t.unestimated = s.unestimated \ {c}
      /\ t.allPoints = s.allPoints \cup points
      /\ t.paretoPoints = s.paretoPoints \cup Affordable(points)
  BY DEF SpaceOK, Fields, Evaluated, Affordable
<1> HIDE DEF t
<1>2. SpaceOK(t)
  BY <1>1, NeighborsShrink DEF SpaceOK, AreEstimates
<1> QED
  BY <1>1, <1>2 DEF t, Affordable

-----------------------------------------------------------------------------
(* The invariant *)

SpaceInv ==
    /\ SpaceOK(space)
    /\ stage = "initialize" => space.paretoPoints = Affordable(space.allPoints)
    /\ stage = "explore" => IsFrontier(space)

LoopSpacesInv ==
    /\ \E S : loopSpaces \in Seq(S)
    /\ \A i \in 1..Len(loopSpaces) :
          SpaceOK(loopSpaces[i]) /\ IsFrontier(loopSpaces[i]) /\ IsExplored(loopSpaces[i])
    /\ stage = "combine" => band \in 1..Len(loopSpaces)

FuncInv ==
    /\ AreEstimates(combinations)
    /\ funcPoints \subseteq combinations
    /\ CombinationsCovered

ExploreInv == SpaceInv /\ LoopSpacesInv /\ FuncInv /\ AppliedIsBest

\* At first there is one design, of no points.
LEMMA InitInv == Init => ExploreInv
<1> SUFFICES ASSUME Init PROVE ExploreInv
  OBVIOUS
<1>1. /\ stage = "simplify" /\ space = NewSpace(<<>>, FALSE) /\ loopSpaces = <<>>
      /\ funcPoints = {NoDesign} /\ combinations = {NoDesign}
  BY DEF Init, NoSpace
<1>2. SpaceInv
  BY <1>1, NewSpaceOK DEF SpaceInv
<1>3. LoopSpacesInv
  <2>1. loopSpaces \in Seq({}) /\ Len(loopSpaces) = 0
    BY <1>1
  <2> QED
    BY <1>1, <2>1 DEF LoopSpacesInv
<1>4. FuncInv
  BY <1>1 DEF FuncInv, AreEstimates, IsEstimate, NoDesign, CombinationsCovered, Affordable
<1> QED
  BY <1>1, <1>2, <1>3, <1>4 DEF ExploreInv, AppliedIsBest

\* Steps that leave the function points and the applied design alone.
LEMMA FuncUntouched ==
    ASSUME FuncInv, UNCHANGED funcVars, stage' # "done"
    PROVE  FuncInv' /\ AppliedIsBest'
BY DEF FuncInv, funcVars, CombinationsCovered, AppliedIsBest

\* A band that is begun.
LEMMA ExploreBandKeepsInv ==
    ASSUME NEW b, ExploreBand(b)
    PROVE  SpaceInv' /\ stage' \in {"initialize", "crashed"}
BY NewSpaceOK DEF ExploreBand, SpaceInv

\* A point keeps its design space well-formed: nothing of SpaceOK is about it.
LEMMA StartsExploring ==
    ASSUME NEW s, SpaceOK(s), NEW P
    PROVE  LET t == [s EXCEPT !.paretoPoints = P]
           IN  SpaceOK(t) /\ t.paretoPoints = P /\ t.allPoints = s.allPoints
<1> DEFINE t == [s EXCEPT !.paretoPoints = P]
<1>1. /\ Fields \subseteq DOMAIN t /\ t.paretoPoints = P
      /\ t.trips = s.trips /\ t.iter = s.iter /\ t.inactive = s.inactive
      /\ t.unestimated = s.unestimated /\ t.allPoints = s.allPoints
  BY DEF SpaceOK, Fields
<1> HIDE DEF t
<1>2. SpaceOK(t)
  BY <1>1, NeighborsShrink DEF SpaceOK
<1> QED
  BY <1>1, <1>2 DEF t

\* The next config leaves the points alone.
LEMMA NextConfig ==
    ASSUME NEW s, SpaceOK(s), NEW n
    PROVE  LET t == [s EXCEPT !.config = n]
           IN  /\ SpaceOK(t)
               /\ t.paretoPoints = s.paretoPoints /\ t.allPoints = s.allPoints
<1> DEFINE t == [s EXCEPT !.config = n]
<1>1. /\ Fields \subseteq DOMAIN t /\ t.paretoPoints = s.paretoPoints
      /\ t.trips = s.trips /\ t.iter = s.iter /\ t.inactive = s.inactive
      /\ t.unestimated = s.unestimated /\ t.allPoints = s.allPoints
  BY DEF SpaceOK, Fields
<1> HIDE DEF t
<1>2. SpaceOK(t)
  BY <1>1, NeighborsShrink DEF SpaceOK
<1> QED
  BY <1>1, <1>2 DEF t

\* The points of an estimated config are added, in initializeLoopDesignSpace,
\* to those that fit.
LEMMA InitializeStepKeepsInv ==
    ASSUME IsSpace(space), SpaceOK(space), space.paretoPoints = Affordable(space.allPoints),
           InitializeStep
    PROVE  SpaceOK(space') /\ space'.paretoPoints = Affordable(space'.allPoints)
<1> DEFINE c == space.config
<1>1. CASE space' = [space EXCEPT !.config = c + 1]
  BY <1>1, NextConfig
<1>2. CASE /\ c \in space.unestimated
           /\ \E points \in Estimates(space.trips, c) :
                 space' = [Evaluated(space, c, points) EXCEPT !.config = c + 1]
  <2>1. PICK points \in Estimates(space.trips, c) :
          space' = [Evaluated(space, c, points) EXCEPT !.config = c + 1]
    BY <1>2
  <2>2. AreEstimates(points)
    BY <1>2, EstimatedIterNum, PointsAreEstimates
  <2> DEFINE t == Evaluated(space, c, points)
  <2>3. /\ SpaceOK(t)
        /\ Affordable(t.allPoints) = Affordable(space.allPoints) \cup Affordable(points)
        /\ t.paretoPoints = space.paretoPoints \cup Affordable(points)
    BY <2>2, EvaluatedOK
  <2>4. space' = [t EXCEPT !.config = c + 1]
    BY <2>1
  <2> HIDE DEF t
  <2>5. /\ SpaceOK(space')
        /\ space'.paretoPoints = t.paretoPoints /\ space'.allPoints = t.allPoints
    BY <2>3, <2>4, NextConfig
  <2> QED
    BY <2>3, <2>5
<1> QED
  BY <1>1, <1>2 DEF InitializeStep

\* One iteration of exploreLoopDesignSpace keeps the frontier, and makes inactive
\* only points that have no neighbor.
LEMMA ExploreStepKeepsInv ==
    ASSUME IsSpace(space), SpaceOK(space), IsFrontier(space), ExploreStep
    PROVE  SpaceOK(space') /\ IsFrontier(space')
<1>1. PICK p \in ActivePoints(space) \ LonelyPoints(space) :
      \E lonely \in SUBSET LonelyPoints(space), c \in ClosestNeighbors(space, p) :
      \E points \in Estimates(space.trips, c) :
        LET s == Evaluated(space, c, points)
            P == UpdateParetoPoints(s.paretoPoints)
        IN  space' = [s EXCEPT !.iter = @ + 1, !.paretoPoints = P,
                               !.inactive = (@ \cup lonely) \cap P]
  BY DEF ExploreStep
<1>2. PICK lonely \in SUBSET LonelyPoints(space), c \in ClosestNeighbors(space, p) :
      \E points \in Estimates(space.trips, c) :
        LET s == Evaluated(space, c, points)
            P == UpdateParetoPoints(s.paretoPoints)
        IN  space' = [s EXCEPT !.iter = @ + 1, !.paretoPoints = P,
                               !.inactive = (@ \cup lonely) \cap P]
  BY <1>1
<1>3. PICK points \in Estimates(space.trips, c) :
        LET s == Evaluated(space, c, points)
            P == UpdateParetoPoints(s.paretoPoints)
        IN  space' = [s EXCEPT !.iter = @ + 1, !.paretoPoints = P,
                               !.inactive = (@ \cup lonely) \cap P]
  BY <1>2
<1> DEFINE s == Evaluated(space, c, points)
           P == UpdateParetoPoints(s.paretoPoints)
<1>4. AreEstimates(points)
  <2>1. c \in space.unestimated
    BY DEF ClosestNeighbors, Neighbors
  <2> QED
    BY <2>1, EstimatedIterNum, PointsAreEstimates
<1>5. /\ SpaceOK(s)
      /\ Affordable(s.allPoints) = Affordable(space.allPoints) \cup Affordable(points)
      /\ s.paretoPoints = space.paretoPoints \cup Affordable(points)
      /\ s.inactive = space.inactive
      /\ s.trips = space.trips /\ s.unestimated \subseteq space.unestimated
  <2>1. s.trips = space.trips /\ s.unestimated \subseteq space.unestimated
    BY DEF Evaluated, SpaceOK, Fields
  <2> QED
    BY <1>4, <2>1, EvaluatedOK
<1>6. space' = [s EXCEPT !.iter = @ + 1, !.paretoPoints = P,
                         !.inactive = (@ \cup lonely) \cap P]
  BY <1>3
<1>7. P = UpdateParetoPoints(Affordable(s.allPoints))
  <2>1. space.paretoPoints = UpdateParetoPoints(Affordable(space.allPoints))
    BY DEF IsFrontier
  <2>2. AreEstimates(Affordable(space.allPoints)) /\ AreEstimates(Affordable(points))
    BY <1>4 DEF SpaceOK, AreEstimates, Affordable
  <2>3. UpdateParetoPoints(space.paretoPoints \cup Affordable(points))
        = UpdateParetoPoints(Affordable(space.allPoints) \cup Affordable(points))
    BY <2>1, <2>2, PruningInSteps
  <2> QED
    BY <1>5, <2>3
<1>8. \A q \in lonely : Neighbors(s, q) = {}
  <2>1. \A q \in lonely : Neighbors(space, q) = {}
    BY DEF LonelyPoints
  <2> HIDE DEF s
  <2>2. \A q \in lonely : Neighbors(s, q) \subseteq Neighbors(space, q)
    BY <1>5, NeighborsShrink
  <2> QED
    BY <2>1, <2>2
<1> HIDE DEF s, P
<1>9. /\ Fields \subseteq DOMAIN space' /\ space'.trips = s.trips
      /\ space'.unestimated = s.unestimated /\ space'.allPoints = s.allPoints
      /\ space'.iter = s.iter + 1 /\ space'.paretoPoints = P
      /\ space'.inactive \subseteq s.inactive \cup lonely
  BY <1>5, <1>6 DEF SpaceOK, Fields
<1>10. \A q : Neighbors(space', q) \subseteq Neighbors(s, q)
  BY <1>9, NeighborsShrink
<1>11. SpaceOK(space')
  BY <1>5, <1>8, <1>9, <1>10 DEF SpaceOK
<1> QED
  BY <1>7, <1>9, <1>11 DEF IsFrontier

\* A band that is done: out of iterations, or out of neighbors.
LEMMA EndsExplored ==
    ASSUME SpaceOK(space), ExploreEnds
    PROVE  IsExplored(space)
BY DEF SpaceOK, ExploreEnds, IsExplored, ActivePoints, LonelyPoints

-----------------------------------------------------------------------------
(* Combination *)

\* What a combination costs.
LEMMA AnnotatedIsEstimate ==
    ASSUME NEW f, IsEstimate(f), NEW p, IsEstimate(p), NEW times \in Nat
    PROVE  LET g == Annotated(f, p, times)
           IN  /\ IsEstimate(g)
               /\ g.latency = f.latency + times * p.latency
               /\ g.dspNum = f.dspNum + p.dspNum
<1>1. times * p.latency \in Nat
  BY DEF IsEstimate
<1> QED
  BY <1>1 DEF Annotated, IsEstimate

\* The combinations of points that are faster and smaller are so too.
LEMMA AnnotatedCovers ==
    ASSUME NEW f, IsEstimate(f), NEW p, IsEstimate(p),
           NEW g, IsEstimate(g), NEW q, IsEstimate(q), NEW times \in Nat,
           Covers(g, f), Covers(q, p)
    PROVE  Covers(Annotated(g, q, times), Annotated(f, p, times))
<1>1. times * q.latency <= times * p.latency
      /\ times * q.latency \in Nat /\ times * p.latency \in Nat
  <2>1. q.latency \in Nat /\ p.latency \in Nat /\ q.latency <= p.latency
    BY DEF IsEstimate, Covers
  <2>2. \A x, y, z \in Nat : x <= y => z * x <= z * y
    OBVIOUS
  <2>3. \A x, y \in Nat : x * y \in Nat
    OBVIOUS
  <2> QED
    BY <2>1, <2>2, <2>3
<1> DEFINE a == Annotated(f, p, times)
           b == Annotated(g, q, times)
<1>2. /\ a.latency = f.latency + times * p.latency /\ a.dspNum = f.dspNum + p.dspNum
      /\ b.latency = g.latency + times * q.latency /\ b.dspNum = g.dspNum + q.dspNum
  BY AnnotatedIsEstimate
<1> HIDE DEF a, b
<1>3. b.latency <= a.latency
  BY <1>1, <1>2 DEF Covers, IsEstimate
<1>4. b.dspNum <= a.dspNum
  BY <1>2 DEF Covers, IsEstimate
<1> QED
  BY <1>3, <1>4 DEF a, b, Covers

\* Each combination with a point of the band is covered by one of the pruned
\* function points with a point of the pruned band.
LEMMA CombineKeepsInv ==
    ASSUME FuncInv, NEW s, SpaceOK(s), IsFrontier(s), NEW times \in Nat,
           NEW F, F = UpdateParetoPoints(Combined(funcPoints, s.paretoPoints, times)),
           NEW C, C = Combined(combinations, s.allPoints, times)
    PROVE  /\ AreEstimates(C) /\ F \subseteq C
           /\ \A c \in Affordable(C) : \E f \in F : Covers(f, c)
<1> DEFINE new == Combined(funcPoints, s.paretoPoints, times)
<1>1. /\ AreEstimates(combinations) /\ funcPoints \subseteq combinations
      /\ AreEstimates(s.allPoints)
      /\ \A c \in Affordable(combinations) : \E f \in funcPoints : Covers(f, c)
  BY DEF FuncInv, SpaceOK, CombinationsCovered, Covers
<1>2. AreEstimates(C)
  BY <1>1, AnnotatedIsEstimate DEF AreEstimates, Combined
<1>3. s.paretoPoints \subseteq s.allPoints
  BY DEF IsFrontier, UpdateParetoPoints, Affordable
<1>4. new \subseteq C
  BY <1>1, <1>3 DEF Combined
<1>5. F \subseteq new /\ AreEstimates(new)
  BY <1>2, <1>4 DEF UpdateParetoPoints, AreEstimates
<1>6. ASSUME NEW c \in Affordable(C)
      PROVE  \E f \in F : Covers(f, c)
  <2>1. PICK f \in combinations, p \in s.allPoints : c = Annotated(f, p, times)
    BY DEF Affordable, Combined
  <2>2. IsEstimate(f) /\ IsEstimate(p)
    BY <1>1 DEF AreEstimates
  <2>3. f \in Affordable(combinations) /\ p \in Affordable(s.allPoints)
    <3>1. c.dspNum = f.dspNum + p.dspNum /\ c.dspNum <= MaxDspNum
      BY <2>1, <2>2, AnnotatedIsEstimate DEF Affordable
    <3>2. f.dspNum <= MaxDspNum /\ p.dspNum <= MaxDspNum
      BY <2>2, <3>1, SpaceAssumption DEF IsEstimate
    <3> QED
      BY <3>2 DEF Affordable
  <2>4. PICK g \in funcPoints : Covers(g, f)
    BY <1>1, <2>3
  <2>5. PICK q \in s.paretoPoints : Covers(q, p)
    <3>1. AreEstimates(Affordable(s.allPoints))
      BY <1>1 DEF AreEstimates, Affordable
    <3> QED
      BY <2>3, <3>1, PruningCovers DEF IsFrontier
  <2>6. IsEstimate(g) /\ IsEstimate(q)
    BY <1>1, <1>3 DEF AreEstimates
  <2> DEFINE d == Annotated(g, q, times)
  <2>7. d \in new /\ Covers(d, c)
    BY <2>1, <2>2, <2>4, <2>5, <2>6, AnnotatedCovers DEF Combined
  <2> HIDE DEF d
  <2>8. PICK e \in F : Covers(e, d)
    BY <1>5, <2>7, PruningCovers
  <2>9. IsEstimate(e) /\ IsEstimate(d) /\ IsEstimate(c)
    BY <1>2, <1>5, <2>7 DEF AreEstimates, Affordable
  <2> QED
    BY <2>7, <2>8, <2>9 DEF Covers, IsEstimate
<1> QED
  BY <1>2, <1>4, <1>5, <1>6

\* The first point that fits, of the function points sorted by latency, is the
\* fastest combination that fits.
LEMMA BestIsBest ==
    ASSUME FuncInv
    PROVE  /\ Affordable(combinations) = {} => Best(funcPoints) = {}
           /\ Affordable(combinations) # {} => Best(funcPoints) # {}
           /\ \A f \in Best(funcPoints) :
                 /\ f \in Affordable(combinations)
                 /\ \A c \in Affordable(combinations) : f.latency <= c.latency
<1>1. /\ AreEstimates(combinations) /\ funcPoints \subseteq combinations
      /\ \A c \in Affordable(combinations) : \E f \in funcPoints : Covers(f, c)
  BY DEF FuncInv, CombinationsCovered, Covers
<1>2. Affordable(funcPoints) \subseteq Affordable(combinations)
  BY <1>1 DEF Affordable
<1>3. \A c \in Affordable(combinations) : \E f \in Affordable(funcPoints) : Covers(f, c)
  <2> TAKE c \in Affordable(combinations)
  <2>1. PICK f \in funcPoints : Covers(f, c)
    BY <1>1
  <2>2. IsEstimate(f) /\ IsEstimate(c) /\ c.dspNum <= MaxDspNum
    BY <1>1 DEF AreEstimates, Affordable
  <2>3. f.dspNum <= MaxDspNum
    BY <2>1, <2>2, SpaceAssumption DEF Covers, IsEstimate
  <2> QED
    BY <2>1, <2>3 DEF Affordable
<1>4. AreEstimates(Affordable(funcPoints)) /\ AreEstimates(Affordable(combinations))
  BY <1>1, <1>2 DEF AreEstimates, Affordable
<1>5. ASSUME NEW f \in Best(funcPoints), NEW c \in Affordable(combinations)
      PROVE  f.latency <= c.latency
  <2>1. PICK g \in Affordable(funcPoints) : Covers(g, c)
    BY <1>3
  <2>2. f \in Affordable(funcPoints) /\ f.latency <= g.latency
    BY DEF Best
  <2> QED
    BY <1>4, <2>1, <2>2 DEF AreEstimates, IsEstimate, Covers
<1>6. Affordable(combinations) # {} => Best(funcPoints) # {}
  <2> SUFFICES ASSUME Affordable(combinations) # {}
               PROVE  Best(funcPoints) # {}
    OBVIOUS
  <2>1. Affordable(funcPoints) # {}
    BY <1>3
  <2>2. PICK f \in Affordable(funcPoints) :
          \A g \in Affordable(funcPoints) : f.latency <= g.latency
    BY <1>4, <2>1, FastestPoint
  <2> QED
    BY <2>2 DEF Best
<1>7. Best(funcPoints) \subseteq Affordable(combinations)
  BY <1>2 DEF Best
<1> QED
  BY <1>5, <1>6, <1>7

-----------------------------------------------------------------------------
(* The steps *)

\* Stage 1 finds no points.
LEMMA SimplifyKeepsInv ==
    ASSUME ExploreInv, SimplifyLoopNests
    PROVE  ExploreInv'
<1>1. /\ UNCHANGED spaceVars /\ UNCHANGED funcVars
      /\ stage' \in {"simplify", "optimize", "rejected"}
  BY DEF SimplifyLoopNests
<1>2. SpaceInv' /\ LoopSpacesInv'
  BY <1>1 DEF ExploreInv, SpaceInv, LoopSpacesInv, spaceVars
<1>3. FuncInv' /\ AppliedIsBest'
  BY <1>1, FuncUntouched DEF ExploreInv
<1> QED
  BY <1>2, <1>3 DEF ExploreInv

\* Stage 2 begins the first band.
LEMMA OptimizeKeepsInv ==
    ASSUME ExploreInv, OptimizeLoopBands
    PROVE  ExploreInv'
<1>1. /\ UNCHANGED loopSpaces /\ UNCHANGED funcVars
      /\ \/ ExploreBand(1)
         \/ stage' \in {"crashed", "rejected"} /\ UNCHANGED space
  BY DEF OptimizeLoopBands
<1>2. SpaceInv' /\ stage' \notin {"combine", "done"}
  BY <1>1, ExploreBandKeepsInv DEF ExploreInv, SpaceInv
<1>3. LoopSpacesInv'
  BY <1>1, <1>2 DEF ExploreInv, LoopSpacesInv
<1>4. FuncInv' /\ AppliedIsBest'
  BY <1>1, <1>2, FuncUntouched DEF ExploreInv
<1> QED
  BY <1>2, <1>3, <1>4 DEF ExploreInv

\* Until a band is initialized all points that fit are kept; then they are pruned.
LEMMA InitializeKeepsInv ==
    ASSUME ExploreInv, BandsInv, InitializeLoopDesignSpace
    PROVE  ExploreInv'
<1>1. /\ UNCHANGED loopSpaces /\ UNCHANGED funcVars
      /\ stage' \in {"initialize", "explore", "crashed"}
      /\ stage = "initialize"
  BY DEF InitializeLoopDesignSpace
<1>2. IsSpace(space) /\ SpaceOK(space) /\ space.paretoPoints = Affordable(space.allPoints)
  BY <1>1 DEF ExploreInv, SpaceInv, BandsInv
<1>3. ASSUME InitializeStep /\ UNCHANGED stage
      PROVE  SpaceInv'
  BY <1>1, <1>2, <1>3, InitializeStepKeepsInv DEF SpaceInv
<1>4. ASSUME /\ space' = [space EXCEPT !.paretoPoints = UpdateParetoPoints(@)]
             /\ stage' \in {"explore", "crashed"}
      PROVE  SpaceInv'
  <2> DEFINE P == UpdateParetoPoints(space.paretoPoints)
  <2>1. space' = [space EXCEPT !.paretoPoints = P]
    BY <1>4
  <2> HIDE DEF P
  <2>2. SpaceOK(space') /\ space'.paretoPoints = P /\ space'.allPoints = space.allPoints
    BY <1>2, <2>1, StartsExploring
  <2>3. IsFrontier(space')
    BY <1>2, <2>2 DEF P, IsFrontier
  <2> QED
    BY <1>4, <2>2, <2>3 DEF SpaceInv
<1>5. SpaceInv'
  BY <1>3, <1>4 DEF InitializeLoopDesignSpace
<1>6. LoopSpacesInv'
  BY <1>1 DEF ExploreInv, LoopSpacesInv
<1>7. FuncInv' /\ AppliedIsBest'
  BY <1>1, FuncUntouched DEF ExploreInv
<1> QED
  BY <1>5, <1>6, <1>7 DEF ExploreInv

\* A band is explored, or recorded with its frontier.
LEMMA ExploreKeepsInv ==
    ASSUME ExploreInv, BandsInv, ExploreLoopDesignSpace
    PROVE  ExploreInv'
<1>1. stage = "explore" /\ UNCHANGED funcVars
  BY DEF ExploreLoopDesignSpace
<1>2. IsSpace(space) /\ SpaceOK(space) /\ IsFrontier(space)
  BY <1>1 DEF ExploreInv, SpaceInv, BandsInv
<1>3. CASE ExploreStep /\ UNCHANGED <<stage, band, loopSpaces>>
  <2>1. SpaceInv'
    BY <1>1, <1>2, <1>3, ExploreStepKeepsInv DEF SpaceInv
  <2>2. LoopSpacesInv'
    BY <1>1, <1>3 DEF ExploreInv, LoopSpacesInv
  <2>3. FuncInv' /\ AppliedIsBest'
    BY <1>1, <1>3, FuncUntouched DEF ExploreInv
  <2> QED
    BY <2>1, <2>2, <2>3 DEF ExploreInv
<1>4. CASE /\ ExploreEnds
           /\ loopSpaces' = Append(loopSpaces, space)
           /\ \/ ExploreBand(band + 1)
              \/ stage' = "combine" /\ band' = 1 /\ UNCHANGED space
  <2>1. IsExplored(space)
    BY <1>2, <1>4, EndsExplored
  <2>2. PICK S : loopSpaces \in Seq(S)
    BY DEF ExploreInv, LoopSpacesInv
  <2>3. loopSpaces \in Seq(S \cup {space})
    BY <2>2
  <2>4. /\ loopSpaces' \in Seq(S \cup {space})
        /\ Len(loopSpaces') = Len(loopSpaces) + 1 /\ Len(loopSpaces) \in Nat
        /\ \A i \in 1..Len(loopSpaces) : loopSpaces'[i] = loopSpaces[i]
        /\ loopSpaces'[Len(loopSpaces) + 1] = space
    BY <1>4, <2>3
  <2>5. SpaceInv' /\ stage' # "done"
    BY <1>2, <1>4, ExploreBandKeepsInv DEF SpaceInv
  <2>6. \A i \in 1..Len(loopSpaces') :
          SpaceOK(loopSpaces'[i]) /\ IsFrontier(loopSpaces'[i]) /\ IsExplored(loopSpaces'[i])
    <3> TAKE i \in 1..Len(loopSpaces')
    <3>1. CASE i \in 1..Len(loopSpaces)
      BY <2>4, <3>1 DEF ExploreInv, LoopSpacesInv
    <3>2. CASE i = Len(loopSpaces) + 1
      BY <1>2, <2>1, <2>4, <3>2
    <3> QED
      BY <2>4, <3>1, <3>2
  <2>7. stage' = "combine" => band' \in 1..Len(loopSpaces')
    BY <1>4, <2>4, ExploreBandKeepsInv
  <2>8. LoopSpacesInv'
    BY <2>4, <2>6, <2>7 DEF LoopSpacesInv
  <2>9. FuncInv' /\ AppliedIsBest'
    BY <1>1, <2>5, FuncUntouched DEF ExploreInv
  <2> QED
    BY <2>5, <2>8, <2>9 DEF ExploreInv
<1> QED
  BY <1>3, <1>4 DEF ExploreLoopDesignSpace

\* One more band is combined.
LEMMA CombKeepsInv ==
    ASSUME ExploreInv, NestInv, BandsInv, CombLoopDesignSpaces
    PROVE  ExploreInv'
<1> DEFINE times == TimesRun(forest, Head(Bands[band]))
           s     == loopSpaces[band]
<1>1. /\ stage = "combine"
      /\ funcPoints' = UpdateParetoPoints(Combined(funcPoints, s.paretoPoints, times))
      /\ combinations' = Combined(combinations, s.allPoints, times)
      /\ stage' \in {"crashed", "apply", "combine"}
      /\ stage' = "combine" => band # Len(loopSpaces)
      /\ band' = IF band < Len(loopSpaces) THEN band + 1 ELSE band
      /\ UNCHANGED <<space, loopSpaces>>
  BY DEF CombLoopDesignSpaces
<1>2. band \in 1..Len(loopSpaces) /\ Len(loopSpaces) \in Nat
  BY <1>1 DEF ExploreInv, LoopSpacesInv
<1>3. SpaceOK(s) /\ IsFrontier(s)
  BY <1>2 DEF ExploreInv, LoopSpacesInv
<1> HIDE DEF times, s
<1>4. SpaceInv'
  BY <1>1 DEF ExploreInv, SpaceInv
<1>5. LoopSpacesInv'
  <2>1. stage' = "combine" => band' \in 1..Len(loopSpaces)
    BY <1>1, <1>2
  <2> QED
    BY <1>1, <2>1 DEF ExploreInv, LoopSpacesInv
<1>6. FuncInv'
  <2>1. /\ AreEstimates(combinations') /\ funcPoints' \subseteq combinations'
        /\ \A c \in Affordable(combinations') : \E f \in funcPoints' : Covers(f, c)
    <3>1. FuncInv
      BY DEF ExploreInv
    <3> DEFINE F == UpdateParetoPoints(Combined(funcPoints, s.paretoPoints, times))
               C == Combined(combinations, s.allPoints, times)
    <3>2. funcPoints' = F /\ combinations' = C
      BY <1>1
    <3>3. times \in Nat
      BY <1>1, TimesOfBand DEF times
    <3>4. /\ F = UpdateParetoPoints(Combined(funcPoints, s.paretoPoints, times))
          /\ C = Combined(combinations, s.allPoints, times)
      OBVIOUS
    <3> HIDE DEF F, C
    <3>5. /\ AreEstimates(C) /\ F \subseteq C
          /\ \A c \in Affordable(C) : \E f \in F : Covers(f, c)
      BY <1>3, <3>1, <3>3, <3>4, CombineKeepsInv
    <3> QED
      BY <3>2, <3>5
  <2> QED
    BY <2>1 DEF FuncInv, CombinationsCovered, Covers
<1>7. AppliedIsBest'
  BY <1>1 DEF AppliedIsBest
<1> QED
  BY <1>4, <1>5, <1>6, <1>7 DEF ExploreInv

\* The best design is applied.
LEMMA ApplyKeepsInv ==
    ASSUME ExploreInv, ApplyBestDesign
    PROVE  ExploreInv'
<1>1. /\ stage' \in {"done", "rejected"}
      /\ UNCHANGED <<spaceVars, funcPoints, combinations>>
      /\ stage' = "done" =>
            applied' \in IF Best(funcPoints) = {} THEN {NoDesign} ELSE Best(funcPoints)
  BY DEF ApplyBestDesign
<1>2. SpaceInv' /\ LoopSpacesInv' /\ FuncInv'
  <2>1. FuncInv'
    BY <1>1 DEF ExploreInv, FuncInv, CombinationsCovered
  <2> QED
    BY <1>1, <2>1 DEF ExploreInv, SpaceInv, LoopSpacesInv, spaceVars
<1>3. AppliedIsBest'
  <2>1. FuncInv
    BY DEF ExploreInv
  <2> QED
    BY <1>1, <2>1, BestIsBest DEF AppliedIsBest
<1> QED
  BY <1>2, <1>3 DEF ExploreInv

\* Whatever a step does, it keeps the invariant.
LEMMA NextKeepsInv == ExploreInv /\ NestInv /\ BandsInv /\ [Next]_vars => ExploreInv'
<1>1. ASSUME ExploreInv, UNCHANGED vars
      PROVE  ExploreInv'
  <2>1. UNCHANGED <<space, band, loopSpaces, funcPoints, applied, combinations, stage>>
    BY <1>1 DEF vars, spaceVars, funcVars
  <2>2. SpaceInv' /\ LoopSpacesInv'
    BY <1>1, <2>1 DEF ExploreInv, SpaceInv, LoopSpacesInv
  <2>3. FuncInv' /\ AppliedIsBest'
    BY <1>1, <2>1 DEF ExploreInv, FuncInv, CombinationsCovered, AppliedIsBest
  <2> QED
    BY <2>2, <2>3 DEF ExploreInv
<1> QED
  BY <1>1, SimplifyKeepsInv, OptimizeKeepsInv, InitializeKeepsInv, ExploreKeepsInv,
     CombKeepsInv, ApplyKeepsInv DEF Next

\* So it holds in every state.
LEMMA Invariance == Spec => []ExploreInv
BY InitInv, NextKeepsInv, NestInvariance, BandsInvariance, PTL DEF Spec

-----------------------------------------------------------------------------
(* What the invariant says *)

\* Adding the points of one config at a time and pruning after each iteration
\* leaves the Pareto frontier of all points found so far that fit, whatever the
\* estimator answers and in whatever order the configs are picked.
THEOREM FrontierIsKept == Spec => []ParetoPointsAreFrontier
<1>1. ExploreInv => ParetoPointsAreFrontier
  <2> SUFFICES ASSUME ExploreInv, stage = "explore"
               PROVE  LET found == {p \in space.allPoints : p.dspNum <= MaxDspNum}
                      IN  space.paretoPoints = {p \in found : \A q \in found : ~Dominates(q, p)}
    BY DEF ParetoPointsAreFrontier
  <2>1. AreEstimates(Affordable(space.allPoints))
        /\ space.paretoPoints = UpdateParetoPoints(Affordable(space.allPoints))
    BY DEF ExploreInv, SpaceInv, SpaceOK, AreEstimates, Affordable, IsFrontier
  <2> QED
    BY <2>1, PruningIsFrontier DEF Affordable
<1> QED
  BY <1>1, Invariance, PTL

\* A band that is given up before its iterations ran out has no config left near
\* a point of its frontier, whatever the distances are.
THEOREM NothingNearIsLeft == Spec => []ExploredToTheEnd
<1>1. ExploreInv => ExploredToTheEnd
  <2> SUFFICES ASSUME ExploreInv
               PROVE  ExploredToTheEnd
    OBVIOUS
  <2>1. DOMAIN loopSpaces = 1..Len(loopSpaces)
    BY DEF ExploreInv, LoopSpacesInv
  <2> QED
    BY <2>1 DEF ExploreInv, LoopSpacesInv, IsExplored, ExploredToTheEnd
<1> QED
  BY <1>1, Invariance, PTL

\* No combination of points of the bands that fits is lost: for any number of
\* bands, one that is as fast and as small survives the pruning of each band and
\* of the function.
THEOREM NoCombinationIsLost == Spec => []CombinationsCovered
<1>1. ExploreInv => CombinationsCovered
  BY DEF ExploreInv, FuncInv
<1> QED
  BY <1>1, Invariance, PTL

\* The design that is applied is the fastest of all combinations of points found
\* that fit the DSPs, and none is applied only when none fits.
THEOREM BestDesignIsApplied == Spec => []AppliedIsBest
<1>1. ExploreInv => AppliedIsBest
  BY DEF ExploreInv
<1> QED
  BY <1>1, Invariance, PTL

-----------------------------------------------------------------------------
(* Refinement *)

\* The search starts with the one design of no points.
LEMMA InitRefines == Init => Abstract!Init
BY DEF Init, Abstract!Init, Phase

\* A step that leaves the function points alone and applies no design is a stutter of
\* the search or gives it up.
LEMMA SearchRefines ==
    ASSUME UNCHANGED funcVars, Phase = "searching", Phase' \in {"searching", "givenUp"}
    PROVE  [Abstract!Next]_Abstract!vars
<1>1. combinations' = combinations /\ applied' = applied
  BY DEF funcVars
<1>2. CASE Phase' = "searching"
  BY <1>1, <1>2 DEF Abstract!vars
<1>3. CASE Phase' = "givenUp"
  BY <1>1, <1>3 DEF Abstract!Next, Abstract!GiveUp
<1> QED
  BY <1>2, <1>3

\* A combination costs at least what it was combined from.
LEMMA CombRefines ==
    ASSUME ExploreInv, NestInv, BandsInv, CombLoopDesignSpaces
    PROVE  Abstract!Extend
<1> DEFINE times == TimesRun(forest, Head(Bands[band]))
           s     == loopSpaces[band]
<1>0. times \in Nat
  BY TimesOfBand DEF CombLoopDesignSpaces
<1>1. /\ stage = "combine"
      /\ combinations' = Combined(combinations, s.allPoints, times)
      /\ stage' \in {"crashed", "apply", "combine"}
      /\ applied' = applied
  BY DEF CombLoopDesignSpaces
<1>2. band \in 1..Len(loopSpaces)
  BY <1>1 DEF ExploreInv, LoopSpacesInv
<1>3. AreEstimates(combinations) /\ AreEstimates(s.allPoints)
  BY <1>2 DEF ExploreInv, LoopSpacesInv, FuncInv, SpaceOK
<1> HIDE DEF times, s
<1>4. ASSUME NEW g \in combinations'
      PROVE  \E f \in combinations : f.latency <= g.latency /\ f.dspNum <= g.dspNum
  <2>1. PICK f \in combinations, p \in s.allPoints : g = Annotated(f, p, times)
    BY <1>1 DEF Combined
  <2>2. IsEstimate(f) /\ IsEstimate(p)
    BY <1>3 DEF AreEstimates
  <2>3. g.latency = f.latency + times * p.latency /\ g.dspNum = f.dspNum + p.dspNum
    BY <1>0, <2>1, <2>2, AnnotatedIsEstimate
  <2>4. times * p.latency \in Nat
    BY <1>0, <2>2 DEF IsEstimate
  <2>5. f.latency <= g.latency /\ f.dspNum <= g.dspNum
    BY <2>2, <2>3, <2>4 DEF IsEstimate
  <2> QED
    BY <2>5
<1>5. Phase = "searching" /\ Phase' \in {"searching", "givenUp"}
  BY <1>1 DEF Phase
<1> QED
  BY <1>1, <1>4, <1>5 DEF Abstract!Extend

\* Applying the best design is the choice of the fastest that fits, or gives up.
LEMMA ApplyRefines ==
    ASSUME ExploreInv, ApplyBestDesign
    PROVE  Abstract!Choose \/ Abstract!GiveUp
<1>1. /\ stage = "apply" /\ combinations' = combinations
      /\ \/ /\ stage' = "done"
            /\ applied' \in IF Best(funcPoints) = {} THEN {NoDesign} ELSE Best(funcPoints)
         \/ stage' = "rejected" /\ applied' = applied
  BY DEF ApplyBestDesign
<1>2. CASE stage' = "rejected" /\ applied' = applied
  BY <1>1, <1>2 DEF Phase, Abstract!GiveUp
<1>3. CASE /\ stage' = "done"
           /\ applied' \in IF Best(funcPoints) = {} THEN {NoDesign} ELSE Best(funcPoints)
  <2>1. Abstract!Fitting(combinations) = Affordable(combinations)
    BY DEF Abstract!Fitting, Affordable
  <2>2. FuncInv
    BY DEF ExploreInv
  <2>3. Best(funcPoints) \subseteq Abstract!Fastest(combinations)
    BY <2>1, <2>2, BestIsBest DEF Abstract!Fastest
  <2>4. Best(funcPoints) = {} <=> Abstract!Fitting(combinations) = {}
    BY <2>1, <2>2, BestIsBest
  <2>5. applied' \in IF Abstract!Fitting(combinations) = {} THEN {NoDesign}
                     ELSE Abstract!Fastest(combinations)
    BY <1>3, <2>3, <2>4
  <2>6. Phase = "searching" /\ Phase' = "chosen"
    BY <1>1, <1>3 DEF Phase
  <2> QED
    BY <1>1, <2>5, <2>6 DEF Abstract!Choose
<1> QED
  BY <1>1, <1>2, <1>3

\* Each step is one of the search, or leaves it as it is.
LEMMA NextRefines ==
    ASSUME ExploreInv, NestInv, BandsInv, [Next]_vars
    PROVE  [Abstract!Next]_Abstract!vars
<1>1. CASE UNCHANGED vars
  <2>1. UNCHANGED <<stage, combinations, applied>>
    BY <1>1 DEF vars, funcVars
  <2>2. Phase' = Phase
    BY <2>1 DEF Phase
  <2> QED
    BY <2>1, <2>2 DEF Abstract!vars
<1>2. CASE \/ SimplifyLoopNests \/ OptimizeLoopBands
           \/ InitializeLoopDesignSpace \/ ExploreLoopDesignSpace
  <2>1. UNCHANGED funcVars
    BY <1>2 DEF SimplifyLoopNests, OptimizeLoopBands, InitializeLoopDesignSpace,
                ExploreLoopDesignSpace
  <2>2. stage \in {"simplify", "optimize", "initialize", "explore"}
        /\ stage' \in {"simplify", "optimize", "initialize", "explore", "combine",
                       "rejected", "crashed"}
    BY <1>2 DEF SimplifyLoopNests, OptimizeLoopBands, InitializeLoopDesignSpace,
                ExploreLoopDesignSpace, ExploreBand
  <2>3. Phase = "searching" /\ Phase' \in {"searching", "givenUp"}
    BY <2>2 DEF Phase
  <2> QED
    BY <2>1, <2>3, SearchRefines
<1>3. CASE CombLoopDesignSpaces
  BY <1>3, CombRefines DEF Abstract!Next
<1>4. CASE ApplyBestDesign
  BY <1>4, ApplyRefines DEF Abstract!Next
<1> QED
  BY <1>1, <1>2, <1>3, <1>4 DEF Next

\* The exploration implements the choice of the best of all designs found: every step
\* of it is a step of BestDesign or leaves that as it is.
THEOREM ExplorationImplementsBestDesign == Spec => ImplementsBestDesign
<1>1. ExploreInv /\ NestInv /\ BandsInv /\ [Next]_vars => [Abstract!Next]_Abstract!vars
  BY NextRefines
<1> QED
  BY <1>1, InitRefines, Invariance, NestInvariance, BandsInvariance, PTL DEF Spec, ImplementsBestDesign, Abstract!Spec
-----------------------------------------------------------------------------
(* Types *)

\* A new design space has configs only.
LEMMA NewSpaceTyped ==
    ASSUME NEW trips, NEW directives
    PROVE  SpaceTypeOK(NewSpace(trips, directives))
<1> DEFINE n == ValidTileConfigNum(trips) - 1
           U == {c \in 0..n : /\ Parallelism(trips, c) <= MaxExplParallel
                              /\ directives => ObeysDirectiveOnly(trips, TileList(trips, c))}
           s == NewSpace(trips, directives)
<1>1. U \subseteq Nat
  <2> SUFFICES ASSUME NEW c \in 0..n PROVE c \in Nat
    OBVIOUS
  <2> HIDE DEF n
  <2> QED
    OBVIOUS
<1>2. s = [trips |-> trips, config |-> 0, iter |-> 0, unestimated |-> U,
           allPoints |-> {}, paretoPoints |-> {}, inactive |-> {}]
  BY DEF NewSpace
<1> HIDE DEF U, s
<1>3. s = [trips |-> s.trips, config |-> s.config, iter |-> s.iter,
           unestimated |-> s.unestimated, allPoints |-> s.allPoints,
           paretoPoints |-> s.paretoPoints, inactive |-> s.inactive]
  BY <1>2
<1> QED
  BY <1>1, <1>2, <1>3 DEF SpaceTypeOK, s

\* The points of a config are typed, whatever the estimator answers.
LEMMA PointsTyped ==
    ASSUME NEW trips, NEW config \in Nat, IterNum(trips, config) \in Nat,
           NEW points \in Estimates(trips, config)
    PROVE  points \subseteq Points
<1> SUFFICES ASSUME NEW p \in points PROVE p \in Points
  OBVIOUS
<1>1. p.latency \in Nat /\ p.dspNum \in Nat
  BY PointsAreEstimates DEF AreEstimates, IsEstimate
<1>2. PICK q \in Outcomes : points = PointsOf(trips, config, q)
  BY DEF Estimates
<1>3. q.minII \in Nat \ {0} /\ q.iterLatency \in Nat
  BY SpaceAssumption
<1>4. \E x, y : \E ii \in q.minII..q.iterLatency :
         p = [latency |-> x, dspNum |-> y, tileConfig |-> config, targetII |-> ii]
  BY <1>2 DEF PointsOf
<1> QED
  BY <1>1, <1>3, <1>4 DEF Points

\* evaluateTileConfig adds points to a typed design space.
LEMMA EvaluatedTyped ==
    ASSUME NEW s, SpaceTypeOK(s), NEW c, NEW points, points \subseteq Points
    PROVE  LET t == Evaluated(s, c, points)
           IN  /\ SpaceTypeOK(t) /\ t.iter = s.iter /\ t.inactive = s.inactive
               /\ t.trips = s.trips /\ t.unestimated = s.unestimated \ {c}
<1> DEFINE t == Evaluated(s, c, points)
           U == s.unestimated \ {c}
           A == s.allPoints \cup points
           P == s.paretoPoints \cup {p \in points : p.dspNum <= MaxDspNum}
<1>1. t = [s EXCEPT !.unestimated = U, !.allPoints = A, !.paretoPoints = P]
  BY DEF Evaluated
<1>2. U \subseteq s.unestimated /\ A \subseteq Points /\ s.paretoPoints \subseteq P /\ P \subseteq A
  BY DEF SpaceTypeOK
<1> HIDE DEF t, U, A, P
<1>3. t = [trips |-> s.trips, config |-> s.config, iter |-> s.iter, unestimated |-> U,
           allPoints |-> A, paretoPoints |-> P, inactive |-> s.inactive]
  BY <1>1 DEF SpaceTypeOK
<1>4. t = [trips |-> t.trips, config |-> t.config, iter |-> t.iter,
           unestimated |-> t.unestimated, allPoints |-> t.allPoints,
           paretoPoints |-> t.paretoPoints, inactive |-> t.inactive]
  BY <1>3
<1>5. SpaceTypeOK(t)
  BY <1>2, <1>3, <1>4 DEF SpaceTypeOK
<1> QED
  BY <1>3, <1>5 DEF t, U

\* Another config, or another frontier, keeps the type.
LEMMA ConfigTyped ==
    ASSUME NEW s, SpaceTypeOK(s), NEW n \in Nat
    PROVE  SpaceTypeOK([s EXCEPT !.config = n])
<1> DEFINE t == [s EXCEPT !.config = n]
<1>1. t = [trips |-> s.trips, config |-> n, iter |-> s.iter,
           unestimated |-> s.unestimated, allPoints |-> s.allPoints,
           paretoPoints |-> s.paretoPoints, inactive |-> s.inactive]
  BY DEF SpaceTypeOK
<1> HIDE DEF t
<1>2. t = [trips |-> t.trips, config |-> t.config, iter |-> t.iter,
           unestimated |-> t.unestimated, allPoints |-> t.allPoints,
           paretoPoints |-> t.paretoPoints, inactive |-> t.inactive]
  BY <1>1
<1> QED
  BY <1>1, <1>2 DEF SpaceTypeOK, t

\* updateParetoPoints and the points found inactive keep it, too.
LEMMA FrontierTyped ==
    ASSUME NEW s, SpaceTypeOK(s), NEW n \in Nat, NEW P \in SUBSET s.paretoPoints,
           NEW I \in SUBSET P,
           NEW t, t = [s EXCEPT !.iter = n, !.paretoPoints = P, !.inactive = I]
    PROVE  SpaceTypeOK(t)
<1>1. t = [trips |-> s.trips, config |-> s.config, iter |-> n,
           unestimated |-> s.unestimated, allPoints |-> s.allPoints,
           paretoPoints |-> P, inactive |-> I]
  BY DEF SpaceTypeOK
<1>2. t = [trips |-> t.trips, config |-> t.config, iter |-> t.iter,
           unestimated |-> t.unestimated, allPoints |-> t.allPoints,
           paretoPoints |-> t.paretoPoints, inactive |-> t.inactive]
  BY <1>1
<1> QED
  BY <1>1, <1>2 DEF SpaceTypeOK

\* A turn of initializeLoopDesignSpace.
LEMMA InitializeStepTyped ==
    ASSUME IsSpace(space), SpaceTypeOK(space), InitializeStep
    PROVE  SpaceTypeOK(space')
<1> DEFINE c == space.config
<1>1. c \in Nat /\ c + 1 \in Nat
  BY DEF SpaceTypeOK
<1>2. CASE space' = [space EXCEPT !.config = c + 1]
  BY <1>1, <1>2, ConfigTyped
<1>3. CASE /\ c \in space.unestimated
           /\ \E points \in Estimates(space.trips, c) :
                 space' = [Evaluated(space, c, points) EXCEPT !.config = c + 1]
  <2>1. PICK points \in Estimates(space.trips, c) :
          space' = [Evaluated(space, c, points) EXCEPT !.config = c + 1]
    BY <1>3
  <2>2. SpaceTypeOK(Evaluated(space, c, points))
    BY <1>1, <1>3, EstimatedIterNum, PointsTyped, EvaluatedTyped
  <2> QED
    BY <1>1, <2>1, <2>2, ConfigTyped
<1> QED
  BY <1>2, <1>3 DEF InitializeStep

\* A turn of exploreLoopDesignSpace.
LEMMA ExploreStepTyped ==
    ASSUME IsSpace(space), SpaceTypeOK(space), ExploreStep
    PROVE  SpaceTypeOK(space')
<1>1. PICK p \in ActivePoints(space) \ LonelyPoints(space) :
      \E lonely \in SUBSET LonelyPoints(space), c \in ClosestNeighbors(space, p) :
      \E points \in Estimates(space.trips, c) :
        LET s == Evaluated(space, c, points)
            P == UpdateParetoPoints(s.paretoPoints)
        IN  space' = [s EXCEPT !.iter = @ + 1, !.paretoPoints = P,
                               !.inactive = (@ \cup lonely) \cap P]
  BY DEF ExploreStep
<1>2. PICK lonely \in SUBSET LonelyPoints(space), c \in ClosestNeighbors(space, p) :
      \E points \in Estimates(space.trips, c) :
        LET s == Evaluated(space, c, points)
            P == UpdateParetoPoints(s.paretoPoints)
        IN  space' = [s EXCEPT !.iter = @ + 1, !.paretoPoints = P,
                               !.inactive = (@ \cup lonely) \cap P]
  BY <1>1
<1>3. PICK points \in Estimates(space.trips, c) :
        LET s == Evaluated(space, c, points)
            P == UpdateParetoPoints(s.paretoPoints)
        IN  space' = [s EXCEPT !.iter = @ + 1, !.paretoPoints = P,
                               !.inactive = (@ \cup lonely) \cap P]
  BY <1>2
<1> DEFINE s == Evaluated(space, c, points)
           P == UpdateParetoPoints(s.paretoPoints)
<1>4. c \in Nat /\ IterNum(space.trips, c) \in Nat
  BY EstimatedIterNum DEF ClosestNeighbors, Neighbors, SpaceTypeOK
<1>5. SpaceTypeOK(s)
  BY <1>4, PointsTyped, EvaluatedTyped
<1>6. P \subseteq s.paretoPoints
  BY DEF UpdateParetoPoints
<1>7. space' = [s EXCEPT !.iter = @ + 1, !.paretoPoints = P,
                         !.inactive = (@ \cup lonely) \cap P]
  BY <1>3
<1>8. s.iter + 1 \in Nat
  BY <1>5 DEF SpaceTypeOK
<1> HIDE DEF s, P
<1> QED
  BY <1>5, <1>6, <1>7, <1>8, FrontierTyped

\* TypeOK, and that no point is inactive before the exploration of its band starts.
TypeInv == TypeOK /\ (stage = "initialize" => space.inactive = {})

SpacesTyped ==
    /\ loopSpaces \in Seq({loopSpaces[i] : i \in DOMAIN loopSpaces})
    /\ \A i \in DOMAIN loopSpaces : SpaceTypeOK(loopSpaces[i])

\* One more design space.
LEMMA AppendTyped ==
    ASSUME SpacesTyped, SpaceTypeOK(space), loopSpaces' = Append(loopSpaces, space)
    PROVE  SpacesTyped'
<1> DEFINE S == {loopSpaces[i] : i \in DOMAIN loopSpaces}
           T == {loopSpaces'[i] : i \in DOMAIN loopSpaces'}
<1>1. loopSpaces \in Seq(S)
  BY DEF SpacesTyped
<1> HIDE DEF S
<1>2. loopSpaces \in Seq(S \cup {space})
  BY <1>1
<1>3. /\ loopSpaces' \in Seq(S \cup {space})
      /\ Len(loopSpaces') = Len(loopSpaces) + 1 /\ Len(loopSpaces) \in Nat
      /\ \A i \in 1..Len(loopSpaces) : loopSpaces'[i] = loopSpaces[i]
      /\ loopSpaces'[Len(loopSpaces) + 1] = space
      /\ DOMAIN loopSpaces = 1..Len(loopSpaces)
      /\ DOMAIN loopSpaces' = 1..(Len(loopSpaces) + 1)
  BY <1>2
<1>4. \A i \in DOMAIN loopSpaces' : loopSpaces'[i] \in T
  OBVIOUS
<1> HIDE DEF T
<1>5. loopSpaces' \in Seq(T)
  BY <1>3, <1>4
<1>6. \A i \in DOMAIN loopSpaces' : SpaceTypeOK(loopSpaces'[i])
  <2> TAKE i \in DOMAIN loopSpaces'
  <2>1. CASE i \in 1..Len(loopSpaces)
    BY <1>3, <2>1 DEF SpacesTyped
  <2>2. CASE i = Len(loopSpaces) + 1
    BY <1>3, <2>2
  <2> QED
    BY <1>3, <2>1, <2>2
<1> QED
  BY <1>5, <1>6 DEF SpacesTyped, T

\* At first there are no points.
LEMMA TypeInit == Init => TypeInv
<1> SUFFICES ASSUME Init PROVE TypeInv
  OBVIOUS
<1>1. space = NewSpace(<<>>, FALSE) /\ loopSpaces = <<>> /\ band = 0 /\ stage = "simplify"
      /\ directiveOnly \in DirectiveOptions /\ fits \in BOOLEAN
  BY DEF Init, NoSpace, SimplifyInit
<1>2. SpaceTypeOK(space)
  BY <1>1, NewSpaceTyped
<1>3. directiveOnly \in BOOLEAN
  BY <1>1, ExploreAssumption
<1>4. \A i \in DOMAIN loopSpaces : SpaceTypeOK(loopSpaces[i])
  BY <1>1
<1>5. loopSpaces \in Seq({loopSpaces[i] : i \in DOMAIN loopSpaces})
  BY <1>1
<1>6. funcPoints \subseteq combinations /\ \A f \in combinations : IsEstimate(f)
  BY InitInv DEF ExploreInv, FuncInv, AreEstimates
<1> QED
  BY <1>1, <1>2, <1>3, <1>4, <1>5, <1>6 DEF TypeInv, TypeOK, Stages

\* A band that is begun has no inactive points.
LEMMA ExploreBandTyped ==
    ASSUME NEW b, ExploreBand(b)
    PROVE  /\ SpaceTypeOK(space') /\ space'.inactive = {}
           /\ stage' \in {"initialize", "crashed"} /\ band' = b
BY NewSpaceTyped DEF ExploreBand, NewSpace

\* A step of initializeLoopDesignSpace makes nothing inactive.
LEMMA InitializeInactive ==
    ASSUME IsSpace(space), SpaceTypeOK(space), InitializeStep
    PROVE  space'.inactive = space.inactive
<1> DEFINE c == space.config
<1>1. CASE space' = [space EXCEPT !.config = c + 1]
  BY <1>1 DEF SpaceTypeOK
<1>2. CASE /\ c \in space.unestimated
           /\ \E points \in Estimates(space.trips, c) :
                 space' = [Evaluated(space, c, points) EXCEPT !.config = c + 1]
  <2>1. PICK points \in Estimates(space.trips, c) :
          space' = [Evaluated(space, c, points) EXCEPT !.config = c + 1]
    BY <1>2
  <2>2. c \in Nat
    BY DEF SpaceTypeOK
  <2> DEFINE t == Evaluated(space, c, points)
  <2>3. SpaceTypeOK(t) /\ t.inactive = space.inactive
    BY <1>2, <2>2, EstimatedIterNum, PointsTyped, EvaluatedTyped
  <2>4. space' = [t EXCEPT !.config = c + 1]
    BY <2>1
  <2> HIDE DEF t
  <2>5. space'.inactive = t.inactive
    BY <2>3, <2>4 DEF SpaceTypeOK
  <2> QED
    BY <2>3, <2>5
<1> QED
  BY <1>1, <1>2 DEF InitializeStep

\* A step keeps the types; those of the designs follow from the invariant above.
LEMMA TypeStep == TypeInv /\ BandsInv /\ ExploreInv' /\ [Next]_vars => TypeInv'
<1> SUFFICES ASSUME TypeInv, BandsInv, ExploreInv', [Next]_vars PROVE TypeInv'
  OBVIOUS
<1>1. /\ stage \in Stages /\ directiveOnly \in BOOLEAN /\ fits \in BOOLEAN
      /\ SpaceTypeOK(space) /\ band \in Nat /\ SpacesTyped
  BY DEF TypeInv, TypeOK, SpacesTyped
<1>2. (funcPoints \subseteq combinations /\ \A f \in combinations : IsEstimate(f))'
  BY DEF ExploreInv, FuncInv, AreEstimates
<1>3. SUFFICES /\ stage' \in Stages /\ directiveOnly' \in BOOLEAN /\ fits' \in BOOLEAN
               /\ SpaceTypeOK(space') /\ band' \in Nat /\ SpacesTyped'
               /\ stage' = "initialize" => space'.inactive = {}
  BY <1>2 DEF TypeInv, TypeOK, SpacesTyped
<1> DEFINE Kept == UNCHANGED <<space, band, loopSpaces>>
<1>4. Kept => SpaceTypeOK(space') /\ band' \in Nat /\ SpacesTyped'
  BY <1>1 DEF SpacesTyped
<1>5. CASE SimplifyLoopNests
  <2>1. /\ Kept /\ UNCHANGED directiveOnly /\ fits' \in BOOLEAN
        /\ stage' \in {"simplify", "optimize", "rejected"}
    BY <1>1, <1>5 DEF SimplifyLoopNests, spaceVars, Simplify, CollectCandidates, TryCandidate, nestVars
  <2> QED
    BY <1>1, <1>4, <2>1 DEF Stages
<1>6. CASE OptimizeLoopBands
  <2>1. /\ UNCHANGED <<directiveOnly, loopSpaces>> /\ fits' \in BOOLEAN
        /\ \/ ExploreBand(1)
           \/ stage' \in {"crashed", "rejected"} /\ UNCHANGED <<space, band>>
    BY <1>6 DEF OptimizeLoopBands
  <2>2. SpacesTyped'
    BY <1>1, <2>1 DEF SpacesTyped
  <2> QED
    BY <1>1, <2>1, <2>2, ExploreBandTyped DEF Stages
<1>7. CASE InitializeLoopDesignSpace
  <2>1. /\ UNCHANGED <<nestVars, band, loopSpaces, directiveOnly>> /\ stage = "initialize"
        /\ \/ InitializeStep /\ UNCHANGED stage
           \/ /\ space' = [space EXCEPT !.paretoPoints = UpdateParetoPoints(@)]
              /\ stage' \in {"explore", "crashed"}
    BY <1>7 DEF InitializeLoopDesignSpace
  <2>2. space.inactive = {}
    BY <2>1 DEF TypeInv
  <2>3. CASE InitializeStep /\ UNCHANGED stage
    <3>1. SpaceTypeOK(space') /\ space'.inactive = {}
      BY <1>1, <2>2, <2>3, InitializeStepTyped, InitializeInactive DEF BandsInv
    <3> QED
      BY <1>1, <2>1, <2>3, <3>1 DEF SpacesTyped, nestVars
  <2>4. CASE /\ space' = [space EXCEPT !.paretoPoints = UpdateParetoPoints(@)]
             /\ stage' \in {"explore", "crashed"}
    <3> DEFINE P == UpdateParetoPoints(space.paretoPoints)
    <3>1. P \subseteq space.paretoPoints
      BY DEF UpdateParetoPoints
    <3>2. space' = [space EXCEPT !.paretoPoints = P]
      BY <2>4
    <3> HIDE DEF P
    <3>3. space' = [space EXCEPT !.iter = space.iter, !.paretoPoints = P, !.inactive = {}]
      BY <1>1, <2>2, <3>2 DEF SpaceTypeOK
    <3>4. SpaceTypeOK(space')
      <4>1. space.iter \in Nat
        BY <1>1 DEF SpaceTypeOK
      <4> QED
        BY <1>1, <3>1, <3>3, <4>1, FrontierTyped
    <3> QED
      BY <1>1, <2>1, <2>4, <3>4 DEF SpacesTyped, nestVars, Stages
  <2> QED
    BY <2>1, <2>3, <2>4
<1>8. CASE ExploreLoopDesignSpace
  <2>1. /\ UNCHANGED <<nestVars, directiveOnly>> /\ stage = "explore"
        /\ \/ ExploreStep /\ UNCHANGED <<stage, band, loopSpaces>>
           \/ /\ loopSpaces' = Append(loopSpaces, space)
              /\ \/ ExploreBand(band + 1)
                 \/ stage' = "combine" /\ band' = 1 /\ UNCHANGED space
    BY <1>8 DEF ExploreLoopDesignSpace
  <2>2. CASE ExploreStep /\ UNCHANGED <<stage, band, loopSpaces>>
    <3>1. SpaceTypeOK(space')
      BY <1>1, <2>2, ExploreStepTyped DEF BandsInv
    <3> QED
      BY <1>1, <2>1, <2>2, <3>1 DEF SpacesTyped, nestVars
  <2>3. CASE /\ loopSpaces' = Append(loopSpaces, space)
             /\ \/ ExploreBand(band + 1)
                \/ stage' = "combine" /\ band' = 1 /\ UNCHANGED space
    <3>1. SpacesTyped'
      BY <1>1, <2>3, AppendTyped
    <3> QED
      BY <1>1, <2>1, <2>3, <3>1, ExploreBandTyped DEF nestVars, Stages
  <2> QED
    BY <2>1, <2>2, <2>3
<1>9. CASE CombLoopDesignSpaces
  <2>1. /\ UNCHANGED <<nestVars, space, loopSpaces, directiveOnly>>
        /\ stage' \in {"crashed", "apply", "combine"}
        /\ band' \in {band, band + 1}
    BY <1>9 DEF CombLoopDesignSpaces
  <2> QED
    BY <1>1, <2>1 DEF SpacesTyped, nestVars, Stages
<1>10. CASE ApplyBestDesign
  <2>1. UNCHANGED <<nestVars, spaceVars, directiveOnly>> /\ stage' \in {"done", "rejected"}
    BY <1>10 DEF ApplyBestDesign
  <2> QED
    BY <1>1, <1>4, <2>1 DEF nestVars, spaceVars, Stages
<1>11. CASE UNCHANGED vars
  <2>1. Kept /\ UNCHANGED <<stage, directiveOnly, fits>>
    BY <1>11 DEF vars, nestVars, spaceVars
  <2> QED
    BY <1>1, <1>4, <2>1 DEF TypeInv
<1> QED
  BY <1>5, <1>6, <1>7, <1>8, <1>9, <1>10, <1>11 DEF Next

\* The design spaces, the points in them and the designs are well formed in every state,
\* for all functions and all answers of the estimator.
THEOREM ExplorationTypes == Spec => []TypeOK
<1>1. TypeInv => TypeOK
  BY DEF TypeInv
<1> QED
  BY <1>1, TypeInit, TypeStep, Invariance, BandsInvariance, PTL DEF Spec

=============================================================================
