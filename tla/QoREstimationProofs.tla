------------------------- MODULE QoREstimationProofs -------------------------
(***************************************************************************)
(* For all functions: the estimated schedule is a placement within the      *)
(* ports of the memories, it stays in order once it is reversed, and the    *)
(* intervals of pipelined loops fit the ports and the carried dependences.  *)
(***************************************************************************)
EXTENDS QoREstimation, NumberLemmas

-----------------------------------------------------------------------------
(* The function *)

\* Ops are numbered from 1 and a parent comes before its children.
LEMMA OpsAreNumbered ==
    ASSUME WellFormed(p)
    PROVE  /\ IsFiniteSet(Ops) /\ Ops = 1..Cardinality(Ops) /\ Cardinality(Ops) \in Nat
           /\ Ops \subseteq Nat /\ 0 \notin Ops
           /\ \A i \in Ops : /\ p.ops[i].parent \in Nat /\ p.ops[i].parent < i
                             /\ p.ops[i].parent \in Loops \cup {0}
           /\ \A i, j \in Ops :
                 p.ops[j].parent < i /\ i < j => p.ops[j].parent <= p.ops[i].parent
<1>1. IsFiniteSet(Ops) /\ Ops = 1..Cardinality(Ops) /\ Cardinality(Ops) \in Nat
  BY FS_CardinalityType DEF WellFormed, Ops
<1>2. \A i \in Ops : p.ops[i].parent \in 0..(i - 1) /\ (p.ops[i].parent # 0 => p.ops[p.ops[i].parent].kind = "loop")
  BY DEF WellFormed, Ops
<1>3. \A i \in Ops : i \in Nat /\ i >= 1 /\ i <= Cardinality(Ops)
  BY <1>1
<1>4. \A i \in Ops : p.ops[i].parent \in Nat /\ p.ops[i].parent < i
  BY <1>2, <1>3
<1>5. \A i \in Ops : p.ops[i].parent \in Ops \cup {0}
  BY <1>1, <1>3, <1>4
<1>6. \A i \in Ops : p.ops[i].parent \in Loops \cup {0}
  BY <1>2, <1>5 DEF Loops
<1>7. \A i, j \in Ops : p.ops[j].parent < i /\ i < j => p.ops[j].parent <= p.ops[i].parent
  BY DEF WellFormed, Ops
<1> QED
  BY <1>1, <1>3, <1>4, <1>6, <1>7

\* The nest of an operation exists: else take the least number up to which there is
\* no such function.
LEMMA NestDefined ==
    ASSUME WellFormed(p)
    PROVE  Nest = [i \in Ops \cup {0} |->
                      IF i = 0 THEN {} ELSE {i} \cup Nest[p.ops[i].parent]]
<1> DEFINE N == Cardinality(Ops)
           IsNest(g, n) == g = [i \in 0..n |-> IF i = 0 THEN {} ELSE {i} \cup g[p.ops[i].parent]]
           Bad == {n \in 0..N : ~\E g : IsNest(g, n)}
<1>1. N \in Nat /\ Ops \cup {0} = 0..N
  BY OpsAreNumbered
<1>2. \A i \in 1..N : p.ops[i].parent \in 0..(i - 1)
  BY OpsAreNumbered
<1> HIDE DEF N
<1>3. ASSUME Bad # {} PROVE FALSE
  <2>0. Bad \in SUBSET Nat
    BY <1>1
  <2> HIDE DEF Bad
  <2>1. PICK n \in Bad : \A k \in Bad : n <= k
    BY <2>0, <1>3, LeastNat
  <2>2. n \in Nat /\ n <= N /\ ~\E g : IsNest(g, n)
    BY <1>1, <2>0, <2>1 DEF Bad
  <2>3. CASE n = 0
    <3>1. IsNest([i \in {0} |-> {}], 0)
      OBVIOUS
    <3> QED
      BY <2>2, <2>3, <3>1
  <2>4. CASE n # 0
    <3>1. n - 1 \in 0..N /\ n - 1 \notin Bad
      <4>1. n - 1 \in 0..N /\ ~(n <= n - 1)
        BY <1>1, <2>2, <2>4
      <4> QED
        BY <2>1, <4>1
    <3>2. PICK g : IsNest(g, n - 1)
      BY <3>1 DEF Bad
    <3> DEFINE h == [i \in 0..n |-> IF i = n THEN {n} \cup g[p.ops[n].parent] ELSE g[i]]
    <3>3. \A i \in 0..(n - 1) : h[i] = g[i]
      BY <2>2
    <3>4. \A i \in 1..n : p.ops[i].parent \in 0..(n - 1)
      <4> TAKE i \in 1..n
      <4>1. i \in 1..N /\ i \in Nat /\ i <= n
        BY <1>1, <2>2
      <4> QED
        BY <1>2, <2>2, <4>1
    <3>5. \A i \in 0..n : h[i] = IF i = 0 THEN {} ELSE {i} \cup h[p.ops[i].parent]
      <4> TAKE i \in 0..n
      <4>1. CASE i = n
        <5>1. h[n] = {n} \cup g[p.ops[n].parent] /\ n \in 1..n
          BY <2>2, <2>4
        <5> QED
          BY <2>4, <3>3, <3>4, <4>1, <5>1
      <4>2. CASE i # n
        <5>1. i \in 0..(n - 1) /\ h[i] = g[i]
          BY <2>2, <4>2
        <5>2. g[i] = IF i = 0 THEN {} ELSE {i} \cup g[p.ops[i].parent]
          BY <3>2, <5>1
        <5>3. i # 0 => i \in 1..n
          BY <5>1
        <5> QED
          BY <3>3, <3>4, <5>1, <5>2, <5>3
      <4> QED
        BY <4>1, <4>2
    <3>6. IsNest(h, n)
      BY <3>5
    <3> QED
      BY <2>2, <3>6
  <2> QED
    BY <2>3, <2>4
<1>4. PICK g : IsNest(g, N)
  <2>1. N \in 0..N
    BY <1>1
  <2> QED
    BY <1>3, <2>1
<1>5. g = [i \in Ops \cup {0} |-> IF i = 0 THEN {} ELSE {i} \cup g[p.ops[i].parent]]
  BY <1>1, <1>4
<1> QED
  BY <1>5 DEF Nest

\* Nests grow with the number of an operation.
LEMMA NestOf ==
    ASSUME WellFormed(p)
    PROVE  /\ Nest[0] = {}
           /\ \A i \in Ops : Nest[i] = {i} \cup Nest[p.ops[i].parent]
BY NestDefined, OpsAreNumbered DEF Loops

\* What holds of an operation when it holds of the loop around it holds of all.
LEMMA NestInduction ==
    ASSUME WellFormed(p), NEW S, \A i \in Ops : p.ops[i].parent \in S \cup {0} => i \in S
    PROVE  Ops \subseteq S
<1> DEFINE T == Ops \ S
<1> SUFFICES ASSUME T # {} PROVE FALSE
  OBVIOUS
<1>1. T \in SUBSET Nat
  BY OpsAreNumbered
<1> HIDE DEF T
<1>2. PICK i \in T : \A j \in T : i <= j
  BY <1>1, LeastNat
<1>3. i \in Ops /\ p.ops[i].parent \notin T
  BY <1>1, <1>2, OpsAreNumbered DEF T
<1>4. p.ops[i].parent \in S \cup {0}
  BY <1>3, OpsAreNumbered DEF T, Loops
<1> QED
  BY <1>2, <1>3, <1>4 DEF T

\* The loops around an op come before it.
LEMMA NestBounds ==
    ASSUME WellFormed(p), NEW i \in Ops \cup {0}
    PROVE  /\ Nest[i] \subseteq Ops
           /\ \A k \in Nest[i] : k <= i /\ (k # i => k \in Loops /\ k \in Nest[p.ops[i].parent])
           /\ i \in Ops => i \in Nest[i]
<1> DEFINE S == {j \in Ops : Nest[j] \subseteq Ops /\ \A k \in Nest[j] : k <= j /\ (k # j => k \in Loops)}
<1>1. ASSUME NEW j \in Ops, p.ops[j].parent \in S \cup {0} PROVE j \in S
  <2>1. p.ops[j].parent \in Nat /\ p.ops[j].parent < j /\ j \in Nat /\ Ops \subseteq Nat
    BY OpsAreNumbered
  <2>2. p.ops[j].parent \in Loops \cup {0}
    BY OpsAreNumbered
  <2>3. Nest[j] = {j} \cup Nest[p.ops[j].parent]
    BY NestOf
  <2>4. Nest[p.ops[j].parent] \subseteq Ops
        /\ \A k \in Nest[p.ops[j].parent] : k <= p.ops[j].parent /\ k \in Loops
    BY <1>1, <2>2, NestOf
  <2>5. ASSUME NEW k \in Nest[p.ops[j].parent] PROVE k <= j
    <3>1. k \in Nat /\ k <= p.ops[j].parent
      BY <2>1, <2>4
    <3> QED
      BY <2>1, <3>1
  <2> QED
    BY <2>1, <2>3, <2>4, <2>5
<1> HIDE DEF S
<1>2. Ops \subseteq S
  BY <1>1, NestInduction
<1>3. CASE i = 0
  BY <1>3, NestOf, OpsAreNumbered
<1>4. CASE i # 0
  BY <1>2, <1>4, NestOf DEF S
<1> QED
  BY <1>3, <1>4

\* The nest of a loop around an operation is part of the nest of the operation.
LEMMA NestIncludes ==
    ASSUME WellFormed(p), NEW i \in Ops \cup {0}, NEW k \in Nest[i]
    PROVE  /\ Nest[k] \subseteq Nest[i]
           /\ p.ops[k].parent \in Nest[i] \cup {0}
<1> DEFINE S == {j \in Ops : \A x \in Nest[j] : Nest[x] \subseteq Nest[j]}
<1>1. ASSUME NEW j \in Ops, p.ops[j].parent \in S \cup {0} PROVE j \in S
  BY <1>1, NestOf
<1> HIDE DEF S
<1>2. Ops \subseteq S
  BY <1>1, NestInduction
<1>3. i \in Ops /\ k \in Ops
  BY NestOf, NestBounds
<1>4. Nest[k] \subseteq Nest[i]
  BY <1>2, <1>3 DEF S
<1>5. p.ops[k].parent \in Loops \cup {0}
  BY <1>3, OpsAreNumbered
<1>6. p.ops[k].parent # 0 => p.ops[k].parent \in Nest[p.ops[k].parent]
  BY <1>5, NestBounds DEF Loops
<1> QED
  BY <1>3, <1>4, <1>6, NestOf

\* Of a block, an operation has one loop around it, and of the function's one.
LEMMA NestOnePerBlock ==
    ASSUME WellFormed(p), NEW i \in Ops, NEW k \in Nest[i], NEW h \in Nest[i],
           p.ops[k].parent = p.ops[h].parent
    PROVE  k = h
<1> DEFINE S == {j \in Ops : \A x, y \in Nest[j] : p.ops[x].parent = p.ops[y].parent => x = y}
<1>1. ASSUME NEW j \in Ops, p.ops[j].parent \in S \cup {0} PROVE j \in S
  <2> DEFINE b == p.ops[j].parent
  <2>1. Nest[j] = {j} \cup Nest[b] /\ b \in Ops \cup {0} /\ b \in Nat
    BY NestOf, OpsAreNumbered DEF Loops
  <2>2. \A x \in Nest[b] : p.ops[x].parent < b
    <3> TAKE x \in Nest[b]
    <3>1. x \in Ops /\ x <= b
      BY <2>1, NestBounds
    <3> QED
      BY <2>1, <3>1, OpsAreNumbered
  <2>3. \A x \in Nest[b] : p.ops[x].parent # p.ops[j].parent
    BY <2>1, <2>2
  <2>4. \A x, y \in Nest[b] : p.ops[x].parent = p.ops[y].parent => x = y
    BY <1>1, NestOf
  <2> QED
    BY <2>1, <2>3, <2>4
<1> HIDE DEF S
<1> QED
  BY <1>1, NestInduction DEF S

\* The outermost of them lies in the function itself.
LEMMA NestHasTop ==
    ASSUME WellFormed(p), NEW i \in Ops
    PROVE  \E k \in Nest[i] : p.ops[k].parent = 0
<1> DEFINE S == {j \in Ops : \E k \in Nest[j] : p.ops[k].parent = 0}
<1>1. ASSUME NEW j \in Ops, p.ops[j].parent \in S \cup {0} PROVE j \in S
  BY <1>1, NestOf
<1> HIDE DEF S
<1> QED
  BY <1>1, NestInduction DEF S

\* Between a loop and an operation in it is one in the loop's block.
LEMMA NestHasChild ==
    ASSUME WellFormed(p), NEW i \in Ops, NEW k \in Nest[i], k # i
    PROVE  \E c \in Nest[i] : p.ops[c].parent = k
<1> DEFINE S == {j \in Ops : \A x \in Nest[j] : x # j => \E c \in Nest[j] : p.ops[c].parent = x}
<1>1. ASSUME NEW j \in Ops, p.ops[j].parent \in S \cup {0} PROVE j \in S
  BY <1>1, NestOf
<1> HIDE DEF S
<1> QED
  BY <1>1, NestInduction DEF S

\* The operations of a loop are numbered in one go.
LEMMA NestIsInterval ==
    ASSUME WellFormed(p), NEW j \in Ops, NEW k \in Nest[j], NEW i \in Ops, k <= i, i <= j
    PROVE  k \in Nest[i]
<1> DEFINE S == {n \in Ops : \A x \in Ops : k \in Nest[x] /\ k <= n /\ n <= x => k \in Nest[n]}
           R(n) == {x \in Ops : k \in Nest[x] /\ k <= n /\ n <= x => k \in Nest[n]}
<1>0. k \in Ops /\ k \in Nat /\ \A x \in Ops : x \in Nat
  BY NestBounds, OpsAreNumbered
<1>1. ASSUME NEW n \in Ops, p.ops[n].parent \in S \cup {0} PROVE n \in S
  <2>1. ASSUME NEW x \in Ops, p.ops[x].parent \in R(n) \cup {0} PROVE x \in R(n)
    <3> SUFFICES ASSUME k \in Nest[x], k <= n, n <= x PROVE k \in Nest[n]
      OBVIOUS
    <3> DEFINE b == p.ops[x].parent
               c == p.ops[n].parent
    <3>1. b \in Nat /\ b < x /\ c \in Nat /\ c < n /\ b \in Ops \cup {0} /\ c \in Ops \cup {0} /\ n \in Nat /\ x \in Nat
      BY OpsAreNumbered DEF Loops
    <3>2. CASE k = n \/ n = x
      BY <1>0, <3>2, NestBounds
    <3>3. CASE k # n /\ n # x
      <4>1. k # x /\ k \in Nest[b] /\ b # 0
        BY <1>0, <3>1, <3>3, NestOf
      <4>2. k <= b
        BY <3>1, <4>1, NestBounds
      <4>3. CASE n <= b
        BY <2>1, <3>1, <4>1, <4>3
      <4>4. CASE b < n
        <5>1. b <= c /\ c # 0
          BY <1>0, <3>1, <3>3, <4>1, <4>2, <4>4, OpsAreNumbered
        <5>2. k <= c /\ c <= x
          BY <1>0, <3>1, <4>2, <5>1
        <5>3. k \in Nest[c]
          BY <1>1, <5>1, <5>2
        <5> QED
          BY <5>3, NestOf
      <4> QED
        BY <3>1, <4>3, <4>4
    <3> QED
      BY <3>2, <3>3
  <2>2. Ops \subseteq R(n)
    <3> DEFINE T == R(n)
    <3> HIDE DEF R
    <3> QED
      BY <2>1, NestInduction
  <2> QED
    BY <2>2
<1> HIDE DEF S
<1>2. Ops \subseteq S
  BY <1>1, NestInduction
<1> QED
  BY <1>2 DEF S

\* A bounded set of integers with a natural number in it has a greatest element.
LEMMA MaxOfBelow ==
    ASSUME NEW S \in SUBSET Int, NEW b \in Nat, \A y \in S : y <= b, NEW a \in S, a \in Nat
    PROVE  /\ MaxOf(S) \in S /\ MaxOf(S) \in Nat /\ MaxOf(S) <= b
           /\ \A y \in S : y <= MaxOf(S)
<1>1. PICK x \in S : x \in Nat /\ \A y \in S : y <= x
  BY GreatestBelow
<1>2. \A y \in S : x >= y
  BY <1>1
<1>3. MaxOf(S) \in S /\ \A y \in S : MaxOf(S) >= y
  BY <1>2 DEF MaxOf
<1>4. MaxOf(S) >= x /\ MaxOf(S) \in Int
  BY <1>3
<1> QED
  BY <1>1, <1>3, <1>4

\* Loops are no accesses, reads are accesses and accesses are leaves.
LEMMA KindsApart == Accesses \cap Loops = {} /\ Reads \subseteq Accesses /\ Accesses \subseteq Leaves
BY DEF Accesses, Reads, Loops, Leaves

\* The op that getSameLevelDstOp returns, around or equal to j, shares a block with one around i.
LEMMA SameLevelIs ==
    ASSUME WellFormed(p), NEW i \in Ops, NEW j \in Ops
    PROVE  /\ SameLevel(i, j) \in Nest[j]
           /\ \E h \in Nest[i] : p.ops[h].parent = p.ops[SameLevel(i, j)].parent
           /\ \A k \in Nest[j], h \in Nest[i] :
                 p.ops[h].parent = p.ops[k].parent => k <= SameLevel(i, j)
<1> DEFINE S == {k \in Nest[j] : \E h \in Nest[i] : p.ops[h].parent = p.ops[k].parent}
<1>1. j \in Nat /\ Nest[j] \subseteq Nat /\ \A k \in S : k <= j
  BY NestBounds, OpsAreNumbered
<1>2. PICK a \in S : TRUE
  <2>1. PICK k \in Nest[j] : p.ops[k].parent = 0
    BY NestHasTop
  <2>2. PICK h \in Nest[i] : p.ops[h].parent = 0
    BY NestHasTop
  <2> QED
    BY <2>1, <2>2
<1>3. S \in SUBSET Int /\ a \in Nat
  BY <1>1, <1>2
<1>4. MaxOf(S) \in S /\ \A y \in S : y <= MaxOf(S)
  BY <1>1, <1>2, <1>3, MaxOfBelow
<1>5. SameLevel(i, j) = MaxOf(S)
  BY DEF SameLevel
<1> QED
  BY <1>4, <1>5

\* What holds a later operation comes after what holds an earlier one.
LEMMA SameLevelFollows ==
    ASSUME WellFormed(p), NEW i \in Ops, NEW j \in Ops, i < j, i \notin Nest[j]
    PROVE  \E h \in Nest[i] : /\ p.ops[h].parent = p.ops[SameLevel(i, j)].parent
                              /\ h < SameLevel(i, j)
<1> DEFINE k == SameLevel(i, j)
<1>1. PICK h \in Nest[i] : p.ops[h].parent = p.ops[k].parent
  BY SameLevelIs
<1>2. k \in Nest[j]
  BY SameLevelIs
<1> HIDE DEF k
<1>3. h \in Ops /\ k \in Ops /\ h <= i /\ k <= j
  BY <1>1, <1>2, NestBounds
<1>4. i \in Nat /\ j \in Nat /\ h \in Nat /\ k \in Nat
  BY <1>3, OpsAreNumbered
<1>5. CASE k = h
  <2>1. k # i /\ k # j
    BY <1>2, <1>3, <1>4, <1>5
  <2>2. PICK c \in Nest[i] : p.ops[c].parent = k
    BY <1>1, <1>5, <2>1, NestHasChild
  <2>3. PICK d \in Nest[j] : p.ops[d].parent = k
    BY <1>2, <2>1, NestHasChild
  <2>4. d <= k
    BY <2>2, <2>3, SameLevelIs DEF k
  <2>5. d \in Ops /\ k < d /\ d \in Nat
    BY <2>3, NestBounds, OpsAreNumbered
  <2> QED
    BY <1>4, <2>4, <2>5
<1>6. CASE k < h
  <2>1. k \in Nest[h] /\ h \in Nest[h]
    BY <1>2, <1>3, <1>4, <1>6, NestIsInterval, NestBounds
  <2>2. k = h
    BY <1>1, <1>3, <2>1, NestOnePerBlock
  <2> QED
    BY <1>4, <1>6, <2>2
<1>7. CASE h < k
  BY <1>1, <1>7 DEF k
<1> QED
  BY <1>4, <1>5, <1>6, <1>7

\* A user of a result comes after the op that defines it.
LEMMA UsersFollow ==
    ASSUME WellFormed(p), NEW i \in Ops, NEW u \in p.ops[i].users
    PROVE  u \in Ops /\ i < u /\ i \notin Nest[u]
<1>1. u \in Ops /\ \E k \in (i + 1)..u : p.ops[k].parent < i
  BY DEF WellFormed, Ops
<1>2. PICK k \in (i + 1)..u : p.ops[k].parent < i
  BY <1>1
<1>3. i \in Nat /\ u \in Nat /\ k \in Nat /\ i < k /\ k <= u /\ k \in Ops
  BY <1>1, <1>2, OpsAreNumbered
<1>4. ASSUME i \in Nest[u] PROVE FALSE
  <2>1. i \in Nest[k]
    BY <1>1, <1>3, <1>4, NestIsInterval
  <2>2. i \in Nest[p.ops[k].parent] /\ p.ops[k].parent \in Ops \cup {0} /\ p.ops[k].parent \in Nat
    BY <1>3, <2>1, NestBounds, OpsAreNumbered DEF Loops
  <2>3. i <= p.ops[k].parent
    BY <2>2, NestBounds
  <2> QED
    BY <1>2, <1>3, <2>2, <2>3
<1> QED
  BY <1>1, <1>3, <1>4

\* What must not start before i ends is an operation that comes after i, or after a
\* loop around it, in the same block.
LEMMA SuccessorsFollow ==
    ASSUME WellFormed(p), NEW i \in Ops, NEW k \in Successors(i)
    PROVE  k \in Ops /\ \E h \in Nest[i] : p.ops[h].parent = p.ops[k].parent /\ h < k
<1>1. PICK j \in Ops : k = SameLevel(i, j) /\ i < j /\ i \notin Nest[j]
  <2>1. CASE \E u \in p.ops[i].users : k = SameLevel(i, u)
    BY <2>1, UsersFollow
  <2>2. CASE \E j \in Accesses : i \in Accesses /\ ProperlyDominates(i, j) /\ k = SameLevel(i, j)
    <3>1. PICK j \in Accesses : i \in Accesses /\ ProperlyDominates(i, j) /\ k = SameLevel(i, j)
      BY <2>2
    <3>2. j \in Ops /\ i < j /\ i \notin Loops /\ i # j
      BY <3>1, KindsApart, OpsAreNumbered DEF ProperlyDominates, Leaves
    <3>3. i \notin Nest[j]
      BY <3>2, NestBounds
    <3> QED
      BY <3>1, <3>2, <3>3
  <2> QED
    BY <2>1, <2>2 DEF Successors
<1>2. k \in Nest[j]
  BY <1>1, SameLevelIs
<1>3. k \in Ops
  BY <1>2, NestBounds
<1> QED
  BY <1>1, <1>3, SameLevelFollows

\* What the problem puts after an operation is one of its successors, or in one, or
\* follows a loop around it.
LEMMA AfterFollows ==
    ASSUME WellFormed(p), NEW i \in Leaves, NEW j \in Leaves, <<i, j>> \in Problem.after
    PROVE  \E k \in Nest[j], h \in Nest[i] :
              /\ p.ops[h].parent = p.ops[k].parent /\ h < k
              /\ h = i => k \in Successors(i)
<1>0. i \in Ops /\ j \in Ops /\ i \notin Loops
  BY DEF Leaves
<1> DEFINE k == SameLevel(i, j)
<1>1. k \in Nest[j]
  BY <1>0, SameLevelIs
<1>2. \/ j \in p.ops[i].users
      \/ i \in Accesses /\ j \in Accesses /\ i < j /\ MayDepend(i, j) /\ DependsOn(i, j)
  BY DEF Problem
<1>3. i < j /\ i \notin Nest[j]
  <2>1. CASE j \in p.ops[i].users
    BY <1>0, <2>1, UsersFollow
  <2>2. CASE i < j
    BY <1>0, <2>2, NestBounds, OpsAreNumbered
  <2> QED
    BY <1>2, <2>1, <2>2
<1>4. PICK h \in Nest[i] : p.ops[h].parent = p.ops[k].parent /\ h < k
  BY <1>0, <1>3, SameLevelFollows
<1>5. ASSUME h = i PROVE k \in Successors(i)
  <2>1. CASE j \in p.ops[i].users
    BY <2>1 DEF Successors
  <2>2. CASE i \in Accesses /\ j \in Accesses /\ i < j /\ MayDepend(i, j) /\ DependsOn(i, j)
    <3>1. p.ops[i].parent \in Nest[j] \cup {0}
      BY <1>0, <1>1, <1>4, <1>5, NestIncludes
    <3>2. ProperlyDominates(i, j)
      BY <2>2, <3>1 DEF ProperlyDominates
    <3> QED
      BY <2>2, <3>2 DEF Successors
  <2> QED
    BY <1>2, <2>1, <2>2
<1> HIDE DEF k
<1> QED
  BY <1>1, <1>4, <1>5

-----------------------------------------------------------------------------
(* The state of the schedule. The loops around the block that is scheduled, *)
(* the block's own included, are open: Nest[block].                         *)

TypeInv ==
    /\ WellFormed(p)
    /\ block \in Loops \cup {0}
    /\ level \in Nat \cup {NoLevel}
    /\ DOMAIN blocks \subseteq Loops \cup {0} /\ {0} \cup Nest[block] \subseteq DOMAIN blocks
    /\ \A b \in DOMAIN blocks :
          blocks[b] \in [begin : Nat, end : Nat] /\ blocks[b].begin <= blocks[b].end
    /\ DOMAIN timing \subseteq Ops
    /\ \A i \in DOMAIN timing : timing[i] \in [begin : Nat, end : Nat]
    /\ DOMAIN loopInfo = DOMAIN timing \cap Loops
    /\ \A l \in DOMAIN loopInfo :
          loopInfo[l] \in [tripCount : Nat \ {0}, iterLatency : Nat, minII : Nat]

\* What follows a scheduled operation or an open loop in its block is scheduled; what
\* is in a scheduled loop is, too.
OrderInv ==
    /\ \A i \in DOMAIN timing \cup Nest[block], k \in Ops :
          p.ops[k].parent = p.ops[i].parent /\ k > i => k \in DOMAIN timing
    /\ \A i \in DOMAIN timing : p.ops[i].parent \in DOMAIN timing \cup Nest[block] \cup {0}
    /\ \A l \in Nest[block] : l \notin DOMAIN timing /\ p.ops[l].trip # 0
    /\ \A l \in DOMAIN loopInfo : p.ops[l].trip # 0 /\ Body(l) \subseteq DOMAIN timing

\* A scheduled loop spans its body, an open block what is scheduled of it. An open loop
\* begins after all that is scheduled around it; a flattened one begins and ends with
\* the loop in it.
BoundsInv ==
    /\ \A l \in DOMAIN loopInfo : \A i \in Body(l) :
          timing[l].begin <= timing[i].begin /\ timing[i].end <= timing[l].end
    /\ \A b \in Nest[block] \cup {0} : \A i \in Body(b) \cap DOMAIN timing :
          blocks[b].begin <= timing[i].begin /\ timing[i].end <= blocks[b].end
    /\ \A l \in Nest[block] : blocks[p.ops[l].parent].end <= blocks[l].begin
    /\ \A l \in Nest[block] : p.ops[l].flatten =>
          /\ l + 1 \in DOMAIN timing =>
                timing[l + 1].begin = blocks[l].begin /\ timing[l + 1].end = blocks[l].end
          /\ l + 1 \notin DOMAIN timing => blocks[l].end = blocks[l].begin
          /\ l + 1 \in Nest[block] => blocks[l + 1].begin = blocks[l].begin

LatencyInv ==
    /\ \A i \in DOMAIN timing :
          timing[i].end = timing[i].begin +
              (IF i \in Loops THEN LoopLatency(i, loopInfo[i]) ELSE Latency(i))
    /\ \A l \in DOMAIN loopInfo :
          p.ops[l].targetII = 0 /\ ~p.ops[l].flatten => loopInfo[l].minII = loopInfo[l].iterLatency

\* Every operation starts after those that must follow it have ended.
SuccessorInv ==
    /\ \A i \in DOMAIN timing : \A j \in Successors(i) :
          p.ops[j].parent = p.ops[i].parent => j \in DOMAIN timing /\ timing[j].end <= timing[i].begin
    /\ \A i \in DOMAIN timing, j \in Leaves :
          i \in Leaves /\ <<i, j>> \in Problem.after =>
              j \in DOMAIN timing /\ timing[j].end <= timing[i].begin

\* The search for ports only goes up from where it started.
LevelInv ==
    level # NoLevel =>
        Scheduling /\ Op \in Accesses /\ ~Memory(Op).single /\ level >= OpBegin(Op)

TimeInv == TypeInv /\ OrderInv /\ BoundsInv /\ LatencyInv /\ SuccessorInv /\ LevelInv

-----------------------------------------------------------------------------
(* Scheduled and open loops *)

\* All of a scheduled loop is scheduled, within its levels.
LEMMA TimedWithin ==
    ASSUME TypeInv, OrderInv, BoundsInv, NEW j \in Ops, NEW l \in Nest[j], l \in DOMAIN timing
    PROVE  /\ j \in DOMAIN timing
           /\ timing[l].begin <= timing[j].begin /\ timing[j].end <= timing[l].end
<1> DEFINE In(k, i) == /\ i \in DOMAIN timing
                       /\ timing[k].begin <= timing[i].begin /\ timing[i].end <= timing[k].end
           S == {i \in Ops : \A k \in Nest[i] : k \in DOMAIN timing => In(k, i)}
<1>0. WellFormed(p) /\ \A i \in DOMAIN timing : timing[i].begin \in Nat /\ timing[i].end \in Nat
  BY DEF TypeInv
<1>1. ASSUME NEW i \in Ops, p.ops[i].parent \in S \cup {0} PROVE i \in S
  <2> SUFFICES ASSUME NEW k \in Nest[i], k \in DOMAIN timing PROVE In(k, i)
    OBVIOUS
  <2> DEFINE b == p.ops[i].parent
  <2>1. CASE k = i
    BY <1>0, <2>1
  <2>2. CASE k # i
    <3>1. k \in Nest[b] /\ b # 0
      BY <1>0, <2>2, NestOf
    <3>2. In(k, b) /\ b \in Loops
      BY <1>0, <1>1, <3>1, OpsAreNumbered
    <3>3. b \in DOMAIN loopInfo /\ i \in Body(b)
      BY <3>2 DEF TypeInv, Body
    <3>4. i \in DOMAIN timing /\ timing[b].begin <= timing[i].begin /\ timing[i].end <= timing[b].end
      BY <3>3 DEF OrderInv, BoundsInv
    <3> QED
      BY <1>0, <3>2, <3>4
  <2> QED
    BY <2>1, <2>2
<1> HIDE DEF S
<1>2. Ops \subseteq S
  BY <1>0, <1>1, NestInduction
<1> QED
  BY <1>2 DEF S

\* Open loops begin after the loops around them.
LEMMA OpenNested ==
    ASSUME TypeInv, BoundsInv, NEW h \in Nest[block]
    PROVE  h \in DOMAIN blocks /\ blocks[h].begin <= blocks[block].begin
<1> DEFINE S == {j \in Ops : j \in Nest[block] => \A k \in Nest[j] : blocks[k].begin <= blocks[j].begin}
<1>0. WellFormed(p) /\ block \in Ops \cup {0}
  BY DEF TypeInv, Loops
<1>4. \A x \in Nest[block] : /\ x \in DOMAIN blocks /\ blocks[x].begin \in Nat
                             /\ blocks[x].end \in Nat /\ blocks[x].begin <= blocks[x].end
  BY DEF TypeInv
<1>1. ASSUME NEW j \in Ops, p.ops[j].parent \in S \cup {0} PROVE j \in S
  <2> SUFFICES ASSUME j \in Nest[block], NEW k \in Nest[j] PROVE blocks[k].begin <= blocks[j].begin
    OBVIOUS
  <2> DEFINE b == p.ops[j].parent
  <2>1. CASE k = j
    BY <1>4, <2>1
  <2>2. CASE k # j
    <3>1. k \in Nest[b] /\ b # 0
      BY <1>0, <2>2, NestOf
    <3>2. b \in Nest[block] /\ k \in Nest[block]
      BY <1>0, <3>1, NestIncludes
    <3>3. blocks[k].begin <= blocks[b].begin
      BY <1>1, <3>1, <3>2
    <3>4. blocks[b].end <= blocks[j].begin
      BY DEF BoundsInv
    <3> QED
      BY <1>4, <3>2, <3>3, <3>4
  <2> QED
    BY <2>1, <2>2
<1> HIDE DEF S
<1>2. Ops \subseteq S
  BY <1>0, <1>1, NestInduction
<1>3. block \in Ops /\ block \in Nest[block]
  BY <1>0, NestOf, NestBounds
<1> QED
  BY <1>2, <1>3, <1>4 DEF S

\* What follows an open loop has ended before the block begins.
LEMMA OuterEnded ==
    ASSUME TypeInv, OrderInv, BoundsInv, NEW h \in Nest[block], NEW k \in Ops,
           p.ops[k].parent = p.ops[h].parent, h < k
    PROVE  /\ k \in DOMAIN timing
           /\ timing[k].end <= blocks[h].begin /\ timing[k].end <= blocks[block].begin
<1> DEFINE b == p.ops[h].parent
<1>0. WellFormed(p) /\ block \in Ops \cup {0}
  BY DEF TypeInv, Loops
<1>1. h \in Ops /\ k \in Nat /\ h \in Nat
  BY <1>0, NestBounds, OpsAreNumbered
<1>2. b \in Nest[block] \cup {0}
  BY <1>0, NestIncludes
<1>3. k \in DOMAIN timing
  BY <1>1 DEF OrderInv
<1>4. timing[k].end <= blocks[b].end /\ blocks[b].end <= blocks[h].begin
  BY <1>2, <1>3 DEF BoundsInv, Body
<1>5. blocks[h].begin <= blocks[block].begin
  BY OpenNested
<1>6. timing[k].end \in Nat /\ blocks[b].end \in Nat /\ blocks[h].begin \in Nat /\ blocks[block].begin \in Nat
  BY <1>0, <1>2, <1>3, NestBounds, NestOf DEF TypeInv
<1> QED
  BY <1>3, <1>4, <1>5, <1>6

-----------------------------------------------------------------------------
(* The operation that is scheduled next *)

\* The op the reverse walk takes is the last one left in its block.
LEMMA OpIsLast ==
    ASSUME TypeInv, Remaining(block) # {}
    PROVE  /\ Op \in Ops /\ p.ops[Op].parent = block /\ Op \notin DOMAIN timing
           /\ \A k \in Ops : p.ops[k].parent = block /\ Op < k => k \in DOMAIN timing
<1> DEFINE S == Remaining(block)
<1>1. WellFormed(p)
  BY DEF TypeInv
<1>2. S \subseteq Ops /\ Ops \in SUBSET Int /\ Ops \subseteq Nat
  BY <1>1, OpsAreNumbered DEF Remaining, Body
<1>3. Cardinality(Ops) \in Nat /\ \A k \in S : k <= Cardinality(Ops)
  <2>1. Ops = 1..Cardinality(Ops) /\ Cardinality(Ops) \in Nat
    BY <1>1, OpsAreNumbered
  <2> QED
    BY <1>2, <2>1
<1>4. PICK a \in S : TRUE
  OBVIOUS
<1> HIDE DEF S
<1>5. MaxOf(S) \in S /\ \A k \in S : k <= MaxOf(S)
  BY <1>2, <1>3, <1>4, MaxOfBelow
<1>6. Op \in S /\ \A k \in S : k <= Op
  BY <1>5 DEF Op, S
<1>7. \A k \in Ops : p.ops[k].parent = block /\ k \notin DOMAIN timing => k \in S
  BY DEF S, Remaining, Body
<1> HIDE DEF Op
<1>8. \A k \in Ops : p.ops[k].parent = block /\ Op < k => k \in DOMAIN timing
  BY <1>2, <1>6, <1>7
<1> QED
  BY <1>6, <1>8 DEF S, Remaining, Body

\* All that must follow it has ended: in its block before the end of the block, around
\* the block before its begin.
LEMMA SuccessorsTimed ==
    ASSUME TypeInv, OrderInv, BoundsInv, Remaining(block) # {}, NEW k \in Successors(Op)
    PROVE  /\ k \in DOMAIN timing /\ timing[k].end \in Nat
           /\ timing[k].end <= blocks[block].end
           /\ p.ops[k].parent # block => timing[k].end <= blocks[block].begin
<1>1. WellFormed(p) /\ Op \in Ops /\ p.ops[Op].parent = block
  BY OpIsLast DEF TypeInv
<1>2. k \in Ops
  BY <1>1, SuccessorsFollow
<1>3. PICK h \in Nest[Op] : p.ops[h].parent = p.ops[k].parent /\ h < k
  BY <1>1, SuccessorsFollow
<1>4. /\ block \in DOMAIN blocks /\ block \in {0} \cup Nest[block]
      /\ blocks[block].begin \in Nat /\ blocks[block].end \in Nat
      /\ blocks[block].begin <= blocks[block].end
  BY <1>1, NestBounds DEF TypeInv, Loops
<1>5. CASE h = Op
  <2>1. k \in DOMAIN timing /\ p.ops[k].parent = block
    BY <1>1, <1>2, <1>3, <1>5, OpIsLast
  <2>2. timing[k].end <= blocks[block].end
    BY <1>2, <1>4, <2>1 DEF BoundsInv, Body
  <2> QED
    BY <2>1, <2>2 DEF TypeInv
<1>6. CASE h # Op
  <2>1. h \in Nest[block]
    BY <1>1, <1>6, NestOf
  <2>2. k \in DOMAIN timing /\ timing[k].end <= blocks[block].begin
    BY <1>2, <1>3, <2>1, OuterEnded
  <2>3. timing[k].end \in Nat
    BY <2>2 DEF TypeInv
  <2> QED
    BY <1>4, <2>2, <2>3
<1> QED
  BY <1>5, <1>6

\* An op begins after all its successors have ended, within the open block.
LEMMA OpBeginIs ==
    ASSUME TypeInv, OrderInv, BoundsInv, Remaining(block) # {}
    PROVE  /\ OpBegin(Op) \in Nat
           /\ blocks[block].begin <= OpBegin(Op) /\ OpBegin(Op) <= blocks[block].end
           /\ Op \in Loops => OpBegin(Op) = blocks[block].end
           /\ \A k \in Successors(Op) : k \in DOMAIN timing /\ timing[k].end <= OpBegin(Op)
<1> DEFINE T == {timing[j].end : j \in Successors(Op) \cap DOMAIN timing}
           L == IF Op \in Loops THEN {blocks[block].end} ELSE {}
           S == {blocks[block].begin} \cup T \cup L
<1>1. /\ blocks[block].begin \in Nat /\ blocks[block].end \in Nat
      /\ blocks[block].begin <= blocks[block].end
  BY OpIsLast, NestBounds DEF TypeInv, Loops
<1>2. \A k \in Successors(Op) :
         k \in DOMAIN timing /\ timing[k].end \in Nat /\ timing[k].end <= blocks[block].end
  BY SuccessorsTimed
<1>3. \A x \in T : x \in Nat /\ x <= blocks[block].end
  BY <1>2
<1>4. S \in SUBSET Int /\ blocks[block].begin \in S /\ \A x \in S : x <= blocks[block].end
  BY <1>1, <1>3
<1>5. OpBegin(Op) = MaxOf(S)
  BY DEF OpBegin
<1>6. \A k \in Successors(Op) : timing[k].end \in S
  BY <1>2
<1>7. Op \in Loops => blocks[block].end \in S
  OBVIOUS
<1> HIDE DEF S
<1>8. /\ MaxOf(S) \in Nat /\ MaxOf(S) <= blocks[block].end
      /\ \A x \in S : x <= MaxOf(S)
  BY <1>1, <1>4, MaxOfBelow
<1>9. Op \in Loops => MaxOf(S) = blocks[block].end
  BY <1>1, <1>7, <1>8
<1> QED
  BY <1>2, <1>4, <1>5, <1>6, <1>8, <1>9

\* The greater of two numbers is no less than either.
LEMMA MaxOfTwo ==
    ASSUME NEW a \in Nat, NEW b \in Nat
    PROVE  MaxOf({a, b}) \in Nat /\ a <= MaxOf({a, b}) /\ b <= MaxOf({a, b})
<1>1. a <= a + b /\ b <= a + b /\ a + b \in Nat
  OBVIOUS
<1> QED
  BY <1>1, MaxOfBelow

-----------------------------------------------------------------------------
(* The function never changes, nor what is computed from it alone. *)

\* What reads the function alone changes only with it,
LEMMA FunctionKept ==
    ASSUME p' = p
    PROVE  /\ Ops' = Ops /\ Loops' = Loops /\ Nest' = Nest /\ Leaves' = Leaves
           /\ Reads' = Reads /\ Accesses' = Accesses
           /\ \A l : Body(l)' = Body(l)
           /\ \A l : Inside(l)' = Inside(l)
           /\ \A i : Memory(i)' = Memory(i) /\ Latency(i)' = Latency(i) /\ Word(i)' = Word(i)
<1>1. Ops' = Ops /\ Loops' = Loops /\ Nest' = Nest /\ Leaves' = Leaves
  BY DEF Ops, Loops, Nest, Leaves
<1>2. Reads' = Reads /\ Accesses' = Accesses
  BY <1>1 DEF Reads, Accesses
<1>3. \A l : Body(l)' = Body(l) /\ Inside(l)' = Inside(l)
  BY <1>1, <1>2 DEF Body, Inside
<1>4. \A i : Memory(i)' = Memory(i) /\ Latency(i)' = Latency(i) /\ Word(i)' = Word(i)
  BY <1>2 DEF Memory, Latency, Word
<1> QED
  BY <1>1, <1>2, <1>3, <1>4

\* and so do the dependences.
LEMMA DependencesKept ==
    ASSUME p' = p
    PROVE  /\ \A i, j : MayDepend(i, j)' = MayDepend(i, j) /\ DependsOn(i, j)' = DependsOn(i, j)
           /\ \A i : Successors(i)' = Successors(i)
           /\ Problem' = Problem
<1>1. \A i, j : MayDepend(i, j)' = MayDepend(i, j)
  BY FunctionKept DEF MayDepend
<1>2. \A i, j : DependsOn(i, j)' = DependsOn(i, j)
  BY DEF DependsOn
<1>3. \A i, j : SameLevel(i, j)' = SameLevel(i, j)
  BY FunctionKept DEF SameLevel
<1>4. \A i, j : ProperlyDominates(i, j)' = ProperlyDominates(i, j)
  BY FunctionKept DEF ProperlyDominates
<1>5. \A i : Successors(i)' = Successors(i)
  BY <1>1, <1>2, <1>3, <1>4, FunctionKept DEF Successors
<1>6. Problem' = Problem
  <2>1. Leaves' = Leaves /\ Reads' = Reads /\ Accesses' = Accesses
    BY FunctionKept
  <2>2. Problem.latency' = Problem.latency /\ Problem.word' = Problem.word
    BY <2>1, FunctionKept DEF Problem
  <2>3. Problem.banks' = Problem.banks
    BY <2>1, FunctionKept DEF Problem
  <2>4. Problem.ports' = Problem.ports
    BY DEF Problem
  <2>5. Problem.after' = Problem.after
    BY <1>1, <1>2, <2>1 DEF Problem
  <2>6. Problem.ops' = Problem.ops /\ Problem.reads' = Problem.reads
    BY <2>1 DEF Problem
  <2>7. Problem = [ops |-> Problem.ops, latency |-> Problem.latency, reads |-> Problem.reads,
                   word |-> Problem.word, banks |-> Problem.banks, ports |-> Problem.ports,
                   after |-> Problem.after]
    BY DEF Problem
  <2>8. Problem' = [ops |-> Problem.ops', latency |-> Problem.latency', reads |-> Problem.reads',
                    word |-> Problem.word', banks |-> Problem.banks', ports |-> Problem.ports',
                    after |-> Problem.after']
    BY DEF Problem
  <2> HIDE DEF Problem
  <2> QED
    BY <2>2, <2>3, <2>4, <2>5, <2>6, <2>7, <2>8
<1> QED
  BY <1>1, <1>2, <1>5, <1>6

-----------------------------------------------------------------------------
(* An access or an operator is scheduled. *)

\* The open block and those around it are loops, each inside the next.
LEMMA OpenBlock ==
    ASSUME TypeInv
    PROVE  /\ block \in {0} \cup Nest[block] /\ Nest[block] \subseteq Loops
           /\ \A l \in Nest[block] :
                 /\ l \in Ops /\ l <= block /\ p.ops[l].parent \in Nest[block] \cup {0}
                 /\ p.ops[l].parent # block /\ p.ops[l].parent \in Nat /\ p.ops[l].parent < l
           /\ \A b \in {0} \cup Nest[block] :
                 /\ b \in DOMAIN blocks /\ blocks[b].begin \in Nat /\ blocks[b].end \in Nat
                 /\ blocks[b].begin <= blocks[b].end
<1>1. WellFormed(p) /\ block \in Ops \cup {0} /\ block \in Loops \cup {0}
  BY DEF TypeInv, Loops
<1>2. block \in {0} \cup Nest[block] /\ Nest[block] \subseteq Loops
  BY <1>1, NestBounds, NestOf
<1>3. ASSUME NEW l \in Nest[block]
      PROVE  /\ l \in Ops /\ l <= block /\ p.ops[l].parent \in Nest[block] \cup {0}
             /\ p.ops[l].parent # block /\ p.ops[l].parent \in Nat /\ p.ops[l].parent < l
  <2>1. l \in Ops /\ l <= block /\ p.ops[l].parent \in Nest[block] \cup {0}
    BY <1>1, NestBounds, NestIncludes
  <2>2. p.ops[l].parent \in Nat /\ p.ops[l].parent < l /\ l \in Nat /\ block \in Nat
    BY <1>1, <2>1, OpsAreNumbered
  <2> QED
    BY <2>1, <2>2
<1>4. \A b \in {0} \cup Nest[block] :
         /\ b \in DOMAIN blocks /\ blocks[b].begin \in Nat /\ blocks[b].end \in Nat
         /\ blocks[b].begin <= blocks[b].end
  BY DEF TypeInv
<1> QED
  BY <1>2, <1>3, <1>4

\* A block ends no earlier than before, nor than what is scheduled in it.
LEMMA EndRaised ==
    ASSUME NEW B, NEW b \in DOMAIN B, B[b] \in [begin : Nat, end : Nat], NEW e \in Nat, NEW C,
           C = [B EXCEPT ![b].end = MaxOf({@, e})]
    PROVE  /\ DOMAIN C = DOMAIN B
           /\ \A c \in DOMAIN B : c # b => C[c] = B[c]
           /\ C[b] \in [begin : Nat, end : Nat] /\ C[b].begin = B[b].begin
           /\ B[b].end <= C[b].end /\ e <= C[b].end /\ C[b].end = MaxOf({B[b].end, e})
<1> DEFINE m == MaxOf({B[b].end, e})
<1>1. m \in Nat /\ B[b].end <= m /\ e <= m
  <2>1. B[b].end \in Nat
    OBVIOUS
  <2> QED
    BY <2>1, MaxOfTwo
<1>2. /\ DOMAIN C = DOMAIN B
      /\ \A c \in DOMAIN B : c # b => C[c] = B[c]
      /\ C[b] = [B[b] EXCEPT !.end = m]
  OBVIOUS
<1> HIDE DEF m
<1>3. C[b] \in [begin : Nat, end : Nat] /\ C[b].begin = B[b].begin /\ C[b].end = m
  BY <1>1, <1>2
<1> QED
  BY <1>1, <1>2, <1>3 DEF m

\* A latency is a natural number.
LEMMA LatencyIsNat == ASSUME WellFormed(p), NEW i \in Ops PROVE Latency(i) \in Nat
BY DEF WellFormed, Ops, Latency

\* An operator or access placed no earlier than its successors allow keeps the time line.
LEMMA PlaceKeeps ==
    ASSUME TimeInv, Remaining(block) # {}, Op \notin Loops, NEW at \in Nat, OpBegin(Op) <= at,
           SetTiming(Op, block, at, Latency(Op)), level' = NoLevel, UNCHANGED <<p, block, loopInfo>>
    PROVE  TimeInv'
<1> DEFINE i == Op
           lat == Latency(Op)
<1>1. TypeInv /\ OrderInv /\ BoundsInv /\ LatencyInv /\ SuccessorInv
  BY DEF TimeInv
<1>2. /\ WellFormed(p) /\ p' = p /\ block' = block /\ loopInfo' = loopInfo
      /\ Ops' = Ops /\ Loops' = Loops /\ Nest' = Nest /\ Leaves' = Leaves
  BY <1>1, FunctionKept DEF TypeInv
<1>3. /\ i \in Ops /\ i \notin Loops /\ p.ops[i].parent = block /\ i \notin DOMAIN timing
      /\ \A k \in Ops : p.ops[k].parent = block /\ i < k => k \in DOMAIN timing
  BY <1>1, OpIsLast
<1>4. lat \in Nat /\ at + lat \in Nat
  BY <1>2, <1>3, LatencyIsNat
<1>5. /\ OpBegin(i) \in Nat /\ blocks[block].begin <= OpBegin(i)
      /\ \A k \in Successors(i) : k \in DOMAIN timing /\ timing[k].end <= OpBegin(i)
  BY <1>1, OpBeginIs
<1>6. /\ block \in {0} \cup Nest[block] /\ Nest[block] \subseteq Loops
      /\ \A b \in {0} \cup Nest[block] :
            /\ b \in DOMAIN blocks /\ blocks[b].begin \in Nat /\ blocks[b].end \in Nat
            /\ blocks[b].begin <= blocks[b].end
  BY <1>1, OpenBlock
<1>7. /\ DOMAIN timing' = DOMAIN timing \cup {i}
      /\ timing'[i] = [begin |-> at, end |-> at + lat]
      /\ \A j \in DOMAIN timing : timing'[j] = timing[j]
      /\ DOMAIN blocks' = DOMAIN blocks
      /\ \A c \in DOMAIN blocks : c # block => blocks'[c] = blocks[c]
      /\ blocks'[block] \in [begin : Nat, end : Nat] /\ blocks'[block].begin = blocks[block].begin
      /\ blocks[block].end <= blocks'[block].end /\ at + lat <= blocks'[block].end
  <2>1. blocks[block] \in [begin : Nat, end : Nat] /\ block \in DOMAIN blocks
    BY <1>1, <1>6 DEF TypeInv
  <2>2. timing' = Insert(timing, i, [begin |-> at, end |-> at + lat])
    BY DEF SetTiming
  <2>3. blocks' = [blocks EXCEPT ![block].end = MaxOf({@, at + lat})]
    BY DEF SetTiming
  <2> HIDE DEF i, lat
  <2>4. /\ DOMAIN timing' = DOMAIN timing \cup {i}
        /\ timing'[i] = [begin |-> at, end |-> at + lat]
        /\ \A j \in DOMAIN timing : timing'[j] = timing[j]
    BY <1>3, <2>2 DEF Insert
  <2>5. /\ DOMAIN blocks' = DOMAIN blocks
        /\ \A c \in DOMAIN blocks : c # block => blocks'[c] = blocks[c]
        /\ blocks'[block] \in [begin : Nat, end : Nat] /\ blocks'[block].begin = blocks[block].begin
        /\ blocks[block].end <= blocks'[block].end /\ at + lat <= blocks'[block].end
    BY <1>4, <2>1, <2>3, EndRaised
  <2> QED
    BY <2>4, <2>5
<1>8. /\ timing'[i] \in [begin : Nat, end : Nat] /\ timing'[i].begin = at
      /\ timing'[i].end = at + lat
  BY <1>4, <1>7
<1>9. \A k \in Successors(i) : k \in DOMAIN timing /\ timing[k].end <= at
  BY <1>1, <1>5 DEF TypeInv
<1> HIDE DEF i, lat
<1>10. TypeInv'
  <2>1. \A b \in DOMAIN blocks' : /\ blocks'[b] \in [begin : Nat, end : Nat]
                                   /\ blocks'[b].begin <= blocks'[b].end
    <3> TAKE b \in DOMAIN blocks'
    <3>1. CASE b = block
      <4>1. blocks'[block].begin \in Nat /\ blocks'[block].end \in Nat
        BY <1>7
      <4>2. blocks'[block].begin <= blocks'[block].end
        <5>1. /\ blocks[block].begin \in Nat /\ blocks[block].end \in Nat
              /\ blocks[block].begin <= blocks[block].end
          BY <1>6
        <5>2. blocks'[block].begin = blocks[block].begin /\ blocks[block].end <= blocks'[block].end
          BY <1>7
        <5> QED
          BY <4>1, <5>1, <5>2
      <4> QED
        BY <1>7, <3>1, <4>2
    <3>2. CASE b # block
      BY <1>1, <1>7, <3>2 DEF TypeInv
    <3> QED
      BY <3>1, <3>2
  <2>2. \A j \in DOMAIN timing' : timing'[j] \in [begin : Nat, end : Nat]
    BY <1>1, <1>7, <1>8 DEF TypeInv
  <2>3. DOMAIN timing' \subseteq Ops /\ DOMAIN loopInfo = DOMAIN timing' \cap Loops
    BY <1>1, <1>3, <1>7 DEF TypeInv
  <2> QED
    BY <1>1, <1>2, <1>7, <2>1, <2>2, <2>3 DEF TypeInv
<1>11. OrderInv'
  <2>1. \A j \in DOMAIN timing' \cup Nest[block], k \in Ops :
           p.ops[k].parent = p.ops[j].parent /\ k > j => k \in DOMAIN timing'
    <3> TAKE j \in DOMAIN timing' \cup Nest[block], k \in Ops
    <3>1. CASE j = i
      BY <1>2, <1>3, <1>7, <3>1, OpsAreNumbered
    <3>2. CASE j # i
      BY <1>1, <1>7, <3>2 DEF OrderInv
    <3> QED
      BY <3>1, <3>2
  <2>2. \A j \in DOMAIN timing' : p.ops[j].parent \in DOMAIN timing' \cup Nest[block] \cup {0}
    BY <1>1, <1>3, <1>6, <1>7 DEF OrderInv
  <2>3. \A l \in Nest[block] : l \notin DOMAIN timing' /\ p.ops[l].trip # 0
    BY <1>1, <1>3, <1>6, <1>7 DEF OrderInv
  <2>4. \A l \in DOMAIN loopInfo : p.ops[l].trip # 0 /\ Body(l) \subseteq DOMAIN timing'
    BY <1>1, <1>7 DEF OrderInv
  <2> QED
    BY <1>2, <2>1, <2>2, <2>3, <2>4, FunctionKept DEF OrderInv
<1>12. BoundsInv'
  <2>1. \A l \in DOMAIN loopInfo : \A j \in Body(l) :
           timing'[l].begin <= timing'[j].begin /\ timing'[j].end <= timing'[l].end
    <3> TAKE l \in DOMAIN loopInfo
    <3> TAKE j \in Body(l)
    <3>1. l \in DOMAIN timing /\ j \in DOMAIN timing
      BY <1>1 DEF TypeInv, OrderInv
    <3> QED
      BY <1>1, <1>7, <3>1 DEF BoundsInv
  <2>2. ASSUME NEW b \in Nest[block] \cup {0}, NEW j \in Body(b) \cap DOMAIN timing'
        PROVE  blocks'[b].begin <= timing'[j].begin /\ timing'[j].end <= blocks'[b].end
    <3>1. CASE j = i
      <4>1. b = block
        BY <1>3, <3>1 DEF Body
      <4> QED
        BY <1>4, <1>5, <1>6, <1>7, <1>8, <3>1, <4>1 DEF i
    <3>2. CASE j # i
      <4>1. /\ j \in DOMAIN timing /\ timing'[j] = timing[j]
            /\ blocks[b].begin <= timing[j].begin /\ timing[j].end <= blocks[b].end
        BY <1>1, <1>7, <3>2 DEF BoundsInv
      <4>2. timing[j].begin \in Nat /\ timing[j].end \in Nat
        BY <1>1, <4>1 DEF TypeInv
      <4>3. CASE b = block
        <5>1. blocks'[b].end \in Nat /\ blocks[b].end \in Nat
          BY <1>6, <1>7, <4>3
        <5>2. blocks[b].end <= blocks'[b].end /\ blocks'[b].begin = blocks[b].begin
          BY <1>7, <4>3
        <5> QED
          BY <4>1, <4>2, <5>1, <5>2
      <4>4. CASE b # block
        BY <1>6, <1>7, <4>1, <4>4
      <4> QED
        BY <4>3, <4>4
    <3> QED
      BY <3>1, <3>2
  <2>3. \A l \in Nest[block] : blocks'[p.ops[l].parent].end <= blocks'[l].begin
    <3> TAKE l \in Nest[block]
    <3>1. p.ops[l].parent \in DOMAIN blocks /\ p.ops[l].parent # block /\ l \in DOMAIN blocks
      BY <1>1, OpenBlock
    <3>2. blocks'[p.ops[l].parent] = blocks[p.ops[l].parent] /\ blocks'[l].begin = blocks[l].begin
      BY <1>7, <3>1
    <3> QED
      BY <1>1, <3>2 DEF BoundsInv
  <2>4. ASSUME NEW l \in Nest[block], p.ops[l].flatten
        PROVE  /\ l + 1 \in DOMAIN timing' =>
                     timing'[l + 1].begin = blocks'[l].begin /\ timing'[l + 1].end = blocks'[l].end
               /\ l + 1 \notin DOMAIN timing' => blocks'[l].end = blocks'[l].begin
               /\ l + 1 \in Nest[block] => blocks'[l + 1].begin = blocks'[l].begin
    <3>1. l \in Loops /\ l \in Ops /\ p.ops[l].trip # 0 /\ l \in DOMAIN blocks
      BY <1>1, <1>6 DEF OrderInv, Loops
    <3>2. l + 1 \in Loops /\ Body(l) = {l + 1}
      BY <1>2, <2>4, <3>1 DEF WellFormed, Ops, Loops, Body
    <3>3. l # block /\ l + 1 # i
      BY <1>3, <3>2 DEF Body
    <3>4. blocks'[l] = blocks[l]
      BY <1>7, <3>1, <3>3
    <3>5. l + 1 \in Nest[block] => blocks'[l + 1].begin = blocks[l + 1].begin
      BY <1>6, <1>7
    <3> QED
      BY <1>1, <1>7, <2>4, <3>3, <3>4, <3>5 DEF BoundsInv
  <2> QED
    BY <1>2, <2>1, <2>2, <2>3, <2>4, FunctionKept DEF BoundsInv
<1>13. LatencyInv'
  <2>1. \A j \in DOMAIN timing' :
          timing'[j].end = timing'[j].begin +
              (IF j \in Loops THEN LoopLatency(j, loopInfo[j]) ELSE Latency(j))
    BY <1>1, <1>3, <1>7, <1>8 DEF LatencyInv, i, lat
  <2>2. \A l : LoopLatency(l, loopInfo[l])' = LoopLatency(l, loopInfo[l]) /\ Latency(l)' = Latency(l)
    BY <1>2, FunctionKept DEF LoopLatency
  <2> QED
    BY <1>1, <1>2, <2>1, <2>2 DEF LatencyInv
<1>14. SuccessorInv'
  <2>1. ASSUME NEW x \in DOMAIN timing', NEW j \in Successors(x), p.ops[j].parent = p.ops[x].parent
        PROVE  j \in DOMAIN timing' /\ timing'[j].end <= timing'[x].begin
    BY <1>1, <1>3, <1>7, <1>8, <1>9, <2>1 DEF SuccessorInv
  <2>2. ASSUME NEW x \in DOMAIN timing', NEW j \in Leaves, x \in Leaves, <<x, j>> \in Problem.after
        PROVE  j \in DOMAIN timing' /\ timing'[j].end <= timing'[x].begin
    <3>1. CASE x # i
      <4>1. j \in DOMAIN timing /\ timing[j].end <= timing[x].begin
        BY <1>1, <1>7, <2>2, <3>1 DEF SuccessorInv
      <4> QED
        BY <1>7, <3>1, <4>1
    <3>2. CASE x = i
      <4>1. PICK k \in Nest[j], h \in Nest[i] :
                   /\ p.ops[h].parent = p.ops[k].parent /\ h < k
                   /\ h = i => k \in Successors(i)
        BY <1>2, <2>2, <3>2, AfterFollows
      <4>2. j \in Ops /\ k \in Ops
        BY <1>2, <4>1, NestBounds DEF Leaves
      <4>3. k \in DOMAIN timing /\ timing[k].end <= at
        <5>1. CASE h = i
          BY <1>9, <4>1, <5>1
        <5>2. CASE h # i
          <6>1. h \in Nest[block]
            BY <1>2, <1>3, <4>1, <5>2, NestOf
          <6>2. k \in DOMAIN timing /\ timing[k].end <= blocks[block].begin
            BY <1>1, <4>1, <4>2, <6>1, OuterEnded
          <6>3. timing[k].end \in Nat
            BY <1>1, <6>2 DEF TypeInv
          <6>4. /\ blocks[block].begin \in Nat /\ OpBegin(i) \in Nat
                /\ blocks[block].begin <= OpBegin(i) /\ OpBegin(i) <= at
            BY <1>5, <1>6 DEF i
          <6> QED
            BY <6>2, <6>3, <6>4
        <5> QED
          BY <5>1, <5>2
      <4>4. j \in DOMAIN timing /\ timing[j].end <= timing[k].end
        BY <1>1, <4>1, <4>2, <4>3, TimedWithin
      <4>5. timing[j].end \in Nat /\ timing[k].end \in Nat
        BY <1>1, <4>3, <4>4 DEF TypeInv
      <4>6. timing'[j] = timing[j] /\ timing'[x].begin = at
        BY <1>7, <1>8, <3>2, <4>4
      <4> QED
        BY <1>7, <4>3, <4>4, <4>5, <4>6
    <3> QED
      BY <3>1, <3>2
  <2> QED
    BY <1>2, <2>1, <2>2, DependencesKept DEF SuccessorInv
<1>15. LevelInv'
  BY DEF LevelInv
<1> QED
  BY <1>10, <1>11, <1>12, <1>13, <1>14, <1>15 DEF TimeInv

-----------------------------------------------------------------------------
(* A loop is entered. *)

\* Entering a loop keeps the time line.
LEMMA EnterKeeps ==
    ASSUME TimeInv, Remaining(block) # {}, Op \in Loops, p.ops[Op].trip # 0, block' = Op,
           blocks' = Insert(blocks, Op, [begin |-> OpBegin(Op), end |-> OpBegin(Op)]),
           UNCHANGED <<p, level, timing, loopInfo>>
    PROVE  TimeInv'
<1> DEFINE i == Op
           at == OpBegin(Op)
<1>1. TypeInv /\ OrderInv /\ BoundsInv /\ LatencyInv /\ SuccessorInv /\ LevelInv
  BY DEF TimeInv
<1>2. /\ WellFormed(p) /\ p' = p /\ timing' = timing /\ loopInfo' = loopInfo /\ block' = i
      /\ Ops' = Ops /\ Loops' = Loops /\ Nest' = Nest /\ Leaves' = Leaves
  BY <1>1, FunctionKept DEF TypeInv
<1>3. /\ i \in Ops /\ i \in Loops /\ p.ops[i].parent = block /\ i \notin DOMAIN timing
      /\ \A k \in Ops : p.ops[k].parent = block /\ i < k => k \in DOMAIN timing
  BY <1>1, OpIsLast
<1>4. at \in Nat /\ at = blocks[block].end
  BY <1>1, OpBeginIs
<1>5. /\ block \in {0} \cup Nest[block] /\ Nest[block] \subseteq Loops
      /\ \A b \in {0} \cup Nest[block] :
            /\ b \in DOMAIN blocks /\ blocks[b].begin \in Nat /\ blocks[b].end \in Nat
            /\ blocks[b].begin <= blocks[b].end
  BY <1>1, OpenBlock
<1>6. /\ DOMAIN blocks' = DOMAIN blocks \cup {i}
      /\ blocks'[i] = [begin |-> at, end |-> at]
      /\ \A z \in DOMAIN blocks : z # i => blocks'[z] = blocks[z]
  BY DEF Insert
<1> HIDE DEF i, at
<1>7. Nest[i] = {i} \cup Nest[block] /\ i \notin Nest[block] /\ i # 0 /\ i # block /\ i + 1 \notin Nest[i]
  <2>1. i \in Nat /\ block \in Nat /\ block < i /\ i # 0
    BY <1>2, <1>3, OpsAreNumbered
  <2>2. \A k \in Nest[block] : k \in Nat /\ k <= block
    BY <1>1, <1>2, OpenBlock, OpsAreNumbered
  <2> QED
    BY <1>2, <1>3, <2>1, <2>2, NestOf
<1>8. blocks'[i].begin = at /\ blocks'[i].end = at /\ blocks'[i] \in [begin : Nat, end : Nat]
  BY <1>4, <1>6
<1>9. \A b \in {0} \cup Nest[block] : blocks'[b] = blocks[b]
  BY <1>5, <1>6, <1>7
<1>10. Body(i) \cap DOMAIN timing = {}
  BY <1>1, <1>3, <1>7 DEF OrderInv, Body
<1>11. TypeInv'
  <2>1. \A b \in DOMAIN blocks' : /\ blocks'[b] \in [begin : Nat, end : Nat]
                                   /\ blocks'[b].begin <= blocks'[b].end
    <3> TAKE b \in DOMAIN blocks'
    <3>1. CASE b = i
      BY <1>4, <1>8, <3>1
    <3>2. CASE b # i
      BY <1>1, <1>6, <3>2 DEF TypeInv
    <3> QED
      BY <3>1, <3>2
  <2>2. DOMAIN blocks' \subseteq Loops \cup {0} /\ {0} \cup Nest[i] \subseteq DOMAIN blocks'
    BY <1>1, <1>3, <1>6, <1>7 DEF TypeInv
  <2> QED
    BY <1>1, <1>2, <1>3, <2>1, <2>2 DEF TypeInv
<1>12. OrderInv'
  <2>1. \A j \in DOMAIN timing \cup Nest[i], k \in Ops :
           p.ops[k].parent = p.ops[j].parent /\ k > j => k \in DOMAIN timing
    <3> TAKE j \in DOMAIN timing \cup Nest[i], k \in Ops
    <3>1. CASE j = i
      BY <1>2, <1>3, <3>1, OpsAreNumbered
    <3>2. CASE j # i
      BY <1>1, <1>7, <3>2 DEF OrderInv
    <3> QED
      BY <3>1, <3>2
  <2>2. \A l \in Nest[i] : l \notin DOMAIN timing /\ p.ops[l].trip # 0
    BY <1>1, <1>3, <1>7 DEF OrderInv, i
  <2> QED
    BY <1>1, <1>2, <1>7, <2>1, <2>2, FunctionKept DEF OrderInv
<1>13. BoundsInv'
  <2>1. ASSUME NEW b \in Nest[i] \cup {0}, NEW j \in Body(b) \cap DOMAIN timing
        PROVE  blocks'[b].begin <= timing[j].begin /\ timing[j].end <= blocks'[b].end
    BY <1>1, <1>7, <1>9, <1>10 DEF BoundsInv
  <2>2. \A l \in Nest[i] : blocks'[p.ops[l].parent].end <= blocks'[l].begin
    <3> TAKE l \in Nest[i]
    <3>1. CASE l = i
      <4>1. blocks'[block] = blocks[block]
        BY <1>5, <1>9
      <4> QED
        BY <1>3, <1>4, <1>8, <3>1, <4>1
    <3>2. CASE l # i
      <4>1. l \in Nest[block] /\ p.ops[l].parent \in Nest[block] \cup {0}
        BY <1>1, <1>7, <3>2, OpenBlock
      <4> QED
        BY <1>1, <1>9, <4>1 DEF BoundsInv
    <3> QED
      BY <3>1, <3>2
  <2>3. ASSUME NEW l \in Nest[i], p.ops[l].flatten
        PROVE  /\ l + 1 \in DOMAIN timing =>
                     timing[l + 1].begin = blocks'[l].begin /\ timing[l + 1].end = blocks'[l].end
               /\ l + 1 \notin DOMAIN timing => blocks'[l].end = blocks'[l].begin
               /\ l + 1 \in Nest[i] => blocks'[l + 1].begin = blocks'[l].begin
    <3>1. l \in Loops /\ l \in Ops /\ p.ops[l].trip # 0
      BY <1>1, <1>3, <1>5, <1>7 DEF OrderInv, Loops, i
    <3>2. l + 1 \in Loops /\ Body(l) = {l + 1}
      BY <1>2, <2>3, <3>1 DEF WellFormed, Ops, Loops, Body
    <3>3. CASE l = i
      BY <1>7, <1>8, <1>10, <3>2, <3>3
    <3>4. CASE l # i
      <4>1. l \in Nest[block] /\ blocks'[l] = blocks[l]
        BY <1>7, <1>9, <3>4
      <4>2. CASE l + 1 = i
        <5>1. l = block /\ blocks[l].end = blocks[l].begin
          BY <1>1, <1>3, <2>3, <3>2, <4>1, <4>2 DEF Body, BoundsInv
        <5> QED
          BY <1>3, <1>4, <1>8, <4>1, <4>2, <5>1
      <4>3. CASE l + 1 # i
        <5>1. l + 1 \in Nest[i] => l + 1 \in Nest[block] /\ blocks'[l + 1] = blocks[l + 1]
          BY <1>7, <1>9, <4>3
        <5> QED
          BY <1>1, <2>3, <4>1, <5>1 DEF BoundsInv
      <4> QED
        BY <4>2, <4>3
    <3> QED
      BY <3>3, <3>4
  <2> QED
    BY <1>1, <1>2, <2>1, <2>2, <2>3, FunctionKept DEF BoundsInv
<1>14. LatencyInv'
  <2>1. \A l : LoopLatency(l, loopInfo[l])' = LoopLatency(l, loopInfo[l]) /\ Latency(l)' = Latency(l)
    BY <1>2, FunctionKept DEF LoopLatency
  <2> QED
    BY <1>1, <1>2, <2>1 DEF LatencyInv
<1>15. SuccessorInv'
  BY <1>1, <1>2, DependencesKept DEF SuccessorInv
<1>16. LevelInv'
  <2>1. level = NoLevel
    BY <1>1, KindsApart DEF LevelInv
  <2> QED
    BY <2>1 DEF LevelInv
<1> QED
  BY <1>11, <1>12, <1>13, <1>14, <1>15, <1>16 DEF TimeInv

-----------------------------------------------------------------------------
(* A loop is left. *)

\* What is inside of a block that is complete is scheduled within its bounds.
LEMMA InsideWithin ==
    ASSUME TypeInv, OrderInv, BoundsInv, block # 0, Remaining(block) = {},
           NEW i \in Ops, block \in Nest[i], i # block
    PROVE  /\ i \in DOMAIN timing /\ timing[i].begin \in Nat /\ timing[i].end \in Nat
           /\ blocks[block].begin <= timing[i].begin /\ timing[i].end <= blocks[block].end
<1>1. WellFormed(p)
  BY DEF TypeInv
<1>2. PICK c \in Nest[i] : p.ops[c].parent = block
  BY <1>1, NestHasChild
<1>3. c \in Ops /\ c \in Body(block) /\ c \in DOMAIN timing
  BY <1>1, <1>2, NestBounds DEF Remaining, Body
<1>4. /\ i \in DOMAIN timing
      /\ timing[c].begin <= timing[i].begin /\ timing[i].end <= timing[c].end
  BY <1>3, TimedWithin
<1>5. block \in Nest[block] \cup {0}
  BY OpenBlock
<1>6. blocks[block].begin <= timing[c].begin /\ timing[c].end <= blocks[block].end
  BY <1>3, <1>5 DEF BoundsInv
<1>7. /\ timing[i].begin \in Nat /\ timing[i].end \in Nat
      /\ timing[c].begin \in Nat /\ timing[c].end \in Nat
  BY <1>3, <1>4 DEF TypeInv
<1>8. blocks[block].begin \in Nat /\ blocks[block].end \in Nat
  BY OpenBlock
<1> QED
  BY <1>4, <1>6, <1>7, <1>8

\* The levels on which an access is counted for a bank.
CountedLevels(m, q, begin, end) ==
    {v \in {v \in begin..(end - 1) : <<v, m>> \in DOMAIN memPortInfos} :
        CountsAsAccess(p.memory[m].kind, memPortInfos[<<v, m>>][q])}

\* The resource II covers the accesses of every bank.
LEMMA ResMinIIIs ==
    ASSUME NEW l, NEW begin \in Nat, NEW end \in Nat
    PROVE  /\ ResMinII(l, begin, end) \in Nat
           /\ \A i \in Inside(l) :
                 p.memory[p.ops[i].memref].kind # "DRAM" =>
                     \A q \in 1..p.memory[p.ops[i].memref].partitionNum :
                         Cardinality(CountedLevels(p.ops[i].memref, q, begin, end))
                             <= ResMinII(l, begin, end)
<1> DEFINE mems == {m \in {p.ops[i].memref : i \in Inside(l)} : p.memory[m].kind # "DRAM"}
           Info(v, m, q) == memPortInfos[<<v, m>>][q]
           Counted(v, m, q) == CountsAsAccess(p.memory[m].kind, Info(v, m, q))
           Levels(m) == {v \in begin..(end - 1) : <<v, m>> \in DOMAIN memPortInfos}
           AccessNum(m, q) == Cardinality({v \in Levels(m) : Counted(v, m, q)})
           WriteNum(m, q) ==
               Cardinality({v \in Levels(m) : ~Counted(v, m, q) /\ Info(v, m, q).wrPort < 1})
           S == {1} \cup UNION {UNION {{AccessNum(m, q), WriteNum(m, q)} :
                                   q \in 1..p.memory[m].partitionNum} : m \in mems}
           e == Cardinality(begin..(end - 1))
<1>1. ResMinII(l, begin, end) = MaxOf(S)
  BY DEF ResMinII
<1>2. IsFiniteSet(begin..(end - 1)) /\ e \in Nat
  BY FS_Interval, FS_CardinalityType
<1>3. \A T \in SUBSET (begin..(end - 1)) : Cardinality(T) \in Nat /\ Cardinality(T) <= e
  BY <1>2, FS_Subset, FS_CardinalityType
<1>4. \A m, q : /\ AccessNum(m, q) \in Nat /\ AccessNum(m, q) <= e
                /\ WriteNum(m, q) \in Nat /\ WriteNum(m, q) <= e
  BY <1>3
<1>5. \A m, q : AccessNum(m, q) = Cardinality(CountedLevels(m, q, begin, end))
  BY DEF CountedLevels
<1> HIDE DEF AccessNum, WriteNum, mems, e
<1>6. \A x \in S : x \in Nat /\ x <= e + 1
  BY <1>2, <1>4
<1>7. \A m \in mems : \A q \in 1..p.memory[m].partitionNum : AccessNum(m, q) \in S
  OBVIOUS
<1>8. 1 \in S
  OBVIOUS
<1> HIDE DEF S
<1>9. MaxOf(S) \in Nat /\ \A x \in S : x <= MaxOf(S)
  <2>1. S \in SUBSET Int /\ e + 1 \in Nat
    BY <1>2, <1>6
  <2> QED
    BY <1>6, <1>8, <2>1, MaxOfBelow
<1> QED
  BY <1>1, <1>5, <1>7, <1>9 DEF mems

\* The dependences an iteration of l may carry to a later one, and whose source comes
\* after the target in the body.
CheckedDependences(l) ==
    {d \in p.dependences : /\ d.to < d.from /\ {d.from, d.to} \subseteq Inside(l)
                           /\ d.by \in LoopDepths(l) /\ Distance(d) > 0
                           /\ MayDepend(d.from, d.to)}

\* A dependence distance is an integer.
LEMMA DistanceIsInt ==
    ASSUME WellFormed(p), NEW d \in p.dependences PROVE Distance(d) \in Int
BY DEF WellFormed, Distance

\* The dependence II covers every dependence it checks.
LEMMA DepMinIIIs ==
    ASSUME TypeInv, OrderInv, BoundsInv, block # 0, Remaining(block) = {}
    PROVE  /\ DepMinII(block) \in Nat
           /\ \A d \in CheckedDependences(block) :
                 Ceil(timing[d.to].end - timing[d.from].begin, Distance(d)) <= DepMinII(block)
<1> DEFINE D == CheckedDependences(block)
           C(d) == Ceil(timing[d.to].end - timing[d.from].begin, Distance(d))
           S == {1} \cup {C(d) : d \in D}
           e == blocks[block].end
<1>1. DepMinII(block) = MaxOf(S)
  BY DEF DepMinII, CheckedDependences
<1>2. WellFormed(p) /\ e \in Nat /\ block \in Loops
  BY OpenBlock DEF TypeInv
<1>3. \A i \in Inside(block) : /\ timing[i].begin \in Nat /\ timing[i].end \in Nat
                               /\ timing[i].end <= e
  <2> TAKE i \in Inside(block)
  <2>1. i \in Ops /\ block \in Nest[i] /\ i # block
    BY <1>2, KindsApart DEF Inside, Leaves
  <2> QED
    BY <2>1, InsideWithin
<1>4. ASSUME NEW d \in D PROVE C(d) \in Int /\ C(d) <= e
  <2>1. Distance(d) \in Nat \ {0} /\ d.from \in Inside(block) /\ d.to \in Inside(block)
    BY <1>2, DistanceIsInt DEF CheckedDependences
  <2> DEFINE x == timing[d.to].end - timing[d.from].begin
             c == Distance(d)
  <2>2. x \in Int /\ x <= e /\ c \in Nat \ {0}
    BY <1>2, <1>3, <2>1
  <2>3. C(d) = (x + c - 1) \div c
    BY DEF Ceil
  <2> HIDE DEF x, c, e
  <2> QED
    BY <1>2, <2>2, <2>3, CeilBelow
<1> HIDE DEF C, D
<1>5. \A x \in S : x \in Int /\ x <= e + 1
  BY <1>2, <1>4
<1>6. 1 \in S /\ \A d \in D : C(d) \in S
  OBVIOUS
<1> HIDE DEF S
<1>7. MaxOf(S) \in Nat /\ \A x \in S : x <= MaxOf(S)
  <2>1. S \in SUBSET Int /\ e + 1 \in Nat
    BY <1>2, <1>5
  <2> QED
    BY <1>5, <1>6, <2>1, MaxOfBelow
<1> QED
  BY <1>1, <1>6, <1>7 DEF C, D

\* An iteration fits in the latency of its loop, however the loop is executed.
LEMMA IterationFits ==
    ASSUME NEW a \in Nat, NEW n \in Nat \ {0}, NEW c \in Nat
    PROVE  a + c * (n - 1) + 2 \in Nat /\ a <= a + c * (n - 1) + 2
           /\ a * n + 2 \in Nat /\ a <= a * n + 2
<1>1. c * (n - 1) \in Nat
  BY TimesIsNat
<1>2. a * 1 <= a * n /\ a * n \in Nat
  BY TimesMonotone, TimesIsNat
<1> QED
  BY <1>1, <1>2

\* Flattened, a loop multiplies the iterations of the loop in it.
LEMMA FlattenedFits ==
    ASSUME NEW a \in Nat, NEW n \in Nat \ {0}, NEW k \in Nat \ {0}, NEW c \in Nat
    PROVE  /\ k * n \in Nat \ {0}
           /\ a + c * (n - 1) + 2 <= a + c * (k * n - 1) + 2
           /\ a * n + 2 <= a + a * (k * n - 1) + 2
<1>1. n * 1 <= n * k /\ n * k \in Nat /\ k * n = n * k
  BY TimesMonotone, TimesIsNat
<1> DEFINE m == k * n
<1>2. n <= m /\ m \in Nat \ {0}
  BY <1>1
<1> HIDE DEF m
<1>3. c * (n - 1) <= c * (m - 1) /\ c * (n - 1) \in Nat /\ c * (m - 1) \in Nat
  BY <1>2, TimesMonotone, TimesIsNat
<1>4. a * n <= a * m /\ a * m = a + a * (m - 1) /\ a * n \in Nat /\ a * (m - 1) \in Nat
  BY <1>2, TimesMonotone, TimesIsNat
<1> QED
  BY <1>2, <1>3, <1>4 DEF m

\* The latency of a loop covers what its body was scheduled in.
LEMMA LoopInfoIs ==
    ASSUME TypeInv, OrderInv, BoundsInv, LatencyInv, block # 0, Remaining(block) = {},
           NEW info, info = LoopInfo(block, blocks[block].begin, blocks[block].end)
    PROVE  /\ info \in [tripCount : Nat \ {0}, iterLatency : Nat, minII : Nat]
           /\ LoopLatency(block, info) \in Nat
           /\ blocks[block].end <= blocks[block].begin + LoopLatency(block, info)
           /\ p.ops[block].targetII > 0 =>
                 /\ 1 <= info.minII
                 /\ ResMinII(block, blocks[block].begin, blocks[block].end) <= info.minII
                 /\ DepMinII(block) <= info.minII
           /\ p.ops[block].targetII = 0 /\ ~p.ops[block].flatten => info.minII = info.iterLatency
<1> DEFINE l == block
           loop == p.ops[l]
           begin == blocks[l].begin
           end == blocks[l].end
<1>1. /\ WellFormed(p) /\ l \in Loops /\ l \in Ops /\ l \in Nest[l]
      /\ begin \in Nat /\ end \in Nat /\ begin <= end
  BY OpenBlock, NestBounds DEF TypeInv, Loops
<1>2. /\ loop.trip \in Nat \ {0} /\ loop.targetII \in Nat /\ loop.flatten \in BOOLEAN
  BY <1>1 DEF WellFormed, Ops, OrderInv
<1>3. end - begin \in Nat
  BY <1>1
<1>4. CASE loop.targetII > 0
  <2> DEFINE r == ResMinII(l, begin, end)
             d == DepMinII(l)
             m == MaxOf({loop.targetII, r, d})
  <2>1. info = [tripCount |-> loop.trip, iterLatency |-> end - begin, minII |-> m]
    BY <1>4 DEF LoopInfo
  <2>2. r \in Nat /\ d \in Nat
    BY <1>1, ResMinIIIs, DepMinIIIs
  <2> HIDE DEF r, d
  <2>3. m \in Nat /\ loop.targetII <= m /\ r <= m /\ d <= m
    <3>1. loop.targetII + r + d \in Nat /\ \A x \in {loop.targetII, r, d} : x <= loop.targetII + r + d
      BY <1>2, <2>2
    <3>2. {loop.targetII, r, d} \in SUBSET Int
      BY <1>2, <2>2
    <3> QED
      BY <1>2, <3>1, <3>2, MaxOfBelow
  <2> HIDE DEF m, begin, end
  <2>4. info \in [tripCount : Nat \ {0}, iterLatency : Nat, minII : Nat]
    BY <1>2, <1>3, <2>1, <2>3
  <2>5. LoopLatency(l, info) = (end - begin) + m * (loop.trip - 1) + 2
    BY <1>4, <2>1 DEF LoopLatency
  <2>6. LoopLatency(l, info) \in Nat /\ end - begin <= LoopLatency(l, info)
    BY <1>2, <1>3, <2>3, <2>5, IterationFits
  <2>7. end <= begin + LoopLatency(l, info)
    BY <1>1, <2>6
  <2>8. 1 <= m /\ info.minII = m
    BY <1>2, <1>4, <2>1, <2>3
  <2> QED
    BY <1>4, <2>3, <2>4, <2>6, <2>7, <2>8 DEF r, d, begin, end
<1>5. CASE loop.targetII = 0 /\ loop.flatten
  <2> DEFINE c == l + 1
             ci == loopInfo[c]
  <2>1. c \in Loops /\ Body(l) = {c}
    BY <1>1, <1>2, <1>5 DEF WellFormed, Ops, Loops, Body
  <2>2. c \in DOMAIN timing /\ c \in DOMAIN loopInfo
    BY <2>1 DEF Remaining, TypeInv
  <2>3. ci \in [tripCount : Nat \ {0}, iterLatency : Nat, minII : Nat]
    BY <2>2 DEF TypeInv
  <2>4. timing[c].begin = begin /\ timing[c].end = end
    BY <1>1, <1>5, <2>2 DEF BoundsInv
  <2>5. end = begin + LoopLatency(c, ci)
    BY <2>1, <2>2, <2>4 DEF LatencyInv
  <2>6. info = [ci EXCEPT !.tripCount = loop.trip * @]
    BY <1>5 DEF LoopInfo
  <2> DEFINE a == ci.iterLatency
             n == ci.tripCount
             k == loop.trip
             ii == ci.minII
  <2>7. a \in Nat /\ n \in Nat \ {0} /\ k \in Nat \ {0} /\ ii \in Nat
    BY <1>2, <2>3
  <2>8. info = [tripCount |-> k * n, iterLatency |-> a, minII |-> ii]
    BY <2>3, <2>6
  <2>9. LoopLatency(l, info) = a + ii * (k * n - 1) + 2
    BY <1>5, <2>8 DEF LoopLatency
  <2>10. CASE p.ops[c].targetII > 0 \/ p.ops[c].flatten
    <3>1. LoopLatency(c, ci) = a + ii * (n - 1) + 2
      BY <2>10 DEF LoopLatency
    <3> HIDE DEF a, n, k, ii, begin, end
    <3>2. LoopLatency(c, ci) <= LoopLatency(l, info) /\ k * n \in Nat \ {0}
      BY <2>7, <2>9, <3>1, FlattenedFits
    <3>3. LoopLatency(c, ci) \in Nat /\ LoopLatency(l, info) \in Nat
      BY <2>7, <2>9, <3>1, <3>2, IterationFits
    <3>4. info \in [tripCount : Nat \ {0}, iterLatency : Nat, minII : Nat]
      BY <2>7, <2>8, <3>2
    <3>5. end <= begin + LoopLatency(l, info)
      BY <1>1, <2>5, <3>2, <3>3
    <3> QED
      BY <1>5, <3>3, <3>4, <3>5 DEF begin, end
  <2>11. CASE ~(p.ops[c].targetII > 0 \/ p.ops[c].flatten)
    <3>1. LoopLatency(c, ci) = a * n + 2
      BY <2>11 DEF LoopLatency
    <3>2. p.ops[c].targetII = 0 /\ ~p.ops[c].flatten
      BY <1>1, <2>1, <2>11 DEF WellFormed, Ops, Loops
    <3>3. ii = a
      BY <2>2, <3>2 DEF LatencyInv
    <3> HIDE DEF a, n, k, ii, begin, end
    <3>4. LoopLatency(c, ci) <= LoopLatency(l, info) /\ k * n \in Nat \ {0}
      BY <2>7, <2>9, <3>1, <3>3, FlattenedFits
    <3>5. LoopLatency(c, ci) \in Nat /\ LoopLatency(l, info) \in Nat
      BY <2>7, <2>9, <3>1, <3>4, IterationFits
    <3>6. info \in [tripCount : Nat \ {0}, iterLatency : Nat, minII : Nat]
      BY <2>7, <2>8, <3>4
    <3>7. end <= begin + LoopLatency(l, info)
      BY <1>1, <2>5, <3>4, <3>5
    <3> QED
      BY <1>5, <3>5, <3>6, <3>7 DEF begin, end
  <2> QED
    BY <2>10, <2>11
<1>6. CASE loop.targetII = 0 /\ ~loop.flatten
  <2>1. info = [tripCount |-> loop.trip, iterLatency |-> end - begin, minII |-> end - begin]
    BY <1>6 DEF LoopInfo
  <2>2. LoopLatency(l, info) = (end - begin) * loop.trip + 2
    BY <1>6, <2>1 DEF LoopLatency
  <2> HIDE DEF begin, end
  <2>3. LoopLatency(l, info) \in Nat /\ end - begin <= LoopLatency(l, info)
    BY <1>2, <1>3, <2>2, IterationFits
  <2>4. info \in [tripCount : Nat \ {0}, iterLatency : Nat, minII : Nat]
    BY <1>2, <1>3, <2>1
  <2>5. end <= begin + LoopLatency(l, info)
    BY <1>1, <2>3
  <2> QED
    BY <1>6, <2>1, <2>3, <2>4, <2>5 DEF begin, end
<1> QED
  BY <1>2, <1>4, <1>5, <1>6

\* Leaving a loop keeps the time line.
LEMMA LeaveKeeps ==
    ASSUME TimeInv, block # 0, Remaining(block) = {},
           NEW info, info = LoopInfo(block, blocks[block].begin, blocks[block].end),
           loopInfo' = Insert(loopInfo, block, info),
           SetTiming(block, p.ops[block].parent, blocks[block].begin, LoopLatency(block, info)),
           block' = p.ops[block].parent, UNCHANGED <<p, level>>
    PROVE  TimeInv'
<1> DEFINE l == block
           b == p.ops[block].parent
           at == blocks[block].begin
           lat == LoopLatency(block, info)
<1>1. TypeInv /\ OrderInv /\ BoundsInv /\ LatencyInv /\ SuccessorInv /\ LevelInv
  BY DEF TimeInv
<1>2. /\ WellFormed(p) /\ p' = p /\ block' = b
      /\ Ops' = Ops /\ Loops' = Loops /\ Nest' = Nest /\ Leaves' = Leaves
  BY <1>1, FunctionKept DEF TypeInv
<1>3. /\ l \in {0} \cup Nest[l] /\ Nest[l] \subseteq Loops
      /\ \A c \in {0} \cup Nest[l] :
            /\ c \in DOMAIN blocks /\ blocks[c].begin \in Nat /\ blocks[c].end \in Nat
            /\ blocks[c].begin <= blocks[c].end
  BY <1>1, OpenBlock
<1>4. /\ l \in Nest[l] /\ l \in Loops /\ l \in Ops /\ l \notin DOMAIN timing /\ l \notin DOMAIN loopInfo
      /\ Body(l) \subseteq DOMAIN timing
  BY <1>1, <1>3 DEF OrderInv, TypeInv, Loops, Remaining
<1>5. /\ Nest[l] = {l} \cup Nest[b] /\ l \notin Nest[b] /\ b \in {0} \cup Nest[b] /\ b # l
      /\ b \in Loops \cup {0}
  <2>1. b \in Nat /\ b < l /\ l \in Nat /\ b \in Loops \cup {0} /\ b \in Ops \cup {0}
    BY <1>2, <1>4, OpsAreNumbered DEF Loops
  <2>2. \A k \in Nest[b] : k <= b /\ k \in Nat
    BY <1>2, <2>1, NestBounds, OpsAreNumbered
  <2> QED
    BY <1>2, <1>4, <2>1, <2>2, NestOf, NestBounds
<1>6. /\ info \in [tripCount : Nat \ {0}, iterLatency : Nat, minII : Nat]
      /\ lat \in Nat /\ blocks[l].end <= at + lat
      /\ p.ops[l].targetII = 0 /\ ~p.ops[l].flatten => info.minII = info.iterLatency
  BY <1>1, LoopInfoIs
<1>7. /\ DOMAIN timing' = DOMAIN timing \cup {l}
      /\ timing'[l] = [begin |-> at, end |-> at + lat]
      /\ \A j \in DOMAIN timing : timing'[j] = timing[j]
      /\ DOMAIN loopInfo' = DOMAIN loopInfo \cup {l} /\ loopInfo'[l] = info
      /\ \A j \in DOMAIN loopInfo : loopInfo'[j] = loopInfo[j]
  <2>1. timing' = Insert(timing, l, [begin |-> at, end |-> at + lat])
    BY DEF SetTiming
  <2>2. loopInfo' = Insert(loopInfo, l, info)
    OBVIOUS
  <2> HIDE DEF l, lat, at
  <2> QED
    BY <1>4, <2>1, <2>2 DEF Insert
<1>8. /\ DOMAIN blocks' = DOMAIN blocks
      /\ \A c \in DOMAIN blocks : c # b => blocks'[c] = blocks[c]
      /\ blocks'[b] \in [begin : Nat, end : Nat] /\ blocks'[b].begin = blocks[b].begin
      /\ blocks[b].end <= blocks'[b].end /\ at + lat <= blocks'[b].end
      /\ blocks'[b].end = MaxOf({blocks[b].end, at + lat})
  <2>1. blocks' = [blocks EXCEPT ![b].end = MaxOf({@, at + lat})]
    BY DEF SetTiming
  <2>2. b \in DOMAIN blocks /\ blocks[b] \in [begin : Nat, end : Nat] /\ at + lat \in Nat
    BY <1>1, <1>3, <1>4, <1>5, <1>6 DEF TypeInv
  <2> HIDE DEF b, lat, at
  <2> QED
    BY <2>1, <2>2, EndRaised
<1>9. /\ timing'[l] \in [begin : Nat, end : Nat] /\ timing'[l].begin = at
      /\ timing'[l].end = at + lat /\ at \in Nat /\ blocks[l].begin = at
  <2>1. at \in Nat /\ blocks[l].begin = at /\ lat \in Nat
    BY <1>3, <1>4, <1>6
  <2> HIDE DEF at, lat, l
  <2>2. at + lat \in Nat
    BY <2>1
  <2> QED
    BY <1>7, <2>1, <2>2
<1>10. blocks[b].end <= at /\ blocks[b].begin \in Nat /\ blocks[b].end \in Nat
       /\ blocks[b].begin <= blocks[b].end
  BY <1>1, <1>3, <1>4, <1>5 DEF BoundsInv
<1>11. level = NoLevel
  BY <1>1 DEF LevelInv, Scheduling
<1> HIDE DEF l, b, at, lat
<1>12. TypeInv'
  <2>1. \A c \in DOMAIN blocks' : /\ blocks'[c] \in [begin : Nat, end : Nat]
                                   /\ blocks'[c].begin <= blocks'[c].end
    <3> TAKE c \in DOMAIN blocks'
    <3>1. CASE c = b
      <4>1. blocks'[b].end \in Nat
        BY <1>8
      <4> QED
        BY <1>8, <1>10, <3>1, <4>1
    <3>2. CASE c # b
      BY <1>1, <1>8, <3>2 DEF TypeInv
    <3> QED
      BY <3>1, <3>2
  <2>2. \A j \in DOMAIN timing' : timing'[j] \in [begin : Nat, end : Nat]
    BY <1>1, <1>7, <1>9 DEF TypeInv
  <2>3. \A j \in DOMAIN loopInfo' : loopInfo'[j] \in [tripCount : Nat \ {0}, iterLatency : Nat, minII : Nat]
    BY <1>1, <1>6, <1>7 DEF TypeInv
  <2>4. DOMAIN timing' \subseteq Ops /\ DOMAIN loopInfo' = DOMAIN timing' \cap Loops
    BY <1>1, <1>4, <1>7 DEF TypeInv
  <2>5. DOMAIN blocks' \subseteq Loops \cup {0} /\ {0} \cup Nest[b] \subseteq DOMAIN blocks'
    BY <1>1, <1>3, <1>5, <1>8 DEF TypeInv
  <2>6. level' \in Nat \cup {NoLevel}
    BY <1>1 DEF TypeInv
  <2> QED
    BY <1>2, <1>5, <2>1, <2>2, <2>3, <2>4, <2>5, <2>6 DEF TypeInv
<1>13. OrderInv'
  <2>1. \A j \in DOMAIN timing' \cup Nest[b], k \in Ops :
           p.ops[k].parent = p.ops[j].parent /\ k > j => k \in DOMAIN timing'
    BY <1>1, <1>4, <1>5, <1>7 DEF OrderInv, l
  <2>2. \A j \in DOMAIN timing' : p.ops[j].parent \in DOMAIN timing' \cup Nest[b] \cup {0}
    <3> TAKE j \in DOMAIN timing'
    <3>1. CASE j = l
      <4>1. p.ops[j].parent = b
        BY <3>1 DEF l, b
      <4> QED
        BY <1>5, <4>1
    <3>2. CASE j # l
      BY <1>1, <1>5, <1>7, <3>2 DEF OrderInv, l
    <3> QED
      BY <3>1, <3>2
  <2>3. \A c \in Nest[b] : c \notin DOMAIN timing' /\ p.ops[c].trip # 0
    BY <1>1, <1>5, <1>7 DEF OrderInv, l
  <2>4. \A c \in DOMAIN loopInfo' : p.ops[c].trip # 0 /\ Body(c) \subseteq DOMAIN timing'
    BY <1>1, <1>4, <1>7 DEF OrderInv, l
  <2> QED
    BY <1>2, <2>1, <2>2, <2>3, <2>4, FunctionKept DEF OrderInv
<1>14. BoundsInv'
  <2>1. ASSUME NEW c \in DOMAIN loopInfo', NEW j \in Body(c)
        PROVE  timing'[c].begin <= timing'[j].begin /\ timing'[j].end <= timing'[c].end
    <3>1. CASE c = l
      <4>1. j \in DOMAIN timing /\ timing[j].begin \in Nat /\ timing[j].end \in Nat
        BY <1>1, <1>4, <3>1 DEF TypeInv
      <4>2. blocks[l].begin <= timing[j].begin /\ timing[j].end <= blocks[l].end
        BY <1>1, <1>4, <3>1, <4>1 DEF BoundsInv, l
      <4>3. timing'[j] = timing[j] /\ blocks[l].end \in Nat
        BY <1>3, <1>4, <1>7, <4>1
      <4> QED
        BY <1>6, <1>9, <3>1, <4>1, <4>2, <4>3
    <3>2. CASE c # l
      <4>1. c \in DOMAIN loopInfo /\ c \in DOMAIN timing /\ j \in DOMAIN timing
        BY <1>1, <1>7, <3>2 DEF TypeInv, OrderInv
      <4> QED
        BY <1>1, <1>7, <4>1 DEF BoundsInv
    <3> QED
      BY <3>1, <3>2
  <2>2. ASSUME NEW c \in Nest[b] \cup {0}, NEW j \in Body(c) \cap DOMAIN timing'
        PROVE  blocks'[c].begin <= timing'[j].begin /\ timing'[j].end <= blocks'[c].end
    <3>1. CASE j = l
      <4>1. c = b
        BY <3>1 DEF Body, l, b
      <4> QED
        BY <1>8, <1>9, <1>10, <3>1, <4>1
    <3>2. CASE j # l
      <4>1. /\ j \in DOMAIN timing /\ timing'[j] = timing[j]
            /\ blocks[c].begin <= timing[j].begin /\ timing[j].end <= blocks[c].end
        BY <1>1, <1>5, <1>7, <3>2 DEF BoundsInv, l
      <4>2. timing[j].begin \in Nat /\ timing[j].end \in Nat
        BY <1>1, <4>1 DEF TypeInv
      <4>3. CASE c = b
        <5>1. blocks'[c].end \in Nat /\ blocks[c].end \in Nat
          BY <1>8, <1>10, <4>3
        <5> QED
          BY <1>8, <4>1, <4>2, <4>3, <5>1
      <4>4. CASE c # b
        BY <1>3, <1>5, <1>8, <4>1, <4>4
      <4> QED
        BY <4>3, <4>4
    <3> QED
      BY <3>1, <3>2
  <2>3. \A c \in Nest[b] : blocks'[p.ops[c].parent].end <= blocks'[c].begin
    <3> TAKE c \in Nest[b]
    <3>1. c \in Nest[l] /\ c \in DOMAIN blocks /\ p.ops[c].parent \in DOMAIN blocks
      BY <1>1, <1>3, <1>5, OpenBlock DEF l
    <3>2. p.ops[c].parent # b
      <4>1. c \in Ops /\ c <= b /\ c \in Nat /\ b \in Nat /\ p.ops[c].parent \in Nat /\ p.ops[c].parent < c
        BY <1>2, <1>5, NestBounds, OpsAreNumbered DEF Loops
      <4> QED
        BY <4>1
    <3>3. blocks'[p.ops[c].parent] = blocks[p.ops[c].parent] /\ blocks'[c].begin = blocks[c].begin
      BY <1>8, <3>1, <3>2
    <3> QED
      BY <1>1, <3>1, <3>3 DEF BoundsInv, l
  <2>4. ASSUME NEW c \in Nest[b], p.ops[c].flatten
        PROVE  /\ c + 1 \in DOMAIN timing' =>
                     timing'[c + 1].begin = blocks'[c].begin /\ timing'[c + 1].end = blocks'[c].end
               /\ c + 1 \notin DOMAIN timing' => blocks'[c].end = blocks'[c].begin
               /\ c + 1 \in Nest[b] => blocks'[c + 1].begin = blocks'[c].begin
    <3>1. c \in Nest[l] /\ c \in Loops /\ c \in Ops /\ p.ops[c].trip # 0 /\ c \in DOMAIN blocks
      BY <1>1, <1>3, <1>5 DEF OrderInv, Loops, l
    <3>2. c + 1 \in Loops /\ Body(c) = {c + 1}
      BY <1>2, <2>4, <3>1 DEF WellFormed, Ops, Loops, Body
    <3>3. CASE c + 1 = l
      <4>1. c = b
        BY <3>2, <3>3 DEF Body, l, b
      <4>2. blocks[l].begin = blocks[b].begin /\ blocks[b].end = blocks[b].begin
        BY <1>1, <1>4, <2>4, <3>1, <3>3, <4>1 DEF BoundsInv, l
      <4>3. at + lat \in Nat /\ blocks[b].end = at
        BY <1>6, <1>9, <4>2
      <4>4. blocks'[b].end = at + lat
        <5>1. MaxOf({blocks[b].end, at + lat}) \in {blocks[b].end, at + lat}
          <6>1. {blocks[b].end, at + lat} \in SUBSET Int
            BY <1>10, <4>3
          <6>2. \A x \in {blocks[b].end, at + lat} : x <= at + lat
            BY <1>6, <1>9, <4>3
          <6> QED
            BY <4>3, <6>1, <6>2, MaxOfBelow
        <5> QED
          BY <1>6, <1>8, <1>9, <4>3, <5>1
      <4> QED
        BY <1>5, <1>7, <1>8, <1>9, <3>3, <4>1, <4>2, <4>4
    <3>4. CASE c + 1 # l
      <4>1. c # b
        BY <1>4, <3>2, <3>4 DEF Body, l, b
      <4>2. blocks'[c] = blocks[c]
        BY <1>8, <3>1, <4>1
      <4>3. c + 1 \in Nest[b] => c + 1 \in Nest[l] /\ blocks'[c + 1].begin = blocks[c + 1].begin
        BY <1>3, <1>5, <1>8
      <4>4. /\ c + 1 \in DOMAIN timing' => c + 1 \in DOMAIN timing /\ timing'[c + 1] = timing[c + 1]
            /\ c + 1 \notin DOMAIN timing' => c + 1 \notin DOMAIN timing
        BY <1>7, <3>4
      <4> QED
        BY <1>1, <2>4, <3>1, <4>2, <4>3, <4>4 DEF BoundsInv, l
    <3> QED
      BY <3>3, <3>4
  <2> QED
    BY <1>2, <2>1, <2>2, <2>3, <2>4, FunctionKept DEF BoundsInv
<1>15. LatencyInv'
  <2>1. \A j \in DOMAIN timing' :
          timing'[j].end = timing'[j].begin +
              (IF j \in Loops THEN LoopLatency(j, loopInfo'[j]) ELSE Latency(j))
    <3> TAKE j \in DOMAIN timing'
    <3>1. CASE j = l
      BY <1>4, <1>7, <1>9, <3>1 DEF lat, l
    <3>2. CASE j # l
      <4>1. j \in DOMAIN timing /\ (j \in Loops => j \in DOMAIN loopInfo)
        BY <1>1, <1>7, <3>2 DEF TypeInv
      <4> QED
        BY <1>1, <1>7, <4>1 DEF LatencyInv
    <3> QED
      BY <3>1, <3>2
  <2>2. \A j : LoopLatency(j, loopInfo[j])' = LoopLatency(j, loopInfo'[j]) /\ Latency(j)' = Latency(j)
    BY <1>2, FunctionKept DEF LoopLatency
  <2>3. \A j \in DOMAIN loopInfo' :
          p.ops[j].targetII = 0 /\ ~p.ops[j].flatten => loopInfo'[j].minII = loopInfo'[j].iterLatency
    BY <1>1, <1>6, <1>7 DEF LatencyInv
  <2> QED
    BY <1>2, <2>1, <2>2, <2>3 DEF LatencyInv
<1>16. SuccessorInv'
  <2>1. ASSUME NEW x \in DOMAIN timing', NEW j \in Successors(x), p.ops[j].parent = p.ops[x].parent
        PROVE  j \in DOMAIN timing' /\ timing'[j].end <= timing'[x].begin
    <3>1. CASE x = l
      <4>1. PICK h \in Nest[l] : p.ops[h].parent = p.ops[j].parent /\ h < j
        BY <1>2, <1>4, <3>1, SuccessorsFollow
      <4>2. h = l /\ j \in Ops
        BY <1>2, <1>4, <2>1, <3>1, <4>1, NestOnePerBlock, SuccessorsFollow
      <4>3. j \in DOMAIN timing /\ timing[j].end <= blocks[l].begin
        BY <1>1, <4>1, <4>2, OuterEnded DEF l
      <4> QED
        BY <1>7, <1>9, <3>1, <4>3
    <3>2. CASE x # l
      <4>1. j \in DOMAIN timing /\ timing[j].end <= timing[x].begin
        BY <1>1, <1>7, <2>1, <3>2 DEF SuccessorInv
      <4> QED
        BY <1>7, <3>2, <4>1
    <3> QED
      BY <3>1, <3>2
  <2>2. ASSUME NEW x \in DOMAIN timing', NEW j \in Leaves, x \in Leaves, <<x, j>> \in Problem.after
        PROVE  j \in DOMAIN timing' /\ timing'[j].end <= timing'[x].begin
    <3>1. x # l /\ x \in DOMAIN timing
      BY <1>4, <1>7, <2>2 DEF Leaves
    <3>2. j \in DOMAIN timing /\ timing[j].end <= timing[x].begin
      BY <1>1, <2>2, <3>1 DEF SuccessorInv
    <3> QED
      BY <1>7, <3>1, <3>2
  <2> QED
    BY <1>2, <2>1, <2>2, DependencesKept DEF SuccessorInv
<1>17. LevelInv'
  BY <1>11 DEF LevelInv
<1> QED
  BY <1>12, <1>13, <1>14, <1>15, <1>16, <1>17 DEF TimeInv

-----------------------------------------------------------------------------
(* The schedule is kept in order by every step. *)

\* A step that schedules nothing leaves the time line as it was.
LEMMA TimelineKept ==
    ASSUME TypeInv, UNCHANGED <<p, block, blocks, timing, loopInfo>>
    PROVE  /\ level' \in Nat \cup {NoLevel} => TypeInv'
           /\ OrderInv => OrderInv'
           /\ BoundsInv => BoundsInv'
           /\ LatencyInv => LatencyInv'
           /\ SuccessorInv => SuccessorInv'
           /\ Remaining(block)' = Remaining(block) /\ Op' = Op /\ OpBegin(Op)' = OpBegin(Op)
           /\ \A i : Reversed(i)' = Reversed(i)
<1>1. /\ Ops' = Ops /\ Loops' = Loops /\ Nest' = Nest /\ Leaves' = Leaves
      /\ (\A l : Body(l)' = Body(l)) /\ (\A i : Latency(i)' = Latency(i))
  BY FunctionKept
<1>2. (\A i : Successors(i)' = Successors(i)) /\ Problem' = Problem
  BY DependencesKept
<1>3. level' \in Nat \cup {NoLevel} => TypeInv'
  BY <1>1 DEF TypeInv
<1>4. OrderInv => OrderInv'
  BY <1>1 DEF OrderInv
<1>5. BoundsInv => BoundsInv'
  BY <1>1 DEF BoundsInv
<1>6. \A l : LoopLatency(l, loopInfo[l])' = LoopLatency(l, loopInfo[l])
  BY DEF LoopLatency
<1>7. LatencyInv => LatencyInv'
  BY <1>1, <1>6 DEF LatencyInv
<1>8. SuccessorInv => SuccessorInv'
  BY <1>1, <1>2 DEF SuccessorInv
<1>9. Remaining(block)' = Remaining(block)
  BY <1>1 DEF Remaining
<1>10. Op' = Op
  BY <1>9 DEF Op
<1>11. OpBegin(Op)' = OpBegin(Op)
  BY <1>1, <1>2, <1>10 DEF OpBegin
<1>12. \A i : Reversed(i)' = Reversed(i)
  BY DEF Reversed
<1> QED
  BY <1>3, <1>4, <1>5, <1>7, <1>8, <1>9, <1>10, <1>11, <1>12

\* The level that is tried for an access is one the operation may begin at.
LEMMA LevelTried ==
    ASSUME TimeInv, Scheduling
    PROVE  /\ OpBegin(Op) \in Nat
           /\ level # NoLevel => level \in Nat /\ OpBegin(Op) <= level
<1>1. TypeInv /\ OrderInv /\ BoundsInv /\ LevelInv
  BY DEF TimeInv
<1>2. OpBegin(Op) \in Nat
  BY <1>1, OpBeginIs DEF Scheduling
<1> QED
  BY <1>1, <1>2 DEF LevelInv, TypeInv

\* The time line is kept by each action: an operator,
LEMMA OperatorStep == ASSUME TimeInv, ScheduleOperator PROVE TimeInv'
<1>1. Scheduling /\ Remaining(block) # {} /\ Op \notin Loops /\ level = NoLevel
  BY DEF ScheduleOperator, Scheduling, TimeInv, LevelInv
<1>2. OpBegin(Op) \in Nat /\ OpBegin(Op) <= OpBegin(Op)
  BY <1>1, LevelTried
<1>3. /\ SetTiming(Op, block, OpBegin(Op), Latency(Op))
      /\ level' = NoLevel /\ UNCHANGED <<p, block, loopInfo>>
  BY <1>1 DEF ScheduleOperator
<1> QED
  BY <1>1, <1>2, <1>3, PlaceKeeps

\* an access,
LEMMA AccessStep == ASSUME TimeInv, ScheduleAccess PROVE TimeInv'
<1> DEFINE at == IF level = NoLevel THEN OpBegin(Op) ELSE level
           infos == PortInfosAt(at, p.ops[Op].memref)
<1>1. Scheduling /\ Remaining(block) # {} /\ Op \notin Loops /\ Op \in Accesses /\ ~Memory(Op).single
  BY KindsApart DEF ScheduleAccess, Scheduling, Leaves
<1>2. at \in Nat /\ OpBegin(Op) <= at /\ OpBegin(Op) \in Nat
  BY <1>1, LevelTried
<1>3. TryLevel(at, infos) /\ UNCHANGED <<p, stage, block, loopInfo>>
  BY DEF ScheduleAccess
<1> HIDE DEF at, infos
<1>4. CASE Missing(infos, Op) = {}
  <2>1. SetTiming(Op, block, at, Latency(Op)) /\ level' = NoLevel
    BY <1>3, <1>4 DEF TryLevel
  <2> QED
    BY <1>1, <1>2, <1>3, <2>1, PlaceKeeps
<1>5. CASE Missing(infos, Op) # {}
  <2>1. level' = at + 1 /\ UNCHANGED <<timing, blocks>>
    BY <1>3, <1>5 DEF TryLevel
  <2>2. level' \in Nat /\ OpBegin(Op) <= level'
    BY <1>2, <2>1
  <2>3. TypeInv /\ OrderInv /\ BoundsInv /\ LatencyInv /\ SuccessorInv
    BY DEF TimeInv
  <2>4. TypeInv' /\ OrderInv' /\ BoundsInv' /\ LatencyInv' /\ SuccessorInv'
    BY <1>3, <2>1, <2>2, <2>3, TimelineKept
  <2>5. Remaining(block)' = Remaining(block) /\ Op' = Op /\ OpBegin(Op)' = OpBegin(Op)
    BY <1>3, <2>1, <2>3, TimelineKept
  <2>6. Accesses' = Accesses /\ Memory(Op)' = Memory(Op)
    BY <1>3, <2>5, FunctionKept DEF Memory
  <2>7. Scheduling'
    BY <1>1, <1>3, <2>5 DEF Scheduling
  <2>8. LevelInv'
    <3>1. level' >= OpBegin(Op)'
      BY <1>2, <2>2, <2>5
    <3>2. (Op \in Accesses)' /\ (~Memory(Op).single)'
      BY <1>1, <2>5, <2>6
    <3> QED
      BY <2>7, <3>1, <3>2 DEF LevelInv
  <2> QED
    BY <2>4, <2>8 DEF TimeInv
<1> QED
  BY <1>4, <1>5

\* No search is under way when a loop is entered or left, or at the end.
LEMMA StoppedKeeps ==
    ASSUME TimeInv, level = NoLevel, UNCHANGED <<p, block, blocks, level, timing, loopInfo>>
    PROVE  TimeInv'
<1>1. TypeInv /\ OrderInv /\ BoundsInv /\ LatencyInv /\ SuccessorInv
  BY DEF TimeInv
<1>2. level' \in Nat \cup {NoLevel} /\ LevelInv'
  BY DEF LevelInv
<1> QED
  BY <1>1, <1>2, TimelineKept DEF TimeInv

\* a loop opened,
LEMMA EnterStep == ASSUME TimeInv, EnterLoop PROVE TimeInv'
<1>1. /\ Remaining(block) # {} /\ Op \in Loops /\ level = NoLevel
      /\ UNCHANGED <<p, level, timing, loopInfo>>
  BY KindsApart DEF EnterLoop, Scheduling, TimeInv, LevelInv
<1>2. CASE p.ops[Op].trip = 0
  BY <1>1, <1>2, StoppedKeeps DEF EnterLoop
<1>3. CASE p.ops[Op].trip # 0
  <2>1. block' = Op /\ blocks' = Insert(blocks, Op, [begin |-> OpBegin(Op), end |-> OpBegin(Op)])
    BY <1>3 DEF EnterLoop
  <2> QED
    BY <1>1, <1>3, <2>1, EnterKeeps
<1> QED
  BY <1>2, <1>3

\* a loop closed,
LEMMA LeaveStep == ASSUME TimeInv, LeaveLoop PROVE TimeInv'
<1>1. /\ block # 0 /\ Remaining(block) = {}
      /\ block' = p.ops[block].parent /\ UNCHANGED <<p, level>>
  BY DEF LeaveLoop
<1>2. PICK info : info = LoopInfo(block, blocks[block].begin, blocks[block].end)
  OBVIOUS
<1>3. /\ loopInfo' = Insert(loopInfo, block, info)
      /\ SetTiming(block, p.ops[block].parent, blocks[block].begin, LoopLatency(block, info))
  BY <1>2 DEF LeaveLoop
<1> QED
  BY <1>1, <1>2, <1>3, LeaveKeeps

\* the end.
LEMMA FinishStep == ASSUME TimeInv, Finish PROVE TimeInv'
<1>1. level = NoLevel
  BY DEF Finish, TimeInv, LevelInv, Scheduling
<1> QED
  BY <1>1, StoppedKeeps DEF Finish

\* It holds at the start,
LEMMA TimeInit == Init => TimeInv
<1> SUFFICES ASSUME Init PROVE TimeInv
  OBVIOUS
<1>1. /\ WellFormed(p) /\ block = 0 /\ level = NoLevel
      /\ blocks = [b \in {0} |-> [begin |-> 0, end |-> 0]]
      /\ timing = << >> /\ loopInfo = << >>
  BY DEF Init
<1>2. Nest[block] = {} /\ DOMAIN timing = {} /\ DOMAIN loopInfo = {}
  BY <1>1, NestOf
<1>3. DOMAIN blocks = {0} /\ blocks[0] \in [begin : Nat, end : Nat] /\ blocks[0].begin <= blocks[0].end
  BY <1>1
<1>4. TypeInv
  BY <1>1, <1>2, <1>3 DEF TypeInv
<1>5. OrderInv /\ BoundsInv /\ LatencyInv /\ SuccessorInv /\ LevelInv
  BY <1>1, <1>2 DEF OrderInv, BoundsInv, LatencyInv, SuccessorInv, LevelInv
<1> QED
  BY <1>4, <1>5 DEF TimeInv

\* so it is inductive.
LEMMA TimeStep == TimeInv /\ [Next]_vars => TimeInv'
<1> SUFFICES ASSUME TimeInv, [Next]_vars PROVE TimeInv'
  OBVIOUS
<1>1. CASE ScheduleOperator
  BY <1>1, OperatorStep
<1>2. CASE ScheduleAccess
  BY <1>2, AccessStep
<1>3. CASE EnterLoop
  BY <1>3, EnterStep
<1>4. CASE LeaveLoop
  BY <1>4, LeaveStep
<1>5. CASE Finish
  BY <1>5, FinishStep
<1>6. CASE UNCHANGED vars
  <2>1. TypeInv /\ OrderInv /\ BoundsInv /\ LatencyInv /\ SuccessorInv /\ LevelInv
    BY DEF TimeInv
  <2>2. UNCHANGED <<p, stage, block, blocks, level, timing, loopInfo>>
    BY <1>6 DEF vars
  <2>3. level' \in Nat \cup {NoLevel}
    BY <2>1, <2>2 DEF TypeInv
  <2>4. /\ TypeInv' /\ OrderInv' /\ BoundsInv' /\ LatencyInv' /\ SuccessorInv'
        /\ Remaining(block)' = Remaining(block) /\ Op' = Op /\ OpBegin(Op)' = OpBegin(Op)
    BY <2>1, <2>2, <2>3, TimelineKept
  <2>5. Accesses' = Accesses /\ Memory(Op)' = Memory(Op) /\ (Scheduling <=> Scheduling')
    BY <2>2, <2>4, FunctionKept DEF Memory, Scheduling
  <2>6. LevelInv'
    BY <2>1, <2>2, <2>4, <2>5 DEF LevelInv
  <2> QED
    BY <2>4, <2>6 DEF TimeInv
<1> QED
  BY <1>1, <1>2, <1>3, <1>4, <1>5, <1>6 DEF Next

\* At every point of the estimation what is scheduled is the end of the function, in
\* program order, each operation after all that must follow it and within the block or
\* loop around it; types are part of it.
THEOREM ScheduleInOrder == Spec => []TimeInv
BY TimeInit, TimeStep, PTL DEF Spec

-----------------------------------------------------------------------------
(* The schedule is reversed. *)

\* In the end the whole function is scheduled, and every level turned around.
DoneInv == stage = "done" => DOMAIN timing = Ops /\ forward = [i \in Ops |-> Reversed(i)]

\* A block with nothing left has all its ops scheduled.
LEMMA AllScheduled ==
    ASSUME TimeInv, block = 0, Remaining(0) = {}
    PROVE  DOMAIN timing = Ops
<1>1. TypeInv /\ OrderInv /\ BoundsInv /\ WellFormed(p)
  BY DEF TimeInv, TypeInv
<1>2. ASSUME NEW i \in Ops PROVE i \in DOMAIN timing
  <2>1. PICK k \in Nest[i] : p.ops[k].parent = 0
    BY <1>1, NestHasTop
  <2>2. k \in DOMAIN timing
    BY <1>1, <2>1, NestBounds DEF Remaining, Body
  <2> QED
    BY <1>1, <2>1, <2>2, TimedWithin
<1> QED
  BY <1>1, <1>2 DEF TypeInv

\* A function that is done has every op scheduled.
LEMMA DoneStep == TimeInv /\ DoneInv /\ [Next]_vars => DoneInv'
<1> SUFFICES ASSUME TimeInv, DoneInv, [Next]_vars, stage' = "done"
             PROVE  DOMAIN timing' = Ops' /\ forward' = [i \in Ops' |-> Reversed(i)']
  BY DEF DoneInv
<1>0. TypeInv
  BY DEF TimeInv
<1>1. CASE Finish
  <2>1. /\ block = 0 /\ Remaining(0) = {} /\ forward' = [i \in Ops |-> Reversed(i)]
        /\ UNCHANGED <<p, block, blocks, timing, loopInfo>>
    BY <1>1 DEF Finish
  <2>2. Ops' = Ops /\ \A i : Reversed(i)' = Reversed(i)
    BY <1>0, <2>1, FunctionKept, TimelineKept
  <2> QED
    BY <2>1, <2>2, AllScheduled
<1>2. CASE UNCHANGED vars
  <2>1. stage = "done" /\ UNCHANGED <<p, block, blocks, timing, loopInfo, forward>>
    BY <1>2 DEF vars
  <2>2. Ops' = Ops /\ \A i : Reversed(i)' = Reversed(i)
    BY <1>0, <2>1, FunctionKept, TimelineKept
  <2> QED
    BY <2>1, <2>2 DEF DoneInv
<1>3. ScheduleOperator \/ ScheduleAccess \/ EnterLoop \/ LeaveLoop => stage' # "done"
  BY DEF ScheduleOperator, ScheduleAccess, EnterLoop, LeaveLoop, Scheduling
<1> QED
  BY <1>1, <1>2, <1>3 DEF Next

\* Reversed, a time line that runs backwards runs forwards.
LEMMA ReversedInOrder == TimeInv /\ DoneInv => ForwardOrder
<1> SUFFICES ASSUME TimeInv, DoneInv, stage = "done", NEW i \in Ops, NEW j \in Ops,
                    p.ops[i].parent = p.ops[j].parent, j \in Successors(i)
             PROVE  forward[i].end <= forward[j].begin
  BY DEF ForwardOrder
<1>1. TypeInv /\ OrderInv /\ WellFormed(p)
  BY DEF TimeInv, TypeInv
<1>2. DOMAIN timing = Ops /\ forward[i] = Reversed(i) /\ forward[j] = Reversed(j)
  BY DEF DoneInv
<1>3. timing[j].end <= timing[i].begin
  BY <1>2 DEF TimeInv, SuccessorInv
<1>4. i # j
  <2>1. PICK h \in Nest[i] : p.ops[h].parent = p.ops[j].parent /\ h < j
    BY <1>1, SuccessorsFollow
  <2>2. h = i /\ i \in Nat /\ j \in Nat
    BY <1>1, <2>1, NestOnePerBlock, NestBounds, OpsAreNumbered
  <2> QED
    BY <2>1, <2>2
<1> DEFINE l == p.ops[i].parent
<1>5. /\ timing[i].begin \in Nat /\ timing[i].end \in Nat
      /\ timing[j].begin \in Nat /\ timing[j].end \in Nat /\ blocks[0].end \in Nat
  BY <1>1, <1>2 DEF TypeInv
<1>6. CASE l = 0
  <2>1. forward[i].end = blocks[0].end - timing[i].begin
        /\ forward[j].begin = blocks[0].end - timing[j].end
    BY <1>2, <1>6 DEF Reversed
  <2> QED
    BY <1>3, <1>5, <2>1
<1>7. CASE l # 0
  <2>1. l \in Loops /\ l \in DOMAIN timing /\ l \in DOMAIN loopInfo
    BY <1>1, <1>2, <1>7, OpsAreNumbered DEF TypeInv, Loops
  <2>2. ~p.ops[l].flatten
    <3>1. i \in Body(l) /\ j \in Body(l) /\ p.ops[l].trip # 0
      BY <1>1, <2>1 DEF Body, OrderInv
    <3>2. p.ops[l].flatten => Body(l) = {l + 1}
      BY <1>1, <2>1, <3>1 DEF WellFormed, Body, Ops, Loops
    <3> QED
      BY <1>4, <3>1, <3>2
  <2>3. timing[l].begin \in Nat /\ loopInfo[l].iterLatency \in Nat
    BY <1>1, <2>1 DEF TypeInv
  <2>4. forward[i].end = timing[l].begin + loopInfo[l].iterLatency - timing[i].begin
    BY <1>2, <1>7, <2>2 DEF Reversed
  <2>5. forward[j].begin = timing[l].begin + loopInfo[l].iterLatency - timing[j].end
    BY <1>2, <1>7, <2>2 DEF Reversed
  <2> QED
    BY <1>3, <1>5, <2>3, <2>4, <2>5
<1> QED
  BY <1>6, <1>7

\* Once the schedule is reversed, an operation of a block starts when those have ended
\* whose results it uses or on which its accesses may depend, in any loops around them.
THEOREM ReverseScheduleInOrder == Spec => []ForwardOrder
<1>1. Init => DoneInv
  BY DEF Init, DoneInv
<1>2. TimeInv /\ DoneInv /\ [Next]_vars => DoneInv'
  BY DoneStep
<1> QED
  BY <1>1, <1>2, ReversedInOrder, ScheduleInOrder, PTL DEF Spec

-----------------------------------------------------------------------------
(* The ports of the memories *)

AllWords == {Word(i) : i \in Ops}
Full(m) == NewPortInfo(p.memory[m].kind)

\* The accesses that are scheduled on a level for partition q of the memory m.
Here(at, m, q) ==
    {i \in DOMAIN timing \cap Accesses :
        /\ ~Memory(i).single /\ p.ops[i].memref = m /\ q \in p.ops[i].partitions
        /\ timing[i].begin = at}

WordsOf(S) == {Word(i) : i \in S \cap Reads}

\* What is left of the ports of a bank when the words are read and so many writes made:
\* the accesses found ports of their own or ports for both. Ports may also have been
\* taken for an access that then had to go on to another level.
PortsLeft(info, full, words, writes) ==
    LET rdwr == full.rdwrPort - info.rdwrPort
        rds  == full.rdPort - info.rdPort
        wrs  == full.wrPort - info.wrPort
        read == Cardinality(info.rdAccesses)
    IN  /\ info \in [rdPort : 0..full.rdPort, wrPort : 0..full.wrPort,
                     rdwrPort : 0..full.rdwrPort, rdAccesses : SUBSET AllWords]
        /\ words \subseteq info.rdAccesses
        /\ info.rdAccesses # {} => full.rdPort = 0 \/ info.rdPort < full.rdPort
        /\ read <= rds + rdwr /\ writes <= wrs + rdwr /\ read + writes <= rds + wrs + rdwr

PortInv ==
    /\ \A i \in DOMAIN timing :
          i \in Accesses /\ ~Memory(i).single =>
              <<timing[i].begin, p.ops[i].memref>> \in DOMAIN memPortInfos
    /\ \A at \in Nat, m \in DOMAIN p.memory :
          <<at, m>> \in DOMAIN memPortInfos =>
              /\ DOMAIN memPortInfos[<<at, m>>] = 1..p.memory[m].partitionNum
              /\ \A q \in 1..p.memory[m].partitionNum :
                    PortsLeft(memPortInfos[<<at, m>>][q], Full(m), WordsOf(Here(at, m, q)),
                              Cardinality(Here(at, m, q) \ Reads))

\* A new port record holds every port of the memory, none of them taken.
LEMMA FullIs ==
    ASSUME NEW m
    PROVE  /\ Full(m).rdPort \in Nat /\ Full(m).wrPort \in Nat /\ Full(m).rdwrPort \in Nat
           /\ Full(m) \in [rdPort : Nat, wrPort : Nat, rdwrPort : Nat, rdAccesses : {{}}]
           /\ p.memory[m].kind # "DRAM" => Full(m).rdPort \in {0, 1}
BY EstimationAssumption DEF Full, NewPortInfo

\* The accesses touch finitely many words,
LEMMA WordsFinite ==
    ASSUME WellFormed(p)
    PROVE  /\ IsFiniteSet(AllWords)
           /\ \A S \in SUBSET AllWords : IsFiniteSet(S) /\ Cardinality(S) \in Nat
<1> DEFINE f == [i \in Ops |-> Word(i)]
<1>1. {f[i] : i \in Ops} = AllWords
  BY DEF AllWords
<1>2. IsFiniteSet(Ops) /\ DOMAIN f = Ops
  BY OpsAreNumbered
<1> HIDE DEF f
<1>3. IsFiniteSet(AllWords)
  BY <1>1, <1>2, FiniteImage
<1> QED
  BY <1>3, FS_Subset, FS_CardinalityType

\* and a cycle holds finitely many of them.
LEMMA HereFinite ==
    ASSUME TypeInv, NEW at, NEW m, NEW q
    PROVE  /\ IsFiniteSet(Here(at, m, q)) /\ IsFiniteSet(Here(at, m, q) \ Reads)
           /\ Cardinality(Here(at, m, q) \ Reads) \in Nat
           /\ WordsOf(Here(at, m, q)) \subseteq AllWords
<1>1. IsFiniteSet(Ops) /\ Here(at, m, q) \subseteq Ops
  BY OpsAreNumbered DEF TypeInv, Here
<1>2. IsFiniteSet(Here(at, m, q)) /\ IsFiniteSet(Here(at, m, q) \ Reads)
  BY <1>1, FS_Subset
<1> QED
  BY <1>1, <1>2, FS_CardinalityType DEF WordsOf, AllWords

\* A port that is taken for an access is enough for it.
LEMMA TakePortLeaves ==
    ASSUME WellFormed(p), NEW i \in Ops, NEW full, NEW info, NEW words, NEW writes \in Nat,
           full.rdPort \in Nat, full.wrPort \in Nat, full.rdwrPort \in Nat,
           PortsLeft(info, full, words, writes), HasPort(info, i)
    PROVE  /\ i \in Reads => PortsLeft(TakePort(info, i), full, words \cup {Word(i)}, writes)
           /\ i \notin Reads => PortsLeft(TakePort(info, i), full, words, writes + 1)
<1> DEFINE R == info.rdAccesses
           w == Word(i)
<1>1. /\ info.rdPort \in 0..full.rdPort /\ info.wrPort \in 0..full.wrPort
      /\ info.rdwrPort \in 0..full.rdwrPort /\ R \in SUBSET AllWords /\ words \subseteq R
      /\ info \in [rdPort : 0..full.rdPort, wrPort : 0..full.wrPort,
                   rdwrPort : 0..full.rdwrPort, rdAccesses : SUBSET AllWords]
  BY DEF PortsLeft
<1>2. w \in AllWords /\ IsFiniteSet(R) /\ Cardinality(R) \in Nat
  BY <1>1, WordsFinite DEF AllWords
<1>3. w \notin R => Cardinality(R \cup {w}) = Cardinality(R) + 1
  BY <1>2, FS_AddElement
<1> HIDE DEF w
<1>4. CASE i \in Reads /\ w \in R
  <2>1. TakePort(info, i) = info
    BY <1>4 DEF TakePort, w
  <2> QED
    BY <1>4, <2>1 DEF PortsLeft, w
<1>5. CASE i \in Reads /\ w \notin R /\ info.rdPort > 0
  <2> DEFINE new == TakePort(info, i)
  <2>1. new = [info EXCEPT !.rdPort = @ - 1, !.rdAccesses = @ \cup {w}]
    BY <1>5 DEF TakePort, w
  <2>2. /\ new.rdPort = info.rdPort - 1 /\ new.wrPort = info.wrPort
        /\ new.rdwrPort = info.rdwrPort /\ new.rdAccesses = R \cup {w}
    BY <1>1, <2>1
  <2>3. info.rdPort - 1 \in 0..full.rdPort /\ R \cup {w} \in SUBSET AllWords
    BY <1>1, <1>2, <1>5
  <2>4. new \in [rdPort : 0..full.rdPort, wrPort : 0..full.wrPort,
                 rdwrPort : 0..full.rdwrPort, rdAccesses : SUBSET AllWords]
    BY <1>1, <2>1, <2>3
  <2> HIDE DEF new
  <2>5. PortsLeft(new, full, words \cup {w}, writes)
    BY <1>1, <1>2, <1>3, <1>5, <2>2, <2>3, <2>4 DEF PortsLeft
  <2> QED
    BY <1>5, <2>5 DEF new, w
<1>6. CASE i \in Reads /\ w \notin R /\ info.rdPort = 0
  <2> DEFINE new == TakePort(info, i)
  <2>1. new = [info EXCEPT !.rdwrPort = @ - 1, !.rdAccesses = @ \cup {w}]
    BY <1>1, <1>6 DEF TakePort, w
  <2>2. /\ new.rdPort = info.rdPort /\ new.wrPort = info.wrPort
        /\ new.rdwrPort = info.rdwrPort - 1 /\ new.rdAccesses = R \cup {w}
    BY <1>1, <2>1
  <2>3. info.rdwrPort > 0
    BY <1>1, <1>6 DEF HasPort, w
  <2>4. info.rdwrPort - 1 \in 0..full.rdwrPort /\ R \cup {w} \in SUBSET AllWords
    BY <1>1, <1>2, <2>3
  <2>5. new \in [rdPort : 0..full.rdPort, wrPort : 0..full.wrPort,
                 rdwrPort : 0..full.rdwrPort, rdAccesses : SUBSET AllWords]
    BY <1>1, <2>1, <2>4
  <2> HIDE DEF new
  <2>6. PortsLeft(new, full, words \cup {w}, writes)
    BY <1>1, <1>2, <1>3, <1>6, <2>2, <2>3, <2>5 DEF PortsLeft
  <2> QED
    BY <1>6, <2>6 DEF new, w
<1>7. CASE i \notin Reads /\ info.wrPort > 0
  <2> DEFINE new == TakePort(info, i)
  <2>1. new = [info EXCEPT !.wrPort = @ - 1]
    BY <1>7 DEF TakePort
  <2>2. /\ new.rdPort = info.rdPort /\ new.wrPort = info.wrPort - 1
        /\ new.rdwrPort = info.rdwrPort /\ new.rdAccesses = R
    BY <1>1, <2>1
  <2>3. info.wrPort - 1 \in 0..full.wrPort
    BY <1>1, <1>7
  <2>4. new \in [rdPort : 0..full.rdPort, wrPort : 0..full.wrPort,
                 rdwrPort : 0..full.rdwrPort, rdAccesses : SUBSET AllWords]
    BY <1>1, <2>1, <2>3
  <2> HIDE DEF new
  <2>5. PortsLeft(new, full, words, writes + 1)
    BY <1>1, <1>2, <1>7, <2>2, <2>4 DEF PortsLeft
  <2> QED
    BY <1>7, <2>5 DEF new
<1>8. CASE i \notin Reads /\ info.wrPort = 0
  <2> DEFINE new == TakePort(info, i)
  <2>1. new = [info EXCEPT !.rdwrPort = @ - 1]
    BY <1>1, <1>8 DEF TakePort
  <2>2. /\ new.rdPort = info.rdPort /\ new.wrPort = info.wrPort
        /\ new.rdwrPort = info.rdwrPort - 1 /\ new.rdAccesses = R
    BY <1>1, <2>1
  <2>3. info.rdwrPort > 0
    BY <1>1, <1>8 DEF HasPort
  <2>4. info.rdwrPort - 1 \in 0..full.rdwrPort
    BY <1>1, <2>3
  <2>5. new \in [rdPort : 0..full.rdPort, wrPort : 0..full.wrPort,
                 rdwrPort : 0..full.rdwrPort, rdAccesses : SUBSET AllWords]
    BY <1>1, <2>1, <2>4
  <2> HIDE DEF new
  <2>6. PortsLeft(new, full, words, writes + 1)
    BY <1>1, <1>2, <1>8, <2>2, <2>3, <2>5 DEF PortsLeft
  <2> QED
    BY <1>8, <2>6 DEF new
<1> QED
  BY <1>1, <1>4, <1>5, <1>6, <1>7, <1>8

\* Ports that were enough for more accesses are enough for fewer.
LEMMA FewerAccesses ==
    ASSUME NEW full, NEW info, NEW words, NEW writes \in Nat, NEW fewer \in SUBSET words,
           NEW less \in Nat, less <= writes, PortsLeft(info, full, words, writes),
           WellFormed(p), full.rdPort \in Nat, full.wrPort \in Nat, full.rdwrPort \in Nat
    PROVE  PortsLeft(info, full, fewer, less)
<1>1. Cardinality(info.rdAccesses) \in Nat
  BY WordsFinite DEF PortsLeft
<1>2. /\ info.rdPort \in 0..full.rdPort /\ info.wrPort \in 0..full.wrPort
      /\ info.rdwrPort \in 0..full.rdwrPort
  BY DEF PortsLeft
<1> QED
  BY <1>1, <1>2 DEF PortsLeft

\* The ports a cycle has left are those its accesses do not take.
LEMMA PortInfosAre ==
    ASSUME TypeInv, PortInv, NEW at \in Nat, NEW m \in DOMAIN p.memory
    PROVE  /\ DOMAIN PortInfosAt(at, m) = 1..p.memory[m].partitionNum
           /\ \A q \in 1..p.memory[m].partitionNum :
                 PortsLeft(PortInfosAt(at, m)[q], Full(m), WordsOf(Here(at, m, q)),
                           Cardinality(Here(at, m, q) \ Reads))
<1>1. CASE <<at, m>> \in DOMAIN memPortInfos
  BY <1>1 DEF PortInfosAt, PortInv
<1>2. CASE <<at, m>> \notin DOMAIN memPortInfos
  <2>1. PortInfosAt(at, m) = [q \in 1..p.memory[m].partitionNum |-> Full(m)]
    BY <1>2 DEF PortInfosAt, Full
  <2>2. \A q : Here(at, m, q) = {}
    BY <1>2 DEF Here, PortInv
  <2>3. Cardinality({}) = 0
    BY FS_EmptySet
  <2>4. Full(m) \in [rdPort : 0..Full(m).rdPort, wrPort : 0..Full(m).wrPort,
                     rdwrPort : 0..Full(m).rdwrPort, rdAccesses : SUBSET AllWords]
    <3>1. /\ Full(m).rdPort \in 0..Full(m).rdPort /\ Full(m).wrPort \in 0..Full(m).wrPort
          /\ Full(m).rdwrPort \in 0..Full(m).rdwrPort /\ Full(m).rdAccesses = {}
          /\ Full(m) \in [rdPort : Nat, wrPort : Nat, rdwrPort : Nat, rdAccesses : {{}}]
      BY FullIs
    <3> QED
      BY <3>1
  <2>5. Full(m).rdAccesses = {}
    BY FullIs
  <2>6. WordsOf({}) = {}
    BY DEF WordsOf
  <2>7. PortsLeft(Full(m), Full(m), {}, 0)
    <3>1. Full(m).rdPort \in Nat /\ Full(m).wrPort \in Nat /\ Full(m).rdwrPort \in Nat
      BY FullIs
    <3> QED
      BY <2>3, <2>4, <2>5, <3>1 DEF PortsLeft
  <2> QED
    BY <2>1, <2>2, <2>3, <2>6, <2>7
<1> QED
  BY <1>1, <1>2

\* A round of the search leaves ports for what is scheduled, and, when it finds all
\* partitions of the access with a port, for the access as well.
LEMMA TakenLeaves ==
    ASSUME TypeInv, PortInv, NEW i \in Accesses, NEW at \in Nat, NEW m, m = p.ops[i].memref,
           NEW infos, infos = PortInfosAt(at, m), NEW q \in 1..p.memory[m].partitionNum,
           NEW words, words = WordsOf(Here(at, m, q)),
           NEW writes, writes = Cardinality(Here(at, m, q) \ Reads)
    PROVE  /\ PortsLeft(Taken(infos, i)[q], Full(m), words, writes)
           /\ Missing(infos, i) = {} /\ q \in p.ops[i].partitions =>
                 /\ i \in Reads =>
                       PortsLeft(Taken(infos, i)[q], Full(m), words \cup {Word(i)}, writes)
                 /\ i \notin Reads => PortsLeft(Taken(infos, i)[q], Full(m), words, writes + 1)
<1>1. WellFormed(p) /\ i \in Ops /\ i \in Leaves
  BY KindsApart DEF TypeInv, Leaves
<1>2. m \in DOMAIN p.memory /\ p.ops[i].partitions \subseteq 1..p.memory[m].partitionNum
  BY <1>1 DEF WellFormed, Accesses, Reads, Ops
<1>3. DOMAIN infos = 1..p.memory[m].partitionNum /\ PortsLeft(infos[q], Full(m), words, writes)
  BY <1>2, PortInfosAre
<1>4. writes \in Nat /\ Full(m).rdPort \in Nat /\ Full(m).wrPort \in Nat /\ Full(m).rdwrPort \in Nat
  BY HereFinite, FullIs
<1>5. CASE q \in p.ops[i].partitions /\ \A f \in Missing(infos, i) : q < f
  <2>1. q \in Nat
    OBVIOUS
  <2>2. q \notin Missing(infos, i)
    BY <1>5, <2>1
  <2>3. HasPort(infos[q], i)
    BY <1>5, <2>2 DEF Missing
  <2>4. Taken(infos, i)[q] = TakePort(infos[q], i)
    BY <1>3, <1>5 DEF Taken
  <2>5. /\ i \in Reads => PortsLeft(TakePort(infos[q], i), Full(m), words \cup {Word(i)}, writes)
        /\ i \notin Reads => PortsLeft(TakePort(infos[q], i), Full(m), words, writes + 1)
    BY <1>1, <1>3, <1>4, <2>3, TakePortLeaves
  <2>6. PortsLeft(TakePort(infos[q], i), Full(m), words, writes)
    <3>1. writes <= writes /\ writes <= writes + 1 /\ writes + 1 \in Nat
      BY <1>4
    <3>2. CASE i \in Reads
      BY <1>1, <1>4, <2>5, <3>1, <3>2, FewerAccesses
    <3>3. CASE i \notin Reads
      BY <1>1, <1>4, <2>5, <3>1, <3>3, FewerAccesses
    <3> QED
      BY <3>2, <3>3
  <2> QED
    BY <2>4, <2>5, <2>6
<1>6. CASE ~(q \in p.ops[i].partitions /\ \A f \in Missing(infos, i) : q < f)
  <2>1. Taken(infos, i)[q] = infos[q]
    BY <1>3, <1>6 DEF Taken
  <2> QED
    BY <1>3, <1>6, <2>1
<1> QED
  BY <1>5, <1>6

\* Neither what is scheduled without ports nor a function that stays the same changes
\* what the ports are used for.
LEMMA PortsKept ==
    ASSUME TypeInv, PortInv, UNCHANGED <<p, memPortInfos>>,
           DOMAIN timing \subseteq DOMAIN timing',
           \A j \in DOMAIN timing : timing'[j] = timing[j],
           \A j \in DOMAIN timing' \ DOMAIN timing : ~(j \in Accesses /\ ~Memory(j).single)
    PROVE  PortInv'
<1>1. /\ Accesses' = Accesses /\ Reads' = Reads /\ Ops' = Ops
      /\ \A i : Memory(i)' = Memory(i) /\ Word(i)' = Word(i)
  BY FunctionKept
<1>2. \A at, m, q : Here(at, m, q)' = Here(at, m, q)
  BY <1>1 DEF Here
<1>3. \A S : WordsOf(S)' = WordsOf(S)
  BY <1>1 DEF WordsOf
<1>4. AllWords' = AllWords /\ \A m : Full(m)' = Full(m)
  BY <1>1 DEF AllWords, Full
<1>5. \A info, full, words, writes :
         PortsLeft(info, full, words, writes) <=> PortsLeft(info, full, words, writes)'
  BY <1>4 DEF PortsLeft
<1>6. \A i \in DOMAIN timing' :
          i \in Accesses /\ ~Memory(i).single =>
              <<timing'[i].begin, p.ops[i].memref>> \in DOMAIN memPortInfos
  BY DEF PortInv
<1>7. \A at, m, q : /\ WordsOf(Here(at, m, q))' = WordsOf(Here(at, m, q))
                    /\ Cardinality(Here(at, m, q) \ Reads)' = Cardinality(Here(at, m, q) \ Reads)
  BY <1>1, <1>2 DEF WordsOf
<1>8. ASSUME NEW at \in Nat, NEW m \in DOMAIN p.memory, <<at, m>> \in DOMAIN memPortInfos,
             NEW q \in 1..p.memory[m].partitionNum
      PROVE  PortsLeft(memPortInfos[<<at, m>>][q], Full(m), WordsOf(Here(at, m, q)),
                       Cardinality(Here(at, m, q) \ Reads))'
  <2>1. PortsLeft(memPortInfos[<<at, m>>][q], Full(m), WordsOf(Here(at, m, q)),
                  Cardinality(Here(at, m, q) \ Reads))
    BY <1>8 DEF PortInv
  <2>2. Full(m)' = Full(m) /\ memPortInfos[<<at, m>>][q]' = memPortInfos[<<at, m>>][q]
    BY <1>4
  <2>3. /\ WordsOf(Here(at, m, q))' = WordsOf(Here(at, m, q))
        /\ Cardinality(Here(at, m, q) \ Reads)' = Cardinality(Here(at, m, q) \ Reads)
    BY <1>7
  <2> QED
    BY <1>4, <2>1, <2>2, <2>3 DEF PortsLeft
<1>9. \A at \in Nat, m \in DOMAIN p.memory :
         <<at, m>> \in DOMAIN memPortInfos =>
             DOMAIN memPortInfos[<<at, m>>] = 1..p.memory[m].partitionNum
  BY DEF PortInv
<1> QED
  BY <1>1, <1>6, <1>8, <1>9 DEF PortInv

\* An access is placed where a port is free.
LEMMA AccessPorts == ASSUME TimeInv, PortInv, ScheduleAccess PROVE PortInv'
<1> DEFINE i == Op
           m == p.ops[Op].memref
           at == IF level = NoLevel THEN OpBegin(Op) ELSE level
           infos == PortInfosAt(at, m)
           taken == Taken(infos, i)
<1>1. /\ TypeInv /\ WellFormed(p) /\ i \in Accesses /\ ~Memory(i).single /\ i \in Ops
      /\ i \notin DOMAIN timing /\ Scheduling /\ UNCHANGED p
  BY OpIsLast DEF ScheduleAccess, Scheduling, TimeInv, TypeInv
<1>2. at \in Nat
  BY <1>1, LevelTried
<1>3. /\ m \in DOMAIN p.memory /\ m = p.ops[i].memref
      /\ p.ops[i].partitions \subseteq 1..p.memory[m].partitionNum
  BY <1>1 DEF WellFormed, Accesses, Reads, Ops
<1>4. TryLevel(at, infos)
  BY DEF ScheduleAccess
<1> HIDE DEF i, m, at, infos
<1>5. /\ DOMAIN memPortInfos' = DOMAIN memPortInfos \cup {<<at, m>>}
      /\ memPortInfos'[<<at, m>>] = taken
      /\ \A x \in DOMAIN memPortInfos : x # <<at, m>> => memPortInfos'[x] = memPortInfos[x]
  BY <1>4 DEF TryLevel, Insert, i, m
<1>6. /\ Accesses' = Accesses /\ Reads' = Reads /\ Ops' = Ops
      /\ (\A j : Memory(j)' = Memory(j) /\ Word(j)' = Word(j))
      /\ AllWords' = AllWords /\ (\A k : Full(k)' = Full(k))
      /\ (\A S : WordsOf(S)' = WordsOf(S))
  BY <1>1, FunctionKept DEF AllWords, Full, WordsOf
<1>7. DOMAIN taken = 1..p.memory[m].partitionNum
  BY <1>1, <1>2, <1>3, PortInfosAre DEF Taken, infos
<1> HIDE DEF taken
<1>8. /\ \A j \in DOMAIN timing : j \in DOMAIN timing' /\ timing'[j] = timing[j]
      /\ Missing(infos, i) # {} => DOMAIN timing' = DOMAIN timing
      /\ Missing(infos, i) = {} => DOMAIN timing' = DOMAIN timing \cup {i} /\ timing'[i].begin = at
  <2>1. CASE Missing(infos, i) # {}
    BY <1>4, <2>1 DEF TryLevel, i
  <2>2. CASE Missing(infos, i) = {}
    <3>1. timing' = Insert(timing, i, [begin |-> at, end |-> at + Latency(i)])
      BY <1>4, <2>2 DEF TryLevel, SetTiming, i
    <3> QED
      BY <1>1, <2>2, <3>1 DEF Insert
  <2> QED
    BY <2>1, <2>2
<1>9. ASSUME NEW v \in Nat, NEW k \in DOMAIN p.memory, <<v, k>> \in DOMAIN memPortInfos',
             NEW q \in 1..p.memory[k].partitionNum
      PROVE  /\ DOMAIN memPortInfos'[<<v, k>>] = 1..p.memory[k].partitionNum
             /\ PortsLeft(memPortInfos'[<<v, k>>][q], Full(k), WordsOf(Here(v, k, q)'),
                          Cardinality(Here(v, k, q)' \ Reads))
  <2> DEFINE H == Here(v, k, q)
             New == Missing(infos, i) = {} /\ v = at /\ k = m /\ q \in p.ops[i].partitions
  <2>1. H' = IF New THEN H \cup {i} ELSE H
    BY <1>1, <1>3, <1>6, <1>8 DEF Here
  <2>2. i \notin H /\ IsFiniteSet(H \ Reads) /\ Cardinality(H \ Reads) \in Nat
    <3>1. i \notin H
      BY <1>1 DEF Here
    <3>2. IsFiniteSet(H \ Reads) /\ Cardinality(H \ Reads) \in Nat
      BY <1>1, HereFinite
    <3> QED
      BY <3>1, <3>2
  <2> HIDE DEF H
  <2>3. CASE <<v, k>> # <<at, m>>
    <3>1. ~New /\ <<v, k>> \in DOMAIN memPortInfos /\ memPortInfos'[<<v, k>>] = memPortInfos[<<v, k>>]
      BY <1>5, <1>9, <2>3
    <3>2. H' = H
      BY <2>1, <3>1
    <3> QED
      BY <3>1, <3>2 DEF PortInv, H
  <2>4. CASE <<v, k>> = <<at, m>>
    <3>1. /\ PortsLeft(taken[q], Full(m), WordsOf(H), Cardinality(H \ Reads))
          /\ Missing(infos, i) = {} /\ q \in p.ops[i].partitions =>
                /\ i \in Reads =>
                     PortsLeft(taken[q], Full(m), WordsOf(H) \cup {Word(i)}, Cardinality(H \ Reads))
                /\ i \notin Reads =>
                     PortsLeft(taken[q], Full(m), WordsOf(H), Cardinality(H \ Reads) + 1)
      BY <1>1, <1>2, <1>3, <2>4, TakenLeaves DEF taken, infos, H
    <3>2. CASE ~New
      BY <1>5, <1>7, <2>1, <2>4, <3>1, <3>2 DEF H
    <3>3. CASE New /\ i \in Reads
      <4>1. WordsOf(H \cup {i}) = WordsOf(H) \cup {Word(i)} /\ (H \cup {i}) \ Reads = H \ Reads
        BY <3>3 DEF WordsOf
      <4> QED
        BY <1>5, <1>7, <2>1, <2>4, <3>1, <3>3, <4>1 DEF H
    <3>4. CASE New /\ i \notin Reads
      <4>1. WordsOf(H \cup {i}) = WordsOf(H) /\ (H \cup {i}) \ Reads = (H \ Reads) \cup {i}
        BY <3>4 DEF WordsOf
      <4>2. Cardinality((H \ Reads) \cup {i}) = Cardinality(H \ Reads) + 1
        BY <2>2, FS_AddElement
      <4> QED
        BY <1>5, <1>7, <2>1, <2>4, <3>1, <3>4, <4>1, <4>2 DEF H
    <3> QED
      BY <3>2, <3>3, <3>4
  <2> QED
    BY <2>3, <2>4
<1>10. \A v \in Nat, k \in DOMAIN p.memory :
          <<v, k>> \in DOMAIN memPortInfos' =>
              DOMAIN memPortInfos'[<<v, k>>] = 1..p.memory[k].partitionNum
  BY <1>5, <1>7 DEF PortInv
<1>11. \A j \in DOMAIN timing' :
          j \in Accesses /\ ~Memory(j).single =>
              <<timing'[j].begin, p.ops[j].memref>> \in DOMAIN memPortInfos'
  <2> SUFFICES ASSUME NEW j \in DOMAIN timing', j \in Accesses, ~Memory(j).single
               PROVE  <<timing'[j].begin, p.ops[j].memref>> \in DOMAIN memPortInfos'
    OBVIOUS
  <2>1. CASE j \in DOMAIN timing
    BY <1>5, <1>8, <2>1 DEF PortInv
  <2>2. CASE j \notin DOMAIN timing
    BY <1>3, <1>5, <1>8, <2>2
  <2> QED
    BY <2>1, <2>2
<1>12. ASSUME NEW v \in Nat, NEW k \in DOMAIN p.memory, <<v, k>> \in DOMAIN memPortInfos',
              NEW q \in 1..p.memory[k].partitionNum
       PROVE  PortsLeft(memPortInfos[<<v, k>>][q], Full(k), WordsOf(Here(v, k, q)),
                        Cardinality(Here(v, k, q) \ Reads))'
  <2>1. PortsLeft(memPortInfos'[<<v, k>>][q], Full(k), WordsOf(Here(v, k, q)'),
                  Cardinality(Here(v, k, q)' \ Reads))
    BY <1>9, <1>12
  <2>2. /\ WordsOf(Here(v, k, q))' = WordsOf(Here(v, k, q)') /\ Full(k)' = Full(k)
        /\ Cardinality(Here(v, k, q) \ Reads)' = Cardinality(Here(v, k, q)' \ Reads)
    BY <1>6 DEF WordsOf
  <2> QED
    BY <1>6, <2>1, <2>2 DEF PortsLeft
<1> QED
  BY <1>1, <1>6, <1>10, <1>11, <1>12 DEF PortInv

\* No port is taken at the start.
LEMMA PortInit == Init => PortInv
<1> SUFFICES ASSUME Init PROVE PortInv
  OBVIOUS
<1>1. DOMAIN timing = {} /\ DOMAIN memPortInfos = {}
  BY DEF Init
<1> QED
  BY <1>1 DEF PortInv

\* Every step keeps that account.
LEMMA PortStep == TimeInv /\ PortInv /\ [Next]_vars => PortInv'
<1> SUFFICES ASSUME TimeInv, PortInv, [Next]_vars PROVE PortInv'
  OBVIOUS
<1>0. TypeInv /\ OrderInv
  BY DEF TimeInv
<1>1. CASE ScheduleAccess
  BY <1>1, AccessPorts
<1>2. CASE ScheduleOperator
  <2>1. /\ Remaining(block) # {} /\ (Op \in Accesses => Memory(Op).single)
        /\ UNCHANGED <<p, memPortInfos>>
        /\ timing' = Insert(timing, Op, [begin |-> OpBegin(Op), end |-> OpBegin(Op) + Latency(Op)])
    BY <1>2 DEF ScheduleOperator, Scheduling, SetTiming
  <2>2. Op \notin DOMAIN timing
    BY <1>0, <2>1, OpIsLast
  <2> HIDE DEF Op
  <2>3. /\ DOMAIN timing' = DOMAIN timing \cup {Op}
        /\ \A j \in DOMAIN timing : timing'[j] = timing[j]
    BY <2>1, <2>2 DEF Insert
  <2> QED
    BY <1>0, <2>1, <2>3, PortsKept
<1>3. CASE LeaveLoop
  <2>1. block # 0 /\ UNCHANGED <<p, memPortInfos>> /\ \E t : timing' = Insert(timing, block, t)
    BY <1>3 DEF LeaveLoop, SetTiming
  <2>2. block \in Loops /\ block \notin Accesses /\ block \notin DOMAIN timing
    BY <1>0, <2>1, OpenBlock, KindsApart DEF OrderInv
  <2>3. /\ DOMAIN timing' = DOMAIN timing \cup {block}
        /\ \A j \in DOMAIN timing : timing'[j] = timing[j]
    BY <2>1, <2>2 DEF Insert
  <2> QED
    BY <1>0, <2>1, <2>2, <2>3, PortsKept
<1>4. CASE EnterLoop \/ Finish \/ UNCHANGED vars
  <2>1. UNCHANGED <<p, memPortInfos, timing>>
    BY <1>4 DEF EnterLoop, Finish, vars
  <2> QED
    BY <1>0, <2>1, PortsKept
<1> QED
  BY <1>1, <1>2, <1>3, <1>4 DEF Next

-----------------------------------------------------------------------------
(* The schedule places the operations within the ports. *)

\* On every level that was used, what is placed fits the ports of each bank.
FitsInv ==
    \A at \in Nat, m \in DOMAIN p.memory :
        <<at, m>> \in DOMAIN memPortInfos =>
            \A q \in 1..p.memory[m].partitionNum : Schedule!Fits(<<m, q>>, at)

\* The accesses of a cycle fit its ports.
LEMMA HereFits ==
    ASSUME TypeInv, PortInv, NEW at \in Nat, NEW m \in DOMAIN p.memory,
           <<at, m>> \in DOMAIN memPortInfos, NEW q \in 1..p.memory[m].partitionNum
    PROVE  LET reads  == Cardinality(WordsOf(Here(at, m, q)))
               writes == Cardinality(Here(at, m, q) \ Reads)
           IN  /\ reads \in Nat /\ writes \in Nat
               /\ reads <= Full(m).rdPort + Full(m).rdwrPort
               /\ writes <= Full(m).wrPort + Full(m).rdwrPort
               /\ reads + writes <= Full(m).rdPort + Full(m).wrPort + Full(m).rdwrPort
<1> DEFINE info   == memPortInfos[<<at, m>>][q]
           words  == WordsOf(Here(at, m, q))
           reads  == Cardinality(words)
           writes == Cardinality(Here(at, m, q) \ Reads)
           full   == Full(m)
<1>1. PortsLeft(info, full, words, writes) /\ WellFormed(p)
  BY DEF PortInv, TypeInv
<1>2. writes \in Nat /\ full.rdPort \in Nat /\ full.wrPort \in Nat /\ full.rdwrPort \in Nat
  BY HereFinite, FullIs
<1>3. info.rdAccesses \subseteq AllWords /\ words \subseteq info.rdAccesses
  BY <1>1 DEF PortsLeft
<1>4. /\ reads \in Nat /\ Cardinality(info.rdAccesses) \in Nat
      /\ reads <= Cardinality(info.rdAccesses)
  BY <1>1, <1>3, WordsFinite, FS_Subset
<1> HIDE DEF info, words, writes, full, reads
<1>5. /\ info.rdPort \in 0..full.rdPort /\ info.wrPort \in 0..full.wrPort
      /\ info.rdwrPort \in 0..full.rdwrPort
  BY <1>1 DEF PortsLeft
<1>6. /\ reads <= full.rdPort + full.rdwrPort /\ writes <= full.wrPort + full.rdwrPort
      /\ reads + writes <= full.rdPort + full.wrPort + full.rdwrPort
  <2> DEFINE n == Cardinality(info.rdAccesses)
             a == full.rdPort - info.rdPort
             b == full.wrPort - info.wrPort
             c == full.rdwrPort - info.rdwrPort
  <2>1. n <= a + c /\ writes <= b + c /\ n + writes <= a + b + c
    BY <1>1 DEF PortsLeft
  <2>2. /\ a \in Nat /\ b \in Nat /\ c \in Nat
        /\ a <= full.rdPort /\ b <= full.wrPort /\ c <= full.rdwrPort
    BY <1>2, <1>5
  <2> HIDE DEF n, a, b, c
  <2>3. reads <= n /\ n \in Nat /\ reads \in Nat
    BY <1>4 DEF n
  <2> QED
    BY <1>2, <2>1, <2>2, <2>3
<1> QED
  BY <1>2, <1>4, <1>6 DEF reads, words, writes, full

\* The scheduling problem of the function: an access needs a port of each bank of its memory.
LEMMA BanksAre ==
    ASSUME WellFormed(p), NEW i \in Leaves
    PROVE  /\ Problem.ops = Leaves /\ Problem.reads = Reads
           /\ Problem.latency[i] = Latency(i) /\ Problem.word[i] = Word(i)
           /\ \A m, q : <<m, q>> \in Problem.banks[i] <=>
                 i \in Accesses /\ ~Memory(i).single /\ p.ops[i].memref = m /\ q \in p.ops[i].partitions
           /\ \A bank \in Problem.banks[i] :
                 /\ i \in Accesses /\ ~Memory(i).single /\ p.ops[i].memref \in DOMAIN p.memory
                 /\ \E q \in p.ops[i].partitions :
                       /\ q \in 1..p.memory[p.ops[i].memref].partitionNum
                       /\ bank = <<p.ops[i].memref, q>>
<1>1. Problem.banks[i] = IF i \in Accesses /\ ~Memory(i).single
                         THEN {<<p.ops[i].memref, q>> : q \in p.ops[i].partitions} ELSE {}
  BY DEF Problem
<1>2. i \in Accesses =>
         /\ p.ops[i].memref \in DOMAIN p.memory
         /\ p.ops[i].partitions \subseteq 1..p.memory[p.ops[i].memref].partitionNum
  BY DEF WellFormed, Accesses, Reads, Ops
<1>3. Problem.ops = Leaves /\ Problem.reads = Reads
      /\ Problem.latency[i] = Latency(i) /\ Problem.word[i] = Word(i)
  BY DEF Problem
<1> QED
  BY <1>1, <1>2, <1>3

\* So the schedule fits the ports,
LEMMA PortsFit == TypeInv /\ PortInv => FitsInv
<1> SUFFICES ASSUME TypeInv, PortInv, NEW at \in Nat, NEW m \in DOMAIN p.memory,
                    <<at, m>> \in DOMAIN memPortInfos, NEW q \in 1..p.memory[m].partitionNum
             PROVE  Schedule!Fits(<<m, q>>, at)
  BY DEF FitsInv
<1> DEFINE placed == [i \in DOMAIN timing \cap Leaves |-> timing[i]]
           here   == {i \in DOMAIN placed : placed[i].begin = at /\ <<m, q>> \in Problem.banks[i]}
           words  == {Problem.word[i] : i \in here \cap Problem.reads}
<1>1. WellFormed(p) /\ DOMAIN timing \subseteq Ops
  BY DEF TypeInv
<1>2. here = Here(at, m, q)
  BY <1>1, BanksAre, KindsApart DEF Here
<1>3. words = WordsOf(Here(at, m, q))
  <2>1. Here(at, m, q) \subseteq Leaves
    BY KindsApart DEF Here
  <2>2. Problem.reads = Reads /\ \A i \in Leaves : Problem.word[i] = Word(i)
    BY DEF Problem
  <2> HIDE DEF here
  <2> QED
    BY <1>2, <2>1, <2>2 DEF WordsOf
<1>4. Problem.ports[<<m, q>>] =
         [rd |-> Full(m).rdPort, wr |-> Full(m).wrPort, rdwr |-> Full(m).rdwrPort]
  BY DEF Problem, Full
<1>5. Problem.reads = Reads
  BY DEF Problem
<1> HIDE DEF here, words
<1>6. /\ Cardinality(words) <= Problem.ports[<<m, q>>].rd + Problem.ports[<<m, q>>].rdwr
      /\ Cardinality(here \ Problem.reads)
            <= Problem.ports[<<m, q>>].wr + Problem.ports[<<m, q>>].rdwr
      /\ Cardinality(words) + Cardinality(here \ Problem.reads)
            <= Problem.ports[<<m, q>>].rd + Problem.ports[<<m, q>>].wr
               + Problem.ports[<<m, q>>].rdwr
  BY <1>2, <1>3, <1>4, <1>5, HereFits
<1>7. \A S : Schedule!Cardinality(S) = Cardinality(S)
  BY DEF Schedule!Cardinality, Cardinality
<1> QED
  BY <1>6, <1>7 DEF Schedule!Fits, here, words

\* before a step and after it.
LEMMA PortsFitNext == TypeInv' /\ PortInv' => FitsInv'
BY PortsFit, PTL

\* Placing an op is a step of PortSchedule.
LEMMA PlaceMaps ==
    ASSUME TimeInv, TimeInv', PortInv', Remaining(block) # {}, Op \in Leaves, UNCHANGED p,
           NEW at, timing' = Insert(timing, Op, [begin |-> at, end |-> at + Latency(Op)])
    PROVE  Schedule!Next
<1> DEFINE placed == [j \in DOMAIN timing \cap Leaves |-> timing[j]]
<1>0. PICK i : i = Op
  OBVIOUS
<1>1. /\ TypeInv /\ WellFormed(p) /\ i \in Ops /\ i \in Leaves /\ i \notin DOMAIN timing
      /\ UNCHANGED p
  BY <1>0, OpIsLast DEF TimeInv, TypeInv
<1>2. /\ Leaves' = Leaves /\ Ops' = Ops /\ Problem' = Problem
  BY FunctionKept, DependencesKept
<1>3. /\ DOMAIN timing' = DOMAIN timing \cup {i}
      /\ timing'[i] = [begin |-> at, end |-> at + Latency(i)]
      /\ \A j \in DOMAIN timing : timing'[j] = timing[j]
  BY <1>0, <1>1 DEF Insert
<1>4. /\ DOMAIN placed = DOMAIN timing \cap Leaves
      /\ DOMAIN placed' = (DOMAIN timing \cap Leaves) \cup {i}
      /\ \A j \in DOMAIN placed : placed[j] = timing[j] /\ placed'[j] = timing[j]
      /\ placed'[i] = [begin |-> at, end |-> at + Latency(i)]
  BY <1>1, <1>2, <1>3
<1>5. at \in Nat /\ placed'[i].begin = at
  <2>1. timing'[i].begin \in Nat
    BY <1>3 DEF TimeInv, TypeInv
  <2> QED
    BY <1>3, <1>4, <2>1
<1>6. placed' = [j \in DOMAIN placed \cup {i} |->
                    IF j = i THEN [begin |-> at, end |-> at + Problem.latency[i]] ELSE placed[j]]
  <2>1. Problem.latency[i] = Latency(i)
    BY <1>1, BanksAre
  <2>2. placed' = [j \in DOMAIN placed' |-> placed'[j]]
    BY <1>2
  <2> HIDE DEF placed
  <2>3. \A j \in DOMAIN placed' : placed'[j] =
            IF j = i THEN [begin |-> at, end |-> at + Problem.latency[i]] ELSE placed[j]
    BY <1>4, <2>1
  <2> QED
    BY <1>4, <2>2, <2>3
<1>7. ASSUME NEW j \in Problem.ops, <<i, j>> \in Problem.after
      PROVE  j \in DOMAIN placed /\ placed[j].end <= at
  <2>1. j \in Leaves
    BY <1>1, <1>7, BanksAre
  <2>2. j # i
    <3>1. PICK k \in Nest[j], h \in Nest[i] : p.ops[h].parent = p.ops[k].parent /\ h < k
      BY <1>1, <1>7, <2>1, AfterFollows
    <3>2. j = i => h = k /\ k \in Nat
      BY <1>1, <3>1, NestOnePerBlock, NestBounds, OpsAreNumbered
    <3> QED
      BY <3>1, <3>2
  <2>3. j \in DOMAIN timing' /\ timing'[j].end <= timing'[i].begin
    BY <1>1, <1>2, <1>3, <1>7, <2>1 DEF TimeInv, SuccessorInv
  <2>4. j \in DOMAIN timing /\ timing'[j] = timing[j] /\ timing'[i].begin = at
    BY <1>3, <2>2, <2>3
  <2> QED
    BY <1>4, <2>1, <2>3, <2>4
<1>8. ASSUME NEW bank \in Problem.banks[i]
      PROVE  Schedule!Fits(bank, at)'
  <2>1. /\ i \in Accesses /\ ~Memory(i).single /\ p.ops[i].memref \in DOMAIN p.memory
        /\ \E q \in p.ops[i].partitions :
              q \in 1..p.memory[p.ops[i].memref].partitionNum /\ bank = <<p.ops[i].memref, q>>
    BY <1>1, BanksAre
  <2>2. PICK q \in 1..p.memory[p.ops[i].memref].partitionNum : bank = <<p.ops[i].memref, q>>
    BY <2>1
  <2>3. Accesses' = Accesses /\ Memory(i)' = Memory(i)
    BY FunctionKept
  <2>4. <<at, p.ops[i].memref>> \in DOMAIN memPortInfos'
    BY <1>3, <2>1, <2>3 DEF PortInv
  <2>5. FitsInv'
    BY PortsFitNext DEF TimeInv
  <2> QED
    BY <1>5, <2>1, <2>2, <2>4, <2>5 DEF FitsInv
<1>9. \A bank \in Problem.banks[i] : Schedule!Fits(bank, placed[i].begin)'
  BY <1>5, <1>8
<1>10. i \in DOMAIN placed' \ DOMAIN placed
  BY <1>1, <1>4
<1> HIDE DEF placed
<1>11. /\ i \in DOMAIN placed' \ DOMAIN placed /\ placed'[i].begin \in Nat
       /\ placed' = [j \in DOMAIN placed \cup {i} |->
                       IF j = i THEN [begin |-> placed'[i].begin,
                                      end |-> placed'[i].begin + Problem.latency[i]]
                       ELSE placed[j]]
       /\ \A j \in Problem.ops :
             <<i, j>> \in Problem.after => j \in DOMAIN placed /\ placed[j].end <= placed'[i].begin
  BY <1>5, <1>6, <1>7, <1>10
<1>12. Schedule!Place(i)
  BY <1>2, <1>9, <1>11 DEF Schedule!Place, placed
<1> QED
  BY <1>1, <1>12, BanksAre DEF Schedule!Next

\* Every step of the estimation is one of PortSchedule or none.
LEMMA StepMaps == TimeInv /\ TimeInv' /\ PortInv' /\ [Next]_vars => [Schedule!Next]_Schedule!vars
<1> SUFFICES ASSUME TimeInv, TimeInv', PortInv', [Next]_vars
             PROVE  Schedule!Next \/ UNCHANGED Schedule!vars
  OBVIOUS
<1>0. TypeInv /\ OrderInv /\ WellFormed(p)
  BY DEF TimeInv, TypeInv
<1>1. ASSUME Remaining(block) # {}, Op \in Leaves, UNCHANGED p,
             NEW at, timing' = Insert(timing, Op, [begin |-> at, end |-> at + Latency(Op)])
      PROVE  Schedule!Next
  BY <1>1, PlaceMaps
<1>2. ASSUME UNCHANGED p, DOMAIN timing' \cap Leaves = DOMAIN timing \cap Leaves,
             \A j \in DOMAIN timing : timing'[j] = timing[j]
      PROVE  UNCHANGED Schedule!vars
  <2>1. Problem' = Problem /\ Leaves' = Leaves
    BY <1>2, FunctionKept, DependencesKept
  <2> QED
    BY <1>2, <2>1 DEF Schedule!vars
<1>3. CASE ScheduleOperator
  <2>1. /\ Remaining(block) # {} /\ Op \notin Loops /\ UNCHANGED p
        /\ timing' = Insert(timing, Op, [begin |-> OpBegin(Op), end |-> OpBegin(Op) + Latency(Op)])
    BY <1>3 DEF ScheduleOperator, Scheduling, SetTiming
  <2>2. Op \in Leaves
    BY <1>0, <2>1, OpIsLast DEF Leaves
  <2> QED
    BY <1>1, <2>1, <2>2
<1>4. CASE ScheduleAccess
  <2> DEFINE at == IF level = NoLevel THEN OpBegin(Op) ELSE level
             infos == PortInfosAt(at, p.ops[Op].memref)
  <2>1. Remaining(block) # {} /\ Op \in Leaves /\ UNCHANGED p /\ TryLevel(at, infos)
    BY <1>4, KindsApart DEF ScheduleAccess, Scheduling
  <2> HIDE DEF at, infos
  <2>2. CASE Missing(infos, Op) = {}
    <3>1. timing' = Insert(timing, Op, [begin |-> at, end |-> at + Latency(Op)])
      BY <2>1, <2>2 DEF TryLevel, SetTiming
    <3> QED
      BY <1>1, <2>1, <3>1
  <2>3. CASE Missing(infos, Op) # {}
    BY <1>2, <2>1, <2>3 DEF TryLevel
  <2> QED
    BY <2>2, <2>3
<1>5. CASE LeaveLoop
  <2>1. block # 0 /\ UNCHANGED p /\ \E t : timing' = Insert(timing, block, t)
    BY <1>5 DEF LeaveLoop, SetTiming
  <2>2. block \notin Leaves /\ block \notin DOMAIN timing
    BY <1>0, <2>1, OpenBlock DEF OrderInv, Leaves
  <2>3. /\ DOMAIN timing' = DOMAIN timing \cup {block}
        /\ \A j \in DOMAIN timing : timing'[j] = timing[j]
    BY <2>1, <2>2 DEF Insert
  <2> QED
    BY <1>2, <2>1, <2>2, <2>3
<1>6. CASE EnterLoop \/ Finish \/ UNCHANGED vars
  <2>1. UNCHANGED <<p, timing>>
    BY <1>6 DEF EnterLoop, Finish, vars
  <2> QED
    BY <1>2, <2>1
<1> QED
  BY <1>3, <1>4, <1>5, <1>6 DEF Next

\* The estimation starts where PortSchedule does.
LEMMA InitMaps == Init => Schedule!Init
<1> SUFFICES ASSUME Init PROVE Schedule!Init
  OBVIOUS
<1>1. timing = << >> /\ WellFormed(p)
  BY DEF Init
<1>2. [j \in DOMAIN timing \cap Leaves |-> timing[j]] = << >>
  BY <1>1
<1>3. Problem.after \subseteq Problem.ops \X Problem.ops
  BY DEF Problem
<1>4. Problem.reads \subseteq Problem.ops
  BY KindsApart DEF Problem
<1>5. DOMAIN Problem.latency = Problem.ops /\ DOMAIN Problem.banks = Problem.ops
      /\ DOMAIN Problem.word = Problem.ops
  BY DEF Problem
<1> QED
  BY <1>2, <1>3, <1>4, <1>5 DEF Schedule!Init, Schedule!IsProblem

\* The schedule from the last operation to the first, each as late as its successors and
\* the ports it finds allow, is a placement of the accesses and operators after all that
\* must follow them, on levels that have the ports for them.
THEOREM SchedulePlacesWithinPorts == Spec => ImplementsPortSchedule
<1>1. Spec => []PortInv
  BY PortInit, PortStep, ScheduleInOrder, PTL DEF Spec
<1> QED
  BY <1>1, InitMaps, StepMaps, ScheduleInOrder, PTL
     DEF Spec, ImplementsPortSchedule, Schedule!Spec

-----------------------------------------------------------------------------
(* The intervals of pipelined loops *)

\* What is scheduled stays as it is; a loop that is scheduled is the one that is left.
LEMMA StepExtends ==
    ASSUME TimeInv, [Next]_vars
    PROVE  /\ UNCHANGED p
           /\ \A j \in DOMAIN timing : j \in DOMAIN timing' /\ timing'[j] = timing[j]
           /\ \A l \in DOMAIN loopInfo : loopInfo'[l] = loopInfo[l]
           /\ \A l \in DOMAIN loopInfo' :
                 l \notin DOMAIN loopInfo =>
                     /\ l = block /\ block # 0 /\ Remaining(block) = {}
                     /\ loopInfo'[l] = LoopInfo(block, blocks[block].begin, blocks[block].end)
<1>0. TypeInv /\ OrderInv
  BY DEF TimeInv
<1>1. ASSUME Remaining(block) # {}, NEW t, timing' = Insert(timing, Op, t)
      PROVE  \A j \in DOMAIN timing : j \in DOMAIN timing' /\ timing'[j] = timing[j]
  BY <1>0, <1>1, OpIsLast DEF Insert
<1>2. CASE ScheduleOperator
  <2>1. /\ UNCHANGED <<p, loopInfo>> /\ Remaining(block) # {}
        /\ timing' = Insert(timing, Op, [begin |-> OpBegin(Op), end |-> OpBegin(Op) + Latency(Op)])
    BY <1>2 DEF ScheduleOperator, Scheduling, SetTiming
  <2> QED
    BY <1>1, <2>1
<1>3. CASE ScheduleAccess
  <2> DEFINE at == IF level = NoLevel THEN OpBegin(Op) ELSE level
             infos == PortInfosAt(at, p.ops[Op].memref)
  <2>1. Remaining(block) # {} /\ UNCHANGED <<p, loopInfo>> /\ TryLevel(at, infos)
    BY <1>3 DEF ScheduleAccess, Scheduling
  <2> HIDE DEF at, infos
  <2>2. \/ timing' = Insert(timing, Op, [begin |-> at, end |-> at + Latency(Op)])
        \/ UNCHANGED timing
    BY <2>1 DEF TryLevel, SetTiming
  <2> QED
    BY <1>1, <2>1, <2>2
<1>4. CASE LeaveLoop
  <2> DEFINE info == LoopInfo(block, blocks[block].begin, blocks[block].end)
  <2>1. /\ block # 0 /\ Remaining(block) = {} /\ UNCHANGED p
        /\ \E t : timing' = Insert(timing, block, t)
        /\ loopInfo' = Insert(loopInfo, block, info)
    BY <1>4 DEF LeaveLoop, SetTiming
  <2> HIDE DEF info
  <2>2. block \notin DOMAIN timing /\ block \notin DOMAIN loopInfo
    BY <1>0, <2>1, OpenBlock DEF OrderInv, TypeInv
  <2>3. \A j \in DOMAIN timing : j \in DOMAIN timing' /\ timing'[j] = timing[j]
    BY <2>1, <2>2 DEF Insert
  <2>4. /\ DOMAIN loopInfo' = DOMAIN loopInfo \cup {block} /\ loopInfo'[block] = info
        /\ \A l \in DOMAIN loopInfo : loopInfo'[l] = loopInfo[l]
    BY <2>1, <2>2 DEF Insert
  <2> QED
    BY <2>1, <2>3, <2>4 DEF info
<1>5. CASE EnterLoop \/ Finish \/ UNCHANGED vars
  BY <1>5 DEF EnterLoop, Finish, vars
<1> QED
  BY <1>2, <1>3, <1>4, <1>5 DEF Next

\* All that lies inside a closed loop is scheduled.
LEMMA InsideTimed ==
    ASSUME TimeInv, block # 0, Remaining(block) = {}, NEW i \in Inside(block)
    PROVE  /\ i \in Ops /\ i \in Nat /\ i \in Accesses /\ i \in Leaves /\ i \in DOMAIN timing
           /\ timing[i].begin \in Nat /\ timing[i].end \in Nat
           /\ blocks[block].begin <= timing[i].begin /\ timing[i].end <= blocks[block].end
           /\ timing[i].end = timing[i].begin + Latency(i)
           /\ Latency(i) \in {1, 2} /\ (i \notin Reads => Latency(i) = 1)
<1>1. TypeInv /\ OrderInv /\ BoundsInv /\ LatencyInv /\ WellFormed(p)
  BY DEF TimeInv, TypeInv
<1>2. i \in Accesses /\ i \in Leaves /\ i \notin Loops /\ i \in Ops /\ block \in Nest[i] /\ block \in Loops
  BY <1>1, KindsApart, OpenBlock DEF Inside, Leaves
<1>3. i \in Nat
  BY <1>1, <1>2, OpsAreNumbered
<1>4. /\ i \in DOMAIN timing /\ timing[i].begin \in Nat /\ timing[i].end \in Nat
      /\ blocks[block].begin <= timing[i].begin /\ timing[i].end <= blocks[block].end
  BY <1>1, <1>2, InsideWithin
<1>5. timing[i].end = timing[i].begin + Latency(i)
  BY <1>1, <1>2, <1>4 DEF LatencyInv
<1>6. Latency(i) \in {1, 2} /\ (i \notin Reads => Latency(i) = 1)
  BY <1>2 DEF Latency
<1> QED
  BY <1>2, <1>3, <1>4, <1>5, <1>6

\* The interval of the loop that is left is long enough for what an iteration carries to
\* a later one: checked for what is against the order of the body; what follows that
\* order is scheduled in it, and a write follows itself an iteration later.
LEMMA CarriedCovered ==
    ASSUME TimeInv, block # 0, Remaining(block) = {}, NEW l, l = block,
           NEW info, info = LoopInfo(l, blocks[l].begin, blocks[l].end),
           p.ops[l].targetII > 0, ~p.ops[l].parallel,
           NEW d \in p.dependences, {d.from, d.to} \subseteq Inside(l), MayDepend(d.from, d.to),
           d.from # d.to \/ d.from \notin Reads,
           d.by \in Nest[l], ~p.ops[d.by].parallel, Distance(d) > 0,
           p.ops[d.by].flatten \/ p.ops[d.by].targetII > 0
    PROVE  timing[d.from].begin + info.minII * Distance(d) >= timing[d.to].end
<1> DEFINE from == d.from
           to == d.to
           c == Distance(d)
           ii == info.minII
<1>1. TypeInv /\ OrderInv /\ BoundsInv /\ LatencyInv /\ SuccessorInv /\ WellFormed(p)
  BY DEF TimeInv, TypeInv
<1>2. /\ from \in Nat /\ from \in Accesses /\ from \in Leaves /\ from \in DOMAIN timing
      /\ timing[from].begin \in Nat /\ timing[from].end \in Nat
      /\ timing[from].end = timing[from].begin + Latency(from)
      /\ from \notin Reads => Latency(from) = 1
      /\ to \in Nat /\ to \in Accesses /\ to \in Leaves
      /\ timing[to].begin \in Nat /\ timing[to].end \in Nat
  BY InsideTimed
<1>3. c \in Nat \ {0}
  BY <1>1, DistanceIsInt
<1>4. /\ ii \in Nat /\ 1 <= ii /\ DepMinII(l) <= ii /\ DepMinII(l) \in Nat
  BY <1>1, LoopInfoIs, DepMinIIIs
<1>5. ii * c \in Nat /\ 1 <= ii * c
  <2>1. ii * 1 <= ii * c
    BY <1>3, <1>4, TimesMonotone
  <2>2. ii * c \in Nat
    BY <1>3, <1>4, TimesIsNat
  <2> QED
    BY <1>4, <2>1, <2>2
<1>6. CASE to < from
  <2>1. d \in CheckedDependences(l)
    BY <1>6 DEF CheckedDependences, LoopDepths
  <2> DEFINE x == timing[to].end - timing[from].begin
  <2>2. Ceil(x, c) <= DepMinII(l)
    BY <1>1, <2>1, DepMinIIIs
  <2>3. x \in Int
    BY <1>2
  <2> HIDE DEF x, c, ii
  <2>4. Ceil(x, c) = (x + c - 1) \div c /\ (x + c - 1) \div c \in Int
    BY <1>3, <2>3 DEF Ceil
  <2>5. (x + c - 1) \div c <= ii
    BY <1>4, <2>2, <2>4
  <2>6. x <= ii * c
    BY <1>3, <1>4, <2>3, <2>5, CeilCovers
  <2> QED
    BY <1>2, <1>5, <2>6 DEF x, c, ii
<1>7. CASE from < to
  <2>1. DependsOn(from, to)
    BY DEF DependsOn
  <2>2. <<from, to>> \in Problem.after
    BY <1>2, <1>7, <2>1 DEF Problem
  <2>3. timing[to].end <= timing[from].begin
    BY <1>1, <1>2, <2>2 DEF SuccessorInv
  <2> HIDE DEF c, ii
  <2>4. timing[from].begin + ii * c >= timing[to].end
    BY <1>2, <1>5, <2>3
  <2> QED
    BY <2>4 DEF c, ii
<1>8. CASE from = to
  <2> HIDE DEF c, ii
  <2>1. timing[from].begin + ii * c >= timing[to].end
    BY <1>2, <1>5, <1>8
  <2> QED
    BY <2>1 DEF c, ii
<1> QED
  BY <1>2, <1>6, <1>7, <1>8

\* No step breaks a carried dependence of a loop already closed.
LEMMA CarriedStep == TimeInv /\ CarriedRespected /\ [Next]_vars => CarriedRespected'
<1> SUFFICES ASSUME TimeInv, CarriedRespected, [Next]_vars PROVE CarriedRespected'
  OBVIOUS
<1>1. /\ TypeInv /\ OrderInv /\ BoundsInv /\ WellFormed(p) /\ UNCHANGED p
      /\ \A j \in DOMAIN timing : timing'[j] = timing[j]
  BY StepExtends DEF TimeInv, TypeInv
<1>2. /\ Nest' = Nest /\ Reads' = Reads /\ (\A l : Inside(l)' = Inside(l))
      /\ (\A i, j : MayDepend(i, j)' = MayDepend(i, j)) /\ (\A d : Distance(d)' = Distance(d))
  BY <1>1, FunctionKept, DependencesKept DEF Distance
<1>3. ASSUME NEW l \in DOMAIN loopInfo', p.ops[l].targetII > 0, ~p.ops[l].parallel,
             NEW d \in p.dependences, {d.from, d.to} \subseteq Inside(l), MayDepend(d.from, d.to),
             d.from # d.to \/ d.from \notin Reads,
             d.by \in Nest[l], ~p.ops[d.by].parallel, Distance(d) > 0,
             p.ops[d.by].flatten \/ p.ops[d.by].targetII > 0
      PROVE  timing'[d.from].begin + loopInfo'[l].minII * Distance(d) >= timing'[d.to].end
  <2>1. CASE l \in DOMAIN loopInfo
    <3>1. d.from \in DOMAIN timing /\ d.to \in DOMAIN timing
      <4>1. \A i \in Inside(l) : i \in Ops /\ l \in Nest[i] /\ l \in DOMAIN timing
        BY <1>1, <2>1, KindsApart DEF Inside, TypeInv, Leaves
      <4> QED
        BY <1>1, <1>3, <4>1, TimedWithin
    <3>2. timing[d.from].begin + loopInfo[l].minII * Distance(d) >= timing[d.to].end
      BY <1>3, <2>1 DEF CarriedRespected
    <3>3. loopInfo'[l] = loopInfo[l]
      BY <2>1, StepExtends
    <3> QED
      BY <1>1, <3>1, <3>2, <3>3
  <2>2. CASE l \notin DOMAIN loopInfo
    <3>1. /\ l = block /\ block # 0 /\ Remaining(block) = {}
          /\ loopInfo'[l] = LoopInfo(block, blocks[block].begin, blocks[block].end)
      BY <2>2, StepExtends
    <3>2. d.from \in DOMAIN timing /\ d.to \in DOMAIN timing
      BY <1>3, <3>1, InsideTimed
    <3>3. timing[d.from].begin + loopInfo'[l].minII * Distance(d) >= timing[d.to].end
      BY <1>3, <3>1, CarriedCovered
    <3> QED
      BY <1>1, <3>2, <3>3
  <2> QED
    BY <2>1, <2>2
<1> QED
  BY <1>1, <1>2, <1>3 DEF CarriedRespected

\* For every dependence that a pipelined loop, or one flattened into it, carries from an
\* iteration to a later one, the interval of the loop makes the later one wait.
THEOREM IntervalRespectsDependences == Spec => []CarriedRespected
<1>1. Init => CarriedRespected
  <2> SUFFICES ASSUME Init PROVE CarriedRespected
    OBVIOUS
  <2>1. DOMAIN loopInfo = {}
    BY DEF Init
  <2> QED
    BY <2>1 DEF CarriedRespected
<1> QED
  BY <1>1, CarriedStep, ScheduleInOrder, PTL DEF Spec

\* Accesses of one bank that all find a level that is counted for it, no more than so
\* many of them the same one, are no more than that for each cycle of the interval.
LEMMA LevelsCover ==
    ASSUME NEW X \in SUBSET DOMAIN timing, IsFiniteSet(X), NEW V, IsFiniteSet(V),
           NEW k \in Nat, NEW ii \in Nat, Cardinality(V) <= ii,
           \A i \in X : timing[i].begin \in V,
           \A v \in V : Cardinality({i \in X : timing[i].begin = v}) <= k
    PROVE  Cardinality(X) <= ii * k
<1> DEFINE f == [i \in X |-> timing[i].begin]
<1>1. f \in [X -> V]
  OBVIOUS
<1>2. \A v \in V : {i \in X : f[i] = v} = {i \in X : timing[i].begin = v}
  OBVIOUS
<1>3. \A v \in V : Cardinality({i \in X : f[i] = v}) <= k
  BY <1>2
<1> HIDE DEF f
<1>4. Cardinality(X) <= Cardinality(V) * k
  BY <1>1, <1>3, FibreBound
<1>5. /\ Cardinality(V) \in Nat /\ Cardinality(X) \in Nat
      /\ k * Cardinality(V) <= k * ii /\ Cardinality(V) * k = k * Cardinality(V) /\ ii * k = k * ii
  BY FS_CardinalityType, TimesMonotone
<1>6. k * Cardinality(V) \in Nat /\ k * ii \in Nat
  BY <1>5, TimesIsNat
<1> QED
  BY <1>4, <1>5, <1>6

AccessesOf(l, m, q) == {i \in Inside(l) : p.ops[i].memref = m /\ q \in p.ops[i].partitions}

\* So many cycles leave the bank ports for its accesses in the loop.
FitsBank(l, m, q, II) ==
    LET here  == AccessesOf(l, m, q)
        reads == Cardinality(WordsOf(here))
    IN  /\ reads <= II * (Full(m).rdPort + Full(m).rdwrPort)
        /\ Full(m).rdPort + Full(m).wrPort = 0 =>
              reads + Cardinality(here \ Reads) <= II * Full(m).rdwrPort

\* AccessesFitII, bank by bank.
LEMMA FitsBankIs ==
    AccessesFitII <=>
        \A l \in DOMAIN loopInfo : p.ops[l].targetII > 0 =>
            \A m \in DOMAIN p.memory :
                p.memory[m].kind # "DRAM" /\ ~p.memory[m].single =>
                    \A q \in 1..p.memory[m].partitionNum : FitsBank(l, m, q, loopInfo[l].minII)
BY DEF AccessesFitII, FitsBank, AccessesOf, WordsOf, Full

\* Whether a loop fits a bank depends on the function alone.
LEMMA FitsBankKept ==
    ASSUME p' = p
    PROVE  \A l, m, q, n : FitsBank(l, m, q, n)' <=> FitsBank(l, m, q, n)
<1> TAKE l, m, q, n
<1>1. AccessesOf(l, m, q)' = AccessesOf(l, m, q)
  BY FunctionKept DEF AccessesOf
<1>2. Reads' = Reads /\ (\A i : Word(i)' = Word(i)) /\ Full(m)' = Full(m)
  BY FunctionKept DEF Full
<1>3. WordsOf(AccessesOf(l, m, q))' = WordsOf(AccessesOf(l, m, q))
  BY <1>1, <1>2 DEF WordsOf
<1> QED
  BY <1>1, <1>2, <1>3 DEF FitsBank

\* The II of a loop leaves a port for each of its accesses.
LEMMA AccessesCovered ==
    ASSUME TimeInv, PortInv, block # 0, Remaining(block) = {}, NEW l, l = block,
           NEW info, info = LoopInfo(l, blocks[l].begin, blocks[l].end), p.ops[l].targetII > 0,
           NEW m \in DOMAIN p.memory, p.memory[m].kind # "DRAM", ~p.memory[m].single,
           NEW q \in 1..p.memory[m].partitionNum
    PROVE  FitsBank(l, m, q, info.minII)
<1> DEFINE here  == AccessesOf(l, m, q)
           words == WordsOf(here)
           E     == here \ Reads
           ii    == info.minII
           full  == Full(m)
           V     == CountedLevels(m, q, blocks[l].begin, blocks[l].end)
<1>1. TypeInv /\ OrderInv /\ BoundsInv /\ LatencyInv /\ WellFormed(p)
  BY DEF TimeInv, TypeInv
<1>2. \A i \in here : /\ i \in Inside(l) /\ i \in Ops /\ i \in Accesses /\ i \in DOMAIN timing
                      /\ p.ops[i].memref = m /\ q \in p.ops[i].partitions /\ ~Memory(i).single
  BY InsideTimed DEF Memory, AccessesOf
<1> HIDE DEF here
<1>3. \E R \in SUBSET (here \cap Reads) :
         /\ {Word(i) : i \in R} = words
         /\ \A i, j \in R : Word(i) = Word(j) => i = j
  <2> DEFINE S == here \cap Reads
             f == [i \in S |-> Word(i)]
  <2>2. \A i \in S : f[i] = Word(i)
    OBVIOUS
  <2> HIDE DEF S, f
  <2>1. PICK R \in SUBSET S : /\ {f[i] : i \in R} = {f[i] : i \in S}
                              /\ \A i, j \in R : f[i] = f[j] => i = j
    BY Representatives
  <2>3. {Word(i) : i \in R} = {Word(i) : i \in S} /\ \A i, j \in R : Word(i) = Word(j) => i = j
    BY <2>1, <2>2
  <2> QED
    BY <2>3 DEF S, WordsOf
<1>4. PICK R \in SUBSET (here \cap Reads) :
         /\ {Word(i) : i \in R} = words
         /\ \A i, j \in R : Word(i) = Word(j) => i = j
  BY <1>3
<1>5. IsFiniteSet(here) /\ IsFiniteSet(R) /\ IsFiniteSet(E)
  <2>1. here \subseteq Ops /\ R \subseteq Ops /\ E \subseteq Ops
    BY <1>2, <1>4
  <2> QED
    BY <1>1, <2>1, OpsAreNumbered, FS_Subset
<1>6. Cardinality(words) <= Cardinality(R)
  <2> DEFINE g == [i \in R |-> Word(i)]
  <2>1. words = {g[i] : i \in R} /\ DOMAIN g = R
    BY <1>4 DEF WordsOf
  <2> HIDE DEF g, words
  <2> QED
    BY <1>5, <2>1, FiniteImage
<1>7. Cardinality(words) \in Nat /\ Cardinality(R) \in Nat /\ Cardinality(E) \in Nat
  <2>1. words \subseteq AllWords
    BY <1>2 DEF AllWords, WordsOf
  <2> HIDE DEF words, E
  <2> QED
    BY <1>1, <1>5, <2>1, WordsFinite, FS_CardinalityType
<1>8. /\ full.rdPort \in {0, 1} /\ full.rdPort \in Nat /\ full.wrPort \in Nat /\ full.rdwrPort \in Nat
  BY FullIs
<1>9. ii \in Nat /\ ResMinII(l, blocks[l].begin, blocks[l].end) <= ii
  BY <1>1, LoopInfoIs
<1>10. blocks[l].begin \in Nat /\ blocks[l].end \in Nat
  BY <1>1, OpenBlock
<1>11. IsFiniteSet(V) /\ Cardinality(V) \in Nat
  <2>1. V \subseteq blocks[l].begin..(blocks[l].end - 1)
    BY DEF CountedLevels
  <2>2. IsFiniteSet(blocks[l].begin..(blocks[l].end - 1))
    <3>1. blocks[l].begin \in Int /\ blocks[l].end - 1 \in Int
      BY <1>10
    <3> QED
      BY <3>1, FS_Interval
  <2> HIDE DEF V
  <2>3. IsFiniteSet(V)
    BY <2>1, <2>2, FS_Subset
  <2> QED
    BY <2>3, FS_CardinalityType
<1>12. here # {} => Cardinality(V) <= ii
  <2>1. SUFFICES ASSUME NEW i \in here PROVE Cardinality(V) <= ii
    OBVIOUS
  <2>2. Cardinality(V) <= ResMinII(l, blocks[l].begin, blocks[l].end)
    BY <1>2, <1>10, ResMinIIIs
  <2>3. ResMinII(l, blocks[l].begin, blocks[l].end) \in Nat
    BY <1>10, ResMinIIIs
  <2> HIDE DEF V, ii
  <2> QED
    BY <1>9, <1>11, <2>2, <2>3
\* The level of an access is counted, if it is a read or all ports are for both.
<1>13. ASSUME NEW i \in here, i \in Reads \/ full.rdPort = 0
       PROVE  timing[i].begin \in V
  <2> DEFINE v == timing[i].begin
             left == memPortInfos[<<v, m>>][q]
  <2>1. v \in Nat /\ <<v, m>> \in DOMAIN memPortInfos
    BY <1>2, InsideTimed DEF PortInv
  <2>2. v \in blocks[l].begin..(blocks[l].end - 1)
    BY <1>2, <1>10, InsideTimed
  <2>3. PortsLeft(left, full, WordsOf(Here(v, m, q)), Cardinality(Here(v, m, q) \ Reads))
    BY <2>1 DEF PortInv
  <2>4. i \in Reads => Word(i) \in WordsOf(Here(v, m, q))
    BY <1>2 DEF Here, WordsOf
  <2>5. left.rdPort < 1
    BY <1>8, <1>13, <2>3, <2>4 DEF PortsLeft
  <2>6. CountsAsAccess(p.memory[m].kind, left)
    BY <2>5 DEF CountsAsAccess
  <2> QED
    BY <2>1, <2>2, <2>6 DEF CountedLevels
<1>14. ASSUME NEW v \in V
       PROVE  LET r == Cardinality({i \in R : timing[i].begin = v})
                  w == Cardinality({i \in E : timing[i].begin = v})
              IN  /\ r \in Nat /\ w \in Nat
                  /\ r <= full.rdPort + full.rdwrPort
                  /\ r + w <= full.rdPort + full.wrPort + full.rdwrPort
  <2> DEFINE Rv == {i \in R : timing[i].begin = v}
             Ev == {i \in E : timing[i].begin = v}
             H  == Here(v, m, q)
  <2>1. v \in Nat /\ <<v, m>> \in DOMAIN memPortInfos
    BY <1>10 DEF CountedLevels
  <2>2. /\ Cardinality(WordsOf(H)) \in Nat /\ Cardinality(H \ Reads) \in Nat
        /\ Cardinality(WordsOf(H)) <= full.rdPort + full.rdwrPort
        /\ Cardinality(WordsOf(H)) + Cardinality(H \ Reads) <= full.rdPort + full.wrPort + full.rdwrPort
    BY <1>1, <2>1, HereFits
  <2>3. Rv \subseteq H \cap Reads /\ Ev \subseteq H \ Reads
    BY <1>2, <1>4 DEF Here
  <2>4. IsFiniteSet(Rv) /\ IsFiniteSet(Ev) /\ IsFiniteSet(H \ Reads) /\ IsFiniteSet(WordsOf(H))
    <3>1. Rv \subseteq R /\ Ev \subseteq E
      OBVIOUS
    <3> HIDE DEF Rv, Ev, H, E
    <3>2. IsFiniteSet(H \ Reads) /\ WordsOf(H) \subseteq AllWords
      BY <1>1, HereFinite DEF H
    <3> QED
      BY <1>1, <1>5, <3>1, <3>2, WordsFinite, FS_Subset
  <2>5. Cardinality(Ev) <= Cardinality(H \ Reads)
    BY <2>3, <2>4, FS_Subset
  <2>6. Cardinality(Rv) <= Cardinality(WordsOf(H))
    <3> DEFINE g == [i \in Rv |-> Word(i)]
    <3>1. g \in [Rv -> WordsOf(H)]
      BY <2>3 DEF WordsOf
    <3>2. \A i, j \in Rv : g[i] = g[j] => i = j
      BY <1>4
    <3>3. g \in Injection(Rv, WordsOf(H))
      BY <3>1, <3>2 DEF Injection, IsInjective
    <3> HIDE DEF g, Rv, H
    <3> QED
      BY <2>4, <3>3, FS_Injection
  <2> HIDE DEF Rv, Ev, H
  <2>7. Cardinality(Rv) \in Nat /\ Cardinality(Ev) \in Nat
    BY <2>4, FS_CardinalityType
  <2>8. /\ Cardinality(Rv) <= full.rdPort + full.rdwrPort
        /\ Cardinality(Rv) + Cardinality(Ev) <= full.rdPort + full.wrPort + full.rdwrPort
    BY <1>8, <2>2, <2>5, <2>6, <2>7
  <2> QED
    BY <2>7, <2>8 DEF Rv, Ev
<1> DEFINE Covered ==
               /\ Cardinality(words) <= ii * (full.rdPort + full.rdwrPort)
               /\ full.rdPort + full.wrPort = 0 =>
                     Cardinality(words) + Cardinality(E) <= ii * full.rdwrPort
<1>15. ASSUME here = {} PROVE Covered
  <2>1. words = {} /\ E = {} /\ Cardinality({}) = 0
    BY <1>15, FS_EmptySet DEF WordsOf
  <2> HIDE DEF words, E, ii, full
  <2>2. ii * (full.rdPort + full.rdwrPort) \in Nat /\ ii * full.rdwrPort \in Nat
    BY <1>8, <1>9, TimesIsNat
  <2> QED
    BY <2>1, <2>2
<1>16. ASSUME here # {} PROVE Covered
  <2>1. Cardinality(words) <= ii * (full.rdPort + full.rdwrPort)
    <3>1. R \in SUBSET DOMAIN timing /\ \A i \in R : timing[i].begin \in V
      BY <1>2, <1>4, <1>13
    <3>2. Cardinality(V) <= ii /\ full.rdPort + full.rdwrPort \in Nat
      BY <1>8, <1>12, <1>16
    <3>3. \A v \in V : Cardinality({i \in R : timing[i].begin = v}) <= full.rdPort + full.rdwrPort
      BY <1>14
    <3> HIDE DEF V, ii, full, words
    <3>4. Cardinality(R) <= ii * (full.rdPort + full.rdwrPort)
      BY <1>5, <1>9, <1>11, <3>1, <3>2, <3>3, LevelsCover
    <3>5. ii * (full.rdPort + full.rdwrPort) \in Nat
      BY <1>9, <3>2, TimesIsNat
    <3> QED
      BY <1>6, <1>7, <3>4, <3>5
  <2>2. ASSUME full.rdPort + full.wrPort = 0
        PROVE  Cardinality(words) + Cardinality(E) <= ii * full.rdwrPort
    <3> DEFINE X == R \cup E
    <3>1. X \in SUBSET DOMAIN timing /\ \A i \in X : timing[i].begin \in V
      <4>1. full.rdPort = 0
        BY <1>8, <2>2
      <4>2. X \subseteq here
        BY <1>4
      <4> QED
        BY <1>2, <1>13, <4>1, <4>2
    <3>2. R \cap E = {}
      BY <1>4
    <3>3. Cardinality(V) <= ii
      BY <1>12, <1>16
    <3>4. ASSUME NEW v \in V
          PROVE  Cardinality({i \in X : timing[i].begin = v}) <= full.rdwrPort
      <4> DEFINE Rv == {i \in R : timing[i].begin = v}
                 Ev == {i \in E : timing[i].begin = v}
      <4>1. /\ Cardinality(Rv) \in Nat /\ Cardinality(Ev) \in Nat
            /\ Cardinality(Rv) + Cardinality(Ev) <= full.rdPort + full.wrPort + full.rdwrPort
        BY <1>14
      <4>2. {i \in X : timing[i].begin = v} = Rv \cup Ev /\ Rv \cap Ev = {}
        BY <3>2
      <4>3. Rv \subseteq R /\ Ev \subseteq E
        OBVIOUS
      <4> HIDE DEF Rv, Ev, E, full
      <4>4. IsFiniteSet(Rv) /\ IsFiniteSet(Ev)
        BY <1>5, <4>3, FS_Subset
      <4>5. Cardinality(Rv \cup Ev) = Cardinality(Rv) + Cardinality(Ev) - Cardinality({})
        BY <4>2, <4>4, FS_Union
      <4>6. Cardinality({}) = 0
        BY FS_EmptySet
      <4>7. Cardinality(Rv \cup Ev) <= full.rdwrPort
        BY <1>8, <2>2, <4>1, <4>5, <4>6
      <4> QED
        BY <4>2, <4>7
    <3>5. IsFiniteSet(X) /\ Cardinality(X) = Cardinality(R) + Cardinality(E)
      <4> HIDE DEF E
      <4>1. IsFiniteSet(X) /\ Cardinality(X) = Cardinality(R) + Cardinality(E) - Cardinality({})
        BY <1>5, <3>2, FS_Union
      <4>2. Cardinality({}) = 0
        BY FS_EmptySet
      <4> QED
        BY <1>7, <4>1, <4>2
    <3> HIDE DEF E, X, V, ii, full, words
    <3>6. Cardinality(X) <= ii * full.rdwrPort
      BY <1>8, <1>9, <1>11, <3>1, <3>3, <3>4, <3>5, LevelsCover
    <3>7. ii * full.rdwrPort \in Nat
      BY <1>8, <1>9, TimesIsNat
    <3> QED
      BY <1>6, <1>7, <3>5, <3>6, <3>7
  <2> QED
    BY <2>1, <2>2
<1> QED
  BY <1>15, <1>16 DEF FitsBank, here

\* No step breaks the ports of a loop already closed.
LEMMA AccessesStep == TimeInv /\ PortInv /\ AccessesFitII /\ [Next]_vars => AccessesFitII'
<1> SUFFICES ASSUME TimeInv, PortInv, AccessesFitII, [Next]_vars PROVE AccessesFitII'
  OBVIOUS
<1>1. UNCHANGED p
  BY StepExtends
<1>2. ASSUME NEW l \in DOMAIN loopInfo', p.ops[l].targetII > 0, NEW m \in DOMAIN p.memory,
             p.memory[m].kind # "DRAM", ~p.memory[m].single, NEW q \in 1..p.memory[m].partitionNum
      PROVE  FitsBank(l, m, q, loopInfo'[l].minII)
  <2>1. CASE l \in DOMAIN loopInfo
    <3>1. loopInfo'[l] = loopInfo[l]
      BY <2>1, StepExtends
    <3> QED
      BY <1>2, <2>1, <3>1, FitsBankIs
  <2>2. CASE l \notin DOMAIN loopInfo
    <3>1. PICK info : info = loopInfo'[l]
      OBVIOUS
    <3>2. /\ l = block /\ block # 0 /\ Remaining(block) = {}
          /\ info = LoopInfo(l, blocks[l].begin, blocks[l].end)
      BY <2>2, <3>1, StepExtends
    <3>3. FitsBank(l, m, q, info.minII)
      BY <1>2, <3>2, AccessesCovered
    <3> QED
      BY <3>1, <3>3
  <2> QED
    BY <2>1, <2>2
<1>3. \A l, m, q : FitsBank(l, m, q, loopInfo[l].minII)' <=> FitsBank(l, m, q, loopInfo'[l].minII)
  <2> TAKE l, m, q
  <2>1. PICK n : n = loopInfo'[l].minII
    OBVIOUS
  <2>2. FitsBank(l, m, q, n)' <=> FitsBank(l, m, q, n)
    BY <1>1, FitsBankKept
  <2> QED
    BY <2>1, <2>2 DEF FitsBank
<1>4. AccessesFitII' <=>
        (\A l \in DOMAIN loopInfo : p.ops[l].targetII > 0 =>
            \A m \in DOMAIN p.memory :
                p.memory[m].kind # "DRAM" /\ ~p.memory[m].single =>
                    \A q \in 1..p.memory[m].partitionNum : FitsBank(l, m, q, loopInfo[l].minII))'
  BY FitsBankIs, PTL
<1> QED
  BY <1>1, <1>2, <1>3, <1>4

\* The interval of a pipelined loop leaves every bank ports for all reads of an iteration,
\* and for its writes as well where all ports are for both.
THEOREM IntervalFitsPorts == Spec => []AccessesFitII
<1>1. Init => AccessesFitII
  <2> SUFFICES ASSUME Init PROVE AccessesFitII
    OBVIOUS
  <2>1. DOMAIN loopInfo = {}
    BY DEF Init
  <2> QED
    BY <2>1 DEF AccessesFitII
<1> QED
  BY <1>1, AccessesStep, PortInit, PortStep, ScheduleInOrder, PTL DEF Spec

=============================================================================
