----------------------- MODULE DataflowPipelineProofs -----------------------
(***************************************************************************)
(* The dataflow pipeline keeps what each of its passes establishes.         *)
(*                                                                         *)
(* First, what the rewrites of DataflowIR do, field by field: every rewrite *)
(* of a dataflow pass is built from adding buffers and nodes, replacing     *)
(* uses, fusing, dropping and editing nodes. Each is described by a         *)
(* predicate on the schedule before and the one after, from which the rest  *)
(* argues without the definitions.                                         *)
(*                                                                         *)
(* The invariant, PipelineInv, says for each pass what holds while it runs: *)
(* Early, Forking, Scheduling, Balancing, Cleaning and Legalizing, in this  *)
(* order. Each section shows that the rewrites of one pass keep its         *)
(* predicate, and that the next one follows when the pass has nothing left  *)
(* to do; the last section draws the properties from the invariant. The     *)
(* walks over buffers and nodes are folds: FoldLemmas is instantiated for   *)
(* each.                                                                   *)
(***************************************************************************)
EXTENDS DataflowPipeline, SequenceTheorems, ScheduleDataflowNodeProofs

-----------------------------------------------------------------------------
(* Block orders *)

\* o lists each element of N once.
Orders(o, N) == o \in Seq(N) /\ N \subseteq Nat /\ Range(o) = N /\ IsInjective(o)

\* A position is a place in the order, and no other node's.
LEMMA PositionIs ==
    ASSUME NEW N, NEW o, Orders(o, N)
    PROVE  /\ \A n \in N : Position(o, n) \in 1..Len(o) /\ o[Position(o, n)] = n
           /\ \A i \in 1..Len(o) : o[i] \in N /\ Position(o, o[i]) = i
<1>1. DOMAIN o = 1..Len(o) /\ \A i \in 1..Len(o) : o[i] \in N
  BY DEF Orders
<1>2. \A n \in N : \E i \in 1..Len(o) : o[i] = n
  BY <1>1 DEF Orders, Range
<1>3. \A n \in N : Position(o, n) \in 1..Len(o) /\ o[Position(o, n)] = n
  BY <1>1, <1>2 DEF Position
<1>4. \A i \in 1..Len(o) : Position(o, o[i]) = i
  BY <1>1, <1>3 DEF Orders, IsInjective
<1> QED
  BY <1>1, <1>3, <1>4

\* Different nodes have different positions.
LEMMA PositionsDiffer ==
    ASSUME NEW N, NEW o, Orders(o, N), NEW n \in N, NEW m \in N, n # m
    PROVE  /\ Position(o, n) \in Nat /\ Position(o, m) \in Nat
           /\ Position(o, n) < Position(o, m) \/ Position(o, m) < Position(o, n)
<1>1. /\ Position(o, n) \in 1..Len(o) /\ o[Position(o, n)] = n
      /\ Position(o, m) \in 1..Len(o) /\ o[Position(o, m)] = m
  BY PositionIs
<1>2. Len(o) \in Nat
  BY DEF Orders
<1>3. Position(o, n) # Position(o, m)
  BY <1>1
<1> QED
  BY <1>1, <1>2, <1>3

\* What is in an order is finite.
LEMMA OrderedIsFinite ==
    ASSUME NEW N, NEW o, Orders(o, N)
    PROVE  IsFiniteSet(N)
<1> DEFINE p == [n \in N |-> Position(o, n)]
<1>1. p \in [N -> 1..Len(o)]
  BY PositionIs
<1>2. p \in Injection(N, 1..Len(o))
  <2>1. \A n, m \in N : p[n] = p[m] => n = m
    BY PositionIs
  <2> QED
    BY <1>1, <2>1 DEF Injection, IsInjective
<1>3. IsFiniteSet(1..Len(o))
  BY FS_Interval DEF Orders
<1> QED
  BY <1>2, <1>3, FS_Injection

\* A node that is inserted behind n stands next to it; the others keep their order.
LEMMA InsertedIs ==
    ASSUME NEW N, NEW o, Orders(o, N), NEW n \in N, NEW m \in Nat \ N,
           NEW q, q = InsertAt(o, Position(o, n) + 1, m)
    PROVE  /\ Orders(q, N \cup {m})
           /\ \A x \in N :
                 /\ Position(q, m) < Position(q, x) <=> Position(o, n) < Position(o, x)
                 /\ Position(q, x) < Position(q, m) <=> ~(Position(o, n) < Position(o, x))
                 /\ \A y \in N :
                      Position(q, x) < Position(q, y) <=> Position(o, x) < Position(o, y)
<1> DEFINE k == Position(o, n)
           L == Len(o)
<1>1. L \in Nat /\ k \in 1..L
  <2>1. o \in Seq(N)
    BY DEF Orders
  <2>2. Len(o) \in Nat
    BY <2>1
  <2> QED
    BY <2>2, PositionIs
<1>2. o \in Seq(Nat) /\ m \in Nat
  <2>1. o \in Seq(N) /\ N \subseteq Nat
    BY DEF Orders
  <2>3. o \in [1..Len(o) -> N] /\ Len(o) \in Nat
    BY <2>1
  <2>2. o \in [1..Len(o) -> Nat]
    BY <2>1, <2>3
  <2> QED
    BY <2>2, <2>3
<1>3. q = SubSeq(o, 1, k) \o <<m>> \o SubSeq(o, k + 1, L)
  <2>1. (k + 1) - 1 = k
    BY <1>1
  <2> QED
    BY <2>1 DEF InsertAt
<1>4. /\ q \in Seq(Nat) /\ Len(q) = L + 1
      /\ \A i \in 1..(L + 1) : q[i] = IF i <= k THEN o[i] ELSE IF i = k + 1 THEN m ELSE o[i - 1]
  <2> DEFINE a == SubSeq(o, 1, k)
             b == SubSeq(o, k + 1, L)
             c == a \o <<m>>
  <2>0. L = Len(o)
    OBVIOUS
  <2> HIDE DEF k, L
  <2>1. a \in Seq(Nat) /\ Len(a) = k /\ \A i \in 1..k : a[i] = o[i]
    BY <1>1, <1>2, <2>0
  <2>2. b \in Seq(Nat) /\ Len(b) = L - k /\ \A i \in 1..(L - k) : b[i] = o[i + k]
    BY <1>1, <1>2, <2>0
  <2> HIDE DEF a, b
  <2>3. c \in Seq(Nat) /\ Len(c) = k + 1 /\ \A i \in 1..(k + 1) : c[i] = IF i = k + 1 THEN m ELSE o[i]
    BY <1>1, <1>2, <2>1
  <2> HIDE DEF c
  <2>4. q = c \o b
    BY <1>3 DEF a, b, c
  <2>8. /\ q \in Seq(Nat) /\ Len(q) = Len(c) + Len(b)
        /\ \A i \in 1..(Len(c) + Len(b)) :
              q[i] = IF i <= Len(c) THEN c[i] ELSE b[i - Len(c)]
    <3>1. b \in Seq(Nat) /\ c \in Seq(Nat)
      BY <2>2, <2>3
    <3> QED
      BY <2>4, <3>1, ConcatProperties
  <2>9. Len(c) + Len(b) = L + 1
    BY <1>1, <2>2, <2>3
  <2>5. q \in Seq(Nat) /\ Len(q) = L + 1
    BY <2>8, <2>9
  <2>6. \A i \in 1..(L + 1) : q[i] = IF i <= k + 1 THEN c[i] ELSE b[i - (k + 1)]
    BY <2>3, <2>8, <2>9
  <2>7. ASSUME NEW i \in 1..(L + 1)
        PROVE  q[i] = IF i <= k THEN o[i] ELSE IF i = k + 1 THEN m ELSE o[i - 1]
    <3>1. CASE i <= k + 1
      BY <1>1, <2>3, <2>6, <3>1
    <3>2. CASE i > k + 1
      <4>1. i - (k + 1) \in 1..(L - k) /\ (i - (k + 1)) + k = i - 1
        BY <1>1, <3>2
      <4>2. b[i - (k + 1)] = o[i - 1]
        BY <2>2, <4>1
      <4> QED
        BY <1>1, <2>6, <3>2, <4>2
    <3> QED
      BY <1>1, <3>1, <3>2
  <2> QED
    BY <2>5, <2>7
<1> HIDE DEF k, L
<1> DEFINE to(i) == IF i <= k THEN i ELSE i + 1
<1>5. \A i \in 1..L : to(i) \in 1..(L + 1) /\ to(i) # k + 1 /\ q[to(i)] = o[i]
  <2> SUFFICES ASSUME NEW i \in 1..L
               PROVE  to(i) \in 1..(L + 1) /\ to(i) # k + 1 /\ q[to(i)] = o[i]
    OBVIOUS
  <2>1. CASE i <= k
    <3>1. i \in 1..(L + 1) /\ to(i) = i /\ i # k + 1
      BY <1>1, <2>1
    <3> QED
      BY <1>4, <2>1, <3>1
  <2>2. CASE ~(i <= k)
    <3>1. /\ i + 1 \in 1..(L + 1) /\ to(i) = i + 1 /\ i + 1 # k + 1
          /\ ~(i + 1 <= k) /\ (i + 1) - 1 = i
      BY <1>1, <2>2
    <3> QED
      BY <1>4, <3>1
  <2> QED
    BY <2>1, <2>2
<1>6. q[k + 1] = m /\ k + 1 \in 1..(L + 1)
  BY <1>1, <1>4
<1>7. \A i \in 1..(L + 1) : i # k + 1 => \E j \in 1..L : i = to(j)
  <2> SUFFICES ASSUME NEW i \in 1..(L + 1), i # k + 1 PROVE \E j \in 1..L : i = to(j)
    OBVIOUS
  <2>1. CASE i <= k
    BY <1>1, <2>1
  <2>2. CASE i > k
    <3>1. i - 1 \in 1..L /\ i = to(i - 1)
      BY <1>1, <2>2
    <3> QED
      BY <3>1
  <2> QED
    BY <1>1, <2>1, <2>2
<1>8. \A i \in 1..L : o[i] \in N /\ Position(o, o[i]) = i
  BY PositionIs DEF L
<1>9. \A x \in N : Position(o, x) \in 1..L /\ o[Position(o, x)] = x
  BY PositionIs DEF L
<1>10. \A i \in 1..(L + 1) : q[i] \in N \cup {m} /\ (q[i] = m <=> i = k + 1)
  BY <1>5, <1>6, <1>7, <1>8
<1>11. Range(q) = N \cup {m}
  <2>1. DOMAIN q = 1..(L + 1)
    BY <1>4
  <2>2. \A x \in N \cup {m} : \E i \in 1..(L + 1) : q[i] = x
    BY <1>5, <1>6, <1>9
  <2> QED
    BY <1>10, <2>1, <2>2 DEF Range
<1>12. \A i, j \in 1..L : to(i) = to(j) => i = j
  BY <1>1
<1>13. IsInjective(q)
  <2>1. DOMAIN q = 1..(L + 1)
    BY <1>4
  <2> SUFFICES ASSUME NEW i \in 1..(L + 1), NEW j \in 1..(L + 1), q[i] = q[j] PROVE i = j
    BY <2>1 DEF IsInjective
  <2>2. CASE q[i] = m
    BY <1>10, <2>2
  <2>3. CASE q[i] # m
    <3>1. i # k + 1 /\ j # k + 1
      BY <1>10, <2>3
    <3>2. PICK a \in 1..L : i = to(a)
      BY <1>7, <3>1
    <3>3. PICK b \in 1..L : j = to(b)
      BY <1>7, <3>1
    <3>4. o[a] = o[b]
      BY <1>5, <3>2, <3>3
    <3>5. a = b
      BY <1>8, <3>4
    <3> QED
      BY <3>2, <3>3, <3>5
  <2> QED
    BY <2>2, <2>3
<1>14. Orders(q, N \cup {m})
  <2>1. q \in Seq(N \cup {m})
    BY <1>4, <1>10
  <2> QED
    BY <1>11, <1>13, <2>1 DEF Orders
<1>15. \A x \in N : Position(q, x) = to(Position(o, x))
  <2> SUFFICES ASSUME NEW x \in N PROVE Position(q, x) = to(Position(o, x))
    OBVIOUS
  <2>1. q[to(Position(o, x))] = x /\ to(Position(o, x)) \in 1..Len(q)
    BY <1>4, <1>5, <1>9
  <2> QED
    BY <1>14, <2>1, PositionIs
<1>16. Position(q, m) = k + 1
  BY <1>4, <1>6, <1>14, PositionIs
<1> QED
  BY <1>1, <1>9, <1>14, <1>15, <1>16 DEF k

\* A set of nodes put in block order is listed once each: the number of nodes ahead of one
\* is its place.
LEMMA ArrangedIs ==
    ASSUME NEW N, NEW o, Orders(o, N), NEW M \in SUBSET N
    PROVE  /\ Orders(Arranged(o, M), M) /\ Len(Arranged(o, M)) = Cardinality(M)
           /\ IsFiniteSet(M) /\ Cardinality(M) \in Nat
<1> DEFINE q == Arranged(o, M)
           K == Cardinality(M)
           ahead(n) == {m \in M : Position(o, m) < Position(o, n)}
           rank == [n \in M |-> Cardinality(ahead(n))]
<1>1. IsFiniteSet(M) /\ K \in Nat
  BY OrderedIsFinite, FS_Subset, FS_CardinalityType
<1>2. \A n \in M : Position(o, n) \in Nat
  <2>1. Len(o) \in Nat
    BY DEF Orders
  <2> QED
    BY <2>1, PositionIs
<1>3. \A n \in M : /\ ahead(n) \subseteq M /\ n \notin ahead(n)
                    /\ IsFiniteSet(ahead(n)) /\ Cardinality(ahead(n)) \in Nat
  BY <1>1, <1>2, FS_Subset, FS_CardinalityType
<1>4. ASSUME NEW n \in M PROVE rank[n] \in 0..(K - 1)
  <2>1. Cardinality(ahead(n)) <= K /\ (K = Cardinality(ahead(n)) => M = ahead(n))
    BY <1>1, <1>3, FS_Subset
  <2> QED
    BY <1>1, <1>3, <2>1
<1>5. ASSUME NEW n \in M, NEW m \in M, Position(o, n) < Position(o, m) PROVE rank[n] < rank[m]
  <2>1. ahead(n) \subseteq ahead(m) /\ n \in ahead(m) /\ n \notin ahead(n)
    BY <1>2, <1>5
  <2>2. /\ Cardinality(ahead(n)) <= Cardinality(ahead(m))
        /\ Cardinality(ahead(m)) = Cardinality(ahead(n)) => ahead(m) = ahead(n)
    BY <1>3, <2>1, FS_Subset
  <2>3. Cardinality(ahead(m)) # Cardinality(ahead(n))
    BY <2>1, <2>2
  <2>4. Cardinality(ahead(m)) \in Nat /\ Cardinality(ahead(n)) \in Nat
    BY <1>3
  <2> HIDE DEF ahead
  <2> QED
    BY <2>2, <2>3, <2>4
<1>6. \A n, m \in M : rank[n] = rank[m] => n = m
  <2> SUFFICES ASSUME NEW n \in M, NEW m \in M, n # m PROVE rank[n] # rank[m]
    OBVIOUS
  <2>1. Position(o, n) < Position(o, m) \/ Position(o, m) < Position(o, n)
    BY PositionsDiffer
  <2>2. rank[n] \in Nat /\ rank[m] \in Nat
    BY <1>3
  <2>3. rank[n] < rank[m] \/ rank[m] < rank[n]
    BY <1>5, <2>1
  <2> HIDE DEF rank
  <2> QED
    BY <2>2, <2>3
<1>7. \A i \in 0..(K - 1) : \E n \in M : rank[n] = i
  <2>1. rank \in Injection(M, 0..(K - 1))
    <3>1. rank \in [M -> 0..(K - 1)]
      BY <1>4
    <3> HIDE DEF rank
    <3> QED
      BY <1>6, <3>1 DEF Injection, IsInjective
  <2>2. IsFiniteSet(0..(K - 1)) /\ Cardinality(0..(K - 1)) = K
    <3>1. 0..(K - 1) = {} \/ K > 0
      BY <1>1
    <3> QED
      BY <1>1, <3>1, FS_Interval
  <2>3. rank \in Surjection(M, 0..(K - 1))
    BY <2>1, <2>2, FS_Injection
  <2> HIDE DEF rank
  <2> QED
    BY <2>3 DEF Surjection
<1>8. q = [i \in 1..K |-> CHOOSE n \in M : Cardinality(ahead(n)) = i - 1]
  BY DEF Arranged
<1> HIDE DEF q, K
<1>9. ASSUME NEW i \in 1..K PROVE q[i] \in M /\ rank[q[i]] = i - 1
  <2>1. i - 1 \in 0..(K - 1)
    BY <1>1
  <2>2. \E n \in M : Cardinality(ahead(n)) = i - 1
    BY <1>7, <2>1
  <2>3. q[i] \in M /\ Cardinality(ahead(q[i])) = i - 1
    <3> HIDE DEF ahead
    <3> QED
      BY <1>8, <2>2
  <2> QED
    BY <2>3
<1>10. q \in [1..K -> M]
  BY <1>8, <1>9
<1>11. q \in Seq(M) /\ Len(q) = K /\ DOMAIN q = 1..K
  BY <1>1, <1>10
<1>12. IsInjective(q)
  <2> SUFFICES ASSUME NEW i \in 1..K, NEW j \in 1..K, q[i] = q[j] PROVE i = j
    BY <1>11 DEF IsInjective
  <2>1. i - 1 = j - 1
    BY <1>9
  <2> QED
    BY <1>1, <2>1
<1>13. Range(q) = M
  <2>1. ASSUME NEW n \in M PROVE \E i \in 1..K : q[i] = n
    <3>1. rank[n] \in 0..(K - 1)
      BY <1>4
    <3> HIDE DEF rank
    <3>2. rank[n] + 1 \in 1..K /\ (rank[n] + 1) - 1 = rank[n]
      BY <1>1, <3>1
    <3>3. q[rank[n] + 1] = n
      BY <1>6, <1>9, <3>2
    <3> QED
      BY <3>2, <3>3
  <2> QED
    BY <1>10, <1>11, <2>1 DEF Range
<1>14. M \subseteq Nat
  BY DEF Orders
<1> QED
  BY <1>1, <1>11, <1>12, <1>13, <1>14 DEF Orders, q, K

\* A greatest element is found.
LEMMA MaxIs ==
    ASSUME NEW T \in SUBSET Nat, IsFiniteSet(T), T # {}
    PROVE  Max(T) \in T /\ \A y \in T : y <= Max(T)
<1>1. PICK x \in T : \A y \in T : y <= x
  BY GreatestNat
<1>2. \A y \in T : x >= y
  BY <1>1
<1>3. Max(T) \in T /\ \A y \in T : Max(T) >= y
  BY <1>2 DEF Max
<1> QED
  BY <1>3

-----------------------------------------------------------------------------
(* Well-formed schedules *)

IsSchedule(s) ==
    s = [order |-> s.order, ins |-> s.ins, outs |-> s.outs, level |-> s.level,
         body |-> s.body, isArg |-> s.isArg, ext |-> s.ext, depth |-> s.depth,
         depFree |-> s.depFree, isLegal |-> s.isLegal, tokens |-> s.tokens]

\* The type of a schedule with the nodes N and the buffers B.
TypeOver(s, N, B) ==
    /\ Orders(s.order, N) /\ B \subseteq Nat /\ IsFiniteSet(B)
    /\ s.outs \in [N -> SUBSET B]
    /\ DOMAIN s.ins = N /\ DOMAIN s.body = N
    /\ \A n \in N : /\ DOMAIN s.ins[n] \subseteq B \ s.outs[n]
                    /\ s.ins[n] \in [DOMAIN s.ins[n] -> Nat]
    /\ s.level \in [N -> Nat \cup {NoLevel}]
    /\ s.isArg \in [B -> BOOLEAN] /\ s.ext \in [B -> BOOLEAN]
    /\ s.depth \in [B -> Nat \ {0}]
    /\ s.depFree \in BOOLEAN /\ s.isLegal \in BOOLEAN

\* A schedule of the model is a record of the fields of one, typed over its own nodes and
\* buffers.
LEMMA TypeOfSchedule ==
    ASSUME NEW s, ScheduleTypeOK(s)
    PROVE  IsSchedule(s) /\ TypeOver(s, Nodes(s), Buffers(s))
BY DEF ScheduleTypeOK, IsSchedule, TypeOver, Orders

\* And the other way around: the nodes and buffers are those it is typed over.
LEMMA ScheduleOfType ==
    ASSUME NEW s, IsSchedule(s), NEW N, NEW B, TypeOver(s, N, B)
    PROVE  ScheduleTypeOK(s) /\ Nodes(s) = N /\ Buffers(s) = B
<1>1. Nodes(s) = N /\ Buffers(s) = B
  BY DEF TypeOver, Nodes, Buffers
<1> QED
  BY <1>1 DEF ScheduleTypeOK, IsSchedule, TypeOver, Orders

\* New nodes and buffers are new.
LEMMA FreshIs ==
    ASSUME NEW s, ScheduleTypeOK(s)
    PROVE  /\ FreshNode(s) \in Nat \ Nodes(s) /\ FreshBuffer(s) \in Nat \ Buffers(s)
           /\ \A n \in Nodes(s) : n < FreshNode(s)
           /\ \A b \in Buffers(s) : b < FreshBuffer(s)
<1>1. Nodes(s) \subseteq Nat /\ IsFiniteSet(Nodes(s)) /\ Buffers(s) \subseteq Nat /\ IsFiniteSet(Buffers(s))
  <2>1. TypeOver(s, Nodes(s), Buffers(s))
    BY TypeOfSchedule
  <2> QED
    BY <2>1, OrderedIsFinite DEF TypeOver, Orders
<1>2. ASSUME NEW T \in SUBSET Nat, IsFiniteSet(T)
      PROVE  1 + Max({0} \cup T) \in Nat /\ \A x \in T : x < 1 + Max({0} \cup T)
  <2>1. IsFiniteSet({0} \cup T)
    BY <1>2, FS_Singleton, FS_Union
  <2> DEFINE m == Max({0} \cup T)
  <2>2. m \in {0} \cup T /\ \A y \in {0} \cup T : y <= m
    BY <2>1, MaxIs
  <2> HIDE DEF m
  <2>3. m \in Nat /\ \A y \in T : y <= m
    BY <2>2
  <2>4. 1 + m \in Nat /\ \A y \in T : y < 1 + m
    BY <2>3
  <2> QED
    BY <2>4 DEF m
<1>3. FreshNode(s) \in Nat /\ \A n \in Nodes(s) : n < FreshNode(s)
  BY <1>1, <1>2 DEF FreshNode
<1>4. FreshBuffer(s) \in Nat /\ \A b \in Buffers(s) : b < FreshBuffer(s)
  BY <1>1, <1>2 DEF FreshBuffer
<1> QED
  BY <1>1, <1>3, <1>4

\* A node reads or writes a buffer, not both.
LEMMA ReadOrWrite ==
    ASSUME NEW s, ScheduleTypeOK(s), NEW b
    PROVE  /\ Producers(s, b) \subseteq Nodes(s) /\ Consumers(s, b) \subseteq Nodes(s)
           /\ Producers(s, b) \cap Consumers(s, b) = {}
           /\ IsFiniteSet(Producers(s, b)) /\ IsFiniteSet(Consumers(s, b))
<1>1. TypeOver(s, Nodes(s), Buffers(s))
  BY TypeOfSchedule
<1>2. IsFiniteSet(Nodes(s))
  BY <1>1, OrderedIsFinite DEF TypeOver
<1>3. Producers(s, b) \subseteq Nodes(s) /\ Consumers(s, b) \subseteq Nodes(s)
  BY DEF Producers, Consumers
<1>4. Producers(s, b) \cap Consumers(s, b) = {}
  BY <1>1 DEF TypeOver, Producers, Consumers
<1> QED
  BY <1>2, <1>3, <1>4, FS_Subset
-----------------------------------------------------------------------------
(* What the rewrites change: field by field, and the type they keep *)

SameFlags(s, t)   == t.depFree = s.depFree /\ t.isLegal = s.isLegal /\ t.tokens = s.tokens
SameBuffers(s, t) == t.isArg = s.isArg /\ t.ext = s.ext /\ t.depth = s.depth
SameNodes(s, t)   == /\ t.order = s.order /\ t.ins = s.ins /\ t.outs = s.outs
                     /\ t.level = s.level /\ t.body = s.body

\* AddBuffer: one more BufferOp, as external as b.
LEMMA AddBufferIs ==
    ASSUME NEW s, ScheduleTypeOK(s), NEW new \in Nat \ Buffers(s), NEW b \in Buffers(s),
           NEW t, t = AddBuffer(s, new, b)
    PROVE  /\ ScheduleTypeOK(t) /\ SameFlags(s, t) /\ SameNodes(s, t)
           /\ Nodes(t) = Nodes(s) /\ Buffers(t) = Buffers(s) \cup {new}
           /\ ~t.isArg[new] /\ t.ext[new] = s.ext[b] /\ t.depth[new] = 1
           /\ \A x \in Buffers(s) : /\ t.isArg[x] = s.isArg[x] /\ t.ext[x] = s.ext[x]
                                    /\ t.depth[x] = s.depth[x]
<1>1. IsSchedule(s) /\ TypeOver(s, Nodes(s), Buffers(s))
  BY TypeOfSchedule
<1>2. /\ IsSchedule(t) /\ SameFlags(s, t) /\ SameNodes(s, t)
      /\ t.isArg = Put(s.isArg, new, FALSE)
      /\ t.ext = Put(s.ext, new, s.ext[b])
      /\ t.depth = Put(s.depth, new, 1)
  BY <1>1 DEF IsSchedule, AddBuffer, SameFlags, SameNodes
<1> DEFINE B == Buffers(s) \cup {new}
<1>3. DOMAIN s.isArg = Buffers(s) /\ DOMAIN s.ext = Buffers(s) /\ DOMAIN s.depth = Buffers(s)
  BY <1>1 DEF TypeOver
<1>4. /\ t.isArg \in [B -> BOOLEAN] /\ t.ext \in [B -> BOOLEAN] /\ t.depth \in [B -> Nat \ {0}]
  <2>1. /\ s.isArg \in [Buffers(s) -> BOOLEAN] /\ s.ext \in [Buffers(s) -> BOOLEAN]
        /\ s.depth \in [Buffers(s) -> Nat \ {0}] /\ s.ext[b] \in BOOLEAN
    BY <1>1 DEF TypeOver
  <2>2. 1 \in Nat \ {0} /\ FALSE \in BOOLEAN
    OBVIOUS
  <2>3. t.isArg \in [B -> BOOLEAN]
    BY <1>2, <2>1, <2>2 DEF Put
  <2>4. t.ext \in [B -> BOOLEAN]
    BY <1>2, <2>1 DEF Put
  <2>5. t.depth \in [B -> Nat \ {0}]
    BY <1>2, <2>1, <2>2 DEF Put
  <2> QED
    BY <2>3, <2>4, <2>5
<1>5. /\ t.isArg[new] = FALSE /\ t.ext[new] = s.ext[b] /\ t.depth[new] = 1
      /\ \A x \in Buffers(s) : /\ t.isArg[x] = s.isArg[x] /\ t.ext[x] = s.ext[x]
                               /\ t.depth[x] = s.depth[x]
  <2>1. t.isArg[new] = FALSE /\ \A x \in Buffers(s) : t.isArg[x] = s.isArg[x]
    BY <1>2, <1>3 DEF Put
  <2>2. t.ext[new] = s.ext[b] /\ \A x \in Buffers(s) : t.ext[x] = s.ext[x]
    BY <1>2, <1>3 DEF Put
  <2>3. t.depth[new] = 1 /\ \A x \in Buffers(s) : t.depth[x] = s.depth[x]
    BY <1>2, <1>3 DEF Put
  <2> QED
    BY <2>1, <2>2, <2>3
<1>6. IsFiniteSet(B) /\ B \subseteq Nat
  BY <1>1, FS_AddElement DEF TypeOver
<1>7. TypeOver(t, Nodes(s), B)
  BY <1>1, <1>2, <1>4, <1>6 DEF TypeOver, SameNodes, SameFlags
<1> QED
  BY <1>2, <1>5, <1>7, ScheduleOfType

\* One more node, next to n.
NodeAdded(s, t, n, new, ins, outs, level) ==
    /\ ScheduleTypeOK(t) /\ SameFlags(s, t) /\ SameBuffers(s, t)
    /\ Nodes(t) = Nodes(s) \cup {new} /\ Buffers(t) = Buffers(s)
    /\ t.ins[new] = ins /\ t.outs[new] = outs /\ t.level[new] = level
    /\ \A m \in Nodes(s) : /\ t.ins[m] = s.ins[m] /\ t.outs[m] = s.outs[m]
                           /\ t.level[m] = s.level[m] /\ t.body[m] = s.body[m]
    /\ \A m \in Nodes(s) :
          /\ Before(t, new, m) <=> Before(s, n, m)
          /\ Before(t, m, new) <=> ~Before(s, n, m)
          /\ \A k \in Nodes(s) : Before(t, m, k) <=> Before(s, m, k)

\* AddNodeAfter puts the new node behind n and keeps the rest.
LEMMA AddNodeAfterIs ==
    ASSUME NEW s, ScheduleTypeOK(s), NEW n \in Nodes(s), NEW new \in Nat \ Nodes(s),
           NEW ins, NEW outs \in SUBSET Buffers(s), NEW level \in Nat \cup {NoLevel}, NEW body,
           DOMAIN ins \subseteq Buffers(s) \ outs, ins \in [DOMAIN ins -> Nat],
           NEW t, t = AddNodeAfter(s, n, new, ins, outs, level, body)
    PROVE  NodeAdded(s, t, n, new, ins, outs, level)
<1>1. IsSchedule(s) /\ TypeOver(s, Nodes(s), Buffers(s))
  BY TypeOfSchedule
<1>2. /\ IsSchedule(t) /\ SameFlags(s, t) /\ SameBuffers(s, t)
      /\ t.order = InsertAt(s.order, Position(s.order, n) + 1, new)
      /\ t.ins = Put(s.ins, new, ins) /\ t.outs = Put(s.outs, new, outs)
      /\ t.level = Put(s.level, new, level) /\ t.body = Put(s.body, new, body)
  BY <1>1 DEF IsSchedule, AddNodeAfter, SameFlags, SameBuffers
<1> DEFINE N == Nodes(s) \cup {new}
<1>3. Orders(s.order, Nodes(s))
  BY <1>1 DEF TypeOver
<1>4. /\ Orders(t.order, N)
      /\ \A x \in Nodes(s) :
            /\ Position(t.order, new) < Position(t.order, x) <=> Position(s.order, n) < Position(s.order, x)
            /\ Position(t.order, x) < Position(t.order, new) <=> ~(Position(s.order, n) < Position(s.order, x))
            /\ \A y \in Nodes(s) :
                 Position(t.order, x) < Position(t.order, y) <=> Position(s.order, x) < Position(s.order, y)
  BY <1>2, <1>3, InsertedIs
<1>5. /\ DOMAIN s.ins = Nodes(s) /\ DOMAIN s.outs = Nodes(s)
      /\ DOMAIN s.level = Nodes(s) /\ DOMAIN s.body = Nodes(s)
  BY <1>1 DEF TypeOver
<1>6. /\ t.ins[new] = ins /\ t.outs[new] = outs /\ t.level[new] = level
      /\ \A m \in Nodes(s) : /\ t.ins[m] = s.ins[m] /\ t.outs[m] = s.outs[m]
                             /\ t.level[m] = s.level[m] /\ t.body[m] = s.body[m]
  <2>a. t.ins = Put(s.ins, new, ins)
    BY <1>2
  <2>b. t.outs = Put(s.outs, new, outs)
    BY <1>2
  <2>c. t.level = Put(s.level, new, level)
    BY <1>2
  <2>d. t.body = Put(s.body, new, body)
    BY <1>2
  <2>1. t.ins[new] = ins /\ \A m \in Nodes(s) : t.ins[m] = s.ins[m]
    BY <2>a, <1>5 DEF Put
  <2>2. t.outs[new] = outs /\ \A m \in Nodes(s) : t.outs[m] = s.outs[m]
    BY <2>b, <1>5 DEF Put
  <2>3. t.level[new] = level /\ \A m \in Nodes(s) : t.level[m] = s.level[m]
    BY <2>c, <1>5 DEF Put
  <2>4. \A m \in Nodes(s) : t.body[m] = s.body[m]
    BY <2>d, <1>5 DEF Put
  <2> QED
    BY <2>1, <2>2, <2>3, <2>4
<1>7. /\ DOMAIN t.ins = N /\ DOMAIN t.body = N
      /\ t.outs \in [N -> SUBSET Buffers(s)] /\ t.level \in [N -> Nat \cup {NoLevel}]
  <2>1. s.outs \in [Nodes(s) -> SUBSET Buffers(s)] /\ s.level \in [Nodes(s) -> Nat \cup {NoLevel}]
    BY <1>1 DEF TypeOver
  <2>b. t.outs = Put(s.outs, new, outs)
    BY <1>2
  <2>c. t.level = Put(s.level, new, level)
    BY <1>2
  <2>2. t.outs \in [N -> SUBSET Buffers(s)]
    BY <2>b, <2>1 DEF Put
  <2>3. t.level \in [N -> Nat \cup {NoLevel}]
    BY <2>c, <2>1 DEF Put
  <2>4. DOMAIN t.ins = N /\ DOMAIN t.body = N
    BY <1>2, <1>5 DEF Put
  <2> QED
    BY <2>2, <2>3, <2>4
<1>8. \A m \in N : /\ DOMAIN t.ins[m] \subseteq Buffers(s) \ t.outs[m]
                   /\ t.ins[m] \in [DOMAIN t.ins[m] -> Nat]
  BY <1>1, <1>6 DEF TypeOver
<1>9. TypeOver(t, N, Buffers(s))
  BY <1>1, <1>2, <1>4, <1>7, <1>8 DEF TypeOver, SameBuffers, SameFlags
<1>10. ScheduleTypeOK(t) /\ Nodes(t) = N /\ Buffers(t) = Buffers(s)
  BY <1>2, <1>9, ScheduleOfType
<1> QED
  BY <1>2, <1>4, <1>6, <1>10 DEF Before, NodeAdded
RenameOuts(outs, old, new) == {Subst(b, old, new) : b \in outs}

\* The nodes in U use new where they used old.
UsesReplaced(s, t, old, new, U) ==
    /\ ScheduleTypeOK(t) /\ SameFlags(s, t) /\ SameBuffers(s, t)
    /\ t.order = s.order /\ t.level = s.level
    /\ Nodes(t) = Nodes(s) /\ Buffers(t) = Buffers(s)
    /\ \A n \in Nodes(s) :
          IF n \in U
          THEN /\ t.outs[n] = RenameOuts(s.outs[n], old, new)
               /\ t.ins[n] = RenameIns(s.ins[n], old, new)
          ELSE t.ins[n] = s.ins[n] /\ t.outs[n] = s.outs[n]

\* ReplaceUses renames old to new in the nodes of U, if none of them uses new already.
LEMMA ReplaceUsesIs ==
    ASSUME NEW s, ScheduleTypeOK(s), NEW U,
           NEW old \in Buffers(s), NEW new \in Buffers(s), old # new,
           \A n \in Nodes(s) \cap U : new \notin s.outs[n] /\ new \notin DOMAIN s.ins[n],
           NEW t, t = ReplaceUses(s, old, new, U)
    PROVE  UsesReplaced(s, t, old, new, U)
<1>1. IsSchedule(s) /\ TypeOver(s, Nodes(s), Buffers(s))
  BY TypeOfSchedule
<1>2. /\ IsSchedule(t) /\ SameFlags(s, t) /\ SameBuffers(s, t)
      /\ t.order = s.order /\ t.level = s.level
      /\ t.ins = [n \in DOMAIN s.ins |->
                     IF n \in U THEN RenameIns(s.ins[n], old, new) ELSE s.ins[n]]
      /\ t.outs = [n \in DOMAIN s.outs |->
                     IF n \in U THEN {Subst(b, old, new) : b \in s.outs[n]} ELSE s.outs[n]]
      /\ t.body = [n \in DOMAIN s.body |->
                     IF n \in U THEN RenameBody(s.body[n], old, new) ELSE s.body[n]]
  BY <1>1 DEF IsSchedule, ReplaceUses, SameFlags, SameBuffers
<1>3. /\ DOMAIN s.ins = Nodes(s) /\ DOMAIN s.outs = Nodes(s) /\ DOMAIN s.body = Nodes(s)
      /\ \A n \in Nodes(s) : /\ s.outs[n] \subseteq Buffers(s)
                             /\ DOMAIN s.ins[n] \subseteq Buffers(s) \ s.outs[n]
                             /\ s.ins[n] \in [DOMAIN s.ins[n] -> Nat]
  BY <1>1 DEF TypeOver
<1>4. \A n \in Nodes(s) :
         IF n \in U
         THEN /\ t.outs[n] = {Subst(b, old, new) : b \in s.outs[n]}
              /\ t.ins[n] = RenameIns(s.ins[n], old, new)
         ELSE t.ins[n] = s.ins[n] /\ t.outs[n] = s.outs[n]
  BY <1>2, <1>3
<1>5. DOMAIN t.ins = Nodes(s) /\ DOMAIN t.outs = Nodes(s) /\ DOMAIN t.body = Nodes(s)
  BY <1>2, <1>3
<1>6. \A n \in Nodes(s) : t.outs[n] \subseteq Buffers(s)
  BY <1>3, <1>4 DEF Subst
<1>7. ASSUME NEW n \in Nodes(s)
      PROVE  /\ DOMAIN t.ins[n] \subseteq Buffers(s) \ t.outs[n]
             /\ t.ins[n] \in [DOMAIN t.ins[n] -> Nat]
  <2>1. CASE n \notin U
    BY <1>3, <1>4, <2>1
  <2>2. CASE n \in U /\ old \notin DOMAIN s.ins[n]
    <3>1. t.ins[n] = s.ins[n] /\ t.outs[n] = {Subst(b, old, new) : b \in s.outs[n]}
      BY <1>4, <2>2 DEF RenameIns
    <3> QED
      BY <1>3, <2>2, <3>1 DEF Subst
  <2>3. CASE n \in U /\ old \in DOMAIN s.ins[n]
    <3>1. /\ t.ins[n] = [x \in (DOMAIN s.ins[n] \ {old}) \cup {new} |->
                            IF x = new THEN s.ins[n][old] ELSE s.ins[n][x]]
          /\ t.outs[n] = {Subst(b, old, new) : b \in s.outs[n]}
      BY <1>4, <2>3 DEF RenameIns
    <3>2. old \notin s.outs[n]
      BY <1>3, <2>3
    <3>3. t.outs[n] = s.outs[n]
      BY <3>1, <3>2 DEF Subst
    <3>4. DOMAIN t.ins[n] \subseteq Buffers(s) \ t.outs[n]
      BY <1>3, <2>3, <3>1, <3>3
    <3>5. t.ins[n] \in [DOMAIN t.ins[n] -> Nat]
      BY <1>3, <2>3, <3>1
    <3> QED
      BY <3>4, <3>5
  <2> QED
    BY <2>1, <2>2, <2>3
<1>8. t.outs \in [Nodes(s) -> SUBSET Buffers(s)]
  BY <1>2, <1>3, <1>5, <1>6
<1>9. TypeOver(t, Nodes(s), Buffers(s))
  BY <1>1, <1>2, <1>5, <1>7, <1>8 DEF TypeOver, SameBuffers, SameFlags
<1> QED
  BY <1>2, <1>4, <1>9, ScheduleOfType DEF RenameOuts, UsesReplaced

\* Nobody uses a buffer that is no buffer.
LEMMA NewIsUnused ==
    ASSUME NEW s, ScheduleTypeOK(s), NEW new, new \notin Buffers(s)
    PROVE  \A n \in Nodes(s) : new \notin s.outs[n] /\ new \notin DOMAIN s.ins[n]
<1>1. TypeOver(s, Nodes(s), Buffers(s))
  BY TypeOfSchedule
<1> QED
  BY <1>1 DEF TypeOver

\* A new buffer takes the place of b in the nodes of U.
Rebuffered(s, t, b, new, U) ==
    /\ ScheduleTypeOK(t) /\ SameFlags(s, t)
    /\ t.order = s.order /\ t.level = s.level /\ Nodes(t) = Nodes(s)
    /\ new \in Nat \ Buffers(s) /\ new # b /\ Buffers(t) = Buffers(s) \cup {new}
    /\ ~t.isArg[new] /\ t.ext[new] = s.ext[b] /\ t.depth[new] = 1
    /\ \A x \in Buffers(s) : /\ t.isArg[x] = s.isArg[x] /\ t.ext[x] = s.ext[x]
                             /\ t.depth[x] = s.depth[x]
    /\ \A n \in Nodes(s) : new \notin s.outs[n] /\ new \notin DOMAIN s.ins[n]
    /\ \A n \in Nodes(s) :
          IF n \in U
          THEN /\ t.outs[n] = RenameOuts(s.outs[n], b, new)
               /\ t.ins[n] = RenameIns(s.ins[n], b, new)
          ELSE t.ins[n] = s.ins[n] /\ t.outs[n] = s.outs[n]

\* A new BufferOp handed to the users in U.
LEMMA RebufferIs ==
    ASSUME NEW s, ScheduleTypeOK(s), NEW U, NEW b \in Buffers(s),
           NEW new, new = FreshBuffer(s),
           NEW t, t = ReplaceUses(AddBuffer(s, new, b), b, new, U)
    PROVE  Rebuffered(s, t, b, new, U)
<1> DEFINE a == AddBuffer(s, new, b)
<1>1. new \in Nat \ Buffers(s) /\ new # b
  BY FreshIs
<1>2. /\ ScheduleTypeOK(a) /\ SameFlags(s, a) /\ SameNodes(s, a)
      /\ Nodes(a) = Nodes(s) /\ Buffers(a) = Buffers(s) \cup {new}
      /\ ~a.isArg[new] /\ a.ext[new] = s.ext[b] /\ a.depth[new] = 1
      /\ \A x \in Buffers(s) : /\ a.isArg[x] = s.isArg[x] /\ a.ext[x] = s.ext[x]
                               /\ a.depth[x] = s.depth[x]
  BY <1>1, AddBufferIs
<1>3. t = ReplaceUses(a, b, new, U)
  OBVIOUS
<1> HIDE DEF a
<1>4. \A n \in Nodes(s) : new \notin s.outs[n] /\ new \notin DOMAIN s.ins[n]
  BY <1>1, NewIsUnused
<1>5. \A n \in Nodes(a) : new \notin a.outs[n] /\ new \notin DOMAIN a.ins[n]
  BY <1>2, <1>4 DEF SameNodes
<1>6. b \in Buffers(a) /\ new \in Buffers(a)
  BY <1>2
<1>7. UsesReplaced(a, t, b, new, U)
  BY <1>1, <1>2, <1>3, <1>5, <1>6, ReplaceUsesIs
<1> QED
  BY <1>1, <1>2, <1>4, <1>7 DEF Rebuffered, UsesReplaced, SameFlags, SameBuffers, SameNodes

\* Who writes and who reads what afterwards, at which taps.
UsesMoved(s, t, b, new, U) ==
    /\ \A x \in Buffers(s) : x # b => /\ Producers(t, x) = Producers(s, x)
                                      /\ Consumers(t, x) = Consumers(s, x)
    /\ Producers(t, b) = Producers(s, b) \ U /\ Consumers(t, b) = Consumers(s, b) \ U
    /\ Producers(t, new) = Producers(s, b) \cap U
    /\ Consumers(t, new) = Consumers(s, b) \cap U
    /\ \A n \in Nodes(s) : \A x \in DOMAIN t.ins[n] :
          IF x = new THEN b \in DOMAIN s.ins[n] /\ t.ins[n][x] = s.ins[n][b]
          ELSE x \in DOMAIN s.ins[n] /\ t.ins[n][x] = s.ins[n][x]

\* The writers and readers of b in U move to the new buffer.
LEMMA RebufferedUses ==
    ASSUME NEW s, ScheduleTypeOK(s), NEW U, NEW b \in Buffers(s), NEW new, NEW t,
           Rebuffered(s, t, b, new, U)
    PROVE  UsesMoved(s, t, b, new, U)
<1>1. /\ Nodes(t) = Nodes(s) /\ new # b /\ new \notin Buffers(s)
      /\ \A n \in Nodes(s) : new \notin s.outs[n] /\ new \notin DOMAIN s.ins[n]
      /\ \A n \in Nodes(s) :
            IF n \in U
            THEN /\ t.outs[n] = RenameOuts(s.outs[n], b, new)
                 /\ t.ins[n] = RenameIns(s.ins[n], b, new)
            ELSE t.ins[n] = s.ins[n] /\ t.outs[n] = s.outs[n]
  BY DEF Rebuffered
<1>2. ASSUME NEW n \in Nodes(s), NEW x, x # new
      PROVE  /\ x \in t.outs[n] <=> x \in s.outs[n] /\ ~(x = b /\ n \in U)
             /\ x \in DOMAIN t.ins[n] <=> x \in DOMAIN s.ins[n] /\ ~(x = b /\ n \in U)
             /\ x \in DOMAIN t.ins[n] => t.ins[n][x] = s.ins[n][x]
  <2>1. CASE n \notin U
    BY <1>1, <2>1
  <2>2. CASE n \in U
    <3>1. x \in t.outs[n] <=> x \in s.outs[n] /\ x # b
      BY <1>1, <1>2, <2>2 DEF RenameOuts, Subst
    <3>2. /\ x \in DOMAIN t.ins[n] <=> x \in DOMAIN s.ins[n] /\ x # b
          /\ x \in DOMAIN t.ins[n] => t.ins[n][x] = s.ins[n][x]
      <4>1. t.ins[n] = RenameIns(s.ins[n], b, new)
        BY <1>1, <2>2
      <4>2. CASE b \notin DOMAIN s.ins[n]
        <5>1. t.ins[n] = s.ins[n]
          BY <4>1, <4>2 DEF RenameIns
        <5> QED
          BY <4>2, <5>1
      <4>3. CASE b \in DOMAIN s.ins[n]
        <5>1. t.ins[n] = [y \in (DOMAIN s.ins[n] \ {b}) \cup {new} |->
                              IF y = new THEN s.ins[n][b] ELSE s.ins[n][y]]
          BY <4>1, <4>3 DEF RenameIns
        <5> QED
          BY <1>2, <4>3, <5>1
      <4> QED
        BY <4>2, <4>3
    <3> QED
      BY <2>2, <3>1, <3>2
  <2> QED
    BY <2>1, <2>2
<1>3. ASSUME NEW n \in Nodes(s)
      PROVE  /\ new \in t.outs[n] <=> b \in s.outs[n] /\ n \in U
             /\ new \in DOMAIN t.ins[n] <=> b \in DOMAIN s.ins[n] /\ n \in U
             /\ new \in DOMAIN t.ins[n] => t.ins[n][new] = s.ins[n][b]
  <2>1. CASE n \notin U
    BY <1>1, <2>1
  <2>2. CASE n \in U
    <3>1. new \in t.outs[n] <=> b \in s.outs[n]
      BY <1>1, <2>2 DEF RenameOuts, Subst
    <3>2. /\ new \in DOMAIN t.ins[n] <=> b \in DOMAIN s.ins[n]
          /\ new \in DOMAIN t.ins[n] => t.ins[n][new] = s.ins[n][b]
      BY <1>1, <2>2 DEF RenameIns
    <3> QED
      BY <2>2, <3>1, <3>2
  <2> QED
    BY <2>1, <2>2
<1>4. ASSUME NEW x \in Buffers(s)
      PROVE  /\ Producers(t, x) = IF x = b THEN Producers(s, b) \ U ELSE Producers(s, x)
             /\ Consumers(t, x) = IF x = b THEN Consumers(s, b) \ U ELSE Consumers(s, x)
  <2>1. x # new
    BY <1>1
  <2>2. \A n \in Nodes(s) :
           /\ x \in t.outs[n] <=> x \in s.outs[n] /\ ~(x = b /\ n \in U)
           /\ x \in DOMAIN t.ins[n] <=> x \in DOMAIN s.ins[n] /\ ~(x = b /\ n \in U)
    BY <1>2, <2>1
  <2> QED
    BY <1>1, <2>2 DEF Producers, Consumers
<1>5. /\ Producers(t, new) = Producers(s, b) \cap U
      /\ Consumers(t, new) = Consumers(s, b) \cap U
  BY <1>1, <1>3 DEF Producers, Consumers
<1>6. ASSUME NEW n \in Nodes(s), NEW x \in DOMAIN t.ins[n]
      PROVE  IF x = new THEN b \in DOMAIN s.ins[n] /\ t.ins[n][x] = s.ins[n][b]
             ELSE x \in DOMAIN s.ins[n] /\ t.ins[n][x] = s.ins[n][x]
  BY <1>2, <1>3
<1> QED
  BY <1>1, <1>4, <1>5, <1>6 DEF UsesMoved

\* The new node reads ins and writes outs.
NodeAddedWith(s, t, new, ins, outs) ==
    \A x : /\ Producers(t, x) = Producers(s, x) \cup {m \in {new} : x \in outs}
           /\ Consumers(t, x) = Consumers(s, x) \cup {m \in {new} : x \in DOMAIN ins}

\* A new node adds itself to the writers and readers of its ports.
LEMMA NodeAddedUses ==
    ASSUME NEW s, ScheduleTypeOK(s), NEW n \in Nodes(s), NEW new, new \notin Nodes(s),
           NEW ins, NEW outs, NEW level, NEW t,
           NodeAdded(s, t, n, new, ins, outs, level)
    PROVE  NodeAddedWith(s, t, new, ins, outs)
<1>1. /\ Nodes(t) = Nodes(s) \cup {new} /\ t.ins[new] = ins /\ t.outs[new] = outs
      /\ \A m \in Nodes(s) : t.ins[m] = s.ins[m] /\ t.outs[m] = s.outs[m]
  BY DEF NodeAdded
<1> QED
  BY <1>1 DEF Producers, Consumers, NodeAddedWith
\* Nodes go; the others stay as they are.
NodesDropped(s, t, N) ==
    /\ ScheduleTypeOK(t) /\ SameFlags(s, t) /\ SameBuffers(s, t)
    /\ Nodes(t) = Nodes(s) \ N /\ Buffers(t) = Buffers(s)
    /\ \A m \in Nodes(s) \ N : /\ t.ins[m] = s.ins[m] /\ t.outs[m] = s.outs[m]
                               /\ t.level[m] = s.level[m]

\* DropNodes changes nothing of the nodes that stay.
LEMMA DropNodesIs ==
    ASSUME NEW s, ScheduleTypeOK(s), NEW N, NEW t, t = DropNodes(s, N)
    PROVE  NodesDropped(s, t, N)
<1>1. IsSchedule(s) /\ TypeOver(s, Nodes(s), Buffers(s))
  BY TypeOfSchedule
<1>2. /\ IsSchedule(t) /\ SameFlags(s, t) /\ SameBuffers(s, t)
      /\ t.order = Arranged(s.order, Range(s.order) \ N)
      /\ t.ins = Restrict(s.ins, DOMAIN s.ins \ N)
      /\ t.outs = Restrict(s.outs, DOMAIN s.outs \ N)
      /\ t.level = Restrict(s.level, DOMAIN s.level \ N)
      /\ t.body = Restrict(s.body, DOMAIN s.body \ N)
  BY <1>1 DEF IsSchedule, DropNodes, SameFlags, SameBuffers
<1> DEFINE M == Nodes(s) \ N
<1>3. /\ DOMAIN s.ins = Nodes(s) /\ DOMAIN s.outs = Nodes(s) /\ DOMAIN s.level = Nodes(s)
      /\ DOMAIN s.body = Nodes(s) /\ Range(s.order) = Nodes(s)
  BY <1>1 DEF TypeOver, Orders
<1>4. Orders(t.order, M)
  <2>1. Orders(s.order, Nodes(s)) /\ t.order = Arranged(s.order, M)
    BY <1>1, <1>2, <1>3 DEF TypeOver
  <2> QED
    BY <2>1, ArrangedIs
<1>5. /\ DOMAIN t.ins = M /\ DOMAIN t.outs = M /\ DOMAIN t.level = M /\ DOMAIN t.body = M
      /\ \A m \in M : t.ins[m] = s.ins[m] /\ t.outs[m] = s.outs[m] /\ t.level[m] = s.level[m]
  BY <1>2, <1>3 DEF Restrict
<1>6. t.outs \in [M -> SUBSET Buffers(s)] /\ t.level \in [M -> Nat \cup {NoLevel}]
  <2>1. t.outs = [m \in M |-> s.outs[m]] /\ t.level = [m \in M |-> s.level[m]]
    BY <1>2, <1>3 DEF Restrict
  <2>2. /\ \A m \in M : s.outs[m] \in SUBSET Buffers(s)
        /\ \A m \in M : s.level[m] \in Nat \cup {NoLevel}
    BY <1>1 DEF TypeOver
  <2> QED
    BY <2>1, <2>2
<1>7. \A m \in M : /\ DOMAIN t.ins[m] \subseteq Buffers(s) \ t.outs[m]
                   /\ t.ins[m] \in [DOMAIN t.ins[m] -> Nat]
  BY <1>1, <1>5 DEF TypeOver
<1>8. TypeOver(t, M, Buffers(s))
  BY <1>1, <1>2, <1>4, <1>5, <1>6, <1>7 DEF TypeOver, SameBuffers, SameFlags
<1> QED
  BY <1>2, <1>5, <1>8, ScheduleOfType DEF NodesDropped

\* The nodes of N become one, new.
Fused(s, t, N, new, level) ==
    /\ ScheduleTypeOK(t) /\ SameFlags(s, t) /\ SameBuffers(s, t)
    /\ new \notin Nodes(s) /\ Nodes(t) = (Nodes(s) \ N) \cup {new} /\ Buffers(t) = Buffers(s)
    /\ \A m \in Nodes(s) \ N : /\ t.ins[m] = s.ins[m] /\ t.outs[m] = s.outs[m]
                               /\ t.level[m] = s.level[m]
    /\ t.level[new] = level
    /\ t.outs[new] = UNION {s.outs[n] : n \in N}
    /\ \A b \in DOMAIN t.ins[new] :
          /\ b \notin t.outs[new]
          /\ \E n \in N : b \in DOMAIN s.ins[n] /\ t.ins[new][b] = s.ins[n][b]
    /\ \A n \in N : \A b \in DOMAIN s.ins[n] : b \in t.outs[new] \/ b \in DOMAIN t.ins[new]

\* FuseNodeOps makes one node with all the outputs, and the inputs that are no outputs.
LEMMA FuseNodeOpsIs ==
    ASSUME NEW s, ScheduleTypeOK(s), NEW N \in SUBSET Nodes(s), N # {},
           NEW level \in Nat \cup {NoLevel},
           NEW t, t = FuseNodeOps(s, InBlockOrder(s, N), level)
    PROVE  Fused(s, t, N, FreshNode(s), level)
<1>1. IsSchedule(s) /\ TypeOver(s, Nodes(s), Buffers(s))
  BY TypeOfSchedule
<1> DEFINE seq == InBlockOrder(s, N)
           new == FreshNode(s)
<1>2. seq \in Seq(N) /\ Range(seq) = N /\ Len(seq) \in Nat \ {0}
  <2>1. Orders(s.order, Nodes(s))
    BY <1>1 DEF TypeOver
  <2>2. Orders(seq, N)
    BY <2>1, ArrangedIs DEF InBlockOrder
  <2>3. seq \in Seq(N) /\ Range(seq) = N
    BY <2>2 DEF Orders
  <2> HIDE DEF seq
  <2>4. Len(seq) \in Nat /\ DOMAIN seq = 1..Len(seq)
    BY <2>3
  <2>5. Len(seq) # 0
    <3>1. Range(seq) # {}
      BY <2>3
    <3> QED
      BY <2>4, <3>1 DEF Range
  <2> QED
    BY <2>3, <2>4, <2>5
<1> HIDE DEF seq
<1>3. DOMAIN seq = 1..Len(seq) /\ \A i \in DOMAIN seq : seq[i] \in N
  BY <1>2
<1>4. seq[Len(seq)] \in Nodes(s)
  BY <1>2, <1>3
<1> DEFINE outs == UNION {s.outs[n] : n \in Range(seq)}
           dom == (UNION {DOMAIN s.ins[n] : n \in Range(seq)}) \ outs
           first(b) == CHOOSE i \in DOMAIN seq :
                          /\ b \in DOMAIN s.ins[seq[i]]
                          /\ \A j \in 1..(i - 1) : b \notin DOMAIN s.ins[seq[j]]
           ins == [b \in dom |-> s.ins[seq[first(b)]][b]]
           body == FlattenSeq([i \in DOMAIN seq |-> s.body[seq[i]]])
           a == AddNodeAfter(s, seq[Len(seq)], new, ins, outs, level, body)
<1>5. t = DropNodes(a, N)
  BY <1>2 DEF FuseNodeOps, seq
<1>6. ASSUME NEW b \in dom
      PROVE  first(b) \in DOMAIN seq /\ b \in DOMAIN s.ins[seq[first(b)]]
  <2> DEFINE T == {i \in DOMAIN seq : b \in DOMAIN s.ins[seq[i]]}
  <2>1. T \in SUBSET Nat /\ T # {}
    <3>1. \E n \in Range(seq) : b \in DOMAIN s.ins[n]
      OBVIOUS
    <3>2. \E i \in DOMAIN seq : b \in DOMAIN s.ins[seq[i]]
      BY <3>1 DEF Range
    <3> QED
      BY <1>2, <1>3, <3>2
  <2>2. PICK i \in T : \A j \in T : i <= j
    BY <2>1, LeastNat
  <2>3. \A j \in 1..(i - 1) : b \notin DOMAIN s.ins[seq[j]]
    <3> SUFFICES ASSUME NEW j \in 1..(i - 1), b \in DOMAIN s.ins[seq[j]] PROVE FALSE
      OBVIOUS
    <3>1. i \in 1..Len(seq)
      BY <1>3, <2>2
    <3>2. j \in DOMAIN seq /\ j < i
      BY <1>2, <1>3, <3>1
    <3>3. j \in T
      BY <3>2
    <3>4. i <= j
      BY <2>2, <3>3
    <3> QED
      BY <3>1, <3>2, <3>4
  <2>4. \E k \in DOMAIN seq : /\ b \in DOMAIN s.ins[seq[k]]
                              /\ \A j \in 1..(k - 1) : b \notin DOMAIN s.ins[seq[j]]
    BY <2>2, <2>3
  <2> QED
    BY <2>4
<1> HIDE DEF first
<1>7. /\ \A n \in N : /\ s.outs[n] \subseteq Buffers(s) /\ DOMAIN s.ins[n] \subseteq Buffers(s)
                      /\ s.ins[n] \in [DOMAIN s.ins[n] -> Nat]
  BY <1>1 DEF TypeOver
<1>8. outs \in SUBSET Buffers(s) /\ dom \subseteq Buffers(s) \ outs
  BY <1>2, <1>7
<1>9. DOMAIN ins = dom /\ ins \in [dom -> Nat]
  <2>1. ASSUME NEW b \in dom PROVE s.ins[seq[first(b)]][b] \in Nat
    <3>1. seq[first(b)] \in N /\ b \in DOMAIN s.ins[seq[first(b)]]
      BY <1>3, <1>6
    <3> QED
      BY <1>7, <3>1
  <2> QED
    BY <2>1
<1>10. new \in Nat \ Nodes(s)
  BY FreshIs
<1>11. NodeAdded(s, a, seq[Len(seq)], new, ins, outs, level)
  <2> HIDE DEF ins, outs, dom, body
  <2>1. ins \in [DOMAIN ins -> Nat] /\ DOMAIN ins \subseteq Buffers(s) \ outs
    BY <1>8, <1>9
  <2> QED
    BY <1>4, <1>8, <1>10, <2>1, AddNodeAfterIs
<1> HIDE DEF a, new
<1>12. NodesDropped(a, t, N)
  <2>1. ScheduleTypeOK(a)
    BY <1>11 DEF NodeAdded
  <2> QED
    BY <1>5, <2>1, DropNodesIs
<1>13. ASSUME NEW b \in dom
       PROVE \E n \in N : b \in DOMAIN s.ins[n] /\ ins[b] = s.ins[n][b]
  BY <1>3, <1>6
<1>14. \A n \in N : \A b \in DOMAIN s.ins[n] : b \in outs \/ b \in dom
  BY <1>2
<1>15. outs = UNION {s.outs[n] : n \in N}
  BY <1>2
<1>16. dom \cap outs = {}
  OBVIOUS
<1> HIDE DEF ins, outs, dom
<1>17. /\ ScheduleTypeOK(t) /\ SameFlags(s, t) /\ SameBuffers(s, t)
       /\ Nodes(t) = (Nodes(s) \ N) \cup {new} /\ Buffers(t) = Buffers(s)
       /\ new \notin N
  BY <1>10, <1>11, <1>12 DEF NodeAdded, NodesDropped, SameFlags, SameBuffers
<1>18. /\ t.ins[new] = ins /\ t.outs[new] = outs /\ t.level[new] = level
       /\ \A m \in Nodes(s) \ N : /\ t.ins[m] = s.ins[m] /\ t.outs[m] = s.outs[m]
                                  /\ t.level[m] = s.level[m]
  BY <1>10, <1>11, <1>12, <1>17 DEF NodeAdded, NodesDropped
<1> QED
  BY <1>9, <1>10, <1>13, <1>14, <1>15, <1>16, <1>17, <1>18 DEF Fused, new
\* n, or what became of it.
Image(n, N, new) == IF n \in N THEN new ELSE n

\* The new node writes what its parts wrote, and reads what they read and none wrote.
UsesFused(s, t, N, new) ==
    \A b : /\ \A m \in Producers(t, b) : \E p \in Producers(s, b) : m = Image(p, N, new)
           /\ \A m \in Consumers(t, b) : \E c \in Consumers(s, b) :
                 m = Image(c, N, new) /\ t.ins[m][b] = s.ins[c][b]

\* Every use after a fusion comes from a use before it.
LEMMA FusedUses ==
    ASSUME NEW s, ScheduleTypeOK(s), NEW N \in SUBSET Nodes(s), NEW new, NEW level, NEW t,
           Fused(s, t, N, new, level)
    PROVE  UsesFused(s, t, N, new)
<1>1. /\ new \notin Nodes(s) /\ Nodes(t) = (Nodes(s) \ N) \cup {new}
      /\ \A m \in Nodes(s) \ N : t.ins[m] = s.ins[m] /\ t.outs[m] = s.outs[m]
      /\ t.outs[new] = UNION {s.outs[n] : n \in N}
      /\ \A b \in DOMAIN t.ins[new] :
            \E n \in N : b \in DOMAIN s.ins[n] /\ t.ins[new][b] = s.ins[n][b]
  BY DEF Fused
<1> SUFFICES ASSUME NEW b
             PROVE  /\ \A m \in Producers(t, b) : \E p \in Producers(s, b) : m = Image(p, N, new)
                    /\ \A m \in Consumers(t, b) : \E c \in Consumers(s, b) :
                          m = Image(c, N, new) /\ t.ins[m][b] = s.ins[c][b]
  BY DEF UsesFused
<1>2. ASSUME NEW m \in Producers(t, b) PROVE \E p \in Producers(s, b) : m = Image(p, N, new)
  <2>1. m \in Nodes(t) /\ b \in t.outs[m]
    BY <1>2 DEF Producers
  <2>2. CASE m = new
    <3>1. PICK p \in N : b \in s.outs[p]
      BY <1>1, <2>1, <2>2
    <3>2. p \in Producers(s, b)
      BY <3>1 DEF Producers
    <3> QED
      BY <2>2, <3>1, <3>2 DEF Image
  <2>3. CASE m # new
    <3>1. m \in Nodes(s) \ N /\ b \in s.outs[m]
      BY <1>1, <2>1, <2>3
    <3>2. m \in Producers(s, b)
      BY <3>1 DEF Producers
    <3> QED
      BY <3>1, <3>2 DEF Image
  <2> QED
    BY <2>2, <2>3
<1>3. ASSUME NEW m \in Consumers(t, b)
      PROVE  \E c \in Consumers(s, b) : m = Image(c, N, new) /\ t.ins[m][b] = s.ins[c][b]
  <2>1. m \in Nodes(t) /\ b \in DOMAIN t.ins[m]
    BY <1>3 DEF Consumers
  <2>2. CASE m = new
    <3>1. PICK c \in N : b \in DOMAIN s.ins[c] /\ t.ins[new][b] = s.ins[c][b]
      BY <1>1, <2>1, <2>2
    <3>2. c \in Consumers(s, b)
      BY <3>1 DEF Consumers
    <3> QED
      BY <2>2, <3>1, <3>2 DEF Image
  <2>3. CASE m # new
    <3>1. m \in Nodes(s) \ N /\ b \in DOMAIN s.ins[m] /\ t.ins[m] = s.ins[m]
      BY <1>1, <2>1, <2>3
    <3>2. m \in Consumers(s, b)
      BY <3>1 DEF Consumers
    <3> QED
      BY <3>1, <3>2 DEF Image
  <2> QED
    BY <2>2, <2>3
<1> QED
  BY <1>2, <1>3

-----------------------------------------------------------------------------
(* Node n gets other ports *)

Edited(s, t, n, ins, outs) ==
    /\ IsSchedule(t) /\ SameFlags(s, t) /\ SameBuffers(s, t)
    /\ t.order = s.order /\ t.level = s.level /\ DOMAIN t.body = DOMAIN s.body
    /\ t.ins = [s.ins EXCEPT ![n] = ins] /\ t.outs = [s.outs EXCEPT ![n] = outs]

NodeEdited(s, t, n, ins, outs) ==
    /\ ScheduleTypeOK(t) /\ SameFlags(s, t) /\ SameBuffers(s, t)
    /\ t.order = s.order /\ t.level = s.level
    /\ Nodes(t) = Nodes(s) /\ Buffers(t) = Buffers(s)
    /\ t.ins[n] = ins /\ t.outs[n] = outs
    /\ \A m \in Nodes(s) \ {n} : t.ins[m] = s.ins[m] /\ t.outs[m] = s.outs[m]

\* Ports that are buffers of the schedule make a schedule again.
LEMMA EditedIs ==
    ASSUME NEW s, ScheduleTypeOK(s), NEW n \in Nodes(s), NEW ins, NEW outs \in SUBSET Buffers(s),
           DOMAIN ins \subseteq Buffers(s) \ outs, ins \in [DOMAIN ins -> Nat],
           NEW t, Edited(s, t, n, ins, outs)
    PROVE  NodeEdited(s, t, n, ins, outs)
<1>1. IsSchedule(s) /\ TypeOver(s, Nodes(s), Buffers(s))
  BY TypeOfSchedule
<1>2. /\ t.order = s.order /\ t.level = s.level /\ DOMAIN t.body = DOMAIN s.body
      /\ t.ins = [s.ins EXCEPT ![n] = ins] /\ t.outs = [s.outs EXCEPT ![n] = outs]
  BY DEF Edited
<1>3. /\ t.ins[n] = ins /\ t.outs[n] = outs
      /\ \A m \in Nodes(s) \ {n} : t.ins[m] = s.ins[m] /\ t.outs[m] = s.outs[m]
  <2>1. n \in DOMAIN s.ins /\ n \in DOMAIN s.outs /\ DOMAIN s.ins = Nodes(s)
    BY <1>1 DEF TypeOver
  <2> QED
    BY <1>2, <2>1
<1>4. t.outs \in [Nodes(s) -> SUBSET Buffers(s)]
  <2>1. s.outs \in [Nodes(s) -> SUBSET Buffers(s)]
    BY <1>1 DEF TypeOver
  <2> QED
    BY <1>2, <2>1
<1>5. \A m \in Nodes(s) : /\ DOMAIN t.ins[m] \subseteq Buffers(s) \ t.outs[m]
                          /\ t.ins[m] \in [DOMAIN t.ins[m] -> Nat]
  BY <1>1, <1>3 DEF TypeOver
<1>6. TypeOver(t, Nodes(s), Buffers(s))
  BY <1>1, <1>2, <1>4, <1>5 DEF TypeOver, Edited, SameBuffers, SameFlags
<1>7. ScheduleTypeOK(t) /\ Nodes(t) = Nodes(s) /\ Buffers(t) = Buffers(s)
  BY <1>6, ScheduleOfType DEF Edited
<1> QED
  BY <1>2, <1>3, <1>7 DEF NodeEdited, Edited

\* GiveOwnBuffer: b is replaced in n and after it, then n reads b.
OwnBufferGiven(s, t, b, n) ==
    \E m : /\ Rebuffered(s, m, b, FreshBuffer(s), {n} \cup {u \in Nodes(s) : Before(s, n, u)})
           /\ NodeEdited(m, t, n, Put(m.ins[n], b, 0), m.outs[n])

\* GiveOwnBuffer is a rebuffering and an edit of one node.
LEMMA GiveOwnBufferIs ==
    ASSUME NEW s, ScheduleTypeOK(s), NEW b \in Buffers(s), NEW n \in Nodes(s),
           NEW t, t = GiveOwnBuffer(s, b, n)
    PROVE  OwnBufferGiven(s, t, b, n)
<1> DEFINE own == FreshBuffer(s)
           U == {n} \cup {u \in Nodes(s) : Before(s, n, u)}
           m == ReplaceUses(AddBuffer(s, own, b), b, own, U)
<1>1. Rebuffered(s, m, b, own, U)
  BY RebufferIs
<1>2. t = [m EXCEPT !.ins[n]  = Put(@, b, 0),
                    !.body[n] = IF IsReadIn(m.body[n], own) THEN <<CopyOp(b, own)>> \o @ ELSE @]
  BY DEF GiveOwnBuffer
<1> HIDE DEF m, own, U
<1>3. /\ ScheduleTypeOK(m) /\ Nodes(m) = Nodes(s) /\ Buffers(m) = Buffers(s) \cup {own} /\ own # b
      /\ m.outs[n] = RenameOuts(s.outs[n], b, own)
  BY <1>1 DEF Rebuffered, U
<1>4. IsSchedule(m) /\ TypeOver(m, Nodes(m), Buffers(m))
  BY <1>3, TypeOfSchedule
<1>5. Edited(m, t, n, Put(m.ins[n], b, 0), m.outs[n])
  <2> DEFINE bd == IF IsReadIn(m.body[n], own) THEN <<CopyOp(b, own)>> \o m.body[n] ELSE m.body[n]
  <2>1. t = [m EXCEPT !.ins = [m.ins EXCEPT ![n] = Put(m.ins[n], b, 0)],
                      !.body = [m.body EXCEPT ![n] = bd]]
    BY <1>2
  <2> HIDE DEF bd
  <2>2. /\ IsSchedule(t) /\ SameFlags(m, t) /\ SameBuffers(m, t)
        /\ t.order = m.order /\ t.level = m.level /\ t.outs = m.outs
        /\ t.body = [m.body EXCEPT ![n] = bd]
        /\ t.ins = [m.ins EXCEPT ![n] = Put(m.ins[n], b, 0)]
    BY <1>4, <2>1 DEF IsSchedule, SameFlags, SameBuffers
  <2>3. t.outs = [m.outs EXCEPT ![n] = m.outs[n]]
    BY <1>4, <2>2 DEF TypeOver
  <2> QED
    BY <2>2, <2>3 DEF Edited
<1>6. b \notin m.outs[n]
  BY <1>3 DEF RenameOuts, Subst
<1>7. /\ DOMAIN Put(m.ins[n], b, 0) \subseteq Buffers(m) \ m.outs[n]
      /\ Put(m.ins[n], b, 0) \in [DOMAIN Put(m.ins[n], b, 0) -> Nat]
  <2>1. DOMAIN m.ins[n] \subseteq Buffers(m) \ m.outs[n] /\ m.ins[n] \in [DOMAIN m.ins[n] -> Nat]
    BY <1>3, <1>4 DEF TypeOver
  <2> QED
    BY <1>3, <1>6, <2>1 DEF Put
<1>8. m.outs[n] \in SUBSET Buffers(m)
  BY <1>3, <1>4 DEF TypeOver
<1>9. NodeEdited(m, t, n, Put(m.ins[n], b, 0), m.outs[n])
  BY <1>3, <1>5, <1>7, <1>8, EditedIs
<1> QED
  BY <1>1, <1>9 DEF OwnBufferGiven, own, U

-----------------------------------------------------------------------------
(* A hop of ChainCopies: a new node copies y to a new buffer, which takes the *)
(* place of b in the nodes of H.                                             *)

Hop(s, b, y, m, H, level, body) ==
    ReplaceUses(AddNodeAfter(AddBuffer(s, FreshBuffer(s), b), m, FreshNode(s), [x \in {y} |-> 0],
                             {FreshBuffer(s)}, level, body),
                b, FreshBuffer(s), H)

Hopped(s, t, b, y, H, level, buf, node) ==
    /\ ScheduleTypeOK(t) /\ SameFlags(s, t)
    /\ buf \in Nat \ Buffers(s) /\ Buffers(t) = Buffers(s) \cup {buf}
    /\ ~t.isArg[buf] /\ t.ext[buf] = s.ext[b] /\ t.depth[buf] = 1
    /\ \A x \in Buffers(s) : /\ t.isArg[x] = s.isArg[x] /\ t.ext[x] = s.ext[x]
                             /\ t.depth[x] = s.depth[x]
    /\ node \in Nat \ Nodes(s) /\ Nodes(t) = Nodes(s) \cup {node}
    /\ t.level[node] = level /\ t.outs[node] = {buf} /\ t.ins[node] = [x \in {y} |-> 0]
    /\ \A k \in Nodes(s) : /\ t.level[k] = s.level[k] /\ t.outs[k] = s.outs[k]
                           /\ t.ins[k] = IF k \in H THEN RenameIns(s.ins[k], b, buf) ELSE s.ins[k]
    /\ \A k, l \in Nodes(s) : Before(t, k, l) <=> Before(s, k, l)

\* One hop adds a buffer and a node; only the nodes of H read elsewhere.
LEMMA HopIs ==
    ASSUME NEW s, ScheduleTypeOK(s), NEW b \in Buffers(s), NEW y \in Buffers(s),
           NEW m \in Nodes(s), NEW H \in SUBSET Consumers(s, b),
           NEW level \in Nat, NEW body, NEW t, t = Hop(s, b, y, m, H, level, body)
    PROVE  Hopped(s, t, b, y, H, level, FreshBuffer(s), FreshNode(s))
<1> DEFINE buf == FreshBuffer(s)
           node == FreshNode(s)
           a == AddBuffer(s, buf, b)
           ins == [x \in {y} |-> 0]
           g == AddNodeAfter(a, m, node, ins, {buf}, level, body)
<1>1. buf \in Nat \ Buffers(s) /\ node \in Nat \ Nodes(s) /\ b # buf
  BY FreshIs
<1>2. /\ ScheduleTypeOK(a) /\ SameFlags(s, a) /\ SameNodes(s, a)
      /\ Nodes(a) = Nodes(s) /\ Buffers(a) = Buffers(s) \cup {buf}
      /\ ~a.isArg[buf] /\ a.ext[buf] = s.ext[b] /\ a.depth[buf] = 1
      /\ \A x \in Buffers(s) : /\ a.isArg[x] = s.isArg[x] /\ a.ext[x] = s.ext[x]
                               /\ a.depth[x] = s.depth[x]
  BY <1>1, AddBufferIs
<1>3. t = ReplaceUses(g, b, buf, H)
  BY DEF Hop
<1> HIDE DEF a
<1>4. NodeAdded(a, g, m, node, ins, {buf}, level)
  <2>1. /\ {buf} \in SUBSET Buffers(a) /\ level \in Nat \cup {NoLevel}
        /\ DOMAIN ins \subseteq Buffers(a) \ {buf} /\ ins \in [DOMAIN ins -> Nat]
        /\ m \in Nodes(a) /\ node \in Nat \ Nodes(a)
    BY <1>1, <1>2
  <2> HIDE DEF ins, node, buf
  <2> QED
    BY <1>2, <2>1, AddNodeAfterIs
<1> HIDE DEF g, ins, node, buf
<1>5. /\ ScheduleTypeOK(g) /\ SameFlags(a, g) /\ SameBuffers(a, g)
      /\ Nodes(g) = Nodes(s) \cup {node} /\ Buffers(g) = Buffers(s) \cup {buf}
      /\ g.ins[node] = ins /\ g.outs[node] = {buf} /\ g.level[node] = level
      /\ \A k \in Nodes(s) : /\ g.ins[k] = s.ins[k] /\ g.outs[k] = s.outs[k]
                             /\ g.level[k] = s.level[k]
      /\ \A k, l \in Nodes(s) : Before(g, k, l) <=> Before(s, k, l)
  BY <1>2, <1>4 DEF NodeAdded, SameNodes, Before
<1>6. /\ H \subseteq Nodes(s) /\ node \notin H
      /\ \A k \in H : b \in DOMAIN s.ins[k] /\ b \notin s.outs[k]
  <2>1. TypeOver(s, Nodes(s), Buffers(s))
    BY TypeOfSchedule
  <2> QED
    BY <1>1, <2>1 DEF Consumers, TypeOver
<1>7. \A k \in Nodes(g) \cap H : buf \notin g.outs[k] /\ buf \notin DOMAIN g.ins[k]
  <2>1. \A k \in Nodes(s) : buf \notin s.outs[k] /\ buf \notin DOMAIN s.ins[k]
    BY <1>1, NewIsUnused
  <2> QED
    BY <1>5, <1>6, <2>1
<1>8. UsesReplaced(g, t, b, buf, H)
  <2>1. b \in Buffers(g) /\ buf \in Buffers(g)
    BY <1>5
  <2> QED
    BY <1>1, <1>3, <1>5, <1>7, <2>1, ReplaceUsesIs
<1>9. /\ ScheduleTypeOK(t) /\ SameFlags(s, t) /\ SameBuffers(a, t)
      /\ Nodes(t) = Nodes(s) \cup {node} /\ Buffers(t) = Buffers(s) \cup {buf}
      /\ t.level = g.level /\ t.order = g.order
  BY <1>2, <1>5, <1>8 DEF UsesReplaced, SameFlags, SameBuffers
<1>10. ASSUME NEW k \in Nodes(s)
       PROVE  /\ t.outs[k] = s.outs[k]
              /\ t.ins[k] = IF k \in H THEN RenameIns(s.ins[k], b, buf) ELSE s.ins[k]
  <2>1. k \in Nodes(g)
    BY <1>5
  <2>2. CASE k \in H
    <3>1. t.outs[k] = RenameOuts(g.outs[k], b, buf) /\ t.ins[k] = RenameIns(g.ins[k], b, buf)
      BY <1>8, <2>1, <2>2 DEF UsesReplaced
    <3>2. g.ins[k] = s.ins[k] /\ g.outs[k] = s.outs[k] /\ b \notin s.outs[k]
      BY <1>5, <1>6, <2>2
    <3>3. RenameOuts(s.outs[k], b, buf) = s.outs[k]
      BY <3>2 DEF RenameOuts, Subst
    <3> QED
      BY <2>2, <3>1, <3>2, <3>3
  <2>3. CASE k \notin H
    BY <1>5, <1>8, <2>1, <2>3 DEF UsesReplaced
  <2> QED
    BY <2>2, <2>3
<1>11. t.outs[node] = {buf} /\ t.ins[node] = ins /\ t.level[node] = level
  BY <1>5, <1>6, <1>8, <1>9 DEF UsesReplaced
<1>12. \A k, l \in Nodes(s) : Before(t, k, l) <=> Before(s, k, l)
  BY <1>5, <1>9 DEF Before
<1>13. \A k \in Nodes(s) : t.level[k] = s.level[k]
  BY <1>5, <1>9
<1>14. /\ ~t.isArg[buf] /\ t.ext[buf] = s.ext[b] /\ t.depth[buf] = 1
       /\ \A x \in Buffers(s) : /\ t.isArg[x] = s.isArg[x] /\ t.ext[x] = s.ext[x]
                                /\ t.depth[x] = s.depth[x]
  BY <1>2, <1>9 DEF SameBuffers
<1>15. Hopped(s, t, b, y, H, level, buf, node)
  BY <1>1, <1>9, <1>10, <1>11, <1>12, <1>13, <1>14 DEF Hopped, ins
<1> QED
  BY <1>15 DEF buf, node

\* Who writes and who reads what afterwards, at which taps.
HopUses(s, t, b, y, H, buf, node) ==
    /\ \A x \in Buffers(s) : Producers(t, x) = Producers(s, x)
    /\ Producers(t, buf) = {node} /\ Consumers(t, buf) = H
    /\ \A x \in Buffers(s) : Consumers(t, x) = (IF x = b THEN Consumers(s, b) \ H ELSE Consumers(s, x))
                                               \cup {k \in {node} : x = y}
    /\ \A k \in Nodes(s) : \A x \in DOMAIN t.ins[k] :
          t.ins[k][x] = IF x = buf THEN s.ins[k][b] ELSE s.ins[k][x]

\* The writers of the old buffers stay; the nodes of H read the new buffer at the same tap.
LEMMA HoppedUses ==
    ASSUME NEW s, ScheduleTypeOK(s), NEW b \in Buffers(s), NEW y \in Buffers(s),
           NEW H \in SUBSET Consumers(s, b), NEW level, NEW buf, NEW node,
           NEW t, Hopped(s, t, b, y, H, level, buf, node)
    PROVE  HopUses(s, t, b, y, H, buf, node)
<1>1. /\ buf \notin Buffers(s) /\ buf # b /\ buf # y /\ node \notin Nodes(s)
      /\ Nodes(t) = Nodes(s) \cup {node}
      /\ t.outs[node] = {buf} /\ DOMAIN t.ins[node] = {y}
      /\ \A k \in Nodes(s) : /\ t.outs[k] = s.outs[k]
                             /\ t.ins[k] = IF k \in H THEN RenameIns(s.ins[k], b, buf) ELSE s.ins[k]
  BY DEF Hopped
<1>2. \A k \in Nodes(s) : buf \notin s.outs[k] /\ buf \notin DOMAIN s.ins[k]
  BY <1>1, NewIsUnused
<1>3. H \subseteq Nodes(s) /\ \A k \in H : b \in DOMAIN s.ins[k]
  BY DEF Consumers
<1>4. ASSUME NEW k \in Nodes(s), NEW x, x # buf
      PROVE  /\ x \in DOMAIN t.ins[k] <=> x \in DOMAIN s.ins[k] /\ ~(x = b /\ k \in H)
             /\ x \in DOMAIN t.ins[k] => t.ins[k][x] = s.ins[k][x]
  <2>1. CASE k \notin H
    BY <1>1, <2>1
  <2>2. CASE k \in H
    <3>1. t.ins[k] = RenameIns(s.ins[k], b, buf)
      BY <1>1, <2>2
    <3> QED
      BY <1>3, <1>4, <2>2, <3>1 DEF RenameIns
  <2> QED
    BY <2>1, <2>2
<1>5. ASSUME NEW k \in Nodes(s)
      PROVE  /\ buf \in DOMAIN t.ins[k] <=> k \in H
             /\ k \in H => t.ins[k][buf] = s.ins[k][b]
  <2>1. CASE k \notin H
    BY <1>1, <1>2, <2>1
  <2>2. CASE k \in H
    <3>1. t.ins[k] = RenameIns(s.ins[k], b, buf)
      BY <1>1, <2>2
    <3> QED
      BY <1>3, <2>2, <3>1 DEF RenameIns
  <2> QED
    BY <2>1, <2>2
<1>6. \A x \in Buffers(s) : Producers(t, x) = Producers(s, x)
  BY <1>1 DEF Producers
<1>7. Producers(t, buf) = {node}
  BY <1>1, <1>2 DEF Producers
<1>8. Consumers(t, buf) = H
  BY <1>1, <1>3, <1>5 DEF Consumers
<1>9. ASSUME NEW x \in Buffers(s)
      PROVE  Consumers(t, x) = (IF x = b THEN Consumers(s, b) \ H ELSE Consumers(s, x))
                               \cup {k \in {node} : x = y}
  <2>1. x # buf
    BY <1>1
  <2>2. \A k \in Nodes(s) : x \in DOMAIN t.ins[k] <=> x \in DOMAIN s.ins[k] /\ ~(x = b /\ k \in H)
    BY <1>4, <2>1
  <2>3. x \in DOMAIN t.ins[node] <=> x = y
    BY <1>1
  <2>4. Consumers(t, x) = {k \in Nodes(s) : x \in DOMAIN t.ins[k]} \cup {k \in {node} : x = y}
    BY <1>1, <2>3 DEF Consumers
  <2> QED
    BY <2>2, <2>4 DEF Consumers
<1>10. \A k \in Nodes(s) : \A x \in DOMAIN t.ins[k] :
          t.ins[k][x] = IF x = buf THEN s.ins[k][b] ELSE s.ins[k][x]
  BY <1>4, <1>5
<1> QED
  BY <1>6, <1>7, <1>8, <1>9, <1>10 DEF HopUses

One(S) == \A p, q \in S : p = q

-----------------------------------------------------------------------------
(* The parts of the invariant, of a schedule s that src has become *)

\* The arguments are those of src; one that had a single writer keeps it.
FromSource(src, s) ==
    /\ s.depFree = src.depFree
    /\ \A b \in Buffers(s) :
          IF b \in Buffers(src)
          THEN /\ s.isArg[b] = src.isArg[b] /\ s.ext[b] = src.ext[b]
               /\ s.isArg[b] /\ One(Producers(src, b)) => One(Producers(s, b))
          ELSE ~s.isArg[b]

Base(src, s) == ScheduleTypeOK(s) /\ FromSource(src, s)

\* As long as nodes are not fused by level, arguments are written before they are read
\* if they were so.
Ordered(src, s) == src.depFree /\ WrittenBeforeRead(src) => WrittenBeforeRead(s)

NoLevels(s)  == \A n \in Nodes(s) : ~Leveled(s, n)
FirstTaps(s) == \A n \in Nodes(s) : \A b \in DOMAIN s.ins[n] : s.ins[n][b] = 0

\* Before the nodes are scheduled.
Early(src, s) ==
    /\ Base(src, s) /\ Ordered(src, s) /\ Buffers(src) \subseteq Buffers(s)
    /\ NoLevels(s) /\ FirstTaps(s) /\ ~s.isLegal

-----------------------------------------------------------------------------
(* What the rewrites keep *)

\* t has the arguments of s, with no more writers; other buffers may be new.
ArgsKept(s, t) ==
    /\ t.depFree = s.depFree
    /\ \A b \in Buffers(t) :
          IF b \in Buffers(s)
          THEN /\ t.isArg[b] = s.isArg[b] /\ t.ext[b] = s.ext[b]
               /\ t.isArg[b] /\ One(Producers(s, b)) => One(Producers(t, b))
          ELSE ~t.isArg[b]

\* What keeps the arguments keeps them as in the source.
LEMMA FromSourceKept ==
    ASSUME NEW src, NEW s, NEW t, FromSource(src, s), ArgsKept(s, t),
           Buffers(src) \subseteq Buffers(s) \/ Buffers(t) \subseteq Buffers(s)
    PROVE  FromSource(src, t)
BY DEF FromSource, ArgsKept

\* Of each argument, t has a part of the writers and readers of s, in the same order.
OrderKeptIn(s, t) ==
    \A b \in Buffers(t) : t.isArg[b] =>
        /\ b \in Buffers(s) /\ s.isArg[b]
        /\ \A p, q \in Producers(t, b) :
              /\ p \in Producers(s, b) /\ q \in Producers(s, b)
              /\ \A c \in Consumers(t, b) :
                    \/ c \in Consumers(s, b) /\ (Before(s, p, c) => Before(t, p, c))
                    \/ One(Producers(s, b)) => Before(t, p, c)

\* Arguments written before they are read stay so if their uses keep their order.
LEMMA OrderedKept ==
    ASSUME NEW src, NEW s, NEW t, Ordered(src, s), OrderKeptIn(s, t)
    PROVE  Ordered(src, t)
BY DEF Ordered, OrderKeptIn, WrittenBeforeRead, One

-----------------------------------------------------------------------------
(* EliminateMultiProducer: buffers are split *)

\* t has new BufferOps, and the buffers in X are used otherwise.
BuffersSplit(s, t, X) ==
    /\ ScheduleTypeOK(t) /\ SameFlags(s, t)
    /\ t.order = s.order /\ t.level = s.level /\ Nodes(t) = Nodes(s)
    /\ Buffers(s) \subseteq Buffers(t)
    /\ \A x \in Buffers(t) \ Buffers(s) : ~t.isArg[x]
    /\ \A x \in Buffers(s) : t.isArg[x] = s.isArg[x] /\ t.ext[x] = s.ext[x]
    /\ \A x \in Buffers(s) \ X : Producers(t, x) = Producers(s, x) /\ Consumers(t, x) = Consumers(s, x)
    /\ FirstTaps(s) => FirstTaps(t)

\* Splits compose.
LEMMA SplitTransitive ==
    ASSUME NEW s, NEW t, NEW u, NEW X, NEW Y, BuffersSplit(s, t, X), BuffersSplit(t, u, Y)
    PROVE  BuffersSplit(s, u, X \cup Y)
BY DEF BuffersSplit, SameFlags

\* No split is a split.
LEMMA SplitNone ==
    ASSUME NEW s, ScheduleTypeOK(s) PROVE BuffersSplit(s, s, {})
BY DEF BuffersSplit, SameFlags

\* GiveOwnBuffer splits the one buffer it is called for (BufferMultiProducer).
LEMMA OwnBufferSplits ==
    ASSUME NEW s, ScheduleTypeOK(s), NEW b \in Buffers(s), NEW n \in Nodes(s)
    PROVE  BuffersSplit(s, GiveOwnBuffer(s, b, n), {b})
<1> DEFINE t == GiveOwnBuffer(s, b, n)
           own == FreshBuffer(s)
           U == {n} \cup {u \in Nodes(s) : Before(s, n, u)}
<1>1. OwnBufferGiven(s, t, b, n)
  BY GiveOwnBufferIs
<1>2. PICK m : /\ Rebuffered(s, m, b, own, U)
               /\ NodeEdited(m, t, n, Put(m.ins[n], b, 0), m.outs[n])
  BY <1>1 DEF OwnBufferGiven
<1> HIDE DEF t, own, U
<1>3. /\ \A x \in Buffers(s) : x # b => /\ Producers(m, x) = Producers(s, x)
                                        /\ Consumers(m, x) = Consumers(s, x)
      /\ \A k \in Nodes(s) : \A x \in DOMAIN m.ins[k] :
                 IF x = own THEN b \in DOMAIN s.ins[k] /\ m.ins[k][x] = s.ins[k][b]
                 ELSE x \in DOMAIN s.ins[k] /\ m.ins[k][x] = s.ins[k][x]
  <2>1. UsesMoved(s, m, b, own, U)
    BY <1>2, RebufferedUses
  <2> QED
    BY <2>1 DEF UsesMoved
<1>4. /\ ScheduleTypeOK(t) /\ SameFlags(s, t) /\ t.order = s.order /\ t.level = s.level
      /\ Nodes(t) = Nodes(s) /\ Nodes(m) = Nodes(s) /\ Buffers(t) = Buffers(s) \cup {own}
      /\ \A x \in Buffers(t) \ Buffers(s) : ~t.isArg[x]
      /\ \A x \in Buffers(s) : t.isArg[x] = s.isArg[x] /\ t.ext[x] = s.ext[x]
  BY <1>2 DEF Rebuffered, NodeEdited, SameFlags, SameBuffers
<1>5. \A k \in Nodes(s) : /\ t.outs[k] = m.outs[k]
                          /\ t.ins[k] = IF k = n THEN Put(m.ins[k], b, 0) ELSE m.ins[k]
  BY <1>2, <1>4 DEF NodeEdited
<1>6. \A x \in Buffers(s) \ {b} : /\ Producers(t, x) = Producers(m, x)
                                  /\ Consumers(t, x) = Consumers(m, x)
  <2>1. \A k \in Nodes(s) : \A x : x # b => (x \in DOMAIN t.ins[k] <=> x \in DOMAIN m.ins[k])
    BY <1>5 DEF Put
  <2> QED
    BY <1>4, <1>5, <2>1 DEF Producers, Consumers
<1>7. ASSUME FirstTaps(s) PROVE FirstTaps(t)
  <2>1. \A k \in Nodes(s) : \A x \in DOMAIN m.ins[k] : m.ins[k][x] = 0
    BY <1>3, <1>7 DEF FirstTaps
  <2>2. ASSUME NEW k \in Nodes(s), NEW x \in DOMAIN t.ins[k] PROVE t.ins[k][x] = 0
    <3>1. CASE k # n
      BY <1>5, <2>1, <3>1
    <3>2. CASE k = n
      <4>1. t.ins[k] = Put(m.ins[k], b, 0)
        BY <1>5, <3>2
      <4> QED
        BY <2>1, <4>1 DEF Put
    <3> QED
      BY <3>1, <3>2
  <2> QED
    BY <1>4, <2>2 DEF FirstTaps
<1>8. BuffersSplit(s, t, {b})
  BY <1>3, <1>4, <1>6, <1>7 DEF BuffersSplit
<1> QED
  BY <1>8 DEF t

\* The fold of SplitBuffer: a is b, c the first schedule.
SplitStep(b, seq, c, t, i) == GiveOwnBuffer(t, b, seq[i])
SplitInv(b, seq, c, t, U)  == BuffersSplit(c, t, {b})
Split == INSTANCE FoldLemmas WITH Step <- SplitStep, Choice <- Max, Inv <- SplitInv

\* SplitBuffer splits one buffer, whatever the number of its producers.
LEMMA SplitBufferIs ==
    ASSUME NEW s, ScheduleTypeOK(s), NEW b \in Buffers(s), Producers(s, b) # {}
    PROVE  BuffersSplit(s, SplitBuffer(s, b), {b})
<1> DEFINE P == Producers(s, b)
           q == InBlockOrder(s, P)
           seq == LaterProducers(s, b)
<1>1. P \subseteq Nodes(s) /\ Orders(s.order, Nodes(s)) /\ IsFiniteSet(P)
  BY TypeOfSchedule, ReadOrWrite DEF TypeOver
<1>2. q \in Seq(P) /\ Len(q) = Cardinality(P)
  BY <1>1, ArrangedIs DEF InBlockOrder, Orders
<1>3. q # <<>>
  <2>1. Cardinality(P) # 0
    BY <1>1, FS_EmptySet
  <2> QED
    BY <1>2, <2>1
<1>4. seq = Reverse(Tail(q))
  BY DEF LaterProducers
<1> HIDE DEF q, P
<1>5. Tail(q) \in Seq(P)
  BY <1>2, <1>3
<1>6. seq \in Seq(P)
  <2> DEFINE r == Tail(q)
  <2>1. r \in Seq(P) /\ seq = [i \in 1..Len(r) |-> r[(Len(r) - i) + 1]]
    BY <1>4, <1>5 DEF Reverse
  <2> HIDE DEF r
  <2>2. \A i \in 1..Len(r) : (Len(r) - i) + 1 \in 1..Len(r)
    BY <2>1
  <2>3. seq \in [1..Len(r) -> P]
    BY <2>1, <2>2
  <2> QED
    BY <2>1, <2>3
<1> HIDE DEF seq
<1> DEFINE S == DOMAIN seq
<1>7. IsFiniteSet(S) /\ S \in SUBSET Nat /\ \A i \in S : seq[i] \in Nodes(s)
  <2>1. S = 1..Len(seq) /\ Len(seq) \in Nat /\ \A i \in S : seq[i] \in P
    BY <1>6
  <2> QED
    BY <1>1, <2>1, FS_Interval DEF P
<1>8. SplitBuffer(s, b) = Split!Fold(b, seq, s, s, S)
  BY DEF SplitBuffer, ForEachOf, FoldLeft, FoldLeftDomain, MapThenFoldSet, Split!Fold, SplitStep, seq
<1> HIDE DEF S
<1>9. Split!Chooses(S)
  <2> SUFFICES ASSUME NEW V \in SUBSET S, V # {} PROVE Max(V) \in V
    BY DEF Split!Chooses
  <2> QED
    BY <1>7, FS_Subset, MaxIs
<1>10. PICK r : Split!Measures(r, S)
  BY <1>7, MeasureExists DEF Split!Measures
<1>11. SplitInv(b, seq, s, s, {})
  BY SplitNone DEF SplitInv, BuffersSplit
<1>12. Split!Keeps(b, seq, s, S)
  <2> SUFFICES ASSUME NEW V \in SUBSET S, V # {}, NEW t, BuffersSplit(s, t, {b})
               PROVE  BuffersSplit(s, GiveOwnBuffer(t, b, seq[Max(V)]), {b})
    BY DEF Split!Keeps, SplitInv, SplitStep
  <2>1. Max(V) \in S
    BY <1>9 DEF Split!Chooses
  <2>2. ScheduleTypeOK(t) /\ b \in Buffers(t) /\ seq[Max(V)] \in Nodes(t)
    BY <1>7, <2>1 DEF BuffersSplit
  <2>3. BuffersSplit(t, GiveOwnBuffer(t, b, seq[Max(V)]), {b})
    BY <2>2, OwnBufferSplits
  <2>4. BuffersSplit(s, GiveOwnBuffer(t, b, seq[Max(V)]), {b} \cup {b})
    BY <2>3, SplitTransitive
  <2> QED
    BY <2>4
<1>13. SplitInv(b, seq, s, Split!Fold(b, seq, s, s, S), S)
  BY <1>9, <1>10, <1>11, <1>12, Split!FoldInduction
<1> QED
  BY <1>8, <1>13 DEF SplitInv

PickAny(S) == CHOOSE x \in S : TRUE

\* The element ForEachIn takes is one of the set.
LEMMA PickAnyPicks ==
    ASSUME NEW S PROVE \A U \in SUBSET S : U # {} => PickAny(U) \in U
BY DEF PickAny

\* The fold of BufferMultiProducer: a is the first schedule.
SplitAllStep(a, b, c, t, x) == SplitBuffer(t, x)
SplitAllInv(a, b, c, t, U)  == BuffersSplit(a, t, U)
SplitAll == INSTANCE FoldLemmas WITH Step <- SplitAllStep, Choice <- PickAny, Inv <- SplitAllInv

\* The walk of BufferMultiProducer over a schedule touches the splittable buffers only.
LEMMA BufferMultiProducerIs ==
    ASSUME NEW s, ScheduleTypeOK(s)
    PROVE  BuffersSplit(s, ForEachIn(SplittableBuffers(s), SplitBuffer, s), SplittableBuffers(s))
<1> DEFINE S == SplittableBuffers(s)
<1>1. ForEachIn(S, SplitBuffer, s) = SplitAll!Fold(s, 0, 0, s, S)
  BY DEF ForEachIn, FoldSet, MapThenFoldSet, SplitAll!Fold, PickAny, SplitAllStep
<1>2. IsFiniteSet(S) /\ S \subseteq Buffers(s) /\ \A b \in S : Producers(s, b) # {}
  <2>1. S \subseteq Buffers(s) /\ IsFiniteSet(Buffers(s))
    BY DEF SplittableBuffers, ScheduleTypeOK
  <2>2. ASSUME NEW b \in S PROVE Producers(s, b) # {}
    <3>1. Cardinality(Producers(s, b)) > 1
      BY <2>2 DEF SplittableBuffers, MultiProducer
    <3> QED
      BY <3>1, FS_EmptySet
  <2> QED
    BY <2>1, <2>2, FS_Subset
<1> HIDE DEF S
<1>3. SplitAll!Chooses(S)
  BY PickAnyPicks DEF SplitAll!Chooses
<1>4. PICK r : SplitAll!Measures(r, S)
  BY <1>2, MeasureExists DEF SplitAll!Measures
<1>5. SplitAllInv(s, 0, 0, s, {})
  BY SplitNone DEF SplitAllInv
<1>6. SplitAll!Keeps(s, 0, 0, S)
  <2> SUFFICES ASSUME NEW V \in SUBSET S, V # {}, NEW t, BuffersSplit(s, t, V \ {PickAny(V)})
               PROVE  BuffersSplit(s, SplitBuffer(t, PickAny(V)), V)
    BY DEF SplitAll!Keeps, SplitAllInv, SplitAllStep
  <2> DEFINE b == PickAny(V)
  <2>1. b \in V /\ b \in S /\ b \in Buffers(s)
    BY <1>2, <1>3 DEF SplitAll!Chooses
  <2>2. ScheduleTypeOK(t) /\ b \in Buffers(t) /\ Producers(t, b) # {}
    BY <1>2, <2>1 DEF BuffersSplit
  <2>3. BuffersSplit(t, SplitBuffer(t, b), {b})
    BY <2>2, SplitBufferIs
  <2>4. BuffersSplit(s, SplitBuffer(t, b), (V \ {b}) \cup {b})
    BY <2>3, SplitTransitive
  <2>5. (V \ {b}) \cup {b} = V
    BY <2>1
  <2> QED
    BY <2>4, <2>5
<1>7. SplitAllInv(s, 0, 0, SplitAll!Fold(s, 0, 0, s, S), S)
  BY <1>3, <1>4, <1>5, <1>6, SplitAll!FoldInduction
<1> QED
  BY <1>1, <1>7 DEF SplitAllInv, S

\* Splitting buffers keeps what holds before the nodes are scheduled.
LEMMA SplitKeepsEarly ==
    ASSUME NEW src, NEW s, Early(src, s), NEW t, NEW X,
           BuffersSplit(s, t, X), \A b \in X : ~s.isArg[b]
    PROVE  Early(src, t)
<1>1. /\ ScheduleTypeOK(s) /\ FromSource(src, s) /\ Ordered(src, s)
      /\ Buffers(src) \subseteq Buffers(s) /\ NoLevels(s) /\ FirstTaps(s) /\ ~s.isLegal
  BY DEF Early, Base
<1>2. /\ ScheduleTypeOK(t) /\ SameFlags(s, t)
      /\ t.order = s.order /\ t.level = s.level /\ Nodes(t) = Nodes(s)
      /\ Buffers(s) \subseteq Buffers(t) /\ FirstTaps(t)
      /\ \A x \in Buffers(t) \ Buffers(s) : ~t.isArg[x]
      /\ \A x \in Buffers(s) : t.isArg[x] = s.isArg[x] /\ t.ext[x] = s.ext[x]
      /\ \A x \in Buffers(s) \ X : Producers(t, x) = Producers(s, x) /\ Consumers(t, x) = Consumers(s, x)
  BY <1>1 DEF BuffersSplit
<1>3. \A x \in Buffers(t) : t.isArg[x] => /\ x \in Buffers(s) \ X /\ s.isArg[x]
                                          /\ Producers(t, x) = Producers(s, x)
                                          /\ Consumers(t, x) = Consumers(s, x)
  BY <1>2
<1>4. ArgsKept(s, t)
  BY <1>2, <1>3 DEF ArgsKept, SameFlags
<1>5. OrderKeptIn(s, t)
  BY <1>2, <1>3 DEF OrderKeptIn, Before
<1>6. FromSource(src, t) /\ Ordered(src, t)
  BY <1>1, <1>4, <1>5, FromSourceKept, OrderedKept
<1> QED
  BY <1>1, <1>2, <1>6 DEF Early, Base, NoLevels, Leveled, SameFlags

-----------------------------------------------------------------------------
(* EliminateMultiProducer: nodes are fused *)

\* One is at most one, counted.
LEMMA OneIs ==
    ASSUME NEW S, IsFiniteSet(S)
    PROVE  Cardinality(S) \in Nat /\ (Cardinality(S) > 1 <=> ~One(S)) /\ (One(S) <=> Cardinality(S) <= 1)
<1>1. Cardinality(S) \in Nat
  BY FS_CardinalityType
<1>2. ASSUME One(S) PROVE Cardinality(S) <= 1
  <2>1. CASE S = {}
    BY <2>1, FS_EmptySet
  <2>2. CASE S # {}
    <3>1. PICK x : x \in S
      BY <2>2
    <3>2. S = {x}
      BY <1>2, <3>1 DEF One
    <3> QED
      BY <3>2, FS_Singleton
  <2> QED
    BY <2>1, <2>2
<1>3. ASSUME ~One(S) PROVE Cardinality(S) > 1
  <2>1. PICK x \in S, y \in S : x # y
    BY <1>3 DEF One
  <2>2. S # {} /\ Cardinality(S) # 0
    BY <2>1, FS_EmptySet
  <2>3. Cardinality(S) # 1
    <3> SUFFICES ASSUME Cardinality(S) = 1 PROVE FALSE
      OBVIOUS
    <3>1. PICK z : S = {z}
      BY FS_Singleton
    <3> QED
      BY <2>1, <3>1
  <2> QED
    BY <1>1, <2>2, <2>3
<1> QED
  BY <1>1, <1>2, <1>3

\* No argument gets another writer by fusion.
LEMMA FusionKeepsArgs ==
    ASSUME NEW s, ScheduleTypeOK(s), NEW N \in SUBSET Nodes(s), NEW new, NEW level, NEW t,
           Fused(s, t, N, new, level)
    PROVE  ArgsKept(s, t) /\ \A b : One(Producers(s, b)) => One(Producers(t, b))
<1>1. /\ t.depFree = s.depFree /\ Buffers(t) = Buffers(s) /\ t.isArg = s.isArg /\ t.ext = s.ext
  BY DEF Fused, SameFlags, SameBuffers
<1>2. \A b : \A m \in Producers(t, b) : \E p \in Producers(s, b) : m = Image(p, N, new)
  <2>1. UsesFused(s, t, N, new)
    BY FusedUses
  <2> QED
    BY <2>1 DEF UsesFused
<1>3. \A b : One(Producers(s, b)) => One(Producers(t, b))
  BY <1>2 DEF One
<1> QED
  BY <1>1, <1>3 DEF ArgsKept

\* Fusing the writers of an argument keeps what holds before the nodes are scheduled: it
\* does not happen where the order of writes and reads matters.
LEMMA FusionKeepsEarly ==
    ASSUME NEW src, NEW s, Early(src, s), NEW b \in Buffers(s), MergeableArg(s, b)
    PROVE  Early(src, MergeArg(s, b)) /\ Buffers(MergeArg(s, b)) = Buffers(s)
<1> DEFINE N == Producers(s, b)
           new == FreshNode(s)
           t == MergeArg(s, b)
<1>1. /\ ScheduleTypeOK(s) /\ FromSource(src, s) /\ Ordered(src, s)
      /\ Buffers(src) \subseteq Buffers(s) /\ NoLevels(s) /\ FirstTaps(s) /\ ~s.isLegal
  BY DEF Early, Base
<1>2. N \in SUBSET Nodes(s) /\ IsFiniteSet(N) /\ s.isArg[b] /\ Cardinality(N) > 1
  BY <1>1, ReadOrWrite DEF MergeableArg, MultiProducer
<1>3. N # {} /\ ~One(N)
  BY <1>2, OneIs DEF One
<1>4. t = FuseNodeOps(s, InBlockOrder(s, N), NoLevel)
  BY DEF MergeArg
<1> HIDE DEF t
<1>5. Fused(s, t, N, new, NoLevel)
  BY <1>1, <1>2, <1>3, <1>4, FuseNodeOpsIs
<1>6. ScheduleTypeOK(t) /\ SameFlags(s, t) /\ Buffers(t) = Buffers(s)
  BY <1>5 DEF Fused
<1>7. ArgsKept(s, t)
  BY <1>1, <1>2, <1>5, FusionKeepsArgs
<1>8. FromSource(src, t)
  BY <1>1, <1>7, FromSourceKept
<1>9. Ordered(src, t)
  <2> SUFFICES ASSUME src.depFree, WrittenBeforeRead(src) PROVE FALSE
    BY DEF Ordered
  <2>1. b \in Buffers(src) /\ src.isArg[b]
    BY <1>1, <1>2 DEF FromSource
  <2>2. One(Producers(src, b))
    BY <2>1 DEF WrittenBeforeRead, One
  <2>3. One(N)
    BY <1>1, <1>2, <2>1, <2>2 DEF FromSource
  <2> QED
    BY <1>3, <2>3
<1> HIDE DEF N
<1>10. NoLevels(t) /\ FirstTaps(t)
  <2>1. \A m \in Nodes(t) : IF m = new THEN t.level[m] = NoLevel
                            ELSE m \in Nodes(s) /\ t.level[m] = s.level[m]
    BY <1>5 DEF Fused
  <2>2. ASSUME NEW m \in Nodes(t), NEW x \in DOMAIN t.ins[m] PROVE t.ins[m][x] = 0
    <3>1. m \in Consumers(t, x)
      BY <2>2 DEF Consumers
    <3>2. PICK c \in Consumers(s, x) : t.ins[m][x] = s.ins[c][x]
      <4>1. UsesFused(s, t, N, new)
        BY <1>1, <1>2, <1>5, FusedUses
      <4> QED
        BY <3>1, <4>1 DEF UsesFused
    <3> QED
      BY <1>1, <3>2 DEF Consumers, FirstTaps
  <2> QED
    BY <1>1, <2>1, <2>2 DEF NoLevels, Leveled, FirstTaps
<1> QED
  BY <1>1, <1>6, <1>8, <1>9, <1>10 DEF Early, Base, SameFlags, t

\* The fold of MergeMultiProducer: a is the source, b the first schedule.
MergeStep(a, b, c, t, x) == MergeArg(t, x)
MergeInv(a, b, c, t, U)  == Early(a, t) /\ Buffers(t) = Buffers(b)
Merge == INSTANCE FoldLemmas WITH Step <- MergeStep, Choice <- PickAny, Inv <- MergeInv

\* The walk of MergeMultiProducer keeps it, too.
LEMMA MergeMultiProducerIs ==
    ASSUME NEW src, NEW s, Early(src, s)
    PROVE  Early(src, ForEachIn(Buffers(s), MergeArg, s))
<1> DEFINE S == Buffers(s)
<1>1. ForEachIn(S, MergeArg, s) = Merge!Fold(src, s, 0, s, S)
  BY DEF ForEachIn, FoldSet, MapThenFoldSet, Merge!Fold, PickAny, MergeStep
<1>2. IsFiniteSet(S)
  BY DEF Early, Base, ScheduleTypeOK
<1> HIDE DEF S
<1>3. Merge!Chooses(S)
  BY PickAnyPicks DEF Merge!Chooses
<1>4. PICK r : Merge!Measures(r, S)
  BY <1>2, MeasureExists DEF Merge!Measures
<1>5. MergeInv(src, s, 0, s, {})
  BY DEF MergeInv
<1>6. Merge!Keeps(src, s, 0, S)
  <2> SUFFICES ASSUME NEW V \in SUBSET S, V # {}, NEW t, Early(src, t), Buffers(t) = Buffers(s)
               PROVE  /\ Early(src, MergeArg(t, PickAny(V)))
                      /\ Buffers(MergeArg(t, PickAny(V))) = Buffers(s)
    BY DEF Merge!Keeps, MergeInv, MergeStep
  <2>1. PickAny(V) \in Buffers(t)
    BY <1>3 DEF Merge!Chooses, S
  <2>2. CASE MergeableArg(t, PickAny(V))
    BY <2>1, <2>2, FusionKeepsEarly
  <2>3. CASE ~MergeableArg(t, PickAny(V))
    BY <2>3 DEF MergeArg
  <2> QED
    BY <2>2, <2>3
<1>7. MergeInv(src, s, 0, Merge!Fold(src, s, 0, s, S), S)
  BY <1>3, <1>4, <1>5, <1>6, Merge!FoldInduction
<1> QED
  BY <1>1, <1>7 DEF MergeInv, S

-----------------------------------------------------------------------------
(* EliminateMultiConsumer *)

OneProducer(s) == \A b \in Buffers(s) : ~s.isArg[b] => One(Producers(s, b))

\* t has new BufferOps, and fewer nodes read b.
ReadersMoved(s, t, b) ==
    /\ ScheduleTypeOK(t) /\ SameFlags(s, t)
    /\ t.order = s.order /\ t.level = s.level /\ t.outs = s.outs
    /\ Buffers(s) \subseteq Buffers(t)
    /\ \A x \in Buffers(t) \ Buffers(s) : ~t.isArg[x]
    /\ \A x \in Buffers(s) : t.isArg[x] = s.isArg[x] /\ t.ext[x] = s.ext[x]
    /\ \A x \in Buffers(s) : Consumers(t, x) \subseteq Consumers(s, x)
    /\ FirstTaps(s) => FirstTaps(t)

\* Moves of readers compose.
LEMMA MovedTransitive ==
    ASSUME NEW s, NEW t, NEW u, NEW b, ReadersMoved(s, t, b), ReadersMoved(t, u, b)
    PROVE  ReadersMoved(s, u, b)
<1>1. \A x \in Buffers(s) : x \in Buffers(t) /\ x \in Buffers(u)
  BY DEF ReadersMoved
<1>2. \A x \in Buffers(s) : Consumers(u, x) \subseteq Consumers(s, x)
  BY <1>1 DEF ReadersMoved
<1>3. \A x \in Buffers(u) \ Buffers(s) : ~u.isArg[x]
  BY DEF ReadersMoved
<1>4. \A x \in Buffers(s) : u.isArg[x] = s.isArg[x] /\ u.ext[x] = s.ext[x]
  BY <1>1 DEF ReadersMoved
<1> QED
  BY <1>1, <1>2, <1>3, <1>4 DEF ReadersMoved, SameFlags

\* BufferForConsumer changes no output: a consumer of b does not write b.
LEMMA BufferForConsumerIs ==
    ASSUME NEW s, ScheduleTypeOK(s), NEW b \in Buffers(s), NEW c \in Nodes(s), b \notin s.outs[c]
    PROVE  ReadersMoved(s, BufferForConsumer(s, b, c), b)
<1> DEFINE t == BufferForConsumer(s, b, c)
           new == FreshBuffer(s)
<1>1. Rebuffered(s, t, b, new, {c})
  BY RebufferIs DEF BufferForConsumer
<1> HIDE DEF t, new
<1>2. UsesMoved(s, t, b, new, {c})
  BY <1>1, RebufferedUses
<1>3. /\ ScheduleTypeOK(t) /\ SameFlags(s, t) /\ t.order = s.order /\ t.level = s.level
      /\ Nodes(t) = Nodes(s) /\ Buffers(t) = Buffers(s) \cup {new} /\ ~t.isArg[new]
      /\ \A x \in Buffers(s) : t.isArg[x] = s.isArg[x] /\ t.ext[x] = s.ext[x]
  BY <1>1 DEF Rebuffered
<1>4. t.outs = s.outs
  <2>1. /\ t.outs \in [Nodes(s) -> SUBSET Buffers(t)]
        /\ s.outs \in [Nodes(s) -> SUBSET Buffers(s)]
    BY <1>3 DEF ScheduleTypeOK
  <2>2. t.outs = [m \in Nodes(s) |-> t.outs[m]] /\ s.outs = [m \in Nodes(s) |-> s.outs[m]]
    BY <2>1
  <2>3. ASSUME NEW m \in Nodes(s) PROVE t.outs[m] = s.outs[m]
    <3>1. CASE m = c
      <4>1. t.outs[m] = RenameOuts(s.outs[m], b, new)
        BY <1>1, <3>1 DEF Rebuffered
      <4> QED
        BY <3>1, <4>1 DEF RenameOuts, Subst
    <3>2. CASE m # c
      BY <1>1, <3>2 DEF Rebuffered
    <3> QED
      BY <3>1, <3>2
  <2> QED
    BY <2>2, <2>3
<1>5. \A x \in Buffers(s) : Consumers(t, x) \subseteq Consumers(s, x)
  BY <1>2 DEF UsesMoved
<1>6. ASSUME FirstTaps(s) PROVE FirstTaps(t)
  BY <1>2, <1>3, <1>6 DEF UsesMoved, FirstTaps
<1>7. ReadersMoved(s, t, b)
  BY <1>3, <1>4, <1>5, <1>6 DEF ReadersMoved
<1> QED
  BY <1>7 DEF t

\* The fold of ForkOutput over the consumers seq of b; c is the first schedule.
ForkStep(b, seq, c, t, i) == BufferForConsumer(t, b, seq[i])
ForkInv(b, seq, c, t, U)  == ReadersMoved(c, t, b)
Fork == INSTANCE FoldLemmas WITH Step <- ForkStep, Choice <- Max, Inv <- ForkInv

\* Buffers for any part of the consumers of b take readers from b and nothing else.
LEMMA BuffersForConsumersIs ==
    ASSUME NEW s, ScheduleTypeOK(s), NEW b \in Buffers(s), NEW C \in SUBSET Consumers(s, b)
    PROVE  ReadersMoved(s, ForEachOf(InBlockOrder(s, C), LAMBDA t, c : BufferForConsumer(t, b, c), s), b)
<1> DEFINE seq == InBlockOrder(s, C)
           S == DOMAIN seq
<1>1. C \subseteq Nodes(s) /\ Orders(s.order, Nodes(s)) /\ \A c \in C : b \notin s.outs[c]
  <2>1. TypeOver(s, Nodes(s), Buffers(s))
    BY TypeOfSchedule
  <2> QED
    BY <2>1 DEF TypeOver, Consumers
<1>2. seq \in Seq(C)
  BY <1>1, ArrangedIs DEF InBlockOrder, Orders
<1>3. ForEachOf(seq, LAMBDA t, c : BufferForConsumer(t, b, c), s) = Fork!Fold(b, seq, s, s, S)
  BY DEF ForEachOf, FoldLeft, MapThenFoldSet, Fork!Fold, ForkStep
<1> HIDE DEF seq
<1>4. IsFiniteSet(S) /\ S \in SUBSET Nat /\ \A i \in S : seq[i] \in C
  <2>1. S = 1..Len(seq) /\ Len(seq) \in Nat /\ \A i \in S : seq[i] \in C
    BY <1>2
  <2> QED
    BY <2>1, FS_Interval
<1> HIDE DEF S
<1>5. Fork!Chooses(S)
  <2> SUFFICES ASSUME NEW V \in SUBSET S, V # {} PROVE Max(V) \in V
    BY DEF Fork!Chooses
  <2> QED
    BY <1>4, FS_Subset, MaxIs
<1>6. PICK r : Fork!Measures(r, S)
  BY <1>4, MeasureExists DEF Fork!Measures
<1>7. ForkInv(b, seq, s, s, {})
  BY DEF ForkInv, ReadersMoved, SameFlags
<1>8. Fork!Keeps(b, seq, s, S)
  <2> SUFFICES ASSUME NEW V \in SUBSET S, V # {}, NEW t, ReadersMoved(s, t, b)
               PROVE  ReadersMoved(s, BufferForConsumer(t, b, seq[Max(V)]), b)
    BY DEF Fork!Keeps, ForkInv, ForkStep
  <2>1. seq[Max(V)] \in C
    BY <1>4, <1>5 DEF Fork!Chooses
  <2>2. /\ ScheduleTypeOK(t) /\ b \in Buffers(t) /\ seq[Max(V)] \in Nodes(t)
        /\ b \notin t.outs[seq[Max(V)]]
    BY <1>1, <2>1 DEF ReadersMoved, Nodes
  <2> QED
    BY <2>2, BufferForConsumerIs, MovedTransitive
<1>9. ForkInv(b, seq, s, Fork!Fold(b, seq, s, s, S), S)
  BY <1>5, <1>6, <1>7, <1>8, Fork!FoldInduction
<1> QED
  BY <1>3, <1>9 DEF ForkInv, seq, S

Forking(src, s) == Early(src, s) /\ OneProducer(s)

\* Forking an output keeps one producer for each internal buffer, and the outputs of the node.
LEMMA ForkOutputIs ==
    ASSUME NEW src, NEW s, Forking(src, s), NEW n \in Nodes(s), NEW b \in s.outs[n]
    PROVE  /\ Forking(src, ForkOutput(s, n, b))
           /\ n \in Nodes(ForkOutput(s, n, b)) /\ ForkOutput(s, n, b).outs[n] = s.outs[n]
<1> DEFINE C == DependentConsumers(s, b, n)
           m == ForEachOf(InBlockOrder(s, C), LAMBDA t, c : BufferForConsumer(t, b, c), s)
           new == Buffers(m) \ Buffers(s)
           body == SetToSeq({CopyOp(b, x) : x \in new})
           ins == [x \in {b} |-> 0]
           node == FreshNode(s)
           t == ForkOutput(s, n, b)
<1>1. /\ ScheduleTypeOK(s) /\ FromSource(src, s) /\ Ordered(src, s)
      /\ Buffers(src) \subseteq Buffers(s) /\ NoLevels(s) /\ FirstTaps(s) /\ ~s.isLegal
      /\ OneProducer(s)
  BY DEF Early, Base, Forking
<1>2. b \in Buffers(s) /\ C \subseteq Consumers(s, b)
  BY <1>1 DEF ScheduleTypeOK, DependentConsumers
<1>3. ReadersMoved(s, m, b)
  BY <1>1, <1>2, BuffersForConsumersIs
<1>4. t = AddNodeAfter(m, n, node, ins, new, NoLevel, body)
  BY DEF ForkOutput
<1> HIDE DEF m, C, body, t
<1>5. ScheduleTypeOK(m) /\ Nodes(m) = Nodes(s) /\ Buffers(s) \subseteq Buffers(m) /\ m.outs = s.outs
      /\ \A x, y \in Nodes(s) : Before(m, x, y) <=> Before(s, x, y)
  BY <1>3 DEF ReadersMoved, Nodes, Before
<1>6. node \in Nat \ Nodes(s)
  BY <1>1, FreshIs
<1>7. NodeAdded(m, t, n, node, ins, new, NoLevel)
  <2>1. /\ DOMAIN ins \subseteq Buffers(m) \ new /\ ins \in [DOMAIN ins -> Nat]
        /\ new \in SUBSET Buffers(m) /\ NoLevel \in Nat \cup {NoLevel}
    BY <1>2, <1>5
  <2> HIDE DEF ins, new, node
  <2> QED
    BY <1>4, <1>5, <1>6, <2>1, AddNodeAfterIs
<1>8. \A x : /\ Producers(t, x) = Producers(m, x) \cup {k \in {node} : x \in new}
             /\ Consumers(t, x) = Consumers(m, x) \cup {k \in {node} : x = b}
  <2>1. NodeAddedWith(m, t, node, ins, new)
    <3> HIDE DEF ins, new, node
    <3> QED
      BY <1>5, <1>6, <1>7, NodeAddedUses
  <2> QED
    BY <2>1 DEF NodeAddedWith
<1> HIDE DEF ins, node
<1>9. /\ ScheduleTypeOK(t) /\ SameFlags(m, t) /\ SameBuffers(m, t)
      /\ Nodes(t) = Nodes(s) \cup {node} /\ Buffers(t) = Buffers(m)
      /\ t.level[node] = NoLevel
      /\ \A k \in Nodes(s) : /\ t.ins[k] = m.ins[k] /\ t.outs[k] = s.outs[k]
                             /\ t.level[k] = m.level[k]
  BY <1>5, <1>7 DEF NodeAdded
<1>10. /\ t.depFree = s.depFree /\ ~t.isLegal
       /\ Buffers(s) \subseteq Buffers(t) /\ \A x \in Buffers(t) \ Buffers(s) : ~t.isArg[x]
       /\ \A x \in Buffers(s) : t.isArg[x] = s.isArg[x] /\ t.ext[x] = s.ext[x]
       /\ m.level = s.level
  BY <1>1, <1>3, <1>9 DEF ReadersMoved, SameFlags, SameBuffers
<1>11. /\ \A x \in Buffers(s) : Producers(t, x) = Producers(s, x)
       /\ \A x \in Buffers(t) \ Buffers(s) : Producers(t, x) = {node}
  <2>1. \A x : Producers(m, x) = Producers(s, x)
    BY <1>5 DEF Producers
  <2>2. \A x \in Buffers(t) \ Buffers(s) : Producers(s, x) = {}
    BY <1>1, NewIsUnused DEF Producers
  <2> QED
    BY <1>8, <1>9, <2>1, <2>2
<1>12. OneProducer(t)
  BY <1>1, <1>10, <1>11 DEF OneProducer, One
<1>13. ArgsKept(s, t)
  BY <1>10, <1>11 DEF ArgsKept
<1>14. OrderKeptIn(s, t)
  <2>1. ASSUME NEW x \in Buffers(s), NEW p \in Producers(s, x), NEW c \in Consumers(t, x)
        PROVE  \/ c \in Consumers(s, x) /\ (Before(s, p, c) => Before(t, p, c))
               \/ One(Producers(s, x)) => Before(t, p, c)
    <3>1. p \in Nodes(s)
      BY DEF Producers
    <3>2. CASE c \in Consumers(m, x)
      <4>1. c \in Consumers(s, x) /\ c \in Nodes(s)
        BY <1>3, <3>2 DEF ReadersMoved, Consumers
      <4>2. Before(s, p, c) => Before(t, p, c)
        BY <1>5, <1>7, <3>1, <4>1 DEF NodeAdded
      <4> QED
        BY <4>1, <4>2
    <3>3. CASE c = node /\ x = b
      <4>1. n \in Producers(s, x)
        BY <3>3 DEF Producers
      <4>2. ~Before(s, n, n)
        <5>1. Orders(s.order, Nodes(s)) /\ Len(s.order) \in Nat
          BY <1>1, TypeOfSchedule DEF TypeOver, Orders
        <5>2. Position(s.order, n) \in Nat
          BY <5>1, PositionIs
        <5> QED
          BY <5>2 DEF Before
      <4>3. Before(t, n, node)
        BY <1>5, <1>7, <4>2 DEF NodeAdded
      <4> QED
        BY <3>3, <4>1, <4>3 DEF One
    <3> QED
      BY <1>8, <3>2, <3>3
  <2> QED
    BY <1>10, <1>11, <2>1 DEF OrderKeptIn
<1>15. FromSource(src, t) /\ Ordered(src, t)
  BY <1>1, <1>13, <1>14, FromSourceKept, OrderedKept
<1>16. NoLevels(t)
  BY <1>1, <1>9, <1>10 DEF NoLevels, Leveled
<1>17. FirstTaps(t)
  <2>1. FirstTaps(m)
    BY <1>1, <1>3 DEF ReadersMoved
  <2>2. t.ins[node] = ins
    BY <1>7 DEF NodeAdded
  <2>3. ASSUME NEW k \in Nodes(t), NEW x \in DOMAIN t.ins[k] PROVE t.ins[k][x] = 0
    <3>1. CASE k = node
      BY <2>2, <3>1 DEF ins
    <3>2. CASE k # node
      BY <1>5, <1>9, <2>1, <3>2 DEF FirstTaps
    <3> QED
      BY <3>1, <3>2
  <2> QED
    BY <2>3 DEF FirstTaps
<1>18. Early(src, t)
  BY <1>1, <1>9, <1>10, <1>15, <1>16, <1>17 DEF Early, Base
<1> QED
  BY <1>9, <1>12, <1>18 DEF Forking, t

\* The fold of InsertForkNode at node n: a is the source, c the outputs of n.
ForkAllStep(src, n, c, t, b) == ForkOutput(t, n, b)
ForkAllInv(src, n, c, t, U)  == Forking(src, t) /\ n \in Nodes(t) /\ t.outs[n] = c
ForkAll == INSTANCE FoldLemmas WITH Step <- ForkAllStep, Choice <- PickAny, Inv <- ForkAllInv

\* InsertForkNode, over all outputs of a node.
LEMMA InsertForkNodeIs ==
    ASSUME NEW src, NEW s, Forking(src, s), NEW n \in Nodes(s)
    PROVE  Forking(src, ForEachIn(ForkedOutputs(s, n), LAMBDA t, b : ForkOutput(t, n, b), s))
<1> DEFINE S == ForkedOutputs(s, n)
           O == s.outs[n]
<1>1. ForEachIn(S, LAMBDA t, b : ForkOutput(t, n, b), s) = ForkAll!Fold(src, n, O, s, S)
  BY DEF ForEachIn, FoldSet, MapThenFoldSet, ForkAll!Fold, PickAny, ForkAllStep
<1>2. S \subseteq O /\ IsFiniteSet(S)
  <2>1. O \subseteq Buffers(s) /\ IsFiniteSet(Buffers(s))
    BY DEF Forking, Early, Base, ScheduleTypeOK
  <2> QED
    BY <2>1, FS_Subset DEF ForkedOutputs
<1> HIDE DEF S
<1>3. ForkAll!Chooses(S)
  BY PickAnyPicks DEF ForkAll!Chooses
<1>4. PICK r : ForkAll!Measures(r, S)
  BY <1>2, MeasureExists DEF ForkAll!Measures
<1>5. ForkAllInv(src, n, O, s, {})
  BY DEF ForkAllInv
<1>6. ForkAll!Keeps(src, n, O, S)
  <2> SUFFICES ASSUME NEW V \in SUBSET S, V # {},
                      NEW t, Forking(src, t), n \in Nodes(t), t.outs[n] = O
               PROVE  /\ Forking(src, ForkOutput(t, n, PickAny(V)))
                      /\ n \in Nodes(ForkOutput(t, n, PickAny(V)))
                      /\ ForkOutput(t, n, PickAny(V)).outs[n] = O
    BY DEF ForkAll!Keeps, ForkAllInv, ForkAllStep
  <2>1. PickAny(V) \in t.outs[n]
    BY <1>2, <1>3 DEF ForkAll!Chooses
  <2> QED
    BY <2>1, ForkOutputIs
<1>7. ForkAllInv(src, n, O, ForkAll!Fold(src, n, O, s, S), S)
  BY <1>3, <1>4, <1>5, <1>6, ForkAll!FoldInduction
<1> QED
  BY <1>1, <1>7 DEF ForkAllInv, S

-----------------------------------------------------------------------------
(* BalanceDataflowNode: chains of copies *)

\* The consumers i levels below n.
Here(s, b, n, i) == {c \in FarConsumers(s, b, n) : Diff(s, n, c) = i}

\* The farthest is further than one level away, and within the levels below n.
IsMaxDiff(s, b, n, D) ==
    /\ D \in Nat /\ D > 1 /\ D <= s.level[n] + 1
    /\ \E c \in FarConsumers(s, b, n) : Diff(s, n, c) = D
    /\ \A c \in FarConsumers(s, b, n) : Diff(s, n, c) <= D
    /\ \A c \in FarConsumers(s, b, n) : Diff(s, n, c) \in Nat /\ Diff(s, n, c) > 1

\* MaxDiff is the largest level difference of a far consumer, and greater than one.
LEMMA MaxDiffIs ==
    ASSUME NEW s, ScheduleTypeOK(s), NEW n \in Nodes(s), Leveled(s, n), NEW b,
           FarConsumers(s, b, n) # {}
    PROVE  IsMaxDiff(s, b, n, MaxDiff(s, b, n))
<1> DEFINE F == FarConsumers(s, b, n)
           T == {Diff(s, n, c) : c \in F}
<1>1. s.level[n] \in Nat /\ \A c \in Nodes(s) : s.level[c] \in Nat \cup {-1}
  BY DEF ScheduleTypeOK, Leveled, NoLevel
<1>2. F \subseteq Nodes(s) /\ IsFiniteSet(F)
  <2>1. F \subseteq Consumers(s, b)
    BY DEF FarConsumers, DependentConsumers
  <2> QED
    BY <2>1, ReadOrWrite, FS_Subset
<1>3. \A c \in F : Diff(s, n, c) \in Nat /\ Diff(s, n, c) > 1 /\ Diff(s, n, c) <= s.level[n] + 1
  <2> SUFFICES ASSUME NEW c \in F
               PROVE  Diff(s, n, c) \in Nat /\ Diff(s, n, c) > 1 /\ Diff(s, n, c) <= s.level[n] + 1
    OBVIOUS
  <2>1. c \in Nodes(s) /\ Diff(s, n, c) > 1
    BY <1>2 DEF FarConsumers
  <2>2. s.level[c] \in Nat \cup {-1}
    BY <1>1, <2>1
  <2> QED
    BY <1>1, <2>1, <2>2 DEF Diff
<1>4. IsFiniteSet(T)
  <2> DEFINE f == [c \in F |-> Diff(s, n, c)]
  <2>1. IsFiniteSet({f[c] : c \in F})
    <3>1. DOMAIN f = F
      OBVIOUS
    <3> HIDE DEF f, F
    <3> QED
      BY <1>2, <3>1, FiniteImage
  <2> QED
    BY <2>1
<1>5. T \in SUBSET Nat /\ T # {}
  BY <1>3
<1> HIDE DEF T
<1>6. Max(T) \in T /\ \A y \in T : y <= Max(T)
  BY <1>4, <1>5, MaxIs
<1>7. MaxDiff(s, b, n) = Max(T)
  BY DEF MaxDiff, T
<1> HIDE DEF F
<1>8. PICK c \in F : Max(T) = Diff(s, n, c)
  BY <1>6 DEF T
<1>9. \A d \in F : Diff(s, n, d) <= Max(T)
  BY <1>6 DEF T
<1> QED
  BY <1>3, <1>7, <1>8, <1>9 DEF IsMaxDiff, F

\* t has new nodes and BufferOps; what s has stays, but for inputs.
Grown(s, t) ==
    /\ ScheduleTypeOK(t) /\ SameFlags(s, t)
    /\ Buffers(s) \subseteq Buffers(t)
    /\ \A x \in Buffers(t) \ Buffers(s) : ~t.isArg[x]
    /\ \A x \in Buffers(s) : /\ t.isArg[x] = s.isArg[x] /\ t.ext[x] = s.ext[x]
                             /\ t.depth[x] = s.depth[x]
                             /\ Producers(t, x) = Producers(s, x)
    /\ Nodes(s) \subseteq Nodes(t)
    /\ \A k \in Nodes(s) : t.level[k] = s.level[k] /\ t.outs[k] = s.outs[k]
    /\ \A k \in Nodes(t) \ Nodes(s) : /\ t.level[k] \in Nat
                                      /\ \A x \in DOMAIN t.ins[k] : t.ins[k][x] = 0
    /\ \A k, l \in Nodes(s) : Before(t, k, l) <=> Before(s, k, l)

\* Every new buffer of t leads from a new node to nodes one level below it.
Linked(s, t, b, n) ==
    \A x \in Buffers(t) \ Buffers(s) :
        /\ t.ext[x] = s.ext[b]
        /\ \E q \in Nodes(t) \ Nodes(s) :
              /\ Producers(t, x) = {q}
              /\ \A c \in Consumers(t, x) : t.level[c] = t.level[q] - 1
        /\ One(FarConsumers(s, b, n)) => One(Consumers(t, x))

\* The inputs of t are those of s; b may be renamed.
TapsMoved(s, t, b) ==
    \A k \in Nodes(s) : \A x \in DOMAIN t.ins[k] :
        IF x \in Buffers(s) THEN x \in DOMAIN s.ins[k] /\ t.ins[k][x] = s.ins[k][x]
        ELSE b \in DOMAIN s.ins[k] /\ t.ins[k][x] = s.ins[k][b]

\* The consumers of b at most k + 1 levels below n read elsewhere, node q reads b.
Relieved(s, t, b, n, k) ==
    \E q \in Nodes(t) \ Nodes(s) :
        /\ t.level[q] = s.level[n] - 1
        /\ Consumers(t, b) = {c \in Consumers(s, b) :
                                 c \in FarConsumers(s, b, n) => Diff(s, n, c) > k + 1} \cup {q}

\* The end of the chain after k copies.
ChainEnd(s, t, b, n, k, buf, node) ==
    /\ buf \in Buffers(t) \ Buffers(s) /\ node \in Nodes(t) \ Nodes(s)
    /\ Producers(t, buf) = {node} /\ Consumers(t, buf) = Here(s, b, n, k + 1)
    /\ t.level[node] = s.level[n] - k

ChainedTo(s, b, n, r, k) ==
    /\ Grown(s, r.s) /\ Linked(s, r.s, b, n) /\ TapsMoved(s, r.s, b)
    /\ \A x \in Buffers(s) \ {b} : Consumers(r.s, x) = Consumers(s, x)
    /\ IF k = 0 THEN r.s = s /\ r.buf = b /\ r.node = n
       ELSE Relieved(s, r.s, b, n, k) /\ ChainEnd(s, r.s, b, n, k, r.buf, r.node)

ChainHop(s, b, n, r, i) ==
    LET buf  == FreshBuffer(r.s)
        node == FreshNode(r.s)
        grown == AddNodeAfter(AddBuffer(r.s, buf, b), r.node, node,
                              [x \in {r.buf} |-> 0], {buf}, s.level[n] + 1 - i,
                              <<CopyOp(r.buf, buf)>>)
        here == {c \in FarConsumers(s, b, n) : Diff(s, n, c) = i}
    IN  [s |-> ReplaceUses(grown, b, buf, here), buf |-> buf, node |-> node]

\* One more copy lengthens the chain.
LEMMA ChainHopIs ==
    ASSUME NEW s, ScheduleTypeOK(s), NEW n \in Nodes(s), Leveled(s, n), NEW b \in s.outs[n],
           FarConsumers(s, b, n) # {},
           NEW k \in Nat \ {0}, k < MaxDiff(s, b, n),
           NEW r, ChainedTo(s, b, n, r, k - 1)
    PROVE  ChainedTo(s, b, n, ChainHop(s, b, n, r, k + 1), k)
<1> DEFINE F == FarConsumers(s, b, n)
           D == MaxDiff(s, b, n)
           H == Here(s, b, n, k + 1)
           L == s.level[n] + 1 - (k + 1)
           buf == FreshBuffer(r.s)
           node == FreshNode(r.s)
           t == Hop(r.s, b, r.buf, r.node, H, L, <<CopyOp(r.buf, buf)>>)
           w == [s |-> t, buf |-> buf, node |-> node]
<1>1. ChainHop(s, b, n, r, k + 1) = w
  BY DEF ChainHop, Hop, Here
<1>2. IsMaxDiff(s, b, n, D)
  BY MaxDiffIs
<1>3. /\ s.level[n] \in Nat /\ \A c \in Nodes(s) : s.level[c] \in Int
      /\ b \in Buffers(s) /\ \A c \in Nodes(s) : Diff(s, n, c) = s.level[n] - s.level[c]
      /\ F \subseteq Consumers(s, b) /\ F \subseteq Nodes(s)
  BY DEF ScheduleTypeOK, Leveled, NoLevel, Diff, FarConsumers, DependentConsumers, Consumers
<1>4. L \in Nat /\ L = s.level[n] - k
  <2>1. D \in Nat /\ D <= s.level[n] + 1
    BY <1>2 DEF IsMaxDiff
  <2> HIDE DEF D
  <2>2. k < D
    BY DEF D
  <2> QED
    BY <1>3, <2>1, <2>2
<1>5. /\ Grown(s, r.s) /\ Linked(s, r.s, b, n) /\ TapsMoved(s, r.s, b)
      /\ \A x \in Buffers(s) \ {b} : Consumers(r.s, x) = Consumers(s, x)
      /\ k = 1 => r.s = s /\ r.buf = b /\ r.node = n
      /\ k # 1 => /\ Relieved(s, r.s, b, n, k - 1)
                  /\ ChainEnd(s, r.s, b, n, k - 1, r.buf, r.node)
  BY DEF ChainedTo
<1>6. /\ ScheduleTypeOK(r.s) /\ Nodes(s) \subseteq Nodes(r.s) /\ Buffers(s) \subseteq Buffers(r.s)
      /\ r.buf \in Buffers(r.s) /\ r.node \in Nodes(r.s)
  BY <1>3, <1>5 DEF Grown, ChainEnd
<1>7. H \subseteq Consumers(r.s, b)
  <2>1. H \subseteq Consumers(s, b) /\ H \subseteq F /\ \A c \in H : Diff(s, n, c) = k + 1
    BY <1>3 DEF Here
  <2>2. CASE k = 1
    BY <1>5, <2>1, <2>2
  <2>3. CASE k # 1
    BY <1>5, <2>1, <2>3 DEF Relieved
  <2> QED
    BY <2>2, <2>3
<1>8. Hopped(r.s, t, b, r.buf, H, L, buf, node)
  <2> HIDE DEF H, L
  <2> QED
    BY <1>3, <1>4, <1>6, <1>7, HopIs
<1> HIDE DEF t, buf, node, H, L, D, F
<1>9. HopUses(r.s, t, b, r.buf, H, buf, node)
  BY <1>3, <1>6, <1>7, <1>8, HoppedUses
<1>10. /\ ScheduleTypeOK(t) /\ SameFlags(r.s, t)
       /\ buf \notin Buffers(r.s) /\ Buffers(t) = Buffers(r.s) \cup {buf}
       /\ ~t.isArg[buf] /\ t.ext[buf] = r.s.ext[b]
       /\ \A x \in Buffers(r.s) : /\ t.isArg[x] = r.s.isArg[x] /\ t.ext[x] = r.s.ext[x]
                                  /\ t.depth[x] = r.s.depth[x]
       /\ node \notin Nodes(r.s) /\ Nodes(t) = Nodes(r.s) \cup {node}
       /\ t.level[node] = L /\ t.ins[node] = [x \in {r.buf} |-> 0]
       /\ \A l \in Nodes(r.s) : /\ t.level[l] = r.s.level[l] /\ t.outs[l] = r.s.outs[l]
                                /\ t.ins[l] = IF l \in H THEN RenameIns(r.s.ins[l], b, buf)
                                              ELSE r.s.ins[l]
       /\ \A l, m \in Nodes(r.s) : Before(t, l, m) <=> Before(r.s, l, m)
  BY <1>8 DEF Hopped
<1>11. /\ \A x \in Buffers(r.s) : Producers(t, x) = Producers(r.s, x)
       /\ Producers(t, buf) = {node} /\ Consumers(t, buf) = H
       /\ \A x \in Buffers(r.s) :
             Consumers(t, x) = (IF x = b THEN Consumers(r.s, b) \ H ELSE Consumers(r.s, x))
                               \cup {l \in {node} : x = r.buf}
       /\ \A l \in Nodes(r.s) : \A x \in DOMAIN t.ins[l] :
             t.ins[l][x] = IF x = buf THEN r.s.ins[l][b] ELSE r.s.ins[l][x]
  BY <1>9 DEF HopUses
<1>12. Grown(s, t)
  <2>1. ScheduleTypeOK(t) /\ SameFlags(s, t) /\ Buffers(s) \subseteq Buffers(t)
    BY <1>5, <1>6, <1>10 DEF Grown, SameFlags
  <2>2. \A x \in Buffers(t) \ Buffers(s) : ~t.isArg[x]
    BY <1>5, <1>10 DEF Grown
  <2>3. \A x \in Buffers(s) : /\ t.isArg[x] = s.isArg[x] /\ t.ext[x] = s.ext[x]
                              /\ t.depth[x] = s.depth[x]
                              /\ Producers(t, x) = Producers(s, x)
    BY <1>5, <1>6, <1>10, <1>11 DEF Grown
  <2>4. /\ Nodes(s) \subseteq Nodes(t)
        /\ \A l \in Nodes(s) : t.level[l] = s.level[l] /\ t.outs[l] = s.outs[l]
    BY <1>5, <1>6, <1>10 DEF Grown
  <2>5. ASSUME NEW l \in Nodes(t) \ Nodes(s)
        PROVE  t.level[l] \in Nat /\ \A x \in DOMAIN t.ins[l] : t.ins[l][x] = 0
    <3>1. CASE l = node
      BY <1>4, <1>10, <3>1
    <3>2. CASE l # node
      <4>1. l \in Nodes(r.s) \ Nodes(s) /\ l \notin F
        BY <1>3, <1>10, <2>5, <3>2
      <4>2. l \notin H
        BY <4>1 DEF H, Here, F
      <4> QED
        BY <1>5, <1>10, <4>1, <4>2 DEF Grown
    <3> QED
      BY <3>1, <3>2
  <2>6. \A l, m \in Nodes(s) : Before(t, l, m) <=> Before(s, l, m)
    BY <1>5, <1>6, <1>10 DEF Grown
  <2> QED
    BY <2>1, <2>2, <2>3, <2>4, <2>5, <2>6 DEF Grown
<1>13. TapsMoved(s, t, b)
  <2> SUFFICES ASSUME NEW l \in Nodes(s), NEW x \in DOMAIN t.ins[l]
               PROVE  IF x \in Buffers(s) THEN x \in DOMAIN s.ins[l] /\ t.ins[l][x] = s.ins[l][x]
                      ELSE b \in DOMAIN s.ins[l] /\ t.ins[l][x] = s.ins[l][b]
    BY DEF TapsMoved
  <2>1. l \in Nodes(r.s) /\ t.ins[l][x] = IF x = buf THEN r.s.ins[l][b] ELSE r.s.ins[l][x]
    BY <1>6, <1>11
  <2>2. CASE x = buf
    <3>1. l \in Consumers(t, buf) /\ buf \notin Buffers(s)
      BY <1>6, <1>10, <2>1, <2>2 DEF Consumers
    <3>2. l \in Consumers(r.s, b)
      BY <1>7, <1>11, <3>1
    <3>3. b \in DOMAIN r.s.ins[l]
      BY <3>2 DEF Consumers
    <3> QED
      BY <1>3, <1>5, <2>1, <2>2, <3>1, <3>3 DEF TapsMoved
  <2>3. CASE x # buf
    <3>1. x \in Buffers(r.s) /\ l \in Consumers(t, x)
      BY <1>10, <2>1, <2>3 DEF Consumers, ScheduleTypeOK
    <3>2. l \in Consumers(r.s, x)
      <4>1. l # node
        BY <1>10, <2>1
      <4> QED
        BY <1>11, <3>1, <4>1
    <3>3. x \in DOMAIN r.s.ins[l]
      BY <3>2 DEF Consumers
    <3> QED
      BY <1>5, <2>1, <2>3, <3>3 DEF TapsMoved
  <2> QED
    BY <2>2, <2>3
<1>14. \A x \in Buffers(s) \ {b} : Consumers(t, x) = Consumers(s, x)
  <2>1. \A x \in Buffers(s) \ {b} : x # r.buf
    BY <1>5 DEF ChainEnd
  <2> QED
    BY <1>5, <1>6, <1>11, <2>1
<1>15. ChainEnd(s, t, b, n, k, buf, node)
  BY <1>4, <1>6, <1>10, <1>11 DEF ChainEnd, H
<1>16. Relieved(s, t, b, n, k)
  <2>1. CASE k = 1
    <3>1. Consumers(t, b) = (Consumers(s, b) \ H) \cup {node}
      BY <1>3, <1>5, <1>11, <2>1
    <3>2. \A c \in F : Diff(s, n, c) \in Nat /\ Diff(s, n, c) > 1
      BY <1>2 DEF IsMaxDiff, F
    <3>3. Consumers(s, b) \ H = {c \in Consumers(s, b) : c \in F => Diff(s, n, c) > k + 1}
      BY <2>1, <3>2 DEF H, Here, F
    <3>4. t.level[node] = s.level[n] - 1 /\ node \in Nodes(t) \ Nodes(s)
      BY <1>4, <1>6, <1>10, <2>1
    <3> QED
      BY <3>1, <3>3, <3>4 DEF Relieved, F
  <2>2. CASE k # 1
    <3>1. PICK q \in Nodes(r.s) \ Nodes(s) :
             /\ r.s.level[q] = s.level[n] - 1
             /\ Consumers(r.s, b) = {c \in Consumers(s, b) :
                                        c \in F => Diff(s, n, c) > (k - 1) + 1} \cup {q}
      BY <1>5, <2>2 DEF Relieved, F
    <3>2. r.buf # b /\ q \notin H /\ q \in Nodes(t) \ Nodes(s) /\ t.level[q] = s.level[n] - 1
      <4>1. H \subseteq Nodes(s)
        BY <1>3 DEF H, Here, F
      <4> QED
        BY <1>3, <1>5, <1>10, <2>2, <3>1, <4>1 DEF ChainEnd
    <3>3. Consumers(t, b) = Consumers(r.s, b) \ H
      BY <1>3, <1>6, <1>11, <3>2
    <3>4. \A c \in F : Diff(s, n, c) \in Nat
      BY <1>2 DEF IsMaxDiff, F
    <3>5. Consumers(r.s, b) \ H = {c \in Consumers(s, b) : c \in F => Diff(s, n, c) > k + 1} \cup {q}
      <4>1. \A c \in Consumers(s, b) : c \in H <=> c \in F /\ Diff(s, n, c) = k + 1
        BY DEF H, Here, F
      <4>2. \A c \in F : Diff(s, n, c) > (k - 1) + 1 /\ Diff(s, n, c) # k + 1 <=> Diff(s, n, c) > k + 1
        BY <3>4
      <4> QED
        BY <3>1, <3>2, <4>1, <4>2
    <3> QED
      BY <3>2, <3>3, <3>5 DEF Relieved, F
  <2> QED
    BY <2>1, <2>2
<1>17. Linked(s, t, b, n)
  <2> SUFFICES ASSUME NEW x \in Buffers(t) \ Buffers(s)
               PROVE  /\ t.ext[x] = s.ext[b]
                      /\ \E q \in Nodes(t) \ Nodes(s) :
                            /\ Producers(t, x) = {q}
                            /\ \A c \in Consumers(t, x) : t.level[c] = t.level[q] - 1
                      /\ One(F) => One(Consumers(t, x))
    BY DEF Linked, F
  <2>0. \A i \in Nat : Here(s, b, n, i) \subseteq F /\ Here(s, b, n, i) \subseteq Nodes(s)
    BY <1>3 DEF Here, F
  <2>1. CASE x = buf
    <3>1. t.ext[x] = s.ext[b]
      BY <1>3, <1>5, <1>10, <2>1 DEF Grown
    <3>2. ASSUME NEW c \in H PROVE t.level[c] = t.level[node] - 1
      <4>1. c \in Nodes(s) /\ Diff(s, n, c) = k + 1
        BY <1>3, <3>2 DEF H, Here, F
      <4>2. t.level[c] = s.level[c]
        BY <1>12, <4>1 DEF Grown
      <4>3. s.level[n] - s.level[c] = k + 1 /\ s.level[c] \in Int
        BY <1>3, <4>1
      <4> QED
        BY <1>3, <1>4, <1>10, <4>2, <4>3
    <3>3. One(F) => One(H)
      BY DEF One, H, Here, F
    <3>4. node \in Nodes(t) \ Nodes(s)
      BY <1>6, <1>10
    <3> QED
      BY <1>11, <2>1, <3>1, <3>2, <3>3, <3>4
  <2>2. CASE x # buf
    <3>1. x \in Buffers(r.s) \ Buffers(s)
      BY <1>10, <2>2
    <3>2. r.s.ext[x] = s.ext[b]
      BY <1>5, <3>1 DEF Linked
    <3>3. PICK q \in Nodes(r.s) \ Nodes(s) :
             /\ Producers(r.s, x) = {q}
             /\ \A c \in Consumers(r.s, x) : r.s.level[c] = r.s.level[q] - 1
      BY <1>5, <3>1 DEF Linked
    <3>4. One(F) => One(Consumers(r.s, x))
      BY <1>5, <3>1 DEF Linked, F
    <3>5. /\ x # b /\ Producers(t, x) = {q} /\ q \in Nodes(t) \ Nodes(s)
          /\ t.level[q] = r.s.level[q]
          /\ Consumers(t, x) = Consumers(r.s, x) \cup {l \in {node} : x = r.buf}
      BY <1>3, <1>10, <1>11, <3>1, <3>3
    <3>6. \A c \in Consumers(r.s, x) : t.level[c] = t.level[q] - 1
      BY <1>10, <3>3, <3>5 DEF Consumers
    <3>7. CASE x # r.buf
      BY <1>10, <3>1, <3>2, <3>4, <3>5, <3>6, <3>7
    <3>8. CASE x = r.buf
      <4>1. k # 1
        BY <1>5, <3>5, <3>8
      <4>2. /\ Producers(r.s, x) = {r.node} /\ r.s.level[r.node] = s.level[n] - (k - 1)
            /\ Consumers(r.s, x) = Here(s, b, n, (k - 1) + 1)
        BY <1>5, <3>8, <4>1 DEF ChainEnd
      <4>3. q = r.node
        BY <3>3, <4>2
      <4>4. t.level[node] = t.level[q] - 1
        BY <1>3, <1>4, <1>10, <3>5, <4>2, <4>3
      <4>5. One(F) => Here(s, b, n, k) = {}
        <5> SUFFICES ASSUME One(F), NEW c \in Here(s, b, n, k) PROVE FALSE
          OBVIOUS
        <5>1. c \in F /\ Diff(s, n, c) = k
          BY DEF Here, F
        <5>2. PICK d \in F : Diff(s, n, d) = D
          BY <1>2 DEF IsMaxDiff, F
        <5>3. c = d
          BY <5>1 DEF One
        <5>4. k < D /\ D \in Nat
          BY <1>2 DEF D, IsMaxDiff
        <5> QED
          BY <5>1, <5>2, <5>3, <5>4
      <4>6. One(F) => Consumers(t, x) = {node}
        BY <3>5, <3>8, <4>2, <4>5
      <4>7. One(F) => One(Consumers(t, x))
        BY <4>6 DEF One
      <4>8. t.ext[x] = s.ext[b]
        BY <1>10, <3>1, <3>2
      <4> QED
        BY <3>5, <3>6, <4>4, <4>7, <4>8
    <3> QED
      BY <3>7, <3>8
  <2> QED
    BY <2>1, <2>2
<1>18. k # 0 /\ w.s = t /\ w.buf = buf /\ w.node = node
  OBVIOUS
<1> HIDE DEF w
<1>19. ChainedTo(s, b, n, w, k)
  BY <1>12, <1>13, <1>14, <1>15, <1>16, <1>17, <1>18 DEF ChainedTo
<1> QED
  BY <1>1, <1>19

\* The fold of ChainCopies: the context is the first schedule, b and n.
Stretch(s, b, n) == [i \in 1..(MaxDiff(s, b, n) - 1) |-> i + 1]
ChainStep(s, b, n, r, x) == ChainHop(s, b, n, r, Stretch(s, b, n)[x])
ChainInv(s, b, n, r, U)  == \A k \in Nat : U = 1..k => ChainedTo(s, b, n, r, k)
Chain == INSTANCE FoldLemmas WITH Step <- ChainStep, Choice <- Max, Inv <- ChainInv

\* After the chain: a new node reads b for the consumers that were far.
Chained(s, t, b, n) ==
    /\ Grown(s, t) /\ Linked(s, t, b, n) /\ TapsMoved(s, t, b)
    /\ \A x \in Buffers(s) \ {b} : Consumers(t, x) = Consumers(s, x)
    /\ \E q \in Nodes(t) \ Nodes(s) :
          /\ t.level[q] = s.level[n] - 1
          /\ Consumers(t, b) = (Consumers(s, b) \ FarConsumers(s, b, n)) \cup {q}

\* The whole chain of BalanceDataflowNode: one copy for each level that is bypassed.
LEMMA ChainCopiesIs ==
    ASSUME NEW s, ScheduleTypeOK(s), NEW n \in Nodes(s), Leveled(s, n), NEW b \in s.outs[n],
           FarConsumers(s, b, n) # {}
    PROVE  Chained(s, ChainCopies(s, b, n), b, n)
<1> DEFINE D == MaxDiff(s, b, n)
           S == DOMAIN Stretch(s, b, n)
           first == [s |-> s, buf |-> b, node |-> n]
           r == Chain!Fold(s, b, n, first, S)
<1>1. IsMaxDiff(s, b, n, D)
  BY MaxDiffIs
<1>2. D \in Nat /\ D > 1 /\ S = 1..(D - 1) /\ \A i \in S : Stretch(s, b, n)[i] = i + 1
  BY <1>1 DEF Stretch, IsMaxDiff
<1>3. ChainCopies(s, b, n) = r.s
  BY DEF ChainCopies, ForEachOf, FoldLeft, MapThenFoldSet, Chain!Fold, ChainStep, ChainHop, Stretch
<1> HIDE DEF S, r, D
<1>4. IsFiniteSet(S) /\ S \in SUBSET Nat
  BY <1>2, FS_Interval
<1>5. Chain!Chooses(S)
  <2> SUFFICES ASSUME NEW V \in SUBSET S, V # {} PROVE Max(V) \in V
    BY DEF Chain!Chooses
  <2> QED
    BY <1>4, FS_Subset, MaxIs
<1>6. PICK m : Chain!Measures(m, S)
  BY <1>4, MeasureExists DEF Chain!Measures
<1>7. ChainInv(s, b, n, first, {})
  <2> SUFFICES ASSUME NEW k \in Nat, {} = 1..k PROVE ChainedTo(s, b, n, first, k)
    BY DEF ChainInv
  <2>1. k = 0
    <3>1. 1 \in 1..k \/ k < 1
      OBVIOUS
    <3> QED
      BY <3>1
  <2>2. Grown(s, s) /\ Linked(s, s, b, n) /\ TapsMoved(s, s, b)
    <3>1. b \in Buffers(s) /\ \A l \in Nodes(s) : DOMAIN s.ins[l] \subseteq Buffers(s)
      BY DEF ScheduleTypeOK
    <3> QED
      BY <3>1 DEF Grown, Linked, TapsMoved, SameFlags
  <2> QED
    BY <2>1, <2>2 DEF ChainedTo
<1>8. Chain!Keeps(s, b, n, S)
  <2> SUFFICES ASSUME NEW V \in SUBSET S, V # {}, NEW q, ChainInv(s, b, n, q, V \ {Max(V)}),
                      NEW k \in Nat, V = 1..k
               PROVE  ChainedTo(s, b, n, ChainHop(s, b, n, q, Stretch(s, b, n)[Max(V)]), k)
    BY DEF Chain!Keeps, ChainInv, ChainStep
  <2>1. Max(V) \in V /\ \A y \in V : y <= Max(V)
    <3>1. IsFiniteSet(V) /\ V \in SUBSET Nat
      BY <1>4, FS_Subset
    <3> QED
      BY <3>1, MaxIs
  <2>2. k # 0 /\ k \in V
    BY <2>1
  <2>3. Max(V) = k
    <3> DEFINE x == Max(V)
    <3> HIDE DEF x
    <3>1. x \in 1..k /\ k <= x
      BY <2>1, <2>2 DEF x
    <3>2. x = k
      BY <3>1
    <3> QED
      BY <3>2 DEF x
  <2>4. V \ {k} = 1..(k - 1) /\ k - 1 \in Nat
    BY <2>2
  <2>5. ChainedTo(s, b, n, q, k - 1)
    BY <2>3, <2>4 DEF ChainInv
  <2>6. k \in 1..(D - 1)
    BY <1>2, <2>2
  <2>7. k < D /\ Stretch(s, b, n)[k] = k + 1
    BY <1>2, <2>6
  <2>8. ChainedTo(s, b, n, ChainHop(s, b, n, q, k + 1), k)
    BY <2>2, <2>5, <2>7, ChainHopIs DEF D
  <2> QED
    BY <2>3, <2>7, <2>8
<1>9. ChainInv(s, b, n, r, S)
  <2>1. ChainInv(s, b, n, Chain!Fold(s, b, n, first, S), S)
    BY <1>5, <1>6, <1>7, <1>8, Chain!FoldInduction
  <2> QED
    BY <2>1 DEF r
<1>10. ChainedTo(s, b, n, r, D - 1)
  BY <1>2, <1>9 DEF ChainInv
<1>11. D - 1 # 0 /\ (D - 1) + 1 = D
  BY <1>2
<1>12. PICK q \in Nodes(r.s) \ Nodes(s) :
          /\ r.s.level[q] = s.level[n] - 1
          /\ Consumers(r.s, b) = {c \in Consumers(s, b) :
                                     c \in FarConsumers(s, b, n) => Diff(s, n, c) > D} \cup {q}
  BY <1>10, <1>11 DEF ChainedTo, Relieved
<1>13. \A c \in FarConsumers(s, b, n) : ~(Diff(s, n, c) > D)
  BY <1>1 DEF IsMaxDiff
<1>14. Consumers(r.s, b) = (Consumers(s, b) \ FarConsumers(s, b, n)) \cup {q}
  BY <1>12, <1>13
<1>15. Chained(s, r.s, b, n)
  BY <1>10, <1>12, <1>14 DEF ChainedTo, Chained
<1> QED
  BY <1>3, <1>15

-----------------------------------------------------------------------------
(* What holds while BalanceDataflowNode runs *)

OneDependent(s) ==
    \A n \in Nodes(s) : \A b \in s.outs[n] : ~s.ext[b] => One(DependentConsumers(s, b, n))

\* A node with a level is the only writer of its internal outputs.
WritesAlone(s) ==
    \A n \in Nodes(s) : Leveled(s, n) => \A b \in s.outs[n] : ~s.ext[b] => One(Producers(s, b))

\* RewrittenInLoop, of any first schedule.
WrittenAgain(src, b) == MultiProducer(src, b) /\ src.isArg[b] /\ src.ext[b] /\ ~src.depFree

Descending(src, s) ==
    \A n \in Nodes(s) : Leveled(s, n) =>
        \A b \in s.outs[n] : \A c \in DependentConsumers(s, b, n) :
            Leveled(s, c) /\ (~WrittenAgain(src, b) => s.level[c] < s.level[n])

\* Only the readers of DRAM BufferOps are tapped, as far back as they stand below the writer.
TapFits(s, c, b) ==
    \/ s.ins[c][b] = 0
    \/ /\ ~s.isArg[b] /\ s.ext[b]
       /\ \E n \in Producers(s, b) : Leveled(s, n) /\ s.ins[c][b] = Diff(s, n, c) - 1
TapsFit(s) == \A c \in Nodes(s) : \A b \in DOMAIN s.ins[c] : TapFits(s, c, b)

Balancing(src, s) ==
    /\ Base(src, s) /\ Ordered(src, s) /\ Buffers(src) \subseteq Buffers(s) /\ ~s.isLegal
    /\ OneProducer(s) /\ OneDependent(s) /\ TapsFit(s)
    /\ ~IgnoreViolations => WritesAlone(s) /\ Descending(src, s)

\* A buffer that is balanced has all its consumers as dependent consumers.
LEMMA BalancedDependents ==
    ASSUME NEW s, ScheduleTypeOK(s), NEW b, ~NotBalanced(s, b)
    PROVE  /\ \A n : DependentConsumers(s, b, n) = Consumers(s, b) \ {n}
           /\ \A n \in Producers(s, b) : DependentConsumers(s, b, n) = Consumers(s, b)
BY ReadOrWrite DEF DependentConsumers, NotBalanced

\* The multi-producer test of the code counts the writers.
LEMMA WritersCounted ==
    ASSUME NEW s, ScheduleTypeOK(s), NEW b
    PROVE  MultiProducer(s, b) <=> ~One(Producers(s, b))
BY ReadOrWrite, OneIs DEF MultiProducer

\* A chain keeps what holds while the pass runs: every copy writes one level above its
\* readers, and the node that now reads b stands one level below n.
LEMMA ChainKeepsBalancing ==
    ASSUME NEW src, ScheduleTypeOK(src), NEW s, Balancing(src, s), NEW n \in Nodes(s), Leveled(s, n),
           NEW b \in s.outs[n], ~NotBalanced(s, b), FarConsumers(s, b, n) # {},
           ~(~s.isArg[b] /\ s.ext[b]),
           NEW t, Chained(s, t, b, n)
    PROVE  Balancing(src, t)
<1> DEFINE F == FarConsumers(s, b, n)
<1>1. /\ ScheduleTypeOK(s) /\ FromSource(src, s) /\ Ordered(src, s)
      /\ Buffers(src) \subseteq Buffers(s) /\ ~s.isLegal
      /\ OneProducer(s) /\ OneDependent(s) /\ TapsFit(s)
      /\ ~IgnoreViolations => WritesAlone(s) /\ Descending(src, s)
  BY DEF Balancing, Base
<1>2. PICK q \in Nodes(t) \ Nodes(s) :
         /\ t.level[q] = s.level[n] - 1
         /\ Consumers(t, b) = (Consumers(s, b) \ F) \cup {q}
  BY DEF Chained
<1>3. /\ Grown(s, t) /\ Linked(s, t, b, n) /\ TapsMoved(s, t, b)
      /\ \A x \in Buffers(s) \ {b} : Consumers(t, x) = Consumers(s, x)
  BY DEF Chained
<1>4. /\ ScheduleTypeOK(t) /\ t.depFree = s.depFree /\ ~t.isLegal
      /\ Buffers(s) \subseteq Buffers(t)
      /\ \A x \in Buffers(t) \ Buffers(s) : ~t.isArg[x]
      /\ \A x \in Buffers(s) : /\ t.isArg[x] = s.isArg[x] /\ t.ext[x] = s.ext[x]
                               /\ Producers(t, x) = Producers(s, x)
      /\ Nodes(s) \subseteq Nodes(t)
      /\ \A k \in Nodes(s) : t.level[k] = s.level[k] /\ t.outs[k] = s.outs[k]
      /\ \A k \in Nodes(t) \ Nodes(s) : /\ t.level[k] \in Nat
                                        /\ \A x \in DOMAIN t.ins[k] : t.ins[k][x] = 0
      /\ \A k, l \in Nodes(s) : Before(t, k, l) <=> Before(s, k, l)
  BY <1>1, <1>3 DEF Grown, SameFlags
<1>5. \A x \in Buffers(t) \ Buffers(s) :
         /\ t.ext[x] = s.ext[b]
         /\ One(F) => One(Consumers(t, x))
         /\ \E p \in Nodes(t) \ Nodes(s) :
               Producers(t, x) = {p} /\ \A c \in Consumers(t, x) : t.level[c] = t.level[p] - 1
  BY <1>3 DEF Linked
<1>6. /\ b \in Buffers(s) /\ n \in Producers(s, b)
      /\ DependentConsumers(s, b, n) = Consumers(s, b) /\ F \subseteq Consumers(s, b)
      /\ \A m \in Producers(s, b) : DependentConsumers(s, b, m) = Consumers(s, b)
  <2>1. b \in Buffers(s) /\ n \in Producers(s, b)
    BY <1>1 DEF ScheduleTypeOK, Producers
  <2> QED
    BY <1>1, <2>1, BalancedDependents DEF FarConsumers
<1>7. /\ ~NotBalanced(t, b) /\ ~(t.isArg[b] /\ t.depFree)
      /\ \A m \in Producers(t, b) : DependentConsumers(t, b, m) = Consumers(t, b)
  <2>1. ~NotBalanced(t, b) /\ ~(t.isArg[b] /\ t.depFree)
    BY <1>4, <1>6 DEF NotBalanced
  <2> QED
    BY <1>4, <2>1, BalancedDependents
<1>8. \A x \in Buffers(s) \ {b} : \A m \in Nodes(s) :
         DependentConsumers(t, x, m) = DependentConsumers(s, x, m)
  <2> SUFFICES ASSUME NEW x \in Buffers(s) \ {b}, NEW m \in Nodes(s)
               PROVE  DependentConsumers(t, x, m) = DependentConsumers(s, x, m)
    OBVIOUS
  <2>1. /\ Consumers(t, x) = Consumers(s, x) /\ Consumers(s, x) \subseteq Nodes(s)
        /\ t.isArg[x] = s.isArg[x] /\ t.depFree = s.depFree
    BY <1>3, <1>4 DEF Consumers
  <2> QED
    BY <1>4, <2>1 DEF DependentConsumers
<1> HIDE DEF F
<1>9. \A m \in Nodes(t), x \in Buffers(t) : x \in t.outs[m] =>
         IF x \in Buffers(s) THEN m \in Nodes(s) /\ x \in s.outs[m]
         ELSE /\ Producers(t, x) = {m} /\ m \notin Nodes(s)
              /\ \A c \in Consumers(t, x) : t.level[c] = t.level[m] - 1
  <2> SUFFICES ASSUME NEW m \in Nodes(t), NEW x \in Buffers(t), x \in t.outs[m]
               PROVE  IF x \in Buffers(s) THEN m \in Nodes(s) /\ x \in s.outs[m]
                      ELSE /\ Producers(t, x) = {m} /\ m \notin Nodes(s)
                           /\ \A c \in Consumers(t, x) : t.level[c] = t.level[m] - 1
    OBVIOUS
  <2>1. m \in Producers(t, x)
    BY DEF Producers
  <2>2. CASE x \in Buffers(s)
    <3>1. m \in Producers(s, x)
      BY <1>4, <2>1, <2>2
    <3> QED
      BY <2>2, <3>1 DEF Producers
  <2>3. CASE x \notin Buffers(s)
    BY <1>5, <2>1, <2>3
  <2> QED
    BY <2>2, <2>3
<1>10. FromSource(src, t)
  <2>1. ArgsKept(s, t)
    BY <1>4 DEF ArgsKept
  <2> QED
    BY <1>1, <2>1, FromSourceKept
<1>11. Ordered(src, t)
  <2> SUFFICES ASSUME src.depFree, WrittenBeforeRead(src) PROVE WrittenBeforeRead(t)
    BY DEF Ordered
  <2>1. WrittenBeforeRead(s) /\ s.depFree
    BY <1>1 DEF Ordered, FromSource
  <2>2. ASSUME NEW x \in Buffers(t), t.isArg[x]
        PROVE  /\ x \in Buffers(s) /\ s.isArg[x]
               /\ Producers(t, x) = Producers(s, x) /\ Consumers(t, x) = Consumers(s, x)
    <3>1. x # b
      BY <1>4, <1>7, <2>1, <2>2
    <3> QED
      BY <1>3, <1>4, <2>2, <3>1
  <2>3. \A x : Producers(s, x) \subseteq Nodes(s) /\ Consumers(s, x) \subseteq Nodes(s)
    BY DEF Producers, Consumers
  <2> QED
    BY <1>4, <2>1, <2>2, <2>3 DEF WrittenBeforeRead
<1>12. OneProducer(t)
  <2>1. ASSUME NEW x \in Buffers(t), ~t.isArg[x] PROVE One(Producers(t, x))
    <3>1. CASE x \in Buffers(s)
      BY <1>1, <1>4, <2>1, <3>1 DEF OneProducer
    <3>2. CASE x \notin Buffers(s)
      BY <1>5, <3>2 DEF One
    <3> QED
      BY <3>1, <3>2
  <2> QED
    BY <2>1 DEF OneProducer
<1>13. \A m \in Nodes(t) : t.outs[m] \subseteq Buffers(t)
  BY <1>4 DEF ScheduleTypeOK
<1>14. OneDependent(t)
  <2> SUFFICES ASSUME NEW m \in Nodes(t), NEW x \in t.outs[m], ~t.ext[x]
               PROVE  One(DependentConsumers(t, x, m))
    BY DEF OneDependent
  <2>1. x \in Buffers(t)
    BY <1>13
  <2>2. ~s.ext[b] => One(F)
    <3>1. ~s.ext[b] => One(Consumers(s, b))
      BY <1>1, <1>6 DEF OneDependent
    <3> QED
      BY <1>6, <3>1 DEF One
  <2>3. CASE x \in Buffers(s) \ {b}
    <3>1. m \in Nodes(s) /\ x \in s.outs[m] /\ ~s.ext[x]
      BY <1>4, <1>9, <2>1, <2>3
    <3> QED
      BY <1>1, <1>8, <2>3, <3>1 DEF OneDependent
  <2>4. CASE x = b
    <3>1. ~s.ext[b] /\ m \in Producers(t, b)
      BY <1>4, <1>6, <2>4 DEF Producers
    <3>2. One(Consumers(s, b))
      BY <1>1, <1>6, <3>1 DEF OneDependent
    <3>3. Consumers(s, b) \subseteq F
      BY <1>6, <3>2 DEF One, F
    <3>4. Consumers(t, b) = {q}
      BY <1>2, <3>3
    <3> QED
      BY <1>7, <2>4, <3>1, <3>4 DEF One
  <2>5. CASE x \notin Buffers(s)
    <3>1. One(Consumers(t, x))
      BY <1>5, <2>1, <2>2, <2>5
    <3> QED
      BY <3>1 DEF DependentConsumers, One
  <2> QED
    BY <2>3, <2>4, <2>5
<1>15. TapsFit(t)
  <2> SUFFICES ASSUME NEW c \in Nodes(t), NEW x \in DOMAIN t.ins[c] PROVE TapFits(t, c, x)
    BY DEF TapsFit
  <2>1. CASE c \notin Nodes(s)
    BY <1>4, <2>1 DEF TapFits
  <2>2. CASE c \in Nodes(s) /\ x \notin Buffers(s)
    <3>1. b \in DOMAIN s.ins[c] /\ t.ins[c][x] = s.ins[c][b]
      BY <1>3, <2>2 DEF TapsMoved
    <3>2. s.ins[c][b] = 0
      BY <1>1, <2>2, <3>1 DEF TapsFit, TapFits
    <3> QED
      BY <3>1, <3>2 DEF TapFits
  <2>3. CASE c \in Nodes(s) /\ x \in Buffers(s)
    <3>1. x \in DOMAIN s.ins[c] /\ t.ins[c][x] = s.ins[c][x]
      BY <1>3, <2>3 DEF TapsMoved
    <3>2. TapFits(s, c, x)
      BY <1>1, <2>3, <3>1 DEF TapsFit
    <3>3. \A m \in Producers(s, x) : m \in Nodes(s)
      BY DEF Producers
    <3>4. \A m \in Nodes(s) : Leveled(t, m) = Leveled(s, m) /\ Diff(t, m, c) = Diff(s, m, c)
      BY <1>4, <2>3 DEF Leveled, Diff
    <3>5. t.isArg[x] = s.isArg[x] /\ t.ext[x] = s.ext[x] /\ Producers(t, x) = Producers(s, x)
      BY <1>4, <2>3
    <3> QED
      BY <3>1, <3>2, <3>3, <3>4, <3>5 DEF TapFits
  <2> QED
    BY <2>1, <2>2, <2>3
<1>16. ASSUME ~IgnoreViolations PROVE WritesAlone(t)
  <2> SUFFICES ASSUME NEW m \in Nodes(t), Leveled(t, m), NEW x \in t.outs[m], ~t.ext[x]
               PROVE  One(Producers(t, x))
    BY DEF WritesAlone
  <2>1. CASE x \in Buffers(s)
    <3>1. m \in Nodes(s) /\ x \in s.outs[m] /\ ~s.ext[x] /\ Leveled(s, m)
      BY <1>4, <1>9, <1>13, <2>1 DEF Leveled
    <3>2. One(Producers(s, x))
      BY <1>1, <1>16, <3>1 DEF WritesAlone
    <3> QED
      BY <1>4, <2>1, <3>2
  <2>2. CASE x \notin Buffers(s)
    BY <1>5, <1>13, <2>2 DEF One
  <2> QED
    BY <2>1, <2>2
<1>17. ASSUME ~IgnoreViolations PROVE Descending(src, t)
  <2> SUFFICES ASSUME NEW m \in Nodes(t), Leveled(t, m), NEW x \in t.outs[m],
                      NEW c \in DependentConsumers(t, x, m)
               PROVE  Leveled(t, c) /\ (~WrittenAgain(src, x) => t.level[c] < t.level[m])
    BY DEF Descending
  <2>1. x \in Buffers(t) /\ c \in Consumers(t, x) /\ c \in Nodes(t) /\ Descending(src, s)
    BY <1>1, <1>13, <1>17 DEF DependentConsumers, Consumers
  <2>2. /\ \A k \in Nodes(s) : Leveled(t, k) = Leveled(s, k)
        /\ \A k \in Nodes(t) \ Nodes(s) : Leveled(t, k)
    BY <1>4 DEF Leveled, NoLevel
  <2>3. CASE x \notin Buffers(s)
    <3>1. t.level[c] = t.level[m] - 1 /\ m \notin Nodes(s)
      BY <1>9, <2>1, <2>3
    <3>2. t.level[m] \in Nat /\ t.level[c] < t.level[m]
      BY <1>4, <3>1
    <3>3. Leveled(t, c)
      <4>1. CASE c \notin Nodes(s)
        BY <2>1, <2>2, <4>1
      <4>2. CASE c \in Nodes(s)
        <5>1. b \in DOMAIN s.ins[c]
          BY <1>3, <2>1, <2>3, <4>2 DEF TapsMoved, Consumers
        <5>2. c \in DependentConsumers(s, b, n)
          BY <1>6, <4>2, <5>1 DEF Consumers
        <5> QED
          BY <2>1, <2>2, <4>2, <5>2 DEF Descending
      <4> QED
        BY <4>1, <4>2
    <3> QED
      BY <3>2, <3>3
  <2>4. CASE x \in Buffers(s) \ {b}
    <3>1. m \in Nodes(s) /\ x \in s.outs[m]
      BY <1>9, <2>1, <2>4
    <3>2. c \in DependentConsumers(s, x, m) /\ c \in Nodes(s)
      BY <1>8, <2>4, <3>1 DEF DependentConsumers, Consumers
    <3> QED
      BY <1>4, <2>1, <2>2, <3>1, <3>2 DEF Descending
  <2>5. CASE x = b
    <3>1. m \in Nodes(s) /\ b \in s.outs[m] /\ Leveled(s, m)
      BY <1>6, <1>9, <2>1, <2>2, <2>5
    <3>2. m \in Producers(s, b)
      BY <3>1 DEF Producers
    <3>3. CASE c # q
      <4>1. c \in Consumers(s, b)
        BY <1>2, <2>1, <2>5, <3>3
      <4>2. c \in DependentConsumers(s, b, m) /\ c \in Nodes(s)
        BY <1>6, <3>2, <4>1 DEF Consumers
      <4> QED
        BY <1>4, <2>1, <2>2, <2>5, <3>1, <4>2 DEF Descending
    <3>4. CASE c = q
      <4>1. Leveled(t, c) /\ t.level[c] = s.level[n] - 1
        BY <1>2, <2>2, <3>4
      <4>2. ASSUME ~WrittenAgain(src, b) PROVE m = n
        <5>1. One(Producers(s, b))
          <6>1. CASE ~s.isArg[b]
            BY <1>1, <1>6, <6>1 DEF OneProducer
          <6>2. CASE ~s.ext[b]
            BY <1>1, <1>17, <6>2 DEF WritesAlone
          <6>3. CASE s.isArg[b] /\ s.ext[b]
            <7>1. /\ b \in Buffers(src) /\ src.isArg[b] /\ src.ext[b] /\ ~src.depFree
                  /\ One(Producers(src, b)) => One(Producers(s, b))
              BY <1>1, <1>4, <1>6, <1>7, <6>3 DEF FromSource
            <7>2. ~MultiProducer(src, b)
              BY <4>2, <7>1 DEF WrittenAgain
            <7>3. ~One(Producers(src, b)) => MultiProducer(src, b)
              BY WritersCounted
            <7> QED
              BY <7>1, <7>2, <7>3
          <6> QED
            BY <6>1, <6>2, <6>3
        <5> QED
          BY <1>6, <3>2, <5>1 DEF One
      <4>3. s.level[n] \in Int
        BY <1>1 DEF ScheduleTypeOK, NoLevel
      <4>4. n \in Nodes(s) /\ t.level[n] = s.level[n]
        BY <1>4
      <4> QED
        BY <2>5, <4>1, <4>2, <4>3, <4>4
    <3> QED
      BY <3>3, <3>4
  <2> QED
    BY <2>1, <2>3, <2>4, <2>5
<1> QED
  BY <1>1, <1>4, <1>10, <1>11, <1>12, <1>14, <1>15, <1>16, <1>17 DEF Balancing, Base

\* Deepening a BufferOp changes its depth and the taps of its far readers, nothing else.
Deepened(s, t, b, n) ==
    /\ ScheduleTypeOK(t) /\ SameFlags(s, t)
    /\ t.order = s.order /\ t.level = s.level /\ t.outs = s.outs
    /\ t.isArg = s.isArg /\ t.ext = s.ext
    /\ Nodes(t) = Nodes(s) /\ Buffers(t) = Buffers(s)
    /\ \A x : Producers(t, x) = Producers(s, x) /\ Consumers(t, x) = Consumers(s, x)
    /\ \A x \in Buffers(s) : t.depth[x] = IF x = b THEN MaxDiff(s, b, n) ELSE s.depth[x]
    /\ \A c \in Nodes(s) : /\ DOMAIN t.ins[c] = DOMAIN s.ins[c]
                           /\ \A x \in DOMAIN s.ins[c] :
                                 t.ins[c][x] = IF x = b /\ c \in FarConsumers(s, b, n)
                                               THEN Diff(s, n, c) - 1 ELSE s.ins[c][x]

\* DeepenBuffer deepens b to the largest level difference and taps its far consumers.
LEMMA DeepenBufferIs ==
    ASSUME NEW s, ScheduleTypeOK(s), NEW n \in Nodes(s), Leveled(s, n), NEW b \in s.outs[n],
           FarConsumers(s, b, n) # {}
    PROVE  Deepened(s, DeepenBuffer(s, b, n), b, n)
<1> DEFINE F == FarConsumers(s, b, n)
           D == MaxDiff(s, b, n)
           ins(c) == IF c \in F THEN [s.ins[c] EXCEPT ![b] = Diff(s, n, c) - 1] ELSE s.ins[c]
           t == DeepenBuffer(s, b, n)
           N == Nodes(s)
           B == Buffers(s)
<1>1. IsMaxDiff(s, b, n, D)
  BY MaxDiffIs
<1>2. D \in Nat \ {0} /\ \A c \in F : Diff(s, n, c) - 1 \in Nat
  <2>1. D \in Nat /\ D > 1 /\ \A c \in F : Diff(s, n, c) \in Nat /\ Diff(s, n, c) > 1
    BY <1>1 DEF IsMaxDiff
  <2> HIDE DEF D, F
  <2> QED
    BY <2>1
<1>3. IsSchedule(s) /\ TypeOver(s, N, B)
  BY TypeOfSchedule
<1>4. \A c \in F : b \in DOMAIN s.ins[c]
  BY DEF FarConsumers, DependentConsumers, Consumers
<1>5. b \in B
  BY <1>3 DEF TypeOver
<1>6. /\ t.order = s.order /\ t.level = s.level /\ t.outs = s.outs /\ t.body = s.body
      /\ t.isArg = s.isArg /\ t.ext = s.ext /\ SameFlags(s, t) /\ IsSchedule(t)
      /\ t.depth = [s.depth EXCEPT ![b] = D]
      /\ t.ins = [c \in DOMAIN s.ins |-> ins(c)]
  <2> DEFINE depth == [s.depth EXCEPT ![b] = D]
             taps  == [c \in DOMAIN s.ins |-> ins(c)]
  <2>1. t = [s EXCEPT !.depth = depth, !.ins = taps]
    BY DEF DeepenBuffer
  <2> HIDE DEF t, depth, taps
  <2>2. /\ t.order = s.order /\ t.level = s.level /\ t.outs = s.outs /\ t.body = s.body
        /\ t.isArg = s.isArg /\ t.ext = s.ext /\ SameFlags(s, t) /\ IsSchedule(t)
        /\ t.depth = depth /\ t.ins = taps
    BY <1>3, <2>1 DEF SameFlags, IsSchedule
  <2> QED
    BY <2>2 DEF depth, taps
<1> HIDE DEF t, D, F
<1>7. \A c \in N : /\ t.ins[c] = ins(c) /\ DOMAIN t.ins[c] = DOMAIN s.ins[c]
                   /\ t.ins[c] \in [DOMAIN s.ins[c] -> Nat]
  <2> SUFFICES ASSUME NEW c \in N
               PROVE  /\ t.ins[c] = ins(c) /\ DOMAIN t.ins[c] = DOMAIN s.ins[c]
                      /\ t.ins[c] \in [DOMAIN s.ins[c] -> Nat]
    OBVIOUS
  <2>1. t.ins[c] = ins(c) /\ s.ins[c] \in [DOMAIN s.ins[c] -> Nat]
    BY <1>3, <1>6 DEF TypeOver
  <2>2. CASE c \in F
    BY <1>2, <2>1, <2>2
  <2>3. CASE c \notin F
    BY <2>1, <2>3
  <2> QED
    BY <2>2, <2>3
<1>8. TypeOver(t, N, B)
  <2>1. t.depth \in [B -> Nat \ {0}]
    BY <1>2, <1>3, <1>6 DEF TypeOver
  <2>2. /\ DOMAIN t.ins = N
        /\ \A c \in N : /\ DOMAIN t.ins[c] \subseteq B \ t.outs[c]
                        /\ t.ins[c] \in [DOMAIN t.ins[c] -> Nat]
    BY <1>3, <1>6, <1>7 DEF TypeOver
  <2> QED
    BY <1>3, <1>6, <2>1, <2>2 DEF TypeOver, SameFlags
<1>9. ScheduleTypeOK(t) /\ Nodes(t) = N /\ Buffers(t) = B
  BY <1>6, <1>8, ScheduleOfType
<1>10. \A x : Producers(t, x) = Producers(s, x) /\ Consumers(t, x) = Consumers(s, x)
  BY <1>6, <1>7, <1>9 DEF Producers, Consumers
<1>11. \A x \in B : t.depth[x] = IF x = b THEN D ELSE s.depth[x]
  BY <1>3, <1>6 DEF TypeOver
<1>12. \A c \in N : \A x \in DOMAIN s.ins[c] :
          t.ins[c][x] = IF x = b /\ c \in F THEN Diff(s, n, c) - 1 ELSE s.ins[c][x]
  BY <1>4, <1>7
<1>13. Deepened(s, t, b, n)
  BY <1>6, <1>7, <1>9, <1>10, <1>11, <1>12 DEF Deepened, D, F
<1> QED
  BY <1>13 DEF t

\* Deepening keeps what holds while the pass runs: the taps are level differences.
LEMMA DeepenKeepsBalancing ==
    ASSUME NEW src, NEW s, Balancing(src, s), NEW n \in Nodes(s), Leveled(s, n),
           NEW b \in s.outs[n], ~s.isArg[b], s.ext[b],
           NEW t, Deepened(s, t, b, n)
    PROVE  Balancing(src, t)
<1>1. /\ ScheduleTypeOK(s) /\ FromSource(src, s) /\ Ordered(src, s)
      /\ Buffers(src) \subseteq Buffers(s) /\ ~s.isLegal
      /\ OneProducer(s) /\ OneDependent(s) /\ TapsFit(s)
      /\ ~IgnoreViolations => WritesAlone(s) /\ Descending(src, s)
  BY DEF Balancing, Base
<1>2. /\ ScheduleTypeOK(t) /\ SameFlags(s, t)
      /\ t.order = s.order /\ t.level = s.level /\ t.outs = s.outs
      /\ t.isArg = s.isArg /\ t.ext = s.ext
      /\ Nodes(t) = Nodes(s) /\ Buffers(t) = Buffers(s)
      /\ \A x : Producers(t, x) = Producers(s, x) /\ Consumers(t, x) = Consumers(s, x)
  BY DEF Deepened
<1>3. \A x, m : DependentConsumers(t, x, m) = DependentConsumers(s, x, m)
  BY <1>2 DEF DependentConsumers, Before, SameFlags
<1>4. TapsFit(t)
  <2> SUFFICES ASSUME NEW c \in Nodes(t), NEW x \in DOMAIN t.ins[c] PROVE TapFits(t, c, x)
    BY DEF TapsFit
  <2>1. /\ x \in DOMAIN s.ins[c]
        /\ t.ins[c][x] = IF x = b /\ c \in FarConsumers(s, b, n)
                         THEN Diff(s, n, c) - 1 ELSE s.ins[c][x]
    BY <1>2 DEF Deepened
  <2>2. \A m : Leveled(t, m) = Leveled(s, m) /\ Diff(t, m, c) = Diff(s, m, c)
    BY <1>2 DEF Leveled, Diff
  <2>3. CASE x = b /\ c \in FarConsumers(s, b, n)
    <3>1. n \in Producers(t, b)
      BY <1>2 DEF Producers
    <3> QED
      BY <1>2, <2>1, <2>2, <2>3, <3>1 DEF TapFits
  <2>4. CASE ~(x = b /\ c \in FarConsumers(s, b, n))
    <3>1. TapFits(s, c, x) /\ t.ins[c][x] = s.ins[c][x]
      BY <1>1, <1>2, <2>1, <2>4 DEF TapsFit
    <3> QED
      BY <1>2, <2>2, <3>1 DEF TapFits
  <2> QED
    BY <2>3, <2>4
<1>5. FromSource(src, t) /\ Ordered(src, t)
  BY <1>1, <1>2 DEF FromSource, Ordered, WrittenBeforeRead, Before, SameFlags
<1>6. OneProducer(t) /\ OneDependent(t)
  BY <1>1, <1>2, <1>3 DEF OneProducer, OneDependent
<1>7. ~IgnoreViolations => WritesAlone(t) /\ Descending(src, t)
  BY <1>1, <1>2, <1>3 DEF WritesAlone, Descending, Leveled
<1> QED
  BY <1>1, <1>2, <1>4, <1>5, <1>6, <1>7 DEF Balancing, Base, SameFlags

\* Output b of n is balanced: what reads it far away is tapped within the depth of b.
OutputBalanced(s, b, n) ==
    ~NotBalanced(s, b) =>
        \A c \in FarConsumers(s, b, n) :
            /\ ~s.isArg[b] /\ s.ext[b]
            /\ s.ins[c][b] = Diff(s, n, c) - 1 /\ Diff(s, n, c) <= s.depth[b]

\* What balancing some outputs of n leaves of them, unless nodes were added.
OutputsBalanced(src, n, s, t, X) ==
    /\ Balancing(src, t) /\ Nodes(s) \subseteq Nodes(t)
    /\ n \in Nodes(t) /\ t.outs[n] = s.outs[n] /\ Leveled(t, n)
    /\ Nodes(t) = Nodes(s) => \A b \in X : OutputBalanced(t, b, n)

\* Balancing an output leaves it balanced, or adds a node; the others stay balanced.
LEMMA BalanceOutputIs ==
    ASSUME NEW src, ScheduleTypeOK(src), NEW s, NEW n \in Nodes(s), NEW t, NEW X \in SUBSET s.outs[n],
           OutputsBalanced(src, n, s, t, X), NEW b \in s.outs[n]
    PROVE  OutputsBalanced(src, n, s, BalanceOutput(t, b, n), X \cup {b})
<1> DEFINE u == BalanceOutput(t, b, n)
<1>1. /\ Balancing(src, t) /\ Nodes(s) \subseteq Nodes(t)
      /\ n \in Nodes(t) /\ t.outs[n] = s.outs[n] /\ Leveled(t, n) /\ b \in t.outs[n]
      /\ Nodes(t) = Nodes(s) => \A x \in X : OutputBalanced(t, x, n)
  BY DEF OutputsBalanced
<1>2. ScheduleTypeOK(t)
  BY <1>1 DEF Balancing, Base
<1>3. CASE NotBalanced(t, b) \/ FarConsumers(t, b, n) = {}
  <2>1. u = t
    BY <1>3 DEF BalanceOutput
  <2>2. OutputBalanced(t, b, n)
    BY <1>3 DEF OutputBalanced
  <2> QED
    BY <1>1, <2>1, <2>2 DEF OutputsBalanced
<1>4. CASE ~NotBalanced(t, b) /\ FarConsumers(t, b, n) # {} /\ ~t.isArg[b] /\ t.ext[b]
  <2>1. u = DeepenBuffer(t, b, n)
    BY <1>4 DEF BalanceOutput
  <2>2. Deepened(t, u, b, n)
    BY <1>1, <1>2, <1>4, <2>1, DeepenBufferIs
  <2> HIDE DEF u
  <2>3. Balancing(src, u)
    BY <1>1, <1>4, <2>2, DeepenKeepsBalancing
  <2>4. /\ SameFlags(t, u) /\ u.order = t.order /\ u.level = t.level /\ u.outs = t.outs
        /\ u.isArg = t.isArg /\ u.ext = t.ext
        /\ Nodes(u) = Nodes(t) /\ Buffers(u) = Buffers(t)
        /\ \A x : Consumers(u, x) = Consumers(t, x)
    BY <2>2 DEF Deepened
  <2>5. \A x : /\ FarConsumers(u, x, n) = FarConsumers(t, x, n)
               /\ NotBalanced(u, x) = NotBalanced(t, x)
    BY <2>4 DEF FarConsumers, DependentConsumers, Before, SameFlags, Diff, NotBalanced
  <2>6. \A x, c : c \in FarConsumers(t, x, n) => c \in Nodes(t) /\ x \in DOMAIN t.ins[c]
    BY DEF FarConsumers, DependentConsumers, Consumers
  <2>7. OutputBalanced(u, b, n)
    <3>1. IsMaxDiff(t, b, n, MaxDiff(t, b, n))
      BY <1>1, <1>2, <1>4, MaxDiffIs
    <3>2. \A c \in FarConsumers(t, b, n) : Diff(t, n, c) <= MaxDiff(t, b, n)
      BY <3>1 DEF IsMaxDiff
    <3>3. b \in Buffers(t)
      BY <1>1, <1>2 DEF ScheduleTypeOK
    <3>4. u.depth[b] = MaxDiff(t, b, n)
      BY <2>2, <3>3 DEF Deepened
    <3>5. \A c \in FarConsumers(t, b, n) : u.ins[c][b] = Diff(t, n, c) - 1
      BY <2>2, <2>6 DEF Deepened
    <3>6. \A c : Diff(u, n, c) = Diff(t, n, c)
      BY <2>4 DEF Diff
    <3> QED
      BY <1>4, <2>4, <2>5, <3>2, <3>4, <3>5, <3>6 DEF OutputBalanced
  <2>8. ASSUME NEW x \in X, x # b, OutputBalanced(t, x, n) PROVE OutputBalanced(u, x, n)
    <3>1. x \in Buffers(t)
      BY <1>1, <1>2 DEF ScheduleTypeOK
    <3>2. u.depth[x] = t.depth[x]
      BY <2>2, <2>8, <3>1 DEF Deepened
    <3>3. \A c \in FarConsumers(t, x, n) : u.ins[c][x] = t.ins[c][x]
      BY <2>2, <2>6, <2>8 DEF Deepened
    <3>4. \A c : Diff(u, n, c) = Diff(t, n, c)
      BY <2>4 DEF Diff
    <3> QED
      BY <2>4, <2>5, <2>8, <3>2, <3>3, <3>4 DEF OutputBalanced
  <2>9. Leveled(u, n)
    BY <1>1, <2>4 DEF Leveled
  <2>10. OutputsBalanced(src, n, s, u, X \cup {b})
    BY <1>1, <2>3, <2>4, <2>7, <2>8, <2>9 DEF OutputsBalanced
  <2> QED
    BY <2>10 DEF u
<1>5. CASE ~NotBalanced(t, b) /\ FarConsumers(t, b, n) # {} /\ ~(~t.isArg[b] /\ t.ext[b])
  <2>1. u = ChainCopies(t, b, n)
    BY <1>5 DEF BalanceOutput
  <2>2. Chained(t, u, b, n)
    BY <1>1, <1>2, <1>5, <2>1, ChainCopiesIs
  <2> HIDE DEF u
  <2>3. Balancing(src, u)
    BY <1>1, <1>5, <2>2, ChainKeepsBalancing
  <2>4. Nodes(t) \subseteq Nodes(u) /\ \E q \in Nodes(u) : q \notin Nodes(t)
    BY <2>2 DEF Chained, Grown
  <2>5. u.outs[n] = t.outs[n] /\ u.level[n] = t.level[n]
    BY <1>1, <2>2 DEF Chained, Grown
  <2>6. OutputsBalanced(src, n, s, u, X \cup {b})
    BY <1>1, <2>3, <2>4, <2>5 DEF OutputsBalanced, Leveled
  <2> QED
    BY <2>6 DEF u
<1> QED
  BY <1>3, <1>4, <1>5

\* The fold of Balanced: the context is src, n and the schedule before.
BalanceStep(src, n, s, t, b) == BalanceOutput(t, b, n)
BalanceInv(src, n, s, t, U)  == OutputsBalanced(src, n, s, t, U)
Balance == INSTANCE FoldLemmas WITH Step <- BalanceStep, Choice <- PickAny, Inv <- BalanceInv

\* Balancing a node, over all its outputs.
LEMMA BalancedIs ==
    ASSUME NEW src, ScheduleTypeOK(src), NEW s, Balancing(src, s), NEW n \in Nodes(s), Leveled(s, n)
    PROVE  OutputsBalanced(src, n, s, Balanced(s, n), s.outs[n])
<1> DEFINE S == s.outs[n]
<1>1. Balanced(s, n) = Balance!Fold(src, n, s, s, S)
  BY DEF Balanced, ForEachIn, FoldSet, MapThenFoldSet, Balance!Fold, PickAny, BalanceStep
<1>2. IsFiniteSet(S)
  <2>1. S \subseteq Buffers(s) /\ IsFiniteSet(Buffers(s))
    BY DEF Balancing, Base, ScheduleTypeOK
  <2> QED
    BY <2>1, FS_Subset
<1>3. Balance!Chooses(S)
  BY PickAnyPicks DEF Balance!Chooses
<1>4. PICK r : Balance!Measures(r, S)
  BY <1>2, MeasureExists DEF Balance!Measures
<1>5. BalanceInv(src, n, s, s, {})
  BY DEF BalanceInv, OutputsBalanced
<1>6. Balance!Keeps(src, n, s, S)
  <2> SUFFICES ASSUME NEW V \in SUBSET S, V # {},
                      NEW t, OutputsBalanced(src, n, s, t, V \ {PickAny(V)})
               PROVE  OutputsBalanced(src, n, s, BalanceOutput(t, PickAny(V), n), V)
    BY DEF Balance!Keeps, BalanceInv, BalanceStep
  <2>1. PickAny(V) \in V
    BY <1>3 DEF Balance!Chooses
  <2>2. OutputsBalanced(src, n, s, BalanceOutput(t, PickAny(V), n), (V \ {PickAny(V)}) \cup {PickAny(V)})
    BY <2>1, BalanceOutputIs
  <2>3. (V \ {PickAny(V)}) \cup {PickAny(V)} = V
    BY <2>1
  <2> QED
    BY <2>2, <2>3
<1>7. BalanceInv(src, n, s, Balance!Fold(src, n, s, s, S), S)
  BY <1>3, <1>4, <1>5, <1>6, Balance!FoldInduction
<1> QED
  BY <1>1, <1>7 DEF BalanceInv

\* EdgesBalanced, of any schedules.
Edges(src, s) ==
    \A n \in Nodes(s) : Leveled(s, n) =>
        \A b \in s.outs[n] : ~NotBalanced(s, b) /\ ~WrittenAgain(src, b) =>
            \A c \in DependentConsumers(s, b, n) :
                IF ~s.isArg[b] /\ s.ext[b]
                THEN s.ins[c][b] = Diff(s, n, c) - 1 /\ s.ins[c][b] < s.depth[b]
                ELSE Diff(s, n, c) = 1

\* Where balancing has nothing left to do, the edges are balanced.
LEMMA FixpointBalanced ==
    ASSUME NEW src, ScheduleTypeOK(src), NEW s, Balancing(src, s), ~IgnoreViolations,
           \A n \in Nodes(s) : Leveled(s, n) => Balanced(s, n) = s
    PROVE  Edges(src, s)
<1> SUFFICES ASSUME NEW n \in Nodes(s), Leveled(s, n), NEW b \in s.outs[n],
                    ~NotBalanced(s, b), ~WrittenAgain(src, b),
                    NEW c \in DependentConsumers(s, b, n)
             PROVE  IF ~s.isArg[b] /\ s.ext[b]
                    THEN s.ins[c][b] = Diff(s, n, c) - 1 /\ s.ins[c][b] < s.depth[b]
                    ELSE Diff(s, n, c) = 1
  BY DEF Edges
<1>1. OutputBalanced(s, b, n)
  <2>1. OutputsBalanced(src, n, s, s, s.outs[n])
    BY BalancedIs
  <2> QED
    BY <2>1 DEF OutputsBalanced
<1>2. /\ ScheduleTypeOK(s) /\ OneProducer(s) /\ TapsFit(s) /\ Descending(src, s)
  BY DEF Balancing, Base
<1>3. Leveled(s, c) /\ s.level[c] < s.level[n] /\ c \in Nodes(s) /\ b \in DOMAIN s.ins[c]
  BY <1>2 DEF Descending, DependentConsumers, Consumers
<1>4. s.level[c] \in Int /\ s.level[n] \in Int /\ b \in Buffers(s)
  BY <1>2, <1>3 DEF ScheduleTypeOK, NoLevel
<1>5. Diff(s, n, c) \in Nat /\ Diff(s, n, c) >= 1
  BY <1>3, <1>4 DEF Diff
<1>6. s.depth[b] \in Nat \ {0}
  BY <1>2, <1>4 DEF ScheduleTypeOK
<1> HIDE DEF Diff
<1>7. CASE Diff(s, n, c) > 1
  <2>1. c \in FarConsumers(s, b, n)
    BY <1>7 DEF FarConsumers
  <2>2. ~s.isArg[b] /\ s.ext[b] /\ s.ins[c][b] = Diff(s, n, c) - 1 /\ Diff(s, n, c) <= s.depth[b]
    BY <1>1, <2>1 DEF OutputBalanced
  <2>3. s.ins[c][b] < s.depth[b]
    BY <1>5, <1>6, <2>2
  <2> QED
    BY <2>2, <2>3
<1>8. CASE Diff(s, n, c) = 1
  <2>1. ASSUME ~s.isArg[b] PROVE s.ins[c][b] = 0
    <3>1. TapFits(s, c, b)
      BY <1>2, <1>3 DEF TapsFit
    <3>2. \A m \in Producers(s, b) : m = n
      <4>1. n \in Producers(s, b)
        BY DEF Producers
      <4> QED
        BY <1>2, <1>4, <2>1, <4>1 DEF OneProducer, One
    <3> QED
      BY <1>8, <3>1, <3>2 DEF TapFits
  <2> QED
    BY <1>6, <1>8, <2>1
<1> QED
  BY <1>5, <1>7, <1>8

-----------------------------------------------------------------------------
(* From pass to pass, up to the levels *)

\* Buffers with several producers are gone once BufferMultiProducer has nothing to do.
LEMMA SplitIsDone ==
    ASSUME NEW src, NEW s, Early(src, s), SplittableBuffers(s) = {}
    PROVE  Forking(src, s)
<1>1. ScheduleTypeOK(s)
  BY DEF Early, Base
<1>2. \A b \in Buffers(s) : ~s.isArg[b] => One(Producers(s, b))
  BY <1>1, WritersCounted DEF SplittableBuffers
<1> QED
  BY <1>2 DEF Forking, OneProducer

\* While ScheduleDataflowNode runs.
Scheduling(src, s) ==
    /\ Base(src, s) /\ Ordered(src, s) /\ Buffers(src) \subseteq Buffers(s)
    /\ FirstTaps(s) /\ ~s.isLegal /\ OneProducer(s) /\ OneDependent(s) /\ Settled(s)

\* So are outputs with several dependent consumers after EliminateMultiConsumer.
LEMMA ForkIsDone ==
    ASSUME NEW src, NEW s, Forking(src, s), \A n \in Nodes(s) : ForkedOutputs(s, n) = {}
    PROVE  Scheduling(src, s)
<1>1. ScheduleTypeOK(s) /\ NoLevels(s)
  BY DEF Forking, Early, Base
<1>2. ASSUME NEW n \in Nodes(s), NEW b \in s.outs[n], ~s.ext[b]
      PROVE  One(DependentConsumers(s, b, n))
  <2>1. IsFiniteSet(DependentConsumers(s, b, n))
    <3>1. DependentConsumers(s, b, n) \subseteq Consumers(s, b) /\ IsFiniteSet(Consumers(s, b))
      BY <1>1, ReadOrWrite DEF DependentConsumers
    <3> QED
      BY <3>1, FS_Subset
  <2>2. ~(Cardinality(DependentConsumers(s, b, n)) > 1)
    BY <1>2 DEF ForkedOutputs
  <2> QED
    BY <2>1, <2>2, OneIs
<1>3. OneDependent(s)
  BY <1>2 DEF OneDependent
<1>4. Settled(s)
  BY <1>1 DEF Settled, NoLevels
<1> QED
  BY <1>3, <1>4 DEF Forking, Early, Scheduling

\* Levels are all that scheduling changes.
LEMMA LevelKeepsScheduling ==
    ASSUME NEW src, NEW s, Scheduling(src, s),
           NEW t, ScheduleTypeOK(t), Settled(t), SameButLevels(s, t)
    PROVE  Scheduling(src, t)
<1>1. /\ t.order = s.order /\ t.ins = s.ins /\ t.outs = s.outs
      /\ t.isArg = s.isArg /\ t.ext = s.ext
      /\ t.depFree = s.depFree /\ t.isLegal = s.isLegal
      /\ Nodes(t) = Nodes(s) /\ Buffers(t) = Buffers(s)
  BY DEF SameButLevels, Nodes, Buffers
<1>2. \A x : Producers(t, x) = Producers(s, x) /\ Consumers(t, x) = Consumers(s, x)
  BY <1>1 DEF Producers, Consumers
<1>3. \A x, m : DependentConsumers(t, x, m) = DependentConsumers(s, x, m)
  BY <1>1, <1>2 DEF DependentConsumers, Before
<1>4. FromSource(src, t) /\ Ordered(src, t)
  BY <1>1, <1>2 DEF Scheduling, Base, FromSource, Ordered, WrittenBeforeRead, Before
<1>5. FirstTaps(t) /\ OneProducer(t) /\ OneDependent(t)
  BY <1>1, <1>2, <1>3 DEF Scheduling, FirstTaps, OneProducer, OneDependent
<1> QED
  BY <1>1, <1>4, <1>5 DEF Scheduling, Base

\* Levels that have settled descend along the dependences: what ScheduleDataflowNode leaves
\* is what BalanceDataflowNode starts from, where violations are not ignored.
LEMMA ScheduleIsDone ==
    ASSUME NEW src, NEW s, Scheduling(src, s)
    PROVE  Balancing(src, s)
<1>1. ScheduleTypeOK(s) /\ Settled(s) /\ FirstTaps(s)
  BY DEF Scheduling, Base
<1>2. TapsFit(s)
  BY <1>1 DEF TapsFit, TapFits, FirstTaps
<1>3. ASSUME ~IgnoreViolations PROVE WritesAlone(s)
  <2> SUFFICES ASSUME NEW n \in Nodes(s), Leveled(s, n), NEW b \in s.outs[n], ~s.ext[b]
               PROVE  One(Producers(s, b))
    BY DEF WritesAlone
  <2>1. ~HasViolation(s, n)
    BY <1>1, <1>3 DEF Settled
  <2>2. ~MultiProducer(s, b)
    BY <2>1 DEF HasViolation, MultiProducer
  <2> QED
    BY <1>1, <2>2, WritersCounted
<1>4. Descending(src, s)
  <2> SUFFICES ASSUME NEW n \in Nodes(s), Leveled(s, n), NEW b \in s.outs[n],
                      NEW c \in DependentConsumers(s, b, n)
               PROVE  Leveled(s, c) /\ s.level[c] < s.level[n]
    BY DEF Descending
  <2>1. c \in Dependents(s, n)
    BY DEF Dependents
  <2> QED
    BY <1>1, <2>1, SettledIsAbove
<1> QED
  BY <1>2, <1>3, <1>4 DEF Scheduling, Balancing

-----------------------------------------------------------------------------
(* After the levels: nodes lose ports, buffers go *)

\* While the canonicalizer runs on a schedule with levels, after balancing or without (bal).
Cleaning(src, bal, s) ==
    /\ Base(src, s) /\ Ordered(src, s) /\ ~s.isLegal /\ OneProducer(s) /\ OneDependent(s)
    /\ ~IgnoreViolations => WritesAlone(s) /\ (bal => Descending(src, s) /\ Edges(src, s))

\* t is s with less of everything but nodes.
Trimmed(s, t) ==
    /\ ScheduleTypeOK(t) /\ t.depFree = s.depFree /\ (t.isLegal => s.isLegal)
    /\ t.order = s.order /\ t.level = s.level /\ Nodes(t) = Nodes(s)
    /\ Buffers(t) \subseteq Buffers(s)
    /\ \A b \in Buffers(t) : t.isArg[b] = s.isArg[b] /\ t.ext[b] = s.ext[b] /\ t.depth[b] = s.depth[b]
    /\ \A n \in Nodes(s) : /\ t.outs[n] \subseteq s.outs[n]
                           /\ DOMAIN t.ins[n] \subseteq DOMAIN s.ins[n]
                           /\ \A b \in DOMAIN t.ins[n] : t.ins[n][b] = s.ins[n][b]

\* Fewer ports and buffers keep what the canonicalizer needs.
LEMMA TrimmedKeepsCleaning ==
    ASSUME NEW src, NEW bal, NEW s, Cleaning(src, bal, s), NEW t, Trimmed(s, t)
    PROVE  Cleaning(src, bal, t)
<1>1. /\ ScheduleTypeOK(s) /\ FromSource(src, s) /\ Ordered(src, s) /\ ~s.isLegal
      /\ OneProducer(s) /\ OneDependent(s)
      /\ ~IgnoreViolations => WritesAlone(s) /\ (bal => Descending(src, s) /\ Edges(src, s))
  BY DEF Cleaning, Base
<1>2. /\ ScheduleTypeOK(t) /\ t.depFree = s.depFree /\ ~t.isLegal
      /\ t.order = s.order /\ t.level = s.level /\ Nodes(t) = Nodes(s)
      /\ Buffers(t) \subseteq Buffers(s)
      /\ \A b \in Buffers(t) : t.isArg[b] = s.isArg[b] /\ t.ext[b] = s.ext[b] /\ t.depth[b] = s.depth[b]
      /\ \A n \in Nodes(s) : /\ t.outs[n] \subseteq s.outs[n]
                             /\ DOMAIN t.ins[n] \subseteq DOMAIN s.ins[n]
                             /\ \A b \in DOMAIN t.ins[n] : t.ins[n][b] = s.ins[n][b]
  BY <1>1 DEF Trimmed
<1>3. \A b : Producers(t, b) \subseteq Producers(s, b) /\ Consumers(t, b) \subseteq Consumers(s, b)
  BY <1>2 DEF Producers, Consumers
<1>4. \A b \in Buffers(t) : \A n : DependentConsumers(t, b, n) \subseteq DependentConsumers(s, b, n)
  BY <1>2, <1>3 DEF DependentConsumers, Before
<1>5. \A n \in Nodes(t) : \A b \in t.outs[n] : b \in Buffers(t) /\ b \in s.outs[n]
  BY <1>2 DEF ScheduleTypeOK
<1>6. ArgsKept(s, t) /\ OrderKeptIn(s, t)
  BY <1>2, <1>3 DEF ArgsKept, OrderKeptIn, One, Before
<1>7. FromSource(src, t) /\ Ordered(src, t)
  BY <1>1, <1>2, <1>6, FromSourceKept, OrderedKept
<1>8. OneProducer(t)
  BY <1>1, <1>2, <1>3 DEF OneProducer, One
<1>9. OneDependent(t)
  <2> SUFFICES ASSUME NEW n \in Nodes(t), NEW b \in t.outs[n], ~t.ext[b]
               PROVE  One(DependentConsumers(t, b, n))
    BY DEF OneDependent
  <2>1. One(DependentConsumers(s, b, n))
    BY <1>1, <1>2, <1>5 DEF OneDependent
  <2> QED
    BY <1>4, <1>5, <2>1 DEF One
<1>10. ASSUME WritesAlone(s) PROVE WritesAlone(t)
  <2> SUFFICES ASSUME NEW n \in Nodes(t), Leveled(t, n), NEW b \in t.outs[n], ~t.ext[b]
               PROVE  One(Producers(t, b))
    BY DEF WritesAlone
  <2>1. One(Producers(s, b))
    BY <1>2, <1>5, <1>10 DEF WritesAlone, Leveled
  <2> QED
    BY <1>3, <2>1 DEF One
<1>11. ASSUME Descending(src, s) PROVE Descending(src, t)
  <2> SUFFICES ASSUME NEW n \in Nodes(t), Leveled(t, n), NEW b \in t.outs[n],
                      NEW c \in DependentConsumers(t, b, n)
               PROVE  Leveled(t, c) /\ (~WrittenAgain(src, b) => t.level[c] < t.level[n])
    BY DEF Descending
  <2>1. c \in DependentConsumers(s, b, n) /\ b \in s.outs[n] /\ n \in Nodes(s) /\ Leveled(s, n)
    BY <1>2, <1>4, <1>5 DEF Leveled
  <2> QED
    BY <1>2, <1>11, <2>1 DEF Descending, Leveled
<1>12. ASSUME Edges(src, s) PROVE Edges(src, t)
  <2> SUFFICES ASSUME NEW n \in Nodes(t), Leveled(t, n), NEW b \in t.outs[n],
                      ~NotBalanced(t, b), ~WrittenAgain(src, b),
                      NEW c \in DependentConsumers(t, b, n)
               PROVE  IF ~t.isArg[b] /\ t.ext[b]
                      THEN t.ins[c][b] = Diff(t, n, c) - 1 /\ t.ins[c][b] < t.depth[b]
                      ELSE Diff(t, n, c) = 1
    BY DEF Edges
  <2>1. /\ c \in DependentConsumers(s, b, n) /\ b \in s.outs[n] /\ n \in Nodes(s) /\ Leveled(s, n)
        /\ b \in Buffers(t) /\ c \in Nodes(s) /\ b \in DOMAIN t.ins[c]
    BY <1>2, <1>4, <1>5 DEF Leveled, DependentConsumers, Consumers
  <2>2. ~NotBalanced(s, b) /\ Diff(t, n, c) = Diff(s, n, c) /\ t.ins[c][b] = s.ins[c][b]
    BY <1>2, <2>1 DEF NotBalanced, Diff
  <2>3. IF ~s.isArg[b] /\ s.ext[b]
        THEN s.ins[c][b] = Diff(s, n, c) - 1 /\ s.ins[c][b] < s.depth[b]
        ELSE Diff(s, n, c) = 1
    BY <1>12, <2>1, <2>2 DEF Edges
  <2> QED
    BY <1>2, <2>1, <2>2, <2>3
<1> QED
  BY <1>1, <1>2, <1>7, <1>8, <1>9, <1>10, <1>11, <1>12 DEF Cleaning, Base

\* The canonicalizer starts from balanced edges, or from a schedule nobody balanced.
LEMMA BalanceIsDone ==
    ASSUME NEW src, NEW bal, NEW s, Balancing(src, s),
           bal /\ ~IgnoreViolations => Edges(src, s)
    PROVE  Cleaning(src, bal, s)
BY DEF Balancing, Cleaning

\* The patterns of the canonicalizer and of SimplifyAffineIf trim.
LEMMA SimplifyNodeIOsTrims ==
    ASSUME ScheduleTypeOK(ir), NEW n \in Nodes(ir), SimplifyNodeIOs(n)
    PROVE  Trimmed(ir, ir')
<1> DEFINE ins  == Restrict(ir.ins[n], UsedIns(ir, n))
           outs == UsedOuts(ir, n)
<1>1. IsSchedule(ir) /\ TypeOver(ir, Nodes(ir), Buffers(ir))
  BY TypeOfSchedule
<1>2. /\ outs \subseteq ir.outs[n] /\ DOMAIN ins \subseteq DOMAIN ir.ins[n]
      /\ \A x \in DOMAIN ins : ins[x] = ir.ins[n][x]
  BY DEF UsedIns, UsedOuts, Restrict
<1>3. /\ outs \in SUBSET Buffers(ir) /\ DOMAIN ins \subseteq Buffers(ir) \ outs
      /\ ins \in [DOMAIN ins -> Nat]
  <2>1. /\ ir.outs[n] \subseteq Buffers(ir) /\ DOMAIN ir.ins[n] \subseteq Buffers(ir) \ ir.outs[n]
        /\ ir.ins[n] \in [DOMAIN ir.ins[n] -> Nat]
    BY <1>1 DEF TypeOver
  <2>2. ins = [x \in DOMAIN ins |-> ins[x]]
    BY DEF Restrict
  <2> HIDE DEF ins, outs
  <2>3. \A x \in DOMAIN ins : ins[x] \in Nat
    BY <1>2, <2>1
  <2> QED
    BY <1>2, <2>1, <2>2, <2>3
<1>4. ir' = [ir EXCEPT !.ins[n] = ins, !.outs[n] = outs]
  BY DEF SimplifyNodeIOs
<1> HIDE DEF ins, outs
<1>5. Edited(ir, ir', n, ins, outs)
  BY <1>1, <1>4 DEF Edited, IsSchedule, SameFlags, SameBuffers
<1>6. NodeEdited(ir, ir', n, ins, outs)
  BY <1>3, <1>5, EditedIs
<1> QED
  BY <1>2, <1>6 DEF NodeEdited, Trimmed, SameFlags, SameBuffers

\* SinkInternalBuffer takes a buffer away with its uses.
LEMMA SinkTrims ==
    ASSUME ScheduleTypeOK(ir), NEW b, SinkInternalBuffer(b)
    PROVE  Trimmed(ir, ir')
<1> DEFINE N == Nodes(ir)
           ins  == [n \in N |-> Restrict(ir.ins[n], DOMAIN ir.ins[n] \ {b})]
           outs == [n \in N |-> ir.outs[n] \ {b}]
<1>1. IsSchedule(ir) /\ TypeOver(ir, N, Buffers(ir))
  BY TypeOfSchedule
<1>2. \A n \in N : /\ outs[n] \subseteq ir.outs[n] /\ DOMAIN ins[n] \subseteq DOMAIN ir.ins[n]
                   /\ \A x \in DOMAIN ins[n] : ins[n][x] = ir.ins[n][x]
                   /\ ins[n] = [x \in DOMAIN ins[n] |-> ins[n][x]]
  BY DEF Restrict
<1>3. ir' = [ir EXCEPT !.ins = ins, !.outs = outs]
  <2>1. DOMAIN ir.outs = N
    BY DEF Nodes
  <2> QED
    BY <2>1 DEF SinkInternalBuffer
<1>4. DOMAIN ins = N /\ outs = [n \in N |-> outs[n]]
  OBVIOUS
<1> HIDE DEF ins, outs
<1>5. /\ IsSchedule(ir') /\ SameFlags(ir, ir') /\ SameBuffers(ir, ir')
      /\ ir'.order = ir.order /\ ir'.level = ir.level /\ ir'.body = ir.body
      /\ ir'.ins = ins /\ ir'.outs = outs
  BY <1>1, <1>3 DEF IsSchedule, SameFlags, SameBuffers
<1>6. TypeOver(ir', N, Buffers(ir))
  <2>1. /\ Orders(ir.order, N) /\ Buffers(ir) \subseteq Nat /\ IsFiniteSet(Buffers(ir))
        /\ ir.outs \in [N -> SUBSET Buffers(ir)] /\ DOMAIN ir.body = N
        /\ \A n \in N : /\ DOMAIN ir.ins[n] \subseteq Buffers(ir) \ ir.outs[n]
                        /\ ir.ins[n] \in [DOMAIN ir.ins[n] -> Nat]
        /\ ir.level \in [N -> Nat \cup {NoLevel}]
        /\ ir.isArg \in [Buffers(ir) -> BOOLEAN] /\ ir.ext \in [Buffers(ir) -> BOOLEAN]
        /\ ir.depth \in [Buffers(ir) -> Nat \ {0}]
        /\ ir.depFree \in BOOLEAN /\ ir.isLegal \in BOOLEAN
    BY <1>1 DEF TypeOver
  <2>2. outs \in [N -> SUBSET Buffers(ir)]
    BY <1>2, <1>4, <2>1
  <2>3. \A n \in N : /\ DOMAIN ins[n] \subseteq Buffers(ir) \ outs[n]
                     /\ ins[n] \in [DOMAIN ins[n] -> Nat]
    <3> SUFFICES ASSUME NEW n \in N
                 PROVE  /\ DOMAIN ins[n] \subseteq Buffers(ir) \ outs[n]
                        /\ ins[n] \in [DOMAIN ins[n] -> Nat]
      OBVIOUS
    <3>1. /\ DOMAIN ins[n] \subseteq DOMAIN ir.ins[n] /\ outs[n] \subseteq ir.outs[n]
          /\ \A x \in DOMAIN ins[n] : ins[n][x] = ir.ins[n][x]
          /\ ins[n] = [x \in DOMAIN ins[n] |-> ins[n][x]]
      BY <1>2
    <3>2. DOMAIN ir.ins[n] \subseteq Buffers(ir) \ ir.outs[n]
      BY <2>1
    <3>3. ir.ins[n] \in [DOMAIN ir.ins[n] -> Nat]
      BY <2>1
    <3>4. ASSUME NEW x \in DOMAIN ins[n] PROVE ins[n][x] \in Nat
      BY <3>1, <3>3
    <3> QED
      BY <3>1, <3>2, <3>4
  <2> QED
    BY <1>4, <1>5, <2>1, <2>2, <2>3 DEF TypeOver, SameBuffers, SameFlags
<1>7. ScheduleTypeOK(ir') /\ Nodes(ir') = N /\ Buffers(ir') = Buffers(ir)
  BY <1>5, <1>6, ScheduleOfType
<1> QED
  BY <1>2, <1>5, <1>7 DEF Trimmed, SameFlags, SameBuffers

\* SimplifyScheduleOperands takes arguments away that nobody uses.
LEMMA SimplifyOperandsTrims ==
    ASSUME ScheduleTypeOK(ir), SimplifyScheduleOperands
    PROVE  Trimmed(ir, ir')
<1> DEFINE N == Nodes(ir)
           B == Buffers(ir) \ UnusedArgs(ir)
           isArg == Restrict(ir.isArg, B)
           ext   == Restrict(ir.ext, B)
           depth == Restrict(ir.depth, B)
<1>1. IsSchedule(ir) /\ TypeOver(ir, N, Buffers(ir))
  BY TypeOfSchedule
<1>2. ir' = [ir EXCEPT !.isArg = isArg, !.ext = ext, !.depth = depth, !.isLegal = FALSE]
  <2>1. DOMAIN ir.ext = Buffers(ir) /\ DOMAIN ir.depth = Buffers(ir) /\ DOMAIN ir.isArg = Buffers(ir)
    BY <1>1 DEF TypeOver
  <2> QED
    BY <2>1 DEF SimplifyScheduleOperands
<1>3. /\ isArg = [x \in B |-> ir.isArg[x]] /\ ext = [x \in B |-> ir.ext[x]]
      /\ depth = [x \in B |-> ir.depth[x]]
  BY DEF Restrict
<1> HIDE DEF isArg, ext, depth
<1>4. /\ IsSchedule(ir') /\ ir'.depFree = ir.depFree /\ ir'.isLegal = FALSE
      /\ ir'.order = ir.order /\ ir'.level = ir.level /\ ir'.body = ir.body
      /\ ir'.ins = ir.ins /\ ir'.outs = ir.outs
      /\ ir'.isArg = isArg /\ ir'.ext = ext /\ ir'.depth = depth
  BY <1>1, <1>2 DEF IsSchedule
<1>5. \A n \in N : ir.outs[n] \subseteq B /\ DOMAIN ir.ins[n] \subseteq B
  <2> SUFFICES ASSUME NEW n \in N, NEW x, x \in ir.outs[n] \/ x \in DOMAIN ir.ins[n]
               PROVE  x \in B
    OBVIOUS
  <2>1. x \in Buffers(ir)
    BY <1>1 DEF TypeOver
  <2>2. n \in Users(ir, x)
    BY DEF Users, Producers, Consumers
  <2> QED
    BY <2>1, <2>2 DEF UnusedArgs
<1>6. TypeOver(ir', N, B)
  <2>1. /\ Orders(ir.order, N) /\ Buffers(ir) \subseteq Nat /\ IsFiniteSet(Buffers(ir))
        /\ ir.outs \in [N -> SUBSET Buffers(ir)] /\ DOMAIN ir.body = N /\ DOMAIN ir.ins = N
        /\ \A n \in N : /\ DOMAIN ir.ins[n] \subseteq Buffers(ir) \ ir.outs[n]
                        /\ ir.ins[n] \in [DOMAIN ir.ins[n] -> Nat]
        /\ ir.level \in [N -> Nat \cup {NoLevel}]
        /\ ir.isArg \in [Buffers(ir) -> BOOLEAN] /\ ir.ext \in [Buffers(ir) -> BOOLEAN]
        /\ ir.depth \in [Buffers(ir) -> Nat \ {0}]
        /\ ir.depFree \in BOOLEAN
    BY <1>1 DEF TypeOver
  <2>2. B \subseteq Nat /\ IsFiniteSet(B)
    BY <2>1, FS_Subset
  <2>3. isArg \in [B -> BOOLEAN] /\ ext \in [B -> BOOLEAN] /\ depth \in [B -> Nat \ {0}]
    BY <1>3, <2>1
  <2>4. ir.outs \in [N -> SUBSET B]
    BY <1>5, <2>1
  <2>5. \A n \in N : /\ DOMAIN ir.ins[n] \subseteq B \ ir.outs[n]
                     /\ ir.ins[n] \in [DOMAIN ir.ins[n] -> Nat]
    BY <1>5, <2>1
  <2> HIDE DEF B
  <2> QED
    BY <1>4, <2>1, <2>2, <2>3, <2>4, <2>5 DEF TypeOver
<1>7. ScheduleTypeOK(ir') /\ Nodes(ir') = N /\ Buffers(ir') = B
  BY <1>4, <1>6, ScheduleOfType
<1> QED
  BY <1>3, <1>4, <1>7 DEF Trimmed

\* RemoveRedundantIf changes a body.
LEMMA RemoveIfTrims ==
    ASSUME ScheduleTypeOK(ir), NEW n \in Nodes(ir), RemoveRedundantIf(n)
    PROVE  Trimmed(ir, ir')
<1> DEFINE body == [ir.body EXCEPT ![n] =
                       [i \in DOMAIN ir.body[n] |-> WithoutDead(ir.body[n][i])]]
<1>1. IsSchedule(ir) /\ TypeOver(ir, Nodes(ir), Buffers(ir))
  BY TypeOfSchedule
<1>2. ir' = [ir EXCEPT !.body = body] /\ DOMAIN body = DOMAIN ir.body
  BY DEF RemoveRedundantIf
<1> HIDE DEF body
<1>3. /\ IsSchedule(ir') /\ SameFlags(ir, ir') /\ SameBuffers(ir, ir')
      /\ ir'.order = ir.order /\ ir'.level = ir.level /\ ir'.body = body
      /\ ir'.ins = ir.ins /\ ir'.outs = ir.outs
  BY <1>1, <1>2 DEF IsSchedule, SameFlags, SameBuffers
<1>4. TypeOver(ir', Nodes(ir), Buffers(ir))
  BY <1>1, <1>2, <1>3 DEF TypeOver, SameFlags, SameBuffers
<1>5. ScheduleTypeOK(ir') /\ Nodes(ir') = Nodes(ir) /\ Buffers(ir') = Buffers(ir)
  BY <1>3, <1>4, ScheduleOfType
<1> QED
  BY <1>3, <1>5 DEF Trimmed, SameFlags, SameBuffers

-----------------------------------------------------------------------------
(* From LegalizeDataflow on: nodes are fused *)

\* The dependences through arguments do not hang on the block order.
Kept(src) == src.depFree => WrittenBeforeRead(src)

OneConsumer(s) == \A n \in Nodes(s) : \A b \in s.outs[n] : ~s.ext[b] => One(Consumers(s, b))

DescendingAll(src, s) ==
    \A n \in Nodes(s) : Leveled(s, n) =>
        \A b \in s.outs[n] : \A c \in Consumers(s, b) :
            Leveled(s, c) /\ (~WrittenAgain(src, b) => s.level[c] < s.level[n])

Legalizing(src, bal, s) ==
    /\ Base(src, s) /\ OneProducer(s) /\ (Kept(src) => OneConsumer(s))
    /\ s.isLegal => AllLeveled(s)
    /\ ~IgnoreViolations => /\ WritesAlone(s)
                            /\ bal => Edges(src, s) /\ (Kept(src) => DescendingAll(src, s))

\* When arguments are written before they are read, all consumers are dependent.
LEMMA KeptDependents ==
    ASSUME NEW src, NEW s, Base(src, s), Ordered(src, s), Kept(src),
           NEW n \in Nodes(s), NEW b \in s.outs[n]
    PROVE  DependentConsumers(s, b, n) = Consumers(s, b)
<1>1. ScheduleTypeOK(s) /\ s.depFree = src.depFree
  BY DEF Base, FromSource
<1>2. n \in Producers(s, b) /\ b \in Buffers(s) /\ n \notin Consumers(s, b)
  BY <1>1, ReadOrWrite DEF Producers, ScheduleTypeOK
<1>3. s.isArg[b] /\ s.depFree => \A c \in Consumers(s, b) : Before(s, n, c)
  BY <1>1, <1>2 DEF Ordered, Kept, WrittenBeforeRead
<1> QED
  BY <1>2, <1>3 DEF DependentConsumers

\* LegalizeDataflow starts from what the canonicalizer leaves.
LEMMA CleanIsDone ==
    ASSUME NEW src, NEW bal, NEW s, Cleaning(src, bal, s)
    PROVE  Legalizing(src, bal, s)
<1>1. /\ Base(src, s) /\ Ordered(src, s) /\ ~s.isLegal /\ OneProducer(s) /\ OneDependent(s)
      /\ ~IgnoreViolations => WritesAlone(s) /\ (bal => Descending(src, s) /\ Edges(src, s))
  BY DEF Cleaning
<1>2. Kept(src) => OneConsumer(s)
  BY <1>1, KeptDependents DEF OneDependent, OneConsumer
<1>3. Kept(src) /\ Descending(src, s) => DescendingAll(src, s)
  BY <1>1, KeptDependents DEF Descending, DescendingAll
<1> QED
  BY <1>1, <1>2, <1>3 DEF Legalizing

\* t does with fewer nodes what s does: image m of a node p takes part of its uses, and
\* its level if keep holds.
Condenses(s, t, keep, image) ==
    \A b \in Buffers(t) :
        /\ \A m \in Producers(t, b) : \E p \in Producers(s, b) :
              m = image[p] /\ (keep => t.level[m] = s.level[p])
        /\ \A m \in Consumers(t, b) : \E c \in Consumers(s, b) :
              m = image[c] /\ t.ins[m][b] = s.ins[c][b] /\ (keep => t.level[m] = s.level[c])

Condensed(s, t, keep) ==
    /\ ScheduleTypeOK(t) /\ t.depFree = s.depFree /\ (t.isLegal => s.isLegal)
    /\ Buffers(t) \subseteq Buffers(s)
    /\ \A b \in Buffers(t) : t.isArg[b] = s.isArg[b] /\ t.ext[b] = s.ext[b] /\ t.depth[b] = s.depth[b]
    /\ AllLeveled(s) => AllLeveled(t)
    /\ \E image : Condenses(s, t, keep, image)

\* Trimming condenses, each node being its own image.
LEMMA TrimmedCondensed ==
    ASSUME NEW s, NEW t, Trimmed(s, t)
    PROVE  Condensed(s, t, TRUE)
<1> DEFINE image == [n \in Nodes(s) |-> n]
<1>1. Condenses(s, t, TRUE, image)
  <2> SUFFICES ASSUME NEW b \in Buffers(t)
               PROVE  /\ \A m \in Producers(t, b) :
                            m \in Producers(s, b) /\ m = image[m] /\ t.level[m] = s.level[m]
                      /\ \A m \in Consumers(t, b) :
                            /\ m \in Consumers(s, b) /\ m = image[m]
                            /\ t.ins[m][b] = s.ins[m][b] /\ t.level[m] = s.level[m]
    BY DEF Condenses
  <2> QED
    BY DEF Trimmed, Producers, Consumers
<1> HIDE DEF image
<1>2. AllLeveled(s) => AllLeveled(t)
  BY DEF Trimmed, AllLeveled, Leveled
<1> QED
  BY <1>1, <1>2 DEF Condensed, Trimmed

\* Condensing composes.
LEMMA CondensedTransitive ==
    ASSUME NEW s, NEW t, NEW u, NEW keep, Condensed(s, t, keep), Condensed(t, u, keep)
    PROVE  Condensed(s, u, keep)
<1>1. PICK f : Condenses(s, t, keep, f)
  BY DEF Condensed
<1>2. PICK g : Condenses(t, u, keep, g)
  BY DEF Condensed
<1> DEFINE h == [n \in Nodes(s) |-> g[f[n]]]
<1>3. Buffers(u) \subseteq Buffers(t)
  BY DEF Condensed
<1>4. \A n \in Nodes(s) : h[n] = g[f[n]]
  OBVIOUS
<1> HIDE DEF h
<1>5. ASSUME NEW b \in Buffers(u), NEW m \in Producers(u, b)
      PROVE  \E p \in Producers(s, b) : m = h[p] /\ (keep => u.level[m] = s.level[p])
  <2>1. PICK k \in Producers(t, b) : m = g[k] /\ (keep => u.level[m] = t.level[k])
    BY <1>2, <1>5 DEF Condenses
  <2>2. PICK p \in Producers(s, b) : k = f[p] /\ (keep => t.level[k] = s.level[p])
    BY <1>1, <1>3 DEF Condenses
  <2>3. p \in Nodes(s)
    BY DEF Producers
  <2> QED
    BY <1>4, <2>1, <2>2, <2>3
<1>6. ASSUME NEW b \in Buffers(u), NEW m \in Consumers(u, b)
      PROVE  \E c \in Consumers(s, b) : /\ m = h[c] /\ u.ins[m][b] = s.ins[c][b]
                                        /\ keep => u.level[m] = s.level[c]
  <2>1. PICK k \in Consumers(t, b) : /\ m = g[k] /\ u.ins[m][b] = t.ins[k][b]
                                     /\ keep => u.level[m] = t.level[k]
    BY <1>2, <1>6 DEF Condenses
  <2>2. PICK c \in Consumers(s, b) : /\ k = f[c] /\ t.ins[k][b] = s.ins[c][b]
                                     /\ keep => t.level[k] = s.level[c]
    BY <1>1, <1>3 DEF Condenses
  <2>3. c \in Nodes(s)
    BY DEF Consumers
  <2> QED
    BY <1>4, <2>1, <2>2, <2>3
<1>7. Condenses(s, u, keep, h)
  BY <1>5, <1>6 DEF Condenses
<1> QED
  BY <1>3, <1>7 DEF Condensed

\* A fusion condenses; the level stays if all the nodes have it.
LEMMA FusedCondensed ==
    ASSUME NEW s, ScheduleTypeOK(s), NEW N \in SUBSET Nodes(s), NEW new, NEW level \in Nat,
           NEW keep, keep => \A n \in N : s.level[n] = level,
           NEW t, Fused(s, t, N, new, level)
    PROVE  Condensed(s, t, keep)
<1>1. /\ ScheduleTypeOK(t) /\ SameFlags(s, t) /\ SameBuffers(s, t) /\ Buffers(t) = Buffers(s)
      /\ new \notin Nodes(s) /\ Nodes(t) = (Nodes(s) \ N) \cup {new} /\ t.level[new] = level
      /\ \A m \in Nodes(s) \ N : t.level[m] = s.level[m]
  BY DEF Fused
<1>2. UsesFused(s, t, N, new)
  BY FusedUses
<1> DEFINE image == [n \in Nodes(s) |-> Image(n, N, new)]
<1>3. \A n \in Nodes(s) : /\ image[n] = Image(n, N, new)
                          /\ keep => t.level[image[n]] = s.level[n]
  BY <1>1 DEF Image
<1> HIDE DEF image
<1>4. Condenses(s, t, keep, image)
  <2> SUFFICES ASSUME NEW b \in Buffers(t)
               PROVE  /\ \A m \in Producers(t, b) : \E p \in Producers(s, b) :
                            m = image[p] /\ (keep => t.level[m] = s.level[p])
                      /\ \A m \in Consumers(t, b) : \E c \in Consumers(s, b) :
                            /\ m = image[c] /\ t.ins[m][b] = s.ins[c][b]
                            /\ keep => t.level[m] = s.level[c]
    BY DEF Condenses
  <2>1. Producers(s, b) \subseteq Nodes(s) /\ Consumers(s, b) \subseteq Nodes(s)
    BY DEF Producers, Consumers
  <2>2. ASSUME NEW m \in Producers(t, b)
        PROVE  \E p \in Producers(s, b) : m = image[p] /\ (keep => t.level[m] = s.level[p])
    <3>1. PICK p \in Producers(s, b) : m = Image(p, N, new)
      BY <1>2, <2>2 DEF UsesFused
    <3> QED
      BY <1>3, <2>1, <3>1
  <2>3. ASSUME NEW m \in Consumers(t, b)
        PROVE  \E c \in Consumers(s, b) : /\ m = image[c] /\ t.ins[m][b] = s.ins[c][b]
                                          /\ keep => t.level[m] = s.level[c]
    <3>1. PICK c \in Consumers(s, b) : m = Image(c, N, new) /\ t.ins[m][b] = s.ins[c][b]
      BY <1>2, <2>3 DEF UsesFused
    <3> QED
      BY <1>3, <2>1, <3>1
  <2> QED
    BY <2>2, <2>3
<1>5. AllLeveled(s) => AllLeveled(t)
  <2>1. level # NoLevel
    BY DEF NoLevel
  <2> QED
    BY <1>1, <2>1 DEF AllLeveled, Leveled
<1> QED
  BY <1>1, <1>4, <1>5 DEF Condensed, SameFlags, SameBuffers

\* Condensing keeps what holds from LegalizeDataflow on, all of it if it keeps the levels.
LEMMA CondensedKeepsLegalizing ==
    ASSUME NEW src, NEW bal, NEW s, Legalizing(src, bal, s), NEW keep \in BOOLEAN,
           NEW t, Condensed(s, t, keep),
           ~keep => AllLeveled(s) /\ (bal => IgnoreViolations)
    PROVE  Legalizing(src, bal, t)
<1>1. /\ ScheduleTypeOK(s) /\ FromSource(src, s) /\ OneProducer(s)
      /\ Kept(src) => OneConsumer(s)
      /\ s.isLegal => AllLeveled(s)
      /\ ~IgnoreViolations => /\ WritesAlone(s)
                              /\ bal => Edges(src, s) /\ (Kept(src) => DescendingAll(src, s))
  BY DEF Legalizing, Base
<1>2. /\ ScheduleTypeOK(t) /\ t.depFree = s.depFree /\ (t.isLegal => s.isLegal)
      /\ Buffers(t) \subseteq Buffers(s)
      /\ \A b \in Buffers(t) : t.isArg[b] = s.isArg[b] /\ t.ext[b] = s.ext[b] /\ t.depth[b] = s.depth[b]
      /\ AllLeveled(s) => AllLeveled(t)
  BY DEF Condensed
<1>3. PICK f : Condenses(s, t, keep, f)
  BY DEF Condensed
<1>4. ASSUME NEW b \in Buffers(t)
      PROVE  /\ One(Producers(s, b)) => One(Producers(t, b))
             /\ One(Consumers(s, b)) => One(Consumers(t, b))
  <2>1. \A m \in Producers(t, b) : \E p \in Producers(s, b) : m = f[p]
    BY <1>3, <1>4 DEF Condenses
  <2>2. \A m \in Consumers(t, b) : \E c \in Consumers(s, b) : m = f[c]
    BY <1>3, <1>4 DEF Condenses
  <2> QED
    BY <2>1, <2>2 DEF One
<1>5. FromSource(src, t)
  <2>1. ArgsKept(s, t)
    BY <1>2, <1>4 DEF ArgsKept
  <2> QED
    BY <1>1, <1>2, <2>1, FromSourceKept
<1>6. OneProducer(t)
  BY <1>1, <1>2, <1>4 DEF OneProducer
\* A producer, as it was.
<1>7. ASSUME NEW n \in Nodes(t), NEW b \in t.outs[n]
      PROVE  /\ b \in Buffers(t)
             /\ \E p \in Nodes(s) : /\ b \in s.outs[p] /\ n = f[p]
                                    /\ keep => t.level[n] = s.level[p]
  <2>1. b \in Buffers(t) /\ n \in Producers(t, b)
    BY <1>2, <1>7 DEF ScheduleTypeOK, Producers
  <2>2. PICK p \in Producers(s, b) : n = f[p] /\ (keep => t.level[n] = s.level[p])
    BY <1>3, <2>1 DEF Condenses
  <2> QED
    BY <2>1, <2>2 DEF Producers
<1>8. ASSUME OneConsumer(s) PROVE OneConsumer(t)
  <2> SUFFICES ASSUME NEW n \in Nodes(t), NEW b \in t.outs[n], ~t.ext[b]
               PROVE  One(Consumers(t, b))
    BY DEF OneConsumer
  <2>1. PICK p \in Nodes(s) : b \in s.outs[p]
    BY <1>7
  <2> QED
    BY <1>2, <1>4, <1>7, <1>8, <2>1 DEF OneConsumer
<1>9. ASSUME WritesAlone(s) PROVE WritesAlone(t)
  <2> SUFFICES ASSUME NEW n \in Nodes(t), Leveled(t, n), NEW b \in t.outs[n], ~t.ext[b]
               PROVE  One(Producers(t, b))
    BY DEF WritesAlone
  <2>1. PICK p \in Nodes(s) : b \in s.outs[p] /\ (keep => t.level[n] = s.level[p])
    BY <1>7
  <2>2. Leveled(s, p)
    BY <2>1 DEF AllLeveled, Leveled
  <2> QED
    BY <1>2, <1>4, <1>7, <1>9, <2>1, <2>2 DEF WritesAlone
<1>10. ASSUME keep, DescendingAll(src, s) PROVE DescendingAll(src, t)
  <2> SUFFICES ASSUME NEW n \in Nodes(t), Leveled(t, n), NEW b \in t.outs[n],
                      NEW c \in Consumers(t, b)
               PROVE  Leveled(t, c) /\ (~WrittenAgain(src, b) => t.level[c] < t.level[n])
    BY DEF DescendingAll
  <2>1. PICK p \in Nodes(s) : b \in s.outs[p] /\ t.level[n] = s.level[p]
    BY <1>7, <1>10
  <2>2. PICK d \in Consumers(s, b) : t.level[c] = s.level[d]
    BY <1>3, <1>7, <1>10 DEF Condenses
  <2> QED
    BY <1>10, <2>1, <2>2 DEF DescendingAll, Leveled
<1>11. ASSUME keep, Edges(src, s) PROVE Edges(src, t)
  <2> SUFFICES ASSUME NEW n \in Nodes(t), Leveled(t, n), NEW b \in t.outs[n],
                      ~NotBalanced(t, b), ~WrittenAgain(src, b),
                      NEW c \in DependentConsumers(t, b, n)
               PROVE  IF ~t.isArg[b] /\ t.ext[b]
                      THEN t.ins[c][b] = Diff(t, n, c) - 1 /\ t.ins[c][b] < t.depth[b]
                      ELSE Diff(t, n, c) = 1
    BY DEF Edges
  <2>1. c \in Consumers(t, b) /\ b \in Buffers(t)
    BY <1>7 DEF DependentConsumers
  <2>2. PICK p \in Nodes(s) : b \in s.outs[p] /\ t.level[n] = s.level[p]
    BY <1>7, <1>11
  <2>3. PICK d \in Consumers(s, b) : t.ins[c][b] = s.ins[d][b] /\ t.level[c] = s.level[d]
    BY <1>3, <1>11, <2>1 DEF Condenses
  <2>4. ~NotBalanced(s, b) /\ Leveled(s, p)
    BY <1>2, <2>1, <2>2 DEF NotBalanced, Leveled
  <2>5. d \in DependentConsumers(s, b, p)
    <3>1. p \in Producers(s, b)
      BY <2>2 DEF Producers
    <3> QED
      BY <1>1, <2>4, <3>1, BalancedDependents
  <2>6. IF ~s.isArg[b] /\ s.ext[b]
        THEN s.ins[d][b] = Diff(s, p, d) - 1 /\ s.ins[d][b] < s.depth[b]
        ELSE Diff(s, p, d) = 1
    BY <1>11, <2>2, <2>4, <2>5 DEF Edges
  <2>7. Diff(t, n, c) = Diff(s, p, d)
    BY <2>2, <2>3 DEF Diff
  <2> QED
    BY <1>2, <2>1, <2>3, <2>6, <2>7
<1> QED
  BY <1>1, <1>2, <1>5, <1>6, <1>8, <1>9, <1>10, <1>11 DEF Legalizing, Base

\* What is reached by sharing inputs is closed under it, and the least such set.
LEMMA ReachedIs ==
    ASSUME NEW s, NEW P, NEW n \in P
    PROVE  /\ n \in ReachedBySharing(s, n, P) /\ ReachedBySharing(s, n, P) \subseteq P
           /\ ClosedUnderSharing(s, ReachedBySharing(s, n, P), P)
           /\ \A C \in SUBSET P : n \in C /\ ClosedUnderSharing(s, C, P)
                                  => ReachedBySharing(s, n, P) \subseteq C
<1> DEFINE R == ReachedBySharing(s, n, P)
<1>1. n \in R /\ R \subseteq P
  BY DEF ReachedBySharing
<1>2. \A C \in SUBSET P : n \in C /\ ClosedUnderSharing(s, C, P) => R \subseteq C
  BY DEF ReachedBySharing
<1>3. ASSUME NEW k \in R, NEW m \in P, ShareInput(s, k, m) PROVE m \in R
  <2> SUFFICES ASSUME NEW C \in SUBSET P, n \in C, ClosedUnderSharing(s, C, P) PROVE m \in C
    BY DEF ReachedBySharing
  <2>1. k \in C
    BY <1>2, <1>3
  <2> QED
    BY <1>3, <2>1 DEF ClosedUnderSharing
<1> QED
  BY <1>1, <1>2, <1>3 DEF ClosedUnderSharing

\* A node of a group reaches the same group.
LEMMA ReachedFromWithin ==
    ASSUME NEW s, NEW P, NEW n \in P, NEW k \in ReachedBySharing(s, n, P)
    PROVE  ReachedBySharing(s, k, P) = ReachedBySharing(s, n, P)
<1> DEFINE R(x) == ReachedBySharing(s, x, P)
<1>1. /\ n \in R(n) /\ R(n) \subseteq P /\ ClosedUnderSharing(s, R(n), P)
      /\ \A C \in SUBSET P : n \in C /\ ClosedUnderSharing(s, C, P) => R(n) \subseteq C
  BY ReachedIs
<1>2. k \in P
  BY <1>1
<1>3. /\ k \in R(k) /\ R(k) \subseteq P /\ ClosedUnderSharing(s, R(k), P)
      /\ \A C \in SUBSET P : k \in C /\ ClosedUnderSharing(s, C, P) => R(k) \subseteq C
  BY <1>2, ReachedIs
<1> HIDE DEF R
<1>4. k \in R(n)
  BY DEF R
<1>5. R(k) \subseteq R(n)
  BY <1>1, <1>3, <1>4
<1>6. n \in R(k)
  <2> SUFFICES ASSUME n \notin R(k) PROVE FALSE
    OBVIOUS
  <2> DEFINE C == R(n) \ R(k)
  <2>1. C \in SUBSET P /\ n \in C
    BY <1>1
  <2>2. ASSUME NEW x \in C, NEW y \in P, ShareInput(s, x, y) PROVE y \in C
    <3>1. y \in R(n)
      BY <1>1, <2>2 DEF ClosedUnderSharing
    <3>2. ShareInput(s, y, x) /\ x \in P
      BY <1>1, <2>2 DEF ShareInput
    <3>3. y \notin R(k)
      BY <1>3, <2>2, <3>2 DEF ClosedUnderSharing
    <3> QED
      BY <3>1, <3>3
  <2>3. ClosedUnderSharing(s, C, P)
    BY <2>2 DEF ClosedUnderSharing
  <2>4. R(n) \subseteq C
    BY <1>1, <2>1, <2>3
  <2> QED
    BY <1>3, <1>4, <2>4
<1>7. R(n) \subseteq R(k)
  BY <1>1, <1>3, <1>6
<1> QED
  BY <1>5, <1>7 DEF R

\* The groups of a schedule are of one level each, and have no node in common.
LEMMA GroupsAre ==
    ASSUME NEW s, ScheduleTypeOK(s), AllLeveled(s)
    PROVE  /\ IsFiniteSet(SharingGroups(s))
           /\ \A G \in SharingGroups(s) :
                 /\ G \subseteq Nodes(s) /\ G # {}
                 /\ \E l \in Nat : \A n \in G : s.level[n] = l
                 /\ \A H \in SharingGroups(s) : H = G \/ H \cap G = {}
<1> DEFINE N == Nodes(s)
           T == {SharingGroup(s, n) : n \in N}
<1>1. /\ \A n \in N : s.level[n] \in Nat
      /\ IsFiniteSet(N)
  <2>1. Orders(s.order, N) /\ s.level \in [N -> Nat \cup {NoLevel}]
    BY TypeOfSchedule DEF TypeOver
  <2> QED
    BY <2>1, OrderedIsFinite DEF AllLeveled, Leveled
<1>2. IsFiniteSet(T)
  <2> DEFINE f == [n \in N |-> SharingGroup(s, n)]
  <2>1. IsFiniteSet({f[n] : n \in N})
    <3>1. DOMAIN f = N
      OBVIOUS
    <3> HIDE DEF f, N
    <3> QED
      BY <1>1, <3>1, FiniteImage
  <2> QED
    BY <2>1
<1>3. SharingGroups(s) \subseteq T
  BY DEF SharingGroups
<1>4. ASSUME NEW n \in N
      PROVE  LET P == LevelNodes(s, s.level[n])
             IN  /\ n \in P /\ P \subseteq N /\ SharingGroup(s, n) = ReachedBySharing(s, n, P)
                 /\ n \in SharingGroup(s, n) /\ SharingGroup(s, n) \subseteq P
  <2> DEFINE P == LevelNodes(s, s.level[n])
  <2>1. n \in P /\ P \subseteq N /\ SharingGroup(s, n) = ReachedBySharing(s, n, P)
    BY DEF LevelNodes, SharingGroup
  <2> HIDE DEF P
  <2>2. n \in ReachedBySharing(s, n, P) /\ ReachedBySharing(s, n, P) \subseteq P
    BY <2>1, ReachedIs
  <2>3. n \in SharingGroup(s, n) /\ SharingGroup(s, n) \subseteq P
    BY <2>1, <2>2
  <2> QED
    BY <2>1, <2>3 DEF P
<1>5. ASSUME NEW G \in SharingGroups(s)
      PROVE  /\ G \subseteq N /\ G # {}
             /\ \E l \in Nat : \A n \in G : s.level[n] = l
             /\ \A H \in SharingGroups(s) : H = G \/ H \cap G = {}
  <2>1. PICK n \in N : G = SharingGroup(s, n)
    BY <1>3
  <2>2. /\ G \subseteq LevelNodes(s, s.level[n]) /\ LevelNodes(s, s.level[n]) \subseteq N
        /\ n \in G
    BY <1>4, <2>1
  <2>3. \A k \in G : s.level[k] = s.level[n]
    BY <2>2 DEF LevelNodes
  <2>4. ASSUME NEW H \in SharingGroups(s), NEW k \in H \cap G PROVE H = G
    <3>1. PICK m \in N : H = SharingGroup(s, m)
      BY <1>3
    <3>2. H \subseteq LevelNodes(s, s.level[m])
      BY <1>4, <3>1
    <3>3. s.level[k] = s.level[m] /\ s.level[k] = s.level[n]
      BY <2>3, <2>4, <3>2 DEF LevelNodes
    <3> DEFINE P == LevelNodes(s, s.level[k])
    <3>4. /\ n \in P /\ G = ReachedBySharing(s, n, P)
          /\ m \in P /\ H = ReachedBySharing(s, m, P)
      BY <1>4, <2>1, <3>1, <3>3
    <3> HIDE DEF P
    <3>5. ReachedBySharing(s, k, P) = G /\ ReachedBySharing(s, k, P) = H
      BY <2>4, <3>4, ReachedFromWithin
    <3> QED
      BY <3>5
  <2>5. s.level[n] \in Nat
    BY <1>1
  <2> QED
    BY <2>2, <2>3, <2>4, <2>5
<1> QED
  BY <1>2, <1>3, <1>5, FS_Subset

\* The fold of FuseMultiConsumer: a is the schedule before.
GroupStep(s, b, c, t, G) == FuseGroup(t, G)
GroupInv(s, b, c, t, U)  ==
    /\ Condensed(s, t, TRUE)
    /\ \A G \in SharingGroups(s) \ U : G \subseteq Nodes(t) /\ \A n \in G : t.level[n] = s.level[n]
Group == INSTANCE FoldLemmas WITH Step <- GroupStep, Choice <- PickAny, Inv <- GroupInv

\* FuseMultiConsumer fuses nodes of one level: it condenses and keeps the levels.
LEMMA FuseMultiConsumerIs ==
    ASSUME NEW s, ScheduleTypeOK(s), AllLeveled(s)
    PROVE  Condensed(s, ForEachIn(SharingGroups(s), FuseGroup, s), TRUE)
<1> DEFINE S == SharingGroups(s)
<1>1. ForEachIn(S, FuseGroup, s) = Group!Fold(s, 0, 0, s, S)
  BY DEF ForEachIn, FoldSet, MapThenFoldSet, Group!Fold, PickAny, GroupStep
<1>2. /\ IsFiniteSet(S)
      /\ \A G \in S : /\ G \subseteq Nodes(s) /\ G # {}
                      /\ \E l \in Nat : \A n \in G : s.level[n] = l
                      /\ \A H \in S : H = G \/ H \cap G = {}
  BY GroupsAre
<1> HIDE DEF S
<1>3. Group!Chooses(S)
  BY PickAnyPicks DEF Group!Chooses
<1>4. PICK r : Group!Measures(r, S)
  BY <1>2, MeasureExists DEF Group!Measures
<1>5. GroupInv(s, 0, 0, s, {})
  <2>1. Condensed(s, s, TRUE)
    <3>1. Trimmed(s, s)
      BY DEF Trimmed
    <3> QED
      BY <3>1, TrimmedCondensed
  <2> QED
    BY <1>2, <2>1 DEF GroupInv, S
<1>6. Group!Keeps(s, 0, 0, S)
  <2> SUFFICES ASSUME NEW V \in SUBSET S, V # {},
                      NEW t, GroupInv(s, 0, 0, t, V \ {PickAny(V)})
               PROVE  GroupInv(s, 0, 0, FuseGroup(t, PickAny(V)), V)
    BY DEF Group!Keeps, GroupStep
  <2> DEFINE G == PickAny(V)
             u == FuseGroup(t, G)
  <2>1. G \in V
    BY <1>3 DEF Group!Chooses
  <2> HIDE DEF G
  <2>2. /\ Condensed(s, t, TRUE)
        /\ \A H \in S \ (V \ {G}) : H \subseteq Nodes(t) /\ \A n \in H : t.level[n] = s.level[n]
    BY DEF GroupInv, S, G
  <2>3. G \subseteq Nodes(t) /\ G # {} /\ \A n \in G : t.level[n] = s.level[n]
    BY <1>2, <2>1, <2>2
  <2>4. PICK l \in Nat : \A n \in G : t.level[n] = l
    BY <1>2, <2>1, <2>3
  <2>5. u = FuseNodeOps(t, InBlockOrder(t, G), l)
    BY <2>3, <2>4 DEF FuseGroup
  <2>6. ScheduleTypeOK(t)
    BY <2>2 DEF Condensed
  <2> HIDE DEF u
  <2>7. Fused(t, u, G, FreshNode(t), l)
    BY <2>3, <2>4, <2>5, <2>6, FuseNodeOpsIs
  <2>8. Condensed(t, u, TRUE)
    BY <2>3, <2>4, <2>6, <2>7, FusedCondensed
  <2>9. Condensed(s, u, TRUE)
    BY <2>2, <2>8, CondensedTransitive
  <2>10. ASSUME NEW H \in S \ V
         PROVE  H \subseteq Nodes(u) /\ \A n \in H : u.level[n] = s.level[n]
    <3>1. H \cap G = {}
      BY <1>2, <2>1, <2>10
    <3>2. H \subseteq Nodes(t) \ G /\ \A n \in H : t.level[n] = s.level[n]
      BY <2>2, <2>10, <3>1
    <3> QED
      BY <2>7, <3>2 DEF Fused
  <2>11. GroupInv(s, 0, 0, u, V)
    BY <2>9, <2>10 DEF GroupInv, S
  <2> QED
    BY <2>11 DEF u, G
<1>7. GroupInv(s, 0, 0, Group!Fold(s, 0, 0, s, S), S)
  BY <1>3, <1>4, <1>5, <1>6, Group!FoldInduction
<1>8. Condensed(s, Group!Fold(s, 0, 0, s, S), TRUE)
  BY <1>7 DEF GroupInv
<1> QED
  BY <1>1, <1>8 DEF S

\* The fold of FuseBypassPath: a is the schedule before, b the stale levels.
BypassStep(s, stale, c, t, l) == FuseBypass(t, l, stale[l])
BypassInv(s, stale, c, t, U)  == Condensed(s, t, FALSE)
Bypass == INSTANCE FoldLemmas WITH Step <- BypassStep, Choice <- PickAny, Inv <- BypassInv

\* FuseBypassPath condenses; it does not keep the levels.
LEMMA FuseBypassPathIs ==
    ASSUME NEW s, ScheduleTypeOK(s), AllLeveled(s),
           NEW stale \in [BypassTargets(s) -> LevelsOf(s)]
    PROVE  Condensed(s, ForEachIn(BypassTargets(s), LAMBDA t, l : FuseBypass(t, l, stale[l]), s), FALSE)
<1> DEFINE S == BypassTargets(s)
           N == Nodes(s)
<1>1. ForEachIn(S, LAMBDA t, l : FuseBypass(t, l, stale[l]), s) = Bypass!Fold(s, stale, 0, s, S)
  BY DEF ForEachIn, FoldSet, MapThenFoldSet, Bypass!Fold, PickAny, BypassStep
<1>2. Orders(s.order, N) /\ s.level \in [N -> Nat \cup {NoLevel}]
  BY TypeOfSchedule DEF TypeOver
<1>3. LevelsOf(s) \subseteq Nat
  BY <1>2 DEF LevelsOf, AllLeveled, Leveled
<1>4. IsFiniteSet(S)
  <2>1. IsFiniteSet({s.level[n] : n \in N})
    <3>1. IsFiniteSet(N) /\ DOMAIN s.level = N
      BY <1>2, OrderedIsFinite
    <3> HIDE DEF N
    <3> QED
      BY <3>1, FiniteImage
  <2>2. S \subseteq LevelsOf(s)
    BY DEF BypassTargets
  <2> QED
    BY <2>1, <2>2, FS_Subset DEF LevelsOf
<1> HIDE DEF S
<1>5. \A l \in S : stale[l] \in Nat
  BY <1>3 DEF S
<1>6. Bypass!Chooses(S)
  BY PickAnyPicks DEF Bypass!Chooses
<1>7. PICK r : Bypass!Measures(r, S)
  BY <1>4, MeasureExists DEF Bypass!Measures
<1>8. BypassInv(s, stale, 0, s, {})
  <2>1. Condensed(s, s, TRUE)
    <3>1. Trimmed(s, s)
      BY DEF Trimmed
    <3> QED
      BY <3>1, TrimmedCondensed
  <2>2. Condensed(s, s, FALSE)
    BY <2>1 DEF Condensed, Condenses
  <2> QED
    BY <2>2 DEF BypassInv
<1>9. Bypass!Keeps(s, stale, 0, S)
  <2> SUFFICES ASSUME NEW V \in SUBSET S, V # {}, NEW t, Condensed(s, t, FALSE)
               PROVE  Condensed(s, FuseBypass(t, PickAny(V), stale[PickAny(V)]), FALSE)
    BY DEF Bypass!Keeps, BypassInv, BypassStep
  <2> DEFINE l == PickAny(V)
             u == FuseBypass(t, l, stale[l])
             M == BypassedNodes(t, l)
  <2>1. stale[l] \in Nat
    BY <1>5, <1>6 DEF Bypass!Chooses
  <2>2. ScheduleTypeOK(t) /\ M \in SUBSET Nodes(t)
    BY DEF Condensed, BypassedNodes
  <2>3. CASE Cardinality(M) > 1
    <3>1. u = FuseNodeOps(t, InBlockOrder(t, M), stale[l])
      BY <2>3 DEF FuseBypass
    <3> HIDE DEF u, l, M
    <3>2. M # {}
      BY <2>3, FS_EmptySet
    <3>3. Fused(t, u, M, FreshNode(t), stale[l])
      BY <2>1, <2>2, <3>1, <3>2, FuseNodeOpsIs
    <3>4. Condensed(t, u, FALSE)
      BY <2>1, <2>2, <3>3, FusedCondensed
    <3>5. Condensed(s, u, FALSE)
      BY <3>4, CondensedTransitive
    <3> QED
      BY <3>5 DEF u, l
  <2>4. CASE ~(Cardinality(M) > 1)
    BY <2>4 DEF FuseBypass
  <2> QED
    BY <2>3, <2>4
<1>10. BypassInv(s, stale, 0, Bypass!Fold(s, stale, 0, s, S), S)
  BY <1>6, <1>7, <1>8, <1>9, Bypass!FoldInduction
<1>11. Condensed(s, Bypass!Fold(s, stale, 0, s, S), FALSE)
  BY <1>10 DEF BypassInv
<1> QED
  BY <1>1, <1>11 DEF S

\* A function that is empty everywhere satisfies the recursion when nothing is bypassed.
LEMMA BypassedNone ==
    ASSUME NEW s, \A k : MaxBypass(s, k) = 1, NEW l \in Nat
    PROVE  BypassedLevels(s, l) = {}
<1> DEFINE eq(f) == f = [k \in 0..l |->
                           IF MaxBypass(s, k) = 1 THEN {}
                           ELSE UNION {{j} \cup f[j] : j \in (k - MaxBypass(s, k))..(k - 1)}]
           below == CHOOSE f : eq(f)
<1>1. BypassedLevels(s, l) = below[l]
  BY DEF BypassedLevels
<1>2. \E f : eq(f)
  <2> DEFINE none == [k \in 0..l |-> {}]
  <2>1. eq(none)
    OBVIOUS
  <2> QED
    BY <2>1
<1>3. eq(below)
  <2> HIDE DEF eq
  <2> QED
    BY <1>2
<1> HIDE DEF below
<1>4. below[l] = IF MaxBypass(s, l) = 1 THEN {}
                 ELSE UNION {{j} \cup below[j] : j \in (l - MaxBypass(s, l))..(l - 1)}
  <2>1. l \in 0..l
    OBVIOUS
  <2> QED
    BY <1>3, <2>1
<1> QED
  BY <1>1, <1>4

\* Balanced internal edges bypass no level.
LEMMA NothingBypassed ==
    ASSUME NEW src, ScheduleTypeOK(src), NEW s, ScheduleTypeOK(s), FromSource(src, s),
           AllLeveled(s), Edges(src, s)
    PROVE  ~WrapsAround(s) /\ BypassTargets(s) = {}
<1>1. ASSUME NEW n \in Nodes(s), NEW c \in Nodes(s), NEW b \in s.outs[n],
             ~(s.isArg[b] /\ s.depFree), ~s.ext[b], c \in DependentConsumers(s, b, n)
      PROVE  s.level[n] - s.level[c] = 1
  <2>1. ~WrittenAgain(src, b)
    <3> SUFFICES ASSUME WrittenAgain(src, b) PROVE FALSE
      OBVIOUS
    <3>1. ~One(Producers(src, b)) /\ src.ext[b]
      BY WritersCounted DEF WrittenAgain
    <3>2. b \in Buffers(src) /\ b \in Buffers(s)
      BY <3>1 DEF One, Producers, ScheduleTypeOK
    <3> QED
      BY <1>1, <3>1, <3>2 DEF FromSource
  <2>2. Diff(s, n, c) = 1
    BY <1>1, <2>1 DEF Edges, AllLeveled, NotBalanced
  <2> QED
    BY <2>2 DEF Diff
<1>2. \A l : Spans(s, l) \subseteq {1}
  BY <1>1 DEF Spans, LevelNodes
<1>3. \A l : MaxBypass(s, l) = 1
  <2> SUFFICES ASSUME NEW l PROVE MaxBypass(s, l) = 1
    OBVIOUS
  <2>1. {1} \cup Spans(s, l) = {1} /\ ~(\E d \in Spans(s, l) : d < 0)
    BY <1>2
  <2>2. Max({1}) = 1
    <3>1. IsFiniteSet({1})
      BY FS_Singleton
    <3>2. {1} \in SUBSET Nat /\ {1} # {}
      OBVIOUS
    <3>3. Max({1}) \in {1}
      BY <3>1, <3>2, MaxIs
    <3> QED
      BY <3>3
  <2> QED
    BY <2>1, <2>2 DEF MaxBypass
<1>4. LevelsOf(s) \subseteq Nat
  <2>1. s.level \in [Nodes(s) -> Nat \cup {NoLevel}]
    BY DEF ScheduleTypeOK
  <2> QED
    BY <2>1 DEF LevelsOf, AllLeveled, Leveled
<1>5. \A l \in LevelsOf(s) : BypassedLevels(s, l) = {}
  BY <1>3, <1>4, BypassedNone
<1> QED
  BY <1>3, <1>4, <1>5 DEF WrapsAround, BypassTargets

-----------------------------------------------------------------------------
(* The passes in their order *)

Passes == {"multi-producer", "multi-consumer", "schedule", "balance", "canonicalize-1",
           "legalize", "canonicalize-2", "simplify-if", "canonicalize-3", "tokens", "done"}

\* The places of the passes in the pipeline.
LEMMA PassNumberIs ==
    /\ DOMAIN PassOrder = 1..11 /\ Range(PassOrder) = Passes
    /\ PassNumber("multi-producer") = 1 /\ PassNumber("multi-consumer") = 2
    /\ PassNumber("schedule") = 3 /\ PassNumber("balance") = 4
    /\ PassNumber("canonicalize-1") = 5 /\ PassNumber("legalize") = 6
    /\ PassNumber("canonicalize-2") = 7 /\ PassNumber("simplify-if") = 8
    /\ PassNumber("canonicalize-3") = 9 /\ PassNumber("tokens") = 10
    /\ PassNumber("done") = 11
<1>1. DOMAIN PassOrder = 1..11
  BY DEF PassOrder
<1>2. /\ PassOrder[1] = "multi-producer" /\ PassOrder[2] = "multi-consumer"
      /\ PassOrder[3] = "schedule" /\ PassOrder[4] = "balance"
      /\ PassOrder[5] = "canonicalize-1" /\ PassOrder[6] = "legalize"
      /\ PassOrder[7] = "canonicalize-2" /\ PassOrder[8] = "simplify-if"
      /\ PassOrder[9] = "canonicalize-3" /\ PassOrder[10] = "tokens"
      /\ PassOrder[11] = "done"
  BY DEF PassOrder
<1>3. 1..11 = {1, 2, 3, 4, 5, 6, 7, 8, 9, 10, 11}
  OBVIOUS
<1>4. Range(PassOrder) = Passes
  BY <1>1, <1>2, <1>3 DEF Range, Passes
<1> HIDE DEF PassOrder
<1>5. ASSUME NEW i \in 1..11, \A j \in 1..11 : PassOrder[j] = PassOrder[i] => j = i
      PROVE  PassNumber(PassOrder[i]) = i
  BY <1>1, <1>5 DEF PassNumber
<1>6. \A i \in 1..11 : PassNumber(PassOrder[i]) = i
  <2> SUFFICES ASSUME NEW i \in 1..11, NEW j \in 1..11, PassOrder[j] = PassOrder[i]
               PROVE  j = i
    BY <1>5
  <2> QED
    BY <1>2, <1>3
<1> QED
  BY <1>1, <1>2, <1>4, <1>6

\* The pass that follows: balancing is an option of the pipeline.
LEMMA NextPassIs ==
    ASSUME NextPass
    PROVE  /\ pass = "multi-producer" => pass' = "multi-consumer"
           /\ pass = "multi-consumer" => pass' = "schedule"
           /\ pass = "schedule" => pass' = IF balanceDataflow THEN "balance" ELSE "canonicalize-1"
           /\ pass = "balance" => pass' = "canonicalize-1"
           /\ pass = "canonicalize-1" => pass' = "legalize"
           /\ pass = "legalize" => pass' = "canonicalize-2"
           /\ pass = "canonicalize-2" => pass' = "simplify-if"
           /\ pass = "simplify-if" => pass' = "canonicalize-3"
           /\ pass = "canonicalize-3" => pass' = "tokens"
           /\ pass = "tokens" => pass' = "done"
<1>1. /\ PassOrder[2] = "multi-consumer" /\ PassOrder[3] = "schedule" /\ PassOrder[4] = "balance"
      /\ PassOrder[5] = "canonicalize-1" /\ PassOrder[6] = "legalize"
      /\ PassOrder[7] = "canonicalize-2" /\ PassOrder[8] = "simplify-if"
      /\ PassOrder[9] = "canonicalize-3" /\ PassOrder[10] = "tokens"
      /\ PassOrder[11] = "done"
  BY DEF PassOrder
<1> QED
  BY <1>1, PassNumberIs DEF NextPass

\* What holds when the tokens are made.
TokensMade == ir.isLegal => ir.tokens = UNION {Tokens(ir, b) : b \in TokenBuffers(ir)}

\* The passes from LegalizeDataflow on.
LatePasses == {"legalize", "canonicalize-2", "simplify-if", "canonicalize-3", "tokens", "done"}

\* The inductive invariant: each pass finds what the passes before it left.
PipelineInv ==
    /\ pass \in Passes /\ ScheduleTypeOK(source)
    /\ pass = "multi-producer" => Early(source, ir)
    /\ pass = "multi-consumer" => Forking(source, ir)
    /\ pass = "schedule" => Scheduling(source, ir)
    /\ pass = "balance" => balanceDataflow /\ Balancing(source, ir)
    /\ pass = "canonicalize-1" => Cleaning(source, balanceDataflow, ir)
    /\ pass \in LatePasses => Legalizing(source, balanceDataflow, ir)
    /\ pass = "done" => TokensMade

\* In every pass the schedule is well formed and keeps the arguments of the source.
LEMMA PipelineInvTypes ==
    ASSUME PipelineInv
    PROVE  /\ ScheduleTypeOK(ir) /\ Base(source, ir)
           /\ pass \in Passes /\ pass \notin LatePasses => ~ir.isLegal
BY DEF PipelineInv, Passes, LatePasses, Early, Forking, Scheduling, Balancing, Cleaning,
       Legalizing, Base

\* The pipeline starts before scheduling, with a schedule that is its own source.
LEMMA InitPipelineInv ==
    ASSUME Init PROVE PipelineInv
<1>1. ir = source /\ Unscheduled(ir) /\ pass = "multi-producer"
  BY SchedulesAssumption DEF Init
<1>2. ScheduleTypeOK(ir) /\ ~ir.isLegal /\ NoLevels(ir) /\ FirstTaps(ir)
  BY <1>1 DEF Unscheduled, NoLevels, FirstTaps
<1>3. FromSource(ir, ir)
  BY <1>2 DEF FromSource, ScheduleTypeOK
<1>4. Early(source, ir)
  BY <1>1, <1>2, <1>3 DEF Early, Base, Ordered
<1> QED
  BY <1>1, <1>2, <1>4 DEF PipelineInv, Passes, LatePasses

\* A rewrite of EliminateMultiProducer, and its end.
LEMMA MultiProducerStep ==
    ASSUME PipelineInv, RunEliminateMultiProducer PROVE PipelineInv'
<1>1. pass = "multi-producer" /\ Early(source, ir) /\ ScheduleTypeOK(source) /\ ScheduleTypeOK(ir)
  BY PipelineInvTypes DEF PipelineInv, RunEliminateMultiProducer
<1>2. CASE (BufferMultiProducer \/ MergeMultiProducer) /\ Apply
  <2>1. pass' = pass /\ source' = source
    BY <1>2 DEF Apply
  <2>2. CASE BufferMultiProducer
    <3>1. BuffersSplit(ir, ir', SplittableBuffers(ir))
      BY <1>1, <2>2, BufferMultiProducerIs DEF BufferMultiProducer
    <3>2. \A b \in SplittableBuffers(ir) : ~ir.isArg[b]
      BY DEF SplittableBuffers
    <3>3. Early(source, ir')
      BY <1>1, <3>1, <3>2, SplitKeepsEarly
    <3> QED
      BY <1>1, <2>1, <3>3 DEF PipelineInv, Passes, LatePasses
  <2>3. CASE MergeMultiProducer
    <3>1. Early(source, ir')
      BY <1>1, <2>3, MergeMultiProducerIs DEF MergeMultiProducer
    <3> QED
      BY <1>1, <2>1, <3>1 DEF PipelineInv, Passes, LatePasses
  <2> QED
    BY <1>2, <2>2, <2>3
<1>3. CASE ~EliminateMultiProducerApplies /\ UNCHANGED ir /\ Proceed
  <2>1. pass' = "multi-consumer" /\ source' = source /\ ir' = ir
    BY <1>1, <1>3, NextPassIs DEF Proceed
  <2>2. SplittableBuffers(ir) = {}
    BY <1>3 DEF EliminateMultiProducerApplies
  <2>3. Forking(source, ir)
    BY <1>1, <2>2, SplitIsDone
  <2> QED
    BY <1>1, <2>1, <2>3 DEF PipelineInv, Passes, LatePasses
<1> QED
  BY <1>2, <1>3 DEF RunEliminateMultiProducer

\* A rewrite of EliminateMultiConsumer, and its end.
LEMMA MultiConsumerStep ==
    ASSUME PipelineInv, RunEliminateMultiConsumer PROVE PipelineInv'
<1>1. pass = "multi-consumer" /\ Forking(source, ir) /\ ScheduleTypeOK(source)
  BY DEF PipelineInv, RunEliminateMultiConsumer
<1>2. ASSUME NEW n \in Nodes(ir), InsertForkNode(n), Apply PROVE PipelineInv'
  <2>1. Forking(source, ir')
    BY <1>1, <1>2, InsertForkNodeIs DEF InsertForkNode
  <2> QED
    BY <1>1, <1>2, <2>1 DEF PipelineInv, Passes, LatePasses, Apply
<1>3. CASE ~EliminateMultiConsumerApplies /\ UNCHANGED ir /\ Proceed
  <2>1. pass' = "schedule" /\ source' = source /\ ir' = ir
    BY <1>1, <1>3, NextPassIs DEF Proceed
  <2>2. Scheduling(source, ir)
    BY <1>1, <1>3, ForkIsDone DEF EliminateMultiConsumerApplies
  <2> QED
    BY <1>1, <2>1, <2>2 DEF PipelineInv, Passes, LatePasses
<1> QED
  BY <1>2, <1>3 DEF RunEliminateMultiConsumer

\* A level assigned by ScheduleDataflowNode, and its end.
LEMMA ScheduleStep ==
    ASSUME PipelineInv, RunScheduleDataflowNode PROVE PipelineInv'
<1>1. pass = "schedule" /\ Scheduling(source, ir) /\ ScheduleTypeOK(source)
  BY DEF PipelineInv, RunScheduleDataflowNode
<1>2. ASSUME NEW n \in Nodes(ir), ALAPScheduleNode(n), Apply PROVE PipelineInv'
  <2>1. ScheduleInv
    BY <1>1 DEF ScheduleInv, LevelsSettled, Scheduling, Base
  <2>2. ScheduleInv' /\ SameButLevels(ir, ir')
    BY <1>2, <2>1, StepKeepsInv
  <2>3. ScheduleTypeOK(ir') /\ Settled(ir')
    BY <2>2 DEF ScheduleInv, LevelsSettled
  <2>4. Scheduling(source, ir')
    BY <1>1, <2>2, <2>3, LevelKeepsScheduling
  <2> QED
    BY <1>1, <1>2, <2>4 DEF PipelineInv, Passes, LatePasses, Apply
<1>3. CASE ~ScheduleDataflowNodeApplies /\ UNCHANGED ir /\ Proceed
  <2>1. /\ pass' = IF balanceDataflow THEN "balance" ELSE "canonicalize-1"
        /\ source' = source /\ ir' = ir /\ balanceDataflow' = balanceDataflow
    BY <1>1, <1>3, NextPassIs DEF Proceed
  <2>2. Balancing(source, ir)
    BY <1>1, ScheduleIsDone
  <2>3. CASE balanceDataflow
    BY <1>1, <2>1, <2>2, <2>3 DEF PipelineInv, Passes, LatePasses
  <2>4. CASE ~balanceDataflow
    <3>1. Cleaning(source, balanceDataflow, ir)
      BY <2>2, <2>4, BalanceIsDone
    <3> QED
      BY <1>1, <2>1, <2>4, <3>1 DEF PipelineInv, Passes, LatePasses
  <2> QED
    BY <2>3, <2>4
<1> QED
  BY <1>2, <1>3 DEF RunScheduleDataflowNode

\* A node balanced by BalanceDataflowNode, and its end.
LEMMA BalanceStepKeeps ==
    ASSUME PipelineInv, RunBalanceDataflowNode PROVE PipelineInv'
<1>1. /\ pass = "balance" /\ Balancing(source, ir) /\ ScheduleTypeOK(source) /\ balanceDataflow
  BY DEF PipelineInv, RunBalanceDataflowNode
<1>2. ASSUME NEW n \in Nodes(ir), InsertCopyNode(n), Apply PROVE PipelineInv'
  <2>1. OutputsBalanced(source, n, ir, ir', ir.outs[n])
    BY <1>1, <1>2, BalancedIs DEF InsertCopyNode
  <2>2. Balancing(source, ir')
    BY <2>1 DEF OutputsBalanced
  <2> QED
    BY <1>1, <1>2, <2>2 DEF PipelineInv, Passes, LatePasses, Apply
<1>3. CASE ~BalanceDataflowNodeApplies /\ UNCHANGED ir /\ Proceed
  <2>1. /\ pass' = "canonicalize-1" /\ source' = source /\ ir' = ir
        /\ balanceDataflow' = balanceDataflow
    BY <1>1, <1>3, NextPassIs DEF Proceed
  <2>2. ~IgnoreViolations => Edges(source, ir)
    BY <1>1, <1>3, FixpointBalanced DEF BalanceDataflowNodeApplies
  <2>3. Cleaning(source, balanceDataflow, ir)
    BY <1>1, <2>2, BalanceIsDone
  <2> QED
    BY <1>1, <2>1, <2>3 DEF PipelineInv, Passes, LatePasses
<1> QED
  BY <1>2, <1>3 DEF RunBalanceDataflowNode

\* A pattern of the canonicalizer, in any of its three runs, and its end.
LEMMA CanonicalizerStep ==
    ASSUME PipelineInv, RunCanonicalizer PROVE PipelineInv'
<1>1. /\ pass \in {"canonicalize-1", "canonicalize-2", "canonicalize-3"}
      /\ ScheduleTypeOK(ir) /\ ScheduleTypeOK(source)
      /\ pass = "canonicalize-1" => Cleaning(source, balanceDataflow, ir)
      /\ pass # "canonicalize-1" => Legalizing(source, balanceDataflow, ir)
  BY PipelineInvTypes DEF PipelineInv, RunCanonicalizer, LatePasses
<1>2. CASE /\ \/ \E n \in Nodes(ir) : SimplifyNodeIOs(n)
              \/ \E b \in Buffers(ir) : SinkInternalBuffer(b)
              \/ SimplifyScheduleOperands
           /\ Apply
  <2>1. Trimmed(ir, ir')
    BY <1>1, <1>2, SimplifyNodeIOsTrims, SinkTrims, SimplifyOperandsTrims
  <2>2. pass' = pass /\ source' = source /\ balanceDataflow' = balanceDataflow
    BY <1>2 DEF Apply
  <2>3. CASE pass = "canonicalize-1"
    <3>1. Cleaning(source, balanceDataflow, ir')
      BY <1>1, <2>1, <2>3, TrimmedKeepsCleaning
    <3> QED
      BY <1>1, <2>2, <2>3, <3>1 DEF PipelineInv, Passes, LatePasses
  <2>4. CASE pass # "canonicalize-1"
    <3>1. Condensed(ir, ir', TRUE)
      BY <2>1, TrimmedCondensed
    <3>2. Legalizing(source, balanceDataflow, ir')
      BY <1>1, <2>4, <3>1, CondensedKeepsLegalizing
    <3> QED
      BY <1>1, <2>2, <2>4, <3>2 DEF PipelineInv, Passes, LatePasses
  <2> QED
    BY <2>3, <2>4
<1>3. CASE ~CanonicalizeApplies /\ UNCHANGED ir /\ Proceed
  <2>1. /\ pass = "canonicalize-1" => pass' = "legalize"
        /\ pass = "canonicalize-2" => pass' = "simplify-if"
        /\ pass = "canonicalize-3" => pass' = "tokens"
        /\ source' = source /\ balanceDataflow' = balanceDataflow /\ ir' = ir
    BY <1>3, NextPassIs DEF Proceed
  <2>2. Legalizing(source, balanceDataflow, ir)
    BY <1>1, CleanIsDone
  <2> QED
    BY <1>1, <2>1, <2>2 DEF PipelineInv, Passes, LatePasses
<1> QED
  BY <1>2, <1>3 DEF RunCanonicalizer

\* Marking a schedule with a level on every node changes nothing else.
LEMMA MarkKeepsLegalizing ==
    ASSUME ScheduleTypeOK(ir), MarkLegal, NEW src, NEW bal, Legalizing(src, bal, ir)
    PROVE  Legalizing(src, bal, ir')
<1> DEFINE legal == ir.isLegal \/ AllLeveled(ir)
<1>1. IsSchedule(ir) /\ TypeOver(ir, Nodes(ir), Buffers(ir))
  BY TypeOfSchedule
<1>2. ir' = [ir EXCEPT !.isLegal = legal] /\ legal \in BOOLEAN
  BY DEF MarkLegal
<1> HIDE DEF legal
<1>3. /\ IsSchedule(ir') /\ ir'.depFree = ir.depFree /\ ir'.isLegal = legal
      /\ ir'.order = ir.order /\ ir'.level = ir.level /\ ir'.body = ir.body
      /\ ir'.ins = ir.ins /\ ir'.outs = ir.outs /\ SameBuffers(ir, ir')
  BY <1>1, <1>2 DEF IsSchedule, SameBuffers
<1>4. TypeOver(ir', Nodes(ir), Buffers(ir))
  BY <1>1, <1>2, <1>3 DEF TypeOver, SameBuffers
<1>5. ScheduleTypeOK(ir') /\ Nodes(ir') = Nodes(ir) /\ Buffers(ir') = Buffers(ir)
  BY <1>3, <1>4, ScheduleOfType
<1>6. \A x : Producers(ir', x) = Producers(ir, x) /\ Consumers(ir', x) = Consumers(ir, x)
  BY <1>3, <1>5 DEF Producers, Consumers
<1>7. \A x, m : DependentConsumers(ir', x, m) = DependentConsumers(ir, x, m)
  BY <1>3, <1>6 DEF DependentConsumers, Before, SameBuffers
<1>8. /\ Base(src, ir) /\ OneProducer(ir) /\ (Kept(src) => OneConsumer(ir))
      /\ ir.isLegal => AllLeveled(ir)
      /\ ~IgnoreViolations => /\ WritesAlone(ir)
                              /\ bal => Edges(src, ir) /\ (Kept(src) => DescendingAll(src, ir))
  BY DEF Legalizing
<1>9. Base(src, ir') /\ OneProducer(ir')
  BY <1>3, <1>5, <1>6, <1>8 DEF Base, FromSource, OneProducer, SameBuffers
<1>10. OneConsumer(ir) => OneConsumer(ir')
  BY <1>3, <1>5, <1>6 DEF OneConsumer, SameBuffers
<1>11. ir'.isLegal => AllLeveled(ir')
  BY <1>3, <1>5, <1>8 DEF AllLeveled, Leveled, legal
<1>12. WritesAlone(ir) => WritesAlone(ir')
  BY <1>3, <1>5, <1>6 DEF WritesAlone, SameBuffers, Leveled
<1>13. DescendingAll(src, ir) => DescendingAll(src, ir')
  BY <1>3, <1>5, <1>6 DEF DescendingAll, Leveled
<1>14. Edges(src, ir) => Edges(src, ir')
  BY <1>3, <1>5, <1>7 DEF Edges, Leveled, NotBalanced, Diff, SameBuffers
<1> QED
  BY <1>8, <1>9, <1>10, <1>11, <1>12, <1>13, <1>14 DEF Legalizing

\* The steps of LegalizeDataflow.
LEMMA LegalizeStep ==
    ASSUME PipelineInv, RunLegalizeDataflow PROVE PipelineInv'
<1>1. /\ pass = "legalize" /\ Legalizing(source, balanceDataflow, ir)
      /\ ScheduleTypeOK(ir) /\ ScheduleTypeOK(source)
  BY PipelineInvTypes DEF PipelineInv, RunLegalizeDataflow, LatePasses
<1>2. ASSUME Apply, Legalizing(source, balanceDataflow, ir') PROVE PipelineInv'
  BY <1>1, <1>2 DEF PipelineInv, Passes, LatePasses, Apply
<1>3. CASE FuseMultiConsumer /\ Apply
  <2>1. Condensed(ir, ir', TRUE)
    BY <1>1, <1>3, FuseMultiConsumerIs DEF FuseMultiConsumer, CanFuseMultiConsumer
  <2>2. Legalizing(source, balanceDataflow, ir')
    BY <1>1, <2>1, CondensedKeepsLegalizing
  <2> QED
    BY <1>2, <1>3, <2>2
<1>4. CASE FuseBypassPath /\ Apply
  <2>1. AllLeveled(ir)
    BY <1>4 DEF FuseBypassPath, CanFuseBypassPath
  <2>2. Condensed(ir, ir', FALSE)
    BY <1>1, <1>4, <2>1, FuseBypassPathIs DEF FuseBypassPath
  <2>3. balanceDataflow => IgnoreViolations
    <3> SUFFICES ASSUME balanceDataflow, ~IgnoreViolations PROVE FALSE
      OBVIOUS
    <3>1. Edges(source, ir) /\ FromSource(source, ir)
      BY <1>1 DEF Legalizing, Base
    <3>2. ~WrapsAround(ir) /\ BypassTargets(ir) = {}
      BY <1>1, <2>1, <3>1, NothingBypassed
    <3> QED
      BY <1>4, <3>2 DEF FuseBypassPath, CanFuseBypassPath
  <2>4. Legalizing(source, balanceDataflow, ir')
    BY <1>1, <2>1, <2>2, <2>3, CondensedKeepsLegalizing
  <2> QED
    BY <1>2, <1>4, <2>4
<1>5. CASE ~LegalizeDataflowApplies /\ MarkLegal /\ Proceed
  <2>1. /\ pass' = "canonicalize-2" /\ source' = source /\ balanceDataflow' = balanceDataflow
    BY <1>1, <1>5, NextPassIs DEF Proceed
  <2>2. Legalizing(source, balanceDataflow, ir')
    BY <1>1, <1>5, MarkKeepsLegalizing
  <2> QED
    BY <1>1, <2>1, <2>2 DEF PipelineInv, Passes, LatePasses
<1> QED
  BY <1>3, <1>4, <1>5 DEF RunLegalizeDataflow

\* The steps of SimplifyAffineIf.
LEMMA SimplifyIfStep ==
    ASSUME PipelineInv, RunSimplifyAffineIf PROVE PipelineInv'
<1>1. /\ pass = "simplify-if" /\ Legalizing(source, balanceDataflow, ir)
      /\ ScheduleTypeOK(ir) /\ ScheduleTypeOK(source)
  BY PipelineInvTypes DEF PipelineInv, RunSimplifyAffineIf, LatePasses
<1>2. ASSUME NEW n \in Nodes(ir), RemoveRedundantIf(n), Apply PROVE PipelineInv'
  <2>1. Condensed(ir, ir', TRUE)
    BY <1>1, <1>2, RemoveIfTrims, TrimmedCondensed
  <2>2. Legalizing(source, balanceDataflow, ir')
    BY <1>1, <2>1, CondensedKeepsLegalizing
  <2> QED
    BY <1>1, <1>2, <2>2 DEF PipelineInv, Passes, LatePasses, Apply
<1>3. CASE ~SimplifyAffineIfApplies /\ UNCHANGED ir /\ Proceed
  <2>1. /\ pass' = "canonicalize-3" /\ source' = source /\ ir' = ir
        /\ balanceDataflow' = balanceDataflow
    BY <1>1, <1>3, NextPassIs DEF Proceed
  <2> QED
    BY <1>1, <2>1 DEF PipelineInv, Passes, LatePasses
<1> QED
  BY <1>2, <1>3 DEF RunSimplifyAffineIf

\* The tokens are a matter of the uses and levels.
LEMMA TokensKeep ==
    ASSUME ScheduleTypeOK(ir), CreateTokenStream
    PROVE  Trimmed(ir, ir') /\ TokensMade'
<1>1. CASE ~ir.isLegal
  <2>1. ir' = ir
    BY <1>1 DEF CreateTokenStream
  <2>2. Trimmed(ir, ir')
    BY <2>1 DEF Trimmed
  <2> QED
    BY <1>1, <2>1, <2>2 DEF TokensMade
<1>2. CASE ir.isLegal
  <2> DEFINE made == UNION {Tokens(ir, b) : b \in TokenBuffers(ir)}
  <2>1. IsSchedule(ir) /\ TypeOver(ir, Nodes(ir), Buffers(ir))
    BY TypeOfSchedule
  <2>2. ir' = [ir EXCEPT !.tokens = made]
    BY <1>2 DEF CreateTokenStream
  <2> HIDE DEF made
  <2>3. /\ IsSchedule(ir') /\ SameBuffers(ir, ir') /\ ir'.tokens = made
        /\ ir'.depFree = ir.depFree /\ ir'.isLegal = ir.isLegal
        /\ ir'.order = ir.order /\ ir'.level = ir.level /\ ir'.body = ir.body
        /\ ir'.ins = ir.ins /\ ir'.outs = ir.outs
    BY <2>1, <2>2 DEF IsSchedule, SameBuffers
  <2>4. TypeOver(ir', Nodes(ir), Buffers(ir))
    BY <2>1, <2>3 DEF TypeOver, SameBuffers
  <2>5. ScheduleTypeOK(ir') /\ Nodes(ir') = Nodes(ir) /\ Buffers(ir') = Buffers(ir)
    BY <2>3, <2>4, ScheduleOfType
  <2>6. Trimmed(ir, ir')
    BY <2>3, <2>5 DEF Trimmed, SameBuffers
  <2>7. \A x : Producers(ir', x) = Producers(ir, x) /\ Consumers(ir', x) = Consumers(ir, x)
    BY <2>3, <2>5 DEF Producers, Consumers
  <2>8. \A x, m : DependentConsumers(ir', x, m) = DependentConsumers(ir, x, m)
    BY <2>3, <2>7 DEF DependentConsumers, Before, SameBuffers
  <2>9. TokenBuffers(ir') = TokenBuffers(ir)
    BY <2>3, <2>5, <2>7 DEF TokenBuffers, SameBuffers
  <2>10. \A b : Tokens(ir', b) = Tokens(ir, b)
    <3> SUFFICES ASSUME NEW b PROVE Tokens(ir', b) = Tokens(ir, b)
      OBVIOUS
    <3>1. (CHOOSE p \in Nodes(ir') : Producers(ir', b) = {p})
          = (CHOOSE p \in Nodes(ir) : Producers(ir, b) = {p})
      BY <2>5, <2>7
    <3> DEFINE p == CHOOSE p \in Nodes(ir) : Producers(ir, b) = {p}
               T(s) == {[buffer |-> b, producer |-> p, consumer |-> c,
                         depth |-> s.level[p] - s.level[c], tap |-> s.level[p] - s.level[c] - 1] :
                            c \in DependentConsumers(s, b, p)}
    <3>2. Tokens(ir', b) = T(ir') /\ Tokens(ir, b) = T(ir)
      BY <3>1 DEF Tokens
    <3> HIDE DEF p
    <3>3. T(ir') = T(ir)
      BY <2>3, <2>8
    <3> QED
      BY <3>2, <3>3
  <2>11. TokensMade'
    BY <2>3, <2>9, <2>10 DEF TokensMade, made
  <2> QED
    BY <2>6, <2>11
<1> QED
  BY <1>1, <1>2

\* CreateTokenStream.
LEMMA TokensStep ==
    ASSUME PipelineInv, RunCreateTokenStream PROVE PipelineInv'
<1>1. /\ pass = "tokens" /\ Legalizing(source, balanceDataflow, ir)
      /\ ScheduleTypeOK(ir) /\ ScheduleTypeOK(source)
  BY PipelineInvTypes DEF PipelineInv, RunCreateTokenStream, LatePasses
<1>2. pass' = "done" /\ source' = source /\ balanceDataflow' = balanceDataflow
  BY <1>1, NextPassIs DEF RunCreateTokenStream, Proceed
<1>3. Trimmed(ir, ir') /\ TokensMade'
  BY <1>1, TokensKeep DEF RunCreateTokenStream
<1>4. Legalizing(source, balanceDataflow, ir')
  BY <1>1, <1>3, TrimmedCondensed, CondensedKeepsLegalizing
<1> QED
  BY <1>1, <1>2, <1>3, <1>4 DEF PipelineInv, Passes, LatePasses

-----------------------------------------------------------------------------
(* The invariant of the passes, and what it says *)

\* The invariant is inductive.
LEMMA PipelineStep ==
    ASSUME PipelineInv, [Next]_vars PROVE PipelineInv'
<1>1. CASE Next
  BY <1>1, MultiProducerStep, MultiConsumerStep, ScheduleStep, BalanceStepKeeps,
     CanonicalizerStep, LegalizeStep, SimplifyIfStep, TokensStep DEF Next
<1>2. CASE UNCHANGED vars
  BY <1>2 DEF vars, PipelineInv, TokensMade
<1> QED
  BY <1>1, <1>2

\* Every reachable state of the pipeline satisfies the invariant of its pass, for every
\* source schedule, however large.
THEOREM PipelineInvariant == Spec => []PipelineInv
<1>1. Init => PipelineInv
  BY InitPipelineInv
<1>2. PipelineInv /\ [Next]_vars => PipelineInv'
  BY PipelineStep
<1> QED
  BY <1>1, <1>2, PTL DEF Spec

\* The schedule in every state is well formed: each node once in the block, ports that are
\* buffers, no buffer both read and written by a node (NodeOp::verify), depths of at least
\* one. No rewrite of any pass breaks this, whichever options are set.
THEOREM PipelineTypes == Spec => []TypeOK
<1>1. PipelineInv => TypeOK
  BY PipelineInvTypes, PassNumberIs DEF PipelineInv, TypeOK
<1> QED
  BY <1>1, PipelineInvariant, PTL

\* At most one, counted.
LEMMA OneCounted ==
    ASSUME NEW S, NEW T, IsFiniteSet(T), S \subseteq T, One(S)
    PROVE  Cardinality(S) <= 1
BY FS_Subset, OneIs

\* Which passes have run, and that the source is still in order, by the name of the pass.
LEMMA PassedIs ==
    ASSUME PipelineInv
    PROVE  /\ Passed("multi-producer") <=> pass # "multi-producer"
           /\ Passed("multi-consumer") <=> pass \notin {"multi-producer", "multi-consumer"}
           /\ Passed("balance") <=> pass \in LatePasses \cup {"canonicalize-1"}
           /\ Passed("canonicalize-1") <=> pass \in LatePasses
           /\ OrderKept /\ pass \in LatePasses => Kept(source)
<1>1. pass \in Passes
  BY DEF PipelineInv
<1>2. /\ Passed("multi-producer") <=> pass # "multi-producer"
      /\ Passed("multi-consumer") <=> pass \notin {"multi-producer", "multi-consumer"}
      /\ Passed("balance") <=> pass \in LatePasses \cup {"canonicalize-1"}
      /\ Passed("canonicalize-1") <=> pass \in LatePasses
  BY <1>1, PassNumberIs DEF Passed, Passes, LatePasses
<1> QED
  BY <1>2 DEF OrderKept, Kept

\* Violations that are eliminated are gone in every later pass.
LEMMA InvEliminates ==
    ASSUME PipelineInv PROVE ViolationsStayEliminated
<1>1. ScheduleTypeOK(ir)
  BY PipelineInvTypes
<1>2. ASSUME Passed("multi-producer"), NEW b \in Buffers(ir), ~ir.isArg[b]
      PROVE  Cardinality(Producers(ir, b)) <= 1
  <2>1. OneProducer(ir)
    BY <1>2, PassedIs DEF PipelineInv, Passes, LatePasses, Forking, Scheduling, Balancing,
       Cleaning, Legalizing
  <2> QED
    BY <1>1, <1>2, <2>1, ReadOrWrite, OneCounted DEF OneProducer
<1>3. ASSUME Passed("multi-consumer"), OrderKept,
             NEW n \in Nodes(ir), NEW b \in ir.outs[n], ~ir.ext[b]
      PROVE  Cardinality(DependentConsumers(ir, b, n)) <= 1
  <2>1. One(DependentConsumers(ir, b, n))
    <3>1. CASE pass \in LatePasses
      <4>1. OneConsumer(ir)
        BY <1>3, <3>1, PassedIs DEF PipelineInv, Legalizing
      <4> QED
        BY <1>3, <4>1 DEF OneConsumer, One, DependentConsumers
    <3>2. CASE pass \notin LatePasses
      <4>1. OneDependent(ir)
        BY <1>3, <3>2, PassedIs DEF PipelineInv, Passes, LatePasses, Scheduling, Balancing, Cleaning
      <4> QED
        BY <1>3, <4>1 DEF OneDependent
    <3> QED
      BY <3>1, <3>2
  <2>2. DependentConsumers(ir, b, n) \subseteq Consumers(ir, b) /\ IsFiniteSet(Consumers(ir, b))
    BY <1>1, ReadOrWrite DEF DependentConsumers
  <2> QED
    BY <2>1, <2>2, OneCounted
<1> QED
  BY <1>2, <1>3 DEF ViolationsStayEliminated

\* Levels descend along the dependences in every pass from scheduling on.
LEMMA InvOrdersLevels ==
    ASSUME PipelineInv, ~IgnoreViolations PROVE LevelsStayOrdered
<1> SUFFICES ASSUME balanceDataflow, OrderKept, NEW n \in Nodes(ir), Leveled(ir, n),
                    NEW b \in ir.outs[n], NEW c \in DependentConsumers(ir, b, n)
             PROVE  /\ Leveled(ir, c)
                    /\ ~RewrittenInLoop(b) => ir.level[c] < ir.level[n]
  BY DEF LevelsStayOrdered
<1>1. RewrittenInLoop(b) <=> WrittenAgain(source, b)
  BY DEF RewrittenInLoop, Rewritten, WrittenAgain
<1>2. CASE pass \in LatePasses
  <2>1. DescendingAll(source, ir)
    BY <1>2, PassedIs DEF PipelineInv, Legalizing
  <2> QED
    BY <1>1, <2>1 DEF DescendingAll, DependentConsumers
<1>3. CASE pass \in {"balance", "canonicalize-1"}
  <2>1. Descending(source, ir)
    BY <1>3 DEF PipelineInv, Balancing, Cleaning
  <2> QED
    BY <1>1, <2>1 DEF Descending
<1>4. CASE pass = "schedule"
  <2>1. Settled(ir) /\ ScheduleTypeOK(ir)
    BY <1>4, PipelineInvTypes DEF PipelineInv, Scheduling
  <2>2. c \in Dependents(ir, n)
    BY DEF Dependents
  <2> QED
    BY <2>1, <2>2, SettledIsAbove
<1>5. CASE pass \in {"multi-producer", "multi-consumer"}
  BY <1>5 DEF PipelineInv, Early, Forking, NoLevels
<1> QED
  BY <1>2, <1>3, <1>4, <1>5 DEF PipelineInv, Passes, LatePasses

\* After balancing the edges are balanced in every pass.
LEMMA InvBalancesEdges ==
    ASSUME PipelineInv, ~IgnoreViolations PROVE EdgesBalanced
<1> SUFFICES ASSUME balanceDataflow, Passed("balance") PROVE Edges(source, ir)
  BY DEF EdgesBalanced, Edges, RewrittenInLoop, Rewritten, WrittenAgain
<1> QED
  BY PassedIs DEF PipelineInv, Legalizing, Cleaning

\* A legal schedule has what ScheduleOp::verify asks for.
LEMMA InvVerifies ==
    ASSUME PipelineInv, ~IgnoreViolations PROVE LegalMeansVerified
<1> SUFFICES ASSUME ir.isLegal
             PROVE  /\ \A n \in Nodes(ir) : Leveled(ir, n)
                    /\ Kept(source) => NoViolationLeft
  BY DEF LegalMeansVerified, Kept
<1>1. ScheduleTypeOK(ir) /\ pass \in LatePasses
  BY PipelineInvTypes DEF PipelineInv
<1>2. Legalizing(source, balanceDataflow, ir)
  BY <1>1 DEF PipelineInv
<1>3. AllLeveled(ir)
  BY <1>2 DEF Legalizing
<1>4. ASSUME Kept(source), NEW n \in Nodes(ir), NEW b \in ir.outs[n], ~ir.ext[b]
      PROVE  /\ ~(Cardinality(DependentConsumers(ir, b, n)) > 1)
             /\ ~(Cardinality(Producers(ir, b)) > 1)
  <2>1. OneConsumer(ir) /\ WritesAlone(ir)
    BY <1>2, <1>4 DEF Legalizing
  <2>2. One(Consumers(ir, b)) /\ One(Producers(ir, b))
    BY <1>3, <1>4, <2>1 DEF OneConsumer, WritesAlone, AllLeveled
  <2>3. /\ IsFiniteSet(Consumers(ir, b)) /\ IsFiniteSet(Producers(ir, b))
        /\ DependentConsumers(ir, b, n) \subseteq Consumers(ir, b)
        /\ One(DependentConsumers(ir, b, n))
    BY <1>1, <2>2, ReadOrWrite DEF DependentConsumers, One
  <2>4. IsFiniteSet(DependentConsumers(ir, b, n))
    BY <2>3, FS_Subset
  <2> QED
    BY <2>2, <2>3, <2>4, OneIs
<1> QED
  BY <1>3, <1>4 DEF NoViolationLeft, HasViolation, AllLeveled

\* When all is done, the DRAM BufferOps between nodes have their tokens.
LEMMA InvMakesTokens ==
    ASSUME PipelineInv, ~IgnoreViolations PROVE DramBuffersHaveTokens
<1> SUFFICES ASSUME balanceDataflow, pass = "done", ir.isLegal,
                    NEW f, NEW b \in Buffers(ir), NEW p \in Nodes(ir), NEW c \in Nodes(ir),
                    DramFlow(f, b, p, c), ~ir.isArg[b]
             PROVE  HasToken(b, p, c)
  BY DEF DramBuffersHaveTokens
<1>1. /\ ScheduleTypeOK(ir) /\ ScheduleTypeOK(source) /\ FromSource(source, ir)
      /\ Legalizing(source, balanceDataflow, ir)
      /\ ir.tokens = UNION {Tokens(ir, d) : d \in TokenBuffers(ir)}
  BY PipelineInvTypes DEF PipelineInv, LatePasses, TokensMade, Base
<1>2. OneProducer(ir) /\ Edges(source, ir) /\ AllLeveled(ir)
  BY <1>1 DEF Legalizing
<1>3. p # c /\ b \in ir.outs[p] /\ b \in DOMAIN ir.ins[c] /\ ir.ext[b]
  BY DEF DramFlow
<1>4. Producers(ir, b) = {p}
  <2>1. p \in Producers(ir, b)
    BY <1>3 DEF Producers
  <2> QED
    BY <1>2, <2>1 DEF OneProducer, One
<1>5. b \in TokenBuffers(ir)
  <2>1. Cardinality({p}) = 1
    BY FS_Singleton
  <2> QED
    BY <1>3, <1>4, <2>1 DEF TokenBuffers
<1>6. c \in DependentConsumers(ir, b, p)
  BY <1>3 DEF DependentConsumers, Consumers
<1>7. (CHOOSE q \in Nodes(ir) : Producers(ir, b) = {q}) = p
  BY <1>4
<1> DEFINE k == [buffer |-> b, producer |-> p, consumer |-> c,
                 depth |-> ir.level[p] - ir.level[c], tap |-> ir.level[p] - ir.level[c] - 1]
<1>8. k \in Tokens(ir, b)
  BY <1>6, <1>7 DEF Tokens
<1>9. k \in ir.tokens
  BY <1>1, <1>5, <1>8
<1>10. k.tap >= 0
  <2>1. ~WrittenAgain(source, b)
    <3> SUFFICES ASSUME WrittenAgain(source, b) PROVE FALSE
      OBVIOUS
    <3>1. ~One(Producers(source, b)) /\ source.isArg[b]
      BY <1>1, WritersCounted DEF WrittenAgain
    <3>2. b \in Buffers(source)
      BY <1>1, <3>1 DEF One, Producers, ScheduleTypeOK
    <3> QED
      BY <1>1, <3>1, <3>2 DEF FromSource
  <2>2. ir.ins[c][b] = Diff(ir, p, c) - 1
    BY <1>2, <1>3, <1>6, <2>1 DEF Edges, AllLeveled, NotBalanced
  <2>3. ir.ins[c][b] \in Nat
    BY <1>1, <1>3 DEF ScheduleTypeOK
  <2>4. k.tap = Diff(ir, p, c) - 1
    BY DEF Diff
  <2> HIDE DEF k
  <2> QED
    BY <2>2, <2>3, <2>4
<1>11. k.buffer = b /\ k.producer = p /\ k.consumer = c
  OBVIOUS
<1> QED
  BY <1>9, <1>10, <1>11 DEF HasToken

\* What EliminateMultiProducer and EliminateMultiConsumer eliminate does not come back: not by
\* the copies of BalanceDataflowNode, nor by the fusions of LegalizeDataflow.
THEOREM EliminationsLast == Spec => []ViolationsStayEliminated
BY PipelineInvariant, InvEliminates, PTL

\* The levels ScheduleDataflowNode assigns stay in order through all that follows. The
\* option ignore-violations of the pass is not set in the pipelines of Transforms/Passes.cpp.
THEOREM LevelsLast == ~IgnoreViolations /\ Spec => []LevelsStayOrdered
<1> SUFFICES ASSUME ~IgnoreViolations PROVE Spec => []LevelsStayOrdered
  OBVIOUS
<1>1. PipelineInv => LevelsStayOrdered
  BY InvOrdersLevels
<1> QED
  BY <1>1, PipelineInvariant, PTL

\* What BalanceDataflowNode balances stays balanced: an edge spans one level, or is tapped
\* within the depth of a DRAM buffer.
THEOREM EdgesStayBalanced == ~IgnoreViolations /\ Spec => []EdgesBalanced
<1> SUFFICES ASSUME ~IgnoreViolations PROVE Spec => []EdgesBalanced
  OBVIOUS
<1>1. PipelineInv => EdgesBalanced
  BY InvBalancesEdges
<1> QED
  BY <1>1, PipelineInvariant, PTL

\* A schedule that is marked legal satisfies what its verifier demands of it.
THEOREM LegalIsVerified == ~IgnoreViolations /\ Spec => []LegalMeansVerified
<1> SUFFICES ASSUME ~IgnoreViolations PROVE Spec => []LegalMeansVerified
  OBVIOUS
<1>1. PipelineInv => LegalMeansVerified
  BY InvVerifies
<1> QED
  BY <1>1, PipelineInvariant, PTL

\* DRAM buffers between nodes of a legal schedule carry tokens when the pipeline is done.
THEOREM TokensAreMade == ~IgnoreViolations /\ Spec => []DramBuffersHaveTokens
<1> SUFFICES ASSUME ~IgnoreViolations PROVE Spec => []DramBuffersHaveTokens
  OBVIOUS
<1>1. PipelineInv => DramBuffersHaveTokens
  BY InvMakesTokens
<1> QED
  BY <1>1, PipelineInvariant, PTL
=============================================================================
