------------------------ MODULE DataflowFrontEndProofs ------------------------
(***************************************************************************)
(* For all programs: in front of the dataflow each value that is used stays *)
(* defined, and by an operation that comes first; the passes fail for named *)
(* causes only; and the tasks that are lowered have all operations of the   *)
(* block in order, with streams between them.                               *)
(*                                                                         *)
(* The passes rewrite the block with FlattenSeq of a sequence of sequences, *)
(* one for each operation: the first sections say where an operation is in  *)
(* it, and that it is a block when its operations are in a proper order of  *)
(* their places (IsFlatBlock). Then each rewrite of AffineBlock and of the  *)
(* passes keeps the block one. The invariant, FrontEndInv, says what each   *)
(* pass finds besides the block: the loads that may go, the stores, the     *)
(* lists of the partition, the tasks. The second one, OriginInv, compares   *)
(* the block with the function that AffineStoreForward began with.          *)
(***************************************************************************)
EXTENDS DataflowFrontEnd, NumberLemmas

-----------------------------------------------------------------------------
(* Sequences of sequences *)

\* A sequence is one of its elements.
LEMMA OwnRange ==
    ASSUME NEW T, NEW s \in Seq(T)
    PROVE  s \in Seq(ToSet(s)) /\ DOMAIN s = 1..Len(s) /\ Len(s) \in Nat
<1>1. DOMAIN s = 1..Len(s) /\ Len(s) \in Nat
  OBVIOUS
<1>2. \A i \in 1..Len(s) : s[i] \in ToSet(s)
  BY <1>1 DEF ToSet
<1>3. s \in Seq(ToSet(s))
  BY <1>2
<1> QED
  BY <1>1, <1>3

\* The places of the elements of the sequences in ss, and their order.
Place(ss) == {q \in (1..Len(ss)) \X (Nat \ {0}) : q[2] <= Len(ss[q[1]])}
Earlier(q, r) == q[1] < r[1] \/ (q[1] = r[1] /\ q[2] < r[2])

\* Where they are in the sequence s of all of them.
IsLayout(P, ss, s, at) ==
    /\ at \in [P -> 1..Len(s)]
    /\ \A q \in P : s[at[q]] = ss[q[1]][q[2]]
    /\ \A q, r \in P : Earlier(q, r) => at[q] < at[r]
    /\ \A k \in 1..Len(s) : \E q \in P : at[q] = k

\* One more sequence at the end.
LEMMA LayoutStep ==
    ASSUME NEW T, NEW ss, NEW k \in Nat \ {0}, NEW P, NEW Q, NEW at, NEW before \in Seq(T),
           ss[k] \in Seq(T), IsLayout(P, ss, before, at),
           \A q \in P : q[1] \in Nat /\ q[1] < k,
           \A q \in Q : q \in P \/ (q[1] = k /\ q[2] \in 1..Len(ss[k])),
           P \subseteq Q, \A j \in 1..Len(ss[k]) : <<k, j>> \in Q
    PROVE  \E there : IsLayout(Q, ss, before \o ss[k], there)
<1> DEFINE there == [q \in Q |-> IF q \in P THEN at[q] ELSE Len(before) + q[2]]
           s == before \o ss[k]
<1>1. s \in Seq(T) /\ Len(s) = Len(before) + Len(ss[k]) /\ Len(before) \in Nat /\ Len(ss[k]) \in Nat
  <2>1. \A b, c \in Seq(T) : /\ b \o c \in Seq(T) /\ Len(b \o c) = Len(b) + Len(c)
                             /\ Len(b) \in Nat /\ Len(c) \in Nat
    OBVIOUS
  <2> QED
    BY <2>1
<1>2. \A j \in 1..Len(before) : s[j] = before[j]
  OBVIOUS
<1>3. \A j \in 1..Len(ss[k]) : s[Len(before) + j] = ss[k][j]
  OBVIOUS
<1>4. \A q \in P : there[q] = at[q] /\ at[q] \in 1..Len(before) /\ before[at[q]] = ss[q[1]][q[2]]
  BY DEF IsLayout
<1>5. \A q \in Q : q \notin P => there[q] = Len(before) + q[2] /\ q[1] = k /\ q[2] \in 1..Len(ss[k])
  OBVIOUS
<1>6. there = [q \in Q |-> there[q]]
  OBVIOUS
<1> HIDE DEF there, s
<1>7. \A q \in Q : there[q] \in 1..Len(s)
  BY <1>1, <1>4, <1>5
<1>8. there \in [Q -> 1..Len(s)]
  BY <1>6, <1>7
<1>9. \A q \in Q : s[there[q]] = ss[q[1]][q[2]]
  BY <1>2, <1>3, <1>4, <1>5
<1>10. ASSUME NEW q \in Q, NEW r \in Q, Earlier(q, r) PROVE there[q] < there[r]
  <2>1. CASE r \in P
    <3>1. q \in P
      BY <1>5, <1>10, <2>1 DEF Earlier
    <3> QED
      BY <1>4, <1>10, <2>1, <3>1 DEF IsLayout
  <2>2. CASE r \notin P /\ q \in P
    BY <1>1, <1>4, <1>5, <2>2
  <2>3. CASE r \notin P /\ q \notin P
    BY <1>1, <1>5, <1>10, <2>3 DEF Earlier
  <2> QED
    BY <2>1, <2>2, <2>3
<1>11. ASSUME NEW j \in 1..Len(s) PROVE \E q \in Q : there[q] = j
  <2>1. CASE j <= Len(before)
    <3>1. PICK q \in P : at[q] = j
      BY <1>1, <2>1 DEF IsLayout
    <3> QED
      BY <1>4, <3>1
  <2>2. CASE j > Len(before)
    <3>1. j - Len(before) \in 1..Len(ss[k])
      BY <1>1, <2>2
    <3>2. <<k, j - Len(before)>> \in Q /\ <<k, j - Len(before)>> \notin P
      BY <3>1
    <3>3. there[<<k, j - Len(before)>>] = Len(before) + (j - Len(before))
      BY <1>5, <3>2
    <3> QED
      BY <1>1, <3>2, <3>3
  <2> QED
    BY <1>1, <2>1, <2>2
<1>12. IsLayout(Q, ss, s, there)
  BY <1>8, <1>9, <1>10, <1>11 DEF IsLayout
<1> QED
  BY <1>12 DEF s

\* The prefixes FlattenSeq is made of.
IsFlat(ss, f) == f = [i \in 1..Len(ss) |-> IF i = 1 THEN ss[i] ELSE f[i - 1] \o ss[i]]

UpToPlace(ss, k) == {q \in Place(ss) : q[1] <= k}

\* There are such prefixes, each a sequence of the elements.
LEMMA FlatExists ==
    ASSUME NEW T, NEW ss \in Seq(Seq(T))
    PROVE  \E f \in [1..Len(ss) -> Seq(T)] : IsFlat(ss, f)
<1> DEFINE N == Len(ss)
           Good(k, f) == f \in [1..k -> Seq(T)] /\ \A i \in 1..k : f[i] = IF i = 1 THEN ss[i] ELSE f[i - 1] \o ss[i]
           S == {k \in 0..N : \E f : Good(k, f)}
<1>1. N \in Nat /\ N = Len(ss) /\ \A i \in 1..N : ss[i] \in Seq(T)
  OBVIOUS
<1> HIDE DEF N
<1>2. 0 \in S
  <2>1. Good(0, [i \in 1..0 |-> << >>])
    OBVIOUS
  <2> HIDE DEF Good
  <2> QED
    BY <1>1, <2>1
<1>3. ASSUME NEW k \in 1..N, k - 1 \in S PROVE k \in S
  <2>1. PICK f : Good(k - 1, f)
    BY <1>3
  <2> DEFINE last == IF k = 1 THEN ss[k] ELSE f[k - 1] \o ss[k]
             g == [i \in 1..k |-> IF i < k THEN f[i] ELSE last]
  <2>2. last \in Seq(T)
    <3>1. k # 1 => f[k - 1] \in Seq(T)
      BY <2>1
    <3> QED
      BY <1>1, <3>1
  <2>3. \A i \in 1..(k - 1) : g[i] = f[i] /\ f[i] \in Seq(T)
    <3>1. \A i \in 1..(k - 1) : i \in 1..k /\ i < k
      OBVIOUS
    <3>2. \A i \in 1..(k - 1) : f[i] \in Seq(T)
      BY <2>1
    <3> HIDE DEF Good, last
    <3> QED
      BY <3>1, <3>2
  <2>4. g[k] = last
    OBVIOUS
  <2>5. g = [i \in 1..k |-> g[i]]
    OBVIOUS
  <2>6. ASSUME NEW i \in 1..k PROVE g[i] \in Seq(T) /\ g[i] = IF i = 1 THEN ss[i] ELSE g[i - 1] \o ss[i]
    <3>1. CASE i = k
      <4>1. i # 1 => g[i - 1] = f[i - 1]
        <5>1. i # 1 => i - 1 \in 1..(k - 1)
          BY <3>1
        <5> HIDE DEF g
        <5> QED
          BY <2>3, <5>1
      <4> HIDE DEF g
      <4> QED
        BY <2>2, <2>4, <3>1, <4>1
    <3>2. CASE i # k
      <4>1. i \in 1..(k - 1) /\ (i # 1 => i - 1 \in 1..(k - 1))
        BY <3>2
      <4> HIDE DEF g
      <4> QED
        BY <2>1, <2>3, <4>1
    <3> QED
      BY <3>1, <3>2
  <2> HIDE DEF g
  <2>7. Good(k, g)
    BY <2>5, <2>6
  <2> HIDE DEF Good
  <2> QED
    BY <2>7
<1> HIDE DEF S
<1>4. N \in S
  <2>1. 0..N \subseteq S
    BY <1>1, <1>2, <1>3, UpTo
  <2> QED
    BY <1>1, <2>1
<1>5. PICK f : Good(N, f)
  BY <1>4 DEF S
<1>6. f = [i \in 1..N |-> f[i]] /\ f \in [1..N -> Seq(T)]
  BY <1>5
<1>7. IsFlat(ss, f)
  BY <1>1, <1>5, <1>6 DEF IsFlat
<1> QED
  BY <1>1, <1>6, <1>7

\* FlattenSeq is the last of them.
LEMMA FlatIs ==
    ASSUME NEW T, NEW ss \in Seq(Seq(T))
    PROVE  IF ss = << >> THEN FlattenSeq(ss) = << >>
           ELSE \E f : IsFlat(ss, f) /\ FlattenSeq(ss) = f[Len(ss)]
<1>1. CASE ss = << >>
  BY <1>1 DEF FlattenSeq
<1>2. CASE ss # << >>
  <2>1. Len(ss) # 0
    BY <1>2
  <2> DEFINE flat == CHOOSE h : h = [i \in 1..Len(ss) |-> IF i = 1 THEN ss[i] ELSE h[i - 1] \o ss[i]]
  <2>2. FlattenSeq(ss) = flat[Len(ss)]
    BY <2>1 DEF FlattenSeq
  <2>3. \E h : h = [i \in 1..Len(ss) |-> IF i = 1 THEN ss[i] ELSE h[i - 1] \o ss[i]]
    <3>1. PICK f \in [1..Len(ss) -> Seq(T)] : IsFlat(ss, f)
      BY FlatExists
    <3> QED
      BY <3>1 DEF IsFlat
  <2>4. flat = [i \in 1..Len(ss) |-> IF i = 1 THEN ss[i] ELSE flat[i - 1] \o ss[i]]
    BY <2>3
  <2> HIDE DEF flat
  <2> QED
    BY <1>2, <2>2, <2>4 DEF IsFlat
<1> QED
  BY <1>1, <1>2

\* FlattenSeq holds each element of each sequence once, in order.
LEMMA Flattened ==
    ASSUME NEW T, NEW ss \in Seq(Seq(T))
    PROVE  FlattenSeq(ss) \in Seq(T) /\ \E at : IsLayout(Place(ss), ss, FlattenSeq(ss), at)
<1>1. Len(ss) \in Nat /\ \A i \in 1..Len(ss) : ss[i] \in Seq(T)
  OBVIOUS
<1>2. CASE ss = << >>
  <2>1. Len(ss) = 0 /\ FlattenSeq(ss) = << >>
    BY <1>2, FlatIs
  <2>2. Place(ss) = {}
    BY <2>1 DEF Place
  <2>3. [q \in {} |-> 0] \in [{} -> 1..Len(<< >>)] /\ 1..Len(<< >>) = {}
    OBVIOUS
  <2>4. IsLayout({}, ss, << >>, [q \in {} |-> 0])
    BY <2>3 DEF IsLayout
  <2> QED
    BY <2>1, <2>2, <2>4
<1>3. CASE ss # << >>
  <2>1. PICK f : IsFlat(ss, f) /\ FlattenSeq(ss) = f[Len(ss)]
    BY <1>3, FlatIs
  <2>2. \A k \in 1..Len(ss) : f[k] = IF k = 1 THEN ss[k] ELSE f[k - 1] \o ss[k]
    BY <2>1 DEF IsFlat
  <2> DEFINE Ok(s, k) == s \in Seq(T) /\ \E at : IsLayout(UpToPlace(ss, k), ss, s, at)
             S == {k \in 0..Len(ss) : k > 0 => Ok(f[k], k)}
  <2>3. 0 \in S
    BY <1>1
  <2>4. ASSUME NEW k \in 1..Len(ss), k - 1 \in S PROVE k \in S
    <3>1. ss[k] \in Seq(T) /\ k \in Nat \ {0} /\ k - 1 \in 0..Len(ss)
      BY <1>1
    <3>2. PICK before : f[k] = before \o ss[k] /\ Ok(before, k - 1)
      <4>1. CASE k = 1
        <5>1. f[k] = << >> \o ss[k] /\ << >> \in Seq(T)
          BY <2>2, <3>1, <4>1
        <5>2. UpToPlace(ss, 0) = {}
          BY DEF UpToPlace, Place
        <5>3. [q \in {} |-> 0] \in [{} -> 1..Len(<< >>)] /\ 1..Len(<< >>) = {}
          OBVIOUS
        <5>4. IsLayout({}, ss, << >>, [q \in {} |-> 0])
          BY <5>3 DEF IsLayout
        <5>5. UpToPlace(ss, k - 1) = {}
          BY <4>1, <5>2
        <5>6. Ok(<< >>, k - 1)
          BY <5>1, <5>4, <5>5
        <5> HIDE DEF Ok
        <5> QED
          BY <5>1, <5>6
      <4>2. CASE k # 1
        <5>1. f[k] = f[k - 1] \o ss[k]
          BY <2>2, <4>2
        <5>2. k - 1 > 0
          BY <4>2
        <5>3. Ok(f[k - 1], k - 1)
          BY <2>4, <5>2
        <5> HIDE DEF Ok
        <5> QED
          BY <5>1, <5>3
      <4> QED
        BY <4>1, <4>2
    <3>3. PICK at : IsLayout(UpToPlace(ss, k - 1), ss, before, at)
      BY <3>2
    <3>4. \A q \in UpToPlace(ss, k - 1) : q[1] \in Nat /\ q[1] < k
      BY <3>1 DEF UpToPlace, Place
    <3>5. \A q \in UpToPlace(ss, k) : q \in UpToPlace(ss, k - 1) \/ (q[1] = k /\ q[2] \in 1..Len(ss[k]))
      BY <1>1 DEF UpToPlace, Place
    <3>6. UpToPlace(ss, k - 1) \subseteq UpToPlace(ss, k)
      BY DEF UpToPlace, Place
    <3>7. \A j \in 1..Len(ss[k]) : <<k, j>> \in UpToPlace(ss, k)
      BY <3>1 DEF UpToPlace, Place
    <3>8. \E there : IsLayout(UpToPlace(ss, k), ss, before \o ss[k], there)
      BY <3>1, <3>2, <3>3, <3>4, <3>5, <3>6, <3>7, LayoutStep
    <3>9. f[k] \in Seq(T)
      BY <3>1, <3>2
    <3>10. Ok(f[k], k)
      BY <3>2, <3>8, <3>9
    <3> HIDE DEF Ok
    <3> QED
      BY <3>1, <3>10
  <2> HIDE DEF S
  <2>5. Len(ss) \in S
    <3>1. 0..Len(ss) \subseteq S
      BY <1>1, <2>3, <2>4, UpTo
    <3> QED
      BY <1>1, <3>1
  <2>6. Ok(f[Len(ss)], Len(ss))
    <3>1. Len(ss) > 0
      BY <1>1, <1>3
    <3> QED
      BY <2>5, <3>1 DEF S
  <2>7. UpToPlace(ss, Len(ss)) = Place(ss)
    BY DEF UpToPlace, Place
  <2> QED
    BY <2>1, <2>6, <2>7
<1> QED
  BY <1>2, <1>3

-----------------------------------------------------------------------------
(* Blocks *)

OpAt(ss, q) == ss[q[1]][q[2]]

\* What makes the sequence of all elements of the sequences in ss a block.
IsFlatBlock(ss) ==
    /\ \A q \in Place(ss) : IsOperation(OpAt(ss, q))
    /\ \A q, r \in Place(ss) : OpAt(ss, q).id = OpAt(ss, r).id => q = r
    /\ \A q \in Place(ss) : OpAt(ss, q).parent # 0 =>
          \E r \in Place(ss) :
              /\ Earlier(r, q) /\ OpAt(ss, r).id = OpAt(ss, q).parent /\ OpAt(ss, r).kind = "if"
              /\ \A t \in Place(ss) : Earlier(r, t) /\ Earlier(t, q) =>
                    OpAt(ss, t).parent = OpAt(ss, q).parent
    /\ \A q \in Place(ss) : \A x \in ToSet(OpAt(ss, q).args) : x > 0 =>
          \E r \in Place(ss) :
              /\ Earlier(r, q) /\ OpAt(ss, r).id = x /\ HasResult(OpAt(ss, r))
              /\ OpAt(ss, r).parent = 0 \/ BlockOf(OpAt(ss, r)) = BlockOf(OpAt(ss, q))

\* Places are in a total order, and the layout keeps it.
LEMMA LayoutOrder ==
    ASSUME NEW ss, NEW s, NEW at, IsLayout(Place(ss), ss, s, at)
    PROVE  /\ \A q, r \in Place(ss) : Earlier(q, r) <=> at[q] < at[r]
           /\ \A q \in Place(ss) : at[q] \in 1..Len(s) /\ s[at[q]] = OpAt(ss, q)
<1>1. \A q \in Place(ss) : at[q] \in Nat /\ at[q] \in 1..Len(s)
  BY DEF IsLayout
<1>2. ASSUME NEW q \in Place(ss), NEW r \in Place(ss), at[q] < at[r] PROVE Earlier(q, r)
  <2>1. q[1] \in Nat /\ q[2] \in Nat /\ r[1] \in Nat /\ r[2] \in Nat
        /\ q = <<q[1], q[2]>> /\ r = <<r[1], r[2]>>
    BY DEF Place
  <2>2. CASE q = r
    BY <1>1, <1>2, <2>2
  <2>3. CASE q # r /\ ~Earlier(q, r)
    <3>1. Earlier(r, q)
      BY <2>1, <2>3 DEF Earlier
    <3> QED
      BY <1>1, <1>2, <3>1 DEF IsLayout
  <2> QED
    BY <2>2, <2>3
<1> QED
  BY <1>1, <1>2 DEF IsLayout, OpAt

\* It is a block.
LEMMA FlatBlock ==
    ASSUME NEW T, NEW ss \in Seq(Seq(T)), IsFlatBlock(ss)
    PROVE  IsBlock(FlattenSeq(ss))
<1> DEFINE b == FlattenSeq(ss)
           P == Place(ss)
<1>1. b \in Seq(T) /\ \E at : IsLayout(P, ss, b, at)
  BY Flattened
<1> HIDE DEF b, P
<1>2. PICK at : IsLayout(P, ss, b, at)
  BY <1>1
<1>3. b \in Seq(ToSet(b)) /\ DOMAIN b = 1..Len(b) /\ Len(b) \in Nat
  <2>1. b \in Seq(T)
    BY <1>1
  <2> QED
    BY <2>1, OwnRange
<1>4. /\ \A q, r \in P : Earlier(q, r) <=> at[q] < at[r]
      /\ \A q \in P : at[q] \in 1..Len(b) /\ b[at[q]] = OpAt(ss, q)
  BY <1>2, LayoutOrder DEF P
<1>5. \A i \in 1..Len(b) : \E q \in P : at[q] = i /\ b[i] = OpAt(ss, q)
  BY <1>2, <1>4 DEF IsLayout
<1>6. \A i \in DOMAIN b : IsOperation(b[i])
  BY <1>3, <1>5 DEF IsFlatBlock, P
<1>7. \A i, j \in DOMAIN b : b[i].id = b[j].id => i = j
  BY <1>3, <1>5 DEF IsFlatBlock, P
<1>8. ASSUME NEW i \in DOMAIN b, b[i].parent # 0
      PROVE  \E j \in 1..(i - 1) : /\ b[j].id = b[i].parent /\ b[j].kind = "if"
                                   /\ \A k \in (j + 1)..(i - 1) : b[k].parent = b[i].parent
  <2>1. PICK q \in P : at[q] = i /\ b[i] = OpAt(ss, q)
    BY <1>3, <1>5
  <2>2. PICK r \in P :
              /\ Earlier(r, q) /\ OpAt(ss, r).id = OpAt(ss, q).parent /\ OpAt(ss, r).kind = "if"
              /\ \A t \in P : Earlier(r, t) /\ Earlier(t, q) =>
                    OpAt(ss, t).parent = OpAt(ss, q).parent
    BY <1>8, <2>1 DEF IsFlatBlock, P
  <2>3. at[r] \in 1..(i - 1) /\ b[at[r]] = OpAt(ss, r)
    BY <1>3, <1>4, <2>1, <2>2
  <2>4. ASSUME NEW k \in (at[r] + 1)..(i - 1) PROVE b[k].parent = b[i].parent
    <3>1. k \in 1..Len(b) /\ at[r] < k /\ k < i
      BY <1>3, <1>4, <2>1, <2>3
    <3>2. PICK t \in P : at[t] = k /\ b[k] = OpAt(ss, t)
      BY <1>5, <3>1
    <3> QED
      BY <1>4, <2>1, <2>2, <3>1, <3>2
  <2> QED
    BY <2>1, <2>2, <2>3, <2>4
<1>9. ASSUME NEW i \in DOMAIN b, NEW x \in ToSet(b[i].args), x > 0
      PROVE  \E j \in 1..(i - 1) : /\ b[j].id = x /\ HasResult(b[j])
                                   /\ b[j].parent = 0 \/ BlockOf(b[j]) = BlockOf(b[i])
  <2>1. PICK q \in P : at[q] = i /\ b[i] = OpAt(ss, q)
    BY <1>3, <1>5
  <2>2. PICK r \in P :
              /\ Earlier(r, q) /\ OpAt(ss, r).id = x /\ HasResult(OpAt(ss, r))
              /\ OpAt(ss, r).parent = 0 \/ BlockOf(OpAt(ss, r)) = BlockOf(OpAt(ss, q))
    BY <1>9, <2>1 DEF IsFlatBlock, P
  <2>3. at[r] \in 1..(i - 1) /\ b[at[r]] = OpAt(ss, r)
    BY <1>3, <1>4, <2>1, <2>2
  <2> QED
    BY <2>1, <2>2, <2>3
<1>10. IsBlock(b)
  BY <1>3, <1>6, <1>7, <1>8, <1>9 DEF IsBlock
<1> QED
  BY <1>10 DEF b

\* The basic facts of a block, by position.
LEMMA BlockFacts ==
    ASSUME NEW b, IsBlock(b)
    PROVE  /\ b \in Seq(ToSet(b)) /\ DOMAIN b = 1..Len(b) /\ Len(b) \in Nat
           /\ \A i \in 1..Len(b) : At(b, b[i].id) = i /\ OpOf(b, b[i].id) = b[i] /\ b[i].id \in Ids(b)
           /\ \A x \in Ids(b) : At(b, x) \in 1..Len(b) /\ b[At(b, x)].id = x /\ OpOf(b, x) = b[At(b, x)]
<1>1. b \in Seq(ToSet(b)) /\ DOMAIN b = 1..Len(b) /\ Len(b) \in Nat
  BY OwnRange DEF IsBlock
<1>2. \A i, j \in 1..Len(b) : b[i].id = b[j].id => i = j
  BY <1>1 DEF IsBlock
<1>3. \A i \in 1..Len(b) : At(b, b[i].id) = i
  BY <1>1, <1>2 DEF At
<1>4. \A x \in Ids(b) : \E i \in 1..Len(b) : x = b[i].id
  BY <1>1 DEF Ids
<1>5. \A i \in 1..Len(b) : b[i].id \in Ids(b)
  BY <1>1 DEF Ids
<1> QED
  BY <1>1, <1>3, <1>4, <1>5 DEF OpOf

\* What the block has: the operations of ss, in the order of their places.
LEMMA FlatView ==
    ASSUME NEW T, NEW ss \in Seq(Seq(T)), IsFlatBlock(ss)
    PROVE  /\ Ids(FlattenSeq(ss)) = {OpAt(ss, q).id : q \in Place(ss)}
           /\ \A q \in Place(ss) : OpOf(FlattenSeq(ss), OpAt(ss, q).id) = OpAt(ss, q)
           /\ \A q, r \in Place(ss) :
                 Before(FlattenSeq(ss), OpAt(ss, q).id, OpAt(ss, r).id) <=> Earlier(q, r)
<1> DEFINE b == FlattenSeq(ss)
           P == Place(ss)
<1>1. IsBlock(b) /\ \E at : IsLayout(P, ss, b, at)
  BY Flattened, FlatBlock
<1> HIDE DEF b, P
<1>2. PICK at : IsLayout(P, ss, b, at)
  BY <1>1
<1>3. /\ DOMAIN b = 1..Len(b)
      /\ \A i \in 1..Len(b) : At(b, b[i].id) = i /\ OpOf(b, b[i].id) = b[i] /\ b[i].id \in Ids(b)
  BY <1>1, BlockFacts
<1>4. /\ \A q, r \in P : Earlier(q, r) <=> at[q] < at[r]
      /\ \A q \in P : at[q] \in 1..Len(b) /\ b[at[q]] = OpAt(ss, q)
  BY <1>2, LayoutOrder DEF P
<1>5. \A i \in 1..Len(b) : \E q \in P : at[q] = i /\ b[i] = OpAt(ss, q)
  BY <1>2, <1>4 DEF IsLayout
<1>6. Ids(b) = {OpAt(ss, q).id : q \in P}
  <2>1. ASSUME NEW x \in Ids(b) PROVE x \in {OpAt(ss, q).id : q \in P}
    BY <1>3, <1>5 DEF Ids
  <2>2. ASSUME NEW q \in P PROVE OpAt(ss, q).id \in Ids(b)
    BY <1>3, <1>4
  <2> QED
    BY <2>1, <2>2
<1>7. \A q \in P : OpOf(b, OpAt(ss, q).id) = OpAt(ss, q) /\ At(b, OpAt(ss, q).id) = at[q]
  BY <1>3, <1>4
<1>8. \A q, r \in P : Before(b, OpAt(ss, q).id, OpAt(ss, r).id) <=> Earlier(q, r)
  BY <1>4, <1>7 DEF Before
<1> QED
  BY <1>6, <1>7, <1>8 DEF b, P

\* The basic facts of a block, by id: what an operation is in, ...
LEMMA BlockParents ==
    ASSUME NEW b, IsBlock(b), NEW x \in Ids(b), OpOf(b, x).parent # 0
    PROVE  LET if == OpOf(b, x).parent
           IN  /\ if \in Ids(b) /\ OpOf(b, if).kind = "if" /\ OpOf(b, if).parent = 0
               /\ Before(b, if, x)
               /\ \A y \in Ids(b) : Before(b, if, y) /\ Before(b, y, x) => OpOf(b, y).parent = if
<1> DEFINE i == At(b, x)
           if == OpOf(b, x).parent
<1>1. /\ DOMAIN b = 1..Len(b) /\ Len(b) \in Nat
      /\ \A k \in 1..Len(b) : At(b, b[k].id) = k /\ OpOf(b, b[k].id) = b[k] /\ b[k].id \in Ids(b)
      /\ \A y \in Ids(b) : At(b, y) \in 1..Len(b) /\ b[At(b, y)].id = y /\ OpOf(b, y) = b[At(b, y)]
  BY BlockFacts
<1>2. i \in DOMAIN b /\ b[i].parent # 0 /\ OpOf(b, x) = b[i] /\ i \in 1..Len(b)
  BY <1>1
<1>3. PICK j \in 1..(i - 1) : /\ b[j].id = b[i].parent /\ b[j].kind = "if"
                              /\ \A k \in (j + 1)..(i - 1) : b[k].parent = b[i].parent
  BY <1>2 DEF IsBlock
<1>4. j \in 1..Len(b) /\ j < i /\ i \in Nat
  BY <1>1, <1>2
<1>5. if = b[j].id
  BY <1>2, <1>3
<1>6. At(b, if) = j /\ OpOf(b, if) = b[j] /\ if \in Ids(b)
  BY <1>1, <1>4, <1>5
<1>7. IsOperation(b[j])
  BY <1>1, <1>4 DEF IsBlock
<1>8. b[j].kind = "if" /\ b[j].parent = 0
  BY <1>3, <1>7 DEF IsOperation
<1>9. Before(b, if, x)
  BY <1>4, <1>6 DEF Before
<1>10. ASSUME NEW y \in Ids(b), Before(b, if, y), Before(b, y, x) PROVE OpOf(b, y).parent = if
  <2>1. At(b, y) \in (j + 1)..(i - 1) /\ OpOf(b, y) = b[At(b, y)]
    BY <1>1, <1>4, <1>6, <1>10 DEF Before
  <2> QED
    BY <1>2, <1>3, <2>1
<1> HIDE DEF i
<1> QED
  BY <1>6, <1>8, <1>9, <1>10

\* ... what it uses, ...
LEMMA BlockUses ==
    ASSUME NEW b, IsBlock(b), NEW y \in Ids(b), NEW x \in ToSet(OpOf(b, y).args), x > 0
    PROVE  x \in Ids(b) /\ HasResult(OpOf(b, x)) /\ Dominates(b, x, y)
<1> DEFINE i == At(b, y)
<1>1. /\ DOMAIN b = 1..Len(b) /\ Len(b) \in Nat
      /\ \A k \in 1..Len(b) : At(b, b[k].id) = k /\ OpOf(b, b[k].id) = b[k] /\ b[k].id \in Ids(b)
      /\ At(b, y) \in 1..Len(b) /\ b[At(b, y)].id = y /\ OpOf(b, y) = b[At(b, y)]
  BY BlockFacts
<1>2. i \in DOMAIN b /\ x \in ToSet(b[i].args) /\ OpOf(b, y) = b[i] /\ i \in 1..Len(b)
  BY <1>1
<1>3. PICK j \in 1..(i - 1) : /\ b[j].id = x /\ HasResult(b[j])
                              /\ b[j].parent = 0 \/ BlockOf(b[j]) = BlockOf(b[i])
  BY <1>2 DEF IsBlock
<1>4. j \in 1..Len(b) /\ j < i
  BY <1>1, <1>2
<1>5. At(b, x) = j /\ OpOf(b, x) = b[j] /\ x \in Ids(b)
  BY <1>1, <1>3, <1>4
<1> QED
  BY <1>2, <1>3, <1>4, <1>5 DEF Dominates, Before, SameRegion

\* ... and what kind of record it is.
LEMMA BlockOps ==
    ASSUME NEW b, IsBlock(b), NEW x \in Ids(b)
    PROVE  IsOperation(OpOf(b, x)) /\ OpOf(b, x).id = x /\ x \in Nat \ {0}
<1>1. /\ DOMAIN b = 1..Len(b)
      /\ At(b, x) \in 1..Len(b) /\ b[At(b, x)].id = x /\ OpOf(b, x) = b[At(b, x)]
  BY BlockFacts
<1>2. IsOperation(b[At(b, x)])
  BY <1>1 DEF IsBlock
<1> QED
  BY <1>1, <1>2 DEF IsOperation

\* The order of the operations of a block is total, and domination transitive.
LEMMA BlockOrder ==
    ASSUME NEW b, IsBlock(b)
    PROVE  /\ \A x, y \in Ids(b) : x # y => Before(b, x, y) \/ Before(b, y, x)
           /\ \A x, y \in Ids(b) : Before(b, x, y) => x # y /\ ~Before(b, y, x)
           /\ \A x, y, z \in Ids(b) : Before(b, x, y) /\ Before(b, y, z) => Before(b, x, z)
           /\ \A x, y, z \in Ids(b) : Dominates(b, x, y) /\ Dominates(b, y, z) => Dominates(b, x, z)
<1>1. \A x \in Ids(b) : At(b, x) \in Nat /\ b[At(b, x)].id = x
  <2>1. Len(b) \in Nat /\ \A x \in Ids(b) : At(b, x) \in 1..Len(b) /\ b[At(b, x)].id = x
    BY BlockFacts
  <2> QED
    BY <2>1
<1>2. \A x, y \in Ids(b) : x # y => Before(b, x, y) \/ Before(b, y, x)
  BY <1>1 DEF Before
<1>3. \A x, y \in Ids(b) : Before(b, x, y) => x # y /\ ~Before(b, y, x)
  BY <1>1 DEF Before
<1>4. \A x, y, z \in Ids(b) : Before(b, x, y) /\ Before(b, y, z) => Before(b, x, z)
  BY <1>1 DEF Before
<1>5. \A x \in Ids(b) : IsOperation(OpOf(b, x))
  BY BlockOps
<1>6. ASSUME NEW x \in Ids(b), NEW y \in Ids(b), NEW z \in Ids(b), Dominates(b, x, y), Dominates(b, y, z)
      PROVE  Dominates(b, x, z)
  <2>1. CASE OpOf(b, y).parent = 0
    BY <1>4, <1>6, <2>1 DEF Dominates, SameRegion, BlockOf
  <2>2. CASE OpOf(b, y).parent # 0
    BY <1>4, <1>6, <2>2 DEF Dominates, SameRegion, BlockOf
  <2> QED
    BY <2>1, <2>2
<1> QED
  BY <1>2, <1>3, <1>4, <1>6

-----------------------------------------------------------------------------
(* Rewriting that keeps the positions, and rewriting that leaves some out *)

\* Every operation stays where it is.
LEMMA MappedBlock ==
    ASSUME NEW T, NEW b, IsBlock(b), NEW c \in Seq(T), DOMAIN c = DOMAIN b,
           \A i \in DOMAIN b :
              /\ IsOperation(c[i]) /\ c[i].id = b[i].id /\ BlockOf(c[i]) = BlockOf(b[i])
              /\ b[i].kind = "if" => c[i].kind = "if"
              /\ HasResult(b[i]) => HasResult(c[i])
              /\ \A x \in ToSet(c[i].args) : x > 0 =>
                    \/ x \in ToSet(b[i].args)
                    \/ x \in Ids(b) /\ HasResult(OpOf(b, x)) /\ Dominates(b, x, b[i].id)
    PROVE  /\ IsBlock(c) /\ Ids(c) = Ids(b)
           /\ \A x \in Ids(b) : At(c, x) = At(b, x) /\ OpOf(c, x) = c[At(b, x)]
<1>1. /\ DOMAIN b = 1..Len(b) /\ Len(b) \in Nat
      /\ \A k \in 1..Len(b) : At(b, b[k].id) = k /\ OpOf(b, b[k].id) = b[k] /\ b[k].id \in Ids(b)
      /\ \A y \in Ids(b) : At(b, y) \in 1..Len(b) /\ b[At(b, y)].id = y /\ OpOf(b, y) = b[At(b, y)]
  BY BlockFacts
<1>2. c \in Seq(ToSet(c)) /\ DOMAIN c = 1..Len(b)
  BY <1>1, OwnRange
<1>3. \A i, j \in DOMAIN c : c[i].id = c[j].id => i = j
  BY <1>1
<1>4. \A i \in DOMAIN b : c[i].parent = b[i].parent /\ c[i].branch = b[i].branch
  BY DEF BlockOf
<1>5. ASSUME NEW i \in DOMAIN c, c[i].parent # 0
      PROVE  \E j \in 1..(i - 1) : /\ c[j].id = c[i].parent /\ c[j].kind = "if"
                                   /\ \A k \in (j + 1)..(i - 1) : c[k].parent = c[i].parent
  <2>1. PICK j \in 1..(i - 1) : /\ b[j].id = b[i].parent /\ b[j].kind = "if"
                                /\ \A k \in (j + 1)..(i - 1) : b[k].parent = b[i].parent
    BY <1>4, <1>5 DEF IsBlock
  <2>2. 1..(i - 1) \subseteq DOMAIN b /\ (j + 1)..(i - 1) \subseteq DOMAIN b
    BY <1>1, <2>1
  <2> QED
    BY <1>4, <2>1, <2>2
<1>6. ASSUME NEW i \in DOMAIN c, NEW x \in ToSet(c[i].args), x > 0
      PROVE  \E j \in 1..(i - 1) : /\ c[j].id = x /\ HasResult(c[j])
                                   /\ c[j].parent = 0 \/ BlockOf(c[j]) = BlockOf(c[i])
  <2>1. PICK j \in 1..(i - 1) : /\ b[j].id = x /\ HasResult(b[j])
                                /\ b[j].parent = 0 \/ BlockOf(b[j]) = BlockOf(b[i])
    <3>1. CASE x \in ToSet(b[i].args)
      BY <1>6, <3>1 DEF IsBlock
    <3>2. CASE x \in Ids(b) /\ HasResult(OpOf(b, x)) /\ Dominates(b, x, b[i].id)
      <4>1. At(b, x) \in 1..(i - 1)
        BY <1>1, <3>2 DEF Dominates, Before
      <4> QED
        BY <1>1, <3>2, <4>1 DEF Dominates, SameRegion
    <3> QED
      BY <1>6, <3>1, <3>2
  <2>2. j \in DOMAIN b
    BY <1>1, <2>1
  <2> QED
    BY <1>4, <2>1, <2>2
<1>7. IsBlock(c)
  BY <1>2, <1>3, <1>5, <1>6 DEF IsBlock
<1>8. Ids(c) = Ids(b)
  BY DEF Ids
<1>9. \A k \in 1..Len(c) : At(c, c[k].id) = k /\ OpOf(c, c[k].id) = c[k]
  BY <1>7, BlockFacts
<1>10. ASSUME NEW x \in Ids(b) PROVE At(c, x) = At(b, x) /\ OpOf(c, x) = c[At(b, x)]
  <2>1. At(b, x) \in 1..Len(c) /\ c[At(b, x)].id = x
    <3>1. Len(c) = Len(b)
      BY <1>1, <1>2
    <3> QED
      BY <1>1, <3>1
  <2> QED
    BY <1>9, <2>1
<1> QED
  BY <1>7, <1>8, <1>10

\* The operations at the positions K stay, as those of c.
Sifted(c, K) == FlattenSeq([i \in DOMAIN c |-> IF i \in K THEN <<c[i]>> ELSE << >>])

\* They are a block if what they need stays with them, and keep their order.
LEMMA SiftedBlock ==
    ASSUME NEW T, NEW c \in Seq(T), NEW K \in SUBSET DOMAIN c,
           \A i \in K : IsOperation(c[i]),
           \A i, j \in K : c[i].id = c[j].id => i = j,
           \A i \in K : c[i].parent # 0 =>
              \E j \in K : /\ j < i /\ c[j].id = c[i].parent /\ c[j].kind = "if"
                           /\ \A k \in K : j < k /\ k < i => c[k].parent = c[i].parent,
           \A i \in K : \A x \in ToSet(c[i].args) : x > 0 =>
              \E j \in K : /\ j < i /\ c[j].id = x /\ HasResult(c[j])
                           /\ c[j].parent = 0 \/ BlockOf(c[j]) = BlockOf(c[i])
    PROVE  /\ IsBlock(Sifted(c, K))
           /\ Ids(Sifted(c, K)) = {c[i].id : i \in K}
           /\ \A i \in K : OpOf(Sifted(c, K), c[i].id) = c[i]
           /\ \A i, j \in K : Before(Sifted(c, K), c[i].id, c[j].id) <=> i < j
<1> DEFINE ss == [i \in DOMAIN c |-> IF i \in K THEN <<c[i]>> ELSE << >>]
           Pl(i) == <<i, 1>>
<1>1. DOMAIN c = 1..Len(c) /\ Len(c) \in Nat
  OBVIOUS
<1>2. ss \in Seq(Seq(T)) /\ Len(ss) = Len(c) /\ \A i \in 1..Len(c) : ss[i] = IF i \in K THEN <<c[i]>> ELSE << >>
  <2>1. \A i \in 1..Len(c) : (IF i \in K THEN <<c[i]>> ELSE << >>) \in Seq(T)
    OBVIOUS
  <2> QED
    BY <1>1, <2>1
<1> HIDE DEF ss
<1>3. ASSUME NEW i \in K PROVE Pl(i) \in Place(ss) /\ OpAt(ss, Pl(i)) = c[i]
  <2>1. i \in 1..Len(ss) /\ ss[i] = <<c[i]>> /\ Len(<<c[i]>>) = 1 /\ <<c[i]>>[1] = c[i]
    BY <1>1, <1>2
  <2> DEFINE q == Pl(i)
  <2>2. q[1] = i /\ q[2] = 1 /\ q \in (1..Len(ss)) \X (Nat \ {0})
    BY <2>1
  <2> HIDE DEF q, Pl
  <2>3. q \in Place(ss) /\ OpAt(ss, q) = c[i]
    BY <2>1, <2>2 DEF Place, OpAt
  <2> QED
    BY <2>3 DEF q
<1>4. ASSUME NEW q \in Place(ss) PROVE \E i \in K : q = Pl(i)
  <2>1. q[1] \in 1..Len(c) /\ q[2] \in Nat \ {0} /\ q[2] <= Len(ss[q[1]]) /\ q = <<q[1], q[2]>>
    BY <1>2 DEF Place
  <2>2. CASE q[1] \in K
    <3>1. ss[q[1]] = <<c[q[1]]>> /\ Len(<<c[q[1]]>>) = 1
      BY <1>2, <2>1, <2>2
    <3> QED
      BY <2>1, <2>2, <3>1
  <2>3. CASE q[1] \notin K
    <3>1. ss[q[1]] = << >> /\ Len(<< >>) = 0
      BY <1>2, <2>1, <2>3
    <3> QED
      BY <2>1, <3>1
  <2> QED
    BY <2>2, <2>3
<1>5. \A i, j \in K : Earlier(Pl(i), Pl(j)) <=> i < j
  BY <1>1 DEF Earlier
<1>6. \A i, j \in K : Pl(i) = Pl(j) => i = j
  OBVIOUS
<1> HIDE DEF Pl
<1>7. \A q \in Place(ss) : IsOperation(OpAt(ss, q))
  BY <1>3, <1>4
<1>8. \A q, r \in Place(ss) : OpAt(ss, q).id = OpAt(ss, r).id => q = r
  BY <1>3, <1>4
<1>9. ASSUME NEW q \in Place(ss), OpAt(ss, q).parent # 0
      PROVE  \E r \in Place(ss) :
              /\ Earlier(r, q) /\ OpAt(ss, r).id = OpAt(ss, q).parent /\ OpAt(ss, r).kind = "if"
              /\ \A t \in Place(ss) : Earlier(r, t) /\ Earlier(t, q) =>
                    OpAt(ss, t).parent = OpAt(ss, q).parent
  <2>1. PICK i \in K : q = Pl(i)
    BY <1>4
  <2>2. PICK j \in K : /\ j < i /\ c[j].id = c[i].parent /\ c[j].kind = "if"
                       /\ \A k \in K : j < k /\ k < i => c[k].parent = c[i].parent
    BY <1>3, <1>9, <2>1
  <2>3. \A t \in Place(ss) : Earlier(Pl(j), t) /\ Earlier(t, q) => OpAt(ss, t).parent = OpAt(ss, q).parent
    BY <1>3, <1>4, <1>5, <2>1, <2>2
  <2>4. Pl(j) \in Place(ss) /\ Earlier(Pl(j), q) /\ OpAt(ss, Pl(j)) = c[j] /\ OpAt(ss, q) = c[i]
    BY <1>3, <1>5, <2>1, <2>2
  <2> QED
    BY <2>2, <2>3, <2>4
<1>10. ASSUME NEW q \in Place(ss), NEW x \in ToSet(OpAt(ss, q).args), x > 0
       PROVE  \E r \in Place(ss) :
              /\ Earlier(r, q) /\ OpAt(ss, r).id = x /\ HasResult(OpAt(ss, r))
              /\ OpAt(ss, r).parent = 0 \/ BlockOf(OpAt(ss, r)) = BlockOf(OpAt(ss, q))
  <2>1. PICK i \in K : q = Pl(i)
    BY <1>4
  <2>2. OpAt(ss, q) = c[i]
    BY <1>3, <2>1
  <2>3. PICK j \in K : /\ j < i /\ c[j].id = x /\ HasResult(c[j])
                       /\ c[j].parent = 0 \/ BlockOf(c[j]) = BlockOf(c[i])
    BY <1>10, <2>2
  <2>4. Pl(j) \in Place(ss) /\ Earlier(Pl(j), q) /\ OpAt(ss, Pl(j)) = c[j]
    BY <1>3, <1>5, <2>1, <2>3
  <2> QED
    BY <2>2, <2>3, <2>4
<1>11. IsFlatBlock(ss)
  BY <1>7, <1>8, <1>9, <1>10 DEF IsFlatBlock
<1> DEFINE n == FlattenSeq(ss)
<1>12. /\ IsBlock(n)
       /\ Ids(n) = {OpAt(ss, q).id : q \in Place(ss)}
       /\ \A q \in Place(ss) : OpOf(n, OpAt(ss, q).id) = OpAt(ss, q)
       /\ \A q, r \in Place(ss) : Before(n, OpAt(ss, q).id, OpAt(ss, r).id) <=> Earlier(q, r)
  BY <1>2, <1>11, FlatBlock, FlatView
<1>13. Sifted(c, K) = n
  BY DEF Sifted, ss
<1> HIDE DEF n
<1>14. Ids(n) = {c[i].id : i \in K}
  <2>1. ASSUME NEW x \in Ids(n) PROVE x \in {c[i].id : i \in K}
    BY <1>3, <1>4, <1>12
  <2>2. ASSUME NEW i \in K PROVE c[i].id \in Ids(n)
    BY <1>3, <1>12
  <2> QED
    BY <2>1, <2>2
<1>15. \A i \in K : OpOf(n, c[i].id) = c[i]
  BY <1>3, <1>12
<1>16. \A i, j \in K : Before(n, c[i].id, c[j].id) <=> i < j
  BY <1>3, <1>5, <1>12
<1> QED
  BY <1>12, <1>13, <1>14, <1>15, <1>16

\* Erase takes the operations S with what is in them, none of which others use.
LEMMA ErasedBlock ==
    ASSUME NEW b, IsBlock(b), NEW S, 0 \notin S,
           \A y \in Ids(b) : y \notin S /\ OpOf(b, y).parent \notin S =>
              ToSet(OpOf(b, y).args) \cap S = {}
    PROVE  /\ IsBlock(Erase(b, S))
           /\ Ids(Erase(b, S)) = {y \in Ids(b) : y \notin S /\ OpOf(b, y).parent \notin S}
           /\ \A y \in Ids(Erase(b, S)) : OpOf(Erase(b, S), y) = OpOf(b, y)
           /\ \A y, z \in Ids(Erase(b, S)) : Before(Erase(b, S), y, z) <=> Before(b, y, z)
<1> DEFINE K == {i \in DOMAIN b : b[i].id \notin S /\ b[i].parent \notin S}
           n == Erase(b, S)
<1>1. /\ b \in Seq(ToSet(b)) /\ DOMAIN b = 1..Len(b) /\ Len(b) \in Nat
      /\ \A k \in 1..Len(b) : At(b, b[k].id) = k /\ OpOf(b, b[k].id) = b[k] /\ b[k].id \in Ids(b)
      /\ \A y \in Ids(b) : At(b, y) \in 1..Len(b) /\ b[At(b, y)].id = y /\ OpOf(b, y) = b[At(b, y)]
  BY BlockFacts
<1>2. \A i \in K : IsOperation(b[i])
  BY DEF IsBlock
<1>3. \A i, j \in K : b[i].id = b[j].id => i = j
  BY DEF IsBlock
<1>4. ASSUME NEW i \in K, b[i].parent # 0
      PROVE  \E j \in K : /\ j < i /\ b[j].id = b[i].parent /\ b[j].kind = "if"
                          /\ \A k \in K : j < k /\ k < i => b[k].parent = b[i].parent
  <2>1. PICK j \in 1..(i - 1) : /\ b[j].id = b[i].parent /\ b[j].kind = "if"
                                /\ \A k \in (j + 1)..(i - 1) : b[k].parent = b[i].parent
    BY <1>4 DEF IsBlock
  <2>2. j \in DOMAIN b /\ j < i /\ i \in Nat
    BY <1>1, <2>1
  <2>3. b[j].parent = 0 /\ 0 \notin S
    <3>1. IsOperation(b[j])
      BY <2>2 DEF IsBlock
    <3>2. b[j].parent = 0
      BY <2>1, <3>1 DEF IsOperation
    <3> QED
      BY <3>2
  <2>4. j \in K
    BY <1>4, <2>1, <2>2, <2>3
  <2>5. ASSUME NEW k \in K, j < k, k < i PROVE b[k].parent = b[i].parent
    <3>1. k \in (j + 1)..(i - 1)
      BY <1>1, <2>2, <2>5
    <3> QED
      BY <2>1, <3>1
  <2> QED
    BY <2>1, <2>2, <2>4, <2>5
<1>5. ASSUME NEW i \in K, NEW x \in ToSet(b[i].args), x > 0
      PROVE  \E j \in K : /\ j < i /\ b[j].id = x /\ HasResult(b[j])
                          /\ b[j].parent = 0 \/ BlockOf(b[j]) = BlockOf(b[i])
  <2>1. PICK j \in 1..(i - 1) : /\ b[j].id = x /\ HasResult(b[j])
                                /\ b[j].parent = 0 \/ BlockOf(b[j]) = BlockOf(b[i])
    BY <1>5 DEF IsBlock
  <2>2. j \in DOMAIN b /\ j < i
    BY <1>1, <2>1
  <2>3. b[j].id \notin S
    BY <1>1, <1>5, <2>1
  <2>4. b[j].parent \notin S
    BY <2>1 DEF BlockOf
  <2> QED
    BY <2>1, <2>2, <2>3, <2>4
<1>6. n = Sifted(b, K)
  BY DEF Erase, Kept, Sifted
<1>7. K \in SUBSET DOMAIN b
  OBVIOUS
<1> HIDE DEF n, K
<1>8. /\ IsBlock(n) /\ Ids(n) = {b[i].id : i \in K}
      /\ \A i \in K : OpOf(n, b[i].id) = b[i]
      /\ \A i, j \in K : Before(n, b[i].id, b[j].id) <=> i < j
  BY <1>1, <1>2, <1>3, <1>4, <1>5, <1>6, <1>7, SiftedBlock
<1>9. Ids(n) = {y \in Ids(b) : y \notin S /\ OpOf(b, y).parent \notin S}
  BY <1>1, <1>7, <1>8 DEF K
<1>10. \A y \in Ids(n) : At(b, y) \in K /\ b[At(b, y)].id = y /\ OpOf(b, y) = b[At(b, y)]
  BY <1>1, <1>9 DEF K
<1>11. \A y \in Ids(n) : OpOf(n, y) = OpOf(b, y)
  BY <1>8, <1>10
<1>12. \A y, z \in Ids(n) : Before(n, y, z) <=> Before(b, y, z)
  BY <1>8, <1>10 DEF Before
<1> QED
  BY <1>8, <1>9, <1>11, <1>12 DEF n

-----------------------------------------------------------------------------
(* Rewriting of uses *)

\* One value takes the place of another in a list of arguments.
LEMMA ReplacedIn ==
    ASSUME NEW args \in Seq(Int), NEW x, NEW y \in Int
    PROVE  /\ ReplaceIn(args, x, y) \in Seq(Int) /\ Len(ReplaceIn(args, x, y)) = Len(args)
           /\ \A z \in ToSet(ReplaceIn(args, x, y)) : z = y \/ (z \in ToSet(args) /\ z # x)
           /\ args = << >> => ReplaceIn(args, x, y) = << >>
<1> DEFINE r == ReplaceIn(args, x, y)
<1>1. DOMAIN args = 1..Len(args) /\ Len(args) \in Nat /\ \A k \in 1..Len(args) : args[k] \in Int
  OBVIOUS
<1>2. DOMAIN r = 1..Len(args) /\ \A k \in 1..Len(args) : r[k] = IF args[k] = x THEN y ELSE args[k]
  BY <1>1 DEF ReplaceIn
<1>3. r \in [1..Len(args) -> Int]
  BY <1>1 DEF ReplaceIn
<1> HIDE DEF r
<1>4. r \in Seq(Int) /\ Len(r) = Len(args)
  BY <1>1, <1>3
<1>5. \A z \in ToSet(r) : z = y \/ (z \in ToSet(args) /\ z # x)
  BY <1>1, <1>2 DEF ToSet
<1>6. args = << >> => r = << >>
  BY <1>4
<1> QED
  BY <1>4, <1>5, <1>6 DEF r

\* A value that dominates what it takes the place of.
LEMMA ReplacedBlock ==
    ASSUME NEW b, IsBlock(b), NEW x \in Ids(b), NEW y \in Int,
           y > 0 => y \in Ids(b) /\ HasResult(OpOf(b, y)) /\ Dominates(b, y, x)
    PROVE  /\ IsBlock(ReplaceUses(b, x, y)) /\ Ids(ReplaceUses(b, x, y)) = Ids(b)
           /\ \A z \in Ids(b) : /\ At(ReplaceUses(b, x, y), z) = At(b, z)
                                /\ OpOf(ReplaceUses(b, x, y), z) =
                                      [OpOf(b, z) EXCEPT !.args = ReplaceIn(@, x, y)]
<1> DEFINE c == ReplaceUses(b, x, y)
<1>1. /\ b \in Seq(ToSet(b)) /\ DOMAIN b = 1..Len(b) /\ Len(b) \in Nat
      /\ \A k \in 1..Len(b) : At(b, b[k].id) = k /\ OpOf(b, b[k].id) = b[k] /\ b[k].id \in Ids(b)
      /\ \A z \in Ids(b) : At(b, z) \in 1..Len(b) /\ b[At(b, z)].id = z /\ OpOf(b, z) = b[At(b, z)]
  BY BlockFacts
<1>2. DOMAIN c = DOMAIN b /\ \A i \in DOMAIN b : c[i] = [b[i] EXCEPT !.args = ReplaceIn(@, x, y)]
  BY DEF ReplaceUses
<1> DEFINE T == {[b[i] EXCEPT !.args = ReplaceIn(@, x, y)] : i \in DOMAIN b}
<1>3. c \in Seq(T)
  <2>1. c \in [1..Len(b) -> T]
    BY <1>1 DEF ReplaceUses
  <2> HIDE DEF T, c
  <2> QED
    BY <1>1, <2>1
<1> HIDE DEF c, T
<1>4. ASSUME NEW i \in DOMAIN b
      PROVE  /\ IsOperation(c[i]) /\ c[i].id = b[i].id /\ BlockOf(c[i]) = BlockOf(b[i])
             /\ b[i].kind = "if" => c[i].kind = "if"
             /\ HasResult(b[i]) => HasResult(c[i])
             /\ \A z \in ToSet(c[i].args) : z > 0 =>
                   \/ z \in ToSet(b[i].args)
                   \/ z \in Ids(b) /\ HasResult(OpOf(b, z)) /\ Dominates(b, z, b[i].id)
  <2>1. IsOperation(b[i])
    BY DEF IsBlock
  <2>2. b[i].args \in Seq(Int) /\ DOMAIN b[i] = Fields
    BY <2>1 DEF IsOperation
  <2>3. /\ c[i].args = ReplaceIn(b[i].args, x, y) /\ DOMAIN c[i] = Fields
        /\ c[i].id = b[i].id /\ c[i].parent = b[i].parent /\ c[i].branch = b[i].branch
        /\ c[i].kind = b[i].kind
    BY <1>2, <2>2 DEF Fields
  <2>4. IsOperation(c[i])
    <3>1. /\ c[i].args \in Seq(Int) /\ Len(c[i].args) = Len(b[i].args)
          /\ b[i].args = << >> => c[i].args = << >>
      BY <2>2, <2>3, ReplacedIn
    <3> QED
      BY <2>1, <2>3, <3>1 DEF IsOperation
  <2>5. ASSUME NEW z \in ToSet(c[i].args), z > 0
        PROVE  \/ z \in ToSet(b[i].args)
               \/ z \in Ids(b) /\ HasResult(OpOf(b, z)) /\ Dominates(b, z, b[i].id)
    <3>1. CASE z \in ToSet(b[i].args)
      BY <3>1
    <3>2. CASE z \notin ToSet(b[i].args)
      <4>1. z = y
        BY <2>2, <2>3, <3>2, <2>5, ReplacedIn
      <4>2. x \in ToSet(b[i].args)
        <5>1. PICK k \in DOMAIN c[i].args : c[i].args[k] = z
          BY <2>5 DEF ToSet
        <5>2. k \in DOMAIN b[i].args /\ c[i].args[k] = IF b[i].args[k] = x THEN y ELSE b[i].args[k]
          BY <2>3, <5>1 DEF ReplaceIn
        <5> QED
          BY <3>2, <5>1, <5>2 DEF ToSet
      <4>3. x > 0 /\ b[i].id \in Ids(b) /\ OpOf(b, b[i].id) = b[i]
        <5>1. x \in Nat \ {0}
          BY BlockOps
        <5> QED
          BY <1>1, <5>1
      <4>4. Dominates(b, x, b[i].id)
        BY <4>2, <4>3, BlockUses
      <4> QED
        BY <2>5, <4>1, <4>3, <4>4, BlockOrder
    <3> QED
      BY <3>1, <3>2
  <2> QED
    BY <2>3, <2>4, <2>5 DEF BlockOf, HasResult
<1>5. /\ IsBlock(c) /\ Ids(c) = Ids(b)
      /\ \A z \in Ids(b) : At(c, z) = At(b, z) /\ OpOf(c, z) = c[At(b, z)]
  BY <1>2, <1>3, <1>4, MappedBlock
<1>6. \A z \in Ids(b) : c[At(b, z)] = [OpOf(b, z) EXCEPT !.args = ReplaceIn(@, x, y)]
  BY <1>1, <1>2
<1> QED
  BY <1>5, <1>6 DEF c

\* Copies become loops; nothing else changes.
LEMMA LoweredBlock ==
    ASSUME NEW b, IsBlock(b)
    PROVE  /\ IsBlock(LowerCopies(b)) /\ Ids(LowerCopies(b)) = Ids(b)
           /\ \A x \in Ids(b) : /\ At(LowerCopies(b), x) = At(b, x)
                                /\ OpOf(LowerCopies(b), x) =
                                      IF OpOf(b, x).kind = "copy" THEN [OpOf(b, x) EXCEPT !.kind = "loop"]
                                      ELSE OpOf(b, x)
<1> DEFINE c == LowerCopies(b)
           T == {IF b[i].kind = "copy" THEN [b[i] EXCEPT !.kind = "loop"] ELSE b[i] : i \in DOMAIN b}
<1>1. /\ DOMAIN b = 1..Len(b) /\ Len(b) \in Nat
      /\ \A z \in Ids(b) : At(b, z) \in 1..Len(b) /\ b[At(b, z)].id = z /\ OpOf(b, z) = b[At(b, z)]
  BY BlockFacts
<1>2. /\ DOMAIN c = DOMAIN b
      /\ \A i \in DOMAIN b : c[i] = IF b[i].kind = "copy" THEN [b[i] EXCEPT !.kind = "loop"] ELSE b[i]
  BY DEF LowerCopies
<1>3. c \in Seq(T)
  <2>1. c \in [1..Len(b) -> T]
    BY <1>1 DEF LowerCopies
  <2> HIDE DEF T, c
  <2> QED
    BY <1>1, <2>1
<1> HIDE DEF c, T
<1>4. ASSUME NEW i \in DOMAIN b
      PROVE  /\ IsOperation(c[i]) /\ c[i].id = b[i].id /\ BlockOf(c[i]) = BlockOf(b[i])
             /\ b[i].kind = "if" => c[i].kind = "if"
             /\ HasResult(b[i]) => HasResult(c[i])
             /\ c[i].args = b[i].args
  <2>1. IsOperation(b[i])
    BY DEF IsBlock
  <2>2. DOMAIN b[i] = Fields
    BY <2>1 DEF IsOperation
  <2>3. CASE b[i].kind = "copy"
    <3>1. /\ DOMAIN c[i] = Fields /\ c[i].args = b[i].args
          /\ c[i].id = b[i].id /\ c[i].parent = b[i].parent /\ c[i].branch = b[i].branch
          /\ c[i].kind = "loop"
      BY <1>2, <2>2, <2>3 DEF Fields
    <3> QED
      BY <2>1, <2>3, <3>1 DEF IsOperation, BlockOf, HasResult
  <2>4. CASE b[i].kind # "copy"
    BY <1>2, <2>1, <2>4
  <2> QED
    BY <2>3, <2>4
<1>5. /\ IsBlock(c) /\ Ids(c) = Ids(b)
      /\ \A z \in Ids(b) : At(c, z) = At(b, z) /\ OpOf(c, z) = c[At(b, z)]
  BY <1>2, <1>3, <1>4, MappedBlock
<1> QED
  BY <1>1, <1>2, <1>5 DEF c

\* One memory takes the place of another.
LEMMA RenamedBlock ==
    ASSUME NEW b, IsBlock(b), NEW old, NEW new
    PROVE  /\ IsBlock(Rename(b, old, new)) /\ Ids(Rename(b, old, new)) = Ids(b)
           /\ \A x \in Ids(b) :
                 /\ At(Rename(b, old, new), x) = At(b, x)
                 /\ OpOf(Rename(b, old, new), x).kind = OpOf(b, x).kind
                 /\ OpOf(Rename(b, old, new), x).parent = OpOf(b, x).parent
<1> DEFINE c == Rename(b, old, new)
           To(mem) == IF mem = old THEN new ELSE mem
           ToAll(mems) == {To(mem) : mem \in mems}
           New(op) == [op EXCEPT !.mem = To(@), !.rd = ToAll(@), !.wr = ToAll(@)]
           T == {New(b[i]) : i \in DOMAIN b}
<1>1. /\ DOMAIN b = 1..Len(b) /\ Len(b) \in Nat
      /\ \A z \in Ids(b) : At(b, z) \in 1..Len(b) /\ b[At(b, z)].id = z /\ OpOf(b, z) = b[At(b, z)]
  BY BlockFacts
<1>2. /\ DOMAIN c = DOMAIN b
      /\ \A i \in DOMAIN b : c[i] = New(b[i])
  BY DEF Rename
<1>3. c \in Seq(T)
  <2>1. c \in [1..Len(b) -> T]
    BY <1>1 DEF Rename
  <2> HIDE DEF T, c
  <2> QED
    BY <1>1, <2>1
<1> HIDE DEF c, T
<1>4. ASSUME NEW i \in DOMAIN b
      PROVE  /\ IsOperation(c[i]) /\ c[i].id = b[i].id /\ BlockOf(c[i]) = BlockOf(b[i])
             /\ c[i].kind = b[i].kind /\ c[i].args = b[i].args /\ c[i].parent = b[i].parent
  <2>1. IsOperation(b[i])
    BY DEF IsBlock
  <2>2. DOMAIN b[i] = Fields
    BY <2>1 DEF IsOperation
  <2>3. /\ DOMAIN c[i] = Fields /\ c[i].args = b[i].args
        /\ c[i].id = b[i].id /\ c[i].parent = b[i].parent /\ c[i].branch = b[i].branch
        /\ c[i].kind = b[i].kind
    BY <1>2, <2>2 DEF Fields
  <2> QED
    BY <2>1, <2>3 DEF IsOperation, BlockOf
<1>5. /\ IsBlock(c) /\ Ids(c) = Ids(b)
      /\ \A z \in Ids(b) : At(c, z) = At(b, z) /\ OpOf(c, z) = c[At(b, z)]
  <2>1. \A i \in DOMAIN b : 
              /\ IsOperation(c[i]) /\ c[i].id = b[i].id /\ BlockOf(c[i]) = BlockOf(b[i])
              /\ b[i].kind = "if" => c[i].kind = "if"
              /\ HasResult(b[i]) => HasResult(c[i])
              /\ \A x \in ToSet(c[i].args) : x > 0 =>
                    \/ x \in ToSet(b[i].args)
                    \/ x \in Ids(b) /\ HasResult(OpOf(b, x)) /\ Dominates(b, x, b[i].id)
    BY <1>4 DEF HasResult
  <2>2. DOMAIN c = DOMAIN b
    BY <1>2
  <2> QED
    BY <1>3, <2>1, <2>2, MappedBlock
<1> QED
  BY <1>1, <1>4, <1>5 DEF c

\* The only operation of an if comes right behind it.
LEMMA AloneBehind ==
    ASSUME NEW b, IsBlock(b), NEW s \in Ids(b), OpOf(b, s).parent # 0,
           Body(b, OpOf(b, s).parent) = {s}
    PROVE  LET if == OpOf(b, s).parent
           IN  \A y \in Ids(b) : y # s /\ y # if =>
                  /\ OpOf(b, y).parent # if
                  /\ Before(b, y, s) <=> Before(b, y, if)
                  /\ Before(b, s, y) <=> Before(b, if, y)
<1> DEFINE if == OpOf(b, s).parent
<1>1. if \in Ids(b) /\ Before(b, if, s) /\ if # s
      /\ \A y \in Ids(b) : Before(b, if, y) /\ Before(b, y, s) => OpOf(b, y).parent = if
  BY BlockParents, BlockOrder
<1>2. \A y \in Ids(b) : y # s => OpOf(b, y).parent # if
  BY DEF Body
<1> HIDE DEF if
<1>3. ASSUME NEW y \in Ids(b), y # s, y # if
      PROVE  /\ Before(b, y, s) <=> Before(b, y, if)
             /\ Before(b, s, y) <=> Before(b, if, y)
  BY <1>1, <1>2, <1>3, BlockOrder
<1> QED
  BY <1>2, <1>3 DEF if

\* The store leaves its if, which goes.
LEMMA HoistedBlock ==
    ASSUME NEW b, IsBlock(b), NEW s \in Ids(b), OpOf(b, s).kind = "store", OpOf(b, s).parent # 0,
           Body(b, OpOf(b, s).parent) = {s},
           NEW front, NEW select,
           front = << >> \/ \E f : front = <<f>> /\ IsOperation(f) /\ f.kind = "load" /\ f.parent = 0
                                   /\ f.id \notin Ids(b) /\ f.id # select.id,
           IsOperation(select), select.kind = "select", select.parent = 0, select.id \notin Ids(b),
           \A x \in ToSet(select.args) : x > 0 =>
              \/ front # << >> /\ x = front[1].id
              \/ /\ x \in Ids(b) /\ HasResult(OpOf(b, x)) /\ OpOf(b, x).parent = 0
                 /\ Before(b, x, OpOf(b, s).parent)
    PROVE  LET if == OpOf(b, s).parent
               n  == Hoisted(b, s, front, select)
               new == {front[k].id : k \in DOMAIN front} \cup {select.id}
           IN  /\ IsBlock(n)
               /\ Ids(n) = (Ids(b) \ {if}) \cup new
               /\ \A y \in Ids(b) \ {if, s} : OpOf(n, y) = OpOf(b, y)
               /\ OpOf(n, s) = [OpOf(b, s) EXCEPT !.parent = 0, !.branch = "top", !.args = <<select.id>>]
               /\ OpOf(n, select.id) = select
               /\ \A k \in DOMAIN front : OpOf(n, front[k].id) = front[k] /\ Before(n, front[k].id, select.id)
               /\ \A y, z \in Ids(b) \ {if} : Before(n, y, z) <=> Before(b, y, z)
               /\ \A x \in new, y \in Ids(b) \ {if} : Before(n, x, y) <=> Before(b, if, y)
<1> DEFINE if == OpOf(b, s).parent
           h == Len(front)
           moved == [OpOf(b, s) EXCEPT !.parent = 0, !.branch = "top", !.args = <<select.id>>]
           part == front \o <<select, moved>>
           T == ToSet(b) \cup ToSet(front) \cup {select, moved}
           ss == [i \in DOMAIN b |-> CASE b[i].id = if     -> part
                                       [] b[i].parent = if -> << >>
                                       [] OTHER            -> <<b[i]>>]
           at == At(b, if)
<1>1. /\ b \in Seq(ToSet(b)) /\ DOMAIN b = 1..Len(b) /\ Len(b) \in Nat
      /\ \A k \in 1..Len(b) : At(b, b[k].id) = k /\ OpOf(b, b[k].id) = b[k] /\ b[k].id \in Ids(b)
      /\ \A z \in Ids(b) : At(b, z) \in 1..Len(b) /\ b[At(b, z)].id = z /\ OpOf(b, z) = b[At(b, z)]
  BY BlockFacts
<1>2. /\ if \in Ids(b) /\ OpOf(b, if).kind = "if" /\ OpOf(b, if).parent = 0 /\ if # s /\ if # 0
      /\ Before(b, if, s)
  BY BlockParents, BlockOrder
<1>3. \A y \in Ids(b) : y # s /\ y # if =>
        /\ OpOf(b, y).parent # if
        /\ Before(b, y, s) <=> Before(b, y, if)
        /\ Before(b, s, y) <=> Before(b, if, y)
  BY AloneBehind
<1>4. IsOperation(OpOf(b, s)) /\ OpOf(b, s).id = s
  BY BlockOps
<1>5. /\ DOMAIN moved = Fields /\ moved.id = s /\ moved.kind = "store" /\ moved.parent = 0
      /\ moved.branch = "top" /\ moved.args = <<select.id>>
  BY <1>4 DEF IsOperation, Fields
<1>6. IsOperation(moved)
  BY <1>4, <1>5 DEF IsOperation
<1> HIDE DEF if, moved
<1>7. h \in {0, 1} /\ (h = 1 => front = <<front[1]>> /\ IsOperation(front[1]) /\ front[1].kind = "load"
                          /\ front[1].parent = 0 /\ front[1].id \notin Ids(b) /\ front[1].id # select.id)
      /\ (h = 0 => front = << >>) /\ DOMAIN front = 1..h
  OBVIOUS
<1>8. /\ Len(part) = h + 2 /\ part \in Seq(T)
      /\ h = 1 => part[1] = front[1]
      /\ part[h + 1] = select /\ part[h + 2] = moved
  <2> DEFINE tail == <<select, moved>>
  <2>1. tail \in Seq({select, moved}) /\ Len(tail) = 2 /\ tail[1] = select /\ tail[2] = moved
    OBVIOUS
  <2>2. front \in Seq(ToSet(front)) /\ Len(front) = h /\ h \in Nat
    <3>1. front \in Seq({front[1]})
      <4>1. << >> \in Seq({front[1]}) /\ <<front[1]>> \in Seq({front[1]})
        OBVIOUS
      <4> QED
        BY <1>7, <4>1
    <3> QED
      BY <3>1, OwnRange
  <2> HIDE DEF tail
  <2>3. front \in Seq(T) /\ tail \in Seq(T)
    BY <2>1, <2>2
  <2>4. part = front \o tail
    BY DEF tail
  <2>5. Len(part) = h + 2 /\ part \in Seq(T)
    BY <2>1, <2>2, <2>3, <2>4
  <2>6. \A k \in 1..(h + 2) : part[k] = IF k <= h THEN front[k] ELSE tail[k - h]
    BY <2>1, <2>2, <2>3, <2>4
  <2> HIDE DEF part
  <2>7. part[h + 1] = tail[1]
    BY <2>2, <2>6
  <2>8. part[h + 2] = tail[2]
    BY <2>2, <2>6
  <2>9. h = 1 => part[1] = front[1]
    BY <2>2, <2>6
  <2> QED
    BY <2>1, <2>5, <2>7, <2>8, <2>9
<1> DEFINE Old == Ids(b) \ {if, s}
           Here(y) == <<At(b, y), 1>>
           There(k) == <<at, k>>
<1> HIDE DEF part, h
<1>9. /\ ss \in Seq(Seq(T)) /\ Len(ss) = Len(b)
      /\ \A y \in Old : ss[At(b, y)] = <<OpOf(b, y)>>
      /\ ss[at] = part /\ ss[At(b, s)] = << >>
  <2>1. \A i \in 1..Len(b) : ss[i] = CASE b[i].id = if     -> part
                                       [] b[i].parent = if -> << >>
                                       [] OTHER            -> <<b[i]>>
    BY <1>1
  <2>2. \A i \in 1..Len(b) : ss[i] \in {part, << >>, <<b[i]>>}
    BY <2>1
  <2>3. \A i \in 1..Len(b) : <<b[i]>> \in Seq(T) /\ << >> \in Seq(T)
    <3>1. \A i \in 1..Len(b) : b[i] \in T
      BY <1>1 DEF ToSet
    <3> HIDE DEF T
    <3> QED
      BY <3>1
  <2>4. ss \in [1..Len(b) -> Seq(T)]
    <3>1. ss = [i \in 1..Len(b) |-> ss[i]]
      BY <1>1
    <3> HIDE DEF ss, T
    <3> QED
      BY <1>8, <2>2, <2>3, <3>1
  <2>5. ss \in Seq(Seq(T)) /\ Len(ss) = Len(b)
    <3> HIDE DEF ss, T
    <3> QED
      BY <1>1, <2>4
  <2>6. ASSUME NEW y \in Old PROVE ss[At(b, y)] = <<OpOf(b, y)>>
    BY <1>1, <1>3, <2>1
  <2>7. ss[at] = part
    BY <1>1, <1>2, <2>1
  <2>8. ss[At(b, s)] = << >>
    BY <1>1, <1>2, <2>1 DEF if
  <2> QED
    BY <2>5, <2>6, <2>7, <2>8
<1> HIDE DEF ss, T
<1>10. ASSUME NEW y \in Old PROVE Here(y) \in Place(ss) /\ OpAt(ss, Here(y)) = OpOf(b, y)
  <2>1. At(b, y) \in 1..Len(ss) /\ ss[At(b, y)] = <<OpOf(b, y)>>
    BY <1>1, <1>9
  <2>2. Len(<<OpOf(b, y)>>) = 1 /\ <<OpOf(b, y)>>[1] = OpOf(b, y)
    OBVIOUS
  <2>3. Here(y)[1] = At(b, y) /\ Here(y)[2] = 1 /\ Here(y) \in (1..Len(ss)) \X (Nat \ {0})
    BY <2>1
  <2> HIDE DEF Here
  <2> QED
    BY <2>1, <2>2, <2>3 DEF Place, OpAt
<1>11. ASSUME NEW k \in 1..(h + 2) PROVE There(k) \in Place(ss) /\ OpAt(ss, There(k)) = part[k]
  <2>1. at \in 1..Len(ss) /\ ss[at] = part /\ Len(part) = h + 2
    BY <1>1, <1>2, <1>8, <1>9
  <2>2. k \in Nat \ {0} /\ k <= h + 2
    BY <1>7
  <2>3. There(k)[1] = at /\ There(k)[2] = k /\ There(k) \in (1..Len(ss)) \X (Nat \ {0})
    BY <2>1, <2>2
  <2> HIDE DEF There, at
  <2> QED
    BY <2>1, <2>2, <2>3 DEF Place, OpAt
<1>12. ASSUME NEW q \in Place(ss)
       PROVE  (\E y \in Old : q = Here(y)) \/ (\E k \in 1..(h + 2) : q = There(k))
  <2>1. q[1] \in 1..Len(b) /\ q[2] \in Nat \ {0} /\ q[2] <= Len(ss[q[1]]) /\ q = <<q[1], q[2]>>
    BY <1>9 DEF Place
  <2>2. b[q[1]].id \in Ids(b) /\ At(b, b[q[1]].id) = q[1]
    BY <1>1, <2>1
  <2> DEFINE y == b[q[1]].id
  <2>3. CASE y = if
    <3>1. q[1] = at /\ q[2] \in 1..(h + 2)
      BY <1>7, <1>8, <1>9, <2>1, <2>2, <2>3
    <3> QED
      BY <2>1, <3>1
  <2>4. CASE y = s
    <3>1. ss[q[1]] = << >> /\ Len(<< >>) = 0
      BY <1>9, <2>2, <2>4
    <3> QED
      BY <2>1, <3>1
  <2>5. CASE y # if /\ y # s
    <3>1. y \in Old
      BY <2>2, <2>5
    <3>2. ss[q[1]] = <<OpOf(b, y)>> /\ Len(<<OpOf(b, y)>>) = 1
      BY <1>9, <2>2, <3>1
    <3>3. q[2] = 1
      BY <2>1, <3>2
    <3> HIDE DEF Old
    <3> QED
      BY <2>1, <2>2, <3>1, <3>3
  <2> QED
    BY <2>3, <2>4, <2>5
<1>13. /\ \A y, z \in Old : Earlier(Here(y), Here(z)) <=> Before(b, y, z)
       /\ \A y \in Old, k \in 1..(h + 2) : /\ Earlier(Here(y), There(k)) <=> Before(b, y, if)
                                           /\ Earlier(There(k), Here(y)) <=> Before(b, if, y)
       /\ \A k, l \in 1..(h + 2) : Earlier(There(k), There(l)) <=> k < l
  <2>1. at \in Nat /\ \A y \in Old : At(b, y) \in Nat /\ At(b, y) # at
    BY <1>1, <1>2
  <2> QED
    BY <2>1 DEF Earlier, Before
<1>14. \A k \in 1..(h + 2) :
          /\ IsOperation(part[k]) /\ part[k].parent = 0
          /\ k = h + 2 => part[k].id = s
          /\ k # h + 2 => part[k].id \notin Ids(b) /\ HasResult(part[k])
          /\ k = h + 1 => part[k] = select
          /\ k < h + 1 => part[k] = front[1] /\ h = 1 /\ k = 1
  <2>1. \A k \in 1..(h + 2) : k = h + 2 \/ k = h + 1 \/ (k = 1 /\ h = 1)
    BY <1>7
  <2> QED
    BY <1>5, <1>6, <1>7, <1>8, <2>1 DEF HasResult
<1>15. \A y \in Old : IsOperation(OpOf(b, y)) /\ OpOf(b, y).id = y /\ y # 0
  BY BlockOps
<1>16. \A k, l \in 1..(h + 2) : part[k].id = part[l].id => k = l
  <2>1. \A k \in 1..(h + 2) : k = h + 2 \/ k = h + 1 \/ (k = 1 /\ h = 1)
    BY <1>7
  <2> QED
    BY <1>7, <1>14, <2>1
<1> HIDE DEF Here, There
<1>17. \A q \in Place(ss) : IsOperation(OpAt(ss, q))
  BY <1>10, <1>11, <1>12, <1>14, <1>15
<1>18. ASSUME NEW q \in Place(ss), NEW r \in Place(ss), OpAt(ss, q).id = OpAt(ss, r).id PROVE q = r
  <2>1. CASE (\E y \in Old : q = Here(y)) /\ (\E y \in Old : r = Here(y))
    BY <1>10, <1>15, <1>18, <2>1
  <2>2. CASE (\E k \in 1..(h + 2) : q = There(k)) /\ (\E k \in 1..(h + 2) : r = There(k))
    BY <1>11, <1>16, <1>18, <2>2
  <2>3. \A y \in Old, k \in 1..(h + 2) : y # part[k].id
    BY <1>14
  <2> QED
    BY <1>10, <1>11, <1>12, <1>15, <1>18, <2>1, <2>2, <2>3
<1>19. ASSUME NEW q \in Place(ss), OpAt(ss, q).parent # 0
       PROVE  \E r \in Place(ss) :
              /\ Earlier(r, q) /\ OpAt(ss, r).id = OpAt(ss, q).parent /\ OpAt(ss, r).kind = "if"
              /\ \A t \in Place(ss) : Earlier(r, t) /\ Earlier(t, q) =>
                    OpAt(ss, t).parent = OpAt(ss, q).parent
  <2>1. PICK y \in Old : q = Here(y) /\ OpAt(ss, q) = OpOf(b, y)
    BY <1>10, <1>11, <1>12, <1>14, <1>19
  <2>2. OpOf(b, y).parent # 0
    BY <1>19, <2>1
  <2> DEFINE x == OpOf(b, y).parent
  <2>3. /\ x \in Ids(b) /\ OpOf(b, x).kind = "if" /\ OpOf(b, x).parent = 0 /\ Before(b, x, y)
        /\ \A z \in Ids(b) : Before(b, x, z) /\ Before(b, z, y) => OpOf(b, z).parent = x
    BY <2>2, BlockParents
  <2>4. x \in Old
    BY <1>3, <2>3
  <2> HIDE DEF x
  <2>5. ASSUME NEW t \in Place(ss), Earlier(Here(x), t), Earlier(t, q) PROVE OpAt(ss, t).parent = x
    <3>1. CASE \E z \in Old : t = Here(z)
      BY <1>10, <1>13, <2>1, <2>3, <2>4, <2>5, <3>1
    <3>2. CASE \E k \in 1..(h + 2) : t = There(k)
      <4>1. Before(b, x, if) /\ Before(b, if, y)
        BY <1>13, <2>1, <2>4, <2>5, <3>2
      <4>2. OpOf(b, if).parent = x
        BY <1>2, <2>3, <4>1
      <4> QED
        BY <1>2, <1>15, <2>4, <4>2
    <3> QED
      BY <1>12, <3>1, <3>2
  <2>6. Here(x) \in Place(ss) /\ Earlier(Here(x), q) /\ OpAt(ss, Here(x)) = OpOf(b, x) /\ OpOf(b, x).id = x
    BY <1>10, <1>13, <1>15, <2>1, <2>3, <2>4
  <2>7. OpAt(ss, q).parent = x
    BY <2>1 DEF x
  <2> QED
    BY <2>3, <2>5, <2>6, <2>7
<1>20. ASSUME NEW q \in Place(ss), NEW x \in ToSet(OpAt(ss, q).args), x > 0
       PROVE  \E r \in Place(ss) :
              /\ Earlier(r, q) /\ OpAt(ss, r).id = x /\ HasResult(OpAt(ss, r))
              /\ OpAt(ss, r).parent = 0 \/ BlockOf(OpAt(ss, r)) = BlockOf(OpAt(ss, q))
  <2>1. CASE \E y \in Old : q = Here(y)
    <3>1. PICK y \in Old : q = Here(y) /\ OpAt(ss, q) = OpOf(b, y)
      BY <1>10, <2>1
    <3>2. x \in Ids(b) /\ HasResult(OpOf(b, x)) /\ Dominates(b, x, y)
      BY <1>20, <3>1, BlockUses
    <3>3. x \in Old
      BY <1>2, <3>2 DEF HasResult
    <3>4. Here(x) \in Place(ss) /\ OpAt(ss, Here(x)) = OpOf(b, x) /\ OpOf(b, x).id = x
      BY <1>10, <1>15, <3>3
    <3>5. Earlier(Here(x), q)
      BY <1>13, <3>1, <3>2, <3>3 DEF Dominates
    <3> QED
      BY <3>1, <3>2, <3>4, <3>5 DEF Dominates, SameRegion
  <2>2. CASE q = There(h + 2)
    <3>1. h + 1 \in 1..(h + 2) /\ h + 2 \in 1..(h + 2)
      BY <1>7
    <3>2. OpAt(ss, q) = moved
      BY <1>8, <1>11, <2>2, <3>1
    <3>3. x = select.id
      BY <1>5, <1>20, <3>2 DEF ToSet
    <3>4. OpAt(ss, There(h + 1)) = select /\ There(h + 1) \in Place(ss) /\ Earlier(There(h + 1), q)
      BY <1>7, <1>8, <1>11, <1>13, <2>2, <3>1
    <3> QED
      BY <3>3, <3>4 DEF HasResult
  <2>3. CASE q = There(h + 1)
    <3>1. h + 1 \in 1..(h + 2)
      BY <1>7
    <3>2. OpAt(ss, q) = select
      BY <1>8, <1>11, <2>3, <3>1
    <3>3. CASE front # << >> /\ x = front[1].id
      <4>1. h = 1 /\ 1 \in 1..(h + 2) /\ part[1] = front[1]
        BY <1>7, <1>8, <3>3
      <4>2. There(1) \in Place(ss) /\ OpAt(ss, There(1)) = front[1] /\ Earlier(There(1), q)
        BY <1>11, <1>13, <2>3, <3>1, <4>1
      <4> QED
        BY <1>7, <3>3, <4>1, <4>2 DEF HasResult
    <3>4. CASE x \in Ids(b) /\ HasResult(OpOf(b, x)) /\ OpOf(b, x).parent = 0 /\ Before(b, x, if)
      <4>1. x \in Old
        BY <1>2, <3>4 DEF HasResult
      <4>2. Here(x) \in Place(ss) /\ OpAt(ss, Here(x)) = OpOf(b, x) /\ OpOf(b, x).id = x
        BY <1>10, <1>15, <4>1
      <4>3. Earlier(Here(x), q)
        BY <1>13, <2>3, <3>1, <3>4, <4>1
      <4> QED
        BY <3>4, <4>2, <4>3
    <3> QED
      BY <1>20, <3>2, <3>3, <3>4 DEF if
  <2>4. CASE h = 1 /\ q = There(1)
    <3>1. OpAt(ss, q) = front[1]
      BY <1>8, <1>11, <2>4
    <3>2. OpAt(ss, q).args = << >>
      BY <1>7, <2>4, <3>1 DEF IsOperation
    <3> QED
      BY <1>20, <3>2 DEF ToSet
  <2>5. \A k \in 1..(h + 2) : k = h + 2 \/ k = h + 1 \/ (k = 1 /\ h = 1)
    BY <1>7
  <2> QED
    BY <1>12, <2>1, <2>2, <2>3, <2>4, <2>5
<1>21. IsFlatBlock(ss)
  BY <1>17, <1>18, <1>19, <1>20 DEF IsFlatBlock
<1> DEFINE n == FlattenSeq(ss)
<1>22. /\ IsBlock(n)
       /\ Ids(n) = {OpAt(ss, q).id : q \in Place(ss)}
       /\ \A q \in Place(ss) : OpOf(n, OpAt(ss, q).id) = OpAt(ss, q)
       /\ \A q, r \in Place(ss) : Before(n, OpAt(ss, q).id, OpAt(ss, r).id) <=> Earlier(q, r)
  BY <1>9, <1>21, FlatBlock, FlatView
<1>23. n = Hoisted(b, s, front, select)
  BY DEF Hoisted, ss, if, moved, part
<1> HIDE DEF n
<1> DEFINE new == {front[k].id : k \in DOMAIN front} \cup {select.id}
<1>24. \A k \in 1..(h + 1) : part[k].id \in new /\ k \in 1..(h + 2)
  <2>1. \A k \in 1..(h + 1) : k \in 1..(h + 2) /\ (k = h + 1 \/ (k = 1 /\ h = 1))
    BY <1>7
  <2> QED
    BY <1>7, <1>14, <2>1
<1>25. \A x \in new : \E k \in 1..(h + 1) : x = part[k].id
  <2>1. h + 1 \in 1..(h + 1) /\ (h = 1 => 1 \in 1..(h + 1))
    BY <1>7
  <2> QED
    BY <1>7, <1>8, <2>1
<1>26. Ids(n) = (Ids(b) \ {if}) \cup new
  <2>1. ASSUME NEW x \in Ids(n) PROVE x \in (Ids(b) \ {if}) \cup new
    <3>1. PICK q \in Place(ss) : x = OpAt(ss, q).id
      BY <1>22
    <3>2. CASE \E y \in Old : q = Here(y)
      BY <1>10, <1>15, <3>1, <3>2
    <3>3. CASE \E k \in 1..(h + 2) : q = There(k)
      <4>1. PICK k \in 1..(h + 2) : q = There(k) /\ x = part[k].id
        BY <1>11, <3>1, <3>3
      <4>2. k = h + 2 \/ k \in 1..(h + 1)
        BY <1>7
      <4> QED
        BY <1>2, <1>14, <1>24, <4>1, <4>2
    <3> QED
      BY <1>12, <3>2, <3>3
  <2>2. ASSUME NEW x \in (Ids(b) \ {if}) \cup new PROVE x \in Ids(n)
    <3>1. CASE x \in Old
      BY <1>10, <1>15, <1>22, <3>1
    <3>2. CASE x = s
      <4>1. h + 2 \in 1..(h + 2)
        BY <1>7
      <4> QED
        BY <1>11, <1>14, <1>22, <3>2, <4>1
    <3>3. CASE x \in new
      <4>1. PICK k \in 1..(h + 1) : x = part[k].id
        BY <1>25, <3>3
      <4>2. There(k) \in Place(ss) /\ OpAt(ss, There(k)).id = x
        BY <1>11, <1>24, <4>1
      <4> QED
        BY <1>22, <4>2
    <3> QED
      BY <2>2, <3>1, <3>2, <3>3
  <2> QED
    BY <2>1, <2>2
<1>27. \A y \in Old : OpOf(n, y) = OpOf(b, y)
  BY <1>10, <1>15, <1>22
<1>28. OpOf(n, s) = moved /\ OpOf(n, select.id) = select
  <2>1. h + 2 \in 1..(h + 2) /\ h + 1 \in 1..(h + 2)
    BY <1>7
  <2> QED
    BY <1>8, <1>11, <1>14, <1>22, <2>1
<1>29. \A k \in DOMAIN front : OpOf(n, front[k].id) = front[k] /\ Before(n, front[k].id, select.id)
  <2>1. ASSUME h = 1 PROVE OpOf(n, front[1].id) = front[1] /\ Before(n, front[1].id, select.id)
    <3>1. 1 \in 1..(h + 2) /\ h + 1 \in 1..(h + 2) /\ 1 < h + 1
      BY <2>1
    <3>2. /\ There(1) \in Place(ss) /\ There(h + 1) \in Place(ss) /\ Earlier(There(1), There(h + 1))
          /\ OpAt(ss, There(1)) = front[1] /\ OpAt(ss, There(h + 1)) = select
      BY <1>8, <1>11, <1>13, <2>1, <3>1
    <3> QED
      BY <1>22, <3>2
  <2>2. \A k \in DOMAIN front : h = 1 /\ k = 1
    BY <1>7
  <2> QED
    BY <2>1, <2>2
<1> DEFINE Slot(y) == IF y = s THEN There(h + 2) ELSE Here(y)
<1>30. \A y \in Ids(b) \ {if} : Slot(y) \in Place(ss) /\ OpAt(ss, Slot(y)).id = y
  <2>1. h + 2 \in 1..(h + 2)
    BY <1>7
  <2> QED
    BY <1>10, <1>11, <1>14, <1>15, <2>1
<1>31. \A y, z \in Ids(b) \ {if} : Before(n, y, z) <=> Before(b, y, z)
  <2>1. h + 2 \in 1..(h + 2) /\ ~(h + 2 < h + 2)
    BY <1>7
  <2>2. \A y, z \in Ids(b) \ {if} : Earlier(Slot(y), Slot(z)) <=> Before(b, y, z)
    BY <1>3, <1>13, <2>1, BlockOrder
  <2> HIDE DEF Slot
  <2> QED
    BY <1>22, <1>30, <2>2
<1>32. ASSUME NEW x \in new, NEW y \in Ids(b) \ {if} PROVE Before(n, x, y) <=> Before(b, if, y)
  <2>1. PICK k \in 1..(h + 1) : x = part[k].id
    BY <1>25
  <2>2. k \in 1..(h + 2) /\ h + 2 \in 1..(h + 2) /\ k < h + 2
    BY <1>7
  <2>3. There(k) \in Place(ss) /\ OpAt(ss, There(k)).id = x
    BY <1>11, <2>1, <2>2
  <2>4. Earlier(There(k), Slot(y)) <=> Before(b, if, y)
    BY <1>2, <1>13, <2>2
  <2> HIDE DEF Slot
  <2> QED
    BY <1>22, <1>30, <2>3, <2>4
<1>33. OpOf(n, s) = [OpOf(b, s) EXCEPT !.parent = 0, !.branch = "top", !.args = <<select.id>>]
  BY <1>28 DEF moved
<1> HIDE DEF new
<1>34. /\ IsBlock(n)
       /\ Ids(n) = (Ids(b) \ {if}) \cup new
       /\ \A y \in Ids(b) \ {if, s} : OpOf(n, y) = OpOf(b, y)
       /\ OpOf(n, s) = [OpOf(b, s) EXCEPT !.parent = 0, !.branch = "top", !.args = <<select.id>>]
       /\ OpOf(n, select.id) = select
       /\ \A k \in DOMAIN front : OpOf(n, front[k].id) = front[k] /\ Before(n, front[k].id, select.id)
       /\ \A y, z \in Ids(b) \ {if} : Before(n, y, z) <=> Before(b, y, z)
       /\ \A x \in new, y \in Ids(b) \ {if} : Before(n, x, y) <=> Before(b, if, y)
  BY <1>22, <1>26, <1>27, <1>28, <1>29, <1>31, <1>32, <1>33
<1> QED
  BY <1>23, <1>34 DEF if, new

\* The positions of what Kept keeps: the increasing list of S.
LEMMA KeptLayout ==
    ASSUME NEW T, NEW s \in Seq(T), NEW S \in SUBSET DOMAIN s
    PROVE  /\ Kept(s, S) \in Seq(T)
           /\ \E pos \in [1..Len(Kept(s, S)) -> S] :
                 /\ \A j \in 1..Len(Kept(s, S)) : Kept(s, S)[j] = s[pos[j]]
                 /\ \A j, k \in 1..Len(Kept(s, S)) : j < k <=> pos[j] < pos[k]
                 /\ \A i \in S : \E j \in 1..Len(Kept(s, S)) : pos[j] = i
<1> DEFINE ss == [i \in DOMAIN s |-> IF i \in S THEN <<s[i]>> ELSE << >>]
           n == FlattenSeq(ss)
           Pl(i) == <<i, 1>>
<1>1. DOMAIN s = 1..Len(s) /\ Len(s) \in Nat
  OBVIOUS
<1>2. ss \in Seq(Seq(T)) /\ Len(ss) = Len(s) /\ \A i \in 1..Len(s) : ss[i] = IF i \in S THEN <<s[i]>> ELSE << >>
  <2>1. \A i \in 1..Len(s) : (IF i \in S THEN <<s[i]>> ELSE << >>) \in Seq(T)
    OBVIOUS
  <2> QED
    BY <1>1, <2>1
<1>3. Kept(s, S) = n
  BY DEF Kept
<1> HIDE DEF ss
<1>4. n \in Seq(T) /\ \E at : IsLayout(Place(ss), ss, n, at)
  BY <1>2, Flattened
<1>5. Len(n) \in Nat
  BY <1>4
<1> HIDE DEF n
<1>6. PICK at : IsLayout(Place(ss), ss, n, at)
  BY <1>4
<1>7. ASSUME NEW i \in S PROVE Pl(i) \in Place(ss) /\ OpAt(ss, Pl(i)) = s[i]
  <2>1. i \in 1..Len(ss) /\ ss[i] = <<s[i]>> /\ Len(<<s[i]>>) = 1 /\ <<s[i]>>[1] = s[i]
    BY <1>1, <1>2
  <2>2. Pl(i)[1] = i /\ Pl(i)[2] = 1 /\ Pl(i) \in (1..Len(ss)) \X (Nat \ {0})
    BY <2>1
  <2> HIDE DEF Pl
  <2> QED
    BY <2>1, <2>2 DEF Place, OpAt
<1>8. ASSUME NEW q \in Place(ss) PROVE \E i \in S : q = Pl(i)
  <2>1. q[1] \in 1..Len(s) /\ q[2] \in Nat \ {0} /\ q[2] <= Len(ss[q[1]]) /\ q = <<q[1], q[2]>>
    BY <1>2 DEF Place
  <2>2. CASE q[1] \in S
    <3>1. ss[q[1]] = <<s[q[1]]>> /\ Len(<<s[q[1]]>>) = 1
      BY <1>2, <2>1, <2>2
    <3> QED
      BY <2>1, <2>2, <3>1
  <2>3. CASE q[1] \notin S
    <3>1. ss[q[1]] = << >> /\ Len(<< >>) = 0
      BY <1>2, <2>1, <2>3
    <3> QED
      BY <2>1, <3>1
  <2> QED
    BY <2>2, <2>3
<1>9. /\ \A q, r \in Place(ss) : Earlier(q, r) <=> at[q] < at[r]
      /\ \A q \in Place(ss) : at[q] \in 1..Len(n) /\ n[at[q]] = OpAt(ss, q)
  BY <1>6, LayoutOrder
<1>10. \A i, j \in S : Earlier(Pl(i), Pl(j)) <=> i < j
  BY <1>1 DEF Earlier
<1> HIDE DEF Pl
<1>11. \A j \in 1..Len(n) : \E i \in S : at[Pl(i)] = j
  BY <1>6, <1>8 DEF IsLayout
<1> DEFINE pos == [j \in 1..Len(n) |-> CHOOSE i \in S : at[Pl(i)] = j]
<1>12. \A j \in 1..Len(n) : pos[j] \in S /\ at[Pl(pos[j])] = j
  BY <1>11
<1>13. pos \in [1..Len(n) -> S]
  BY <1>12
<1> HIDE DEF pos
<1>14. \A j \in 1..Len(n) : n[j] = s[pos[j]]
  BY <1>7, <1>9, <1>12
<1>15. \A j, k \in 1..Len(n) : j < k <=> pos[j] < pos[k]
  BY <1>7, <1>9, <1>10, <1>12
<1>16. ASSUME NEW i \in S PROVE \E j \in 1..Len(n) : pos[j] = i
  <2>1. at[Pl(i)] \in 1..Len(n)
    BY <1>7, <1>9
  <2> DEFINE k == pos[at[Pl(i)]]
  <2>2. k \in S /\ at[Pl(k)] = at[Pl(i)]
    BY <1>12, <2>1
  <2>3. ~(k < i) /\ ~(i < k)
    <3>1. at[Pl(i)] \in Nat /\ ~(at[Pl(k)] < at[Pl(i)]) /\ ~(at[Pl(i)] < at[Pl(k)])
      BY <1>5, <2>1, <2>2
    <3> HIDE DEF k
    <3> QED
      BY <1>7, <1>9, <1>10, <2>2, <3>1
  <2>4. k = i
    <3>1. k \in Nat /\ i \in Nat
      BY <1>1, <2>2
    <3> HIDE DEF k
    <3> QED
      BY <2>3, <3>1
  <2> QED
    BY <2>1, <2>4
<1> QED
  BY <1>3, <1>4, <1>13, <1>14, <1>15, <1>16

\* An operation without arguments is put in front of all others.
LEMMA PrependedBlock ==
    ASSUME NEW e, IsBlock(e), NEW a, IsOperation(a), a.parent = 0, a.args = << >>, a.id \notin Ids(e)
    PROVE  /\ IsBlock(<<a>> \o e) /\ Ids(<<a>> \o e) = Ids(e) \cup {a.id}
           /\ OpOf(<<a>> \o e, a.id) = a
           /\ \A y \in Ids(e) : OpOf(<<a>> \o e, y) = OpOf(e, y) /\ Before(<<a>> \o e, a.id, y)
           /\ \A y, z \in Ids(e) : Before(<<a>> \o e, y, z) <=> Before(e, y, z)
<1> DEFINE n == <<a>> \o e
           T == ToSet(e) \cup {a}
<1>1. /\ e \in Seq(ToSet(e)) /\ DOMAIN e = 1..Len(e) /\ Len(e) \in Nat
      /\ \A k \in 1..Len(e) : At(e, e[k].id) = k /\ OpOf(e, e[k].id) = e[k] /\ e[k].id \in Ids(e)
      /\ \A z \in Ids(e) : At(e, z) \in 1..Len(e) /\ e[At(e, z)].id = z /\ OpOf(e, z) = e[At(e, z)]
  BY BlockFacts
<1>2. e \in Seq(T) /\ <<a>> \in Seq(T) /\ Len(<<a>>) = 1 /\ <<a>>[1] = a
  BY <1>1
<1>3. n \in Seq(T) /\ Len(n) = 1 + Len(e) /\ n[1] = a
  BY <1>1, <1>2
<1>4. \A i \in 1..Len(e) : n[i + 1] = e[i]
  BY <1>1, <1>2
<1> HIDE DEF n
<1>5. n \in Seq(ToSet(n)) /\ DOMAIN n = 1..Len(n)
  BY <1>3, OwnRange
<1>6. \A i \in DOMAIN n : (i = 1 /\ n[i] = a) \/ (i > 1 /\ i - 1 \in 1..Len(e) /\ n[i] = e[i - 1])
  <2>1. ASSUME NEW i \in DOMAIN n, i # 1 PROVE i > 1 /\ i - 1 \in 1..Len(e) /\ n[i] = e[i - 1]
    <3>1. i - 1 \in 1..Len(e) /\ (i - 1) + 1 = i /\ i > 1
      BY <1>1, <1>3, <1>5, <2>1
    <3> QED
      BY <1>4, <3>1
  <2> QED
    BY <1>3, <2>1
<1>7. \A i \in DOMAIN n : IsOperation(n[i])
  BY <1>1, <1>6 DEF IsBlock
<1>8. \A i, j \in DOMAIN n : n[i].id = n[j].id => i = j
  <2>1. \A i, j \in 1..Len(e) : e[i].id = e[j].id => i = j
    BY <1>1 DEF IsBlock
  <2>2. \A i \in DOMAIN n : i \in Nat
    BY <1>1, <1>3, <1>5
  <2> QED
    BY <1>1, <1>6, <2>1, <2>2
<1>9. ASSUME NEW i \in DOMAIN n, n[i].parent # 0
      PROVE  \E j \in 1..(i - 1) : /\ n[j].id = n[i].parent /\ n[j].kind = "if"
                                   /\ \A k \in (j + 1)..(i - 1) : n[k].parent = n[i].parent
  <2>1. i > 1 /\ i - 1 \in 1..Len(e) /\ n[i] = e[i - 1] /\ i \in Nat
    BY <1>1, <1>3, <1>5, <1>6, <1>9
  <2>2. PICK j \in 1..((i - 1) - 1) : /\ e[j].id = e[i - 1].parent /\ e[j].kind = "if"
                                      /\ \A k \in (j + 1)..((i - 1) - 1) : e[k].parent = e[i - 1].parent
    BY <1>1, <1>9, <2>1 DEF IsBlock
  <2>3. j \in 1..Len(e) /\ j + 1 \in 1..(i - 1) /\ n[j + 1] = e[j]
    BY <1>1, <1>4, <2>1, <2>2
  <2>4. ASSUME NEW k \in (j + 1 + 1)..(i - 1) PROVE n[k].parent = n[i].parent
    <3>1. k \in DOMAIN n /\ k - 1 \in (j + 1)..((i - 1) - 1) /\ k # 1
      BY <1>1, <1>3, <1>5, <2>1, <2>2
    <3>2. n[k] = e[k - 1]
      BY <1>6, <3>1
    <3> QED
      BY <2>1, <2>2, <3>1, <3>2
  <2> QED
    BY <2>1, <2>2, <2>3, <2>4
<1>10. ASSUME NEW i \in DOMAIN n, NEW x \in ToSet(n[i].args), x > 0
       PROVE  \E j \in 1..(i - 1) : /\ n[j].id = x /\ HasResult(n[j])
                                    /\ n[j].parent = 0 \/ BlockOf(n[j]) = BlockOf(n[i])
  <2>1. i # 1
    <3>1. ToSet(<< >>) = {}
      BY DEF ToSet
    <3> QED
      BY <1>3, <1>10, <3>1
  <2>2. i > 1 /\ i - 1 \in 1..Len(e) /\ n[i] = e[i - 1] /\ i \in Nat
    BY <1>1, <1>3, <1>5, <1>6, <2>1
  <2>3. PICK j \in 1..((i - 1) - 1) : /\ e[j].id = x /\ HasResult(e[j])
                                      /\ e[j].parent = 0 \/ BlockOf(e[j]) = BlockOf(e[i - 1])
    BY <1>1, <1>10, <2>2 DEF IsBlock
  <2>4. j \in 1..Len(e) /\ j + 1 \in 1..(i - 1) /\ n[j + 1] = e[j]
    BY <1>1, <1>4, <2>2, <2>3
  <2> QED
    BY <2>2, <2>3, <2>4
<1>11. IsBlock(n)
  BY <1>5, <1>7, <1>8, <1>9, <1>10 DEF IsBlock
<1>12. \A k \in 1..Len(n) : At(n, n[k].id) = k /\ OpOf(n, n[k].id) = n[k] /\ n[k].id \in Ids(n)
  BY <1>11, BlockFacts
<1>13. 1 \in 1..Len(n) /\ \A i \in 1..Len(e) : i + 1 \in 1..Len(n)
  BY <1>1, <1>3
<1>14. OpOf(n, a.id) = a /\ At(n, a.id) = 1
  BY <1>3, <1>12, <1>13
<1>15. \A y \in Ids(e) : OpOf(n, y) = OpOf(e, y) /\ At(n, y) = At(e, y) + 1 /\ y \in Ids(n)
  <2>1. \A y \in Ids(e) : At(e, y) + 1 \in 1..Len(n) /\ n[At(e, y) + 1] = e[At(e, y)]
    BY <1>1, <1>4, <1>13
  <2> QED
    BY <1>1, <1>12, <2>1
<1>16. Ids(n) = Ids(e) \cup {a.id}
  <2>1. \A x \in Ids(n) : x \in Ids(e) \cup {a.id}
    BY <1>1, <1>6 DEF Ids
  <2>2. a.id \in Ids(n)
    BY <1>3, <1>12, <1>13
  <2> QED
    BY <1>15, <2>1, <2>2
<1>17. \A y \in Ids(e) : At(e, y) \in Nat /\ At(e, y) > 0
  BY <1>1
<1>18. \A y \in Ids(e) : Before(n, a.id, y)
  BY <1>14, <1>15, <1>17 DEF Before
<1>19. \A y, z \in Ids(e) : Before(n, y, z) <=> Before(e, y, z)
  BY <1>15, <1>17 DEF Before
<1> QED
  BY <1>11, <1>14, <1>15, <1>16, <1>18, <1>19 DEF n

\* An if whose condition is known gives way to one of its branches.
LEMMA UnwrappedBlock ==
    ASSUME NEW b, IsBlock(b), NEW if \in Ids(b), OpOf(b, if).kind = "if", NEW taken \in {"then", "else"}
    PROVE  LET n == FlattenSeq([i \in DOMAIN b |->
                CASE b[i].id = if     -> << >>
                  [] b[i].parent = if -> IF b[i].branch = taken
                                         THEN <<[b[i] EXCEPT !.parent = 0, !.branch = "top"]>> ELSE << >>
                  [] OTHER            -> <<b[i]>>])
           IN  /\ IsBlock(n)
               /\ \A x \in Ids(b) \ {if} : OpOf(b, x).parent = 0 => x \in Ids(n) /\ OpOf(n, x) = OpOf(b, x)
<1> DEFINE To(op) == IF op.parent = if THEN [op EXCEPT !.parent = 0, !.branch = "top"] ELSE op
           c == [i \in DOMAIN b |-> To(b[i])]
           T == {To(b[i]) : i \in DOMAIN b}
           K == {i \in DOMAIN b : b[i].id # if /\ (b[i].parent = if => b[i].branch = taken)}
           n == FlattenSeq([i \in DOMAIN b |->
                CASE b[i].id = if     -> << >>
                  [] b[i].parent = if -> IF b[i].branch = taken
                                         THEN <<[b[i] EXCEPT !.parent = 0, !.branch = "top"]>> ELSE << >>
                  [] OTHER            -> <<b[i]>>])
<1>1. /\ DOMAIN b = 1..Len(b) /\ Len(b) \in Nat
      /\ \A k \in 1..Len(b) : At(b, b[k].id) = k /\ OpOf(b, b[k].id) = b[k] /\ b[k].id \in Ids(b)
  BY BlockFacts
<1>2. if \in Nat \ {0} /\ OpOf(b, if).parent = 0
  BY BlockOps DEF IsOperation
<1>3. \A i \in DOMAIN b : IsOperation(b[i]) /\ (b[i].id = if => b[i].kind = "if" /\ b[i].parent = 0)
  BY <1>1, <1>2 DEF IsBlock
<1>4. c \in Seq(T) /\ DOMAIN c = DOMAIN b /\ \A i \in DOMAIN b : c[i] = To(b[i])
  <2>1. c \in [1..Len(b) -> T]
    BY <1>1
  <2>2. DOMAIN c = DOMAIN b /\ \A i \in DOMAIN b : c[i] = To(b[i])
    OBVIOUS
  <2> HIDE DEF c, T, To
  <2> QED
    BY <1>1, <2>1, <2>2
<1>5. n = Sifted(c, K)
  <2>1. \A i \in DOMAIN b :
          (CASE b[i].id = if     -> << >>
             [] b[i].parent = if -> IF b[i].branch = taken
                                    THEN <<[b[i] EXCEPT !.parent = 0, !.branch = "top"]>> ELSE << >>
             [] OTHER            -> <<b[i]>>)
          = IF i \in K THEN <<c[i]>> ELSE << >>
    BY <1>2, <1>3
  <2> QED
    BY <2>1 DEF Sifted
<1> HIDE DEF n, c, T
<1>6. \A i \in DOMAIN b : IsOperation(c[i]) /\ c[i].id = b[i].id /\ c[i].kind = b[i].kind /\ c[i].args = b[i].args
  <2>1. ASSUME NEW i \in DOMAIN b, b[i].parent = if
        PROVE  IsOperation(c[i]) /\ c[i].id = b[i].id /\ c[i].kind = b[i].kind /\ c[i].args = b[i].args
    <3>1. DOMAIN b[i] = Fields /\ c[i] = [b[i] EXCEPT !.parent = 0, !.branch = "top"]
      BY <1>3, <1>4, <2>1 DEF IsOperation
    <3>2. /\ DOMAIN c[i] = Fields /\ c[i].id = b[i].id /\ c[i].kind = b[i].kind /\ c[i].args = b[i].args
          /\ c[i].parent = 0 /\ c[i].branch = "top"
      BY <3>1 DEF Fields
    <3> QED
      BY <1>3, <3>2 DEF IsOperation
  <2>2. \A i \in DOMAIN b : b[i].parent # if => c[i] = b[i]
    BY <1>4
  <2> QED
    BY <1>3, <2>1, <2>2
<1>7. \A i \in DOMAIN b : /\ b[i].parent = if => c[i].parent = 0
                          /\ b[i].parent # if => c[i] = b[i]
  <2>1. \A i \in DOMAIN b : DOMAIN b[i] = Fields
    BY <1>3 DEF IsOperation
  <2> QED
    BY <1>4, <2>1 DEF Fields
<1> HIDE DEF To
<1>8. ASSUME NEW i \in K, c[i].parent # 0
      PROVE  \E j \in K : /\ j < i /\ c[j].id = c[i].parent /\ c[j].kind = "if"
                          /\ \A k \in K : j < k /\ k < i => c[k].parent = c[i].parent
  <2>1. c[i] = b[i] /\ b[i].parent # if
    BY <1>7, <1>8
  <2>2. PICK j \in 1..(i - 1) : /\ b[j].id = b[i].parent /\ b[j].kind = "if"
                                /\ \A k \in (j + 1)..(i - 1) : b[k].parent = b[i].parent
    BY <1>8, <2>1 DEF IsBlock
  <2>3. j \in DOMAIN b /\ j < i /\ i \in Nat
    BY <1>1, <2>2
  <2>4. b[j].parent = 0
    BY <1>3, <2>2, <2>3 DEF IsOperation
  <2>5. j \in K /\ c[j] = b[j]
    BY <1>2, <1>7, <2>1, <2>2, <2>3, <2>4
  <2>6. ASSUME NEW k \in K, j < k, k < i PROVE c[k].parent = c[i].parent
    <3>1. k \in (j + 1)..(i - 1)
      BY <1>1, <2>3, <2>6
    <3> QED
      BY <1>7, <2>1, <2>2, <3>1
  <2> QED
    BY <2>1, <2>2, <2>3, <2>5, <2>6
<1>9. ASSUME NEW i \in K, NEW x \in ToSet(c[i].args), x > 0
      PROVE  \E j \in K : /\ j < i /\ c[j].id = x /\ HasResult(c[j])
                          /\ c[j].parent = 0 \/ BlockOf(c[j]) = BlockOf(c[i])
  <2>1. PICK j \in 1..(i - 1) : /\ b[j].id = x /\ HasResult(b[j])
                                /\ b[j].parent = 0 \/ BlockOf(b[j]) = BlockOf(b[i])
    BY <1>6, <1>9 DEF IsBlock
  <2>2. j \in DOMAIN b /\ j < i /\ b[j].id # if
    BY <1>1, <1>3, <2>1 DEF HasResult
  <2>3. CASE b[j].parent = if
    <3>1. b[i].parent = if /\ b[i].branch = b[j].branch
      BY <1>2, <2>1, <2>3 DEF BlockOf
    <3>2. j \in K /\ c[j].parent = 0
      BY <1>7, <2>2, <2>3, <3>1
    <3> QED
      BY <1>6, <2>1, <2>2, <3>2 DEF HasResult
  <2>4. CASE b[j].parent # if
    <3>1. j \in K /\ c[j] = b[j]
      BY <1>7, <2>2, <2>4
    <3>2. c[j].parent = 0 \/ BlockOf(c[j]) = BlockOf(c[i])
      BY <1>7, <2>1, <2>4, <3>1 DEF BlockOf
    <3> QED
      BY <2>1, <2>2, <3>1, <3>2
  <2> QED
    BY <2>3, <2>4
<1>10. \A i, j \in K : c[i].id = c[j].id => i = j
  BY <1>6 DEF IsBlock
<1>11. K \in SUBSET DOMAIN c /\ \A i \in K : IsOperation(c[i])
  BY <1>4, <1>6
<1> HIDE DEF K
<1>12. /\ IsBlock(Sifted(c, K)) /\ Ids(Sifted(c, K)) = {c[i].id : i \in K}
       /\ \A i \in K : OpOf(Sifted(c, K), c[i].id) = c[i]
  BY <1>4, <1>8, <1>9, <1>10, <1>11, SiftedBlock
<1>13. ASSUME NEW x \in Ids(b) \ {if}, OpOf(b, x).parent = 0
       PROVE  x \in Ids(n) /\ OpOf(n, x) = OpOf(b, x)
  <2>1. PICK i \in DOMAIN b : b[i].id = x /\ OpOf(b, x) = b[i]
    BY <1>1 DEF Ids
  <2>2. i \in K /\ c[i] = b[i]
    BY <1>2, <1>7, <1>13, <2>1 DEF K
  <2> QED
    BY <1>5, <1>12, <2>1, <2>2
<1> QED
  BY <1>5, <1>12, <1>13 DEF n

\* Some operations of a block come first and last among any of them.
LEMMA FirstAndLast ==
    ASSUME NEW b, IsBlock(b), NEW S \in SUBSET Ids(b), S # {}
    PROVE  /\ \E y \in S : \A z \in S : ~Before(b, z, y)
           /\ \E y \in S : \A z \in S : ~Before(b, y, z)
<1> DEFINE N == {At(b, y) : y \in S}
<1>1. Len(b) \in Nat /\ \A y \in S : At(b, y) \in 1..Len(b)
  BY BlockFacts
<1>2. N \in SUBSET Nat /\ N \in SUBSET Int /\ N # {} /\ \A k \in N : k <= Len(b)
  BY <1>1
<1>3. \E k \in N : \A l \in N : k <= l
  BY <1>2, LeastNat
<1>4. \E k \in N : \A l \in N : l <= k
  BY <1>1, <1>2, GreatestBelow
<1>5. \A y, z \in S : At(b, y) <= At(b, z) => ~Before(b, z, y)
  BY <1>1 DEF Before
<1> QED
  BY <1>3, <1>4, <1>5

\* Ifs give way to the next one that stays, with what is in their then blocks.
LEMMA MergedBlock ==
    ASSUME IsBlock(ops), NEW merged \in SUBSET OfKind(ops, "if"),
           \A x \in merged : \E y \in OfKind(ops, "if") \ merged : Before(ops, x, y)
    PROVE  LET n == FlattenSeq([i \in DOMAIN ops |->
                IF ops[i].id \in merged \/ ops[i].parent \in merged THEN << >>
                ELSE <<ops[i]>> \o MovedTo(ops[i].id, merged)])
           IN  /\ IsBlock(n)
               /\ \A x \in Ids(ops) \ merged :
                     OpOf(ops, x).parent = 0 => x \in Ids(n) /\ OpOf(n, x) = OpOf(ops, x)
<1> DEFINE Staying == OfKind(ops, "if") \ merged
           S(y) == {i \in DOMAIN ops : /\ ops[i].branch = "then" /\ ops[i].parent \in merged
                                       /\ IntoIf(ops[i].parent, merged) = y}
           M(y) == MovedTo(y, merged)
           In(y, i) == [ops[i] EXCEPT !.parent = y]
           T == ToSet(ops) \cup {In(y, i) : y \in Ids(ops), i \in DOMAIN ops}
           ss == [i \in DOMAIN ops |->
                    IF ops[i].id \in merged \/ ops[i].parent \in merged THEN << >>
                    ELSE <<ops[i]>> \o MovedTo(ops[i].id, merged)]
           Here == {i \in DOMAIN ops : ops[i].id \notin merged /\ ops[i].parent \notin merged}
           IsPos(y, pos) == /\ pos \in [1..Len(M(y)) -> S(y)] /\ Len(M(y)) \in Nat
                            /\ \A j \in 1..Len(M(y)) : M(y)[j] = In(y, pos[j])
                            /\ \A j, k \in 1..Len(M(y)) : j < k <=> pos[j] < pos[k]
                            /\ \A i \in S(y) : \E j \in 1..Len(M(y)) : pos[j] = i
                            /\ y \in Ids(ops) => M(y) \in Seq(T)
           pos(y) == CHOOSE f : IsPos(y, f)
<1>1. /\ ops \in Seq(ToSet(ops)) /\ DOMAIN ops = 1..Len(ops) /\ Len(ops) \in Nat
      /\ \A k \in 1..Len(ops) : At(ops, ops[k].id) = k /\ OpOf(ops, ops[k].id) = ops[k] /\ ops[k].id \in Ids(ops)
      /\ \A z \in Ids(ops) : At(ops, z) \in 1..Len(ops) /\ ops[At(ops, z)].id = z /\ OpOf(ops, z) = ops[At(ops, z)]
  BY BlockFacts
<1>2. /\ \A i \in DOMAIN ops : IsOperation(ops[i])
      /\ \A i, j \in DOMAIN ops : ops[i].id = ops[j].id => i = j
  BY DEF IsBlock
<1>3. \A x \in merged : IntoIf(x, merged) \in Staying /\ Before(ops, x, IntoIf(x, merged))
  <2> SUFFICES ASSUME NEW x \in merged PROVE IntoIf(x, merged) \in Staying /\ Before(ops, x, IntoIf(x, merged))
    OBVIOUS
  <2> DEFINE Later == {y \in Staying : Before(ops, x, y)}
  <2>1. Later \in SUBSET Ids(ops) /\ Later # {}
    BY DEF OfKind
  <2>2. PICK y \in Later : \A z \in Later : ~Before(ops, z, y)
    BY <2>1, FirstAndLast
  <2>3. \E v \in Staying : /\ Before(ops, x, v)
                           /\ \A z \in Staying : Before(ops, x, z) => ~Before(ops, z, v)
    BY <2>2
  <2> QED
    BY <2>3 DEF IntoIf
<1>4. /\ \A y \in Staying : y \in Ids(ops) /\ ops[At(ops, y)].kind = "if" /\ At(ops, y) \in Here /\ y # 0
      /\ 0 \notin merged
      /\ \A x \in merged : x \in Ids(ops) /\ ops[At(ops, x)].kind = "if"
  <2>1. \A y \in OfKind(ops, "if") : /\ y \in Ids(ops) /\ ops[At(ops, y)].kind = "if"
                                     /\ ops[At(ops, y)].parent = 0 /\ y # 0
    BY <1>1, <1>2, BlockOps DEF OfKind, IsOperation
  <2>2. 0 \notin merged
    BY <2>1
  <2> QED
    BY <1>1, <2>1, <2>2
\* What is moved.
<1>5. ASSUME NEW y PROVE \E f : IsPos(y, f)
  <2> DEFINE m == Kept(ops, S(y))
  <2>1. S(y) \in SUBSET DOMAIN ops
    OBVIOUS
  <2>2. M(y) = [j \in DOMAIN m |-> [m[j] EXCEPT !.parent = y]]
    BY DEF MovedTo
  <2> HIDE DEF S, M, m
  <2>3. /\ m \in Seq(ToSet(ops))
        /\ \E f \in [1..Len(m) -> S(y)] :
                 /\ \A j \in 1..Len(m) : m[j] = ops[f[j]]
                 /\ \A j, k \in 1..Len(m) : j < k <=> f[j] < f[k]
                 /\ \A i \in S(y) : \E j \in 1..Len(m) : f[j] = i
    BY <1>1, <2>1, KeptLayout DEF m
  <2>4. PICK f \in [1..Len(m) -> S(y)] :
                 /\ \A j \in 1..Len(m) : m[j] = ops[f[j]]
                 /\ \A j, k \in 1..Len(m) : j < k <=> f[j] < f[k]
                 /\ \A i \in S(y) : \E j \in 1..Len(m) : f[j] = i
    BY <2>3
  <2>5. Len(m) \in Nat /\ DOMAIN m = 1..Len(m)
    BY <2>3
  <2>6. \A j \in 1..Len(m) : M(y)[j] = In(y, f[j])
    BY <2>2, <2>4, <2>5
  <2>7. M(y) = [j \in 1..Len(m) |-> M(y)[j]]
    BY <2>2, <2>5
  <2>8. M(y) \in Seq({In(y, i) : i \in DOMAIN ops}) /\ Len(M(y)) = Len(m)
    <3>1. \A j \in 1..Len(m) : M(y)[j] \in {In(y, i) : i \in DOMAIN ops}
      BY <2>1, <2>4, <2>6
    <3>2. M(y) \in [1..Len(m) -> {In(y, i) : i \in DOMAIN ops}]
      BY <2>7, <3>1
    <3> HIDE DEF In
    <3> QED
      BY <2>5, <3>2
  <2>9. y \in Ids(ops) => M(y) \in Seq(T)
    <3>1. y \in Ids(ops) => {In(y, i) : i \in DOMAIN ops} \subseteq T
      OBVIOUS
    <3>2. \A A, B : A \subseteq B => Seq(A) \subseteq Seq(B)
      OBVIOUS
    <3> HIDE DEF In, T
    <3> QED
      BY <2>8, <3>1, <3>2
  <2> HIDE DEF In, T
  <2>10. IsPos(y, f)
    BY <2>4, <2>5, <2>6, <2>8, <2>9
  <2> QED
    BY <2>10
<1>6. ASSUME NEW y
      PROVE  /\ pos(y) \in [1..Len(M(y)) -> S(y)] /\ Len(M(y)) \in Nat
             /\ \A j \in 1..Len(M(y)) : M(y)[j] = In(y, pos(y)[j])
             /\ \A j, k \in 1..Len(M(y)) : j < k <=> pos(y)[j] < pos(y)[k]
             /\ \A i \in S(y) : \E j \in 1..Len(M(y)) : pos(y)[j] = i
             /\ y \in Ids(ops) => M(y) \in Seq(T)
  <2> HIDE DEF IsPos
  <2>1. IsPos(y, pos(y))
    BY <1>5
  <2> HIDE DEF pos, S, M, T, In
  <2> QED
    BY <2>1 DEF IsPos
<1>7. \A y, i : i \in S(y) => /\ i \in DOMAIN ops /\ ops[i].branch = "then" /\ ops[i].parent \in merged
                              /\ IntoIf(ops[i].parent, merged) = y /\ y \in Staying
  BY <1>3
<1>8. \A y : y \notin Staying => Len(M(y)) = 0
  <2> SUFFICES ASSUME NEW y, y \notin Staying, Len(M(y)) # 0 PROVE FALSE
    OBVIOUS
  <2> HIDE DEF S, M, Staying, pos, T, In, IsPos
  <2>1. pos(y) \in [1..Len(M(y)) -> S(y)] /\ Len(M(y)) \in Nat
    BY <1>6
  <2>2. 1 \in 1..Len(M(y))
    BY <2>1
  <2>3. pos(y)[1] \in S(y)
    BY <2>1, <2>2
  <2> QED
    BY <1>7, <2>3
<1> HIDE DEF S, M, pos, IsPos
<1>9. /\ ss \in Seq(Seq(T)) /\ Len(ss) = Len(ops)
      /\ \A i \in DOMAIN ops : i \notin Here => ss[i] = << >>
      /\ \A i \in Here : /\ Len(ss[i]) = 1 + Len(M(ops[i].id)) /\ ss[i][1] = ops[i]
                         /\ \A j \in 1..Len(M(ops[i].id)) : ss[i][1 + j] = M(ops[i].id)[j]
  <2>1. ASSUME NEW i \in DOMAIN ops
        PROVE  /\ i \notin Here => ss[i] = << >>
               /\ i \in Here => ss[i] = <<ops[i]>> \o M(ops[i].id)
               /\ <<ops[i]>> \in Seq(T) /\ M(ops[i].id) \in Seq(T)
    <3>1. ops[i] \in T
      BY DEF ToSet
    <3>2. M(ops[i].id) \in Seq(T)
      <4> HIDE DEF T
      <4> QED
        BY <1>1, <1>6
    <3> HIDE DEF T, In
    <3> QED
      BY <3>1, <3>2 DEF M
  <2>2. ASSUME NEW i \in Here
        PROVE  /\ ss[i] \in Seq(T) /\ Len(ss[i]) = 1 + Len(M(ops[i].id)) /\ ss[i][1] = ops[i]
               /\ \A j \in 1..Len(M(ops[i].id)) : ss[i][1 + j] = M(ops[i].id)[j]
    <3> DEFINE m == M(ops[i].id)
               o == <<ops[i]>>
    <3>1. ss[i] = o \o m /\ o \in Seq(T) /\ m \in Seq(T)
      <4> HIDE DEF T, ss
      <4> QED
        BY <2>1
    <3>2. Len(o) = 1 /\ o[1] = ops[i]
      OBVIOUS
    <3> HIDE DEF m, o, T, ss
    <3>3. ss[i] \in Seq(T) /\ Len(ss[i]) = 1 + Len(m) /\ ss[i][1] = ops[i]
      <4>1. o \o m \in Seq(T) /\ Len(o \o m) = Len(o) + Len(m)
        BY <3>1
      <4>2. \A k \in 1..Len(o) : (o \o m)[k] = o[k]
        BY <3>1
      <4>3. 1 \in 1..Len(o)
        BY <3>2
      <4> QED
        BY <3>1, <3>2, <4>1, <4>2, <4>3
    <3>4. \A j \in 1..Len(m) : ss[i][Len(o) + j] = m[j]
      BY <3>1
    <3> QED
      BY <3>2, <3>3, <3>4 DEF m
  <2>3. \A i \in DOMAIN ops : ss[i] \in Seq(T)
    <3>1. << >> \in Seq(T)
      OBVIOUS
    <3> HIDE DEF ss, T
    <3> QED
      BY <2>1, <2>2, <3>1
  <2>4. ss = [i \in 1..Len(ops) |-> ss[i]]
    BY <1>1
  <2> HIDE DEF ss, T
  <2>5. ss \in Seq(Seq(T)) /\ Len(ss) = Len(ops)
    BY <1>1, <2>3, <2>4
  <2> QED
    BY <2>1, <2>2, <2>5
<1> HIDE DEF ss, T
<1> DEFINE Y(q) == ops[q[1]].id
           Orig(q) == IF q[2] = 1 THEN q[1] ELSE pos(Y(q))[q[2] - 1]
<1>10. ASSUME NEW q \in Place(ss)
       PROVE  /\ q[1] \in Here /\ q[2] \in Nat \ {0} /\ q = <<q[1], q[2]>> /\ q[1] \in Nat
              /\ q[2] = 1 => OpAt(ss, q) = ops[q[1]] /\ Orig(q) = q[1]
              /\ q[2] # 1 => /\ Y(q) \in Staying /\ Orig(q) \in S(Y(q)) /\ OpAt(ss, q) = In(Y(q), Orig(q))
                             /\ q[2] - 1 \in 1..Len(M(Y(q))) /\ Orig(q) = pos(Y(q))[q[2] - 1]
  <2>1. q[1] \in 1..Len(ops) /\ q[2] \in Nat \ {0} /\ q[2] <= Len(ss[q[1]]) /\ q = <<q[1], q[2]>>
    BY <1>9 DEF Place
  <2>2. q[1] \in Here
    <3>1. Len(<< >>) = 0
      OBVIOUS
    <3> QED
      BY <1>1, <1>9, <2>1, <3>1
  <2>3. CASE q[2] = 1
    BY <1>1, <1>9, <2>1, <2>2, <2>3 DEF OpAt
  <2>4. CASE q[2] # 1
    <3>1. q[2] - 1 \in 1..Len(M(Y(q))) /\ 1 + (q[2] - 1) = q[2]
      BY <1>6, <1>9, <2>1, <2>2, <2>4
    <3>2. OpAt(ss, q) = M(Y(q))[q[2] - 1]
      <4> DEFINE k == q[2] - 1
      <4>1. k \in 1..Len(M(ops[q[1]].id)) /\ 1 + k = q[2]
        BY <3>1
      <4> HIDE DEF k
      <4>2. ss[q[1]][1 + k] = M(ops[q[1]].id)[k]
        BY <1>9, <2>2, <4>1
      <4> QED
        BY <4>1, <4>2 DEF OpAt, k
    <3>3. pos(Y(q))[q[2] - 1] \in S(Y(q)) /\ M(Y(q))[q[2] - 1] = In(Y(q), pos(Y(q))[q[2] - 1])
      BY <1>6, <3>1
    <3> HIDE DEF In
    <3> QED
      BY <1>1, <1>7, <2>1, <2>2, <2>4, <3>1, <3>2, <3>3
  <2> QED
    BY <2>3, <2>4
<1>11. ASSUME NEW y, NEW i \in S(y)
       PROVE  /\ In(y, i).id = ops[i].id /\ In(y, i).parent = y /\ In(y, i).branch = "then"
              /\ In(y, i).kind = ops[i].kind /\ In(y, i).args = ops[i].args /\ IsOperation(In(y, i))
  <2>1. /\ i \in DOMAIN ops /\ ops[i].branch = "then" /\ ops[i].parent \in merged /\ y \in Staying
        /\ IsOperation(ops[i]) /\ y # 0 /\ y \in Ids(ops)
    BY <1>2, <1>4, <1>7
  <2>2. DOMAIN ops[i] = Fields
    BY <2>1 DEF IsOperation
  <2>3. /\ DOMAIN In(y, i) = Fields /\ In(y, i).id = ops[i].id /\ In(y, i).parent = y
        /\ In(y, i).branch = ops[i].branch /\ In(y, i).kind = ops[i].kind /\ In(y, i).args = ops[i].args
    BY <2>2 DEF Fields
  <2>4. y \in Nat
    BY <2>1, BlockOps
  <2>5. ops[i].parent # 0
    BY <1>4, <2>1
  <2> HIDE DEF In
  <2> QED
    BY <2>1, <2>3, <2>4, <2>5 DEF IsOperation
<1> HIDE DEF In
<1>12. ASSUME NEW q \in Place(ss)
       PROVE  Orig(q) \in DOMAIN ops /\ OpAt(ss, q).id = ops[Orig(q)].id /\ IsOperation(OpAt(ss, q))
              /\ OpAt(ss, q).args = ops[Orig(q)].args
  <2>1. CASE q[2] = 1
    BY <1>2, <1>10, <2>1
  <2>2. CASE q[2] # 1
    <3>1. Orig(q) \in S(Y(q)) /\ OpAt(ss, q) = In(Y(q), Orig(q))
      BY <1>10, <2>2
    <3> HIDE DEF Orig, Y
    <3> QED
      BY <1>7, <1>11, <3>1
  <2> QED
    BY <2>1, <2>2
<1>13. ASSUME NEW q \in Place(ss), NEW r \in Place(ss), Orig(q) = Orig(r) PROVE q = r
  <2>1. CASE q[2] = 1 /\ r[2] = 1
    BY <1>10, <1>13, <2>1
  <2>2. CASE q[2] # 1 /\ r[2] # 1
    <3>1. Orig(q) \in S(Y(q)) /\ Orig(r) \in S(Y(r))
      BY <1>10, <2>2
    <3>2. Y(q) = Y(r)
      <4> HIDE DEF Orig, Y
      <4> QED
        BY <1>7, <1>13, <3>1
    <3>3. q[1] = r[1]
      BY <1>2, <1>10, <3>2
    <3> DEFINE m == Len(M(Y(q)))
               f == pos(Y(q))
               j == q[2] - 1
               k == r[2] - 1
    <3>4. /\ m \in Nat /\ j \in 1..m /\ k \in 1..m /\ f[j] = f[k] /\ f \in [1..m -> S(Y(q))]
          /\ \A a, c \in 1..m : a < c <=> f[a] < f[c]
      BY <1>6, <1>10, <1>13, <2>2, <3>2
    <3>5. f[j] \in Nat
      <4>1. f[j] \in S(Y(q))
        BY <3>4
      <4>2. f[j] \in DOMAIN ops
        BY <1>7, <4>1
      <4> QED
        BY <1>1, <4>2
    <3>6. ~(j < k) /\ ~(k < j)
      <4> HIDE DEF j, k, f, m
      <4> QED
        BY <3>4, <3>5
    <3>7. q[2] = r[2]
      BY <1>10, <3>4, <3>6
    <3> QED
      BY <1>10, <3>3, <3>7
  <2>3. ASSUME NEW a \in Place(ss), NEW c \in Place(ss), a[2] = 1, c[2] # 1 PROVE Orig(a) # Orig(c)
    <3>1. Orig(a) \in Here /\ Orig(c) \in S(Y(c))
      BY <1>10, <2>3
    <3> HIDE DEF Orig, Y
    <3> QED
      BY <1>7, <3>1
  <2>4. (q[2] = 1) <=> (r[2] = 1)
    <3> HIDE DEF Orig
    <3> QED
      BY <1>13, <2>3
  <2> QED
    BY <2>1, <2>2, <2>4
<1>14. ASSUME NEW i \in Here PROVE <<i, 1>> \in Place(ss) /\ OpAt(ss, <<i, 1>>) = ops[i]
  <2> DEFINE q == <<i, 1>>
  <2>1. q[1] = i /\ q[2] = 1 /\ i \in 1..Len(ss) /\ 1 <= Len(ss[i]) /\ q \in (1..Len(ss)) \X (Nat \ {0})
    BY <1>1, <1>6, <1>9
  <2>2. ss[i][1] = ops[i]
    BY <1>9
  <2> HIDE DEF q
  <2>3. q \in Place(ss) /\ OpAt(ss, q) = ops[i]
    BY <2>1, <2>2 DEF Place, OpAt
  <2> QED
    BY <2>3 DEF q
<1>15. ASSUME NEW y \in Staying, NEW i \in S(y)
       PROVE  \E q \in Place(ss) : q[1] = At(ops, y) /\ q[2] # 1 /\ Orig(q) = i /\ Y(q) = y
  <2>1. PICK j \in 1..Len(M(y)) : pos(y)[j] = i
    BY <1>6
  <2> DEFINE q == <<At(ops, y), 1 + j>>
  <2>2. q[1] = At(ops, y) /\ q[2] = 1 + j /\ j \in Nat /\ j > 0
    BY <1>6
  <2>3. Y(q) = y /\ q[1] \in Here
    BY <1>1, <1>4
  <2>4. q \in (1..Len(ss)) \X (Nat \ {0}) /\ q[2] <= Len(ss[q[1]])
    <3>1. At(ops, y) \in 1..Len(ss) /\ 1 + j \in Nat \ {0}
      BY <1>1, <1>4, <1>9, <2>2
    <3>2. Len(ss[q[1]]) = 1 + Len(M(y)) /\ Len(M(y)) \in Nat
      <4> HIDE DEF q, Y
      <4> QED
        BY <1>6, <1>9, <2>3 DEF Y
    <3> QED
      BY <2>2, <3>1, <3>2
  <2>5. q[2] # 1 /\ q[2] - 1 = j
    BY <2>2
  <2> HIDE DEF q
  <2>6. q \in Place(ss)
    BY <2>4 DEF Place
  <2>7. Orig(q) = i
    BY <2>1, <2>3, <2>5
  <2> QED
    BY <2>2, <2>3, <2>5, <2>6, <2>7
<1>16. \A q \in Place(ss) : IsOperation(OpAt(ss, q))
  BY <1>12
<1>17. \A q, r \in Place(ss) : OpAt(ss, q).id = OpAt(ss, r).id => q = r
  <2> HIDE DEF Orig
  <2> QED
    BY <1>2, <1>12, <1>13
<1>18. ASSUME NEW q \in Place(ss), OpAt(ss, q).parent # 0
       PROVE  \E r \in Place(ss) :
              /\ Earlier(r, q) /\ OpAt(ss, r).id = OpAt(ss, q).parent /\ OpAt(ss, r).kind = "if"
              /\ \A t \in Place(ss) : Earlier(r, t) /\ Earlier(t, q) =>
                    OpAt(ss, t).parent = OpAt(ss, q).parent
  <2>1. \A t \in Place(ss) : t[2] # 1 => OpAt(ss, t).parent = Y(t) /\ Y(t) \in Staying
    <3> HIDE DEF Orig, Y
    <3> QED
      BY <1>10, <1>11
  <2>2. CASE q[2] = 1
    <3> DEFINE i == q[1]
    <3>1. i \in Here /\ OpAt(ss, q) = ops[i] /\ i \in DOMAIN ops /\ ops[i].parent # 0 /\ i \in Nat
      BY <1>1, <1>10, <1>18, <2>2
    <3>2. PICK j \in 1..(i - 1) : /\ ops[j].id = ops[i].parent /\ ops[j].kind = "if"
                                  /\ \A k \in (j + 1)..(i - 1) : ops[k].parent = ops[i].parent
      BY <3>1 DEF IsBlock
    <3>3. j \in DOMAIN ops /\ j < i /\ j \in Nat
      BY <1>1, <3>1, <3>2
    <3>4. ops[j].parent = 0
      BY <1>2, <3>2, <3>3 DEF IsOperation
    <3>5. j \in Here
      BY <1>4, <3>1, <3>2, <3>3, <3>4
    <3> DEFINE r == <<j, 1>>
    <3>6. r \in Place(ss) /\ OpAt(ss, r) = ops[j] /\ r[1] = j /\ r[2] = 1
      BY <1>14, <3>5
    <3> HIDE DEF r
    <3>7. Earlier(r, q)
      BY <3>3, <3>6 DEF Earlier
    <3>8. ASSUME NEW t \in Place(ss), Earlier(r, t), Earlier(t, q) PROVE OpAt(ss, t).parent = OpAt(ss, q).parent
      <4>1. t[1] \in Nat /\ t[2] \in Nat \ {0} /\ t[1] \in DOMAIN ops
        BY <1>10
      <4>2. CASE t[1] = j
        <5>1. t[2] # 1
          BY <3>6, <3>8, <4>2 DEF Earlier
        <5> QED
          BY <2>1, <3>1, <3>2, <4>2, <5>1
      <4>3. CASE t[1] # j
        <5>1. j < t[1] /\ t[1] < i
          BY <2>2, <3>1, <3>3, <3>6, <3>8, <4>1, <4>3 DEF Earlier
        <5>2. ops[t[1]].parent = ops[i].parent
          BY <3>1, <3>2, <3>3, <4>1, <5>1
        <5>3. t[2] = 1
          <6>1. ASSUME t[2] # 1 PROVE FALSE
            <7>1. ops[t[1]].kind = "if"
              BY <1>1, <1>4, <2>1, <4>1, <6>1
            <7> QED
              BY <1>2, <3>1, <4>1, <5>2, <7>1 DEF IsOperation
          <6> QED
            BY <6>1
        <5> QED
          BY <1>10, <3>1, <5>2, <5>3
      <4> QED
        BY <4>2, <4>3
    <3> QED
      BY <3>1, <3>2, <3>6, <3>7, <3>8
  <2>3. CASE q[2] # 1
    <3> DEFINE r == <<q[1], 1>>
    <3>1. q[1] \in Here /\ q[1] \in Nat /\ q[2] \in Nat \ {0} /\ Y(q) \in Staying /\ OpAt(ss, q).parent = Y(q)
      BY <1>10, <2>1, <2>3
    <3>2. r \in Place(ss) /\ OpAt(ss, r) = ops[q[1]] /\ r[1] = q[1] /\ r[2] = 1
      BY <1>14, <3>1
    <3> HIDE DEF r
    <3>3. ops[q[1]].kind = "if"
      BY <1>1, <1>4, <3>1
    <3>4. Earlier(r, q)
      BY <2>3, <3>1, <3>2 DEF Earlier
    <3>5. ASSUME NEW t \in Place(ss), Earlier(r, t), Earlier(t, q) PROVE OpAt(ss, t).parent = Y(q)
      <4>1. t[1] \in Nat /\ t[2] \in Nat \ {0}
        BY <1>10
      <4>2. t[1] = q[1] /\ t[2] # 1
        BY <3>1, <3>2, <3>5, <4>1 DEF Earlier
      <4> QED
        BY <2>1, <4>2
    <3> QED
      BY <3>1, <3>2, <3>3, <3>4, <3>5
  <2> QED
    BY <2>2, <2>3
<1>19. ASSUME NEW q \in Place(ss), NEW x \in ToSet(OpAt(ss, q).args), x > 0
       PROVE  \E r \in Place(ss) :
              /\ Earlier(r, q) /\ OpAt(ss, r).id = x /\ HasResult(OpAt(ss, r))
              /\ OpAt(ss, r).parent = 0 \/ BlockOf(OpAt(ss, r)) = BlockOf(OpAt(ss, q))
  <2> DEFINE k == Orig(q)
  <2>1. k \in DOMAIN ops /\ x \in ToSet(ops[k].args) /\ k \in Nat
    BY <1>1, <1>12, <1>19
  <2>2. PICK j \in 1..(k - 1) : /\ ops[j].id = x /\ HasResult(ops[j])
                                /\ ops[j].parent = 0 \/ BlockOf(ops[j]) = BlockOf(ops[k])
    BY <1>19, <2>1 DEF IsBlock
  <2>3. j \in DOMAIN ops /\ j < k /\ j \in Nat
    BY <1>1, <2>1, <2>2
  <2>4. ops[j].id \notin merged
    BY <1>1, <1>4, <2>2, <2>3 DEF HasResult
  <2>5. CASE q[2] = 1
    <3>1. k = q[1] /\ OpAt(ss, q) = ops[k] /\ k \in Here
      BY <1>10, <2>5
    <3>2. j \in Here
      BY <1>4, <2>2, <2>3, <2>4, <3>1 DEF BlockOf
    <3>3. <<j, 1>> \in Place(ss) /\ OpAt(ss, <<j, 1>>) = ops[j]
      BY <1>14, <3>2
    <3>4. Earlier(<<j, 1>>, q)
      BY <2>3, <3>1 DEF Earlier
    <3> QED
      BY <2>2, <3>1, <3>3, <3>4
  <2>6. CASE q[2] # 1
    <3>1. /\ Y(q) \in Staying /\ k \in S(Y(q)) /\ OpAt(ss, q) = In(Y(q), k) /\ q[1] \in Here
          /\ q[1] \in Nat /\ q[2] \in Nat /\ q[2] - 1 \in 1..Len(M(Y(q))) /\ k = pos(Y(q))[q[2] - 1]
      BY <1>10, <2>6
    <3>2. q[1] = At(ops, Y(q))
      BY <1>1, <3>1
    <3> HIDE DEF k, Y
    <3>3. ops[k].branch = "then" /\ ops[k].parent \in merged /\ IntoIf(ops[k].parent, merged) = Y(q)
      BY <1>7, <3>1
    <3>4. BlockOf(OpAt(ss, q)) = <<Y(q), "then">>
      BY <1>11, <3>1 DEF BlockOf
    <3>5. CASE ops[j].parent = 0
      <4>1. j \in Here
        BY <1>4, <2>3, <2>4, <3>5
      <4>2. <<j, 1>> \in Place(ss) /\ OpAt(ss, <<j, 1>>) = ops[j]
        BY <1>14, <4>1
      <4> DEFINE m == At(ops, ops[k].parent)
      <4>3. m \in DOMAIN ops /\ m < At(ops, Y(q)) /\ m \in Nat /\ At(ops, Y(q)) \in Nat
            /\ ops[m].id = ops[k].parent /\ ops[m].kind = "if"
        BY <1>1, <1>3, <1>4, <3>1, <3>3 DEF Before
      <4>4. PICK l \in 1..(k - 1) : /\ ops[l].id = ops[k].parent /\ ops[l].kind = "if"
                                    /\ \A v \in (l + 1)..(k - 1) : ops[v].parent = ops[k].parent
        BY <1>4, <2>1, <3>3 DEF IsBlock
      <4>5. l = m
        BY <1>1, <1>2, <2>1, <4>3, <4>4
      <4> HIDE DEF m
      <4>6. ~(m < j)
        <5>1. m < j => j \in (l + 1)..(k - 1)
          BY <2>1, <2>3, <4>3, <4>5
        <5> QED
          BY <1>4, <3>3, <3>5, <4>4, <5>1
      <4>7. j < q[1]
        BY <2>3, <3>2, <4>3, <4>6
      <4>8. Earlier(<<j, 1>>, q)
        BY <4>7 DEF Earlier
      <4> QED
        BY <2>2, <3>5, <4>2, <4>8
    <3>6. CASE BlockOf(ops[j]) = BlockOf(ops[k])
      <4>1. ops[j].parent = ops[k].parent /\ ops[j].branch = "then"
        BY <3>3, <3>6 DEF BlockOf
      <4>2. j \in S(Y(q))
        BY <2>3, <3>3, <4>1 DEF S
      <4>3. PICK r \in Place(ss) : r[1] = At(ops, Y(q)) /\ r[2] # 1 /\ Orig(r) = j /\ Y(r) = Y(q)
        BY <1>15, <3>1, <4>2
      <4>4. OpAt(ss, r) = In(Y(q), j) /\ j = pos(Y(q))[r[2] - 1] /\ r[2] - 1 \in 1..Len(M(Y(q))) /\ r[2] \in Nat
        BY <1>10, <4>3
      <4>5. r[2] - 1 < q[2] - 1
        BY <1>6, <2>3, <3>1, <4>4
      <4>6. Earlier(r, q)
        BY <3>1, <3>2, <4>3, <4>4, <4>5 DEF Earlier
      <4>7. In(Y(q), j).id = x /\ HasResult(In(Y(q), j)) /\ BlockOf(In(Y(q), j)) = <<Y(q), "then">>
        BY <1>11, <2>2, <4>2 DEF HasResult, BlockOf
      <4> QED
        BY <3>4, <4>4, <4>6, <4>7
    <3> QED
      BY <2>2, <3>5, <3>6
  <2> QED
    BY <2>5, <2>6
<1>20. IsFlatBlock(ss)
  BY <1>16, <1>17, <1>18, <1>19 DEF IsFlatBlock
<1>21. IsBlock(FlattenSeq(ss))
  BY <1>9, <1>20, FlatBlock
<1>22. /\ Ids(FlattenSeq(ss)) = {OpAt(ss, q).id : q \in Place(ss)}
       /\ \A q \in Place(ss) : OpOf(FlattenSeq(ss), OpAt(ss, q).id) = OpAt(ss, q)
  BY <1>9, <1>20, FlatView
<1>23. ASSUME NEW x \in Ids(ops) \ merged, OpOf(ops, x).parent = 0
       PROVE  x \in Ids(FlattenSeq(ss)) /\ OpOf(FlattenSeq(ss), x) = OpOf(ops, x)
  <2>1. PICK i \in DOMAIN ops : ops[i].id = x /\ OpOf(ops, x) = ops[i]
    BY <1>1 DEF Ids
  <2>2. i \in Here
    BY <1>4, <1>23, <2>1
  <2>3. <<i, 1>> \in Place(ss) /\ OpAt(ss, <<i, 1>>) = ops[i]
    BY <1>14, <2>2
  <2> QED
    BY <1>22, <2>1, <2>3
<1> QED
  BY <1>21, <1>23 DEF ss

\* The ids of a block are numbers that have a bound, so an id can be fresh.
LEMMA FreshIds ==
    ASSUME IsBlock(ops)
    PROVE  /\ Fresh \in Nat \ {0}
           /\ \A m \in Ids(ops) : m < Fresh
           /\ \E m \in Ids(ops) \cup {0} : Fresh = m + 1
<1>1. DOMAIN ops = 1..Len(ops) /\ Len(ops) \in Nat
  BY BlockFacts
<1>2. Ids(ops) \in SUBSET (Nat \ {0})
  BY BlockOps
<1> DEFINE f == [i \in DOMAIN ops |-> ops[i].id]
           S == Ids(ops) \cup {0}
<1>3. IsFiniteSet(Ids(ops))
  <2>1. IsFiniteSet(DOMAIN ops)
    BY <1>1, FS_Interval
  <2>2. IsFiniteSet({f[i] : i \in DOMAIN ops})
    BY <2>1, FiniteImage
  <2>3. {f[i] : i \in DOMAIN ops} = Ids(ops)
    BY DEF Ids
  <2> QED
    BY <2>2, <2>3
<1>4. IsFiniteSet(S)
  BY <1>3, FS_AddElement
<1>5. \E n \in S : \A m \in S : m <= n
  BY <1>2, <1>4, GreatestNat
<1>6. \E n \in S : \A m \in Ids(ops) : m <= n
  BY <1>5
<1> DEFINE top == CHOOSE n \in S : \A m \in Ids(ops) : m <= n
<1>7. top \in S /\ \A m \in Ids(ops) : m <= top
  BY <1>6
<1>8. Fresh = 1 + top
  BY DEF Fresh
<1> HIDE DEF top
<1>9. top \in Nat
  BY <1>2, <1>7
<1> QED
  BY <1>2, <1>7, <1>8, <1>9

\* The ids at some positions, in order.
LEMMA InOrderLayout ==
    ASSUME NEW b, IsBlock(b), NEW S \in SUBSET DOMAIN b
    PROVE  /\ InOrder(b, S) \in Seq({b[i].id : i \in S})
           /\ ToSet(InOrder(b, S)) = {b[i].id : i \in S}
           /\ \A j, k \in DOMAIN InOrder(b, S) : j < k <=> Before(b, InOrder(b, S)[j], InOrder(b, S)[k])
<1> DEFINE ids == [i \in DOMAIN b |-> b[i].id]
           n == Kept(ids, S)
<1>1. /\ DOMAIN b = 1..Len(b) /\ Len(b) \in Nat
      /\ \A k \in 1..Len(b) : At(b, b[k].id) = k
  BY BlockFacts
<1>2. ids \in Seq(Ids(b)) /\ DOMAIN ids = DOMAIN b /\ \A i \in DOMAIN b : ids[i] = b[i].id
  <2>1. ids \in [1..Len(b) -> Ids(b)]
    BY <1>1 DEF Ids
  <2>2. DOMAIN ids = DOMAIN b /\ \A i \in DOMAIN b : ids[i] = b[i].id
    OBVIOUS
  <2> HIDE DEF ids
  <2> QED
    BY <1>1, <2>1, <2>2
<1>3. InOrder(b, S) = n
  <2>1. \A i \in DOMAIN b : (IF i \in S THEN <<b[i].id>> ELSE << >>) = IF i \in S THEN <<ids[i]>> ELSE << >>
    BY <1>2
  <2> HIDE DEF ids
  <2>2. [i \in DOMAIN b |-> IF i \in S THEN <<b[i].id>> ELSE << >>]
          = [i \in DOMAIN ids |-> IF i \in S THEN <<ids[i]>> ELSE << >>]
    BY <1>2, <2>1
  <2> QED
    BY <2>2 DEF InOrder, Kept
<1> HIDE DEF ids
<1>4. /\ n \in Seq(Ids(b))
      /\ \E pos \in [1..Len(n) -> S] :
            /\ \A j \in 1..Len(n) : n[j] = ids[pos[j]]
            /\ \A j, k \in 1..Len(n) : j < k <=> pos[j] < pos[k]
            /\ \A i \in S : \E j \in 1..Len(n) : pos[j] = i
  BY <1>2, KeptLayout
<1> HIDE DEF n
<1>5. DOMAIN n = 1..Len(n) /\ Len(n) \in Nat
  BY <1>4
<1>6. PICK pos \in [1..Len(n) -> S] :
            /\ \A j \in 1..Len(n) : n[j] = ids[pos[j]]
            /\ \A j, k \in 1..Len(n) : j < k <=> pos[j] < pos[k]
            /\ \A i \in S : \E j \in 1..Len(n) : pos[j] = i
  BY <1>4
<1>7. \A j \in 1..Len(n) : pos[j] \in S /\ n[j] = b[pos[j]].id /\ At(b, n[j]) = pos[j]
  BY <1>1, <1>2, <1>6
<1>8. n \in Seq({b[i].id : i \in S})
  <2>1. \A j \in 1..Len(n) : n[j] \in {b[i].id : i \in S}
    BY <1>7
  <2>2. n = [j \in 1..Len(n) |-> n[j]]
    BY <1>4
  <2> QED
    BY <1>5, <2>1, <2>2
<1>9. ToSet(n) = {b[i].id : i \in S}
  <2>1. \A x \in ToSet(n) : x \in {b[i].id : i \in S}
    BY <1>5, <1>7 DEF ToSet
  <2>2. \A i \in S : b[i].id \in ToSet(n)
    BY <1>5, <1>6, <1>7 DEF ToSet
  <2> QED
    BY <2>1, <2>2
<1>10. \A j, k \in DOMAIN n : j < k <=> Before(b, n[j], n[k])
  BY <1>5, <1>6, <1>7 DEF Before
<1> QED
  BY <1>3, <1>8, <1>9, <1>10

\* The operations of one kind.
LEMMA OrderOfKind ==
    ASSUME NEW b, IsBlock(b), NEW kind
    PROVE  OrderOf(b, kind) \in Seq(OfKind(b, kind))
<1> DEFINE S == {i \in DOMAIN b : b[i].kind = kind}
<1>1. /\ DOMAIN b = 1..Len(b)
      /\ \A k \in 1..Len(b) : OpOf(b, b[k].id) = b[k] /\ b[k].id \in Ids(b)
  BY BlockFacts
<1>2. \A x \in {b[i].id : i \in S} : x \in OfKind(b, kind)
  BY <1>1 DEF OfKind
<1>3. OrderOf(b, kind) \in Seq({b[i].id : i \in S})
  BY InOrderLayout DEF OrderOf
<1>4. \A A, B : A \subseteq B => Seq(A) \subseteq Seq(B)
  OBVIOUS
<1> HIDE DEF S
<1> QED
  BY <1>2, <1>3, <1>4

-----------------------------------------------------------------------------
(* Loads and where their values are from *)

\* The load x finds what y stored or loaded.
FoundIn(b, y, x) ==
    /\ y \in Ids(b) /\ OpOf(b, y).kind \in {"load", "store"}
    /\ SameAccess(OpOf(b, y), OpOf(b, x)) /\ Dominates(b, y, x)
    /\ \A z \in Between(b, y, x) : ~MayWrite(OpOf(b, z), OpOf(b, x))

\* The loads that will be erased are used no more, and each has a source.
LoadsMayGo(b, erased) ==
    /\ erased \subseteq OfKind(b, "load")
    /\ \A y \in Ids(b) : ToSet(OpOf(b, y).args) \cap erased = {}
    /\ \A x \in erased : \E y \in Ids(b) : FoundIn(b, y, x)

\* What a load finds in another load, it finds where that one found it.
LEMMA FoundFurther ==
    ASSUME NEW b, IsBlock(b), NEW x \in OfKind(b, "load"), NEW l \in OfKind(b, "load"), NEW y,
           FoundIn(b, y, x), FoundIn(b, x, l)
    PROVE  FoundIn(b, y, l)
<1>1. /\ x \in Ids(b) /\ l \in Ids(b) /\ y \in Ids(b) /\ OpOf(b, x).kind = "load"
      /\ OpOf(b, y).kind \in {"load", "store"}
  BY DEF FoundIn, OfKind
<1>2. /\ Before(b, y, x) /\ Before(b, x, l) /\ Dominates(b, y, l)
      /\ SameAccess(OpOf(b, x), OpOf(b, l)) /\ SameAccess(OpOf(b, y), OpOf(b, l))
      /\ OpOf(b, x).parent = 0 \/ SameRegion(b, x, l)
  BY <1>1, BlockOrder DEF FoundIn, Dominates, SameAccess
<1>3. ASSUME NEW z \in Between(b, y, l) PROVE ~MayWrite(OpOf(b, z), OpOf(b, l))
  <2>1. /\ z \in Ids(b) /\ Before(b, y, z) /\ Before(b, z, l) /\ OpOf(b, z).parent # y
        /\ OpOf(b, z).parent # 0 /\ OpOf(b, z).parent = OpOf(b, l).parent => SameRegion(b, z, l)
    BY DEF Between
  <2>2. CASE z = x
    BY <1>1, <2>2 DEF MayWrite
  <2>3. CASE Before(b, z, x)
    <3>1. OpOf(b, z).parent # 0 /\ OpOf(b, z).parent = OpOf(b, x).parent => SameRegion(b, z, x)
      BY <1>2, <2>1 DEF SameRegion, BlockOf
    <3>2. z \in Between(b, y, x)
      BY <2>1, <2>3, <3>1 DEF Between
    <3> QED
      BY <1>2, <3>2 DEF FoundIn, MayWrite, SameAccess
  <2>4. CASE Before(b, x, z)
    <3>1. OpOf(b, z).parent # x
      <4>1. OpOf(b, z).parent # 0 => OpOf(b, OpOf(b, z).parent).kind = "if"
        BY <2>1, BlockParents
      <4>2. x # 0
        BY <1>1, BlockOps
      <4> QED
        BY <1>1, <4>1, <4>2
    <3>2. z \in Between(b, x, l)
      BY <2>1, <2>4, <3>1 DEF Between
    <3> QED
      BY <3>2 DEF FoundIn
  <2> QED
    BY <1>1, <2>1, <2>2, <2>3, <2>4, BlockOrder
<1> QED
  BY <1>1, <1>2, <1>3 DEF FoundIn

\* A source that dominates the load is where it finds its value, and conversely.
LEMMA SourcesFound ==
    ASSUME IsBlock(ops), NEW load \in OfKind(ops, "load")
    PROVE  /\ \A x \in Sources("load", load) : FoundIn(ops, x, load) /\ x \in OfKind(ops, "load")
           /\ \A x \in Sources("store", load) : Dominates(ops, x, load) => FoundIn(ops, x, load)
           /\ \A y \in Ids(ops) : FoundIn(ops, y, load) => y \in Sources(OpOf(ops, y).kind, load)
<1>1. load \in Ids(ops)
  BY DEF OfKind
<1>2. \A x \in Sources("load", load) : FoundIn(ops, x, load) /\ x \in OfKind(ops, "load")
  BY DEF Sources, FoundIn, NoWriteBetween, OfKind
<1>3. \A x : Dominates(ops, x, load) => Start(x, load) = x
  BY DEF Start, Dominates
<1>4. \A x \in Sources("store", load) : Dominates(ops, x, load) => FoundIn(ops, x, load)
  BY <1>3 DEF Sources, FoundIn, NoWriteBetween, OfKind
<1>5. ASSUME NEW y \in Ids(ops), FoundIn(ops, y, load) PROVE y \in Sources(OpOf(ops, y).kind, load)
  <2>1. y # load /\ Start(y, load) = y
    BY <1>1, <1>3, <1>5, BlockOrder DEF FoundIn, Dominates
  <2> QED
    BY <1>5, <2>1 DEF FoundIn, Sources, NoWriteBetween, OfKind
<1> QED
  BY <1>2, <1>4, <1>5

\* The load that is replaced may go.
LEMMA ReplacedLoad ==
    ASSUME NEW b, IsBlock(b), NEW e, LoadsMayGo(b, e), NEW load \in OfKind(b, "load"),
           NEW y \in Ids(b), FoundIn(b, y, load),
           NEW v \in Int, v \notin e,
           v > 0 => v \in Ids(b) /\ HasResult(OpOf(b, v)) /\ Dominates(b, v, load)
    PROVE  /\ IsBlock(ReplaceUses(b, load, v)) /\ LoadsMayGo(ReplaceUses(b, load, v), e \cup {load})
           /\ \A kind : OfKind(ReplaceUses(b, load, v), kind) = OfKind(b, kind)
<1> DEFINE n == ReplaceUses(b, load, v)
<1>1. load \in Ids(b) /\ OpOf(b, load).kind = "load"
  BY DEF OfKind
<1>2. /\ IsBlock(n) /\ Ids(n) = Ids(b)
      /\ \A z \in Ids(b) : /\ At(n, z) = At(b, z)
                           /\ OpOf(n, z) = [OpOf(b, z) EXCEPT !.args = ReplaceIn(@, load, v)]
  BY <1>1, ReplacedBlock
<1>3. \A z \in Ids(b) : IsOperation(OpOf(b, z)) /\ DOMAIN OpOf(b, z) = Fields /\ OpOf(b, z).args \in Seq(Int)
  BY BlockOps DEF IsOperation
<1> HIDE DEF n
<1>4. \A z \in Ids(b) : /\ OpOf(n, z).kind = OpOf(b, z).kind /\ OpOf(n, z).parent = OpOf(b, z).parent
                        /\ OpOf(n, z).branch = OpOf(b, z).branch /\ OpOf(n, z).mem = OpOf(b, z).mem
                        /\ OpOf(n, z).addr = OpOf(b, z).addr /\ OpOf(n, z).wr = OpOf(b, z).wr
                        /\ OpOf(n, z).args = ReplaceIn(OpOf(b, z).args, load, v)
  BY <1>2, <1>3 DEF Fields
<1>5. \A x, z \in Ids(b) : /\ Before(n, x, z) <=> Before(b, x, z)
                           /\ SameRegion(n, x, z) <=> SameRegion(b, x, z)
                           /\ Dominates(n, x, z) <=> Dominates(b, x, z)
                           /\ MayWrite(OpOf(n, x), OpOf(n, z)) <=> MayWrite(OpOf(b, x), OpOf(b, z))
  BY <1>2, <1>4 DEF Before, SameRegion, BlockOf, Dominates, MayWrite, SameAccess
<1>6. \A x, z \in Ids(b) : Between(n, x, z) = Between(b, x, z)
  BY <1>2, <1>4, <1>5 DEF Between
<1>7. \A x, z \in Ids(b) : FoundIn(b, z, x) => FoundIn(n, z, x)
  <2>1. \A x, z : Between(b, x, z) \subseteq Ids(b)
    BY DEF Between
  <2>2. \A x, z \in Ids(b) : SameAccess(OpOf(b, z), OpOf(b, x)) => SameAccess(OpOf(n, z), OpOf(n, x))
    BY <1>4 DEF SameAccess
  <2> QED
    BY <1>2, <1>4, <1>5, <1>6, <2>1, <2>2 DEF FoundIn
<1>8. \A kind : OfKind(n, kind) = OfKind(b, kind)
  BY <1>2, <1>4 DEF OfKind
<1>9. \A x \in e : x \in Ids(b) /\ \E z \in Ids(b) : FoundIn(b, z, x)
  BY DEF LoadsMayGo, OfKind
<1>10. v # load
  <2>1. load \in Nat \ {0}
    BY <1>1, BlockOps
  <2> QED
    BY <1>1, <2>1, BlockOrder DEF Dominates
<1>11. ASSUME NEW z \in Ids(n) PROVE ToSet(OpOf(n, z).args) \cap (e \cup {load}) = {}
  <2>1. \A a \in ToSet(OpOf(n, z).args) : a = v \/ (a \in ToSet(OpOf(b, z).args) /\ a # load)
    BY <1>2, <1>3, <1>4, ReplacedIn
  <2>2. ToSet(OpOf(b, z).args) \cap e = {}
    BY <1>2 DEF LoadsMayGo
  <2> QED
    BY <1>10, <2>1, <2>2
<1>12. e \cup {load} \subseteq OfKind(n, "load")
  BY <1>8 DEF LoadsMayGo
<1>13. \A x \in e \cup {load} : \E z \in Ids(n) : FoundIn(n, z, x)
  BY <1>1, <1>2, <1>7, <1>9
<1> QED
  BY <1>2, <1>8, <1>11, <1>12, <1>13 DEF LoadsMayGo, n

\* The store s, alone in its if, can leave it.
CanHoist(b, s, front, select) ==
    /\ s \in Ids(b) /\ OpOf(b, s).kind = "store" /\ OpOf(b, s).parent # 0
    /\ Body(b, OpOf(b, s).parent) = {s}
    /\ front = << >> \/ \E f : front = <<f>> /\ IsOperation(f) /\ f.kind = "load" /\ f.parent = 0
                               /\ f.id \notin Ids(b) /\ f.id # select.id
    /\ IsOperation(select) /\ select.kind = "select" /\ select.parent = 0 /\ select.id \notin Ids(b)
    /\ \A x \in ToSet(select.args) : x > 0 =>
          \/ front # << >> /\ x = front[1].id
          \/ /\ x \in Ids(b) /\ HasResult(OpOf(b, x)) /\ OpOf(b, x).parent = 0
             /\ Before(b, x, OpOf(b, s).parent)

\* What the block has when it has left.
LEMMA HoistedView ==
    ASSUME NEW b, IsBlock(b), NEW s, NEW front, NEW select, CanHoist(b, s, front, select)
    PROVE  LET if == OpOf(b, s).parent
               n  == Hoisted(b, s, front, select)
           IN  /\ IsBlock(n) /\ if \in Ids(b) /\ OpOf(b, if).kind = "if" /\ if # s
               /\ Ids(b) \ {if} \subseteq Ids(n) /\ select.id \in Ids(n) /\ OpOf(n, select.id) = select
               /\ \A y \in Ids(b) \ {if, s} : OpOf(n, y) = OpOf(b, y)
               /\ /\ OpOf(n, s).kind = "store" /\ OpOf(n, s).mem = OpOf(b, s).mem
                  /\ OpOf(n, s).addr = OpOf(b, s).addr /\ OpOf(n, s).parent = 0
                  /\ OpOf(n, s).args = <<select.id>>
               /\ \A x \in Ids(n) \ Ids(b) :
                     /\ OpOf(n, x).kind \in {"load", "select"} /\ OpOf(n, x).parent = 0
                     /\ ToSet(OpOf(n, x).args) \subseteq ToSet(select.args)
                     /\ x = select.id \/ \E k \in DOMAIN front : x = front[k].id
               /\ \A k \in DOMAIN front : front[k].id \in Ids(n) /\ OpOf(n, front[k].id) = front[k]
               /\ \A y, z \in Ids(b) \ {if} : Before(n, y, z) <=> Before(b, y, z)
               /\ \A x \in Ids(n) \ Ids(b), y \in Ids(b) \ {if} : Before(n, x, y) <=> Before(b, if, y)
               /\ \A y \in Ids(b) : y # s /\ y # if =>
                     /\ OpOf(b, y).parent # if
                     /\ Before(b, y, s) <=> Before(b, y, if)
                     /\ Before(b, s, y) <=> Before(b, if, y)
               /\ if \notin Ids(n) /\ Before(b, if, s)
<1> DEFINE if == OpOf(b, s).parent
           n  == Hoisted(b, s, front, select)
           new == {front[k].id : k \in DOMAIN front} \cup {select.id}
<1>1. /\ IsBlock(n)
      /\ Ids(n) = (Ids(b) \ {if}) \cup new
      /\ \A y \in Ids(b) \ {if, s} : OpOf(n, y) = OpOf(b, y)
      /\ OpOf(n, s) = [OpOf(b, s) EXCEPT !.parent = 0, !.branch = "top", !.args = <<select.id>>]
      /\ OpOf(n, select.id) = select
      /\ \A k \in DOMAIN front : OpOf(n, front[k].id) = front[k] /\ Before(n, front[k].id, select.id)
      /\ \A y, z \in Ids(b) \ {if} : Before(n, y, z) <=> Before(b, y, z)
      /\ \A x \in new, y \in Ids(b) \ {if} : Before(n, x, y) <=> Before(b, if, y)
  BY HoistedBlock DEF CanHoist
<1>2. if \in Ids(b) /\ OpOf(b, if).kind = "if" /\ if # s /\ Before(b, if, s)
  BY BlockParents, BlockOrder DEF CanHoist
<1>3. \A y \in Ids(b) : y # s /\ y # if =>
        /\ OpOf(b, y).parent # if
        /\ Before(b, y, s) <=> Before(b, y, if)
        /\ Before(b, s, y) <=> Before(b, if, y)
  BY AloneBehind DEF CanHoist
<1>4. DOMAIN OpOf(b, s) = Fields
  BY BlockOps DEF CanHoist, IsOperation
<1>5. \A k \in DOMAIN front : /\ front[k].kind = "load" /\ front[k].parent = 0 /\ ToSet(front[k].args) = {}
                              /\ front[k].id \notin Ids(b)
  <2>1. \A f : IsOperation(f) /\ f.kind = "load" => ToSet(f.args) = {}
    BY DEF IsOperation, ToSet
  <2>2. CASE front = << >>
    BY <2>2
  <2>3. CASE front # << >>
    <3>1. PICK f : front = <<f>> /\ IsOperation(f) /\ f.kind = "load" /\ f.parent = 0
                   /\ f.id \notin Ids(b)
      BY <2>3 DEF CanHoist
    <3>2. \A k \in DOMAIN front : front[k] = f
      BY <3>1
    <3> QED
      BY <2>1, <3>1, <3>2
  <2> QED
    BY <2>2, <2>3
<1>6. /\ OpOf(n, s).kind = "store" /\ OpOf(n, s).mem = OpOf(b, s).mem
      /\ OpOf(n, s).addr = OpOf(b, s).addr /\ OpOf(n, s).parent = 0
      /\ OpOf(n, s).args = <<select.id>>
  BY <1>1, <1>4 DEF Fields, CanHoist
<1>7. \A x \in Ids(n) \ Ids(b) : x \in new
  BY <1>1
<1>8. select.kind = "select" /\ select.parent = 0 /\ select.id \notin Ids(b)
  BY DEF CanHoist
<1> HIDE DEF n, if
<1>9. \A x \in new : /\ OpOf(n, x).kind \in {"load", "select"} /\ OpOf(n, x).parent = 0
                     /\ ToSet(OpOf(n, x).args) \subseteq ToSet(select.args)
                     /\ x = select.id \/ \E k \in DOMAIN front : x = front[k].id
  BY <1>1, <1>5, <1>8
<1>10. if \notin Ids(n)
  BY <1>1, <1>2, <1>5, <1>8
<1> QED
  BY <1>1, <1>2, <1>3, <1>5, <1>6, <1>7, <1>8, <1>9, <1>10 DEF n, if

\* The value of a store that is alone in its if is there before the if.
LEMMA StoreValue ==
    ASSUME NEW b, IsBlock(b), NEW s \in OfKind(b, "store")
    PROVE  /\ OpOf(b, s).args[1] \in Int /\ ToSet(OpOf(b, s).args) = {OpOf(b, s).args[1]}
           /\ OpOf(b, s).args[1] > 0 =>
                 LET a == OpOf(b, s).args[1]
                 IN  /\ a \in Ids(b) /\ HasResult(OpOf(b, a)) /\ Dominates(b, a, s)
                     /\ OpOf(b, s).parent = 0 => OpOf(b, a).parent = 0
                     /\ OpOf(b, s).parent # 0 /\ Body(b, OpOf(b, s).parent) = {s} =>
                           OpOf(b, a).parent = 0 /\ Before(b, a, OpOf(b, s).parent)
<1> DEFINE a == OpOf(b, s).args[1]
<1>1. s \in Ids(b) /\ OpOf(b, s).kind = "store" /\ IsOperation(OpOf(b, s))
  BY BlockOps DEF OfKind
<1>2. OpOf(b, s).args \in Seq(Int) /\ Len(OpOf(b, s).args) = 1
  BY <1>1 DEF IsOperation
<1>3. a \in Int /\ ToSet(OpOf(b, s).args) = {a}
  BY <1>2 DEF ToSet
<1> HIDE DEF a
<1>4. ASSUME a > 0
      PROVE  /\ a \in Ids(b) /\ HasResult(OpOf(b, a)) /\ Dominates(b, a, s)
             /\ OpOf(b, s).parent = 0 => OpOf(b, a).parent = 0
             /\ OpOf(b, s).parent # 0 /\ Body(b, OpOf(b, s).parent) = {s} =>
                   OpOf(b, a).parent = 0 /\ Before(b, a, OpOf(b, s).parent)
  <2>1. a \in Ids(b) /\ HasResult(OpOf(b, a)) /\ Dominates(b, a, s)
    BY <1>1, <1>3, <1>4, BlockUses
  <2>2. OpOf(b, a).parent = 0 \/ OpOf(b, a).parent = OpOf(b, s).parent
    BY <2>1 DEF Dominates, SameRegion, BlockOf
  <2>3. ASSUME OpOf(b, s).parent # 0, Body(b, OpOf(b, s).parent) = {s}
        PROVE  OpOf(b, a).parent = 0 /\ Before(b, a, OpOf(b, s).parent)
    <3>1. a # s
      BY <1>1, <2>1 DEF HasResult
    <3>2. OpOf(b, a).parent = 0
      BY <2>1, <2>2, <2>3, <3>1 DEF Body
    <3>3. a # OpOf(b, s).parent
      BY <1>1, <2>1, <2>3, BlockParents DEF HasResult
    <3> QED
      BY <1>1, <2>1, <2>3, <3>1, <3>2, <3>3, AloneBehind DEF Dominates
  <2> QED
    BY <2>1, <2>2, <2>3
<1> QED
  BY <1>3, <1>4 DEF a

\* Loads find what they found; one behind the if finds what the store stores.
LEMMA HoistedLoads ==
    ASSUME NEW b, IsBlock(b), NEW s, NEW front, NEW select, CanHoist(b, s, front, select),
           NEW e, LoadsMayGo(b, e), ToSet(select.args) \cap e = {}
    PROVE  LET if == OpOf(b, s).parent
               n  == Hoisted(b, s, front, select)
           IN  /\ LoadsMayGo(n, e)
               /\ OfKind(b, "load") \subseteq OfKind(n, "load")
               /\ \A l \in OfKind(b, "load") :
                     /\ SameAccess(OpOf(b, s), OpOf(b, l)) /\ Dominates(b, if, l)
                     /\ \A z \in Between(b, if, l) : ~MayWrite(OpOf(b, z), OpOf(b, l))
                     => FoundIn(n, s, l)
<1> DEFINE if == OpOf(b, s).parent
           n  == Hoisted(b, s, front, select)
<1>1. /\ IsBlock(n) /\ if \in Ids(b) /\ OpOf(b, if).kind = "if" /\ if # s
      /\ Ids(b) \ {if} \subseteq Ids(n) /\ select.id \in Ids(n)
      /\ \A y \in Ids(b) \ {if, s} : OpOf(n, y) = OpOf(b, y)
      /\ /\ OpOf(n, s).kind = "store" /\ OpOf(n, s).mem = OpOf(b, s).mem
         /\ OpOf(n, s).addr = OpOf(b, s).addr /\ OpOf(n, s).parent = 0
         /\ OpOf(n, s).args = <<select.id>>
      /\ \A x \in Ids(n) \ Ids(b) :
            /\ OpOf(n, x).kind \in {"load", "select"} /\ OpOf(n, x).parent = 0
            /\ ToSet(OpOf(n, x).args) \subseteq ToSet(select.args)
      /\ \A y, z \in Ids(b) \ {if} : Before(n, y, z) <=> Before(b, y, z)
      /\ \A y \in Ids(b) : y # s /\ y # if =>
            /\ OpOf(b, y).parent # if
            /\ Before(b, y, s) <=> Before(b, y, if)
            /\ Before(b, s, y) <=> Before(b, if, y)
      /\ if \notin Ids(n)
  BY HoistedView
<1>2. s \in Ids(b) /\ OpOf(b, s).kind = "store" /\ if # 0 /\ Body(b, if) = {s} /\ select.id \notin Ids(b)
  BY DEF CanHoist
<1>3. OpOf(b, if).parent = 0
  BY <1>2, BlockParents
<1> HIDE DEF n, if
<1>4. \A l \in OfKind(b, "load") : /\ l \in Ids(b) /\ l # s /\ l # if /\ OpOf(b, l).kind = "load"
                                   /\ OpOf(n, l) = OpOf(b, l) /\ l \in Ids(n) /\ OpOf(b, l).parent # if
  BY <1>1, <1>2 DEF OfKind
<1>5. OfKind(b, "load") \subseteq OfKind(n, "load")
  BY <1>4 DEF OfKind
<1>6. ASSUME NEW x \in OfKind(b, "load"), NEW y, FoundIn(b, y, x) PROVE FoundIn(n, y, x) /\ y \in Ids(n)
  <2>1. /\ y \in Ids(b) /\ OpOf(b, y).kind \in {"load", "store"} /\ SameAccess(OpOf(b, y), OpOf(b, x))
        /\ Before(b, y, x) /\ (OpOf(b, y).parent = 0 \/ SameRegion(b, y, x))
    BY <1>6 DEF FoundIn, Dominates
  <2>2. y # if /\ y # s
    BY <1>1, <1>2, <1>4, <2>1 DEF SameRegion, BlockOf, if
  <2>3. OpOf(n, y) = OpOf(b, y) /\ y \in Ids(n) /\ OpOf(n, x) = OpOf(b, x)
    BY <1>1, <1>4, <2>1, <2>2
  <2>4. Dominates(n, y, x)
    BY <1>1, <1>4, <2>1, <2>2, <2>3 DEF Dominates, SameRegion
  <2>5. ASSUME NEW z \in Between(n, y, x) PROVE ~MayWrite(OpOf(n, z), OpOf(n, x))
    <3>1. /\ z \in Ids(n) /\ Before(n, y, z) /\ Before(n, z, x) /\ OpOf(n, z).parent # y
          /\ OpOf(n, z).parent # 0 /\ OpOf(n, z).parent = OpOf(n, x).parent => SameRegion(n, z, x)
      BY DEF Between
    <3>2. CASE z \notin Ids(b)
      BY <1>1, <3>1, <3>2 DEF MayWrite
    <3>3. CASE z \in Ids(b) /\ z # s
      <4>1. z # if /\ OpOf(n, z) = OpOf(b, z)
        BY <1>1, <3>1, <3>3
      <4>2. z \in Between(b, y, x)
        BY <1>1, <1>4, <2>1, <2>2, <2>3, <3>1, <3>3, <4>1 DEF Between, SameRegion
      <4> QED
        BY <1>6, <2>3, <4>1, <4>2 DEF FoundIn
    <3>4. CASE z = s
      <4>1. Before(b, y, s) /\ Before(b, s, x) /\ if # y /\ if # OpOf(b, x).parent
        BY <1>1, <1>2, <1>4, <2>1, <2>2, <3>1, <3>4
      <4>2. s \in Between(b, y, x)
        BY <1>2, <4>1 DEF Between, if
      <4>3. ~MayWrite(OpOf(b, s), OpOf(b, x))
        BY <1>6, <4>2 DEF FoundIn
      <4> QED
        BY <1>1, <1>2, <2>3, <3>4, <4>3 DEF MayWrite, SameAccess
    <3> QED
      BY <3>2, <3>3, <3>4
  <2> QED
    BY <2>1, <2>3, <2>4, <2>5 DEF FoundIn
<1>7. ASSUME NEW l \in OfKind(b, "load"), SameAccess(OpOf(b, s), OpOf(b, l)), Dominates(b, if, l),
             \A z \in Between(b, if, l) : ~MayWrite(OpOf(b, z), OpOf(b, l))
      PROVE  FoundIn(n, s, l)
  <2>1. Before(b, if, l) /\ Before(b, s, l) /\ Before(n, s, l)
    BY <1>1, <1>2, <1>4, <1>7 DEF Dominates
  <2>2. Dominates(n, s, l) /\ SameAccess(OpOf(n, s), OpOf(n, l)) /\ s \in Ids(n)
    BY <1>1, <1>2, <1>4, <1>7, <2>1 DEF Dominates, SameAccess
  <2>3. ASSUME NEW z \in Between(n, s, l) PROVE ~MayWrite(OpOf(n, z), OpOf(n, l))
    <3>1. /\ z \in Ids(n) /\ Before(n, s, z) /\ Before(n, z, l)
          /\ OpOf(n, z).parent # 0 /\ OpOf(n, z).parent = OpOf(n, l).parent => SameRegion(n, z, l)
      BY DEF Between
    <3>2. CASE z \notin Ids(b)
      BY <1>1, <3>1, <3>2 DEF MayWrite
    <3>3. CASE z \in Ids(b)
      <4>1. z # if /\ z # s /\ OpOf(n, z) = OpOf(b, z)
        BY <1>1, <1>2, <3>1, <3>3, BlockOrder
      <4>2. z \in Between(b, if, l)
        BY <1>1, <1>2, <1>4, <3>1, <3>3, <4>1 DEF Between, SameRegion
      <4> QED
        BY <1>4, <1>7, <4>1, <4>2
    <3> QED
      BY <3>2, <3>3
  <2> QED
    BY <1>1, <2>2, <2>3 DEF FoundIn
<1>8. ASSUME NEW y \in Ids(n) PROVE ToSet(OpOf(n, y).args) \cap e = {}
  <2>1. e \subseteq Ids(b) /\ \A z \in Ids(b) : ToSet(OpOf(b, z).args) \cap e = {}
    BY DEF LoadsMayGo, OfKind
  <2>2. CASE y \in Ids(b) /\ y # s
    <3>1. y # if
      BY <1>1
    <3> QED
      BY <1>1, <2>1, <2>2, <3>1
  <2>3. CASE y = s
    <3>1. ToSet(<<select.id>>) = {select.id}
      BY DEF ToSet
    <3> QED
      BY <1>1, <1>2, <2>1, <2>3, <3>1
  <2>4. CASE y \notin Ids(b)
    BY <1>1, <2>4
  <2> QED
    BY <2>2, <2>3, <2>4
<1>9. LoadsMayGo(n, e)
  <2>1. e \subseteq OfKind(b, "load") /\ \A x \in e : \E y \in Ids(b) : FoundIn(b, y, x)
    BY DEF LoadsMayGo
  <2>2. e \subseteq OfKind(n, "load")
    BY <1>5, <2>1
  <2>3. \A x \in e : \E y \in Ids(n) : FoundIn(n, y, x)
    BY <1>6, <2>1
  <2> QED
    BY <1>8, <2>2, <2>3 DEF LoadsMayGo
<1> QED
  BY <1>5, <1>7, <1>9 DEF n, if

LoadsState ==
    /\ walk \in Seq(OfKind(ops, "load"))
    /\ current = None \/ current \in OfKind(ops, "load")
    /\ LoadsMayGo(ops, opsToErase)

\* A value that is stored or loaded at the top, or where the load is, takes its place.
LEMMA ForwardedLoad ==
    ASSUME IsBlock(ops), LoadsMayGo(ops, opsToErase), NEW load \in OfKind(ops, "load"),
           NEW store \in Sources("store", load), Dominates(ops, store, load)
    PROVE  LET n == ReplaceUses(ops, load, OpOf(ops, store).args[1])
           IN  /\ IsBlock(n) /\ LoadsMayGo(n, opsToErase \cup {load})
               /\ \A kind : OfKind(n, kind) = OfKind(ops, kind)
<1> DEFINE v == OpOf(ops, store).args[1]
<1>1. store \in OfKind(ops, "store") /\ store \in Ids(ops) /\ FoundIn(ops, store, load) /\ load \in Ids(ops)
  BY SourcesFound DEF Sources, OfKind
<1>2. v \in Int /\ ToSet(OpOf(ops, store).args) = {v}
      /\ (v > 0 => v \in Ids(ops) /\ HasResult(OpOf(ops, v)) /\ Dominates(ops, v, store))
  BY <1>1, StoreValue
<1> HIDE DEF v
<1>3. v > 0 => Dominates(ops, v, load)
  BY <1>1, <1>2, BlockOrder
<1>4. v \notin opsToErase
  BY <1>1, <1>2 DEF LoadsMayGo
<1> QED
  BY <1>1, <1>2, <1>3, <1>4, ReplacedLoad DEF v

\* The best of the candidates is none of the loads that go.
LEMMA ReplacedByLoad ==
    ASSUME IsBlock(ops), LoadsMayGo(ops, opsToErase), NEW load \in OfKind(ops, "load"),
           Sources("store", load) = {},
           NEW x \in Sources("load", load),
           \A y \in Sources("load", load) \ {x} : Dominates(ops, x, y)
    PROVE  /\ IsBlock(ReplaceUses(ops, load, x)) /\ LoadsMayGo(ReplaceUses(ops, load, x), opsToErase \cup {load})
           /\ \A kind : OfKind(ReplaceUses(ops, load, x), kind) = OfKind(ops, kind)
<1>1. FoundIn(ops, x, load) /\ x \in OfKind(ops, "load") /\ x \in Ids(ops) /\ OpOf(ops, x).kind = "load"
      /\ load \in Ids(ops)
  BY SourcesFound DEF OfKind
<1>2. x \notin opsToErase
  <2> SUFFICES ASSUME x \in opsToErase PROVE FALSE
    OBVIOUS
  <2>1. PICK y \in Ids(ops) : FoundIn(ops, y, x)
    BY DEF LoadsMayGo
  <2>2. FoundIn(ops, y, load)
    BY <1>1, <2>1, FoundFurther
  <2>3. y \in Sources("load", load)
    BY <2>1, <2>2, SourcesFound DEF FoundIn
  <2>4. y # x /\ Before(ops, y, x)
    BY <1>1, <2>1, BlockOrder DEF FoundIn, Dominates
  <2> QED
    BY <1>1, <2>1, <2>3, <2>4, BlockOrder DEF Dominates
<1>3. x \in Int /\ HasResult(OpOf(ops, x)) /\ Dominates(ops, x, load)
  BY <1>1, BlockOps DEF HasResult, FoundIn
<1> QED
  BY <1>1, <1>2, <1>3, ReplacedLoad

\* The store of an if is forwarded: what the step makes of the block, ...
LEMMA ForwardedOfIf ==
    ASSUME IsBlock(ops), LoadsMayGo(ops, opsToErase), NEW load \in OfKind(ops, "load"),
           NEW store \in Sources("store", load), ~Dominates(ops, store, load)
    PROVE  LET new    == [OpOf(ops, load) EXCEPT !.id = Fresh, !.parent = 0, !.branch = "top"]
               if     == OpOf(ops, store).parent
               select == [OpOf(ops, store) EXCEPT !.id = Fresh + 1, !.kind = "select", !.parent = 0,
                            !.branch = "top", !.cond = OpOf(ops, if).cond, !.args = <<@[1], Fresh>>]
               n == ReplaceUses(Hoisted(ops, store, <<new>>, select), load, select.id)
           IN  /\ CanHoist(ops, store, <<new>>, select) /\ new.id = Fresh /\ select.id = Fresh + 1
               /\ IsBlock(n) /\ LoadsMayGo(n, opsToErase \cup {load})
               /\ OfKind(ops, "load") \subseteq OfKind(n, "load") /\ Fresh \in OfKind(n, "load")
<1> DEFINE new    == [OpOf(ops, load) EXCEPT !.id = Fresh, !.parent = 0, !.branch = "top"]
           if     == OpOf(ops, store).parent
           a      == OpOf(ops, store).args[1]
           select == [OpOf(ops, store) EXCEPT !.id = Fresh + 1, !.kind = "select", !.parent = 0,
                        !.branch = "top", !.cond = OpOf(ops, if).cond, !.args = <<@[1], Fresh>>]
           h == Hoisted(ops, store, <<new>>, select)
<1>1. /\ store \in OfKind(ops, "store") /\ store \in Ids(ops) /\ OpOf(ops, store).kind = "store"
      /\ SameAccess(OpOf(ops, store), OpOf(ops, load))
      /\ Dominates(ops, Start(store, load), load) /\ NoWriteBetween(Start(store, load), load)
      /\ load \in Ids(ops) /\ OpOf(ops, load).kind = "load"
  BY DEF Sources, OfKind
<1>2. if # 0 /\ Start(store, load) = if /\ IsValid(ops, if)
  BY <1>1 DEF Start
<1>3. Body(ops, if) = {store}
  <2>1. store \in Body(ops, if)
    BY <1>1 DEF Body
  <2> QED
    BY <1>2, <2>1 DEF IsValid
<1>4. IsOperation(OpOf(ops, load)) /\ IsOperation(OpOf(ops, store))
  BY <1>1, BlockOps
<1>5. Fresh \in Nat \ {0} /\ Fresh + 1 \in Nat \ {0} /\ Fresh # Fresh + 1
      /\ Fresh \notin Ids(ops) /\ Fresh + 1 \notin Ids(ops)
  <2>1. Fresh \in Nat \ {0} /\ \A m \in Ids(ops) : m < Fresh /\ m \in Nat
    BY BlockOps, FreshIds
  <2> QED
    BY <2>1
<1>6. /\ DOMAIN new = Fields /\ new.id = Fresh /\ new.kind = "load" /\ new.parent = 0 /\ new.branch = "top"
      /\ new.args = OpOf(ops, load).args
  BY <1>1, <1>4 DEF IsOperation, Fields
<1>7. IsOperation(new)
  BY <1>1, <1>4, <1>5, <1>6 DEF IsOperation
<1>8. a \in Int /\ a \in ToSet(OpOf(ops, store).args)
      /\ (a > 0 => /\ a \in Ids(ops) /\ HasResult(OpOf(ops, a))
                   /\ OpOf(ops, a).parent = 0 /\ Before(ops, a, if))
  BY <1>1, <1>2, <1>3, StoreValue
<1>9. /\ DOMAIN select = Fields /\ select.id = Fresh + 1 /\ select.kind = "select" /\ select.parent = 0
      /\ select.branch = "top" /\ select.args = <<a, Fresh>>
  BY <1>4 DEF IsOperation, Fields
<1> HIDE DEF new, select, if, a
<1>10. <<a, Fresh>> \in Seq(Int) /\ ToSet(<<a, Fresh>>) = {a, Fresh}
  BY <1>5, <1>8 DEF ToSet
<1>11. IsOperation(select)
  BY <1>5, <1>9, <1>10 DEF IsOperation
<1>12. CanHoist(ops, store, <<new>>, select)
  <2>1. <<new>> # << >> /\ <<new>>[1] = new
    OBVIOUS
  <2>2. \A x \in ToSet(select.args) : x > 0 =>
          \/ <<new>> # << >> /\ x = <<new>>[1].id
          \/ /\ x \in Ids(ops) /\ HasResult(OpOf(ops, x)) /\ OpOf(ops, x).parent = 0
             /\ Before(ops, x, if)
    BY <1>6, <1>8, <1>9, <1>10, <2>1
  <2>3. \E f : <<new>> = <<f>> /\ IsOperation(f) /\ f.kind = "load" /\ f.parent = 0
               /\ f.id \notin Ids(ops) /\ f.id # select.id
    BY <1>5, <1>6, <1>7, <1>9
  <2> QED
    BY <1>1, <1>2, <1>3, <1>5, <1>9, <1>11, <2>2, <2>3 DEF CanHoist, if
<1>13. /\ opsToErase \subseteq Ids(ops) /\ a \notin opsToErase
  BY <1>1, <1>8 DEF LoadsMayGo, OfKind
<1>14. ToSet(select.args) \cap opsToErase = {}
  BY <1>5, <1>9, <1>10, <1>13
<1>15. /\ LoadsMayGo(h, opsToErase) /\ OfKind(ops, "load") \subseteq OfKind(h, "load")
       /\ FoundIn(h, store, load)
  BY <1>1, <1>2, <1>12, <1>14, HoistedLoads DEF if, NoWriteBetween
<1>16. /\ IsBlock(h) /\ select.id \in Ids(h) /\ OpOf(h, select.id) = select
       /\ \A x \in Ids(h) \ Ids(ops), y \in Ids(ops) \ {if} : Before(h, x, y) <=> Before(ops, if, y)
       /\ OpOf(ops, if).kind = "if"
       /\ \A k \in DOMAIN <<new>> : <<new>>[k].id \in Ids(h) /\ OpOf(h, <<new>>[k].id) = <<new>>[k]
  BY <1>12, HoistedView DEF if
<1>17. Before(h, select.id, load)
  <2>1. Before(ops, if, load) /\ load # if
    BY <1>1, <1>2, <1>16 DEF Dominates
  <2> QED
    BY <1>1, <1>5, <1>9, <1>16, <2>1
<1>18. Fresh \in OfKind(h, "load")
  <2>1. 1 \in DOMAIN <<new>> /\ <<new>>[1] = new
    OBVIOUS
  <2> QED
    BY <1>6, <1>16, <2>1 DEF OfKind
<1> HIDE DEF h
<1>19. /\ select.id \in Int /\ select.id \notin opsToErase /\ HasResult(OpOf(h, select.id))
       /\ Dominates(h, select.id, load) /\ store \in Ids(h) /\ load \in OfKind(h, "load")
  BY <1>5, <1>9, <1>13, <1>15, <1>16, <1>17 DEF HasResult, Dominates, FoundIn
<1> DEFINE n == ReplaceUses(h, load, select.id)
<1>20. IsBlock(n) /\ LoadsMayGo(n, opsToErase \cup {load}) /\ \A kind : OfKind(n, kind) = OfKind(h, kind)
  BY <1>15, <1>16, <1>19, ReplacedLoad
<1> HIDE DEF n
<1>21. /\ CanHoist(ops, store, <<new>>, select) /\ new.id = Fresh /\ select.id = Fresh + 1
       /\ IsBlock(n) /\ LoadsMayGo(n, opsToErase \cup {load})
       /\ OfKind(ops, "load") \subseteq OfKind(n, "load") /\ Fresh \in OfKind(n, "load")
  BY <1>6, <1>9, <1>12, <1>15, <1>18, <1>20
<1> QED
  BY <1>21 DEF new, if, select, h, n

\* ... and of the walk.
LEMMA VisitLoadKeeps ==
    ASSUME IsBlock(ops), LoadsState, VisitLoad
    PROVE  IsBlock(ops') /\ LoadsState'
<1> DEFINE load == IF current = None THEN Head(walk) ELSE current
<1>1. /\ walk # << >>
      /\ \/ Sources("store", load) = {} /\ LoadCSE(load)
         \/ \E store \in Sources("store", load) :
               /\ opsToErase' = opsToErase \cup {load}
               /\ IF Dominates(ops, store, load)
                  THEN ForwardStore(load, store) ELSE ForwardStoreOfIf(load, store)
      /\ walk' = IF current' = None THEN Tail(walk) ELSE walk
  BY DEF VisitLoad
<1>2. load \in OfKind(ops, "load")
  BY <1>1 DEF LoadsState
<1>3. walk' \in Seq(OfKind(ops, "load"))
  BY <1>1 DEF LoadsState
<1> HIDE DEF load
<1>4. /\ IsBlock(ops') /\ LoadsMayGo(ops', opsToErase') /\ OfKind(ops, "load") \subseteq OfKind(ops', "load")
      /\ current' = None \/ current' \in OfKind(ops', "load")
  <2>1. CASE Sources("store", load) = {} /\ LoadCSE(load)
    <3> DEFINE candidates == Sources("load", load)
               best == {x \in candidates : \A y \in candidates \ {x} : Dominates(ops, x, y)}
    <3>1. /\ current' = None
          /\ IF best = {} THEN UNCHANGED <<ops, returned, opsToErase>>
             ELSE \E x \in best : /\ ReplaceAllUses(ops, load, x)
                                  /\ opsToErase' = opsToErase \cup {load}
      BY <2>1 DEF LoadCSE
    <3>2. CASE best = {}
      BY <3>1, <3>2 DEF LoadsState
    <3>3. CASE best # {}
      <4>1. PICK x \in best : ReplaceAllUses(ops, load, x) /\ opsToErase' = opsToErase \cup {load}
        BY <3>1, <3>3
      <4>2. x \in Sources("load", load) /\ \A y \in Sources("load", load) \ {x} : Dominates(ops, x, y)
        OBVIOUS
      <4>3. ops' = ReplaceUses(ops, load, x)
        BY <4>1 DEF ReplaceAllUses
      <4> HIDE DEF best
      <4> QED
        BY <1>2, <2>1, <3>1, <4>1, <4>2, <4>3, ReplacedByLoad DEF LoadsState
    <3> QED
      BY <3>2, <3>3
  <2>2. ASSUME NEW store \in Sources("store", load), opsToErase' = opsToErase \cup {load},
               Dominates(ops, store, load), ForwardStore(load, store)
        PROVE  /\ IsBlock(ops') /\ LoadsMayGo(ops', opsToErase')
               /\ OfKind(ops, "load") \subseteq OfKind(ops', "load") /\ current' = None
    BY <1>2, <2>2, ForwardedLoad DEF LoadsState, ForwardStore, ReplaceAllUses
  <2>3. ASSUME NEW store \in Sources("store", load), opsToErase' = opsToErase \cup {load},
               ~Dominates(ops, store, load), ForwardStoreOfIf(load, store)
        PROVE  /\ IsBlock(ops') /\ LoadsMayGo(ops', opsToErase')
               /\ OfKind(ops, "load") \subseteq OfKind(ops', "load") /\ current' \in OfKind(ops', "load")
    BY <1>2, <2>3, ForwardedOfIf DEF LoadsState, ForwardStoreOfIf, ReplaceAllUses
  <2> QED
    BY <1>1, <2>1, <2>2, <2>3
<1>5. walk' \in Seq(OfKind(ops', "load"))
  <2>1. \A A, B : A \subseteq B => Seq(A) \subseteq Seq(B)
    OBVIOUS
  <2> QED
    BY <1>3, <1>4, <2>1
<1> QED
  BY <1>4, <1>5 DEF LoadsState

\* The loads that were replaced are erased.
LEMMA EraseLoadsKeeps ==
    ASSUME IsBlock(ops), LoadsState, EraseLoads
    PROVE  IsBlock(ops') /\ walk' \in Seq(OfKind(ops', "store")) /\ opsToErase' = {}
<1>1. ops' = Erase(ops, opsToErase) /\ walk' = OrderOf(ops', "store") /\ opsToErase' = {}
  BY DEF EraseLoads
<1>2. \A x \in opsToErase : x \in Ids(ops) /\ x # 0
  BY BlockOps DEF LoadsState, LoadsMayGo, OfKind
<1>3. IsBlock(ops')
  BY <1>1, <1>2, ErasedBlock DEF LoadsState, LoadsMayGo
<1> QED
  BY <1>1, <1>3, OrderOfKind

\* Operations without results may be erased.
LEMMA ErasedWithoutResults ==
    ASSUME NEW b, IsBlock(b), NEW S \in SUBSET (Nat \ {0}), \A x \in S \cap Ids(b) : ~HasResult(OpOf(b, x))
    PROVE  /\ IsBlock(Erase(b, S))
           /\ Ids(Erase(b, S)) = {y \in Ids(b) : y \notin S /\ OpOf(b, y).parent \notin S}
           /\ \A y \in Ids(Erase(b, S)) : OpOf(Erase(b, S), y) = OpOf(b, y)
<1>1. ASSUME NEW y \in Ids(b), NEW x \in ToSet(OpOf(b, y).args), x \in S
      PROVE  FALSE
  <2>1. x > 0
    BY <1>1
  <2>2. x \in Ids(b) /\ HasResult(OpOf(b, x))
    BY <1>1, <2>1, BlockUses
  <2> QED
    BY <1>1, <2>2
<1>2. 0 \notin S
  OBVIOUS
<1>3. \A y \in Ids(b) : y \notin S /\ OpOf(b, y).parent \notin S => ToSet(OpOf(b, y).args) \cap S = {}
  BY <1>1
<1> QED
  BY <1>2, <1>3, ErasedBlock

-----------------------------------------------------------------------------
(* Stores *)

StoresState ==
    /\ walk \in Seq(OfKind(ops, "store"))
    /\ \A x \in opsToErase : /\ x \in Nat \ {0} /\ \E m \in Ids(ops) : x <= m
                             /\ x \in Ids(ops) => OpOf(ops, x).kind \in {"store", "if"}

\* The store b overwrites a behind the if that b is alone in.
LEMMA OverwriterInIf ==
    ASSUME IsBlock(ops), NEW a \in OfKind(ops, "store"), NEW b \in Overwriters(a),
           Targets(a, b)[1] = a, Targets(a, b)[2] # b
    PROVE  LET if == OpOf(ops, b).parent
           IN  /\ b \in OfKind(ops, "store") /\ b # a
               /\ OpOf(ops, a).parent = 0 /\ if # 0 /\ Body(ops, if) = {b} /\ Before(ops, a, if)
               /\ Targets(a, b)[2] = if
<1> DEFINE ifA == OpOf(ops, a).parent
           ifB == OpOf(ops, b).parent
           target == Targets(a, b)
<1>1. /\ b \in OfKind(ops, "store") /\ b # a /\ SameRegion(ops, target[1], target[2])
      /\ PostDominates(ops, target[2], target[1])
  BY DEF Overwriters
<1>2. /\ a \in Ids(ops) /\ b \in Ids(ops) /\ OpOf(ops, a).kind = "store" /\ OpOf(ops, b).kind = "store"
  BY <1>1 DEF OfKind
<1>3. target = CASE SameRegion(ops, a, b) -> <<a, b>>
                 [] ~SameRegion(ops, a, b) /\ ifA # 0 ->
                       <<IF IsValid(ops, ifA) THEN ifA ELSE a,
                         IF ifB # 0 /\ SameIf(ifA, ifB) THEN ifB ELSE b>>
                 [] OTHER -> <<a, IF IsValid(ops, ifB) THEN ifB ELSE b>>
  BY DEF Targets
<1>4. IsOperation(OpOf(ops, a)) /\ IsOperation(OpOf(ops, b))
  BY <1>2, BlockOps
<1>5. ifB # 0 => ifB \in Ids(ops) /\ OpOf(ops, ifB).parent = 0 /\ OpOf(ops, ifB).kind = "if"
  BY <1>2, BlockParents
<1> HIDE DEF target
<1>6. ~SameRegion(ops, a, b)
  BY <1>3 DEF target
<1>7. ifA = 0
  <2> SUFFICES ASSUME ifA # 0 PROVE FALSE
    OBVIOUS
  <2>1. target = <<IF IsValid(ops, ifA) THEN ifA ELSE a,
                   IF ifB # 0 /\ SameIf(ifA, ifB) THEN ifB ELSE b>>
    BY <1>3, <1>6
  <2>2. ifB # 0 /\ target[2] = ifB
    BY <2>1 DEF target
  <2> QED
    BY <1>1, <1>5, <2>2 DEF SameRegion, BlockOf, target
<1>8. target = <<a, IF IsValid(ops, ifB) THEN ifB ELSE b>>
  BY <1>3, <1>6, <1>7
<1>9. IsValid(ops, ifB) /\ target[2] = ifB
  BY <1>8 DEF target
<1>10. ifB # 0
  BY <1>4, <1>6, <1>7 DEF SameRegion, BlockOf, IsOperation
<1>11. Body(ops, ifB) = {b}
  <2>1. b \in Body(ops, ifB)
    BY <1>2 DEF Body
  <2> QED
    BY <1>9, <2>1 DEF IsValid
<1>12. Before(ops, a, ifB)
  BY <1>1, <1>9 DEF PostDominates, target
<1> QED
  BY <1>1, <1>7, <1>9, <1>10, <1>11, <1>12 DEF target

\* The store can leave the if then, and a select takes the value it stores.
LEMMA OverwriteView ==
    ASSUME IsBlock(ops), NEW a \in OfKind(ops, "store"), NEW b \in Overwriters(a),
           Targets(a, b)[1] = a, Targets(a, b)[2] # b
    PROVE  LET if     == OpOf(ops, b).parent
               select == [OpOf(ops, b) EXCEPT !.id = Fresh, !.kind = "select", !.parent = 0,
                            !.branch = "top", !.cond = OpOf(ops, if).cond,
                            !.args = <<@[1], OpOf(ops, a).args[1]>>]
           IN  CanHoist(ops, b, << >>, select) /\ select.id = Fresh
<1> DEFINE if     == OpOf(ops, b).parent
           v      == OpOf(ops, b).args[1]
           w      == OpOf(ops, a).args[1]
           select == [OpOf(ops, b) EXCEPT !.id = Fresh, !.kind = "select", !.parent = 0,
                        !.branch = "top", !.cond = OpOf(ops, if).cond, !.args = <<@[1], w>>]
<1>1. /\ b \in OfKind(ops, "store") /\ OpOf(ops, a).parent = 0 /\ if # 0 /\ Body(ops, if) = {b}
      /\ Before(ops, a, if)
  BY OverwriterInIf
<1>2. b \in Ids(ops) /\ OpOf(ops, b).kind = "store" /\ a \in Ids(ops) /\ IsOperation(OpOf(ops, b))
  BY <1>1, BlockOps DEF OfKind
<1>3. Fresh \in Nat \ {0} /\ Fresh \notin Ids(ops)
  <2>1. Fresh \in Nat \ {0} /\ \A m \in Ids(ops) : m < Fresh /\ m \in Nat
    BY BlockOps, FreshIds
  <2> QED
    BY <2>1
<1>4. v \in Int /\ (v > 0 => /\ v \in Ids(ops) /\ HasResult(OpOf(ops, v))
                             /\ OpOf(ops, v).parent = 0 /\ Before(ops, v, if))
  BY <1>1, StoreValue
<1>5. w \in Int /\ (w > 0 => /\ w \in Ids(ops) /\ HasResult(OpOf(ops, w))
                             /\ OpOf(ops, w).parent = 0 /\ Before(ops, w, if))
  <2>1. w \in Int /\ (w > 0 => /\ w \in Ids(ops) /\ HasResult(OpOf(ops, w))
                               /\ OpOf(ops, w).parent = 0 /\ Before(ops, w, a))
    BY <1>1, StoreValue DEF Dominates
  <2>2. if \in Ids(ops)
    BY <1>1, <1>2, BlockParents
  <2> QED
    BY <1>1, <1>2, <2>1, <2>2, BlockOrder
<1>6. /\ DOMAIN select = Fields /\ select.id = Fresh /\ select.kind = "select" /\ select.parent = 0
      /\ select.branch = "top" /\ select.args = <<v, w>>
  BY <1>2 DEF IsOperation, Fields
<1> HIDE DEF select, if, v, w
<1>7. <<v, w>> \in Seq(Int) /\ ToSet(<<v, w>>) = {v, w}
  BY <1>4, <1>5 DEF ToSet
<1>8. IsOperation(select)
  BY <1>3, <1>6, <1>7 DEF IsOperation
<1>9. CanHoist(ops, b, << >>, select)
  BY <1>1, <1>2, <1>3, <1>4, <1>5, <1>6, <1>7, <1>8 DEF CanHoist, if
<1> QED
  BY <1>6, <1>9 DEF if, select, v, w

\* What the step makes of the block then.
LEMMA OverwrittenInIf ==
    ASSUME IsBlock(ops), NEW a \in OfKind(ops, "store"), NEW b \in Overwriters(a),
           Targets(a, b)[1] = a, Targets(a, b)[2] # b, OverwriteInIf(a, b)
    PROVE  /\ IsBlock(ops') /\ OfKind(ops, "store") \subseteq OfKind(ops', "store")
           /\ Fresh \in Ids(ops') /\ Ids(ops') \subseteq Ids(ops) \cup {Fresh}
           /\ \A x \in Ids(ops') \cap Ids(ops) : OpOf(ops', x).kind = OpOf(ops, x).kind
           /\ \A y, z \in Ids(ops') \cap Ids(ops) : Before(ops', y, z) <=> Before(ops, y, z)
           /\ Ids(ops') = (Ids(ops) \ {OpOf(ops, b).parent}) \cup {Fresh}
           /\ OpOf(ops', Fresh).kind = "select"
           /\ \A x \in Ids(ops') \cap Ids(ops) :
                 /\ OpOf(ops', x).mem = OpOf(ops, x).mem /\ OpOf(ops', x).addr = OpOf(ops, x).addr
                 /\ x # b => OpOf(ops', x) = OpOf(ops, x)
           /\ OpOf(ops', b).parent = 0
<1> DEFINE if     == OpOf(ops, b).parent
           select == [OpOf(ops, b) EXCEPT !.id = Fresh, !.kind = "select", !.parent = 0,
                        !.branch = "top", !.cond = OpOf(ops, if).cond,
                        !.args = <<@[1], OpOf(ops, a).args[1]>>]
           n == Hoisted(ops, b, << >>, select)
<1>1. b \in OfKind(ops, "store")
  BY OverwriterInIf
<1>2. ops' = n
  BY DEF OverwriteInIf
<1>3. b \in Ids(ops) /\ OpOf(ops, b).kind = "store"
  BY <1>1 DEF OfKind
<1>4. CanHoist(ops, b, << >>, select) /\ select.id = Fresh
  BY OverwriteView
<1> HIDE DEF select, if
<1>5. select.kind = "select"
  BY <1>4 DEF CanHoist
<1>6. /\ IsBlock(n) /\ if \in Ids(ops) /\ OpOf(ops, if).kind = "if" /\ if # b
      /\ Ids(ops) \ {if} \subseteq Ids(n) /\ select.id \in Ids(n) /\ OpOf(n, select.id) = select
      /\ \A y \in Ids(ops) \ {if, b} : OpOf(n, y) = OpOf(ops, y)
      /\ /\ OpOf(n, b).kind = "store" /\ OpOf(n, b).mem = OpOf(ops, b).mem
         /\ OpOf(n, b).addr = OpOf(ops, b).addr /\ OpOf(n, b).parent = 0
      /\ \A x \in Ids(n) \ Ids(ops) : x = select.id
      /\ \A y, z \in Ids(ops) \ {if} : Before(n, y, z) <=> Before(ops, y, z)
      /\ if \notin Ids(n)
  BY <1>4, HoistedView DEF if
<1> HIDE DEF n
<1>7. OfKind(ops, "store") \subseteq OfKind(n, "store")
  <2>1. ASSUME NEW x \in OfKind(ops, "store") PROVE x \in OfKind(n, "store")
    <3>1. x \in Ids(ops) /\ OpOf(ops, x).kind = "store" /\ x # if
      BY <1>6 DEF OfKind
    <3>2. x \in Ids(n) /\ OpOf(n, x).kind = "store"
      BY <1>6, <3>1
    <3> QED
      BY <3>2 DEF OfKind
  <2> QED
    BY <2>1
<1>8. Ids(n) = (Ids(ops) \ {if}) \cup {Fresh}
  BY <1>4, <1>5, <1>6
<1>9. /\ Fresh \in Ids(n) /\ OpOf(n, Fresh).kind = "select" /\ Ids(n) \subseteq Ids(ops) \cup {Fresh}
      /\ \A x \in Ids(n) \cap Ids(ops) :
            /\ OpOf(n, x).mem = OpOf(ops, x).mem /\ OpOf(n, x).addr = OpOf(ops, x).addr
            /\ OpOf(n, x).kind = OpOf(ops, x).kind
            /\ x # b => OpOf(n, x) = OpOf(ops, x)
      /\ \A y, z \in Ids(n) \cap Ids(ops) : Before(n, y, z) <=> Before(ops, y, z)
  BY <1>3, <1>4, <1>5, <1>6, <1>8
<1> QED
  BY <1>2, <1>6, <1>7, <1>8, <1>9 DEF if

\* A step of the walk.
LEMMA FindUnusedStoreKeeps ==
    ASSUME IsBlock(ops), StoresState, FindUnusedStore
    PROVE  IsBlock(ops') /\ StoresState'
<1> DEFINE a == Head(walk)
<1>1. /\ walk # << >> /\ a \in OfKind(ops, "store") /\ a \in Ids(ops) /\ OpOf(ops, a).kind = "store"
      /\ Tail(walk) \in Seq(OfKind(ops, "store"))
  BY DEF FindUnusedStore, StoresState, OfKind
<1>2. \A b : Kept(walk, {i \in DOMAIN walk : i > 1 /\ walk[i] # b}) \in Seq(OfKind(ops, "store"))
  <2> SUFFICES ASSUME NEW b PROVE Kept(walk, {i \in DOMAIN walk : i > 1 /\ walk[i] # b}) \in Seq(OfKind(ops, "store"))
    OBVIOUS
  <2>1. {i \in DOMAIN walk : i > 1 /\ walk[i] # b} \in SUBSET DOMAIN walk
    OBVIOUS
  <2> QED
    BY <2>1, KeptLayout DEF StoresState
<1>3. \/ UNCHANGED <<ops, opsToErase>> /\ walk' = Tail(walk)
      \/ \E b \in Overwriters(a) :
            LET target == Targets(a, b)
            IN  /\ opsToErase' = opsToErase \cup {target[1]}
                /\ IF target[1] = a /\ target[2] # b
                   THEN OverwriteInIf(a, b) ELSE UNCHANGED ops
                /\ \/ walk' = Tail(walk)
                   \/ walk' = Kept(walk, {i \in DOMAIN walk : i > 1 /\ walk[i] # b})
  BY DEF FindUnusedStore
<1>4. walk' \in Seq(OfKind(ops, "store"))
  BY <1>1, <1>2, <1>3
<1> HIDE DEF a
<1>5. /\ IsBlock(ops') /\ OfKind(ops, "store") \subseteq OfKind(ops', "store")
      /\ \A x \in opsToErase' : /\ x \in Nat \ {0} /\ \E m \in Ids(ops') : x <= m
                                /\ x \in Ids(ops') => OpOf(ops', x).kind \in {"store", "if"}
  <2>1. CASE UNCHANGED <<ops, opsToErase>>
    BY <2>1 DEF StoresState
  <2>2. ASSUME NEW b \in Overwriters(a), opsToErase' = opsToErase \cup {Targets(a, b)[1]},
               IF Targets(a, b)[1] = a /\ Targets(a, b)[2] # b THEN OverwriteInIf(a, b) ELSE UNCHANGED ops
        PROVE  /\ IsBlock(ops') /\ OfKind(ops, "store") \subseteq OfKind(ops', "store")
               /\ \A x \in opsToErase' : /\ x \in Nat \ {0} /\ \E m \in Ids(ops') : x <= m
                                         /\ x \in Ids(ops') => OpOf(ops', x).kind \in {"store", "if"}
    <3> DEFINE t == Targets(a, b)[1]
    <3>1. t \in Ids(ops) /\ OpOf(ops, t).kind \in {"store", "if"}
      <4>1. t = a \/ (t = OpOf(ops, a).parent /\ OpOf(ops, a).parent # 0)
        BY DEF Targets
      <4> HIDE DEF t
      <4> QED
        BY <1>1, <4>1, BlockParents
    <3>2. \A x \in opsToErase' : /\ x \in Nat \ {0} /\ \E m \in Ids(ops) : x <= m
                                 /\ x \in Ids(ops) => OpOf(ops, x).kind \in {"store", "if"}
      <4>1. t \in Nat \ {0} /\ t <= t
        BY <3>1, BlockOps
      <4> HIDE DEF t
      <4> QED
        BY <2>2, <3>1, <4>1 DEF StoresState, t
    <3>3. CASE ~(Targets(a, b)[1] = a /\ Targets(a, b)[2] # b)
      <4>1. ops' = ops
        BY <2>2, <3>3
      <4> QED
        BY <3>2, <4>1
    <3>4. CASE Targets(a, b)[1] = a /\ Targets(a, b)[2] # b
      <4>1. /\ IsBlock(ops') /\ OfKind(ops, "store") \subseteq OfKind(ops', "store")
            /\ Fresh \in Ids(ops') /\ Ids(ops') \subseteq Ids(ops) \cup {Fresh}
            /\ \A x \in Ids(ops') \cap Ids(ops) : OpOf(ops', x).kind = OpOf(ops, x).kind
        BY <1>1, <2>2, <3>4, OverwrittenInIf
      <4>2. Fresh \in Nat /\ \A m \in Ids(ops) : m \in Nat /\ m < Fresh
        BY FreshIds, BlockOps
      <4>3. ASSUME NEW x \in opsToErase'
            PROVE  /\ x \in Nat \ {0} /\ \E m \in Ids(ops') : x <= m
                   /\ x \in Ids(ops') => OpOf(ops', x).kind \in {"store", "if"}
        <5>1. x < Fresh /\ x \in Nat \ {0}
          BY <3>2, <4>2
        <5>2. x <= Fresh /\ x # Fresh
          BY <4>2, <5>1
        <5> QED
          BY <3>2, <4>1, <5>1, <5>2
      <4> QED
        BY <4>1, <4>3
    <3> QED
      BY <3>3, <3>4
  <2> QED
    BY <1>3, <2>1, <2>2
<1>6. walk' \in Seq(OfKind(ops', "store"))
  <2>1. \A A, B : A \subseteq B => Seq(A) \subseteq Seq(B)
    OBVIOUS
  <2> QED
    BY <1>4, <1>5, <2>1
<1> QED
  BY <1>5, <1>6 DEF StoresState

\* The stores go, and the allocs that only stores use.
LEMMA EraseStoresKeeps ==
    ASSUME IsBlock(ops), StoresState, EraseStores
    PROVE  IsBlock(ops')
<1> DEFINE kept == Erase(ops, opsToErase)
           dead == DeadAllocs(kept)
           gone == dead \cup UNION {Users(kept, OpOf(kept, x).mem) : x \in dead}
<1>1. ops' = Erase(kept, gone)
  BY DEF EraseStores
<1>2. IsBlock(kept)
  <2>1. opsToErase \in SUBSET (Nat \ {0})
    BY DEF StoresState
  <2>2. \A x \in opsToErase \cap Ids(ops) : ~HasResult(OpOf(ops, x))
    BY DEF StoresState, HasResult
  <2> QED
    BY <2>1, <2>2, ErasedWithoutResults
<1> HIDE DEF kept
<1>3. \A x \in gone : x \in Ids(kept) /\ OpOf(kept, x).kind \in {"alloc", "store"}
  BY DEF DeadAllocs, OfKind, Users
<1>4. gone \in SUBSET (Nat \ {0}) /\ \A x \in gone : ~HasResult(OpOf(kept, x))
  <2> HIDE DEF gone
  <2> QED
    BY <1>2, <1>3, BlockOps DEF HasResult
<1> HIDE DEF gone
<1> QED
  BY <1>1, <1>2, <1>4, ErasedWithoutResults

-----------------------------------------------------------------------------
(* Simplifications *)

\* An operation that is trivially dead goes, and the block stays one.
LEMMA EraseDeadKeeps ==
    ASSUME IsBlock(ops), EraseDead
    PROVE  IsBlock(ops')
<1>1. PICK x \in DeadOps : ops' = Erase(ops, {x})
  BY DEF EraseDead
<1>2. x \in Ids(ops) /\ \A i \in DOMAIN ops : x \notin ToSet(ops[i].args)
  BY DEF DeadOps, IsTriviallyDead
<1>3. x # 0
  BY <1>2, BlockOps
<1>4. \A y \in Ids(ops) : ToSet(OpOf(ops, y).args) \cap {x} = {}
  BY <1>2, BlockFacts
<1> QED
  BY <1>1, <1>3, <1>4, ErasedBlock

\* A copy and the allocs of a memory go, and another memory takes its place.
LEMMA SimplifyBufferCopyKeeps ==
    ASSUME IsBlock(ops), NEW copy \in OfKind(ops, "copy"), SimplifyBufferCopy(copy)
    PROVE  IsBlock(ops')
<1>1. PICK r \in Replacement(copy) : ops' = Rename(Erase(ops, AllocsOf(r[1]) \cup {copy}), r[1], r[2])
  BY DEF SimplifyBufferCopy
<1> DEFINE S == AllocsOf(r[1]) \cup {copy}
<1>2. \A x \in S : x \in Ids(ops) /\ OpOf(ops, x).kind \in {"alloc", "copy"}
  BY DEF AllocsOf, OfKind
<1>3. S \in SUBSET (Nat \ {0})
  BY <1>2, BlockOps
<1>4. \A x \in S \cap Ids(ops) : ~HasResult(OpOf(ops, x))
  BY <1>2 DEF HasResult
<1>5. IsBlock(Erase(ops, S))
  BY <1>3, <1>4, ErasedWithoutResults
<1> HIDE DEF S
<1>6. IsBlock(Rename(Erase(ops, S), r[1], r[2]))
  BY <1>5, RenamedBlock
<1> QED
  BY <1>1, <1>6 DEF S

\* The branch that is taken takes the place of an if.
LEMMA RemoveRedundantIfKeeps ==
    ASSUME IsBlock(ops), NEW if \in OfKind(ops, "if"), RemoveRedundantIf(if)
    PROVE  IsBlock(ops')
<1> DEFINE taken == IF OpOf(ops, if).cond \in p.neverTrue THEN "else" ELSE "then"
<1>1. if \in Ids(ops) /\ OpOf(ops, if).kind = "if"
  BY DEF OfKind
<1>2. taken \in {"then", "else"}
  OBVIOUS
<1>3. ops' = FlattenSeq([i \in DOMAIN ops |->
                CASE ops[i].id = if     -> << >>
                  [] ops[i].parent = if -> IF ops[i].branch = taken
                                           THEN <<[ops[i] EXCEPT !.parent = 0, !.branch = "top"]>> ELSE << >>
                  [] OTHER              -> <<ops[i]>>])
  BY DEF RemoveRedundantIf
<1> HIDE DEF taken
<1> QED
  BY <1>1, <1>2, <1>3, UnwrappedBlock

\* Behind an if that is merged there is one that is not: the last of those behind it
\* is merged into none.
LEMMA LastNotMerged ==
    ASSUME IsBlock(ops), NEW x \in MergedIfs
    PROVE  \E y \in OfKind(ops, "if") \ MergedIfs : Before(ops, x, y)
<1> DEFINE S == {y \in OfKind(ops, "if") : Before(ops, x, y)}
<1>1. S \in SUBSET Ids(ops)
  BY DEF OfKind
<1>2. S # {}
  BY DEF MergedIfs, Mergeable
<1>3. PICK y \in S : \A z \in S : ~Before(ops, y, z)
  BY <1>1, <1>2, FirstAndLast
<1>4. y \in OfKind(ops, "if") /\ Before(ops, x, y) /\ y \in Ids(ops)
  BY <1>1
<1>5. y \notin MergedIfs
  <2>1. SUFFICES ASSUME NEW z \in OfKind(ops, "if"), Before(ops, y, z)
                 PROVE  FALSE
    BY DEF MergedIfs, Mergeable
  <2>2. z \in Ids(ops) /\ x \in Ids(ops)
    BY DEF OfKind, MergedIfs
  <2>3. Before(ops, x, z)
    BY <1>4, <2>1, <2>2, BlockOrder
  <2> QED
    BY <1>3, <2>1, <2>3
<1> QED
  BY <1>4, <1>5

\* What is in the ifs that are merged comes to the next one that is not.
LEMMA MergeSameIfKeeps ==
    ASSUME IsBlock(ops), MergeSameIf
    PROVE  IsBlock(ops')
<1>1. PICK merged \in {MergedIfs} :
          ops' = FlattenSeq([i \in DOMAIN ops |->
                    IF ops[i].id \in merged \/ ops[i].parent \in merged THEN << >>
                    ELSE <<ops[i]>> \o MovedTo(ops[i].id, merged)])
  BY DEF MergeSameIf
<1>2. merged = MergedIfs
  OBVIOUS
<1>3. merged \in SUBSET OfKind(ops, "if")
  BY <1>2 DEF MergedIfs
<1>4. \A x \in merged : \E y \in OfKind(ops, "if") \ merged : Before(ops, x, y)
  BY <1>2, LastNotMerged
<1> QED
  BY <1>1, <1>3, <1>4, MergedBlock

\* What holds of the walk and the operations to erase in front of AffineStoreForward.
NothingToErase == opsToErase = {} /\ current = None

\* SimplifyCopy and LowerCopyToAffine keep the block one.
LEMMA SimplifyCopiesKeeps ==
    ASSUME IsBlock(ops), NothingToErase, SimplifyCopies
    PROVE  /\ IsBlock(ops')
           /\ \/ stage' = stage /\ NothingToErase'
              \/ stage' = "loads" /\ LoadsState'
<1>1. CASE EraseDead /\ UNCHANGED <<p, stage, walk>>
  BY <1>1, EraseDeadKeeps DEF SimplifyCopies, NothingToErase
<1>2. CASE (\E x \in OfKind(ops, "copy") : SimplifyBufferCopy(x)) /\ UNCHANGED <<p, stage, walk>>
  BY <1>2, SimplifyBufferCopyKeeps DEF SimplifyCopies, NothingToErase
<1>3. CASE stage' = "loads" /\ ops' = LowerCopies(ops) /\ walk' = OrderOf(ops, "load")
  <2>1. /\ IsBlock(ops') /\ Ids(ops') = Ids(ops)
        /\ \A x \in Ids(ops) : OpOf(ops', x) = IF OpOf(ops, x).kind = "copy" THEN [OpOf(ops, x) EXCEPT !.kind = "loop"]
                                               ELSE OpOf(ops, x)
    BY <1>3, LoweredBlock
  <2>2. OfKind(ops, "load") \subseteq OfKind(ops', "load")
    BY <2>1 DEF OfKind
  <2>3. walk' \in Seq(OfKind(ops, "load"))
    BY <1>3, OrderOfKind
  <2>4. \A A, B : A \subseteq B => Seq(A) \subseteq Seq(B)
    OBVIOUS
  <2>5. walk' \in Seq(OfKind(ops', "load"))
    BY <2>2, <2>3, <2>4
  <2>6. opsToErase' = {} /\ current' = None
    BY DEF SimplifyCopies, NothingToErase
  <2> QED
    BY <1>3, <2>1, <2>5, <2>6 DEF LoadsState, LoadsMayGo
<1> QED
  BY <1>1, <1>2, <1>3 DEF SimplifyCopies

\* SimplifyAffineIf keeps the block one.
LEMMA SimplifyAffineIfKeeps ==
    ASSUME IsBlock(ops), NothingToErase, SimplifyAffineIf
    PROVE  /\ IsBlock(ops')
           /\ \/ stage' = stage /\ NothingToErase'
              \/ stage' = "loads" /\ LoadsState'
<1>1. CASE EraseDead /\ UNCHANGED <<p, stage, walk>>
  BY <1>1, EraseDeadKeeps DEF SimplifyAffineIf, NothingToErase
<1>2. CASE (\E if \in RedundantIfs : RemoveRedundantIf(if)) /\ UNCHANGED <<p, stage, walk>>
  <2>1. PICK if \in RedundantIfs : RemoveRedundantIf(if)
    BY <1>2
  <2>2. if \in OfKind(ops, "if")
    BY DEF RedundantIfs
  <2>3. IsBlock(ops')
    BY <2>1, <2>2, RemoveRedundantIfKeeps
  <2> QED
    BY <1>2, <2>3 DEF SimplifyAffineIf, NothingToErase
<1>3. CASE MergeSameIf /\ UNCHANGED <<p, stage, walk>>
  BY <1>3, MergeSameIfKeeps DEF SimplifyAffineIf, NothingToErase
<1>4. CASE stage' = "loads" /\ walk' = OrderOf(ops, "load") /\ UNCHANGED ops
  <2>1. walk' \in Seq(OfKind(ops, "load"))
    BY <1>4, OrderOfKind
  <2>2. opsToErase' = {} /\ current' = None
    BY DEF SimplifyAffineIf, NothingToErase
  <2>3. IsBlock(ops') /\ walk' \in Seq(OfKind(ops', "load"))
    BY <1>4, <2>1
  <2> QED
    BY <1>4, <2>2, <2>3 DEF LoadsState, LoadsMayGo
<1> QED
  BY <1>1, <1>2, <1>3, <1>4 DEF SimplifyAffineIf

-----------------------------------------------------------------------------
(* Tasks *)

\* The operations of the block itself, and those a task is made of.
Top(b) == {x \in Ids(b) : OpOf(b, x).parent = 0}
Working(b) == {x \in Top(b) : OpOf(b, x).kind # "alloc"}

Elements(ss) == UNION {ToSet(ss[t]) : t \in DOMAIN ss}
AllBefore(b, S, T) == \A x \in S, y \in T : Before(b, x, y)
Increasing(b, s) == \A i, j \in DOMAIN s : i < j => Before(b, s[i], s[j])

\* Lists of operations in the order of the block, in the lists and from list to list.
AreTasks(b, ts) ==
    /\ ts \in Seq(Seq(Working(b)))
    /\ \A t \in DOMAIN ts : ts[t] # << >> /\ Increasing(b, ts[t])
    /\ \A t, u \in DOMAIN ts : t < u => AllBefore(b, ToSet(ts[t]), ToSet(ts[u]))

\* The first of a list, and what is behind it.
LEMMA HeadAndTail ==
    ASSUME NEW T, NEW s \in Seq(T), s # << >>, NEW b
    PROVE  /\ Head(s) \in T /\ Tail(s) \in Seq(T)
           /\ ToSet(s) = {Head(s)} \cup ToSet(Tail(s))
           /\ Increasing(b, s) =>
                 Increasing(b, Tail(s)) /\ \A y \in ToSet(Tail(s)) : Before(b, Head(s), y)
<1>1. /\ Len(s) \in Nat \ {0} /\ DOMAIN s = 1..Len(s) /\ Head(s) = s[1] /\ s[1] \in T
      /\ Tail(s) \in Seq(T) /\ Len(Tail(s)) = Len(s) - 1 /\ DOMAIN Tail(s) = 1..(Len(s) - 1)
      /\ \A i \in 1..(Len(s) - 1) : Tail(s)[i] = s[i + 1]
  OBVIOUS
<1>2. ToSet(s) = {Head(s)} \cup ToSet(Tail(s))
  <2>1. \A i \in 1..Len(s) : i = 1 \/ (i - 1 \in 1..(Len(s) - 1) /\ s[i] = Tail(s)[i - 1])
    BY <1>1
  <2>2. \A i \in 1..(Len(s) - 1) : i + 1 \in 1..Len(s)
    BY <1>1
  <2>3. ToSet(s) = {s[i] : i \in 1..Len(s)} /\ ToSet(Tail(s)) = {Tail(s)[i] : i \in 1..(Len(s) - 1)}
    BY <1>1 DEF ToSet
  <2>4. ToSet(s) \subseteq {Head(s)} \cup ToSet(Tail(s))
    <3> SUFFICES ASSUME NEW i \in 1..Len(s) PROVE s[i] \in {Head(s)} \cup ToSet(Tail(s))
      BY <2>3
    <3>1. i = 1 \/ (i - 1 \in 1..(Len(s) - 1) /\ s[i] = Tail(s)[i - 1])
      BY <2>1
    <3> QED
      BY <1>1, <2>3, <3>1
  <2>5. 1 \in 1..Len(s) /\ \A i \in 1..(Len(s) - 1) : Tail(s)[i] = s[i + 1]
    BY <1>1
  <2>6. {Head(s)} \cup ToSet(Tail(s)) \subseteq ToSet(s)
    BY <1>1, <2>2, <2>3, <2>5
  <2> QED
    BY <2>4, <2>6
<1>3. ASSUME Increasing(b, s)
      PROVE  Increasing(b, Tail(s)) /\ \A y \in ToSet(Tail(s)) : Before(b, Head(s), y)
  <2>1. \A i \in 1..(Len(s) - 1) : i + 1 \in 1..Len(s) /\ 1 < i + 1 /\ 1 \in 1..Len(s)
    BY <1>1
  <2>2. \A i \in 1..(Len(s) - 1) : Before(b, Head(s), Tail(s)[i])
    BY <1>1, <1>3, <2>1 DEF Increasing
  <2>3. ASSUME NEW i \in 1..(Len(s) - 1), NEW j \in 1..(Len(s) - 1), i < j
        PROVE  Before(b, Tail(s)[i], Tail(s)[j])
    BY <1>1, <1>3, <2>1, <2>3 DEF Increasing
  <2> QED
    BY <1>1, <2>2, <2>3 DEF Increasing, ToSet
<1> QED
  BY <1>1, <1>2, <1>3

\* One more operation at the end of a list.
LEMMA OneMore ==
    ASSUME NEW T, NEW s \in Seq(T), NEW x \in T
    PROVE  /\ Append(s, x) \in Seq(T) /\ Append(s, x) # << >> /\ ToSet(Append(s, x)) = ToSet(s) \cup {x}
           /\ \A b : Increasing(b, s) /\ AllBefore(b, ToSet(s), {x}) => Increasing(b, Append(s, x))
<1>1. /\ Append(s, x) \in Seq(T) /\ Len(Append(s, x)) = Len(s) + 1 /\ DOMAIN Append(s, x) = 1..(Len(s) + 1)
      /\ DOMAIN s = 1..Len(s) /\ Len(s) \in Nat
      /\ \A i \in 1..Len(s) : Append(s, x)[i] = s[i]
      /\ Append(s, x)[Len(s) + 1] = x
  OBVIOUS
<1>2. \A i \in 1..(Len(s) + 1) : i \in 1..Len(s) \/ i = Len(s) + 1
  BY <1>1
<1>3. 1..Len(s) \subseteq 1..(Len(s) + 1) /\ Len(s) + 1 \in 1..(Len(s) + 1)
  BY <1>1
<1>4. ToSet(Append(s, x)) = ToSet(s) \cup {x}
  BY <1>1, <1>2, <1>3 DEF ToSet
<1>5. ASSUME NEW b, Increasing(b, s), AllBefore(b, ToSet(s), {x}),
             NEW i \in 1..(Len(s) + 1), NEW j \in 1..(Len(s) + 1), i < j
      PROVE  Before(b, Append(s, x)[i], Append(s, x)[j])
  <2>1. i \in 1..Len(s) /\ Append(s, x)[i] = s[i] /\ s[i] \in ToSet(s)
    BY <1>1, <1>5 DEF ToSet
  <2>2. CASE j = Len(s) + 1
    BY <1>1, <1>5, <2>1, <2>2 DEF AllBefore
  <2>3. CASE j \in 1..Len(s)
    BY <1>1, <1>5, <2>1, <2>3 DEF Increasing
  <2> QED
    BY <1>2, <2>2, <2>3
<1>6. Append(s, x) # << >>
  BY <1>1
<1> QED
  BY <1>1, <1>4, <1>5, <1>6 DEF Increasing

\* One more task behind the others.
LEMMA OneMoreTask ==
    ASSUME NEW b, NEW ts, AreTasks(b, ts), NEW l \in Seq(Working(b)), l # << >>, Increasing(b, l),
           AllBefore(b, Elements(ts), ToSet(l))
    PROVE  AreTasks(b, Append(ts, l)) /\ Elements(Append(ts, l)) = Elements(ts) \cup ToSet(l)
<1> DEFINE n == Append(ts, l)
<1>1. ts \in Seq(Seq(Working(b)))
  BY DEF AreTasks
<1>2. /\ n \in Seq(Seq(Working(b))) /\ DOMAIN n = 1..(Len(ts) + 1) /\ DOMAIN ts = 1..Len(ts) /\ Len(ts) \in Nat
      /\ \A t \in 1..Len(ts) : n[t] = ts[t]
      /\ n[Len(ts) + 1] = l
  BY <1>1
<1> HIDE DEF n
<1>3. /\ \A t \in 1..(Len(ts) + 1) : t \in 1..Len(ts) \/ t = Len(ts) + 1
      /\ \A t \in 1..Len(ts) : t \in 1..(Len(ts) + 1)
      /\ Len(ts) + 1 \in 1..(Len(ts) + 1)
  BY <1>2
<1>4. Elements(n) = Elements(ts) \cup ToSet(l)
  BY <1>2, <1>3 DEF Elements
<1>5. \A t \in DOMAIN n : n[t] # << >> /\ Increasing(b, n[t])
  BY <1>2, <1>3 DEF AreTasks
<1>6. ASSUME NEW t \in DOMAIN n, NEW u \in DOMAIN n, t < u
      PROVE  AllBefore(b, ToSet(n[t]), ToSet(n[u]))
  <2>1. t \in 1..Len(ts) /\ n[t] = ts[t]
    BY <1>2, <1>6
  <2>2. CASE u \in 1..Len(ts)
    BY <1>2, <1>6, <2>1, <2>2 DEF AreTasks
  <2>3. CASE u = Len(ts) + 1
    <3>1. ToSet(ts[t]) \subseteq Elements(ts)
      BY <1>2, <2>1 DEF Elements
    <3> QED
      BY <1>2, <2>1, <2>3, <3>1 DEF AllBefore
  <2> QED
    BY <1>2, <1>3, <2>2, <2>3
<1>7. AreTasks(b, n)
  BY <1>2, <1>5, <1>6 DEF AreTasks
<1> QED
  BY <1>4, <1>7 DEF n

-----------------------------------------------------------------------------
(* The partition *)

\* All operations of the block but the allocs are in a task, or wait for one, in order.
PartitionState ==
    /\ AreTasks(ops, tasks)
    /\ opsToFuse \in Seq(Working(ops)) /\ Increasing(ops, opsToFuse)
    /\ rest \in Seq(Top(ops)) /\ Increasing(ops, rest)
    /\ Working(ops) \subseteq Elements(tasks) \cup ToSet(opsToFuse) \cup ToSet(rest)
    /\ AllBefore(ops, Elements(tasks), ToSet(opsToFuse) \cup ToSet(rest))
    /\ AllBefore(ops, ToSet(opsToFuse), ToSet(rest))

NoTasks == tasks = << >> /\ opsToFuse = << >>

\* The dispatch begins with all operations of the block still to be looked at.
LEMMA DispatchBegins ==
    ASSUME IsBlock(ops), NoTasks, DispatchBlock
    PROVE  stage' = "inlined" \/ (stage' = "partition" /\ PartitionState')
<1>1. SUFFICES ASSUME stage' = "partition", rest' = TopLevel(ops)
               PROVE  PartitionState'
  BY DEF DispatchBlock
<1>2. ops' = ops /\ tasks' = << >> /\ opsToFuse' = << >>
  BY DEF DispatchBlock, forwardVars, NoTasks
<1> DEFINE S == {i \in DOMAIN ops : ops[i].parent = 0}
<1>3. S \in SUBSET DOMAIN ops /\ rest' = InOrder(ops, S)
  BY <1>1 DEF TopLevel
<1>4. {ops[i].id : i \in S} = Top(ops)
  BY BlockFacts DEF Top, Ids
<1> HIDE DEF S
<1>5. /\ InOrder(ops, S) \in Seq({ops[i].id : i \in S})
      /\ ToSet(InOrder(ops, S)) = {ops[i].id : i \in S}
      /\ \A j, k \in DOMAIN InOrder(ops, S) : j < k <=> Before(ops, InOrder(ops, S)[j], InOrder(ops, S)[k])
  BY <1>3, InOrderLayout
<1>6. rest' \in Seq(Top(ops)) /\ ToSet(rest') = Top(ops) /\ Increasing(ops, rest')
  BY <1>3, <1>4, <1>5 DEF Increasing
<1>7. << >> \in Seq(Working(ops)) /\ << >> \in Seq(Seq(Working(ops))) /\ DOMAIN << >> = {} /\ ToSet(<< >>) = {}
  BY DEF ToSet
<1>8. AreTasks(ops, << >>) /\ Elements(<< >>) = {} /\ Increasing(ops, << >>)
  BY <1>7 DEF AreTasks, Elements, Increasing
<1>9. Working(ops) \subseteq ToSet(rest')
  BY <1>6 DEF Working
<1> QED
  BY <1>2, <1>6, <1>7, <1>8, <1>9 DEF PartitionState, AllBefore

\* An operation that is looked at is fused with those collected, or collected.
LEMMA FuseOrCollect ==
    ASSUME IsBlock(ops), PartitionState, rest # << >>, OpOf(ops, Head(rest)).kind # "alloc",
           FuseWithLoop(Head(rest)) \/ Collect(Head(rest)), rest' = Tail(rest)
    PROVE  IsBlock(ops') /\ PartitionState'
<1> DEFINE x == Head(rest)
<1>1. /\ x \in Top(ops) /\ Tail(rest) \in Seq(Top(ops)) /\ ToSet(rest) = {x} \cup ToSet(Tail(rest))
      /\ Increasing(ops, Tail(rest)) /\ \A y \in ToSet(Tail(rest)) : Before(ops, x, y)
  BY HeadAndTail DEF PartitionState
<1>2. x \in Working(ops)
  BY <1>1 DEF Working
<1> DEFINE l == Append(opsToFuse, x)
<1>3. AllBefore(ops, ToSet(opsToFuse), {x})
  BY <1>1 DEF AllBefore, PartitionState
<1>4. l \in Seq(Working(ops)) /\ l # << >> /\ ToSet(l) = ToSet(opsToFuse) \cup {x} /\ Increasing(ops, l)
  <2>1. opsToFuse \in Seq(Working(ops)) /\ Increasing(ops, opsToFuse)
    BY DEF PartitionState
  <2> HIDE DEF x
  <2>2. /\ l \in Seq(Working(ops)) /\ l # << >> /\ ToSet(l) = ToSet(opsToFuse) \cup {x}
        /\ \A b : Increasing(b, opsToFuse) /\ AllBefore(b, ToSet(opsToFuse), {x}) => Increasing(b, l)
    BY <1>2, <2>1, OneMore
  <2> HIDE DEF l
  <2> QED
    BY <1>3, <2>1, <2>2
<1>5. ops' = ops
  BY DEF FuseWithLoop, Collect
<1> HIDE DEF x, l
<1>6. /\ AllBefore(ops, Elements(tasks), ToSet(l)) /\ AllBefore(ops, ToSet(l), ToSet(Tail(rest)))
      /\ AllBefore(ops, Elements(tasks), ToSet(Tail(rest)))
  BY <1>1, <1>4 DEF AllBefore, PartitionState
<1>7. CASE FuseWithLoop(Head(rest))
  <2>1. tasks' = Append(tasks, l) /\ opsToFuse' = << >>
    BY <1>7 DEF FuseWithLoop, x, l
  <2>2. AreTasks(ops, Append(tasks, l)) /\ Elements(Append(tasks, l)) = Elements(tasks) \cup ToSet(l)
    BY <1>4, <1>6, OneMoreTask DEF PartitionState
  <2>3. << >> \in Seq(Working(ops)) /\ ToSet(<< >>) = {} /\ Increasing(ops, << >>)
    BY DEF ToSet, Increasing
  <2>4. AllBefore(ops, Elements(tasks) \cup ToSet(l), ToSet(Tail(rest)))
    BY <1>6 DEF AllBefore
  <2>5. Working(ops) \subseteq Elements(tasks) \cup ToSet(l) \cup ToSet(Tail(rest))
    BY <1>1, <1>4 DEF PartitionState
  <2> QED
    BY <1>1, <1>5, <2>1, <2>2, <2>3, <2>4, <2>5 DEF PartitionState, AllBefore
<1>8. CASE Collect(Head(rest))
  <2>1. opsToFuse' = l /\ tasks' = tasks
    BY <1>8 DEF Collect, x, l
  <2>2. AllBefore(ops, Elements(tasks), ToSet(l) \cup ToSet(Tail(rest)))
    BY <1>6 DEF AllBefore
  <2>3. Working(ops) \subseteq Elements(tasks) \cup ToSet(l) \cup ToSet(Tail(rest))
    BY <1>1, <1>4 DEF PartitionState
  <2> QED
    BY <1>1, <1>4, <1>5, <1>6, <2>1, <2>2, <2>3 DEF PartitionState
<1> QED
  BY <1>7, <1>8

\* An alloc moves to the front, and nothing else does.
LEMMA SkippedAlloc ==
    ASSUME IsBlock(ops), NEW x \in Top(ops), OpOf(ops, x).kind = "alloc", SkipAlloc(x)
    PROVE  /\ IsBlock(ops') /\ Ids(ops') = Ids(ops)
           /\ \A y \in Ids(ops) : OpOf(ops', y) = OpOf(ops, y)
           /\ \A y, z \in Ids(ops) \ {x} : Before(ops', y, z) <=> Before(ops, y, z)
<1> DEFINE e == Erase(ops, {x})
           a == OpOf(ops, x)
<1>1. x \in Ids(ops) /\ a.parent = 0 /\ a.kind = "alloc"
  BY DEF Top
<1>2. IsOperation(a) /\ a.id = x /\ x \in Nat \ {0}
  BY <1>1, BlockOps
<1>3. a.args = << >>
  BY <1>1, <1>2 DEF IsOperation
<1>4. ~HasResult(a)
  BY <1>1 DEF HasResult
<1>5. \A y \in Ids(ops) : ToSet(OpOf(ops, y).args) \cap {x} = {}
  BY <1>2, <1>4, BlockUses
<1>6. \A y \in Ids(ops) : OpOf(ops, y).parent # x
  BY <1>1, <1>2, BlockParents
<1>7. /\ IsBlock(e)
      /\ Ids(e) = {y \in Ids(ops) : y \notin {x} /\ OpOf(ops, y).parent \notin {x}}
      /\ \A y \in Ids(e) : OpOf(e, y) = OpOf(ops, y)
      /\ \A y, z \in Ids(e) : Before(e, y, z) <=> Before(ops, y, z)
  <2>1. 0 \notin {x}
    BY <1>2
  <2> QED
    BY <1>5, <2>1, ErasedBlock
<1>8. Ids(e) = Ids(ops) \ {x}
  BY <1>6, <1>7
<1>9. ops' = <<a>> \o e
  BY DEF SkipAlloc
<1> HIDE DEF e, a
<1>10. a.id \notin Ids(e)
  BY <1>2, <1>8
<1>11. /\ IsBlock(<<a>> \o e) /\ Ids(<<a>> \o e) = Ids(e) \cup {a.id}
       /\ OpOf(<<a>> \o e, a.id) = a
       /\ \A y \in Ids(e) : OpOf(<<a>> \o e, y) = OpOf(e, y) /\ Before(<<a>> \o e, a.id, y)
       /\ \A y, z \in Ids(e) : Before(<<a>> \o e, y, z) <=> Before(e, y, z)
  BY <1>1, <1>2, <1>3, <1>7, <1>10, PrependedBlock
<1>12. IsBlock(ops') /\ Ids(ops') = Ids(ops)
  BY <1>1, <1>2, <1>8, <1>9, <1>11
<1>13. \A y \in Ids(ops) : OpOf(ops', y) = OpOf(ops, y)
  <2>1. OpOf(ops', x) = OpOf(ops, x)
    BY <1>2, <1>9, <1>11 DEF a
  <2>2. \A y \in Ids(ops) \ {x} : OpOf(ops', y) = OpOf(ops, y)
    BY <1>7, <1>8, <1>9, <1>11
  <2> QED
    BY <2>1, <2>2
<1>14. \A y, z \in Ids(ops) \ {x} : Before(ops', y, z) <=> Before(ops, y, z)
  BY <1>7, <1>8, <1>9, <1>11
<1> QED
  BY <1>12, <1>13, <1>14

\* What has been looked at, or waits for it, stays in order when an alloc moves.
LEMMA SkipAllocKeeps ==
    ASSUME IsBlock(ops), PartitionState, rest # << >>, OpOf(ops, Head(rest)).kind = "alloc",
           SkipAlloc(Head(rest)), rest' = Tail(rest)
    PROVE  IsBlock(ops') /\ PartitionState'
<1> DEFINE x == Head(rest)
<1>1. /\ x \in Top(ops) /\ Tail(rest) \in Seq(Top(ops)) /\ ToSet(rest) = {x} \cup ToSet(Tail(rest))
      /\ Increasing(ops, Tail(rest)) /\ \A y \in ToSet(Tail(rest)) : Before(ops, x, y)
  BY HeadAndTail DEF PartitionState
<1>2. /\ IsBlock(ops') /\ Ids(ops') = Ids(ops)
      /\ \A y \in Ids(ops) : OpOf(ops', y) = OpOf(ops, y)
      /\ \A y, z \in Ids(ops) \ {x} : Before(ops', y, z) <=> Before(ops, y, z)
  BY <1>1, SkippedAlloc
<1>3. Top(ops') = Top(ops) /\ Working(ops') = Working(ops)
  BY <1>2 DEF Top, Working
<1>4. x \notin Working(ops) /\ Working(ops) \subseteq Ids(ops) /\ x \in Ids(ops)
  BY <1>1 DEF Working, Top
<1>5. tasks' = tasks /\ opsToFuse' = opsToFuse
  BY DEF SkipAlloc
<1>6. ToSet(Tail(rest)) \subseteq Ids(ops) \ {x}
  <2>1. ToSet(Tail(rest)) \subseteq Ids(ops)
    BY <1>1 DEF Top, ToSet
  <2> QED
    BY <1>1, <1>4, <2>1, BlockOrder
<1> HIDE DEF x
<1>7. ToSet(opsToFuse) \subseteq Ids(ops) \ {x}
  <2>1. ToSet(opsToFuse) \subseteq Working(ops)
    BY DEF PartitionState, ToSet
  <2> QED
    BY <1>4, <2>1
<1>8. \A t \in DOMAIN tasks : ToSet(tasks[t]) \subseteq Ids(ops) \ {x}
  <2>1. \A t \in DOMAIN tasks : tasks[t] \in Seq(Working(ops))
    BY DEF PartitionState, AreTasks
  <2>2. \A t \in DOMAIN tasks : ToSet(tasks[t]) \subseteq Working(ops)
    BY <2>1 DEF ToSet
  <2> QED
    BY <1>4, <2>2
<1>9. Elements(tasks) \subseteq Ids(ops) \ {x}
  BY <1>8 DEF Elements
<1>10. \A s, T : s \in Seq(T) => \A i \in DOMAIN s : s[i] \in ToSet(s)
  BY DEF ToSet
<1>11. ASSUME NEW s, ToSet(s) \subseteq Ids(ops) \ {x}, Increasing(ops, s)
       PROVE  Increasing(ops', s)
  <2>1. \A i \in DOMAIN s : s[i] \in ToSet(s)
    BY DEF ToSet
  <2> QED
    BY <1>2, <1>11, <2>1 DEF Increasing
<1>12. ASSUME NEW S, NEW T, S \subseteq Ids(ops) \ {x}, T \subseteq Ids(ops) \ {x}, AllBefore(ops, S, T)
       PROVE  AllBefore(ops', S, T)
  BY <1>2, <1>12 DEF AllBefore
<1>13. AreTasks(ops', tasks)
  BY <1>3, <1>8, <1>11, <1>12 DEF AreTasks, PartitionState
<1>14. Increasing(ops', opsToFuse) /\ Increasing(ops', Tail(rest))
  BY <1>1, <1>6, <1>7, <1>11 DEF PartitionState
<1>15. AllBefore(ops, Elements(tasks), ToSet(opsToFuse) \cup ToSet(Tail(rest))) /\ AllBefore(ops, ToSet(opsToFuse), ToSet(Tail(rest)))
  BY <1>1 DEF AllBefore, PartitionState
<1>16. AllBefore(ops', Elements(tasks), ToSet(opsToFuse) \cup ToSet(Tail(rest))) /\ AllBefore(ops', ToSet(opsToFuse), ToSet(Tail(rest)))
  BY <1>6, <1>7, <1>9, <1>12, <1>15
<1>17. Working(ops') \subseteq Elements(tasks) \cup ToSet(opsToFuse) \cup ToSet(Tail(rest))
  BY <1>1, <1>3, <1>4 DEF PartitionState
<1>18. Tail(rest) \in Seq(Top(ops')) /\ opsToFuse \in Seq(Working(ops'))
  BY <1>1, <1>3 DEF PartitionState
<1> QED
  BY <1>2, <1>5, <1>13, <1>14, <1>16, <1>17, <1>18 DEF PartitionState

\* Each step of the partition keeps the operations in order.
LEMMA PartitionKeeps ==
    ASSUME IsBlock(ops), PartitionState, Partition
    PROVE  IsBlock(ops') /\ PartitionState'
<1>1. rest # << >> /\ rest' = Tail(rest)
  BY DEF Partition
<1>2. CASE OpOf(ops, Head(rest)).kind = "alloc"
  <2>1. SkipAlloc(Head(rest))
    BY <1>2 DEF Partition
  <2> QED
    BY <1>1, <1>2, <2>1, SkipAllocKeeps
<1>3. CASE OpOf(ops, Head(rest)).kind # "alloc"
  <2>1. FuseWithLoop(Head(rest)) \/ Collect(Head(rest))
    BY <1>3 DEF Partition
  <2> QED
    BY <1>1, <1>3, <2>1, FuseOrCollect
<1> QED
  BY <1>2, <1>3

\* In the end the operations behind the last loop are a task, when there is another.
LEMMA TerminatorKeeps ==
    ASSUME IsBlock(ops), PartitionState, Terminator
    PROVE  /\ IsBlock(ops') /\ stage' \in {"inlined", "stream"}
           /\ stage' = "stream" => AreTasks(ops', tasks') /\ Working(ops') \subseteq Elements(tasks')
<1>1. ops' = ops /\ rest = << >> /\ tasks' = FuseRest /\ stage' = IF tasks' = << >> THEN "inlined" ELSE "stream"
  BY DEF Terminator, forwardVars
<1>2. SUFFICES ASSUME tasks' # << >>
               PROVE  AreTasks(ops, tasks') /\ Working(ops) \subseteq Elements(tasks')
  BY <1>1
<1>3. ToSet(<< >>) = {}
  BY DEF ToSet
<1>4. Working(ops) \subseteq Elements(tasks) \cup ToSet(opsToFuse)
  BY <1>1, <1>3 DEF PartitionState
<1>5. CASE opsToFuse = << >> \/ tasks = << >>
  <2>1. tasks' = tasks /\ opsToFuse = << >>
    BY <1>1, <1>2, <1>5 DEF FuseRest
  <2> QED
    BY <1>3, <1>4, <2>1 DEF PartitionState
<1>6. CASE opsToFuse # << >> /\ tasks # << >>
  <2>1. tasks' = Append(tasks, opsToFuse)
    BY <1>1, <1>6 DEF FuseRest
  <2>2. AllBefore(ops, Elements(tasks), ToSet(opsToFuse))
    BY DEF PartitionState, AllBefore
  <2>3. AreTasks(ops, Append(tasks, opsToFuse)) /\ Elements(Append(tasks, opsToFuse)) = Elements(tasks) \cup ToSet(opsToFuse)
    BY <1>6, <2>2, OneMoreTask DEF PartitionState
  <2> QED
    BY <1>4, <2>1, <2>3
<1> QED
  BY <1>5, <1>6

-----------------------------------------------------------------------------
(* Operations in front of those of a block *)

\* Two lists one behind the other.
LEMMA Joined ==
    ASSUME NEW T, NEW o \in Seq(T), NEW m \in Seq(T)
    PROVE  /\ o \o m \in Seq(T) /\ Len(o \o m) = Len(o) + Len(m) /\ DOMAIN (o \o m) = 1..(Len(o) + Len(m))
           /\ \A k \in 1..Len(o) : (o \o m)[k] = o[k]
           /\ \A k \in 1..Len(m) : (o \o m)[Len(o) + k] = m[k]
<1>1. o \o m \in Seq(T) /\ Len(o \o m) = Len(o) + Len(m) /\ DOMAIN (o \o m) = 1..(Len(o) + Len(m))
  OBVIOUS
<1>2. \A k \in 1..Len(o) : (o \o m)[k] = o[k]
  OBVIOUS
<1>3. \A k \in 1..Len(m) : (o \o m)[Len(o) + k] = m[k]
  OBVIOUS
<1> QED
  BY <1>1, <1>2, <1>3

\* What may come in front of the operations of a block, and what may take their place.
MayPreface(b, pre, c) ==
    /\ \A i \in 1..Len(b) :
          /\ IsOperation(c[i]) /\ c[i].id = b[i].id /\ c[i].kind = b[i].kind
          /\ BlockOf(c[i]) = BlockOf(b[i])
          /\ pre[i] # << >> => b[i].parent = 0
          /\ \A x \in ToSet(c[i].args) : x > 0 =>
                \/ x \in ToSet(b[i].args)
                \/ \E k \in 1..i : \E j \in 1..Len(pre[k]) : pre[k][j].id = x
    /\ \A i \in 1..Len(b) : \A j \in 1..Len(pre[i]) :
          /\ IsOperation(pre[i][j]) /\ pre[i][j].kind = "read" /\ pre[i][j].parent = 0
          /\ pre[i][j].id \notin Ids(b)
          /\ \A x \in ToSet(pre[i][j].args) : x > 0 =>
                \E k \in 1..(i - 1) : b[k].id = x /\ HasResult(b[k]) /\ b[k].parent = 0
    /\ \A i, k \in 1..Len(b) : \A j \in 1..Len(pre[i]), l \in 1..Len(pre[k]) :
          pre[i][j].id = pre[k][l].id => i = k /\ j = l

Prefaced(b, pre, c) == FlattenSeq([i \in 1..Len(b) |-> pre[i] \o <<c[i]>>])

\* The block n has the operations c and those in front of them, in that order.
IsPrefaced(n, b, pre, c) ==
    /\ IsBlock(n)
    /\ Ids(b) \subseteq Ids(n)
    /\ \A x \in Ids(n) \ Ids(b) : \E i \in 1..Len(b) : \E j \in 1..Len(pre[i]) : x = pre[i][j].id
    /\ \A i \in 1..Len(b) : \A j \in 1..Len(pre[i]) : pre[i][j].id \in Ids(n)
    /\ \A i \in 1..Len(b) : OpOf(n, b[i].id) = c[i]
    /\ \A i \in 1..Len(b) : \A j \in 1..Len(pre[i]) : OpOf(n, pre[i][j].id) = pre[i][j]
    /\ \A i, k \in 1..Len(b) :
          /\ Before(n, b[i].id, b[k].id) <=> i < k
          /\ \A j \in 1..Len(pre[i]) :
                /\ Before(n, pre[i][j].id, b[k].id) <=> i <= k
                /\ Before(n, b[k].id, pre[i][j].id) <=> k < i
                /\ \A l \in 1..Len(pre[k]) :
                      Before(n, pre[i][j].id, pre[k][l].id) <=> i < k \/ (i = k /\ j < l)

\* What comes of it is such a block.
LEMMA PrefacedBlock ==
    ASSUME NEW b, IsBlock(b), NEW T, NEW pre \in [1..Len(b) -> Seq(T)],
           NEW c \in [1..Len(b) -> T], MayPreface(b, pre, c)
    PROVE  IsPrefaced(Prefaced(b, pre, c), b, pre, c)
<1> DEFINE ss == [i \in 1..Len(b) |-> pre[i] \o <<c[i]>>]
           n == FlattenSeq(ss)
           N(i) == Len(pre[i])
           End(i) == <<i, N(i) + 1>>
           Rd(i, j) == <<i, j>>
<1>1. DOMAIN b = 1..Len(b) /\ Len(b) \in Nat /\ \A i \in 1..Len(b) : b[i].id \in Ids(b)
  BY BlockFacts
<1>2. \A i \in 1..Len(b) : N(i) \in Nat
  OBVIOUS
<1>3. ASSUME NEW i \in 1..Len(b)
      PROVE  /\ ss[i] \in Seq(T) /\ Len(ss[i]) = N(i) + 1 /\ ss[i][N(i) + 1] = c[i]
             /\ \A j \in 1..N(i) : ss[i][j] = pre[i][j]
  <2> DEFINE o == pre[i]
             m == <<c[i]>>
  <2>1. o \in Seq(T) /\ m \in Seq(T) /\ Len(m) = 1 /\ m[1] = c[i] /\ ss[i] = o \o m
    OBVIOUS
  <2> HIDE DEF o, m, ss
  <2>2. o \o m \in Seq(T) /\ Len(o \o m) = Len(o) + Len(m)
    BY <2>1, Joined
  <2>3. \A k \in 1..Len(o) : (o \o m)[k] = o[k]
    BY <2>1, Joined
  <2>4. o \in Seq(T) /\ m \in Seq(T)
    BY <2>1
  <2>5. \A k \in 1..Len(m) : (o \o m)[Len(o) + k] = m[k]
    BY ONLY <2>4, Joined
  <2>6. 1 \in 1..Len(m)
    BY <2>1
  <2>7. (o \o m)[Len(o) + 1] = m[1]
    BY <2>5, <2>6
  <2>8. (o \o m)[Len(o) + 1] = c[i]
    BY <2>1, <2>7
  <2> QED
    BY <2>1, <2>2, <2>3, <2>8 DEF o
<1>4. ss \in Seq(Seq(T)) /\ Len(ss) = Len(b)
  <2>1. ss = [i \in 1..Len(b) |-> ss[i]]
    OBVIOUS
  <2> HIDE DEF ss
  <2> QED
    BY <1>1, <1>3, <2>1
<1> HIDE DEF ss, N
\* The places: the end of each part, and the places in front of it.
<1>5. ASSUME NEW i \in 1..Len(b) PROVE End(i) \in Place(ss) /\ OpAt(ss, End(i)) = c[i]
  <2> DEFINE q == End(i)
  <2>1. q[1] = i /\ q[2] = N(i) + 1 /\ q \in (1..Len(ss)) \X (Nat \ {0})
    BY <1>2, <1>4
  <2>2. ss[i][N(i) + 1] = c[i] /\ Len(ss[i]) = N(i) + 1 /\ N(i) \in Nat
    BY <1>2, <1>3
  <2> HIDE DEF q, End
  <2>3. q \in Place(ss) /\ OpAt(ss, q) = c[i]
    BY <2>1, <2>2 DEF Place, OpAt
  <2> QED
    BY <2>3 DEF q
<1>6. ASSUME NEW i \in 1..Len(b), NEW j \in 1..N(i) PROVE Rd(i, j) \in Place(ss) /\ OpAt(ss, Rd(i, j)) = pre[i][j]
  <2> DEFINE q == Rd(i, j)
  <2>1. q[1] = i /\ q[2] = j /\ q \in (1..Len(ss)) \X (Nat \ {0})
    BY <1>2, <1>4
  <2>2. ss[i][j] = pre[i][j] /\ Len(ss[i]) = N(i) + 1 /\ N(i) \in Nat /\ j <= N(i) + 1
    BY <1>2, <1>3
  <2> HIDE DEF q, Rd
  <2>3. q \in Place(ss) /\ OpAt(ss, q) = pre[i][j]
    BY <2>1, <2>2 DEF Place, OpAt
  <2> QED
    BY <2>3 DEF q
<1>7. ASSUME NEW q \in Place(ss)
      PROVE  /\ q[1] \in 1..Len(b) /\ q[1] \in Nat /\ q[2] \in Nat
             /\ q = End(q[1]) \/ (q[2] \in 1..N(q[1]) /\ q = Rd(q[1], q[2]))
  <2>1. q[1] \in 1..Len(b) /\ q[2] \in Nat \ {0} /\ q[2] <= Len(ss[q[1]]) /\ q = <<q[1], q[2]>>
    BY <1>4 DEF Place
  <2>2. Len(ss[q[1]]) = N(q[1]) + 1 /\ N(q[1]) \in Nat
    BY <1>2, <1>3, <2>1
  <2>3. q[2] = N(q[1]) + 1 \/ q[2] \in 1..N(q[1])
    BY <2>1, <2>2
  <2> QED
    BY <2>1, <2>3
<1>8. ASSUME NEW i \in 1..Len(b), NEW k \in 1..Len(b)
      PROVE  /\ Earlier(End(i), End(k)) <=> i < k
             /\ \A j \in 1..N(i) : /\ Earlier(Rd(i, j), End(k)) <=> i <= k
                                   /\ Earlier(End(k), Rd(i, j)) <=> k < i
                                   /\ \A l \in 1..N(k) : Earlier(Rd(i, j), Rd(k, l)) <=> i < k \/ (i = k /\ j < l)
  BY <1>1, <1>2 DEF Earlier
<1>9. \A i \in 1..Len(b) : End(i)[1] = i /\ \A j \in 1..N(i) : Rd(i, j)[1] = i /\ Rd(i, j)[2] = j
  OBVIOUS
<1> HIDE DEF End, Rd
<1>10. \A i \in 1..Len(b) :
          /\ IsOperation(c[i]) /\ c[i].id = b[i].id /\ c[i].kind = b[i].kind
          /\ c[i].parent = b[i].parent /\ c[i].branch = b[i].branch
          /\ pre[i] # << >> => b[i].parent = 0
          /\ HasResult(b[i]) => HasResult(c[i])
  BY DEF MayPreface, BlockOf, HasResult
<1>11. \A i \in 1..Len(b) : \A j \in 1..N(i) :
          IsOperation(pre[i][j]) /\ pre[i][j].kind = "read" /\ pre[i][j].parent = 0 /\ pre[i][j].id \notin Ids(b)
          /\ HasResult(pre[i][j]) /\ b[i].parent = 0
  <2>1. \A i \in 1..Len(b) : \A j \in 1..N(i) : pre[i] # << >>
    BY DEF N
  <2> QED
    BY <1>10, <2>1 DEF MayPreface, HasResult, N
<1>12. \A i \in 1..Len(b) : \A j \in 1..N(i) : \A x \in ToSet(pre[i][j].args) : x > 0 =>
          \E k \in 1..(i - 1) : b[k].id = x /\ HasResult(b[k]) /\ b[k].parent = 0
  BY DEF MayPreface, N
<1>13. \A i, k \in 1..Len(b) : \A j \in 1..N(i), l \in 1..N(k) :
          pre[i][j].id = pre[k][l].id => i = k /\ j = l
  BY DEF MayPreface, N
<1>14. \A q \in Place(ss) : IsOperation(OpAt(ss, q))
  <2>1. SUFFICES ASSUME NEW q \in Place(ss) PROVE IsOperation(OpAt(ss, q))
    OBVIOUS
  <2>2. CASE q = End(q[1])
    BY <1>5, <1>7, <1>10, <2>2
  <2>3. CASE q[2] \in 1..N(q[1]) /\ q = Rd(q[1], q[2])
    <3>1. OpAt(ss, q) = pre[q[1]][q[2]] /\ q[1] \in 1..Len(b)
      BY <1>6, <1>7, <2>3
    <3> QED
      BY <1>11, <2>3, <3>1
  <2> QED
    BY <1>7, <2>2, <2>3
<1>15. ASSUME NEW q \in Place(ss), NEW r \in Place(ss), OpAt(ss, q).id = OpAt(ss, r).id PROVE q = r
  <2>1. CASE q = End(q[1]) /\ r = End(r[1])
    <3>1. b[q[1]].id = b[r[1]].id /\ q[1] \in DOMAIN b /\ r[1] \in DOMAIN b
      BY <1>1, <1>5, <1>7, <1>10, <1>15, <2>1
    <3>2. q[1] = r[1]
      BY <3>1 DEF IsBlock
    <3> QED
      BY <2>1, <3>2
  <2>2. ASSUME NEW s \in Place(ss), NEW t \in Place(ss), s = End(s[1]), t[2] \in 1..N(t[1]), t = Rd(t[1], t[2])
        PROVE  OpAt(ss, s).id # OpAt(ss, t).id
    <3>1. OpAt(ss, s).id = b[s[1]].id
      BY <1>5, <1>7, <1>10, <2>2
    <3>2. OpAt(ss, t) = pre[t[1]][t[2]] /\ t[1] \in 1..Len(b)
      BY <1>6, <1>7, <2>2
    <3>3. OpAt(ss, t).id \notin Ids(b)
      BY <1>11, <2>2, <3>2
    <3> QED
      BY <1>1, <1>7, <3>1, <3>3
  <2>3. CASE q[2] \in 1..N(q[1]) /\ q = Rd(q[1], q[2]) /\ r[2] \in 1..N(r[1]) /\ r = Rd(r[1], r[2])
    <3>1. OpAt(ss, q) = pre[q[1]][q[2]] /\ OpAt(ss, r) = pre[r[1]][r[2]]
      BY <1>6, <1>7, <2>3
    <3>2. pre[q[1]][q[2]].id = pre[r[1]][r[2]].id
      BY <1>15, <3>1
    <3>3. q[1] \in 1..Len(b) /\ r[1] \in 1..Len(b)
      BY <1>7
    <3> DEFINE i == q[1]
               j == q[2]
               k == r[1]
               l == r[2]
    <3>4. /\ i \in 1..Len(b) /\ k \in 1..Len(b) /\ j \in 1..N(i) /\ l \in 1..N(k)
          /\ pre[i][j].id = pre[k][l].id
      BY <2>3, <3>2, <3>3
    <3>5. i = k /\ j = l
      <4> HIDE DEF i, j, k, l
      <4> QED
        BY ONLY <1>13, <3>4
    <3> QED
      BY <2>3, <3>5
  <2> QED
    BY <1>7, <1>15, <2>1, <2>2, <2>3
<1>16. ASSUME NEW q \in Place(ss), OpAt(ss, q).parent # 0
       PROVE  \E r \in Place(ss) :
              /\ Earlier(r, q) /\ OpAt(ss, r).id = OpAt(ss, q).parent /\ OpAt(ss, r).kind = "if"
              /\ \A t \in Place(ss) : Earlier(r, t) /\ Earlier(t, q) =>
                    OpAt(ss, t).parent = OpAt(ss, q).parent
  <2> DEFINE i == q[1]
  <2>1. /\ q = End(i) /\ OpAt(ss, q) = c[i] /\ i \in 1..Len(b) /\ i \in Nat
        /\ b[i].parent # 0 /\ c[i].parent = b[i].parent
    <3>1. i \in 1..Len(b) /\ i \in Nat
      BY <1>7
    <3>2. ~(q[2] \in 1..N(i) /\ q = Rd(i, q[2]))
      <4> SUFFICES ASSUME q[2] \in 1..N(i), q = Rd(i, q[2]) PROVE FALSE
        OBVIOUS
      <4> HIDE DEF i
      <4>1. OpAt(ss, q) = pre[i][q[2]]
        BY <1>6, <3>1
      <4>2. pre[i][q[2]].parent = 0
        BY <1>11, <3>1
      <4> QED
        BY <1>16, <4>1, <4>2
    <3>3. q = End(i)
      BY <1>7, <3>2
    <3> HIDE DEF i
    <3>4. OpAt(ss, q) = c[i] /\ c[i].parent = b[i].parent
      BY <1>5, <1>10, <3>1, <3>3
    <3> QED
      BY <1>16, <3>1, <3>3, <3>4
  <2> HIDE DEF i
  <2>2. PICK h \in 1..(i - 1) : /\ b[h].id = b[i].parent /\ b[h].kind = "if"
                                /\ \A k \in (h + 1)..(i - 1) : b[k].parent = b[i].parent
    BY <1>1, <2>1 DEF IsBlock
  <2>3. h \in 1..Len(b) /\ h < i /\ h \in Nat
    BY <1>1, <2>1, <2>2
  <2>4. End(h) \in Place(ss) /\ OpAt(ss, End(h)).id = b[i].parent /\ OpAt(ss, End(h)).kind = "if" /\ Earlier(End(h), q)
    BY <1>5, <1>8, <1>10, <2>1, <2>2, <2>3
  <2>5. ASSUME NEW t \in Place(ss), Earlier(End(h), t), Earlier(t, q) PROVE OpAt(ss, t).parent = b[i].parent
    <3> DEFINE k == t[1]
    <3>1. k \in 1..Len(b) /\ k \in Nat
      BY <1>7
    <3>2. CASE t = End(k)
      <4> HIDE DEF k
      <4>1. h < k /\ k < i
        BY <1>8, <2>1, <2>3, <2>5, <3>1, <3>2
      <4>2. k \in (h + 1)..(i - 1)
        BY <2>1, <2>3, <3>1, <4>1
      <4>3. b[k].parent = b[i].parent
        BY <2>2, <4>2
      <4> QED
        BY <1>5, <1>10, <3>1, <3>2, <4>3
    <3>3. CASE t[2] \in 1..N(k) /\ t = Rd(k, t[2])
      <4>1. h < k /\ k <= i /\ b[k].parent = 0
        BY <1>8, <1>11, <2>1, <2>3, <2>5, <3>1, <3>3
      <4>2. k # i => k \in (h + 1)..(i - 1)
        BY <2>1, <2>3, <3>1, <4>1
      <4>3. k = i \/ b[k].parent = b[i].parent
        BY <2>2, <4>2
      <4> QED
        BY <2>1, <4>1, <4>3
    <3> QED
      BY <1>7, <3>2, <3>3
  <2> QED
    BY <2>1, <2>4, <2>5
<1>17. ASSUME NEW q \in Place(ss), NEW x \in ToSet(OpAt(ss, q).args), x > 0
       PROVE  \E r \in Place(ss) :
              /\ Earlier(r, q) /\ OpAt(ss, r).id = x /\ HasResult(OpAt(ss, r))
              /\ OpAt(ss, r).parent = 0 \/ BlockOf(OpAt(ss, r)) = BlockOf(OpAt(ss, q))
  <2> DEFINE i == q[1]
  <2>1. i \in 1..Len(b) /\ i \in Nat
    BY <1>7
  <2>2. CASE q = End(i)
    <3> HIDE DEF i
    <3>1. OpAt(ss, q) = c[i] /\ BlockOf(c[i]) = BlockOf(b[i])
      BY <1>5, <1>10, <2>1, <2>2 DEF BlockOf
    <3>2. CASE x \in ToSet(b[i].args)
      <4>1. PICK k \in 1..(i - 1) : /\ b[k].id = x /\ HasResult(b[k])
                                    /\ b[k].parent = 0 \/ BlockOf(b[k]) = BlockOf(b[i])
        BY <1>1, <1>17, <2>1, <3>2 DEF IsBlock
      <4>2. k \in 1..Len(b) /\ k < i
        BY <1>1, <2>1, <4>1
      <4>3. /\ End(k) \in Place(ss) /\ OpAt(ss, End(k)) = c[k] /\ Earlier(End(k), q)
            /\ c[k].id = x /\ HasResult(c[k]) /\ c[k].parent = b[k].parent /\ BlockOf(c[k]) = BlockOf(b[k])
        BY <1>5, <1>8, <1>10, <2>1, <2>2, <4>1, <4>2 DEF BlockOf
      <4> QED
        BY <3>1, <4>1, <4>3
    <3>3. CASE \E k \in 1..i : \E j \in 1..Len(pre[k]) : pre[k][j].id = x
      <4>0. PICK k \in 1..i : \E j \in 1..Len(pre[k]) : pre[k][j].id = x
        BY <3>3
      <4>1. PICK j \in 1..Len(pre[k]) : pre[k][j].id = x
        BY <4>0
      <4>2. k \in 1..Len(b) /\ k <= i /\ j \in 1..N(k)
        BY <1>1, <2>1, <4>1 DEF N
      <4>3. /\ Rd(k, j) \in Place(ss) /\ OpAt(ss, Rd(k, j)) = pre[k][j] /\ Earlier(Rd(k, j), q)
            /\ HasResult(pre[k][j]) /\ pre[k][j].parent = 0
        BY <1>6, <1>8, <1>11, <2>1, <2>2, <4>1, <4>2
      <4> QED
        BY <4>1, <4>3
    <3>4. x \in ToSet(b[i].args) \/ \E k \in 1..i : \E j \in 1..Len(pre[k]) : pre[k][j].id = x
      BY <1>17, <2>1, <3>1 DEF MayPreface
    <3> QED
      BY <3>2, <3>3, <3>4
  <2>3. CASE q[2] \in 1..N(i) /\ q = Rd(i, q[2])
    <3> DEFINE j == q[2]
    <3>1. OpAt(ss, q) = pre[i][j] /\ j \in 1..Len(pre[i])
      BY <1>6, <2>1, <2>3 DEF N
    <3>2. PICK k \in 1..(i - 1) : b[k].id = x /\ HasResult(b[k]) /\ b[k].parent = 0
      BY <1>17, <1>12, <2>1, <2>3, <3>1
    <3>3. k \in 1..Len(b) /\ k < i
      BY <1>1, <2>1, <3>2
    <3>4. /\ End(k) \in Place(ss) /\ OpAt(ss, End(k)) = c[k] /\ Earlier(End(k), q)
          /\ c[k].id = x /\ HasResult(c[k]) /\ c[k].parent = 0
      BY <1>5, <1>8, <1>10, <2>1, <2>3, <3>2, <3>3
    <3> QED
      BY <3>4
  <2> QED
    BY <1>7, <2>2, <2>3
<1>18. IsFlatBlock(ss)
  BY <1>14, <1>15, <1>16, <1>17 DEF IsFlatBlock
<1>19. IsBlock(n)
  BY <1>4, <1>18, FlatBlock
<1>20. /\ Ids(n) = {OpAt(ss, q).id : q \in Place(ss)}
       /\ \A q \in Place(ss) : OpOf(n, OpAt(ss, q).id) = OpAt(ss, q)
       /\ \A q, r \in Place(ss) : Before(n, OpAt(ss, q).id, OpAt(ss, r).id) <=> Earlier(q, r)
  BY <1>4, <1>18, FlatView
<1> HIDE DEF n
<1>21. \A i \in 1..Len(b) : /\ End(i) \in Place(ss) /\ OpAt(ss, End(i)) = c[i] /\ c[i].id = b[i].id
                            /\ \A j \in 1..N(i) : Rd(i, j) \in Place(ss) /\ OpAt(ss, Rd(i, j)) = pre[i][j]
  BY <1>5, <1>6, <1>10
<1>22. \A i \in 1..Len(b) : OpOf(n, b[i].id) = c[i] /\ \A j \in 1..N(i) : OpOf(n, pre[i][j].id) = pre[i][j]
  BY <1>20, <1>21
<1>23. ASSUME NEW i \in 1..Len(b), NEW k \in 1..Len(b)
       PROVE  /\ Before(n, b[i].id, b[k].id) <=> i < k
              /\ \A j \in 1..N(i) :
                    /\ Before(n, pre[i][j].id, b[k].id) <=> i <= k
                    /\ Before(n, b[k].id, pre[i][j].id) <=> k < i
                    /\ \A l \in 1..N(k) :
                          Before(n, pre[i][j].id, pre[k][l].id) <=> i < k \/ (i = k /\ j < l)
  BY <1>8, <1>20, <1>21
<1>24. ASSUME NEW x \in Ids(n) \ Ids(b) PROVE \E i \in 1..Len(b) : \E j \in 1..N(i) : x = pre[i][j].id
  <2>1. PICK q \in Place(ss) : x = OpAt(ss, q).id
    BY <1>20
  <2>2. CASE q = End(q[1])
    <3>1. OpAt(ss, q).id = b[q[1]].id /\ b[q[1]].id \in Ids(b)
      BY <1>1, <1>7, <1>21, <2>2
    <3> QED
      BY <2>1, <3>1
  <2>3. CASE q[2] \in 1..N(q[1]) /\ q = Rd(q[1], q[2])
    <3>1. q[1] \in 1..Len(b) /\ OpAt(ss, q) = pre[q[1]][q[2]]
      BY <1>7, <1>21, <2>3
    <3> QED
      BY <2>1, <2>3, <3>1
  <2> QED
    BY <1>7, <2>2, <2>3
<1>25. Ids(b) \subseteq Ids(n)
  <2>1. ASSUME NEW x \in Ids(b) PROVE x \in Ids(n)
    <3>1. PICK i \in 1..Len(b) : x = b[i].id
      BY <1>1 DEF Ids
    <3> QED
      BY <1>20, <1>21, <3>1
  <2> QED
    BY <2>1
<1>26. \A i \in 1..Len(b) : \A j \in 1..N(i) : pre[i][j].id \in Ids(n)
  BY <1>20, <1>21
<1>27. n = Prefaced(b, pre, c)
  BY DEF n, ss, Prefaced
<1> HIDE DEF n
<1> QED
  BY <1>19, <1>22, <1>23, <1>24, <1>25, <1>26, <1>27 DEF N, IsPrefaced

-----------------------------------------------------------------------------
(* The tasks and what is in them *)

TasksState ==
    /\ AreTasks(ops, tasks) /\ Working(ops) \subseteq Elements(tasks)
    /\ streamed \subseteq DOMAIN tasks

\* An operation is in at most one task, and none of a task comes before its first.
LEMMA InTasks ==
    ASSUME IsBlock(ops), TasksState
    PROVE  /\ DOMAIN tasks = 1..Len(tasks) /\ Len(tasks) \in Nat
           /\ \A t \in DOMAIN tasks : \A x \in ToSet(tasks[t]) :
                 x \in Ids(ops) /\ OpOf(ops, x).parent = 0 /\ x \in Members(t)
           /\ \A t \in DOMAIN tasks : \A x \in Members(t) :
                 /\ x \in Ids(ops)
                 /\ \/ x \in ToSet(tasks[t]) /\ OpOf(ops, x).parent = 0
                    \/ OpOf(ops, x).parent # 0 /\ OpOf(ops, x).parent \in ToSet(tasks[t])
           /\ \A t, u \in DOMAIN tasks : \A x : x \in Members(t) /\ x \in Members(u) => t = u
           /\ \A t \in DOMAIN tasks :
                 /\ Head(tasks[t]) \in ToSet(tasks[t])
                 /\ \A x \in Members(t) : x = Head(tasks[t]) \/ Before(ops, Head(tasks[t]), x)
           /\ \A x \in Ids(ops) : ToSet(OpOf(ops, x).args) # {} => \E t \in DOMAIN tasks : x \in Members(t)
<1>1. /\ tasks \in Seq(Seq(Working(ops)))
      /\ \A t \in DOMAIN tasks : tasks[t] # << >> /\ Increasing(ops, tasks[t])
      /\ \A t, u \in DOMAIN tasks : t < u => AllBefore(ops, ToSet(tasks[t]), ToSet(tasks[u]))
  BY DEF TasksState, AreTasks
<1>2. DOMAIN tasks = 1..Len(tasks) /\ Len(tasks) \in Nat /\ \A t \in DOMAIN tasks : tasks[t] \in Seq(Working(ops))
  BY <1>1
<1>3. \A t \in DOMAIN tasks : \A x \in ToSet(tasks[t]) :
         x \in Working(ops) /\ x \in Ids(ops) /\ OpOf(ops, x).parent = 0 /\ x \in Members(t)
  <2>1. \A t \in DOMAIN tasks : \A x \in ToSet(tasks[t]) : x \in Working(ops)
    BY <1>2 DEF ToSet
  <2> QED
    BY <2>1 DEF Working, Top, Members
<1>4. 0 \notin Ids(ops)
  BY BlockOps
<1>5. ASSUME NEW t \in DOMAIN tasks, NEW x \in Members(t)
      PROVE  /\ x \in Ids(ops)
             /\ \/ x \in ToSet(tasks[t]) /\ OpOf(ops, x).parent = 0
                \/ OpOf(ops, x).parent # 0 /\ OpOf(ops, x).parent \in ToSet(tasks[t])
  <2>1. x \in ToSet(tasks[t]) \/ (x \in Ids(ops) /\ OpOf(ops, x).parent \in ToSet(tasks[t]))
    BY DEF Members
  <2> QED
    BY <1>3, <1>4, <2>1
<1>6. ASSUME NEW t \in DOMAIN tasks, NEW u \in DOMAIN tasks, NEW x, x \in ToSet(tasks[t]), x \in ToSet(tasks[u])
      PROVE  t = u
  <2>1. ~Before(ops, x, x)
    BY <1>3, <1>6, BlockOrder
  <2>2. ~(t < u)
    BY <1>1, <1>6, <2>1 DEF AllBefore
  <2>3. ~(u < t)
    BY <1>1, <1>6, <2>1 DEF AllBefore
  <2> QED
    BY <1>2, <2>2, <2>3
<1>7. ASSUME NEW t \in DOMAIN tasks, NEW u \in DOMAIN tasks, NEW x, x \in Members(t), x \in Members(u)
      PROVE  t = u
  BY <1>5, <1>6, <1>7
<1>8. ASSUME NEW t \in DOMAIN tasks
      PROVE  /\ Head(tasks[t]) \in ToSet(tasks[t])
             /\ \A x \in Members(t) : x = Head(tasks[t]) \/ Before(ops, Head(tasks[t]), x)
  <2> DEFINE h == Head(tasks[t])
  <2>1. tasks[t] \in Seq(Working(ops)) /\ tasks[t] # << >> /\ Increasing(ops, tasks[t])
    BY <1>1, <1>2
  <2>2. /\ ToSet(tasks[t]) = {h} \cup ToSet(Tail(tasks[t]))
        /\ \A y \in ToSet(Tail(tasks[t])) : Before(ops, h, y)
    BY <2>1, HeadAndTail
  <2> HIDE DEF h
  <2>3. \A x \in ToSet(tasks[t]) : x = h \/ Before(ops, h, x)
    BY <2>2
  <2>4. ASSUME NEW x \in Members(t), OpOf(ops, x).parent # 0 PROVE Before(ops, h, x)
    <3>1. x \in Ids(ops) /\ OpOf(ops, x).parent \in ToSet(tasks[t])
      BY <1>5, <2>4
    <3>2. OpOf(ops, x).parent \in Ids(ops) /\ h \in Ids(ops)
      BY <1>3, <2>2, <3>1
    <3>3. Before(ops, OpOf(ops, x).parent, x)
      BY <2>4, <3>1, BlockParents
    <3>4. OpOf(ops, x).parent = h \/ Before(ops, h, OpOf(ops, x).parent)
      BY <2>3, <3>1
    <3> QED
      BY <3>1, <3>2, <3>3, <3>4, BlockOrder
  <2>5. \A x \in Members(t) : x = h \/ Before(ops, h, x)
    BY <1>5, <2>3, <2>4
  <2> QED
    BY <2>2, <2>5 DEF h
<1>9. ASSUME NEW x \in Ids(ops), ToSet(OpOf(ops, x).args) # {} PROVE \E t \in DOMAIN tasks : x \in Members(t)
  <2>1. IsOperation(OpOf(ops, x))
    BY BlockOps
  <2>2. OpOf(ops, x).kind # "alloc"
    <3>1. ToSet(<< >>) = {}
      BY DEF ToSet
    <3> QED
      BY <1>9, <2>1, <3>1 DEF IsOperation
  <2>3. \A y \in Working(ops) : \E t \in DOMAIN tasks : y \in ToSet(tasks[t])
    BY DEF TasksState, Elements
  <2>4. CASE OpOf(ops, x).parent = 0
    <3>1. x \in Working(ops)
      BY <2>2, <2>4 DEF Working, Top
    <3> QED
      BY <1>3, <2>3, <3>1
  <2>5. CASE OpOf(ops, x).parent # 0
    <3>1. OpOf(ops, x).parent \in Working(ops)
      BY <2>5, BlockParents DEF Working, Top
    <3> QED
      BY <2>3, <3>1 DEF Members
  <2> QED
    BY <2>4, <2>5
<1> QED
  BY <1>2, <1>3, <1>5, <1>7, <1>8, <1>9

\* A task that uses a result of another one comes behind it.
LEMMA UsedLater ==
    ASSUME IsBlock(ops), TasksState, NEW t \in DOMAIN tasks, NEW u \in DOMAIN tasks, t # u,
           NEW x \in ToSet(tasks[t]), NEW y \in Members(u), x \in ToSet(OpOf(ops, y).args)
    PROVE  HasResult(OpOf(ops, x)) /\ Before(ops, x, Head(tasks[u]))
<1>1. /\ x \in Ids(ops) /\ OpOf(ops, x).parent = 0 /\ y \in Ids(ops)
      /\ \/ y \in ToSet(tasks[u]) /\ OpOf(ops, y).parent = 0
         \/ OpOf(ops, y).parent # 0 /\ OpOf(ops, y).parent \in ToSet(tasks[u])
      /\ DOMAIN tasks = 1..Len(tasks)
      /\ Head(tasks[u]) \in ToSet(tasks[u])
      /\ \A z \in ToSet(tasks[u]) : z \in Ids(ops)
  BY InTasks
<1>2. x > 0
  BY <1>1, BlockOps
<1>3. HasResult(OpOf(ops, x)) /\ Before(ops, x, y)
  BY <1>1, <1>2, BlockUses DEF Dominates
<1>4. \A a, b \in DOMAIN tasks : a < b => AllBefore(ops, ToSet(tasks[a]), ToSet(tasks[b]))
  BY DEF TasksState, AreTasks
<1>5. ASSUME u < t PROVE FALSE
  <2>1. \A z \in ToSet(tasks[u]) : Before(ops, z, x)
    BY <1>4, <1>5 DEF AllBefore
  <2>2. CASE y \in ToSet(tasks[u])
    BY <1>1, <1>3, <2>1, <2>2, BlockOrder
  <2>3. CASE OpOf(ops, y).parent # 0 /\ OpOf(ops, y).parent \in ToSet(tasks[u])
    <3>1. Before(ops, OpOf(ops, y).parent, x)
      BY <2>1, <2>3
    <3>2. OpOf(ops, x).parent = OpOf(ops, y).parent
      BY <1>1, <1>3, <2>3, <3>1, BlockParents
    <3> QED
      BY <1>1, <2>3, <3>2
  <2> QED
    BY <1>1, <2>2, <2>3
<1>6. t < u
  BY <1>1, <1>5
<1> QED
  BY <1>1, <1>3, <1>4, <1>6 DEF AllBefore

-----------------------------------------------------------------------------
(* The reads of streams *)

\* The read of a result that a task gets.
ReadOp(op, user) == [op EXCEPT !.id = ReadOf(op.id, user), !.kind = "read", !.args = <<op.id>>]

ReadOps(user) == {ReadOp(ops[i], user) : i \in DOMAIN ops}

\* The operations of the results R whose streams the task u reads.
UsedBy(t, R, u) == {i \in DOMAIN ops : ops[i].id \in R /\ u \in TasksUsing(ops[i].id) \ {t}}

\* The reads a task gets are those of the results it uses, the last one first.
LEMMA ReadsLayout ==
    ASSUME IsBlock(ops), NEW t, NEW R, NEW u
    PROVE  LET rs == ReadsOf(t, R, u)
           IN  /\ rs \in Seq(ReadOps(u)) /\ DOMAIN rs = 1..Len(rs)
               /\ \E pos \in [1..Len(rs) -> UsedBy(t, R, u)] :
                     /\ \A j \in 1..Len(rs) : rs[j] = ReadOp(ops[pos[j]], u)
                     /\ \A j, k \in 1..Len(rs) : j < k <=> pos[k] < pos[j]
                     /\ \A i \in UsedBy(t, R, u) : \E j \in 1..Len(rs) : pos[j] = i
<1> DEFINE rs == ReadsOf(t, R, u)
           Back(k) == Len(ops) + 1 - k
           T == ReadOps(u)
           s == [k \in DOMAIN ops |-> ReadOp(ops[Back(k)], u)]
           S == {k \in DOMAIN ops : ops[Back(k)].id \in R /\ u \in TasksUsing(ops[Back(k)].id) \ {t}}
<1>1. DOMAIN ops = 1..Len(ops) /\ Len(ops) \in Nat
  BY BlockFacts
<1>2. \A k \in 1..Len(ops) : Back(k) \in 1..Len(ops) /\ Back(Back(k)) = k
  BY <1>1
<1>3. DOMAIN s = DOMAIN ops /\ \A k \in DOMAIN ops : s[k] = ReadOp(ops[Back(k)], u)
  OBVIOUS
<1>4. rs = Kept(s, S)
  BY <1>3 DEF ReadsOf, Kept, ReadOp
<1>5. s \in Seq(T)
  <2>1. \A k \in 1..Len(ops) : s[k] \in T
    BY <1>1, <1>2, <1>3 DEF ReadOps
  <2>2. s = [k \in 1..Len(ops) |-> s[k]]
    BY <1>1
  <2> HIDE DEF s, T
  <2> QED
    BY <1>1, <2>1, <2>2
<1>6. S \in SUBSET DOMAIN s /\ \A k \in S : Back(k) \in UsedBy(t, R, u)
  BY <1>1, <1>2 DEF UsedBy
<1>7. \A i \in UsedBy(t, R, u) : Back(i) \in S /\ Back(Back(i)) = i
  BY <1>1, <1>2 DEF UsedBy
<1> HIDE DEF s, T
<1>8. /\ rs \in Seq(T)
      /\ \E pos \in [1..Len(rs) -> S] :
            /\ \A j \in 1..Len(rs) : rs[j] = s[pos[j]]
            /\ \A j, k \in 1..Len(rs) : j < k <=> pos[j] < pos[k]
            /\ \A i \in S : \E j \in 1..Len(rs) : pos[j] = i
  <2> HIDE DEF rs, S
  <2>1. s \in Seq(T) /\ S \in SUBSET DOMAIN s
    BY <1>5, <1>6
  <2>2. /\ Kept(s, S) \in Seq(T)
        /\ \E pos \in [1..Len(Kept(s, S)) -> S] :
              /\ \A j \in 1..Len(Kept(s, S)) : Kept(s, S)[j] = s[pos[j]]
              /\ \A j, k \in 1..Len(Kept(s, S)) : j < k <=> pos[j] < pos[k]
              /\ \A i \in S : \E j \in 1..Len(Kept(s, S)) : pos[j] = i
    BY ONLY <2>1, KeptLayout
  <2> QED
    BY <1>4, <2>2
<1> HIDE DEF rs
<1>9. PICK f \in [1..Len(rs) -> S] :
            /\ \A j \in 1..Len(rs) : rs[j] = s[f[j]]
            /\ \A j, k \in 1..Len(rs) : j < k <=> f[j] < f[k]
            /\ \A i \in S : \E j \in 1..Len(rs) : f[j] = i
  BY <1>8
<1>10. Len(rs) \in Nat /\ DOMAIN rs = 1..Len(rs)
  BY <1>8
<1>11. \A j \in 1..Len(rs) : f[j] \in S /\ f[j] \in 1..Len(ops) /\ f[j] \in Nat
  BY <1>1, <1>9
<1> HIDE DEF S
<1> DEFINE g == [j \in 1..Len(rs) |-> Back(f[j])]
<1>12. g \in [1..Len(rs) -> UsedBy(t, R, u)]
  <2>1. \A j \in 1..Len(rs) : Back(f[j]) \in UsedBy(t, R, u)
    BY <1>6, <1>11
  <2> HIDE DEF Back
  <2> QED
    BY <2>1
<1>13. \A j \in 1..Len(rs) : g[j] = Back(f[j]) /\ rs[j] = ReadOp(ops[g[j]], u)
  BY <1>1, <1>3, <1>9, <1>11
<1>14. \A j, k \in 1..Len(rs) : j < k <=> g[k] < g[j]
  BY <1>1, <1>9, <1>11
<1>15. ASSUME NEW i \in UsedBy(t, R, u) PROVE \E j \in 1..Len(rs) : g[j] = i
  <2>1. Back(i) \in S /\ Back(Back(i)) = i
    BY <1>7
  <2>2. PICK j \in 1..Len(rs) : f[j] = Back(i)
    BY <1>9, <2>1
  <2> HIDE DEF Back
  <2> QED
    BY <2>1, <2>2
<1> HIDE DEF g
<1> QED
  BY <1>8, <1>10, <1>12, <1>13, <1>14, <1>15 DEF rs, T

\* The ids of two reads differ, and differ from those of the block.
LEMMA ReadIds ==
    ASSUME IsBlock(ops), TasksState, NEW x \in Ids(ops), NEW u \in DOMAIN tasks
    PROVE  /\ ReadOf(x, u) \in Nat \ {0} /\ ReadOf(x, u) \notin Ids(ops)
           /\ \A y \in Ids(ops), v \in DOMAIN tasks : ReadOf(x, u) = ReadOf(y, v) => x = y /\ u = v
<1> DEFINE n == Len(tasks)
<1>1. DOMAIN tasks = 1..n /\ n \in Nat /\ u \in 1..n /\ n \in Nat \ {0}
  BY InTasks
<1>2. \A y \in Ids(ops) : At(ops, y) \in 1..Len(ops) /\ At(ops, y) \in Nat /\ ops[At(ops, y)].id = y /\ y \in Nat \ {0}
  BY BlockFacts, BlockOps
<1>3. Fresh \in Nat \ {0} /\ \A m \in Ids(ops) : m < Fresh
  BY FreshIds
<1> HIDE DEF n
<1>4. ReadOf(x, u) = Fresh + At(ops, x) * n + u /\ At(ops, x) * n \in Nat
  BY <1>1, <1>2 DEF ReadOf, n
<1>5. ReadOf(x, u) \in Nat \ {0} /\ ReadOf(x, u) > Fresh
  BY <1>1, <1>3, <1>4
<1>6. ReadOf(x, u) \notin Ids(ops)
  <2>1. ReadOf(x, u) \in Ids(ops) => ReadOf(x, u) < Fresh
    BY <1>3
  <2> HIDE DEF ReadOf
  <2> QED
    BY <1>3, <1>5, <2>1
<1>7. ASSUME NEW y \in Ids(ops), NEW v \in DOMAIN tasks, ReadOf(x, u) = ReadOf(y, v) PROVE x = y /\ u = v
  <2> DEFINE a == At(ops, x)
             c == At(ops, y)
  <2>1. /\ a \in Nat /\ c \in Nat /\ v \in 1..n /\ ReadOf(y, v) = Fresh + c * n + v
        /\ ReadOf(x, u) = Fresh + a * n + u
    BY <1>1, <1>2 DEF ReadOf, n
  <2>2. n * a \in Nat /\ n * c \in Nat /\ n * a = a * n /\ n * c = c * n
    BY <1>1, <2>1, TimesCommutes, TimesIsNat
  <2> HIDE DEF a, c
  <2> DEFINE P == n * a
             Q == n * c
  <2>3. P + u = Q + v
    <3>1. P \in Nat /\ Q \in Nat /\ u \in Nat /\ v \in Nat /\ Fresh + P + u = Fresh + Q + v
      BY <1>1, <1>7, <2>1, <2>2
    <3> HIDE DEF P, Q
    <3> QED
      BY <1>3, <3>1
  <2>4. n * a < n * c + n /\ n * c < n * a + n
    BY <1>1, <2>1, <2>2, <2>3
  <2>5. a <= c /\ c <= a
    BY <1>1, <2>1, <2>4, MultiplesOrdered
  <2>6. a = c
    BY <2>1, <2>5
  <2>7. x = y
    BY <1>2, <2>6 DEF a, c
  <2>8. u = v
    BY <1>1, <2>1, <2>2, <2>3, <2>6
  <2> QED
    BY <2>7, <2>8
<1> QED
  BY <1>5, <1>6, <1>7

\* An operation that uses the reads of its task instead of the results R of the task t.
RenamedOp(t, R, op) ==
    [op EXCEPT !.args = [k \in DOMAIN @ |->
        IF @[k] \in R /\ op.id \notin Members(t) THEN ReadOf(@[k], TaskOf(op.id)) ELSE @[k]]]

\* The reads in front of an operation that begins a task.
FrontOf(t, R, op) ==
    LET begun == {user \in DOMAIN tasks : op.id = Head(tasks[user])}
    IN  IF begun = {} THEN << >> ELSE ReadsOf(t, R, Max(begun))

\* The first operation of a task gets the reads of that task, and no other gets any.
LEMMA FrontIs ==
    ASSUME IsBlock(ops), TasksState, NEW t, NEW R
    PROVE  /\ \A u \in DOMAIN tasks : /\ At(ops, Head(tasks[u])) \in DOMAIN ops
                                      /\ FrontOf(t, R, ops[At(ops, Head(tasks[u]))]) = ReadsOf(t, R, u)
           /\ \A i \in DOMAIN ops : \/ FrontOf(t, R, ops[i]) = << >>
                                    \/ \E u \in DOMAIN tasks : /\ i = At(ops, Head(tasks[u]))
                                                               /\ FrontOf(t, R, ops[i]) = ReadsOf(t, R, u)
<1> DEFINE Begun(x) == {user \in DOMAIN tasks : x = Head(tasks[user])}
<1>1. DOMAIN tasks = 1..Len(tasks) /\ Len(tasks) \in Nat
  BY InTasks
<1>2. \A u \in DOMAIN tasks : Head(tasks[u]) \in ToSet(tasks[u])
  BY InTasks
<1>3. \A u \in DOMAIN tasks : \A x \in ToSet(tasks[u]) : x \in Members(u) /\ x \in Ids(ops)
  BY InTasks
<1>4. \A u, v \in DOMAIN tasks : Head(tasks[u]) = Head(tasks[v]) => u = v
  BY <1>2, <1>3, InTasks
<1>5. ASSUME NEW u \in DOMAIN tasks
      PROVE  Begun(Head(tasks[u])) = {u} /\ Max(Begun(Head(tasks[u]))) = u
  <2>1. Begun(Head(tasks[u])) = {u}
    BY <1>4
  <2>2. u >= u
    BY <1>1
  <2>3. Max({u}) = u
    BY <2>2 DEF Max
  <2> QED
    BY <2>1, <2>3
<1>6. ASSUME NEW op, NEW u \in DOMAIN tasks, op.id = Head(tasks[u]) PROVE FrontOf(t, R, op) = ReadsOf(t, R, u)
  <2> HIDE DEF Begun
  <2>1. FrontOf(t, R, op) = IF Begun(op.id) = {} THEN << >> ELSE ReadsOf(t, R, Max(Begun(op.id)))
    BY DEF FrontOf, Begun
  <2>2. Begun(op.id) = {u} /\ Max(Begun(op.id)) = u
    BY <1>5, <1>6
  <2> QED
    BY <2>1, <2>2
<1>7. \A u \in DOMAIN tasks : At(ops, Head(tasks[u])) \in DOMAIN ops /\ ops[At(ops, Head(tasks[u]))].id = Head(tasks[u])
  BY <1>2, <1>3, BlockFacts
<1>8. ASSUME NEW i \in DOMAIN ops, FrontOf(t, R, ops[i]) # << >>
      PROVE  \E u \in DOMAIN tasks : i = At(ops, Head(tasks[u])) /\ FrontOf(t, R, ops[i]) = ReadsOf(t, R, u)
  <2>1. Begun(ops[i].id) # {}
    BY <1>8 DEF FrontOf
  <2>2. PICK u \in DOMAIN tasks : ops[i].id = Head(tasks[u])
    BY <2>1
  <2>3. i = At(ops, Head(tasks[u]))
    BY <2>2, BlockFacts
  <2> QED
    BY <1>6, <2>2, <2>3
<1> QED
  BY <1>6, <1>7, <1>8

\* Results of the task t, with all those that others use.
ResultsOf(t, R) == R \subseteq ToSet(tasks[t]) /\ \A x \in ToSet(tasks[t]) : TasksUsing(x) \ {t} # {} => x \in R

\* A function from 1..l is a sequence.
LEMMA SequenceIs ==
    ASSUME NEW T, NEW l \in Nat, NEW f \in [1..l -> T]
    PROVE  f \in Seq(T) /\ Len(f) = l /\ DOMAIN f = 1..l /\ (l = 0 => f = << >>)
OBVIOUS

\* What becomes of the i-th operation: it uses what it used, or reads instead of results.
IsRenamed(t, R, i) ==
    LET c == RenamedOp(t, R, ops[i])
    IN  /\ IsOperation(c) /\ c.id = ops[i].id /\ c.kind = ops[i].kind
        /\ BlockOf(c) = BlockOf(ops[i]) /\ c.parent = ops[i].parent
        /\ \A x \in ToSet(c.args) :
              \/ x \in ToSet(ops[i].args) /\ (x \notin R \/ ops[i].id \in Members(t))
              \/ \E z \in R \cap ToSet(ops[i].args), u \in DOMAIN tasks :
                    u # t /\ ops[i].id \in Members(u) /\ x = ReadOf(z, u)

\* An operation of a task uses reads of this task instead of the results of another.
LEMMA RenamedIs ==
    ASSUME IsBlock(ops), TasksState, NEW t \in DOMAIN tasks, NEW R, ResultsOf(t, R),
           NEW i \in DOMAIN ops
    PROVE  IsRenamed(t, R, i)
<1> DEFINE op == ops[i]
           as == [k \in DOMAIN op.args |->
                    IF op.args[k] \in R /\ op.id \notin Members(t) THEN ReadOf(op.args[k], TaskOf(op.id)) ELSE op.args[k]]
           c == RenamedOp(t, R, op)
<1>1. IsOperation(op) /\ op.id \in Ids(ops) /\ OpOf(ops, op.id) = op
  BY BlockFacts DEF IsBlock
<1>2. DOMAIN op = Fields
  BY <1>1 DEF IsOperation
<1>3. /\ DOMAIN c = Fields /\ c.id = op.id /\ c.kind = op.kind /\ c.parent = op.parent /\ c.branch = op.branch
      /\ c.args = as
  BY <1>2 DEF RenamedOp, Fields
<1>4. op.args \in Seq(Int) /\ DOMAIN op.args = 1..Len(op.args) /\ Len(op.args) \in Nat
  BY <1>1 DEF IsOperation
<1>5. \A z \in R : z \in Ids(ops)
  BY InTasks DEF ResultsOf
<1> HIDE DEF op, c
<1>6. ASSUME NEW k \in DOMAIN op.args, op.args[k] \in R, op.id \notin Members(t)
      PROVE  /\ TaskOf(op.id) \in DOMAIN tasks /\ op.id \in Members(TaskOf(op.id)) /\ TaskOf(op.id) # t
             /\ op.args[k] \in ToSet(op.args)
  <2>1. op.args[k] \in ToSet(op.args)
    BY DEF ToSet
  <2>2. \E u \in DOMAIN tasks : op.id \in Members(u)
    <3>1. \A x \in Ids(ops) : ToSet(OpOf(ops, x).args) # {} => \E u \in DOMAIN tasks : x \in Members(u)
      BY InTasks
    <3> QED
      BY <1>1, <2>1, <3>1
  <2>3. TaskOf(op.id) \in DOMAIN tasks /\ op.id \in Members(TaskOf(op.id))
    BY <2>2 DEF TaskOf
  <2> QED
    BY <1>6, <2>1, <2>3
<1>7. ASSUME NEW k \in DOMAIN op.args PROVE as[k] \in Int
  <2>1. CASE op.args[k] \in R /\ op.id \notin Members(t)
    <3>1. TaskOf(op.id) \in DOMAIN tasks /\ op.args[k] \in Ids(ops)
      BY <1>5, <1>6, <2>1
    <3>2. ReadOf(op.args[k], TaskOf(op.id)) \in Nat
      BY <3>1, ReadIds
    <3> QED
      BY <2>1, <3>2
  <2>2. CASE ~(op.args[k] \in R /\ op.id \notin Members(t))
    BY <1>4, <2>2
  <2> QED
    BY <2>1, <2>2
<1>8. as \in Seq(Int) /\ Len(as) = Len(op.args) /\ (op.args = << >> => as = << >>)
  <2>1. as = [k \in 1..Len(op.args) |-> as[k]] /\ DOMAIN as = 1..Len(op.args)
    BY <1>4
  <2>2. \A k \in 1..Len(op.args) : as[k] \in Int
    BY <1>4, <1>7
  <2>3. Len(<< >>) = 0
    OBVIOUS
  <2> DEFINE l == Len(op.args)
  <2>4. l \in Nat /\ (op.args = << >> => l = 0)
    BY <1>4, <2>3
  <2> HIDE DEF as, l
  <2>5. as \in [1..l -> Int]
    BY <2>1, <2>2 DEF l
  <2>6. as \in Seq(Int) /\ Len(as) = l /\ (l = 0 => as = << >>)
    BY <2>4, <2>5, SequenceIs
  <2> QED
    BY <2>4, <2>6 DEF l
<1>9. ASSUME NEW x \in ToSet(as)
      PROVE  \/ x \in ToSet(op.args) /\ (x \notin R \/ op.id \in Members(t))
             \/ \E z \in R \cap ToSet(op.args), u \in DOMAIN tasks :
                   u # t /\ op.id \in Members(u) /\ x = ReadOf(z, u)
  <2>1. PICK k \in DOMAIN op.args : x = as[k]
    BY DEF ToSet
  <2>2. CASE op.args[k] \in R /\ op.id \notin Members(t)
    <3>1. x = ReadOf(op.args[k], TaskOf(op.id))
      BY <2>1, <2>2
    <3> QED
      BY <1>6, <2>2, <3>1
  <2>3. CASE ~(op.args[k] \in R /\ op.id \notin Members(t))
    <3>1. x = op.args[k]
      BY <2>1, <2>3
    <3> QED
      BY <2>3, <3>1 DEF ToSet
  <2> QED
    BY <2>2, <2>3
<1> HIDE DEF as
<1>10. IsOperation(c)
  BY <1>1, <1>3, <1>8 DEF IsOperation
<1> QED
  BY <1>3, <1>9, <1>10 DEF op, c, BlockOf, IsRenamed

\* The block with the reads of each task in front of it.
Streamed(t, R) == FlattenSeq([i \in DOMAIN ops |-> FrontOf(t, R, ops[i]) \o <<RenamedOp(t, R, ops[i])>>])

\* What n is then: the block, and the reads of the tasks, each task behind its own.
IsStreamed(t, R, n) ==
    LET rs(u) == ReadsOf(t, R, u)
        first(u) == Head(tasks[u])
    IN  /\ IsBlock(n)
        /\ Ids(ops) \subseteq Ids(n)
        /\ \A x \in Ids(n) \ Ids(ops) : \E u \in DOMAIN tasks : \E j \in 1..Len(rs(u)) : x = rs(u)[j].id
        /\ \A x \in Ids(ops) : OpOf(n, x) = RenamedOp(t, R, OpOf(ops, x))
        /\ \A u \in DOMAIN tasks : \A j \in 1..Len(rs(u)) :
              /\ rs(u)[j].id \in Ids(n) \ Ids(ops) /\ OpOf(n, rs(u)[j].id) = rs(u)[j]
              /\ rs(u)[j].kind = "read" /\ rs(u)[j].parent = 0
              /\ \E x \in R : rs(u)[j].id = ReadOf(x, u) /\ u # t
        /\ \A x, y \in Ids(ops) : Before(n, x, y) <=> Before(ops, x, y)
        /\ \A u \in DOMAIN tasks : \A j \in 1..Len(rs(u)) :
              /\ \A y \in Ids(ops) :
                    /\ Before(n, rs(u)[j].id, y) <=> y = first(u) \/ Before(ops, first(u), y)
                    /\ Before(n, y, rs(u)[j].id) <=> Before(ops, y, first(u))
              /\ \A v \in DOMAIN tasks : \A l \in 1..Len(rs(v)) :
                    Before(n, rs(u)[j].id, rs(v)[l].id) <=>
                       Before(ops, first(u), first(v)) \/ (u = v /\ j < l)

\* It is a block in which each use is behind what it uses.
LEMMA StreamedBlock ==
    ASSUME IsBlock(ops), TasksState, NEW t \in DOMAIN tasks, NEW R, ResultsOf(t, R)
    PROVE  IsStreamed(t, R, Streamed(t, R))
<1> DEFINE N == Len(ops)
           rs(u) == ReadsOf(t, R, u)
           first(u) == Head(tasks[u])
           h(u) == At(ops, first(u))
           C == {RenamedOp(t, R, ops[i]) : i \in DOMAIN ops}
           T == (UNION {ReadOps(u) : u \in DOMAIN tasks}) \cup C
           pre == [i \in 1..N |-> FrontOf(t, R, ops[i])]
           c == [i \in 1..N |-> RenamedOp(t, R, ops[i])]
           n == Prefaced(ops, pre, c)
<1>1. /\ DOMAIN ops = 1..N /\ N \in Nat
      /\ \A i \in 1..N : At(ops, ops[i].id) = i /\ OpOf(ops, ops[i].id) = ops[i] /\ ops[i].id \in Ids(ops)
      /\ \A x \in Ids(ops) : At(ops, x) \in 1..N /\ ops[At(ops, x)].id = x /\ OpOf(ops, x) = ops[At(ops, x)]
  BY BlockFacts
<1>2. /\ \A u \in DOMAIN tasks : h(u) \in 1..N /\ pre[h(u)] = rs(u)
      /\ \A i \in 1..N : pre[i] = << >> \/ \E u \in DOMAIN tasks : i = h(u) /\ pre[i] = rs(u)
  <2>1. /\ \A u \in DOMAIN tasks : /\ At(ops, Head(tasks[u])) \in DOMAIN ops
                                      /\ FrontOf(t, R, ops[At(ops, Head(tasks[u]))]) = ReadsOf(t, R, u)
        /\ \A i \in DOMAIN ops : \/ FrontOf(t, R, ops[i]) = << >>
                                 \/ \E u \in DOMAIN tasks : /\ i = At(ops, Head(tasks[u]))
                                                            /\ FrontOf(t, R, ops[i]) = ReadsOf(t, R, u)
    BY FrontIs
  <2>2. \A i \in 1..N : pre[i] = FrontOf(t, R, ops[i])
    OBVIOUS
  <2> HIDE DEF pre
  <2> QED
    BY <1>1, <2>1, <2>2
<1>3. \A u \in DOMAIN tasks : first(u) \in Ids(ops) /\ OpOf(ops, first(u)).parent = 0
  BY InTasks
<1>4. \A u, v \in DOMAIN tasks : h(u) = h(v) => u = v
  <2>1. \A u \in DOMAIN tasks : first(u) \in Members(u)
    BY InTasks
  <2>2. \A u, v \in DOMAIN tasks : first(u) = first(v) => u = v
    BY <2>1, InTasks
  <2> QED
    BY <1>1, <1>3, <2>2
<1>5. \A i \in 1..N : /\ IsOperation(c[i]) /\ c[i].id = ops[i].id /\ c[i].kind = ops[i].kind
                      /\ BlockOf(c[i]) = BlockOf(ops[i])
                      /\ \A x \in ToSet(c[i].args) :
                            \/ x \in ToSet(ops[i].args)
                            \/ \E z \in R \cap ToSet(ops[i].args), u \in DOMAIN tasks :
                                  u # t /\ ops[i].id \in Members(u) /\ x = ReadOf(z, u)
  <2>1. SUFFICES ASSUME NEW i \in 1..N
                 PROVE  /\ IsOperation(c[i]) /\ c[i].id = ops[i].id /\ c[i].kind = ops[i].kind
                        /\ BlockOf(c[i]) = BlockOf(ops[i])
                        /\ \A x \in ToSet(c[i].args) :
                              \/ x \in ToSet(ops[i].args)
                              \/ \E z \in R \cap ToSet(ops[i].args), u \in DOMAIN tasks :
                                    u # t /\ ops[i].id \in Members(u) /\ x = ReadOf(z, u)
    OBVIOUS
  <2>2. c[i] = RenamedOp(t, R, ops[i]) /\ i \in DOMAIN ops
    BY <1>1
  <2> HIDE DEF c
  <2>3. IsRenamed(t, R, i)
    BY <2>2, RenamedIs
  <2> QED
    BY <2>2, <2>3 DEF IsRenamed
<1>6. \A z \in R : z \in Ids(ops) /\ z \in ToSet(tasks[t])
  BY InTasks DEF ResultsOf
\* A result that another task uses, and its place.
<1>7. ASSUME NEW u \in DOMAIN tasks, NEW i \in UsedBy(t, R, u)
      PROVE  /\ i \in 1..N /\ ops[i].id \in R /\ u # t /\ HasResult(ops[i]) /\ ops[i].parent = 0 /\ i < h(u)
             /\ ops[i].branch = "top" /\ IsOperation(ops[i])
  <2>1. i \in 1..N /\ ops[i].id \in R /\ u \in TasksUsing(ops[i].id) /\ u # t
    BY <1>1 DEF UsedBy
  <2>2. PICK y \in Members(u) : ops[i].id \in ToSet(OpOf(ops, y).args)
    BY <2>1 DEF TasksUsing
  <2>3. ops[i].id \in ToSet(tasks[t]) /\ OpOf(ops, ops[i].id) = ops[i] /\ At(ops, ops[i].id) = i
    BY <1>1, <1>6, <2>1
  <2>4. HasResult(ops[i]) /\ Before(ops, ops[i].id, first(u))
    BY <2>1, <2>2, <2>3, UsedLater
  <2>5. ops[i].parent = 0
    BY <2>3, InTasks
  <2>6. IsOperation(ops[i])
    BY <1>1, <2>1 DEF IsBlock
  <2>7. ops[i].branch = "top"
    BY <2>5, <2>6 DEF IsOperation
  <2> QED
    BY <2>1, <2>3, <2>4, <2>5, <2>6, <2>7 DEF Before
\* The reads of a task.
<1>8. ASSUME NEW u \in DOMAIN tasks
      PROVE  /\ rs(u) \in Seq(T) /\ DOMAIN rs(u) = 1..Len(rs(u)) /\ Len(rs(u)) \in Nat
             /\ \A j \in 1..Len(rs(u)) : \E i \in UsedBy(t, R, u) : rs(u)[j] = ReadOp(ops[i], u)
             /\ \A j, k \in 1..Len(rs(u)) : rs(u)[j].id = rs(u)[k].id => j = k
             /\ \A i \in UsedBy(t, R, u) : \E j \in 1..Len(rs(u)) : rs(u)[j] = ReadOp(ops[i], u)
  <2> DEFINE Q == ReadOps(u)
  <2>1. /\ rs(u) \in Seq(Q) /\ DOMAIN rs(u) = 1..Len(rs(u))
        /\ \E pos \in [1..Len(rs(u)) -> UsedBy(t, R, u)] :
              /\ \A j \in 1..Len(rs(u)) : rs(u)[j] = ReadOp(ops[pos[j]], u)
              /\ \A j, k \in 1..Len(rs(u)) : j < k <=> pos[k] < pos[j]
              /\ \A i \in UsedBy(t, R, u) : \E j \in 1..Len(rs(u)) : pos[j] = i
    BY ReadsLayout
  <2>2. Q \subseteq T
    OBVIOUS
  <2>3. \A A, B : A \subseteq B => Seq(A) \subseteq Seq(B)
    OBVIOUS
  <2> HIDE DEF rs, Q, T
  <2>4. rs(u) \in Seq(T) /\ Len(rs(u)) \in Nat
    BY <2>1, <2>2, <2>3
  <2>5. PICK pos \in [1..Len(rs(u)) -> UsedBy(t, R, u)] :
              /\ \A j \in 1..Len(rs(u)) : rs(u)[j] = ReadOp(ops[pos[j]], u)
              /\ \A j, k \in 1..Len(rs(u)) : j < k <=> pos[k] < pos[j]
              /\ \A i \in UsedBy(t, R, u) : \E j \in 1..Len(rs(u)) : pos[j] = i
    BY <2>1
  <2>6. ASSUME NEW j \in 1..Len(rs(u)), NEW k \in 1..Len(rs(u)), rs(u)[j].id = rs(u)[k].id PROVE j = k
    <3>1. pos[j] \in UsedBy(t, R, u) /\ pos[k] \in UsedBy(t, R, u)
      BY <2>5
    <3>2. /\ pos[j] \in 1..N /\ pos[k] \in 1..N /\ DOMAIN ops[pos[j]] = Fields /\ DOMAIN ops[pos[k]] = Fields
          /\ ops[pos[j]].id \in Ids(ops) /\ ops[pos[k]].id \in Ids(ops)
      BY <1>1, <1>7, <3>1 DEF IsOperation
    <3>3. rs(u)[j].id = ReadOf(ops[pos[j]].id, u) /\ rs(u)[k].id = ReadOf(ops[pos[k]].id, u)
      <4>1. \A i \in 1..N : DOMAIN ops[i] = Fields => ReadOp(ops[i], u).id = ReadOf(ops[i].id, u)
        BY DEF ReadOp, Fields
      <4> QED
        BY <2>5, <3>2, <4>1
    <3>4. ops[pos[j]].id = ops[pos[k]].id
      <4>1. ReadOf(ops[pos[j]].id, u) = ReadOf(ops[pos[k]].id, u)
        BY <2>6, <3>3
      <4> QED
        BY <3>2, <4>1, ReadIds
    <3>5. pos[j] = pos[k]
      BY <1>1, <3>2, <3>4
    <3>6. ~(pos[k] < pos[j]) /\ ~(pos[j] < pos[k])
      BY <1>1, <3>2, <3>5
    <3>7. ~(j < k) /\ ~(k < j)
      BY <2>5, <3>6
    <3> QED
      BY <2>4, <3>7
  <2>7. \A j \in 1..Len(rs(u)) : \E i \in UsedBy(t, R, u) : rs(u)[j] = ReadOp(ops[i], u)
    BY <2>5
  <2>8. \A i \in UsedBy(t, R, u) : \E j \in 1..Len(rs(u)) : rs(u)[j] = ReadOp(ops[i], u)
    BY <2>5
  <2> QED
    BY <2>1, <2>4, <2>6, <2>7, <2>8
\* What a read is.
<1>9. ASSUME NEW u \in DOMAIN tasks, NEW i \in UsedBy(t, R, u)
      PROVE  LET r == ReadOp(ops[i], u)
             IN  /\ IsOperation(r) /\ r.id = ReadOf(ops[i].id, u) /\ r.kind = "read" /\ r.parent = 0
                 /\ r.args = <<ops[i].id>> /\ r.id \notin Ids(ops)
  <2> DEFINE r == ReadOp(ops[i], u)
  <2>1. /\ i \in 1..N /\ ops[i].id \in R /\ ops[i].parent = 0 /\ ops[i].branch = "top" /\ IsOperation(ops[i])
        /\ ops[i].id \in Ids(ops)
    BY <1>1, <1>7
  <2>2. DOMAIN ops[i] = Fields
    BY <2>1 DEF IsOperation
  <2>3. /\ DOMAIN r = Fields /\ r.id = ReadOf(ops[i].id, u) /\ r.kind = "read" /\ r.args = <<ops[i].id>>
        /\ r.parent = ops[i].parent /\ r.branch = ops[i].branch
    BY <2>2 DEF ReadOp, Fields
  <2>4. ReadOf(ops[i].id, u) \in Nat \ {0} /\ ReadOf(ops[i].id, u) \notin Ids(ops)
    BY <2>1, ReadIds
  <2>5. <<ops[i].id>> \in Seq(Int)
    BY <2>1, BlockOps
  <2> HIDE DEF r
  <2>6. IsOperation(r)
    BY <2>1, <2>3, <2>4, <2>5 DEF IsOperation
  <2> QED
    BY <2>1, <2>3, <2>4, <2>6 DEF r
<1>10. pre \in [1..N -> Seq(T)] /\ c \in [1..N -> T]
  <2>1. \A i \in 1..N : pre[i] \in Seq(T)
    <3>1. << >> \in Seq(T)
      OBVIOUS
    <3> HIDE DEF T, pre, rs, h
    <3>2. \A u \in DOMAIN tasks : rs(u) \in Seq(T)
      BY <1>8
    <3> QED
      BY <1>2, <3>1, <3>2
  <2>2. \A i \in 1..N : c[i] \in T
    <3>1. \A i \in DOMAIN ops : RenamedOp(t, R, ops[i]) \in C
      OBVIOUS
    <3> HIDE DEF C
    <3>2. C \subseteq T
      OBVIOUS
    <3>3. \A i \in 1..N : c[i] = RenamedOp(t, R, ops[i])
      OBVIOUS
    <3> HIDE DEF T, c
    <3> QED
      BY <1>1, <3>1, <3>2, <3>3
  <2>3. pre = [i \in 1..N |-> pre[i]] /\ c = [i \in 1..N |-> c[i]]
    OBVIOUS
  <2> HIDE DEF T, pre, c
  <2> QED
    BY <2>1, <2>2, <2>3
<1>11. \A x \in Ids(ops) : c[At(ops, x)] = RenamedOp(t, R, OpOf(ops, x))
  BY <1>1
<1>12. n = Streamed(t, R)
  <2>1. [i \in 1..Len(ops) |-> pre[i] \o <<c[i]>>] = [i \in DOMAIN ops |-> FrontOf(t, R, ops[i]) \o <<RenamedOp(t, R, ops[i])>>]
    BY <1>1
  <2> QED
    BY <2>1 DEF Prefaced, Streamed
<1> HIDE DEF T, pre, c, rs
<1>13. ASSUME NEW i \in 1..N, NEW j \in 1..Len(pre[i])
       PROVE  \E u \in DOMAIN tasks : /\ i = h(u) /\ pre[i] = rs(u) /\ j \in 1..Len(rs(u))
                                      /\ \E k \in UsedBy(t, R, u) : pre[i][j] = ReadOp(ops[k], u)
  <2>1. pre[i] # << >>
    <3>1. Len(<< >>) = 0
      OBVIOUS
    <3> QED
      BY <3>1
  <2>2. PICK u \in DOMAIN tasks : i = h(u) /\ pre[i] = rs(u)
    BY <1>2, <2>1
  <2>3. j \in 1..Len(rs(u))
    BY <2>2
  <2> QED
    BY <1>8, <2>2, <2>3
<1>14. MayPreface(ops, pre, c)
  <2>1. ASSUME NEW i \in 1..N PROVE pre[i] # << >> => ops[i].parent = 0
    <3>1. SUFFICES ASSUME pre[i] # << >> PROVE ops[i].parent = 0
      OBVIOUS
    <3>2. PICK u \in DOMAIN tasks : i = h(u)
      BY <1>2, <3>1
    <3> QED
      BY <1>1, <1>3, <3>2
  <2>2. ASSUME NEW i \in 1..N, NEW x \in ToSet(c[i].args), x > 0
        PROVE  x \in ToSet(ops[i].args) \/ \E k \in 1..i : \E j \in 1..Len(pre[k]) : pre[k][j].id = x
    <3>1. SUFFICES ASSUME NEW z \in R \cap ToSet(ops[i].args), NEW u \in DOMAIN tasks,
                          u # t, ops[i].id \in Members(u), x = ReadOf(z, u)
                   PROVE  \E k \in 1..i : \E j \in 1..Len(pre[k]) : pre[k][j].id = x
      BY <1>5
    <3>2. z \in Ids(ops) /\ At(ops, z) \in 1..N /\ ops[At(ops, z)].id = z
      BY <1>1, <1>6
    <3>3. u \in TasksUsing(z)
      BY <1>1, <3>1 DEF TasksUsing
    <3>4. At(ops, z) \in UsedBy(t, R, u)
      BY <1>1, <3>1, <3>2, <3>3 DEF UsedBy
    <3>5. PICK j \in 1..Len(rs(u)) : rs(u)[j] = ReadOp(ops[At(ops, z)], u)
      BY <1>8, <3>4
    <3>6. rs(u)[j].id = x
      BY <1>9, <3>1, <3>2, <3>4, <3>5
    <3>7. pre[h(u)] = rs(u) /\ h(u) \in 1..N
      BY <1>2
    <3>8. h(u) <= i
      <4>1. ops[i].id = first(u) \/ Before(ops, first(u), ops[i].id)
        BY <3>1, InTasks
      <4> QED
        BY <1>1, <3>7, <4>1 DEF Before
    <3>9. h(u) \in 1..i
      BY <1>1, <3>7, <3>8
    <3> QED
      BY <3>5, <3>6, <3>7, <3>9
  <2>3. ASSUME NEW i \in 1..N, NEW j \in 1..Len(pre[i])
        PROVE  /\ IsOperation(pre[i][j]) /\ pre[i][j].kind = "read" /\ pre[i][j].parent = 0
               /\ pre[i][j].id \notin Ids(ops)
               /\ \A x \in ToSet(pre[i][j].args) : x > 0 =>
                     \E k \in 1..(i - 1) : ops[k].id = x /\ HasResult(ops[k]) /\ ops[k].parent = 0
    <3>1. PICK u \in DOMAIN tasks : i = h(u) /\ \E k \in UsedBy(t, R, u) : pre[i][j] = ReadOp(ops[k], u)
      BY <1>13
    <3>2. PICK k \in UsedBy(t, R, u) : pre[i][j] = ReadOp(ops[k], u)
      BY <3>1
    <3>3. /\ IsOperation(pre[i][j]) /\ pre[i][j].kind = "read" /\ pre[i][j].parent = 0
          /\ pre[i][j].id \notin Ids(ops) /\ pre[i][j].args = <<ops[k].id>>
      BY <1>9, <3>2
    <3>4. ToSet(<<ops[k].id>>) = {ops[k].id}
      BY DEF ToSet
    <3>5. k \in 1..N /\ k < i /\ HasResult(ops[k]) /\ ops[k].parent = 0
      BY <1>7, <3>1
    <3>6. k \in 1..(i - 1)
      BY <1>1, <3>5
    <3> QED
      BY <3>3, <3>4, <3>5, <3>6
  <2>4. ASSUME NEW i \in 1..N, NEW k \in 1..N, NEW j \in 1..Len(pre[i]), NEW l \in 1..Len(pre[k]),
               pre[i][j].id = pre[k][l].id
        PROVE  i = k /\ j = l
    <3>1. PICK u \in DOMAIN tasks : /\ i = h(u) /\ pre[i] = rs(u) /\ j \in 1..Len(rs(u))
                                    /\ \E m \in UsedBy(t, R, u) : pre[i][j] = ReadOp(ops[m], u)
      BY <1>13
    <3>2. PICK v \in DOMAIN tasks : /\ k = h(v) /\ pre[k] = rs(v) /\ l \in 1..Len(rs(v))
                                    /\ \E m \in UsedBy(t, R, v) : pre[k][l] = ReadOp(ops[m], v)
      BY <1>13
    <3>3. PICK a \in UsedBy(t, R, u) : pre[i][j] = ReadOp(ops[a], u)
      BY <3>1
    <3>4. PICK b \in UsedBy(t, R, v) : pre[k][l] = ReadOp(ops[b], v)
      BY <3>2
    <3>5. pre[i][j].id = ReadOf(ops[a].id, u) /\ pre[k][l].id = ReadOf(ops[b].id, v)
      BY <1>9, <3>3, <3>4
    <3>6. ops[a].id \in Ids(ops) /\ ops[b].id \in Ids(ops)
      BY <1>1, <1>7
    <3>7. u = v
      <4>1. ReadOf(ops[a].id, u) = ReadOf(ops[b].id, v)
        BY <2>4, <3>5
      <4> QED
        BY <3>6, <4>1, ReadIds
    <3> QED
      BY <1>8, <2>4, <3>1, <3>2, <3>7
  <2> QED
    BY <1>5, <2>1, <2>2, <2>3, <2>4 DEF MayPreface
<1>15. /\ IsBlock(n)
       /\ Ids(ops) \subseteq Ids(n)
       /\ \A x \in Ids(n) \ Ids(ops) : \E i \in 1..N : \E j \in 1..Len(pre[i]) : x = pre[i][j].id
       /\ \A i \in 1..N : \A j \in 1..Len(pre[i]) : pre[i][j].id \in Ids(n)
       /\ \A i \in 1..N : OpOf(n, ops[i].id) = c[i]
       /\ \A i \in 1..N : \A j \in 1..Len(pre[i]) : OpOf(n, pre[i][j].id) = pre[i][j]
       /\ \A i, k \in 1..N :
             /\ Before(n, ops[i].id, ops[k].id) <=> i < k
             /\ \A j \in 1..Len(pre[i]) :
                   /\ Before(n, pre[i][j].id, ops[k].id) <=> i <= k
                   /\ Before(n, ops[k].id, pre[i][j].id) <=> k < i
                   /\ \A l \in 1..Len(pre[k]) :
                         Before(n, pre[i][j].id, pre[k][l].id) <=> i < k \/ (i = k /\ j < l)
  <2>1. IsPrefaced(n, ops, pre, c)
    BY <1>10, <1>14, PrefacedBlock
  <2> HIDE DEF h, first, n
  <2> QED
    BY <2>1 DEF IsPrefaced
<1> HIDE DEF n
<1>16. ASSUME NEW x \in Ids(n) \ Ids(ops)
       PROVE  \E u \in DOMAIN tasks : \E j \in 1..Len(rs(u)) : x = rs(u)[j].id
  <2>1. PICK i \in 1..N : \E j \in 1..Len(pre[i]) : x = pre[i][j].id
    BY <1>15
  <2>2. PICK j \in 1..Len(pre[i]) : x = pre[i][j].id
    BY <2>1
  <2>3. PICK u \in DOMAIN tasks : pre[i] = rs(u) /\ j \in 1..Len(rs(u))
    BY <1>13
  <2> QED
    BY <2>2, <2>3
<1>17. Ids(ops) \subseteq Ids(n) /\ \A x \in Ids(ops) : OpOf(n, x) = RenamedOp(t, R, OpOf(ops, x))
  BY <1>1, <1>11, <1>15
<1>18. ASSUME NEW u \in DOMAIN tasks, NEW j \in 1..Len(rs(u))
       PROVE  /\ rs(u)[j].id \in Ids(n) \ Ids(ops) /\ OpOf(n, rs(u)[j].id) = rs(u)[j]
              /\ rs(u)[j].kind = "read" /\ rs(u)[j].parent = 0
              /\ \E x \in R : rs(u)[j].id = ReadOf(x, u) /\ u # t
  <2>1. PICK i \in UsedBy(t, R, u) : rs(u)[j] = ReadOp(ops[i], u)
    BY <1>8
  <2>2. rs(u)[j].kind = "read" /\ rs(u)[j].parent = 0 /\ rs(u)[j].id = ReadOf(ops[i].id, u) /\ rs(u)[j].id \notin Ids(ops)
    BY <1>9, <2>1
  <2>3. ops[i].id \in R /\ u # t
    BY <1>7
  <2>4. pre[h(u)] = rs(u) /\ h(u) \in 1..N
    BY <1>2
  <2>5. OpOf(n, rs(u)[j].id) = rs(u)[j]
    <3>1. \A k \in 1..N : \A l \in 1..Len(pre[k]) : OpOf(n, pre[k][l].id) = pre[k][l]
      BY <1>15
    <3> HIDE DEF rs, pre
    <3> QED
      BY <2>4, <3>1
  <2>6. rs(u)[j].id \in Ids(n)
    BY <1>15, <2>4
  <2> QED
    BY <2>2, <2>3, <2>5, <2>6
<1>19. \A x, y \in Ids(ops) : Before(n, x, y) <=> Before(ops, x, y)
  <2>1. \A x, y \in Ids(ops) : Before(ops, x, y) <=> At(ops, x) < At(ops, y)
    BY DEF Before
  <2> QED
    BY <1>1, <1>15, <2>1
<1>20. ASSUME NEW u \in DOMAIN tasks, NEW j \in 1..Len(rs(u)), NEW y \in Ids(ops)
       PROVE  /\ Before(n, rs(u)[j].id, y) <=> y = first(u) \/ Before(ops, first(u), y)
              /\ Before(n, y, rs(u)[j].id) <=> Before(ops, y, first(u))
  <2>1. pre[h(u)] = rs(u) /\ h(u) \in 1..N /\ At(ops, y) \in 1..N /\ ops[At(ops, y)].id = y
    BY <1>1, <1>2
  <2>2. /\ Before(n, rs(u)[j].id, y) <=> h(u) <= At(ops, y)
        /\ Before(n, y, rs(u)[j].id) <=> At(ops, y) < h(u)
    BY <1>15, <2>1
  <2>3. h(u) = At(ops, y) <=> y = first(u)
    BY <1>1, <1>3, <2>1
  <2> QED
    BY <1>1, <2>1, <2>2, <2>3 DEF Before
<1>21. ASSUME NEW u \in DOMAIN tasks, NEW j \in 1..Len(rs(u)), NEW v \in DOMAIN tasks, NEW l \in 1..Len(rs(v))
       PROVE  Before(n, rs(u)[j].id, rs(v)[l].id) <=> Before(ops, first(u), first(v)) \/ (u = v /\ j < l)
  <2>1. pre[h(u)] = rs(u) /\ h(u) \in 1..N /\ pre[h(v)] = rs(v) /\ h(v) \in 1..N
    BY <1>2
  <2>2. Before(n, rs(u)[j].id, rs(v)[l].id) <=> h(u) < h(v) \/ (h(u) = h(v) /\ j < l)
    BY <1>15, <2>1
  <2> QED
    BY <1>4, <2>2 DEF Before
<1>22. IsStreamed(t, R, n)
  BY <1>15, <1>16, <1>17, <1>18, <1>19, <1>20, <1>21 DEF rs, IsStreamed
<1> QED
  BY <1>12, <1>22

\* A list in front of another one.
LEMMA JoinedLists ==
    ASSUME NEW T, NEW o \in Seq(T), NEW m \in Seq(T), NEW b
    PROVE  /\ ToSet(o \o m) = ToSet(o) \cup ToSet(m)
           /\ Increasing(b, o) /\ Increasing(b, m) /\ AllBefore(b, ToSet(o), ToSet(m)) => Increasing(b, o \o m)
<1> DEFINE s == o \o m
           x == Len(o)
           y == Len(m)
<1>1. DOMAIN o = 1..x /\ DOMAIN m = 1..y /\ x \in Nat /\ y \in Nat
  OBVIOUS
<1>2. s \in Seq(T) /\ DOMAIN s = 1..(x + y)
  BY Joined
<1>3. \A k \in 1..x : s[k] = o[k]
  BY Joined
<1>4. \A k \in 1..y : s[x + k] = m[k]
  BY Joined
<1> HIDE DEF s, x, y
<1>5. \A i \in 1..(x + y) : i \in 1..x \/ (i > x /\ i - x \in 1..y /\ s[i] = m[i - x])
  <2>1. ASSUME NEW i \in 1..(x + y), i \notin 1..x PROVE i > x /\ i - x \in 1..y /\ x + (i - x) = i
    BY <1>1, <2>1
  <2> QED
    BY <1>4, <2>1
<1>6. ToSet(s) \subseteq ToSet(o) \cup ToSet(m)
  <2>1. ASSUME NEW i \in 1..(x + y) PROVE s[i] \in ToSet(o) \cup ToSet(m)
    BY <1>1, <1>3, <1>5 DEF ToSet
  <2> QED
    BY <1>2, <2>1 DEF ToSet
<1>7. ToSet(o) \cup ToSet(m) \subseteq ToSet(s)
  <2>1. \A k \in 1..x : k \in DOMAIN s /\ o[k] = s[k]
    BY <1>1, <1>2, <1>3
  <2>2. \A k \in 1..y : x + k \in DOMAIN s /\ m[k] = s[x + k]
    BY <1>1, <1>2, <1>4
  <2> QED
    BY <1>1, <2>1, <2>2 DEF ToSet
<1>8. ASSUME Increasing(b, o), Increasing(b, m), AllBefore(b, ToSet(o), ToSet(m)),
             NEW i \in 1..(x + y), NEW j \in 1..(x + y), i < j
      PROVE  Before(b, s[i], s[j])
  <2>1. CASE j \in 1..x
    <3>1. i \in 1..x
      BY <1>1, <1>8, <2>1
    <3> QED
      BY <1>1, <1>3, <1>8, <2>1, <3>1 DEF Increasing
  <2>2. CASE i \in 1..x /\ j \notin 1..x
    <3>1. s[i] \in ToSet(o) /\ s[j] \in ToSet(m)
      BY <1>1, <1>3, <1>5, <2>2 DEF ToSet
    <3> QED
      BY <1>8, <3>1 DEF AllBefore
  <2>3. CASE i \notin 1..x /\ j \notin 1..x
    <3>1. i - x \in 1..y /\ j - x \in 1..y /\ i - x < j - x /\ s[i] = m[i - x] /\ s[j] = m[j - x]
      BY <1>1, <1>5, <1>8, <2>3
    <3> QED
      BY <1>1, <1>8, <3>1 DEF Increasing
  <2> QED
    BY <2>1, <2>2, <2>3
<1>9. Increasing(b, o) /\ Increasing(b, m) /\ AllBefore(b, ToSet(o), ToSet(m)) => Increasing(b, s)
  BY <1>2, <1>8 DEF Increasing
<1> QED
  BY <1>6, <1>7, <1>9 DEF s

-----------------------------------------------------------------------------
(* The tasks that have become streams *)

\* The operations of a task, with those of its ifs.
InTask(b, ts, u) == ToSet(ts[u]) \cup {x \in Ids(b) : OpOf(b, x).parent \in ToSet(ts[u])}

\* Only reads use what a task computes, outside of it.
ByReads(b, ts, u) ==
    \A x \in Ids(b) \ InTask(b, ts, u), y \in InTask(b, ts, u) :
        y \in ToSet(OpOf(b, x).args) => OpOf(b, x).kind = "read"

\* The ids of the reads the task u gets.
IdsOf(t, R, u) == [i \in DOMAIN ReadsOf(t, R, u) |-> ReadsOf(t, R, u)[i].id]

\* What a step of StreamDataflowTask does.
LEMMA StreamTaskIs ==
    ASSUME NEW t, StreamTask(t)
    PROVE  /\ ops' = Streamed(t, Results(t))
           /\ tasks' = [u \in DOMAIN tasks |-> IdsOf(t, Results(t), u) \o tasks[u]]
           /\ ResultsOf(t, Results(t))
           /\ stage = "stream" /\ stage' = stage /\ streamed' = streamed \cup {t}
<1>1. ResultsOf(t, Results(t))
  BY DEF ResultsOf, Results
<1>2. /\ ops' = Streamed(t, Results(t))
      /\ tasks' = [u \in DOMAIN tasks |-> IdsOf(t, Results(t), u) \o tasks[u]]
  BY DEF StreamTask, FrontOf, RenamedOp, IdsOf, Streamed
<1>3. stage = "stream" /\ stage' = stage /\ streamed' = streamed \cup {t}
  BY DEF StreamTask
<1> QED
  BY <1>1, <1>2, <1>3

\* A result becomes a stream: all tasks stay in order, and of what is in the task only
\* reads are used outside of it.
LEMMA StreamTaskKeeps ==
    ASSUME IsBlock(ops), TasksState, \A u \in streamed : ByReads(ops, tasks, u),
           NEW t \in DOMAIN tasks, StreamTask(t)
    PROVE  IsBlock(ops') /\ TasksState' /\ \A u \in streamed' : ByReads(ops', tasks', u)
<1> DEFINE R == Results(t)
           n == Streamed(t, R)
           rs(u) == ReadsOf(t, R, u)
           is(u) == IdsOf(t, R, u)
           first(u) == Head(tasks[u])
           ts == [u \in DOMAIN tasks |-> is(u) \o tasks[u]]
<1>1. ops' = n /\ tasks' = ts /\ ResultsOf(t, R) /\ streamed' = streamed \cup {t}
  BY StreamTaskIs
<1> HIDE DEF R, ts
<1>2. /\ IsBlock(n)
      /\ Ids(ops) \subseteq Ids(n)
      /\ \A x \in Ids(n) \ Ids(ops) : \E u \in DOMAIN tasks : \E j \in 1..Len(rs(u)) : x = rs(u)[j].id
      /\ \A x \in Ids(ops) : OpOf(n, x) = RenamedOp(t, R, OpOf(ops, x))
      /\ \A u \in DOMAIN tasks : \A j \in 1..Len(rs(u)) :
            /\ rs(u)[j].id \in Ids(n) \ Ids(ops) /\ OpOf(n, rs(u)[j].id) = rs(u)[j]
            /\ rs(u)[j].kind = "read" /\ rs(u)[j].parent = 0
            /\ \E x \in R : rs(u)[j].id = ReadOf(x, u) /\ u # t
      /\ \A x, y \in Ids(ops) : Before(n, x, y) <=> Before(ops, x, y)
      /\ \A u \in DOMAIN tasks : \A j \in 1..Len(rs(u)) :
            /\ \A y \in Ids(ops) :
                  /\ Before(n, rs(u)[j].id, y) <=> y = first(u) \/ Before(ops, first(u), y)
                  /\ Before(n, y, rs(u)[j].id) <=> Before(ops, y, first(u))
            /\ \A v \in DOMAIN tasks : \A l \in 1..Len(rs(v)) :
                  Before(n, rs(u)[j].id, rs(v)[l].id) <=>
                     Before(ops, first(u), first(v)) \/ (u = v /\ j < l)
  <2>1. IsStreamed(t, R, n)
    BY <1>1, StreamedBlock
  <2> HIDE DEF n
  <2> QED
    BY <2>1 DEF IsStreamed
<1> HIDE DEF n
<1>3. \A u \in DOMAIN tasks : rs(u) \in Seq(ReadOps(u)) /\ DOMAIN rs(u) = 1..Len(rs(u)) /\ Len(rs(u)) \in Nat
  BY ReadsLayout
<1>4. \A u \in DOMAIN tasks : DOMAIN is(u) = 1..Len(rs(u)) /\ \A j \in 1..Len(rs(u)) : is(u)[j] = rs(u)[j].id
  BY <1>3 DEF IdsOf
<1> HIDE DEF rs, is
\* The operations of the block are what they were.
<1>5. ASSUME NEW x \in Ids(ops)
      PROVE  /\ x \in Ids(n) /\ OpOf(n, x).kind = OpOf(ops, x).kind /\ OpOf(n, x).parent = OpOf(ops, x).parent
             /\ \A y \in ToSet(OpOf(n, x).args) :
                   \/ y \in ToSet(OpOf(ops, x).args) /\ (y \notin R \/ x \in Members(t))
                   \/ \E z \in R \cap ToSet(OpOf(ops, x).args), u \in DOMAIN tasks :
                         u # t /\ x \in Members(u) /\ y = ReadOf(z, u)
  <2> DEFINE i == At(ops, x)
  <2>1. i \in DOMAIN ops /\ ops[i] = OpOf(ops, x) /\ ops[i].id = x
    BY BlockFacts
  <2> HIDE DEF i
  <2>2. IsRenamed(t, R, i)
    BY <1>1, <2>1, RenamedIs
  <2>3. OpOf(n, x) = RenamedOp(t, R, ops[i]) /\ x \in Ids(n)
    BY <1>2, <2>1
  <2> QED
    BY <2>1, <2>2, <2>3 DEF IsRenamed
<1>6. ASSUME NEW u \in DOMAIN tasks, NEW j \in 1..Len(rs(u))
      PROVE  is(u)[j] \in Working(n) /\ OpOf(n, is(u)[j]).kind = "read" /\ is(u)[j] \notin Ids(ops)
  BY <1>2, <1>4 DEF Working, Top
<1>7. \A x \in Ids(ops) : x \in Working(n) <=> x \in Working(ops)
  BY <1>5 DEF Working, Top
<1>8. /\ DOMAIN tasks = 1..Len(tasks) /\ Len(tasks) \in Nat /\ tasks \in Seq(Seq(Working(ops)))
      /\ \A u \in DOMAIN tasks : /\ tasks[u] \in Seq(Working(ops)) /\ tasks[u] # << >> /\ Increasing(ops, tasks[u])
                                 /\ ToSet(tasks[u]) \subseteq Working(ops) /\ ToSet(tasks[u]) \subseteq Ids(ops)
      /\ \A u, v \in DOMAIN tasks : u < v => AllBefore(ops, ToSet(tasks[u]), ToSet(tasks[v]))
  <2>1. tasks \in Seq(Seq(Working(ops)))
    BY DEF TasksState, AreTasks
  <2>2. \A u \in DOMAIN tasks : tasks[u] \in Seq(Working(ops)) /\ tasks[u] # << >> /\ Increasing(ops, tasks[u])
    BY <2>1 DEF TasksState, AreTasks
  <2>3. \A u \in DOMAIN tasks : ToSet(tasks[u]) \subseteq Working(ops)
    BY <2>2 DEF ToSet
  <2>4. Working(ops) \subseteq Ids(ops)
    BY DEF Working, Top
  <2>5. DOMAIN tasks = 1..Len(tasks) /\ Len(tasks) \in Nat
    BY <2>1
  <2>6. \A u, v \in DOMAIN tasks : u < v => AllBefore(ops, ToSet(tasks[u]), ToSet(tasks[v]))
    BY DEF TasksState, AreTasks
  <2> QED
    BY <2>1, <2>2, <2>3, <2>4, <2>5, <2>6
<1>9. \A u \in DOMAIN tasks : first(u) \in ToSet(tasks[u]) /\ \A x \in ToSet(tasks[u]) : x = first(u) \/ Before(ops, first(u), x)
  <2>1. \A u \in DOMAIN tasks : \A x \in ToSet(tasks[u]) : x \in Members(u)
    BY InTasks
  <2> QED
    BY <2>1, InTasks
\* The list of a task.
<1>10. ASSUME NEW u \in DOMAIN tasks
       PROVE  /\ is(u) \in Seq(Working(n)) /\ tasks[u] \in Seq(Working(n)) /\ Increasing(n, is(u))
              /\ \A x \in ToSet(is(u)) : x \in Ids(n) \ Ids(ops) /\ \E j \in 1..Len(rs(u)) : x = rs(u)[j].id
              /\ \A j \in 1..Len(rs(u)) : rs(u)[j].id \in ToSet(is(u))
  <2>1. Working(ops) \subseteq Working(n)
    BY <1>7 DEF Working, Top
  <2>2. \A A, B : A \subseteq B => Seq(A) \subseteq Seq(B)
    OBVIOUS
  <2>3. tasks[u] \in Seq(Working(n))
    BY <1>8, <2>1, <2>2
  <2>4. is(u) = [j \in 1..Len(rs(u)) |-> is(u)[j]]
    BY <1>4 DEF is, IdsOf
  <2>5. \A j \in 1..Len(rs(u)) : is(u)[j] \in Working(n)
    BY <1>6
  <2>6. is(u) \in [1..Len(rs(u)) -> Working(n)]
    BY <2>4, <2>5
  <2>7. is(u) \in Seq(Working(n))
    BY <1>3, <2>6, SequenceIs
  <2>8. Increasing(n, is(u))
    BY <1>2, <1>4 DEF Increasing
  <2>9. ToSet(is(u)) = {is(u)[j] : j \in 1..Len(rs(u))}
    BY <1>4 DEF ToSet
  <2>10. \A x \in ToSet(is(u)) : x \in Ids(n) \ Ids(ops) /\ \E j \in 1..Len(rs(u)) : x = rs(u)[j].id
    BY <1>2, <1>4, <2>9
  <2>11. \A j \in 1..Len(rs(u)) : rs(u)[j].id \in ToSet(is(u))
    BY <1>4, <2>9
  <2> QED
    BY <2>3, <2>7, <2>8, <2>10, <2>11
<1>11. ASSUME NEW u \in DOMAIN tasks, NEW v \in DOMAIN tasks
       PROVE  /\ u = v \/ u < v => AllBefore(n, ToSet(is(u)), ToSet(tasks[v]))
              /\ u < v => /\ AllBefore(n, ToSet(is(u)), ToSet(is(v)))
                          /\ AllBefore(n, ToSet(tasks[u]), ToSet(is(v)))
                          /\ AllBefore(n, ToSet(tasks[u]), ToSet(tasks[v]))
  <2>1. \A x \in ToSet(is(u)) : \E j \in 1..Len(rs(u)) : x = rs(u)[j].id
    BY <1>10
  <2>2. \A x \in ToSet(is(v)) : \E j \in 1..Len(rs(v)) : x = rs(v)[j].id
    BY <1>10
  <2>3. u < v => \A x \in ToSet(tasks[u]), y \in ToSet(tasks[v]) : Before(ops, x, y)
    BY <1>8 DEF AllBefore
  <2>4. \A x \in ToSet(tasks[u]) \cup ToSet(tasks[v]) : x \in Ids(ops)
    BY <1>8
  <2>5. u = v \/ u < v => \A y \in ToSet(tasks[v]) : y = first(u) \/ Before(ops, first(u), y)
    BY <1>9, <2>3
  <2>6. u = v \/ u < v => AllBefore(n, ToSet(is(u)), ToSet(tasks[v]))
    BY <1>2, <2>1, <2>4, <2>5 DEF AllBefore
  <2>7. u < v => Before(ops, first(u), first(v)) /\ \A x \in ToSet(tasks[u]) : Before(ops, x, first(v))
    BY <1>9, <2>3
  <2>8. u < v => AllBefore(n, ToSet(is(u)), ToSet(is(v)))
    BY <1>2, <2>1, <2>2, <2>7 DEF AllBefore
  <2>9. u < v => AllBefore(n, ToSet(tasks[u]), ToSet(is(v)))
    BY <1>2, <2>2, <2>4, <2>7 DEF AllBefore
  <2>10. u < v => AllBefore(n, ToSet(tasks[u]), ToSet(tasks[v]))
    BY <1>2, <2>3, <2>4 DEF AllBefore
  <2> QED
    BY <2>6, <2>8, <2>9, <2>10
<1>12. DOMAIN ts = DOMAIN tasks /\ \A u \in DOMAIN tasks : ts[u] = is(u) \o tasks[u]
  BY DEF ts
<1>13. ASSUME NEW u \in DOMAIN tasks
       PROVE  /\ ts[u] \in Seq(Working(n)) /\ ts[u] # << >> /\ Increasing(n, ts[u])
              /\ ToSet(ts[u]) = ToSet(is(u)) \cup ToSet(tasks[u])
  <2>1. ToSet(is(u) \o tasks[u]) = ToSet(is(u)) \cup ToSet(tasks[u])
    BY <1>10, JoinedLists
  <2>2. Increasing(n, tasks[u])
    <3>1. \A i \in DOMAIN tasks[u] : tasks[u][i] \in ToSet(tasks[u])
      BY DEF ToSet
    <3>2. \A i \in DOMAIN tasks[u] : tasks[u][i] \in Ids(ops)
      BY <1>8, <3>1
    <3> QED
      BY <1>2, <1>8, <3>2 DEF Increasing
  <2>3. AllBefore(n, ToSet(is(u)), ToSet(tasks[u]))
    BY <1>11
  <2>4. Increasing(n, is(u) \o tasks[u])
    BY <1>10, <2>2, <2>3, JoinedLists
  <2>5. is(u) \o tasks[u] \in Seq(Working(n)) /\ Len(is(u) \o tasks[u]) = Len(is(u)) + Len(tasks[u])
    BY <1>10, Joined
  <2>6. Len(is(u)) \in Nat /\ Len(tasks[u]) \in Nat \ {0}
    BY <1>8, <1>10
  <2>7. is(u) \o tasks[u] # << >>
    <3>1. Len(<< >>) = 0
      OBVIOUS
    <3> QED
      BY <2>5, <2>6, <3>1
  <2> QED
    BY <1>12, <2>1, <2>4, <2>5, <2>7
<1>14. AreTasks(n, ts)
  <2>1. ts \in Seq(Seq(Working(n)))
    <3>1. ts = [u \in 1..Len(tasks) |-> ts[u]]
      BY <1>8, <1>12 DEF ts
    <3>2. ts \in [1..Len(tasks) -> Seq(Working(n))]
      BY <1>8, <1>13, <3>1
    <3> QED
      BY <1>8, <3>2, SequenceIs
  <2>2. ASSUME NEW u \in DOMAIN tasks, NEW v \in DOMAIN tasks, u < v PROVE AllBefore(n, ToSet(ts[u]), ToSet(ts[v]))
    BY <1>11, <1>13, <2>2 DEF AllBefore
  <2> QED
    BY <1>12, <1>13, <2>1, <2>2 DEF AreTasks
<1>15. Working(n) \subseteq Elements(ts)
  <2>1. ASSUME NEW x \in Working(n), x \in Ids(ops) PROVE x \in Elements(ts)
    <3>1. x \in Elements(tasks)
      BY <1>7, <2>1 DEF TasksState
    <3>2. PICK u \in DOMAIN tasks : x \in ToSet(tasks[u])
      BY <3>1 DEF Elements
    <3> QED
      BY <1>12, <1>13, <3>2 DEF Elements
  <2>2. ASSUME NEW x \in Working(n), x \notin Ids(ops) PROVE x \in Elements(ts)
    <3>1. x \in Ids(n) \ Ids(ops)
      BY <2>2 DEF Working, Top
    <3>2. PICK u \in DOMAIN tasks : \E j \in 1..Len(rs(u)) : x = rs(u)[j].id
      BY <1>2, <3>1
    <3>3. x \in ToSet(is(u))
      BY <1>10, <3>2
    <3> QED
      BY <1>12, <1>13, <3>3 DEF Elements
  <2> QED
    BY <2>1, <2>2
<1>16. streamed \cup {t} \subseteq DOMAIN ts
  BY <1>12 DEF TasksState
\* What is in a task of the new block.
<1>17. ASSUME NEW u \in DOMAIN tasks, NEW x
       PROVE  /\ x \in Ids(ops) => (x \in InTask(n, ts, u) <=> x \in Members(u))
              /\ x \in InTask(n, ts, u) /\ x \notin Ids(ops) => x \in ToSet(is(u))
              /\ x \in Members(u) => x \in Ids(ops)
  <2>1. x \in ToSet(ts[u]) <=> x \in ToSet(is(u)) \/ x \in ToSet(tasks[u])
    BY <1>13
  <2>2. x \in Members(u) <=> x \in ToSet(tasks[u]) \/ (x \in Ids(ops) /\ OpOf(ops, x).parent \in ToSet(tasks[u]))
    BY DEF Members
  <2>3. x \in InTask(n, ts, u) <=> x \in ToSet(ts[u]) \/ (x \in Ids(n) /\ OpOf(n, x).parent \in ToSet(ts[u]))
    BY DEF InTask
  <2>4. x \in ToSet(tasks[u]) => x \in Ids(ops)
    BY <1>8
  <2>5. x \in ToSet(is(u)) => x \notin Ids(ops)
    BY <1>10
  <2>6. x \in Ids(ops) => x \in Ids(n) /\ (OpOf(n, x).parent \in ToSet(ts[u]) <=> OpOf(ops, x).parent \in ToSet(tasks[u]))
    <3>1. SUFFICES ASSUME x \in Ids(ops) PROVE OpOf(ops, x).parent \notin ToSet(is(u))
      BY <1>5, <1>13
    <3>2. OpOf(ops, x).parent = 0 \/ OpOf(ops, x).parent \in Ids(ops)
      BY <3>1, BlockParents
    <3>3. 0 \notin Ids(n)
      BY <1>2, BlockOps
    <3>4. ToSet(is(u)) \subseteq Ids(n)
      BY <1>10
    <3> QED
      BY <1>10, <3>2, <3>3, <3>4
  <2>7. x \in Ids(n) \ Ids(ops) => OpOf(n, x).parent = 0
    BY <1>2
  <2>8. 0 \notin ToSet(ts[u])
    <3>1. 0 \notin Ids(n)
      BY <1>2, BlockOps
    <3>2. ToSet(ts[u]) \subseteq Working(n)
      BY <1>13 DEF ToSet
    <3> QED
      BY <3>1, <3>2 DEF Working, Top
  <2> QED
    BY <2>1, <2>2, <2>3, <2>4, <2>5, <2>6, <2>7, <2>8
<1>18. ASSUME NEW u \in streamed \cup {t}, NEW x \in Ids(n) \ InTask(n, ts, u), NEW y \in InTask(n, ts, u),
              y \in ToSet(OpOf(n, x).args)
       PROVE  OpOf(n, x).kind = "read"
  <2>1. u \in DOMAIN tasks
    BY <1>12, <1>16
  <2>2. CASE x \notin Ids(ops)
    BY <1>2, <2>2
  <2>3. CASE x \in Ids(ops)
    <3>1. x \notin Members(u) /\ OpOf(n, x).kind = OpOf(ops, x).kind
      BY <1>5, <1>17, <2>1, <2>3
    <3>2. CASE y \in ToSet(OpOf(ops, x).args) /\ (y \notin R \/ x \in Members(t))
      <4>1. y \in Ids(ops)
        <5>1. y \in Ids(n)
          <6>1. ToSet(ts[u]) \subseteq Working(n)
            BY <1>13, <2>1 DEF ToSet
          <6> QED
            BY <6>1 DEF InTask, Working, Top
        <5>2. y > 0
          BY <1>2, <5>1, BlockOps
        <5> QED
          BY <2>3, <3>2, <5>2, BlockUses
      <4>2. y \in Members(u)
        BY <1>17, <2>1, <4>1
      <4>3. CASE u \in streamed
        <5>1. ByReads(ops, tasks, u)
          BY <4>3
        <5>2. InTask(ops, tasks, u) = Members(u)
          BY DEF InTask, Members
        <5> QED
          BY <2>3, <3>1, <3>2, <4>2, <5>1, <5>2 DEF ByReads
      <4>4. CASE u = t
        <5>1. y \notin R
          BY <3>1, <3>2, <4>4
        <5>2. PICK v \in DOMAIN tasks : x \in Members(v)
          BY <2>3, <3>2, InTasks
        <5>3. v # t
          BY <3>1, <4>4, <5>2
        <5>4. v \in TasksUsing(y) \ {t}
          BY <3>2, <5>2, <5>3 DEF TasksUsing
        <5>5. y \notin ToSet(tasks[t])
          BY <1>1, <5>1, <5>4 DEF ResultsOf
        <5>6. OpOf(ops, y).parent # 0 /\ OpOf(ops, y).parent \in ToSet(tasks[t])
          BY <4>2, <4>4, <5>5, InTasks
        <5>7. y > 0
          BY <4>1, BlockOps
        <5>8. Dominates(ops, y, x)
          BY <2>3, <3>2, <5>7, BlockUses
        <5>9. OpOf(ops, x).parent = OpOf(ops, y).parent
          BY <5>6, <5>8 DEF Dominates, SameRegion, BlockOf
        <5>10. x \in Members(t)
          BY <2>3, <5>6, <5>9 DEF Members
        <5> QED
          BY <3>1, <4>4, <5>10
      <4> QED
        BY <4>3, <4>4
    <3>3. CASE \E z \in R \cap ToSet(OpOf(ops, x).args), v \in DOMAIN tasks :
                  v # t /\ x \in Members(v) /\ y = ReadOf(z, v)
      <4>1. PICK z \in R, v \in DOMAIN tasks : v # t /\ x \in Members(v) /\ y = ReadOf(z, v)
        BY <3>3
      <4>2. z \in Ids(ops)
        BY <1>1, <1>8 DEF ResultsOf
      <4>3. y \notin Ids(ops)
        BY <4>1, <4>2, ReadIds
      <4>4. y \in ToSet(is(u))
        BY <1>17, <2>1, <4>3
      <4>5. PICK j \in 1..Len(rs(u)) : y = rs(u)[j].id
        BY <1>10, <2>1, <4>4
      <4>6. PICK w \in R : y = ReadOf(w, u)
        BY <1>2, <2>1, <4>5
      <4>7. w \in Ids(ops)
        BY <1>1, <1>8 DEF ResultsOf
      <4>8. u = v
        <5>1. ReadOf(z, v) = ReadOf(w, u)
          BY <4>1, <4>6
        <5> QED
          BY <2>1, <4>2, <4>7, <5>1, ReadIds
      <4> QED
        BY <3>1, <4>1, <4>8
    <3> QED
      BY <1>5, <1>18, <2>3, <3>2, <3>3
  <2> QED
    BY <2>2, <2>3
<1>19. \A u \in streamed \cup {t} : ByReads(n, ts, u)
  BY <1>18 DEF ByReads
<1> QED
  BY <1>1, <1>2, <1>14, <1>15, <1>16, <1>19 DEF TasksState

-----------------------------------------------------------------------------
(* The invariant of the front end *)

SimplifyInv == stage \in {"copies", "ifs"} => NothingToErase
LoadsInv == stage = "loads" => LoadsState
StoresInv == stage = "stores" => StoresState
UntaskedInv == stage \in {"copies", "ifs", "loads", "stores", "dispatch"} => NoTasks /\ streamed = {}
PartitionInv == stage = "partition" => PartitionState /\ streamed = {}
TasksInv ==
    stage \in {"stream", "lower", "lowered", "rejected"} =>
        /\ TasksState
        /\ \A u \in streamed : ByReads(ops, tasks, u)
        /\ stage # "stream" => streamed = DOMAIN tasks

\* What each pass finds when it begins, and keeps.
FrontEndInv ==
    /\ IsBlock(ops)
    /\ SimplifyInv /\ LoadsInv /\ StoresInv /\ UntaskedInv /\ PartitionInv /\ TasksInv

\* The passes begin with a block, and without tasks.
LEMMA FrontEndInit == Init => FrontEndInv
<1> SUFFICES ASSUME Init PROVE FrontEndInv
  OBVIOUS
<1>1. IsBlock(ops)
  BY DEF Init, ForwardInit, WellFormed
<1>2. stage \in {"copies", "ifs"} /\ NothingToErase /\ NoTasks /\ streamed = {}
  BY DEF Init, ForwardInit, First, NothingToErase, NoTasks
<1> QED
  BY <1>1, <1>2 DEF FrontEndInv, SimplifyInv, LoadsInv, StoresInv, UntaskedInv, PartitionInv, TasksInv

\* A simplification keeps it.
LEMMA SimplificationsKeep ==
    ASSUME FrontEndInv, Simplifications
    PROVE  FrontEndInv'
<1>1. stage \in {"copies", "ifs"} /\ UNCHANGED dataflowVars
  BY DEF Simplifications, SimplifyCopies, SimplifyAffineIf
<1>2. IsBlock(ops) /\ NothingToErase /\ NoTasks /\ streamed = {}
  BY <1>1 DEF FrontEndInv, SimplifyInv, UntaskedInv
<1>3. IsBlock(ops') /\ ((stage' = stage /\ NothingToErase') \/ (stage' = "loads" /\ LoadsState'))
  <2>1. CASE SimplifyCopies
    BY ONLY <1>2, <2>1, SimplifyCopiesKeeps
  <2>2. CASE SimplifyAffineIf
    BY ONLY <1>2, <2>2, SimplifyAffineIfKeeps
  <2> QED
    BY <2>1, <2>2 DEF Simplifications
<1>4. NoTasks' /\ streamed' = {}
  BY <1>1, <1>2 DEF NoTasks, dataflowVars
<1> QED
  BY <1>1, <1>3, <1>4 DEF FrontEndInv, SimplifyInv, LoadsInv, StoresInv, UntaskedInv, PartitionInv, TasksInv

\* So does a step of AffineStoreForward.
LEMMA ForwardKeeps ==
    ASSUME FrontEndInv, Forward
    PROVE  FrontEndInv'
<1>1. stage \in {"loads", "stores"} /\ UNCHANGED dataflowVars
  BY DEF Forward, StoreForward, VisitLoad, EraseLoads, FindUnusedStore, EraseStores
<1>2. /\ IsBlock(ops) /\ NoTasks /\ streamed = {}
      /\ stage = "loads" => LoadsState
      /\ stage = "stores" => StoresState
  BY <1>1 DEF FrontEndInv, LoadsInv, StoresInv, UntaskedInv
<1>3. NoTasks' /\ streamed' = {}
  BY <1>1, <1>2 DEF NoTasks, dataflowVars
<1>4. /\ IsBlock(ops')
      /\ \/ stage' = "loads" /\ LoadsState'
         \/ stage' = "stores" /\ StoresState'
         \/ stage' \in {"crashed", "optimized", "dispatch"}
  <2>1. CASE VisitLoad
    <3>1. stage = "loads" /\ stage' = stage
      BY <2>1 DEF VisitLoad
    <3> QED
      BY <1>2, <2>1, <3>1, VisitLoadKeeps
  <2>2. CASE EraseLoads
    <3>1. stage = "loads" /\ stage' = "stores"
      BY <2>2 DEF EraseLoads
    <3>2. IsBlock(ops') /\ walk' \in Seq(OfKind(ops', "store")) /\ opsToErase' = {}
      BY <1>2, <2>2, <3>1, EraseLoadsKeeps
    <3>3. StoresState'
      BY <3>2 DEF StoresState
    <3> QED
      BY <3>1, <3>2, <3>3
  <2>3. CASE FindUnusedStore
    <3>1. stage = "stores" /\ stage' \in {"stores", "crashed"}
      BY <2>3 DEF FindUnusedStore
    <3> QED
      BY <1>2, <2>3, <3>1, FindUnusedStoreKeeps
  <2>4. CASE EraseStores
    <3>1. stage = "stores" /\ stage' \in {"optimized", "dispatch"}
      BY <2>4 DEF EraseStores, Behind
    <3> QED
      BY <1>2, <2>4, <3>1, EraseStoresKeeps
  <2> QED
    BY <2>1, <2>2, <2>3, <2>4 DEF Forward, StoreForward
<1> QED
  BY <1>3, <1>4 DEF FrontEndInv, SimplifyInv, LoadsInv, StoresInv, UntaskedInv, PartitionInv, TasksInv

\* So does CreateDataflowFromAffine.
LEMMA DispatchKeeps ==
    ASSUME FrontEndInv, DispatchBlock \/ Partition \/ Terminator
    PROVE  FrontEndInv'
<1>1. CASE DispatchBlock
  <2>1. stage = "dispatch" /\ ops' = ops /\ streamed' = streamed
    BY <1>1 DEF DispatchBlock, forwardVars
  <2>2. IsBlock(ops) /\ NoTasks /\ streamed = {}
    BY <2>1 DEF FrontEndInv, UntaskedInv
  <2>3. stage' = "inlined" \/ (stage' = "partition" /\ PartitionState')
    BY <1>1, <2>2, DispatchBegins
  <2> QED
    BY <2>1, <2>2, <2>3 DEF FrontEndInv, SimplifyInv, LoadsInv, StoresInv, UntaskedInv, PartitionInv, TasksInv
<1>2. CASE Partition
  <2>1. stage = "partition" /\ stage' = stage /\ streamed' = streamed
    BY <1>2 DEF Partition
  <2>2. IsBlock(ops) /\ PartitionState /\ streamed = {}
    BY <2>1 DEF FrontEndInv, PartitionInv
  <2>3. IsBlock(ops') /\ PartitionState'
    BY <1>2, <2>2, PartitionKeeps
  <2> QED
    BY <2>1, <2>2, <2>3 DEF FrontEndInv, SimplifyInv, LoadsInv, StoresInv, UntaskedInv, PartitionInv, TasksInv
<1>3. CASE Terminator
  <2>1. stage = "partition" /\ streamed' = streamed
    BY <1>3 DEF Terminator
  <2>2. IsBlock(ops) /\ PartitionState /\ streamed = {}
    BY <2>1 DEF FrontEndInv, PartitionInv
  <2>3. /\ IsBlock(ops') /\ stage' \in {"inlined", "stream"}
        /\ stage' = "stream" => AreTasks(ops', tasks') /\ Working(ops') \subseteq Elements(tasks')
    BY <1>3, <2>2, TerminatorKeeps
  <2>4. stage' = "stream" => TasksState' /\ streamed' = {}
    BY <2>1, <2>2, <2>3 DEF TasksState
  <2> QED
    BY <2>3, <2>4 DEF FrontEndInv, SimplifyInv, LoadsInv, StoresInv, UntaskedInv, PartitionInv, TasksInv
<1> QED
  BY <1>1, <1>2, <1>3

\* So do StreamDataflowTask, and what is behind it.
LEMMA StreamKeeps ==
    ASSUME FrontEndInv, (\E t \in DOMAIN tasks : StreamTask(t)) \/ Verify \/ Lower
    PROVE  FrontEndInv'
<1>1. IsBlock(ops)
  BY DEF FrontEndInv
<1>2. CASE \E t \in DOMAIN tasks : StreamTask(t)
  <2>1. PICK t \in DOMAIN tasks : StreamTask(t)
    BY <1>2
  <2>2. stage = "stream" /\ stage' = stage
    BY <2>1 DEF StreamTask
  <2>3. TasksState /\ \A u \in streamed : ByReads(ops, tasks, u)
    BY <2>2 DEF FrontEndInv, TasksInv
  <2>4. IsBlock(ops') /\ TasksState' /\ \A u \in streamed' : ByReads(ops', tasks', u)
    BY <1>1, <2>1, <2>3, StreamTaskKeeps
  <2> QED
    BY <2>2, <2>4 DEF FrontEndInv, SimplifyInv, LoadsInv, StoresInv, UntaskedInv, PartitionInv, TasksInv
<1>3. CASE Verify \/ Lower
  <2>1. /\ stage \in {"stream", "lower"} /\ stage' \in {"lower", "rejected", "lowered"}
        /\ ops' = ops /\ tasks' = tasks /\ streamed' = streamed
        /\ stage = "stream" => streamed = DOMAIN tasks
    BY <1>3 DEF Verify, Lower, forwardVars, dataflowVars
  <2>2. TasksState /\ (\A u \in streamed : ByReads(ops, tasks, u)) /\ streamed = DOMAIN tasks
    BY <2>1 DEF FrontEndInv, TasksInv
  <2>3. TasksState'
    BY <2>1, <2>2 DEF TasksState
  <2> QED
    BY <1>1, <2>1, <2>2, <2>3 DEF FrontEndInv, SimplifyInv, LoadsInv, StoresInv, UntaskedInv, PartitionInv, TasksInv
<1> QED
  BY <1>2, <1>3

\* Each step of the front end keeps it.
LEMMA FrontEndStep == FrontEndInv /\ [Next]_vars => FrontEndInv'
<1> SUFFICES ASSUME FrontEndInv, [Next]_vars PROVE FrontEndInv'
  OBVIOUS
<1>1. CASE Next
  BY <1>1, SimplificationsKeep, ForwardKeeps, DispatchKeeps, StreamKeeps DEF Next
<1>2. CASE UNCHANGED vars
  <2>1. /\ UNCHANGED <<p, ops, returned, walk, current, opsToErase, memrefsToErase>>
        /\ UNCHANGED <<stage, rest, opsToFuse, tasks, streamed>>
    BY <1>2 DEF vars, forwardVars, dataflowVars
  <2>2. /\ NothingToErase' = NothingToErase /\ LoadsState' = LoadsState /\ StoresState' = StoresState
        /\ NoTasks' = NoTasks /\ PartitionState' = PartitionState /\ TasksState' = TasksState
    BY <2>1 DEF NothingToErase, LoadsState, StoresState, NoTasks, PartitionState, TasksState
  <2> QED
    BY <2>1, <2>2 DEF FrontEndInv, SimplifyInv, LoadsInv, StoresInv, UntaskedInv, PartitionInv, TasksInv
<1> QED
  BY <1>1, <1>2

\* In every state of the front end the block is one, and the tasks are.
THEOREM FrontEndInvariant == Spec => []FrontEndInv
<1> QED
  BY FrontEndInit, FrontEndStep, PTL DEF Spec

\* Whatever is forwarded, hoisted, merged, erased or streamed, each value that is
\* used is defined by an operation in front of the user that is still there.
THEOREM ValuesStayDefined == Spec => []UsesDominated
<1>1. FrontEndInv => UsesDominated
  <2> SUFFICES ASSUME FrontEndInv, NEW i \in DOMAIN ops, NEW x \in ToSet(ops[i].args), x > 0
               PROVE  x \in Ids(ops) /\ Dominates(ops, x, ops[i].id)
    BY DEF UsesDominated
  <2>1. IsBlock(ops)
    BY DEF FrontEndInv
  <2>2. ops[i].id \in Ids(ops) /\ OpOf(ops, ops[i].id) = ops[i]
    BY <2>1, BlockFacts
  <2> QED
    BY <2>1, <2>2, BlockUses
<1> QED
  BY <1>1, FrontEndInvariant, PTL

-----------------------------------------------------------------------------
(* The tasks, ready to be lowered *)

\* An increasing list whose elements another one has is equal to it as far as it goes.
LEMMA NoFirstDifference ==
    ASSUME NEW b, IsBlock(b), NEW s \in Seq(Ids(b)), NEW m \in Seq(Ids(b)),
           Increasing(b, s), Increasing(b, m), ToSet(s) = ToSet(m),
           NEW k \in DOMAIN s, \A i \in 1..(k - 1) : i \in DOMAIN s /\ i \in DOMAIN m /\ s[i] = m[i]
    PROVE  k \in DOMAIN m /\ s[k] = m[k]
<1>1. /\ DOMAIN s = 1..Len(s) /\ DOMAIN m = 1..Len(m) /\ Len(s) \in Nat /\ Len(m) \in Nat
      /\ \A i \in DOMAIN s : s[i] \in Ids(b)
      /\ \A i \in DOMAIN m : m[i] \in Ids(b)
  OBVIOUS
<1>2. \A x, y \in Ids(b) : Before(b, x, y) => x # y /\ ~Before(b, y, x)
  BY BlockOrder
<1>3. PICK j \in DOMAIN m : m[j] = s[k]
  BY DEF ToSet
<1>4. ~(j < k)
  <2>1. SUFFICES ASSUME j < k PROVE FALSE
    OBVIOUS
  <2>2. j \in 1..(k - 1)
    BY <1>1, <2>1
  <2>3. j \in DOMAIN s /\ s[j] = s[k]
    BY <1>3, <2>2
  <2> QED
    BY <1>1, <1>2, <2>1, <2>3 DEF Increasing
<1>5. SUFFICES ASSUME j > k PROVE FALSE
  BY <1>1, <1>3, <1>4
<1>6. k \in DOMAIN m
  BY <1>1, <1>5
<1>7. PICK i \in DOMAIN s : s[i] = m[k]
  BY <1>6 DEF ToSet
<1>8. Before(b, m[k], s[k])
  BY <1>1, <1>3, <1>5, <1>6 DEF Increasing
<1>9. ~(i < k)
  <2>1. SUFFICES ASSUME i < k PROVE FALSE
    OBVIOUS
  <2>2. i \in 1..(k - 1)
    BY <1>1, <2>1
  <2>3. i \in DOMAIN m /\ m[i] = m[k]
    BY <1>7, <2>2
  <2> QED
    BY <1>1, <1>2, <1>6, <2>1, <2>3 DEF Increasing
<1>10. i # k
  BY <1>1, <1>2, <1>6, <1>7, <1>8
<1>11. Before(b, s[k], m[k])
  <2>1. k < i
    BY <1>1, <1>9, <1>10
  <2> QED
    BY <1>7, <2>1 DEF Increasing
<1> QED
  BY <1>1, <1>2, <1>6, <1>8, <1>11

\* Two increasing lists of the same operations are one.
LEMMA SameList ==
    ASSUME NEW b, IsBlock(b), NEW s \in Seq(Ids(b)), NEW m \in Seq(Ids(b)),
           Increasing(b, s), Increasing(b, m), ToSet(s) = ToSet(m)
    PROVE  s = m
<1> DEFINE Alike(i) == i \in DOMAIN s /\ i \in DOMAIN m /\ s[i] = m[i]
           D == {k \in Nat : (k \in DOMAIN s \/ k \in DOMAIN m) /\ ~Alike(k)}
<1>1. DOMAIN s = 1..Len(s) /\ DOMAIN m = 1..Len(m) /\ Len(s) \in Nat /\ Len(m) \in Nat
  OBVIOUS
<1>2. D = {}
  <2>1. SUFFICES ASSUME D # {} PROVE FALSE
    OBVIOUS
  <2>2. PICK k \in D : \A y \in D : k <= y
    <3>1. D \in SUBSET Nat
      OBVIOUS
    <3> HIDE DEF D
    <3> QED
      BY <2>1, <3>1, LeastNat
  <2>3. k \in Nat /\ (k \in DOMAIN s \/ k \in DOMAIN m) /\ ~Alike(k)
    OBVIOUS
  <2>4. \A i \in 1..(k - 1) : Alike(i)
    <3>1. SUFFICES ASSUME NEW i \in 1..(k - 1), ~Alike(i) PROVE FALSE
      OBVIOUS
    <3>2. i \in Nat /\ i < k /\ (i \in DOMAIN s \/ i \in DOMAIN m)
      BY <1>1, <2>3
    <3>3. i \in D
      BY <3>1, <3>2
    <3> HIDE DEF D
    <3> QED
      BY <2>2, <2>3, <3>2, <3>3
  <2>5. CASE k \in DOMAIN s
    <3>1. k \in DOMAIN m /\ s[k] = m[k]
      BY <2>4, <2>5, NoFirstDifference
    <3> QED
      BY <2>3, <2>5, <3>1
  <2>6. CASE k \in DOMAIN m
    <3>1. k \in DOMAIN s /\ m[k] = s[k]
      BY <2>4, <2>6, NoFirstDifference
    <3> QED
      BY <2>3, <2>6, <3>1
  <2> QED
    BY <2>3, <2>5, <2>6
<1>3. \A i \in Nat : i \in DOMAIN s \/ i \in DOMAIN m => Alike(i)
  BY <1>2
<1>4. Len(s) = Len(m)
  <2>1. \A i \in Nat : i \in 1..Len(s) <=> i \in 1..Len(m)
    BY <1>1, <1>3
  <2>2. \A x, y \in Nat : (\A i \in Nat : i \in 1..x <=> i \in 1..y) => x <= y
    <3>1. SUFFICES ASSUME NEW x \in Nat, NEW y \in Nat, \A i \in Nat : i \in 1..x <=> i \in 1..y PROVE x <= y
      OBVIOUS
    <3>2. x \in 1..x <=> x \in 1..y
      BY <3>1
    <3> QED
      BY <3>2
  <2>3. Len(s) <= Len(m) /\ Len(m) <= Len(s)
    BY <1>1, <2>1, <2>2
  <2>4. \A x, y \in Nat : x <= y /\ y <= x => x = y
    OBVIOUS
  <2>5. Len(s) \in Nat /\ Len(m) \in Nat
    BY <1>1
  <2> QED
    BY ONLY <2>3, <2>4, <2>5
<1>5. \A i \in 1..Len(s) : s[i] = m[i]
  BY <1>1, <1>3
<1> QED
  BY <1>4, <1>5

\* The operations of all tasks, one list behind the other, are in the order of the block.
LEMMA TasksInOrder ==
    ASSUME NEW b, IsBlock(b), NEW ts, AreTasks(b, ts)
    PROVE  /\ FlattenSeq(ts) \in Seq(Working(b)) /\ ToSet(FlattenSeq(ts)) = Elements(ts)
           /\ Increasing(b, FlattenSeq(ts))
<1> DEFINE s == FlattenSeq(ts)
           P == Place(ts)
<1>1. /\ ts \in Seq(Seq(Working(b)))
      /\ \A t \in DOMAIN ts : Increasing(b, ts[t])
      /\ \A t, u \in DOMAIN ts : t < u => AllBefore(b, ToSet(ts[t]), ToSet(ts[u]))
  BY DEF AreTasks
<1>2. s \in Seq(Working(b)) /\ \E at : IsLayout(P, ts, s, at)
  BY <1>1, Flattened
<1>3. PICK at : IsLayout(P, ts, s, at)
  BY <1>2
<1> HIDE DEF s
<1>4. /\ \A q, r \in P : Earlier(q, r) <=> at[q] < at[r]
      /\ \A q \in P : at[q] \in 1..Len(s) /\ s[at[q]] = OpAt(ts, q)
      /\ \A k \in 1..Len(s) : \E q \in P : at[q] = k
  <2>1. /\ \A q, r \in P : Earlier(q, r) <=> at[q] < at[r]
        /\ \A q \in P : at[q] \in 1..Len(s) /\ s[at[q]] = OpAt(ts, q)
    BY <1>3, LayoutOrder
  <2>2. \A k \in 1..Len(s) : \E q \in P : at[q] = k
    BY <1>3 DEF IsLayout
  <2> QED
    BY <2>1, <2>2
<1>5. DOMAIN s = 1..Len(s) /\ Len(s) \in Nat
  BY <1>2
<1>6. DOMAIN ts = 1..Len(ts) /\ \A t \in DOMAIN ts : DOMAIN ts[t] = 1..Len(ts[t]) /\ Len(ts[t]) \in Nat
  BY <1>1
<1>7. \A q \in P : q[1] \in DOMAIN ts /\ q[2] \in DOMAIN ts[q[1]] /\ OpAt(ts, q) = ts[q[1]][q[2]]
  BY <1>6 DEF Place, OpAt
<1>8. \A t \in DOMAIN ts : \A j \in DOMAIN ts[t] : <<t, j>> \in P /\ OpAt(ts, <<t, j>>) = ts[t][j]
  BY <1>6 DEF Place, OpAt
<1> HIDE DEF P
<1>9. \A x : x \in ToSet(s) => x \in Elements(ts)
  <2>1. SUFFICES ASSUME NEW k \in 1..Len(s) PROVE s[k] \in Elements(ts)
    BY <1>5 DEF ToSet
  <2>2. PICK q \in P : at[q] = k
    BY <1>4
  <2>3. s[k] = ts[q[1]][q[2]] /\ q[1] \in DOMAIN ts /\ q[2] \in DOMAIN ts[q[1]]
    BY <1>4, <1>7, <2>2
  <2>4. s[k] \in ToSet(ts[q[1]])
    BY <2>3 DEF ToSet
  <2> QED
    BY <2>3, <2>4 DEF Elements
<1>10. \A x : x \in Elements(ts) => x \in ToSet(s)
  <2>1. SUFFICES ASSUME NEW t \in DOMAIN ts, NEW x \in ToSet(ts[t]) PROVE x \in ToSet(s)
    BY DEF Elements
  <2>2. PICK j \in DOMAIN ts[t] : x = ts[t][j]
    BY DEF ToSet
  <2>3. at[<<t, j>>] \in DOMAIN s /\ s[at[<<t, j>>]] = x
    BY <1>4, <1>5, <1>8, <2>2
  <2> QED
    BY <2>3 DEF ToSet
<1>11. ASSUME NEW i \in DOMAIN s, NEW j \in DOMAIN s, i < j PROVE Before(b, s[i], s[j])
  <2>1. PICK q \in P : at[q] = i
    BY <1>4, <1>5
  <2>2. PICK r \in P : at[r] = j
    BY <1>4, <1>5
  <2>3. Earlier(q, r)
    BY <1>4, <1>11, <2>1, <2>2
  <2>4. /\ s[i] = ts[q[1]][q[2]] /\ q[1] \in DOMAIN ts /\ q[2] \in DOMAIN ts[q[1]]
        /\ s[j] = ts[r[1]][r[2]] /\ r[1] \in DOMAIN ts /\ r[2] \in DOMAIN ts[r[1]]
    BY <1>4, <1>7, <2>1, <2>2
  <2>5. CASE q[1] < r[1]
    <3>1. s[i] \in ToSet(ts[q[1]]) /\ s[j] \in ToSet(ts[r[1]])
      BY <2>4 DEF ToSet
    <3> QED
      BY <1>1, <2>4, <2>5, <3>1 DEF AllBefore
  <2>6. CASE q[1] = r[1] /\ q[2] < r[2]
    BY <1>1, <2>4, <2>6 DEF Increasing
  <2> QED
    BY <2>3, <2>5, <2>6 DEF Earlier
<1>12. Increasing(b, s)
  BY <1>11 DEF Increasing
<1> QED
  BY <1>2, <1>9, <1>10, <1>12 DEF s

\* What LowerDataflow finds: all operations are in tasks, and use values of others
\* through streams.
LEMMA ReadyInvariant == FrontEndInv => (stage \in {"lower", "lowered"} => AllInTasks /\ StreamsBetween)
<1> SUFFICES ASSUME FrontEndInv, stage \in {"lower", "lowered"} PROVE AllInTasks /\ StreamsBetween
  OBVIOUS
<1>1. IsBlock(ops) /\ TasksState /\ \A u \in DOMAIN tasks : ByReads(ops, tasks, u)
  BY DEF FrontEndInv, TasksInv
<1>2. AllInTasks
  <2> DEFINE S == {i \in DOMAIN ops : ops[i].parent = 0 /\ ops[i].kind # "alloc"}
             m == InOrder(ops, S)
             s == FlattenSeq(tasks)
  <2>1. /\ s \in Seq(Working(ops)) /\ ToSet(s) = Elements(tasks) /\ Increasing(ops, s)
    BY <1>1, TasksInOrder DEF TasksState
  <2>2. /\ m \in Seq({ops[i].id : i \in S}) /\ ToSet(m) = {ops[i].id : i \in S}
        /\ \A j, k \in DOMAIN m : j < k <=> Before(ops, m[j], m[k])
    BY <1>1, InOrderLayout
  <2>3. {ops[i].id : i \in S} = Working(ops)
    <3>1. /\ \A i \in DOMAIN ops : ops[i].id \in Ids(ops) /\ OpOf(ops, ops[i].id) = ops[i]
          /\ \A x \in Ids(ops) : At(ops, x) \in DOMAIN ops /\ ops[At(ops, x)].id = x /\ OpOf(ops, x) = ops[At(ops, x)]
      BY <1>1, BlockFacts
    <3> QED
      BY <3>1 DEF Working, Top
  <2> HIDE DEF S, m, s
  <2>4. Working(ops) \subseteq Ids(ops)
    BY DEF Working, Top
  <2>5. \A A, B : A \subseteq B => Seq(A) \subseteq Seq(B)
    OBVIOUS
  <2>6. s \in Seq(Ids(ops)) /\ m \in Seq(Ids(ops))
    BY <2>1, <2>2, <2>3, <2>4, <2>5
  <2>7. Increasing(ops, m)
    BY <2>2 DEF Increasing
  <2>8. Elements(tasks) = Working(ops)
    <3>1. Working(ops) \subseteq Elements(tasks)
      BY <1>1 DEF TasksState
    <3>2. \A t \in DOMAIN tasks : ToSet(tasks[t]) \subseteq Working(ops)
      <4>1. tasks \in Seq(Seq(Working(ops)))
        BY <1>1 DEF TasksState, AreTasks
      <4>2. \A t \in DOMAIN tasks : tasks[t] \in Seq(Working(ops))
        BY <4>1
      <4> QED
        BY <4>2 DEF ToSet
    <3> QED
      BY <3>1, <3>2 DEF Elements
  <2>9. ToSet(s) = ToSet(m)
    BY <2>1, <2>2, <2>3, <2>8
  <2>10. s = m
    BY <1>1, <2>1, <2>6, <2>7, <2>9, SameList
  <2> QED
    BY <2>10 DEF s, m, S, AllInTasks
<1>3. StreamsBetween
  <2>1. SUFFICES ASSUME NEW t \in DOMAIN tasks, NEW u \in DOMAIN tasks, t # u,
                        NEW x \in Members(t), NEW y \in Members(u), y \in ToSet(OpOf(ops, x).args)
                 PROVE  OpOf(ops, x).kind = "read"
    BY DEF StreamsBetween
  <2>2. x \in Ids(ops) /\ x \notin Members(u)
    BY <1>1, <2>1, InTasks
  <2>3. InTask(ops, tasks, u) = Members(u)
    BY DEF InTask, Members
  <2> QED
    BY <1>1, <2>1, <2>2, <2>3 DEF ByReads
<1> QED
  BY <1>2, <1>3

\* When the dataflow is lowered, each operation is in one task, the tasks are in the
\* order of the block, and a value goes from one to another by a stream only.
THEOREM TasksReady == Spec => [](stage \in {"lower", "lowered"} => AllInTasks /\ StreamsBetween)
<1> QED
  BY ReadyInvariant, FrontEndInvariant, PTL

-----------------------------------------------------------------------------
(* The block, and the function as AffineStoreForward found it *)

\* Loads may go.
Lasting(q) == {x \in Ids(q) : OpOf(q, x).kind # "load"}

\* What is left of an if that is gone is the operation that was in it.
Gone(q, b, x) ==
    OpOf(q, x).kind = "if" /\ \E s \in Lasting(q) \cap Ids(b) : OpOf(q, s).parent = x /\ OpOf(b, s).parent = 0

\* The block b comes of the block q: but for loads and selects its operations are those
\* of q in the same order, and what is not in its if any more was alone in it.
Follows(q, b) ==
    /\ \A x \in Ids(b) \ Lasting(q) : OpOf(b, x).kind \in {"load", "select"}
    /\ \A x \in Lasting(q) \ Ids(b) : Gone(q, b, x)
    /\ \A x \in Lasting(q) \cap Ids(b) :
          /\ OpOf(b, x).kind = OpOf(q, x).kind
          /\ OpOf(b, x).mem = OpOf(q, x).mem /\ OpOf(b, x).addr = OpOf(q, x).addr
          /\ OpOf(b, x).parent # OpOf(q, x).parent =>
                OpOf(b, x).parent = 0 /\ OpOf(q, x).parent \notin Ids(b)
    /\ \A x, y \in Lasting(q) \cap Ids(b) : Before(b, x, y) <=> Before(q, x, y)
    /\ \A x \in Lasting(q) : \E m \in Ids(b) : OpOf(b, m).kind # "load" /\ x <= m

\* A block comes of itself.
LEMMA FollowsItself ==
    ASSUME NEW q, IsBlock(q)
    PROVE  Follows(q, q)
<1>1. \A x \in Ids(q) : x <= x
  <2>1. \A x \in Ids(q) : x \in Nat
    BY BlockOps
  <2> QED
    BY <2>1
<1> QED
  BY <1>1 DEF Follows, Lasting

\* Uses do not matter to it.
LEMMA FollowsWithOtherUses ==
    ASSUME NEW q, NEW b, NEW c, Follows(q, b), Ids(c) = Ids(b),
           \A x \in Ids(b) : /\ At(c, x) = At(b, x)
                             /\ OpOf(c, x).kind = OpOf(b, x).kind /\ OpOf(c, x).parent = OpOf(b, x).parent
                             /\ OpOf(c, x).mem = OpOf(b, x).mem /\ OpOf(c, x).addr = OpOf(b, x).addr
    PROVE  Follows(q, c)
<1>1. \A x \in Lasting(q) : Gone(q, b, x) => Gone(q, c, x)
  BY DEF Gone
<1>2. \A x, y \in Ids(b) : Before(c, x, y) <=> Before(b, x, y)
  BY DEF Before
<1>3. \A x \in Ids(c) \ Lasting(q) : OpOf(c, x).kind \in {"load", "select"}
  BY DEF Follows
<1>4. \A x \in Lasting(q) \ Ids(c) : Gone(q, c, x)
  BY <1>1 DEF Follows
<1>5. \A x \in Lasting(q) \cap Ids(c) :
          /\ OpOf(c, x).kind = OpOf(q, x).kind
          /\ OpOf(c, x).mem = OpOf(q, x).mem /\ OpOf(c, x).addr = OpOf(q, x).addr
          /\ OpOf(c, x).parent # OpOf(q, x).parent =>
                OpOf(c, x).parent = 0 /\ OpOf(q, x).parent \notin Ids(c)
  BY DEF Follows
<1>6. \A x, y \in Lasting(q) \cap Ids(c) : Before(c, x, y) <=> Before(q, x, y)
  BY <1>2 DEF Follows
<1>7. \A x \in Lasting(q) : \E m \in Ids(c) : OpOf(c, m).kind # "load" /\ x <= m
  BY DEF Follows
<1> QED
  BY <1>3, <1>4, <1>5, <1>6, <1>7 DEF Follows

\* Nor do loads that are erased.
LEMMA FollowsWithoutLoads ==
    ASSUME NEW q, NEW b, NEW c, NEW S, Follows(q, b), S \subseteq OfKind(b, "load"), Ids(c) = Ids(b) \ S,
           \A x \in Ids(c) : OpOf(c, x) = OpOf(b, x),
           \A x, y \in Ids(c) : Before(c, x, y) <=> Before(b, x, y)
    PROVE  Follows(q, c)
<1>1. \A x \in Lasting(q) \cap Ids(b) : x \in Ids(c)
  <2>1. \A x \in Lasting(q) \cap Ids(b) : OpOf(b, x).kind # "load"
    BY DEF Follows, Lasting
  <2> QED
    BY <2>1 DEF OfKind
<1>2. \A x \in Lasting(q) : Gone(q, b, x) => Gone(q, c, x)
  BY <1>1 DEF Gone
<1>3. \A x \in Ids(c) \ Lasting(q) : OpOf(c, x).kind \in {"load", "select"}
  BY DEF Follows
<1>4. \A x \in Lasting(q) \ Ids(c) : Gone(q, c, x)
  BY <1>1, <1>2 DEF Follows
<1>5. \A x \in Lasting(q) \cap Ids(c) :
          /\ OpOf(c, x).kind = OpOf(q, x).kind
          /\ OpOf(c, x).mem = OpOf(q, x).mem /\ OpOf(c, x).addr = OpOf(q, x).addr
          /\ OpOf(c, x).parent # OpOf(q, x).parent =>
                OpOf(c, x).parent = 0 /\ OpOf(q, x).parent \notin Ids(c)
  BY DEF Follows
<1>6. \A x, y \in Lasting(q) \cap Ids(c) : Before(c, x, y) <=> Before(q, x, y)
  BY DEF Follows
<1>7. \A x \in Lasting(q) : \E m \in Ids(c) : OpOf(c, m).kind # "load" /\ x <= m
  <2>1. SUFFICES ASSUME NEW x \in Lasting(q) PROVE \E m \in Ids(c) : OpOf(c, m).kind # "load" /\ x <= m
    OBVIOUS
  <2>2. PICK m \in Ids(b) : OpOf(b, m).kind # "load" /\ x <= m
    BY DEF Follows
  <2>3. m \in Ids(c)
    BY <2>2 DEF OfKind
  <2> QED
    BY <2>2, <2>3
<1> QED
  BY <1>3, <1>4, <1>5, <1>6, <1>7 DEF Follows

\* A store that leaves its if was alone in it in the function, too.
LEMMA FollowsHoisted ==
    ASSUME NEW q, NEW b, IsBlock(q), IsBlock(b), Follows(q, b),
           NEW s, NEW front, NEW select, CanHoist(b, s, front, select),
           \A m \in Ids(b) : m < select.id /\ \A k \in DOMAIN front : m < front[k].id
    PROVE  Follows(q, Hoisted(b, s, front, select))
<1> DEFINE if == OpOf(b, s).parent
           n == Hoisted(b, s, front, select)
<1>1. /\ IsBlock(n) /\ if \in Ids(b) /\ OpOf(b, if).kind = "if" /\ if # s
      /\ Ids(b) \ {if} \subseteq Ids(n) /\ select.id \in Ids(n) /\ OpOf(n, select.id) = select
      /\ \A y \in Ids(b) \ {if, s} : OpOf(n, y) = OpOf(b, y)
      /\ /\ OpOf(n, s).kind = "store" /\ OpOf(n, s).mem = OpOf(b, s).mem
         /\ OpOf(n, s).addr = OpOf(b, s).addr /\ OpOf(n, s).parent = 0
      /\ \A x \in Ids(n) \ Ids(b) : /\ OpOf(n, x).kind \in {"load", "select"}
                                    /\ x = select.id \/ \E k \in DOMAIN front : x = front[k].id
      /\ \A y, z \in Ids(b) \ {if} : Before(n, y, z) <=> Before(b, y, z)
      /\ if \notin Ids(n)
  BY HoistedView
<1>2. /\ s \in Ids(b) /\ OpOf(b, s).kind = "store" /\ if # 0 /\ Body(b, if) = {s}
      /\ select.kind = "select"
  BY DEF CanHoist
<1> HIDE DEF n, if
<1>3. \A x \in Ids(n) \ Ids(b) : \A m \in Ids(b) : m < x
  BY <1>1
<1>4. \A x \in Ids(b) : x \in Nat
  BY BlockOps
<1>5. \A x \in Lasting(q) : x \in Nat /\ x \in Ids(q)
  BY BlockOps DEF Lasting
<1>6. \A x \in Lasting(q) \cap Ids(n) : x \in Ids(b) /\ x # if
  <2>1. SUFFICES ASSUME NEW x \in Lasting(q) \cap Ids(n), x \notin Ids(b) PROVE FALSE
    BY <1>1
  <2>2. PICK m \in Ids(b) : x <= m
    BY DEF Follows
  <2>3. m < x /\ x \in Nat /\ m \in Nat
    BY <1>3, <1>4, <1>5, <2>1
  <2> QED
    BY <2>2, <2>3
<1>7. /\ s \in Lasting(q) /\ OpOf(q, s).parent = if /\ OpOf(q, s).kind = "store"
      /\ if \in Lasting(q) /\ OpOf(q, if).kind = "if"
  BY <1>1, <1>2 DEF Follows, if
<1>8. s \in Ids(n)
  BY <1>1, <1>2
<1>9. \A x \in Ids(n) \ Lasting(q) : OpOf(n, x).kind \in {"load", "select"}
  BY <1>1, <1>7 DEF Follows
<1>10. \A x \in Lasting(q) \ Ids(n) : Gone(q, n, x)
  <2>1. SUFFICES ASSUME NEW x \in Lasting(q) \ Ids(n) PROVE Gone(q, n, x)
    OBVIOUS
  <2>2. CASE x = if
    BY <1>1, <1>7, <1>8, <2>2 DEF Gone
  <2>3. CASE x # if
    <3>1. x \notin Ids(b)
      BY <1>1, <2>3
    <3>2. Gone(q, b, x)
      BY <3>1 DEF Follows
    <3>3. PICK y \in Lasting(q) \cap Ids(b) : OpOf(q, y).parent = x /\ OpOf(b, y).parent = 0
      BY <3>2 DEF Gone
    <3>4. y # if
      <4>1. IsOperation(OpOf(q, if)) /\ IsOperation(OpOf(q, y)) /\ x # 0
        BY <1>5, <1>7, BlockOps
      <4> QED
        BY <1>7, <3>3, <4>1 DEF IsOperation
    <3>5. y # s
      BY <1>2, <3>3 DEF if
    <3>6. y \in Ids(n) /\ OpOf(n, y).parent = 0
      BY <1>1, <3>3, <3>4, <3>5
    <3> QED
      BY <3>2, <3>3, <3>6 DEF Gone
  <2> QED
    BY <2>2, <2>3
<1>11. ASSUME NEW x \in Lasting(q) \cap Ids(n)
       PROVE  /\ OpOf(n, x).kind = OpOf(q, x).kind
              /\ OpOf(n, x).mem = OpOf(q, x).mem /\ OpOf(n, x).addr = OpOf(q, x).addr
              /\ OpOf(n, x).parent # OpOf(q, x).parent =>
                    OpOf(n, x).parent = 0 /\ OpOf(q, x).parent \notin Ids(n)
  <2>1. x \in Ids(b) /\ x # if
    BY <1>6
  <2>2. /\ OpOf(b, x).kind = OpOf(q, x).kind
        /\ OpOf(b, x).mem = OpOf(q, x).mem /\ OpOf(b, x).addr = OpOf(q, x).addr
        /\ OpOf(b, x).parent # OpOf(q, x).parent =>
              OpOf(b, x).parent = 0 /\ OpOf(q, x).parent \notin Ids(b)
    BY <2>1 DEF Follows
  <2>3. CASE x = s
    BY <1>1, <1>2, <1>7, <2>2, <2>3
  <2>4. CASE x # s
    <3>1. OpOf(n, x) = OpOf(b, x)
      BY <1>1, <2>1, <2>4
    <3>2. OpOf(q, x).parent \notin Ids(b) /\ OpOf(q, x).parent # 0 => OpOf(q, x).parent \notin Ids(n)
      <4>1. SUFFICES ASSUME OpOf(q, x).parent # 0 PROVE OpOf(q, x).parent \in Lasting(q)
        BY <1>6
      <4>2. x \in Ids(q)
        BY <1>5
      <4> QED
        BY <4>1, <4>2, BlockParents DEF Lasting
    <3> QED
      BY <2>2, <3>1, <3>2
  <2> QED
    BY <2>3, <2>4
<1>12. \A x, y \in Lasting(q) \cap Ids(n) : Before(n, x, y) <=> Before(q, x, y)
  BY <1>1, <1>6 DEF Follows
<1>13. \A x \in Lasting(q) : \E m \in Ids(n) : OpOf(n, m).kind # "load" /\ x <= m
  <2>1. SUFFICES ASSUME NEW x \in Lasting(q) PROVE x <= select.id
    BY <1>1, <1>2
  <2>2. PICK m \in Ids(b) : x <= m
    BY DEF Follows
  <2>3. select.id \in Nat
    BY DEF CanHoist, IsOperation
  <2> QED
    BY <1>4, <1>5, <2>2, <2>3
<1>14. Follows(q, n)
  BY <1>9, <1>10, <1>11, <1>12, <1>13 DEF Follows
<1> QED
  BY <1>14 DEF n

-----------------------------------------------------------------------------
(* AffineStoreForward, and the function it began with *)

\* An operation whose uses are replaced stays what it is.
LEMMA ReplacedUses ==
    ASSUME NEW b, IsBlock(b), NEW x, NEW y, IsBlock(ReplaceUses(b, x, y))
    PROVE  /\ Ids(ReplaceUses(b, x, y)) = Ids(b)
           /\ \A z \in Ids(b) :
                 LET c == OpOf(ReplaceUses(b, x, y), z)
                     o == OpOf(b, z)
                 IN  /\ At(ReplaceUses(b, x, y), z) = At(b, z)
                     /\ c.kind = o.kind /\ c.parent = o.parent /\ c.mem = o.mem /\ c.addr = o.addr
<1> DEFINE n == ReplaceUses(b, x, y)
<1>1. /\ DOMAIN b = 1..Len(b)
      /\ \A i \in DOMAIN b : At(b, b[i].id) = i /\ b[i].id \in Ids(b) /\ IsOperation(b[i])
      /\ \A z \in Ids(b) : At(b, z) \in DOMAIN b /\ b[At(b, z)].id = z /\ OpOf(b, z) = b[At(b, z)]
  BY BlockFacts DEF IsBlock
<1>2. DOMAIN n = DOMAIN b /\ \A i \in DOMAIN b : n[i] = [b[i] EXCEPT !.args = ReplaceIn(@, x, y)]
  BY DEF ReplaceUses
<1>3. \A i \in DOMAIN b : DOMAIN b[i] = Fields
  BY <1>1 DEF IsOperation
<1>4. \A i \in DOMAIN b : /\ n[i].id = b[i].id /\ n[i].kind = b[i].kind /\ n[i].parent = b[i].parent
                          /\ n[i].mem = b[i].mem /\ n[i].addr = b[i].addr
  BY <1>2, <1>3 DEF Fields
<1> HIDE DEF n
<1>5. Ids(n) = Ids(b)
  BY <1>2, <1>4 DEF Ids
<1>6. \A i \in DOMAIN b : At(n, n[i].id) = i
  <2>1. DOMAIN n = 1..Len(n) /\ \A i \in 1..Len(n) : At(n, n[i].id) = i
    BY BlockFacts DEF n
  <2> QED
    BY <1>2, <2>1
<1>7. \A z \in Ids(b) : At(n, z) = At(b, z) /\ OpOf(n, z) = n[At(b, z)]
  BY <1>1, <1>4, <1>6 DEF OpOf
<1> QED
  BY <1>1, <1>4, <1>5, <1>7 DEF n

\* Visiting a load changes nothing that lasts, but for a store that leaves its if.
LEMMA VisitLoadFollows ==
    ASSUME NEW q, IsBlock(q), IsBlock(ops), LoadsState, Follows(q, ops), VisitLoad
    PROVE  Follows(q, ops')
<1> DEFINE load == IF current = None THEN Head(walk) ELSE current
<1>1. /\ walk # << >>
      /\ \/ Sources("store", load) = {} /\ LoadCSE(load)
         \/ \E store \in Sources("store", load) :
               IF Dominates(ops, store, load)
               THEN ForwardStore(load, store) ELSE ForwardStoreOfIf(load, store)
  BY DEF VisitLoad
<1>2. load \in OfKind(ops, "load")
  BY <1>1 DEF LoadsState
<1> HIDE DEF load
<1>3. IsBlock(ops')
  BY VisitLoadKeeps
<1>4. ASSUME NEW b, IsBlock(b), Follows(q, b), NEW x, NEW y, ops' = ReplaceUses(b, x, y)
      PROVE  Follows(q, ops')
  <2>1. /\ Ids(ops') = Ids(b)
        /\ \A z \in Ids(b) :
              /\ At(ops', z) = At(b, z)
              /\ OpOf(ops', z).kind = OpOf(b, z).kind /\ OpOf(ops', z).parent = OpOf(b, z).parent
              /\ OpOf(ops', z).mem = OpOf(b, z).mem /\ OpOf(ops', z).addr = OpOf(b, z).addr
    BY <1>3, <1>4, ReplacedUses
  <2> QED
    BY <1>4, <2>1, FollowsWithOtherUses
<1>5. CASE LoadCSE(load)
  <2>1. ops' = ops \/ \E x : ops' = ReplaceUses(ops, load, x)
    BY <1>5 DEF LoadCSE, ReplaceAllUses
  <2> QED
    BY <1>4, <2>1
<1>6. ASSUME NEW store \in Sources("store", load), Dominates(ops, store, load), ForwardStore(load, store)
      PROVE  Follows(q, ops')
  <2>1. ops' = ReplaceUses(ops, load, OpOf(ops, store).args[1])
    BY <1>6 DEF ForwardStore, ReplaceAllUses
  <2> QED
    BY <1>4, <2>1
<1>7. ASSUME NEW store \in Sources("store", load), ~Dominates(ops, store, load), ForwardStoreOfIf(load, store)
      PROVE  Follows(q, ops')
  <2> DEFINE new    == [OpOf(ops, load) EXCEPT !.id = Fresh, !.parent = 0, !.branch = "top"]
             if     == OpOf(ops, store).parent
             select == [OpOf(ops, store) EXCEPT !.id = Fresh + 1, !.kind = "select", !.parent = 0,
                          !.branch = "top", !.cond = OpOf(ops, if).cond, !.args = <<@[1], Fresh>>]
             h == Hoisted(ops, store, <<new>>, select)
  <2>1. ops' = ReplaceUses(h, load, select.id)
    BY <1>7 DEF ForwardStoreOfIf, ReplaceAllUses
  <2>2. CanHoist(ops, store, <<new>>, select) /\ new.id = Fresh /\ select.id = Fresh + 1
    BY <1>2, <1>7, ForwardedOfIf DEF LoadsState
  <2>3. \A m \in Ids(ops) : m \in Nat /\ m < Fresh /\ Fresh \in Nat
    BY FreshIds, BlockOps
  <2> HIDE DEF new, select
  <2>4. \A m \in Ids(ops) : m < select.id /\ \A k \in DOMAIN <<new>> : m < <<new>>[k].id
    BY <2>2, <2>3
  <2>5. Follows(q, h)
    BY <2>2, <2>4, FollowsHoisted
  <2>6. IsBlock(h)
    BY <2>2, HoistedView
  <2> HIDE DEF h
  <2> QED
    BY <1>4, <2>1, <2>5, <2>6
<1> QED
  BY <1>1, <1>5, <1>6, <1>7

\* The loads that are erased do not last.
LEMMA EraseLoadsFollows ==
    ASSUME NEW q, IsBlock(ops), LoadsState, Follows(q, ops), EraseLoads
    PROVE  Follows(q, ops')
<1>1. ops' = Erase(ops, opsToErase)
  BY DEF EraseLoads
<1>2. opsToErase \subseteq OfKind(ops, "load") /\ \A y \in Ids(ops) : ToSet(OpOf(ops, y).args) \cap opsToErase = {}
  BY DEF LoadsState, LoadsMayGo
<1>3. \A x \in opsToErase : x \in Ids(ops) /\ x # 0 /\ OpOf(ops, x).kind = "load"
  BY <1>2, BlockOps DEF OfKind
<1>4. /\ Ids(ops') = {y \in Ids(ops) : y \notin opsToErase /\ OpOf(ops, y).parent \notin opsToErase}
      /\ \A y \in Ids(ops') : OpOf(ops', y) = OpOf(ops, y)
      /\ \A y, z \in Ids(ops') : Before(ops', y, z) <=> Before(ops, y, z)
  BY <1>1, <1>2, <1>3, ErasedBlock
<1>5. \A y \in Ids(ops) : OpOf(ops, y).parent \notin opsToErase
  <2>1. \A y \in Ids(ops) : OpOf(ops, y).parent # 0 => OpOf(ops, OpOf(ops, y).parent).kind = "if"
    BY BlockParents
  <2> QED
    BY <1>3, <2>1
<1>6. Ids(ops') = Ids(ops) \ opsToErase
  BY <1>4, <1>5
<1> QED
  BY <1>2, <1>4, <1>6, FollowsWithoutLoads

\* Nothing goes when stores are found to be overwritten, but for an if around one.
LEMMA FindUnusedStoreFollows ==
    ASSUME NEW q, IsBlock(q), IsBlock(ops), StoresState, Follows(q, ops), FindUnusedStore
    PROVE  Follows(q, ops')
<1> DEFINE a == Head(walk)
<1>1. a \in OfKind(ops, "store") /\ a \in Ids(ops)
  BY DEF FindUnusedStore, StoresState, OfKind
<1>2. \/ ops' = ops
      \/ \E b \in Overwriters(a) : Targets(a, b)[1] = a /\ Targets(a, b)[2] # b /\ OverwriteInIf(a, b)
  BY DEF FindUnusedStore
<1> HIDE DEF a
<1>3. ASSUME NEW b \in Overwriters(a), Targets(a, b)[1] = a, Targets(a, b)[2] # b, OverwriteInIf(a, b)
      PROVE  Follows(q, ops')
  <2> DEFINE if     == OpOf(ops, b).parent
             select == [OpOf(ops, b) EXCEPT !.id = Fresh, !.kind = "select", !.parent = 0,
                          !.branch = "top", !.cond = OpOf(ops, if).cond,
                          !.args = <<@[1], OpOf(ops, a).args[1]>>]
  <2>1. ops' = Hoisted(ops, b, << >>, select)
    BY <1>3 DEF OverwriteInIf
  <2>2. CanHoist(ops, b, << >>, select) /\ select.id = Fresh
    BY <1>1, <1>3, OverwriteView
  <2>3. \A m \in Ids(ops) : m < Fresh
    BY FreshIds
  <2> HIDE DEF select
  <2>4. \A m \in Ids(ops) : m < select.id /\ \A k \in DOMAIN << >> : m < << >>[k].id
    BY <2>2, <2>3
  <2> QED
    BY <2>1, <2>2, <2>4, FollowsHoisted
<1> QED
  BY <1>2, <1>3

-----------------------------------------------------------------------------
(* What a function returns *)

\* A function may return it.
Returnable(b, x) == x \in Ids(b) /\ HasResult(OpOf(b, x)) /\ OpOf(b, x).parent = 0

\* An operation whose result is returned is not dead.
LEMMA EraseDeadReturns ==
    ASSUME IsBlock(ops), EraseDead, NEW x \in ToSet(returned), Returnable(ops, x)
    PROVE  Returnable(ops', x)
<1>1. PICK d \in DeadOps : ops' = Erase(ops, {d})
  BY DEF EraseDead
<1>2. d \in Ids(ops) /\ (\A i \in DOMAIN ops : d \notin ToSet(ops[i].args)) /\ d \notin ToSet(returned)
  BY DEF DeadOps, IsTriviallyDead
<1>3. d # 0
  BY <1>2, BlockOps
<1>4. \A y \in Ids(ops) : ToSet(OpOf(ops, y).args) \cap {d} = {}
  BY <1>2, BlockFacts
<1>5. /\ Ids(ops') = {y \in Ids(ops) : y \notin {d} /\ OpOf(ops, y).parent \notin {d}}
      /\ \A y \in Ids(ops') : OpOf(ops', y) = OpOf(ops, y)
  BY <1>1, <1>3, <1>4, ErasedBlock
<1> QED
  BY <1>2, <1>3, <1>5 DEF Returnable

\* A copy and allocs have no results.
LEMMA SimplifyBufferCopyReturns ==
    ASSUME IsBlock(ops), NEW copy \in OfKind(ops, "copy"), SimplifyBufferCopy(copy),
           NEW x, Returnable(ops, x)
    PROVE  Returnable(ops', x)
<1>1. PICK r \in Replacement(copy) : ops' = Rename(Erase(ops, AllocsOf(r[1]) \cup {copy}), r[1], r[2])
  BY DEF SimplifyBufferCopy
<1> DEFINE S == AllocsOf(r[1]) \cup {copy}
           e == Erase(ops, S)
<1>2. \A y \in S : y \in Ids(ops) /\ OpOf(ops, y).kind \in {"alloc", "copy"}
  BY DEF AllocsOf, OfKind
<1>3. S \in SUBSET (Nat \ {0})
  BY <1>2, BlockOps
<1>4. \A y \in S \cap Ids(ops) : ~HasResult(OpOf(ops, y))
  BY <1>2 DEF HasResult
<1>5. /\ IsBlock(e) /\ Ids(e) = {y \in Ids(ops) : y \notin S /\ OpOf(ops, y).parent \notin S}
      /\ \A y \in Ids(e) : OpOf(e, y) = OpOf(ops, y)
  BY <1>3, <1>4, ErasedWithoutResults
<1>6. x \notin S /\ 0 \notin S
  BY <1>2, <1>3, <1>4 DEF Returnable
<1> HIDE DEF S, e
<1>7. Returnable(e, x)
  BY <1>5, <1>6 DEF Returnable
<1>8. /\ Ids(Rename(e, r[1], r[2])) = Ids(e)
      /\ \A y \in Ids(e) : /\ OpOf(Rename(e, r[1], r[2]), y).kind = OpOf(e, y).kind
                           /\ OpOf(Rename(e, r[1], r[2]), y).parent = OpOf(e, y).parent
  BY <1>5, RenamedBlock
<1>9. Returnable(Rename(e, r[1], r[2]), x)
  BY <1>7, <1>8 DEF Returnable, HasResult
<1> QED
  BY <1>1, <1>9 DEF e, S

\* An if has no result, and the operations beside it stay.
LEMMA RemoveRedundantIfReturns ==
    ASSUME IsBlock(ops), NEW if \in OfKind(ops, "if"), RemoveRedundantIf(if),
           NEW x, Returnable(ops, x)
    PROVE  Returnable(ops', x)
<1> DEFINE taken == IF OpOf(ops, if).cond \in p.neverTrue THEN "else" ELSE "then"
           n == FlattenSeq([i \in DOMAIN ops |->
                CASE ops[i].id = if     -> << >>
                  [] ops[i].parent = if -> IF ops[i].branch = taken
                                           THEN <<[ops[i] EXCEPT !.parent = 0, !.branch = "top"]>> ELSE << >>
                  [] OTHER              -> <<ops[i]>>])
<1>1. if \in Ids(ops) /\ OpOf(ops, if).kind = "if"
  BY DEF OfKind
<1>2. taken \in {"then", "else"}
  OBVIOUS
<1>3. ops' = n
  BY DEF RemoveRedundantIf
<1> HIDE DEF taken
<1>4. \A y \in Ids(ops) \ {if} : OpOf(ops, y).parent = 0 => y \in Ids(n) /\ OpOf(n, y) = OpOf(ops, y)
  BY <1>1, <1>2, UnwrappedBlock
<1> HIDE DEF n
<1> QED
  BY <1>1, <1>3, <1>4 DEF Returnable, HasResult

\* The same when ifs are merged.
LEMMA MergeSameIfReturns ==
    ASSUME IsBlock(ops), MergeSameIf, NEW x, Returnable(ops, x)
    PROVE  Returnable(ops', x)
<1>1. PICK merged \in {MergedIfs} :
          ops' = FlattenSeq([i \in DOMAIN ops |->
                    IF ops[i].id \in merged \/ ops[i].parent \in merged THEN << >>
                    ELSE <<ops[i]>> \o MovedTo(ops[i].id, merged)])
  BY DEF MergeSameIf
<1>2. merged = MergedIfs
  OBVIOUS
<1>3. merged \in SUBSET OfKind(ops, "if")
  BY <1>2 DEF MergedIfs
<1>4. \A y \in merged : \E z \in OfKind(ops, "if") \ merged : Before(ops, y, z)
  BY <1>2, LastNotMerged
<1>5. \A y \in Ids(ops) \ merged : OpOf(ops, y).parent = 0 => y \in Ids(ops') /\ OpOf(ops', y) = OpOf(ops, y)
  BY <1>1, <1>3, <1>4, MergedBlock
<1> QED
  BY <1>3, <1>5 DEF Returnable, HasResult, OfKind

\* The passes in front of AffineStoreForward keep what is returned.
LEMMA SimplificationsReturn ==
    ASSUME IsBlock(ops), SimplifyCopies \/ SimplifyAffineIf,
           NEW x \in ToSet(returned), Returnable(ops, x)
    PROVE  Returnable(ops', x)
<1>1. CASE EraseDead
  BY <1>1, EraseDeadReturns
<1>2. CASE \E c \in OfKind(ops, "copy") : SimplifyBufferCopy(c)
  BY <1>2, SimplifyBufferCopyReturns
<1>3. CASE \E if \in RedundantIfs : RemoveRedundantIf(if)
  BY <1>3, RemoveRedundantIfReturns DEF RedundantIfs
<1>4. CASE MergeSameIf
  BY <1>4, MergeSameIfReturns
<1>5. CASE ops' = LowerCopies(ops)
  <2>1. /\ Ids(LowerCopies(ops)) = Ids(ops)
        /\ \A y \in Ids(ops) : OpOf(LowerCopies(ops), y) = IF OpOf(ops, y).kind = "copy"
                                                           THEN [OpOf(ops, y) EXCEPT !.kind = "loop"] ELSE OpOf(ops, y)
    BY LoweredBlock
  <2>2. OpOf(ops', x) = OpOf(ops, x) /\ x \in Ids(ops')
    BY <1>5, <2>1 DEF Returnable, HasResult
  <2> QED
    BY <2>2 DEF Returnable
<1>6. CASE ops' = ops
  BY <1>6
<1> QED
  BY <1>1, <1>2, <1>3, <1>4, <1>5, <1>6 DEF SimplifyCopies, SimplifyAffineIf

-----------------------------------------------------------------------------
(* Why the passes fail *)

HasLoop(b) == OfKind(b, "loop") # {}

\* Loops come from the function.
LEMMA FollowsLoops ==
    ASSUME NEW q, NEW b, Follows(q, b), HasLoop(b)
    PROVE  HasLoop(q)
<1>1. PICK x \in Ids(b) : OpOf(b, x).kind = "loop"
  BY DEF HasLoop, OfKind
<1>2. x \in Lasting(q)
  BY <1>1 DEF Follows
<1>3. x \in Ids(q) /\ OpOf(q, x).kind = "loop"
  BY <1>1, <1>2 DEF Follows, Lasting
<1> QED
  BY <1>3 DEF HasLoop, OfKind

\* When stores are erased loops stay what they are, and none is new.
LEMMA EraseStoresLoops ==
    ASSUME IsBlock(ops), StoresState, EraseStores, HasLoop(ops')
    PROVE  HasLoop(ops)
<1> DEFINE kept == Erase(ops, opsToErase)
           dead == DeadAllocs(kept)
           gone == dead \cup UNION {Users(kept, OpOf(kept, x).mem) : x \in dead}
<1>1. ops' = Erase(kept, gone)
  BY DEF EraseStores
<1>2. /\ IsBlock(kept) /\ Ids(kept) = {y \in Ids(ops) : y \notin opsToErase /\ OpOf(ops, y).parent \notin opsToErase}
      /\ \A y \in Ids(kept) : OpOf(kept, y) = OpOf(ops, y)
  <2>1. opsToErase \in SUBSET (Nat \ {0})
    BY DEF StoresState
  <2>2. \A x \in opsToErase \cap Ids(ops) : ~HasResult(OpOf(ops, x))
    BY DEF StoresState, HasResult
  <2> QED
    BY <2>1, <2>2, ErasedWithoutResults
<1> HIDE DEF kept
<1>3. \A x \in gone : x \in Ids(kept) /\ OpOf(kept, x).kind \in {"alloc", "store"}
  BY DEF DeadAllocs, OfKind, Users
<1>4. gone \in SUBSET (Nat \ {0}) /\ \A x \in gone : ~HasResult(OpOf(kept, x))
  <2> HIDE DEF gone
  <2> QED
    BY <1>2, <1>3, BlockOps DEF HasResult
<1> HIDE DEF gone
<1>5. /\ Ids(ops') = {y \in Ids(kept) : y \notin gone /\ OpOf(kept, y).parent \notin gone}
      /\ \A y \in Ids(ops') : OpOf(ops', y) = OpOf(kept, y)
  BY <1>1, <1>2, <1>4, ErasedWithoutResults
<1>6. \A y \in Ids(ops') : y \in Ids(ops) /\ OpOf(ops', y) = OpOf(ops, y)
  BY <1>2, <1>5
<1> QED
  BY <1>6 DEF HasLoop, OfKind

\* The step of FindUnusedStore that may leave the walk at an operation that is gone
\* has a store right before an if, as in the function.
LEMMA CrashesForACause ==
    ASSUME IsBlock(p.ops), IsBlock(ops), Follows(p.ops, ops),
           NEW a \in OfKind(ops, "store"), NEW b \in Overwriters(a),
           Targets(a, b)[1] = a, Targets(a, b)[2] # b, IsNext(a, Targets(a, b)[2])
    PROVE  LET if == OpOf(p.ops, b).parent
           IN  /\ a \in OfKind(p.ops, "store") /\ b \in OfKind(p.ops, "store")
               /\ SameAccess(OpOf(p.ops, a), OpOf(p.ops, b))
               /\ if # 0 /\ Body(p.ops, if) \ OfKind(p.ops, "load") = {b}
               /\ Before(p.ops, a, if) /\ Adjacent(a, if)
<1> DEFINE q  == p.ops
           if == OpOf(ops, b).parent
<1>1. /\ b \in OfKind(ops, "store") /\ b # a
      /\ OpOf(ops, a).parent = 0 /\ if # 0 /\ Body(ops, if) = {b} /\ Before(ops, a, if)
      /\ Targets(a, b)[2] = if
  BY OverwriterInIf
<1>2. SameAccess(OpOf(ops, a), OpOf(ops, b))
  BY DEF Overwriters
<1>3. /\ a \in Ids(ops) /\ OpOf(ops, a).kind = "store"
      /\ b \in Ids(ops) /\ OpOf(ops, b).kind = "store"
  BY <1>1 DEF OfKind
<1>4. if \in Ids(ops) /\ OpOf(ops, if).kind = "if" /\ OpOf(ops, if).parent = 0
  BY <1>1, <1>3, BlockParents
<1>5. \A x \in Ids(ops) : OpOf(ops, x).parent = 0 /\ Before(ops, a, x) => ~Before(ops, x, if)
  <2> SUFFICES ASSUME NEW x \in Ids(ops), OpOf(ops, x).parent = 0, Before(ops, a, x)
               PROVE  ~Before(ops, x, if)
    OBVIOUS
  <2>1. IsOperation(OpOf(ops, a)) /\ IsOperation(OpOf(ops, x))
    BY <1>3, BlockOps
  <2>2. SameRegion(ops, a, x)
    BY <1>1, <2>1 DEF SameRegion, BlockOf, IsOperation
  <2> QED
    BY <1>1, <2>2 DEF IsNext
<1> HIDE DEF q, if
<1>6. IsBlock(q) /\ Follows(q, ops)
  BY DEF q
<1>7. a \in Lasting(q) /\ b \in Lasting(q) /\ if \in Lasting(q)
  BY <1>3, <1>4, <1>6 DEF Follows
<1>8. /\ OpOf(q, a).kind = "store" /\ OpOf(q, b).kind = "store" /\ OpOf(q, if).kind = "if"
      /\ SameAccess(OpOf(q, a), OpOf(q, b)) /\ OpOf(q, b).parent = if
  BY <1>1, <1>2, <1>3, <1>4, <1>6, <1>7 DEF Follows, SameAccess, if
<1>9. \A x \in Lasting(q) : x \in Ids(q) /\ IsOperation(OpOf(q, x)) /\ x \in Nat \ {0}
  BY <1>6, BlockOps DEF Lasting
<1>10. \A x, y \in Lasting(q) \cap Ids(ops) : Before(ops, x, y) <=> Before(q, x, y)
  BY <1>6 DEF Follows
<1>11. \A x \in Lasting(q) : OpOf(q, x).parent = if => x = b
  <2> SUFFICES ASSUME NEW x \in Lasting(q), OpOf(q, x).parent = if PROVE x = b
    OBVIOUS
  <2>1. CASE x \in Ids(ops)
    <3>1. OpOf(ops, x).parent = if
      BY <1>4, <1>6, <2>1 DEF Follows
    <3> QED
      BY <1>1, <2>1, <3>1 DEF Body
  <2>2. CASE x \notin Ids(ops)
    <3>1. OpOf(q, x).kind = "if"
      BY <1>6, <2>2 DEF Follows, Gone
    <3> QED
      BY <1>1, <1>9, <3>1 DEF IsOperation
  <2> QED
    BY <2>1, <2>2
<1>12. Before(q, a, if)
  BY <1>1, <1>3, <1>4, <1>7, <1>10
<1>13. ASSUME NEW z \in Lasting(q), Before(q, a, z), Before(q, z, if) PROVE FALSE
  <2>1. CASE z \in Ids(ops)
    <3>1. Before(ops, a, z) /\ Before(ops, z, if)
      BY <1>3, <1>4, <1>7, <1>10, <1>13, <2>1
    <3>2. OpOf(ops, z).parent # 0
      BY <1>5, <2>1, <3>1
    <3> DEFINE w == OpOf(ops, z).parent
    <3>3. /\ w \in Ids(ops) /\ OpOf(ops, w).kind = "if" /\ OpOf(ops, w).parent = 0 /\ Before(ops, w, z)
          /\ Before(ops, w, a) /\ Before(ops, a, z) => OpOf(ops, a).parent = w
      BY <1>3, <2>1, <3>2, BlockParents
    <3>4. Before(ops, a, w) /\ Before(ops, w, if)
      <4> HIDE DEF w
      <4>1. a # w /\ ~Before(ops, w, a)
        BY <1>1, <1>3, <3>1, <3>2, <3>3 DEF w
      <4> QED
        BY <1>3, <1>4, <2>1, <3>1, <3>3, <4>1, BlockOrder
    <3> QED
      BY <1>5, <3>3, <3>4
  <2>2. CASE z \notin Ids(ops)
    <3>1. OpOf(q, z).kind = "if" /\ Gone(q, ops, z)
      BY <1>6, <2>2 DEF Follows, Gone
    <3>2. PICK s \in Lasting(q) \cap Ids(ops) : OpOf(q, s).parent = z /\ OpOf(ops, s).parent = 0
      BY <3>1 DEF Gone
    <3>3. /\ z # 0 /\ Before(q, z, s)
          /\ Before(q, z, if) /\ Before(q, if, s) => OpOf(q, if).parent = z
      BY <1>6, <1>7, <1>9, <3>2, BlockParents
    <3>4. OpOf(q, if).parent = 0 /\ s # if
      BY <1>7, <1>8, <1>9, <3>2, <3>3 DEF IsOperation
    <3>5. Before(q, a, s) /\ Before(q, s, if)
      BY <1>6, <1>7, <1>9, <1>13, <3>2, <3>3, <3>4, BlockOrder
    <3>6. Before(ops, a, s) /\ Before(ops, s, if)
      BY <1>3, <1>4, <1>7, <1>10, <3>2, <3>5
    <3> QED
      BY <1>5, <3>2, <3>6
  <2> QED
    BY <2>1, <2>2
<1>14. Adjacent(a, if)
  BY <1>13 DEF Adjacent, Lasting, q
<1>15. Body(q, if) \ OfKind(q, "load") = {b}
  <2>1. b \in Body(q, if) /\ b \notin OfKind(q, "load")
    BY <1>7, <1>8 DEF Body, OfKind, Lasting
  <2>2. \A x \in Body(q, if) \ OfKind(q, "load") : x \in Lasting(q) /\ OpOf(q, x).parent = if
    BY DEF Body, OfKind, Lasting
  <2> QED
    BY <1>11, <2>1, <2>2
<1> QED
  BY <1>1, <1>7, <1>8, <1>9, <1>12, <1>14, <1>15 DEF OfKind, q

-----------------------------------------------------------------------------
(* What is left of the function: the second invariant *)

ProgramFields == {"ops", "returned", "neverTrue", "alwaysTrue", "memoryOpts"}

\* What is returned as a value was one in the function.
ValuesReturned ==
    \A k \in DOMAIN returned : returned[k] > 0 => k \in DOMAIN p.returned /\ p.returned[k] \in Ids(p.ops)

FunctionInv == DOMAIN p = ProgramFields /\ IsBlock(p.ops)
FollowsInv == stage \in {"loads", "stores"} => Follows(p.ops, ops)
ReturnsInv ==
    IF stage \in {"copies", "ifs"}
    THEN returned = p.returned /\ \A x \in ToSet(returned) : x > 0 => Returnable(ops, x)
    ELSE ValuesReturned
LoopsInv == (stage \in {"dispatch", "partition"} /\ HasLoop(ops)) \/ tasks # << >> => HasLoop(p.ops)

OriginInv == FunctionInv /\ FollowsInv /\ ReturnsInv /\ LoopsInv /\ StopsForACause

\* The passes begin with the function.
LEMMA OriginInit == Init => OriginInv
<1> SUFFICES ASSUME Init PROVE OriginInv
  OBVIOUS
<1>1. p \in Programs /\ WellFormed(p) /\ ops = p.ops /\ returned = p.returned /\ stage \in {"copies", "ifs"}
  BY DEF Init, ForwardInit, First
<1>2. FunctionInv
  BY <1>1 DEF FunctionInv, WellFormed, ProgramFields
<1>3. \A x \in ToSet(returned) : x > 0 => Returnable(ops, x)
  <2> SUFFICES ASSUME NEW x \in ToSet(returned), x > 0 PROVE Returnable(ops, x)
    OBVIOUS
  <2>1. PICK i \in DOMAIN ops : ops[i].id = x /\ HasResult(ops[i]) /\ ops[i].parent = 0
    BY <1>1 DEF WellFormed
  <2>2. ops[i].id \in Ids(ops) /\ OpOf(ops, ops[i].id) = ops[i]
    BY <1>1, <1>2, BlockFacts DEF FunctionInv
  <2> QED
    BY <2>1, <2>2 DEF Returnable
<1>4. tasks = << >>
  BY DEF Init
<1> QED
  BY <1>1, <1>2, <1>3, <1>4 DEF OriginInv, FollowsInv, ReturnsInv, LoopsInv, StopsForACause

\* A simplification keeps it; AffineStoreForward begins with what is left.
LEMMA SimplificationsKeepOrigin ==
    ASSUME FrontEndInv, OriginInv, Simplifications
    PROVE  OriginInv'
<1>1. /\ stage \in {"copies", "ifs"} /\ (SimplifyCopies \/ SimplifyAffineIf)
      /\ UNCHANGED dataflowVars /\ returned' = returned
  BY DEF Simplifications, SimplifyCopies, SimplifyAffineIf
<1>2. IsBlock(ops) /\ tasks = << >>
  BY <1>1 DEF FrontEndInv, UntaskedInv, NoTasks
<1>3. /\ DOMAIN p = ProgramFields /\ IsBlock(p.ops) /\ returned = p.returned
      /\ \A x \in ToSet(returned) : x > 0 => Returnable(ops, x)
  BY <1>1 DEF OriginInv, FunctionInv, ReturnsInv
<1>4. \/ stage' = stage /\ p' = p
      \/ stage' = "loads" /\ p' = [p EXCEPT !.ops = ops']
  BY DEF Simplifications, SimplifyCopies, SimplifyAffineIf
<1>5. \A x \in ToSet(returned) : x > 0 => Returnable(ops', x)
  BY <1>1, <1>2, <1>3, SimplificationsReturn
<1>6. tasks' = << >>
  BY <1>1, <1>2 DEF dataflowVars
<1>7. IsBlock(ops')
  BY SimplificationsKeep DEF FrontEndInv
<1>8. CASE stage' = stage /\ p' = p
  <2>1. FunctionInv' /\ FollowsInv' /\ LoopsInv' /\ StopsForACause'
    BY <1>1, <1>3, <1>6, <1>8 DEF FunctionInv, FollowsInv, LoopsInv, StopsForACause
  <2>2. ReturnsInv'
    BY <1>1, <1>3, <1>5, <1>8 DEF ReturnsInv
  <2> QED
    BY <2>1, <2>2 DEF OriginInv
<1>9. CASE stage' = "loads" /\ p' = [p EXCEPT !.ops = ops']
  <2>1. DOMAIN p' = ProgramFields /\ p'.ops = ops' /\ p'.returned = p.returned
    BY <1>3, <1>9 DEF ProgramFields
  <2>2. Follows(ops', ops')
    BY <1>7, FollowsItself
  <2>3. ValuesReturned'
    <3> SUFFICES ASSUME NEW k \in DOMAIN returned', returned'[k] > 0
                 PROVE  k \in DOMAIN p'.returned /\ p'.returned[k] \in Ids(p'.ops)
      BY DEF ValuesReturned
    <3>1. k \in DOMAIN returned /\ returned[k] \in ToSet(returned) /\ returned[k] > 0
      BY <1>1 DEF ToSet
    <3>2. returned[k] \in Ids(ops')
      BY <1>5, <3>1 DEF Returnable
    <3> QED
      BY <1>3, <2>1, <3>1, <3>2
  <2>4. FunctionInv' /\ FollowsInv' /\ LoopsInv' /\ StopsForACause'
    BY <1>6, <1>7, <1>9, <2>1, <2>2 DEF FunctionInv, FollowsInv, LoopsInv, StopsForACause
  <2>5. ReturnsInv'
    BY <1>9, <2>3 DEF ReturnsInv
  <2> QED
    BY <2>4, <2>5 DEF OriginInv
<1> QED
  BY <1>4, <1>8, <1>9

\* A value that takes the place of a load is returned where the load was.
LEMMA VisitLoadReturns ==
    ASSUME IsBlock(ops), LoadsState, ValuesReturned, VisitLoad
    PROVE  ValuesReturned'
<1> DEFINE load == IF current = None THEN Head(walk) ELSE current
<1>1. /\ walk # << >> /\ p' = p
      /\ \/ LoadCSE(load)
         \/ \E store \in Sources("store", load) : ForwardStore(load, store) \/ ForwardStoreOfIf(load, store)
  BY DEF VisitLoad
<1>2. load \in Ids(ops)
  BY <1>1 DEF LoadsState, OfKind
<1>3. load > 0
  BY <1>2, BlockOps
<1> HIDE DEF load
<1>4. returned' = returned \/ \E y : returned' = ReplaceIn(returned, load, y)
  BY <1>1 DEF LoadCSE, ForwardStore, ForwardStoreOfIf, ReplaceAllUses
<1>5. \A k \in DOMAIN returned' : k \in DOMAIN returned /\ (returned'[k] = returned[k] \/ returned[k] = load)
  BY <1>4 DEF ReplaceIn
<1> QED
  BY <1>1, <1>3, <1>5 DEF ValuesReturned

\* AffineStoreForward keeps it, and crashes for a cause.
LEMMA ForwardKeepsOrigin ==
    ASSUME FrontEndInv, OriginInv, Forward
    PROVE  OriginInv'
<1>1. stage \in {"loads", "stores"} /\ UNCHANGED dataflowVars /\ p' = p
  BY DEF Forward, StoreForward, VisitLoad, EraseLoads, FindUnusedStore, EraseStores
<1>2. /\ IsBlock(ops) /\ tasks = << >>
      /\ stage = "loads" => LoadsState
      /\ stage = "stores" => StoresState
  BY <1>1 DEF FrontEndInv, LoadsInv, StoresInv, UntaskedInv, NoTasks
<1>3. FunctionInv /\ IsBlock(p.ops) /\ Follows(p.ops, ops) /\ ValuesReturned
  BY <1>1 DEF OriginInv, FunctionInv, FollowsInv, ReturnsInv
<1>4. tasks' = << >> /\ FunctionInv'
  BY <1>1, <1>2, <1>3 DEF dataflowVars, FunctionInv
<1>5. (stage' \in {"loads", "stores"} /\ Follows(p.ops, ops')) /\ ValuesReturned' => OriginInv'
  BY <1>1, <1>4 DEF OriginInv, FollowsInv, ReturnsInv, LoopsInv, StopsForACause
<1>6. CASE VisitLoad
  <2>1. stage = "loads" /\ stage' = stage
    BY <1>6 DEF VisitLoad
  <2>2. Follows(p.ops, ops')
    BY <1>2, <1>3, <1>6, <2>1, VisitLoadFollows
  <2>3. ValuesReturned'
    BY <1>2, <1>3, <1>6, <2>1, VisitLoadReturns
  <2> QED
    BY <1>5, <2>1, <2>2, <2>3
<1>7. CASE EraseLoads
  <2>1. stage = "loads" /\ stage' = "stores" /\ returned' = returned
    BY <1>7 DEF EraseLoads
  <2>2. Follows(p.ops, ops')
    BY <1>2, <1>3, <1>7, <2>1, EraseLoadsFollows
  <2>3. ValuesReturned'
    BY <1>1, <1>3, <2>1 DEF ValuesReturned
  <2> QED
    BY <1>5, <2>1, <2>2, <2>3
<1>8. CASE FindUnusedStore
  <2>1. stage = "stores" /\ stage' \in {"stores", "crashed"} /\ returned' = returned
    BY <1>8 DEF FindUnusedStore
  <2>2. Follows(p.ops, ops')
    BY <1>2, <1>3, <1>8, <2>1, FindUnusedStoreFollows
  <2>3. ValuesReturned'
    BY <1>1, <1>3, <2>1 DEF ValuesReturned
  <2>4. CASE stage' = "stores"
    BY <1>5, <2>2, <2>3, <2>4
  <2>5. CASE stage' = "crashed"
    <3> DEFINE a == Head(walk)
    <3>1. \E b \in Overwriters(a) : /\ Targets(a, b)[1] = a /\ Targets(a, b)[2] # b
                                    /\ IsNext(a, Targets(a, b)[2])
      BY <1>8, <2>1, <2>5 DEF FindUnusedStore
    <3>2. a \in OfKind(ops, "store")
      BY <1>2, <1>8, <2>1 DEF FindUnusedStore, StoresState
    <3> HIDE DEF a
    <3>3. \E x, y \in OfKind(p.ops, "store") :
             LET if == OpOf(p.ops, y).parent
             IN  /\ SameAccess(OpOf(p.ops, x), OpOf(p.ops, y))
                 /\ if # 0 /\ Body(p.ops, if) \ OfKind(p.ops, "load") = {y}
                 /\ Before(p.ops, x, if) /\ Adjacent(x, if)
      <4>1. PICK b \in Overwriters(a) : /\ Targets(a, b)[1] = a /\ Targets(a, b)[2] # b
                                        /\ IsNext(a, Targets(a, b)[2])
        BY <3>1
      <4> HIDE DEF a
      <4> QED
        BY <1>2, <1>3, <3>2, <4>1, CrashesForACause
    <3>4. StopsForACause'
      BY <1>1, <2>5, <3>3 DEF StopsForACause, Adjacent
    <3> QED
      BY <1>4, <2>3, <2>5, <3>4 DEF OriginInv, FollowsInv, ReturnsInv, LoopsInv
  <2> QED
    BY <2>1, <2>4, <2>5
<1>9. CASE EraseStores
  <2>1. stage = "stores" /\ stage' \in {"optimized", "dispatch"} /\ returned' = returned
    BY <1>9 DEF EraseStores, Behind
  <2>2. HasLoop(ops') => HasLoop(p.ops)
    BY <1>2, <1>3, <1>9, <2>1, EraseStoresLoops, FollowsLoops
  <2>3. ValuesReturned'
    BY <1>1, <1>3, <2>1 DEF ValuesReturned
  <2>4. LoopsInv'
    BY <1>1, <1>4, <2>2 DEF LoopsInv
  <2> QED
    BY <1>4, <2>1, <2>3, <2>4 DEF OriginInv, FollowsInv, ReturnsInv, StopsForACause
<1> QED
  BY <1>6, <1>7, <1>8, <1>9 DEF Forward, StoreForward

\* So does CreateDataflowFromAffine: a task has a loop, or one in front of it has.
LEMMA DispatchKeepsOrigin ==
    ASSUME FrontEndInv, OriginInv, DispatchBlock \/ Partition \/ Terminator
    PROVE  OriginInv'
<1>1. /\ stage \in {"dispatch", "partition"} /\ p' = p /\ returned' = returned
      /\ stage' \in {"inlined", "partition", "stream"}
  BY DEF DispatchBlock, Partition, Terminator, forwardVars
<1>2. FunctionInv /\ ValuesReturned /\ (HasLoop(ops) \/ tasks # << >> => HasLoop(p.ops))
  BY <1>1 DEF OriginInv, ReturnsInv, LoopsInv
<1>3. IsBlock(ops)
  BY DEF FrontEndInv
<1>4. FunctionInv' /\ ValuesReturned'
  BY <1>1, <1>2 DEF FunctionInv, ValuesReturned
<1>5. HasLoop(ops') \/ tasks' # << >> => HasLoop(ops) \/ tasks # << >>
  <2>1. CASE DispatchBlock
    BY <2>1 DEF DispatchBlock, forwardVars
  <2>2. CASE Terminator
    BY <2>2 DEF Terminator, FuseRest, forwardVars
  <2>3. CASE Partition
    <3> DEFINE x == Head(rest)
    <3>1. stage = "partition" /\ rest # << >>
      BY <2>3 DEF Partition
    <3>2. PartitionState
      BY <3>1 DEF FrontEndInv, PartitionInv
    <3>3. x \in Top(ops)
      BY <3>1, <3>2 DEF PartitionState
    <3>4. CASE OpOf(ops, x).kind = "alloc"
      <4>1. SkipAlloc(x) /\ tasks' = tasks
        BY <2>3, <3>4 DEF Partition, SkipAlloc
      <4> HIDE DEF x
      <4>2. Ids(ops') = Ids(ops) /\ \A y \in Ids(ops) : OpOf(ops', y) = OpOf(ops, y)
        BY <1>3, <3>3, <3>4, <4>1, SkippedAlloc
      <4> QED
        BY <4>1, <4>2 DEF HasLoop, OfKind
    <3>5. CASE OpOf(ops, x).kind = "loop"
      BY <3>3, <3>5 DEF HasLoop, OfKind, Top
    <3>6. CASE OpOf(ops, x).kind # "alloc" /\ OpOf(ops, x).kind # "loop"
      BY <2>3, <3>6 DEF Partition, Collect
    <3> QED
      BY <3>4, <3>5, <3>6
  <2> QED
    BY <2>1, <2>2, <2>3
<1>6. LoopsInv'
  BY <1>1, <1>2, <1>5 DEF LoopsInv
<1> QED
  BY <1>1, <1>4, <1>6 DEF OriginInv, FollowsInv, ReturnsInv, StopsForACause

\* A task whose result is returned is behind a loop of the function, or has one.
LEMMA RejectsForACause ==
    ASSUME IsBlock(ops), TasksState, ValuesReturned, LoopsInv, Streams \cap ToSet(returned) # {}
    PROVE  HasLoop(p.ops) /\ ToSet(p.returned) \cap Ids(p.ops) # {}
<1>1. PICK x \in Streams : x \in ToSet(returned)
  OBVIOUS
<1>2. PICK t \in streamed : x \in Results(t)
  BY DEF Streams
<1>3. t \in DOMAIN tasks /\ x \in ToSet(tasks[t])
  BY <1>2 DEF Results, TasksState
<1>4. x \in Ids(ops)
  BY <1>3, InTasks
<1>5. x > 0
  BY <1>4, BlockOps
<1>6. PICK k \in DOMAIN returned : returned[k] = x
  BY <1>1 DEF ToSet
<1>7. k \in DOMAIN p.returned /\ p.returned[k] \in Ids(p.ops)
  BY <1>5, <1>6 DEF ValuesReturned
<1>8. tasks # << >>
  BY <1>3
<1> QED
  BY <1>7, <1>8 DEF LoopsInv, ToSet

\* So do StreamDataflowTask, which rejects for a cause, and what is behind it.
LEMMA StreamKeepsOrigin ==
    ASSUME FrontEndInv, OriginInv, (\E t \in DOMAIN tasks : StreamTask(t)) \/ Verify \/ Lower
    PROVE  OriginInv'
<1>1. /\ stage \in {"stream", "lower"} /\ p' = p /\ returned' = returned
      /\ stage' \in {"stream", "lower", "rejected", "lowered"} /\ DOMAIN tasks' = DOMAIN tasks
  BY DEF StreamTask, Verify, Lower, forwardVars, dataflowVars
<1>2. FunctionInv /\ ValuesReturned /\ LoopsInv /\ (tasks # << >> => HasLoop(p.ops))
  BY <1>1 DEF OriginInv, ReturnsInv, LoopsInv
<1>3. FunctionInv' /\ ValuesReturned'
  BY <1>1, <1>2 DEF FunctionInv, ValuesReturned
<1>4. LoopsInv'
  <2>1. IsBlock(ops) /\ TasksState
    BY <1>1 DEF FrontEndInv, TasksInv
  <2>2. tasks \in Seq(Seq(Working(ops)))
    BY <2>1 DEF TasksState, AreTasks
  <2>3. tasks' # << >> => tasks # << >>
    <3>1. CASE tasks' = tasks
      BY <3>1
    <3>2. CASE \E t \in DOMAIN tasks : StreamTask(t)
      BY <3>2
    <3> QED
      BY <3>1, <3>2 DEF Verify, Lower, forwardVars, dataflowVars
  <2> QED
    BY <1>1, <1>2, <2>3 DEF LoopsInv
<1>5. stage' = "rejected" => HasLoop(p.ops) /\ ToSet(p.returned) \cap Ids(p.ops) # {}
  <2> SUFFICES ASSUME stage' = "rejected"
               PROVE  HasLoop(p.ops) /\ ToSet(p.returned) \cap Ids(p.ops) # {}
    OBVIOUS
  <2>1. Streams \cap ToSet(returned) # {} /\ stage = "stream"
    BY <1>1 DEF StreamTask, Verify, Lower
  <2>2. IsBlock(ops) /\ TasksState
    BY <2>1 DEF FrontEndInv, TasksInv
  <2> QED
    BY <1>2, <2>1, <2>2, RejectsForACause
<1>6. StopsForACause'
  BY <1>1, <1>5 DEF StopsForACause, HasLoop
<1> QED
  BY <1>1, <1>3, <1>4, <1>6 DEF OriginInv, FollowsInv, ReturnsInv

\* Each step of the front end keeps both invariants.
LEMMA OriginStep == FrontEndInv /\ OriginInv /\ [Next]_vars => OriginInv'
<1> SUFFICES ASSUME FrontEndInv, OriginInv, [Next]_vars PROVE OriginInv'
  OBVIOUS
<1>1. CASE Next
  BY <1>1, SimplificationsKeepOrigin, ForwardKeepsOrigin, DispatchKeepsOrigin, StreamKeepsOrigin DEF Next
<1>2. CASE UNCHANGED vars
  <2>1. UNCHANGED <<p, ops, returned, stage, tasks>>
    BY <1>2 DEF vars, forwardVars, dataflowVars
  <2>2. /\ FunctionInv' = FunctionInv /\ FollowsInv' = FollowsInv /\ ReturnsInv' = ReturnsInv
        /\ LoopsInv' = LoopsInv /\ StopsForACause' = StopsForACause
    BY <2>1 DEF FunctionInv, FollowsInv, ReturnsInv, ValuesReturned, LoopsInv, StopsForACause, Adjacent
  <2> QED
    BY <2>2 DEF OriginInv
<1> QED
  BY <1>1, <1>2

\* AffineStoreForward crashes only for a store right before an if around a store of
\* the same element, and a function is rejected only for a value it returns next to
\* a loop: the front end stops for no other cause.
THEOREM FailuresHaveACause == Spec => []StopsForACause
<1>1. FrontEndInv /\ OriginInv /\ [Next]_vars => (FrontEndInv /\ OriginInv)'
  BY FrontEndStep, OriginStep
<1>2. OriginInv => StopsForACause
  BY DEF OriginInv
<1> QED
  BY <1>1, <1>2, FrontEndInit, OriginInit, PTL DEF Spec
=============================================================================
