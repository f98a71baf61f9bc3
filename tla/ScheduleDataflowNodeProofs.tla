--------------------- MODULE ScheduleDataflowNodeProofs ---------------------
(***************************************************************************)
(* For every set of well-formed schedules: ALAPScheduleNode, applied to the *)
(* nodes in any order, keeps the schedule well-formed and its levels        *)
(* settled, orders the levels strictly, and ends in one schedule only,      *)
(* whatever nodes the greedy driver picked.                                 *)
(***************************************************************************)
EXTENDS ScheduleDataflowNode, NumberLemmas

ScheduleInv == ScheduleTypeOK(ir) /\ LevelsSettled

-----------------------------------------------------------------------------
(* What the levels do not decide *)

\* t is s but for the levels.
SameButLevels(s, t) ==
    /\ t.order = s.order /\ t.ins = s.ins /\ t.outs = s.outs /\ t.body = s.body
    /\ t.isArg = s.isArg /\ t.ext = s.ext /\ t.depth = s.depth
    /\ t.depFree = s.depFree /\ t.isLegal = s.isLegal /\ t.tokens = s.tokens

\* Dependences and violations are a matter of operands and block order.
LEMMA LevelsDoNotMatter ==
    ASSUME NEW s, NEW t, SameButLevels(s, t), NEW n
    PROVE  /\ Nodes(t) = Nodes(s)
           /\ Dependents(t, n) = Dependents(s, n)
           /\ HasViolation(t, n) <=> HasViolation(s, n)
<1>1. /\ t.order = s.order /\ t.ins = s.ins /\ t.outs = s.outs
      /\ t.isArg = s.isArg /\ t.ext = s.ext /\ t.depFree = s.depFree
  BY DEF SameButLevels
<1>2. Nodes(t) = Nodes(s)
  BY <1>1 DEF Nodes
<1>3. \A b : Consumers(t, b) = Consumers(s, b) /\ Producers(t, b) = Producers(s, b)
  BY <1>1, <1>2 DEF Consumers, Producers
<1>4. \A c : Before(t, n, c) = Before(s, n, c)
  BY <1>1 DEF Before
<1>5. \A b : DependentConsumers(t, b, n) = DependentConsumers(s, b, n)
  BY <1>1, <1>3, <1>4 DEF DependentConsumers
<1>6. Dependents(t, n) = Dependents(s, n)
  BY <1>1, <1>5 DEF Dependents
<1>7. HasViolation(t, n) <=> HasViolation(s, n)
  BY <1>1, <1>3, <1>5 DEF HasViolation
<1> QED
  BY <1>2, <1>6, <1>7

\* A dependent is another node of the schedule.
LEMMA DependentsAreOtherNodes ==
    ASSUME NEW s, NEW n
    PROVE  Dependents(s, n) \subseteq Nodes(s) \ {n}
BY DEF Dependents, DependentConsumers, Consumers

\* Giving node n a level changes nothing else.
LEMMA SetLevel ==
    ASSUME NEW s, ScheduleTypeOK(s), NEW n \in Nodes(s), NEW l,
           NEW t, t = [s EXCEPT !.level[n] = l]
    PROVE  SameButLevels(s, t) /\ t.level = [s.level EXCEPT ![n] = l]
BY DEF ScheduleTypeOK, SameButLevels

-----------------------------------------------------------------------------
(* The type invariant *)

\* A new level is a natural number.
LEMMA NewLevelIsNat ==
    ASSUME ScheduleTypeOK(ir), NEW n \in Nodes(ir), CanSchedule(ir, n),
           NEW l \in {0} \cup {ir.level[c] + 1 : c \in Dependents(ir, n)}
    PROVE  l \in Nat
<1>1. CASE l = 0
  BY <1>1
<1>2. CASE l \in {ir.level[c] + 1 : c \in Dependents(ir, n)}
  <2>1. PICK c \in Dependents(ir, n) : l = ir.level[c] + 1
    BY <1>2
  <2>2. c \in Nodes(ir)
    BY DependentsAreOtherNodes
  <2>3. ir.level[c] \in Nat
    BY <2>2, <2>1 DEF CanSchedule, Leveled, ScheduleTypeOK
  <2> QED
    BY <2>1, <2>3
<1> QED
  BY <1>1, <1>2

\* A schedule with a natural number for a level is well-formed as before.
LEMMA SetLevelKeepsType ==
    ASSUME NEW s, ScheduleTypeOK(s), NEW n \in Nodes(s), NEW l \in Nat,
           NEW t, t = [s EXCEPT !.level[n] = l]
    PROVE  ScheduleTypeOK(t)
<1>1. /\ t.order = s.order /\ t.ins = s.ins /\ t.outs = s.outs /\ t.body = s.body
      /\ t.isArg = s.isArg /\ t.ext = s.ext /\ t.depth = s.depth
      /\ t.depFree = s.depFree /\ t.isLegal = s.isLegal /\ t.tokens = s.tokens
      /\ t.level = [s.level EXCEPT ![n] = l]
  BY SetLevel DEF SameButLevels
<1>2. Nodes(t) = Nodes(s) /\ Buffers(t) = Buffers(s)
  BY <1>1 DEF Nodes, Buffers
<1>3. t = [order |-> t.order, ins |-> t.ins, outs |-> t.outs, level |-> t.level,
           body |-> t.body, isArg |-> t.isArg, ext |-> t.ext, depth |-> t.depth,
           depFree |-> t.depFree, isLegal |-> t.isLegal, tokens |-> t.tokens]
  <2>1. t = [order |-> s.order, ins |-> s.ins, outs |-> s.outs,
             level |-> [s.level EXCEPT ![n] = l],
             body |-> s.body, isArg |-> s.isArg, ext |-> s.ext,
             depth |-> s.depth, depFree |-> s.depFree, isLegal |-> s.isLegal,
             tokens |-> s.tokens]
    BY DEF ScheduleTypeOK
  <2> QED
    BY <2>1
<1>4. t.level \in [Nodes(t) -> Nat \cup {NoLevel}]
  BY <1>1, <1>2 DEF ScheduleTypeOK
<1> QED
  BY <1>1, <1>2, <1>3, <1>4 DEF ScheduleTypeOK

-----------------------------------------------------------------------------
(* The step *)

\* What ALAPScheduleNode asks of a level is what Settled says of it.
LEMMA StepSettles ==
    ASSUME ScheduleInv, NEW n \in Nodes(ir), CanSchedule(ir, n),
           NEW l \in {0} \cup {ir.level[c] + 1 : c \in Dependents(ir, n)},
           IsLatestLevel(ir, n, l), ir' = [ir EXCEPT !.level[n] = l]
    PROVE  LevelsSettled'
<1>0. ScheduleTypeOK(ir) /\ LevelsSettled
  BY DEF ScheduleInv
<1>1. l \in Nat
  BY <1>0, NewLevelIsNat
<1>2. SameButLevels(ir, ir') /\ ir'.level = [ir.level EXCEPT ![n] = l]
  <2>1. SameButLevels(ir, ir')
    BY <1>0, SetLevel
  <2>2. ir'.level = [ir.level EXCEPT ![n] = l]
    BY <1>0, SetLevel
  <2> QED
    BY <2>1, <2>2
<1>3. /\ Nodes(ir') = Nodes(ir)
      /\ \A m : Dependents(ir', m) = Dependents(ir, m)
      /\ \A m : HasViolation(ir', m) <=> HasViolation(ir, m)
  BY <1>2, LevelsDoNotMatter
<1>4. ir.level \in [Nodes(ir) -> Nat \cup {NoLevel}] /\ ~Leveled(ir, n)
  BY <1>0 DEF ScheduleTypeOK, CanSchedule
<1>5. \A m \in Nodes(ir) : m # n => ir'.level[m] = ir.level[m]
  BY <1>2, <1>4
<1>6. ir'.level[n] = l
  BY <1>2, <1>4
<1>7. \A m \in Nodes(ir) : Leveled(ir, m) => m # n /\ Leveled(ir', m)
  BY <1>4, <1>5 DEF Leveled
<1> SUFFICES ASSUME NEW m \in Nodes(ir), Leveled(ir', m)
             PROVE  /\ IgnoreViolations \/ ~HasViolation(ir, m)
                    /\ \A c \in Dependents(ir, m) : Leveled(ir', c)
                    /\ IsLatestLevel(ir', m, ir'.level[m])
  BY <1>3 DEF LevelsSettled, Settled
<1>8. Dependents(ir, m) \subseteq Nodes(ir) \ {m}
  BY DependentsAreOtherNodes
<1>9. CASE m = n
  <2>1. /\ IgnoreViolations \/ ~HasViolation(ir, n)
        /\ \A c \in Dependents(ir, n) : Leveled(ir, c)
    BY DEF CanSchedule
  <2>2. \A c \in Dependents(ir, n) : Leveled(ir', c) /\ ir'.level[c] = ir.level[c]
    BY <2>1, <1>5, <1>7, <1>8, <1>9
  <2>3. IsLatestLevel(ir', n, l)
    BY <2>2, <1>3 DEF IsLatestLevel
  <2> QED
    BY <2>1, <2>2, <2>3, <1>6, <1>9
<1>10. CASE m # n
  <2>1. Leveled(ir, m) /\ ir'.level[m] = ir.level[m]
    BY <1>10, <1>5 DEF Leveled
  <2>2. /\ IgnoreViolations \/ ~HasViolation(ir, m)
        /\ \A c \in Dependents(ir, m) : Leveled(ir, c)
        /\ IsLatestLevel(ir, m, ir.level[m])
    BY <1>0, <2>1 DEF LevelsSettled, Settled
  <2>3. \A c \in Dependents(ir, m) : Leveled(ir', c) /\ ir'.level[c] = ir.level[c]
    BY <2>2, <1>5, <1>7, <1>8
  <2>4. IsLatestLevel(ir', m, ir.level[m])
    BY <2>2, <2>3, <1>3 DEF IsLatestLevel
  <2> QED
    BY <2>1, <2>2, <2>3, <2>4
<1> QED
  BY <1>9, <1>10

\* The invariant holds of what LowerDataflow leaves.
LEMMA InitSettled ==
    ASSUME Unscheduled(ir)
    PROVE  ScheduleInv
BY DEF Unscheduled, ScheduleInv, LevelsSettled, Settled

\* One application of the pattern keeps the invariant, and all but the levels.
LEMMA StepKeepsInv ==
    ASSUME ScheduleInv, NEW n \in Nodes(ir), ALAPScheduleNode(n)
    PROVE  ScheduleInv' /\ SameButLevels(ir, ir')
<1>1. PICK l \in {0} \cup {ir.level[c] + 1 : c \in Dependents(ir, n)} :
         IsLatestLevel(ir, n, l) /\ ir' = [ir EXCEPT !.level[n] = l]
  BY DEF ALAPScheduleNode
<1>2. CanSchedule(ir, n)
  BY DEF ALAPScheduleNode
<1>3. l \in Nat
  BY <1>2, NewLevelIsNat DEF ScheduleInv
<1>4. ScheduleTypeOK(ir)'
  BY <1>1, <1>3, SetLevelKeepsType DEF ScheduleInv
<1>5. LevelsSettled'
  BY <1>1, <1>2, StepSettles
<1>6. SameButLevels(ir, ir')
  BY <1>1, SetLevel DEF ScheduleInv
<1> QED
  BY <1>4, <1>5, <1>6 DEF ScheduleInv

\* The equation orders the levels.
LEMMA SettledIsAbove ==
    ASSUME NEW s, ScheduleTypeOK(s), Settled(s), NEW n \in Nodes(s), Leveled(s, n),
           NEW c \in Dependents(s, n)
    PROVE  /\ Leveled(s, c) /\ s.level[c] < s.level[n]
           /\ s.level[c] \in Nat /\ s.level[n] \in Nat
<1>1. Leveled(s, c) /\ IsLatestLevel(s, n, s.level[n])
  BY DEF Settled
<1>2. s.level[c] + 1 <= s.level[n]
  BY <1>1 DEF IsLatestLevel
<1>3. s.level[c] \in Nat /\ s.level[n] \in Nat
  BY <1>1, DependentsAreOtherNodes DEF ScheduleTypeOK, Leveled
<1> QED
  BY <1>1, <1>2, <1>3

-----------------------------------------------------------------------------
(* Confluence *)

\* Two levels that satisfy the ALAP equation for the same dependents at the same
\* levels are the same.
LEMMA LatestLevelIsUnique ==
    ASSUME NEW s, NEW t, NEW n, Dependents(t, n) = Dependents(s, n),
           NEW k \in Nat, IsLatestLevel(s, n, k),
           NEW l \in Nat, IsLatestLevel(t, n, l),
           \A c \in Dependents(s, n) : s.level[c] \in Nat /\ t.level[c] = s.level[c]
    PROVE  k = l
<1>1. CASE Dependents(s, n) = {}
  BY <1>1 DEF IsLatestLevel
<1>2. CASE Dependents(s, n) # {}
  <2>1. PICK c \in Dependents(s, n) : k = s.level[c] + 1
    BY <1>2 DEF IsLatestLevel
  <2>2. PICK d \in Dependents(s, n) : l = s.level[d] + 1
    BY <1>2 DEF IsLatestLevel
  <2>3. s.level[c] + 1 <= l /\ s.level[d] + 1 <= k
    BY <1>2 DEF IsLatestLevel
  <2> QED
    BY <2>1, <2>2, <2>3
<1> QED
  BY <1>1, <1>2

\* Two settled schedules that differ in levels only agree on every node that has
\* a level in both: otherwise take one of the lowest in the first.
LEMMA SettledLevelsAgree ==
    ASSUME NEW s, ScheduleTypeOK(s), Settled(s),
           NEW t, ScheduleTypeOK(t), Settled(t), SameButLevels(s, t)
    PROVE  \A n \in Nodes(s) : Leveled(s, n) /\ Leveled(t, n) => t.level[n] = s.level[n]
<1> DEFINE D == {n \in Nodes(s) : Leveled(s, n) /\ Leveled(t, n) /\ t.level[n] # s.level[n]}
           L == {s.level[n] : n \in D}
<1> SUFFICES ASSUME D # {}
             PROVE  FALSE
  OBVIOUS
<1>1. Nodes(t) = Nodes(s) /\ \A n : Dependents(t, n) = Dependents(s, n)
  BY LevelsDoNotMatter
<1>2. \A n \in Nodes(s) : /\ Leveled(s, n) => s.level[n] \in Nat
                          /\ Leveled(t, n) => t.level[n] \in Nat
  BY <1>1 DEF ScheduleTypeOK, Leveled
<1>3. L \in SUBSET Nat /\ L # {}
  BY <1>2
<1>4. PICK n \in D : \A m \in D : s.level[n] <= s.level[m]
  <2> HIDE DEF L
  <2>1. PICK x \in L : \A y \in L : x <= y
    BY <1>3, LeastNat
  <2> QED
    BY <2>1 DEF L
<1>5. \A c \in Dependents(s, n) : /\ c \in Nodes(s) /\ s.level[c] \in Nat
                                  /\ Leveled(s, c) /\ s.level[c] < s.level[n]
  BY SettledIsAbove, DependentsAreOtherNodes
<1>6. \A c \in Dependents(s, n) : Leveled(t, c)
  BY <1>1 DEF Settled
<1>7. \A c \in Dependents(s, n) : c \notin D
  <2> SUFFICES ASSUME NEW c \in Dependents(s, n), c \in D
               PROVE  FALSE
    OBVIOUS
  <2>1. s.level[n] <= s.level[c] /\ s.level[c] < s.level[n]
    BY <1>4, <1>5
  <2> QED
    BY <2>1, <1>2, <1>5
<1>8. \A c \in Dependents(s, n) : s.level[c] \in Nat /\ t.level[c] = s.level[c]
  BY <1>5, <1>6, <1>7
<1>9. IsLatestLevel(s, n, s.level[n]) /\ IsLatestLevel(t, n, t.level[n])
  BY <1>1 DEF Settled
<1>10. s.level[n] = t.level[n]
  BY <1>1, <1>2, <1>8, <1>9, LatestLevelIsUnique
<1> QED
  BY <1>10

\* The pattern applies to no node of s any more.
Exhausted(s) == \A n \in Nodes(s) : ~CanSchedule(s, n)

\* What has a level in a settled schedule has one in an exhausted schedule: else
\* the pattern applies to the lowest that has none.
LEMMA ExhaustedIsComplete ==
    ASSUME NEW s, ScheduleTypeOK(s), Settled(s),
           NEW t, ScheduleTypeOK(t), Exhausted(t), SameButLevels(s, t)
    PROVE  \A n \in Nodes(s) : Leveled(s, n) => Leveled(t, n)
<1> DEFINE D == {n \in Nodes(s) : Leveled(s, n) /\ ~Leveled(t, n)}
           L == {s.level[n] : n \in D}
<1> SUFFICES ASSUME D # {}
             PROVE  FALSE
  OBVIOUS
<1>1. /\ Nodes(t) = Nodes(s) /\ \A n : Dependents(t, n) = Dependents(s, n)
      /\ \A n : HasViolation(t, n) <=> HasViolation(s, n)
  BY LevelsDoNotMatter
<1>2. \A n \in Nodes(s) : Leveled(s, n) => s.level[n] \in Nat
  BY DEF ScheduleTypeOK, Leveled
<1>3. L \in SUBSET Nat /\ L # {}
  BY <1>2
<1>4. PICK n \in D : \A m \in D : s.level[n] <= s.level[m]
  <2> HIDE DEF L
  <2>1. PICK x \in L : \A y \in L : x <= y
    BY <1>3, LeastNat
  <2> QED
    BY <2>1 DEF L
<1>5. \A c \in Dependents(s, n) : /\ c \in Nodes(s) /\ s.level[c] \in Nat
                                  /\ Leveled(s, c) /\ s.level[c] < s.level[n]
  BY SettledIsAbove, DependentsAreOtherNodes
<1>6. \A c \in Dependents(s, n) : Leveled(t, c)
  <2> SUFFICES ASSUME NEW c \in Dependents(s, n), c \in D
               PROVE  FALSE
    BY <1>5
  <2>1. s.level[n] <= s.level[c] /\ s.level[c] < s.level[n]
    BY <1>4, <1>5
  <2> QED
    BY <2>1, <1>2, <1>5
<1>7. IgnoreViolations \/ ~HasViolation(t, n)
  BY <1>1 DEF Settled
<1>8. CanSchedule(t, n)
  BY <1>1, <1>6, <1>7 DEF CanSchedule
<1> QED
  BY <1>1, <1>8 DEF Exhausted

\* An outcome of the pass on s: settled, exhausted and but for the levels s.
IsOutcome(s, t) ==
    ScheduleTypeOK(t) /\ Settled(t) /\ Exhausted(t) /\ SameButLevels(s, t)

\* A schedule has one outcome at most.
THEOREM OutcomeIsUnique ==
    ASSUME NEW s, NEW t, IsOutcome(s, t), NEW u, IsOutcome(s, u)
    PROVE  u = t
<1>1. SameButLevels(t, u) /\ SameButLevels(u, t)
  BY DEF IsOutcome, SameButLevels
<1>2. Nodes(u) = Nodes(t)
  BY <1>1, LevelsDoNotMatter
<1>3. \A n \in Nodes(t) : Leveled(t, n) <=> Leveled(u, n)
  BY <1>1, <1>2, ExhaustedIsComplete DEF IsOutcome
<1>4. \A n \in Nodes(t) : u.level[n] = t.level[n]
  <2> SUFFICES ASSUME NEW n \in Nodes(t)
               PROVE  u.level[n] = t.level[n]
    OBVIOUS
  <2>1. CASE Leveled(t, n)
    BY <2>1, <1>1, <1>3, SettledLevelsAgree DEF IsOutcome
  <2>2. CASE ~Leveled(t, n)
    BY <2>2, <1>3 DEF Leveled
  <2> QED
    BY <2>1, <2>2
<1>5. t.level \in [Nodes(t) -> Nat \cup {NoLevel}] /\ u.level \in [Nodes(t) -> Nat \cup {NoLevel}]
  BY <1>2 DEF IsOutcome, ScheduleTypeOK
<1>6. u.level = t.level
  BY <1>4, <1>5
<1>7. /\ t = [order |-> t.order, ins |-> t.ins, outs |-> t.outs, level |-> t.level,
              body |-> t.body, isArg |-> t.isArg, ext |-> t.ext, depth |-> t.depth,
              depFree |-> t.depFree, isLegal |-> t.isLegal, tokens |-> t.tokens]
      /\ u = [order |-> u.order, ins |-> u.ins, outs |-> u.outs, level |-> u.level,
              body |-> u.body, isArg |-> u.isArg, ext |-> u.ext, depth |-> u.depth,
              depFree |-> u.depFree, isLegal |-> u.isLegal, tokens |-> u.tokens]
  BY DEF IsOutcome, ScheduleTypeOK
<1> QED
  BY <1>1, <1>6, <1>7 DEF SameButLevels

-----------------------------------------------------------------------------
(* What follows a node after so many dependences *)

\* A schedule has finitely many nodes.
LEMMA NodesFinite ==
    ASSUME NEW s, ScheduleTypeOK(s)
    PROVE  IsFiniteSet(Nodes(s)) /\ Cardinality(Nodes(s)) \in Nat
<1> DEFINE I == 1..Len(s.order)
<1>1. s.order \in Seq(Nodes(s)) /\ Range(s.order) = Nodes(s)
  BY DEF ScheduleTypeOK
<1>2. Len(s.order) \in Nat /\ DOMAIN s.order = I /\ IsFiniteSet(I)
  BY <1>1, FS_Interval
<1>3. Nodes(s) = {s.order[i] : i \in I}
  BY <1>1, <1>2 DEF Range
<1>4. s.order \in [I -> Nodes(s)]
  BY <1>1
<1> HIDE DEF I
<1>5. IsFiniteSet({s.order[i] : i \in I})
  BY <1>2, FiniteImage
<1> QED
  BY <1>3, <1>5, FS_CardinalityType

\* The function exists, for the sets of nodes can be iterated.
LEMMA AfterIs ==
    ASSUME NEW s, ScheduleTypeOK(s), NEW n \in Nodes(s)
    PROVE  LET N == Cardinality(Nodes(s))
           IN  /\ After(s, n) \in [0..N -> SUBSET Nodes(s)]
               /\ After(s, n)[0] = {n}
               /\ \A k \in 1..N : After(s, n)[k] = UNION {Dependents(s, m) : m \in After(s, n)[k - 1]}
<1> DEFINE N == Cardinality(Nodes(s))
           F == [S \in SUBSET Nodes(s) |-> UNION {Dependents(s, m) : m \in S}]
           IsAfter(g) == g = [k \in 0..N |->
                IF k = 0 THEN {n} ELSE UNION {Dependents(s, m) : m \in g[k - 1]}]
<1>1. N \in Nat
  BY NodesFinite
<1>2. F \in [SUBSET Nodes(s) -> SUBSET Nodes(s)]
  BY DependentsAreOtherNodes
<1>3. PICK g \in [0..N -> SUBSET Nodes(s)] : g[0] = {n} /\ \A k \in 1..N : g[k] = F[g[k - 1]]
  <2> DEFINE A == SUBSET Nodes(s)
             x == {n}
  <2>1. x \in A
    OBVIOUS
  <2> HIDE DEF F, N, A, x
  <2>2. F \in [A -> A]
    BY <1>2 DEF A
  <2>3. \E g : Iterated(g, A, x, F, N)
    BY <1>1, <2>1, <2>2, Iterates
  <2> QED
    BY <2>3 DEF Iterated, A, x
<1>4. \A k \in 1..N : k - 1 \in 0..N /\ g[k] = UNION {Dependents(s, m) : m \in g[k - 1]}
  <2>1. \A k \in 1..N : k - 1 \in 0..N
    BY <1>1
  <2>2. \A S \in SUBSET Nodes(s) : F[S] = UNION {Dependents(s, m) : m \in S}
    OBVIOUS
  <2> HIDE DEF F, N
  <2>3. \A k \in 1..N : g[k - 1] \in SUBSET Nodes(s)
    BY <1>3, <2>1
  <2> QED
    BY <1>3, <2>1, <2>2, <2>3
<1>5. IsAfter(g)
  <2>1. \A k \in 0..N : k # 0 => k \in 1..N
    BY <1>1
  <2> QED
    BY <1>3, <1>4, <2>1
<1>6. IsAfter(After(s, n))
  BY <1>5 DEF After
<1>7. \A h : IsAfter(h) => /\ DOMAIN h = 0..N /\ h[0] = {n}
                           /\ \A k \in 1..N : h[k] = UNION {Dependents(s, m) : m \in h[k - 1]}
  <2> SUFFICES ASSUME NEW h, IsAfter(h)
               PROVE  /\ DOMAIN h = 0..N /\ h[0] = {n}
                      /\ \A k \in 1..N : h[k] = UNION {Dependents(s, m) : m \in h[k - 1]}
    OBVIOUS
  <2>1. DOMAIN h = 0..N /\ 0 \in 0..N /\ \A k \in 1..N : k \in 0..N /\ k # 0
    BY <1>1
  <2> HIDE DEF N
  <2> QED
    BY <2>1
<1> DEFINE a == After(s, n)
           S == {k \in 0..N : a[k] \subseteq Nodes(s)}
<1> HIDE DEF N, a
<1>8. /\ DOMAIN a = 0..N /\ a[0] = {n}
      /\ \A k \in 1..N : a[k] = UNION {Dependents(s, m) : m \in a[k - 1]}
  BY <1>6, <1>7 DEF a
<1>9. a = [k \in 0..N |-> a[k]]
  BY <1>6, <1>8 DEF a
<1>10. \A k \in 0..N : a[k] \subseteq Nodes(s)
  <2>1. 0 \in S
    BY <1>1, <1>8
  <2>2. \A k \in 1..N : k - 1 \in S => k \in S
    BY <1>1, <1>8, DependentsAreOtherNodes
  <2> HIDE DEF S
  <2>3. 0..N \subseteq S
    BY <1>1, <2>1, <2>2, UpTo
  <2> QED
    BY <2>3 DEF S
<1>11. a \in [0..N -> SUBSET Nodes(s)]
  BY <1>9, <1>10
<1> QED
  BY <1>8, <1>11 DEF N, a

\* One more dependence leads one step on.
LEMMA AfterNext ==
    ASSUME NEW s, ScheduleTypeOK(s), NEW n \in Nodes(s), NEW k \in 1..Cardinality(Nodes(s)),
           NEW m \in After(s, n)[k - 1], NEW c \in Dependents(s, m)
    PROVE  c \in After(s, n)[k]
BY AfterIs

\* Behind a node with a level all have one, lower by the number of dependences at least,
\* and as long as the level lasts for one node it is just that.
LEMMA LevelsAfter ==
    ASSUME NEW s, ScheduleTypeOK(s), Settled(s), NEW n \in Nodes(s), Leveled(s, n)
    PROVE  \A k \in 0..Cardinality(Nodes(s)) :
              /\ \A m \in After(s, n)[k] : m \in Nodes(s) /\ Leveled(s, m) /\ s.level[m] + k <= s.level[n]
              /\ k <= s.level[n] => \E m \in After(s, n)[k] : s.level[m] + k = s.level[n]
<1> DEFINE N == Cardinality(Nodes(s))
           a == After(s, n)
           Holds(k) ==
              /\ \A m \in a[k] : m \in Nodes(s) /\ Leveled(s, m) /\ s.level[m] + k <= s.level[n]
              /\ k <= s.level[n] => \E m \in a[k] : s.level[m] + k = s.level[n]
           S == {k \in 0..N : Holds(k)}
<1>1. N \in Nat
  BY NodesFinite
<1>2. /\ a[0] = {n}
      /\ \A k \in 1..N : a[k] = UNION {Dependents(s, m) : m \in a[k - 1]}
  BY AfterIs
<1>3. \A m \in Nodes(s) : Leveled(s, m) => s.level[m] \in Nat
  BY DEF ScheduleTypeOK, Leveled
<1> HIDE DEF N, a
<1>4. 0 \in S
  BY <1>1, <1>2, <1>3
<1>5. ASSUME NEW k \in 1..N, k - 1 \in S PROVE k \in S
  <2>1. Holds(k - 1)
    BY <1>5
  <2>2. ASSUME NEW m \in a[k] PROVE m \in Nodes(s) /\ Leveled(s, m) /\ s.level[m] + k <= s.level[n]
    <3>1. PICK h \in a[k - 1] : m \in Dependents(s, h)
      BY <1>2
    <3>2. h \in Nodes(s) /\ Leveled(s, h) /\ s.level[h] + (k - 1) <= s.level[n]
      BY <2>1
    <3>3. /\ m \in Nodes(s) /\ Leveled(s, m) /\ s.level[m] < s.level[h]
          /\ s.level[m] \in Nat /\ s.level[h] \in Nat /\ s.level[n] \in Nat
      BY <1>3, <3>1, <3>2, SettledIsAbove, DependentsAreOtherNodes
    <3> QED
      BY <3>2, <3>3
  <2>3. ASSUME k <= s.level[n] PROVE \E m \in a[k] : s.level[m] + k = s.level[n]
    <3>1. s.level[n] \in Nat /\ k - 1 <= s.level[n]
      BY <1>3, <2>3
    <3>2. PICK h \in a[k - 1] : s.level[h] + (k - 1) = s.level[n]
      BY <2>1, <3>1
    <3>3. h \in Nodes(s) /\ Leveled(s, h) /\ s.level[h] \in Nat
      BY <1>3, <2>1
    <3>4. s.level[h] # 0 /\ IsLatestLevel(s, h, s.level[h])
      BY <2>3, <3>1, <3>2, <3>3 DEF Settled
    <3>5. PICK m \in Dependents(s, h) : s.level[h] = s.level[m] + 1
      BY <3>4 DEF IsLatestLevel
    <3>6. m \in a[k] /\ s.level[m] \in Nat
      BY <1>2, <3>2, <3>3, <3>5, SettledIsAbove
    <3> QED
      BY <3>1, <3>2, <3>3, <3>5, <3>6
  <2> QED
    BY <2>2, <2>3
<1> HIDE DEF S
<1>6. 0..N \subseteq S
  BY <1>1, <1>4, <1>5, UpTo
<1> QED
  BY <1>6 DEF S, N, a

\* A level is below the number of nodes: else as many dependences lead through nodes
\* with different levels, more than there are.
LEMMA LevelsFew ==
    ASSUME NEW s, ScheduleTypeOK(s), Settled(s), NEW n \in Nodes(s), Leveled(s, n)
    PROVE  s.level[n] \in Nat /\ s.level[n] < Cardinality(Nodes(s))
<1> DEFINE N == Cardinality(Nodes(s))
           g == [k \in 0..N |-> CHOOSE m \in After(s, n)[k] : s.level[m] + k = s.level[n]]
<1>1. N \in Nat /\ IsFiniteSet(Nodes(s))
  BY NodesFinite
<1>2. s.level[n] \in Nat
  BY DEF ScheduleTypeOK, Leveled
<1> SUFFICES ASSUME N <= s.level[n] PROVE FALSE
  BY <1>1, <1>2
<1>3. \A k \in 0..N : \E m \in After(s, n)[k] : s.level[m] + k = s.level[n]
  BY <1>1, <1>2, LevelsAfter
<1>4. \A k \in 0..N : g[k] \in After(s, n)[k] /\ s.level[g[k]] + k = s.level[n]
  BY <1>3
<1> HIDE DEF g
<1>5. \A k \in 0..N : g[k] \in Nodes(s) /\ s.level[g[k]] \in Nat
  <2>1. \A m \in Nodes(s) : Leveled(s, m) => s.level[m] \in Nat
    BY DEF ScheduleTypeOK, Leveled
  <2> QED
    BY <1>4, <2>1, LevelsAfter
<1>6. DOMAIN g = 0..N /\ g = [k \in 0..N |-> g[k]]
  BY DEF g
<1>7. g \in [0..N -> Nodes(s)]
  BY <1>5, <1>6
<1>8. PICK i, j \in 0..N : i < j /\ g[i] = g[j]
  BY <1>1, <1>7, Pigeonhole
<1> HIDE DEF N
<1>9. s.level[g[i]] + i = s.level[n] /\ s.level[g[i]] + j = s.level[n] /\ s.level[g[i]] \in Nat
  BY <1>4, <1>5, <1>8
<1> QED
  BY <1>1, <1>2, <1>8, <1>9

\* A settled level is the length of the longest path of dependences.
LEMMA SettledIsLongest ==
    ASSUME NEW s, ScheduleTypeOK(s), Settled(s), NEW n \in Nodes(s), Leveled(s, n)
    PROVE  /\ s.level[n] \in DOMAIN After(s, n)
           /\ After(s, n)[s.level[n]] # {}
           /\ \A k \in DOMAIN After(s, n) : k > s.level[n] => After(s, n)[k] = {}
<1> DEFINE N == Cardinality(Nodes(s))
<1>1. N \in Nat /\ s.level[n] \in Nat /\ s.level[n] < N
  BY NodesFinite, LevelsFew
<1>2. DOMAIN After(s, n) = 0..N
  BY AfterIs
<1>3. s.level[n] \in 0..N
  BY <1>1
<1>4. After(s, n)[s.level[n]] # {}
  BY <1>1, <1>3, LevelsAfter
<1>5. ASSUME NEW k \in 0..N, k > s.level[n], NEW m \in After(s, n)[k] PROVE FALSE
  <2>1. m \in Nodes(s) /\ Leveled(s, m) /\ s.level[m] + k <= s.level[n]
    BY LevelsAfter
  <2>2. s.level[m] \in Nat
    BY <2>1 DEF ScheduleTypeOK, Leveled
  <2> QED
    BY <1>1, <1>5, <2>1, <2>2
<1> QED
  BY <1>2, <1>3, <1>4, <1>5

-----------------------------------------------------------------------------
(* Nodes without a level *)

\* Where the pattern applies to nothing, a node without a level and without a violation
\* waits for another one without a level: that goes on until a node comes again.
LEMMA StuckForACause ==
    ASSUME NEW s, ScheduleTypeOK(s), Exhausted(s), NEW n \in Nodes(s), ~Leveled(s, n)
    PROVE  \E k \in DOMAIN After(s, n) : \E m \in After(s, n)[k] :
              \/ HasViolation(s, m) /\ ~IgnoreViolations
              \/ \E j \in DOMAIN After(s, m) \ {0} : m \in After(s, m)[j]
<1> DEFINE N == Cardinality(Nodes(s))
           Waits(m) == {c \in Dependents(s, m) : ~Leveled(s, c)}
           F == [m \in Nodes(s) |-> IF Waits(m) = {} THEN m ELSE CHOOSE c \in Waits(m) : TRUE]
<1>1. N \in Nat /\ IsFiniteSet(Nodes(s))
  BY NodesFinite
<1>2. \A m \in Nodes(s) : DOMAIN After(s, m) = 0..N
  BY AfterIs
<1>3. \A m \in Nodes(s) : F[m] \in Nodes(s) /\ (Waits(m) # {} => F[m] \in Waits(m))
  BY DependentsAreOtherNodes
<1>4. F \in [Nodes(s) -> Nodes(s)]
  BY <1>3
<1>5. PICK g \in [0..N -> Nodes(s)] : g[0] = n /\ \A k \in 1..N : g[k] = F[g[k - 1]]
  <2> HIDE DEF F, N
  <2> DEFINE A == Nodes(s)
  <2>1. n \in A /\ F \in [A -> A]
    BY <1>4
  <2> HIDE DEF A
  <2>2. \E g : Iterated(g, A, n, F, N)
    BY <1>1, <2>1, Iterates
  <2> QED
    BY <2>2 DEF Iterated, A
<1> SUFFICES ASSUME \A k \in 0..N : \A m \in After(s, n)[k] : ~HasViolation(s, m) \/ IgnoreViolations
             PROVE  \E k \in 0..N : \E m \in After(s, n)[k] :
                       \E j \in DOMAIN After(s, m) \ {0} : m \in After(s, m)[j]
  BY <1>2
<1> HIDE DEF F, N
<1> DEFINE S == {k \in 0..N : g[k] \in After(s, n)[k] /\ ~Leveled(s, g[k])}
<1>6. 0 \in S
  BY <1>1, <1>5, AfterIs
<1>7. ASSUME NEW k \in 1..N, k - 1 \in S
      PROVE  g[k] \in Dependents(s, g[k - 1]) /\ ~Leveled(s, g[k])
  <2>1. k - 1 \in 0..N /\ g[k - 1] \in Nodes(s) /\ g[k - 1] \in After(s, n)[k - 1] /\ ~Leveled(s, g[k - 1])
    BY <1>1, <1>5, <1>7
  <2>2. ~CanSchedule(s, g[k - 1]) /\ (~HasViolation(s, g[k - 1]) \/ IgnoreViolations)
    BY <2>1 DEF Exhausted
  <2>3. Waits(g[k - 1]) # {}
    BY <2>1, <2>2 DEF CanSchedule
  <2> QED
    BY <1>3, <1>5, <2>1, <2>3
<1>8. ASSUME NEW k \in 1..N, k - 1 \in S PROVE k \in S
  BY <1>7, <1>8, AfterNext DEF N
<1> HIDE DEF S
<1>9. 0..N \subseteq S
  BY <1>1, <1>6, <1>8, UpTo
<1>10. \A k \in 0..N : g[k] \in After(s, n)[k]
  BY <1>9 DEF S
<1>11. \A k \in 1..N : g[k] \in Dependents(s, g[k - 1])
  <2>1. \A k \in 1..N : k - 1 \in 0..N
    BY <1>1
  <2> QED
    BY <1>7, <1>9, <2>1
<1>12. PICK i, j \in 0..N : i < j /\ g[i] = g[j]
  BY <1>1, <1>5, Pigeonhole DEF N
<1> DEFINE M == j - i
           T == {k \in 0..M : g[i + k] \in After(s, g[i])[k]}
<1>13. M \in 1..N /\ M \in Nat /\ g[i] \in Nodes(s) /\ i + M = j /\ \A k \in 1..M : k \in 1..N /\ i + k \in 1..N
  BY <1>1, <1>5, <1>12
<1>14. 0 \in T
  BY <1>12, <1>13, AfterIs
<1>15. \A k \in 1..M : k - 1 \in T => k \in T
  <2> SUFFICES ASSUME NEW k \in 1..M, k - 1 \in T PROVE k \in T
    OBVIOUS
  <2>1. k \in 1..N /\ i + k \in 1..N /\ (i + k) - 1 = i + (k - 1)
    <3>1. k \in 1..N /\ i + k \in 1..N
      BY <1>13
    <3>2. i \in Nat /\ k \in Nat
      BY <1>1, <1>12
    <3> QED
      BY <3>1, <3>2
  <2>2. g[i + k] \in Dependents(s, g[i + (k - 1)])
    BY <1>11, <2>1
  <2> QED
    BY <1>13, <2>1, <2>2, AfterNext DEF N
<1> HIDE DEF T
<1>16. 0..M \subseteq T
  BY <1>13, <1>14, <1>15, UpTo
<1>17. M \in T
  BY <1>13, <1>16
<1>18. g[i] \in After(s, g[i])[M] /\ M \in DOMAIN After(s, g[i]) \ {0}
  <2>1. g[i + M] \in After(s, g[i])[M]
    BY <1>17 DEF T
  <2> HIDE DEF M
  <2>2. M \in 0..N /\ M # 0
    BY <1>1, <1>13
  <2> QED
    BY <1>2, <1>12, <1>13, <2>1, <2>2
<1> QED
  BY <1>10, <1>18

-----------------------------------------------------------------------------
(* The theorems of the specification *)

\* The schedule stays well-formed and its levels settled in every state of the
\* pass, whatever nodes the greedy driver picks.
THEOREM ScheduleInvariance == ScheduleSpec => []ScheduleInv
<1>1. ScheduleInit => ScheduleInv
  BY InitSettled, SchedulesAssumption DEF ScheduleInit
<1>2. ScheduleInv /\ [ScheduleNext]_ir => ScheduleInv'
  <2> SUFFICES ASSUME ScheduleInv, [ScheduleNext]_ir
               PROVE  ScheduleInv'
    OBVIOUS
  <2>1. CASE ScheduleNext
    BY <2>1, StepKeepsInv DEF ScheduleNext
  <2>2. CASE UNCHANGED ir
    BY <2>2 DEF ScheduleInv, LevelsSettled
  <2> QED
    BY <2>1, <2>2
<1> QED
  BY <1>1, <1>2, PTL DEF ScheduleSpec

\* The pass gives the schedule no ill-formed state: every level it writes is a
\* natural number, every operand list stays as it was.
THEOREM ScheduleTypeCorrect == ScheduleSpec => []ScheduleTypeOK(ir)
<1>1. ScheduleInv => ScheduleTypeOK(ir)
  BY DEF ScheduleInv
<1> QED
  BY <1>1, ScheduleInvariance, PTL

\* Every level satisfies the ALAP equation in every state of the pass.
THEOREM LevelsAreSettled == ScheduleSpec => []LevelsSettled
<1>1. ScheduleInv => LevelsSettled
  BY DEF ScheduleInv
<1> QED
  BY <1>1, ScheduleInvariance, PTL

\* A node that has a level is above all that depends on it, in every state of the
\* pass and for every schedule: the unsigned level differences that
\* BalanceDataflowNode, LegalizeDataflow and CreateTokenStream take are positive.
THEOREM LevelsOrdered == ScheduleSpec => []LevelAboveDependents
<1>1. ScheduleInv => LevelAboveDependents
  BY SettledIsAbove DEF ScheduleInv, LevelsSettled, LevelAboveDependents
<1> QED
  BY <1>1, ScheduleInvariance, PTL

\* Whatever the order in which the greedy driver visits the nodes: runs of the
\* pass that start on s and end, end on the same schedule.
THEOREM DriverOrderDoesNotMatter ==
    ASSUME NEW CONSTANT s, NEW CONSTANT t, IsOutcome(s, t)
    PROVE  ScheduleSpec /\ ir = s => [](~ScheduleDataflowNodeApplies => ir = t)
<1> DEFINE Inv == ScheduleInv /\ SameButLevels(s, ir)
<1>1. ScheduleInit /\ ir = s => SameButLevels(s, ir)
  BY DEF SameButLevels
<1>2. ScheduleInv /\ SameButLevels(s, ir) /\ [ScheduleNext]_ir => SameButLevels(s, ir)'
  <2> SUFFICES ASSUME ScheduleInv, SameButLevels(s, ir), [ScheduleNext]_ir
               PROVE  SameButLevels(s, ir')
    OBVIOUS
  <2>1. CASE ScheduleNext
    <3>1. SameButLevels(ir, ir')
      BY <2>1, StepKeepsInv DEF ScheduleNext
    <3> QED
      BY <3>1 DEF SameButLevels
  <2>2. CASE UNCHANGED ir
    BY <2>2
  <2> QED
    BY <2>1, <2>2
<1>3. ScheduleInv /\ SameButLevels(s, ir) => (~ScheduleDataflowNodeApplies => ir = t)
  <2> SUFFICES ASSUME ScheduleInv, SameButLevels(s, ir), ~ScheduleDataflowNodeApplies
               PROVE  ir = t
    OBVIOUS
  <2>1. IsOutcome(s, ir)
    BY DEF IsOutcome, Exhausted, ScheduleInv, LevelsSettled, ScheduleDataflowNodeApplies
  <2> QED
    BY <2>1, OutcomeIsUnique
<1> QED
  BY <1>1, <1>2, <1>3, ScheduleInvariance, PTL DEF ScheduleSpec

\* In every state of the pass, for every schedule, a level is the number of dependences
\* on the longest path from the node: levels are as late as possible, and not later.
THEOREM LevelsAreLongestPaths == ScheduleSpec => []LevelIsLongestPath
<1>1. ScheduleInv => LevelIsLongestPath
  BY SettledIsLongest DEF ScheduleInv, LevelsSettled, LevelIsLongestPath
<1> QED
  BY <1>1, ScheduleInvariance, PTL

\* What the pass leaves without a level, whatever the order of the driver, waits for a
\* violation or for a cycle of dependences.
THEOREM UnscheduledHasCause == ScheduleSpec => []UnscheduledForACause
<1>1. ScheduleInv => UnscheduledForACause
  BY StuckForACause DEF ScheduleInv, UnscheduledForACause, ScheduleDataflowNodeApplies, Exhausted
<1> QED
  BY <1>1, ScheduleInvariance, PTL
=============================================================================
