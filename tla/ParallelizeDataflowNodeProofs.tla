------------------- MODULE ParallelizeDataflowNodeProofs -------------------
(***************************************************************************)
(* For all programs: the unroll factors of correlated nodes divide the trip *)
(* counts of their loops, when the loops that share a dimension agree, a    *)
(* node never takes parallelism back, the pass crashes for named causes     *)
(* only, and the shares of the nodes of a schedule follow their work.       *)
(* Correlated nodes spend their factors or unroll all they can, and         *)
(* unrolling neither drops nor repeats an iteration.                        *)
(***************************************************************************)
EXTENDS ParallelizeDataflowNode, NumberLemmas

\* f unrolls the loop into whole tiles.
Fits(loop, f) ==
    /\ f \in Nat \ {0}
    /\ IF loop.known THEN f <= loop.trip /\ loop.trip % f = 0 ELSE f = 1

-----------------------------------------------------------------------------
(* One factor *)

\* Trip counts are divided by themselves and by one.
LEMMA SelfDivides == \A t \in Nat \ {0} : t % t = 0 /\ t % 1 = 0
OBVIOUS

\* An increased factor divides the trip count, or the counter wrapped.
LEMMA IncreaseFactorDivides ==
    ASSUME NEW trip \in Nat \ {0}, NEW factor \in Nat \ {0},
           IncreaseFactor(trip, factor) # Wrapped
    PROVE  /\ IncreaseFactor(trip, factor) \in factor..trip
           /\ trip % IncreaseFactor(trip, factor) = 0
<1> DEFINE D == Divisors(trip, factor)
<1>1. D # {}
  BY DEF IncreaseFactor
<1>2. \A g \in D : g \in factor..trip /\ trip % g = 0
  BY DEF Divisors
<1>3. D \in SUBSET Nat
  BY <1>2
<1> HIDE DEF D
<1>4. \E g \in D : \A h \in D : g <= h
  BY <1>1, <1>3, LeastNat
<1>5. IncreaseFactor(trip, factor) = CHOOSE g \in D : \A h \in D : g <= h
  BY <1>1 DEF IncreaseFactor, D
<1>6. IncreaseFactor(trip, factor) \in D
  BY <1>4, <1>5
<1> QED
  BY <1>2, <1>6

\* The size getDistributedFactors gives a loop makes whole tiles.
LEMMA DistributedSizeFits ==
    ASSUME NEW loop \in Loops, NEW remain \in Nat
    PROVE  Fits(loop, DistributedSize(loop, remain))
<1>1. CASE ~loop.known
  BY <1>1 DEF DistributedSize, Fits
<1>2. CASE loop.known /\ remain >= loop.trip
  <2>1. loop.trip \in Nat \ {0}
    BY <1>2 DEF Loops
  <2> QED
    BY <1>2, <2>1, SelfDivides DEF DistributedSize, Fits
<1>3. CASE loop.known /\ ~(remain >= loop.trip) /\ ~(remain > 1)
  <2>1. loop.trip \in Nat \ {0}
    BY <1>3 DEF Loops
  <2>2. DistributedSize(loop, remain) = 1
    BY <1>3 DEF DistributedSize
  <2> QED
    BY <1>3, <2>1, <2>2, SelfDivides DEF Fits
<1>4. CASE loop.known /\ ~(remain >= loop.trip) /\ remain > 1
  <2> DEFINE D == {d \in remain..loop.trip : loop.trip % d = 0}
             S(d) == /\ loop.trip % d = 0
                     /\ \A t \in remain..(d - 1) : loop.trip % t # 0
  <2>1. loop.trip \in Nat \ {0} /\ remain < loop.trip
    BY <1>4 DEF Loops
  <2>2. loop.trip \in D
    BY <2>1, SelfDivides
  <2>3. D \in SUBSET Nat
    OBVIOUS
  <2>4. PICK d \in D : \A e \in D : d <= e
    BY <2>2, <2>3, LeastNat
  <2>5. d \in remain..loop.trip /\ S(d)
    <3>1. \A t \in remain..(d - 1) : t \in D => FALSE
      BY <2>1, <2>4
    <3>2. \A t \in remain..(d - 1) : t \in remain..loop.trip
      BY <2>1, <2>4
    <3> QED
      BY <2>4, <3>1, <3>2
  <2>6. DistributedSize(loop, remain) = CHOOSE e \in remain..loop.trip : S(e)
    BY <1>4 DEF DistributedSize
  <2> HIDE DEF S
  <2>7. DistributedSize(loop, remain) \in remain..loop.trip /\ S(DistributedSize(loop, remain))
    BY <2>5, <2>6
  <2>8. DistributedSize(loop, remain) \in remain..loop.trip
        /\ loop.trip % DistributedSize(loop, remain) = 0
    BY <2>7 DEF S
  <2> QED
    BY <1>4, <2>1, <2>8 DEF Fits
<1> QED
  BY <1>1, <1>2, <1>3, <1>4

-----------------------------------------------------------------------------
(* The factors of a band *)

FitsBand(band, factors) == \A i \in DOMAIN band : Fits(band[i], factors[i])

\* Factors are positive and there is one for each loop.
Typed(band, factors) == factors \in [DOMAIN band -> Nat \ {0}]

\* A band, and what is left of it from loop f on, are sequences of loops.
LEMMA BandsAreTyped ==
    ASSUME WellFormed(prog), NEW n \in Nodes, NEW b \in DOMAIN prog.bands[n], NEW f \in Nat \ {0}
    PROVE  /\ prog.bands[n][b] \in Seq(Loops)
           /\ BandFrom(n, b, f) \in Seq(Loops)
           /\ \A i \in DOMAIN BandFrom(n, b, f) :
                 /\ i + f - 1 \in DOMAIN prog.bands[n][b]
                 /\ BandFrom(n, b, f)[i] = prog.bands[n][b][i + f - 1]
           /\ f = 1 => BandFrom(n, b, f) = prog.bands[n][b]
<1>1. prog.bands[n] \in Seq(Seq(Loops))
  BY DEF WellFormed, Nodes
<1>2. prog.bands[n][b] \in Seq(Loops)
  BY <1>1
<1>3. ASSUME NEW band \in Seq(Loops)
      PROVE  /\ SubSeq(band, f, Len(band)) \in Seq(Loops)
             /\ \A i \in DOMAIN SubSeq(band, f, Len(band)) :
                   /\ i + f - 1 \in DOMAIN band
                   /\ SubSeq(band, f, Len(band))[i] = band[i + f - 1]
             /\ f = 1 => SubSeq(band, f, Len(band)) = band
  OBVIOUS
<1>4. /\ BandFrom(n, b, f) \in Seq(Loops)
      /\ \A i \in DOMAIN BandFrom(n, b, f) :
            /\ i + f - 1 \in DOMAIN prog.bands[n][b]
            /\ BandFrom(n, b, f)[i] = prog.bands[n][b][i + f - 1]
      /\ f = 1 => BandFrom(n, b, f) = prog.bands[n][b]
  BY <1>2, <1>3 DEF BandFrom
<1> QED
  BY <1>2, <1>4

\* Not unrolling at all fits every band.
LEMMA OnesFit ==
    ASSUME NEW band \in Seq(Loops)
    PROVE  Typed(band, Ones(band)) /\ FitsBand(band, Ones(band))
<1>1. \A loop \in Loops : Fits(loop, 1)
  BY SelfDivides DEF Fits, Loops
<1>2. \A i \in DOMAIN band : band[i] \in Loops
  OBVIOUS
<1> QED
  BY <1>1, <1>2 DEF Typed, FitsBand, Ones

\* Loops that index the same dimension have the same trip count.
LoopsAgree(from, to, lhs, rhs) ==
    \A k \in DOMAIN lhs :
        lhs[k] # NoDepth /\ rhs[k] # NoDepth => TripsAgree(from[lhs[k]], to[rhs[k]])

\* What a shared buffer makes of the factors of n for the loops of m.
LEMMA PermutedFactorsFit ==
    ASSUME NEW from \in Seq(Loops), NEW to \in Seq(Loops), NEW lhs \in Seq(0..Len(from)),
           NEW rhs \in Seq(0..Len(to)), Len(lhs) = Len(rhs),
           NEW factors, Typed(from, factors),
           NEW result, result = PermuteFactors(factors, PermuteMap(lhs, rhs, Len(to)))
    PROVE  /\ Typed(to, result)
           /\ FitsBand(from, factors) /\ LoopsAgree(from, to, lhs, rhs) => FitsBand(to, result)
<1> DEFINE At(i, k) == rhs[k] = i /\ \A j \in 1..(k - 1) : rhs[j] # i
           first(i) == CHOOSE k \in DOMAIN rhs : At(i, k)
<1>1. ASSUME NEW i \in DOMAIN to, \E k \in DOMAIN rhs : rhs[k] = i
      PROVE  first(i) \in DOMAIN rhs /\ rhs[first(i)] = i
  <2> DEFINE K == {k \in DOMAIN rhs : rhs[k] = i}
  <2>1. K \in SUBSET Nat /\ K # {}
    BY <1>1
  <2>2. PICK k \in K : \A j \in K : k <= j
    BY <2>1, LeastNat
  <2>3. At(i, k)
    <3>1. \A j \in 1..(k - 1) : j \in DOMAIN rhs /\ ~(k <= j)
      BY <2>2
    <3> QED
      BY <2>2, <3>1
  <2> QED
    BY <2>2, <2>3
<1>2. DOMAIN result = DOMAIN to
  BY DEF PermuteFactors, PermuteMap
<1>3. ASSUME NEW i \in DOMAIN to
      PROVE  \/ result[i] = 1
             \/ /\ first(i) \in DOMAIN lhs /\ rhs[first(i)] = i
                /\ lhs[first(i)] \in DOMAIN from
                /\ result[i] = factors[lhs[first(i)]]
  <2>1. i \in 1..Len(to)
    OBVIOUS
  <2>2. CASE \E k \in DOMAIN rhs : rhs[k] = i
    <3>1. first(i) \in DOMAIN rhs /\ rhs[first(i)] = i
      BY <1>1, <2>2
    <3>2. first(i) \in DOMAIN lhs /\ lhs[first(i)] \in 0..Len(from)
      BY <3>1
    <3> HIDE DEF At
    <3>3. PermuteMap(lhs, rhs, Len(to))[i] = lhs[first(i)]
      BY <2>1, <2>2 DEF PermuteMap, At
    <3> HIDE DEF first
    <3>4. i \in DOMAIN PermuteMap(lhs, rhs, Len(to))
      BY <2>1 DEF PermuteMap
    <3>5. result[i] = IF lhs[first(i)] = NoDepth THEN 1 ELSE factors[lhs[first(i)]]
      BY <3>3, <3>4 DEF PermuteFactors
    <3> QED
      BY <3>1, <3>2, <3>5 DEF NoDepth
  <2>3. CASE ~\E k \in DOMAIN rhs : rhs[k] = i
    <3>1. PermuteMap(lhs, rhs, Len(to))[i] = NoDepth
      BY <2>1, <2>3 DEF PermuteMap
    <3> QED
      BY <2>1, <3>1 DEF PermuteFactors, PermuteMap
  <2> QED
    BY <2>2, <2>3
<1> HIDE DEF first
<1>4. Typed(to, result)
  <2>1. \A i \in DOMAIN to : result[i] \in Nat \ {0}
    BY <1>3 DEF Typed
  <2>2. result = [i \in DOMAIN result |-> result[i]]
    BY DEF PermuteFactors
  <2> QED
    BY <1>2, <2>1, <2>2 DEF Typed
<1>5. ASSUME FitsBand(from, factors), LoopsAgree(from, to, lhs, rhs), NEW i \in DOMAIN to
      PROVE  Fits(to[i], result[i])
  <2>1. CASE result[i] = 1
    <3>1. Fits(to[i], Ones(to)[i])
      BY OnesFit DEF FitsBand
    <3> QED
      BY <2>1, <3>1 DEF Ones
  <2>2. CASE /\ first(i) \in DOMAIN lhs /\ rhs[first(i)] = i
             /\ lhs[first(i)] \in DOMAIN from
             /\ result[i] = factors[lhs[first(i)]]
    <3>1. lhs[first(i)] # NoDepth /\ rhs[first(i)] # NoDepth
      BY <2>2 DEF NoDepth
    <3>2. TripsAgree(from[lhs[first(i)]], to[i])
      BY <1>5, <2>2, <3>1 DEF LoopsAgree
    <3>3. Fits(from[lhs[first(i)]], result[i])
      BY <1>5, <2>2 DEF FitsBand
    <3> QED
      BY <3>2, <3>3 DEF Fits, TripsAgree
  <2> QED
    BY <1>3, <2>1, <2>2
<1> QED
  BY <1>4, <1>5 DEF FitsBand

-----------------------------------------------------------------------------
(* Complexities and budgets are natural numbers *)

AnalysisType ==
    {Idle} \cup [node : Nodes, band : Nat \ {0}, total : Nat, complexity : Nat, at : Nat]

BudgetInv ==
    /\ prog \in Programs
    /\ toAnalyze \in Seq(Nodes) /\ toBudget \in Seq(DOMAIN prog.parent)
    /\ analysis \in AnalysisType
    /\ \A n \in DOMAIN complexity : complexity[n] \in Nat
    /\ \A n \in DOMAIN parallelFactor : parallelFactor[n] \in Nat
    /\ analysis # Idle /\ analysis.at > 0 =>
          /\ analysis.band \in DOMAIN prog.bands[analysis.node]
          /\ analysis.at \in DOMAIN prog.bands[analysis.node][analysis.band]

\* The complexity of a schedule bounds those of its nodes.
LEMMA ScheduleComplexityIsMax ==
    ASSUME BudgetInv, NEW s, CanAnalyze(s)
    PROVE  /\ ScheduleComplexity(s) \in Nat
           /\ ScheduleComplexity(s) # 0 => \E n \in NodesOf(s) : complexity[n] = ScheduleComplexity(s)
           /\ \A n \in NodesOf(s) : complexity[n] \in Nat /\ complexity[n] <= ScheduleComplexity(s)
<1> DEFINE T == {0} \cup {complexity[n] : n \in NodesOf(s)}
           IsBound(c) == \A n \in NodesOf(s) : complexity[n] <= c
<1>1. \A n \in NodesOf(s) : complexity[n] \in Nat
  BY DEF BudgetInv, CanAnalyze
<1>2. T \in SUBSET Nat /\ T # {}
  BY <1>1
<1>3. IsFiniteSet(NodesOf(s))
  BY ProgramAssumption, FS_Subset DEF BudgetInv, WellFormed, NodesOf, Nodes
<1>4. IsFiniteSet({complexity[n] : n \in NodesOf(s)})
  <2> DEFINE f == [n \in NodesOf(s) |-> complexity[n]]
             I == {complexity[n] : n \in NodesOf(s)}
  <2>1. f \in Surjection(NodesOf(s), I)
    BY DEF Surjection
  <2> QED
    BY <1>3, <2>1, FS_Surjection
<1>5. IsFiniteSet(T)
  BY <1>4, FS_Singleton, FS_Union
<1>6. \E c \in T : IsBound(c)
  BY <1>2, <1>5, GreatestNat
<1>7. ScheduleComplexity(s) \in T /\ IsBound(ScheduleComplexity(s))
  BY <1>6 DEF ScheduleComplexity
<1> QED
  BY <1>1, <1>2, <1>7

\* A complexity is a natural number.
LEMMA BodyComplexityIsNat ==
    ASSUME BudgetInv, NEW n, \A s \in Children(n) : CanAnalyze(s)
    PROVE  BodyComplexity(n) \in Nat
<1>1. CASE Children(n) = {}
  BY <1>1 DEF BodyComplexity
<1>2. CASE Children(n) # {}
  BY <1>2, ScheduleComplexityIsMax DEF BodyComplexity
<1> QED
  BY <1>1, <1>2

\* So is the factor of a schedule,
LEMMA ScheduleFactorIsNat ==
    ASSUME BudgetInv, NEW s \in DOMAIN prog.parent,
           prog.parent[s] \in {Top} \cup DOMAIN parallelFactor
    PROVE  ScheduleFactor(s) \in Nat
<1>1. prog.maxUnroll \in Nat /\ prog.increase[s] \in Nat /\ prog.decrease[s] \in Nat \ {0}
  BY ProgramAssumption DEF BudgetInv, WellFormed
<1>2. CASE prog.parent[s] = Top
  BY <1>1, <1>2 DEF ScheduleFactor
<1>3. CASE prog.parent[s] # Top
  <2>1. parallelFactor[prog.parent[s]] \in Nat
    BY <1>3 DEF BudgetInv
  <2> DEFINE x == parallelFactor[prog.parent[s]]
  <2>2. x * prog.increase[s] \in Nat
    BY <1>1, <2>1, TimesIsNat
  <2> QED
    BY <1>1, <1>3, <2>2, DivIsNat DEF ScheduleFactor
<1> QED
  BY <1>2, <1>3

\* and the share of a node.
LEMMA ShareIsNat ==
    ASSUME BudgetInv, NEW s \in DOMAIN prog.parent, CanAnalyze(s), ScheduleComplexity(s) # 0,
           prog.parent[s] \in {Top} \cup DOMAIN parallelFactor, NEW n \in NodesOf(s)
    PROVE  Share(s, n) \in Nat
<1>1. ScheduleFactor(s) \in Nat
  BY ScheduleFactorIsNat
<1>2. ScheduleComplexity(s) \in Nat \ {0} /\ complexity[n] \in Nat
  BY ScheduleComplexityIsMax
<1>3. ScheduleFactor(s) * complexity[n] \in Nat
  BY <1>1, <1>2, TimesIsNat
<1>4. (ScheduleFactor(s) * complexity[n]) \div ScheduleComplexity(s) \in Nat
  BY <1>2, <1>3, DivIsNat
<1> QED
  BY <1>4 DEF Share, MaxOf

\* The walks start with what BudgetInv asks for,
LEMMA BudgetInit == Init => BudgetInv
BY ProgramAssumption DEF Init, BudgetInv, WellFormed, Nodes, AnalysisType

\* and no step disturbs it.
LEMMA BudgetStep == BudgetInv /\ [Next]_vars => BudgetInv'
<1> SUFFICES ASSUME BudgetInv, [Next]_vars PROVE BudgetInv'
  OBVIOUS
<1> USE DEF Nodes
<1>1. CASE AnalyzeNode
  <2>1. CASE \A s \in Children(Head(toAnalyze)) : CanAnalyze(s)
    <3> DEFINE n == Head(toAnalyze)
    <3>1. n \in Nodes /\ Tail(toAnalyze) \in Seq(Nodes)
      BY <1>1 DEF AnalyzeNode, BudgetInv
    <3>2. BodyComplexity(n) \in Nat
      BY <2>1, BodyComplexityIsNat
    <3>3. analysis' = StartNode(n) /\ toAnalyze' = Tail(toAnalyze)
      BY <1>1, <2>1 DEF AnalyzeNode
    <3>4. prog.bands[n] \in Seq(Seq(Loops))
      BY <3>1, ProgramAssumption DEF BudgetInv, WellFormed
    <3>5. prog.bands[n] # <<>> => /\ 1 \in DOMAIN prog.bands[n]
                                  /\ prog.bands[n][1] \in Seq(Loops)
                                  /\ Len(prog.bands[n][1]) \in Nat
      BY <3>4
    <3> HIDE DEF n
    <3>6. analysis' \in AnalysisType
      BY <3>1, <3>2, <3>3, <3>5 DEF StartNode, AnalysisType
    <3>7. analysis'.at > 0 => /\ analysis'.band \in DOMAIN prog.bands[analysis'.node]
                              /\ analysis'.at \in DOMAIN prog.bands[analysis'.node][analysis'.band]
      BY <3>3, <3>5 DEF StartNode
    <3> QED
      BY <1>1, <3>1, <3>3, <3>6, <3>7 DEF AnalyzeNode, BudgetInv, AnalysisType, Idle
  <2>2. CASE ~\A s \in Children(Head(toAnalyze)) : CanAnalyze(s)
    BY <1>1, <2>2 DEF AnalyzeNode, BudgetInv, AnalysisType, Idle
  <2> QED
    BY <2>1, <2>2
<1>2. CASE AnalyzeLoop
  <2> DEFINE trip == prog.bands[analysis.node][analysis.band][analysis.at].trip
  <2>1. analysis \in [node : Nodes, band : Nat \ {0}, total : Nat, complexity : Nat, at : Nat]
    BY <1>2 DEF AnalyzeLoop, BudgetInv, AnalysisType
  <2>2. /\ analysis.band \in DOMAIN prog.bands[analysis.node]
        /\ analysis.at \in DOMAIN prog.bands[analysis.node][analysis.band]
    BY <1>2 DEF AnalyzeLoop, BudgetInv
  <2>3. prog.bands[analysis.node] \in Seq(Seq(Loops))
    BY <2>1, ProgramAssumption DEF BudgetInv, WellFormed
  <2>4. prog.bands[analysis.node][analysis.band] \in Seq(Loops)
    BY <2>2, <2>3
  <2>5. trip \in Nat
    BY <2>2, <2>4 DEF Loops
  <2>6. CASE trip = 0
    BY <1>2, <2>6 DEF AnalyzeLoop, BudgetInv, AnalysisType, Idle
  <2>7. CASE trip # 0
    <3>1. analysis' = [analysis EXCEPT !.complexity = trip * MaxOf(1, @), !.at = @ - 1]
          /\ toAnalyze' = toAnalyze
      BY <1>2, <2>7 DEF AnalyzeLoop
    <3>2. MaxOf(1, analysis.complexity) \in Nat
      BY <2>1 DEF MaxOf
    <3>3. trip * MaxOf(1, analysis.complexity) \in Nat
      BY <2>5, <3>2, TimesIsNat
    <3>4. analysis.at - 1 \in Nat
      BY <1>2, <2>1 DEF AnalyzeLoop
    <3> HIDE DEF trip
    <3>5. analysis' \in [node : Nodes, band : Nat \ {0}, total : Nat, complexity : Nat, at : Nat]
          /\ analysis'.node = analysis.node /\ analysis'.band = analysis.band
          /\ analysis'.at = analysis.at - 1
      BY <2>1, <3>1, <3>3, <3>4
    <3>6. analysis'.at > 0 =>
              analysis'.at \in DOMAIN prog.bands[analysis'.node][analysis'.band]
      BY <2>1, <2>2, <2>4, <3>5
    <3> QED
      BY <1>2, <2>2, <3>1, <3>5, <3>6 DEF AnalyzeLoop, BudgetInv, AnalysisType
  <2> QED
    BY <2>6, <2>7
<1>3. CASE AnalyzeBand
  <2> DEFINE n == analysis.node
             total == analysis.total + analysis.complexity
  <2>1. analysis \in [node : Nodes, band : Nat \ {0}, total : Nat, complexity : Nat, at : Nat]
    BY <1>3 DEF AnalyzeBand, BudgetInv, AnalysisType
  <2>2. total \in Nat
    BY <2>1
  <2>3. CASE analysis.band < Len(prog.bands[n])
    <3>1. analysis' = [analysis EXCEPT !.band = @ + 1, !.total = total, !.complexity = 0,
                                       !.at = Len(prog.bands[n][analysis.band + 1])]
          /\ complexity' = complexity
      BY <1>3, <2>3 DEF AnalyzeBand
    <3>2. prog.bands[n] \in Seq(Seq(Loops))
      BY <2>1, ProgramAssumption DEF BudgetInv, WellFormed
    <3>3. analysis.band + 1 \in DOMAIN prog.bands[n]
          /\ prog.bands[n][analysis.band + 1] \in Seq(Loops)
      BY <2>1, <2>3, <3>2
    <3> HIDE DEF total, n
    <3>6. Len(prog.bands[n][analysis.band + 1]) \in Nat /\ analysis.band + 1 \in Nat \ {0}
      BY <2>1, <3>3
    <3>4. analysis' \in [node : Nodes, band : Nat \ {0}, total : Nat, complexity : Nat, at : Nat]
          /\ analysis'.node = n /\ analysis'.band = analysis.band + 1
          /\ analysis'.at = Len(prog.bands[n][analysis.band + 1])
      BY <2>1, <2>2, <3>1, <3>6 DEF n
    <3>5. analysis'.at > 0 =>
              analysis'.at \in DOMAIN prog.bands[analysis'.node][analysis'.band]
      BY <3>3, <3>4
    <3> QED
      BY <1>3, <3>1, <3>3, <3>4, <3>5 DEF AnalyzeBand, BudgetInv, AnalysisType
  <2>4. CASE ~(analysis.band < Len(prog.bands[n]))
    <3>1. analysis' = Idle /\ complexity' = Insert(complexity, [m \in {n} |-> total])
      BY <1>3, <2>4 DEF AnalyzeBand
    <3> HIDE DEF total
    <3>2. \A m \in DOMAIN complexity' : complexity'[m] \in Nat
      BY <2>2, <3>1 DEF BudgetInv, Insert
    <3> QED
      BY <1>3, <3>1, <3>2 DEF AnalyzeBand, BudgetInv, AnalysisType
  <2> QED
    BY <2>3, <2>4
<1>4. CASE BudgetSchedule
  <2> DEFINE s == Head(toBudget)
  <2>1. s \in DOMAIN prog.parent /\ Tail(toBudget) \in Seq(DOMAIN prog.parent)
    BY <1>4 DEF BudgetSchedule, BudgetInv
  <2>2. toBudget' \in Seq(DOMAIN prog.parent)
    <3>1. toBudget' = <<>> \/ toBudget' = toBudget \/ toBudget' = Tail(toBudget)
      BY <1>4 DEF BudgetSchedule
    <3>2. toBudget \in Seq(DOMAIN prog.parent) /\ <<>> \in Seq(DOMAIN prog.parent)
      BY DEF BudgetInv
    <3> QED
      BY <2>1, <3>1, <3>2, Zenon
  <2>3. CASE parallelFactor' = parallelFactor
    BY <1>4, <2>2, <2>3 DEF BudgetSchedule, BudgetInv, analyzed, AnalysisType
  <2>4. CASE parallelFactor' # parallelFactor
    <3>1. /\ prog.parent[s] \in {Top} \cup DOMAIN parallelFactor
          /\ CanAnalyze(s)
          /\ ~(NodesOf(s) # {} /\ ScheduleComplexity(s) = 0)
          /\ parallelFactor' = Insert(parallelFactor, [n \in NodesOf(s) |-> Share(s, n)])
      BY <1>4, <2>4 DEF BudgetSchedule
    <3>2. \A n \in NodesOf(s) : Share(s, n) \in Nat
      BY <2>1, <3>1, ShareIsNat
    <3> HIDE DEF s
    <3>3. \A n \in DOMAIN parallelFactor' : parallelFactor'[n] \in Nat
      BY <3>1, <3>2 DEF BudgetInv, Insert
    <3> QED
      BY <1>4, <2>2, <3>3 DEF BudgetSchedule, BudgetInv, analyzed, AnalysisType
  <2> QED
    BY <2>3, <2>4
<1>5. CASE UNCHANGED <<prog, toAnalyze, toBudget, analysis, complexity, parallelFactor>>
  BY <1>5 DEF BudgetInv, AnalysisType
<1>6. CASE StartUnroll \/ StartApply \/ StartNaive \/ Finish
  BY <1>5, <1>6 DEF StartUnroll, StartApply, StartNaive, Finish, analyzed
<1>7. CASE Grow \/ Distribute \/ SettleNode \/ SettleBand
  BY <1>5, <1>7 DEF Grow, Distribute, SettleNode, SettleBand, analyzed
<1>8. CASE \E n \in Nodes : VisitNode(n) \/ ApplyCorrelated(n) \/ NaiveNode(n)
  BY <1>5, <1>8 DEF VisitNode, ApplyCorrelated, NaiveNode, analyzed
<1>9. CASE UNCHANGED vars
  BY <1>5, <1>9 DEF vars
<1> QED
  BY <1>1, <1>2, <1>3, <1>4, <1>6, <1>7, <1>8, <1>9 DEF Next

-----------------------------------------------------------------------------
(* One iteration of the distributions *)

\* The grown factors are as good as the old ones, and none is smaller.
GoesOn(band, factors, grown) ==
    /\ Typed(band, grown)
    /\ FitsBand(band, factors) => FitsBand(band, grown)
    /\ \A j \in DOMAIN band : factors[j] <= grown[j]

\* Factors that Grow raises in one loop still divide the trip counts.
LEMMA GrownFactorsFit ==
    ASSUME NEW band \in Seq(Loops), AllKnown(band), NEW factors, Typed(band, factors),
           Wrapped \notin Range(Increased(band, factors)), NEW i \in DOMAIN band,
           NEW grown, grown = [factors EXCEPT ![i] = Increased(band, factors)[i]]
    PROVE  GoesOn(band, factors, grown)
<1>1. band[i].trip \in Nat \ {0} /\ band[i].known
  BY DEF AllKnown, Loops
<1>2. factors[i] \in Nat \ {0} /\ DOMAIN factors = DOMAIN band
  BY DEF Typed
<1>3. Increased(band, factors)[i] = IncreaseFactor(band[i].trip, factors[i])
  BY DEF Increased
<1>4. IncreaseFactor(band[i].trip, factors[i]) # Wrapped
  BY <1>3 DEF Range, Increased
<1>5. /\ IncreaseFactor(band[i].trip, factors[i]) \in factors[i]..band[i].trip
      /\ band[i].trip % IncreaseFactor(band[i].trip, factors[i]) = 0
  BY <1>1, <1>2, <1>4, IncreaseFactorDivides
<1>6. grown = [factors EXCEPT ![i] = IncreaseFactor(band[i].trip, factors[i])]
  BY <1>3
<1> DEFINE g == IncreaseFactor(band[i].trip, factors[i])
<1> HIDE DEF g
<1>7. g \in Nat \ {0} /\ factors[i] <= g
  BY <1>1, <1>2, <1>5 DEF g
<1>8. Fits(band[i], g)
  BY <1>1, <1>5, <1>7 DEF Fits, g
<1>9. Typed(band, grown)
  BY <1>6, <1>7 DEF Typed, g
<1>10. FitsBand(band, factors) => FitsBand(band, grown)
  BY <1>2, <1>6, <1>8 DEF FitsBand, g
<1>11. \A j \in DOMAIN band : factors[j] <= grown[j]
  BY <1>2, <1>6, <1>7 DEF Typed, g
<1> QED
  BY <1>9, <1>10, <1>11 DEF GoesOn

\* Only a loop of one iteration makes the counter wrap, when the factors fit.
LEMMA WrappedHasCause ==
    ASSUME NEW band \in Seq(Loops), AllKnown(band), NEW factors, Typed(band, factors),
           FitsBand(band, factors), Wrapped \in Range(Increased(band, factors))
    PROVE  \E i \in DOMAIN band : band[i].trip = 1
<1>1. PICK i \in DOMAIN band : IncreaseFactor(band[i].trip, factors[i]) = Wrapped
  BY DEF Range, Increased
<1> DEFINE trip == band[i].trip
           factor == factors[i]
<1>2. trip \in Nat \ {0} /\ band[i].known
  BY DEF AllKnown, Loops
<1>3. factor \in 1..trip
  BY <1>2 DEF FitsBand, Fits
<1>4. CASE trip # 1
  <2>1. trip \in Divisors(trip, factor)
    BY <1>2, <1>3, <1>4, SelfDivides DEF Divisors
  <2>2. \A g \in Divisors(trip, factor) : g \in Nat \ {0}
    BY <1>2, <1>3 DEF Divisors
  <2>3. \E g \in Divisors(trip, factor) : \A h \in Divisors(trip, factor) : g <= h
    <3>1. Divisors(trip, factor) \in SUBSET Nat
      BY <2>2
    <3> QED
      BY <2>1, <3>1, LeastNat
  <2>4. IncreaseFactor(trip, factor) \in Divisors(trip, factor)
    BY <2>1, <2>3 DEF IncreaseFactor
  <2> QED
    BY <1>1, <2>2, <2>4 DEF Wrapped
<1> QED
  BY <1>4

\* What distribution leaves for the next loop is a natural number.
LEMMA RemainingFactorIsNat ==
    ASSUME NEW loop \in Loops, NEW remain \in Nat
    PROVE  RemainingFactor(loop, remain) \in Nat
<1>1. CASE loop.known /\ remain >= loop.trip
  <2>1. loop.trip \in Nat \ {0} /\ remain + loop.trip - 1 \in Nat
    BY <1>1 DEF Loops
  <2> QED
    BY <1>1, <2>1, DivIsNat DEF RemainingFactor
<1>2. CASE ~(loop.known /\ remain >= loop.trip)
  BY <1>2 DEF RemainingFactor
<1> QED
  BY <1>1, <1>2

\* What n hands on to a node that shares a buffer with it.
LEMMA SeedsFit ==
    ASSUME WellFormed(prog), NEW n \in Nodes, NEW m \in Nodes,
           SharedBuffers(prog.buffers, n, m) # {},
           NEW factors, prog.bands[n] # <<>>, Typed(prog.bands[n][1], factors)
    PROVE  /\ prog.bands[m] # <<>>
           /\ Typed(prog.bands[m][1], CorrelatedFactors(n, m, factors))
           /\ SharedTripsAgree /\ FitsBand(prog.bands[n][1], factors) =>
                 FitsBand(prog.bands[m][1], CorrelatedFactors(n, m, factors))
<1> DEFINE B == SharedBuffers(prog.buffers, n, m)
           b == CHOOSE x \in B : \A y \in B : x <= y
           lhs == prog.buffers[b].depths[n]
           rhs == prog.buffers[b].depths[m]
<1>1. B \in SUBSET Nat
  BY DEF SharedBuffers, WellFormed
<1>2. \E x \in B : \A y \in B : x <= y
  BY <1>1, LeastNat
<1>3. b \in B
  BY <1>2
<1>4. <<b, n, m>> \in Correlations(prog.buffers) \/ <<b, m, n>> \in Correlations(prog.buffers)
  BY <1>3 DEF SharedBuffers
<1>5. CorrelatedFactors(n, m, factors) =
          PermuteFactors(factors, PermuteMap(lhs, rhs, Len(prog.bands[m][1])))
  BY DEF CorrelatedFactors
<1> HIDE DEF b, B
<1>6. /\ prog.bands[m] # <<>>
      /\ lhs \in Seq(0..Len(prog.bands[n][1])) /\ rhs \in Seq(0..Len(prog.bands[m][1]))
      /\ Len(lhs) = Len(rhs)
  <2>1. CASE <<b, n, m>> \in Correlations(prog.buffers)
    BY <2>1 DEF WellFormed
  <2>2. CASE <<b, m, n>> \in Correlations(prog.buffers)
    BY <2>2 DEF WellFormed
  <2> QED
    BY <1>4, <2>1, <2>2
<1>7. SharedTripsAgree => LoopsAgree(prog.bands[n][1], prog.bands[m][1], lhs, rhs)
  <2>1. DOMAIN lhs = DOMAIN rhs
    BY <1>6
  <2>2. CASE <<b, n, m>> \in Correlations(prog.buffers)
    BY <2>2 DEF SharedTripsAgree, LoopsAgree, TripsAgree
  <2>3. CASE <<b, m, n>> \in Correlations(prog.buffers)
    BY <2>1, <2>3 DEF SharedTripsAgree, LoopsAgree, TripsAgree
  <2> QED
    BY <1>4, <2>2, <2>3
<1>8. prog.bands[n][1] \in Seq(Loops) /\ prog.bands[m][1] \in Seq(Loops)
  <2>1. prog.bands[n] \in Seq(Seq(Loops)) /\ prog.bands[m] \in Seq(Seq(Loops))
    BY DEF WellFormed, Nodes
  <2>2. 1 \in DOMAIN prog.bands[n] /\ 1 \in DOMAIN prog.bands[m]
    BY <1>6, <2>1
  <2> QED
    BY <2>1, <2>2
<1> DEFINE from == prog.bands[n][1]
           to == prog.bands[m][1]
           result == CorrelatedFactors(n, m, factors)
<1>9. /\ Typed(to, result)
      /\ FitsBand(from, factors) /\ LoopsAgree(from, to, lhs, rhs) => FitsBand(to, result)
  <2> HIDE DEF lhs, rhs, from, to, result
  <2>1. result = PermuteFactors(factors, PermuteMap(lhs, rhs, Len(to)))
    BY <1>5 DEF result, to
  <2>2. /\ lhs \in Seq(0..Len(from)) /\ rhs \in Seq(0..Len(to)) /\ Len(lhs) = Len(rhs)
        /\ from \in Seq(Loops) /\ to \in Seq(Loops) /\ Typed(from, factors)
    BY <1>6, <1>8 DEF from, to
  <2> QED
    BY <2>1, <2>2, PermutedFactorsFit
<1> QED
  BY <1>6, <1>7, <1>9

-----------------------------------------------------------------------------
(* The inductive invariant *)

JobFields == {"node", "band", "first", "target", "factors", "at", "remain"}

\* The factors at work fit the band as far as its own node and, under
\* SharedTripsAgree, the correlated ones are concerned.
JobInv ==
    job # Idle =>
        /\ JobFields \subseteq DOMAIN job
        /\ job.node \in Nodes /\ job.band \in DOMAIN prog.bands[job.node]
        /\ job.first \in Nat \ {0}
        /\ Typed(JobBand, job.factors)
        /\ job.remain \in Nat /\ job.at \in 0..Len(JobBand)
        /\ phase \in {"factors", "naive", "crashed"}
        /\ phase = "factors" => job.band = 1 /\ job.first = 1
        /\ phase = "naive" => job.node \in DOMAIN parallelFactor
        /\ phase = "naive" \/ (phase = "factors" /\ SharedTripsAgree) =>
              FitsBand(JobBand, job.factors)
        /\ phase = "factors" /\ job.node \in DOMAIN unroll /\ AllKnown(JobBand) =>
              \A i \in DOMAIN JobBand : unroll[job.node][i] <= job.factors[i]

UnrollInv ==
    /\ \A n \in DOMAIN unroll : /\ n \in Nodes /\ prog.bands[n] # <<>>
                                /\ Typed(prog.bands[n][1], unroll[n])
    /\ SharedTripsAgree => \A n \in DOMAIN unroll : FitsBand(prog.bands[n][1], unroll[n])

PendingInv ==
    /\ phase = "factors" => \A n \in pending : n \in Nodes /\ prog.bands[n] # <<>>
    /\ phase = "naive" => pending \subseteq DOMAIN parallelFactor

IInv == BudgetInv /\ JobInv /\ UnrollInv /\ PendingInv /\ CrashHasCause

\* The band factors are distributed on first.
LEMMA FirstBand ==
    ASSUME WellFormed(prog), NEW n \in Nodes, prog.bands[n] # <<>>
    PROVE  /\ 1 \in DOMAIN prog.bands[n] /\ prog.bands[n][1] \in Seq(Loops)
           /\ BandFrom(n, 1, 1) = prog.bands[n][1]
<1>1. prog.bands[n] \in Seq(Seq(Loops))
  BY DEF WellFormed, Nodes
<1>2. 1 \in DOMAIN prog.bands[n]
  BY <1>1
<1> QED
  BY <1>2, BandsAreTyped

\* The inductive invariant holds at the start.
LEMMA InvInit == Init => IInv
<1> SUFFICES ASSUME Init PROVE IInv
  OBVIOUS
<1>1. BudgetInv
  BY BudgetInit
<1>2. JobInv /\ UnrollInv /\ PendingInv /\ CrashHasCause
  BY DEF Init, JobInv, UnrollInv, PendingInv, CrashHasCause
<1> QED
  BY <1>1, <1>2 DEF IInv

\* A new job fits its band.
LEMMA NewJobFits ==
    ASSUME IInv, NEW n \in Nodes, NEW b \in DOMAIN prog.bands[n], NEW f \in Nat \ {0},
           NEW target \in Nat, NEW factors, Typed(BandFrom(n, b, f), factors),
           job' = NewJob(n, b, f, target, factors), prog' = prog
    PROVE  /\ JobFields \subseteq DOMAIN job'
           /\ job'.node = n /\ job'.band = b /\ job'.first = f /\ job'.factors = factors
           /\ JobBand' = BandFrom(n, b, f)
           /\ job'.remain \in Nat /\ job'.at \in 0..Len(BandFrom(n, b, f))
<1>1. BandFrom(n, b, f) \in Seq(Loops)
  BY ProgramAssumption, BandsAreTyped DEF IInv, BudgetInv
<1>2. Len(BandFrom(n, b, f)) \in 0..Len(BandFrom(n, b, f))
  BY <1>1
<1> QED
  BY <1>2 DEF NewJob, JobFields, JobBand, BandFrom

\* VisitNode opens a job with factors that fit.
LEMMA VisitNodeKeeps ==
    ASSUME IInv, NEW n \in Nodes, VisitNode(n), BudgetInv'
    PROVE  IInv'
<1>1. WellFormed(prog)
  BY ProgramAssumption DEF IInv, BudgetInv
<1>2. prog.bands[n] # <<>>
  BY DEF VisitNode, IInv, PendingInv
<1>3. 1 \in DOMAIN prog.bands[n] /\ prog.bands[n][1] \in Seq(Loops)
      /\ BandFrom(n, 1, 1) = prog.bands[n][1]
  BY <1>1, <1>2, FirstBand
<1>4. Typed(prog.bands[n][1], Seed(n))
  BY <1>3, OnesFit DEF Seed, IInv, UnrollInv
<1>5. SharedTripsAgree => FitsBand(prog.bands[n][1], Seed(n))
  BY <1>3, OnesFit DEF Seed, IInv, UnrollInv
<1>6. Target(n) \in Nat
  BY <1>1 DEF Target, IInv, BudgetInv, WellFormed
<1>7. job' = NewJob(n, 1, 1, Target(n), Seed(n)) /\ prog' = prog
  BY DEF VisitNode
<1>8. /\ JobFields \subseteq DOMAIN job'
      /\ job'.node = n /\ job'.band = 1 /\ job'.first = 1 /\ job'.factors = Seed(n)
      /\ JobBand' = prog.bands[n][1]
      /\ job'.remain \in Nat /\ job'.at \in 0..Len(prog.bands[n][1])
  BY <1>3, <1>4, <1>6, <1>7, NewJobFits
<1>9. n \in DOMAIN unroll =>
          \A i \in DOMAIN prog.bands[n][1] : unroll[n][i] <= Seed(n)[i]
  BY <1>4 DEF Seed, Typed
<1>10. UNCHANGED <<prog, phase, complexity, parallelFactor, pending, unroll>> /\ phase = "factors"
  BY DEF VisitNode, analyzed
<1>11. SharedTripsAgree' = SharedTripsAgree
  BY <1>10 DEF SharedTripsAgree
<1>12. JobInv'
  BY <1>3, <1>4, <1>5, <1>8, <1>9, <1>10, <1>11 DEF JobInv, Nodes
<1>13. UnrollInv' /\ PendingInv' /\ CrashHasCause'
  BY <1>10, <1>11 DEF IInv, UnrollInv, PendingInv, CrashHasCause, Nodes
<1> QED
  BY <1>12, <1>13 DEF IInv

\* The naive unrolling starts at a loop of the band.
LEMMA StartBandFits ==
    ASSUME IInv, NEW n \in Nodes, NEW b, StartBandAfter(n, b), prog' = prog,
           n \in DOMAIN parallelFactor
    PROVE  \/ job' = Idle
           \/ /\ JobFields \subseteq DOMAIN job'
              /\ job'.node = n /\ job'.band \in DOMAIN prog.bands[n] /\ job'.first \in Nat \ {0}
              /\ Typed(JobBand', job'.factors) /\ FitsBand(JobBand', job'.factors)
              /\ job'.remain \in Nat /\ job'.at \in 0..Len(JobBand')
<1>1. CASE job' = Idle
  BY <1>1
<1>2. CASE job' # Idle
  <2>1. PICK c \in BandsAfter(n, b) :
            job' = NewJob(n, c, FirstLoop(n, c), NaiveTarget(n),
                          Ones(BandFrom(n, c, FirstLoop(n, c))))
    BY <1>2 DEF StartBandAfter
  <2>2. c \in DOMAIN prog.bands[n] /\ FirstLoop(n, c) # 0
    BY <2>1 DEF BandsAfter, Bands
  <2>3. FirstLoop(n, c) \in Nat \ {0}
    <3> DEFINE P == PointLoops(prog.bands[n][c])
    <3>1. prog.bands[n][c] \in Seq(Loops)
      BY <2>2, ProgramAssumption, BandsAreTyped DEF IInv, BudgetInv
    <3>2. P \in SUBSET Nat
      BY <3>1 DEF PointLoops
    <3>3. P # {} => (CHOOSE i \in P : \A j \in P : i <= j) \in P
      BY <3>2, LeastNat
    <3> QED
      BY <2>2, <3>2, <3>3 DEF FirstLoop
  <2>4. BandFrom(n, c, FirstLoop(n, c)) \in Seq(Loops)
    BY <2>2, <2>3, ProgramAssumption, BandsAreTyped DEF IInv, BudgetInv
  <2> DEFINE band == BandFrom(n, c, FirstLoop(n, c))
  <2>5. Typed(band, Ones(band)) /\ FitsBand(band, Ones(band))
    BY <2>4, OnesFit
  <2>6. NaiveTarget(n) \in Nat
    BY ProgramAssumption DEF NaiveTarget, IInv, BudgetInv, WellFormed
  <2> HIDE DEF band
  <2>7. job' = NewJob(n, c, FirstLoop(n, c), NaiveTarget(n), Ones(band))
    BY <2>1 DEF band
  <2>8. /\ JobFields \subseteq DOMAIN job'
        /\ job'.node = n /\ job'.band = c /\ job'.first = FirstLoop(n, c)
        /\ job'.factors = Ones(band) /\ JobBand' = band
        /\ job'.remain \in Nat /\ job'.at \in 0..Len(band)
    BY <2>2, <2>3, <2>5, <2>6, <2>7, NewJobFits DEF band
  <2> QED
    BY <2>2, <2>3, <2>5, <2>8
<1> QED
  BY <1>1, <1>2

\* A step of the naive unrolling goes on with the node or is done with it.
LEMMA NaiveStepKeeps ==
    ASSUME IInv, NEW n \in Nodes, NEW b, StartBandAfter(n, b), phase = "naive",
           n \in DOMAIN parallelFactor, pending \subseteq DOMAIN parallelFactor,
           UNCHANGED <<prog, phase, complexity, parallelFactor, unroll>>, BudgetInv'
    PROVE  IInv'
<1>1. SharedTripsAgree' = SharedTripsAgree
  BY DEF SharedTripsAgree
<1>2. pending' \subseteq DOMAIN parallelFactor
  BY DEF StartBandAfter
<1>3. JobInv'
  BY StartBandFits DEF JobInv, Nodes
<1>4. UnrollInv' /\ PendingInv' /\ CrashHasCause'
  BY <1>1, <1>2 DEF IInv, UnrollInv, PendingInv, CrashHasCause, Nodes
<1> QED
  BY <1>3, <1>4 DEF IInv

\* SettleNode records the factors of the job, which fit, for its node.
LEMMA SettleNodeKeeps ==
    ASSUME IInv, SettleNode, BudgetInv'
    PROVE  IInv' /\ (\A n \in DOMAIN unroll : AllKnown(prog.bands[n][1]) =>
                        \A i \in DOMAIN unroll[n] : unroll[n][i] <= unroll'[n][i])
<1> DEFINE m == job.node
           g == job.factors
<1>1. WellFormed(prog)
  BY ProgramAssumption DEF IInv, BudgetInv
<1>2. job # Idle /\ phase = "factors" /\ UNCHANGED <<prog, phase, complexity, parallelFactor>>
  BY DEF SettleNode, Distributed, analyzed
<1>3. m \in Nodes /\ job.band = 1 /\ job.first = 1 /\ 1 \in DOMAIN prog.bands[m]
  BY <1>2 DEF IInv, JobInv
<1>4. JobBand = prog.bands[m][1] /\ prog.bands[m] # <<>>
  BY <1>1, <1>3, BandsAreTyped DEF JobBand
<1>5. /\ Typed(prog.bands[m][1], g)
      /\ SharedTripsAgree => FitsBand(prog.bands[m][1], g)
      /\ m \in DOMAIN unroll /\ AllKnown(prog.bands[m][1]) =>
            \A i \in DOMAIN prog.bands[m][1] : unroll[m][i] <= g[i]
  BY <1>2, <1>4 DEF IInv, JobInv
<1>6. unroll' = Seeded(m, g)
  BY DEF SettleNode
<1> HIDE DEF m, g
<1>7. ASSUME NEW n \in DOMAIN unroll'
      PROVE  \/ n = m /\ unroll'[n] = g
             \/ n # m /\ n \in DOMAIN unroll /\ unroll'[n] = unroll[n]
             \/ /\ n \in Nodes /\ SharedBuffers(prog.buffers, m, n) # {}
                /\ unroll'[n] = CorrelatedFactors(m, n, g)
  BY <1>6 DEF Seeded, SeedsOf, Insert
<1>8. \A n \in DOMAIN unroll : n \in DOMAIN unroll' /\ (n # m => unroll'[n] = unroll[n])
  BY <1>6 DEF Seeded, Insert
<1>9. m \in DOMAIN unroll' /\ unroll'[m] = g
  BY <1>6 DEF Seeded, Insert
<1>10. SharedTripsAgree' = SharedTripsAgree
  BY <1>2 DEF SharedTripsAgree
<1>11. ASSUME NEW n \in DOMAIN unroll'
       PROVE  /\ n \in Nodes /\ prog.bands[n] # <<>>
              /\ Typed(prog.bands[n][1], unroll'[n])
              /\ SharedTripsAgree => FitsBand(prog.bands[n][1], unroll'[n])
  <2>1. CASE n = m /\ unroll'[n] = g
    BY <1>3, <1>4, <1>5, <2>1
  <2>2. CASE n # m /\ n \in DOMAIN unroll /\ unroll'[n] = unroll[n]
    BY <2>2 DEF IInv, UnrollInv
  <2>3. CASE /\ n \in Nodes /\ SharedBuffers(prog.buffers, m, n) # {}
             /\ unroll'[n] = CorrelatedFactors(m, n, g)
    BY <1>1, <1>3, <1>4, <1>5, <2>3, SeedsFit
  <2> QED
    BY <1>7, <2>1, <2>2, <2>3
<1>12. UnrollInv'
  BY <1>2, <1>10, <1>11 DEF UnrollInv, Nodes
<1>13. job' = Idle /\ pending' \subseteq pending
  BY DEF SettleNode
<1>14. JobInv' /\ PendingInv' /\ CrashHasCause'
  BY <1>2, <1>13 DEF IInv, JobInv, PendingInv, CrashHasCause, Nodes
<1>15. ASSUME NEW n \in DOMAIN unroll, AllKnown(prog.bands[n][1]), NEW i \in DOMAIN unroll[n]
       PROVE  unroll[n][i] <= unroll'[n][i]
  <2>1. Typed(prog.bands[n][1], unroll[n])
    BY DEF IInv, UnrollInv
  <2>2. CASE n = m
    BY <1>5, <1>9, <1>15, <2>1, <2>2 DEF Typed
  <2>3. CASE n # m
    <3>1. unroll'[n] = unroll[n] /\ unroll[n][i] \in Nat
      BY <1>8, <2>1, <2>3 DEF Typed
    <3> QED
      BY <3>1
  <2> QED
    BY <2>2, <2>3
<1> QED
  BY <1>12, <1>14, <1>15 DEF IInv

\* The loops a job works on.
LEMMA JobBandTyped ==
    ASSUME IInv, job # Idle
    PROVE  /\ JobBand \in Seq(Loops)
           /\ \A i \in DOMAIN JobBand :
                 \E j \in DOMAIN prog.bands[job.node][job.band] :
                    JobBand[i] = prog.bands[job.node][job.band][j]
<1>1. /\ WellFormed(prog) /\ job.node \in Nodes /\ job.band \in DOMAIN prog.bands[job.node]
      /\ job.first \in Nat \ {0}
  BY ProgramAssumption DEF IInv, BudgetInv, JobInv
<1>2. /\ JobBand \in Seq(Loops)
      /\ \A i \in DOMAIN JobBand :
            /\ i + job.first - 1 \in DOMAIN prog.bands[job.node][job.band]
            /\ JobBand[i] = prog.bands[job.node][job.band][i + job.first - 1]
  BY <1>1, BandsAreTyped DEF JobBand
<1> QED
  BY <1>2

\* A step that leaves the loops of the job, but not their factors.
LEMMA NewFactorsKeep ==
    ASSUME IInv, job # Idle, NEW g, Typed(JobBand, g),
           FitsBand(JobBand, job.factors) => FitsBand(JobBand, g),
           AllKnown(JobBand) => \A j \in DOMAIN JobBand : job.factors[j] <= g[j],
           JobFields \subseteq DOMAIN job', job'.factors = g,
           job'.node = job.node, job'.band = job.band, job'.first = job.first,
           job'.remain \in Nat, job'.at \in 0..Len(JobBand),
           UNCHANGED <<prog, phase, complexity, parallelFactor, pending, unroll>>, BudgetInv'
    PROVE  IInv'
<1>1. JobBand' = JobBand
  BY DEF JobBand, BandFrom
<1>2. SharedTripsAgree' = SharedTripsAgree
  BY DEF SharedTripsAgree
<1>3. /\ job.node \in Nodes /\ job.band \in DOMAIN prog.bands[job.node]
      /\ job.first \in Nat \ {0} /\ Typed(JobBand, job.factors)
      /\ phase \in {"factors", "naive", "crashed"}
      /\ phase = "factors" => job.band = 1 /\ job.first = 1
      /\ phase = "naive" => job.node \in DOMAIN parallelFactor
      /\ phase = "naive" \/ (phase = "factors" /\ SharedTripsAgree) =>
            FitsBand(JobBand, job.factors)
      /\ phase = "factors" /\ job.node \in DOMAIN unroll /\ AllKnown(JobBand) =>
            \A i \in DOMAIN JobBand : unroll[job.node][i] <= job.factors[i]
  BY DEF IInv, JobInv
<1>4. ASSUME phase = "factors", job.node \in DOMAIN unroll, AllKnown(JobBand),
             NEW i \in DOMAIN JobBand
      PROVE  unroll[job.node][i] <= g[i]
  <2>1. unroll[job.node][i] <= job.factors[i] /\ job.factors[i] <= g[i]
    BY <1>3, <1>4
  <2>2. job.factors[i] \in Nat /\ g[i] \in Nat
    BY <1>3 DEF Typed
  <2>3. JobBand = prog.bands[job.node][1]
    BY <1>3, <1>4, ProgramAssumption, BandsAreTyped DEF IInv, BudgetInv, JobBand
  <2>4. unroll[job.node][i] \in Nat
    BY <1>4, <2>3 DEF IInv, UnrollInv, Typed
  <2> QED
    BY <2>1, <2>2, <2>4
<1>5. JobInv'
  BY <1>1, <1>2, <1>3, <1>4 DEF JobInv, Nodes
<1>6. UnrollInv' /\ PendingInv' /\ CrashHasCause'
  BY <1>2 DEF IInv, UnrollInv, PendingInv, CrashHasCause, NodesOf, Nodes
<1> QED
  BY <1>5, <1>6 DEF IInv

\* Grow keeps the factors of the job fitting,
LEMMA GrowKeeps == ASSUME IInv, Grow, BudgetInv' PROVE IInv'
<1>1. job # Idle /\ AllKnown(JobBand) /\ JobBand \in Seq(Loops) /\ Typed(JobBand, job.factors)
  BY JobBandTyped DEF Grow, Growing, IInv, JobInv
<1>2. UNCHANGED <<prog, complexity, parallelFactor, pending, unroll>>
  BY DEF Grow, analyzed
<1>3. SharedTripsAgree' = SharedTripsAgree
  BY <1>2 DEF SharedTripsAgree
<1>4. CASE Wrapped \in Range(Increased(JobBand, job.factors))
  <2>1. phase' = "crashed" /\ job' = job
    BY <1>4 DEF Grow
  <2>2. CrashHasCause'
    <3> SUFFICES ASSUME SharedTripsAgree
                 PROVE  \E n \in Nodes : \E b \in DOMAIN prog.bands[n] :
                           \E i \in DOMAIN prog.bands[n][b] : prog.bands[n][b][i].trip = 1
      BY <1>2, <1>3 DEF CrashHasCause, Nodes
    <3>1. FitsBand(JobBand, job.factors)
      BY <1>1 DEF Grow, IInv, JobInv
    <3>2. PICK i \in DOMAIN JobBand : JobBand[i].trip = 1
      BY <1>1, <1>4, <3>1, WrappedHasCause
    <3>3. PICK j \in DOMAIN prog.bands[job.node][job.band] :
              JobBand[i] = prog.bands[job.node][job.band][j]
      BY <1>1, JobBandTyped
    <3>4. job.node \in Nodes /\ job.band \in DOMAIN prog.bands[job.node]
      BY <1>1 DEF IInv, JobInv
    <3> QED
      BY <3>2, <3>3, <3>4
  <2>3. JobBand' = JobBand
    BY <1>2, <2>1 DEF JobBand, BandFrom
  <2>4. JobInv'
    BY <1>1, <1>2, <2>1, <2>3 DEF IInv, JobInv, Nodes
  <2>5. UnrollInv' /\ PendingInv'
    BY <1>2, <1>3, <2>1 DEF IInv, UnrollInv, PendingInv, Nodes
  <2> QED
    BY <2>2, <2>4, <2>5 DEF IInv
<1>5. CASE Wrapped \notin Range(Increased(JobBand, job.factors))
  <2>1. phase' = phase
    BY <1>5 DEF Grow
  <2>2. PICK i \in DOMAIN JobBand :
            job' = [job EXCEPT !.factors[i] = Increased(JobBand, job.factors)[i]]
    BY <1>5 DEF Grow
  <2> DEFINE g == [job.factors EXCEPT ![i] = Increased(JobBand, job.factors)[i]]
  <2>3. JobFields \subseteq DOMAIN job /\ job.remain \in Nat /\ job.at \in 0..Len(JobBand)
    BY <1>1 DEF IInv, JobInv
  <2>4. /\ JobFields \subseteq DOMAIN job' /\ job'.factors = g
        /\ job'.node = job.node /\ job'.band = job.band /\ job'.first = job.first
        /\ job'.remain = job.remain /\ job'.at = job.at
    BY <2>2, <2>3 DEF JobFields
  <2>6. g = [job.factors EXCEPT ![i] = Increased(JobBand, job.factors)[i]]
    OBVIOUS
  <2> DEFINE band == JobBand
             old == job.factors
  <2>7. /\ band \in Seq(Loops) /\ AllKnown(band) /\ Typed(band, old)
        /\ Wrapped \notin Range(Increased(band, old))
        /\ i \in DOMAIN band /\ g = [old EXCEPT ![i] = Increased(band, old)[i]]
    BY <1>1, <1>5, <2>6
  <2> HIDE DEF g, band, old
  <2>8. GoesOn(band, old, g)
    BY <2>7, GrownFactorsFit
  <2>5. /\ Typed(JobBand, g)
        /\ FitsBand(JobBand, job.factors) => FitsBand(JobBand, g)
        /\ \A j \in DOMAIN JobBand : job.factors[j] <= g[j]
    BY <2>8 DEF band, old, GoesOn
  <2> QED
    BY <1>1, <1>2, <2>1, <2>3, <2>4, <2>5, NewFactorsKeep
<1> QED
  BY <1>4, <1>5

\* and so does Distribute.
LEMMA DistributeKeeps == ASSUME IInv, Distribute, BudgetInv' PROVE IInv'
<1>1. job # Idle /\ ~AllKnown(JobBand) /\ JobBand \in Seq(Loops) /\ Typed(JobBand, job.factors)
  BY JobBandTyped DEF Distribute, IInv, JobInv
<1>2. UNCHANGED <<prog, phase, complexity, parallelFactor, pending, unroll>>
  BY DEF Distribute, analyzed
<1>3. JobFields \subseteq DOMAIN job /\ job.remain \in Nat /\ job.at \in 1..Len(JobBand)
  BY <1>1 DEF Distribute, IInv, JobInv
<1> DEFINE loop == JobBand[job.at]
           size == DistributedSize(loop, job.remain)
           rest == RemainingFactor(loop, job.remain)
           g == [job.factors EXCEPT ![job.at] = size]
<1>4. job' = [job EXCEPT !.factors[job.at] = size, !.remain = rest, !.at = job.at - 1]
  BY DEF Distribute
<1>5. job.at \in DOMAIN JobBand /\ loop \in Loops
  BY <1>1, <1>3
<1>6. Fits(loop, size)
  BY <1>3, <1>5, DistributedSizeFits
<1>7. rest \in Nat
  BY <1>3, <1>5, RemainingFactorIsNat
<1> HIDE DEF size, rest
<1>8. /\ JobFields \subseteq DOMAIN job' /\ job'.factors = g
      /\ job'.node = job.node /\ job'.band = job.band /\ job'.first = job.first
      /\ job'.remain = rest /\ job'.at = job.at - 1
  BY <1>3, <1>4 DEF JobFields
<1>9. Typed(JobBand, g)
  <2>1. size \in Nat \ {0}
    BY <1>6 DEF Fits
  <2> QED
    BY <1>1, <1>5, <2>1 DEF Typed
<1>10. FitsBand(JobBand, job.factors) => FitsBand(JobBand, g)
  <2>1. DOMAIN job.factors = DOMAIN JobBand
    BY <1>1 DEF Typed
  <2> QED
    BY <1>5, <1>6, <2>1 DEF FitsBand
<1>11. job'.at \in 0..Len(JobBand) /\ job'.remain \in Nat
  BY <1>3, <1>7, <1>8, <1>1
<1> HIDE DEF g
<1> QED
  BY <1>1, <1>2, <1>8, <1>9, <1>10, <1>11, NewFactorsKeep

\* The budget walk crashes at schedules without loops only.
LEMMA BudgetScheduleKeeps == ASSUME IInv, BudgetSchedule, BudgetInv' PROVE IInv'
<1>1. /\ UNCHANGED <<prog, complexity, pending, unroll, job>>
      /\ phase = "budget" /\ phase' \in {"budget", "crashed"}
  BY DEF BudgetSchedule, analyzed
<1>2. SharedTripsAgree' = SharedTripsAgree
  BY <1>1 DEF SharedTripsAgree
<1>3. ASSUME phase' = "crashed"
      PROVE  \E s \in DOMAIN prog.parent :
                 NodesOf(s) # {} /\ \A n \in NodesOf(s) : complexity[n] = 0
  <2> DEFINE s == Head(toBudget)
  <2>1. s \in DOMAIN prog.parent
    BY DEF BudgetSchedule, IInv, BudgetInv
  <2>2. CanAnalyze(s) /\ NodesOf(s) # {} /\ ScheduleComplexity(s) = 0
    BY <1>1, <1>3 DEF BudgetSchedule
  <2> HIDE DEF s
  <2>3. \A n \in NodesOf(s) : complexity[n] \in Nat /\ complexity[n] <= 0
    BY <2>2, ScheduleComplexityIsMax DEF IInv
  <2> QED
    BY <2>1, <2>2, <2>3
<1>4. CrashHasCause'
  BY <1>1, <1>3 DEF CrashHasCause, NodesOf, Nodes
<1>5. job' = Idle
  BY <1>1 DEF IInv, JobInv
<1>6. JobInv' /\ PendingInv' /\ UnrollInv'
  BY <1>1, <1>2, <1>5 DEF IInv, JobInv, PendingInv, UnrollInv, Nodes
<1> QED
  BY <1>4, <1>6 DEF IInv

\* Steps between jobs.
LEMMA PhaseStepKeeps ==
    ASSUME IInv, job' = Idle, UNCHANGED <<prog, unroll>>, phase' # "crashed", PendingInv', BudgetInv'
    PROVE  IInv'
<1>1. SharedTripsAgree' = SharedTripsAgree
  BY DEF SharedTripsAgree
<1> QED
  BY <1>1 DEF IInv, JobInv, UnrollInv, CrashHasCause, Nodes

\* A correlated node has a band to unroll.
LEMMA CorrelatedNodesHaveBands ==
    ASSUME WellFormed(prog), NEW n \in CorrelatedNodes(prog.buffers)
    PROVE  n \in Nodes /\ prog.bands[n] # <<>>
<1>1. PICK c \in Correlations(prog.buffers) : n \in {c[2], c[3]}
  BY DEF CorrelatedNodes
<1>2. /\ {c[2], c[3]} \subseteq DOMAIN prog.bands
      /\ prog.bands[c[2]] # <<>> /\ prog.bands[c[3]] # <<>>
  BY <1>1 DEF WellFormed
<1> QED
  BY <1>1, <1>2 DEF Nodes

\* No step disturbs the inductive invariant.
LEMMA InvStep == IInv /\ [Next]_vars => IInv'
<1> SUFFICES ASSUME IInv, [Next]_vars PROVE IInv'
  OBVIOUS
<1>0. BudgetInv' /\ WellFormed(prog)
  BY BudgetStep, ProgramAssumption DEF IInv, BudgetInv
<1>1. CASE AnalyzeNode \/ AnalyzeLoop \/ AnalyzeBand
  <2>1. job = Idle /\ UNCHANGED <<prog, phase, pending, unroll, job>> /\ phase = "budget"
    BY <1>1 DEF AnalyzeNode, AnalyzeLoop, AnalyzeBand, IInv, JobInv
  <2>2. PendingInv'
    BY <2>1 DEF PendingInv
  <2> QED
    BY <1>0, <2>1, <2>2, PhaseStepKeeps
<1>2. CASE BudgetSchedule
  BY <1>0, <1>2, BudgetScheduleKeeps
<1>3. CASE StartUnroll
  <2>1. job' = Idle /\ UNCHANGED <<prog, parallelFactor, unroll>> /\ phase' \in {"factors", "naive"}
    BY <1>3 DEF StartUnroll, IInv, JobInv
  <2>2. PendingInv'
    BY <1>0, <1>3, <2>1, CorrelatedNodesHaveBands DEF StartUnroll, PendingInv, Nodes
  <2> QED
    BY <1>0, <2>1, <2>2, PhaseStepKeeps
<1>4. CASE Grow
  BY <1>0, <1>4, GrowKeeps
<1>5. CASE Distribute
  BY <1>0, <1>5, DistributeKeeps
<1>6. CASE SettleNode
  BY <1>0, <1>6, SettleNodeKeeps
<1>7. CASE StartApply
  BY <1>0, <1>7, PhaseStepKeeps DEF StartApply, PendingInv
<1>8. CASE StartNaive
  <2>1. job' = Idle /\ UNCHANGED <<prog, unroll>> /\ phase' = "naive" /\ PendingInv'
    BY <1>8 DEF StartNaive, PendingInv, IInv, JobInv
  <2> QED
    BY <1>0, <2>1, PhaseStepKeeps
<1>9. CASE SettleBand
  <2>1. job # Idle /\ phase = "naive" /\ StartBandAfter(job.node, job.band)
        /\ UNCHANGED <<prog, phase, complexity, parallelFactor, unroll>>
    BY <1>9 DEF SettleBand, Distributed, analyzed
  <2>2. job.node \in Nodes /\ job.node \in DOMAIN parallelFactor
        /\ pending \subseteq DOMAIN parallelFactor
    BY <2>1 DEF IInv, JobInv, PendingInv
  <2> QED
    BY <1>0, <2>1, <2>2, NaiveStepKeeps
<1>10. CASE Finish
  BY <1>0, <1>10, PhaseStepKeeps DEF Finish, PendingInv
<1>11. ASSUME NEW n \in Nodes, VisitNode(n) PROVE IInv'
  BY <1>0, <1>11, VisitNodeKeeps
<1>12. ASSUME NEW n \in Nodes, ApplyCorrelated(n) PROVE IInv'
  <2>1. job' = Idle /\ UNCHANGED <<prog, unroll>> /\ phase' = "apply" /\ PendingInv'
    BY <1>12 DEF ApplyCorrelated, PendingInv, IInv, JobInv
  <2> QED
    BY <1>0, <2>1, PhaseStepKeeps
<1>13. ASSUME NEW n \in Nodes, NaiveNode(n) PROVE IInv'
  <2>1. /\ n \in pending /\ pending \subseteq DOMAIN parallelFactor
        /\ phase = "naive" /\ StartBandAfter(n, 0)
        /\ UNCHANGED <<prog, phase, complexity, parallelFactor, unroll>>
    BY <1>13 DEF NaiveNode, IInv, PendingInv, analyzed
  <2>2. n \in DOMAIN parallelFactor
    BY <2>1
  <2> QED
    BY <1>0, <2>1, <2>2, NaiveStepKeeps
<1>14. CASE UNCHANGED vars
  <2>1. UNCHANGED <<prog, phase, complexity, parallelFactor, pending, unroll, job>>
    BY <1>14 DEF vars
  <2>2. SharedTripsAgree' = SharedTripsAgree /\ JobBand' = JobBand
    BY <2>1 DEF SharedTripsAgree, JobBand, BandFrom
  <2>3. JobInv'
    BY <2>1, <2>2 DEF IInv, JobInv, Nodes
  <2>4. UnrollInv' /\ PendingInv' /\ CrashHasCause'
    BY <2>1, <2>2 DEF IInv, UnrollInv, PendingInv, CrashHasCause, NodesOf, Nodes
  <2> QED
    BY <1>0, <2>3, <2>4 DEF IInv
<1> QED
  BY <1>1, <1>2, <1>3, <1>4, <1>5, <1>6, <1>7, <1>8, <1>9, <1>10, <1>11, <1>12, <1>13, <1>14
     DEF Next

\* The invariant holds throughout the pass.
THEOREM InvHolds == Spec => []IInv
BY InvInit, InvStep, PTL DEF Spec

-----------------------------------------------------------------------------
(* What it means for the pass *)

\* Correlated nodes are unrolled by divisors of their trip counts.
THEOREM FactorsDivide == Spec => []FactorsDivideTrips
<1>1. IInv => FactorsDivideTrips
  <2> SUFFICES ASSUME IInv, SharedTripsAgree, NEW n \in DOMAIN unroll, NEW i \in DOMAIN unroll[n]
               PROVE  IF prog.bands[n][1][i].known
                      THEN prog.bands[n][1][i].trip % unroll[n][i] = 0
                      ELSE unroll[n][i] = 1
    BY DEF FactorsDivideTrips
  <2>1. i \in DOMAIN prog.bands[n][1] /\ FitsBand(prog.bands[n][1], unroll[n])
    BY DEF IInv, UnrollInv, Typed
  <2> QED
    BY <2>1 DEF FitsBand, Fits
<1> QED
  BY <1>1, InvHolds, PTL

\* The pass dies for no other reason than the three named.
THEOREM CrashesHaveCauses == Spec => []CrashHasCause
<1>1. IInv => CrashHasCause
  BY DEF IInv
<1> QED
  BY <1>1, InvHolds, PTL

\* Seeds of correlated nodes are raised, never lowered.
THEOREM SeedsGrow == Spec => SeedsOnlyGrow
<1> DEFINE A == \A n \in DOMAIN unroll :
                   AllKnown(prog.bands[n][1]) =>
                       \A i \in DOMAIN unroll[n] : unroll[n][i] <= unroll'[n][i]
<1>1. IInv /\ [Next]_vars => [A]_unroll
  <2> SUFFICES ASSUME IInv, [Next]_vars, unroll' # unroll PROVE A
    OBVIOUS
  <2>1. SettleNode
    BY DEF Next, vars, AnalyzeNode, AnalyzeLoop, AnalyzeBand, BudgetSchedule, StartUnroll, Grow,
           Distribute, StartApply, StartNaive, SettleBand, Finish, VisitNode,
           ApplyCorrelated, NaiveNode
  <2>2. BudgetInv'
    BY BudgetStep DEF IInv
  <2> QED
    BY <2>1, <2>2, SettleNodeKeeps
<1> QED
  BY <1>1, InvHolds, PTL DEF Spec, SeedsOnlyGrow

-----------------------------------------------------------------------------
(* The budget of a schedule *)

\* The nodes of s have the shares the complexities and the node around s give them.
Budgeted(s) ==
    /\ CanAnalyze(s) /\ ScheduleComplexity(s) # 0
    /\ prog.parent[s] \in {Top} \cup DOMAIN parallelFactor
    /\ NodesOf(s) \subseteq DOMAIN parallelFactor
    /\ \A n \in NodesOf(s) : parallelFactor[n] = Share(s, n)

\* No complexity changes once there are shares, and a schedule is given them at once.
ShareInv ==
    /\ DOMAIN parallelFactor # {} => toAnalyze = <<>> /\ analysis = Idle
    /\ \A s \in DOMAIN prog.parent :
          NodesOf(s) \cap DOMAIN parallelFactor # {} => Budgeted(s)

\* No share is given at the start.
LEMMA ShareInit == Init => ShareInv
BY DEF Init, ShareInv

\* Shares that are kept, complexities that do not change: s is as before.
LEMMA BudgetedKept ==
    ASSUME NEW s, Budgeted(s), UNCHANGED <<prog, complexity>>,
           DOMAIN parallelFactor \subseteq DOMAIN parallelFactor',
           \A n \in DOMAIN parallelFactor : parallelFactor'[n] = parallelFactor[n]
    PROVE  Budgeted(s)'
<1>1. NodesOf(s)' = NodesOf(s) /\ ScheduleComplexity(s)' = ScheduleComplexity(s)
      /\ CanAnalyze(s)' = CanAnalyze(s)
  BY DEF NodesOf, Nodes, ScheduleComplexity, CanAnalyze
<1>2. ScheduleFactor(s)' = ScheduleFactor(s)
  BY DEF Budgeted, ScheduleFactor
<1>3. \A n \in NodesOf(s) : Share(s, n)' = Share(s, n)
  BY <1>1, <1>2 DEF Share
<1> QED
  BY <1>1, <1>3 DEF Budgeted

\* No step gives a node more than its share.
LEMMA ShareStep == ShareInv /\ [Next]_vars => ShareInv'
<1> SUFFICES ASSUME ShareInv, [Next]_vars PROVE ShareInv'
  OBVIOUS
<1>1. ASSUME UNCHANGED <<prog, complexity, parallelFactor>>,
             DOMAIN parallelFactor # {} => UNCHANGED <<toAnalyze, analysis>>
      PROVE  ShareInv'
  <2>1. \A s : Budgeted(s) => Budgeted(s)'
    BY <1>1, BudgetedKept
  <2> QED
    BY <1>1, <2>1 DEF ShareInv, NodesOf, Nodes
<1>2. CASE AnalyzeNode
  BY <1>1, <1>2 DEF AnalyzeNode, ShareInv
<1>3. CASE AnalyzeLoop
  BY <1>1, <1>3 DEF AnalyzeLoop, ShareInv
<1>4. CASE AnalyzeBand
  <2>1. DOMAIN parallelFactor = {} /\ UNCHANGED <<prog, parallelFactor>>
    BY <1>4 DEF AnalyzeBand, ShareInv
  <2> QED
    BY <2>1 DEF ShareInv
<1>5. CASE BudgetSchedule
  <2> PICK s : s = Head(toBudget)
    OBVIOUS
  <2>1. UNCHANGED <<prog, complexity, toAnalyze, analysis>>
        /\ toAnalyze = <<>> /\ analysis = Idle
    BY <1>5 DEF BudgetSchedule, analyzed
  <2>2. CASE parallelFactor' = parallelFactor
    BY <1>1, <2>1, <2>2
  <2>3. CASE parallelFactor' # parallelFactor
    <3>1. /\ prog.parent[s] \in {Top} \cup DOMAIN parallelFactor
          /\ CanAnalyze(s)
          /\ ~(NodesOf(s) # {} /\ ScheduleComplexity(s) = 0)
          /\ parallelFactor' = Insert(parallelFactor, [n \in NodesOf(s) |-> Share(s, n)])
      BY <1>5, <2>3 DEF BudgetSchedule
    <3>2. /\ DOMAIN parallelFactor' = DOMAIN parallelFactor \cup NodesOf(s)
          /\ \A n \in DOMAIN parallelFactor : parallelFactor'[n] = parallelFactor[n]
          /\ \A n \in NodesOf(s) \ DOMAIN parallelFactor : parallelFactor'[n] = Share(s, n)
      BY <3>1 DEF Insert
    <3>3. \A u : Budgeted(u) => Budgeted(u)'
      BY <2>1, <3>2, BudgetedKept
    <3>4. ASSUME NEW u \in DOMAIN prog.parent, NodesOf(u) \cap DOMAIN parallelFactor' # {}
          PROVE  Budgeted(u)'
      <4>1. CASE NodesOf(u) \cap DOMAIN parallelFactor # {}
        BY <3>3, <4>1 DEF ShareInv
      <4>2. CASE NodesOf(u) \cap DOMAIN parallelFactor = {}
        <5>1. u = s /\ NodesOf(s) # {}
          BY <3>2, <3>4, <4>2 DEF NodesOf
        <5>2. NodesOf(s)' = NodesOf(s) /\ ScheduleComplexity(s)' = ScheduleComplexity(s)
              /\ CanAnalyze(s)' = CanAnalyze(s)
          BY <2>1 DEF NodesOf, Nodes, ScheduleComplexity, CanAnalyze
        <5>3. ScheduleFactor(s)' = ScheduleFactor(s)
          BY <2>1, <3>1, <3>2 DEF ScheduleFactor
        <5>4. \A n \in NodesOf(s) : Share(s, n)' = Share(s, n)
          BY <2>1, <5>2, <5>3 DEF Share
        <5>5. \A n \in NodesOf(s) : parallelFactor'[n] = Share(s, n)
          BY <3>2, <4>2, <5>1
        <5> QED
          BY <2>1, <3>1, <3>2, <5>1, <5>2, <5>4, <5>5 DEF Budgeted
      <4> QED
        BY <4>1, <4>2
    <3> QED
      BY <2>1, <3>4 DEF ShareInv, NodesOf, Nodes
  <2> QED
    BY <2>2, <2>3
<1>6. CASE StartUnroll \/ StartApply \/ StartNaive \/ Finish
  BY <1>1, <1>6 DEF StartUnroll, StartApply, StartNaive, Finish, analyzed
<1>7. CASE Grow \/ Distribute \/ SettleNode \/ SettleBand
  BY <1>1, <1>7 DEF Grow, Distribute, SettleNode, SettleBand, analyzed
<1>8. CASE \E n \in Nodes : VisitNode(n) \/ ApplyCorrelated(n) \/ NaiveNode(n)
  BY <1>1, <1>8 DEF VisitNode, ApplyCorrelated, NaiveNode, analyzed
<1>9. CASE UNCHANGED vars
  BY <1>1, <1>9 DEF vars
<1> QED
  BY <1>2, <1>3, <1>4, <1>5, <1>6, <1>7, <1>8, <1>9 DEF Next

\* The whole factor of the node around a schedule goes to the node with the most work,
\* and the shares follow the work.
THEOREM SharesFollowWork == Spec => []FactorsFollowWork
<1>1. BudgetInv /\ ShareInv => FactorsFollowWork
  <2> SUFFICES ASSUME BudgetInv, ShareInv, NEW s \in DOMAIN prog.parent, NodesOf(s) # {},
                      NodesOf(s) \subseteq DOMAIN parallelFactor
               PROVE  /\ \E n \in NodesOf(s) : parallelFactor[n] = MaxOf(1, ScheduleFactor(s))
                      /\ \A n, m \in NodesOf(s) :
                            complexity[n] <= complexity[m] => parallelFactor[n] <= parallelFactor[m]
    BY DEF FactorsFollowWork
  <2> DEFINE f == ScheduleFactor(s)
             c == ScheduleComplexity(s)
  <2>1. Budgeted(s)
    BY DEF ShareInv
  <2>2. f \in Nat
    BY <2>1, ScheduleFactorIsNat DEF Budgeted
  <2>3. c \in Nat \ {0} /\ \A n \in NodesOf(s) : complexity[n] \in Nat
    BY <2>1, ScheduleComplexityIsMax DEF Budgeted
  <2>4. \A n \in NodesOf(s) : parallelFactor[n] = MaxOf(1, (f * complexity[n]) \div c)
    BY <2>1 DEF Budgeted, Share
  <2>5. \E n \in NodesOf(s) : complexity[n] = c
    BY <2>1, ScheduleComplexityIsMax DEF Budgeted
  <2> HIDE DEF f, c
  <2>6. \E n \in NodesOf(s) : parallelFactor[n] = MaxOf(1, f)
    BY <2>2, <2>3, <2>4, <2>5, DivOfProduct
  <2>7. ASSUME NEW n \in NodesOf(s), NEW m \in NodesOf(s), complexity[n] <= complexity[m]
        PROVE  parallelFactor[n] <= parallelFactor[m]
    <3> DEFINE x == f * complexity[n]
               y == f * complexity[m]
    <3>1. x \in Nat /\ y \in Nat /\ x <= y
      BY <2>2, <2>3, <2>7, TimesIsNat, TimesMonotone
    <3>2. parallelFactor[n] = MaxOf(1, x \div c) /\ parallelFactor[m] = MaxOf(1, y \div c)
      BY <2>4
    <3> HIDE DEF x, y
    <3>3. x \div c <= y \div c /\ x \div c \in Nat /\ y \div c \in Nat
      BY <2>3, <3>1, DivMonotone, DivIsNat
    <3> QED
      BY <3>2, <3>3 DEF MaxOf
  <2> QED
    BY <2>6, <2>7 DEF f
<1>2. Spec => []BudgetInv
  BY BudgetInit, BudgetStep, PTL DEF Spec
<1>3. Spec => []ShareInv
  BY ShareInit, ShareStep, PTL DEF Spec
<1> QED
  BY <1>1, <1>2, <1>3, PTL
-----------------------------------------------------------------------------
(* Factors and work *)

\* The overall factor of a band is the product of its factors.
LEMMA OverallIsProd == \A f : Overall(f) = Prod(f, DOMAIN f)
BY ProdOfDomain DEF Overall

-----------------------------------------------------------------------------
(* One band spends its factor *)

Full(loop, f) == loop.known => f = loop.trip

Spent(band, factors, target) ==
    Overall(factors) >= target \/ \A i \in DOMAIN band : Full(band[i], factors[i])

\* Factors that can not be increased are the trip counts.
LEMMA NoCandidateIsFull ==
    ASSUME NEW band \in Seq(Loops), NEW factors, Typed(band, factors), FitsBand(band, factors),
           Candidates(band, factors) = {}
    PROVE  \A i \in DOMAIN band : Full(band[i], factors[i])
<1> SUFFICES ASSUME NEW i \in DOMAIN band, band[i].known, factors[i] # band[i].trip
             PROVE  FALSE
  BY DEF Full
<1> DEFINE trip == band[i].trip
           factor == factors[i]
           D == Divisors(trip, factor)
<1>1. trip \in Nat \ {0} /\ factor \in Nat \ {0} /\ factor < trip
  BY DEF Loops, Typed, FitsBand, Fits
<1>2. trip \in D /\ \A g \in D : g \in Nat /\ g # factor
  <2>1. D = {g \in (factor + 1)..trip : trip % g = 0}
    BY <1>1 DEF Divisors
  <2> QED
    BY <1>1, <2>1, SelfDivides
<1> HIDE DEF D
<1>3. \E g \in D : \A h \in D : g <= h
  <2>1. D \in SUBSET Nat /\ D # {}
    BY <1>2
  <2> QED
    BY <2>1, LeastNat
<1>4. IncreaseFactor(trip, factor) \in D
  BY <1>2, <1>3 DEF IncreaseFactor, D
<1>5. Increased(band, factors)[i] # factors[i]
  BY <1>2, <1>4 DEF Increased
<1> QED
  BY <1>5 DEF Candidates

\* What getDistributedFactors has done when it comes to loop at: the factors it chose
\* reach the target, or all loops they are for are unrolled and what remains makes up
\* for the rest.
Reached(band, factors, at, remain, target) ==
    \/ Prod(factors, (at + 1)..Len(band)) >= target
    \/ /\ Prod(factors, (at + 1)..Len(band)) * remain >= target
       /\ \A i \in (at + 1)..Len(band) : Full(band[i], factors[i])

\* The size of a loop and what remains are worth what remained before.
LEMMA DistributedSizeReaches ==
    ASSUME NEW loop \in Loops, NEW remain \in Nat, NEW P \in Nat, NEW target \in Nat,
           P * remain >= target,
           NEW size, size = DistributedSize(loop, remain),
           NEW rest, rest = RemainingFactor(loop, remain)
    PROVE  size * P >= target \/ ((size * P) * rest >= target /\ Full(loop, size))
<1>1. size \in Nat \ {0} /\ rest \in Nat
  BY DistributedSizeFits, RemainingFactorIsNat DEF Fits
<1>2. P * remain = remain * P
  BY TimesCommutes
<1>3. CASE ~loop.known
  BY <1>3 DEF DistributedSize, RemainingFactor, Full
<1>4. CASE loop.known /\ remain >= loop.trip
  <2>1. loop.trip \in Nat \ {0} /\ size = loop.trip /\ rest = (remain + loop.trip - 1) \div loop.trip
    BY <1>4 DEF Loops, DistributedSize, RemainingFactor
  <2>2. remain <= rest * loop.trip
    BY <1>1, <2>1, CeilCovers
  <2>3. rest * loop.trip \in Nat
    BY <1>1, <2>1, TimesIsNat
  <2>4. P * remain <= P * (rest * loop.trip)
    BY <2>2, <2>3, TimesMonotone
  <2>5. P * (rest * loop.trip) = (loop.trip * P) * rest
    BY <1>1, <2>1, TimesCommutes
  <2>6. P * remain \in Nat /\ (loop.trip * P) * rest \in Nat
    BY <1>1, <2>1, TimesIsNat
  <2>7. (size * P) * rest >= target
    BY <2>1, <2>4, <2>5, <2>6
  <2> QED
    BY <2>1, <2>7 DEF Full
<1>5. CASE loop.known /\ ~(remain >= loop.trip) /\ ~(remain > 1)
  <2>1. size = 1
    BY <1>5 DEF DistributedSize
  <2>2. remain = 0 \/ remain = 1
    BY <1>5
  <2> QED
    BY <2>1, <2>2
<1>6. CASE loop.known /\ ~(remain >= loop.trip) /\ remain > 1
  <2> DEFINE S(d) == /\ loop.trip % d = 0
                     /\ \A t \in remain..(d - 1) : loop.trip % t # 0
             D == {d \in remain..loop.trip : loop.trip % d = 0}
  <2>1. loop.trip \in Nat \ {0} /\ remain < loop.trip
    BY <1>6 DEF Loops
  <2>2. loop.trip \in D /\ D \in SUBSET Nat
    BY <2>1, SelfDivides
  <2>3. PICK d \in D : \A e \in D : d <= e
    BY <2>2, LeastNat
  <2>4. d \in remain..loop.trip /\ S(d)
    <3>1. \A t \in remain..(d - 1) : t \in remain..loop.trip /\ ~(d <= t)
      BY <2>1, <2>3
    <3> QED
      BY <2>3, <3>1
  <2>5. size = CHOOSE e \in remain..loop.trip : S(e)
    BY <1>6 DEF DistributedSize
  <2> HIDE DEF S
  <2>6. size >= remain
    BY <2>4, <2>5
  <2>7. P * remain <= P * size
    BY <1>1, <2>6, TimesMonotone
  <2>8. P * size = size * P /\ P * remain \in Nat /\ P * size \in Nat
    BY <1>1, TimesCommutes, TimesIsNat
  <2> QED
    BY <2>7, <2>8
<1> QED
  BY <1>3, <1>4, <1>5, <1>6

\* A step of Distribute keeps the target in reach.
LEMMA ReachedGoesOn ==
    ASSUME NEW band \in Seq(Loops), NEW factors, Typed(band, factors),
           NEW at \in 1..Len(band), NEW remain \in Nat, NEW target \in Nat,
           Reached(band, factors, at, remain, target),
           NEW g, g = [factors EXCEPT ![at] = DistributedSize(band[at], remain)]
    PROVE  Reached(band, g, at - 1, RemainingFactor(band[at], remain), target)
<1> DEFINE n == Len(band)
           P == Prod(factors, (at + 1)..n)
           size == DistributedSize(band[at], remain)
           rest == RemainingFactor(band[at], remain)
<1>1. n \in Nat /\ DOMAIN band = 1..n /\ at \in DOMAIN band /\ band[at] \in Loops
  OBVIOUS
<1>2. size \in Nat \ {0} /\ rest \in Nat
  BY <1>1, DistributedSizeFits, RemainingFactorIsNat DEF Fits
<1>3. /\ \A i \in (at + 1)..n : i \in 1..n /\ i # at /\ factors[i] \in Nat /\ g[i] = factors[i]
      /\ \A i \in at..n : g[i] \in Nat
      /\ g[at] = size
  <2>1. DOMAIN factors = 1..n /\ \A i \in 1..n : factors[i] \in Nat
    BY <1>1 DEF Typed
  <2>2. \A i \in at..n : i \in 1..n
    BY <1>1
  <2>3. \A i \in (at + 1)..n : i \in at..n /\ i # at
    BY <1>1
  <2> HIDE DEF size, n
  <2>4. g[at] = size /\ \A i \in 1..n : i # at => g[i] = factors[i]
    BY <1>1, <2>1 DEF size
  <2> QED
    BY <1>2, <2>1, <2>2, <2>3, <2>4
<1> HIDE DEF size, rest, n
<1>4. P \in Nat
  <2>1. IsFiniteSet((at + 1)..n)
    BY <1>1, FS_Interval
  <2> QED
    BY <1>3, <2>1, ProdIsNat
<1>5. Prod(g, (at + 1)..n) = P
  <2>1. IsFiniteSet((at + 1)..n)
    BY <1>1, FS_Interval
  <2> QED
    BY <1>3, <2>1, ProdSame
<1>6. Prod(g, at..n) = size * P
  <2>1. at \in Int /\ n \in Int /\ at <= n
    BY <1>1 DEF n
  <2>2. \A i \in at..n : g[i] \in Nat
    BY <1>3
  <2>3. Prod(g, at..n) = g[at] * Prod(g, (at + 1)..n)
    BY <2>1, <2>2, ProdFirst
  <2> QED
    BY <1>3, <1>5, <2>3
<1>7. (at - 1) + 1 = at
  OBVIOUS
<1> HIDE DEF P
<1>8. CASE P >= target
  <2>1. size * P >= P
    BY <1>2, <1>4
  <2>2. size * P \in Nat
    BY <1>2, <1>4, TimesIsNat
  <2>3. Prod(g, at..n) >= target
    BY <1>4, <1>6, <1>8, <2>1, <2>2
  <2> QED
    BY <1>7, <2>3 DEF Reached, n
<1>9. CASE P * remain >= target /\ \A i \in (at + 1)..n : Full(band[i], factors[i])
  <2>1. size * P >= target \/ ((size * P) * rest >= target /\ Full(band[at], size))
    BY <1>1, <1>4, <1>9, DistributedSizeReaches DEF size, rest
  <2>2. CASE size * P >= target
    BY <1>6, <1>7, <2>2 DEF Reached, n
  <2>3. CASE (size * P) * rest >= target /\ Full(band[at], size)
    <3>1. \A i \in at..n : Full(band[i], g[i])
      <4>1. \A i \in at..n : i = at \/ i \in (at + 1)..n
        BY <1>1
      <4> QED
        BY <1>3, <1>9, <2>3, <4>1
    <3> QED
      BY <1>6, <1>7, <2>3, <3>1 DEF Reached, n, rest
  <2> QED
    BY <2>1, <2>2, <2>3
<1> QED
  BY <1>8, <1>9 DEF Reached, P, n

\* At the start nothing is chosen, at the end the factor is spent.
LEMMA ReachedEnds ==
    ASSUME NEW band \in Seq(Loops), NEW factors, Typed(band, factors), NEW target \in Nat
    PROVE  /\ Reached(band, factors, Len(band), target, target)
           /\ \A remain \in Nat :
                 Reached(band, factors, 0, remain, target) => Spent(band, factors, target)
<1> DEFINE n == Len(band)
<1>1. n \in Nat /\ DOMAIN band = 1..n /\ DOMAIN factors = 1..n
  BY DEF Typed
<1>2. (n + 1)..n = {} /\ (0 + 1)..n = 1..n
  BY <1>1
<1> HIDE DEF n
<1>3. Reached(band, factors, n, target, target)
  <2>1. Prod(factors, (n + 1)..n) = 1
    BY <1>2, ProdEmpty
  <2>2. \A i \in (n + 1)..n : Full(band[i], factors[i])
    BY <1>2
  <2>3. 1 * target >= target
    OBVIOUS
  <2> QED
    BY <2>1, <2>2, <2>3 DEF Reached, n
<1>4. ASSUME NEW remain \in Nat, Reached(band, factors, 0, remain, target)
      PROVE  Spent(band, factors, target)
  <2>1. Overall(factors) = Prod(factors, 1..n)
    BY <1>1, OverallIsProd
  <2>2. \/ Prod(factors, 1..n) >= target
        \/ \A i \in 1..n : Full(band[i], factors[i])
    BY <1>2, <1>4 DEF Reached, n
  <2> QED
    BY <1>1, <2>1, <2>2 DEF Spent
<1> QED
  BY <1>3, <1>4 DEF n

-----------------------------------------------------------------------------
(* All correlated nodes do *)

NodeSpent(n) == Spent(prog.bands[n][1], unroll[n], Target(n))

\* Nodes with factors are spent or still to be visited, and those without are to be
\* visited.
SpentInv ==
    /\ phase = "budget" => DOMAIN unroll = {}
    /\ phase = "factors" =>
          /\ CorrelatedNodes(prog.buffers) \ pending \subseteq DOMAIN unroll
          /\ SharedTripsAgree => \A n \in DOMAIN unroll : n \in pending \/ NodeSpent(n)
          /\ job # Idle => /\ job.target = Target(job.node)
                           /\ ~AllKnown(JobBand) =>
                                 Reached(JobBand, job.factors, job.at, job.remain, job.target)
    /\ phase \in {"apply", "naive", "done"} /\ SharedTripsAgree =>
          \A n \in DOMAIN unroll : NodeSpent(n)

\* The target of a node is a natural number.
LEMMA TargetIsNat == ASSUME IInv, NEW n PROVE Target(n) \in Nat
BY ProgramAssumption DEF Target, IInv, BudgetInv, WellFormed

\* Nothing is spent at the start.
LEMMA SpentInit == Init => SpentInv
BY DEF Init, SpentInv

\* What a job ends with is spent.
LEMMA JobEndsSpent ==
    ASSUME IInv, SpentInv, phase = "factors", Distributed, SharedTripsAgree
    PROVE  Spent(JobBand, job.factors, Target(job.node))
<1>1. job # Idle
  BY DEF Distributed
<1>2. JobBand \in Seq(Loops) /\ Typed(JobBand, job.factors) /\ FitsBand(JobBand, job.factors)
      /\ job.remain \in Nat
  BY <1>1, JobBandTyped DEF IInv, JobInv
<1>3. job.target = Target(job.node) /\ job.target \in Nat
  BY <1>1, TargetIsNat DEF SpentInv
<1>4. CASE AllKnown(JobBand) /\ ~Growing
  <2>1. Overall(job.factors) \in Nat
    <3>1. \A i \in DOMAIN job.factors : job.factors[i] \in Nat
      BY <1>2 DEF Typed
    <3>2. IsFiniteSet(DOMAIN job.factors)
      <4>1. DOMAIN job.factors = 1..Len(JobBand) /\ Len(JobBand) \in Nat
        BY <1>2 DEF Typed
      <4> QED
        BY <4>1, FS_Interval
    <3>3. Prod(job.factors, DOMAIN job.factors) \in Nat
      BY <3>1, <3>2, ProdIsNat
    <3> QED
      BY <3>3, OverallIsProd
  <2> QED
    BY <1>3, <1>4, <2>1 DEF Growing, Spent
<1>5. CASE AllKnown(JobBand) /\ Growing
  <2>1. Candidates(JobBand, job.factors) = {}
    BY <1>5 DEF Distributed
  <2> QED
    BY <1>2, <2>1, NoCandidateIsFull DEF Spent
<1>6. CASE ~AllKnown(JobBand)
  <2>1. Reached(JobBand, job.factors, 0, job.remain, job.target)
    BY <1>1, <1>6 DEF Distributed, SpentInv
  <2> QED
    BY <1>2, <1>3, <2>1, ReachedEnds
<1> QED
  BY <1>4, <1>5, <1>6

\* A new job has its whole target to spend.
LEMMA VisitNodeSpends ==
    ASSUME IInv, SpentInv, IInv', NEW n \in Nodes, VisitNode(n) PROVE SpentInv'
<1>1. /\ UNCHANGED <<prog, phase, parallelFactor, pending, unroll>> /\ phase = "factors"
      /\ n \in pending /\ job' = NewJob(n, 1, 1, Target(n), Seed(n))
  BY DEF VisitNode, analyzed
<1>2. /\ job'.node = n /\ job'.target = Target(n) /\ job'.factors = Seed(n)
      /\ job'.remain = Target(n) /\ job'.at = Len(BandFrom(n, 1, 1))
      /\ JobBand' = BandFrom(n, 1, 1) /\ Target(n)' = Target(n) /\ Target(n) \in Nat
  BY <1>1, TargetIsNat DEF NewJob, JobBand, BandFrom, Target
<1>3. prog.bands[n] # <<>>
  BY <1>1 DEF IInv, PendingInv
<1>4. BandFrom(n, 1, 1) = prog.bands[n][1] /\ prog.bands[n][1] \in Seq(Loops)
  BY <1>3, FirstBand, ProgramAssumption DEF IInv, BudgetInv
<1>5. Typed(prog.bands[n][1], Seed(n))
  BY <1>4, OnesFit DEF Seed, IInv, UnrollInv
<1>6. Reached(BandFrom(n, 1, 1), Seed(n), Len(BandFrom(n, 1, 1)), Target(n), Target(n))
  BY <1>2, <1>4, <1>5, ReachedEnds
<1>7. \A m \in DOMAIN unroll : NodeSpent(m)' = NodeSpent(m)
  BY <1>1 DEF NodeSpent, Target
<1>8. SharedTripsAgree' = SharedTripsAgree
  BY <1>1 DEF SharedTripsAgree
<1> QED
  BY <1>1, <1>2, <1>6, <1>7, <1>8 DEF SpentInv

\* Settled factors spend the target of the job.
LEMMA SettleNodeSpends ==
    ASSUME IInv, SpentInv, SettleNode PROVE SpentInv'
<1> DEFINE m == job.node
           g == job.factors
<1>1. /\ job # Idle /\ phase = "factors" /\ UNCHANGED <<prog, phase, parallelFactor>>
      /\ unroll' = Seeded(m, g) /\ pending' = pending \ {m} /\ job' = Idle
  BY DEF SettleNode, Distributed, analyzed
<1>2. JobBand = prog.bands[m][1] /\ m \in Nodes
  BY <1>1, ProgramAssumption, BandsAreTyped DEF IInv, BudgetInv, JobInv, JobBand
<1>3. SharedTripsAgree => Spent(prog.bands[m][1], g, Target(m))
  BY <1>1, <1>2, JobEndsSpent DEF SettleNode
<1> HIDE DEF m, g
<1>4. ASSUME NEW n \in DOMAIN unroll'
      PROVE  \/ n = m /\ unroll'[n] = g
             \/ n \in DOMAIN unroll /\ unroll'[n] = unroll[n]
             \/ n \notin DOMAIN unroll /\ SharedBuffers(prog.buffers, m, n) # {} /\ n # m
  BY <1>1 DEF Seeded, SeedsOf, Insert
<1>5. m \in DOMAIN unroll' /\ unroll'[m] = g /\ DOMAIN unroll \subseteq DOMAIN unroll'
  BY <1>1 DEF Seeded, Insert
<1>6. CorrelatedNodes(prog.buffers) \ pending' \subseteq DOMAIN unroll'
  BY <1>1, <1>5 DEF SpentInv
<1>7. SharedTripsAgree' = SharedTripsAgree /\ \A n : Target(n)' = Target(n)
  BY <1>1 DEF SharedTripsAgree, Target
<1>8. ASSUME SharedTripsAgree, NEW n \in DOMAIN unroll'
      PROVE  n \in pending' \/ Spent(prog.bands[n][1], unroll'[n], Target(n))
  <2>1. CASE n = m /\ unroll'[n] = g
    BY <1>3, <1>8, <2>1
  <2>2. CASE n # m /\ n \in DOMAIN unroll /\ unroll'[n] = unroll[n]
    BY <1>1, <1>8, <2>2 DEF SpentInv, NodeSpent
  <2>3. CASE n \notin DOMAIN unroll /\ SharedBuffers(prog.buffers, m, n) # {} /\ n # m
    <3>1. \E b : {<<b, m, n>>, <<b, n, m>>} \cap Correlations(prog.buffers) # {}
      BY <2>3 DEF SharedBuffers
    <3>2. PICK c \in Correlations(prog.buffers) : n \in {c[2], c[3]}
      BY <3>1
    <3>3. n \in CorrelatedNodes(prog.buffers)
      BY <3>2 DEF CorrelatedNodes
    <3> QED
      BY <1>1, <2>3, <3>3 DEF SpentInv
  <2> QED
    BY <1>4, <1>5, <2>1, <2>2, <2>3
<1> QED
  BY <1>1, <1>6, <1>7, <1>8 DEF SpentInv, NodeSpent

\* Distribute keeps the target in reach,
LEMMA DistributeSpends ==
    ASSUME IInv, SpentInv, Distribute PROVE SpentInv'
<1>1. job # Idle /\ ~AllKnown(JobBand) /\ JobBand \in Seq(Loops) /\ Typed(JobBand, job.factors)
  BY JobBandTyped DEF Distribute, IInv, JobInv
<1>2. UNCHANGED <<prog, phase, parallelFactor, pending, unroll>>
  BY DEF Distribute, analyzed
<1>3. /\ JobFields \subseteq DOMAIN job /\ job.remain \in Nat /\ job.at \in 1..Len(JobBand)
  BY <1>1 DEF Distribute, IInv, JobInv
<1> DEFINE size == DistributedSize(JobBand[job.at], job.remain)
           rest == RemainingFactor(JobBand[job.at], job.remain)
           g == [job.factors EXCEPT ![job.at] = size]
<1>4. job' = [job EXCEPT !.factors[job.at] = size, !.remain = rest, !.at = job.at - 1]
  BY DEF Distribute
<1> HIDE DEF size, rest
<1>6. /\ job'.factors = g /\ job'.node = job.node /\ job'.band = job.band
      /\ job'.first = job.first /\ job'.target = job.target
      /\ job'.remain = rest /\ job'.at = job.at - 1
  BY <1>3, <1>4 DEF JobFields
<1>7. JobBand' = JobBand
  BY <1>2, <1>6 DEF JobBand, BandFrom
<1>8. \A n : NodeSpent(n)' = NodeSpent(n)
  BY <1>2 DEF NodeSpent, Target
<1>9. SharedTripsAgree' = SharedTripsAgree /\ \A n : Target(n)' = Target(n)
  BY <1>2 DEF SharedTripsAgree, Target
<1>10. ASSUME phase = "factors" PROVE Reached(JobBand, g, job.at - 1, rest, job.target)
  <2>1. Reached(JobBand, job.factors, job.at, job.remain, job.target) /\ job.target \in Nat
    BY <1>1, <1>10, TargetIsNat DEF SpentInv
  <2> DEFINE band == JobBand
             old == job.factors
             at == job.at
             remain == job.remain
             target == job.target
  <2>2. /\ band \in Seq(Loops) /\ Typed(band, old) /\ at \in 1..Len(band) /\ remain \in Nat
        /\ target \in Nat /\ Reached(band, old, at, remain, target)
        /\ g = [old EXCEPT ![at] = DistributedSize(band[at], remain)]
    BY <1>1, <1>3, <2>1 DEF size
  <2> HIDE DEF band, old, at, remain, target, g
  <2>3. Reached(band, g, at - 1, RemainingFactor(band[at], remain), target)
    BY <2>2, ReachedGoesOn
  <2> QED
    BY <2>3 DEF band, at, remain, target, rest
<1> HIDE DEF g
<1>11. CASE phase = "factors"
  <2>1. Reached(JobBand, job.factors, job.at, job.remain, job.target)'
    BY <1>6, <1>7, <1>10, <1>11 DEF Reached
  <2>2. job'.target = Target(job.node)'
    BY <1>1, <1>6, <1>9, <1>11 DEF SpentInv
  <2>3. SharedTripsAgree' => \A n \in DOMAIN unroll' : n \in pending' \/ NodeSpent(n)'
    BY <1>2, <1>8, <1>9, <1>11 DEF SpentInv
  <2>4. CorrelatedNodes(prog'.buffers) \ pending' \subseteq DOMAIN unroll'
    BY <1>2, <1>11 DEF SpentInv
  <2> QED
    BY <1>2, <1>11, <2>1, <2>2, <2>3, <2>4 DEF SpentInv
<1>12. CASE phase # "factors"
  BY <1>2, <1>8, <1>9, <1>12 DEF SpentInv
<1> QED
  BY <1>11, <1>12

\* and Grow stops only once it is reached.
LEMMA GrowSpends ==
    ASSUME IInv, SpentInv, Grow PROVE SpentInv'
<1>1. /\ job # Idle /\ AllKnown(JobBand) /\ phase \in {"factors", "naive"}
      /\ UNCHANGED <<prog, parallelFactor, pending, unroll>> /\ JobFields \subseteq DOMAIN job
  BY DEF Grow, Growing, analyzed, IInv, JobInv
<1>2. (\A n : NodeSpent(n)' = NodeSpent(n)) /\ (\A n : Target(n)' = Target(n))
      /\ SharedTripsAgree' = SharedTripsAgree
  BY <1>1 DEF NodeSpent, Target, SharedTripsAgree
<1>3. CASE phase' = "crashed"
  BY <1>3 DEF SpentInv
<1>4. CASE phase' # "crashed"
  <2>1. phase' = phase /\ \E i \in DOMAIN JobBand :
            job' = [job EXCEPT !.factors[i] = Increased(JobBand, job.factors)[i]]
    BY <1>4 DEF Grow
  <2>2. job'.node = job.node /\ job'.band = job.band /\ job'.first = job.first
        /\ job'.target = job.target
    BY <1>1, <2>1 DEF JobFields
  <2>3. JobBand' = JobBand
    BY <1>1, <2>2 DEF JobBand, BandFrom
  <2> QED
    BY <1>1, <1>2, <2>1, <2>2, <2>3 DEF SpentInv
<1> QED
  BY <1>3, <1>4

\* No step loses sight of the target.
LEMMA SpentStep == IInv /\ IInv' /\ SpentInv /\ [Next]_vars => SpentInv'
<1> SUFFICES ASSUME IInv, IInv', SpentInv, [Next]_vars PROVE SpentInv'
  OBVIOUS
<1>1. CASE AnalyzeNode \/ AnalyzeLoop \/ AnalyzeBand \/ BudgetSchedule
  BY <1>1 DEF AnalyzeNode, AnalyzeLoop, AnalyzeBand, BudgetSchedule, analyzed, SpentInv
<1>2. CASE StartUnroll
  <2>1. /\ UNCHANGED <<prog, unroll>> /\ DOMAIN unroll = {} /\ job' = Idle
        /\ phase' \in {"factors", "naive"}
        /\ phase' = "factors" => pending' = CorrelatedNodes(prog.buffers)
    BY <1>2 DEF StartUnroll, SpentInv, IInv, JobInv
  <2> QED
    BY <2>1 DEF SpentInv
<1>3. CASE Grow
  BY <1>3, GrowSpends
<1>4. CASE Distribute
  BY <1>4, DistributeSpends
<1>5. CASE SettleNode
  BY <1>5, SettleNodeSpends
<1>6. ASSUME NEW n \in Nodes, VisitNode(n) PROVE SpentInv'
  BY <1>6, VisitNodeSpends
<1>7. ASSUME UNCHANGED <<prog, parallelFactor, unroll>>, phase' \in {"apply", "naive", "done"},
             phase \in {"apply", "naive"} \/ (phase = "factors" /\ pending = {})
      PROVE  SpentInv'
  <2>1. (\A n : NodeSpent(n)' = NodeSpent(n)) /\ SharedTripsAgree' = SharedTripsAgree
    BY <1>7 DEF NodeSpent, Target, SharedTripsAgree
  <2> QED
    BY <1>7, <2>1 DEF SpentInv
<1>8. CASE StartApply \/ StartNaive \/ Finish \/ SettleBand
  BY <1>7, <1>8 DEF StartApply, StartNaive, Finish, SettleBand, analyzed
<1>9. CASE \E n \in Nodes : ApplyCorrelated(n) \/ NaiveNode(n)
  BY <1>7, <1>9 DEF ApplyCorrelated, NaiveNode, analyzed
<1>10. CASE UNCHANGED vars
  <2>1. UNCHANGED <<prog, phase, parallelFactor, pending, unroll, job>>
    BY <1>10 DEF vars
  <2>2. (\A n : NodeSpent(n)' = NodeSpent(n)) /\ (\A n : Target(n)' = Target(n))
        /\ SharedTripsAgree' = SharedTripsAgree /\ JobBand' = JobBand
    BY <2>1 DEF NodeSpent, Target, SharedTripsAgree, JobBand, BandFrom
  <2> QED
    BY <2>1, <2>2 DEF SpentInv
<1> QED
  BY <1>1, <1>2, <1>3, <1>4, <1>5, <1>6, <1>8, <1>9, <1>10 DEF Next

\* Once its factors are settled a correlated node has used its share of the unroll
\* factor up, or all of its loops with a constant trip count are unrolled, whichever
\* node chose the factors first.
THEOREM FactorsAreSpent == Spec => []BudgetSpent
<1>1. IInv /\ SpentInv => BudgetSpent
  <2> SUFFICES ASSUME IInv, SpentInv, phase \in {"apply", "naive", "done"}, SharedTripsAgree,
                      NEW n \in DOMAIN unroll, ~(Overall(unroll[n]) >= Target(n)),
                      NEW i \in DOMAIN unroll[n], prog.bands[n][1][i].known
               PROVE  unroll[n][i] = prog.bands[n][1][i].trip
    BY DEF BudgetSpent
  <2>1. DOMAIN unroll[n] = DOMAIN prog.bands[n][1]
    BY DEF IInv, UnrollInv, Typed
  <2>2. NodeSpent(n)
    BY DEF SpentInv
  <2> QED
    BY <2>1, <2>2 DEF NodeSpent, Spent, Full
<1>2. Spec => [](IInv /\ SpentInv)
  BY InvHolds, SpentInit, SpentStep, PTL DEF Spec
<1> QED
  BY <1>1, <1>2, PTL

-----------------------------------------------------------------------------
(* One band does its work *)

Preserved(band, result) ==
    /\ result.leftover = {}
    /\ result.copies * Overall(result.trips) = Overall(Trips(band))

\* Trip counts are natural numbers.
LEMMA TripsAreNat ==
    ASSUME NEW band \in Seq(Loops)
    PROVE  /\ DOMAIN Trips(band) = DOMAIN band /\ DOMAIN band = 1..Len(band) /\ Len(band) \in Nat
           /\ IsFiniteSet(DOMAIN band)
           /\ \A i \in DOMAIN band : Trips(band)[i] \in Nat /\ Trips(band)[i] = band[i].trip
           /\ Overall(Trips(band)) \in Nat
<1>1. DOMAIN Trips(band) = DOMAIN band /\ DOMAIN band = 1..Len(band) /\ Len(band) \in Nat
  BY DEF Trips
<1>2. IsFiniteSet(DOMAIN band)
  BY <1>1, FS_Interval
<1>3. \A i \in DOMAIN band : Trips(band)[i] \in Nat /\ Trips(band)[i] = band[i].trip
  BY DEF Trips, Loops
<1>4. Prod(Trips(band), DOMAIN band) \in Nat
  BY <1>2, <1>3, ProdIsNat
<1>5. Overall(Trips(band)) = Prod(Trips(band), DOMAIN band)
  BY <1>1, OverallIsProd
<1> QED
  BY <1>1, <1>2, <1>3, <1>4, <1>5

\* A band left alone runs as it did.
LEMMA UntouchedPreserves ==
    ASSUME NEW band \in Seq(Loops) PROVE Preserved(band, Untouched(band))
BY TripsAreNat DEF Preserved, Untouched

\* A divisor of the trip count makes as many tiles as there are multiples of it.
LEMMA TilesCover ==
    ASSUME NEW trip \in Nat, NEW f \in Nat \ {0}, trip % f = 0 \/ f = 1
    PROVE  (trip + f - 1) \div f \in Nat /\ trip = f * ((trip + f - 1) \div f)
<1>1. CASE f = 1
  BY <1>1
<1>2. CASE trip % f = 0
  <2> DEFINE q == trip \div f
             d == (trip + f - 1) \div f
  <2>1. q \in Nat /\ trip = f * q
    BY <1>2, DivDefined
  <2>2. trip + f - 1 \in Nat
    OBVIOUS
  <2>3. /\ d \in Nat /\ f * d <= trip + f - 1 /\ trip + f - 1 < f * d + f
        /\ f * d \in Nat /\ f * q \in Nat
    BY <2>1, <2>2, DivDefined, TimesIsNat
  <2> HIDE DEF q, d
  <2>4. d <= q
    <3>1. f * d < f * q + f
      BY <2>1, <2>3
    <3> QED
      BY <2>1, <2>3, <3>1, MultiplesOrdered
  <2>5. q <= d
    <3>1. f * q < f * d + f
      BY <2>1, <2>3
    <3> QED
      BY <2>1, <2>3, <3>1, MultiplesOrdered
  <2>6. d = q
    BY <2>1, <2>3, <2>4, <2>5
  <2> QED
    BY <2>1, <2>6 DEF d
<1> QED
  BY <1>1, <1>2

\* So does a band tiled and unrolled by factors that fit,
LEMMA UnrolledPreserves ==
    ASSUME NEW band \in Seq(Loops), NEW factors, Typed(band, factors), FitsBand(band, factors)
    PROVE  Preserved(band, Unrolled(band, factors))
<1> DEFINE point  == [i \in DOMAIN band |-> IF Ragged(band[i], factors[i]) THEN 1
                                         ELSE PointTrips(band[i], factors[i])]
           tiles == [i \in DOMAIN band |->
                        (band[i].trip + PointTrips(band[i], factors[i]) - 1)
                           \div PointTrips(band[i], factors[i])]
           trips  == Trips(band)
<1>1. /\ DOMAIN trips = DOMAIN band /\ IsFiniteSet(DOMAIN band)
      /\ \A i \in DOMAIN band : trips[i] \in Nat /\ trips[i] = band[i].trip
  BY TripsAreNat
<1>2. ASSUME NEW i \in DOMAIN band
      PROVE  ~Ragged(band[i], factors[i]) /\ PointTrips(band[i], factors[i]) = factors[i]
  <2>1. factors[i] \in Nat \ {0} /\ band[i] \in Loops /\ Fits(band[i], factors[i])
    BY DEF Typed, FitsBand
  <2> QED
    BY <2>1 DEF Fits, Ragged, PointTrips, Loops
<1>3. ASSUME NEW i \in DOMAIN band
      PROVE  point[i] \in Nat /\ tiles[i] \in Nat /\ trips[i] = point[i] * tiles[i]
  <2>1. factors[i] \in Nat \ {0} /\ Fits(band[i], factors[i]) /\ band[i].trip \in Nat
    BY <1>1 DEF Typed, FitsBand
  <2>2. band[i].trip % factors[i] = 0 \/ factors[i] = 1
    BY <2>1 DEF Fits
  <2>3. (band[i].trip + factors[i] - 1) \div factors[i] \in Nat
        /\ band[i].trip = factors[i] * ((band[i].trip + factors[i] - 1) \div factors[i])
    BY <2>1, <2>2, TilesCover
  <2>4. point[i] = factors[i] /\ tiles[i] = (band[i].trip + factors[i] - 1) \div factors[i]
    BY <1>2
  <2> HIDE DEF point, tiles, trips
  <2> QED
    BY <1>1, <2>1, <2>3, <2>4
<1>4. DOMAIN point = DOMAIN band /\ DOMAIN tiles = DOMAIN band
  OBVIOUS
<1>5. Unrolled(band, factors).copies = Overall(point) /\ Unrolled(band, factors).trips = tiles
  BY DEF Unrolled
<1>6. Unrolled(band, factors).leftover = {}
  BY <1>2 DEF Unrolled
<1> HIDE DEF point, tiles, trips
<1>7. Prod(trips, DOMAIN band) = Prod(point, DOMAIN band) * Prod(tiles, DOMAIN band)
  BY <1>1, <1>3, ProdTimes
<1>8. Overall(trips) = Overall(point) * Overall(tiles)
  BY <1>1, <1>4, <1>7, OverallIsProd
<1> QED
  BY <1>5, <1>6, <1>8 DEF Preserved, trips

\* whatever part of the transformation applies.
LEMMA AppliedPreserves ==
    ASSUME NEW band \in Seq(Loops), NEW factors, Typed(band, factors), FitsBand(band, factors),
           NEW n
    PROVE  Preserved(band, ApplyUnrollJam(n, band, factors))
BY UntouchedPreserves, UnrolledPreserves DEF ApplyUnrollJam

\* The trips of a band are a sequence, and so are those of the result.
LEMMA ResultTyped ==
    ASSUME NEW band \in Seq(Loops), NEW factors, Typed(band, factors), FitsBand(band, factors),
           NEW n
    PROVE  /\ ApplyUnrollJam(n, band, factors).trips \in [DOMAIN band -> Nat]
           /\ ApplyUnrollJam(n, band, factors).copies \in Nat
<1>1. CASE ApplyUnrollJam(n, band, factors) = Untouched(band)
  BY <1>1, TripsAreNat DEF Untouched, Trips
<1>2. CASE ApplyUnrollJam(n, band, factors) = Unrolled(band, factors)
  <2>1. ASSUME NEW i \in DOMAIN band
        PROVE  /\ ~Ragged(band[i], factors[i]) /\ PointTrips(band[i], factors[i]) = factors[i]
               /\ (band[i].trip + factors[i] - 1) \div factors[i] \in Nat
    <3>1. factors[i] \in Nat \ {0} /\ band[i] \in Loops /\ Fits(band[i], factors[i])
      BY DEF Typed, FitsBand
    <3>2. band[i].trip + factors[i] - 1 \in Nat
      BY <3>1 DEF Loops
    <3> QED
      BY <3>1, <3>2, DivIsNat DEF Fits, Ragged, PointTrips, Loops
  <2> DEFINE point == [i \in DOMAIN band |-> IF Ragged(band[i], factors[i]) THEN 1
                                          ELSE PointTrips(band[i], factors[i])]
  <2>2. Overall(point) \in Nat
    <3>1. DOMAIN point = DOMAIN band /\ \A i \in DOMAIN band : point[i] \in Nat
      BY <2>1 DEF Typed
    <3> HIDE DEF point
    <3>2. Prod(point, DOMAIN point) \in Nat
      BY <3>1, TripsAreNat, ProdIsNat
    <3> QED
      BY <3>2, OverallIsProd
  <2>3. Unrolled(band, factors).trips \in [DOMAIN band -> Nat]
    BY <2>1 DEF Unrolled
  <2> QED
    BY <1>2, <2>2, <2>3 DEF Unrolled
<1> QED
  BY <1>1, <1>2 DEF ApplyUnrollJam

\* A function on 1..n is a sequence of length n.
LEMMA FunctionIsSeq ==
    ASSUME NEW A, NEW n \in Nat, NEW f \in [1..n -> A]
    PROVE  f \in Seq(A) /\ Len(f) = n
OBVIOUS

\* A concatenation is its two parts, one after the other.
LEMMA Joined ==
    ASSUME NEW s \in Seq(Nat), NEW t \in Seq(Nat)
    PROVE  /\ DOMAIN (s \o t) = 1..(Len(s) + Len(t))
           /\ Concatenated(s \o t, s, Len(s), t, Len(t))
BY DEF Concatenated

\* Loops outside of the unrolled ones keep their iterations.
LEMMA EmbeddedPreserves ==
    ASSUME WellFormed(prog), NEW n \in Nodes, NEW b \in DOMAIN prog.bands[n],
           NEW first \in 1..(Len(prog.bands[n][b]) + 1), NEW result,
           NEW inner, inner = BandFrom(n, b, first),
           result.trips \in [DOMAIN inner -> Nat], result.copies \in Nat,
           {"trips", "copies", "leftover"} \subseteq DOMAIN result,
           Preserved(inner, result)
    PROVE  Preserved(prog.bands[n][b], Embedded(n, b, first, result))
<1> DEFINE band == prog.bands[n][b]
           outer == SubSeq(Trips(band), 1, first - 1)
           joined == outer \o result.trips
           l == Len(band)
           k == first - 1
           m == Len(inner)
<1>1. band \in Seq(Loops) /\ inner \in Seq(Loops)
      /\ \A i \in DOMAIN inner : i + first - 1 \in DOMAIN band /\ inner[i] = band[i + first - 1]
  BY BandsAreTyped
<1>2. l \in Nat /\ k \in 0..l /\ m = l - k /\ m \in Nat /\ DOMAIN inner = 1..m
  BY <1>1 DEF BandFrom
<1>3. Trips(band) \in Seq(Nat) /\ Len(Trips(band)) = l /\ \A i \in 1..l : Trips(band)[i] = band[i].trip
  <2> HIDE DEF band, l
  <2>1. band \in Seq(Loops) /\ l = Len(band)
    BY <1>1 DEF l
  <2>2. DOMAIN Trips(band) = 1..l /\ \A i \in 1..l : Trips(band)[i] \in Nat /\ Trips(band)[i] = band[i].trip
    BY <2>1, TripsAreNat
  <2>3. Trips(band) = [i \in 1..l |-> Trips(band)[i]]
    BY <2>1, <2>2, TripsAreNat DEF Trips
  <2>4. Trips(band) \in [1..l -> Nat]
    BY <2>2, <2>3
  <2> QED
    BY <1>2, <2>2, <2>4, FunctionIsSeq
<1>4. /\ Embedded(n, b, first, result).trips = joined
      /\ Embedded(n, b, first, result).leftover = {}
      /\ Embedded(n, b, first, result).copies = result.copies
  BY DEF Embedded, Preserved
<1> HIDE DEF band, l
<1>5. outer \in Seq(Nat) /\ Len(outer) = k /\ \A i \in 1..k : outer[i] = Trips(band)[i]
  BY <1>2, <1>3
<1> HIDE DEF outer, k, m
<1>6. result.trips \in Seq(Nat) /\ Len(result.trips) = m
  BY <1>2, FunctionIsSeq
<1> DEFINE inside == result.trips
           all == Trips(band)
           rest == Trips(inner)
<1>7. DOMAIN joined = 1..(k + m) /\ Concatenated(joined, outer, k, inside, m)
  <2>1. outer \in Seq(Nat) /\ inside \in Seq(Nat) /\ Len(outer) = k /\ Len(inside) = m
    BY <1>5, <1>6
  <2> HIDE DEF inside
  <2> QED
    BY <2>1, Joined DEF inside
<1> HIDE DEF joined, inside, all, rest
<1>15. k \in Nat /\ m \in Nat
  BY <1>2
<1>8. Prod(joined, 1..(k + m)) = Prod(outer, 1..k) * Prod(inside, 1..m)
  BY <1>7, <1>15, ProdConcat
<1>9. Prod(all, 1..(k + m)) = Prod(outer, 1..k) * Prod(rest, 1..m)
  <2>1. \A i \in 1..k : outer[i] \in Nat /\ all[i] = outer[i]
    BY <1>5, <1>7 DEF all, Concatenated
  <2>2. ASSUME NEW i \in 1..m PROVE rest[i] \in Nat /\ all[k + i] = rest[i]
    <3>1. i \in DOMAIN inner /\ k + i = i + first - 1
      BY <1>2 DEF k
    <3>2. rest[i] \in Nat /\ rest[i] = inner[i].trip
      BY <1>1, <3>1, TripsAreNat DEF rest
    <3>3. k + i \in 1..l
      BY <1>2
    <3>4. inner[i] = band[k + i]
      <4>1. inner[i] = band[i + first - 1]
        BY <1>1, <3>1
      <4> QED
        BY <3>1, <4>1
    <3> QED
      BY <1>3, <3>2, <3>3, <3>4 DEF all
  <2>3. Concatenated(all, outer, k, rest, m)
    BY <2>1, <2>2 DEF Concatenated
  <2> QED
    BY <1>15, <2>3, ProdConcat
<1>10. result.copies * Prod(inside, 1..m) = Prod(rest, 1..m)
  <2>1. DOMAIN inside = 1..m /\ DOMAIN rest = 1..m
    BY <1>1, <1>2, TripsAreNat DEF inside, rest
  <2>2. result.copies * Overall(inside) = Overall(rest)
    BY DEF Preserved, inside, rest
  <2> QED
    BY <2>1, <2>2, OverallIsProd
<1>11. Prod(outer, 1..k) \in Nat /\ Prod(inside, 1..m) \in Nat
  <2>1. IsFiniteSet(1..k)
    BY <1>15, FS_Interval
  <2>2. IsFiniteSet(1..m)
    BY <1>15, FS_Interval
  <2>3. (\A i \in 1..k : outer[i] \in Nat) /\ (\A i \in 1..m : inside[i] \in Nat)
    BY <1>7 DEF Concatenated
  <2>4. Prod(outer, 1..k) \in Nat
    BY <2>1, <2>3, ProdIsNat
  <2> QED
    BY <2>2, <2>3, <2>4, ProdIsNat
<1>12. result.copies * Prod(joined, 1..(k + m)) = Prod(all, 1..(k + m))
  BY <1>8, <1>9, <1>10, <1>11, TimesCommutes
<1>13. DOMAIN joined = 1..(k + m) /\ DOMAIN all = 1..(k + m)
  <2>1. k + m = l
    BY <1>2
  <2>2. DOMAIN all = 1..l
    BY <1>1, TripsAreNat DEF l, all
  <2> QED
    BY <1>7, <2>1, <2>2
<1>14. result.copies * Overall(joined) = Overall(all)
  BY <1>12, <1>13, OverallIsProd
<1> QED
  BY <1>4, <1>14 DEF Preserved, band, all

-----------------------------------------------------------------------------
(* All bands do *)

BodyInv ==
    /\ DOMAIN body = Nodes /\ \A n \in Nodes : DOMAIN body[n] = DOMAIN prog.bands[n]
    /\ SharedTripsAgree =>
          \A n \in Nodes : \A b \in DOMAIN prog.bands[n] : Preserved(prog.bands[n][b], body[n][b])
    /\ phase = "apply" => pending \subseteq DOMAIN unroll
    /\ job # Idle => job.first \in 1..(Len(prog.bands[job.node][job.band]) + 1)

\* Every band starts untouched.
LEMMA BodyInit == Init => BodyInv
<1> SUFFICES ASSUME Init PROVE BodyInv
  OBVIOUS
<1>1. WellFormed(prog)
  BY ProgramAssumption DEF Init
<1>2. \A n \in Nodes : \A b \in DOMAIN prog.bands[n] : prog.bands[n][b] \in Seq(Loops)
  BY <1>1, BandsAreTyped
<1>3. \A n \in Nodes : \A b \in DOMAIN prog.bands[n] : body[n][b] = Untouched(prog.bands[n][b])
  BY DEF Init
<1> QED
  BY <1>2, <1>3, UntouchedPreserves DEF Init, BodyInv

\* One band of one node is given a result.
LEMMA ResultKeeps ==
    ASSUME BodyInv, NEW n \in Nodes, NEW b \in DOMAIN prog.bands[n], NEW result,
           SharedTripsAgree => Preserved(prog.bands[n][b], result),
           body' = [body EXCEPT ![n][b] = result], prog' = prog,
           phase' = "apply" => pending' \subseteq DOMAIN unroll',
           job' # Idle => job'.first \in 1..(Len(prog.bands[job'.node][job'.band]) + 1)
    PROVE  BodyInv'
<1>1. SharedTripsAgree' = SharedTripsAgree /\ Nodes' = Nodes
  BY DEF SharedTripsAgree, Nodes
<1>2. /\ DOMAIN body' = Nodes /\ \A m \in Nodes : DOMAIN body'[m] = DOMAIN prog.bands[m]
      /\ \A m \in Nodes : \A c \in DOMAIN prog.bands[m] :
            body'[m][c] = IF m = n /\ c = b THEN result ELSE body[m][c]
  BY DEF BodyInv
<1> QED
  BY <1>1, <1>2 DEF BodyInv

\* The naive unrolling starts inside of the band.
LEMMA FirstInBand ==
    ASSUME IInv, NEW n \in Nodes, NEW b, StartBandAfter(n, b), job' # Idle
    PROVE  job'.first \in 1..(Len(prog.bands[job'.node][job'.band]) + 1)
<1>1. PICK c \in BandsAfter(n, b) :
          job' = NewJob(n, c, FirstLoop(n, c), NaiveTarget(n), Ones(BandFrom(n, c, FirstLoop(n, c))))
  BY DEF StartBandAfter
<1>2. c \in DOMAIN prog.bands[n] /\ FirstLoop(n, c) # 0
  BY <1>1 DEF BandsAfter, Bands
<1>3. prog.bands[n][c] \in Seq(Loops)
  BY <1>2, ProgramAssumption, BandsAreTyped DEF IInv, BudgetInv
<1> DEFINE P == PointLoops(prog.bands[n][c])
<1>4. P \in SUBSET (1..Len(prog.bands[n][c]))
  BY <1>3 DEF PointLoops
<1>5. P # {} => (CHOOSE i \in P : \A j \in P : i <= j) \in P
  <2>1. P \in SUBSET Nat
    BY <1>4
  <2> HIDE DEF P
  <2> QED
    BY <2>1, LeastNat
<1>6. FirstLoop(n, c) = 1 \/ FirstLoop(n, c) \in P
  BY <1>2, <1>5 DEF FirstLoop
<1>7. FirstLoop(n, c) \in 1..(Len(prog.bands[n][c]) + 1)
  BY <1>3, <1>4, <1>6
<1> QED
  BY <1>1, <1>7 DEF NewJob

\* Settling a band unrolls it by factors that fit.
LEMMA SettleBandPreserves ==
    ASSUME IInv, BodyInv, SettleBand PROVE BodyInv'
<1> DEFINE n == job.node
           b == job.band
           result == ApplyUnrollJam(n, JobBand, job.factors)
<1>1. /\ job # Idle /\ phase = "naive" /\ UNCHANGED <<prog, phase, unroll>>
      /\ body' = [body EXCEPT ![n][b] = Embedded(n, b, job.first, result)]
      /\ StartBandAfter(n, b)
  BY DEF SettleBand, Distributed
<1>2. /\ WellFormed(prog) /\ n \in Nodes /\ b \in DOMAIN prog.bands[n]
      /\ job.first \in 1..(Len(prog.bands[n][b]) + 1)
  BY <1>1, ProgramAssumption DEF IInv, BudgetInv, JobInv, BodyInv
<1>3. JobBand \in Seq(Loops) /\ Typed(JobBand, job.factors) /\ FitsBand(JobBand, job.factors)
      /\ JobBand = BandFrom(n, b, job.first)
  BY <1>1, JobBandTyped DEF IInv, JobInv, JobBand
<1>4. /\ result.trips \in [DOMAIN JobBand -> Nat] /\ result.copies \in Nat
      /\ Preserved(JobBand, result)
  BY <1>3, ResultTyped, AppliedPreserves
<1>5. {"trips", "copies", "leftover"} \subseteq DOMAIN result
  BY DEF ApplyUnrollJam, Untouched, Unrolled
<1>6. job' # Idle => job'.first \in 1..(Len(prog.bands[job'.node][job'.band]) + 1)
  BY <1>1, <1>2, FirstInBand
<1> DEFINE inner == JobBand
           first == job.first
<1> HIDE DEF n, b, result, inner, first
<1>7. Preserved(prog.bands[n][b], Embedded(n, b, first, result))
  <2>1. /\ inner = BandFrom(n, b, first) /\ first \in 1..(Len(prog.bands[n][b]) + 1)
        /\ result.trips \in [DOMAIN inner -> Nat] /\ Preserved(inner, result)
    BY <1>2, <1>3, <1>4 DEF inner, first
  <2> QED
    BY <1>2, <1>4, <1>5, <2>1, EmbeddedPreserves
<1>8. phase' # "apply"
  BY <1>1
<1> QED
  BY <1>1, <1>2, <1>6, <1>7, <1>8, ResultKeeps DEF first

\* So does applying the factors of a correlated node.
LEMMA ApplyCorrelatedPreserves ==
    ASSUME IInv, BodyInv, NEW n \in Nodes, ApplyCorrelated(n) PROVE BodyInv'
<1>1. /\ phase = "apply" /\ UNCHANGED <<prog, phase, unroll, job>> /\ pending' = pending \ {n}
      /\ body' = [body EXCEPT ![n][1] = ApplyUnrollJam(n, prog.bands[n][1], unroll[n])]
      /\ n \in pending
  BY DEF ApplyCorrelated
<1>2. job' = Idle /\ n \in DOMAIN unroll /\ pending' \subseteq DOMAIN unroll
  BY <1>1 DEF IInv, JobInv, BodyInv
<1>3. /\ prog.bands[n] # <<>> /\ Typed(prog.bands[n][1], unroll[n])
      /\ SharedTripsAgree => FitsBand(prog.bands[n][1], unroll[n])
  BY <1>2 DEF IInv, UnrollInv
<1>4. 1 \in DOMAIN prog.bands[n] /\ prog.bands[n][1] \in Seq(Loops)
  BY <1>3, FirstBand, ProgramAssumption DEF IInv, BudgetInv
<1>5. SharedTripsAgree =>
          Preserved(prog.bands[n][1], ApplyUnrollJam(n, prog.bands[n][1], unroll[n]))
  BY <1>3, <1>4, AppliedPreserves
<1> QED
  BY <1>1, <1>2, <1>4, <1>5, ResultKeeps

\* No step changes what a band computes.
LEMMA BodyStep == IInv /\ BodyInv /\ [Next]_vars => BodyInv'
<1> SUFFICES ASSUME IInv, BodyInv, [Next]_vars PROVE BodyInv'
  OBVIOUS
<1>1. ASSUME UNCHANGED <<prog, body>>,
             phase' = "apply" => pending' \subseteq DOMAIN unroll',
             job' # Idle => job'.first \in 1..(Len(prog.bands[job'.node][job'.band]) + 1)
      PROVE  BodyInv'
  <2>1. SharedTripsAgree' = SharedTripsAgree /\ Nodes' = Nodes
    BY <1>1 DEF SharedTripsAgree, Nodes
  <2> QED
    BY <1>1, <2>1 DEF BodyInv
<1>2. CASE AnalyzeNode \/ AnalyzeLoop \/ AnalyzeBand \/ BudgetSchedule
  BY <1>1, <1>2 DEF AnalyzeNode, AnalyzeLoop, AnalyzeBand, BudgetSchedule, analyzed, BodyInv
<1>3. CASE StartUnroll \/ StartNaive \/ Finish \/ StartApply
  BY <1>1, <1>3 DEF StartUnroll, StartNaive, Finish, StartApply, BodyInv
<1>4. CASE Grow
  <2>1. job # Idle /\ JobFields \subseteq DOMAIN job /\ UNCHANGED <<prog, body>>
        /\ phase' # "apply"
    BY <1>4 DEF Grow, IInv, JobInv
  <2>2. job'.first = job.first /\ job'.node = job.node /\ job'.band = job.band
    BY <1>4, <2>1 DEF Grow, JobFields
  <2> QED
    BY <1>1, <2>1, <2>2 DEF BodyInv
<1>5. CASE Distribute
  <2>1. job # Idle /\ JobFields \subseteq DOMAIN job /\ UNCHANGED <<prog, body>>
        /\ phase' # "apply"
    BY <1>5 DEF Distribute, IInv, JobInv
  <2>2. job'.first = job.first /\ job'.node = job.node /\ job'.band = job.band
    BY <1>5, <2>1 DEF Distribute, JobFields
  <2> QED
    BY <1>1, <2>1, <2>2 DEF BodyInv
<1>6. CASE SettleNode
  BY <1>1, <1>6 DEF SettleNode
<1>7. ASSUME NEW n \in Nodes, VisitNode(n) PROVE BodyInv'
  <2>1. UNCHANGED <<prog, body>> /\ phase' = "factors"
        /\ job' = NewJob(n, 1, 1, Target(n), Seed(n)) /\ prog.bands[n] # <<>>
    BY <1>7 DEF VisitNode, IInv, PendingInv
  <2>2. job'.node = n /\ job'.band = 1 /\ job'.first = 1
    BY <2>1 DEF NewJob
  <2>3. Len(prog.bands[n][1]) \in Nat
    BY <2>1, FirstBand, ProgramAssumption DEF IInv, BudgetInv
  <2> QED
    BY <1>1, <2>1, <2>2, <2>3
<1>8. ASSUME NEW n \in Nodes, ApplyCorrelated(n) PROVE BodyInv'
  BY <1>8, ApplyCorrelatedPreserves
<1>9. ASSUME NEW n \in Nodes, NaiveNode(n) PROVE BodyInv'
  <2>1. UNCHANGED <<prog, body>> /\ phase' = "naive" /\ StartBandAfter(n, 0)
    BY <1>9 DEF NaiveNode
  <2> QED
    BY <1>1, <2>1, FirstInBand
<1>10. CASE SettleBand
  BY <1>10, SettleBandPreserves
<1>11. CASE UNCHANGED vars
  BY <1>1, <1>11 DEF vars, BodyInv
<1> QED
  BY <1>2, <1>3, <1>4, <1>5, <1>6, <1>7, <1>8, <1>9, <1>10, <1>11 DEF Next

\* When the loops of correlated nodes agree, every band that was unrolled, by seeds or
\* naively, runs the iterations it had, no more and no less, and no tile is cut short.
THEOREM UnrollingPreservesWork == Spec => []WorkPreserved
<1>1. BodyInv => WorkPreserved
  BY DEF BodyInv, Preserved, WorkPreserved
<1>2. Spec => [](IInv /\ BodyInv)
  BY InvHolds, BodyInit, BodyStep, PTL DEF Spec
<1> QED
  BY <1>1, <1>2, PTL
=============================================================================
