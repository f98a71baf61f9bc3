---------------------- MODULE ParallelizeDataflowNode ----------------------
(***************************************************************************)
(* The pass ParallelizeDataflowNode: the complexity of every node, its      *)
(* share of the unroll factor, the unroll factors of its loops, and the     *)
(* unroll-and-jam of them.  A program is a record:                          *)
(*   maxUnroll, complexityAware, correlationAware, pointLoopOnly   options  *)
(*   bands      node -> its loop bands (FactorDistribution); a node with a  *)
(*              schedule inside, which is one at most, has one at most      *)
(*   schedule   node -> the schedule it is in                               *)
(*   parent     schedule -> the node it is in, or Top                       *)
(*   increase, decrease    schedule -> the annotations, 1 for none          *)
(*   nodeOrder, scheduleOrder    the walks: nodes inside out, schedules     *)
(*              outside in                                                  *)
(*   imperfect  nodes with other operations between their loops             *)
(*   external   nodes with effects on DRAM                                  *)
(*   buffers    see CorrelationAnalysis; no node indexes two dimensions of  *)
(*              a buffer by one loop                                        *)
(***************************************************************************)
EXTENDS CorrelationAnalysis, Functions

CONSTANTS Programs, Top

Loops == {loop \in [trip : Nat, known : BOOLEAN, point : BOOLEAN] : loop.known => loop.trip > 0}

\* Correlated nodes have a band, and a loop of it or none for each dimension of the
\* buffer.
WellFormed(p) ==
    /\ p.maxUnroll \in Nat
    /\ IsFiniteSet(DOMAIN p.bands)
    /\ p.nodeOrder \in Seq(DOMAIN p.bands) /\ p.scheduleOrder \in Seq(DOMAIN p.parent)
    /\ \A s \in DOMAIN p.parent : p.increase[s] \in Nat /\ p.decrease[s] \in Nat \ {0}
    /\ DOMAIN p.buffers \subseteq Nat
    /\ \A n \in DOMAIN p.bands : p.bands[n] \in Seq(Seq(Loops))
    /\ \A c \in Correlations(p.buffers) :
          LET lhs == p.buffers[c[1]].depths[c[2]]
              rhs == p.buffers[c[1]].depths[c[3]]
          IN  /\ {c[2], c[3]} \subseteq DOMAIN p.bands
              /\ p.bands[c[2]] # <<>> /\ p.bands[c[3]] # <<>>
              /\ lhs \in Seq(0..Len(p.bands[c[2]][1]))
              /\ rhs \in Seq(0..Len(p.bands[c[3]][1]))
              /\ Len(lhs) = Len(rhs)

ASSUME ProgramAssumption == \A p \in Programs : WellFormed(p)

VARIABLES prog,
          phase,           \* "budget", "factors", "apply", "naive", "done", "crashed"
          toAnalyze, toBudget,  \* the rest of the two walks
          analysis,        \* the node under analysis, or Idle
          complexity,      \* node -> complexity, as far as the analysis came
          parallelFactor,  \* node -> its share, as far as the walk came
          pending,         \* nodes to visit
          unroll,          \* node -> factors of its loops (nodeUnrollFactorsMap)
          job,             \* the band factors are distributed on, or Idle
          body             \* node -> band -> what became of the loops

analyzed == <<toAnalyze, analysis, complexity>>

vars == <<prog, phase, toAnalyze, toBudget, analysis, complexity, parallelFactor, pending,
          unroll, job, body>>

Nodes == DOMAIN prog.bands
NodesOf(s) == {n \in Nodes : prog.schedule[n] = s}
Children(n) == {s \in DOMAIN prog.parent : prog.parent[s] = n}
MaxOf(a, b) == IF a < b THEN b ELSE a
Idle == [node |-> Top]

\* Inserting into a map keeps what it has; an assignment overwrites.
Insert(map, new) ==
    [n \in DOMAIN map \cup DOMAIN new |-> IF n \in DOMAIN map THEN map[n] ELSE new[n]]

-----------------------------------------------------------------------------
(* ComplexityAnalysis *)

\* The complexities of the nodes of s are known.
CanAnalyze(s) == NodesOf(s) \subseteq DOMAIN complexity

ScheduleComplexity(s) ==
    CHOOSE c \in {0} \cup {complexity[n] : n \in NodesOf(s)} :
        \A n \in NodesOf(s) : complexity[n] <= c

\* The complexity of the body of the innermost loop of n.
BodyComplexity(n) ==
    IF Children(n) = {} THEN 0
    ELSE ScheduleComplexity(CHOOSE s \in Children(n) : TRUE)

\* at is the loop the analysis returns from next, complexity the one of its body
\* and total the one of the bands before.
StartNode(n) ==
    [node |-> n, band |-> 1, total |-> 0, complexity |-> BodyComplexity(n),
     at |-> IF prog.bands[n] = <<>> THEN 0 ELSE Len(prog.bands[n][1])]

\* Nodes come after those inside of them.
AnalyzeNode ==
    /\ phase = "budget" /\ analysis = Idle /\ toAnalyze # <<>>
    /\ IF \A s \in Children(Head(toAnalyze)) : CanAnalyze(s)
       THEN analysis' = StartNode(Head(toAnalyze)) /\ toAnalyze' = Tail(toAnalyze)
       ELSE analysis' = analysis /\ toAnalyze' = <<>>
    /\ UNCHANGED <<prog, phase, toBudget, complexity, parallelFactor, pending, unroll, job, body>>

\* A trip count that can not be estimated stops the walk.
AnalyzeLoop ==
    /\ phase = "budget" /\ analysis # Idle /\ analysis.at > 0
    /\ LET trip == prog.bands[analysis.node][analysis.band][analysis.at].trip
       IN  IF trip = 0
           THEN analysis' = Idle /\ toAnalyze' = <<>>
           ELSE /\ analysis' = [analysis EXCEPT !.complexity = trip * MaxOf(1, @),
                                               !.at = @ - 1]
                /\ toAnalyze' = toAnalyze
    /\ UNCHANGED <<prog, phase, toBudget, complexity, parallelFactor, pending, unroll, job, body>>

\* The next band of the node, or its complexity.
AnalyzeBand ==
    /\ phase = "budget" /\ analysis # Idle /\ analysis.at = 0
    /\ LET n == analysis.node
           total == analysis.total + analysis.complexity
       IN  IF analysis.band < Len(prog.bands[n])
           THEN /\ analysis' = [analysis EXCEPT !.band = @ + 1, !.total = total,
                                               !.complexity = 0,
                                               !.at = Len(prog.bands[n][analysis.band + 1])]
                /\ complexity' = complexity
           ELSE /\ analysis' = Idle
                /\ complexity' = Insert(complexity, [m \in {n} |-> total])
    /\ UNCHANGED <<prog, phase, toAnalyze, toBudget, parallelFactor, pending, unroll, job, body>>

-----------------------------------------------------------------------------
(* getNodeParallelFactorMap *)

\* Mutant of ScheduleFactor: each schedule starts from the option.
ScheduleFactor_Max(s) == prog.maxUnroll

\* The factor of the node around s, tuned by the annotations.
ScheduleFactor(s) ==
    IF prog.parent[s] = Top THEN prog.maxUnroll
    ELSE (parallelFactor[prog.parent[s]] * prog.increase[s]) \div prog.decrease[s]

\* Mutant of Share: the division comes first.
Share_Truncated(s, n) ==
    MaxOf(1, (ScheduleFactor(s) \div ScheduleComplexity(s)) * complexity[n])

Share(s, n) ==
    MaxOf(1, (ScheduleFactor(s) * complexity[n]) \div ScheduleComplexity(s))

\* A schedule whose nodes have no loops divides by zero.
BudgetSchedule ==
    /\ phase = "budget" /\ toAnalyze = <<>> /\ analysis = Idle /\ toBudget # <<>>
    /\ LET s == Head(toBudget)
           reached == prog.parent[s] \in {Top} \cup DOMAIN parallelFactor
       IN  IF ~reached \/ ~CanAnalyze(s)
           THEN toBudget' = <<>> /\ UNCHANGED <<phase, parallelFactor>>
           ELSE IF NodesOf(s) # {} /\ ScheduleComplexity(s) = 0
           THEN phase' = "crashed" /\ UNCHANGED <<toBudget, parallelFactor>>
           ELSE /\ parallelFactor' = Insert(parallelFactor, [n \in NodesOf(s) |-> Share(s, n)])
                /\ toBudget' = Tail(toBudget)
                /\ phase' = phase
    /\ UNCHANGED <<prog, analyzed, pending, unroll, job, body>>

\* Nodes without correlations, or all of them, are left to the naive unrolling.
StartUnroll ==
    /\ phase = "budget" /\ toAnalyze = <<>> /\ analysis = Idle /\ toBudget = <<>>
    /\ phase' = IF prog.correlationAware THEN "factors" ELSE "naive"
    /\ pending' = IF prog.correlationAware THEN CorrelatedNodes(prog.buffers)
                  ELSE DOMAIN parallelFactor
    /\ UNCHANGED <<prog, analyzed, toBudget, parallelFactor, unroll, job, body>>

-----------------------------------------------------------------------------
(* The factors of one band: an iteration of a loop of the code at a time *)

\* band is the band of job.node at job.band from the loop job.first on.
BandFrom(n, b, first) == SubSeq(prog.bands[n][b], first, Len(prog.bands[n][b]))
JobBand == BandFrom(job.node, job.band, job.first)
Ones(band) == [i \in DOMAIN band |-> 1]

NewJob(n, b, first, target, factors) ==
    [node |-> n, band |-> b, first |-> first, target |-> target, factors |-> factors,
     at |-> Len(BandFrom(n, b, first)), remain |-> target]

Growing == AllKnown(JobBand) /\ job.target > Overall(job.factors)

\* An iteration of getEvenlyDistributedFactors.
Grow ==
    /\ phase \in {"factors", "naive"} /\ job # Idle
    /\ Growing
    /\ IF Wrapped \in Range(Increased(JobBand, job.factors))
       THEN phase' = "crashed" /\ job' = job
       ELSE /\ \E i \in DOMAIN JobBand :
                  /\ IsPreferred(i, JobBand, job.factors)
                  /\ job' = [job EXCEPT !.factors[i] = Increased(JobBand, job.factors)[i]]
            /\ phase' = phase
    /\ UNCHANGED <<prog, analyzed, toBudget, parallelFactor, pending, unroll, body>>

\* An iteration of getDistributedFactors, where the other one fails.
Distribute ==
    /\ phase \in {"factors", "naive"} /\ job # Idle
    /\ ~AllKnown(JobBand) /\ job.at > 0
    /\ job' = [job EXCEPT !.factors[job.at] = DistributedSize(JobBand[job.at], job.remain),
                          !.remain = RemainingFactor(JobBand[job.at], job.remain),
                          !.at = job.at - 1]
    /\ UNCHANGED <<prog, phase, analyzed, toBudget, parallelFactor, pending,
                   unroll, body>>

Distributed ==
    /\ job # Idle
    /\ IF AllKnown(JobBand) THEN Growing => Candidates(JobBand, job.factors) = {}
       ELSE job.at = 0

-----------------------------------------------------------------------------
(* applyCorrelationAwareUnroll *)

Target(n) ==
    IF prog.complexityAware /\ n \in DOMAIN parallelFactor THEN parallelFactor[n]
    ELSE prog.maxUnroll

Seed(n) == IF n \in DOMAIN unroll THEN unroll[n] ELSE Ones(BandFrom(n, 1, 1))

\* The most correlated nodes first; equals come in the order of a hash map.
VisitNode(n) ==
    /\ phase = "factors" /\ job = Idle
    /\ n \in pending
    /\ \A m \in pending : CorrelationNum(prog.buffers, m) <= CorrelationNum(prog.buffers, n)
    /\ job' = NewJob(n, 1, 1, Target(n), Seed(n))
    /\ UNCHANGED <<prog, phase, analyzed, toBudget, parallelFactor, pending,
                   unroll, body>>

\* The factors of n as seen by the loops of a correlated node m.
CorrelatedFactors(n, m, factors) ==
    LET b == CHOOSE b \in SharedBuffers(prog.buffers, n, m) :
                 \A c \in SharedBuffers(prog.buffers, n, m) : b <= c
        depths == prog.buffers[b].depths
    IN  PermuteFactors(factors, PermuteMap(depths[n], depths[m], Len(prog.bands[m][1])))

\* The nodes that share a buffer with n, each with its factors.
SeedsOf(n, factors) ==
    [m \in {m \in Nodes : SharedBuffers(prog.buffers, n, m) # {}} |->
        CorrelatedFactors(n, m, factors)]

\* Mutant of Seeded: factors a node has already are overwritten.
Seeded_Overwrite(n, factors) == Insert(Insert([m \in {n} |-> factors], SeedsOf(n, factors)), unroll)

\* n is assigned its factors, and the correlated nodes without any are given theirs.
Seeded(n, factors) == Insert(Insert([m \in {n} |-> factors], unroll), SeedsOf(n, factors))

SettleNode ==
    /\ phase = "factors" /\ Distributed
    /\ unroll' = Seeded(job.node, job.factors)
    /\ pending' = pending \ {job.node}
    /\ job' = Idle
    /\ UNCHANGED <<prog, phase, analyzed, toBudget, parallelFactor, body>>

-----------------------------------------------------------------------------
(* applyLoopUnrollJam: tile the band by the factors and unroll the point loops *)

PointTrips(loop, factor) == IF loop.known /\ loop.trip < factor THEN loop.trip ELSE factor

\* A tile with a last part: the point loop has a bound that is not constant, and
\* is left a loop.
Ragged(loop, factor) == loop.known /\ factor < loop.trip /\ loop.trip % factor # 0

Unrolled(band, factors) ==
    [trips |-> [i \in DOMAIN band |->
                  (band[i].trip + PointTrips(band[i], factors[i]) - 1)
                     \div PointTrips(band[i], factors[i])],
     copies |-> Overall([i \in DOMAIN band |->
                  IF Ragged(band[i], factors[i]) THEN 1
                  ELSE PointTrips(band[i], factors[i])]),
     leftover |-> {i \in DOMAIN band : Ragged(band[i], factors[i])}]

Trips(band) == [i \in DOMAIN band |-> band[i].trip]

Untouched(band) == [trips |-> Trips(band), copies |-> 1, leftover |-> {}]

\* A band that is not perfectly nested is not tiled.
ApplyUnrollJam(n, band, factors) ==
    IF n \in prog.imperfect \/ \A i \in DOMAIN factors : factors[i] = 1
    THEN Untouched(band)
    ELSE Unrolled(band, factors)

StartApply ==
    /\ phase = "factors" /\ job = Idle /\ pending = {}
    /\ phase' = "apply"
    /\ pending' = DOMAIN unroll
    /\ UNCHANGED <<prog, analyzed, toBudget, parallelFactor, unroll, job, body>>

ApplyCorrelated(n) ==
    /\ phase = "apply" /\ n \in pending
    /\ body' = [body EXCEPT ![n][1] = ApplyUnrollJam(n, prog.bands[n][1], unroll[n])]
    /\ pending' = pending \ {n}
    /\ UNCHANGED <<prog, phase, analyzed, toBudget, parallelFactor, unroll, job>>

StartNaive ==
    /\ phase = "apply" /\ pending = {}
    /\ phase' = "naive"
    /\ pending' = DOMAIN parallelFactor \ DOMAIN unroll
    /\ UNCHANGED <<prog, analyzed, toBudget, parallelFactor, unroll, job, body>>

-----------------------------------------------------------------------------
(* applyNaiveLoopUnroll *)

\* The point loops of a band: those from the first one on, when all are.
PointLoops(band) ==
    {i \in DOMAIN band : band[i].point /\ \A j \in i..Len(band) : band[j].point}

ValidTileAndPoint(band) ==
    \A i, j \in DOMAIN band : i < j /\ band[i].point => band[j].point

\* The loop the unrolling starts at; 0 when the band is left alone.
FirstLoop(n, b) ==
    LET band == prog.bands[n][b]
    IN  IF ~prog.pointLoopOnly \/ n \in prog.external THEN 1
        ELSE IF ~ValidTileAndPoint(band) \/ PointLoops(band) = {} THEN 0
        ELSE CHOOSE i \in PointLoops(band) : \A j \in PointLoops(band) : i <= j

NaiveTarget(n) == IF prog.complexityAware THEN parallelFactor[n] ELSE prog.maxUnroll

\* The bands to unroll; one with a schedule inside is none.
Bands(n) ==
    {b \in DOMAIN prog.bands[n] : Children(n) = {} /\ FirstLoop(n, b) # 0}

\* Mutant of BandsAfter: the band just unrolled is taken again.
BandsAfter_Again(n, b) == {c \in Bands(n) : c >= b}

BandsAfter(n, b) == {c \in Bands(n) : c > b}

\* The next band after b, or the end of the node.
StartBandAfter(n, b) ==
    LET rest == BandsAfter(n, b)
    IN  IF rest = {} THEN job' = Idle /\ pending' = pending \ {n}
        ELSE \E c \in rest :
               /\ \A d \in rest : c <= d
               /\ job' = NewJob(n, c, FirstLoop(n, c), NaiveTarget(n),
                                Ones(BandFrom(n, c, FirstLoop(n, c))))
               /\ pending' = pending

NaiveNode(n) ==
    /\ phase = "naive" /\ job = Idle /\ n \in pending
    /\ StartBandAfter(n, 0)
    /\ UNCHANGED <<prog, phase, analyzed, toBudget, parallelFactor, unroll, body>>

\* Loops outside of the job keep their trips.
Embedded(n, b, first, result) ==
    [result EXCEPT !.trips = SubSeq(Trips(prog.bands[n][b]), 1, first - 1) \o @,
                   !.leftover = {i + first - 1 : i \in @}]

SettleBand ==
    /\ phase = "naive" /\ Distributed
    /\ LET n == job.node
           b == job.band
       IN  /\ body' = [body EXCEPT ![n][b] =
                         Embedded(n, b, job.first, ApplyUnrollJam(n, JobBand, job.factors))]
           /\ StartBandAfter(n, b)
    /\ UNCHANGED <<prog, phase, analyzed, toBudget, parallelFactor, unroll>>

Finish ==
    /\ phase = "naive" /\ job = Idle /\ pending = {}
    /\ phase' = "done"
    /\ UNCHANGED <<prog, analyzed, toBudget, parallelFactor, pending, unroll, job,
                   body>>

-----------------------------------------------------------------------------

Init ==
    /\ prog \in Programs
    /\ phase = "budget"
    /\ toAnalyze = prog.nodeOrder /\ toBudget = prog.scheduleOrder /\ analysis = Idle
    /\ complexity = <<>> /\ parallelFactor = <<>> /\ unroll = <<>>
    /\ pending = {} /\ job = Idle
    /\ body = [n \in Nodes |-> [b \in DOMAIN prog.bands[n] |-> Untouched(prog.bands[n][b])]]

Next ==
    \/ AnalyzeNode \/ AnalyzeLoop \/ AnalyzeBand
    \/ BudgetSchedule \/ StartUnroll
    \/ Grow \/ Distribute
    \/ SettleNode \/ StartApply \/ StartNaive
    \/ SettleBand \/ Finish
    \/ \E n \in Nodes : VisitNode(n) \/ ApplyCorrelated(n) \/ NaiveNode(n)

Spec == Init /\ [][Next]_vars /\ WF_vars(Next)

-----------------------------------------------------------------------------
(* Properties *)

\* Where two nodes index a dimension of a buffer by a loop each, the loops have
\* the same constant trip count, or both have none.  Nothing in the pass sees to it.
TripsAgree(loop, other) ==
    loop.known = other.known /\ (loop.known => loop.trip = other.trip)

SharedTripsAgree ==
    \A c \in Correlations(prog.buffers) :
        LET lhs == prog.buffers[c[1]].depths[c[2]]
            rhs == prog.buffers[c[1]].depths[c[3]]
        IN  \A k \in DOMAIN lhs : lhs[k] # NoDepth /\ rhs[k] # NoDepth =>
                TripsAgree(prog.bands[c[2]][1][lhs[k]], prog.bands[c[3]][1][rhs[k]])

\* A factor seeded by one node and raised by the next still divides the trip count
\* of each loop it ends up on: no tile is cut short.
FactorsDivideTrips ==
    SharedTripsAgree =>
        \A n \in DOMAIN unroll : \A i \in DOMAIN unroll[n] :
            LET loop == prog.bands[n][1][i]
            IN  IF loop.known THEN loop.trip % unroll[n][i] = 0 ELSE unroll[n][i] = 1

\* Unrolling neither drops nor repeats an iteration and leaves no point loop
\* behind: what is left of the loops times the copies is the iterations there were.
WorkPreserved ==
    SharedTripsAgree =>
        \A n \in Nodes : \A b \in DOMAIN prog.bands[n] :
            /\ body[n][b].leftover = {}
            /\ body[n][b].copies * Overall(body[n][b].trips) = Overall(Trips(prog.bands[n][b]))

\* The factor of a node is used up, or its loops with a constant trip count are all
\* unrolled, also where a correlated node chose some of the factors.
BudgetSpent ==
    phase \in {"apply", "naive", "done"} /\ SharedTripsAgree =>
        \A n \in DOMAIN unroll :
            \/ Overall(unroll[n]) >= Target(n)
            \/ \A i \in DOMAIN unroll[n] :
                  LET loop == prog.bands[n][1][i]
                  IN  loop.known => unroll[n][i] = loop.trip

\* A node never takes back parallelism a correlated node counts on, as long as
\* its trip counts are known.
SeedsOnlyGrow ==
    [][\A n \in DOMAIN unroll :
          AllKnown(prog.bands[n][1]) =>
              \A i \in DOMAIN unroll[n] : unroll[n][i] <= unroll'[n][i]]_unroll

\* The critical node of a schedule gets the whole factor of the node around it,
\* and no node more than one with more to do.
FactorsFollowWork ==
    \A s \in DOMAIN prog.parent :
        NodesOf(s) # {} /\ NodesOf(s) \subseteq DOMAIN parallelFactor =>
            /\ \E n \in NodesOf(s) : parallelFactor[n] = MaxOf(1, ScheduleFactor(s))
            /\ \A n, m \in NodesOf(s) :
                  complexity[n] <= complexity[m] => parallelFactor[n] <= parallelFactor[m]

\* The pass dies for three causes only: a loop of one iteration, which can not be
\* unrolled any further but counts as a candidate, loops of correlated nodes that
\* do not agree, and a schedule without a single loop.
CrashHasCause ==
    phase = "crashed" =>
        \/ \E n \in Nodes : \E b \in DOMAIN prog.bands[n] :
              \E i \in DOMAIN prog.bands[n][b] : prog.bands[n][b][i].trip = 1
        \/ ~SharedTripsAgree
        \/ \E s \in DOMAIN prog.parent :
              NodesOf(s) # {} /\ \A n \in NodesOf(s) : complexity[n] = 0

\* The loops that grow the factors end, and so does the pass.
ParallelizationEnds == <>(phase \in {"done", "crashed"})
=============================================================================
