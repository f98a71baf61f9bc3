------------------------ MODULE DesignSpaceExplore ------------------------
(***************************************************************************)
(* The design space exploration of a function: its nests are simplified,    *)
(* its loop bands are explored one after the other, their frontiers are     *)
(* combined to the frontier of the function, band by band, and the fastest  *)
(* design that fits is applied.                                             *)
(***************************************************************************)
EXTENDS SimplifyLoopNests, LoopDesignSpace

CONSTANT DirectiveOptions     \* the values of the setting directive_only

ASSUME ExploreAssumption == DirectiveOptions \subseteq BOOLEAN

VARIABLES stage, directiveOnly,
          band,          \* the number of the band that is explored or combined
          loopSpaces,    \* the design spaces of the bands, once explored
          funcPoints,    \* paretoPoints of the FuncDesignSpace
          applied,       \* the design that was applied
          combinations   \* history: each combination of points of the bands so far

spaceVars == <<space, band, loopSpaces>>
funcVars  == <<funcPoints, applied, combinations>>
vars == <<nestVars, spaceVars, funcVars, stage, directiveOnly>>

Stages == {"simplify", "optimize", "initialize", "explore", "combine", "apply", "done",
           "rejected", "crashed"}

Bands == LoopBands(forest)
TripCounts(b) == [i \in DOMAIN Bands[b] |-> forest.trip[Bands[b][i]]]

NoSpace == NewSpace(<<>>, FALSE)

-----------------------------------------------------------------------------
(* Function design points *)

NoDesign == [latency |-> 0, dspNum |-> 0, loopPoints |-> <<>>]

\* estimateFunc with one more loop annotated: loops run one after the other, as
\* often as the loops around them repeat, and share no DSPs.
Annotated(f, p, times) ==
    [latency |-> f.latency + times * p.latency, dspNum |-> f.dspNum + p.dspNum,
     loopPoints |-> Append(f.loopPoints, p)]

Combined(F, P, times) == {Annotated(f, p, times) : f \in F, p \in P}

Affordable(F) == {f \in F : f.dspNum <= MaxDspNum}

\* Mutant of Best: the smallest design instead of the fastest.
Best_Smallest(F) ==
    {f \in Affordable(F) : \A g \in Affordable(F) : f.dspNum <= g.dspNum}

\* The first of the points, sorted by latency, that fits.
Best(F) == {f \in Affordable(F) : \A g \in Affordable(F) : f.latency <= g.latency}

-----------------------------------------------------------------------------
Init ==
    /\ SimplifyInit
    /\ stage = "simplify"
    /\ directiveOnly \in DirectiveOptions
    /\ space = NoSpace /\ band = 0 /\ loopSpaces = <<>>
    /\ funcPoints = {NoDesign} /\ combinations = {NoDesign}
    /\ applied = NoDesign

\* Stage 1; a function that does not fit in the end is given up.
SimplifyLoopNests ==
    /\ stage = "simplify"
    /\ \/ Simplify /\ UNCHANGED stage
       \/ /\ Simplified
          /\ stage' = IF fits THEN "optimize" ELSE "rejected"
          /\ UNCHANGED nestVars
    /\ UNCHANGED <<spaceVars, funcVars, directiveOnly>>

\* The constructor of the design space; the remainder by 0 kills the compiler.
ExploreBand(b) ==
    /\ band' = b
    /\ space' = NewSpace(TripCounts(b), directiveOnly)
    /\ stage' = IF LacksSizes(TripCounts(b)) THEN "crashed" ELSE "initialize"

\* Stage 2 rewrites the bands in place; whether the function still fits is the
\* estimator's answer.  A function without loops crashes when its first design
\* space is asked for.
OptimizeLoopBands ==
    /\ stage = "optimize"
    /\ \E ok \in BOOLEAN :
          /\ fits' = ok
          /\ IF ok /\ Len(Bands) > 0
             THEN ExploreBand(1)
             ELSE /\ stage' = IF ok THEN "crashed" ELSE "rejected"
                  /\ UNCHANGED <<space, band>>
    /\ UNCHANGED <<forest, targetLoops, candidateLoops, rejected, loopSpaces, funcVars,
                   directiveOnly>>

\* updateParetoPoints reads the first point: with none a build with assertions
\* aborts, any other goes on with none.
InitializeLoopDesignSpace ==
    /\ stage = "initialize"
    /\ \/ InitializeStep /\ UNCHANGED stage
       \/ /\ Initialized
          /\ space' = [space EXCEPT !.paretoPoints = UpdateParetoPoints(@)]
          /\ \/ stage' = "explore"
             \/ space.paretoPoints = {} /\ stage' = "crashed"
    /\ UNCHANGED <<nestVars, funcVars, band, loopSpaces, directiveOnly>>

ExploreLoopDesignSpace ==
    /\ stage = "explore"
    /\ \/ ExploreStep /\ UNCHANGED <<stage, band, loopSpaces>>
       \/ /\ ExploreEnds
          /\ loopSpaces' = Append(loopSpaces, space)
          /\ IF band < Len(Bands)
             THEN ExploreBand(band + 1)
             ELSE stage' = "combine" /\ band' = 1 /\ UNCHANGED space
    /\ UNCHANGED <<nestVars, funcVars, directiveOnly>>

\* One more band joins the function points.  Copying the first of no points is a
\* crash in any build: the point holds a vector.
CombLoopDesignSpaces ==
    /\ stage = "combine"
    /\ LET times == TimesRun(forest, Head(Bands[band]))
           new   == Combined(funcPoints, loopSpaces[band].paretoPoints, times)
       IN  /\ funcPoints' = UpdateParetoPoints(new)
           /\ combinations' = Combined(combinations, loopSpaces[band].allPoints, times)
           /\ stage' = CASE new = {} -> "crashed"
                         [] new # {} /\ band = Len(loopSpaces) -> "apply"
                         [] OTHER -> "combine"
    /\ band' = IF band < Len(loopSpaces) THEN band + 1 ELSE band
    /\ UNCHANGED <<nestVars, space, loopSpaces, applied, directiveOnly>>

\* When no point fits, the function stays as it is.  A design that can not be
\* applied to every band, one after the other, is given up half way.
ApplyBestDesign ==
    /\ stage = "apply"
    /\ \/ /\ applied' \in IF Best(funcPoints) = {} THEN {NoDesign} ELSE Best(funcPoints)
          /\ stage' = "done"
       \/ /\ Best(funcPoints) # {}
          /\ stage' = "rejected"
          /\ UNCHANGED applied
    /\ UNCHANGED <<nestVars, spaceVars, funcPoints, combinations, directiveOnly>>

Next ==
    \/ SimplifyLoopNests
    \/ OptimizeLoopBands
    \/ InitializeLoopDesignSpace
    \/ ExploreLoopDesignSpace
    \/ CombLoopDesignSpaces
    \/ ApplyBestDesign

\* The compiler keeps running.
Spec == Init /\ [][Next]_vars /\ WF_vars(Next)

-----------------------------------------------------------------------------
Points == [latency : Nat, dspNum : Nat, tileConfig : Nat, targetII : Nat]

\* What both kinds of design points have: latency and DSPs are counted.
IsEstimate(p) == p.latency \in Nat /\ p.dspNum \in Nat

SpaceTypeOK(s) ==
    /\ s = [trips |-> s.trips, config |-> s.config, iter |-> s.iter,
            unestimated |-> s.unestimated, allPoints |-> s.allPoints,
            paretoPoints |-> s.paretoPoints, inactive |-> s.inactive]
    /\ s.config \in Nat /\ s.iter \in Nat
    /\ s.unestimated \subseteq Nat
    /\ s.allPoints \subseteq Points
    /\ s.paretoPoints \subseteq s.allPoints
    /\ s.inactive \subseteq s.paretoPoints

TypeOK ==
    /\ stage \in Stages /\ directiveOnly \in BOOLEAN /\ fits \in BOOLEAN
    /\ SpaceTypeOK(space)
    /\ band \in Nat
    /\ loopSpaces \in Seq({loopSpaces[i] : i \in DOMAIN loopSpaces})
    /\ \A i \in DOMAIN loopSpaces : SpaceTypeOK(loopSpaces[i])
    /\ funcPoints \subseteq combinations
    /\ \A f \in combinations : IsEstimate(f)

\* A nest is unrolled only when all nests around it that can be tried were tried
\* and did not fit: a later round never overtakes an earlier one.
NestsOutsideIn ==
    \A l \in candidateLoops : \A m \in Loops(forest) :
        l \in Inside(forest, m) /\ InnerParallelism(forest, m) \in 2..MaxNestParallel
           /\ ~HasOneChild(forest, m)
        => m \in rejected

\* Of the tile configs none unrolls every loop: the dropped config is that one
\* whenever it exists, in every radix.
NeverFullyUnrolled ==
    space # NoSpace => \A c \in space.unestimated : TileList(space.trips, c) # space.trips

\* Adding the points of one config at a time and pruning after each step leaves
\* the Pareto frontier of all points found so far that fit.
Dominates(p, q) ==
    /\ p.latency <= q.latency /\ p.dspNum <= q.dspNum
    /\ p.latency < q.latency \/ p.dspNum < q.dspNum

ParetoPointsAreFrontier ==
    stage = "explore" =>
        LET found == {p \in space.allPoints : p.dspNum <= MaxDspNum}
        IN  space.paretoPoints = {p \in found : \A q \in found : ~Dominates(q, p)}

\* When a band is given up before the iterations ran out, no config near a point
\* of its frontier is left: a point once found without a neighbor never gets one.
ExploredToTheEnd ==
    \A i \in DOMAIN loopSpaces :
        loopSpaces[i].iter < MaxIterNum =>
            \A p \in loopSpaces[i].paretoPoints : Neighbors(loopSpaces[i], p) = {}

\* No combination of points of the bands that fits is lost: pruning each band,
\* and the function after each band, keeps one that is as fast and as small.
CombinationsCovered ==
    \A c \in Affordable(combinations) :
        \E f \in funcPoints : f.latency <= c.latency /\ f.dspNum <= c.dspNum

\* The design that is applied is the fastest of all combinations that fit; none
\* is applied only when none fits.
AppliedIsBest ==
    stage = "done" =>
        IF Affordable(combinations) = {} THEN applied = NoDesign
        ELSE /\ applied \in Affordable(combinations)
             /\ \A c \in Affordable(combinations) : applied.latency <= c.latency

Phase ==
    CASE stage = "done"                      -> "chosen"
      [] stage \in {"rejected", "crashed"}   -> "givenUp"
      [] OTHER                               -> "searching"

Abstract == INSTANCE BestDesign WITH phase <- Phase, found <- combinations, chosen <- applied

\* Exploring band by band, with pruned frontiers, chooses as if all combinations of
\* points had been kept and compared in the end.
ImplementsBestDesign == Abstract!Spec

\* The exploration of every function ends: done, given up, or in a crash.
ExplorationEnds == <>(stage \in {"done", "rejected", "crashed"})
=============================================================================
