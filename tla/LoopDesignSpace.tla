-------------------------- MODULE LoopDesignSpace --------------------------
(***************************************************************************)
(* The design space of one loop band.  A tile config is a number, whose     *)
(* digits, in a mixed radix, select a tile size for each loop; a design     *)
(* point is a tile config and an initiation interval with the latency and   *)
(* the DSPs the estimator found for it.                                     *)
(***************************************************************************)
EXTENDS LoopNests

CONSTANTS MaxDspNum, MaxInitParallel, MaxExplParallel, MaxLoopParallel, MaxIterNum,
          MaxDistanceSquare,  \* the square of max-distance
          Outcomes            \* what the estimator may answer (external)

ASSUME SpaceAssumption ==
    /\ MaxDspNum \in Nat
    /\ \A q \in Outcomes : /\ q.minII \in Nat \ {0} /\ q.iterLatency \in Nat
                           /\ q.dsp \in Nat

VARIABLE space    \* the design space of the band that is explored

-----------------------------------------------------------------------------
(* Tile configs *)

\* The divisors of the trip count up to the parallelism of one loop.
ValidTileSizes(trip) ==
    Ascending({size \in 1..trip : size <= MaxLoopParallel /\ trip % size = 0})

\* Mutant of ValidTileConfigNum: the last config stays.
ValidTileConfigNum_All(trips) == ProductOf([i \in DOMAIN trips |-> Len(ValidTileSizes(trips[i]))])

\* A loop of no iterations has no valid size: the number of configs, an unsigned 0,
\* wraps, and the digits of the first config are taken modulo 0.
LacksSizes(trips) == \E i \in DOMAIN trips : ValidTileSizes(trips[i]) = <<>>

\* The last config is removed; not for bands that lack sizes.
ValidTileConfigNum(trips) ==
    ProductOf([i \in DOMAIN trips |-> Len(ValidTileSizes(trips[i]))]) - 1

TileIndex(trips, config) ==
    LET radix(i)  == Len(ValidTileSizes(trips[i]))
        factor[i \in DOMAIN trips] == IF i = 1 THEN 1 ELSE factor[i - 1] * radix(i - 1)
    IN  [i \in DOMAIN trips |-> (config \div factor[i]) % radix(i)]

TileList(trips, config) ==
    [i \in DOMAIN trips |-> ValidTileSizes(trips[i])[1 + TileIndex(trips, config)[i]]]

Parallelism(trips, config) == ProductOf(TileList(trips, config))

\* The square of the Euclidean distance, in indices of tile sizes.
DistanceSquare(trips, a, b) ==
    LET d(i) == TileIndex(trips, a)[i] - TileIndex(trips, b)[i]
    IN  FoldFunction(LAMBDA x, y : x + y, 0, [i \in DOMAIN trips |-> d(i) * d(i)])

\* With directives only, the loops inside of an unrolled loop are unrolled fully.
ObeysDirectiveOnly(trips, tile) ==
    \A i, j \in DOMAIN trips : i < j /\ tile[i] # 1 => tile[j] = trips[j]

\* The constructor of LoopDesignSpace.
NewSpace(trips, directiveOnly) ==
    [trips |-> trips, config |-> 0, iter |-> 0,
     unestimated |-> {c \in 0..(ValidTileConfigNum(trips) - 1) :
                         /\ Parallelism(trips, c) <= MaxExplParallel
                         /\ directiveOnly => ObeysDirectiveOnly(trips, TileList(trips, c))},
     allPoints |-> {}, paretoPoints |-> {}, inactive |-> {}]

-----------------------------------------------------------------------------
(* updateParetoPoints *)

SortedBefore(p, q) ==
    \/ p.latency < q.latency
    \/ p.latency = q.latency /\ p.dspNum < q.dspNum

\* Mutant of UpdateParetoPoints: as many DSPs as the frontier are few enough.
UpdateParetoPoints_NotStrict(P) ==
    {p \in P : \A q \in P : SortedBefore(q, p) => q.dspNum >= p.dspNum}

\* The scan over the sorted points keeps those that need fewer DSPs than all
\* that sort before them; points that sort alike are kept alike.
UpdateParetoPoints(P) ==
    {p \in P : \A q \in P : SortedBefore(q, p) => q.dspNum > p.dspNum}

-----------------------------------------------------------------------------
(* evaluateTileConfig *)

IterNum(trips, config) ==
    ProductOf([i \in DOMAIN trips |-> trips[i] \div TileList(trips, config)[i]])

\* One point for each II up to the latency of an iteration: the DSPs are shared
\* by the operations that start in different cycles of the interval.
PointsOf(trips, config, q) ==
    {[latency |-> q.iterLatency + ii * (IterNum(trips, config) - 1) + 2,
      dspNum |-> (q.dsp * q.minII) \div ii + 1,
      tileConfig |-> config, targetII |-> ii] : ii \in q.minII..q.iterLatency}

\* A config that cannot be applied, or unrolls everything, yields no points.
Estimates(trips, config) ==
    {{}} \cup {PointsOf(trips, config, q) :
                  q \in {q \in Outcomes : IterNum(trips, config) # 1}}

\* Mutants of Evaluated: only pareto points are recorded; a point that uses all
\* the DSPs does not fit.
Evaluated_Unrecorded(s, config, points) ==
    [s EXCEPT !.unestimated = @ \ {config},
              !.paretoPoints = @ \cup {p \in points : p.dspNum <= MaxDspNum}]

Evaluated_FewerThanMax(s, config, points) ==
    [s EXCEPT !.unestimated = @ \ {config},
              !.allPoints = @ \cup points,
              !.paretoPoints = @ \cup {p \in points : p.dspNum < MaxDspNum}]

Evaluated(s, config, points) ==
    [s EXCEPT !.unestimated = @ \ {config},
              !.allPoints = @ \cup points,
              !.paretoPoints = @ \cup {p \in points : p.dspNum <= MaxDspNum}]

-----------------------------------------------------------------------------
(* initializeLoopDesignSpace *)

InitializeStep ==
    /\ space.config < ValidTileConfigNum(space.trips)
    /\ LET c == space.config
       IN  IF Parallelism(space.trips, c) <= MaxInitParallel /\ c \in space.unestimated
           THEN \E points \in Estimates(space.trips, c) :
                    space' = [Evaluated(space, c, points) EXCEPT !.config = c + 1]
           ELSE space' = [space EXCEPT !.config = c + 1]

Initialized == space.config >= ValidTileConfigNum(space.trips)

-----------------------------------------------------------------------------
(* exploreLoopDesignSpace *)

Neighbors(s, p) ==
    {c \in s.unestimated : DistanceSquare(s.trips, p.tileConfig, c) <= MaxDistanceSquare}

ClosestNeighbors(s, p) ==
    {c \in Neighbors(s, p) : \A d \in Neighbors(s, p) :
        DistanceSquare(s.trips, p.tileConfig, c) <= DistanceSquare(s.trips, p.tileConfig, d)}

ActivePoints(s) == s.paretoPoints \ s.inactive

\* Mutant of LonelyPoints: a point is done with one neighbor left.
LonelyPoints_OneLeft(s) == {p \in ActivePoints(s) : Cardinality(Neighbors(s, p)) <= 1}

LonelyPoints(s) == {p \in ActivePoints(s) : Neighbors(s, p) = {}}

\* The points are visited in a random order: those without a neighbor that come
\* before the first one with a neighbor become inactive.
ExploreStep ==
    /\ space.iter < MaxIterNum
    /\ \E p \in ActivePoints(space) \ LonelyPoints(space) :
       \E lonely \in SUBSET LonelyPoints(space), c \in ClosestNeighbors(space, p) :
       \E points \in Estimates(space.trips, c) :
          LET s == Evaluated(space, c, points)
              P == UpdateParetoPoints(s.paretoPoints)
          IN  space' = [s EXCEPT !.iter = @ + 1, !.paretoPoints = P,
                                 !.inactive = (@ \cup lonely) \cap P]

ExploreEnds == space.iter = MaxIterNum \/ ActivePoints(space) = LonelyPoints(space)
=============================================================================
