------------------------- MODULE FactorDistribution -------------------------
(***************************************************************************)
(* How an overall unroll factor is spread over the loops of a band          *)
(* (lib/Dialect/HLS/Utils.cpp).  A band is a sequence of loops, outermost   *)
(* first; a loop is a record:                                               *)
(*   trip    its trip count, estimated where it is not constant, 0 where    *)
(*           it can not even be estimated                                   *)
(*   known   the trip count is constant                                     *)
(*   point   the loop has the point attribute                               *)
(* The two distributions are loops of the code and run step by step.        *)
(***************************************************************************)
EXTENDS Integers, Sequences, SequencesExt

AllKnown(band) == \A i \in DOMAIN band : band[i].known

\* getOverallFactor.
Overall(factors) == FoldFunction(LAMBDA x, y : x * y, 1, factors)

-----------------------------------------------------------------------------
(* getEvenlyDistributedFactors *)

\* The counter of increaseFactor passed every divisor: it wraps to zero, and the
\* remainder by zero kills the compiler.
Wrapped == 0

\* Mutant of Divisors: a fully unrolled loop is increased, too.
Divisors_Past(trip, factor) == {g \in (factor + 1)..trip : trip % g = 0}

\* The divisors increaseFactor can stop at: a factor of one or below the trip
\* count moves on, any other stays when it divides.
Divisors(trip, factor) ==
    LET first == IF trip > factor \/ factor = 1 THEN factor + 1 ELSE factor
    IN  {g \in first..trip : trip % g = 0}

IncreaseFactor(trip, factor) ==
    LET D == Divisors(trip, factor)
    IN  IF D = {} THEN Wrapped ELSE CHOOSE g \in D : \A h \in D : g <= h

Increased(band, factors) ==
    [i \in DOMAIN band |-> IncreaseFactor(band[i].trip, factors[i])]

\* The loops increaseFactor moves, and the sort of them: the smaller rate, then
\* the smaller factor, then the inner loop.
Candidates(band, factors) ==
    {i \in DOMAIN band : Increased(band, factors)[i] # factors[i]}

PreferredTo(i, j, factors, increased) ==
    LET ri == increased[i] * factors[j]
        rj == increased[j] * factors[i]
    IN  \/ ri < rj
        \/ ri = rj /\ factors[i] < factors[j]
        \/ ri = rj /\ factors[i] = factors[j] /\ i > j

IsPreferred(i, band, factors) ==
    /\ i \in Candidates(band, factors)
    /\ \A j \in Candidates(band, factors) \ {i} :
          PreferredTo(i, j, factors, Increased(band, factors))

-----------------------------------------------------------------------------
(* getDistributedFactors, one loop, with the factor that remains for it *)

\* Mutant of DistributedSize: the size need not divide the trip count.
DistributedSize_Any(loop, remain) ==
    IF ~loop.known \/ remain <= 1 THEN 1
    ELSE IF remain >= loop.trip THEN loop.trip ELSE remain

DistributedSize(loop, remain) ==
    IF ~loop.known THEN 1
    ELSE IF remain >= loop.trip THEN loop.trip
    ELSE IF remain > 1
         THEN CHOOSE s \in remain..loop.trip :
                /\ loop.trip % s = 0
                /\ \A t \in remain..(s - 1) : loop.trip % t # 0
         ELSE 1

\* Mutant of RemainingFactor: rounded down.
RemainingFactor_Floor(loop, remain) ==
    IF ~loop.known THEN remain
    ELSE IF remain >= loop.trip THEN remain \div loop.trip
    ELSE 1

RemainingFactor(loop, remain) ==
    IF ~loop.known THEN remain
    ELSE IF remain >= loop.trip THEN (remain + loop.trip - 1) \div loop.trip
    ELSE 1
=============================================================================
