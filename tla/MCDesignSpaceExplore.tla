----------------------- MODULE MCDesignSpaceExplore -----------------------
(***************************************************************************)
(* Small functions for the design space exploration.                        *)
(***************************************************************************)
EXTENDS DesignSpaceExplore

\* A loop around a band of two loops and a band of one.
Nest == [trip   |-> 1 :> 2 @@ 2 :> 2 @@ 3 :> 2 @@ 4 :> 6,
         parent |-> 1 :> 0 @@ 2 :> 1 @@ 3 :> 2 @@ 4 :> 1]

\* A nest inside of a nest.
NestInNest == [trip   |-> 1 :> 2 @@ 2 :> 2 @@ 3 :> 2 @@ 4 :> 2 @@ 5 :> 4,
               parent |-> 1 :> 0 @@ 2 :> 1 @@ 3 :> 2 @@ 4 :> 2 @@ 5 :> 1]

\* A nest below a loop, and a loop of one iteration.
DeepNest == [trip   |-> 1 :> 2 @@ 2 :> 3 @@ 3 :> 4 @@ 4 :> 2 @@ 5 :> 1,
             parent |-> 1 :> 0 @@ 2 :> 1 @@ 3 :> 2 @@ 4 :> 2 @@ 5 :> 0]

\* A loop of no iterations in the second band.
EmptyLoop == [trip   |-> 1 :> 2 @@ 2 :> 3 @@ 3 :> 0,
              parent |-> 1 :> 0 @@ 2 :> 0 @@ 3 :> 2]

NoLoops == [trip |-> <<>>, parent |-> <<>>]

MCForests == {Nest, NestInNest, DeepNest, EmptyLoop, NoLoops}

\* With five DSPs the second fits just so, and the third at an II above 1 only.
MCOutcomes == {[minII |-> 1, iterLatency |-> 2, dsp |-> 2],
               [minII |-> 2, iterLatency |-> 2, dsp |-> 4],
               [minII |-> 1, iterLatency |-> 3, dsp |-> 5]}
=============================================================================
