----------------------------- MODULE LoopNests -----------------------------
(***************************************************************************)
(* The affine loops of a function and the loop bands of                     *)
(* lib/Dialect/HLS/Utils.cpp.  A forest is a record:                        *)
(*   trip     loop -> trip count (loops are naturals in program order)      *)
(*   parent   loop -> the loop around it, NoLoop at the top                 *)
(***************************************************************************)
EXTENDS Integers, Sequences, SequencesExt

NoLoop == 0

Loops(f)         == DOMAIN f.trip
ChildLoops(f, l) == {m \in Loops(f) : f.parent[m] = l}
OnlyChild(f, l)  == CHOOSE m \in Loops(f) : ChildLoops(f, l) = {m}
HasOneChild(f, l) == Cardinality(ChildLoops(f, l)) = 1

ProductOf(fun) == FoldFunction(LAMBDA x, y : x * y, 1, fun)

\* A set of numbers from the least to the greatest.
Ascending(S) ==
    [i \in 1..Cardinality(S) |-> CHOOSE x \in S : Cardinality({y \in S : y < x}) = i - 1]

\* Loops stand behind the loop around them.
IsForest(f) ==
    /\ f = [trip |-> f.trip, parent |-> f.parent]
    /\ Loops(f) \subseteq Nat \ {NoLoop} /\ IsFiniteSet(Loops(f))
    /\ f.trip \in [Loops(f) -> Nat]
    /\ f.parent \in [Loops(f) -> Loops(f) \cup {NoLoop}]
    /\ \A l \in Loops(f) : f.parent[l] < l

\* getLoopBandFromOutermost: the loop at which the band from l down ends.
InnermostLoop(f, l) ==
    LET down[m \in Loops(f)] == IF HasOneChild(f, m) THEN down[OnlyChild(f, m)] ELSE m
    IN  down[l]

\* getLoopBandFromInnermost: the loops of the band that ends at l, from outside.
BandTo(f, l) ==
    LET up[m \in Loops(f)] ==
            IF f.parent[m] # NoLoop /\ HasOneChild(f, f.parent[m])
            THEN Append(up[f.parent[m]], m) ELSE <<m>>
    IN  up[l]

\* getLoopBands: the bands of the loops without child loops, in program order.
LoopBands(f) ==
    LET leaves == Ascending({l \in Loops(f) : ChildLoops(f, l) = {}})
    IN  [i \in DOMAIN leaves |-> BandTo(f, leaves[i])]

\* getInnerParallelism of the body of l: how many copies of its innermost
\* bodies there are when all loops in it are unrolled.
InnerParallelism(f, l) ==
    LET copies[m \in Loops(f)] ==
            Max({1, FoldSet(LAMBDA c, sum : sum + f.trip[c] * copies[c], 0,
                            ChildLoops(f, m))})
    IN  copies[l]

\* How often the outermost loop of a band runs.
TimesRun(f, l) ==
    LET times[m \in Loops(f)] ==
            IF f.parent[m] = NoLoop THEN 1
            ELSE f.trip[f.parent[m]] * times[f.parent[m]]
    IN  times[l]

Inside(f, l) ==
    LET around[m \in Loops(f)] ==
            IF f.parent[m] = NoLoop THEN {} ELSE {f.parent[m]} \cup around[f.parent[m]]
    IN  {m \in Loops(f) : l \in around[m]}

\* applyFullyLoopUnrolling of the body of l: the loops in it are gone.
UnrollBody(f, l) ==
    [f EXCEPT !.trip   = Restrict(@, Loops(f) \ Inside(f, l)),
              !.parent = Restrict(@, Loops(f) \ Inside(f, l))]
=============================================================================
