--------------------- MODULE MCParallelizeDataflowNode ---------------------
(***************************************************************************)
(* Small programs for the parallelization of dataflow nodes: node NodeA    *)
(* feeds NodeB and NodeB feeds NodeC through buffers.                        *)
(***************************************************************************)
EXTENDS ParallelizeDataflowNode

CONSTANTS NodeA, NodeB, NodeC, Outer, Inner

Loop(n) == [trip |-> n, known |-> TRUE, point |-> FALSE]
Point(n) == [Loop(n) EXCEPT !.point = TRUE]
Estimated(n) == [Loop(n) EXCEPT !.known = FALSE]

Flow(from, to, lhs, rhs) ==
    [producers |-> {from}, consumers |-> {to}, external |-> FALSE,
     depths |-> from :> lhs @@ to :> rhs]

Options == [maxUnroll : {1, 3, 4, 6, 8}, complexityAware : BOOLEAN, correlationAware : BOOLEAN,
            pointLoopOnly : BOOLEAN]

Flat(bands, imperfect, external, buffers) ==
    [bands |-> bands, schedule |-> [n \in DOMAIN bands |-> Outer], parent |-> Outer :> Top,
     increase |-> Outer :> 1, decrease |-> Outer :> 1,
     nodeOrder |-> SelectSeq(<<NodeA, NodeB, NodeC>>, LAMBDA n : n \in DOMAIN bands),
     scheduleOrder |-> <<Outer>>, imperfect |-> imperfect, external |-> external,
     buffers |-> buffers]

\* A matrix product between two elementwise nodes; the second one is transposed.
Chain(x, y, z) ==
    Flat(NodeA :> <<<<Loop(x), Loop(y)>>>> @@ NodeB :> <<<<Loop(y), Loop(z), Loop(x)>>>>
            @@ NodeC :> <<<<Loop(z), Loop(y)>>>>,
         {}, {}, <<Flow(NodeA, NodeB, <<1, 2>>, <<3, 1>>), Flow(NodeB, NodeC, <<1, 2>>, <<2, 1>>)>>)

\* Two nodes that access each other's buffer, and one that shares none on chip.
Mutual(x, y, external) ==
    Flat(NodeA :> <<<<Loop(x), Point(y)>>>> @@ NodeB :> <<<<Loop(x), Point(y)>>>>
            @@ NodeC :> <<<<Point(x), Point(y)>>, <<Point(y), Loop(x)>>, <<Loop(y), Point(x)>>>>,
         {NodeB}, external,
         <<Flow(NodeB, NodeA, <<1, 2>>, <<1, 2>>), Flow(NodeA, NodeB, <<2, 1>>, <<1, NoDepth>>),
           [Flow(NodeB, NodeC, <<1, 2>>, <<1, 2>>) EXCEPT !.external = TRUE]>>)

\* Trip counts that vary, that can not be estimated, or that do not agree.
Odd(x, y, z) ==
    Flat(NodeA :> <<<<Loop(x), y>>>> @@ NodeB :> <<<<Loop(x), z, Loop(3)>>>>, {}, {},
         <<Flow(NodeA, NodeB, <<1, 2>>, <<1, 2>>)>>)

\* A schedule in the loops of NodeA, with two nodes inside, beside NodeC.
Nested(x, up, down, inner) ==
    [bands |-> NodeA :> <<<<Loop(2)>>>> @@ NodeB :> inner @@ NodeC :> <<<<x, Loop(4)>>>>,
     schedule |-> NodeA :> Outer @@ NodeB :> Inner @@ NodeC :> Inner, parent |-> Outer :> Top @@ Inner :> NodeA,
     increase |-> Outer :> 1 @@ Inner :> up, decrease |-> Outer :> 1 @@ Inner :> down,
     nodeOrder |-> <<NodeB, NodeC, NodeA>>, scheduleOrder |-> <<Outer, Inner>>, imperfect |-> {}, external |-> {},
     buffers |-> <<>>]

Shapes == {Chain(x, y, z) : x, y, z \in {3, 4, 6}}
     \cup {Mutual(x, y, external) : x, y \in {2, 6}, external \in {{}, {NodeC}}}
     \cup {Odd(x, y, z) : x \in {1, 4}, y, z \in {Loop(6), Loop(4), Loop(1), Estimated(6), Estimated(0)}}
     \cup {Nested(x, up, down, inner) : x \in {Estimated(0), Loop(3), Loop(6)}, up, down \in {1, 3},
             inner \in {<<>>, <<<<Loop(6)>>, <<Loop(3)>>>>}}
     \cup {Flat(NodeA :> <<>>, {}, {}, <<>>)}

MCPrograms == {options @@ shape : options \in Options, shape \in Shapes}
=============================================================================
