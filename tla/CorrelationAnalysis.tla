------------------------ MODULE CorrelationAnalysis ------------------------
(***************************************************************************)
(* Which nodes share a buffer so that their loops can be unrolled alike     *)
(* (lib/Dialect/HLS/Analysis.cpp, include/scalehls/Dialect/HLS/Analysis.h). *)
(* A buffer is a record:                                                    *)
(*   producers, consumers   the nodes that write and read it                *)
(*   external               it is in DRAM                                   *)
(*   depths    node -> for each dimension, the loop of the band of the node *)
(*             that indexes it, 1 the outermost, NoDepth for none; an empty *)
(*             sequence where the accesses of the node are not alike        *)
(* buffers is the sequence of them, in the order the analysis meets them.   *)
(***************************************************************************)
EXTENDS FactorDistribution

NoDepth == 0

\* Buffer, source node and target node of each correlation.
Correlations(buffers) ==
    {c \in UNION {{b} \X buffers[b].producers \X buffers[b].consumers : b \in DOMAIN buffers} :
        LET buffer == buffers[c[1]]
        IN  /\ c[2] # c[3]
            /\ ~buffer.external
            /\ buffer.depths[c[2]] # <<>> /\ buffer.depths[c[3]] # <<>>}

CorrelatedNodes(buffers) == UNION {{c[2], c[3]} : c \in Correlations(buffers)}

CorrelationNum(buffers, n) ==
    Cardinality({c \in Correlations(buffers) : n \in {c[2], c[3]}})

\* The buffers through which two nodes are correlated.
SharedBuffers(buffers, n, m) ==
    {b \in DOMAIN buffers : {<<b, n, m>>, <<b, m, n>>} \cap Correlations(buffers) # {}}

\* Mutant of PermuteMap: the map is applied the wrong way around.
PermuteMap_Inverse(lhs, rhs, size) ==
    [i \in 1..size |-> IF i \in DOMAIN lhs /\ lhs[i] # NoDepth THEN lhs[i] ELSE NoDepth]

\* getPermuteMap: for each loop of the band of the second node, the loop of the
\* first one that indexes the same dimension.
PermuteMap(lhs, rhs, size) ==
    LET first(i) == CHOOSE k \in DOMAIN rhs : rhs[k] = i /\ \A j \in 1..(k - 1) : rhs[j] # i
    IN  [i \in 1..size |-> IF \E k \in DOMAIN rhs : rhs[k] = i THEN lhs[first(i)] ELSE NoDepth]

PermuteFactors(factors, map) ==
    [i \in DOMAIN map |-> IF map[i] = NoDepth THEN 1 ELSE factors[map[i]]]
=============================================================================
