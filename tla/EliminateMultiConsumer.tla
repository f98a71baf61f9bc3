----------------------- MODULE EliminateMultiConsumer -----------------------
(***************************************************************************)
(* The pass EliminateMultiConsumer: an output with several dependent        *)
(* consumers goes to a fork node that copies it to one buffer per consumer. *)
(***************************************************************************)
EXTENDS DataflowIR

\* Mutant of ForkedOutputs: two consumers pass.
ForkedOutputs_MoreThanTwo(s, n) ==
    {b \in s.outs[n] : ~s.ext[b] /\ Cardinality(DependentConsumers(s, b, n)) > 2}

\* DRAM buffers are left to the tokens of CreateTokenStream.
ForkedOutputs(s, n) ==
    {b \in s.outs[n] : ~s.ext[b] /\ Cardinality(DependentConsumers(s, b, n)) > 1}

\* The buffer for consumer c replaces output b in all operands of c.
BufferForConsumer(s, b, c) ==
    LET new == FreshBuffer(s)
    IN  ReplaceUses(AddBuffer(s, new, b), b, new, {c})

ForkOutput(s, n, b) ==
    LET consumers == InBlockOrder(s, DependentConsumers(s, b, n))
        split == ForEachOf(consumers, LAMBDA t, c : BufferForConsumer(t, b, c), s)
        new   == Buffers(split) \ Buffers(s)
        body  == SetToSeq({CopyOp(b, x) : x \in new})
    IN  AddNodeAfter(split, n, FreshNode(s), [x \in {b} |-> 0], new, NoLevel, body)

\* Pattern InsertForkNode at node n.
InsertForkNode(n) ==
    /\ ForkedOutputs(ir, n) # {}
    /\ ir' = ForEachIn(ForkedOutputs(ir, n), LAMBDA t, b : ForkOutput(t, n, b), ir)

EliminateMultiConsumerApplies == \E n \in Nodes(ir) : ForkedOutputs(ir, n) # {}
=============================================================================
