----------------------- MODULE EliminateMultiProducer -----------------------
(***************************************************************************)
(* The pass EliminateMultiProducer: a BufferOp that several nodes write is  *)
(* split into one buffer per writer, the nodes that write an argument are   *)
(* fused when they stand next to each other.                                *)
(***************************************************************************)
EXTENDS DataflowIR

MultiProducer(s, b) == Cardinality(Producers(s, b)) > 1

-----------------------------------------------------------------------------
(* Pattern BufferMultiProducer *)

\* The producers of b in the order they are rewritten: the last one first,
\* the leading one not at all.
LaterProducers(s, b) == Reverse(Tail(InBlockOrder(s, Producers(s, b))))

\* Mutant of GiveOwnBuffer: what the node reads of its old output is not copied.
GiveOwnBuffer_NoCopy(s, b, n) ==
    LET own == FreshBuffer(s)
        U   == {n} \cup {u \in Nodes(s) : Before(s, n, u)}
    IN  [ReplaceUses(AddBuffer(s, own, b), b, own, U) EXCEPT !.ins[n] = Put(@, b, 0)]

\* Node n writes a buffer of its own instead of b; it reads b instead, copying
\* it first when its body reads what it writes.  The nodes after n follow.
GiveOwnBuffer(s, b, n) ==
    LET own == FreshBuffer(s)
        new == AddBuffer(s, own, b)
        moved == ReplaceUses(new, b, own,
                             {n} \cup {u \in Nodes(s) : Before(s, n, u)})
        body == moved.body[n]
    IN  [moved EXCEPT
            !.ins[n]  = Put(@, b, 0),
            !.body[n] = IF IsReadIn(body, own) THEN <<CopyOp(b, own)>> \o @ ELSE @]

SplitBuffer(s, b) ==
    ForEachOf(LaterProducers(s, b), LAMBDA t, n : GiveOwnBuffer(t, b, n), s)

SplittableBuffers(s) == {b \in Buffers(s) : ~s.isArg[b] /\ MultiProducer(s, b)}

BufferMultiProducer ==
    /\ SplittableBuffers(ir) # {}
    /\ ir' = ForEachIn(SplittableBuffers(ir), SplitBuffer, ir)

-----------------------------------------------------------------------------
(* Pattern MergeMultiProducer *)

Contiguous(s, seq) == \E i \in 0..Len(s.order) - Len(seq) :
                          SubSeq(s.order, i + 1, i + Len(seq)) = seq

MergeableArg(s, b) ==
    s.isArg[b] /\ MultiProducer(s, b) /\ Contiguous(s, InBlockOrder(s, Producers(s, b)))

\* A fusion may put the producers of a later argument next to each other or
\* merge them: mergeability is asked again at each argument.
MergeArg(s, b) ==
    IF MergeableArg(s, b)
    THEN FuseNodeOps(s, InBlockOrder(s, Producers(s, b)), NoLevel)
    ELSE s

MergeMultiProducer ==
    /\ \E b \in Buffers(ir) : MergeableArg(ir, b)
    /\ ir' = ForEachIn(Buffers(ir), MergeArg, ir)

EliminateMultiProducerApplies ==
    \/ SplittableBuffers(ir) # {}
    \/ \E b \in Buffers(ir) : MergeableArg(ir, b)
=============================================================================
