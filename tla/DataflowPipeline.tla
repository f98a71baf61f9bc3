-------------------------- MODULE DataflowPipeline --------------------------
(***************************************************************************)
(* The dataflow part of buildScaleFlowPyTorchPipelineBody: the passes from  *)
(* EliminateMultiProducer to CreateTokenStream, run one after the other on  *)
(* a schedule.  Within a pass the greedy driver of MLIR applies patterns in *)
(* an order of its own until none applies.                                  *)
(***************************************************************************)
EXTENDS EliminateMultiProducer, EliminateMultiConsumer, ScheduleDataflowNode,
        BalanceDataflowNode, LegalizeDataflow, DataflowCanonicalize,
        SimplifyAffineIf, CreateTokenStream

CONSTANT BalanceOptions     \* the values of the option balance-dataflow

ASSUME PipelineAssumption == BalanceOptions \subseteq BOOLEAN

VARIABLES pass,             \* the pass that runs
          balanceDataflow,  \* the option balance-dataflow of this run
          source            \* history: the first schedule

vars == <<ir, pass, balanceDataflow, source>>

\* The canonicalizer runs three times.
PassOrder == <<"multi-producer", "multi-consumer", "schedule", "balance",
               "canonicalize-1", "legalize", "canonicalize-2", "simplify-if",
               "canonicalize-3", "tokens", "done">>

PassNumber(p) == CHOOSE i \in DOMAIN PassOrder : PassOrder[i] = p
Passed(p)     == PassNumber(p) < PassNumber(pass)

Init ==
    /\ ir \in Schedules
    /\ pass = "multi-producer"
    /\ balanceDataflow \in BalanceOptions
    /\ source = ir

NextPass ==
    pass' = IF pass = "schedule" /\ ~balanceDataflow
            THEN "canonicalize-1"
            ELSE PassOrder[PassNumber(pass) + 1]

\* A step of the driver within a pass, and the step to the next pass.
Apply == UNCHANGED <<pass, balanceDataflow, source>>
Proceed == NextPass /\ UNCHANGED <<balanceDataflow, source>>

RunEliminateMultiProducer ==
    /\ pass = "multi-producer"
    /\ \/ (BufferMultiProducer \/ MergeMultiProducer) /\ Apply
       \/ ~EliminateMultiProducerApplies /\ UNCHANGED ir /\ Proceed

RunEliminateMultiConsumer ==
    /\ pass = "multi-consumer"
    /\ \/ (\E n \in Nodes(ir) : InsertForkNode(n)) /\ Apply
       \/ ~EliminateMultiConsumerApplies /\ UNCHANGED ir /\ Proceed

RunScheduleDataflowNode ==
    /\ pass = "schedule"
    /\ \/ (\E n \in Nodes(ir) : ALAPScheduleNode(n)) /\ Apply
       \/ ~ScheduleDataflowNodeApplies /\ UNCHANGED ir /\ Proceed

RunBalanceDataflowNode ==
    /\ pass = "balance"
    /\ \/ (\E n \in Nodes(ir) : InsertCopyNode(n)) /\ Apply
       \/ ~BalanceDataflowNodeApplies /\ UNCHANGED ir /\ Proceed

RunCanonicalizer ==
    /\ pass \in {"canonicalize-1", "canonicalize-2", "canonicalize-3"}
    /\ \/ /\ \/ \E n \in Nodes(ir) : SimplifyNodeIOs(n)
             \/ \E b \in Buffers(ir) : SinkInternalBuffer(b)
             \/ SimplifyScheduleOperands
          /\ Apply
       \/ ~CanonicalizeApplies /\ UNCHANGED ir /\ Proceed

RunLegalizeDataflow ==
    /\ pass = "legalize"
    /\ \/ (FuseMultiConsumer \/ FuseBypassPath) /\ Apply
       \/ ~LegalizeDataflowApplies /\ MarkLegal /\ Proceed

RunSimplifyAffineIf ==
    /\ pass = "simplify-if"
    /\ \/ (\E n \in Nodes(ir) : RemoveRedundantIf(n)) /\ Apply
       \/ ~SimplifyAffineIfApplies /\ UNCHANGED ir /\ Proceed

RunCreateTokenStream == pass = "tokens" /\ CreateTokenStream /\ Proceed

Next ==
    \/ RunEliminateMultiProducer
    \/ RunEliminateMultiConsumer
    \/ RunScheduleDataflowNode
    \/ RunBalanceDataflowNode
    \/ RunCanonicalizer
    \/ RunLegalizeDataflow
    \/ RunSimplifyAffineIf
    \/ RunCreateTokenStream

\* The compiler keeps running.
Spec == Init /\ [][Next]_vars /\ WF_vars(Next)

-----------------------------------------------------------------------------
TypeOK == ScheduleTypeOK(ir) /\ pass \in Range(PassOrder)

\* An argument that several nodes write, a DRAM argument that several nodes of a
\* sequential loop write.
Rewritten(b)       == MultiProducer(source, b) /\ source.isArg[b]
RewrittenInLoop(b) == Rewritten(b) /\ source.ext[b] /\ ~source.depFree

\* Until nodes are fused by level, the schedule executed in block order computes
\* what it computed before the first pass: every read observes the same write
\* (through the copies the passes insert), every argument ends with the same
\* data.  What could go wrong is the operand rewiring of BufferMultiProducer,
\* InsertForkNode and InsertCopyNode: a use too many or too few is replaced.
\* An argument that several nodes write is left out, where it is forked or balanced:
\* the copies hold what one of them wrote.
MeaningPreserved ==
    \/ Passed("canonicalize-1")
    \/ /\ Passed("multi-producer")
       /\ \E b \in Buffers(source) : Rewritten(b) /\ ~(source.depFree /\ source.ext[b])
    \/ Meaning(ir) = Meaning(source)

\* Each argument is written by one node at most, ahead of all that read it.
WrittenBeforeRead(s) ==
    \A b \in Buffers(s) : s.isArg[b] =>
        \A p, q \in Producers(s, b) : p = q /\ \A c \in Consumers(s, b) : Before(s, p, c)

\* A fused node stands after its last part.  In a dependence-free schedule, where the
\* place of a node in the block tells which readers of an argument depend on it, the
\* legalization keeps the dependences only if nobody reads before the write.
OrderKept == source.depFree /\ Passed("canonicalize-1") => WrittenBeforeRead(source)

\* With balancing on, the order of the levels outlives every fusion: unsigned level
\* differences are taken up to CreateTokenStream.  Only the copies of a DRAM argument
\* that several nodes of a sequential loop write may stand above one of its writers.
LevelsStayOrdered ==
    balanceDataflow /\ OrderKept =>
        \A n \in Nodes(ir) : Leveled(ir, n) =>
            \A b \in ir.outs[n] : \A c \in DependentConsumers(ir, b, n) :
                /\ Leveled(ir, c)
                /\ ~RewrittenInLoop(b) => ir.level[c] < ir.level[n]

\* Each write a read observed in the first schedule reaches it on the way down:
\* in the end the reading node has a lower level than the writing node, or one
\* node does both in the same order.
FlowsGoDown ==
    balanceDataflow /\ Passed("legalize") /\ ir.isLegal =>
        \A f \in Meaning(source).seen :
            LET reader == f[1]
                writer == f[3][1]
            IN  writer > 0 =>
                    IF NodeOf(ir, reader) = NodeOf(ir, writer)
                    THEN StepOf(ir, writer) < StepOf(ir, reader)
                    ELSE ir.level[NodeOf(ir, reader)] < ir.level[NodeOf(ir, writer)]

\* Each elimination pass leaves none of its violations, and no later pass that
\* adds nodes or buffers brings one back: a BufferOp has one producer at most,
\* an internal output one dependent consumer at most.
ViolationsStayEliminated ==
    /\ Passed("multi-producer") =>
          \A b \in Buffers(ir) : ~ir.isArg[b] => Cardinality(Producers(ir, b)) <= 1
    /\ Passed("multi-consumer") /\ OrderKept =>
          \A n \in Nodes(ir) : \A b \in ir.outs[n] :
              ~ir.ext[b] => Cardinality(DependentConsumers(ir, b, n)) <= 1

\* After BalanceDataflowNode every edge that is balanced spans one level, or is
\* tapped as many stages back as it spans levels, within the depth of its buffer
\* (the condition NodeOp::verify only warns about).
EdgesBalanced ==
    balanceDataflow /\ Passed("balance") =>
        \A n \in Nodes(ir) : Leveled(ir, n) =>
            \A b \in ir.outs[n] : ~NotBalanced(ir, b) /\ ~RewrittenInLoop(b) =>
                \A c \in DependentConsumers(ir, b, n) :
                    IF ~ir.isArg[b] /\ ir.ext[b]
                    THEN /\ ir.ins[c][b] = Diff(ir, n, c) - 1
                         /\ ir.ins[c][b] < ir.depth[b]
                    ELSE Diff(ir, n, c) = 1

\* NodeOp::verify demands of a legal schedule that no violation is left.
NoViolationLeft == \A n \in Nodes(ir) : Leveled(ir, n) /\ ~HasViolation(ir, n)

\* LegalizeDataflow asks for levels only before it marks a schedule legal: that they are
\* enough, and stay while the canonicalizer cleans up, is up to the passes before.
LegalMeansVerified ==
    ir.isLegal => /\ \A n \in Nodes(ir) : Leveled(ir, n)
                  /\ (source.depFree => WrittenBeforeRead(source)) => NoViolationLeft

\* The write that task t observed through slot x travels through the DRAM buffer
\* that slot names now, from the node of its writer.
DramFlow(f, b, p, c) ==
    /\ f[3][1] > 0
    /\ c = NodeOf(ir, f[1]) /\ p = NodeOf(ir, f[3][1]) /\ p # c
    /\ b \in ir.outs[p] \cap DOMAIN ir.ins[c] /\ ir.ext[b]

HasToken(b, p, c) ==
    \E k \in ir.tokens : k.buffer = b /\ k.producer = p /\ k.consumer = c /\ k.tap >= 0

\* With balancing on, in a legal schedule every flow through a DRAM BufferOp between
\* two nodes has a token, which waits at least one level: the pass looks at use lists
\* and levels only, after fusion has moved both.
DramBuffersHaveTokens ==
    balanceDataflow /\ pass = "done" /\ ir.isLegal =>
        \A f \in Meaning(source).seen, b \in Buffers(ir), p, c \in Nodes(ir) :
            DramFlow(f, b, p, c) /\ ~ir.isArg[b] => HasToken(b, p, c)

\* With balancing on, every pass reaches its fixpoint: no rewriting undoes another
\* forever, and the level loop of FuseBypassPath, which does not end on a path
\* to level 0, is never entered.
BalancedRunsEnd ==
    balanceDataflow /\ (\A b \in Buffers(source) : ~RewrittenInLoop(b))
        ~> pass = "done"

-----------------------------------------------------------------------------
(* What the comments and messages of the code say and the code does not do; *)
(* each of these is violated.                                               *)

\* "The dependencies associated with [DRAM buffers] are handled later by tokens"
\* (ScheduleDataflowNode.cpp), those through arguments included.
DramDependencesHaveTokens ==
    pass = "done" /\ ir.isLegal =>
        \A f \in Meaning(source).seen, b \in Buffers(ir), p, c \in Nodes(ir) :
            DramFlow(f, b, p, c) => HasToken(b, p, c)

\* "Create explicit copy from the original output to the buffers"
\* (EliminateMultiConsumer.cpp): what a consumer reads from its buffer is what
\* it read from the original output.
ForkKeepsReads == pass = "multi-consumer" => Meaning(ir) = Meaning(source)

\* "External buffer must be placed in top schedule" (BufferOp::verify): below a
\* loop that is not parallel no DRAM buffer is allocated.
ExternalBufferInTopSchedule ==
    \A b \in Buffers(ir) : ir.ext[b] /\ ~ir.isArg[b] => ir.depFree

\* "This op can be explicitly marked as legal when all the dataflow violations have
\* been resolved and all the nodes has been scheduled" (ScheduleOp), whatever the
\* order of reads and writes of arguments.
LegalMeansResolved == ir.isLegal => NoViolationLeft

\* A schedule is "legal when all the dataflow violations have been resolved and
\* all the nodes has been scheduled" (ScheduleOp): from the legalization on.
ResolvedMeansLegal ==
    /\ Passed("legalize")
    /\ NoViolationLeft
    => ir.isLegal

\* "Legalize dataflow by merging dataflow nodes" (Passes.td): with balancing off
\* too, the passes end.
EveryRunEnds == <>(pass = "done")
=============================================================================
