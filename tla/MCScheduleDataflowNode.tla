----------------------- MODULE MCScheduleDataflowNode -----------------------
(***************************************************************************)
(* Three nodes that each read and write any of three buffers: an argument,  *)
(* an internal BufferOp and a DRAM BufferOp or argument; with and without   *)
(* back dependences.                                                        *)
(***************************************************************************)
EXTENDS ScheduleDataflowNode, LowerDataflow

MCBuffers == {1, 2, 3}
MCTasks == {t \in [rd : SUBSET MCBuffers, wr : (SUBSET MCBuffers) \ {{}}, keep : {{}}, dead : {{}}] :
               t.rd \cap t.wr = {}}
MCDispatches ==
    {d \in [tasks : [1..3 -> MCTasks], args : {{1}, {1, 3}}, ext : {{3}},
            depFree : BOOLEAN] :
        /\ BuffersOf(d.tasks) = MCBuffers
        /\ d.ext \subseteq d.args \/ d.depFree}   \* BufferOp::verify
MCSchedules == {LowerDispatch(d) : d \in MCDispatches}
=============================================================================
