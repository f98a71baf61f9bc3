--------------------------- MODULE LowerDataflow ----------------------------
(***************************************************************************)
(* The pass LowerDataflow: a dispatch of tasks becomes a schedule of nodes. *)
(* A dispatch is a record of its tasks, in order, each with the buffers it  *)
(* reads, writes, writes only in part (keep) and reads only under a         *)
(* condition that never holds (dead), the live-in buffers args, the DRAM    *)
(* buffers ext, and depFree as in DataflowIR.                               *)
(***************************************************************************)
EXTENDS DataflowIR

BuffersOf(tasks) == UNION {tasks[i].rd \cup tasks[i].wr : i \in DOMAIN tasks}

\* Patterns LowerDispatchToSchedule and LowerTaskToNode: a live-in of a task is
\* an output of its node if the task writes it, otherwise an input.
LowerDispatch(d) ==
    LET T == DOMAIN d.tasks
        B == BuffersOf(d.tasks)
    IN  [order |-> [i \in T |-> i],
         ins   |-> [i \in T |-> [b \in d.tasks[i].rd \ d.tasks[i].wr |-> 0]],
         outs  |-> [i \in T |-> d.tasks[i].wr],
         level |-> [i \in T |-> NoLevel],
         body  |-> [i \in T |-> <<Access(i, [b \in d.tasks[i].rd |-> b],
                                            [b \in d.tasks[i].wr |-> b],
                                            d.tasks[i].keep,
                                            d.tasks[i].dead)>>],
         isArg |-> [b \in B |-> b \in d.args],
         ext   |-> [b \in B |-> b \in d.ext],
         depth |-> [b \in B |-> 1],
         depFree |-> d.depFree,
         isLegal |-> FALSE,
         tokens  |-> {}]

\* A BufferOp holds data only after a task has written it.
WellDefined(d) ==
    \A i \in DOMAIN d.tasks : \A b \in d.tasks[i].rd \cup d.tasks[i].keep :
        b \in d.args \/ \E j \in 1..(i - 1) : b \in d.tasks[j].wr
=============================================================================
