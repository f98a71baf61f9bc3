------------------------- MODULE MCDataflowPipeline -------------------------
(***************************************************************************)
(* The dispatches the pipeline is checked on.                               *)
(***************************************************************************)
EXTENDS DataflowPipeline, LowerDataflow

Task(rd, wr) == [rd |-> rd, wr |-> wr, keep |-> {}, dead |-> {}]

Dispatch(tasks, args, ext, depFree) ==
    [tasks |-> tasks, args |-> args, ext |-> ext, depFree |-> depFree]

\* Every dispatch of three tasks over the buffers B, each of which reads at most
\* two buffers and writes one.
ThreeTasks(B, args, ext, depFree) ==
    LET task == {Task(rd, {w}) : rd \in {R \in SUBSET B : Cardinality(R) <= 2}, w \in B}
    IN  {d \in {Dispatch(tasks, args, ext, depFree) : tasks \in [1..3 -> task]} :
            WellDefined(d) /\ BuffersOf(d.tasks) = B}

\* No task reads an argument that a later task writes.
NoBackDependence(d) ==
    \A i, j \in DOMAIN d.tasks : i < j => d.tasks[i].rd \cap d.tasks[j].wr \cap d.args = {}

-----------------------------------------------------------------------------
(* Longer dispatches; argument 1 is the result, 9 an input that is only read *)

\* A path of two tasks beside a path of one.
Diamond == <<Task({9}, {2, 3}), Task({2}, {4}), Task({4}, {5}), Task({3, 5}, {1})>>

\* A value that three later tasks use, at three distances.
LongLived == <<Task({9}, {2}), Task({2}, {3}), Task({2, 3}, {4}), Task({2, 4}, {1})>>

\* The bypass ends above level 0.
HighBypass == <<Task({9}, {2, 3}), Task({2}, {4}), Task({3, 4}, {5}), Task({5}, {1})>>

\* An accumulator that is updated in place twice, and read in between.
Accumulate == <<Task({9}, {2}), Task({9, 2}, {2}), Task({2}, {3}), Task({2, 3}, {2}),
                Task({2}, {1})>>

\* An input that is read only under a condition that never holds.
DeadInput == <<Task({9}, {2}), [Task({2, 8}, {1}) EXCEPT !.dead = {8}]>>

LongDispatches ==
    {Dispatch(tasks, {1, 8, 9}, {1, 8, 9} \cup ext, TRUE) :
        tasks \in {Diamond, LongLived, HighBypass, Accumulate, DeadInput},
        ext \in SUBSET {2, 3, 4, 5}}

\* Argument 1 is written behind a task that reads it and shares an input with the last.
Overwritten == <<Task({1, 9}, {6}), Task({}, {1}), Task({1}, {5}), Task({5}, {8}),
                 Task({9}, {7})>>
OverwrittenDispatches ==
    {Dispatch(Overwritten, {1, 6, 7, 8, 9}, ext, TRUE) : ext \in {{}, {1}, {9}, {5, 9}}}

\* In a sequential loop, DRAM argument 1 is written from level 3 and from level 1.
TwoWriters == <<Task({}, {1, 2}), Task({2}, {3}), Task({3}, {1}), Task({1}, {4})>>

MCSchedules ==
    {LowerDispatch(d) : d \in
        LongDispatches \cup OverwrittenDispatches
        \cup {Dispatch(TwoWriters, {1, 4}, {1, 4}, FALSE)}
        \cup ThreeTasks({1, 2, 3}, {1}, {1, 3}, TRUE)
        \cup ThreeTasks({1, 2}, {1}, {}, TRUE)
        \cup {d \in ThreeTasks({1, 2, 3}, {1}, {1}, FALSE) : NoBackDependence(d)}}

-----------------------------------------------------------------------------
(* The dispatches of the runs that show a violation *)

\* Both tasks 1 and 3 write DRAM argument 1, task 4 reads what both left.
RewrittenArgument ==
    {LowerDispatch(Dispatch(<<Task({9}, {1}), Task({1}, {2}), Task({2}, {1}),
                              Task({1}, {8})>>, {1, 8, 9}, {1, 8, 9}, TRUE))}

\* Tasks 1 and 3 write internal argument 1 and tasks 2 and 4 read it, each what
\* the task before it wrote.
ReusedArgument ==
    {LowerDispatch(Dispatch(<<Task({}, {1}), Task({1}, {2}), Task({}, {1}),
                              Task({1, 2}, {3})>>, {1, 3}, {3}, TRUE))}

\* In a sequential loop, DRAM argument 1 is read one and two levels below.
NestedBypass ==
    {LowerDispatch(Dispatch(<<Task({}, {1}), Task({1}, {2}), Task({1, 2}, {3})>>,
                            {1, 3}, {1, 3}, FALSE))}

DeadInputOnly == {LowerDispatch(Dispatch(DeadInput, {1, 8, 9}, {1, 8, 9}, TRUE))}

ReadThenWritten == {LowerDispatch(Dispatch(Overwritten, {1, 6, 7, 8, 9}, {}, TRUE))}

DiamondOnly == {LowerDispatch(Dispatch(Diamond, {1, 9}, {1, 9}, TRUE))}
=============================================================================
