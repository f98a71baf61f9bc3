---------------------------- MODULE CreateDataflow ----------------------------
(***************************************************************************)
(* The front end of the dataflow: AffineStoreForward, and then the passes   *)
(* CreateDataflowFromAffine, StreamDataflowTask and LowerDataflow on the    *)
(* block of the function.                                                   *)
(***************************************************************************)
EXTENDS SimplifyCopy

VARIABLES rest,               \* operations of the dispatch still to be looked at
          opsToFuse, tasks,   \* operations, and lists of operations
          streamed            \* the tasks whose results have become streams

dataflowVars == <<rest, opsToFuse, tasks, streamed>>
vars == <<forwardVars, stage, dataflowVars>>

Ended == {"optimized", "inlined", "lowered", "rejected", "crashed"}

-----------------------------------------------------------------------------
(* CreateDataflowFromAffine: the block is one dispatch, and pattern         *)
(* TaskPartition splits it                                                  *)

TopLevel(b) == InOrder(b, {i \in DOMAIN b : b[i].parent = 0})

\* A dispatch with a call in it is not split, one without tasks is inlined by its
\* canonicalization.
DispatchBlock ==
    /\ stage = "dispatch"
    /\ IF \E x \in OfKind(ops, "call") : OpOf(ops, x).parent = 0
       THEN stage' = "inlined" /\ UNCHANGED rest
       ELSE stage' = "partition" /\ rest' = TopLevel(ops)
    /\ UNCHANGED <<forwardVars, opsToFuse, tasks, streamed>>

\* Memory allocs are moved to the beginning and skipped.
SkipAlloc(x) ==
    /\ ops' = <<OpOf(ops, x)>> \o Erase(ops, {x})
    /\ UNCHANGED <<opsToFuse, tasks>>

\* A loop closes a task of all the operations collected so far.
FuseWithLoop(x) ==
    /\ tasks' = Append(tasks, Append(opsToFuse, x))
    /\ opsToFuse' = << >>
    /\ UNCHANGED ops

Collect(x) ==
    /\ opsToFuse' = Append(opsToFuse, x)
    /\ UNCHANGED <<ops, tasks>>

Partition ==
    /\ stage = "partition" /\ rest # << >>
    /\ LET x == Head(rest)
       IN  CASE OpOf(ops, x).kind = "alloc" -> SkipAlloc(x)
             [] OpOf(ops, x).kind = "loop"  -> FuseWithLoop(x)
             [] OTHER                       -> Collect(x)
    /\ rest' = Tail(rest)
    /\ UNCHANGED <<p, returned, stage, walk, current, opsToErase, memrefsToErase, streamed>>

\* Mutant of FuseRest: a single operation behind the last loop is left alone.
FuseRest_Few ==
    IF Len(opsToFuse) <= 1 \/ tasks = << >> THEN tasks ELSE Append(tasks, opsToFuse)

\* Mutant of FuseRest: a block without loops becomes one task.
FuseRest_Always == IF opsToFuse = << >> THEN tasks ELSE Append(tasks, opsToFuse)

\* If the block will only generate one task, stop it.
FuseRest == IF opsToFuse = << >> \/ tasks = << >> THEN tasks ELSE Append(tasks, opsToFuse)

Terminator ==
    /\ stage = "partition" /\ rest = << >>
    /\ tasks' = FuseRest
    /\ stage' = IF tasks' = << >> THEN "inlined" ELSE "stream"
    /\ UNCHANGED <<forwardVars, rest, opsToFuse, streamed>>

-----------------------------------------------------------------------------
(* StreamDataflowTask *)

\* The operations of a task, with those of its ifs.
Members(t) == LET top == ToSet(tasks[t]) IN top \cup {x \in Ids(ops) : OpOf(ops, x).parent \in top}
TasksUsing(x) == {t \in DOMAIN tasks : \E y \in Members(t) : x \in ToSet(OpOf(ops, y).args)}
TaskOf(y) == CHOOSE t \in DOMAIN tasks : y \in Members(t)
Results(t) ==
    {x \in ToSet(tasks[t]) : TasksUsing(x) \ {t} # {} \/ x \in ToSet(returned)}

\* The id of the read of x that task user gets.
ReadOf(x, user) == Fresh + At(ops, x) * Len(tasks) + user

\* A task that uses results of the task t reads the stream of each once; each read
\* is put in front of those before it.
ReadsOf(t, results, user) ==
    FlattenSeq([k \in DOMAIN ops |->
        LET op == ops[Len(ops) + 1 - k]
        IN  IF op.id \in results /\ user \in TasksUsing(op.id) \ {t}
            THEN <<[op EXCEPT !.id = ReadOf(op.id, user), !.kind = "read", !.args = <<op.id>>]>>
            ELSE << >>])

\* Pattern StreamTaskIOs: the results of a task become streams, which their users
\* read at their beginning, and then use what they have read.
StreamTask(t) ==
    /\ stage = "stream" /\ t \notin streamed
    /\ \E results \in {Results(t)} :
       LET Renamed(op) == [op EXCEPT !.args = [k \in DOMAIN @ |->
               IF @[k] \in results /\ op.id \notin Members(t)
               THEN ReadOf(@[k], TaskOf(op.id)) ELSE @[k]]]
           Begun(op) == {user \in DOMAIN tasks : op.id = Head(tasks[user])}
           Reads(op) == IF Begun(op) = {} THEN << >> ELSE ReadsOf(t, results, Max(Begun(op)))
       IN  /\ ops' = FlattenSeq([i \in DOMAIN ops |-> Reads(ops[i]) \o <<Renamed(ops[i])>>])
           /\ tasks' = [user \in DOMAIN tasks |->
                          [i \in DOMAIN ReadsOf(t, results, user) |-> ReadsOf(t, results, user)[i].id] \o tasks[user]]
    /\ streamed' = streamed \cup {t}
    /\ UNCHANGED <<p, returned, stage, walk, current, opsToErase, memrefsToErase, rest, opsToFuse>>

Streams == UNION {Results(t) : t \in streamed}

\* A function cannot return the stream that takes the place of a value.
Verify ==
    /\ stage = "stream" /\ streamed = DOMAIN tasks
    /\ stage' = IF Streams \cap ToSet(returned) = {} THEN "lower" ELSE "rejected"
    /\ UNCHANGED <<forwardVars, dataflowVars>>

-----------------------------------------------------------------------------
(* LowerDataflow: the dispatch whose tasks become nodes, in the form that   *)
(* module LowerDataflow takes it; streams are among its buffers             *)

Loaded(op) == IF op.kind = "load" THEN {op.mem} ELSE IF op.kind = "read" THEN ToSet(op.args) ELSE op.rd
Stored(op) == (IF op.kind = "store" THEN {op.mem} ELSE op.wr) \cup ({op.id} \cap Streams)

\* A task reads what it has not written itself before.
BuffersOfTask(t) ==
    LET Reads(x) == {b \in Loaded(OpOf(ops, x)) :
                       \A y \in Members(t) : Before(ops, y, x) => b \notin Stored(OpOf(ops, y))}
    IN  [rd |-> UNION {Reads(x) : x \in Members(t)},
         wr |-> UNION {Stored(OpOf(ops, x)) : x \in Members(t)}, keep |-> {}, dead |-> {}]

DispatchOfTasks ==
    [tasks |-> [t \in DOMAIN tasks |-> BuffersOfTask(t)],
     args  |-> Memories(ops) \ {OpOf(ops, x).mem : x \in OfKind(ops, "alloc")}]

Lower ==
    /\ stage = "lower"
    /\ stage' = "lowered"
    /\ UNCHANGED <<forwardVars, dataflowVars>>
=============================================================================
