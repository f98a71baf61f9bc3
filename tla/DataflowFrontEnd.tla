--------------------------- MODULE DataflowFrontEnd ---------------------------
(***************************************************************************)
(* The passes from AffineStoreForward to LowerDataflow in the order of the  *)
(* pipelines, and what they must not change.                                *)
(***************************************************************************)
EXTENDS CreateDataflow

Init ==
    /\ ForwardInit
    /\ rest = << >> /\ opsToFuse = << >> /\ tasks = << >> /\ streamed = {}

Forward == StoreForward /\ UNCHANGED dataflowVars

Simplifications == (SimplifyCopies \/ SimplifyAffineIf) /\ UNCHANGED dataflowVars

Next ==
    \/ Simplifications \/ Forward
    \/ DispatchBlock \/ Partition \/ Terminator
    \/ \E t \in DOMAIN tasks : StreamTask(t)
    \/ Verify \/ Lower

Spec == Init /\ [][Next]_vars /\ WF_vars(Next)

-----------------------------------------------------------------------------
(* Properties *)

Cells(prog) == Memories(prog.ops) \X {prog.ops[i].addr : i \in DOMAIN prog.ops}
Allocated(prog) == {OpOf(prog.ops, x).mem : x \in OfKind(prog.ops, "alloc")}
Conditions(prog) == {prog.ops[i].cond : i \in DOMAIN prog.ops} \ {None}

\* What a caller finds: the arguments and the returned values, for all conditions.
Meaning(b, results) ==
    [holds \in {h \in [Conditions(p) -> BOOLEAN] :
                    \A c \in DOMAIN h : (h[c] => c \notin p.neverTrue) /\ (c \in p.alwaysTrue => h[c])} |->
        LET env == Final(b, Cells(p), holds)
        IN  <<[cell \in {cell \in Cells(p) : cell[1] \notin Allocated(p)} |-> env.memory[cell]],
              Terms(env, results)>>]

\* Stores that are about to be erased no longer count.
Now(b, erased, phase) == IF phase = "stores" THEN Erase(b, erased) ELSE b

\* A store in an if takes the value of the one it overwrites, and another write of
\* the element is in between.
SkipsWrite(a) ==
    \E b \in Overwriters(a) :
        LET target == Targets(a, b)
        IN  /\ target[1] = a /\ target[2] # b
            /\ \E x \in Between(ops, a, target[2]) : MayWrite(OpOf(ops, x), OpOf(ops, a))

\* The store that overwrites one of an if is in the other branch of a like if.
OtherBranch(a) ==
    \E b \in Overwriters(a) :
        Targets(a, b)[1] # a /\ Targets(a, b)[2] # b /\ OpOf(ops, a).branch # OpOf(ops, b).branch

\* Two tasks use one result of a task whose results become streams.
SharedResult ==
    \E t \in streamed' \ streamed : \E x \in Results(t) :
        Cardinality(TasksUsing(x) \ {t}) > 1

\* Operations between two ifs with one condition touch what the first one does, and
\* are no stores; or the first one has an else block.
MergesTooMuch ==
    \E x, y \in OfKind(ops, "if") :
        /\ OpOf(ops, x).cond = OpOf(ops, y).cond /\ Before(ops, x, y)
        /\ \E a \in Body(ops, x) :
              \/ OpOf(ops, a).branch = "else"
              \/ \E z \in InBetweenOps(x, y) \ OfKind(ops, "store") :
                    \/ MayWrite(OpOf(ops, z), OpOf(ops, a))
                    \/ OpOf(ops, a).kind = "store" /\ MayRead(OpOf(ops, z), OpOf(ops, a))

\* A buffer of the function gives way to an argument, and is written behind the copy;
\* or a call, which is not known to write, uses one of the two.
CopyShared ==
    \E x \in OfKind(ops, "copy") \ Ids(ops') :
        \/ /\ IsArgument(Source(x)) \/ IsArgument(Target(x))
           /\ \E mem \in {Source(x), Target(x)} \cap Allocated(p) :
                 HasWriteUsers(PostDomUsers(x, mem), mem)
        \/ \E y \in Users(ops, Source(x)) \cup Users(ops, Target(x)) : OpOf(ops, y).kind = "call"

\* No step of the passes changes what the function computes, whatever ifs, loops
\* and calls are between the accesses (AffineStoreForward.cpp, TaskPartition), but
\* for five causes in the code: the two of findUnusedStore, a stream that several
\* tasks read, ifs that are merged across reads and writes, and a buffer merged with
\* an argument that the caller sees.
MeaningLostForACause ==
    [][\/ Meaning(Now(ops, opsToErase, stage), returned)
            = Meaning(Now(ops', opsToErase', stage'), returned')
       \/ stage = "stores" /\ walk # << >> /\ (SkipsWrite(Head(walk)) \/ OtherBranch(Head(walk)))
       \/ SharedResult
       \/ stage = "ifs" /\ MergesTooMuch
       \/ stage = "copies" /\ CopyShared]_<<ops, opsToErase, stage, returned>>

\* Whatever is forwarded, hoisted, erased or moved to another task, a value is
\* defined before it is used, and by an operation that is still there.
UsesDominated ==
    \A i \in DOMAIN ops : \A x \in ToSet(ops[i].args) :
        x > 0 => x \in Ids(ops) /\ Dominates(ops, x, ops[i].id)

L == INSTANCE LowerDataflow WITH Schedules <- {}, ir <- None

\* All operations but the allocs are in tasks, in order.
AllInTasks ==
    FlattenSeq(tasks) = InOrder(ops, {i \in DOMAIN ops : ops[i].parent = 0 /\ ops[i].kind # "alloc"})

\* A value goes from one task to another by a stream only.
StreamsBetween ==
    \A t, u \in DOMAIN tasks : t # u =>
        \A x \in Members(t), y \in Members(u) :
            y \in ToSet(OpOf(ops, x).args) => OpOf(ops, x).kind = "read"

\* What LowerDataflow and the passes behind it take for granted; that a buffer is
\* written before it is read is part of it.
ReadyToLower ==
    stage \in {"lower", "lowered"} =>
        AllInTasks /\ StreamsBetween /\ L!WellDefined(DispatchOfTasks)

\* Two operations of the function with nothing but loads in between, which may go.
Adjacent(x, y) ==
    \A z \in Ids(p.ops) :
        Before(p.ops, x, z) /\ Before(p.ops, z, y) => OpOf(p.ops, z).kind = "load"

\* The passes fail only where the function has a store right before an if around a
\* store of the same element (the walk of AffineStoreForward), or where it returns a
\* value that was computed before a loop or behind one, in a task
\* (StreamDataflowTask).
StopsForACause ==
    /\ stage = "crashed" =>
          \E x, y \in OfKind(p.ops, "store") :
             LET if == OpOf(p.ops, y).parent
             IN  /\ SameAccess(OpOf(p.ops, x), OpOf(p.ops, y))
                 /\ if # 0 /\ Body(p.ops, if) \ OfKind(p.ops, "load") = {y}
                 /\ Before(p.ops, x, if) /\ Adjacent(x, if)
    /\ stage = "rejected" =>
          OfKind(p.ops, "loop") \cup OfKind(p.ops, "copy") # {} /\ ToSet(p.returned) \cap Ids(p.ops) # {}

\* Forwarding stops, although each store that leaves an if gives a new load to look
\* at, and the passes behind it come to an end.
FrontEndEnds == <>(stage \in Ended)
=============================================================================
