-------------------------- MODULE AffineStoreForward --------------------------
(***************************************************************************)
(* The pass AffineStoreForward: loads are replaced by the values stored     *)
(* before them or loaded before them, stores that are overwritten are       *)
(* erased, and so are memories that are only written.                       *)
(***************************************************************************)
EXTENDS AffineBlock

CONSTANTS Programs,           \* see WellFormed
          None

VARIABLES p,                  \* the function, as the pass finds it
          ops, returned,      \* its block and the values it returns
          stage,
          walk,               \* the loads or stores still to be visited
          current,            \* the load that took the place of the one visited
          opsToErase, memrefsToErase

forwardVars == <<p, ops, returned, walk, current, opsToErase, memrefsToErase>>

\* Ids of operations the pass creates.
Fresh == 1 + CHOOSE n \in Ids(ops) \cup {0} : \A m \in Ids(ops) : m <= n

WellFormed(prog) ==
    /\ DOMAIN prog = {"ops", "returned", "neverTrue", "alwaysTrue", "memoryOpts"}
    /\ IsBlock(prog.ops)
    /\ \A i \in DOMAIN prog.ops :
          LET op == prog.ops[i]
          IN  op.kind = "copy" => \E x, y \in Memories(prog.ops) :
                  x # y /\ op.parent = 0 /\ op.rd = {x} /\ op.wr = {y}
    /\ prog.returned \in Seq(Int)
    /\ \A x \in ToSet(prog.returned) : x > 0 =>
          \E i \in DOMAIN prog.ops :
              prog.ops[i].id = x /\ HasResult(prog.ops[i]) /\ prog.ops[i].parent = 0

-----------------------------------------------------------------------------
(* Store to load forwarding *)

\* A store that is alone in an if counts as a store of the whole if, unless its
\* condition never holds.
Start(store, load) ==
    LET if == OpOf(ops, store).parent
    IN  IF ~SameRegion(ops, store, load) /\ if # 0 /\ IsValid(ops, if)
           /\ OpOf(ops, if).cond \notin p.neverTrue
        THEN if ELSE store

\* Mutant of NoWriteBetween: loops between the two are not looked at.
NoWriteBetween_Loops(x, y) ==
    \A z \in Between(ops, x, y) :
        OpOf(ops, z).kind # "loop" => ~MayWrite(OpOf(ops, z), OpOf(ops, y))

\* hasNoInterveningEffect of MLIR, for the effects it is asked about.
NoWriteBetween(x, y) == \A z \in Between(ops, x, y) : ~MayWrite(OpOf(ops, z), OpOf(ops, y))
NoReadBetween(x, y) == \A z \in Between(ops, x, y) : ~MayRead(OpOf(ops, z), OpOf(ops, y))

\* Mutant of Sources: they come before the load, in whatever if.
Sources_Anywhere(kind, load) ==
    {x \in OfKind(ops, kind) \ {load} :
        LET start == IF kind = "store" THEN Start(x, load) ELSE x
        IN  /\ SameAccess(OpOf(ops, x), OpOf(ops, load))
            /\ Before(ops, start, load)
            /\ NoWriteBetween(start, load)}

\* The stores, or loads, whose value a load is known to find.
Sources(kind, load) ==
    {x \in OfKind(ops, kind) \ {load} :
        LET start == IF kind = "store" THEN Start(x, load) ELSE x
        IN  /\ SameAccess(OpOf(ops, x), OpOf(ops, load))
            /\ Dominates(ops, start, load)
            /\ NoWriteBetween(start, load)}

ReplaceAllUses(b, x, y) ==
    /\ ops' = ReplaceUses(b, x, y)
    /\ returned' = ReplaceIn(returned, x, y)

\* Mutant of ForwardStore: the load is looked at again.
ForwardStore_Again(load, store) ==
    /\ ReplaceAllUses(ops, load, OpOf(ops, store).args[1])
    /\ memrefsToErase' = memrefsToErase \cup {OpOf(ops, load).mem}
    /\ current' = load

\* The value that was stored takes the place of the load.
ForwardStore(load, store) ==
    /\ ReplaceAllUses(ops, load, OpOf(ops, store).args[1])
    /\ memrefsToErase' = memrefsToErase \cup {OpOf(ops, load).mem}
    /\ current' = None

\* The store leaves its if; a select of its value and of a new load takes the place
\* of the load, and the new load is looked at next.
ForwardStoreOfIf(load, store) ==
    LET new    == [OpOf(ops, load) EXCEPT !.id = Fresh, !.parent = 0, !.branch = "top"]
        if     == OpOf(ops, store).parent
        select == [OpOf(ops, store) EXCEPT !.id = Fresh + 1, !.kind = "select", !.parent = 0,
                     !.branch = "top", !.cond = OpOf(ops, if).cond, !.args = <<@[1], Fresh>>]
    IN  /\ ReplaceAllUses(Hoisted(ops, store, <<new>>, select), load, select.id)
        /\ current' = new.id
        /\ UNCHANGED memrefsToErase

\* A load of the same element that dominates all others takes its place.
LoadCSE(load) ==
    LET candidates == Sources("load", load)
        best == {x \in candidates : \A y \in candidates \ {x} : Dominates(ops, x, y)}
    IN  /\ current' = None
        /\ IF best = {} THEN UNCHANGED <<ops, returned, opsToErase>>
           ELSE \E x \in best : /\ ReplaceAllUses(ops, load, x)
                                /\ opsToErase' = opsToErase \cup {load}
        /\ UNCHANGED memrefsToErase

\* One turn of the loop for the load that is visited.
VisitLoad ==
    /\ stage = "loads" /\ walk # << >>
    /\ LET load   == IF current = None THEN Head(walk) ELSE current
           stores == Sources("store", load)
       IN  /\ \/ stores = {} /\ LoadCSE(load)
              \/ \E store \in stores :
                    /\ opsToErase' = opsToErase \cup {load}
                    /\ IF Dominates(ops, store, load)
                       THEN ForwardStore(load, store) ELSE ForwardStoreOfIf(load, store)
           /\ walk' = IF current' = None THEN Tail(walk) ELSE walk
    /\ UNCHANGED <<p, stage>>

OrderOf(b, kind) == InOrder(b, {i \in DOMAIN b : b[i].kind = kind})

EraseLoads ==
    /\ stage = "loads" /\ walk = << >>
    /\ stage' = "stores"
    /\ ops' = Erase(ops, opsToErase)
    /\ walk' = OrderOf(ops', "store")
    /\ opsToErase' = {}
    /\ UNCHANGED <<p, returned, current, memrefsToErase>>

-----------------------------------------------------------------------------
(* Unused stores *)

SameIf(x, y) == OpOf(ops, x).cond = OpOf(ops, y).cond

\* What must be in one region for the store a to be overwritten by the store b:
\* the stores, or the ifs around them. The branch b is in is not looked at.
Targets(a, b) ==
    LET ifA == OpOf(ops, a).parent
        ifB == OpOf(ops, b).parent
    IN  CASE SameRegion(ops, a, b) -> <<a, b>>
          [] ~SameRegion(ops, a, b) /\ ifA # 0 ->
                <<IF IsValid(ops, ifA) THEN ifA ELSE a,
                  IF ifB # 0 /\ SameIf(ifA, ifB) THEN ifB ELSE b>>
          [] OTHER -> <<a, IF IsValid(ops, ifB) THEN ifB ELSE b>>

Overwriters(a) ==
    {b \in OfKind(ops, "store") \ {a} :
        LET target == Targets(a, b)
        IN  /\ SameAccess(OpOf(ops, a), OpOf(ops, b))
            /\ SameRegion(ops, target[1], target[2])
            /\ PostDominates(ops, target[2], target[1])
            /\ NoReadBetween(target[1], b)}

\* A store in an if that overwrites one in front of it stores a select of both
\* values instead, whatever else was written in between.
OverwriteInIf(a, b) ==
    LET select == [OpOf(ops, b) EXCEPT !.id = Fresh, !.kind = "select", !.parent = 0,
                     !.branch = "top", !.cond = OpOf(ops, OpOf(ops, b).parent).cond,
                     !.args = <<@[1], OpOf(ops, a).args[1]>>]
    IN  ops' = Hoisted(ops, b, << >>, select)

OnlyWritten(mem) == \A x \in Users(ops, mem) : OpOf(ops, x).kind = "store"

\* The walk holds on to the operation after a: when that is the if that is erased,
\* it goes on from memory that was freed, may miss the store b and may crash.
IsNext(a, if) ==
    /\ SameRegion(ops, a, if)
    /\ \A x \in Ids(ops) : Before(ops, a, x) /\ SameRegion(ops, a, x) => ~Before(ops, x, if)

FindUnusedStore ==
    /\ stage = "stores" /\ walk # << >>
    /\ LET a == Head(walk)
       IN  /\ memrefsToErase' = memrefsToErase \cup
                 (IF OnlyWritten(OpOf(ops, a).mem) THEN {OpOf(ops, a).mem} ELSE {})
           /\ \/ /\ Overwriters(a) = {}
                 /\ walk' = Tail(walk)
                 /\ UNCHANGED <<ops, opsToErase, stage>>
              \/ \E b \in Overwriters(a) :
                    LET target == Targets(a, b)
                    IN  /\ opsToErase' = opsToErase \cup {target[1]}
                        /\ IF target[1] = a /\ target[2] # b
                           THEN OverwriteInIf(a, b) ELSE UNCHANGED ops
                        /\ IF target[1] = a /\ target[2] # b /\ IsNext(a, target[2])
                           THEN /\ stage' \in {"stores", "crashed"}
                                /\ walk' \in {Tail(walk), Kept(walk, {i \in DOMAIN walk : i > 1 /\ walk[i] # b})}
                           ELSE UNCHANGED stage /\ walk' = Tail(walk)
    /\ UNCHANGED <<p, returned, current>>

\* The two stretches of the pipelines this pass is in: behind SimplifyCopy, before
\* the dataflow is created, and behind SimplifyAffineIf, among the memory optimizations.
First == IF p.memoryOpts THEN "ifs" ELSE "copies"
Behind == IF p.memoryOpts THEN "optimized" ELSE "dispatch"

\* The allocs that are only written.
DeadAllocs(b) ==
    {x \in OfKind(b, "alloc") :
        LET mem == OpOf(b, x).mem
        IN  mem \in memrefsToErase /\ \A y \in Users(b, mem) : OpOf(b, y).kind = "store"}

\* The stores go, and then the memories the function allocates and only writes.
EraseStores ==
    /\ stage = "stores" /\ walk = << >>
    /\ \E kept \in {Erase(ops, opsToErase)} : \E dead \in {DeadAllocs(kept)} :
          ops' = Erase(kept, dead \cup UNION {Users(kept, OpOf(kept, x).mem) : x \in dead})
    /\ opsToErase' = {} /\ memrefsToErase' = {}
    /\ stage' = Behind
    /\ UNCHANGED <<p, returned, walk, current>>

ForwardInit ==
    /\ p \in {prog \in Programs : WellFormed(prog)}
    /\ ops = p.ops /\ returned = p.returned
    /\ stage = First
    /\ walk = << >>
    /\ current = None /\ opsToErase = {} /\ memrefsToErase = {}

StoreForward == VisitLoad \/ EraseLoads \/ FindUnusedStore \/ EraseStores
=============================================================================
