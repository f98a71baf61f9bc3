----------------------------- MODULE MergeSameIf -----------------------------
(***************************************************************************)
(* The pass SimplifyAffineIf on the block of a function: ifs that always,   *)
(* or never, hold go, and ifs with one condition become one.                *)
(***************************************************************************)
EXTENDS AffineStoreForward

\* RemoveRedundantIf: the branch that is taken takes the place of the if.
RemoveRedundantIf(if) ==
    LET cond  == OpOf(ops, if).cond
        taken == IF cond \in p.neverTrue THEN "else" ELSE "then"
        Taken(op) ==
            CASE op.id = if     -> << >>
              [] op.parent = if -> IF op.branch = taken
                                   THEN <<[op EXCEPT !.parent = 0, !.branch = "top"]>> ELSE << >>
              [] OTHER          -> <<op>>
    IN  /\ cond \in p.neverTrue \cup p.alwaysTrue
        /\ ops' = FlattenSeq([i \in DOMAIN ops |-> Taken(ops[i])])

-----------------------------------------------------------------------------
(* MergeSameIf *)

InBetweenOps(x, y) ==
    {z \in Ids(ops) : OpOf(ops, z).parent = 0 /\ Before(ops, x, z) /\ Before(ops, z, y)}

\* Mutant of NotMemoryStore: no operation in between is looked at.
NotMemoryStore_Any(x, y) == TRUE

\* The only operations in between that are looked at are affine stores.
NotMemoryStore(x, y) == \A z \in InBetweenOps(x, y) : OpOf(ops, z).kind # "store"

\* The next if after x has the same condition.
Mergeable(x, y) ==
    /\ Before(ops, x, y) /\ OpOf(ops, x).cond = OpOf(ops, y).cond
    /\ \A z \in InBetweenOps(x, y) : OpOf(ops, z).kind # "if"
    /\ NotMemoryStore(x, y)

\* The ifs that are merged into the next one.
MergedIfs == {x \in OfKind(ops, "if") : \E y \in OfKind(ops, "if") : Mergeable(x, y)}

\* The if that has what was in x in the end.
IntoIf(x, merged) ==
    CHOOSE y \in OfKind(ops, "if") \ merged :
        /\ Before(ops, x, y)
        /\ \A z \in OfKind(ops, "if") \ merged : Before(ops, x, z) => ~Before(ops, z, y)

\* What comes to the front of the then block of y.
MovedTo(y, merged) ==
    LET moved == Kept(ops, {i \in DOMAIN ops : /\ ops[i].branch = "then" /\ ops[i].parent \in merged
                                               /\ IntoIf(ops[i].parent, merged) = y})
    IN  [j \in DOMAIN moved |-> [moved[j] EXCEPT !.parent = y]]

\* One walk over the block; the ifs that were merged are erased in the end, with
\* their else blocks.
MergeSameIf ==
    /\ MergedIfs # {}
    /\ \E merged \in {MergedIfs} :
          ops' = FlattenSeq([i \in DOMAIN ops |->
                    IF ops[i].id \in merged \/ ops[i].parent \in merged THEN << >>
                    ELSE <<ops[i]>> \o MovedTo(ops[i].id, merged)])

-----------------------------------------------------------------------------
(* The greedy driver *)

DeadOps == {x \in Ids(ops) : IsTriviallyDead(ops, returned, x)}
RedundantIfs == {x \in OfKind(ops, "if") : OpOf(ops, x).cond \in p.neverTrue \cup p.alwaysTrue}

EraseDead == \E x \in DeadOps : ops' = Erase(ops, {x})

SimplifyAffineIf ==
    /\ stage = "ifs"
    /\ \/ /\ \/ EraseDead
             \/ \E if \in RedundantIfs : RemoveRedundantIf(if)
             \/ MergeSameIf
          /\ UNCHANGED <<p, stage, walk>>
       \/ /\ DeadOps = {} /\ RedundantIfs = {} /\ MergedIfs = {}
          /\ stage' = "loads"
          /\ p' = [p EXCEPT !.ops = ops]
          /\ walk' = OrderOf(ops, "load")
          /\ UNCHANGED ops
    /\ UNCHANGED <<returned, current, opsToErase, memrefsToErase>>
=============================================================================
