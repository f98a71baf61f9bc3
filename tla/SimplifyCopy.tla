----------------------------- MODULE SimplifyCopy -----------------------------
(***************************************************************************)
(* The pass SimplifyCopy, and LowerCopyToAffine behind it: a copy goes when *)
(* one of its buffers can take the place of the other; what copies are left *)
(* become loops. All buffers are in one memory space on the chip, without   *)
(* views and initial values.                                                *)
(***************************************************************************)
EXTENDS MergeSameIf

Source(copy) == CHOOSE mem \in OpOf(ops, copy).rd : TRUE
Target(copy) == CHOOSE mem \in OpOf(ops, copy).wr : TRUE

AllocsOf(mem) == {x \in OfKind(ops, "alloc") : OpOf(ops, x).mem = mem}
IsArgument(mem) == AllocsOf(mem) = {}

UsersBut(copy, mem) == Users(ops, mem) \ {copy}
DomUsers(copy, mem) == {x \in UsersBut(copy, mem) : Before(ops, x, copy)}

\* Those the copy does not come after.
PostDomUsers(copy, mem) == UsersBut(copy, mem) \ DomUsers(copy, mem)

\* A copy writes, whichever of its buffers is meant; a call is not known to.
HasWriteUsers(users, mem) ==
    \E x \in users :
        LET op == OpOf(ops, x)
        IN  \/ op.kind \in {"store", "copy"}
            \/ op.kind = "loop" /\ mem \in op.wr

\* Mutant of DominancesValid: writes behind the copy are not looked at.
DominancesValid_Before(copy) ==
    LET source == Source(copy)  target == Target(copy)
    IN  /\ HasWriteUsers(DomUsers(copy, source), source) => DomUsers(copy, target) = {}
        /\ ~HasWriteUsers(DomUsers(copy, target), target)

DominancesValid(copy) ==
    LET source == Source(copy)
        target == Target(copy)
    IN  /\ HasWriteUsers(PostDomUsers(copy, source), source) => PostDomUsers(copy, target) = {}
        /\ HasWriteUsers(PostDomUsers(copy, target), target) => PostDomUsers(copy, source) = {}
        /\ HasWriteUsers(DomUsers(copy, source), source) => DomUsers(copy, target) = {}
        /\ ~HasWriteUsers(DomUsers(copy, target), target)
        /\ DomUsers(copy, source) # {} /\ DomUsers(copy, target) # {} =>
              ~IsArgument(source) /\ ~IsArgument(target)

\* The buffer old is allocated, and new is an argument or allocated before all
\* users of old.
Replaceable(old, new) ==
    /\ ~IsArgument(old)
    /\ \A x \in AllocsOf(new), y \in Users(ops, old) : Dominates(ops, x, y)

Rename(b, old, new) ==
    LET To(mem) == IF mem = old THEN new ELSE mem
        ToAll(mems) == {To(mem) : mem \in mems}
    IN  [i \in DOMAIN b |-> [b[i] EXCEPT !.mem = To(@), !.rd = ToAll(@), !.wr = ToAll(@)]]

\* The buffer that goes and the one that takes its place, or none.
Replacement(copy) ==
    CASE Replaceable(Target(copy), Source(copy)) -> {<<Target(copy), Source(copy)>>}
      [] /\ ~Replaceable(Target(copy), Source(copy))
         /\ Replaceable(Source(copy), Target(copy)) -> {<<Source(copy), Target(copy)>>}
      [] OTHER -> {}

CanSimplify(copy) == DominancesValid(copy) /\ Replacement(copy) # {}

SimplifyBufferCopy(copy) ==
    /\ DominancesValid(copy)
    /\ \E r \in Replacement(copy) :
          ops' = Rename(Erase(ops, AllocsOf(r[1]) \cup {copy}), r[1], r[2])

\* LowerCopy: a copy is a loop nest, with a load and a store of an element in it.
LowerCopies(b) ==
    [i \in DOMAIN b |-> IF b[i].kind = "copy" THEN [b[i] EXCEPT !.kind = "loop"] ELSE b[i]]

SimplifyCopies ==
    /\ stage = "copies"
    /\ \/ /\ EraseDead \/ \E x \in OfKind(ops, "copy") : SimplifyBufferCopy(x)
          /\ UNCHANGED <<p, stage, walk>>
       \/ /\ DeadOps = {} /\ \A x \in OfKind(ops, "copy") : ~CanSimplify(x)
          /\ stage' = "loads"
          /\ ops' = LowerCopies(ops)
          /\ p' = [p EXCEPT !.ops = ops']
          /\ walk' = OrderOf(ops, "load")
    /\ UNCHANGED <<returned, current, opsToErase, memrefsToErase>>
=============================================================================
