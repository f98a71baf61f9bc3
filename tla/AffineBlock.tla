----------------------------- MODULE AffineBlock -----------------------------
(***************************************************************************)
(* The block of a function before its dataflow is created: a sequence of    *)
(* operations, each with an id that also names its result. An if comes      *)
(* before the operations of its two branches; parent is its id, or 0 for an *)
(* operation of the block itself. Loops and calls are opaque: they may      *)
(* read and write any element of the memories in rd and wr. A copy, or the  *)
(* loop made of it, has copies set and one memory in rd and in wr. Memories  *)
(* no alloc makes are arguments of the function, and so are ids up to 0.     *)
(***************************************************************************)
EXTENDS Integers, SequencesExt

Fields == {"id", "kind", "mem", "addr", "args", "cond", "parent", "branch", "rd", "wr", "copies"}

\* The operations whose result others may use.
HasResult(op) == op.kind \in {"load", "value", "select", "read"}

IsOperation(op) ==
    /\ DOMAIN op = Fields
    /\ op.id \in Nat \ {0} /\ op.parent \in Nat /\ op.args \in Seq(Int)
    /\ op.branch \in {"top", "then", "else"} /\ (op.parent = 0 <=> op.branch = "top")
    /\ op.kind = "if" => op.parent = 0
    /\ op.kind \in {"load", "alloc"} => op.args = << >>
    /\ op.kind = "store" => Len(op.args) = 1

BlockOf(op) == <<op.parent, op.branch>>

\* Ids differ; the operations of an if follow it; a value is defined before it is
\* used, at the top or in the branch that uses it.
IsBlock(b) ==
    /\ b \in Seq(ToSet(b))
    /\ \A i \in DOMAIN b : IsOperation(b[i])
    /\ \A i, j \in DOMAIN b : b[i].id = b[j].id => i = j
    /\ \A i \in DOMAIN b : b[i].parent # 0 =>
          \E j \in 1..(i - 1) : /\ b[j].id = b[i].parent /\ b[j].kind = "if"
                                /\ \A k \in (j + 1)..(i - 1) : b[k].parent = b[i].parent
    /\ \A i \in DOMAIN b : \A x \in ToSet(b[i].args) : x > 0 =>
          \E j \in 1..(i - 1) : /\ b[j].id = x /\ HasResult(b[j])
                                /\ b[j].parent = 0 \/ BlockOf(b[j]) = BlockOf(b[i])

At(ops, x) == CHOOSE i \in DOMAIN ops : ops[i].id = x
OpOf(ops, x) == ops[At(ops, x)]
Ids(ops) == {ops[i].id : i \in DOMAIN ops}
OfKind(ops, kind) == {x \in Ids(ops) : OpOf(ops, x).kind = kind}

\* The part of a sequence at the positions S, in order.
Kept(s, S) == FlattenSeq([i \in DOMAIN s |-> IF i \in S THEN <<s[i]>> ELSE << >>])

\* The ids of the operations at the positions S, in order.
InOrder(ops, S) == FlattenSeq([i \in DOMAIN ops |-> IF i \in S THEN <<ops[i].id>> ELSE << >>])

Body(ops, x) == {y \in Ids(ops) : OpOf(ops, y).parent = x}
SameRegion(ops, x, y) == BlockOf(OpOf(ops, x)) = BlockOf(OpOf(ops, y))
Before(ops, x, y) == At(ops, x) < At(ops, y)

Dominates(ops, x, y) ==
    Before(ops, x, y) /\ (OpOf(ops, x).parent = 0 \/ SameRegion(ops, x, y))
PostDominates(ops, y, x) == Before(ops, x, y) /\ SameRegion(ops, x, y)

SameAccess(x, y) == x.mem = y.mem /\ x.addr = y.addr

MayRead(op, access) ==
    \/ op.kind = "load" /\ SameAccess(op, access)
    \/ op.kind \in {"loop", "copy"} /\ access.mem \in op.rd
    \/ op.kind = "call"
MayWrite(op, access) ==
    \/ op.kind = "store" /\ SameAccess(op, access)
    \/ op.kind \in {"loop", "copy"} /\ access.mem \in op.wr
    \/ op.kind = "call"

\* What may run after x has ended and before y: not what is inside x, nor in the
\* other branch around y.
Between(ops, x, y) ==
    {z \in Ids(ops) :
        LET op == OpOf(ops, z)
        IN  /\ Before(ops, x, z) /\ Before(ops, z, y)
            /\ op.parent # x
            /\ op.parent # 0 /\ op.parent = OpOf(ops, y).parent => SameRegion(ops, z, y)}

\* isValid: an if without else around a single operation.
IsValid(ops, x) == \E y \in Body(ops, x) : Body(ops, x) = {y} /\ OpOf(ops, y).branch = "then"

Users(ops, mem) ==
    {x \in Ids(ops) : LET op == OpOf(ops, x)
                      IN  \/ op.kind \in {"load", "store"} /\ op.mem = mem
                          \/ op.kind \in {"loop", "copy", "call"} /\ mem \in op.rd \cup op.wr}

Memories(ops) == UNION {{ops[i].mem} \cup ops[i].rd \cup ops[i].wr : i \in DOMAIN ops}

-----------------------------------------------------------------------------
(* Rewriting *)

ReplaceIn(args, x, y) == [k \in DOMAIN args |-> IF args[k] = x THEN y ELSE args[k]]

ReplaceUses(ops, x, y) ==
    [i \in DOMAIN ops |-> [ops[i] EXCEPT !.args = ReplaceIn(@, x, y)]]

\* An operation without effects whose result, if any, is not used: the driver of
\* greedy rewrites erases it.
IsTriviallyDead(ops, returned, x) ==
    /\ \A i \in DOMAIN ops : x \notin ToSet(ops[i].args)
    /\ x \notin ToSet(returned)
    /\ CASE OpOf(ops, x).kind \in {"load", "value", "select"} -> TRUE
         [] OpOf(ops, x).kind = "alloc" -> Users(ops, OpOf(ops, x).mem) = {}
         [] OpOf(ops, x).kind = "if"    -> Body(ops, x) = {}
         [] OTHER                       -> FALSE

Erase(ops, S) == Kept(ops, {i \in DOMAIN ops : ops[i].id \notin S /\ ops[i].parent \notin S})

\* The store of an if without else moves in front of the if, which is erased; it
\* stores what a select takes instead of the value it stored.
Hoisted(ops, store, front, select) ==
    LET if == OpOf(ops, store).parent
        moved == [OpOf(ops, store) EXCEPT !.parent = 0, !.branch = "top", !.args = <<select.id>>]
    IN  FlattenSeq([i \in DOMAIN ops |->
            CASE ops[i].id = if     -> front \o <<select, moved>>
              [] ops[i].parent = if -> << >>
              [] OTHER              -> <<ops[i]>>])

-----------------------------------------------------------------------------
(* What a block computes, given which conditions hold. Values are terms. The *)
(* stream of a value holds it once: another read of it finds nothing.       *)

ValueOf(env, x) == IF x \in DOMAIN env.values THEN env.values[x] ELSE <<"argument", x>>
Terms(env, args) == [k \in DOMAIN args |-> ValueOf(env, args[k])]
\* A loop or a call leaves in each memory it writes what depends on all it reads.
Content(env, mems) == [cell \in {cell \in DOMAIN env.memory : cell[1] \in mems} |-> env.memory[cell]]

Execute(env, op, holds) ==
    LET Result(term) == [env EXCEPT !.values = (op.id :> term) @@ @]
        out == Content(env, op.rd \cup op.wr)
        written == {cell \in DOMAIN env.memory : cell[1] \in op.wr}
        Left(cell) == IF op.copies THEN env.memory[<<CHOOSE m \in op.rd : TRUE, cell[2]>>]
                      ELSE <<op.id, cell, out, Terms(env, op.args)>>
    IN  CASE op.kind = "load"   -> Result(env.memory[<<op.mem, op.addr>>])
          [] op.kind = "value"  -> Result(<<"value", op.id, Terms(env, op.args)>>)
          [] op.kind = "select" -> Result(ValueOf(env, op.args[IF holds[op.cond] THEN 1 ELSE 2]))
          [] op.kind = "read"   ->
                [Result(IF op.args[1] \in env.taken THEN <<"empty", op.args[1]>>
                        ELSE ValueOf(env, op.args[1])) EXCEPT !.taken = @ \cup {op.args[1]}]
          [] op.kind = "store"  ->
                [env EXCEPT !.memory = (<<op.mem, op.addr>> :> ValueOf(env, op.args[1])) @@ @]
          [] op.kind \in {"loop", "copy", "call"} ->
                [env EXCEPT !.memory = [cell \in written |-> Left(cell)] @@ @]
          [] OTHER -> env

Runs(ops, op, holds) ==
    op.parent = 0 \/ (holds[OpOf(ops, op.parent).cond] <=> op.branch = "then")

Final(ops, cells, holds) ==
    LET after[i \in 0..Len(ops)] ==
          IF i = 0 THEN [values |-> << >>, taken |-> {},
                         memory |-> [cell \in cells |-> <<"initial", cell>>]]
          ELSE LET env == after[i - 1]
               IN  IF Runs(ops, ops[i], holds) THEN Execute(env, ops[i], holds) ELSE env
    IN  after[Len(ops)]
=============================================================================
