----------------------------- MODULE DataflowIR -----------------------------
(***************************************************************************)
(* One hls.dataflow.schedule operation and the helpers of                  *)
(* lib/Dialect/HLS/Utils.cpp that every dataflow pass is written with.     *)
(*                                                                         *)
(* The schedule is a record:                                               *)
(*   order    the NodeOps in block order (node identities are naturals)    *)
(*   ins      node -> (input buffer -> input tap)                          *)
(*   outs     node -> set of output buffers                                *)
(*   level    node -> level attribute, NoLevel when it is absent           *)
(*   body     node -> sequence of accesses (see Access)                    *)
(*   isArg    buffer -> is it a block argument (else a BufferOp)?          *)
(*   ext      buffer -> is its memory kind DRAM (isExternalBuffer)?        *)
(*   depth    buffer -> depth attribute of the BufferOp                    *)
(*   depFree  is the parent a function or a parallel loop?                 *)
(*   isLegal  the isLegal unit attribute                                   *)
(*   tokens   the token streams made by CreateTokenStream                  *)
(* Inputs and outputs are indexed by buffer: LowerDataflow makes both from *)
(* a set of live-ins and every pass keeps them free of duplicates.         *)
(***************************************************************************)
EXTENDS Integers, Sequences, SequencesExt

CONSTANT Schedules    \* the schedules LowerDataflow hands to the passes

VARIABLE ir           \* the schedule the passes rewrite

NoLevel == -1

Nodes(s)   == DOMAIN s.outs
Buffers(s) == DOMAIN s.isArg

\* Identities of operations that do not exist yet.
FreshNode(s)   == 1 + Max({0} \cup Nodes(s))
FreshBuffer(s) == 1 + Max({0} \cup Buffers(s))

-----------------------------------------------------------------------------
(* Queries on the use lists *)

Position(order, n) == CHOOSE i \in DOMAIN order : order[i] = n
Before(s, n, m)    == Position(s.order, n) < Position(s.order, m)

Producers(s, b) == {n \in Nodes(s) : b \in s.outs[n]}
Consumers(s, b) == {n \in Nodes(s) : b \in DOMAIN s.ins[n]}

\* The consumers of b that depend on n: for a buffer defined outside of a
\* dependence-free schedule the consumers ahead of n are ignored.
DependentConsumers(s, b, n) ==
    {c \in Consumers(s, b) \ {n} : s.isArg[b] /\ s.depFree => Before(s, n, c)}

Leveled(s, n) == s.level[n] # NoLevel

\* A set of nodes as a sequence in block order (llvm::sort by dominance).
Arranged(order, N) ==
    [i \in 1..Cardinality(N) |->
        CHOOSE n \in N :
            Cardinality({m \in N : Position(order, m) < Position(order, n)}) = i - 1]
InBlockOrder(s, N) == Arranged(s.order, N)

-----------------------------------------------------------------------------
(* Accesses of a node body.  A task reads and writes through slots, named   *)
(* for the buffers of the source program, so that a renaming of operands    *)
(* leaves them alone; keep holds the slots that are only partly written,    *)
(* dead those that are only read under a condition that never holds.        *)

Access(task, rd, wr, keep, dead) ==
    [task |-> task, rd |-> rd, wr |-> wr, keep |-> keep, dead |-> dead]
Copy == 0
CopyOp(from, to) == Access(Copy, [x \in {0} |-> from], [x \in {0} |-> to], {}, {})

IsReadIn(body, b)    == \E i \in DOMAIN body : b \in Range(body[i].rd)
IsWrittenIn(body, b) == \E i \in DOMAIN body : b \in Range(body[i].wr)

-----------------------------------------------------------------------------
(* Rewrites the passes share *)

\* f with y at x, which may be new.
Put(f, x, y) == [z \in DOMAIN f \cup {x} |-> IF z = x THEN y ELSE f[z]]

\* op applied to s for each element of a sequence in order, of a set in any
\* order.  The bound variable u is what lets TLC compute each step only once.
ForEachOf(seq, op(_, _), s) ==
    FoldLeft(LAMBDA t, x : CHOOSE r \in {op(u, x) : u \in {t}} : TRUE, s, seq)
ForEachIn(S, op(_, _), s) ==
    FoldSet(LAMBDA x, t : CHOOSE r \in {op(u, x) : u \in {t}} : TRUE, s, S)

Subst(b, old, new) == IF b = old THEN new ELSE b

RenameIns(ins, old, new) ==
    IF old \notin DOMAIN ins THEN ins
    ELSE [x \in (DOMAIN ins \ {old}) \cup {new} |->
             IF x = new THEN ins[old] ELSE ins[x]]

RenameBody(body, old, new) ==
    [i \in DOMAIN body |->
        [body[i] EXCEPT !.rd = [x \in DOMAIN @ |-> Subst(@[x], old, new)],
                        !.wr = [x \in DOMAIN @ |-> Subst(@[x], old, new)]]]

\* replaceUsesWithIf: every operand of the nodes in U that is old becomes new.
ReplaceUses(s, old, new, U) ==
    [s EXCEPT
        !.ins  = [n \in DOMAIN @ |->
                     IF n \in U THEN RenameIns(@[n], old, new) ELSE @[n]],
        !.outs = [n \in DOMAIN @ |->
                     IF n \in U THEN {Subst(b, old, new) : b \in @[n]} ELSE @[n]],
        !.body = [n \in DOMAIN @ |->
                     IF n \in U THEN RenameBody(@[n], old, new) ELSE @[n]]]

\* A new BufferOp of the type of b, with the default depth.
AddBuffer(s, new, b) ==
    [s EXCEPT !.isArg = Put(@, new, FALSE),
              !.ext   = Put(@, new, @[b]),
              !.depth = Put(@, new, 1)]

AddNodeAfter(s, n, new, ins, outs, level, body) ==
    [s EXCEPT !.order = InsertAt(@, Position(@, n) + 1, new),
              !.ins   = Put(@, new, ins),
              !.outs  = Put(@, new, outs),
              !.level = Put(@, new, level),
              !.body  = Put(@, new, body)]

DropNodes(s, N) ==
    [s EXCEPT !.order = Arranged(@, Range(@) \ N),
              !.ins   = Restrict(@, DOMAIN @ \ N),
              !.outs  = Restrict(@, DOMAIN @ \ N),
              !.level = Restrict(@, DOMAIN @ \ N),
              !.body  = Restrict(@, DOMAIN @ \ N)]

\* fuseNodeOps: the outputs are the union of the outputs, the inputs those of
\* no output, with the tap of the first node that lists them; the new node
\* stands after the last node and has no level.
FuseNodeOps(s, seq, level) ==
    LET N    == Range(seq)
        outs == UNION {s.outs[n] : n \in N}
        ins  == (UNION {DOMAIN s.ins[n] : n \in N}) \ outs
        tap(b) == LET first == CHOOSE i \in DOMAIN seq :
                          /\ b \in DOMAIN s.ins[seq[i]]
                          /\ \A j \in 1..(i - 1) : b \notin DOMAIN s.ins[seq[j]]
                  IN  s.ins[seq[first]][b]
        body == FlattenSeq([i \in DOMAIN seq |-> s.body[seq[i]]])
    IN  DropNodes(AddNodeAfter(s, seq[Len(seq)], FreshNode(s),
                               [b \in ins |-> tap(b)], outs, level, body), N)

-----------------------------------------------------------------------------
(* What a schedule computes, executed node by node in block order: which    *)
(* write each read of a task observes (copies are transparent), and which   *)
(* write each argument holds in the end.                                    *)

Undefined == <<-1, -1>>

Run(s) ==
    LET exec(st, a) ==
          LET src(slot) == st.env[a.rd[slot]]
          IN IF a.task = Copy
             THEN [st EXCEPT !.env[a.wr[0]] = src(0)]
             ELSE [env  |-> [b \in DOMAIN st.env |->
                               IF \E x \in DOMAIN a.wr : a.wr[x] = b
                               THEN <<a.task, CHOOSE x \in DOMAIN a.wr : a.wr[x] = b>>
                               ELSE st.env[b]],
                   seen |-> st.seen
                       \cup {<<a.task, x, src(x)>> : x \in DOMAIN a.rd \ a.dead}
                       \cup {<<a.task, x, st.env[a.wr[x]]>> : x \in a.keep}]
    IN  FoldLeft(exec,
                 [env  |-> [b \in Buffers(s) |->
                               IF s.isArg[b] THEN <<0, b>> ELSE Undefined],
                  seen |-> {}],
                 FlattenSeq([i \in DOMAIN s.order |-> s.body[s.order[i]]]))

Meaning(s) ==
    LET end == Run(s)
    IN  [seen  |-> end.seen,
         final |-> {<<b, end.env[b]>> : b \in {b \in Buffers(s) :
                       s.isArg[b] /\ end.env[b] # <<0, b>>}}]

\* The node that runs a task, and the step of its body that does.
NodeOf(s, t) == CHOOSE n \in Nodes(s) : \E i \in DOMAIN s.body[n] : s.body[n][i].task = t
StepOf(s, t) == CHOOSE i \in DOMAIN s.body[NodeOf(s, t)] : s.body[NodeOf(s, t)][i].task = t

-----------------------------------------------------------------------------
ScheduleTypeOK(s) ==
    /\ s = [order |-> s.order, ins |-> s.ins, outs |-> s.outs, level |-> s.level,
            body |-> s.body, isArg |-> s.isArg, ext |-> s.ext, depth |-> s.depth,
            depFree |-> s.depFree, isLegal |-> s.isLegal, tokens |-> s.tokens]
    /\ s.order \in Seq(Nodes(s)) /\ Nodes(s) \subseteq Nat
    /\ Range(s.order) = Nodes(s) /\ IsInjective(s.order)
    /\ Buffers(s) \subseteq Nat /\ IsFiniteSet(Buffers(s))
    /\ s.outs \in [Nodes(s) -> SUBSET Buffers(s)]
    /\ DOMAIN s.ins = Nodes(s) /\ DOMAIN s.body = Nodes(s)
    /\ \A n \in Nodes(s) : /\ DOMAIN s.ins[n] \subseteq Buffers(s) \ s.outs[n]
                          /\ s.ins[n] \in [DOMAIN s.ins[n] -> Nat]
    /\ s.level \in [Nodes(s) -> Nat \cup {NoLevel}]
    /\ s.isArg \in [Buffers(s) -> BOOLEAN]
    /\ s.ext \in [Buffers(s) -> BOOLEAN]
    /\ s.depth \in [Buffers(s) -> Nat \ {0}]
    /\ s.depFree \in BOOLEAN /\ s.isLegal \in BOOLEAN

\* LowerDataflow builds well-formed schedules in which no node has a level and all
\* inputs are read at the first tap.
Unscheduled(s) ==
    /\ ScheduleTypeOK(s) /\ ~s.isLegal
    /\ \A n \in Nodes(s) : ~Leveled(s, n) /\ \A b \in DOMAIN s.ins[n] : s.ins[n][b] = 0

ASSUME SchedulesAssumption == \A s \in Schedules : Unscheduled(s)
=============================================================================
