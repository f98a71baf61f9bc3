------------------------ MODULE BalanceDataflowNode -------------------------
(***************************************************************************)
(* The pass BalanceDataflowNode: data that skips levels is kept alive, by   *)
(* the depth of a DRAM buffer and the taps of its readers, or by a chain of *)
(* copy nodes through one internal buffer per level.                        *)
(***************************************************************************)
EXTENDS DataflowIR

Diff(s, n, c) == s.level[n] - s.level[c]

\* The arguments of a dependence-free schedule are not balanced.
NotBalanced(s, b) == s.isArg[b] /\ s.depFree

\* Mutant of FarConsumers: two levels are near.
FarConsumers_MoreThanTwo(s, b, n) ==
    {c \in DependentConsumers(s, b, n) : Diff(s, n, c) > 2}

FarConsumers(s, b, n) == {c \in DependentConsumers(s, b, n) : Diff(s, n, c) > 1}
MaxDiff(s, b, n)      == Max({Diff(s, n, c) : c \in FarConsumers(s, b, n)})

\* Mutant of DeepenBuffer: the stage that is being written is not counted.
DeepenBuffer_OneLess(s, b, n) ==
    [s EXCEPT !.depth[b] = MaxDiff(s, b, n) - 1,
              !.ins = [c \in DOMAIN @ |->
                          IF c \in FarConsumers(s, b, n)
                          THEN [@[c] EXCEPT ![b] = Diff(s, n, c) - 1] ELSE @[c]]]

\* A DRAM BufferOp becomes as deep as its farthest reader is away.
DeepenBuffer(s, b, n) ==
    [s EXCEPT !.depth[b] = MaxDiff(s, b, n),
              !.ins = [c \in DOMAIN @ |->
                          IF c \in FarConsumers(s, b, n)
                          THEN [@[c] EXCEPT ![b] = Diff(s, n, c) - 1] ELSE @[c]]]

\* Mutant of ChainCopies: one copy for all the levels.
ChainCopies_OneHop(s, b, n) ==
    LET buf == FreshBuffer(s)
    IN  ReplaceUses(AddNodeAfter(AddBuffer(s, buf, b), n, FreshNode(s), [x \in {b} |-> 0],
                                 {buf}, s.level[n] - 1, <<CopyOp(b, buf)>>),
                    b, buf, DependentConsumers(s, b, n))

\* Any other buffer: hop i, i = 2..MaxDiff, copies the data one level down to a
\* new buffer, from which the consumers i levels below n read.
ChainCopies(s, b, n) ==
    LET hop(t, i) ==
          LET buf  == FreshBuffer(t.s)
              node == FreshNode(t.s)
              grown == AddNodeAfter(AddBuffer(t.s, buf, b), t.node, node,
                                    [x \in {t.buf} |-> 0], {buf}, s.level[n] + 1 - i,
                                    <<CopyOp(t.buf, buf)>>)
              here == {c \in FarConsumers(s, b, n) : Diff(s, n, c) = i}
          IN  [s |-> ReplaceUses(grown, b, buf, here), buf |-> buf, node |-> node]
    IN  ForEachOf([i \in 1..(MaxDiff(s, b, n) - 1) |-> i + 1], hop,
                  [s |-> s, buf |-> b, node |-> n]).s

BalanceOutput(s, b, n) ==
    IF NotBalanced(s, b) \/ FarConsumers(s, b, n) = {} THEN s
    ELSE IF ~s.isArg[b] /\ s.ext[b] THEN DeepenBuffer(s, b, n)
    ELSE ChainCopies(s, b, n)

Balanced(s, n) == ForEachIn(s.outs[n], LAMBDA t, b : BalanceOutput(t, b, n), s)

\* The unsigned difference to a consumer on a higher level wraps: the pass makes copies
\* for billions of levels, and the model has no step from there.
DiffWraps(s, n) ==
    /\ Leveled(s, n)
    /\ \E b \in s.outs[n] : /\ ~NotBalanced(s, b)
                            /\ \E c \in DependentConsumers(s, b, n) : Diff(s, n, c) < 0

\* Pattern InsertCopyNode at node n.  The pattern reports success even when it
\* has nothing to do; only the applications that change the schedule are steps.
InsertCopyNode(n) ==
    /\ Leveled(ir, n) /\ ~DiffWraps(ir, n)
    /\ ir' = Balanced(ir, n)
    /\ ir' # ir

BalanceDataflowNodeApplies ==
    \E n \in Nodes(ir) : DiffWraps(ir, n) \/ (Leveled(ir, n) /\ Balanced(ir, n) # ir)
=============================================================================
