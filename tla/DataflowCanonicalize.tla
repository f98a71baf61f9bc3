------------------------ MODULE DataflowCanonicalize ------------------------
(***************************************************************************)
(* The canonicalization patterns of the schedule, node and buffer ops.      *)
(***************************************************************************)
EXTENDS DataflowIR

-----------------------------------------------------------------------------
(* Pattern SimplifyNodeIOs *)

UsedIns(s, n)  == {b \in DOMAIN s.ins[n] : IsReadIn(s.body[n], b)}
UsedOuts(s, n) == {b \in s.outs[n] : \/ IsReadIn(s.body[n], b)
                                     \/ IsWrittenIn(s.body[n], b)}

HasUnusedPort(s, n) ==
    UsedIns(s, n) # DOMAIN s.ins[n] \/ UsedOuts(s, n) # s.outs[n]

\* The ports no access of the body uses go; taps and level stay.
SimplifyNodeIOs(n) ==
    /\ HasUnusedPort(ir, n)
    /\ ir' = [ir EXCEPT !.ins[n]  = Restrict(@, UsedIns(ir, n)),
                        !.outs[n] = UsedOuts(ir, n)]

-----------------------------------------------------------------------------
(* Pattern SinkInternalBuffer *)

Users(s, b) == Producers(s, b) \cup Consumers(s, b)

\* A block that holds the only user of an internal buffer may hold the buffer.
CanSink(s, b) == ~s.isArg[b] /\ ~s.ext[b] /\ Cardinality(Users(s, b)) = 1

SinkInternalBuffer(b) ==
    /\ CanSink(ir, b)
    /\ ir' = [ir EXCEPT
                 !.ins  = [n \in Nodes(ir) |-> Restrict(@[n], DOMAIN @[n] \ {b})],
                 !.outs = [n \in Nodes(ir) |-> @[n] \ {b}]]

-----------------------------------------------------------------------------
(* Pattern SimplifyScheduleOperands *)

\* Mutant of UnusedArgs: only the inputs count as uses.
UnusedArgs_AsInputs(s) == {b \in Buffers(s) : s.isArg[b] /\ Consumers(s, b) = {}}

UnusedArgs(s) == {b \in Buffers(s) : s.isArg[b] /\ Users(s, b) = {}}

\* The schedule is built again without its unused arguments, and without the
\* attribute isLegal.
SimplifyScheduleOperands ==
    /\ UnusedArgs(ir) # {}
    /\ ir' = [ir EXCEPT !.isArg = Restrict(@, DOMAIN @ \ UnusedArgs(ir)),
                        !.ext   = Restrict(@, DOMAIN @ \ UnusedArgs(ir)),
                        !.depth = Restrict(@, DOMAIN @ \ UnusedArgs(ir)),
                        !.isLegal = FALSE]

CanonicalizeApplies ==
    \/ \E n \in Nodes(ir) : HasUnusedPort(ir, n)
    \/ \E b \in Buffers(ir) : CanSink(ir, b)
    \/ UnusedArgs(ir) # {}
=============================================================================
