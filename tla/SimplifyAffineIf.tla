-------------------------- MODULE SimplifyAffineIf --------------------------
(***************************************************************************)
(* The pass SimplifyAffineIf, as far as a schedule can tell: an affine.if   *)
(* that never holds goes, with the accesses that only it performed.         *)
(***************************************************************************)
EXTENDS DataflowIR

HasDeadIf(s, n) == \E i \in DOMAIN s.body[n] : s.body[n][i].dead # {}

\* The access that is left of a when its dead reads go.
WithoutDead(a) == [a EXCEPT !.rd = Restrict(a.rd, DOMAIN a.rd \ a.dead), !.dead = {}]

\* Pattern RemoveRedundantIf in the body of node n.
RemoveRedundantIf(n) ==
    /\ HasDeadIf(ir, n)
    /\ ir' = [ir EXCEPT !.body[n] = [i \in DOMAIN @ |-> WithoutDead(@[i])]]

SimplifyAffineIfApplies == \E n \in Nodes(ir) : HasDeadIf(ir, n)
=============================================================================
