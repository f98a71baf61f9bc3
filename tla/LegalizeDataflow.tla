-------------------------- MODULE LegalizeDataflow --------------------------
(***************************************************************************)
(* The pass LegalizeDataflow: nodes of one level that share an input are    *)
(* fused, the levels a bypassing edge jumps over are fused, and a schedule  *)
(* with a level on every node is marked legal.                              *)
(***************************************************************************)
EXTENDS DataflowIR

AllLeveled(s) == \A n \in Nodes(s) : Leveled(s, n)
LevelNodes(s, l) == {n \in Nodes(s) : s.level[n] = l}
LevelsOf(s) == {s.level[n] : n \in Nodes(s)}

-----------------------------------------------------------------------------
(* Pattern FuseMultiConsumer *)

ShareInput(s, n, m) == DOMAIN s.ins[n] \cap DOMAIN s.ins[m] # {}

\* Of the nodes in peers, those in C have no input in common with others.
ClosedUnderSharing(s, C, peers) ==
    \A k \in C : \A m \in peers : ShareInput(s, k, m) => m \in C

ReachedBySharing(s, n, peers) ==
    {m \in peers : \A C \in SUBSET peers :
        n \in C /\ ClosedUnderSharing(s, C, peers) => m \in C}

\* Mutant of SharingGroup: the level is not compared.
SharingGroup_AnyLevel(s, n) == ReachedBySharing(s, n, Nodes(s))

\* collectNodes: the nodes of n's level that a chain of shared inputs reaches.
SharingGroup(s, n) == ReachedBySharing(s, n, LevelNodes(s, s.level[n]))

SharingGroups(s) ==
    {G \in {SharingGroup(s, n) : n \in Nodes(s)} : Cardinality(G) > 1}

FuseGroup(s, G) ==
    FuseNodeOps(s, InBlockOrder(s, G), s.level[CHOOSE n \in G : TRUE])

CanFuseMultiConsumer == AllLeveled(ir) /\ SharingGroups(ir) # {}

FuseMultiConsumer ==
    /\ CanFuseMultiConsumer
    /\ ir' = ForEachIn(SharingGroups(ir), FuseGroup, ir)

-----------------------------------------------------------------------------
(* Pattern FuseBypassPath *)

\* How many levels the internal edges out of level l span.
Spans(s, l) ==
    {s.level[e[1]] - s.level[e[2]] : e \in
        {e \in LevelNodes(s, l) \X Nodes(s) :
            \E b \in s.outs[e[1]] :
                /\ ~(s.isArg[b] /\ s.depFree) /\ ~s.ext[b]
                /\ e[2] \in DependentConsumers(s, b, e[1])}}

\* The longest of them, 1 when none is longer.  For an edge that goes up the unsigned
\* difference wraps, and the loop from target level - 1 down to target level - difference
\* is over at once.
MaxBypass(s, l) ==
    IF \E d \in Spans(s, l) : d < 0 THEN 1 ELSE Max({1} \cup Spans(s, l))

\* collectBypassNodes: the levels jumped over from l, and from those in turn.
BypassedLevels(s, l) ==
    LET below[k \in 0..l] ==
            IF MaxBypass(s, k) = 1 THEN {}
            ELSE UNION {{j} \cup below[j] : j \in (k - MaxBypass(s, k))..(k - 1)}
    IN  below[l]

\* A bypass down to level 0 lets the unsigned loop counter of collectBypassNodes
\* wrap: level >= targetLevel - maxDiff = 0 never fails.
WrapsAround(s) == \E l \in LevelsOf(s) : l > 0 /\ MaxBypass(s, l) = l /\ l > 1

BypassTargets(s) ==
    {l \in LevelsOf(s) :
        /\ BypassedLevels(s, l) # {}
        /\ \A k \in LevelsOf(s) : k > l => l \notin BypassedLevels(s, k)}

BypassedNodes(s, l) == {n \in Nodes(s) : s.level[n] \in BypassedLevels(s, l)}

CanFuseBypassPath ==
    /\ AllLeveled(ir)
    /\ \/ WrapsAround(ir)
       \/ \E l \in BypassTargets(ir) : Cardinality(BypassedNodes(ir, l)) > 1

\* The level of the fused node is read from the first of the nodes it replaces,
\* after that node is erased: the freed attribute may still hold the level of
\* any node.
FuseBypass(s, l, level) ==
    IF Cardinality(BypassedNodes(s, l)) > 1
    THEN FuseNodeOps(s, InBlockOrder(s, BypassedNodes(s, l)), level)
    ELSE s

FuseBypassPath ==
    /\ CanFuseBypassPath
    /\ ~WrapsAround(ir)
    /\ \E stale \in [BypassTargets(ir) -> LevelsOf(ir)] :
          ir' = ForEachIn(BypassTargets(ir), LAMBDA t, l : FuseBypass(t, l, stale[l]), ir)

-----------------------------------------------------------------------------
(* What the pass does after the patterns *)

\* Mutant of MarkLegal: the levels are not asked for.
MarkLegal_Always == ir' = [ir EXCEPT !.isLegal = TRUE]

MarkLegal ==
    ir' = [ir EXCEPT !.isLegal = @ \/ AllLeveled(ir)]

LegalizeDataflowApplies == CanFuseMultiConsumer \/ CanFuseBypassPath
=============================================================================
