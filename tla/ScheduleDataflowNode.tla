------------------------ MODULE ScheduleDataflowNode ------------------------
(***************************************************************************)
(* The pass ScheduleDataflowNode: as-late-as-possible levels, 0 at the      *)
(* nodes nothing depends on.  A greedy driver tries the pattern on nodes in *)
(* any order until it applies to none.                                      *)
(***************************************************************************)
EXTENDS DataflowIR

CONSTANT IgnoreViolations    \* the pass option ignore-violations

ASSUME OptionAssumption == IgnoreViolations \in BOOLEAN

\* All nodes that depend on n through one of its outputs.
Dependents(s, n) == UNION {DependentConsumers(s, b, n) : b \in s.outs[n]}

\* An internal output with several producers or several dependent consumers.
\* DRAM outputs are left to the tokens of CreateTokenStream.
HasViolation(s, n) ==
    \E b \in s.outs[n] :
        /\ ~s.ext[b]
        /\ \/ Cardinality(DependentConsumers(s, b, n)) > 1
           \/ Cardinality(Producers(s, b)) > 1

\* Mutants of CanSchedule: dependents without a level are passed over; every
\* consumer is waited for; a node with a level is scheduled again.
CanSchedule_NoWait(s, n) ==
    ~Leveled(s, n) /\ (IgnoreViolations \/ ~HasViolation(s, n))

CanSchedule_AnyConsumer(s, n) ==
    /\ CanSchedule_NoWait(s, n)
    /\ \A b \in s.outs[n] : \A c \in Consumers(s, b) \ {n} : Leveled(s, c)

CanSchedule_Again(s, n) ==
    /\ IgnoreViolations \/ ~HasViolation(s, n)
    /\ \A c \in Dependents(s, n) : Leveled(s, c)

CanSchedule(s, n) ==
    /\ ~Leveled(s, n)
    /\ IgnoreViolations \/ ~HasViolation(s, n)
    /\ \A c \in Dependents(s, n) : Leveled(s, c)

\* Mutant of IsLatestLevel: one dependent decides, not the maximum.
IsLatestLevel_OneDependent(s, n, l) ==
    \/ Dependents(s, n) = {} /\ l = 0
    \/ \E c \in Dependents(s, n) : l = s.level[c] + 1

\* l is the running maximum over all dependents of their level plus one.
IsLatestLevel(s, n, l) ==
    IF Dependents(s, n) = {}
    THEN l = 0
    ELSE /\ \E c \in Dependents(s, n) : l = s.level[c] + 1
         /\ \A c \in Dependents(s, n) : s.level[c] + 1 <= l

\* Pattern ALAPScheduleNode at node n.
ALAPScheduleNode(n) ==
    /\ CanSchedule(ir, n)
    /\ \E l \in {0} \cup {ir.level[c] + 1 : c \in Dependents(ir, n)} :
          /\ IsLatestLevel(ir, n, l)
          /\ ir' = [ir EXCEPT !.level[n] = l]

ScheduleDataflowNodeApplies == \E n \in Nodes(ir) : CanSchedule(ir, n)

-----------------------------------------------------------------------------
(* The pass on its own *)

ScheduleInit == ir \in Schedules
ScheduleNext == \E n \in Nodes(ir) : ALAPScheduleNode(n)
ScheduleSpec == ScheduleInit /\ [][ScheduleNext]_ir /\ WF_ir(ScheduleNext)

-----------------------------------------------------------------------------
(* Properties *)

\* What k = 0..|Nodes| dependences lead to from n.
After(s, n) ==
    LET step[k \in 0..Cardinality(Nodes(s))] ==
            IF k = 0 THEN {n} ELSE UNION {Dependents(s, m) : m \in step[k - 1]}
    IN  step

\* In every state of the pass each level satisfies the equation of ALAP: it was
\* computed from the levels of all dependents, none of which moved since, and not
\* under a violation.  (The inductive invariant of the proofs.)
Settled(s) ==
    \A n \in Nodes(s) : Leveled(s, n) =>
        /\ IgnoreViolations \/ ~HasViolation(s, n)
        /\ \A c \in Dependents(s, n) : Leveled(s, c)
        /\ IsLatestLevel(s, n, s.level[n])

LevelsSettled == Settled(ir)

\* The passes that follow subtract the level of a dependent from the level of
\* its producer as unsigned numbers, after value() on both: when a node has a
\* level, all that depends on it has a smaller one.
LevelAboveDependents ==
    \A n \in Nodes(ir) : Leveled(ir, n) =>
        \A c \in Dependents(ir, n) : Leveled(ir, c) /\ ir.level[c] < ir.level[n]

\* As late as possible: the level of a node is the number of dependences on the
\* longest path from it, no more and no less.
LevelIsLongestPath ==
    \A n \in Nodes(ir) : Leveled(ir, n) =>
        /\ ir.level[n] \in DOMAIN After(ir, n)
        /\ After(ir, n)[ir.level[n]] # {}
        /\ \A k \in DOMAIN After(ir, n) : k > ir.level[n] => After(ir, n)[k] = {}

\* When the pass is done, a node it left without a level waits for a violation
\* or for a cycle of dependences: one visit too few would leave others.
UnscheduledForACause ==
    ~ScheduleDataflowNodeApplies =>
        \A n \in Nodes(ir) : ~Leveled(ir, n) =>
            \E k \in DOMAIN After(ir, n) : \E m \in After(ir, n)[k] :
                \/ HasViolation(ir, m) /\ ~IgnoreViolations
                \/ \E j \in DOMAIN After(ir, m) \ {0} : m \in After(ir, m)[j]

\* The pass ends: the greedy driver runs out of nodes to schedule.
ScheduleTerminates == <>[](~ScheduleDataflowNodeApplies)
=============================================================================
