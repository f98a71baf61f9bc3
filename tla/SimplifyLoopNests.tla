------------------------- MODULE SimplifyLoopNests -------------------------
(***************************************************************************)
(* Stage 1 of the design space exploration: nests of several loops are      *)
(* unrolled from the outside in, as long as the function fits the DSPs.     *)
(***************************************************************************)
EXTENDS LoopNests

CONSTANTS Forests,           \* the loops of the functions to explore
          MaxNestParallel    \* larger nests are not considered (512)

ASSUME ForestAssumption == \A f \in Forests : IsForest(f)

VARIABLES forest,            \* the loops of the function
          targetLoops,       \* the loops to look at next
          candidateLoops,    \* the nests to try, in this round
          fits,              \* does the function fit the DSPs?
          rejected           \* history: the nests that were tried and kept

nestVars == <<forest, targetLoops, candidateLoops, fits, rejected>>

SimplifyInit ==
    /\ forest \in Forests
    /\ targetLoops = {l \in Loops(forest) : forest.parent[l] = NoLoop}
    /\ candidateLoops = {}
    /\ fits \in BOOLEAN
    /\ rejected = {}

\* Mutant of Candidates: every nest of the function is a candidate at once.
Candidates_AllNests(f, targets) ==
    {l \in Loops(f) : InnerParallelism(f, l) \in 2..MaxNestParallel}

Candidates(f, targets) ==
    {l \in {InnermostLoop(f, t) : t \in targets} :
        InnerParallelism(f, l) \in 2..MaxNestParallel}

CollectCandidates ==
    /\ candidateLoops = {} /\ targetLoops # {}
    /\ candidateLoops' = Candidates(forest, targetLoops)
    /\ targetLoops' = {}
    /\ UNCHANGED <<forest, fits, rejected>>

\* The candidates are tried in the order of their parallelism; the order of
\* equal ones is that of pointers.
IsNextCandidate(l) ==
    \A m \in candidateLoops : InnerParallelism(forest, l) <= InnerParallelism(forest, m)

\* Mutant of DelveInto: the nest itself is looked at again.
DelveInto_Self(f, l) == {l}

DelveInto(f, l) == ChildLoops(f, l)

\* A copy of the function in which the body of l is unrolled is estimated; the
\* estimate is external.
TryCandidate(l) ==
    /\ l \in candidateLoops /\ IsNextCandidate(l)
    /\ candidateLoops' = candidateLoops \ {l}
    /\ \/ /\ forest' = UnrollBody(forest, l)
          /\ fits' = TRUE
          /\ UNCHANGED <<targetLoops, rejected>>
       \/ /\ targetLoops' = targetLoops \cup DelveInto(forest, l)
          /\ rejected' = rejected \cup {l}
          /\ UNCHANGED <<forest, fits>>

Simplify == CollectCandidates \/ \E l \in candidateLoops : TryCandidate(l)

Simplified == targetLoops = {} /\ candidateLoops = {}
=============================================================================
