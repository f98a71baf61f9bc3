---------------------------- MODULE PortSchedule ----------------------------
(***************************************************************************)
(* What a schedule of memory accesses and operators promises: operations    *)
(* are placed one by one, on a time that runs backwards, each after every   *)
(* operation that must follow it, and no memory bank is asked on any level  *)
(* for more reads and writes than it has ports.                             *)
(***************************************************************************)
EXTENDS Naturals, FiniteSets

VARIABLES problem,            \* the operations to place; see IsProblem
          placed              \* the levels of those that are placed

vars == <<problem, placed>>

IsProblem(pr) ==
    /\ pr.after \subseteq pr.ops \X pr.ops          \* <<i, j>>: j must not start before i ends
    /\ pr.reads \subseteq pr.ops
    /\ DOMAIN pr.latency = pr.ops /\ DOMAIN pr.banks = pr.ops /\ DOMAIN pr.word = pr.ops

\* Reads of one word on one level share a port.
Fits(bank, at) ==
    LET here   == {i \in DOMAIN placed : placed[i].begin = at /\ bank \in problem.banks[i]}
        reads  == Cardinality({problem.word[i] : i \in here \cap problem.reads})
        writes == Cardinality(here \ problem.reads)
        ports  == problem.ports[bank]
    IN  /\ reads <= ports.rd + ports.rdwr
        /\ writes <= ports.wr + ports.rdwr
        /\ reads + writes <= ports.rd + ports.wr + ports.rdwr

\* Any level will do that is late enough.
Place(i) ==
    LET at == placed'[i].begin
    IN  /\ i \in DOMAIN placed' \ DOMAIN placed /\ at \in Nat
        /\ placed' = [j \in DOMAIN placed \cup {i} |->
                        IF j = i THEN [begin |-> at, end |-> at + problem.latency[i]] ELSE placed[j]]
        /\ \A j \in problem.ops :
              <<i, j>> \in problem.after => j \in DOMAIN placed /\ placed[j].end <= at
        /\ \A bank \in problem.banks[i] : Fits(bank, placed[i].begin)'
        /\ UNCHANGED problem

Init == IsProblem(problem) /\ placed = << >>

Next == \E i \in problem.ops : Place(i)

Spec == Init /\ [][Next]_vars
=============================================================================
