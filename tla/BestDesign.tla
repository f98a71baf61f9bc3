------------------------------ MODULE BestDesign ------------------------------
(***************************************************************************)
(* What the design space exploration promises of a function, with nothing   *)
(* said of frontiers, pruning or the order of the search: designs are found *)
(* by adding to those found before, and of all of them the fastest that     *)
(* fits is chosen, unless the search is given up.                           *)
(***************************************************************************)
EXTENDS Naturals

CONSTANTS MaxDspNum, NoDesign

VARIABLES phase, found, chosen

vars == <<phase, found, chosen>>

Fitting(F) == {f \in F : f.dspNum <= MaxDspNum}
Fastest(F) == {f \in Fitting(F) : \A g \in Fitting(F) : f.latency <= g.latency}

Init ==
    /\ phase = "searching"
    /\ found = {NoDesign}
    /\ chosen = NoDesign

\* What is added to a design costs time and DSPs, or nothing.
Extend ==
    /\ phase = "searching" /\ phase' \in {"searching", "givenUp"}
    /\ \A g \in found' : \E f \in found : f.latency <= g.latency /\ f.dspNum <= g.dspNum
    /\ UNCHANGED chosen

GiveUp ==
    /\ phase = "searching" /\ phase' = "givenUp"
    /\ UNCHANGED <<found, chosen>>

Choose ==
    /\ phase = "searching" /\ phase' = "chosen"
    /\ chosen' \in IF Fitting(found) = {} THEN {NoDesign} ELSE Fastest(found)
    /\ UNCHANGED found

Next == Extend \/ GiveUp \/ Choose

Spec == Init /\ [][Next]_vars
=============================================================================
