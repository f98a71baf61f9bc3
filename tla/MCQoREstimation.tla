--------------------------- MODULE MCQoREstimation ---------------------------
(***************************************************************************)
(* Small functions for the estimation: accesses in straight line code, in   *)
(* loops that are pipelined, flattened or neither, and around them.         *)
(***************************************************************************)
EXTENDS QoREstimation, TLC

CONSTANTS A, B

Base == [kind |-> "operator", parent |-> 0, users |-> {}, latency |-> 0, memref |-> A,
         partitions |-> {}, maxMuxSize |-> 1, access |-> 0, trip |-> 0, targetII |-> 0,
         flatten |-> FALSE, parallel |-> FALSE]

Operator(parent, latency, users) ==
    [Base EXCEPT !.parent = parent, !.latency = latency, !.users = users]
Access(kind, parent, m, parts, x, users) ==
    [Base EXCEPT !.kind = kind, !.parent = parent, !.memref = m, !.partitions = parts,
                 !.access = x, !.users = users]
Read(parent, m, parts, x, users) == Access("read", parent, m, parts, x, users)
Write(parent, m, parts, x) == Access("write", parent, m, parts, x, {})
Muxed(op, size) == [op EXCEPT !.maxMuxSize = size, !.partitions = 1..size]
Loop(parent, trip, ii) == [Base EXCEPT !.kind = "loop", !.parent = parent, !.trip = trip,
                                       !.targetII = ii]
Flat(loop) == [loop EXCEPT !.flatten = TRUE]
Parallel(loop) == [loop EXCEPT !.parallel = TRUE]

Memories(x, y) == A :> x @@ B :> y
Ram(kind, n) == [kind |-> kind, partitionNum |-> n, single |-> FALSE]
Register == [kind |-> "2P", partitionNum |-> 1, single |-> TRUE]

Dep(from, to, by, distance) == [from |-> from, to |-> to, by |-> by, distance |-> distance]

Function(ops, memory, deps, analysis) ==
    [ops |-> ops, memory |-> memory, dependences |-> deps, depAnalysis |-> analysis]

Kinds == {"1P", "2P", "S2P", "T2P", "DRAM", "other"}

\* Reads, some of one address, and writes, of one or both partitions.
Straight(kind, x, parts) ==
    Function(<<Read(0, A, {1}, 1, {4}), Read(0, A, parts, x, {4}), Read(0, A, parts, x, {4}),
               Operator(0, 3, {}), Write(0, A, parts, 3), Muxed(Write(0, A, {1, 2}, 4), 2)>>,
             Memories(Ram(kind, 2), Register),
             {Dep(2, 3, 0, 0), Dep(1, 3, 0, 0), Dep(1, 2, 0, 0)}, TRUE)

\* A reduction in a loop: A is read, worked on and written back, dist apart.
Reduction(kind, ii, dist, mux, par, analysis) ==
    Function(<<IF par THEN Parallel(Loop(0, 4, ii)) ELSE Loop(0, 4, ii),
               Read(1, B, {1, 2}, 3, {5}), Read(1, B, {2}, 4, {5}),
               Muxed(Read(1, A, {1}, 1, {5}), mux), Operator(1, 4, {6}),
               Muxed(Write(1, A, {1}, 1), mux), Write(1, A, {1}, 2)>>,
             Memories(Ram(kind, mux), Ram("T2P", 2)),
             {Dep(4, 6, 0, 0), Dep(6, 4, 1, dist), Dep(7, 4, 1, dist), Dep(6, 7, 1, 1)},
             analysis)

\* What an iteration writes the next one reads, later in the body.
Forwarded(kind, ii, par, analysis) ==
    Function(<<IF par THEN Parallel(Loop(0, 3, ii)) ELSE Loop(0, 3, ii),
               Read(1, B, {1}, 1, {3}), Operator(1, 2, {4}), Write(1, A, {1}, 1),
               Read(1, A, {1}, 2, {6}), Write(1, B, {1}, 2)>>,
             Memories(Ram(kind, 1), Ram(kind, 1)), {Dep(4, 5, 1, 1), Dep(6, 2, 1, 2)},
             analysis)

\* Two loops, the outer one flattened or not, with code before and after.
Nested(outer, inner, trip, after) ==
    Function(<<Read(0, B, {1}, 1, {7}), outer, inner, Read(3, A, {1}, 1, {5}),
               Operator(3, 3, {6}), Write(3, A, {1}, 1), Operator(0, 2, {}),
               Loop(0, after, 0), Read(8, A, {1}, 2, {10}), Write(8, B, {1}, 3)>>,
             Memories(Ram("S2P", 1), Register),
             {Dep(4, 6, 0, 0), Dep(6, 4, 2, trip), Dep(6, 9, 0, 0), Dep(1, 10, 0, 0)}, TRUE)

Shapes ==
    {Straight(kind, 2, parts) : kind \in Kinds, parts \in {{1}, {2}, {1, 2}}}
    \cup {Straight(kind, 1, {1}) : kind \in Kinds}
    \cup {Reduction(kind, ii, dist, mux, par, analysis) : kind \in Kinds, ii \in {1, 3},
            dist \in {0, 1, 2}, mux \in {1, 4}, par \in BOOLEAN, analysis \in BOOLEAN}
    \cup {Forwarded(kind, ii, par, analysis) : kind \in Kinds, ii \in {1, 2},
            par \in BOOLEAN, analysis \in BOOLEAN}
    \cup {Nested(outer, Loop(2, trip, ii), trip, after) :
            outer \in {Loop(0, 3, 0), Flat(Loop(0, 3, 0)), Parallel(Flat(Loop(0, 2, 0)))},
            trip \in {1, 2, 5}, ii \in {0, 1}, after \in {0, 1, 2}}
    \cup {Nested(Loop(0, 3, 1), Parallel(Flat(Loop(2, 2, 1))), 2, 1)}
    \cup {Nested(Flat(Loop(0, 3, 0)), Parallel(Loop(2, 2, 1)), 2, 1)}
=============================================================================
