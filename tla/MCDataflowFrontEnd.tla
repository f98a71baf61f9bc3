-------------------------- MODULE MCDataflowFrontEnd --------------------------
(***************************************************************************)
(* The functions the front end is checked on: sequences of a few kinds of   *)
(* items, over a memory A, allocated or an argument, and an argument B.     *)
(***************************************************************************)
EXTENDS DataflowFrontEnd

A == 1
B == 2
C == 3

NoOp == [id |-> 0, kind |-> "value", mem |-> None, addr |-> 1, args |-> << >>, cond |-> None,
         parent |-> 0, branch |-> "top", rd |-> {}, wr |-> {}, copies |-> FALSE]

Alloc(m)  == [NoOp EXCEPT !.kind = "alloc", !.mem = m]
Store(m)  == [NoOp EXCEPT !.kind = "store", !.mem = m]
Load      == [NoOp EXCEPT !.kind = "load", !.mem = A]
LoadC     == [Load EXCEPT !.mem = C]
Copy(m, n) == [NoOp EXCEPT !.kind = "copy", !.rd = {m}, !.wr = {n}, !.copies = TRUE]
If(c)     == [NoOp EXCEPT !.kind = "if", !.cond = c]
Loop(R, W) == [NoOp EXCEPT !.kind = "loop", !.rd = R, !.wr = W]
Then(op)  == [op EXCEPT !.branch = "then"]
Else(op)  == [op EXCEPT !.branch = "else"]

\* An item is an operation, with those in it; the operations that use a value use
\* the last one that was loaded.
Plain == {<<Store(A)>>, <<Load, Store(B)>>,
          <<If("c"), Then(Store(A))>>, <<If("c"), Then(Store(B)), Else(Store(A))>>,
          <<Loop({A}, {B})>>}
More == {<<If("d"), Then(Store(A))>>, <<If("c"), Then(Load), Then(Store(B))>>,
         <<If("c"), Then(Store(A)), Then(Store(B))>>,
         <<Loop({}, {A})>>, <<[Loop({A, B}, {A, B}) EXCEPT !.kind = "call"]>>}

\* Ids are 10 * i + j for operation j of item i; a store takes the value loaded in
\* its own item, or else an argument of its own; a loop takes all values loaded at
\* the top before it if uses is set.
Number(items, uses) ==
    LET loads(i) == {10 * k + 1 : k \in {k \in 1..(i - 1) : items[k][1] = Load}}
        args(i, j) ==
            CASE items[i][j].kind = "loop" -> IF uses THEN SetToSeq(loads(i)) ELSE << >>
              [] items[i][j].kind = "store" ->
                    LET own == {k \in 1..(j - 1) : items[i][k].kind = "load"}
                    IN  IF own # {} THEN <<10 * i + Max(own)>> ELSE << -10 * i - j >>
              [] OTHER -> << >>
        number(i) == [j \in DOMAIN items[i] |->
                        [items[i][j] EXCEPT !.id = 10 * i + j, !.args = args(i, j),
                           !.parent = IF items[i][j].branch = "top" THEN 0 ELSE 10 * i + 1]]
    IN  FlattenSeq([i \in DOMAIN items |-> number(i)])

Function(items, uses, result, neverTrue) ==
    LET b == Number(items, uses)
        loads == {b[i].id : i \in {i \in DOMAIN b : b[i].kind = "load" /\ b[i].parent = 0}}
    IN  [ops |-> b, returned |-> IF result /\ loads # {} THEN <<Max(loads)>> ELSE << >>,
         neverTrue |-> neverTrue, alwaysTrue |-> {}, memoryOpts |-> FALSE]

Local(s) == <<<<Alloc(A)>>, <<Store(A)>>>> \o s

\* Every sequence of up to three items.
Short == UNION {[1..n -> Plain \cup More] : n \in 1..3}

\* Loops that use the values before them, and a tail without a loop.
Long == {<<<<Load, Store(B)>>, <<Loop({A}, {B})>>>> \o s :
            s \in [1..2 -> {<<Loop({A}, {B})>>, <<Load, Store(B)>>, <<Loop({}, {A})>>}]}

\* A copy between two buffers, each an argument or not, with accesses of both behind.
Copies ==
    {locals \o before \o <<<<Copy(A, C)>>>> \o behind :
        locals \in {<<>>, <<<<Alloc(A)>>>>, <<<<Alloc(C)>>>>, <<<<Alloc(A)>>, <<Alloc(C)>>>>,
                     <<<<Alloc(C)>>, <<Alloc(A)>>>>},
        before \in {<<<<Store(A)>>>>, <<<<Store(A)>>, <<Store(C)>>>>, <<<<Store(A)>>, <<Load, Store(B)>>>>},
        behind \in UNION {[1..n -> {<<Store(A)>>, <<Store(C)>>, <<Load, Store(B)>>, <<LoadC, Store(B)>>,
                                  <<If("c"), Then(Store(C))>>, <<Copy(C, A)>>, <<Loop({C}, {A})>>,
                                  <<[Loop({A}, {C}) EXCEPT !.kind = "call"]>>}] : n \in 1..2}}

Optimized(f, neverTrue, alwaysTrue) ==
    [f EXCEPT !.memoryOpts = TRUE, !.neverTrue = neverTrue, !.alwaysTrue = alwaysTrue]

MCPrograms ==
    {Function(s, FALSE, FALSE, {}) : s \in Copies}
    \cup {Optimized(Function(s, FALSE, FALSE, {}), {}, {}) : s \in Short}
    \cup {Optimized(Function(s, FALSE, FALSE, {}), q[1], q[2]) :
            s \in {s \in Short : Len(s) < 3}, q \in {<<{"c"}, {}>>, <<{}, {"c"}>>}}
    \cup {Function(s, FALSE, FALSE, neverTrue) : s \in Short, neverTrue \in {{}, {"c"}}}
    \cup {Function(Local(s), FALSE, FALSE, {}) : s \in Short}
    \cup {Function(s, FALSE, TRUE, {}) : s \in [1..2 -> Plain]}
    \cup {Function(s, uses, result, {}) :
            s \in Long \cup {Local(s) : s \in Long}, uses \in BOOLEAN, result \in BOOLEAN}
=============================================================================
