------------------------- MODULE CreateTokenStream --------------------------
(***************************************************************************)
(* The pass CreateTokenStream: the nodes of a legal schedule that depend on *)
(* each other through DRAM wait for a token of the producer.                *)
(***************************************************************************)
EXTENDS DataflowIR

\* The DRAM buffers that get tokens: those with exactly one producer.
TokenBuffers(s) ==
    {b \in Buffers(s) : s.ext[b] /\ Cardinality(Producers(s, b)) = 1}

\* Mutant of Tokens: a consumer one level below is taken to need none.
Tokens_FarOnly(s, b) ==
    LET p == CHOOSE p \in Nodes(s) : Producers(s, b) = {p}
        d(c) == s.level[p] - s.level[c]
    IN  {[buffer |-> b, producer |-> p, consumer |-> c, depth |-> d(c), tap |-> d(c) - 1] :
            c \in {c \in DependentConsumers(s, b, p) : d(c) > 1}}

\* One stream per dependent consumer, as deep as the consumer is levels away;
\* the consumer taps its last stage.
Tokens(s, b) ==
    LET p == CHOOSE p \in Nodes(s) : Producers(s, b) = {p}
    IN  {[buffer |-> b, producer |-> p, consumer |-> c,
          depth |-> s.level[p] - s.level[c], tap |-> s.level[p] - s.level[c] - 1] :
            c \in DependentConsumers(s, b, p)}

CreateTokenStream ==
    ir' = IF ir.isLegal
          THEN [ir EXCEPT !.tokens = UNION {Tokens(ir, b) : b \in TokenBuffers(ir)}]
          ELSE ir
=============================================================================
