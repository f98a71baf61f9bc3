---------------------------- MODULE QoREstimation ----------------------------
(***************************************************************************)
(* The estimation of the latency of a function: its blocks are scheduled as *)
(* late as possible, from the last operation to the first, honoring the     *)
(* ports of the memories; every loop gets its latency from its body; in the *)
(* end the schedule is reversed.                                            *)
(***************************************************************************)
EXTENDS Integers, FiniteSets

CONSTANTS Programs,           \* the functions that are estimated; see WellFormed
          Many,               \* UINT_MAX, the ports of a DRAM
          NoLevel

ASSUME EstimationAssumption == Many \in Nat /\ NoLevel \notin Nat

VARIABLES p,                  \* the function
          stage,
          block,              \* the loop whose block is scheduled; 0 for the function's
          blocks,             \* begin and end of each block so far
          level,              \* the level tried for the next memory access
          memPortInfos,       \* the ports left, by level and memory
          timing,             \* the reverse schedule
          loopInfo,
          forward             \* the schedule once it is reversed

vars == <<p, stage, block, blocks, level, memPortInfos, timing, loopInfo, forward>>

-----------------------------------------------------------------------------
(* The function: operations in program order, a loop before its body.       *)
(* memory is a record of a kind, a number of partitions, and whether it has *)
(* a single element; dependences are the answers of the affine analysis:    *)
(* to may depend on from, in a later iteration of the loop by, distance     *)
(* iterations away, or, with by = 0, in the same iteration.                 *)

Ops == DOMAIN p.ops
Loops == {i \in Ops : p.ops[i].kind = "loop"}
Reads == {i \in Ops : p.ops[i].kind = "read"}
Accesses == Reads \cup {i \in Ops : p.ops[i].kind = "write"}
Memory(i) == p.memory[p.ops[i].memref]

\* Reads take two cycles, writes and registers one; an operator its profiled
\* latency and any other operation none.
Latency(i) ==
    IF i \notin Accesses THEN p.ops[i].latency
    ELSE IF i \in Reads /\ ~Memory(i).single THEN 2 ELSE 1

MaxOf(S) == CHOOSE x \in S : \A y \in S : x >= y

\* An operation and the loops around it.
Nest[i \in Ops \cup {0}] == IF i = 0 THEN {} ELSE {i} \cup Nest[p.ops[i].parent]

Body(l) == {i \in Ops : p.ops[i].parent = l}

\* The operation of the same block as i, or a loop around i, that holds j.
SameLevel(i, j) ==
    MaxOf({k \in Nest[j] : \E h \in Nest[i] : p.ops[h].parent = p.ops[k].parent})

ProperlyDominates(i, j) == i < j /\ (p.ops[i].parent = 0 \/ p.ops[i].parent \in Nest[j])

\* Two reads do not depend on each other unless one needs a function of its own
\* to find its partition; accesses that differ are only compared on request.
MayDepend(i, j) ==
    /\ p.ops[i].memref = p.ops[j].memref
    /\ ~(i \in Reads /\ j \in Reads /\ p.ops[i].maxMuxSize <= 3 /\ p.ops[j].maxMuxSize <= 3)
    /\ p.depAnalysis \/ p.ops[i].access = p.ops[j].access

\* Levels that run in parallel carry no dependence within a block.
DependsOn(i, j) ==
    \E d \in p.dependences :
        d.from = i /\ d.to = j /\ (d.by = 0 \/ ~p.ops[d.by].parallel)

\* Operations are numbered in the order of a walk through the function; what uses
\* the result of a loop comes after its body.
WellFormed(prog) ==
    /\ IsFiniteSet(DOMAIN prog.ops) /\ DOMAIN prog.ops = 1..Cardinality(DOMAIN prog.ops)
    /\ prog.depAnalysis \in BOOLEAN
    /\ \A i \in DOMAIN prog.ops :
          LET op == prog.ops[i]
          IN  /\ op.parent \in 0..(i - 1)
              /\ op.parent # 0 => prog.ops[op.parent].kind = "loop"
              /\ \A j \in DOMAIN prog.ops :
                    prog.ops[j].parent < i /\ i < j => prog.ops[j].parent <= op.parent
              /\ \A u \in op.users :
                    u \in DOMAIN prog.ops /\ \E k \in (i + 1)..u : prog.ops[k].parent < i
              /\ {op.latency, op.trip, op.targetII, op.maxMuxSize} \subseteq Nat
              /\ {op.flatten, op.parallel} \subseteq BOOLEAN
              /\ op.kind = "loop" /\ op.flatten =>
                    op.trip = 0 \/ /\ i + 1 \in DOMAIN prog.ops /\ prog.ops[i + 1].kind = "loop"
                                   /\ {j \in DOMAIN prog.ops : prog.ops[j].parent = i} = {i + 1}
    /\ \A d \in prog.dependences : d.distance \in Int /\ (d.by = 0 => d.from < d.to)
    /\ \A m \in DOMAIN prog.memory : prog.memory[m].partitionNum \in Nat
    \* An index that is not constant leaves the partition open.
    /\ \A i \in DOMAIN prog.ops :
          LET op == prog.ops[i]
          IN  op.kind \in {"read", "write"} =>
                /\ op.memref \in DOMAIN prog.memory
                /\ op.partitions # {}
                /\ op.partitions \subseteq 1..prog.memory[op.memref].partitionNum
                /\ op.maxMuxSize <= Cardinality(op.partitions)
    \* What the analysis says of identical accesses in one block.
    /\ \A i, j \in DOMAIN prog.ops :
          LET x == prog.ops[i]  y == prog.ops[j]
          IN  i < j /\ {x.kind, y.kind} \subseteq {"read", "write"} /\ x.memref = y.memref
              /\ x.access = y.access
              => /\ x.partitions = y.partitions /\ x.maxMuxSize = y.maxMuxSize
                 /\ x.parent = y.parent =>
                      [from |-> i, to |-> j, by |-> 0, distance |-> 0] \in prog.dependences

-----------------------------------------------------------------------------
(* Memory ports *)

NewPortInfo(kind) ==
    [rdPort   |-> IF kind \in {"2P", "S2P"} THEN 1 ELSE IF kind = "DRAM" THEN Many ELSE 0,
     wrPort   |-> IF kind = "S2P" THEN 1 ELSE IF kind = "DRAM" THEN Many ELSE 0,
     rdwrPort |-> CASE kind \in {"1P", "2P"}   -> 1
                    [] kind \in {"S2P", "DRAM"} -> 0
                    [] OTHER                   -> 2,
     rdAccesses |-> {}]

PortInfosAt(at, m) ==
    IF <<at, m>> \in DOMAIN memPortInfos THEN memPortInfos[<<at, m>>]
    ELSE [q \in 1..p.memory[m].partitionNum |-> NewPortInfo(p.memory[m].kind)]

\* Reads of one address in one block share a port.
Word(i) == <<p.ops[i].access, p.ops[i].parent>>

HasPort(info, i) ==
    IF i \in Reads THEN Word(i) \in info.rdAccesses \/ info.rdPort + info.rdwrPort > 0
    ELSE info.wrPort + info.rdwrPort > 0

\* Mutant of TakePort: a read that shares the port of a write does not take it.
TakePort_Shared(info, i) ==
    IF i \in Reads /\ info.rdPort = 0 THEN [info EXCEPT !.rdAccesses = @ \cup {Word(i)}]
    ELSE IF i \in Reads THEN [info EXCEPT !.rdPort = @ - 1, !.rdAccesses = @ \cup {Word(i)}]
    ELSE IF info.wrPort > 0 THEN [info EXCEPT !.wrPort = @ - 1]
    ELSE [info EXCEPT !.rdwrPort = @ - 1]

TakePort(info, i) ==
    CASE i \in Reads /\ Word(i) \in info.rdAccesses -> info
      [] i \in Reads /\ Word(i) \notin info.rdAccesses /\ info.rdPort > 0 ->
            [info EXCEPT !.rdPort = @ - 1, !.rdAccesses = @ \cup {Word(i)}]
      [] i \in Reads /\ Word(i) \notin info.rdAccesses /\ info.rdPort = 0 ->
            [info EXCEPT !.rdwrPort = @ - 1, !.rdAccesses = @ \cup {Word(i)}]
      [] i \notin Reads /\ info.wrPort > 0 -> [info EXCEPT !.wrPort = @ - 1]
      [] i \notin Reads /\ info.wrPort = 0 -> [info EXCEPT !.rdwrPort = @ - 1]

\* The partitions are taken one by one up to the first without a port; those
\* taken before it stay taken on this level.
Missing(infos, i) == {q \in p.ops[i].partitions : ~HasPort(infos[q], i)}

Taken(infos, i) ==
    [q \in DOMAIN infos |->
        IF q \in p.ops[i].partitions /\ (\A f \in Missing(infos, i) : q < f)
        THEN TakePort(infos[q], i) ELSE infos[q]]

-----------------------------------------------------------------------------
(* Loops *)

Inside(l) == {i \in Accesses : l \in Nest[i]}

\* Mutant of CountsAsAccess: only a level on which all ports are taken counts.
CountsAsAccess_Full(kind, info) == info.rdPort < 1 /\ info.rdwrPort < 1

\* Any level on which a memory without a read port of its own was accessed counts
\* as an access to each of its partitions.
CountsAsAccess(kind, info) ==
    \/ kind = "1P" /\ info.rdwrPort < 1
    \/ kind = "T2P" /\ info.rdwrPort < 2
    \/ info.rdPort < 1

ResMinII(l, begin, end) ==
    LET mems == {m \in {p.ops[i].memref : i \in Inside(l)} : p.memory[m].kind # "DRAM"}
        Info(v, m, q) == memPortInfos[<<v, m>>][q]
        Counted(v, m, q) == CountsAsAccess(p.memory[m].kind, Info(v, m, q))
        Levels(m) == {v \in begin..(end - 1) : <<v, m>> \in DOMAIN memPortInfos}
        AccessNum(m, q) == Cardinality({v \in Levels(m) : Counted(v, m, q)})
        WriteNum(m, q) ==
            Cardinality({v \in Levels(m) : ~Counted(v, m, q) /\ Info(v, m, q).wrPort < 1})
    IN  MaxOf({1} \cup UNION {UNION {{AccessNum(m, q), WriteNum(m, q)} :
                                        q \in 1..p.memory[m].partitionNum} : m \in mems})

\* Mutant of LoopDepths: the loops that are flattened into l are forgotten.
LoopDepths_Inner(l) == IF p.ops[l].parallel THEN {} ELSE {l}

\* The loops whose dependences are checked for the pipelined loop l.
LoopDepths(l) ==
    IF p.ops[l].parallel THEN {}
    ELSE {m \in Nest[l] : p.ops[m].flatten \/ p.ops[m].targetII > 0}

Distance(d) ==
    IF p.ops[d.from].maxMuxSize > 3 \/ p.ops[d.to].maxMuxSize > 3 THEN 1 ELSE d.distance

Ceil(x, y) == (x + y - 1) \div y

\* A later access of an iteration, and an earlier one of a later iteration.
DepMinII(l) ==
    MaxOf({1} \cup
        {Ceil(timing[d.to].end - timing[d.from].begin, Distance(d)) :
            d \in {d \in p.dependences :
                    /\ d.to < d.from /\ {d.from, d.to} \subseteq Inside(l)
                    /\ d.by \in LoopDepths(l) /\ Distance(d) > 0
                    /\ MayDepend(d.from, d.to)}})

\* The loop directives: pipelined, flattened into its child, or none.
LoopInfo(l, begin, end) ==
    LET loop == p.ops[l]
    IN  CASE loop.targetII > 0 ->
               [tripCount |-> loop.trip, iterLatency |-> end - begin,
                minII |-> MaxOf({loop.targetII, ResMinII(l, begin, end), DepMinII(l)})]
          [] loop.targetII = 0 /\ loop.flatten ->
               [loopInfo[l + 1] EXCEPT !.tripCount = loop.trip * @]
          [] OTHER ->
               [tripCount |-> loop.trip, iterLatency |-> end - begin, minII |-> end - begin]

\* Entering and leaving a loop takes two cycles.
LoopLatency(l, info) ==
    IF p.ops[l].targetII > 0 \/ p.ops[l].flatten
    THEN info.iterLatency + info.minII * (info.tripCount - 1) + 2
    ELSE info.iterLatency * info.tripCount + 2

-----------------------------------------------------------------------------
(* The schedule of a block *)

Remaining(b) == Body(b) \ DOMAIN timing

\* The operation that is scheduled next, from the end of the block.
Op == MaxOf(Remaining(block))

Insert(f, x, y) == [z \in DOMAIN f \cup {x} |-> IF z = x THEN y ELSE f[z]]

\* What must not start before i ends: users of its result, and later accesses
\* that are scheduled and may depend on it.
Successors(i) ==
    {SameLevel(i, u) : u \in p.ops[i].users} \cup
    {SameLevel(i, j) : j \in {j \in Accesses :
        i \in Accesses /\ ProperlyDominates(i, j) /\ MayDepend(i, j) /\ DependsOn(i, j)}}

\* A loop does not overlap with what was scheduled before.
OpBegin(i) ==
    MaxOf({blocks[block].begin} \cup {timing[j].end : j \in Successors(i) \cap DOMAIN timing}
          \cup (IF i \in Loops THEN {blocks[block].end} ELSE {}))

SetTiming(i, b, begin, latency) ==
    /\ timing' = Insert(timing, i, [begin |-> begin, end |-> begin + latency])
    /\ blocks' = [blocks EXCEPT ![b].end = MaxOf({@, begin + latency})]

Scheduling == stage = "estimate" /\ Remaining(block) # {}

\* No port limits an access to a memory of one element, which is a register.
ScheduleOperator ==
    /\ Scheduling
    /\ Op \notin Loops
    /\ Op \in Accesses => Memory(Op).single
    /\ SetTiming(Op, block, OpBegin(Op), Latency(Op))
    /\ UNCHANGED <<p, stage, block, level, memPortInfos, loopInfo, forward>>

\* Mutant of TryLevel: the search stays on its level.
TryLevel_Again(at, infos) ==
    /\ memPortInfos' = Insert(memPortInfos, <<at, p.ops[Op].memref>>, Taken(infos, Op))
    /\ IF Missing(infos, Op) = {}
       THEN SetTiming(Op, block, at, Latency(Op)) /\ level' = NoLevel
       ELSE level' = at /\ UNCHANGED <<timing, blocks>>

\* One round of the search for a level with enough ports.
TryLevel(at, infos) ==
    /\ memPortInfos' = Insert(memPortInfos, <<at, p.ops[Op].memref>>, Taken(infos, Op))
    /\ IF Missing(infos, Op) = {}
       THEN SetTiming(Op, block, at, Latency(Op)) /\ level' = NoLevel
       ELSE level' = at + 1 /\ UNCHANGED <<timing, blocks>>

ScheduleAccess ==
    /\ Scheduling
    /\ Op \in Accesses /\ ~Memory(Op).single
    /\ LET at == IF level = NoLevel THEN OpBegin(Op) ELSE level
       IN  TryLevel(at, PortInfosAt(at, p.ops[Op].memref))
    /\ UNCHANGED <<p, stage, block, loopInfo, forward>>

\* The estimation is given up at a loop whose trip count is not known.
EnterLoop ==
    /\ Scheduling
    /\ Op \in Loops
    /\ IF p.ops[Op].trip = 0
       THEN stage' = "failed" /\ UNCHANGED <<block, blocks>>
       ELSE /\ block' = Op
            /\ blocks' = Insert(blocks, Op, [begin |-> OpBegin(Op), end |-> OpBegin(Op)])
            /\ UNCHANGED stage
    /\ UNCHANGED <<p, level, memPortInfos, timing, loopInfo, forward>>

LeaveLoop ==
    /\ stage = "estimate" /\ block # 0 /\ Remaining(block) = {}
    /\ LET begin == blocks[block].begin
           info  == LoopInfo(block, begin, blocks[block].end)
       IN  /\ loopInfo' = Insert(loopInfo, block, info)
           /\ SetTiming(block, p.ops[block].parent, begin, LoopLatency(block, info))
    /\ block' = p.ops[block].parent
    /\ UNCHANGED <<p, stage, level, memPortInfos, forward>>

\* Mutant of Reversed: levels are not moved to the end of the iteration.
Reversed_Kept(i) == timing[i]

\* Levels become relative to the loop around, whose own level is still the
\* reverse one: loops are reversed after their bodies.
Reversed(i) ==
    LET t == timing[i]
        l == p.ops[i].parent
    IN  IF l = 0 THEN [begin |-> blocks[0].end - t.end, end |-> blocks[0].end - t.begin]
        ELSE IF p.ops[l].flatten
        THEN [begin |-> timing[l].begin, end |-> timing[l].begin + t.end - t.begin]
        ELSE [begin |-> timing[l].begin + loopInfo[l].iterLatency - t.end,
              end   |-> timing[l].begin + loopInfo[l].iterLatency - t.begin]

Finish ==
    /\ stage = "estimate" /\ block = 0 /\ Remaining(0) = {}
    /\ stage' = "done"
    /\ forward' = [i \in Ops |-> Reversed(i)]
    /\ UNCHANGED <<p, block, blocks, level, memPortInfos, timing, loopInfo>>

Init ==
    /\ p \in {prog \in Programs : WellFormed(prog)}
    /\ stage = "estimate" /\ block = 0 /\ blocks = [b \in {0} |-> [begin |-> 0, end |-> 0]]
    /\ level = NoLevel
    /\ memPortInfos = << >> /\ timing = << >> /\ loopInfo = << >> /\ forward = << >>

Next ==
    \/ ScheduleOperator
    \/ ScheduleAccess
    \/ EnterLoop
    \/ LeaveLoop
    \/ Finish

\* The compiler keeps running.
Spec == Init /\ [][Next]_vars /\ WF_vars(Next)

-----------------------------------------------------------------------------
(* The schedule of the accesses and operators is one within the ports: an   *)
(* access must come after those it may depend on, wherever the loops are.   *)

Leaves == Ops \ Loops

Problem ==
    [ops     |-> Leaves,
     latency |-> [i \in Leaves |-> Latency(i)],
     reads   |-> Reads,
     word    |-> [i \in Leaves |-> Word(i)],
     banks   |-> [i \in Leaves |->
                    IF i \in Accesses /\ ~Memory(i).single
                    THEN {<<p.ops[i].memref, q>> : q \in p.ops[i].partitions} ELSE {}],
     ports   |-> [bank \in UNION {{<<m, q>> : q \in 1..p.memory[m].partitionNum} :
                                    m \in DOMAIN p.memory} |->
                    LET info == NewPortInfo(p.memory[bank[1]].kind)
                    IN  [rd |-> info.rdPort, wr |-> info.wrPort, rdwr |-> info.rdwrPort]],
     after   |-> {pair \in Leaves \X Leaves :
                    \/ pair[2] \in p.ops[pair[1]].users
                    \/ /\ pair \in Accesses \X Accesses /\ pair[1] < pair[2]
                       /\ MayDepend(pair[1], pair[2]) /\ DependsOn(pair[1], pair[2])}]

Schedule == INSTANCE PortSchedule WITH
    problem <- Problem,
    placed  <- [i \in DOMAIN timing \cap Leaves |-> timing[i]]

\* The ALAP schedule with its search for free ports (estimateBlock and
\* estimateLoadStoreTiming) implements the placement within the ports.
ImplementsPortSchedule == Schedule!Spec

\* Once the schedule is reversed, what follows an operation in its block, because
\* it uses its result or may depend on it, starts when it has ended.
ForwardOrder ==
    stage = "done" =>
        \A i, j \in Ops :
            p.ops[i].parent = p.ops[j].parent /\ j \in Successors(i)
            => forward[i].end <= forward[j].begin

\* The interval of a pipelined loop leaves each bank ports enough for the reads of
\* an iteration, and, where reads and writes share all ports, for both.
AccessesFitII ==
    \A l \in DOMAIN loopInfo : p.ops[l].targetII > 0 =>
        \A m \in DOMAIN p.memory :
            p.memory[m].kind # "DRAM" /\ ~p.memory[m].single =>
            \A q \in 1..p.memory[m].partitionNum :
                LET here  == {i \in Inside(l) : p.ops[i].memref = m /\ q \in p.ops[i].partitions}
                    reads == Cardinality({Word(i) : i \in here \cap Reads})
                    info  == NewPortInfo(p.memory[m].kind)
                    II    == loopInfo[l].minII
                IN  /\ reads <= II * (info.rdPort + info.rdwrPort)
                    /\ info.rdPort + info.wrPort = 0 =>
                         reads + Cardinality(here \ Reads) <= II * info.rdwrPort

\* In a pipelined loop an iteration may depend on an earlier one of the loop or of
\* the loops flattened into it: it starts late enough for that. (Levels run
\* backwards: to starts II * distance after from, and from must have ended. A read
\* is not compared with itself.)
CarriedRespected ==
    \A l \in DOMAIN loopInfo : p.ops[l].targetII > 0 /\ ~p.ops[l].parallel =>
        \A d \in p.dependences :
            /\ {d.from, d.to} \subseteq Inside(l) /\ MayDepend(d.from, d.to)
            /\ d.from # d.to \/ d.from \notin Reads
            /\ d.by \in Nest[l] /\ ~p.ops[d.by].parallel /\ Distance(d) > 0
            /\ p.ops[d.by].flatten \/ p.ops[d.by].targetII > 0
            => timing[d.from].begin + loopInfo[l].minII * Distance(d) >= timing[d.to].end

\* The search for ports always finds a level, and the estimation ends.
EstimationEnds == <>(stage \in {"done", "failed"})
=============================================================================
