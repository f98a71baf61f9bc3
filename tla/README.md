# A formal model of ScaleHLS

ScaleHLS compiles PyTorch, MLIR and C programs to HLS C++ that vendor tools turn
into FPGA accelerators. This directory holds TLA+ modules translated from its
source, TLC configurations that check them on small instances, and proofs for all
sizes. Line references are to the repository (`src/`).

The program is a compiler: it is sequential, persists nothing and exchanges no
messages. What makes it hard is elsewhere:

* the **greedy rewrite driver** of MLIR applies the patterns of a pass to the
  operations in an order of its own, again and again, until none applies; a pattern
  must be right whatever ran before it, and must stop applying;
* **passes rely on each other**: a pass takes for granted (often with `value()`, an
  unsigned subtraction or a `front()`) what an earlier one established and what those
  in between must not have spoilt;
* the result is a **dataflow design** whose nodes run concurrently: levels, buffer
  depths, taps and tokens are the synchronisation, computed by the compiler.

## 1. Inventory

| Component | State | Operations | What makes it correct |
|---|---|---|---|
| Dataflow IR (`Dialect/HLS/HLS.cpp`, `Utils.cpp`) | one `ScheduleOp`: nodes in block order, their inputs with taps, outputs, `level`; buffers with memory kind and `depth`; the mark `isLegal` | use-list queries (producers, consumers, dependent consumers), `fuseNodeOps`, verifiers, canonicalizations | verifiers hold after every pass; folding away unused operands keeps lists aligned and loses nothing |
| LowerDataflow | dispatch → schedule | `LowerDispatchToSchedule`, `LowerTaskToNode` | inputs/outputs of a node are what its body reads/writes |
| EliminateMultiProducer | schedule | split a buffer per writer, fuse the writers of an argument | no read changes the write it observes; no violation left |
| EliminateMultiConsumer | schedule | fork node | same |
| ScheduleDataflowNode | `level` of each node | ALAP level | longest dependence path; independent of the driver's order |
| BalanceDataflowNode | levels, depths, taps, copy nodes | deepen a DRAM buffer, insert a copy chain | every edge spans one level or is tapped as far as it spans |
| LegalizeDataflow | nodes, levels, `isLegal` | fuse nodes of a level that share an input, fuse a bypassed path, mark legal | flows go down the levels; only legal schedules are marked; it ends |
| CreateTokenStream | token streams | one token per DRAM producer/consumer pair | every flow through DRAM is ordered by a token |
| SimplifyAffineIf | the ifs of a function | remove an `affine.if` that never or always holds, merge neighbours with one condition | same accesses, in the same order |
| SimplifyCopy, LowerCopyToAffine | copies between buffers and the users of both | let one buffer take the place of the other; make the remaining copies loops | every read sees the same value, and so does the caller |
| Pass pipelines (`Transforms/Passes.cpp`) | module | order of the passes, options | what one pass needs an earlier one established |
| AffineStoreForward | the loads and stores of a function, lists of what is to be erased | forward stores to loads, also out of ifs; load CSE; erase overwritten stores and memories that are only written | the function computes the same; a value is defined before it is used; it ends |
| CreateDataflowFromAffine | dispatches and tasks | wrap a block, cut it into tasks at its loops | each operation in one task; order kept |
| StreamDataflowTask | the results of tasks | turn scalar results into streams | one writer and one reader of a stream; no value left between tasks |
| BufferizeDataflow, other CreateDataflowFrom*, PlaceDataflowBuffer | tasks, buffers | wrap tensor operations, choose DRAM or on-chip memory | users agree on the memory kind |
| ParallelizeDataflowNode (`Analysis.cpp`, `Utils.cpp`) | complexity and share of each node, unroll factors of its loops | analyse complexity and correlations, share the overall factor, distribute it over loops, seed correlated nodes, unroll and jam | factors divide trip counts; correlated loops agree; the share is used; no iteration lost |
| ConvertDataflowToFunc | functions | outline nodes and schedules | arguments map one to one |
| Design space exploration (`DesignSpaceExplore.cpp`) | the loops of a function; tile configs, design points and frontier of each loop band; the frontier of the function | simplify nests, evaluate configs, filter, explore neighbours, combine bands, apply a design | the frontiers are exact; no band is given up early; the design applied is the best of what was found |
| QoR estimation (`QoREstimation.cpp`, `Estimator.h`) | levels of the operations, ports left by level and memory, loop information | ALAP scheduling of blocks from their end, search for a level with a free port, II of pipelined loops, reversal | an operation follows what it depends on; no port is used twice; the II fits ports and carried dependences |
| Array partition and other directives | partition factors, pragmas | analyse indices, annotate | one consistent partition per array across calls |
| Accelerator mapping | GEMM tiles, call sites | tile, lower to calls | tiles cover the iteration space once |
| Other memory transforms | accesses, subviews | raise to copies, local buffers, folding of subviews | same values observed |
| Loop transforms | loop bands | order, perfect, tile, fuse | index computations |
| Tensor/TOSA transforms | single operations | local rewrites | — |
| Function preparation | function attributes | set top function, pragmas | — |
| EmitHLSCpp | name tables | print HLS C++ | names unique and declared before use |
| Bindings, C API, tools | — | glue | — |

**Interaction.** The passes share one mutable IR. Nothing is passed between them but
the operations and their attributes; all call the helpers of `Utils.cpp`, above all
`getDependentConsumers`, which defines what "depends on" means, and `fuseNodeOps`,
which rebuilds nodes. In the PyTorch pipeline (`Passes.cpp:415-452`) the dataflow
passes run in this order: EliminateMultiProducer, EliminateMultiConsumer,
ScheduleDataflowNode, BalanceDataflowNode (if `balance-dataflow`), canonicalizer,
LegalizeDataflow, canonicalizer, SimplifyAffineIf, canonicalizer, CreateTokenStream.
In front of them SimplifyCopy and LowerCopyToAffine (`Passes.cpp:366-367`) remove what copies
they can; then (`Passes.cpp:405-416`) AffineStoreForward, CreateDataflowFromAffine and
StreamDataflowTask make, from the affine code of a function, the tasks that LowerDataflow
turns into nodes. ParallelizeDataflowNode comes after the schedules have levels
(it works inside of nodes). The design space exploration is a pass of its own: it works on the affine loops of one
function, calls the loop transforms on copies, and asks the QoR estimator about them.
`PROJECT.json` lists, under `hazards`, what can go wrong in them at which line.

## 2. Modules

Five systems. *Dataflow passes*: `DataflowIR` is the vocabulary; each pass is a module that
EXTENDS it and rewrites the one variable `ir`; `DataflowPipeline` composes the passes.
*Front end*: `AffineBlock` is the vocabulary, `SimplifyCopy`, `MergeSameIf`,
`AffineStoreForward` and `CreateDataflow` the passes, `DataflowFrontEnd` composes them; it ends with the kind of dispatch that
`LowerDataflow`, and so `DataflowPipeline`, starts from: `ReadyToLower` asserts
`LowerDataflow!WellDefined` of it. *Parallelization*, *exploration* and *estimation* stand
alone. Two abstract specifications, `BestDesign` and `PortSchedule`, are what the last
two implement, each under a refinement mapping (`INSTANCE ... WITH`).

| Module | Models | Correspondence |
|---|---|---|
| `DataflowIR` | a schedule and the helpers | see the record below; `DependentConsumers` = `getDependentConsumers`, `FuseNodeOps` = `fuseNodeOps`, `ReplaceUses` = `replaceUsesWithIf` |
| `LowerDataflow` | the pass as a function, the source of initial states | `LowerDispatch` |
| `EliminateMultiProducer` | patterns `BufferMultiProducer`, `MergeMultiProducer` | one action each |
| `EliminateMultiConsumer` | pattern `InsertForkNode` | `InsertForkNode(n)` |
| `ScheduleDataflowNode` | pattern `ALAPScheduleNode`; also a specification of its own (`ScheduleSpec`) | `CanSchedule` = early returns, `IsLatestLevel` = running maximum |
| `BalanceDataflowNode` | pattern `InsertCopyNode` | `DeepenBuffer`, `ChainCopies` = its two branches |
| `LegalizeDataflow` | patterns `FuseMultiConsumer`, `FuseBypassPath`, the mark after them | `SharingGroup`, `BypassedLevels` = the collections before the fusions |
| `DataflowCanonicalize` | `SimplifyNodeIOs`, `SinkInternalBuffer`, `SimplifyScheduleOperands` | one action each |
| `SimplifyAffineIf` | `RemoveRedundantIf` as a schedule sees it | one action |
| `CreateTokenStream` | the pass | one action |
| `DataflowPipeline` | the passes above in order | variable `pass`; one `Run...` action per pass: a step of the driver, or, at the fixpoint, the next pass |
| `LoopNests` | the loops of a function and the helpers on loop bands | `LoopBands` = `getLoopBands`, `InnermostLoop` = `getLoopBandFromOutermost`, `InnerParallelism` = `getInnerParallelism` |
| `SimplifyLoopNests` | stage 1, `simplifyLoopNests` | `CollectCandidates` and `TryCandidate` = the two loops of a round |
| `LoopDesignSpace` | class `LoopDesignSpace`, `updateParetoPoints` | `NewSpace` = constructor, `TileList` = `getTileList`, `Evaluated` = `evaluateTileConfig`, `InitializeStep` and `ExploreStep` = one turn of the loops |
| `DesignSpaceExplore` | class `FuncDesignSpace` and `applyDesignSpaceExplore`; composes the two above | one action per stage or method |
| `BestDesign` | — | abstract: designs are found by adding to others; the fastest that fits is chosen |
| `AffineBlock` | operations of a block, dominance, memory effects, rewriting | the queries the passes put to MLIR, and `Final`, what a block computes |
| `AffineStoreForward` | the pass | `VisitLoad` = one turn of the loop of the first walk, `FindUnusedStore` = one call of `findUnusedStore`, `EraseLoads`/`EraseStores` = what follows the walks |
| `MergeSameIf` | SimplifyAffineIf on a function: `RemoveRedundantIf`, `MergeSameIf` | one action each, `EraseDead` for the driver |
| `SimplifyCopy` | pattern `SimplifyBufferCopy`; `LowerCopy` | `DominancesValid` = the early returns, `Replacement` = the choice of the buffer that goes |
| `CreateDataflow` | `dispatchBlock`, `TaskPartition`, `StreamTaskIOs`, the dispatch that is lowered | `Partition` = one turn of the loop over the block, `StreamTask(t)` = the pattern on one task |
| `DataflowFrontEnd` | the passes above in order | variable `stage` |
| `FactorDistribution` | `getEvenlyDistributedFactors`, `getDistributedFactors` | one turn of their loops |
| `CorrelationAnalysis` | the class of that name, `Correlation` | `PermuteMap` = `getPermuteMap` |
| `ParallelizeDataflowNode` | the pass, `ComplexityAnalysis`, tiling and unrolling | `AnalyzeNode`/`AnalyzeLoop`/`AnalyzeBand` and `BudgetSchedule` = the walks; `VisitNode`, `Grow`, `Distribute`, `SettleNode` = a turn of `applyCorrelationAwareUnroll`; `NaiveNode`, `SettleBand` = `applyNaiveLoopUnroll` |
| `PortSchedule` | — | abstract: operations are placed one by one, after those that follow them, within the ports of each bank |
| `QoREstimation` | `estimateBlock`, `estimateLoadStoreTiming`, `visitOp(AffineForOp)`, `reverseTiming` | `TryLevel` = one turn of the search for ports; `EnterLoop`, `LeaveLoop` = before and after the recursive call |
| `MCScheduleDataflowNode`, `MCDataflowPipeline`, `MCDesignSpaceExplore`, `MCDataflowFrontEnd`, `MCParallelizeDataflowNode`, `MCQoREstimation` | — | instances for TLC |
| `NumberLemmas` | — | lemmas on division, least numbers, counting up, iterating a function and the size of finite sets, which the modules below share; that what is defined by recursion exists; on the product of the values of a function (a fold of the community modules): it exists, does not depend on the order, splits, and grows with its factors |
| `FoldLemmas` | — | induction over `ForEachIn` and `ForEachOf`, as a module to instantiate with a step and an invariant |
| `DataflowPipelineProofs`, `DataflowFrontEndProofs`, `ScheduleDataflowNodeProofs`, `DesignSpaceExploreProofs`, `ParallelizeDataflowNodeProofs`, `QoREstimationProofs` | — | theorems, section 5 |

**State.** A schedule is a record: `order` (block order), `ins` (node → buffer → tap),
`outs`, `level` (`NoLevel` when the attribute is absent), `body` (accesses), `isArg`
(block argument or `BufferOp`), `ext` (memory kind DRAM), `depth`, `depFree`
(the parent is a function or a parallel loop, `ScheduleOp::isDependenceFree`),
`isLegal`, `tokens`.

**Abstractions.**

* *The greedy driver* is external. Within a pass any enabled pattern may be applied to
  any operation; a pass is over when no pattern changes anything. This contains every
  order the real driver uses. Its iteration limit is not modelled: under it a pass can
  only end earlier, and the checks show that each pass reaches its fixpoint.
  A pattern that reports success without changing anything (`InsertCopyNode`) is a step
  only when it changes the schedule.
* *Bodies.* A node runs a sequence of accesses, each of one source task. A task reads
  and writes through *slots*, named for the buffers of the source program, so that what
  it observes can be compared before and after operands were renamed. A fork, a copy node
  or a copy the passes insert is `CopyOp`. Indices and values are abstracted: a task
  reads and writes whole buffers (a partial write is a slot in `keep`, a read under a
  condition that never holds a slot in `dead`).
* *Meaning.* `Meaning(s)` executes a schedule in block order and returns which write each
  read of each task observes, and what each argument holds at the end. It is not code but
  the reference the rewrites are compared with.
* *Freed memory.* `FuseBypassPath` reads the level of a node that `fuseNodeOps` has just
  erased (`LegalizeDataflow.cpp:160`); the model takes any level of the schedule for it.
* *The level loop* of `collectBypassNodes` counts an unsigned number down to a bound
  that may be 0 and then never ends. The model has no step from there (`WrapsAround`):
  a compiler that hangs is a system that stops.
* *The level difference* of `InsertCopyNode` is unsigned. To a consumer on a higher level it
  wraps, and the pass makes copies for billions of levels; the model has no step from there
  (`DiffWraps`).
* *Tokens* are recorded beside the nodes; that they become operands is left out.

**Abstractions of the exploration.**

* *The estimator* is external. For a tile config it answers with one of `Outcomes`
  (minimal II, iteration latency, DSPs) or nothing: the transformations failed, or the
  band was fully unrolled. In stage 1 and 2 it only says whether the function fits.
* *The latency of a function* is the sum of its bands, each as often as the loops around it
  repeat: the estimator never overlaps two loops of a block (`QoREstimation.cpp:657`).
  The operations between the bands add constants and are left out.
* *Random choices* (`std::rand` over the frontier and over the closest neighbours) are
  all choices. One step makes those points inactive that the shuffled frontier happened to
  have in front of the one explored.
* *Points that sort alike* are all kept by `updateParetoPoints`, so its scan is a set.
* *Reading the first of no points* (`DesignSpaceExplore.cpp:37`) is undefined: the build
  with assertions aborts, another goes on with an empty frontier; the model does either.
* *Histories*: `rejected` (nests that were tried in vain) and `combinations` (all
  combinations of points found) are no state of the program.

**Abstractions of the front end.**

* *The analyses of MLIR* (dominance, `hasNoInterveningEffect`) are external. On a block with
  ifs one deep they come down to positions; a loop may read and write any element of the
  memories it is recorded with, and so may a call, which the analysis assumes to touch
  all memories. Loads inside of loops are not forwarded, as the loop is opaque.
* *Values are terms* over initial contents and arguments; the reference `Final` executes a
  block for every truth value of the conditions (those that can never hold excepted).
  A stream holds its value once: a second read of it finds nothing.
* *Conditions* are names; `ifAlwaysTrueOrFalse` answers with the set `neverTrue`.
* *Freed memory.* `findUnusedStore` may erase the if its walk visits next
  (`AffineStoreForward.cpp:195`); the model crashes, misses the store inside, or does neither.
* Of all enabled `StreamTaskIOs` any may be next, as in the greedy driver.

**Abstractions of the parallelization.** A band is a chain of loops, perfectly nested or not;
a node around a schedule has one of them. Rates are compared as fractions, not as floats.
The 64-bit shares are not truncated to the 32 bits of `applyNaiveLoopUnroll`. Nodes
with as many correlations come in any order. A wrapped counter (`Utils.cpp:392`) is a crash,
as the remainder by zero is. Nodes of a hash map are unrolled in any order.

**Abstractions of the estimation.** Affine dependence analysis and the partition index of an
access are data of the function (`dependences`, `partitions`), with what the analysis says
of identical accesses as a condition on them (`WellFormed`). Any number of partitions
stands for any layout. `UINT_MAX` ports of a DRAM are `Many`.

## 3. Runs

All runs use model instances in the MC modules; `CHECK_DEADLOCK FALSE` is set in all of
them because a compiler run ends (and, in the level loop above, may hang); that it ends
where it should is a temporal property instead.

| Run | Question | Distinct states |
|---|---|---|
| `schedule_alap` | Does ALAP scheduling reach the longest-path levels in every order of the driver, on every small graph? | 39,273 |
| `dataflow_pipeline` | Do the passes, one after another, keep meaning, order, balance and legality? | 36,459 |
| `design_space_explore` | Does the exploration find, keep and apply the best of what it looks at, and look at all it should? | 37,539 |
| `dataflow_front_end` | Do copy and if simplification, forwarding, partition and streams keep what a function computes, and what do they leave for the lowering? | 78,905 |
| `parallelize_nodes` | Are the unroll factors of correlated nodes consistent, and is anything lost by unrolling? | 129,048 |
| `qor_estimate` | Is the estimated schedule one the memory ports and dependences allow? | 4,219 |
| `fused_past_writer`, `dram_argument_tokens`, `fork_reused_argument`, `balance_nested`, `legal_lost`, `unbalanced_bypass` | the disagreements of section 4 | small |

**schedule_alap.** Three nodes, each reading and writing any subset of three buffers (an
argument, an internal buffer, a DRAM buffer or argument), with the parent dependence-free
or not. This contains chains, diamonds' halves, self-made violations and cycles of length
two and three (through arguments of a schedule in a sequential loop), in every block order.
Properties: `LevelsSettled` (each level is what the final levels of its dependents
determine), `LevelAboveDependents`, `LevelIsLongestPath` (against a reference: the sets
of nodes reached by k dependences), `UnscheduledForACause` (a node left without level
is behind a violation or a cycle), `ScheduleTerminates`. Three nodes suffice for every
relation of a node, its dependents and theirs; the safety properties are also proved
for all sizes.

**dataflow_pipeline.** Every dispatch of three tasks over two or three buffers, each
reading at most two and writing one, on chip or in DRAM, dependence-free or not; and
five longer dispatches in all sixteen memory placements: a diamond, a value used at three
distances, a bypass above level 0, an accumulator updated in place with a read in
between, and an input read only under a false condition; an argument that is read
before it is overwritten; and a DRAM argument that two nodes of a sequential loop write. They make every action
of every pass fire, among them fusion of nodes that share an input through a third,
copy chains with exits at two hops, fusions of fused nodes, and fusions that move a node
past another. Two restrictions, both
stated in the module:

* in a schedule that is not dependence-free no task reads an argument that a later task
  writes (`NoBackDependence`): the comparison of meanings is about one iteration;
* tasks write whole buffers.

Properties: `TypeOK`; `MeaningPreserved` (up to the first canonicalization: the legalization
deliberately gives up block order); `FlowsGoDown` (afterwards: every write a read
observed in the source program is made by a node of a higher level, or earlier in the
same node); `LevelsStayOrdered`; `ViolationsStayEliminated`; `EdgesBalanced`;
`LegalMeansVerified`; `DramBuffersHaveTokens`; `BalancedRunsEnd`. All combinations of
driver order inside all passes are explored, with the option `balance-dataflow` on and
off; those that depend on it say so. Three exclusions say what the code does not guarantee.
A fused node stands behind its last part, and in a dependence-free schedule the order in the
block is all that tells a reader of an argument from one that comes before the write; so from the
legalization on, the properties about levels and violations ask for `WrittenBeforeRead`:
each argument is written once at most, ahead of its readers (item 6 of section 4 is what
happens otherwise). A DRAM argument that two nodes of a sequential loop write
(`RewrittenInLoop`) is no violation, but a chain of copies for the reader of one writer becomes
a reader of what the other wrote, possibly on a level above it: `LevelsStayOrdered` and
`EdgesBalanced` leave such a buffer out, `BalancedRunsEnd` such a schedule (`DiffWraps`), and
`MeaningPreserved` the forks and copies of arguments with several writers. With balancing off a level may be that of a node long fused away, and
`DramBuffersHaveTokens` is false.

**design_space_explore.** Five functions: a loop around a band of two loops and one of six
iterations (the bands share the DSPs and repeat), a nest inside a nest, a nest below a
single loop beside a loop of one iteration (whose space is empty), a band with a loop of no
iterations (which stops the compiler), and no loops. Three
estimates, one of which fits only at a larger II; five DSPs, so that points and combinations
fall on both sides of the bound and on it; parallelism at most six, so that some configs
are excluded; three iterations and distance one, so that a band may end by either
cause. Both values of `directive-only`. Properties: `TypeOK`; `NestsOutsideIn` (no nest is
unrolled before those around it were tried); `NeverFullyUnrolled` (the config the constructor
drops as the last is the one that unrolls everything); `ParetoPointsAreFrontier` (incremental
pruning leaves exactly the non-dominated points of all that were found);
`ExploredToTheEnd` (a band that ends before its iterations ran out has no config left near
its frontier); `CombinationsCovered` (pruning per band and per combination loses no
combination without keeping one as fast and as small); `AppliedIsBest`; `ExplorationEnds`;
`ImplementsBestDesign`: under the mapping of the combinations of all points found to `found`,
the exploration with its frontiers and its band-by-band pruning is a behaviour of
`BestDesign`, which knows neither.
The larger bounds of the real program (`MaxNestParallel` is 512 there) only add configs.

**dataflow_front_end.** Every sequence of up to three of ten items (stores, a load with a store
of its value elsewhere, ifs with one store, with stores in both branches, with a load
in front of a store, with two stores; two conditions; loops that read and write; a call), on a
memory that is an argument or is allocated and stored first, with and without a condition
that never holds; longer functions with up to three loops that use the values loaded
before them, or return one; and a copy between two memories, each allocated or an argument, with
one or two accesses in front and behind: stores, loads, an if, a loop, a call, a copy back.
The functions without copies also run through the second place of
AffineStoreForward, behind SimplifyAffineIf among the memory optimizations
(`Transforms/Utils.cpp:29`), with conditions that always, never or sometimes hold. Three items are what the rewrites relate: two accesses and
something in between; the longer functions add tasks that share a value. Properties:
`MeaningLostForACause` (a step changes what the function computes only for one of five causes
in the code, each of which the run needs: a select takes the overwritten store's value across
another write, `AffineStoreForward.cpp:192`; the overwriting store is in the other
branch of a like if, line 165; two tasks read a stream that is written once,
`StreamDataflowTask.cpp:47`; an if is merged with one behind it although loads, loops or calls in
between read or write what moves, or it has an else block, which is dropped,
`SimplifyAffineIf.cpp:88`, where the comment asks for operations in between that "have no memory
effect"; a copy goes and a local buffer written behind it becomes an argument the caller
sees, or a call, which does not count as a write, uses one of the two, `SimplifyCopy.cpp:130`);
`UsesDominated`; `ReadyToLower` (all operations but
allocs are in tasks, in order, values cross tasks by streams only, and the dispatch is one
`LowerDataflow` takes); `StopsForACause` (a crash needs a store in front of an if around a
store of the same element; a rejected function one that returns a value of a task);
`FrontEndEnds`. That the assertion "multiple simultaneous replacement stores"
(`AffineStoreForward.cpp:80`) holds in these functions was checked along the way.

**parallelize_nodes.** A matrix product between two elementwise nodes, one transposed, with trip
counts 3, 4 and 6 on each dimension; two nodes that access each other's buffers, with point
loops, bands that are not perfect and DRAM effects; trip counts that are unknown,
that can not be estimated, that are one, or that do not agree; a schedule in a loop of a node
with annotations; a schedule without loops. Overall factors 1, 3, 4, 6, 8 (below, at, above
and not dividing the trips), all eight combinations of the options. Properties:
`FactorsDivideTrips` and `WorkPreserved` (where correlated loops have the same constant trip count: the factors divide,
no tile is cut, trips times copies are the iterations); `BudgetSpent` (the share of a node is
reached, or its loops are exhausted, whoever seeded it); `SeedsOnlyGrow`; `FactorsFollowWork`
(the critical node of each schedule, nested ones too, gets the whole factor, and shares are
monotonic in the work); `CrashHasCause`; `ParallelizationEnds`.

**qor_estimate.** Straight code with three reads, two of one address, and writes of one or both
partitions; a reduction with distance 0, 1, 2 and muxed accesses; a value forwarded to the
next iteration; two nested loops, flattened, parallel or plain, with code around and a
loop behind whose trip count may be unknown; on each of the six memory kinds. Properties:
`ImplementsPortSchedule` (with the accesses and operators placed so far mapped to `placed`, the
schedule is one of `PortSchedule`: after everything that must follow, wherever the
loops are, and within the ports of each bank on each level); `ForwardOrder` (still so after the
reversal, which moves loops after their bodies); `AccessesFitII` (the interval leaves enough
ports for the reads of an iteration, and for reads and writes where they share
all ports); `CarriedRespected` (an iteration starts late enough after those it depends
on, through the loops flattened into it as well); `EstimationEnds`. Three exclusions say what
the code does not guarantee: it counts too few writes on a level whose reads take the only read
port (`QoREstimation.cpp:262`), none of the dependences once the pipelined
loop is marked parallel (line 320), and never compares a read with itself (line 326).

**Fairness.** `WF` of the whole next-state relation: the compiler keeps running, and the
driver keeps applying patterns while one applies; the loops of the exploration, the distribution and
the estimation go on. Nothing is assumed about *which* pattern comes next.

**Mutants.** Next to a definition stand changed forms of it (`CanSchedule_NoWait`, ...);
`PROJECT.json` says which property each of them violates.

## 4. Where the code and its documents disagree

Each of the first six is the one property of a run that TLC finds violated. The other two are
among the five causes that `MeaningLostForACause` names in the run `dataflow_front_end`: a step that
changes what a function computes is one of them.

1. `DramDependencesHaveTokens`: `ScheduleDataflowNode.cpp:30` says DRAM dependences
   "are handled later by tokens"; `CreateTokenStream.cpp:37` skips each DRAM buffer with
   more than one producer, so an argument written by two nodes synchronises nobody.
2. `ForkKeepsReads`: `EliminateMultiConsumer.cpp:30` forks an output to all dependent
   consumers; when an on-chip argument is written twice with readers after each write, the
   readers of the second write get the copy of the first.
3. `ExternalBufferInTopSchedule`: `BalanceDataflowNode.cpp:69` allocates the buffers of a
   copy chain with the memory kind of the output; in a sequential loop that is a DRAM
   buffer where `BufferOp::verify` (`HLS.cpp:678`) forbids one.
4. `ResolvedMeansLegal`: `SimplifyScheduleOperands` (`HLS.cpp:239`) rebuilds the schedule
   without `isLegal`, after the legalization and before the pass that asks for it.
5. `EveryRunEnds`: with `balance-dataflow` off, `collectBypassNodes`
   (`LegalizeDataflow.cpp:111`) never returns on a diamond of four nodes.
6. `LegalMeansResolved`: a schedule is marked legal "when all the dataflow violations have been
   resolved" (`Ops.td:143`), and `NodeOp::verify` (`HLS.cpp:426`) then rejects one. `FuseMultiConsumer`
   (`LegalizeDataflow.cpp:64`) puts a fused node behind its last part; a node that read an argument ahead of
   its writer comes to stand behind it, counts as a second dependent consumer, and the schedule is
   marked legal with the violation.
7. `SharedResult`: "Each stream channel can be read multiple times", says `Ops.td:291` of an operation
   that is to "read/pop a value". `StreamDataflowTask.cpp:47` gives each task that uses a result a read of
   its own on a stream that is written once; when a read pops, as it says, the second finds nothing.
8. `MergesTooMuch`: like ifs are merged when "the in between operations have no memory effect"
   (`SimplifyAffineIf.cpp:91`), and line 88 looks for affine and vector stores alone: a load, a call
   or a loop in between sees, or undoes, what has moved behind it.

## 5. Proofs

### Levels

`ScheduleDataflowNodeProofs` proves, for any set of schedules of any size:

| Theorem | Statement |
|---|---|
| `ScheduleTypeCorrect` | every state of the pass is a well-formed schedule |
| `LevelsAreSettled` | `[]LevelsSettled` |
| `LevelsOrdered` | `[]LevelAboveDependents`: what makes the unsigned differences of later passes positive |
| `LevelsAreLongestPaths` | `[]LevelIsLongestPath`: a level is the length of a longest path of dependences |
| `UnscheduledHasCause` | `[]UnscheduledForACause`: what is left without a level when nothing applies depends on a buffer with several producers, or on itself |
| `OutcomeIsUnique` | two exhausted, settled schedules that differ in levels only are equal |
| `DriverOrderDoesNotMatter` | all runs of the pass on one schedule that end, end on the same schedule |

*Assumptions*: `SchedulesAssumption` (the pass gets well-formed schedules without levels),
which TLC evaluates on the schedules of both passing runs.

*Inductive invariant* (`ScheduleInvariance`): type correctness, `LevelsSettled`, and that
only levels differ from the initial schedule. `LevelAboveDependents` alone is not inductive:
a step needs to know that all dependents of a scheduled node are scheduled, so that giving
a level to one more node disturbs no equation (`StepSettles`); conversely the settled
equations imply the order at once (`SettledIsAbove`).

*Confluence* (`OutcomeIsUnique`): consider the least level at which two settled schedules
disagree. All dependents there have lower levels, so they agree, and then the equation
and the guard determine the node's level: contradiction. The least such
level exists by `LeastNat` (well-foundedness of `<` on the naturals), which stands in for
induction. Applied to the two ends of two runs it says that the driver's order does not
matter (`ExhaustedIsComplete`, `SettledLevelsAgree`).

*Longest paths* (`LevelIsLongestPath`). Going from a node to a dependent the level falls by
at least one, and along one choice of dependents by exactly one, so a set of nodes reached
after k steps is empty above the level and not empty below it. Counting up to the level
(`UpTo`: what holds of 0 and of n+1 when it holds of n) and iterating the choice of a
dependent (`Iterates`: a sequence of which each element is got from the one before exists)
are lemmas of `NumberLemmas`; both rest on `LeastNat`, as the induction theorems of
the library take operators that no prover here instantiates.

*What is left* (`UnscheduledForACause`). When no rule applies, a node without a level has a
dependent without one, unless a buffer of it has several producers. Go on to such a dependent
for as many steps as there are nodes: by `Pigeonhole` a node comes twice, and the path between
is a dependence of a node on itself.

### The dataflow pipeline

`DataflowPipelineProofs` proves, for any set of source schedules of any size, with and
without balancing, and in every order of the greedy driver:

| Theorem | Statement | needs `~IgnoreViolations` |
|---|---|---|
| `PipelineInvariant` | `[]PipelineInv`, the inductive invariant | no |
| `PipelineTypes` | `[]TypeOK`: the schedule is well formed in every state | no |
| `EliminationsLast` | `[]ViolationsStayEliminated` | no |
| `LevelsLast` | `[]LevelsStayOrdered` | yes |
| `EdgesStayBalanced` | `[]EdgesBalanced` | yes |
| `LegalIsVerified` | `[]LegalMeansVerified` | yes |
| `TokensAreMade` | `[]DramBuffersHaveTokens` | yes |

*Assumptions*: `SchedulesAssumption`, as above. `IgnoreViolations` is an option of the one
pass `ScheduleDataflowNode`; no pipeline sets it (`Passes.cpp:419` and `622` call
`createScheduleDataflowNodePass()`), and the passing runs have it off. With it on, a node whose
output has several producers gets a level, and none of the four theorems in the last rows can
hold.

*Inductive invariant* (`PipelineInv`). None of the properties is inductive: each speaks
of the end of a pass, and holds there for what all the rewrites before it have kept. The invariant
says of each pass what holds while it runs.

| Predicate | while | says, with what the one above left |
|---|---|---|
| `Early` | `EliminateMultiProducer` | well formed; the arguments are those of the source, and one with a single writer keeps it (`FromSource`); if the source writes its arguments before it reads them, so does the schedule (`Ordered`); no levels, no taps |
| `Forking` | `EliminateMultiConsumer` | each `BufferOp` has one producer (`OneProducer`) |
| `Scheduling` | `ScheduleDataflowNode` | each internal output has one dependent consumer (`OneDependent`); the levels so far are settled (`Settled`, from `ScheduleDataflowNodeProofs`) |
| `Balancing` | `BalanceDataflowNode` | a node with a level is the only writer of its internal outputs (`WritesAlone`); levels fall along dependences (`Descending`); readers are tapped only at `BufferOp`s in DRAM, as far back as they stand below the writer (`TapsFit`) |
| `Cleaning` | the first canonicalization | edges are balanced if the pipeline balances (`Edges`) |
| `Legalizing` | `LegalizeDataflow` and all that follow | `Ordered` is given up, for a fusion puts nodes elsewhere in the block; `OneConsumer` and `DescendingAll` say the same of all consumers instead of the dependent ones; a legal schedule has levels on all nodes |
| `TokensMade` | the end | the tokens are those of the uses and levels as they are |

One lemma per rewrite says what it keeps, one per pass that its predicate goes over into the
next (`SplitIsDone`, `ForkIsDone`, `ScheduleIsDone`, `FixpointBalanced`, `BalanceIsDone`,
`CleanIsDone`), and one per `Run...` action that the invariant is kept (`MultiProducerStep`
to `TokensStep`).

*Rewrites.* The first part of the module describes every rewrite of `DataflowIR` by a predicate on
the schedule before and after (`NodeAdded`, `UsesReplaced`, `Rebuffered`, `Fused`, `NodesDropped`,
`NodeEdited`, `Hopped`), so that the passes are argued about without the definitions, which the
solvers do not get through: the fields of a schedule are sequences, functions and functions of
functions. Block order is the hard part: `InsertedIs` (a node put behind another leaves the order of the others)
and `ArrangedIs` (sorting by block order lists every node once).

*Walks.* A pass goes over buffers, nodes or levels with a fold (`ForEachIn`, `ForEachOf`), whose
definition chooses an element and goes on with the rest. `FoldLemmas` proves that what one step
keeps the fold keeps; it is instantiated for each of the nine walks with its step and its
invariant, since an operator can not be passed to a lemma here. The existence of the
recursive function behind the fold, and the induction over it, rest on a measure of finite sets
(`MeasureExists`) and `LeastNat`.

*Balancing.* `ChainCopies` is the hardest walk: after k copies, the consumers at most k + 1 levels
below are fed by the chain, every new buffer has one writer, one level above its readers, and
the end of the chain is where the next copy goes in (`ChainedTo`, `ChainHopIs`). `BalancedIs`: after
a node was visited its outputs are balanced or nodes were added, so at the fixpoint, where
nothing was added, all edges are (`FixpointBalanced`).

*Legalizing.* Both patterns map nodes to the nodes they are fused into (`Condenses`); that uses
come from uses, at the same taps, is all that is needed. `FuseMultiConsumer` fuses nodes of one level
(`GroupsAre`), so levels stay. `FuseBypassPath` does not keep them, but with balanced edges
it has nothing to fuse (`NothingBypassed`): no level is bypassed, so the recursion of
`BypassedLevels` is satisfied by the function that is empty everywhere.

*Tokens.* `InvMakesTokens`: a flow from one node to another through a DRAM buffer makes the second a
consumer of the buffer the first writes; by `Edges` it is tapped one less than the levels between the
two, and a tap is a natural number, so the token the pass makes waits at least one level.

### The front end

`DataflowFrontEndProofs` proves, for any set of functions `WellFormed` admits, with any operations,
ifs, loops, calls and copies in any number, and in every order of the greedy driver:

| Theorem | Statement |
|---|---|
| `FrontEndInvariant` | `[]FrontEndInv`, the inductive invariant |
| `ValuesStayDefined` | `[]UsesDominated`: each value that is used is defined by an operation that is still there and dominates the use |
| `TasksReady` | what is lowered has all operations but the allocs in tasks, once each and in order, and values cross tasks by streams only (`AllInTasks`, `StreamsBetween`) |
| `FailuresHaveACause` | `[]StopsForACause`: AffineStoreForward crashes, and LowerDataflow rejects, only functions of the form named |

*Assumptions*: none on the constants. `Init` asks for `WellFormed`: what the verifier of MLIR asks
of a function (ids differ, ifs are followed by what is in them, a value dominates its uses), and
that ifs are one deep and copies at the top. `IsBlock` states it, and the proof shows that it is itself an invariant.

*Blocks.* Every rewrite puts a sequence in the place of each operation: nothing where it is
erased, itself with other operands, or new ones in front (`FlattenSeq`, a fold over the
sequence that exists by `LeastNat`; `FlatExists`, `FlatIs`). `Flattened` gives
each operation its place, the pair of the position before and the position within, and the
order of the places is the order in the block. From then on a block is argued about by places
(`FlatView`), and `FlatBlock` says when the result is a block: ids differ, an if is ahead
of its body with nothing else between, definitions are ahead of uses. One lemma per rewrite
shows this: `ErasedBlock`, `ReplacedBlock`, `HoistedBlock` (a store leaves its if, with a select and
a load in front), `UnwrappedBlock` (a redundant if), `MergedBlock` (the bodies of a chain of ifs
come together in the last), `PrependedBlock` (an alloc moves to the front), `PrefacedBlock` and
`StreamedBlock` (reads of streams in front of a task).

*Inductive invariant* (`FrontEndInv`). `UsesDominated` alone is not inductive. Operations that are to
go stay in the block until the end of a walk, and a step must not make another use of
them.

| While | it says besides `IsBlock(ops)` |
|---|---|
| loads are visited | the walk holds loads that are there; a load that is to be erased is used no more, and finds its value in a store or load ahead of it with no write in between (`LoadsState`, `LoadsMayGo`), so that a load may take its value from one that goes |
| stores are visited | the walk holds stores that are there; what is to be erased is a store or an if, or is gone already, and then its id is not given again (`StoresState`) |
| the block is partitioned | the tasks, what is collected and what is left, one behind the other, are the operations of the block that are no allocs, in order (`PartitionState`) |
| streams are made | tasks are not empty and have all operations but the allocs, in order; a task whose results were streamed is used through reads only (`TasksState`, `ByReads`) |

`StreamTask` is the hardest step: the reads go in front of the first operation of their task, the ids
of them are new (`ReadIds`), a read stands behind what it reads because a use in another task
comes behind the whole task that defines the value (`UsedLater`), and the lists of the tasks stay
lists in order (`JoinedLists`). That the concatenation of the tasks then *is* the list of
operations (`AllInTasks` is an equation of sequences) follows from `SameList`: two lists of the same elements, both
in the order of one block, have no first position where they differ.

*Why the passes fail* (`OriginInv`). `StopsForACause` is about the function as it was, and the
crash is one step of a rewritten block. `Follows` relates the two: what is not a load is still
there, in order, with the same access, or it is a store that left its if together with the if
(`Gone`), and what is new are loads and selects. So a store right before an if around one store
was there in the beginning, but for loads in between (`CrashesForACause`). A
rejection needs a returned value that is a stream, hence one the function computed, and a task, hence a loop or a copy
that became one (`RejectsForACause`, `LoopsInv`, `ReturnsInv`).

### Exploration

`DesignSpaceExploreProofs` proves, for all functions, estimates, distances and bounds:

| Theorem | Statement |
|---|---|
| `NestsAreTriedOutsideIn` | `[]NestsOutsideIn` |
| `FullUnrollingIsLeftOut` | `[]NeverFullyUnrolled` |
| `FrontierIsKept` | `[]ParetoPointsAreFrontier` |
| `NothingNearIsLeft` | `[]ExploredToTheEnd` |
| `NoCombinationIsLost` | `[]CombinationsCovered` |
| `BestDesignIsApplied` | `[]AppliedIsBest` |
| `ExplorationImplementsBestDesign` | `ImplementsBestDesign` |
| `ExplorationTypes` | `[]TypeOK` |

*Assumptions*: `SpaceAssumption`: the DSPs and the answers of the estimator are natural
numbers, the II not 0; `ForestAssumption`: the loops of a function are finitely many, have
trip counts, and stand behind the loop around them, as in any function.

*Recursion.* The helpers on loops are functions recursive over the loop tree, up
(`BandTo`, `TimesRun`, the loops `around` in `Inside`) or down (`InnermostLoop`), and the weights of
the digits of a config are recursive, too. TLA+ defines such a function by a `CHOOSE`, which says
nothing unless one exists; `FixedPoint` of `NumberLemmas` shows it does, for any recursion
along a bounded measure, by iterating it as often as the measure allows. From then on
`ForestInduction` takes the place of induction: the least loop without a property has a parent with
it.

*Nests* (`NestInv`): of the loops that wait to be looked at or tried none is inside of another,
and the nests around them were all tried and kept. `NestsOutsideIn` alone is not inductive: the
next candidates come from the targets. The ends of bands below loops that are not
nested are not nested either, and a nest around the one is around the loop it came from
(`InnermostIs`, `InsideCompares`); unrolling a candidate takes away no loop that waits, as none is
inside of it, and no child loop of a nest around one that does (`UnrollIs`).

*Configs* (`BandsInv`, `NotFullyUnrolled`): a config selects the trip count of a loop only by the
greatest digit (`TripIsLastSize`: the sizes are in ascending order). If every digit is the greatest
one, the config is one less than a multiple of the number of all configs
(`GreatestDigit`, loop by loop); the configs end two below. No bound on the sizes matters: when
`MaxLoopParallel` cuts off the trip count, no config unrolls the loop, and with a loop of no
iterations no config is ever looked at. `BandsInv` also counts the bands, so that the factor and the number of
iterations that enter a latency are numbers (`TimesOfBand`, `EstimatedIterNum`).

*Pruning.* Everything rests on three lemmas about `updateParetoPoints`: below each point it
keeps one as fast and as small (`PruningCovers`: of the points below, take the smallest
and among them the fastest, by `LeastNat`); what it keeps is what none dominates
(`PruningIsFrontier`); and points may be pruned before others are added
(`PruningInSteps`), which needs the first.

*Inductive invariant* (`ExploreInv`): in each design space the Pareto points are those that
fit while it is initialized, and afterwards the pruned ones of those that fit; inactive
points have no neighbour (`Neighbors` only shrinks); the spaces of finished bands are
explored; all points have natural latencies and DSPs; combinations are covered. The
frontier alone is not inductive: a step prunes what the last step left plus new points, and
only `PruningInSteps` relates that to all points. `CombinationsCovered` is kept by a new
band because latency and DSPs of a combination grow with those of its parts
(`AnnotatedCovers`), and because a part of an affordable combination is affordable, so that
dropping what does not fit, band by band, loses nothing (`CombineKeepsInv`).

*Refinement* (`ExplorationImplementsBestDesign`): initial states map to `BestDesign!Init`
(`InitRefines`), and each action to a step or a stutter: simplification and search stutter or
give up (`SearchRefines`), a combination extends what is found (`CombRefines`, by
`AnnotatedCovers`), and applying the best chooses the fastest that fits (`ApplyRefines`,
by `CombinationsCovered` of the invariant, without which the frontier might have lost it).

### Parallelization

`ParallelizeDataflowNodeProofs` proves, for all programs, options and orders of the nodes:

| Theorem | Statement |
|---|---|
| `InvHolds` | the inductive invariant `IInv`, type correctness of analysis, shares, jobs and factors with it |
| `FactorsDivide` | `[]FactorsDivideTrips` |
| `CrashesHaveCauses` | `[]CrashHasCause` |
| `SeedsGrow` | `SeedsOnlyGrow`, an action property |
| `SharesFollowWork` | `[]FactorsFollowWork` |
| `FactorsAreSpent` | `[]BudgetSpent`: no node gets less parallelism than its share unless its loops are unrolled whole |
| `UnrollingPreservesWork` | `[]WorkPreserved`: tiling and unrolling keep the number of times the body runs |

*Assumption*: `ProgramAssumption` (constant trip counts are not 0, depths name loops of
the band, finitely many nodes), which TLC evaluates on the programs of the run.

*Inductive invariant*: `FactorsDivideTrips` alone is not inductive: factors pass through the job
that grows them, and come to a node from another one's loops. `IInv` says that the factors
of the job and of every node have the length of the band and divide its trips where
correlated loops agree, and relates the job to the phase; `BudgetInv` types the analysis and
the shares. A step of `Grow` moves a factor to the least divisor above it
(`IncreaseFactorDivides`, by `LeastNat` of `NumberLemmas`) or wraps, which `WrappedHasCause` traces to a loop
of one iteration or to correlated loops that disagree; `Distribute` uses `DistributedSizeFits`;
`SettleNode` is `SeedsFit`, where `PermutedFactorsFit` carries a factor to the loop of
the other node that indexes the same dimension.

`FactorsFollowWork` needs another invariant, `ShareInv`: once there are shares the
complexities are final (the analysis is over before the first schedule is budgeted), all nodes of
a schedule get theirs in one step, and what a share was computed from, the share of the node
around included, does not change later, for `Insert` keeps what a map has
(`BudgetedKept`). The rest is integer division: the critical node gets `f * c \div c`, which is f
(`DivOfProduct`), and division is monotonic (`DivMonotone`).

*Products* (`NumberLemmas`). The last two theorems are about `FoldFunction` with
multiplication, whose definition in the community modules goes over a set by choice. That
a function with its recursion equation exists is proved by `SubsetInduction` (a least set
for which it fails) and `LeastNat`, and that the order of choices does not matter in `ProdSplit`: a product over
a set is any factor times the product over the rest. From there: a product of products
(`ProdTimes`), of equal functions (`ProdSame`), of a sequence behind another (`ProdConcat`).

*Spending* (`FactorsAreSpent`, invariant `SpentInv`). While a job runs, the product of its
factors so far, times what is left of the share, is at least the share, or the product alone is
(`Reached`); `Grow` either keeps this (`ReachedGoesOn`) or ends the job because no loop has a
larger divisor, and then the factors are the trips (`NoCandidateIsFull`). Between the jobs a
node that has factors is spent or waits to be visited, and nodes correlated with a visited one have factors: without
this a node could be left with the factors another one seeded.

*Work* (`UnrollingPreservesWork`, invariant `BodyInv`). A tile count times its factor is the
trip, loop by loop (`TilesCover`, from `FactorsDivideTrips`); so the product of the tile counts
times that of the factors is that of the trips (`UnrolledPreserves`), also when the outermost
loops of a band were left alone (`EmbeddedPreserves`, by `ProdConcat`).

### Estimation

`QoREstimationProofs` proves, for all functions, loop directives, dependences, memory kinds and
partitions:

| Theorem | Statement |
|---|---|
| `ScheduleInOrder` | the inductive invariant `TimeInv`, types with it |
| `ReverseScheduleInOrder` | `[]ForwardOrder` |
| `SchedulePlacesWithinPorts` | `ImplementsPortSchedule`: the estimation implements `PortSchedule` |
| `IntervalRespectsDependences` | `[]CarriedRespected` |
| `IntervalFitsPorts` | `[]AccessesFitII` |

*Assumptions*: `EstimationAssumption` (`Many` is a number, `NoLevel` is none) and, through
`Init`, `WellFormed` of the function: operations are numbered in the order of a walk, uses
come after the results they use, a flattened loop holds its inner loop and nothing else, the
dependences within an iteration go forward, and identical accesses of one block are known to
depend on each other and to lie in the same partitions. TLC evaluates both on the
functions of the run.

*Inductive invariant* (`TimeInv`). That each operation comes after its successors is not
inductive: a successor may stand in another block, and what is compared then is the loop that
holds it (`SameLevel`), or nothing when it is a loop still open. So the invariant also says
what is scheduled (`OrderInv`: the end of the function in program order, open loops
excepted), that loops and open blocks span what is scheduled of them, and that an open loop
begins behind all that is scheduled around it (`BoundsInv`). The hard case is
`LeaveLoop`, where a loop gets the latency of its intervals and not the span of its body: for a
flattened loop the latency is that of the loop in it, so the last conjunct of `BoundsInv` keeps the
two together; for a pipelined one the span is at most its latency. `LatencyInv`
and `LevelInv` (a search for ports only goes up) carry types and order through the remaining
steps; one lemma per action (`OperatorStep` to `FinishStep`) keeps `TimeInv`.

*Reversal* (`ReversedInOrder`, with `DoneInv`: at the end all is scheduled). `reverseTiming`
measures an operation from the loop around it, whose own level is still the reverse one:
within one block both operations are measured from the same end, so their order turns around
whatever that end is. In a flattened loop levels are not measured from an end, but there is
only one operation.

*Ports* (`PortInv`). What is left on a level of a bank is related to the accesses that are
scheduled there: reads of distinct words and writes are at most the ports taken. It can not be
an equation, for an access that finds a port in one partition and none in the next goes on
to another level and keeps what it took (`QoREstimation.cpp:188`); the invariant
allows ports that nobody uses, and no more is needed for `FitsInv`, which is `PortSchedule!Fits`
of every level.

*Refinement*: initial states map to `PortSchedule!Init` (`InitMaps`); placing an operator or
an access that found its ports is `PortSchedule!Place` (`PlaceMaps`: late enough by
`SuccessorInv` of the next state, within the ports by `FitsInv` of it), and trying a level,
entering or leaving a loop, and the reversal stutter (`StepMaps`).

*Intervals.* `CarriedCovered`: a dependence against the order of the schedule is covered by
`Ceil` of delay over distance (`CeilCovers`), one in the order by `SuccessorInv` alone.
`AccessesCovered` counts: the accesses to a bank are spread over the levels the loop spans, each
level holds at most its ports of them, so there are at most levels times ports
(`FibreBound`, by an injection into pairs of a level and a port; `LevelsCover`), and
distinct words are counted by one read each (`Representatives`).

### Only model-checked

All liveness (`ScheduleTerminates`, `BalancedRunsEnd`, `ExplorationEnds`, `ParallelizationEnds`,
`EstimationEnds`, `FrontEndEnds`), which the provers can not do; of `DataflowPipeline` `MeaningPreserved` and `FlowsGoDown`, which compare executions of
schedules (`Meaning`, a fold over the accesses of all bodies), and whose invariant would have to say of every rewrite
what it does to an execution; of `DataflowFrontEnd` `MeaningLostForACause`, which compares
executions of blocks in the same way, and the last part of `ReadyToLower`
(`L!WellDefined`: a buffer of the dispatch is written before it is read), which rests on the same comparison: the
forwarding erases a store only if nothing sees it, and a function that reads what it
allocates before it writes is not excluded by `WellFormed`.

## 6. What is not modelled

* Between the dataflow passes the pipeline runs AffineStoreForward, LowerCopyToAffine,
  ParallelizeDataflowNode and others that rewrite bodies only; they are no steps of
  `DataflowPipeline`. They are modelled on their own.
* Copies: views, initial values, constant buffers, memory spaces (all buffers are in one on the
  chip, so every copy is lowered), copies under ifs and loops, `SplitElementwiseGenericOp`. A
  call does not declare its effects (`hasEffect` is MLIR's), and may write what it is given.
  Between SimplifyCopy and AffineStoreForward the pipeline places buffers, tiles loops and
  makes local ones; there the model goes on at once.
* Front end: dispatches inside of loops, task results that are memrefs, calls in tasks, constants
  (which the driver hoists), vector accesses whose types differ.
* Parallelization: bands that branch, ifs, several schedules in one node; the assertions of
  `Correlation` on accesses that index two dimensions by one loop (`Analysis.h:49`).
* Estimation: ifs, calls, copies, `no_touch` loops, pipelined and dataflow functions,
  DSP and BRAM counts (`totalNumOperatorMap`, which each block clears).
* Of the canonicalizations, `FlattenReadOnlyBuffer` (constant buffers) and
  `InlineScheduleOrNode` (a schedule or node with one child) are left out. Of LowerDataflow, the localisation of constants
  and the conversion of `memref.alloc` to `BufferOp`.
* `BufferMultiProducer` copies element by element under a test of the old contents in
  one case; the model takes the full copy.
* Nested schedules: a schedule is modelled alone; `depFree` is all it knows of its parent.
* Of the design space exploration: what loop perfection, loop order and the removal of
  variable bounds do to a band (stage 2 answers only whether the function fits), the memory
  optimizations and array partitions it calls, `exportParetoDesigns` and the CSV files;
  the width of its unsigned products; what a division by zero does in the build where a
  loop of no iterations has wrapped the number of configs (`DesignSpaceExplore.cpp:107`, line 148 takes the digits
  modulo 0): the model takes the crash; the eligible nests inside a nest above the bound on the
  parallelism, which is dropped with them (`DesignSpaceExplore.cpp:644`), where the comment in line 597
  applies the simplification "until no eligible LN exists"; time, so that seeding the generator with `time(0)`
  in each iteration does not matter.
* The components with status `not_modelled` in `PROJECT.json`.

Of about 130,000 lines of implementation 110,000 are generated sample programs under
`samples/` (C++ that the compiler has emitted), and 12,000 more print, match or rewrite single
operations; the modules are about the rest, where decisions are made.

## 7. Plan

What is left, in this order; each step has its abstract specification or reference, run and
theorem.

1. **Execution of a legal schedule**: nodes as processes, ping-pong buffers of the given
   depths, token streams with taps; abstract specification: frames of the source program in
   order. The hardware is what the emitted C++ means to the vendor tool, so this is external to
   the repository but for the depths and taps.
2. **Loop transforms** the exploration calls: perfection, order and tiling as index
   computations; `exportParetoDesigns`.
3. **ConvertDataflowToFunc, PlaceDataflowBuffer, BufferizeDataflow**.
4. **ArrayPartition** across calls; **TileAccelGemm/LowerAccelToCalls**: tiles cover
   the iteration space once.
5. **EmitHLSCpp** name tables; the remaining pipelines.
6. Proofs: `MeaningPreserved` for the rewrites that only rename buffers, and
   `MeaningLostForACause` for those that move nothing, on the places of `DataflowFrontEndProofs`.
