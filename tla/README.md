# A TLA+ development of drob

drob rewrites a function of the running program: it decodes the machine code
into a graph of super blocks, transforms the graph in passes, and generates new
code. Nothing in it is concurrent. What makes it hard is that a dozen passes
transform one linked structure by hand, decide now what they do later, and rely
on analyses of which nobody checks that they still hold; and that a mistake
shows in the rewritten function, not in drob.

This directory holds models of those parts as TLA+ modules, TLC configurations
that check them on small inputs, and proofs of the most important results for
all inputs.

## The system

| part | source | state | operations | talks to |
|---|---|---|---|---|
| API, configuration | `drob.c`, `RewriterCfg.hpp` | signature, known parameters, constant ranges, limits | create, set, check, free | `drobcpp_optimize` |
| entry point, registry | `drob_internal.cpp`, `Registry.hpp` | map from rewritten code to its pool | optimize (catching exceptions), free | rewriter, binary pool |
| rewriter | `Rewriter.cpp`, `Pass.hpp` | list of passes | run passes, again if they ask for it; run analyses a pass needs if they are not valid | all passes |
| node flags | `Node.hpp` | per node: stack/liveness analysis valid; parent | invalidate upwards | function, block, instruction |
| ICFG, functions | `ICFG.hpp` | functions, call edges, visited flags | add, remove, traverse | reconstruction, code generation |
| block graph | `Function.*`, `SuperBlock.*` | blocks, entry, chains `next`/`prev`, branch edges, return edges | add, decode, split, copy, merge, remove, unchain, traverse | all passes |
| ICFG reconstruction | `passes/ICFGReconstructionPass.hpp` | map of known blocks, stack of blocks to resolve | decode, wire up, split | block graph, decoder |
| loop unrolling | `passes/SimpleLoopUnrollingPass.hpp` | collected loops | isolate, copy, redirect, invert | block graph |
| block layout | `passes/BlockLayoutOptimizationPass.hpp` | blocks to merge | chain, merge | block graph |
| dead code elimination | `passes/DeadCodeEliminationPass.hpp` | blocks to remove | turn decided branches into jumps or nothing, remove | stack analysis |
| stack analysis | `passes/StackAnalysisPass.hpp`, `ProgramState.*`, `Instruction.cpp` | entry state per block, work list | emulate, merge, forward | emulator, liveness |
| liveness analysis | `passes/LivenessAnalysisPass.hpp` | register masks per block and instruction, work list | propagate backwards | dead write elimination, stack analysis |
| specialization, memory operands | `passes/InstructionSpecializationPass.hpp`, `passes/MemoryOperandOptimizationPass.hpp` | none | replace instructions | program state, binary pool |
| dead write elimination | `passes/DeadWriteEliminationPass.hpp` | none | remove instructions without liveness data | liveness |
| code generation | `passes/CodeGenerationPass.hpp`, `x86/Encoder.cpp` | address per block, open branches, write flag | measure, write, fix up | binary pool |
| binary pool | `BinaryPool.cpp` | pages, next code and constant, reuse maps | allocate, align, reset | code generation, specialization |
| memory protection cache | `MemProtCache.cpp` | ranges known constant | ask | reconstruction, memory operands |
| x86 back end | `x86/` | tables | decode, convert, emulate, specialize, encode | all |

Parts share the graph through raw pointers. The only callbacks are
`NodeCallback`s, called while a container is being walked. A failing
`drob_assert` throws (`Utils.hpp:63-77`), and the exception ends the rewriting:
the caller falls back as configured (`drob_internal.cpp:50-72`). There are no
timeouts, messages or restarts; the hard behaviours are ordering (work lists,
walks, iteration over an `unordered_map`), stale state (edges collected before a
split, merges decided before other blocks are chained, analyses after a change)
and long sequences of legal operations that reach a graph nobody thought of.
`PROJECT.json` lists every such place under `hazards`, and every part, modelled
or not, under `components`.

What makes each part correct:

* block graph: links have their counterparts, whatever sequence of operations;
* decoding, unrolling, layout: control flow remains that of the machine code;
* liveness: a fixpoint of the data-flow equations, reached in finite time;
* dead write elimination: no observable difference on any path;
* stack analysis: what it claims of a value holds on every path, a decided branch
  goes where it was decided to go, and no stack pointer is lost sight of;
* specialization, memory operands: the new instruction does what the old one did;
* dead code elimination: what is left continues as before, if branches go as the
  stack analysis says;
* decoder and encoder: what is written means what was read;
* binary pool: no two users of one piece of memory;
* validity flags: no pass reads an analysis that does not hold;
* code generation: every branch reaches its target, and falling through too;
  what is measured is what is written.

## The modules

| module | models | extends |
|---|---|---|
| `LivenessAnalysis` | the work list algorithm, one instruction and one edge at a time | |
| `DeadWriteElimination` | the removal, and the original and the reduced function side by side | `LivenessAnalysis` |
| `LivenessProofs` | theorems about both | `DeadWriteElimination`, `ListFacts` |
| `ListFacts` | lemmas about natural numbers, loops and lists | `Lists` |
| `Lists` | the elements of a list that are in a set | |
| `BlockGraph` | the graph of a function and its operations; what a function means | |
| `ICFGReconstruction` | `decodeFunction` | `BlockGraph` |
| `SimpleLoopUnrolling` | the pass | `BlockGraph` |
| `DeadCodeElimination` | the pass, with any verdict on the branches | `BlockGraph` |
| `BlockLayoutOptimization` | the pass | `BlockGraph` |
| `CodeGeneration` | the walk that fixes the order of the code | `BlockGraph` |
| `FunctionRewriting` | these five in the order of `Rewriter.cpp`; the properties | all of them |
| `GraphProofs` | what each operation on the graph does, and that links survive it | `BlockGraph`, `ListFacts` |
| `RewritingProofs` | the passes use the operations as they are meant to be used | `FunctionRewriting`, `GraphProofs` |
| `UnrollingProofs` | unrolling puts the iterations of a loop in a row | `RewritingProofs` |
| `PassProofs` | what the other passes leave behind | `RewritingProofs` |
| `ProgramState` | what the stack analysis knows of registers and stack | |
| `Emulation` | `Instruction::emulate()`, the emulators, `willExecute()` | `ProgramState` |
| `Machine` | the processor: the reference for the emulators | `Emulation` |
| `EmulationSoundness` | machine and program state side by side, along paths that join | `Machine` |
| `ProgramStateProofs` | program states stay well-formed, merging settles, predicates follow | `EmulationSoundness`, `ListFacts` |
| `Specialization` | the callbacks of `Specialize.cpp` | `Machine` |
| `SpecializationSoundness` | each of them in all states reached | both |
| `MemoryOperandOptimization` | the pass, for one instruction | `Specialization` |
| `StackAnalysis` | the forward work list, and the passes that use it, on whole functions | `MemoryOperandOptimization` |
| `Isa` | x86 machine code, as XED reads it (external) | |
| `Converter` | from what XED decoded to drob's instructions | `Isa` |
| `Encoder` | from drob's instructions to machine code | `Isa` |
| `Recoding` | encode, decode, copy or encode again | `Converter`, `Encoder` |
| `BinaryPool` | pages of code and constants | |
| `CodeLayout` | the two runs of code generation over the pool | `BinaryPool` |
| `Allocator` | what a pool of memory promises | |
| `CodeLayoutProofs` | theorems about `CodeLayout`, and its refinement of `Allocator` | `CodeLayout` |
| `MC...` | the small inputs for TLC | |

### Liveness analysis and dead writes

A register mask is a subset of `Reg`; an instruction is a record of what its
`InstructionInfo` says (registers read, written, written conditionally or partly,
read by the predicate; whether it may write memory; what `willExecute()` says). A
function in `Functions` is any graph `WellFormed` allows: `next` is injective,
and a block without a successor ends with control flow that is always taken.

`queue` and `queued` are the work list and `isQueued`; `valid` is
`livenessAnalysisValid` of the blocks; `data` the blocks with a `LivenessData`,
`liveIn` their `live_in`; `liveAt[b][k]` the mask carried by the walk before
instruction `k` (with the `live_out` of the block at the end); `kept` the
instructions with liveness data. `Seed` enqueues the blocks that return;
`AwaitNext` and `StartBlock` are the two ways into `processBlock()`;
`ProcessInstruction` one turn of its loop; `FinishBlock`, `PropagateEdge` and
`PropagatePrev` what follows. The iteration order of edges is left open (`\E s`).

`DeadWriteElimination` removes `Positions(fn) \ kept`, then follows the original
and the reduced function along the same path. It needs no values: `wrong` is the
set of registers that differ. A removed instruction makes what it may write wrong,
an instruction that reads something wrong makes its results wrong, a correct
write repairs. `SameBehaviour` says that nothing returned, stored, branched on or
passed to unknown code is ever wrong.

### The block graph

`BlockGraph` holds the operations as operators on a record `f` (pointers are
numbers, `0` is `nullptr`), so that the passes compose them as the code does:
`AddBlock`, `DecodeBlock`, `SplitBlock`, `CopyBlock`, `MergeBlockIntoNext`,
`UnchainNext`, `RemoveInstruction`, `RemoveBlock`. `f.status` becomes `"thrown"`
where a `drob_assert` fails, and `"undefined"` where a block is merged with itself
(which splices a list into itself); nothing happens afterwards.

Machine code is a sequence of instructions by label: `op` (anything plain), `nop`
(dropped by the decoder), `jcc`, `jcxz` (a condition without an inverse), `jmp`,
`ijmp` (unknown target), `call`, `ret`. `TextLands(l)` is the instruction the
machine reaches from label `l`, going through jumps and NOPs; `Lands` the same
for the graph. What the code collects with a loop and a test is `Only(s, S)`, the
elements of list `s` in set `S`, rather than `SelectSeq`, whose test is an operator: no
lemma could be stated about it. `Continues` compares what follows an instruction in both, with
branches taken and fallen through exchanged where a condition was inverted.

`ICFGReconstruction` takes one step per collected branch; `Covering` are the places
where `iTextCovered()` may find an instruction, one of which is chosen.
`SimpleLoopUnrolling` takes one step to isolate a loop and two for each copy:
copying it and redirecting branches, then placing it behind. In
`DeadCodeElimination` up to `MaxDecided` branches are found always or never taken,
whichever (the stack analysis that decides is a model of its own): instructions
are visited one at a time, blocks nobody enters are removed one at a time with
their edges and chains. Plain instructions are never dead writes here, code
without liveness data keeps its branches, and a function without return throws
(the assertion of the liveness analysis it needs). In `BlockLayoutOptimization`
the walk decides, block by block, and merging follows. `CodeGeneration` models
`for_each_block_dfs` with its visited flags. Layout runs three times when loops are
unrolled and twice otherwise (`layouts`), as in `Rewriter.cpp`.

### Program state, emulation and the machine

A program state is `[reg, stack, ok]`: an element `[type, data, nr]` for each byte
of a register and of the tracked stack, as in `ProgramState.hpp`; a pointer is a head
and tails. `ok` is false once a `drob_throw` ended the analysis. `SetElements`,
`GetElements`, `MoveElements`, `MergeElements` and the helpers below them are the
functions of the same name. Words are `PtrBytes` bytes of base `Radix`.

`Emulate` is the whole of `Instruction::emulate()`: inputs of the operands with their
refined modes, the predicate, the emulator or the generic one, outputs in the order of
the operands, and the direct move again. The emulators execute the instruction on
the host where all inputs are known, so `Host` and `HostFlags` are what the
processor computes; floating point operations are any fixed function.

`Machine` says what an instruction really does. A byte is a number, a byte of a
pointer, or junk. Junk is a byte nothing is assumed of; two junk bytes compare equal,
so that a run that leaves junk where the original leaves other junk is not noticed
(properties speak of known values, and of stack pointers in junk). A store through a
pointer that may lead to the stack spoils it. `EmulationSoundness` runs both: `Step`
is one instruction, `OtherPath` and `Join` make two paths meet.

### Specialization, memory operands and the stack analysis

A callback of `Specialize.cpp` is a list of rules, of which the first applicable one is
taken; opcodes of one callback that differ in their operands only are one case
each. `SpecializedSame` executes the result next to the original. In
`StackAnalysis`, `Start`, `ProcessBlock` and `Finish` are `runStackAnalysis()`:
`queue`, `valid` and `entry` are the work list, `stackAnalysisValid` and the entry
states of the blocks, `dyn` and `live` what instructions cache. `live` is the least
solution of the liveness equations on bytes of registers, which `LivenessAnalysis`
shows the analysis computes. `SpecializeInstructions`, `OptimizeOperands` and
`EliminateDeadWrites` are the passes, in the order of `Rewriter.cpp`; each drops what
is cached of the instructions it changes and invalidates their blocks. Every idle
state is judged by executing the original and the current function (`Run`) with
every outcome of the branches on junk.

### Machine code

`Isa` is the reading of machine code, with fields of 1, 2, 4 and 8 bytes shrunk to
the limits of `Limit`; it is external, written from what `Converter.cpp` asks of XED and
from the Intel manual: opcode D1 shifts by 1 and XED reports that as an immediate; an
operand size prefix on a near jump is ignored. `Encoder` has the table of forms per
mnemonic and `ModRMEncoding` with its displacement and index rules, `Converter` the
cascade of `convert_*`. `Recoding` takes an instruction, writes it at an address,
decodes it, and lets it be copied or changed and encoded at another address,
`Rounds` times.

### Layout of the code

`CodeLayout` takes a program as the walk sees it (blocks, instructions of given
length, branches, calls, ends of functions) through `run()` twice: `HandleBlock`,
`HandleInstruction`, `HandleBranch`, `HandleCall`, `FixupNext`, `EndFunction`,
`FixupCall`. `AddConstant` is what earlier passes put into the pool. `landed` and
`measured` are history: where what was written leads, and what the first run found.
`Allocator` is the abstract specification of the pool: whoever gets memory gets some
that nobody holds. `IsAllocator` is the refinement, with `held` mapped to the memory of
code and constants.

## The runs

| run | input | shows |
|---|---|---|
| `liveness` | three blocks in layout order, each with at most one plain instruction and every possible ending | the inductive invariant, the assertions, the fixpoint, that every block that can return is analysed, and termination |
| `dead_writes` | two blocks, each with every pair of moves, stores, conditional writes, conditional moves, calls and untaken branches | no path shows a difference |
| `rewriting` | every piece of machine code of four instructions over `op nop ijmp ret jcc jmp` | consistent links, same paths, nothing forgotten while decoding, everything wired up and generated, termination |
| `unrolling` | code of four instructions over `op ret jcc jcxz jmp` with a backward branch and at most two branches, loops unrolled twice, up to two branches decided | links and paths, iterations in a row, and that dead code elimination leaves what it should and nothing else |
| `emulation` | every path of up to three of 24 instructions, with a join anywhere | known values, pointers and predicates are what the machine has; no stack pointer hides; tails belong to pointers; merging settles |
| `specialization` | every callback in every state reached by three of eight preparing instructions | the specialised instruction does the same, and the next analysis knows no less |
| `stack_analysis` | 444 functions: lines, loops, diamonds, branches never taken, addresses with known and unknown parts | cached information is right on every path, the function returns the same after every pass, the analysis ends |
| `recoding` | every opcode of the encoder with the operands where its encoding changes shape, at three addresses | what is written means the same, and is decoded to the same |
| `code_layout` | functions with branches around the 8 bit limit and the end of the page, constants in the pool | the second run needs no more than the first, short branches back reach, what is written lands, code generation ends, the pool refines `Allocator` |
| `unreturned_blocks` | three blocks with stores | **violated**: a block that reaches no return loses its stores and branches |
| `entry_lost` | as `rewriting` | **violated**: code is merged in front of the entry |
| `forward_branch` | as `code_layout`, without constants | **violated**: a branch measured short no longer is |

**Bounds, and why they are enough.** Three blocks let the liveness analysis meet a
chain with a successor still unknown, a loop whose head is waiting, and a block that
is enqueued again while it is processed; two registers distinguish read, written and
untouched. Four instructions are enough for a block to be split while its own
branches are being wired up, for overlapping blocks, for loops with two back
edges and an exit, and for chains of three blocks. `UnrollCount = 2` is the least for
which a copy is copied; `MaxDecided = 2` lets one decided branch make the block of
another one dead. Words of two bytes of two bits (`PtrBytes`, `Radix`) have a half,
an upper byte, sign and carry, and 32 bit quantities are half a word; the stack of four
bytes (`StackRange`) holds two overlapping words. `MaxSteps = 3` is a pointer stored, part
of it overwritten, and read. `MaxRun = 24` instructions and `MaxCoins = 3` branches on unknown
values go round each loop at least three times; runs that need more are not
compared. `Limit` keeps the order of the sizes of fields. `Rounds = 2` encodes what was
decoded from an encoding. The page of 512 bytes can be filled, in a region of two pages
(`MmapSize`); branch lengths, alignment and the 8 bit limit are the real ones.
`MaxConstants = 2` has two constants next to each other. That constants overflow
their page is beyond this run, and covered by the proof only.

Each piece of machine code ends with an instruction that does not fall through, as
decoding never stops otherwise (`TextAssumption`; the proofs use it too). Runs where everything ends (`CHECK_DEADLOCK FALSE`)
do not look for deadlocks; `stack_analysis` and `code_layout` do, with an explicit
stuttering step at the end.

Each property of a passing run has a mutant in `PROJECT.json`: the module's
definition replaced by the variant next to it (`Notify_OnlyNews` for `Notify`)
must violate it.

**Fairness.** `WF_vars(Next)`, and `WF_vars(Step)` in `CodeLayout`, where the passes need
not ask for constants for ever: drob runs in one thread of its caller, and a loop
that can take its next turn takes it. No choice is assumed to be fair: where the
model leaves an order open, termination holds for every order. `StackAnalysis` has no
choices and states no fairness; that it ends is a bound on how often a block is walked
(`AnalysisEnds`), together with the check for deadlocks.

### What the violated runs mean

* `unreturned_blocks`: an instruction without liveness data is deleted
  (`DeadWriteEliminationPass.hpp:73`), and blocks from which no return can be
  reached have none, because the analysis starts at return edges. `while (1)`
  behind a condition loses its body.
* `entry_lost`: a block that jumps to the beginning of the function, if that has
  no other predecessor, is merged in front of it, and the function begins with it.
* `forward_branch`: blocks are aligned in both runs. If code before a forward branch
  gets shorter and its target stays at a multiple of 16, the distance grows, and a
  branch measured at 127 bytes fails the assertion in the second run: the function
  is not rewritten. `BackwardFits` shows that branches back are safe.

### Other disagreements met, and inputs left out

Modelling also led to the following. The models have the code's behaviour; the runs
leave the inputs out, or the property excepts them, so that everything else can be
checked.

Graph:
* `BlockLayoutOptimizationPass.hpp:67`: "the destination must not already be part of a
  chain" is tested by `prev` alone. A loop that ends with `jmp` to its first block is
  chained to its own head; the walks over the chain never end. `RewritingEnds`
  excepts circular chains.
* `BlockLayoutOptimizationPass.hpp:53`: an empty block (a NOP before a loop) cannot be
  merged because its successor has incoming edges; `mergeBlockIntoNext()` throws.
* `Function.hpp:165`: if a block was visited through a branch before the chain that
  leads to it, its predecessor in the chain falls through into other code.
  `FollowsUnlessVisited` shows that nothing else breaks a chain.
* `Function.cpp:381`, `Converter.cpp:1023`: `call` ends a block like `jmp`, and nobody
  adds a successor. Calls are not among the inputs of the graph runs.

Program state and emulators:
* `ProgramState.cpp:183`: a store that reaches into a pointer from below clears at its own beginning,
  not at the head. If it ends with the head, the tails stay behind without one; a longer one
  meets a tail and fails the assertion in line 167.
* `ProgramState.cpp:600`: `mov eax, eax` clears the upper half before it is moved.
* `Instruction.cpp:667`: `push rsp` moves the stack pointer after it was changed.
* `Opcodes.inc.h:179`: `pxor` of unknown registers is not emulated as a dependency
  breaking zero.
* `Utils.hpp:47`: `True & Unknown` is `True` for `TriState`, so predicates joined by And
  (`NBE`, `NLE`) may be decided wrongly.
* `OpcodeInfo.cpp:199`: a load into half of an SSE register clears the other half; the
  table does not say so.

Specialization:
* `Specialize.cpp:362` and `:892`: `mov r, r` and `xor r, 0` of 32 bits are deleted, though
  they clear the upper half.
* `Specialize.cpp:214`: a scalar result known becomes a load that clears the upper half.
* `Specialize.cpp:107`: a pointer whose value is 0 becomes an xor; the pointer is no longer
  known to the next analysis.

Encoder and converter:
* `Encoder.cpp:1424` SUB from memory, `:1021` CALL through a register or memory, `:1580` XOR
  of 32 bits with a wide immediate, `:1188` 64 bit immediates, `:1364` shifts by an
  immediate, `:546` the stack pointer as base, R12 as base without SIB, SPL, BPL, SIL
  and DIL without REX, `:1719` the prefix of JCXZ with 32 bit counter in its long form
  (JCXZ64: overwritten by the opcode), `:527` an operand out of reach is only logged.
* `Converter.cpp:238`: an absolute address of 64 bits loses its upper half.
* `BinaryPool.cpp:63`: the next page is looked for one byte away, so code and constants
  never get beyond their first page.

Not in the list of hazards for want of a state to check: `drob.c:230` compares the
parameter index with `>` where `>=` is meant; `Function.cpp:354` uses `DIV_ROUND_UP` for the
distance to the next page; `LivenessAnalysisPass.hpp:401` uses a reference to a
queue element after removing it.

## The theorems

All proofs are for every value of the constants that meets the named assumptions; none
assumes a bound of the runs.

### Liveness analysis

`LivenessProofs` proves, for every set of registers and blocks and
every set of well-formed functions (the assumptions `BlockAssumption`: `None` is not a
block, and `FunctionAssumption`: each function is `WellFormed`):

| theorem | statement |
|---|---|
| `TypeCorrect` | `Spec => []LivenessTypeOK` |
| `AnalysisConsistent` | `Spec => []AnalysisInv` |
| `AssertionsHold` | `Spec => []NotEnqueuedTwice` |
| `FixpointCorrect` | `Spec => []FixpointReached` |
| `WrongIsDead` | `SpecAll => []RunInv` |
| `RemovalCorrect` | `SpecAll => []SameBehaviour` |
| `ReturningCovered` | `Spec => []AllReturningAnalysed`, if there are finitely many blocks |

**The inductive invariant.** That a valid block is up to date is not inductive: while
a block hands on its news, predecessors not reached yet are valid and out of date.
`AnalysisInv` excepts exactly them (`Unaware`), and adds what is needed to know that
the exception ends: a block with data that is not valid is enqueued or being
processed (`DataInv`), the marks agree with the queue, which holds no block twice
and no valid one (`QueueInv`), and the part of the block already walked agrees with
the data of its successors *now* (`ScanInv`: a branch to the block itself reads the
old `live_in`, and its change enqueues the block again). One lemma per action shows
that `AnalysisInv` is preserved; `NotifyFacts` and `UpToDateFrame` carry most of it.

**Removal.** `ReducedInv` adds to the fixpoint that no register that differs
between the two machines is alive where they are (`RunInv`). `RemovedKeepsRight`
and `KeptKeepsRight` are the two halves of the argument for one instruction; the
lemmas per action move it along fallthrough and branch edges with the equations.

**Every block that can return.** A block whose successor has no data is dequeued and
dropped, in the hope that the successor enqueues it again. `ReachInv` names the set of
blocks ever enqueued: one of them that has neither data nor a place in the work list
waits for its successor, which was enqueued too (`SeenInv`), and no set of such blocks
waits for itself (`WaitInv`: the successor got there later). When the list is empty the
blocks waiting would be such a set, so there are none. Finiteness is needed because
`ReachesReturn` counts steps up to the number of blocks.

### Layout of the code

`CodeLayoutProofs` proves, for every page size, alignment and region the constructor
accepts (`PoolAssumption`), every program whose branches and calls lead to its blocks
and functions (`ProgramsAssumption`) and constants of 1 to 16 bytes
(`ConstantsAssumption`):

| theorem | statement |
|---|---|
| `LayoutTypes` | `Spec => []LayoutTypeOK` |
| `SecondRunNeverLonger` | `Spec => []NeverLonger` |
| `SecondRunHasMemory` | `Spec => []MeasuredSuffices` |
| `BackwardBranchesFit` | `Spec => []BackwardFits` |
| `BranchesLand` | `Spec => []Lands` |
| `PoolIsAllocator` | `Spec => IsAllocator` |

**Two runs.** `NeverLonger` needs that lengths only shrink and that aligning is
monotone. `LayoutInv` says it item by item: what the first run measured of an item is
where it was and how long it was (`MeasureInv`, `FirstInv`), a branch is in `short` only
if its distance was within 8 bits (`ShortInv`), and every block already placed
by the second run lies at or before its first place, by no more than what was saved since
(`SecondInv`). For a branch back the saving lies between target and branch,
so the distance only shrinks; for a forward branch that argument fails at the
alignment of the target, which is what `forward_branch` shows.

**Landing.** `LandedInv` adds to `LayoutInv` that every branch the second run has passed leads to
its block, or still waits in `branches` (`BranchesPlaced`); that none waits behind the end of its
function (`NoneBehindEnd`); and the same of calls, which wait until the end (`CallsPlaced`). A
block already placed is behind the cursor and stays where it is. `Lands` excepts the JCXZ instructions that `CountedTooFar` names,
because for them the code is wrong (`Encoder.cpp:1719`); it is right for all others.

**The pool.** `PoolInv` adds that code lies below `nextInstr` in its page and constants
above `nextConst` in theirs (`CodeInv`, `ConstInv`), and that the page of code is below that of
constants. Allocating is then `Get` of the abstract allocator, resetting `GiveBack`,
everything else a stuttering step.

### The graph and the passes

`RewritingProofs`, `UnrollingProofs` and `PassProofs` prove, for all machine code that does not run beyond
its end (`TextAssumption`), every number of copies (`UnrollAssumption`), every number of
branches decided and every verdict on them (`DecidedAssumption`), and every order the
model leaves open:

| theorem | statement |
|---|---|
| `GraphStaysWired` | `Spec => []GraphWired` |
| `NoBranchForgotten` | `Spec => []NothingForgotten` |
| `LoopsUnrolledInARow` | `Spec => []IterationsInARow` |
| `EdgesStay` | `Spec => []AllWired` |
| `DeadCodeGone` | `Spec => []NoDeadCodeLeft` |
| `AllGenerated` | `Spec => []EverythingGenerated` |
| `CodeFollows` | `Spec => []FollowsUnlessVisited` |

**Operations.** For each operation on the graph, `GraphProofs` has a lemma that says what it
changes, as a relation between the graph before and after (`Decodes`, `Splits`, `CopiesBlock`,
`Merges`, ...), and one that this change keeps `GraphTypeOK` and `LinksOK`: instructions belong
to one block; an edge is in `incoming` of the block it leads to and, in the order of the
instructions, in `outgoing` of its block; `next` and `prev` are inverse. Each
operation needs something of its caller (a split needs a place inside the block, a
merge two different blocks). Where the code checks that with `drob_assert`, `f.status` is no
longer `"ok"` if it fails; where it does not, the invariant below must supply it.

**The inductive invariant** `Inv` therefore says, phase by phase, that the passes use the
operations as they are meant to be used:

* `DecodingInv`: known labels have blocks; branches are wired up *in their order*, so that an
  edge appended to `outgoing` is in its place although blocks are split meanwhile
  (`InOrder`, `Collected`); a block not waiting has its edges (`WiredUp`).
* `UnrollingInv`: the loop being copied and its copy are cut behind their last branch and that
  branch leads back to the body or to the copy (`Shape`): it can be inverted, or replaced, without a
  chain getting lost.
* `EliminatingInv`: what was collected for deletion is still there, once, and is not the entry.
* `LayoutInv`: a block is visited once and merged once, and nobody merges one not visited yet.
* `GeneratingInv`: what leads on from a block already generated was generated, waits, or
  comes next; so nothing is left out when nothing waits.

Nothing is said of a graph whose `status` is not `"ok"`: the exception has ended the rewriting.

**Iterations in a row.** `IterationsInARow` asks for the chain of iterations behind each loop,
found backwards; it says nothing while a loop is being copied. `RowsInv` names the rows and says
how far they are: a block that branches to itself, and neither waits nor is being copied, ends a
row of `UnrollCount` copies (`Finished`); the block being copied ends the straight row begun for
it, and its copy is entered from it only and carries the same labels (`Begun`, `CopyFollows`);
that block leads back by its last branch, or by the jump `unchainNext` made, and so does the
copy (`ExitLast`). Every operation of the pass reshapes one block and adds new ones
(`Reshapes`): the others stay what they are, and what is new leads to no old block that the
reshaped one did not lead to. A finished row holds no block that waits or is being copied
(`Avoids`), so nothing it consists of is reshaped and nobody else comes to branch into it; that is
why it stays a row (`RowStays`), and why a loop that is copied next cannot be an iteration
of an earlier one.

**What the passes leave.** `AllWired` and `NoDeadCodeLeft` relate the graph to the analysis that
was made before the first change. `KeptInv` says in which sense that analysis still holds
while instructions, then branches, then blocks are taken away (`Sweeping`): a block that was
reached keeps its chain if its state was forwarded along it, keeps the instructions that
stay with their edges, and what it has besides is on the list of instructions to delete;
what is gone is exactly the blocks that were not reached. At the end the blocks left are the
blocks reached, and the way by which the analysis reached them is still there. That the
analysis reaches all it can (`Reached` is defined by as many rounds as there are blocks) is
`Fixpoint`: sets that grow within a finite set come to rest. For `CodeFollows`, `MergedInv` says
that a block which could be merged is still to be visited or merged: so what remains falls
through to a block a branch leads to, and `FollowInv` says where that is while code is
being generated.

**Technique.** The prover has no induction over data. Where an argument is about lists of
any length (what `Only` keeps of a concatenation), about rounds of an iteration or about
chains, the induction is over a *set* of naturals or lists with its least element
(`LeastElement`, `ListInduction`), and a recursive function is known by its equations. A loop that
the model writes as such a function is `LoopThrough` (what a turn preserves holds at the end)
or `LoopKeeps`.

### Program states

`ProgramStateProofs` proves, for all word sizes (`WordAssumption`), registers that lie
within their parents (`RegisterAssumption`), host memory of bytes (`HostAssumption`), entry
values that fit their registers (`EntryAssumption`) and instructions with the operands their
emulator looks at (`InstructionAssumption`), for paths of any length that join anywhere:

| theorem | statement |
|---|---|
| `StatesWellFormed` | `Spec => []StatesOK` |
| `MergingSettles` | `Spec /\ []TailsBelong => []MergeSettles` |
| `DecisionsFollow` | `Decidable` implies `Spec /\ []ClaimsHold => []PredicatesRight` |

**Whole pointers.** A byte of type pointer is followed by `PtrBytes - 1` tails of its kind, within
its register or the tracked stack (`Whole`); values are never tails, as the constructor of
`DynamicValue` asserts. Nothing in the code checks the former, and `getElements()`,
`clearTail()` and `moveElements()` would read and write behind the vector without it. Each
function on elements has a lemma that it keeps `Bytes`, the whole vectors of one length: a write
that cuts off tails clears their head first (`MarkUnknownFacts`), an unaligned move takes a pointer
with all its tails or makes its bytes opaque (`MoveByteFacts`), a stack only grows by dead bytes
(`GrowFacts`). The lemmas on registers, stack, operands, each emulator and `Emulate` carry it
to `States`. No invariant besides is needed: this one is inductive.

**Merging.** `MergeByteFacts` says what one turn of `mergeElements()` does: each byte either stays or
*fades* (`Fades`: to unknown or tainted, and a stack pointer to tainted only). `Settling` is the
invariant of its loop: where the loop has been, merging once more changes nothing (`Quiet`).
`MergedTwice` concludes for one vector,
`MergeStackFacts` for stacks of different size and base, `MergedStates` for states. The
hypothesis `TailsBelong` is used where a pointer is cleared: `clearTail()` goes on as long as it
meets tails, so one without a head behind the pointer would fade as well, unnoticed
(`NoTailBehind`). It is a hypothesis because the code does not keep it for every program (a store
that ends with the head of a pointer, `ProgramState.cpp:183` above); the run `emulation` checks it
for its instructions, which leave that store out.

**Predicates.** What `willExecute()` decides is what the machine decides, if each register compared
is claimed right. `Decidable` leaves out conjunctions by And, which `TriState` gets wrong
(`Utils.hpp:47` above). `ClaimsHold` is the hypothesis that belongs to the emulators, and is
model-checked.

### Only model-checked

* Termination (`AnalysisTerminates`, `RewritingEnds`, `Generated`): liveness under fairness is
  beyond the prover.
* `SamePaths` and `SameUnderVerdicts`: where the machine lands from a label, and
  the graph from a block, is found by following jumps and chains, and comparing them needs an
  invariant that relates every label to a block through all passes.
* `ClaimsHold` and `NoHiddenStackPtr`: the emulator against the machine. Both compute numbers from
  bytes, and a proof would be about the arithmetic of each operation.
* `TailsBelong`: false for every instruction there is, see above; true of those of the run.
* Specialization, the stack analysis on functions, and the encoder: their definitions execute
  whole functions or compute encodings, by recursion over blocks, bytes and fields, so a
  proof would be an induction over data.
* `StatesOK` is not a property of a run: it is proved.

## Not modelled

* The flags of functions and of the graph that let a whole analysis be skipped
  (`Node.hpp`); the flags of blocks are in both analyses.
* The configuration (`drob.c`), the entry point and the registry: setters, one try and
  one map. Their results are constants of the models.
* The discovery of called functions: they are decoded like the first one. The
  expansion of `LOOP` by the converter.
* The memory protection cache reads `/proc/self/maps`; its answers are `HostMem`. The
  classification of parameters by the ABI runs once and keeps no state.
* Tables of opcodes and registers: what a row says is data of the inputs.
* Logging, dumping, the bitmap behind register masks, the lifetime of C++ objects.

## Plan

1. Validity flags with every operation that sets or clears them, and the
   rewriter running analyses on demand; abstract specification: an analysis is
   used only if nothing changed since it ran.
2. Calls: the ICFG, code behind calls, expansion of `LOOP`.
3. Theorems: `SamePaths` for the passes that do not change what branches mean (decoding,
   layout); `ClaimsHold` for the moves, which need no arithmetic.
