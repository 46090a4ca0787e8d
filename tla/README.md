# Verification of the SysY to ARM compiler

The compiler (`src/src`, `src/include`) translates SysY, a subset of C, to ARMv7 assembly. It is a
sequential C++ program. What makes it hard is not concurrency but fixpoints and worklists over
control flow graphs, information kept twice (successor and predecessor lists and the branches
themselves, definitions and lists of uses), state that outlives the pass that computed it, and
what every pass expects of the program the one before it left.

This directory models it in TLA+, checks the model with TLC on small instances, and proves the
results that matter most about eight of its algorithms with TLAPS for every value of the constants.
It does so in two ways. The classical algorithms (live variables, dominators, SSA form and out of
it, dead code, the two register allocators, localised globals) have a module each, with one action
per loop body, checked on *all* small graphs or programs. The rest is modelled as what it is, a
pipeline of functions on one program that is changed in place: the passes of the optimiser, and
the compiler from syntax tree to running assembly, each held to what the program means.

## 1. Inventory

`main.cpp` drives everything. The parser builds a tree and the symbol tables, `typeCheck` and
`genCode` lower the tree to basic blocks of IR in a `Unit`. Under `-O` these passes run over the
IR, in this order:

> Global2Local, Starighten, **Mem2reg**, **dead code**, copy propagation, value numbering,
> conditional constants, common subexpressions, Starighten, SpecialOptimize, loops, `checkCond`,
> inlining, **dead code**, copy propagation, value numbering, tree balancing, `checkCond`,
> inlining, value numbering, tree balancing, unreachable code, Starighten, InsReorder, peephole,
> unrolling, value numbering, `checkCond`, Starighten, peephole, SpecialOptimize, Starighten,
> **SSADestruction**

Then every IR instruction emits machine instructions, and under `-O` CleanAsmAddZero, ConstAsm,
machine dead code, MachineStraighten, peephole and local value numbering follow. The register
allocator is **LinearScan** without `-O` and **GraphColor** with it; peephole, dead code and
straightening run once more behind the latter, and `MachineUnit::output` prints the assembly.

Passes call no one but helpers; they communicate only through the program they leave: block
lists, edges, instruction lists, def-use links, and marks, orders, tree nodes and frontier sets
stored in blocks.

| Component | State it keeps | Operations | Hard part | What makes it correct | Modelled by |
|---|---|---|---|---|---|
| Lexer, parser | tree, scope, while stack | one action per rule | declarations take effect while parsing | every name bound to the innermost declaration | `Tree` (the actions) |
| Symbol table, types | chain of scopes, overload lists | install, lookup, setNext | overloads share an entry | no redefinition goes unnoticed | `Tree`, without overloads |
| Tree, generation of IR | true and false lists, next lists | constructors, genCode, backPatch | every branch patched once, conversions, initial lists | the IR means what the source means | `Tree`, `GenCode` |
| IR | instructions, use lists, edges, phi sources | constructors, replaceUse, copies, destructors | lists kept by hand | uses and edges agree | `IR` |
| Localising globals | read, write, outDeg per function | calGlobals, pass | local and global differ between calls | every load gives what it gave | `Global2Local` |
| Dominator trees | DFS order, sdoms, ancestors, idoms, frontiers | computeDFSTree, computeSdom, computeIdom, computeDomFrontier, the reverse ones | order of the loops | trees and frontiers of the definition | `Dominators` |
| Mem2reg | use lists, worklist, name stacks, copies | insertPhiInstruction, rename, cleanAddZeroIns | one state across a recursive walk | strict SSA form, same values | `Mem2reg` |
| Dead code | marks, worklist, frontiers, edges | mark, remove, adjustBlock | redirected branches, stale frontiers | nothing needed goes, order of effects kept | `DeadCode` |
| Starighten, unreachable code | block list, edges, phis, map of changes | pass1 to pass5, checkPhi, checkCond | lists changed while walked | same paths | `Straighten` |
| Value numbering | tables handed down the tree | pass, replaceUse | loads and stores between, phis | same values | `ValueNumber` |
| Common subexpressions | available expressions | pass | what has two uses is an operation | same values | `ValueNumber` |
| Conditional constants | lattice, worklist | constantPropagation | lattice of every class | same values | `ValueNumber` |
| Inlining, InsReorder | calls by address, calling block | decide, deal, pass | phis at both ends, edges | same calls and values | `AutoInline` |
| Loop passes | dominator sets, back edges, invariants | pass, pass1, Unroll | hoisted code, counts of copies | same values | `LoopOptimization` |
| Rewrites of patterns | sums, operand counts | pass, pass1 to pass3 | arithmetic, use lists | same values | `PatternRewrites` |
| SSADestruction | edges, phis, copies per block | pass | both branches to one block, cycles of copies | copies do what phis did | `SSADestruction` |
| Instruction selection, output | frames, saved registers, stack parameters | genMachineCode, output | offsets fixed before the frame is, alignment | the text does what the IR does | `Selection`, `Assembly` |
| Live variables | use, def, liveIn, liveOut per block | computeUsePos, computeDefUse, iterate | one visit out of order | exactly the live operands | `LiveVariables` |
| Reaching definitions, loop depth | gen, kill, in, out, DFS numbers | iterate, dfs | parameters, which no one defines | the definitions that reach | `GraphColor` |
| Graph colouring: webs | vector of webs, operand numbers | makeWebs | vector changed while a copy is walked | one number per value | `Webs` |
| Graph colouring: colours | lists, stack, colours | makeList, pruneGraph, assignRegs | bound webs, two classes | interfering webs differ | `ColorGraph` |
| Graph colouring as a whole | code, webs, matrix, costs, frame | allocateRegisters | coalescing and spilling change the code it looks at | the code with registers does what it did | `GraphColor` |
| Linear scan | intervals, active list, free registers, slots | computeLiveIntervals, linearScanRegisterAllocation, genSpillCode | repeated until it fits | every operand reads its value | `LinearScan` |
| Machine dead code, straightening, rewrites | instruction lists, edges | pass | conditional moves, registers written twice | same behaviour | `MachineOptimizer`, integer instructions |
| Switched off: Div2Mul, PRE, scheduling | | | | | no (never called) |
| Runtime library, scripts | | | | | no (not the compiler) |

`PROJECT.json` lists every component with its files, and under "hazards" what is hard to test in
this code, at its line.

## 2. Modules

### Algorithms

Each of these modules is parameterised by sets of inputs (graphs, functions, programs), states in
ASSUMEs and in Init what the passes before guarantee about them, and has one action per operation
or loop body. `pc` says which loop of the pass runs. Operands, registers and instructions are
members of small sets; arithmetic on them is left out.

Operators with a comment that begins with "Bug:" are not part of any specification. They are
deliberately wrong variants of the definition below them, and the checks confirm that each makes
the property named in `PROJECT.json` fail.

**`LiveVariables`** (LiveVariableAnalysis.cpp). The variables are the maps of the class.
`ComputeUsePos`, `ScanInstr` and `ScanNextBlock` (computeDefUse) and `StartIterate`, `VisitBlock`
and `EndRound` (iterate) are its loops. Liveness is stated on the program, as a least set of blocks
closed under "one step further back", and not on the data flow equations.

**`DeadCode`** (DeadCodeElimination.cpp). `StartMark` and `MarkOne` are mark(), `CollectBlock`,
`RedirectBlock`, `GiveUp` and `Sweep` are remove(), `DeleteUnused` is adjustBlock(), `EndRound` the
loop of pass(). Edges are kept twice. The
postdominator tree is its definition here. That calls, stores and (where a caller uses the value)
returns are essential is an input.

`domFrontier` is a field of a block that three computations add to and nobody clears. In the first
call of the pass, right behind Mem2reg, it holds Mem2reg's forward frontiers, which `Init` computes
(`ForwardFrontier`); in the second it also holds what the first call added, on a graph that later passes
changed. The constant operator `Stale` gives the contents to consider for that; the theorems hold for any.
A frontier may then name a block that a pass in between has deleted; reading it is undefined, and the
model takes it for any block of the function, which is what the memory may hold by then. That
the read itself may fail is not modelled.

**`Webs`** (makeWebs in GraphColor.cpp). `MergePair` and `PassPair` are the two outcomes of the body
of the nested loops over the copy `temp`, `EndRound` starts another round and `Number` gives
operands the number of their web. The du-chains are an input.

**`ColorGraph`** (makeList, pruneGraph, assignRegs in GraphColor.cpp), one round of the allocator on an
arbitrary interference graph: `MakeList`, `PushIsolated`, `PruneLow`, `KeepHigh`, `PruneRound`,
`PruneCheapest`, `StartAssign`, `Assign`, `Spill`, `Finish`. Machine registers are webs of their own, and webs may
be bound to a register.

**`LinearScan`** (LinearScan.cpp): `ComputeLiveIntervals`, `ExpireOldInterval`, `AllocateFront`,
`SpillAtInterval`, `GenSpillCode`, `ModifyCode`, repeated until nothing is spilled. Without `-O`
values live in the stack between statements, so no virtual register lives across a block and a
function is a list of instructions.

**`SSADestruction`** (SSADestruction.cpp): `BeginBlock`, `CollectCopies`, `SplitEdge`, `RemovePhis` for
the walk over blocks and predecessors, `OrderBlock`, `PlaceCopy`, `InsertCopies` for the order of
the copies. Edges are lists, because the code puts a new block in front or at the end.

**`Dominance`** holds the definitions of dominators, dominator tree and frontier on a
graph. **`Dominators`** (Function.cpp) is how they are computed: `Search`, `SearchReturn`,
`ComputeSdom`, `ComputeIdom`, `ComputeDomFrontier`, forward, or backward from the exit the code
adds. The forward frontiers are the first and find the sets empty; a backward computation adds to
what they and earlier backward ones left, which the variable `left` remembers. `Mem2reg` uses the definitions, which `Dominators` is proved to compute.

**`Mem2reg`** (Mem2reg.cpp): `CheckCondBranch`, `PromoteUse`, `TakeAssign` and `PlacePhis`,
`RenameBlock` and `RenameReturn` (one action per call of rename and its return, with the calls on
a stack), `KeepCopy` and `RemoveCopy`. Then `StartRun` and `RunOn` execute the program found and
the program left side by side.

**`Global2Local`** (Global2Local.cpp): `CollectUses`, `FinishFunction` and `EndGlobals` are
calGlobals; then the program runs, as written and as the pass leaves it, with the loads and stores
the pass put at entries and returns and around calls (`Call`, `Return`, `StoreGlobal`).

### The optimiser

**`IR`** is the intermediate language as passes see it: functions with blocks, both edge lists,
instructions with use lists, phis with a source per block, and the operations the classes offer
(replaceUse, copies, insertion, removal). **`IRExec`** is what a unit means: `Run` executes
it on an input and gives what it writes.

**`Straighten`**, **`ValueNumber`** (with the order of the search, common subexpressions, and CondCopyProp), **`AutoInline`** (with
InsReorder), **`LoopOptimization`** (with LoopUnroll) and **`PatternRewrites`** (SpecialOptimize,
TreeHeightBalance and PeepholeForIR) are passes: operators from a unit to the unit the pass leaves, side effects on use lists and marks
included, and with `fails` where the code would follow a null pointer or not return.
**`Optimizer`** drives them: `Schedule` is the order of `main`, each pass an action.

### From source to a running program

**`Meaning`** is the abstract specification: the syntax of the language, what a program writes, and a
machine that says one number after the other and stops. **`Tree`** is what the parser's actions and the
constructors make of a program: scopes, conversions, folded constants. **`GenCode`** generates IR,
with lists of open branches. **`Selection`** is genMachineCode of every class of instruction,
**`Assembly`** the registers linear scan gives and what `output` prints. **`Machine`** executes the
text: registers, words, flags, the stack, with one action per kind of instruction. **`Compiler`** puts
them together; `Refines == Abs!Spec` says that the machine with the printed text
implements `Meaning`, under the refinement that maps what it has written to what was said.

With `-O` two modules stand between Selection and what output prints. **`MachineOptimizer`** has the
passes on machine code, in front of the allocator and behind it: CleanAsmAddZero, ConstAsm, machine
dead code on live variables, the four rewrites of MachineStraighten, peephole and local value
numbering. **`GraphColor`** is the whole allocator over code: reaching definitions, webs, the matrix,
coalescing, loop depths and spill costs, pruning and colours, spill code, in rounds. `Webs` and
`ColorGraph` are about the same code; what they take as any input, `GraphColor` computes. The
intermediate code these programs enter the back end with is what the compiler prints behind its
passes, transcribed (`Optimizer` is where the passes are modelled); `IRMeansSource` holds it to the
source too. Its edges are read off the branches, since the order in which blocks keep their successors is
not printed.

The text the model prints for the programs of the run is what the compiler prints for them with
`-S`, instruction by instruction and register by register; with `-O` up to which of two equally
good registers or webs comes first, which the compiler leaves to the addresses of operands, and up
to the order of blocks where that of successors differs. (The lexer declares
the library's functions when it meets their names; in `Tree` they are known from the start.)

A module `MCX` instantiates `X` for TLC, `X_proofs` holds its theorems.

## 3. Runs

| Run | Checks | Instance |
|---|---|---|
| `live_variables` | TypeOK, NeverTooLive, Exact, Monotone, Termination | all graphs of 3 blocks with at most 2 successors, 4 bodies over one register |
| `dead_code` | NeverTouchesDeleted, SweepLeavesNoUse, PhiMatchesPreds, EssentialStays, TerminatorsFit, RedirectKeepsTrace, Termination | all well-formed graphs of 4 blocks, 3 value instructions; `domFrontier` from Mem2reg, or left by a graph that had an edge more |
| `webs` | NothingLost, NumbersAreWebs, Termination | 5 definitions, 3 uses, 2 registers |
| `color_graph` | ProperColoring, PresetKept, OnlyCandidatesSpill, PrunedOnce, Terminates | all graphs over 4 registers, one of them blocked, and 4 further webs, with and without a bound web |
| `linear_scan` | NoRegisterLost, RegisterReuse, ReadsItsValue, Terminates | programs of 5 instructions with at most 2 operands, and of 8 that mix integers and floats; 3 registers per class |
| `ssa_destruction` | EdgesKept, ShortChainsRight | all graphs of 3 blocks; 5 phis with any sources on one edge |
| `dominators` | IdomsRight, FrontierRight | all graphs of 5 blocks with at most 2 successors, both directions, every order of successors; backward after the forward one and after an earlier backward one |
| `mem2reg` | UsesAgree, StrictSSA | all graphs of 4 blocks, 2 variables copied to each other in every block but the last |
| `global_to_local` | AnalysisRight, LoadsAgreeIfWritersRead | all programs of 3 functions, call depth 4, 2 values |
| `global_lost` | LoadsAgree is violated | the same |
| `passes` | MeaningKept, DefsDominate, EdgesAgree | 68 programs of seven families through 25 calls of passes, two inputs each |
| `compile` | IRMeansSource, NoFault, AlignedCalls, RegistersKept, Refines | nineteen pairs of a program and its input, from syntax tree to running assembly, eight of them with `-O` |

Why the bounds are enough. No step of live variable analysis relates two registers, and three
blocks let a use travel around a loop against the order of the list. Four blocks make a diamond, a
loop with an exit from its middle, and nested branches, which is what dead branches, frontiers of
frontiers and phis of phis need; five give the dominator algorithm forests with several ancestors to
look through and semidominators that are not the immediate dominators.
Five definitions and three uses are enough for an erased web to absorb a later one and for both to
be absorbed again. Two colours a class and four webs make a triangle that cannot be coloured next to webs that
certainly can. Three registers are what an instruction with two operands in far slots needs, so
with fewer the allocator could not work at all, and five instructions spill twice. Five copies
make a chain of four links or a cycle and a chain. Call depth four passes an outer caller's local
over two calls.

`passes` and `compile` cannot take all programs of a size. Their programs are families, each made to
meet what one pass or one class of node looks for, with the parameters (operators,
constants, bounds of loops) that decide what it does. Of `compile` with `-O`, some branches are not
reached: float registers in `GraphColor`, the fusion of two blocks, which `Starighten` leaves little
to, and the peephole rules for a load behind a store or a load of the same word. Coalescing, spills
near and far, multiply-and-add, shifts for products and the parameters used once are. `Fuel`
bounds the steps the intermediate code may run, `StackWords` the stack of the machine and
`MaxRounds` the rounds of the allocator; a program that met one of the three would fail its run.

Runs of the algorithms cover every graph within the bound; `dead_code`, `linear_scan` and `mem2reg` restrict what
blocks hold, as their MC modules say. The deliberately wrong variants show that the bounds reach
the cases that matter: each is found by the run's own configuration. `CHECK_DEADLOCK FALSE` is in every configuration because every pass ends, and the
model then stops.

Symmetry is not used: blocks, webs and definitions are ordered in the code. Numberings of blocks
are restricted only in `MCDominators` and `MCMem2reg`, to those in which every block has a
predecessor with a lower number; the search finds blocks in such an order.

**Fairness.** The compiler is one thread and nothing interrupts it: as long as a pass has a next
statement it will be executed. That is WF on the next-state relation, `FairSpec`, and nothing stronger is
assumed; Termination and Terminates say that the loops end for every input of the instance. In
`Compiler` the same condition says that a processor does not stop in the middle of a program, and
with it `Refines` includes that the compiled program comes to its end, having written everything.

## 4. What the runs found

**global_lost** (Global2Local.cpp:96). The local is stored before a call only if the callee loads
the global in the source. A callee that stores it on some path only reloads the stale global at its entry and
stores that back at its return. `LoadsAgreeIfWritersRead` says when the pass is right.

The rest was met while modelling. The model does what the code does, and the programs of the runs
stay away from it, or the properties say where they hold. Unless it says "read", it was confirmed with the
compiler.

DeadCodeElimination (`dead_code`): if a dead branch has no marked postdominator, remove()
returns at once, and the comment above (DeadCodeElimination.cpp:113) says that this only happens if the
whole function is useless. In the model it also
happens in functions that have effects but whose value nobody uses, where a branch leads to two
returns, as neither is marked. What remove() did to earlier blocks stays: such a block has its old
conditional branch in front of the new jump, and the blocks only the old branch names are deleted,
since the edges no longer lead there. `LeftHalfDone` names this case. In every other, if the value is used, if
the function really is useless, and if remove() did not give up, branches and edges agree
(`TerminatorsFit`) and whatever is essential is reached by the branches in the code (`EssentialStays`).
The compiler shows the bad case with
`int f(int x){int a=0; if(x==1){a=1;}else{a=2;} putint(x); if(x==5) return 1; return 2;}` called in a
statement of its own: its output jumps to a label that does not exist.

SSADestruction (`ShortChainsRight`): the copies a block receives are ordered by inserting each behind the first
reader of what it defines, and no temporary is ever introduced. Two phis that exchange their values
become `a = b; b = a`, and with four copies in a row the third can be written before it is read.

Optimiser (`passes`):

- common subexpressions take phis with two sources, and stores, for operations (ElimComSubexper.cpp:116);
  value numbering replaces the second of two equal phis by one of its sources (ValueNumber.cpp:61);
- `x * 0` makes log2 recurse for ever; TreeHeightBalance makes such products itself, and
  loses chains that begin with a float or a parameter;
- getHash of an arithmetic shift right says "shl" (Instruction.cpp:2936);
- SpecialOptimize takes `while (i <= n)` for `while (i < n)`;
- in LoopOptimization mergeEdge keeps one of two back edges, and dominator sets of an earlier call stay;
- inlining forgets parameters in phis, conditions and return values of the callee in some forms.

Front end (`compile`):

- an int left of a comparison with a float gives the comparison type float (Ast.cpp:313);
- constants are folded in double: `int g = 7 / 2 * 2;` gives 7, and `1 / 7` as a subexpression
  that is simplified gives 1, since the case of dividing *by* one tests the dividend (Ast.cpp:1036);
- the condition of `if` with `else`, and of `while`, is cast to int first, so 0.5 is false;
- `int a[1] = {}` does not initialise, and an empty inner list ends the walk over the others;
- the copy of a loop's condition shares operands with the first, which breaks casts in it;
- a third overload may repeat the second unnoticed (SymbolTable.cpp:13).

Back end (`compile`):

- a frame of more than 255 bytes is opened through r4 (MachineCode.cpp:1143), also where r4 was not saved.
  LinearScan gives r4 out first, but with `-O` a function of such a frame whose values fit in r0 to
  r3 destroys its caller's r4. The programs of the run have no such function, so `RegistersKept` holds;
- an odd number of ints on the stack leaves it misaligned at the call; with floats on the stack
  the callee may look one word off (Instruction.cpp:1715);
- library functions are taken to keep s5 to s31, which the calling convention does not promise
  below s16.

Back end with `-O` (`compile`):

- `isVSub` and `isVMul` test the numbers of other operations (MachineCode.h:145), so the float
  `(a - b) + c` becomes `c + a * b`, and a sum may be taken for a negation;
- a conditional move of a constant is taken for an unconditional one by ConstAsm (ConstAsm.cpp:34) and by the
  peephole rule for a move and an addition: `a + (!b)` becomes `a + 0`;
- the compiler often crashes on programs that compute with the value of `!x`; the cause was not looked for;
- read: the two conditional moves of a comparison are two webs where no use joins them; the definitions of
  parameters are never killed, and their entries are read one past the end (ReachDefAnalysis.cpp:54);
  the tables of LocalValueNumber keep what was written over; CleanAsmAddZero moves a parameter's load
  to its use even if the register has other definitions; the peephole fuses multiplication and addition
  behind the allocator where the multiplication overwrote its own operand; two passes of
  MachineStraighten erase blocks from the list they walk over.

## 5. Proofs

Theorems hold for every value of the constants that satisfies the ASSUMEs of the module, all of
which TLC evaluates on the instances.

**`LiveVariables_proofs`**: `TypeCorrect`, `Soundness` (no set ever holds an operand that is not
live), `Exactness` (on return the sets are exactly the live operands) and `Monotonicity`. The
invariant is `IInv`. `ScanInv` says what use and def hold in terms of the instructions scanned so
far; `GrowInv`, that no liveIn is above what its next visit would make of it, which makes visits
monotone although each recomputes the set from scratch and out of order; `SolvedInv`, that blocks
visited in a round without a change so far solve their equations. `NeverTooLive` alone is not
inductive, since it needs use and def to be right. When the loop ends the solved equations make the
blocks where an operand is found a closed set, and the least closed set is contained in it: that is
`Exact`.

**`DeadCode_proofs`**: every safety property of `dead_code`, whatever `domFrontier` holds when the pass
begins. `TypeCorrect` (`TypeOK`, which is part of the invariant); `SweepSafe` (what the sweep
deletes, nothing that stays uses); `EssentialKept` (an essential instruction is never deleted, and stays in reach of
the entry by the branches the blocks hold, from the first round to the last); `DeletedUntouched` (marking never looks
into a deleted block, although it reads frontiers and phi sources that may be several rounds old);
`PhisKeepPreds`; `BranchesFit` (where branches and edges agree); and the action
property `TraceKept` (a redirected branch goes to the marked block that every path from it met
first).

Superfluous frontiers do no harm because they only make marking mark more: a join of a forward frontier that is
marked without need gets its own reverse frontier marked, so that the branches that decide whether it is
reached stay. The invariant never says what the sets hold, only that they hold at least the
frontiers of the present graph (`WasFrontier` in `WasInv`).

Paths enter only through the sets they generate. `Reaching(e, S, A)`, the blocks that reach S
outside A, is the least set closed under "has a successor in it", so a claim about all paths is
proved by naming a closed set, and no induction on the length of a path is needed; postdominators
and `FirstMarked` are stated with it. The code redirects to the nearest marked postdominator, the
property speaks of the first marked blocks after the branch: `FirstMarkedIsNearest` and
`RedirectGoesFirst` show that they are the same if whatever decides whether a marked block is
reached is marked itself.

The invariant has two halves. One is about the graph as it is: both edge lists agree (`EdgesInv`),
terminators and edges fit (`ShapeInv`), every block that is left reaches a return (`ExitsInv`), the
instructions are those of the blocks left (`InsInv`), marks are closed except for the worklist
(`ClosedInv`), and what remove() has passed is either marked or to be deleted (`RemoveInv`). The
other compares it with the graph `was` marking saw, since remove() goes on asking the postdominator
tree while it redirects: `WasInv` says that a block has its old successors or has been redirected,
`SettledInv` what that leaves behind. `ReturnsInv` says that blocks that return stay in reach, marked or not,
`TargetInv` that a block not redirected leads where it did, `UselessInv` that without anything essential
nothing is marked. `MarkInv` joins the rounds: what was marked in one round,
`Enough(M)`, is closed under what marking follows in the *next* graph, where the frontiers are
others, so that nothing is marked again that was deleted. That needs `RedirectedFromEntry`:
redirecting does not cut a marked block off from the entry.

**`ColorGraph_proofs`**: `ColoringCorrect` (interfering webs never share a colour and every colour
is of the web's class), `BindingsKept` (a web bound to a register keeps it), `SpillsJustified` (a
web taken for its low degree finds a colour) and `PruningComplete` (every web is on the stack
exactly once when colours are given). `GraphInv` adds that interference is mutual and that the list
assignRegs looks at holds every neighbour; `BoundInv`, that a bound web interferes with all other
registers of its class; `StackInv` what pruning has left in the lists; `LowInv` that the neighbours
of a web pruned for its low degree that may have a colour when its turn comes stay fewer than the
colours.

**`Webs_proofs`**: `MergingLosesNothing`, `MergingIsNeeded` and `MergingCorrect` (two definitions
have the same number exactly if shared uses connect them). The hard part is that the loop walks over
a copy while webs are erased from the vector. `StillToMeet` says what an erased web can still do: it
may be alike to a later web in the vector only while the web that absorbed it is the first of the
current pair and has yet to meet that later web, so that the later web is gone before the loop comes
to the erased one. `NothingAlike` says that a round which merged nothing has compared all pairs
before the current one.

**`Global2Local_proofs`**: `AnalysisCorrect` (the loop of calGlobals takes every function, never
stops early, and finds exactly what calls may load and store, except that main is never made to
store) and `LocalisingCorrect` (if every called function that stores the global may load it, every
load gives what it gave before the pass, for any values and any depth of calls). What calls lead to
is again a least closed set; that a function without unfinished callees exists until the end
(`NotStuck`) takes the least function that is a counterexample. For the execution `ChainInv` says
who called whom and that the callers of a function that stores count as storing, `ValueInv` that the
top activation has the right value, as has every activation whose callee stores nothing.

**`LinearScan_proofs`**: `NoneLost` (no round of the allocator loses a register, and until the scan
fails each is free or held by one active interval) and `SharedInTurn` (in the round that succeeds,
intervals that have one register are apart, and the earlier one has ended). The first is counting:
an interval that gives up its register stays active with it, which only a failed round does. The
second needs `EndInv`, that whoever has not ended is active. `SharedInTurn` has the hypothesis that
the code has a length: spilling inserts instructions with SortSeq, whose result tlapm's provers
cannot see to be a sequence. TLC evaluates it in every state, and the first round has it by the type
of `Programs`.

**`Dominators_proofs`**: `IdomsAreRight` and `FrontiersAreRight`, for every graph in which the root
reaches every block, in both directions and for every order of successors. `Invariant` is the
invariant they follow from, `IInv`: what each loop relies on of those before it. `OrderInv` and
`SearchInv` say that the blocks on the stack are the ancestors of whatever is found next, that the
descendants of a block are the numbers from its own to a last one, and that no edge of a finished
block leads past its last descendant. From that `TreeInv` keeps, when the search is over, that
numbers and edges make a `SearchTree`, and all that follows is about numbers. `SdomInv` says that above `cur`
semidominators are right and linked, and below it untouched, `IdomInv` that before `cur` the
dominators of a block are itself and those of its `idoms`, and `FrontierInv` that the frontiers hold,
besides what was `left` in them, the blocks before `cur` they should. What was left is any sets of blocks in a
backward computation, and nothing in the forward one, so `FrontiersAreRight` says that the forward frontiers are
those of the definition and that a backward computation adds just those.

The algorithm is usually justified by paths; here, as in `DeadCode_proofs`, paths enter only through the sets
they generate. The semidominator of w is the least block that leads into `Above(w)`, the least set that
holds w and whatever above w leads into it. That computeSdom finds it is `SemiBound` (no candidate the loop
looks at is less) and `SemiAttained` (one is no greater); `EvalLeast` says what `eval` returns in the forest linked
so far. For immediate dominators the code does not use the semidominator theorem in its usual form but
takes the least common ancestor of parent and semidominator in the tree so far, and `AvoidsThrough` is
the reason: w is reached without d just if its parent or its semidominator is. Hence the dominators of w
are w and those the two have in common (`DomThrough`), the last of which is the ancestor that `LCA`
returns. For the frontiers, `RunnersRight` covers blocks with several predecessors, and blocks with one, which
the code passes over, are in no frontier. `Eval` and `TreePath` are recursive functions; that they exist is
proved in `Solution` by climbing from 0 to the number of blocks, a bounded induction stated for a set of
numbers, which needs no operator as a parameter. `DominatorsOf` is tied to the sets by `ReachFacts`, by the same climb.

**`SSADestruction_proofs`**: `EveryEdgeKept`, for every function whose blocks have at most two successors (a
branch names two blocks), and any order of the blocks in `copyInss`: when the pass is through, every edge leads
where it led and carries its own copies and no others, and branch instructions, lists of successors and lists of
predecessors agree. `Invariant` is the invariant behind it, `IInv`. `ListsAgree` alone is not inductive: a split
takes `cur` out of one list and p out of the other, and whether there is one to take out depends on what the walk
over the copied list of predecessors has still to come to. So `WalkInv` counts: how often p is among the
predecessors left is how many of its edges still lead to `cur` unsplit (at most that many, if the edge is the
only one of p, which is never split), and copies have been collected for exactly the edges passed. `GraphInv`
says that a position in a list of successors holds what it held, or a new block that leads there; as every new block is
on some edge, there are never more of them than edges, and a block made for a split is not one that is in use. `OrderInv` says that
the order, whatever it is worth, neither loses nor invents a copy. `Times` counts, and `TimesCat` and `ReplaceBoth` are
what the steps need of it: that taking `cur` out and adding the new block at the front or the end of a list of two is
what setting a target of the branch does, also if both targets are `cur`.

TLC checked each of these invariants on the instance of the run, or a smaller one (3 and 4 blocks for
`Dominators`), before it was proved.

Only model-checked: everything about termination, which is liveness under fairness.
`ShortChainsRight`, which executes the copies of an edge in their order, and
`ReadsItsValue` and `UsesAgree`, which execute a program by recursion over its instructions, need
induction over data. So does everything about `passes` and `compile`, whose modules are recursive
functions on programs. `StrictSSA` speaks of code put together by FoldLeft and could be proved only in part.

## 6. What is not modelled

- Scanning and parsing proper: programs are given as syntax trees. Overloads, the messages of
  `typeCheck`, and the function called `fib`, which genCode replaces by a text of its own, as output
  does with `multiply`. Literal pools, directives and the spelling of instructions.
- Of the machine passes, the rules on float instructions. `-O` from source to assembly in one piece: the two
  halves meet at intermediate code that was printed by the compiler.
- CopyProp's phases work on sets that stay empty, and the strength reduction in LoopOptimization.cpp, Div2Mul,
  PartialRedundancyElimination and InstructionScheduling are never called.
- Memory management: dangling pointers, uninitialised fields and the order of containers sorted by
  address appear only as nondeterministic choice (the order of the blocks in SSADestruction and
  in Mem2reg's set `assigns`), or in `IR` and `GraphColor` as one fixed order.
- The lists of uses that operands keep are in `IR`, but not in the modules of single algorithms. Passes update
  them by hand, and loops of the form "until there are no more uses" depend on them.
- In LinearScan: the merging of intervals with a common use, which code without `-O` never needs.
- In Mem2reg, the case that a load's result is used behind a store to the same variable; it
  is excluded by `CodesAssumption` and explained there.

## 7. Plan

What is left, in this order:

1. The float rules of the peephole, and programs with float code for `compile` with `-O`.
2. A step-by-step `LinearScan` over the text of `Selection`, in place of the function `Assembly` has.
3. `Optimizer` in front of `MachineOptimizer`, so that `-O` is one model from source to assembly.
4. Overloads in `Tree`.

Theorems worth proving next: that names pushed in Mem2reg dominate what reads them; that in
`SSADestruction` the order of the copies is right for chains of two.
