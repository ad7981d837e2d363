# llvm2KITTeL in TLA+

llvm2KITTeL translates LLVM IR into integer term rewriting systems (ITRSs) for
termination and complexity analysis. It is a sequential C++ program: it reads a
module, runs LLVM passes over it, and turns every function that the chosen one
may call into rewrite rules `eval_f(args) -> eval_g(args') [constraint]`.

This directory holds TLA+ models of its algorithms, the TLC configurations that
check them on small instances, and theorems that the TLA+ proof system (TLAPS)
checks for every value of the constants.

Nothing in the program runs concurrently, nothing is persisted and no messages
are exchanged. What is hard is of another kind: worklists and in-place closures
whose mistakes only show on particular graphs; passes that rely on an order or a
normal form an earlier pass established; maps that are looked up without a check
because "it must be there"; case distinctions at zero and at the ends of a bit
width; and iteration over sets ordered by pointer value, which differs between
runs. The central correctness statement is always the same: the rules must be
able to do whatever the program does, since a termination proof of the rules is
read as one of the program. So most models come with the thing they are
translated from: the module *runs* the control flow graph, the function or the
machine next to the result of the code and compares.

## The parts of the program

| Component | State | Operations | What makes it correct |
|---|---|---|---|
| HierarchyBuilder (`lib/Analysis/HierarchyBuilder.cpp`) | call matrix, Tarjan's numbers, stack, recursion, components | computeHierarchy, makeTransitive, isCyclic, getSccs, getTransitivelyCalledFunctions | the matrix becomes exactly the transitive closure; components are the classes of mutual recursion, once each, callees first |
| Driver (`tools/llvm2kittel.cpp`, main) | options, module, chosen function, dependsOn, mmMap, funcMayZapDirect, funcMayZap, dependsOnSccs | reject options, choose the function, check for recursion, transform, analyse each function, close the may-write sets, convert each part | no lookup fails, may-write sets are complete, every needed function is converted once and bottom-up |
| BasicBlockSorter | visited set, recursion, block list, function layout | visitBasicBlock, moveBefore loop | a permutation with the entry first and dominators before what they dominate |
| ConditionPropagator, LoopConditionBlocksCollector | per-block condition map | runOnFunction | a propagated condition holds on every way into the block |
| LoopConditionExplicitizer | per-block condition map | runOnFunction | a condition written for a block holds whenever a run is there, but for known cases |
| MemoryAnalyzer | may/must map, may-write set | visitLoad, visitStore | loads and stores never assume more than the aliases allow |
| Converter (`lib/Core/Converter.cpp`) | variables, left side, counters, control points, rules | phase1, phase2, one visitor per instruction, getCondensedRules | rules over-approximate the instruction; condensed rules are the paths between control points |
| Constraint, Polynomial, Rule, Term (`lib/IntTRS`), Kittelizer, ConstraintSimplifier | immutable terms | toNNF, toDNF, eliminateNeq, add, mult, instantiate, kittelize, filterAtoms | normal forms keep the meaning |
| Slicer (`lib/Core/Slicer.cpp`) | rules, m_defined, m_stillUsed, three closure matrices | six passes over the rules | arities stay consistent, no rule reads a variable its left side lost, lookups succeed |
| BoundConstrainer | new rules, normalisation counters | addBoundConstraints | values are wrapped into their width, and the wrapping ends |
| ConstraintEliminator (`lib/Core/ConstraintEliminator.cpp`) | temporary files and a child process | shouldEliminate | only unsatisfiable rules go |
| Hoister (`lib/Transform/Hoister.cpp`) | the function, alias sets of the loops, C++ stack of HoistRegion and doesNotAccessMemory | runOnLoop | definitions stay in front of uses, values and effects stay, all that may be moved is moved |
| StrengthIncreaser (`lib/Transform/StrengthIncreaser.cpp`) | the instructions of a block | runOnBasicBlock | products and divisions do what the shifts did |
| Other transforms (Mem2Reg, EagerInliner, ExtremeInliner, ConstantExprEliminator, BitcastCallEliminator, InstNamer) | the LLVM module | runOnFunction, runOnModule | the program's behaviour is kept |
| InstChecker | list of unsuitable instructions | one visitor per instruction | nothing reaches the converter that it cannot translate |
| T2Export (`lib/Export/T2Export.cpp`) | location numbers, names of arguments | getFunToLocIDAndLhsNames, printT2Rule, printT2System | a transition, one assignment after the other, does what the rule does at once |
| Printers (toKittelString, `ComplexityTuplePrinter.cpp`, `UniformComplexityTuplePrinter.cpp`) | symbols still to print, argument names | printComplexityTuples, printUniformComplexityTuples | a tuple goes where its rules went, and every value stays with its variable |
| gmp_kittel, Ref.h, CommandLine | reference counts, options | | |

Components interact by plain calls and by data handed on. `main()` owns the maps
and calls, in this order: the transforms (BasicBlockSorter last), the hierarchy
builder, for every function MemoryAnalyzer, ConditionPropagator and
LoopConditionExplicitizer, the closure of the may-write sets, and then for every
component of the call graph Converter, getCondensedRules, kittelize, Slicer,
addBoundConstraints, simplifyConstraints and a printer. The converter reads the
may-write sets, the conditions, the component and the block order; the slicer
reads the order of the rules, the function's arguments and the globals;
addBoundConstraints needs a width for every variable the slicer left.

## Modules

### Call hierarchy: `Reachability`, `MakeTransitive`, `HierarchyBuilder`, `CallOrder`

`Reachability` defines reachability over a relation without recursion (the
smallest set that is closed under the relation), so that proofs can use it.
`MakeTransitive` has the three nested loops that close a matrix in place; the
code has four copies of them (hierarchy and slicer), and the module is the one
model of them. `m` is the set of pairs with a true entry, `y`, `x` the loop
counters; one action, `Row`, is the innermost loop.

`HierarchyBuilder` adds computeHierarchy (`VisitCallInst`, one action for a call
instruction, in any order, since the functions are visited in the order of the
module), the closure, and getSccs: `frames` is the C++ recursion of `tarjan`, with
the loop position of every activation, `S`, `indexMap`, `lowlinkMap` and `SCCs` are
the fields of the same names. Calls through pointers reach every function of the
same type.

`CallOrder` is the abstract specification of what getSccs promises: it hands out
the components of mutual recursion, whole, once each, and none before one it
calls. `ImplementsCallOrder` is that specification under a refinement mapping: the
concrete run implements it.

### `ConversionDriver`

main(). Its beginning: conflicting options, reading, the choice of the function
by name, the check for recursion before `-eager-inline` (`CheckHierarchy`, with
a hierarchy builder of its own), transformModule, and the verdict of
InstChecker; each exit code of the source is a value of `status`. The module that is read
(`source`) may call functions through casts, which BitcastCallEliminator makes
direct calls of (`Eliminated`); what the later part sees is `sites`.

Then, on top of the hierarchy builder: `dependsOn`, the analysis of each function
in any order, the closure of `funcMayZap`, the chosen components, and the
conversion. Its two nested loops are `sccQueue`, the places of the components that are
left, and `fi`, the place in the current one. Its two lookups, and `getIdx` of a
function without a body, end in `step = "exit"` when an entry is missing.

### `LoopProgram` and `Hoister`

`LoopProgram` has functions with nested loops and what LLVM knows of them:
dominators, natural loops, alias sets, attributes of callees, and what a block
does when it runs. Dominance is reachability without a block, and both it and the blocks
of a loop are smallest closed sets, for any graph, also one with blocks that nothing leads to. `Hoister` is the pass: loops from the inside out, `frames` for
the recursion of HoistRegion along the dominator tree, `calls` for the
recursion of doesNotAccessMemory, one action for each instruction it looks at.
Afterwards the function before and the function after run side by side over the same path; where the
second fails, the first goes on alone, to its own failure or its end.

### `BasicBlockSorter` and `ConditionPropagator`

The first has the depth-first search with its recursion and the loop that moves
the blocks one after the other. The second takes over the block order it leaves
(`MCConditionPropagator` checks both together), visits the blocks, collects the
conditions, and then *runs the graph*: the run is a path through the control flow
graph, in which each branch may go either way, with the latest outcome of every
branch. LLVM's `FindFunctionBackedges` (external) is a second depth-first search, which visits
successors from the first to the last where the sorter visits them from the last to the
first: `SearchNew`, `SearchOld` and `SearchBack` fill `backedges` before the pass starts. That the two
searches see the same back edges is what the pass rests on, and true only where every
loop has one entry. LoopConditionBlocksCollector is the operator `conditionBlocks`; its loops are
natural loops, as LLVM's are.

### `LoopConditionExplicitizer`

A loop with a canonical induction variable `iv`, one loop in it and one around it. Its
exit test compares `iv` with a value `op` by any of the ten predicates, with `iv` as the first or the second
operand, in the header or in the latch, and either side of the branch stays in the loop.
`innerConditions` is for the blocks of the inner loops and asks whether `op` is an instruction of the loop
(lines 129 and 134); `exitConditions` is for the exit block and asks whether the exiting block is its only
predecessor (line 139), but not about `op` (lines 138-151), so in the run a bound that is an instruction
of the loop has a new value in each iteration. The program compares integers with the sign of
the predicate (`Compare`). What the converter writes for a derived condition has no
sign any more (`Holds`: `getAtomType` and `buildBoundConjunction`, `lib/Core/Converter.cpp:581-642`), and the
integers it compares are mathematical ones, or those of `-bounded-integers`, signed or unsigned.

### `Program`, `MemoryAnalyzer`, `Converter`, `Condense`

`Program` is a function of LLVM IR and its run over the values `Value` ({0, 1} in the run of TLC): blocks,
phis, instructions of every kind the converter has a visitor for, globals. A load
or store accesses any global its alias answer allows. `MemoryAnalyzer` has the
may and must sets and what a function may write. `Converter` has phase1, the loop of phase2 over
blocks and instructions (one action for each visitor, with its name), jumps,
calls, returns, control points and the two counters; afterwards it runs the
function and looks for the rules that do the same step.

`Condense` is getCondensedRules loop by loop. A rule there is a relation between
values, its constraint a set of points (state and choice of nondefs), its update
a function on them, and putting one rule into another is composition. Two facts
about its input make it correct: every cycle passes a control point, and no two rules of a
path share a nondef. They are checked where they are made, on `Converter`, as
`CyclesCut` and `NondefsFresh`.

### `Slicer`

One action is one pass, in the order main() calls them. A polynomial is its set of
variables and whether it is just a variable, which is what the passes look at; a
constraint is the sequence of its atoms. `exit(123)` and the read of a map's end
are values of `pass`.

### Arithmetic: `Polynomial`, `Constraint`, `Kittelizer`, `BoundConstrainer`, `T2Export`, `TuplePrinter`, `Arithmetic`, `RulePipeline`

Here the terms are the real ones. `Polynomial` keeps constants, coefficients and
the order of the monomials, because `Monomial::equals` makes the result depend on
it. `Constraint` has the trees, the simplifying constructors and the normal forms;
`Kittelizer` also has simplifyConstraints. `Arithmetic` is the part of the converter
that Converter.tla leaves to one instruction: what each arithmetic instruction and
each condition becomes, in mathematical, signed bounded and unsigned bounded
integers. `StrengthIncreaser` and `InstChecker` are the passes in front of it, as far as they
concern integers. `BoundConstrainer` is addBoundConstraints with its norm and block
symbols and their elimination. `T2Export` makes transitions of the rules: copies of
old values, `nondet()`, the assumption, the assignments. `TuplePrinter` makes tuples:
all rules that leave a call become one, and for uniform tuples every symbol gets the
variables of all. `RulePipeline` takes one block with a conditional
branch through main()'s passes, one action each (with a solver, ConstraintEliminator
as a question for solutions, and its end when the solver cannot be run), to one of the
four printers, and then runs what was printed (rules, tuples, uniform tuples or
transitions) on every input and compares with the machine, whose instructions are defined
there independently of the tables. The block may call its own function: the machine
then also runs from every state in which it was called. What slicing drops is part of the program
there, per position: `unused` everywhere, `local` at the start symbol; the slicer itself is `Slicer`.

## What the runs check

All runs are safety and liveness checks of the whole state space; none is bounded
in depth. `CHECK_DEADLOCK FALSE` is in every configuration because every program
here stops: the passes return, and the functions and rules that are run come to an end.

| Run | Instance | Properties |
|---|---|---|
| `driver` | 4 functions: at most 3 direct calls, 2 more if two functions call each other, one writer of a global; or 2 calls of any kind (direct, through a pointer, through a cast, external) and all ways to ask for a function | `TypeOK`; `HierarchyExact`: once makeTransitive is back, the matrix is the closure of the calls; `ComponentsPartition`: every function is in exactly one component and isCyclic agrees with them; `StackDiscipline`: what Tarjan's stack has below a function reaches it; `ImplementsCallOrder`; `NoLookupFails`: no exit(9876) and no exit(767); `MayZapExact`: the may-write sets are those of everything reachable; `ConvertsBottomUp`: what may run is converted, once, callees first; `DriverTerminates` |
| `hoister` | four nests of loops, two instructions of every kind in any two blocks, callees with and without bodies, two arguments, three places in memory | `DefinitionsDominateUses`, at each step of the pass; `OneWalkIsEnough`: nothing that may be hoisted is left where the walk goes, and in blocks behind a subloop, where it does not go, everything is; `ValuesKept`: before and after have the same values, memory and branches; `PassReturns`: the pass returns or uses up its stack, the latter for recursive callees only, and it is never answered for one that accesses no memory |
| `blocks` | every control flow graph of 4 blocks, with and without only-loop-conditions | `DominatorsFirst`, `BackwardEdgesCloseLoops`: the new order is a reverse post-order; `FactsHold`: a condition kept for a block was the latest outcome on every way into it, in a function whose loops have one entry; `ReduciblePredecessorsFirst`: no exit(99999) in a function whose loops have one entry; `SortTerminates` |
| `explicitizer` | every loop of the module, with mathematical integers and signed and unsigned ones of three bits, all bounds -4..7, 8 iterations where integers have no width | `InnerConditionsHold`, `ExitConditionsHold`: a run satisfies the conditions derived for the inner blocks and for the exit block except in `LostInside` and `LostAtExit`, and in those it does not |
| `converter` | while loops that exchange their phis, loops of one block, branches with one or two instructions of every kind, four option sets | `Simulated`: every step of the function is a step of its rules; `Exact`: where nothing had to be forgotten, the rules do nothing else; `CyclesCut`, `NondefsFresh`: what condensation needs; `ConverterTypeOK` |
| `condense` | rules over a variable and two nondefs of two values, loops through one or two symbols | `CondensedSound`, `CondensedComplete`: condensed rules are exactly the runs between control points; `Terminates`; `TypeOK` |
| `slicer_systems` | loops, loops with a call and branches in SSA form with every choice of updates and atoms | `PositionsAligned`: both sides of every rule lose the same positions, and those the phis and the calls need stay; `NoFreeVariables`: a rule reads no variable its left side lost; `TransitionsKept`, `ConstraintsKept`: no rule and no atom of the program's own goes; `VariablesFound`: no exit(123) |
| `arithmetic` | one block: every instruction and condition, shifts that become products and divisions, three bits, all three kinds of integers and of constraints; programs whose rules a solver is asked about; programs that assign what they read again, and recursive ones, through all four printers | `ResultsKept`: no result and no branch of the machine is lost except in `Loses`, and there they are; `ResultsExact`: nothing is added where the translation is deterministic; `ResultsBounded`: values are in their box between blocks; `RunsEnd`: wrapping ends; `PipelineTypeOK`: each pass gets the normal form it exits without, and the converter ends for conditions that are no instruction and for no others |
| `slicer_twocalls` | a call of another function of the component, twice | violates `RecursiveCallsKept` |
| `hoister_division` | the instance of `hoister` | violates `RunsKept` |
| `arithmetic_mul` | `x * y` of bounded integers as an argument | violates `ResultsKept` |
| `arithmetic_exact` | `x / x` with exact constraints | violates `ResultsKept` |

### Why these bounds

Call graphs: a component of two functions that is entered twice, a cross edge
between components (the case the `contains` test of tarjan is for) and a function
behind two others in the closure need four functions and four calls, and so do two
components of which one has two functions. One function that writes is enough,
since the sets are unions.

Hoister: a branch in a loop, a loop in a loop, a loop with two ways in (which has no
preheader) and two loops in a loop are the shapes in which dominance, subloops and
preheaders differ; of two moved instructions the second uses the first. Nested calls
are followed to depth 5 (`MaxDepth`), which no program without recursion reaches; one with it
then stands at `pc = "overflow"`, for the C++ stack that is used up.

Loop conditions: three bits have every case of a bound and a variable on the two sides of zero and of the
change of sign, and eight iterations bring a variable of three bits back to its start.

Control flow graphs: four blocks have nested loops, loops with two entries,
unreachable edges back to a branch and diamonds.

Converter: two instructions in a block, so that counters, nondefs and effects of
the first meet the second; loops of two phis that read each other. Values 0 and 1
suffice because the converter only compares with zero and copies; the one
arithmetic instruction is `1 - x`.

Condensation: a rule in the middle of a path has to meet rules before and behind
it, and a loop back to the control point; a nondef in an update has to meet one in
a condition.

Arithmetic: three bits are the smallest width in which every row of the division
tables has a case (a divisor below -1, -1, 0, 1 and above 1) and sums leave the box
on both sides. The variables a rule leaves free range over the box and one value beyond
each of its ends, -5..8 for mathematical integers; divisions in the box take their operands from both
ends of it and from each case between. A recursive program calls itself at most eight times in a row on these
values; its arguments are in another order than their names, without which
uniform tuples with swapped arguments would pass. The conditions are chosen so that no rule has more than about 25
disjuncts.

### Fairness

The program has one thread, and each pass returns unless it does not terminate.
So liveness is stated under weak fairness of the whole next-state relation (`WF_vars(Next)`),
never of a single action. In `ConditionPropagator` only sorting is fair: the function that is run
may stop or loop. So it is in `Hoister` (`WF_vars(PassNext)`). In `RulePipeline` the condition is `RunsOn`, which is that weak
fairness with the enabling condition written out: `Next` is enabled exactly
until `stage` is `"done"`, `"refused"` by InstChecker, or `"ended"` where the
converter, the solver or a printer gives up. TLC's own evaluation of ENABLED
would translate each program again in every state.

### Findings

- `slicer_twocalls`: sliceStillUsed looks up the start symbol of the other function
  in `m_stillUsed` for a second call, and reads the end of the map
  (`lib/Core/Slicer.cpp:803`), where the comment wants to keep everything.
- `hoister_division`: a division that does not run on every way through the loop
  is moved in front of it (`lib/Transform/Hoister.cpp:147`), where the comment at line 144
  wants what is "safe to hoist". In the trace the division is in a block of the loop that the run
  leaves aside: the function runs to its end, and after the pass it divides by zero in the preheader.
- `arithmetic_mul`: the norm rules of a product are kept under the next rule's name
  and then eliminated (`lib/Core/BoundConstrainer.cpp:589`).
- `arithmetic_exact`: `x` equals `x*z` for `Monomial::equals`, so `x - x*z` is
  `-x*z` (`lib/IntTRS/Polynomial.cpp:49`).

### What the properties state as lost

In these cases the code does not do what one would ask of it. They are part of the passing
runs: the properties say that it happens in exactly these cases and in no other, so a
further loss, and a loss that goes away, would violate them.

- `InnerConditionsHold` (`LostInside`): where the branch stays when its test is false, the comparison is turned round
  where it had to be negated (`lib/Analysis/LoopConditionExplicitizer.cpp:130` and `:135`), so an equality is asked where the
  run has an inequality and the other way round, and a strict comparison where `op` may be zero. And a comparison
  whose sign is not that of the integers is misread: with signed integers `iv <u op`
  becomes `op > 0`, which an `op` below zero does not satisfy although it is a large number; with
  unsigned ones the same happens to signed comparisons with an `op` of at least `Half`.
- `ExitConditionsHold` (`LostAtExit`): `iv = op` does not hold behind a branch that stays when false; behind a loop
  whose bound was below zero from the start; and behind one that has moved its own bound below `iv`, as lines
  138-151 do not ask whether the bound is invariant.
- `OneWalkIsEnough` (`BehindSubloop`): the walk does not go beyond a subloop (`lib/Transform/Hoister.cpp:140`),
  and nothing is hoisted out of the blocks behind it.
- `PassReturns`: doesNotAccessMemory follows a recursive callee until the stack is used up.
- `ResultsKept` (`Loses`): divisions of the smallest integer of a width and remainders by it, whose
  negation does not fit the width (`LosesSmallest`); shifts whose replacement differs, for negative numbers shifted to
  the right and shifts by the highest power of a width (`LosesShift`); and `x or y` with bitwise conditions, where
  `getOrConstraintForBounded` has `<=` for a comparison named and commented `>=`
  (`lib/Core/Converter.cpp:1432`, `LosesOr`).
- `PipelineTypeOK` (`noInstruction`): the converter ends at conditions that are no instruction, though InstChecker has
  let them pass.

### What the passing runs leave out because it fails

These places are kept out of the passing runs by the inputs or by a named condition, so no property
of them says anything about these cases:

- the inputs of the findings `slicer_twocalls`, `arithmetic_mul` and `arithmetic_exact`; and for `hoister`, divisions that fail
  after they were moved (`MovedDivision`), which `RunsKept` speaks of;
- in LoopConditionExplicitizer, the first iteration of a loop that is tested in its latch (`Tested`): the
  inner blocks then come before the first test, and their conditions need not hold there;
- recursion through calls that were made through casts, which the check before
  `-eager-inline` cannot see (`tools/llvm2kittel.cpp:530`). The model has the check where the code has it,
  before the casts are removed; what the inliner does with such a function is not modelled;
- constants of more than one width in a sum, as condensation collects them:
  `normStepsNeeded` counts a constant as one step;
- bounded functions that compute with two widths in conditions: the width of the
  variables `c_norm_k` is entered once and not overwritten;
- conversions between widths of a sum that has not been wrapped yet, since
  condensation puts the sum into the conversion;
- unsigned operations on negative mathematical integers (the option for
  mathematical integers takes them for large ones only when they are bounded);
- `n > n + 1` for a nondef n in sliceTrivialNondefConstraints, which goes though it
  can never hold;
- loops with two entries in ConditionPropagator, which may end in exit(99999). From six
  blocks on such a function can also come through the pass with a condition that does not
  hold: in `TwoEntries` of `MCConditionPropagator.tla` the condition of an assume in block 3 is put at
  block 4, which a run along 0, 1, 5, 4 enters without it. A `goto` into a loop makes such a
  function; the option is described as "Propagate branch conditions to successor basic
  blocks" (`tools/llvm2kittel.cpp:120`), which this block is not. `FactsHold` therefore speaks of
  reducible functions;
- stores that overlap a part of a global, which MemoryAnalyzer takes for stores of
  all of it;
- calls with a result in bounded integers, printed as complexity tuples: the result is
  bounded by a condition, and conditions of tuples are dropped with a warning
  (`ComplexityTuplePrinter.cpp:40`, `UniformComplexityTuplePrinter.cpp:103`);
- the start symbol of a component of several functions: main() puts their names
  together (`tools/llvm2kittel.cpp:773` and `:777`), which is no symbol of the rules, and
  `printT2System` then prints location 0, which no transition has;
- a block without rules, as behind `assume(0)`, for which sliceStillUsed has no entry.

## What is proved

Eight modules hold proofs; all are about every value of the constants. What the
constants are assumed to be is in the ASSUMEs, which TLC evaluates in the runs; where one
says more than a type, the text below says what in the code justifies it.

| Module | Theorems | Properties |
|---|---|---|
| `HierarchyProofs` | `HierarchyCorrect`, `TypeCorrect`, `BuilderCorrect`, `StackCorrect`, `PartitionCorrect`, `CallOrderImplemented` | `HierarchyExact`, `TypeOK`, `StackDiscipline`, `ComponentsPartition`, `ImplementsCallOrder` |
| `DriverProofs` | `MayZapCorrect`, `LookupsCorrect`, `BottomUpCorrect` | `MayZapExact`, `NoLookupFails`, `ConvertsBottomUp` |
| `ConditionProofs` | `DominatorsCorrect`, `BackwardEdgesCorrect`, `OrderCorrect`, `FactsCorrect`, `PredecessorsCorrect` | `DominatorsFirst`, `BackwardEdgesCloseLoops`, `FactsHold`, `ReduciblePredecessorsFirst` |
| `HoisterProofs` | `DefinitionsCorrect` | `DefinitionsDominateUses` |
| `LoopConditionProofs` | `InnerConditionsCorrect`, `ExitConditionsCorrect` | `InnerConditionsHold`, `ExitConditionsHold` |
| `ConverterProofs` | `ConverterTypeCorrect`, `NondefsCorrect`, `CyclesCorrect` | `ConverterTypeOK`, `NondefsFresh`, `CyclesCut` |
| `SimulationProofs` | `SimulationCorrect`, `ExactCorrect` | `Simulated`, `Exact` |
| `CondenseProofs` | `CondenseTypeCorrect`, `CondensationSound`, `CondensationComplete` | `TypeOK`, `CondensedSound`, `CondensedComplete` |

Read as a chain: the driver converts the right functions in the right order; each comes
with its blocks in an order in which definitions stay ahead of uses, with
conditions that hold; the rules it becomes can do every step the function does, have fresh
nondefs and no cycle without a control point; and condensation of such rules keeps exactly
the runs between control points.

### The call hierarchy and the driver

`HierarchyProofs` (constants: the number of functions `N`, a natural number, and
the sets of call instructions `SiteSets`, of which only the type is assumed):

- `HierarchyCorrect`: the matrix never has an entry outside the closure of the
  direct calls, and is that closure when makeTransitive has returned. The
  property is not inductive: during the loops the matrix is something in between. The
  invariant is `HierarchyInv`: the matrix lies between the calls and their closure (`Between`),
  and `ClosureInv`, what Warshall's loops have done so far: two edges that meet below the
  current pivot have their shortcut, or the pivot itself will give it
  (`PivotsClosed`), and in the rows that are done it has (`RowsClosed`). `RowClosureInv`, `PivotClosureInv` and
  `LoopsDone` are the three steps; `ClosureLeast` and `ClosureTransitive` turn a
  transitive relation between calls and closure into the closure.
- `TypeCorrect`: all variables, with the recursion of tarjan among them, keep
  their types. It needs `CallersInLoop`: every activation but the last stands in
  its loop at a function it may return to.

The rest of `HierarchyProofs` is that getSccs is right.

- `BuilderCorrect`: the inductive invariant `BuilderInv` of the whole builder. Of the
  search it says (`SearchInv`) that numbers are given in order and sort the stack
  (`NumbersInv`); that a function reaches those above it, and that its link is the
  number of a function on the stack that it reaches (`LinksInv`); that the active
  calls lie on the stack in order, each at the function it called, and have noted
  every number they have seen (`FramesInv`); that everything on the stack reaches an
  active call below it (`ReturnsInv`); and that what has come out are whole
  classes, behind those they call (`EmittedInv`). Each part is needed where a function
  returns: at a root, `FramesInv` says that nothing above leads below it, since
  its link would be lower, and `ReturnsInv` that all above it leads back, so
  that what is popped is a class; elsewhere `LinksInv` has the function that takes the place of
  the call in `ReturnsInv`. `NumberKeeps`, `LoopKeeps`, `ReturnBelowRoot` and
  `ReturnAtRoot` are the four kinds of steps. That the search runs on a transitive
  matrix (`MatrixTransitive`, from `HierarchyInv`) is used throughout: for
  Tarjan's algorithm on an arbitrary graph `LinksInv` would speak of paths.
- `StackCorrect` and `PartitionCorrect`: `StackDiscipline` and `ComponentsPartition` follow.
- `CallOrderImplemented`: every step of the builder is a step of `CallOrder` or leaves
  `emitted` alone (`PopIsEmit`, `StepIsEmitOrStutter`).

`DriverProofs` (constants: also the options, modules, globals and what each function
writes, of which only the types are assumed): that main() uses the hierarchy
rightly, in any order of its sets. The driver leaves the builder's state alone
(`DriverRunsBuilder`), so `BuilderInv` holds along its runs.

- `MayZapCorrect`: from `MayZapInv`, what the two loops over dependsOn have done. The
  lookups of the second succeed because dependsOn is closed under calls (`DependsOnClosed`).
- `LookupsCorrect` and `BottomUpCorrect`: `NoLookupFails` and `ConvertsBottomUp`, from
  `ConvertInv`: what is converted is what the two loops have been to (`LoopsInv`), no
  component that is left comes before one that is done, and nothing was converted
  before its callees. `ComponentFacts` and `ComponentOrder` hand over what
  `HierarchyProofs` knows of the components; `CurrentLookups` and `CurrentCallees` are the two
  arguments about the function that comes next.

### Blocks, conditions and loops

The first part of `ConditionProofs` is about the sorter (constants: the blocks and the control flow graphs, with
`CFGsAssumption`: block 0 is the entry, nothing leads to it, all others are reached from it, since
CFG simplification runs earlier, and a block has at most two successors, which is
what InstChecker accepts of terminators). Neither property is inductive, as both speak of the finished layout. `SortInv` is
`VisitInv`, about the recursive visit, and `MoveInv`, about the loop that moves the
blocks:

- in `VisitInv`, a visited block is active or in the list, once (`VisitedOnce`); the successors
  a call has been to are visited (`SuccessorsVisited`); the active calls are a path from the
  entry, and the way to an active block cannot be cut at a block that is not on that path
  (`PathActive`); and in the list, a block stands in front of what dominates it and behind
  those of its successors with which it closes no loop, or else these are still
  active (`ListedOrder`). At the end nothing is active any more;
- in `MoveInv` both the list and the layout have every block once, and of the first `moved`
  blocks of the list the later one is in front in the layout. The step is about `RemoveAt` and
  `InsertAt` at the places of two blocks, on which there are lemmas (`RemoveKeeps`,
  `InsertPlaces`, `MoveBeforeFacts`). `Reversed` is the outcome: the layout is the list turned round.

The second part is about the pass (the same constants and `BranchesAssumption`: the two sides of a
branch differ, which CFG simplification sees to). It is run after the sorter and after
LLVM's search for back edges, and then the function runs. The inductive invariant `CondInv` is
`SortInv /\ ForwardInv /\ SearchInv /\ PassInv /\ RunInv`.

- In a reducible function an edge from the end of a path of a depth-first search to a block on
  it leads to a dominator (`RingDominates`: otherwise the blocks of the cycle
  would have a successor among them along edges that lead to no dominator). Both searches hence
  take the same edges for back edges, whatever order they visit successors in: exactly those to
  dominators (`ForwardEdges` for the sorter, by `ForwardInv`, and `BackedgesFound` for LLVM's, by
  `SearchInv`). This is what `PredecessorsCorrect` rests on: every predecessor but those
  along back edges comes earlier in the layout (`PredecessorsBefore`).
- `PassInv`: what is kept for a block was known at each predecessor, or is what the way
  from the only one adds, and it is about blocks earlier in the layout (`KnownJustified`).
- `RunInv`: the conditions of *every* block that dominates the current one hold, not
  only those of the current one. Without this strengthening a jump along a back edge would not
  be covered: the conditions of the loop's header have been checked only on the way in from
  outside, and the run has been in the loop since. As they are about blocks earlier
  than the header, and those of the loop come later, no branch of the loop changes an outcome
  they speak of (`ConditionsElsewhere`). `BranchStep` puts the cases together.

`FactsCorrect` and `PredecessorsCorrect` follow. `OrderCorrect` says that the composed
specification keeps the order of the sorter.

`HoisterProofs` (constants: graphs, with block 0 as the entry to which nothing leads
(`GraphsAssumption`), functions on them in which every definition dominates its uses
(`ProgramsAssumption`, which is what LLVM's verifier demands, called at
`tools/llvm2kittel.cpp:193`), callees, memory). `DefinitionsCorrect`: the order stays right at every step of
the pass, not only when it is asked. The inductive invariant `HoistInv` adds to it that the code
holds the instructions it had, and that a walk is in a loop with a preheader. The step
that counts is `HoistInstruction`. An operand of a hoisted instruction is defined
outside the loop, by a block that dominates a block of it; it then dominates the preheader
(`OutsideDominates`). What uses the instruction was dominated by its block, and is so by the
preheader, which dominates the loop and is dominated by no block of it (`PreheaderDominates`,
`PreheaderNotDominated`). `UsesKept` has the bookkeeping of places: what moves, what was behind
it in its block, and phis, whose operands count at the end of the blocks they come from.

`LoopConditionProofs` (constants: any set of the loops, the half of a width, values, a number of iterations,
of which `ExplicitizerAssumption` has the types and that the half is not zero): the two theorems hold
for loops of every shape and integers of every width, without a further hypothesis. The conditions for
the inner blocks compare the bound with zero, the first value of the induction variable, while the run is at some
later iteration. So `LoopInv` has, besides what was derived (`Derived`), that a bound that stays the same passed the test
at zero when the run is in an iteration (`FirstTestPassed`), and that the test has just failed where the run leaves
(`TestFailed`); and for the exit, that the variable has not passed such a bound (`BelowBound`), or that the loop was not
gone round even once, when the bound is below zero (`FirstAtZero`). `WithoutSign` says when a comparison means
the same after it has lost its sign, `FlipExchanges` and `TurnedTest` what `flip` makes of the test,
`PlusOneFacts` where the variable wraps.

### The rules

`ConverterProofs` (constants: functions, option sets, globals, values). `FunctionsAssumption` of
`Program` is what the converter is called with:

- `GraphOK`: block 0 is the entry and nothing leads to it, all blocks are reached from it and the
  sides of a branch differ, since CFG simplification ran; at most two successors, since
  LowerSwitch ran;
- `DefinitionsOK`: SSA form, as LLVM's verifier accepts it. On every way to a use, the function has
  been where the operand is assigned or the comparison is made (`Precedes`);
- `ValueAssumption`: the values are integers, 0 and 1 among them, and the arithmetic instruction
  that stands for all, `1 - x`, stays within them;
- no jump behind an `unreachable` instruction; a function writes globals only, and none
  if it is only declared, which is what the driver puts into `funcMayZap`.

The inductive invariant `ConverterInv` has the parts
`VarsOnce` (a global is in `m_vars` once), `Typed`, `NumbersApart` (the numbers of a block come in
one piece before those of later blocks, all below `m_counter`), `Placed` (a rule begins
or ends at a control point, or leads through a block by its numbers, or into a block that has
no other predecessor) and `Fresh` (a rule's nondefs are below `m_nondef`, and two rules share
one only if they leave the same symbol). `EmitKeeps`, `CallKeeps` and `LeaveKeeps` are the three
kinds of steps that make rules.

- `ConverterTypeCorrect` and `NondefsCorrect` follow from it.
- `CyclesCorrect`: inside a block the rules lead from smaller numbers to larger ones
  (`EvalsApart`), so a cycle of rules without a control point leads from block to block, each the only
  predecessor of the next (`ReachesOut`). Then every block of the cycle has its only
  predecessor on it, the other blocks are closed under jumps, and the cycle is not
  reached from the entry (`NoRing`, `NoCycle`).

The last part of `ConverterProofs` is about the function, without its rules: `RunOK` is what is
known of a run at a place. A comparison that has been made still has the outcome it would have
now, since its operand has not been assigned again (`ComparisonsHold`); an assume on every
way was passed (`AssumesPassed`); a side of a branch that lies on every way was the last one taken
there (`EdgesTaken`). `StepOK` says that every step keeps this. It is needed because the
converter reads comparisons late: the condition of a branch, a select or an assume is made
from the operand of the comparison, which may have been executed in another block, and the
conditions of ConditionPropagator are about branches far behind.

`SimulationProofs` (the same constants) compares the rules with the function.
`SimulationCorrect`: every step of the function is a step of the rules or happens within one
symbol. `ExactCorrect`: where nothing is forgotten, the rules can do nothing else. The argument
has four layers.

- One instruction. What a visitor emits is a set of alternatives, arguments with a condition.
  `AltsCover` says that every effect of the instruction is one of them, `AltsFaithful`
  that, where `exactlyTranslated`, they have no others; there is one lemma for each visitor
  (`SelectAlts`, `ZExtAlts`, `LoadAlts`, `StoreAlts`, `AssumeAlts`, `ReturnAlts` for calls, ...),
  on lemmas about left sides, zapped arguments and conditions (`NewArgsRow`, `ZappedRow`,
  `ConditionHolds`, `KnownHold`). Nondefs are chosen per rule, so `FitsArgs` demands that
  positions with the same nondef get the same value.
- One block. `SymbolAt` gives every place its symbol; comparisons have none of their own, and
  an empty block has one symbol fewer. `SymbolInside`, `SymbolOfNumber` and `BlockEnd` connect the
  numbers of a block with its places (`NumberedSimulated`, `ComparisonSimulated`).
- Jumps. `JumpRule` and `TerminatorSimulated`: the phis of the next block, all assigned at once, and
  the side that is taken, with the known conditions added to it.
- The loops of phase2. `SimulationInv` is the inductive invariant: `Running`, where the run is (it
  has not started before the rules are complete, and then satisfies `RunOK`), and `Translated`,
  what has been translated. Its parts are `Numbering` (the instructions before the current one
  have their numbers, and the counter is one behind the last), `Collected` (the rules of the
  current block so far), `Finished` (all steps from the blocks before are simulated, and no later
  rule starts at their symbols) and `Returned` (the returns that wait for the end of phase2).
  `Collected` is separate because the symbol a comparison shares with the next
  instruction is only known when the block is left; `LeaveSimulates` is that step.

`SimulationCorrect` has the hypothesis `WholeStores`: no store writes a part of a global. It is
needed, since MemoryAnalyzer takes such a store for one of the whole
(`lib/Analysis/MemoryAnalyzer.cpp:140`), and with one in a function `Simulated` is false.
`ExactCorrect` needs no hypothesis beyond those in `Exact` itself.

`CondenseProofs` (constants: symbols, states, nondefs and their values, control points, and rules
over them):

- `CondensationSound`: a condensed rule joins two control points, and every step it
  makes is a run of the given rules through symbols that are no control points. The
  inductive invariant is `TypeOK /\ ChainInv`, `ChainInv` saying this of the rules in the
  two work lists as well, whose right sides may be anything; `EndInv` is the part about
  the ends. A run is the smallest set closed under steps, so no induction over
  its length is needed.
- `CondensationComplete`: the other direction. For every run there is a rule, done or in one of the
  work lists, that is the run up to some symbol from which the given rules finish it. To
  chain two rules that have been taken with two choices of nondefs one choice has to serve
  both; that is what `NondefsAssumption` is for: the rules chained to each other share no nondef. It
  is `NondefsFresh` together with `CyclesCut` of the converter, both proved of
  it above, read for rules as relations: rules that share one leave the same symbol, and
  no chain comes back to that symbol without a control point.
- `CondenseTypeCorrect`: the types of the work lists and counters.

### Only model-checked

- Everything about `Slicer`, `RulePipeline` and the arithmetic modules below it: they use
  RECURSIVE operators, for trees and polynomials of any depth, for searches and for lists that
  shrink, about which TLAPS proves nothing. What they compute is by induction over
  data, out of its reach also where a recursive function takes the operator's place.
- `OneWalkIsEnough` and `ValuesKept` of the hoister: both speak of folds over callees and
  alias sets, whose values for every input need induction.
- `DriverTerminates`, `SortTerminates`, `Terminates`, `PassReturns` and `RunsEnd`: liveness under
  fairness. `Terminates` rests on `CyclesCut`, which is proved.

## Abstractions

- Names (functions, blocks, variables) are model values: distinct things have
  distinct names. In the code symbols are `function_block`, which two functions of
  one component can share.
- `Converter`: one arithmetic instruction for all (the others are in `Arithmetic`);
  the conditions of ConditionPropagator are every fact that holds on all ways into
  a block (no others in functions whose loops have one entry, by `FactsCorrect`), its `m_elcMap` is empty; mathematical integers.
- `Slicer`: polynomials by their variables; rules have distinct parts where the
  program has.
- `HierarchyBuilder`: the order of functions within the module is the number of the function.
- LLVM's alias analysis, back edges and loops, its instructions and the rewriting
  by KITTeL are external: modelled from how the code uses them.
- `Polynomial`: coefficients have no width (GMP); `normStepsNeeded` adds in `int` in
  the code, and coefficients beyond are outside the model.

## Not modelled

- The inliners answer one question of LLVM's inliner (inline this call or not); Mem2Reg,
  ConstantExprEliminator and InstNamer rewrite with LLVM's own calls. Their
  result is a module, and the models take any module.
- InstChecker's refusals of types that no program of integers has (floats, vectors, pointers,
  variable arguments): a case distinction on types without state.
- The SMT solver: what ConstraintEliminator asks and what the answer does is
  modelled, the solver is an operator that looks for a solution in a finite set.
- Of the printers, the text: headers, operators and the order of variables.
- `Ref.h` and the command line library come from other projects; `gmp_kittel.cpp` converts to text.

## Plan

Done: the call hierarchy, the driver, block order, conditions, hoisting, the
converter, condensation, the slicer, arithmetic with shifts, checks and solver,
bounds and the printers, and the proofs above. Next, in this order:

1. The search-free parts of the slicer: `PositionsAligned` and `NoFreeVariables` for all systems,
   by making its search an action or a set that is closed, as was done for the conditions.
2. `OneWalkIsEnough`: nothing that may be hoisted is left where the walk goes.
