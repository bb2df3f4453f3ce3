# A TLA+ model of OCCAM

OCCAM is a whole-program partial evaluator for LLVM bitcode. The tool `slash`
(`razor/slash.py`) takes a manifest with a main module and libraries, and runs
LLVM passes of its own (`src/*.cpp`) over all of them, again and again: it hides
what the other modules do not use, specializes functions on constant arguments
inside of a module and across modules, and links the result. This directory has
TLA+ modules for the logic of the pipeline, TLC configurations that check them
on small instances, and TLAPS proofs.

Paths below are those of the repository (`razor/` is the Python driver, `src/`
the LLVM passes). Run everything in this directory:

    tlc -workers 2 -config Slash.cfg MCSlash.tla
    tlapm ThreadPoolProofs.tla

## 1. The system

| Component | State it keeps | Operations | Hard part |
|---|---|---|---|
| Thread pool, `razor/pool.py` | queue, workers, a semaphore and a result list per call | `map`, the closures, `_start` | threads; a task that raises |
| Pipeline, `razor/slash.py` | the current file of each module, interface files, rewrite files, `progress`, `iteration` | the steps of `driver` | stale interfaces; order of steps; a fixpoint |
| Interfaces, `src/GatherInterface.cpp`, `src/PrevirtualizeInterfaces.cpp`, `razor/interface.py`, `passes.deep` | calls and references | traversal, merging of calls, joining, repetition | recursion, calls by pointer, order of a hash table |
| Internalization, `src/InternalizeComponent.cpp` | linkages, aliases | `MinimizeComponent` | symbols with more than one definition, aliases |
| Inter-module specializer, `src/InterSpecializer.cpp`, `src/InterRewriter.cpp` | rewrite rules | `SpecializeComponent`, `TransformComponent` | rules applied to files that changed since |
| Intra-module specializer, `src/IntraSpecializer.cpp`, `src/SpecializationTable.cpp`, `src/Specializer.cpp` | table, worklist, the module | `trySpecializeFunction`, naming, cloning | copies of copies, over several passes |
| Policies, `src/*SpecPolicy.cpp` | counters and sets made when a pass starts | `intraSpecializeOn`, `interSpecializeOn` | facts that get stale during the pass |
| Abstract values, `src/PrevirtTypes.cpp` | none | `abstract`, `refines`, `to_string` | names made from values |
| Process driver, `razor/driver.py`, `razor/echo.py`, `razor/stringbuffer.py` | a child, two pipes, echo threads, a buffer | `previrt_progress`, `run` | threads against a child; full pipes |
| Intra-module driver, `razor/passes.py`: `peval` and what it calls | five files per module | optimize, devirtualize, ipdse, clam, specialize until no progress | a tool that fails half way; fallbacks that copy an older file |
| File versions, `razor/provenance.py`, `razor/utils.py` | the list of suffixes of a module's current file | `new`, `get`, `populate_work_dir` | a name is given before its file is written; files of an earlier run |
| mc_dce, `passes.mc_dce` | files | SeaHorn queries | verdicts; an output that is named first and filled last |
| Argument passes, `src/CommandLineArguments.cpp`, `src/PartialCommandLineArguments.cpp` | none | a new `main` | two counts of arguments, with and without the program's name |
| ConfigPrime, `src/ConfigPrime.cpp`, and its interpreter, `src/interpreter` | frames, memory, which memory is tracked, visited blocks | the visitors, external functions; continuations, loads, removed blocks | unknown values; what is known at the stop used for code after it |
| Sccp, `src/transforms/Sccp.cpp`, after `LowerGvInitializers.cpp` | lattice values, executable blocks and edges, three work lists | the visitors, `Solve`, `ResolvedUndefsIn`, `runIPSCCP` | work lists that must not miss a user; undefined values; globals |
| Devirtualization, `src/transforms/DevirtFunctions.cpp`, `src/analysis/ClassHierarchyAnalysis.cpp` | targets per call, a cache of bounce functions, a class graph, vtables | resolvers, `getBounceFunction`, `mkDirectCall` | a cache that is hit by another set of targets; names cut from names |
| Cost and benefit, inliner, profilers, manifests, vendored analyses | | | not modelled, see 7 |

How they interact. `slash` runs one step over all modules with
`pool.InParallel` and waits for it. A task runs an LLVM pass in a child process
through `driver.previrt` or `driver.previrt_progress`; the only thing that comes
back is the exit code or whether the child printed `...progress...`. Steps
communicate through files: each task reads the current file of its module and
writes the next version of it, and reads interface and rewrite files that
earlier steps wrote. Nothing else is shared.

What makes each part correct:

- the pool: a call is a barrier, its list of results is right and final, and it returns;
- the pipeline: whatever is hidden, removed, specialized or rewritten, the
  program links, every name keeps its meaning, and main stays;
- interfaces: an entry with constants stands for a real call; what may be used
  from outside is listed; the computation ends;
- the specializer: a rewritten call still is the call that was written; each
  policy bounds what it promises to bound; the repetition ends, and not too early;
- the process driver: a decision on the output of a child is made on all of it;
- files: whichever tool fails, at whichever call, what slash ends with is bitcode
  of this run with the effects of all tools that ended well, and slash ends;
- the argument passes and ConfigPrime: main sees the arguments of the manifest and
  then the rest; a constant that replaces a load is what the load gives in every
  run; no run enters a block that was removed;
- Sccp: the solver ends, at a fixpoint, and the module it leaves computes the same,
  where all uses of what it removes were replaced;
- devirtualization: a rewritten call calls what its pointer stands for.

## 2. Modules

| Module | Models | Proofs |
|---|---|---|
| `ParallelMap` | what a caller of `pool.map` is promised | |
| `ThreadPool` | `razor/pool.py` | `ThreadPoolProofs` |
| `Driver`, `MCDriver` | one call of `previrt_progress` or `run` with its child | `DriverProofs` |
| `GatherInterface`, `MCGatherInterface` | `Pinterface`, merging, `passes.deep` | `GatherInterfaceProofs` |
| `IntraSpecialize`, `MCIntraSpecialize` | `Ppeval` with its policies, repeated by `peval` | `IntraSpecializeProofs` |
| `Slash`, `MCSlash` | the pipeline over all modules, at the level of symbols | `SlashProofs` |
| `Peval` | `passes.peval` at the level of files, with failing tools | `FileVersionsProofs` |
| `FileVersions`, `MCFileVersions` | `slash.run` and `provenance.py` at the level of files, two runs | `FileVersionsProofs` |
| `Sccp`, `MCSccp` | `LowerGvInitializers` and `Pipsccp`, and a run of the result | `SccpProofs` |
| `GenericValues` | the arithmetic of the interpreter, beside that of the language | |
| `Interpreter` | the interpreter of `src/interpreter` | |
| `ConfigPrime`, `MCConfigPrime` | argument passes, `ConfigPrime.cpp`, and a run of the program | |
| `ClassHierarchy` | `ClassHierarchyAnalysis.cpp` | |
| `Devirt`, `MCDevirt` | `DevirtFunctions.cpp` and its pass | `DevirtProofs` |

They fit together like this. `Slash` has atomic tasks and steps that start when
all tasks of the last one have ended: this is what `ThreadPool` shows
(`Barrier`, `ImplementsParallelMap`). `Slash` lets `deep` find any subset of the
calls and lets the specializer specialize any call of an internal function:
`GatherInterface` and `IntraSpecialize` say which. `Slash` takes for the
interface without entries all that is visible, as the first pass of `GatherInterface`
does. The progress test of `inter_rewrite` and of `peval` is
taken at its word: `ProgressIsComplete` of `Driver`. `FileVersions` EXTENDS
`Peval`: its stage `intra` is a whole call of `peval`; a task that raises leaves it
waiting, which is what `ThreadPoolHang` shows of the pool. `Interpreter` EXTENDS
`GenericValues`, `ConfigPrime` EXTENDS `Interpreter`, `Devirt` EXTENDS
`ClassHierarchy`. `Sccp`, `ConfigPrime` and `Devirt` are the insides of single tool
calls of `Peval` and `FileVersions`.

### ThreadPool

One action per statement that another thread can observe: `EnterMap`, `PutTask`,
`PutDone`, `Acquire`, `ReturnMap` of the caller; `Get`, `TaskReturns`,
`TaskRaises`, `Release`, `Leave` of a worker. A closure is the index of the slot
it fills. `_start` makes a list of one worker whatever `maxthreads` is, so TLC
uses one; the proofs hold for any finite number.

### Driver

`main` is where the caller is, `echo` the state of each echo thread, `pipe` and
`printed` the two streams. The three kinds of call differ in who reads what:
`previrt_progress` has a thread for stderr and joins it; `run` without a buffer
has a thread for stderr and joins nothing; `run` with a buffer has two and joins
none. A child is a script of lines; it may crash at any time at which it is not
blocked. `NonAscii` are the lines on which `unicode(obj)` of `stringbuffer.py:15` raises:
they end the echo thread that reads them, and nobody reads its pipe any more.

### GatherInterface

`queue`, `visited`, `cgn`, `pos` and `x` are the variables of the traversal in
`runOnModule`, one call record per step; `l`, `iface` and `progress` are those of
`deep`; `refs` has the results of `_references`. The code's oddities are kept:
a node is marked as visited when its first callee is pushed and no other callee
of it is ever pushed; `call` compares every argument of an entry with the first
actual argument; the entries are visited in the order of a hash table, which is
any order here.

### IntraSpecialize

`order` and `body` are the module, `todo` the worklist of the function at `cur`,
`table` the `SpecializationTable`, `copies` and `refused` what the policies keep.
A name is the function and, for each parameter, the text of the constant that
replaced it. `made` and the field `wants` of a call site are history: what a copy
was really made for and which call a site stood for at first. The callee of a site is a
function or a parameter of the caller: a call through a parameter is skipped by the pass
(`Direct`) until a copy is made in which a function takes the parameter's place, and there
it is a direct call, visited in the same pass. The constants that are functions
(`Constants \cap Functions`) are what such calls are made with. `FoldArgument` and
`Optimize` are `optimize` between the passes, as far as this level shows it:
arguments become constants, and functions that cannot be reached go. What is kept
is one of the sets `Live` of functions that is closed under calls and holds the
roots; `Live` is made by following the calls in as many rounds as there are
functions, so it contains the set of all that is reachable. Inlining is left to
`Slash`.

### Slash

A bitcode file is its symbol table and a set of uses `<<user, name, argument>>`.
`MinimizeComponent` is the whole pass, with the GlobalDCE that follows. `Intra`
is split in elementary changes (a use dropped, a call inlined, introduced or
specialized), of which a task makes any number before `IntraDone`. A function
has at most one argument; the policy of the inter-module specializer is any
choice. `options` holds what slash was started with: `--keep-external`,
`--inter-spec-policy`, `--no-strip`, and which functions the optimizer may
introduce calls to. Two modules may have functions of one name, as long as at most one
definition is strong: `FunctionOf` is the function that a symbol is or was made from, and
`Namesakes` those that two modules of the input define.

### Peval and FileVersions

The files of one module: a file is absent, empty, or bitcode with the set of tools
whose effect is in it, the number of specializations, and whether it is of this run
or an earlier one in the same directory. `Peval` has one action per tool call of
`peval`; each ends well, ends with an error or a handled signal (the tool removes
its output), is killed (the output is empty), or dies before it opens its output, because
it cannot read or verify its input or for any other reason (the output is untouched, and
may be that of an earlier call or run). `driver.run` raises on a failure and `previrt_progress` does not.
`FileVersions` has the stages of `slash.run` in their order: `m.new()`, then the
tool; `path` is the list of suffixes, so that the same name comes again in a second
run in the directory, where files of the first are. `applied`, `claimed` and `killed`
are history: the tools that ended well, the specializations that were reported, and
the tools that were killed; `left` are those that died before they opened an output that
was there, without an exception.

### Sccp

A module is SSA code on the integers `0..AllOnes`. How LLVM folds an operator of two
numbers is a constant (`Fold`, `FoldCast`), of which only what the pass itself relies on
is assumed (`FoldAssumption`): numbers come out, 0 absorbs in a product and a conjunction,
all ones in a disjunction, and 0 divided is 0. `MCSccp` gives it the arithmetic of
integers modulo 4. `s` is the solver with its values, its executable blocks and edges
and its three lists; `Pop` and `Visit` are one turn of `Solve`, with the users of a value
visited one by one in any order; then comes `ResolvedUndefsIn`, then `runIPSCCP`'s
rewriting. Beside it a machine runs the original and the optimized module in step: `env`
and `opt` are the registers, `memory` and `optimized` the globals. The original is the
module before `LowerGvInitializers`: only the optimized one executes the stores which that
pass puts at the entry of `main` (`Inserted`). A run begins with the constructors, in
their order, then `main`, then the exported and other reachable functions any number of
times (`Startup`); code outside of the module (an external call) may
change shared globals and call exported functions. A global may be a `constant`, which
the lowered stores write to all the same (`Killed`), and one that only `main` uses becomes
a local variable of it (`local`).

`SameValues` supposes four things. Three are those that the comments of `Sccp.cpp` take for
granted: that all uses of a constant function or global were replaced
(`AllUsesReplaced`), that the initializers were lowered (`InitializersLowered`), and that
what was forced while an operand was unknown is right for what the operand became
(`ForcedStand`). The fourth is about lowering itself (`LoweringHarmless`): no inserted store
changed what a constructor had set (`reset`), none writes to a constant, and no global that
code outside shares was made local. None of the four always holds (section 6).

### GenericValues, Interpreter, ConfigPrime

`GenericValues` has each operator twice: what the visitor of the interpreter
computes, and what the language reference says. `Interpreter` has one action per
visitor and per kind of external function, with the stack of frames, the memory
(`host`), the regions that are tracked, and the code's rules for when a value is
unknown. The variable `lost` is history: the interpreter has done something that its
authors know to be approximate, from which on no property compares it. `ConfigPrime`
begins with the new `main` of the argument passes, and after the stop chooses the
continuations, replaces loads, removes blocks. Its variable `run` is a run of the
program by the language's rules for any value of the unknown arguments.

### ClassHierarchy, Devirt

`ClassHierarchy` has the graph of struct types closed by Floyd and Warshall, the
reading of vtables, and `ResolveVirtualCall`. A class name is a sequence of
characters, because the analysis cuts names from names by a search for single
characters. `Devirt` has the work list of calls, taken from its end, the two
resolvers one after the other, the types that filter the targets, the cache of bounce
functions with its comparison, and the bounce functions with the three kinds of
default. The pointer analysis is external: an input that is sound where it says that
it is complete (`DsaIsSound`). So are the tables, which have the form that the C++ ABI
gives them (`HierarchyAssumption`): offsets, the type information of the owner, methods;
the first table of a class is also that of its first base class, of the first base class
of that one, and so on; and no object is of a class whose method is pure. A table has the
name of its class and, beside it, the struct that clang made for it, whose name begins with
`class.` or `struct.`; `ClassType` looks for `class.` with the name and then for the bare
name, as the code does. A struct need not have its base class as an element: where the
base's padding is used again, clang puts in `X.base`, another struct (`Embeds` says where
it has). Virtual base classes, whose construction tables would be further tables, are
left out.

## 3. Runs

| Run | Checks | Bounds |
|---|---|---|
| `ThreadPool` | type, barrier, semaphore, holes, stuck only after a failure, `MapReturns`, final results, refinement of `ParallelMap` | 1 worker, 3 calls of up to 4 tasks, tasks may raise |
| `ThreadPoolHang` | violated: `FailedCallReturns` | 2 calls of up to 3 tasks |
| `Slash` | type, `LinkClosed`, `NoDuplicateSymbols`, `MeaningPreserved`, `RewritesFinished` | `TwoJobs`: 2 modules, 1 round, 57 programs, with and without inter-module specialization, with introduced calls that `--keep-external` covers; `ChainJobs`: 3 modules, up to 4 rounds; `TwoCallJobs`: 2 calls for 2 rules, up to 3 rounds; `CallbackJobs`: 2 rounds for a call that passes a function; `NamesakeJobs`: 1 round, a static or weak function beside an exported one of its name, two static callbacks of one name |
| `GatherDeep` | type, `EntriesAreReal`, `CompleteWhenUnbranched`, `Terminates` | 2 modules, 5 functions, 2 constants |
| `IntraSpecialize` | `CallsKeepMeaning`, `CopiesBounded`, `RecursionNotCopied`, `OneCopyIfOnlyOnce`, `Terminates` | 4 functions, one also called by pointer, one called through a parameter, 3 constants, one of them a function, all policies, threshold 2 |
| `DriverCalls` | type, `ProgressIsComplete`, `BlockedOnUnreadPipe`, `Returns` | children of up to 3 lines, one kind of them not ASCII, pipes of 1 line |
| `FileVersions` | `PevalHandsOutBitcode`, `EffectsKept`, `FinalIsWhole`, `SlashEnds` | 2 runs in one directory, 2 iterations, 2 specializations; of peval's passes none, one, all but one, all, and the pairs with an inliner; with them or without, six sets of slash's options |
| `Sccp` | `SolveReachesFixpoint`, `SameValues`, `AnalysisProgresses` | integers `0..3`, 4 functions, 2 globals, 8 blocks, call depth 4, phis of up to 2 inputs; programs with and without constructors and constants |
| `SccpForced` | violated: `AllUsesReplaced`, see 6 | the programs of `Sccp` in which a branch reads a result that is still unknown |
| `ConfigPrime` | type, `StateAtStop`, `ReplacedLoadsAgree`, `RemovedNotEntered`, `MainSeesManifest` | bytes of 4 bits, pointers of 7, 56 bytes of memory, 110 steps |
| `Devirt` | `CallsKeepTheirCallee`, `DirectCallsMatch`, `ChaCoversDispatch` | 3 calls, 5 functions, 5 classes, all options; structs named `class.`, `struct.` and with reused padding |
| `DevirtPrefix` | violated, see 6 | the calls with overlapping targets |

Further configurations, each of which TLC ends with a violation of its one property;
section 6 says what they show: `SlashAlias.cfg`, `SlashSameName.cfg`,
`SlashNamesakes.cfg`, `GatherAllCalls.cfg`, `IntraSpecializeTaken.cfg`,
`IntraSpecializeGuard.cfg`, `DriverVerdict.cfg`, `SccpLibrary.cfg`, `SccpLowering.cfg`,
`ConfigPrimeEndless.cfg`, `ConfigPrimeUnknown.cfg`, `DevirtCha.cfg`, `FinalLinks.cfg`.

Why these bounds. Three calls of the pool have a first one, which starts the
worker, one after it, and one after a failure. Two modules have everything one
module can do to another, and three are needed for a constant that travels and
for two libraries with one name. The programs of `MCSlash` combine exported,
weak and static functions, variables, aliases, callbacks and constant
arguments; an alias has one aliasee. Two constants and functions of two parameters are enough for copies
of copies, and for two calls that one entry may absorb. A pipe of one line and
three lines fill it in all positions. Deadlock is not checked where the program
ends or where a bound stops it, which the configurations say.

Two runs of slash in one directory are enough for files of an earlier run, and the
iterations and specializations beyond the second meet the same names and contents;
the proofs hold for any number. The programs of `MCSccp` have each kind of terminator,
recursion, a call back from outside, undefined values and a phi with more inputs than
are analysed. 4-bit bytes and 7-bit pointers keep the carry from one byte to the next
and the wrapping of addresses; the programs of `MCConfigPrime` have all operators on
all pairs of small operands, loads and stores through each kind of address, calls,
each kind of external function, constructors and exit handlers, and the new `main`
with none, fewer and more arguments than the manifest has. The calls of `MCDevirt`
come in all orders of completeness and overlap, its hierarchies have single, multiple
and no bases, members of class type, pure functions, destructors that are aliases, and
classes that are mistaken for another one by name. Each exception that
`ChaCoversDispatch` makes is needed: TLC finds a hierarchy that violates the property
without it.

Bounds in guards: `MaxArgs` and `MaxCalls` in `ThreadPool`; `MaxSpecs` in `Peval` (the
specializations that `-Ppeval` finds) and `MaxRuns` in `FileVersions`; `MaxDepth` of the
machine in `Sccp`; `MaxSteps`, `MemorySize` and `Slot` in `Interpreter`. `MaxFixpoint` in
`FileVersions` and the rounds of a job in `Slash` are `max_fixpoint_iterations` of the
code, `MaxPhi` in `Sccp` its limit of 64 inputs, `Threshold` the bounded policy's.

`LinkClosed` holds in every state, also between the tasks of one step: slash could stop
anywhere and link.

## 4. Fairness

- `ThreadPool`: weak fairness of the caller and of each worker. Python's
  interpreter schedules every thread; `queue.get(True)` and `acquire(True)` block.
  `MapReturns` makes an exception when a worker has ended: `StuckOnlyAfterFailure`
  and the run `ThreadPoolHang` show that it is needed.
- `Driver`: the same for the caller, each echo thread and the child. That the
  child goes on when it is not blocked is an assumption on LLVM's tools.
- `GatherInterface`, `IntraSpecialize`: weak fairness of `Next`; these are
  sequential programs. `IntraSpecialize!Terminates` rests on the finite set of
  constants: a copy is never made twice for one name. Programs with unboundedly
  many constants (a recursive function that counts) are outside of the bound.

- `FileVersions`: weak fairness of `SlashNext`, one sequential program whose tools
  each end or are killed. `SlashEnds` has one exception, with `--force-inline-spec`: that
  again and again `-Ppeval` reports progress and the loop of `peval` starts again from the
  file it had before (`RoundLost`). Either `-Ppeval` fails after it printed that it made
  progress, or the inliner that reads its output dies before it opens its own; nobody looks
  at the exit code of either.

`Slash` has no liveness property: its rounds are bounded by `max_fixpoint_iterations`, and
`RewritesFinished` says with what a loop ends that this bound does not cut off. `Sccp`
needs no fairness: `AnalysisProgresses` says that every step of the solver lowers a
natural number, so that it ends whatever the scheduling. `ConfigPrime` and `Devirt`
work off finite lists.

## 5. Proofs

All theorems are about the specification with all constants arbitrary but for
the named assumptions of the modules (a finite set of workers, a capacity of at
least one, programs of the right type).

**ThreadPoolProofs**: `TypeCorrect`, `BarrierHolds`, `SemaphoreIsExact`,
`HolesAreExactlyFailures`, `StuckNeedsFailure`, `ReturnedListNeverChanges`,
`Refinement`. None of these is inductive: `Barrier` speaks of the moment `map`
returns and says nothing of how it came there. The argument is that closures are
put on the queue in the order of their slots and taken from its front, so the
queue is always an interval (`QueueIsInterval`), each slot before it was released
or is in the hands of exactly one worker (`TakenOnce`), and a released slot has a
result or a failure (`Outcomes`). With `SemaphoreCounts`, `acquired = nargs`
means that all slots were released, and then no worker is busy. `Refinement`
maps the slots not yet released to `ParallelMap!todo`.

**DriverProofs**: `TypeCorrect`, `ProgressComplete`, `OnlyUnreadPipesBlock`. The
invariant says where the lines are (`NothingLost`: the buffer and behind it the
pipe are what was printed) and in which order things end (`Threads`: an echo
thread is done only if the child has exited and its pipe is empty; the caller of
`previrt_progress` waits for that; the buffer is closed last). `Unread` says that
a stream without a thread is all in its pipe. A thread that died on a line that is not
ASCII is one of the ways in which a stream has none.

**GatherInterfaceProofs**: `TypeCorrect`, `EntriesReal`, `InterfaceComplete`. Each merge
adds the call it is given, or the call with unknown arguments, or nothing (`CallAdds`,
`CallAnyAdds`), and the traversal only gives it call records of the module
(`RecordType`), whatever it visits.

`InterfaceComplete` assumes `CallsFit`: a direct call has as many arguments as its
callee has parameters, which LLVM's verifier demands but of functions with variable
arguments. `CompleteWhenUnbranched` speaks of the end of `deep`. The invariant speaks of
every moment of the traversal of one module (`Traversing`): there is a set of functions,
those whose calls were read, such that each call of theirs is recorded, still to be read
in the node at hand, or leads to a function that is queued or in the set. It has to be
said with "there is", for the code keeps a set of visited nodes from which it also pushes
again. `RoundsExplore` carries this over the modules of a round: as long as the round has
brought nothing new, the modules before the present one bring nothing new; the loop ends
after a round of which this is true of all. Then the functions whose calls were read are
closed under calls in each module and contain what the interface names, and `Reached` is
the smallest such set.

**FileVersionsProofs**: `PevalBitcode`, `PevalKeepsEffects` for one call of `peval`, and
`WholeModule`, `PevalBitcodeInSlash`, `EffectsKeptInSlash` for slash, for any
number of runs in one directory. `EffectsKept` speaks of the end of `peval`; on the way some
of the files are behind, and which ones changes with each call. The invariant `IInv` says
for each step which of `done`, `opt` and `tmp` are whole: at `reoptimize` it is `done`, at
`specialize` `opt`, at `decide` `opt` without progress and `done` with it. A file is whole
(`Good`) if, when it is bitcode at all, it has every effect. The proof has a lemma per tool
call. `SlashInv` adds to the invariant of `peval` what the
module's file is before each stage. Some stages would have raised if the stage before
them had left nothing (`ReadStages`: what they read is whole and of this run); before
the others the file may be missing, but is not an old one (`UnreadStages`), unless a tool
whose exit code is ignored has left an old one there (`left`). Where two such stages meet
at the end, the alternatives of `FinalIsWhole` come in: `mc_dce`, whose output is linked
without a test, and a module that is linked unstripped. What an inliner loses that dies
before it opens its output is exactly the effect of the pass whose result it should have
read: `EffectsKept` and `FinalIsWhole` say so and except nothing else of `peval`.

**IntraSpecializeProofs**: `Invariant`, `Meaning`, `Bounded`, `NoRecursiveCopies`,
`OneCopyInUse`, for all
programs, policies and thresholds and any number of passes. `Meaning` assumes `TextsDiffer`: no two constants
have one text. The invariant has three parts.

- `Structure`: names, sites, table and worklist are as the code takes them to be: a
  site passes what its callee has parameters for, a table entry's version has the name
  that the module would give it, and a copy's name is spelled with the texts of the
  constants it was made for. A copy of a copy has fewer parameters than its original,
  so that the arguments of its call fill the places that are still open; the lemmas on
  `Open`, `Place` and `Select` say that the n-th argument belongs to the n-th open place,
  by counting the open places before it.
- `CountOK`: during a pass, what the bounded policy counted is at least the number of
  copies in the module. The policy finds its counts in the names when a pass starts;
  that the copies of a function are as many as the count needs that different copies
  have different names.
- `MeaningOK`: the function a site calls is the one that it was written for, or that the
  parameter it was written with stands for in this copy; and the call it makes, with the constants in its callee's name put back
  into their places, is the call that it stood for at first. Two copies with one name
  were made for the same constants: this is what `TextsDiffer` is for.

Of `Optimize` these parts only need that what is kept is closed under calls, not
that it is the smallest such set. Facts about counting are proved with bijections and
with the pigeonhole lemmas of `FiniteSetTheorems`.

`NoRecursiveCopies` needs no hypothesis. The guard of `nonrec-aggressive` looks for cycles
once, at the start of a pass, and the pass then changes the calls. The theorem speaks of
cycles of calls that were written as direct ones (`OnCycle`); of a call that was written
through a parameter, and became direct in a copy, it is false (section 6). The invariant
`CycleInv` says that all functions of one original have bodies of the same originals
(`BodiesAlike`), so that such a cycle in the present module, with the copies taken for
their originals, was a cycle at the start of the pass (`Descends`, `CopyKeepsCycles`), and
that a function on such a cycle has no copies and, during a pass, is refused
(`CyclesKnown`). `Recursive` is defined by as many rounds of following calls as there are
functions. That these are enough (`ReachClosed`) is the pigeonhole principle; that what
they find is a path (`ReachSound`) is an induction over the rounds, done by the least
counterexample: `Least` is an instance of the well-foundedness of < on the naturals, and
`Iteration` gets from it that a function can be iterated along an interval.

`OneCopyInUse` needs none either; the exception for functions that are called by pointer
is part of the property. The invariant `OnceInv` says that the calls of a function that
has copies, or that the pass may still copy, are all in one place of one function, if
copies are taken for their originals (`SiteUnique`). A pass keeps this because a copy has
its calls where its original has them; when a pass starts it follows from the policy's
count. A copied caller then makes the call a second time, and the two calls may be given
two copies; that only one of them is in use is an induction along the rounds of `Live`:
what is reached from the exported functions has one version of each function
(`ReachedMore`), because two versions would be called from one place in two versions of
their caller.

**SlashProofs**: `TypeCorrect`, `NothingExportedTwice`, `NothingDeclaredLost`, `MeaningKept`,
`NothingLeftToRewrite`, for all programs, any number of modules and rounds, and every choice of the optimizer and the
policies. The first part has a lemma per pass on what it may do to one file (`Becomes`:
which names it declares, whose addresses it takes, what it exports), and a task either
removes nothing others could need (`Widens`) or hides what an interface does not mention
(`Narrows`). `NothingExportedTwice` asks of the input only that it could be linked
(`Linkable`: no two modules export one strong definition); static and weak functions may
have any name, and the property excepts what is made from a function that both modules
define. The theorems on links rest on two more hypotheses about the input:

- `OneDefinition`: no function is defined in two modules, not even as static or weak.
  The specializer's rules and `InterRewriter` go by name, and mark as external what they
  pass (`SlashSameName` shows a static function taken for another one, `SlashNamesakes` two
  specializations of one name).
- `KeepCoversLibCalls`: the library functions that the optimizer may introduce calls of
  are in the file of `--keep-external`. No interface lists a call that does not exist yet.

`NothingExportedTwice` follows from `Origin`: definitions do not move between modules, but
for specializations, which are exported where their function is defined. `LinkClosed`
is not inductive: a task reads files that earlier steps wrote, and other tasks have
changed the modules since. The invariant `Sound /\ FilesKnown` says what is still true
of those files. `ReferencesKnown` and `InterfaceKnown`: the interfaces that internalization
and sealing read mention every declaration the modules have now, because nothing between
adds one. `RulesExported`: the callees of the rewrite files exist. `ArgumentsCovered`: a
function in a recorded call, which a specialization will take the address of in another
module, is exported. That the last is so when `deep` runs is `TakenExported`: internalization
never hides a function whose address is taken in its module.

`MeaningKept` has a third hypothesis, `NamesApart`: one module exports a name, a function
or an alias that is static in one module is unknown to the others, and the functions that
calls pass on, or that the optimizer may introduce calls of, are not static. Without it
the linker, and the rewrite rules, which go by name, have a choice that the files do not
decide. `MeaningPreserved` compares what a name resolves to now with what it resolved to
at the start, and neither inlining nor stripping keeps what is needed for that one module
at a time. `Placed` says it of each file: it exports and aliases nothing it did not,
declares nothing it defined, knows no static name of another module, and a specialization
is where its function is and is known only where that function could be called.
`RulesFounded` says of the rewrite files that a rule's function is defined by the module
whose file it is, by its name or by an alias, and `CallsPassable` of the interface that
the functions among the arguments can be passed on; rules and interfaces are read when the
modules have changed. With `LinkClosed`, a name has then exactly one definer, the one it had
(`PlacedImplies`).

`NothingLeftToRewrite` needs no hypothesis. `RewritesFinished` speaks of the end of the loop;
the invariant `Verdict` speaks of the middle of a round: while no task of `inter_rewrite`
has reported progress, each module that was rewritten has no call left for a rule of the
others. This is more than a module's own verdict says, because the loop ends on the
verdict of all modules together, and it survives the steps that follow, because they only
take functions and uses away (`FewerMatches`). The loop starts with `progress` true, and
without inter-module specialization there are no rules at all (`NoRules`).

**SccpProofs**: `SolverReachesFixpoint`, `AnalysisEnds`, `ValuesAgree`, for all well-formed
modules, all widths, all folders that `FoldAssumption` admits, every order in which users
are visited and any bound on the stack.

- `SolverReachesFixpoint`. The invariant `SolverInv` says what holds of the solver at any time
  (`Base`: each edge is feasible, each constant is one that its instruction can still
  give, no tracked global is overdefined) and that the lists miss nothing (`Complete`): an
  instruction of an executable block is settled, so that a visit would change nothing, or it
  is pending: in `todo`, in a block on the block list, or a user of a value on one of the
  other two. A user of an overdefined register on the second list does not count, because
  `Solve` skips it: it is pending for the first list. Each visitor is shown to merge into one
  value what its instruction wants (`Merged`, `Wants`), which only climbs (`Climb`), so
  that all other instructions stay settled unless a value they read was put on a list
  (`SettledClimbs`). `ResolvedUndefsIn` also changes the code: a branch on undef gets a
  constant condition (`Decided`, `DecidedKeeps`). `VisitPhis`, `PassArguments`, `VisitBlock`,
  `Opened` and `AllResolved` iterate a change of the solver; the induction is by least
  counterexample (`Induct`), for a family of sets of solvers that the changes stay in.
- `AnalysisEnds`. `Measure` is the product of `Potential` and the number of instructions, with
  the visits and turns that are left. A value that climbs, or a block or an edge that becomes
  executable, puts at most one entry on a list and is worth two, so a visit never adds
  to the potential (`AnySpends`), an entry that is taken from a list lowers it, and so does a
  round of `ResolvedUndefsIn` that resolves something (`AllUndefsSpend`): a resolved
  condition on undef has an edge marked that cannot have been marked before, because it was not
  feasible. An entry causes at most as many visits as there are instructions.
- `ValuesAgree`. The invariant `MachineInv` says of each frame that its block is executable
  and of each register (`Sound`) that where the original has a number, the optimized module has
  the same and the solver's value allows it, and that the optimized module has the solver's
  constants; of two frames on the stack that the lower one is at the call of the upper one
  (`StackOK`); of each global that the two memories agree where the original's is defined,
  or, if its stores were erased, that the solver's value allows the original's (`MemoryOK`).
  The original is the module before lowering, so the invariant also follows the run through
  the constructors (`StartupOpen`), and at the inserted stores, which only the optimized
  module executes, `LoweringHarmless` says that they change nothing. What code outside writes
  reaches no global whose stores were erased (`OutsideWritesOK`). At the start the values of
  those globals rest on the stores of the initializers, which the analysis has
  visited (`Ready`). What an instruction computes is covered by what the solver says of it
  (`ComputedFits`), because it is settled. An operand of which the solver knows nothing may be
  anything in the optimized module, and what was forced for it must fit: this is where
  `ForcedStand` is used. `AllUsesReplaced` is used at returns and loads, `InitializersLowered`
  for the start, `LoweringHarmless` at the entry of `main`.

**DevirtProofs**: `Invariant`, `ChaNeverRewrites`, `CalleesKept`, `DirectCalls`, for all
modules, options and answers of a pointer analysis that is sound where it says that it is
complete (`DsaIsSound`). A list of targets is the part of the list of names that is in a
set (`Sublist`); the lemmas on it count its places. What a rewritten call calls is decided
when a bounce function is made, possibly for another call, and what it may call was
decided at the start, so the invariant relates both: a bounce function was made for some
call of its type with that call's targets (`Made`, `Cached`), the pointer analysis's
answers are those of the start (`DsaAnswers`), and the targets of a rewritten call
continue those of its bounce function or are continued by them (`Rewritten`). Of two lists
that continue each other the first functions are the same, hence all have the type of one
pointer: this is `DirectCalls`. Where the cached list is longer `std::equal` reads past the
end of the other and may say anything; `CalleesKept` holds whatever it says.
`ChaAnswersNothing` shows that the first resolver never rewrites a call: each call is
asked about once, and the first question is not answered.

`DispatchCovered` is about what this resolver computes and nobody receives, for every
hierarchy and all tables that satisfy `HierarchyAssumption`. After the first k rounds of
`closureCHG` every path of two edges through one of the first k classes has an edge
(`ClosedThrough`), which the next round keeps and extends (`RoundCloses`); so the closed
graph has an edge from each first base class, however far up, to the class (`BasesReach`).
A table is recorded for what its owner's name is cut down to (`ClassOfTable`), and
`insert` keeps the first one, which is the class's own unless a namesake comes before it
(`TableIsFound`). That the name is looked up with `class.` or bare, and that a base class may
be an element only as `X.base`, is not assumed away: `FoundFor` and `Embeds` are in the
property, and the path of bases is followed only as far as the structs have it. The index of a call counts the methods behind the type information, and
without aliases these are what `buildVtables` has collected (`EntryIsThere`).

Only model-checked:

- `MeaningPreserved` of `Slash` where `NamesApart` does not hold: callbacks that are static,
  static names that another module knows, and symbols that two modules export. The property
  itself excepts the uses of a function that two modules define (`Ambiguous`) and of what is
  specialized from or for one: for these the rules, which go by name, pick either.
- `Interpreter` and `ConfigPrime`: their arithmetic is that of `Bitwise`, which is recursive
  and out of the provers' reach.
- Everything under fairness (`MapReturns`, `Returns`, `SlashEnds`, the two
  properties `Terminates`): liveness and ENABLED are not supported.

## 6. Where the code and what is said of it differ

Each of these is a run in which TLC finds the violation.

- `ThreadPoolHang`: a task that raises ends the only worker thread
  (`razor/pool.py:89`, `sys.exit` where it "was _exit"); `map` never returns.
- `SlashAlias`: `test/weak-linkage-2` expects a weak function and its alias to be
  kept; the unused alias is removed first and then the function.
- `SlashSameName`: "if the callee is external" (`InterRewriter.cpp:83`) is not
  tested: the callee is looked up by name.
- `SlashNamesakes`: with a static or weak `f` in one module and an exported `f` in another,
  both modules get a rule for a call of `f` with a constant and both export
  `__occam_spec.f(a)` (`InterSpecializer.cpp:101-104` finds the callee by name, line 199
  makes the specialization external): a program that could be linked no
  longer can.
- `GatherAllCalls`: "all possible calls" (`OnlyOnceSpecPolicy.cpp:100`) are not in
  the interface: calls are merged that differ in a later argument.
- `IntraSpecializeTaken`: "Specialize a function if it is called once"
  (`IntraSpecializer.cpp:72`): `OnlyOnceSpecPolicy` counts direct calls (line 50). A function
  that is called once directly, and also by pointer, is copied and stays in use beside
  its copy, and what its body calls is then copied once for each. `OneCopyIfOnlyOnce`
  holds where no function that is called by pointer has copies.
- `IntraSpecializeGuard`: nonrec-aggressive is "Specialize always if some constant arg and
  function is non-recursive" (`IntraSpecializer.cpp:77-78`). A call through a parameter
  becomes direct in the copy in which a function replaces the parameter
  (`Specializer.cpp:150`), and the function may be on a cycle that way which the guard,
  computed before the pass, does not know: it is specialized. `RecursionNotCopied` holds of
  the cycles of calls that were written as direct ones.
- `DriverVerdict`: "SeaHorn got a counterexample" (`razor/passes.py:554`) is said
  of an output that was not read to its end.
- `DevirtPrefix`: "if a pointer analysis can resolve the indirect calls and compute all
  possible callees" (`DevirtFunctionsPass.cpp:4-9`): a call with targets `<<f, g>>` is
  given the bounce function that was made for `<<f>>`, because `std::equal` compares only
  as many targets as the cached list has; a pointer to `g` runs into `unreachable`.
- `DevirtCha`: "Resolve first C++ virtual calls by using a Class Hierarchy Analysis"
  (`DevirtFunctionsPass.cpp:32`): the query that computes the targets returns nothing,
  and no call is queried twice.
- `SccpForced`: "we replaced all call uses with the inferred value"
  (`transforms/Sccp.cpp:1902`): where a branch reads the result of a call before the
  callee's return is reached, `ResolvedUndefsIn` forces the result to a constant; if the
  function returns another one the result is overdefined, the call stays, and the
  returns become undef all the same. "I try to be conservative" (line 1977) of the same
  with a load of a tracked global: the global is kept, but its stores are erased. The
  programs need an undefined value on the way, not one that decides anything: `0 & undef`
  is enough. `SameValues` holds where this does not happen.
- `SccpLibrary`: "This is sound because we ensure that the LowerGvInitializersPass has
  been run before" (`transforms/Sccp.cpp:21`): that pass does nothing in a module without
  `main`.
- `SccpLowering`: `LowerGvInitializers` puts the initializers of globals at the entry of `main`
  (`LowerGvInitializers.cpp:195-208`), after the constructors have run: what a constructor
  has set is reset. Line 204 does the same with globals that are constants, and a store to
  a constant ends the program. `SameValues` holds where neither happens
  (`LoweringHarmless`).
- `ConfigPrimeEndless`: "the program can be reduced to one single execution"
  (`ConfigPrime.cpp:400`) is concluded when there are no continuations, and there are
  none either after a stop in a loop that has no exiting block.
- `ConfigPrimeUnknown`: "unknown values as long as they are not used for branching"
  (`interpreter/README.md:8`): a store of an unknown value is skipped, and the old value
  decides a later branch.
- `FinalLinks`: "Make symlinks for the "final" versions" (`slash.py:625`): the link names a
  file that the last tool did not write, and slash returns 0.

Limits of the checked properties, where the code and its comments also differ
but no run shows it:

- a variable with common linkage in two modules becomes two internal variables:
  "global is unused" (`InternalizeComponent.cpp:258`) is decided from
  declarations, and a common variable is a definition in every module; the
  programs of `MCSlash` have no such variable;
- `CallsKeepMeaning` needs constants with texts of their own. A string constant is
  named by a hash (`PrevirtTypes.cpp:441`), and `Specializer.cpp:144` finds a copy
  by its name, so two strings of one hash share a copy;
- the bounded policy (`BoundedSpecPolicy.cpp:104`) counts call sites where
  `BoundedSpecPolicy.h:44` says "number of copies". `CopiesBounded` is the half of
  that sentence that holds.

Constant propagation:

- variables that `LowerGvInitializers` makes local to `main` are given their initializers
  again when the program calls `main` again, which is left out of `Sccp`;
- the assertion "Cannot move from overdefined to constant!" (`transforms/Sccp.cpp:144`) can
  fail, the other one of `markConstant`, "Marking constant with different value", cannot
  (`SolveReachesFixpoint`): a select with an overdefined condition and two equal constants marks
  its result constant (`visitSelectInst`, without the test for an overdefined result that
  `visitBinaryOperator` has), and the result may have become overdefined after
  `ResolvedUndefsIn` had forced it to something else;
- "undef * X -> 0.   X could be zero" (`Sccp.cpp:1449`): a value that was forced for an operand
  that was unknown is not looked at again when that operand becomes overdefined or a number
  for which the result is another one. `SameValues` therefore supposes `ForcedStand`; without it
  TLC finds a module on which the two runs differ. The first attempt
  at a proof of `ValuesAgree` failed here;
- the measure of `AnalysisProgresses` once gave an entry four times the number of instructions;
  the proof of `AnalysisEnds` showed that this is too little for modules of one or two
  instructions, in which the visits of a popped value and two turns of `Solve` cost more.

Files:

- an unchecked failure is noticed by the next stage that must read the file, but not
  at the tail of `slash.run`: a module left unstripped and absent makes the link fail
  (`slash.py:645`, return code 0), and `mc_dce` names its output first and fills it
  last. A binary of an earlier run stays where it was when the link fails;
- a tool that dies before it opens its output leaves what was there. The exit code of
  `driver.previrt` and `previrt_progress` is ignored (`driver.py:108`), so an inliner that dies
  so takes back the effect of the pass before it (`passes.py:237`), and internalization,
  rewriting or sealing in a second run in one directory leave the file of the first run,
  which later stages read. `EffectsKept`, `FinalIsWhole` and `SlashEnds` name these cases
  (`left`, `RoundLost`), and TLC finds each of them when the exception is taken out;
- `os.path.exists` is false for a dangling link, so that a later run in the directory
  raises at `os.symlink` (action `Symlinks`);
- the fallbacks of `_optimize` (`passes.py:209`) and of ipdse are never reached, since `run`
  raises; `devirt` tests that its output is a file, which it is from the start.

Argument passes, ConfigPrime and the interpreter:

- `StateAtStop` and `ReplacedLoadsAgree` are stated for runs with `lost = {}`. The code
  itself admits to some of the reasons ("This might be unsound"); others are that
  `fgets` prints "Returning an unknown value" and returns a known zero, that `printf`
  returns the length of its format, and that an interrupted constructor or a call of
  `exit` is followed by code that was not interpreted;
- destructors run after the blocks were removed, and the interpreter aborts
  (`ConfigPrime.cpp:417`); variadic externals through libffi abort the optimizer;
- a load of the stop's own block, or of a function that was entered before, may be
  replaced by a constant that an earlier execution of it does not see;
- a manifest without an argument count makes a new `main` that always returns 1, where
  the message says "No argc given in the manifest so specialization might not take
  place". The new argument vectors have no null pointer at their end;
- division by zero, shifts by the width or more, and conversions of negative numbers
  to unsigned are excluded from the programs: the language gives them no value.

Devirtualization:

- `CallsKeepTheirCallee` makes exceptions for targets that the types filter out after the
  pointer analysis found them (`DevirtFunctions.cpp:219`): overriding C++ methods with
  another type of `this`, or C functions called through a wrong type. They run into
  `unreachable`;
- with `-Pallow-indirect-calls`, the default of a bounce function without result returns
  and calls nothing (line 488). `std::equal` also reads past the end of a shorter list.
  Only the first bounce function of a type is compared (line 301), so others are made
  twice;
- the header says that a maximum of 0 targets means no limit; the code resolves nothing;
- `ChaCoversDispatch` names what the class hierarchy misses: a class's struct is looked up as
  `class.X` and then as `X` (`ClassHierarchyAnalysis.cpp:484-489`), so that those clang names
  `struct.X` are never found; a base class whose padding is used again is an element as
  `X.base`, for which `buildCHG` (lines 409-411) makes no edge; `find_last_of` searches for
  single characters, so that a class `Node` is not found and the table of a class `fooE`
  is kept as that of `E` if it comes first (`Namesake`); only the first array of a vtable
  is read, aliases shift the indexes, covariant results do not match. A class with a shorter vtable than the index
  needs aborts the optimizer (`ResolveAborts`).

## 7. Not modelled, and the plan

Left out for good: the vendored analyses (llpe, llvm-dsa, sea-dsa), the inliner, which
calls LLVM's, profilers and reports, the text and protobuf forms of interfaces, the
parsing of manifests, options and constraint files, and the linker. Of `Sccp`: structs
and pointers as values, exceptions. Of the interpreter: fractions, infinities and 80-bit
floats, integers wider than a word, and the calls of libffi as far as they are not those
of the externals it knows. `IPDeadStoreElimination` and `MemorySSA` follow annotations
that sea-dsa makes; without a model of it there is nothing to compare them with.

Next, in this order:

1. The policies of the inter-module specializer in `Slash`.
2. `CostBenefitCallGraph` with the order of the queries of `mc_dce`.
