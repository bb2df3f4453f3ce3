-------------------------------- MODULE Sccp --------------------------------
(***************************************************************************)
(* transforms/Sccp.cpp (opt -Pipsccp) after LowerGvInitializers.cpp (opt   *)
(* -lower-gv-init), as passes.peval runs them with --ipdse: the            *)
(* interprocedural sparse conditional constant propagation that also       *)
(* tracks internal global variables, and a machine that runs the optimized *)
(* module beside the original one, from the constructors to the functions  *)
(* called after main.                                                      *)
(*                                                                         *)
(* A module is SSA code over integers of one width: code[b] is the         *)
(* sequence of instructions [op, dst, args, sym, to] of block b, phis      *)
(* first and the terminator last.  An operand is a number, Undef or a      *)
(* register; sym is the callee or the global variable; to lists the        *)
(* successors of a terminator or the predecessors of a phi.  A switch has  *)
(* its condition and then its case values in args, the default and then    *)
(* the case destinations in to.                                            *)
(*                                                                         *)
(* Left out: structs, pointers (load and store name their global; a global *)
(* whose address is taken may be written by any external call), floats     *)
(* other than as a kind of global, shifts and pointer casts, exceptions,    *)
(* folding of calls of known library functions, the variables made local to *)
(* a main that the program calls again.                                    *)
(***************************************************************************)
EXTENDS Integers, FiniteSets, Sequences, SequencesExt, TLC

CONSTANTS
    AllOnes,       \* the largest number of the width, all bits one
    Fold(_, _, _), \* what LLVM folds an operator and two numbers to; Undef for any value
    FoldCast(_, _),\* and a cast between the width and one bit
    Undef,         \* the undef value
    Registers,     \* instructions with a result, and parameters
    Globals,
    Functions,     \* the functions a module can define or call
    Blocks,
    Programs,      \* the modules the pass is run on
    MaxPhi,        \* phis with more inputs are not analysed (64 in the code)
    MaxDepth       \* bound on the call stack of the machine

ASSUME SccpAssumption ==
    /\ AllOnes \in Nat \ {0} /\ MaxPhi \in Nat /\ MaxDepth \in Nat
    /\ IsFiniteSet(Registers) /\ IsFiniteSet(Globals) /\ IsFiniteSet(Functions) /\ IsFiniteSet(Blocks)

Ints == 0..AllOnes
Operands == Ints \cup {Undef} \cup Registers
Cells == Registers \cup Globals \cup Functions     \* what has a lattice value

\* Numbers, undef, registers, globals and functions are told apart.
ASSUME KindsAssumption ==
    /\ Undef \notin Ints \cup Registers /\ Registers \cap Ints = {}
    /\ Registers \cap (Globals \cup Functions) = {} /\ Globals \cap Functions = {}
    /\ "none" \notin Registers

Casts == {"trunc", "zext"}
BinaryOps == {"add", "sub", "mul", "and", "or", "xor", "udiv"}
Comparisons == {"eq", "ult"}
Absorbing == {"and", "mul", "or"}
Absorber(op) == IF op = "or" THEN AllOnes ELSE 0

\* What the pass takes for granted of the folder: numbers come out, 0 absorbs in a
\* product and a conjunction, all ones in a disjunction, and 0 divided is 0.
ASSUME FoldAssumption ==
    /\ \A op \in BinaryOps, x, y \in Ints : Fold(op, x, y) \in Ints \cup {Undef}
    /\ \A op \in Comparisons, x, y \in Ints : Fold(op, x, y) \in Ints
    /\ \A op \in Casts, x \in Ints : FoldCast(op, x) \in Ints
    /\ \A op \in Absorbing, x \in Ints :
          Fold(op, x, Absorber(op)) = Absorber(op) /\ Fold(op, Absorber(op), x) = Absorber(op)
    /\ Fold("udiv", 0, AllOnes) = 0 /\ \A x \in Ints : Fold("udiv", 0, x) \in {0, Undef}

VARIABLES
    module,        \* the module: funs, blocks, params, linkage, taken, ctors, globals, code
    s,             \* the solver, and the code as the pass changes it
    phase,         \* "lower", "solve" or "run"
    list,          \* the work list Solve is draining
    todo,          \* users of the popped value that are still to be visited
    local,         \* the globals lower-gv-init made variables of main
    erased,        \* the globals whose stores runIPSCCP erased
    zapped,        \* the functions whose return values it made undef
    stack,         \* the call stack of the machine, top last
    memory,        \* the globals, run by the original module
    optimized,     \* the globals, run by the optimized module
    reset,         \* the globals the inserted stores set back to their initializer
    started        \* how many of the constructors and main have been called

solver == <<s, list, todo>>
transformed == <<local, erased, zapped>>
machine == <<stack, memory, optimized, reset, started>>
vars == <<module, phase, solver, transformed, machine>>

-----------------------------------------------------------------------------
(* The lattice.                                                            *)

Unknown == [kind |-> "unknown"]
Const(n) == [kind |-> "constant", n |-> n]
Forced(n) == [kind |-> "forced", n |-> n]
Over == [kind |-> "over"]
IsConst(v) == v.kind \in {"constant", "forced"}
-----------------------------------------------------------------------------
(* Well-formed modules: what LLVM's verifier accepts.                      *)

Terminators == {"ret", "jmp", "br", "switch"}
Results == {"phi", "select", "load", "call"} \cup Casts \cup BinaryOps \cup Comparisons

Instructions ==
    [op : Results \cup Terminators \cup {"store"}, dst : Registers \cup {"none"}, args : Seq(Operands),
     sym : Globals \cup Functions \cup {"none"}, to : Seq(Blocks)]

\* An instruction of function f.
Shaped(M, f, i) ==
    /\ i.dst # "none" <=> i.op \in Results
    /\ ToSet(i.to) \subseteq ToSet(M.blocks[f])
    /\ i.op \in Casts \cup {"store", "ret", "br"} => Len(i.args) = 1
    /\ i.op \in BinaryOps \cup Comparisons => Len(i.args) = 2
    /\ i.op = "select" => Len(i.args) = 3
    /\ i.op \in {"phi", "switch"} => Len(i.args) = Len(i.to)
    /\ i.op = "ret" => i.to = <<>>
    /\ i.op = "jmp" => Len(i.to) = 1
    /\ i.op = "br" => Len(i.to) = 2
    /\ i.op = "switch" =>
          Len(i.to) > 1 /\ \A j, k \in 2..Len(i.args) : i.args[k] \in Ints /\ (i.args[j] = i.args[k] => j = k)
    /\ i.op \in {"load", "store"} => i.sym \in Globals
    /\ i.op = "call" => i.sym \in Functions
    /\ i.op = "call" /\ i.sym \in ToSet(M.funs) => Len(i.args) = Len(M.params[i.sym])

\* Block b of function f: phis first, a terminator last, which leads to no entry, and
\* the phis of a block name all blocks that lead to it.
BlockShaped(M, code, f, b) ==
    /\ code[b] # <<>>
    /\ \A k \in DOMAIN code[b] :
          /\ Shaped(M, f, code[b][k])
          /\ code[b][k].op \in Terminators <=> k = Len(code[b])
          /\ code[b][k].op = "phi" => b # M.blocks[f][1] /\ \A j \in 1..k : code[b][j].op = "phi"
    /\ \A to \in ToSet(code[b][Len(code[b])].to) :
          /\ to # M.blocks[f][1]
          /\ \A k \in DOMAIN code[to] : code[to][k].op = "phi" => b \in ToSet(code[to][k].to)

CodeShaped(M, code) ==
    /\ code \in [UNION {ToSet(M.blocks[f]) : f \in ToSet(M.funs)} -> Seq(Instructions)]
    /\ \A f \in ToSet(M.funs) : \A b \in ToSet(M.blocks[f]) : BlockShaped(M, code, f, b)

\* A register is the parameter of functions or the result of one instruction.
SingleAssignment(M, code) ==
    \A b, c \in DOMAIN code : \A j \in DOMAIN code[b], k \in DOMAIN code[c] :
        /\ code[b][j].dst = code[c][k].dst /\ code[b][j].dst # "none" => <<b, j>> = <<c, k>>
        /\ \A f \in ToSet(M.funs) : code[b][j].dst \notin ToSet(M.params[f])

WellFormed(M) ==
    /\ M.funs \in Seq(Functions)
    /\ \A f \in ToSet(M.funs) :
          /\ M.blocks[f] \in Seq(Blocks) /\ M.blocks[f] # <<>> /\ M.params[f] \in Seq(Registers)
          /\ \A g \in ToSet(M.funs) : f # g => ToSet(M.blocks[f]) \cap ToSet(M.blocks[g]) = {}
          /\ f = "main" => M.linkage[f] # "int"
    /\ CodeShaped(M, M.code) /\ SingleAssignment(M, M.code)
    /\ \A g \in Globals : M.globals[g].init \in Ints \cup {Undef}
    /\ \A b \in DOMAIN M.code : \A k \in DOMAIN M.code[b] :
          M.code[b][k].op = "store" => ~M.globals[M.code[b][k].sym].constant
    \* The functions of llvm.global_ctors, whose addresses it takes.
    /\ M.ctors \in Seq((M.taken \cap ToSet(M.funs)) \ {"main"})

ASSUME ProgramsAssumption == \A M \in Programs : WellFormed(M)

-----------------------------------------------------------------------------
(* Modules.                                                                *)

FunctionSet == ToSet(module.funs)
EntryOf(f) == module.blocks[f][1]
FunOf(b) == CHOOSE f \in FunctionSet : b \in ToSet(module.blocks[f])
BlockSet == UNION {ToSet(module.blocks[f]) : f \in FunctionSet}
Term(code, b) == code[b][Len(code[b])]
HasMain == "main" \in FunctionSet
Positions(code) == UNION {{b} \X (1..Len(code[b])) : b \in BlockSet}
At(code, p) == code[p[1]][p[2]]

\* The instructions to visit when the value of x changed: its users, the calls
\* of a function, the loads and stores of a global.
Users(code, x) ==
    {p \in Positions(code) :
        \/ x \in Registers /\ x \in ToSet(At(code, p).args)
        \/ x \in Functions \cup Globals /\ At(code, p).sym = x}

\* AddTrackedFunction, AddArgumentTrackedFunction.
RetTracked == {f \in FunctionSet : module.linkage[f] # "weak"}
ArgTracked == {f \in FunctionSet : module.linkage[f] = "int" /\ f \notin module.taken}

\* TrackValueOfGlobalVariable starts with no value, and takes no undefined initializer.
Trackable(g) == module.globals[g].init # Undef

\* The globals runIPSCCP tracks; their initializers are ignored.
GlobTracked(promoted) ==
    {g \in Globals \ promoted : LET G == module.globals[g]
                                IN  ~G.constant /\ G.internal /\ ~G.taken /\ Trackable(g)}

-----------------------------------------------------------------------------
(* The solver's state changes, as functions of the solver record s.        *)

Push(t, x) == IF t.val[x] = Over THEN [t EXCEPT !.owl = Append(@, x)]
              ELSE [t EXCEPT !.iwl = Append(@, x)]

Mark(t, x, v) == Push([t EXCEPT !.val[x] = v], x)

\* Mutant of MarkOverdefined: it does not stop at what is overdefined already.
MarkOverdefinedAgain(t, x) == Mark(t, x, Over)

MarkOverdefined(t, x) == IF t.val[x] = Over THEN t ELSE Mark(t, x, Over)

\* The two assertions of LatticeVal::markConstant: "Marking constant with different
\* value" and "Cannot move from overdefined to constant!".
MarkConstant(t, x, n) ==
    LET v == t.val[x]
    IN  IF v = Unknown THEN Mark(t, x, Const(n))
        ELSE IF v = Over THEN [t EXCEPT !.broken = @ \cup {"overdefined to constant"}]
        ELSE IF v.n = n THEN t
        ELSE IF v = Forced(v.n) THEN Mark(t, x, Over)
        ELSE [t EXCEPT !.broken = @ \cup {"different value"}]

MergeInValue(t, x, v) ==
    IF t.val[x] = Over \/ v = Unknown THEN t
    ELSE IF v = Over THEN MarkOverdefined(t, x)
    ELSE IF t.val[x] = Unknown THEN MarkConstant(t, x, v.n)
    ELSE IF t.val[x].n # v.n THEN MarkOverdefined(t, x)
    ELSE t

ValueOf(t, o) ==
    IF o \in Ints THEN Const(o)
    ELSE IF o = Undef THEN Unknown
    ELSE t.val[o]

MarkBlockExecutable(t, b) ==
    IF b \in t.exec THEN t ELSE [t EXCEPT !.exec = @ \cup {b}, !.bwl = Append(@, b)]

\* getFeasibleSuccessors of a terminator: those of an overdefined condition, of a known
\* one, and of one that is not known.
SuccessorsFor(i, n) ==
    LET hits == {k \in 2..Len(i.args) : i.args[k] = n}
    IN  IF i.op = "br" THEN {i.to[IF n = 0 THEN 2 ELSE 1]}
        ELSE {i.to[k] : k \in IF hits = {} THEN {1} ELSE hits}

FeasibleSuccessors(t, i) ==
    LET v == IF i.op \in {"br", "switch"} THEN ValueOf(t, i.args[1]) ELSE Over
    IN  IF v = Unknown THEN {}
        ELSE IF v = Over THEN ToSet(i.to)
        ELSE SuccessorsFor(i, v.n)

IsEdgeFeasible(t, from, to) ==
    from \in t.exec /\ to \in FeasibleSuccessors(t, Term(t.code, from))

-----------------------------------------------------------------------------
(* The visitors.                                                           *)

MarkResult(t, i, c) == IF c = Undef THEN t ELSE MarkConstant(t, i.dst, c)

VisitCast(t, i) ==
    LET x == ValueOf(t, i.args[1])
    IN  IF x = Unknown THEN t
        ELSE IF x = Over THEN MarkOverdefined(t, i.dst)
        ELSE MarkConstant(t, i.dst, FoldCast(i.op, x.n))

\* The values that come in by feasible edges, but for the unknown ones.
Incoming(t, b, i) ==
    {ValueOf(t, i.args[k]) : k \in {j \in 1..Len(i.to) : IsEdgeFeasible(t, i.to[j], b)}} \ {Unknown}

VisitPHI(t, b, i) ==
    LET in == Incoming(t, b, i)
    IN  IF t.val[i.dst] = Over THEN t
        ELSE IF Len(i.args) > MaxPhi \/ Over \in in \/ (\E v, w \in in : v.n # w.n)
             THEN MarkOverdefined(t, i.dst)
        ELSE IF in = {} THEN t
        ELSE MarkConstant(t, i.dst, (CHOOSE v \in in : TRUE).n)

VisitBinary(t, i) ==
    LET x == ValueOf(t, i.args[1])
        y == ValueOf(t, i.args[2])
        known == IF x # Over THEN x ELSE y       \* when one of them is overdefined
    IN  IF t.val[i.dst] = Over THEN t
        ELSE IF IsConst(x) /\ IsConst(y) THEN MarkResult(t, i, Fold(i.op, x.n, y.n))
        ELSE IF x # Over /\ y # Over THEN t
        ELSE IF i.op = "udiv" /\ IsConst(x) /\ x.n = 0 THEN MarkConstant(t, i.dst, 0)
        ELSE IF i.op \in Absorbing /\ known = Unknown THEN t
        ELSE IF i.op \in Absorbing /\ IsConst(known) /\ known.n = Absorber(i.op)
             THEN MarkConstant(t, i.dst, known.n)
        ELSE MarkOverdefined(t, i.dst)

VisitCmp(t, i) ==
    LET x == ValueOf(t, i.args[1])
        y == ValueOf(t, i.args[2])
    IN  IF t.val[i.dst] = Over THEN t
        ELSE IF IsConst(x) /\ IsConst(y) THEN MarkConstant(t, i.dst, Fold(i.op, x.n, y.n))
        ELSE IF x # Over /\ y # Over THEN t
        ELSE MarkOverdefined(t, i.dst)

VisitSelect(t, i) ==
    LET c == ValueOf(t, i.args[1])
        x == ValueOf(t, i.args[2])
        y == ValueOf(t, i.args[3])
    IN  IF c = Unknown THEN t
        ELSE IF IsConst(c) THEN MergeInValue(t, i.dst, IF c.n = 0 THEN y ELSE x)
        ELSE IF IsConst(x) /\ IsConst(y) /\ x.n = y.n THEN MarkConstant(t, i.dst, y.n)
        ELSE IF x = Unknown THEN MergeInValue(t, i.dst, y)
        ELSE IF y = Unknown THEN MergeInValue(t, i.dst, x)
        ELSE MarkOverdefined(t, i.dst)

\* A global that becomes overdefined is not tracked any longer.
VisitStore(t, i) ==
    IF i.sym \notin t.tracked THEN t
    ELSE LET u == MergeInValue(t, i.sym, ValueOf(t, i.args[1]))
         IN  IF u.val[i.sym] = Over THEN [u EXCEPT !.tracked = @ \ {i.sym}] ELSE u

VisitLoad(t, i) ==
    IF t.val[i.dst] = Over THEN t
    ELSE IF i.sym \in t.tracked THEN MergeInValue(t, i.dst, t.val[i.sym])
    ELSE MarkOverdefined(t, i.dst)

\* The callee is entered with the arguments of the call, one after the other.
PassArguments(t, i) ==
    LET passed[k \in 0..Len(i.args)] ==
            IF k = 0 THEN MarkBlockExecutable(t, EntryOf(i.sym))
            ELSE MergeInValue(passed[k - 1], module.params[i.sym][k], ValueOf(passed[k - 1], i.args[k]))
    IN  passed[Len(i.args)]

VisitCall(t, i) ==
    LET called == IF i.sym \in ArgTracked THEN PassArguments(t, i) ELSE t
    IN  IF i.sym \in RetTracked THEN MergeInValue(called, i.dst, called.val[i.sym])
        ELSE MarkOverdefined(called, i.dst)

VisitReturn(t, b, i) ==
    LET f == FunOf(b)
    IN  IF f \in RetTracked THEN MergeInValue(t, f, ValueOf(t, i.args[1])) ELSE t

\* Mutant of MarkEdgeExecutable: the phis of an executable block are not visited.
MarkEdgeWithoutPhis(t, from, to) ==
    MarkBlockExecutable([t EXCEPT !.edges = @ \cup {<<from, to>>}], to)

\* A phi is the only instruction that the value of an edge matters to.
VisitPhis(t, b) ==
    LET visited[k \in 0..Len(t.code[b])] ==
            IF k = 0 THEN t
            ELSE IF t.code[b][k].op = "phi" THEN VisitPHI(visited[k - 1], b, t.code[b][k])
            ELSE visited[k - 1]
    IN  visited[Len(t.code[b])]

MarkEdgeExecutable(t, from, to) ==
    LET u == [t EXCEPT !.edges = @ \cup {<<from, to>>}]
    IN  IF <<from, to>> \in t.edges THEN t
        ELSE IF to \notin t.exec THEN MarkBlockExecutable(u, to)
        ELSE VisitPhis(u, to)

VisitTerminator(t, b, i) ==
    LET feasible == FeasibleSuccessors(t, i)
        marked[k \in 0..Len(i.to)] ==
            IF k = 0 THEN t
            ELSE IF i.to[k] \in feasible THEN MarkEdgeExecutable(marked[k - 1], b, i.to[k])
            ELSE marked[k - 1]
    IN  marked[Len(i.to)]

VisitInstruction(t, b, i) ==
    CASE i.op = "phi" -> VisitPHI(t, b, i)
      [] i.op \in Casts -> VisitCast(t, i)
      [] i.op \in BinaryOps -> VisitBinary(t, i)
      [] i.op \in Comparisons -> VisitCmp(t, i)
      [] i.op = "select" -> VisitSelect(t, i)
      [] i.op = "store" -> VisitStore(t, i)
      [] i.op = "load" -> VisitLoad(t, i)
      [] i.op = "call" -> VisitCall(t, i)
      [] i.op = "ret" -> VisitReturn(t, b, i)
      [] i.op \in {"jmp", "br", "switch"} -> VisitTerminator(t, b, i)

Visit(t, p) == VisitInstruction(t, p[1], At(t.code, p))

VisitBlock(t, b) ==
    LET visited[k \in 0..Len(t.code[b])] ==
            IF k = 0 THEN t ELSE Visit(visited[k - 1], <<b, k>>)
    IN  visited[Len(t.code[b])]

-----------------------------------------------------------------------------
(* ResolvedUndefsIn: the value an unknown result is given so that no result *)
(* stays undef that could not be any value at all; Unknown leaves it.      *)

ResolvedAs(t, i) ==
    LET v(k) == ValueOf(t, i.args[k])
        both == v(1) = Unknown /\ v(2) = Unknown
        pick == IF v(1) = Unknown THEN (IF IsConst(v(2)) THEN v(2) ELSE v(3))
                ELSE IF v(2) = Unknown THEN v(3) ELSE v(2)
    IN  IF i.op \in {"add", "sub", "trunc", "load", "eq"} \/ (i.op = "call" /\ i.sym \in RetTracked) THEN Unknown
        ELSE IF i.op = "zext" THEN Forced(0)
        ELSE IF i.op \in Absorbing THEN IF both THEN Unknown ELSE Forced(Absorber(i.op))
        ELSE IF i.op = "xor" THEN IF both THEN Forced(0) ELSE Unknown
        ELSE IF i.op = "udiv"
             THEN IF v(2) = Unknown \/ (IsConst(v(2)) /\ v(2).n = 0) THEN Unknown ELSE Forced(0)
        ELSE IF i.op = "select" /\ pick = Unknown /\ v(1) # Unknown THEN Unknown
        ELSE IF i.op = "select" /\ IsConst(pick) THEN Forced(pick.n)
        ELSE Over

\* An undef to resolve: an unknown result for which ResolvedAs has a value, or an
\* unknown condition of a terminator.
Resolvable(t, p) ==
    LET i == At(t.code, p)
    IN  /\ p[1] \in t.exec
        /\ IF i.op \in {"br", "switch"} THEN ValueOf(t, i.args[1]) = Unknown
           ELSE i.dst # "none" /\ t.val[i.dst] = Unknown /\ ResolvedAs(t, i) # Unknown

\* An unknown condition becomes false, or the first case.
ResolveCondition(t, p, i) ==
    LET n == IF i.op = "br" THEN 0 ELSE i.args[2]
    IN  IF i.args[1] = Undef
        THEN MarkEdgeExecutable([t EXCEPT !.code[p[1]][p[2]].args[1] = n], p[1], i.to[2])
        ELSE Mark(t, i.args[1], Forced(n))

\* The first one of f: in the first block that has one.
FirstUndef(t, f) ==
    LET B == module.blocks[f]
        in(j) == {k \in DOMAIN t.code[B[j]] : Resolvable(t, <<B[j], k>>)}
        j == Min({h \in DOMAIN B : in(h) # {}})
    IN  <<B[j], Min(in(j))>>

ResolvedUndefsIn(t, f) ==
    LET p == FirstUndef(t, f)
        i == At(t.code, p)
    IN  IF \A q \in Positions(t.code) : q[1] \in ToSet(module.blocks[f]) => ~Resolvable(t, q) THEN t
        ELSE IF i.op \in {"br", "switch"} THEN ResolveCondition(t, p, i)
        ELSE Mark(t, i.dst, ResolvedAs(t, i))

-----------------------------------------------------------------------------
NoSolver == [val |-> <<>>, tracked |-> {}, code |-> <<>>, exec |-> {}, edges |-> {},
             owl |-> <<>>, iwl |-> <<>>, bwl |-> <<>>, broken |-> {}]

Init ==
    /\ module \in Programs
    /\ phase = "lower"
    /\ s = [NoSolver EXCEPT !.code = module.code]
    /\ list = "over"
    /\ todo = {}
    /\ local = {} /\ erased = {} /\ zapped = {}
    /\ stack = <<>>
    /\ memory = [g \in Globals |-> module.globals[g].init]
    /\ optimized = memory
    /\ reset = {}
    /\ started = 0

\* Mutant of Stores: the initializers are not lowered.
StoresNothing(promoted) == <<>>

\* The stores lower-gv-init inserts at the entry of main: of the initializers
\* that are integers, except for the variables it makes local to main.
Stores(promoted) ==
    LET gs == SetToSeq({g \in Globals \ promoted : module.globals[g].type = "int"})
    IN  [k \in DOMAIN gs |-> [op |-> "store", dst |-> "none", args |-> <<module.globals[gs[k]].init>>,
                              sym |-> gs[k], to |-> <<>>]]

\* The functions that access g.
Accessing(g) == {FunOf(p[1]) : p \in Users(s.code, g)}

Promoted ==
    {g \in Globals : /\ module.globals[g].type = "int" /\ module.globals[g].init # Undef
                     /\ ~module.globals[g].taken /\ Accessing(g) = {"main"}}

\* A function that code outside the module may call is executable from the
\* beginning, and nothing is known of its parameters.
Opened(t, f) ==
    LET over[k \in 0..Len(module.params[f])] ==
            IF k = 0 THEN MarkBlockExecutable(t, EntryOf(f))
            ELSE MarkOverdefined(over[k - 1], module.params[f][k])
    IN  over[Len(module.params[f])]

AllOpened(t) ==
    LET opened[k \in 0..Len(module.funs)] ==
            IF k = 0 THEN t
            ELSE IF module.funs[k] \in ArgTracked THEN opened[k - 1]
            ELSE Opened(opened[k - 1], module.funs[k])
    IN  opened[Len(module.funs)]

\* runOnModule of LowerGvInitializers, and the beginning of runIPSCCP.
Start ==
    /\ phase = "lower"
    /\ phase' = "solve"
    /\ LET promoted == IF HasMain THEN Promoted ELSE {}
       IN  s' = AllOpened([NoSolver EXCEPT
                    !.code = IF HasMain THEN [s.code EXCEPT ![EntryOf("main")] = Stores(promoted) \o @] ELSE s.code,
                    !.tracked = GlobTracked(promoted),
                    !.val = [x \in Cells |-> Unknown]])
    /\ local' = IF HasMain THEN Promoted ELSE {}
    /\ UNCHANGED <<module, list, todo, erased, zapped, machine>>

\* One turn of the loops of Solve over the two lists of changed values.
PopValue(which, queue, popped) ==
    /\ phase = "solve" /\ todo = {} /\ list = which
    /\ queue # <<>>
    /\ LET x == Last(queue)
           skipped == which = "inst" /\ x \in Registers /\ s.val[x] = Over
       IN  todo' = IF skipped THEN {} ELSE Users(s.code, x)
    /\ s' = popped
    /\ UNCHANGED <<module, phase, list, transformed, machine>>

PopOverdefined == PopValue("over", s.owl, [s EXCEPT !.owl = Front(@)])
PopInst == PopValue("inst", s.iwl, [s EXCEPT !.iwl = Front(@)])

\* OperandChangedState of one user; the order of the users is not specified.
VisitUser(p) ==
    /\ phase = "solve" /\ p \in todo
    /\ todo' = todo \ {p}
    /\ s' = IF p[1] \in s.exec THEN Visit(s, p) ELSE s
    /\ UNCHANGED <<module, phase, list, transformed, machine>>

PopBlock ==
    /\ phase = "solve" /\ todo = {} /\ list = "block"
    /\ s.bwl # <<>>
    /\ s' = VisitBlock([s EXCEPT !.bwl = Front(@)], Last(s.bwl))
    /\ UNCHANGED <<module, phase, list, todo, transformed, machine>>

Solved == s.owl = <<>> /\ s.iwl = <<>> /\ s.bwl = <<>> /\ todo = {}

NextList ==
    /\ phase = "solve" /\ todo = {} /\ ~Solved
    /\ \/ list = "over" /\ s.owl = <<>> /\ list' = "inst"
       \/ list = "inst" /\ s.iwl = <<>> /\ list' = "block"
       \/ list = "block" /\ s.bwl = <<>> /\ list' = "over"
    /\ UNCHANGED <<module, phase, s, todo, transformed, machine>>

\* The round of ResolvedUndefsIn over all functions, or the end of the analysis.
AllResolved ==
    LET resolved[k \in 0..Len(module.funs)] ==
            IF k = 0 THEN s ELSE ResolvedUndefsIn(resolved[k - 1], module.funs[k])
    IN  resolved[Len(module.funs)]

ResolveUndefs ==
    /\ phase = "solve" /\ Solved
    /\ AllResolved # s
    /\ s' = AllResolved
    /\ list' = "over"
    /\ UNCHANGED <<module, phase, todo, transformed, machine>>

\* Nobody outside calls these functions, and all calls were replaced by a constant.
ReturnsToZap == {f \in RetTracked \cap ArgTracked : s.val[f] # Over}

\* A global that is still tracked is never stored again, though it is kept if it is
\* still loaded.
StoresToErase == s.tracked

\* The transformation: constants for registers (see Shown), unreachable for the
\* blocks not in exec, undef for the returned values nobody needs, and no stores
\* to the globals that are still tracked.
Transform ==
    /\ phase = "solve" /\ Solved
    /\ AllResolved = s
    /\ phase' = "run"
    /\ erased' = StoresToErase
    /\ zapped' = ReturnsToZap
    /\ UNCHANGED <<module, solver, local, machine>>

-----------------------------------------------------------------------------
(* The machine.  A frame runs one activation of a function of the original  *)
(* module (env) and of the optimized one (opt) in step; Undef in env may  *)
(* be any value, and decides no branch that opt does not decide.  Only the *)
(* optimized module executes the stores lower-gv-init inserted.             *)

Result(op, x, y) ==
    IF Undef \notin {x, y} THEN Fold(op, x, y)
    ELSE IF op \in Absorbing /\ Absorber(op) \in {x, y} THEN Absorber(op)
    ELSE Undef

\* The value of register x in the optimized module, where it was computed as v.
Shown(x, v) ==
    IF s.val[x] = Over THEN v ELSE IF s.val[x] = Unknown THEN Undef ELSE s.val[x].n

Operand(env, o) == IF o \in Registers THEN env[o] ELSE o

Computed(i, env) ==
    LET v(k) == Operand(env, i.args[k])
    IN  IF i.op \in Casts THEN IF v(1) = Undef THEN Undef ELSE FoldCast(i.op, v(1))
        ELSE IF i.op # "select" THEN Result(i.op, v(1), v(2))
        ELSE IF v(1) = Undef THEN IF v(2) = v(3) THEN v(2) ELSE Undef
        ELSE IF v(1) = 0 THEN v(3) ELSE v(2)

Top == Last(stack)
Instr == s.code[Top.b][Top.pc]
Assign(frame, x, v, w) ==
    [frame EXCEPT !.env[x] = v, !.opt[x] = Shown(x, w), !.pc = @ + 1]

\* The frame of a call of f with arguments a, which the optimized caller passes as o.
Entered(f, a, o, dst) ==
    LET given(v, x) == IF x \notin ToSet(module.params[f]) THEN Undef
                       ELSE v[CHOOSE k \in DOMAIN module.params[f] : module.params[f][k] = x]
    IN  [b |-> EntryOf(f), pc |-> 1, dst |-> dst,
         env |-> [x \in Registers |-> given(a, x)],
         opt |-> [x \in Registers |-> Shown(x, given(o, x))]]

\* frame after a jump to block to: all phis are assigned at once.
Jumped(frame, to) ==
    LET phis == {k \in DOMAIN s.code[to] : s.code[to][k].op = "phi"}
        of(x) == CHOOSE i \in {s.code[to][k] : k \in phis} : i.dst = x
        from(i) == CHOOSE j \in DOMAIN i.to : i.to[j] = frame.b
        assigned == {s.code[to][k].dst : k \in phis}
        new(env, x) == Operand(env, of(x).args[from(of(x))])
    IN  [frame EXCEPT !.b = to, !.pc = Cardinality(phis) + 1,
            !.env = [x \in Registers |-> IF x \in assigned THEN new(@, x) ELSE @[x]],
            !.opt = [x \in Registers |-> IF x \in assigned THEN Shown(x, new(@, x)) ELSE @[x]]]

Running == phase = "run" /\ stack # <<>>
SetTop(frame) == stack' = Front(stack) \o <<frame>>
RunFrame == UNCHANGED <<module, phase, solver, transformed, reset, started>>

Compute ==
    /\ Running /\ Instr.op \in BinaryOps \cup Comparisons \cup Casts \cup {"select"}
    /\ SetTop(Assign(Top, Instr.dst, Computed(Instr, Top.env), Computed(Instr, Top.opt)))
    /\ UNCHANGED <<memory, optimized>>
    /\ RunFrame

Load ==
    /\ Running /\ Instr.op = "load"
    /\ SetTop(Assign(Top, Instr.dst, memory[Instr.sym], optimized[Instr.sym]))
    /\ UNCHANGED <<memory, optimized>>
    /\ RunFrame

\* An inserted store: the original has fewer instructions in the block.
Inserted == Top.pc <= Len(s.code[Top.b]) - Len(module.code[Top.b])

\* The optimized module is killed when it stores to a constant, which is in memory
\* that cannot be written.
Killed == Running /\ Instr.op = "store" /\ module.globals[Instr.sym].constant

Store ==
    /\ Running /\ Instr.op = "store" /\ ~Killed
    /\ SetTop([Top EXCEPT !.pc = @ + 1])
    /\ LET v == Operand(Top.env, Instr.args[1])
       IN  /\ memory' = IF Inserted THEN memory ELSE [memory EXCEPT ![Instr.sym] = v]
           /\ reset' = IF Inserted /\ memory[Instr.sym] # v THEN reset \cup {Instr.sym} ELSE reset
    /\ optimized' = IF Instr.sym \in erased THEN optimized
                    ELSE [optimized EXCEPT ![Instr.sym] = Operand(Top.opt, Instr.args[1])]
    /\ UNCHANGED <<module, phase, solver, transformed, started>>

\* The successors the two modules may take.
Taken ==
    LET v == Operand(Top.env, Instr.args[1])
        decided == IF v = Undef THEN Operand(Top.opt, Instr.args[1]) ELSE v
        cases == {k \in 2..Len(Instr.args) : Instr.args[k] = decided}
    IN  IF Instr.op = "jmp" \/ decided = Undef THEN ToSet(Instr.to)
        ELSE IF Instr.op = "br" THEN {Instr.to[IF decided = 0 THEN 2 ELSE 1]}
        ELSE {Instr.to[k] : k \in IF cases = {} THEN {1} ELSE cases}

Branch ==
    /\ Running /\ Instr.op \in {"jmp", "br", "switch"}
    /\ \E to \in Taken : SetTop(Jumped(Top, to))
    /\ UNCHANGED <<memory, optimized>>
    /\ RunFrame

CallDefined ==
    /\ Running /\ Instr.op = "call" /\ Instr.sym \in FunctionSet
    /\ Len(stack) < MaxDepth
    /\ LET passed(env) == [k \in DOMAIN Instr.args |-> Operand(env, Instr.args[k])]
       IN  stack' = Append(stack, Entered(Instr.sym, passed(Top.env), passed(Top.opt), Instr.dst))
    /\ UNCHANGED <<memory, optimized>>
    /\ RunFrame

\* Functions and globals code outside the module can reach.
Reachable == (FunctionSet \ ArgTracked) \ {"main"}
Shared == {g \in Globals : LET G == module.globals[g] IN ~G.constant /\ (~G.internal \/ G.taken)}

\* Code outside changes what it can reach; a local of main is out of its reach.
OutsideWrites ==
    \E h \in [Shared -> Ints] :
        /\ memory' = [g \in Globals |-> IF g \in Shared THEN h[g] ELSE memory[g]]
        /\ optimized' = [g \in Globals |-> IF g \in Shared \ local THEN h[g] ELSE optimized[g]]

\* An external function calls back into the module,
CallBack(f) ==
    /\ Running /\ Instr.op = "call" /\ Instr.sym \notin FunctionSet
    /\ Len(stack) < MaxDepth
    /\ \E a \in [DOMAIN module.params[f] -> Ints] : stack' = Append(stack, Entered(f, a, a, "none"))
    /\ UNCHANGED <<memory, optimized>>
    /\ RunFrame

\* or returns any value, having changed what it can reach.
ReturnExternal ==
    /\ Running /\ Instr.op = "call" /\ Instr.sym \notin FunctionSet
    /\ \E v \in Ints : SetTop(Assign(Top, Instr.dst, v, v))
    /\ OutsideWrites
    /\ RunFrame

Return ==
    /\ Running /\ Instr.op = "ret"
    /\ LET v == Operand(Top.env, Instr.args[1])
           w == IF FunOf(Top.b) \in zapped THEN Undef ELSE Operand(Top.opt, Instr.args[1])
           rest == Front(stack)
       IN  stack' = IF Top.dst = "none" THEN rest
                    ELSE Front(rest) \o <<Assign(Last(rest), Top.dst, v, w)>>
    /\ UNCHANGED <<memory, optimized>>
    /\ RunFrame

\* What is called before anything else: the constructors, then main.
Startup == IF HasMain THEN module.ctors \o <<"main">> ELSE <<>>

\* Code outside calls the functions of Startup one after the other, and then what it can
\* reach, time and again: the functions of a library, and those that run at exit.
Enter(f) ==
    /\ phase = "run" /\ stack = <<>>
    /\ IF started < Len(Startup) THEN f = Startup[started + 1] /\ started' = started + 1
       ELSE f \in Reachable /\ started' = started
    /\ \E a \in [DOMAIN module.params[f] -> Ints] : stack' = <<Entered(f, a, a, "none")>>
    /\ OutsideWrites \/ UNCHANGED <<memory, optimized>>
    /\ UNCHANGED <<module, phase, solver, transformed, reset>>

Solve == PopOverdefined \/ PopInst \/ PopBlock \/ NextList \/ \E p \in todo : VisitUser(p)

Analysis == Start \/ Solve \/ ResolveUndefs \/ Transform

Run == \/ Compute \/ Load \/ Store \/ Branch \/ CallDefined \/ ReturnExternal \/ Return
       \/ \E f \in FunctionSet : Enter(f) \/ (f \in Reachable /\ CallBack(f))

Ended == phase = "run" /\ HasMain /\ started = Len(Startup) /\ stack = <<>> /\ UNCHANGED vars
Crashed == Killed /\ UNCHANGED vars

Next == Analysis \/ Run \/ Ended \/ Crashed

Spec == Init /\ [][Next]_vars

-----------------------------------------------------------------------------
(* Properties.                                                             *)

\* The work lists miss nothing: when Solve ends no instruction of an executable
\* block would still change a value, a block or an edge; and no value was marked
\* "constant with different value", as LatticeVal::markConstant asserts.
SolveReachesFixpoint ==
    phase = "solve" /\ Solved =>
        /\ \A b \in s.exec : \A k \in DOMAIN s.code[b] :
              Visit(s, <<b, k>>) = [s EXCEPT !.broken = Visit(s, <<b, k>>).broken]
        /\ "different value" \notin s.broken

\* "If we inferred constant or undef return values for a function, we replaced all
\* call uses with the inferred value", and all loads of a global whose stores are
\* erased: no call or load that can run is left with a value of its own.
AllUsesReplaced ==
    \A b \in s.exec : \A k \in DOMAIN s.code[b] :
        LET i == s.code[b][k]
        IN  (i.op = "call" /\ i.sym \in zapped) \/ (i.op = "load" /\ i.sym \in erased)
                => s.val[i.dst] # Over

\* The initializers of the globals that lose their stores were made stores.
InitializersLowered == \A g \in erased : HasMain /\ module.globals[g].type = "int"

\* lower-gv-init changed nothing by itself: the globals still had their initializers when
\* main stored them, no constant was among them, and no variable that code outside
\* shares was made local to main.
LoweringHarmless ==
    /\ reset = {}
    /\ \A b \in s.exec : \A k \in DOMAIN s.code[b] :
          s.code[b][k].op = "store" => ~module.globals[s.code[b][k].sym].constant
    /\ local \cap Shared = {}

\* v leaves a value open, and a is one it can be.
Covers(v, a) == v = Over \/ (IsConst(v) /\ v.n = a)

\* "undef * X -> 0.   X could be zero": what was forced while an operand was unknown is
\* still right for what the other operands have become.
ForcedStand ==
    \A b \in s.exec : \A k \in DOMAIN s.code[b] :
        LET i == s.code[b][k]
            v(j) == ValueOf(s, i.args[j])
            stands(n) == Covers(s.val[i.dst], n)
        IN  /\ i.op \in Absorbing => \A j \in 1..2 :
                  v(j) = Unknown /\ Covers(v(3 - j), Absorber(i.op)) => stands(Absorber(i.op))
            /\ i.op = "select" /\ v(1) = Unknown => \A n \in Ints :
                  Covers(v(2), n) /\ Covers(v(3), n) => stands(n)

\* A register has the same value wherever the original's is defined, no run reaches
\* a block that was made unreachable, and code outside finds the same globals.
ModulesAgree ==
    /\ \A k \in DOMAIN stack :
          /\ stack[k].b \in s.exec
          /\ \A x \in Registers :
                stack[k].env[x] = Undef \/ stack[k].opt[x] = stack[k].env[x]
    /\ phase = "run" => \A g \in Shared : memory[g] = Undef \/ optimized[g] = memory[g]
    /\ ~Killed

\* The optimized module computes what the module before lower-gv-init computes, in the
\* constructors, in main and at exit, if the three things hold that the comments of
\* Sccp.cpp take for granted and lower-gv-init itself was harmless.
SameValues == AllUsesReplaced /\ InitializersLowered /\ ForcedStand /\ LoweringHarmless => ModulesAgree

\* What can still climb or become executable: a value twice, a block or an edge once.
Left(t) ==
    Cardinality({x \in DOMAIN t.val : t.val[x] = Unknown}) + Cardinality({x \in DOMAIN t.val : t.val[x] # Over})
        + Cardinality(BlockSet \ t.exec) + Cardinality((BlockSet \X BlockSet) \ t.edges)

Entries(t) == Len(t.owl) + Len(t.iwl) + Len(t.bwl)

\* How many lists Solve has to turn to before it finds an entry.
Turns ==
    LET turns(q, r) == IF q # <<>> THEN 0 ELSE IF r # <<>> THEN 1 ELSE 2
    IN  IF Entries(s) = 0 THEN 0
        ELSE IF list = "over" THEN turns(s.owl, s.iwl)
        ELSE IF list = "inst" THEN turns(s.iwl, s.bwl)
        ELSE turns(s.bwl, s.owl)

\* What climbs puts one entry on a list, and an entry is worth more than all visits it
\* causes and two turns.
Potential(t) == 2 * Left(t) + Entries(t)
Worth == 3 * (Cardinality(Positions(s.code)) + 1)
Measure == Worth * Potential(s) + 3 * Cardinality(todo) + Turns

\* The analysis ends: every step of Solve and of ResolvedUndefsIn lowers the measure.
AnalysisProgresses ==
    [][phase = "solve" => phase' # "solve" \/ Measure' < Measure]_vars
=============================================================================
