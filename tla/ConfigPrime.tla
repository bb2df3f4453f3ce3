---------------------------- MODULE ConfigPrime ----------------------------
(***************************************************************************)
(* Configuration priming (ConfigPrime.cpp): the program, whose main may    *)
(* have been given its arguments by CommandLineArguments.cpp or            *)
(* PartialCommandLineArguments.cpp, is interpreted as far as its known     *)
(* arguments go, and the state at the stop is used to simplify it.         *)
(*                                                                         *)
(* The variable run is a run of the program as the language defines it,    *)
(* for any choice of the unknown arguments: the properties compare it with *)
(* what the interpreter found and what was done to the code.               *)
(***************************************************************************)
EXTENDS Interpreter

VARIABLES
    conts,      \* Continuations: the blocks the simplification starts from
    consts,     \* the loads that were replaced, with their constants
    removed,    \* the blocks whose code was removed
    run         \* a run: its stack, memory, path, steps and what it still has to call

primed == <<conts, consts, removed>>
vars == <<interpreter, primed, run>>

NotRunning == [stack |-> <<>>, ram |-> Blank, brk |-> 0, handlers |-> <<>>, path |-> <<>>, steps |-> 0,
               todo |-> <<>>, written |-> {}, args |-> <<>>]

-----------------------------------------------------------------------------
(* A new main that passes the arguments of the manifest to the old one.    *)

Word == IntType(PtrBits)
Reg(r) == [kind |-> "register", register |-> r]
Const(n) == [kind |-> "const", value |-> <<n>>]
Sym(s) == [kind |-> "symbol", symbol |-> s]
Inst(op, type, dst, args) ==
    [op |-> op, pred |-> "none", type |-> type, from |-> type, dst |-> dst, args |-> args,
     scale |-> <<>>, sym |-> "none", to |-> <<>>]
Goto(b) == [Inst("br", Word, NoRegister, <<>>) EXCEPT !.to = <<b>>]
Element(dst, base, index) == [Inst("gep", PtrType, dst, <<base, index>>) EXCEPT !.scale = <<PtrSize>>, !.from = Word]
CallOf(dst, f, args) == [Inst("call", Word, dst, args) EXCEPT !.sym = f]

Literal(i) == "literal" \o ToString(i)
LiteralGlobals(strings) ==
    [i \in DOMAIN strings |-> [name |-> Literal(i), type |-> Vec(IntType(ByteBits), Len(strings[i]) + 1),
                               external |-> FALSE,
                               init |-> <<[kind |-> "data", bytes |-> strings[i] \o <<0>>]>>]]
\* new_argv[i] = argument i, one after the other.
StoreAll(values) ==
    FlattenSeq([i \in DOMAIN values |->
        <<Element("slot", Reg("new_argv"), Const(i - 1)),
          Inst("store", PtrType, NoRegister, <<values[i], Reg("slot")>>)>>])
WithMain(p, blocks, strings, code) ==
    [p EXCEPT !.funs = ("main" :> [params |-> <<"argc", "argv">>, blocks |-> blocks])
                       @@ ("old_main" :> p.funs.main) @@ p.funs,
              !.globals = p.globals \o LiteralGlobals(strings),
              !.code = code @@ p.code]

\* Every argument is in the manifest, the name of the program only when it was given; the
\* array is on the heap, because a callee of main would not have access to it on the stack.
SpecializeArguments(p, named, strings) ==
    LET literals == [i \in DOMAIN strings |-> Sym(Literal(i))]
        cargs == (IF named THEN <<>> ELSE <<Reg("arg")>>) \o literals
        code == (IF named THEN <<>> ELSE <<Inst("load", PtrType, "arg", <<Reg("argv")>>)>>)
                \o <<Inst("malloc", PtrType, "new_argv", <<Const(Len(cargs) * PtrSize)>>)>>
                \o StoreAll(cargs)
                \o <<CallOf("result", "old_main", <<Const(Len(cargs)), Reg("new_argv")>>),
                     Inst("ret", Word, NoRegister, <<Reg("result")>>)>>
    IN WithMain(p, <<"entry">>, strings, "entry" :> code)

\* Mutant of Shift: argv[0] is forgotten.
ShiftWithName(strings) == Len(strings)

\* How far the arguments of the command line move: argv[0] is left out.
Shift(strings) == Len(strings) - 1

\* The manifest gives the first arguments, with the name, and how many will follow: these
\* are copied behind the ones of the manifest, but for argv[0].
PartialArguments(p, strings, extra) ==
    LET cond == [Inst("cmp", IntType(1), "match", <<Reg("argc"), Const(extra + 1)>>) EXCEPT
                     !.pred = "eq", !.from = Word]
        less == [Inst("cmp", IntType(1), "more", <<Reg("t1"), Reg("argc")>>) EXCEPT
                     !.pred = "slt", !.from = Word]
        branch(c, yes, no) == [Inst("br", Word, NoRegister, <<Reg(c)>>) EXCEPT !.to = <<yes, no>>]
        code == [entry |-> <<cond, branch("match", "entry_cont", "incorrect_argc")>>,
                 incorrect_argc |-> <<Inst("ret", Word, NoRegister, <<Const(1)>>)>>,
                 entry_cont |->
                     <<Inst("add", Word, "new_argc", <<Reg("argc"), Const(Shift(strings))>>),
                       Inst("mul", Word, "size", <<Reg("new_argc"), Const(PtrSize)>>),
                       Inst("malloc", PtrType, "new_argv", <<Reg("size")>>)>>
                     \o StoreAll([i \in DOMAIN strings |-> Sym(Literal(i))])
                     \o <<Goto("header")>>,
                 header |-> <<[Inst("phi", Word, "t1", <<Const(1), Reg("t2")>>) EXCEPT !.to = <<"entry_cont", "body">>],
                              less, branch("more", "body", "tail")>>,
                 body |-> <<Inst("add", Word, "o1", <<Const(Shift(strings)), Reg("t1")>>),
                            Element("a1", Reg("new_argv"), Reg("o1")),
                            Element("a2", Reg("argv"), Reg("t1")),
                            Inst("load", PtrType, "arg", <<Reg("a2")>>),
                            Inst("store", PtrType, NoRegister, <<Reg("arg"), Reg("a1")>>),
                            Inst("add", Word, "t2", <<Reg("t1"), Const(1)>>),
                            Goto("header")>>,
                 tail |-> <<CallOf("result", "old_main", <<Reg("new_argc"), Reg("new_argv")>>),
                            Inst("ret", Word, NoRegister, <<Reg("result")>>)>>]
    IN WithMain(p, <<"entry", "entry_cont", "incorrect_argc", "header", "body", "tail">>, strings, code)

-----------------------------------------------------------------------------
(* Loops and dominance in the function of the last executed block.         *)

FunctionOf(b) == CHOOSE f \in DOMAIN module.funs : b \in ToSet(module.funs[f].blocks)
BlocksOf(f) == ToSet(module.funs[f].blocks)
Successors(b) == ToSet(Last(module.code[b]).to)
\* The blocks reached from the set, the blocks of avoid left out.
Closure(set, avoid) ==
    FoldLeft(LAMBDA acc, k : acc \cup (UNION {Successors(b) : b \in acc} \ avoid), set,
             [k \in 1..Cardinality(DOMAIN module.code) |-> k])
ReachedFrom(b) == Closure(Successors(b), {})

\* Loops are reducible: the outermost loop of a block is its strong component.
getRootLoop(b) == {c \in ReachedFrom(b) : b \in ReachedFrom(c)}
Dominates(b, c) ==
    LET entry == module.funs[FunctionOf(b)].blocks[1]
    IN b = c \/ b = entry \/ c \notin Closure({entry}, {b})

getExitingBlocks(loop) == {b \in loop : Successors(b) \ loop # {}}

\* The block of the stop, or the exiting blocks of the outermost loop around it: "we
\* pretend that the rest of the loop won't modify" what was found.
extractValuesFromRun ==
    IF stack = <<>> THEN {}
    ELSE LET loop == getRootLoop(Top.blk)
         IN IF loop = {} THEN {Top.blk} ELSE getExitingBlocks(loop)

\* Mutant of may_dominate: every block of the function is taken for dominated.
may_dominateAnywhere(blocks, c) ==
    \E b \in blocks : FunctionOf(b) = FunctionOf(c) /\ (getRootLoop(b) = {} \/ getRootLoop(b) # getRootLoop(c))

may_dominate(blocks, c) ==
    /\ \A b \in blocks : FunctionOf(b) = FunctionOf(c)
    /\ \E b \in blocks : /\ getRootLoop(b) = {} \/ getRootLoop(b) # getRootLoop(c)
                         /\ Dominates(b, c)

\* Only integers and floats are written back into the code.
convertToLLVMConstant(type) == type.kind \in {"int", "float"}

\* dereferencePointerIfBasicElementType: no vectors, pointers or structs.
Dereferenced(type) == type.kind \in {"int", "float"} /\ type.lanes = 1

\* inspectStackAndGlobalState: what the memory holds of the globals; the values found on
\* the stack are collected, and not used.
inspectGlobalState ==
    [k \in {k \in DOMAIN module.globals : Dereferenced(module.globals[k].type)} |->
        LoadFrom(host, GlobalAt(module, k), module.globals[k].type)]

\* The loads of a global with a basic type, wherever a continuation dominates.
ReplacedLoads(blocks) ==
    LET found == inspectGlobalState
        Loads(b, i) ==
            {[blk |-> b, pc |-> i, addr |-> GlobalAt(module, k), value |-> found[k]] :
                k \in {k \in DOMAIN found :
                           /\ convertToLLVMConstant(module.globals[k].type)
                           /\ module.code[b][i].op = "load"
                           /\ module.code[b][i].args[1] = Sym(module.globals[k].name)}}
    IN  UNION {UNION {Loads(b, i) : i \in DOMAIN module.code[b]} :
                  b \in {b \in DOMAIN module.code : may_dominate(blocks, b)}}

Interpreted == phase = "main" /\ ~running

\* There are continuations: loads are replaced by what the interpreter found.
ReplaceValues ==
    /\ Interpreted /\ extractValuesFromRun # {}
    /\ conts' = extractValuesFromRun
    /\ consts' = ReplacedLoads(conts')
    /\ phase' = "primed"
    /\ UNCHANGED <<module, running, pending, stopped, stack, memory, visited, handlers, path, steps, lost,
                   removed, run>>

\* Mutant of RemoveBlocks: blocks are removed although the interpreter stopped on the way.
RemoveBlocksAnyway ==
    /\ Interpreted
    /\ removed' = DOMAIN module.code \ visited
    /\ phase' = "primed"
    /\ UNCHANGED <<module, running, pending, stopped, stack, memory, visited, handlers, path, steps, lost,
                   conts, consts, run>>

\* There are none, because it finished, or stopped in a loop without an exit: the blocks it
\* never entered are removed.  Destructors are interpreted after that, and were removed too.
RemoveBlocks ==
    /\ Interpreted /\ extractValuesFromRun = {}
    /\ removed' = DOMAIN module.code \ visited
    /\ phase' = IF \E d \in ToSet(module.dtors) : module.funs[d].blocks[1] \in removed'
                THEN "crashed" ELSE "primed"
    /\ UNCHANGED <<module, running, pending, stopped, stack, memory, visited, handlers, path, steps, lost,
                   conts, consts, run>>

-----------------------------------------------------------------------------
(* A run of the program.                                                   *)

Meaning(i, v) ==
    CASE i.op \in BinaryOps \cup Shifts ->
           LET Lane(x, y) == MeansBinary(i.op, x, y, i.type.bits) IN Lanes2(Lane, v[1], v[2])
      [] i.op = "cmp" ->
           LET Lane(x, y) == MeansCompare(i.pred, x, y, i.from) IN Lanes2(Lane, v[1], v[2])
      [] i.op = "select" -> executeSelectInst(v[1], v[2], v[3])
      [] i.op \in Casts -> MeansCast(i.op, v[1], i.from, i.type)
      [] i.op = "gep" ->
           <<(v[1][1] + FoldLeftDomain(LAMBDA sum, k : sum + Signed(v[k + 1][1], i.from.bits) * i.scale[k],
                                       0, i.scale)) % 2^PtrBits>>
      [] i.op = "extractelement" -> <<v[1][v[2][1] + 1]>>
      [] i.op = "insertelement" -> [k \in DOMAIN v[1] |-> IF k = v[3][1] + 1 THEN v[2][1] ELSE v[1][k]]
      [] i.op = "shufflevector" -> [k \in DOMAIN v[3] |-> (v[1] \o v[2])[v[3][k] + 1]]
      [] i.op = "extractvalue" -> <<v[1][i.scale[1] + 1]>>
      [] i.op = "insertvalue" -> [k \in DOMAIN v[1] |-> IF k = i.scale[1] + 1 THEN v[2][1] ELSE v[1][k]]
      [] i.op \in {"dbg", "va_start", "va_copy", "va_end"} -> Unknown

RTop == Last(run.stack)
RIns == module.code[RTop.blk][RTop.pc]
RValue(i) ==
    LET o == RIns.args[i]
    IN IF o.kind = "expr" THEN Meaning(o, [k \in DOMAIN o.args |-> ConstantValue(o.args[k])])
       ELSE getOperandValue(o, RTop.values)
RValues == [i \in DOMAIN RIns.args |-> RValue(i)]
RAssigned(v) == Append(Front(run.stack), Stepped(Assigned(RTop, RIns.dst, v)))

\* The arguments that were unknown are chosen.
StartRun ==
    /\ phase = "primed" /\ phase' = "run"
    /\ \E unknown \in [1..module.unknown -> module.strings] :
          LET args == module.actual \o unknown
          IN run' = [NotRunning EXCEPT !.ram = WithArguments(module, args, WithGlobals(module, Blank)),
                                       !.brk = StringAt(module, ArgCount(module) + 1),
                                       !.todo = module.ctors \o <<"main">>,
                                       !.args = args]
    /\ UNCHANGED <<module, running, pending, stopped, stack, memory, visited, handlers, path, steps, lost, primed>>

\* Constructors, main, then the exit handlers and the destructors.
RunNext ==
    /\ phase = "run" /\ run.stack = <<>> /\ run.todo # <<>>
    /\ LET f == Head(run.todo)
           args == IF f = "main" THEN << <<ArgCount(module)>>, <<ArgvAt(module)>> >> ELSE <<>>
       IN run' = [run EXCEPT !.todo = Tail(@),
                             !.stack = <<NewFrame(f, SubSeq(args, 1, Len(module.funs[f].params)))>>,
                             !.path = Append(@, module.funs[f].blocks[1])]
    /\ UNCHANGED <<interpreter, primed>>

Running(ops) ==
    /\ phase = "run" /\ run.stack # <<>> /\ run.steps < MaxSteps
    /\ RIns.op \in ops
    /\ UNCHANGED <<interpreter, primed>>
Ran == [run EXCEPT !.steps = @ + 1]

RunCompute ==
    /\ Running(BinaryOps \cup Shifts \cup Casts \cup VectorOps
               \cup {"cmp", "select", "gep", "dbg", "va_start", "va_copy", "va_end"})
    /\ run' = [Ran EXCEPT !.stack = RAssigned(Meaning(RIns, RValues))]

\* The first variadic argument; the position of the list is not followed.
RunVAArg ==
    /\ Running({"va_arg"})
    /\ run' = [Ran EXCEPT !.stack = RAssigned(RTop.varargs[1])]

RunAllocate ==
    /\ Running({"alloca", "malloc"})
    /\ run' = [Ran EXCEPT !.stack = RAssigned(<<run.brk>>), !.brk = @ + Slot]

RunLoad ==
    /\ Running({"load"})
    /\ run' = [Ran EXCEPT !.stack = RAssigned(LoadFrom(run.ram, RValue(1)[1], RIns.type))]

\* What the run writes once it is past the point where the interpreter stopped.
WrittenFrom(addr, size) == IF run.steps >= steps THEN addr..(addr + size - 1) ELSE {}

RunStore ==
    /\ Running({"store"})
    /\ LET a == RValue(2)[1]
       IN run' = [Ran EXCEPT !.stack = RAssigned(Unknown),
                             !.ram = StoreTo(@, a, RValue(1), RIns.from),
                             !.written = @ \cup WrittenFrom(a, Size(RIns.from))]

\* The phis of a block take their values at once.
Arrived(f, dest) ==
    LET code == module.code[dest]
        phis == {i \in DOMAIN code : code[i].op = "phi"}
        Source(i) == code[i].args[CHOOSE k \in DOMAIN code[i].to : code[i].to[k] = f.blk]
    IN [f EXCEPT !.blk = dest, !.pc = Cardinality(phis) + 1,
                 !.values = [r \in Registers |->
                     IF \E i \in phis : code[i].dst = r
                     THEN getOperandValue(Source(CHOOSE i \in phis : code[i].dst = r), f.values)
                     ELSE f.values[r]]]

RunJump ==
    /\ Running({"br", "switch", "indirectbr"})
    /\ LET v == RValues
           hits == {k \in 2..Len(v) : v[k] = v[1]}
           dest == CASE RIns.op = "indirectbr" -> RIns.to[v[1][1]]
                     [] RIns.op = "switch" -> IF hits = {} THEN RIns.to[1]
                                              ELSE RIns.to[CHOOSE k \in hits : \A j \in hits : k <= j]
                     [] Len(RIns.to) = 1 -> RIns.to[1]
                     [] OTHER -> RIns.to[IF v[1] = <<0>> THEN 2 ELSE 1]
       IN run' = [Ran EXCEPT !.stack = Append(Front(@), Arrived(RTop, dest)),
                             !.path = Append(@, dest)]

ExitTodo == Reverse(run.handlers) \o module.dtors
RCallIns(f) == module.code[f.blk][f.pc]
RReturnedTo(f, v) ==
    IF RCallIns(f).op = "invoke" THEN Arrived(Assigned(f, RCallIns(f).dst, v), RCallIns(f).to[1])
    ELSE Stepped(Assigned(f, RCallIns(f).dst, v))
RPathAfter(f) == IF RCallIns(f).op = "invoke" THEN Append(run.path, RCallIns(f).to[1]) ELSE run.path

RunReturn ==
    /\ Running({"ret"})
    /\ LET rest == Front(run.stack)
           v == IF RIns.args = <<>> THEN Unknown ELSE RValue(1)
       IN run' = IF rest # <<>>
                 THEN [Ran EXCEPT !.stack = Append(Front(rest), RReturnedTo(Last(rest), v)),
                                  !.path = RPathAfter(Last(rest))]
                 ELSE [Ran EXCEPT !.stack = <<>>,
                                  !.todo = IF RTop.fun = "main" THEN ExitTodo ELSE @]

RCallee == IF RIns.sym # "none" THEN RIns.sym
           ELSE CHOOSE f \in DOMAIN FunctionAddress : FunctionAddress[f] = RValue(1)[1]
RArguments == IF RIns.sym # "none" THEN RValues ELSE Tail(RValues)

RunCall ==
    /\ Running({"call", "invoke", "intrinsic"})
    /\ RCallee \in DOMAIN module.funs
    /\ run' = [Ran EXCEPT !.stack = Append(@, NewFrame(RCallee, RArguments)),
                          !.path = Append(@, module.funs[RCallee].blocks[1])]

\* No run gets here, but where the program behaves as it likes.
RunUnreachable ==
    /\ Running({"unreachable"})
    /\ run' = [Ran EXCEPT !.stack = <<>>, !.todo = <<>>]

\* What external functions do; printf writes one character more for a conversion, and the
\* environment of a run answers as it likes.
RunExternal ==
    /\ Running({"call", "invoke", "intrinsic"})
    /\ RCallee \notin DOMAIN module.funs
    /\ LET a == RArguments
           kind == module.external[RCallee]
           Returned(v) == [Ran EXCEPT !.stack = Append(Front(@), RReturnedTo(RTop, v)),
                                      !.path = RPathAfter(RTop)]
           Wrote(v, ram, size) == [Returned(v) EXCEPT !.ram = ram, !.written = @ \cup WrittenFrom(a[1][1], size)]
       IN CASE kind \in {"exit", "abort"} ->
                 run' = [Ran EXCEPT !.stack = <<>>, !.todo = IF kind = "exit" THEN ExitTodo ELSE <<>>]
            [] kind = "atexit" ->
                 run' = [Returned(<<0>>) EXCEPT
                            !.handlers = Append(@, CHOOSE f \in DOMAIN FunctionAddress : FunctionAddress[f] = a[1][1])]
            [] kind = "printf" ->
                 run' = Returned(<<StringLength(run.ram, a[1][1]) + Conversions(run.ram, a[1][1])>>)
            [] kind = "pure" -> run' = Returned(<<StringLength(run.ram, a[1][1])>>)
            [] kind \in {"env", "variadic"} -> \E x \in 0..1 : run' = Returned(<<x>>)
            [] kind \in {"reads", "fgets"} ->
                 \E x \in 0..1 : run' = Wrote(<<x>>, [run.ram EXCEPT ![a[1][1]] = x], 1)
            [] kind = "memset" ->
                 run' = Wrote(<<0>>, [x \in Addresses |-> IF x \in a[1][1]..(a[1][1] + a[3][1] - 1)
                                                         THEN a[2][1] % 2^ByteBits ELSE run.ram[x]], a[3][1])
            [] kind = "memcpy" ->
                 run' = Wrote(<<0>>, [x \in Addresses |-> IF x \in a[1][1]..(a[1][1] + a[3][1] - 1)
                                                         THEN run.ram[a[2][1] + x - a[1][1]] ELSE run.ram[x]], a[3][1])

\* Nothing is left to do: the optimizer gave up, or the run is over, or runs on for ever.
Over ==
    /\ \/ phase = "crashed"
       \/ phase = "run" /\ run.stack = <<>> /\ run.todo = <<>>
       \/ phase = "run" /\ run.steps = MaxSteps
    /\ UNCHANGED vars

CPInit ==
    /\ Init
    /\ conts = {} /\ consts = {} /\ removed = {} /\ run = NotRunning

CPNext ==
    \/ Interpret /\ UNCHANGED <<primed, run>>
    \/ ReplaceValues \/ RemoveBlocks
    \/ StartRun \/ RunNext \/ RunCompute \/ RunVAArg \/ RunAllocate \/ RunLoad \/ RunStore \/ RunJump
    \/ RunReturn \/ RunCall \/ RunExternal \/ RunUnreachable
    \/ Over

Spec == CPInit /\ [][CPNext]_vars

-----------------------------------------------------------------------------
(* Properties.                                                             *)

\* The types of the variables.
TypeOK ==
    /\ phase \in {"constructors", "main", "crashed", "primed", "run"}
    /\ running \in BOOLEAN /\ stopped \in BOOLEAN
    /\ \A f \in ToSet(stack) \cup ToSet(run.stack) :
           /\ f.fun \in DOMAIN module.funs /\ f.blk \in BlocksOf(f.fun)
           /\ f.pc \in DOMAIN module.code[f.blk] /\ DOMAIN f.values = Registers
    /\ DOMAIN host = Addresses /\ \A a \in Addresses : host[a] \in Byte /\ run.ram[a] \in Byte
    /\ brk \in Nat /\ steps \in 0..MaxSteps /\ run.steps \in 0..MaxSteps
    /\ visited \subseteq DOMAIN module.code /\ removed \subseteq DOMAIN module.code
    /\ conts \subseteq DOMAIN module.code
    /\ ToSet(path) \subseteq DOMAIN module.code

AtTheStop == phase = "run" /\ lost = {} /\ run.steps = steps /\ Len(run.path) = Len(path)
Bytes(regions) == UNION {r[1]..(r[2] - 1) : r \in regions}
Tracked == Bytes(tracked.globals \cup UNION {f.allocas : f \in ToSet(stack)}
                 \cup (IF module.unknown > 0 THEN {} ELSE tracked.params \cup tracked.mallocs))

\* Where the interpreter stopped, its frames are those of every run, each value it knows is
\* the run's, computed as the language defines it, and so is the memory it keeps track of:
\* but for the null pointers that stand for unknown arguments, and copies of them.
StateAtStop ==
    AtTheStop =>
        /\ stack # <<>> =>
              /\ Len(stack) = Len(run.stack)
              /\ \A i \in DOMAIN stack :
                     /\ stack[i].blk = run.stack[i].blk /\ stack[i].pc = run.stack[i].pc
                     /\ \A r \in Registers :
                            \/ stack[i].values[r] \in {Unknown, run.stack[i].values[r]}
                            \/ FalseNull(stack[i].values[r])
        /\ \A a \in Tracked \ FalseBytes : host[a] = run.ram[a]

\* The constant of a replaced load is what the load gives in every run that gets there, with
\* the exceptions the code admits ("this might be unsound"): memory that is written after
\* the stop, loads of the stopping block itself, and functions that were entered before.
ReplacedLoadsAgree ==
    phase = "run" /\ lost = {} /\ run.stack # <<>> =>
        \A c \in consts :
            LET type == RIns.type
                entries == {k \in DOMAIN path : path[k] = module.funs[RTop.fun].blocks[1]}
            IN c.blk = RTop.blk /\ c.pc = RTop.pc =>
                  \/ LoadFrom(run.ram, c.addr, type) = c.value
                  \/ (c.addr..(c.addr + Size(type) - 1)) \cap run.written # {}
                  \/ run.steps < steps /\ (c.blk \in conts \/ Cardinality(entries) > 1)

\* When the interpreter finished, no run enters a block that was removed: unknown arguments
\* did not matter.  Exit handlers are not interpreted, and what they do is removed.
RemovedNotEntered ==
    phase = "run" /\ lost = {} /\ handlers = <<>> /\ stack = <<>> => ToSet(run.path) \cap removed = {}

TheArguments ==
    CASE module.lifted = "fixed" -> module.manifest
      [] module.lifted = "unnamed" -> <<run.args[1]>> \o module.manifest
      [] module.lifted = "partial" -> module.manifest \o Tail(run.args)

\* In a program that was given its arguments, the old main is entered, with the arguments of
\* the manifest followed by those of the command line.
MainSeesManifest ==
    phase = "run" /\ module.lifted # "no" =>
        LET old == module.funs["old_main"].blocks[1]
            entering == run.stack # <<>> /\ RTop.blk = old /\ RTop.pc = 1
            StringOf(i) ==
                LET at == LoadFrom(run.ram, RTop.values["argv"][1] + (i - 1) * PtrSize, PtrType)[1]
                IN SubSeq([k \in 1..MemorySize |-> run.ram[k - 1]], at + 1, at + StringLength(run.ram, at))
        IN /\ entering => /\ RTop.values["argc"] = <<Len(TheArguments)>>
                          /\ \A i \in DOMAIN TheArguments : StringOf(i) = TheArguments[i]
           /\ run.stack = <<>> /\ run.todo = <<>> => old \in ToSet(run.path)

\* "The latter allows a very limited form of non-determinism.  The Occam interpreter allows
\* unknown values as long as they are not used for branching" (interpreter/README.md).
UnknownValuesAllowed ==
    phase = "run" /\ lost \subseteq {"unknown value"} => IsPrefix(path, run.path) \/ IsPrefix(run.path, path)

\* "Best case scenario: The interpreter finishes so the program can be reduced to one single
\* execution" (ConfigPrime.cpp): blocks are removed when that was the only execution.
OneSingleExecution ==
    phase = "run" /\ lost = {} /\ handlers = <<>> => ToSet(run.path) \cap removed = {}
=============================================================================
