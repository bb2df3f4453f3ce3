---------------------------- MODULE Interpreter ----------------------------
(***************************************************************************)
(* The interpreter of src/interpreter (Execution.cpp, Interpreter.cpp,     *)
(* ExternalFunctions.cpp), which runs main on values that may be unknown   *)
(* and stops where one would be branched on.                               *)
(*                                                                         *)
(* A program is SSA code: code[b] is the sequence of instructions of block *)
(* b, phis first and a terminator last, [op, pred, type, from, dst, args,  *)
(* scale, sym, to]: the result type, the type of the first operand, the    *)
(* operands, the element sizes of an address computation, the callee when  *)
(* it is direct, the successors or the predecessors of a phi.  An operand  *)
(* is a register, a constant, a symbol or a constant expression of these.  *)
(* The interpreter's memory is its own process's: globals and argv are     *)
(* laid out from address 1 on and every later allocation has a slot of its *)
(* own.  Nothing is ever freed: the code leaks what it allocates.          *)
(*                                                                         *)
(* The variable lost is history: why the interpreter may no longer agree   *)
(* with a run of the program.  No action reads it.                         *)
(***************************************************************************)
EXTENDS GenericValues, FiniteSets, TLC

CONSTANTS
    Registers,
    NoRegister,        \* the destination of an instruction without a result
    Programs,          \* the programs that are interpreted
    FunctionAddress,   \* where functions are, outside of the data
    MemorySize,        \* bound on the addresses of data
    Slot,              \* the room of one allocation
    MaxSteps           \* bound on the instructions executed

ASSUME InterpreterAssumption ==
    /\ ByteBits \in Nat \ {0} /\ PtrBits \in Nat \ {0}
    /\ MemorySize \in 1..2^PtrBits /\ Slot \in 2..MemorySize /\ MaxSteps \in Nat

VARIABLES
    module,        \* the program
    phase,         \* "constructors", "main", "crashed", and the phases of ConfigPrime
    running,       \* inside Interpreter::run
    pending,       \* the constructors that are still to be run
    stack,         \* ECStack, the current frame last
    host,          \* the interpreter's memory
    tracked,       \* MemGlobals, MemMainParams and MemMallocs
    brk,           \* where the next allocation goes
    visited,       \* VisitedBlocks
    handlers,      \* AtExitHandlers
    stopped,       \* StopExecution
    path,          \* the blocks in the order they were entered
    steps,         \* the instructions executed
    lost           \* why the interpreter's state may be wrong

memory == <<host, tracked, brk>>
control == <<phase, running, pending, stopped>>
interpreter == <<module, control, stack, memory, visited, handlers, path, steps, lost>>

Unknown == <<>>
Byte == 0..(2^ByteBits - 1)
Addresses == 0..(MemorySize - 1)

-----------------------------------------------------------------------------
(* MemoryHolder: the regions [first, end) that were handed out.            *)

\* The region that lower_bound(addr + 1) finds is the last one that starts at addr + 1
\* or below: the last byte of a region that another one follows is not found.
isAllocatedIn(regions, addr) ==
    LET below == {r \in regions : r[1] <= addr + 1}
    IN \E r \in below : (\A q \in below : q[1] <= r[1]) /\ r[1] <= addr /\ addr < r[2]

Added(regions, addr, size) ==
    IF isAllocatedIn(regions, addr) \/ \E r \in regions : r[1] = addr THEN regions
    ELSE regions \cup {<<addr, addr + size>>}

isAllocatedMemory(addr) ==
    \/ isAllocatedIn(tracked.params, addr)
    \/ isAllocatedIn(Last(stack).allocas, addr)
    \/ isAllocatedIn(tracked.globals, addr)
    \/ isAllocatedIn(tracked.mallocs, addr)

-----------------------------------------------------------------------------
(* Operands.                                                               *)

ConstantValue(o) == IF o.kind = "symbol" THEN <<module.address[o.symbol]>> ELSE o.value

\* An index is signed.  The code knows those of 32 and 64 bits, and an assertion fails
\* for any other: a module is modelled whose indices have one of the two widths.
GEPOffset(indices, scale, bits) ==
    FoldLeftDomain(LAMBDA total, i : total + ToSigned(indices[i][1], bits) * scale[i], 0, indices)
GEPAddress(base, indices, scale, bits) ==
    <<Wrap(base[1] + GEPOffset(indices, scale, bits), PtrBits)>>

\* The operands of a constant expression are constants, which are always known.
getConstantExprValue(e) ==
    LET v == [i \in DOMAIN e.args |-> ConstantValue(e.args[i])]
    IN CASE e.op \in Casts -> executeCast(e.op, v[1], e.from, e.type)
         [] e.op = "gep" -> GEPAddress(v[1], Tail(v), e.scale, e.from.bits)
         [] e.op = "cmp" -> executeCmpInst(e.pred, v[1], v[2], e.from)
         [] e.op = "select" -> executeSelectInst(v[1], v[2], v[3])
         [] e.op \in BinaryOps -> BinaryOperator(e.op, v[1], v[2], e.type)
         [] e.op = "shl" -> shl(v[1], v[2], e.type)
         [] e.op = "lshr" -> lshr(v[1], v[2], e.type)
         [] e.op = "ashr" -> ashr(v[1], v[2], e.type)

getOperandValue(o, values) ==
    CASE o.kind = "register" -> values[o.register]
      [] o.kind = "expr" -> getConstantExprValue(o)
      [] OTHER -> ConstantValue(o)

\* A load or store whose address is a global, casts stripped, is never checked.
DirectGlobal(o) ==
    \/ o.kind = "symbol"
    \/ o.kind = "expr" /\ o.op = "bitcast" /\ o.args[1].kind = "symbol"

-----------------------------------------------------------------------------
(* Frames.                                                                 *)

Top == Last(stack)
Ins == module.code[Top.blk][Top.pc]
Operand(i) == getOperandValue(Ins.args[i], Top.values)
AllKnown == \A i \in DOMAIN Ins.args : Operand(i) # Unknown
Operands == [i \in DOMAIN Ins.args |-> Operand(i)]

WithTop(f) == [stack EXCEPT ![Len(stack)] = f]
Assigned(f, dst, v) == IF dst = NoRegister THEN f ELSE [f EXCEPT !.values[dst] = v]
Stepped(f) == [f EXCEPT !.pc = @ + 1]

\* Mutant of SwitchToNewBasicBlock: each phi reads what the phis before it have written.
SwitchToNewBasicBlockOneByOne(f, dest) ==
    LET phis == SelectSeq(module.code[dest], LAMBDA i : i.op = "phi")
        Incoming(p) == p.args[CHOOSE k \in DOMAIN p.to : p.to[k] = f.blk]
    IN [f EXCEPT !.blk = dest, !.pc = Len(phis) + 1,
                 !.values = FoldLeft(LAMBDA values, p : [values EXCEPT ![p.dst] = getOperandValue(Incoming(p), values)],
                                     @, phis)]

\* The phis of the block are first read, then written one after the other.
SwitchToNewBasicBlock(f, dest) ==
    LET phis == SelectSeq(module.code[dest], LAMBDA i : i.op = "phi")
        Incoming(p) == p.args[CHOOSE k \in DOMAIN p.to : p.to[k] = f.blk]
        ResultValues == [i \in DOMAIN phis |-> getOperandValue(Incoming(phis[i]), f.values)]
    IN [f EXCEPT !.blk = dest, !.pc = Len(phis) + 1,
                 !.values = FoldLeftDomain(LAMBDA values, i : [values EXCEPT ![phis[i].dst] = ResultValues[i]],
                                           @, phis)]

\* What is left of the arguments after the parameters are the variadic ones.
NewFrame(fun, args) ==
    LET params == module.funs[fun].params
        blk == module.funs[fun].blocks[1]
    IN [fun |-> fun, blk |-> blk, pc |-> 1, allocas |-> {},
        values |-> [r \in Registers |-> IF \E i \in DOMAIN params : params[i] = r
                                        THEN args[CHOOSE i \in DOMAIN params : params[i] = r]
                                        ELSE Unknown],
        varargs |-> SubSeq(args, Len(params) + 1, Len(args))]

-----------------------------------------------------------------------------
(* Loading the program: globals, then argv with its strings.               *)

SizeOfLeaves(init) == FoldLeft(LAMBDA n, leaf : n + Len(leaf.bytes), 0, init)
GlobalAt(p, k) == 1 + FoldLeft(LAMBDA a, g : a + SizeOfLeaves(g.init) + 1, 0, SubSeq(p.globals, 1, k - 1))
BytesOf(init) == FoldLeft(LAMBDA b, leaf : b \o leaf.bytes, <<>>, init)

\* Each leaf of an initializer is a region, but undefined ones.
initMemory(regions, init, addr) ==
    FoldLeft(LAMBDA acc, leaf :
                 [regions |-> IF leaf.kind = "undef" THEN acc.regions
                              ELSE Added(acc.regions, acc.at, Len(leaf.bytes)),
                  at |-> acc.at + Len(leaf.bytes)],
             [regions |-> regions, at |-> addr], init).regions

GlobalRegions(p) ==
    FoldLeftDomain(LAMBDA regions, k :
                       IF p.globals[k].external THEN regions
                       ELSE initMemory(regions, p.globals[k].init, GlobalAt(p, k)),
                   {}, p.globals)

\* The array has room for every argument of the run; each string is followed by a gap.
PtrSize == LaneBytes(PtrType)
ArgvAt(p) == GlobalAt(p, Len(p.globals) + 1)
ArgCount(p) == Len(p.known) + p.unknown
StringAt(p, i) == ArgvAt(p) + (ArgCount(p) + 1) * PtrSize + (i - 1) * p.room

\* ArgvArray::reset stores and tracks the known arguments and the null behind them.
ArgvRegions(p) ==
    LET slots == FoldLeftDomain(
                     LAMBDA regions, i :
                         Added(Added(regions, ArgvAt(p) + (i - 1) * PtrSize, PtrSize),
                               StringAt(p, i), Len(p.known[i]) + 1),
                     {}, p.known)
    IN Added(slots, ArgvAt(p) + Len(p.known) * PtrSize, PtrSize)

Put(mem, addr, bytes) ==
    [x \in DOMAIN mem |-> IF x \in addr..(addr + Len(bytes) - 1) THEN bytes[x - addr + 1] ELSE mem[x]]
WithGlobals(p, mem) ==
    FoldLeftDomain(LAMBDA m, k : Put(m, GlobalAt(p, k), BytesOf(p.globals[k].init)), mem, p.globals)
WithArguments(p, args, mem) ==
    FoldLeftDomain(LAMBDA m, i : Put(StoreTo(m, ArgvAt(p) + (i - 1) * PtrSize, <<StringAt(p, i)>>, PtrType),
                                     StringAt(p, i), args[i] \o <<0>>),
                   mem, args)
Blank == [x \in Addresses |-> 0]

Loaded(p) ==
    p @@ [address |-> [s \in {p.globals[k].name : k \in DOMAIN p.globals} |->
                           GlobalAt(p, CHOOSE k \in DOMAIN p.globals : p.globals[k].name = s)]
                      @@ FunctionAddress]

Init ==
    \E p \in Programs :
        /\ module = Loaded(p)
        /\ phase = "constructors" /\ running = FALSE /\ pending = p.ctors
        /\ stack = <<>>
        /\ host = WithArguments(p, p.known, WithGlobals(p, Blank))
        /\ tracked = [globals |-> GlobalRegions(p), params |-> {}, mallocs |-> {}]
        /\ brk = StringAt(p, ArgCount(p) + 1)
        /\ visited = {} /\ handlers = <<>> /\ stopped = FALSE
        /\ path = <<>> /\ steps = 0 /\ lost = {}

\* runFunction drops the arguments that the function does not take.
CallTop(fun, args) ==
    /\ stack' = Append(stack, NewFrame(fun, SubSeq(args, 1, Len(module.funs[fun].params))))
    /\ path' = Append(path, module.funs[fun].blocks[1])
    /\ running' = TRUE

RunConstructor ==
    /\ phase = "constructors" /\ ~running /\ pending # <<>>
    /\ CallTop(Head(pending), <<>>)
    /\ pending' = Tail(pending)
    /\ lost' = lost \cup (IF stopped THEN {"constructor"} ELSE {})
    /\ UNCHANGED <<module, phase, memory, visited, handlers, stopped, steps>>

\* argc counts the unknown arguments, argv holds the known ones only.
prepareArgumentsForMain == << <<ArgCount(module)>>, <<ArgvAt(module)>> >>

RunMain ==
    /\ phase = "constructors" /\ ~running /\ pending = <<>>
    /\ CallTop("main", prepareArgumentsForMain)
    /\ phase' = "main"
    /\ tracked' = [tracked EXCEPT !.params = ArgvRegions(module)]
    /\ lost' = lost \cup (IF stopped THEN {"constructor"} ELSE {})
    /\ UNCHANGED <<module, pending, host, brk, visited, handlers, stopped, steps>>

-----------------------------------------------------------------------------
(* Interpreter::run: one instruction, and the end of the loop.  Once       *)
(* StopExecution is set every later run ends after its first instruction.  *)

Visit(ops) ==
    /\ running /\ stack # <<>> /\ steps < MaxSteps
    /\ Ins.op \in ops
    /\ visited' = visited \cup {Top.blk}

Ended == running' = (~stopped' /\ stack' # <<>>)

Next1(newStack) ==
    /\ stack' = newStack /\ steps' = steps + 1
    /\ UNCHANGED <<module, phase, pending, stopped>>
    /\ Ended

\* A visitor that only computes a value.
Compute(v) ==
    /\ Next1(WithTop(Stepped(Assigned(Top, Ins.dst, v))))
    /\ UNCHANGED <<memory, handlers, path>>

Crash ==
    /\ phase' = "crashed" /\ running' = FALSE
    /\ UNCHANGED <<module, pending, stack, memory, handlers, stopped, path, steps>>

Stop ==
    /\ stopped' = TRUE /\ running' = FALSE
    /\ UNCHANGED <<module, phase, pending, stack, memory, handlers, path, steps, lost>>

\* argv ends with the known arguments: where a run has the first unknown one, the
\* interpreter reads a null pointer.  And an argument that is called known may be another
\* one in a run.
FalseNull(v) == module.unknown > 0 /\ v = <<0>>
FalseBytes ==
    UNION {StringAt(module, i)..(StringAt(module, i + 1) - 1) :
              i \in {i \in DOMAIN module.known : module.known[i] # module.actual[i]}}
Misread(addr, size) == IF addr..(addr + size - 1) \cap FalseBytes = {} THEN {} ELSE {"argv"}

\* The operands are read even when one of them was found to be unknown: what is read
\* then is memory that holds no value.
visitBinaryOperator ==
    /\ Visit(BinaryOps)
    /\ IF AllKnown
       THEN Compute(BinaryOperator(Ins.op, Operand(1), Operand(2), Ins.type)) /\ UNCHANGED lost
       ELSE /\ lost' = lost \cup {"garbage"}
            /\ \/ Crash
               \/ \E x \in 0..1 : Compute([i \in 1..Ins.type.lanes |-> x])

visitShift ==
    /\ Visit(Shifts)
    /\ Compute(IF ~AllKnown THEN Unknown
               ELSE CASE Ins.op = "shl" -> shl(Operand(1), Operand(2), Ins.type)
                      [] Ins.op = "lshr" -> lshr(Operand(1), Operand(2), Ins.type)
                      [] Ins.op = "ashr" -> ashr(Operand(1), Operand(2), Ins.type))
    /\ UNCHANGED lost

Compared == IF AllKnown THEN executeCmpInst(Ins.pred, Operand(1), Operand(2), Ins.from) ELSE Unknown

visitICmpInst ==
    /\ Visit({"cmp"}) /\ Ins.pred \notin FloatPredicates
    /\ Compute(Compared)
    /\ lost' = lost \cup (IF Ins.from.kind = "ptr" /\ \E i \in 1..2 : FalseNull(Operand(i)) THEN {"argv"} ELSE {})

visitFCmpInst ==
    /\ Visit({"cmp"}) /\ Ins.pred \in FloatPredicates
    /\ Compute(Compared)
    /\ UNCHANGED lost

\* A scalar condition that is known chooses an operand, which may be unknown.
visitSelectInst ==
    /\ Visit({"select"})
    /\ Compute(IF Operand(1) = Unknown THEN Unknown
               ELSE IF Ins.from.lanes > 1 /\ ~AllKnown THEN Unknown
               ELSE executeSelectInst(Operand(1), Operand(2), Operand(3)))
    /\ UNCHANGED lost

visitCast ==
    /\ Visit(Casts)
    /\ Compute(IF AllKnown THEN executeCast(Ins.op, Operand(1), Ins.from, Ins.type) ELSE Unknown)
    /\ lost' = lost \cup (IF Ins.op = "ptrtoint" /\ AllKnown THEN {"address"} ELSE {})

visitGetElementPtrInst ==
    /\ Visit({"gep"})
    /\ Compute(IF AllKnown THEN GEPAddress(Operand(1), Tail(Operands), Ins.scale, Ins.from.bits)
               ELSE Unknown)
    /\ UNCHANGED lost

VectorOps == {"extractelement", "insertelement", "shufflevector", "extractvalue", "insertvalue"}
visitAggregate ==
    /\ Visit(VectorOps)
    /\ Compute(IF ~AllKnown THEN Unknown
               ELSE CASE Ins.op = "extractelement" -> extractElement(Operand(1), Operand(2)[1])
                      [] Ins.op = "insertelement" -> insertElement(Operand(1), Operand(2), Operand(3)[1])
                      [] Ins.op = "shufflevector" -> shuffleVector(Operand(1), Operand(2), Operand(3))
                      [] Ins.op = "extractvalue" -> extractValue(Operand(1), Ins.scale[1])
                      [] Ins.op = "insertvalue" -> insertValue(Operand(1), Operand(2), Ins.scale[1]))
    /\ UNCHANGED lost

\* The list va_start should fill is left as it is: va_arg takes the address of the
\* list for a pair of a stack depth and an index, outside of any stack.
visitVAStart ==
    /\ Visit({"va_start", "va_copy", "va_end"})
    /\ Compute(Unknown)
    /\ lost' = lost \cup (IF Ins.op = "va_end" THEN {} ELSE {"va_start"})

visitVAArgInst ==
    /\ Visit({"va_arg"})
    /\ IF AllKnown THEN Crash /\ lost' = lost \cup {"va_arg"} ELSE Compute(Unknown) /\ UNCHANGED lost

-----------------------------------------------------------------------------
(* Terminators.                                                            *)

Jump(dest) ==
    /\ Next1(WithTop(SwitchToNewBasicBlock(Top, dest)))
    /\ path' = Append(path, dest)
    /\ UNCHANGED <<memory, handlers, lost>>

visitBranchInst ==
    /\ Visit({"br"})
    /\ IF Len(Ins.to) = 1 THEN Jump(Ins.to[1])
       ELSE IF Operand(1) = Unknown THEN Stop
       ELSE Jump(IF Operand(1)[1] = 0 THEN Ins.to[2] ELSE Ins.to[1])

\* The first successor is the default, the others go with the cases.
visitSwitchInst ==
    /\ Visit({"switch"})
    /\ IF Operand(1) = Unknown THEN Stop
       ELSE LET hits == {k \in 2..Len(Ins.args) : executeICMP_EQ(Operand(1)[1], Operand(k)[1])}
            IN Jump(IF hits = {} THEN Ins.to[1] ELSE Ins.to[CHOOSE k \in hits : \A j \in hits : k <= j])

visitIndirectBrInst ==
    /\ Visit({"indirectbr"})
    /\ IF Operand(1) = Unknown THEN Stop ELSE Jump(Ins.to[Operand(1)[1]])

visitUnreachableInst ==
    /\ Visit({"unreachable"})
    /\ Crash /\ UNCHANGED lost

\* Back in the caller: the call gets its value, an invoke goes on in its normal block.
ReturnedTo(f, v) ==
    LET call == module.code[f.blk][f.pc]
        g == Assigned(f, call.dst, v)
    IN IF call.op = "invoke" THEN SwitchToNewBasicBlock(g, call.to[1]) ELSE Stepped(g)
PathAfter(f) ==
    LET call == module.code[f.blk][f.pc]
    IN IF call.op = "invoke" THEN Append(path, call.to[1]) ELSE path

\* A frame pushed on an interrupted one has no call to return to.
visitReturnInst ==
    /\ Visit({"ret"})
    /\ LET v == IF Ins.args = <<>> THEN Unknown ELSE Operand(1)
           rest == Front(stack)
       IN IF rest = <<>> \/ module.code[Last(rest).blk][Last(rest).pc].op \notin {"call", "invoke"}
          THEN Next1(rest) /\ UNCHANGED path
          ELSE /\ Next1(Append(Front(rest), ReturnedTo(Last(rest), v)))
               /\ path' = PathAfter(Last(rest))
    /\ UNCHANGED <<memory, handlers, lost>>

-----------------------------------------------------------------------------
(* Memory.                                                                 *)

visitAllocaInst ==
    /\ Visit({"alloca"})
    /\ LET n == Operand(1)[1] * Ins.scale[1]
       IN IF Operand(1) = Unknown THEN Next1(WithTop(Stepped(Assigned(Top, Ins.dst, Unknown))))
          ELSE Next1(WithTop([Stepped(Assigned(Top, Ins.dst, <<brk>>)) EXCEPT
                                  !.allocas = Added(@, brk, IF n = 0 THEN 1 ELSE n)]))
    /\ brk' = brk + Slot
    /\ UNCHANGED <<host, tracked, handlers, path, lost>>

visitMallocInst ==
    /\ Visit({"malloc"})
    /\ Next1(WithTop(Stepped(Assigned(Top, Ins.dst, IF AllKnown THEN <<brk>> ELSE Unknown))))
    /\ tracked' = [tracked EXCEPT !.mallocs = IF AllKnown THEN Added(@, brk, Operand(1)[1]) ELSE @]
    /\ brk' = brk + Slot
    /\ UNCHANGED <<host, handlers, path, lost>>

ExternalGlobal(addr) ==
    \E k \in DOMAIN module.globals : module.globals[k].external /\ GlobalAt(module, k) = addr
visitLoadInst ==
    /\ Visit({"load"})
    /\ LET p == Operand(1)
           reads == p # Unknown /\ (DirectGlobal(Ins.args[1]) \/ isAllocatedMemory(p[1]))
       IN /\ Compute(IF reads THEN LoadFrom(host, p[1], Ins.type) ELSE Unknown)
          /\ lost' = lost \cup (IF reads /\ ExternalGlobal(p[1]) THEN {"host"} ELSE {})
                          \cup (IF reads THEN Misread(p[1], Size(Ins.type)) ELSE {})

\* A store that is not made leaves what was in memory before.
visitStoreInst ==
    /\ Visit({"store"})
    /\ LET v == Operand(1)
           p == Operand(2)
           skipped == IF v = Unknown THEN "unknown value"
                      ELSE IF p = Unknown THEN "unknown pointer"
                      ELSE IF ~DirectGlobal(Ins.args[2]) /\ ~isAllocatedMemory(p[1]) THEN "untracked"
                      ELSE "no"
       IN /\ host' = IF skipped = "no" THEN StoreTo(host, p[1], v, Ins.from) ELSE host
          /\ lost' = IF skipped = "no" THEN lost ELSE lost \cup {skipped}
    /\ Next1(WithTop(Stepped(Top)))
    /\ UNCHANGED <<tracked, brk, handlers, path>>

-----------------------------------------------------------------------------
(* Calls.                                                                  *)

Callee == IF Ins.sym # "none" THEN Ins.sym
          ELSE CHOOSE f \in DOMAIN FunctionAddress : FunctionAddress[f] = Operand(1)[1]
Arguments == IF Ins.sym # "none" THEN Operands ELSE Tail(Operands)
CalleeKnown == Ins.sym = "none" => Operand(1) # Unknown

\* Debug intrinsics are skipped; others are lowered in place and visited again.
visitIntrinsic ==
    /\ Visit({"dbg", "intrinsic"})
    /\ IF Ins.op = "dbg"
       THEN Compute(Unknown)
       ELSE /\ module' = [module EXCEPT !.code[Top.blk][Top.pc].op = "call"]
            /\ UNCHANGED <<control, stack, memory, handlers, path, steps>>
    /\ UNCHANGED lost

visitUnknownCall ==
    /\ Visit({"call", "invoke"}) /\ ~CalleeKnown
    /\ Stop

\* callFunction on a function of the program.
visitCallSite ==
    /\ Visit({"call", "invoke"}) /\ CalleeKnown /\ Callee \in DOMAIN module.funs
    /\ Next1(Append(stack, NewFrame(Callee, Arguments)))
    /\ path' = Append(path, module.funs[Callee].blocks[1])
    /\ UNCHANGED <<memory, handlers, lost>>

\* popStackAndReturnValueToCaller after an external call.
ReturnExternal(v, why) ==
    /\ Next1(WithTop(ReturnedTo(Top, v)))
    /\ path' = PathAfter(Top)
    /\ lost' = lost \cup why
    /\ UNCHANGED <<tracked, brk>>

External == CalleeKnown /\ Callee \notin DOMAIN module.funs
Kind == module.external[Callee]
ArgumentsKnown == \A i \in DOMAIN Arguments : Arguments[i] # Unknown
\* Functions whose only effect is their result.
Pure == {"pure", "env"}
Wrapped == {"atexit", "abort", "printf", "memset", "memcpy", "fgets"}

\* exit is not called, and the program goes on behind it.
callExit ==
    /\ Visit({"call", "invoke"}) /\ External /\ Kind = "exit"
    /\ ReturnExternal(Unknown, {"exit"})
    /\ UNCHANGED <<host, handlers>>

\* With an unknown argument, or without FFI and a wrapper, the call has no effect.
callSkipped ==
    /\ Visit({"call", "invoke"}) /\ External /\ Kind # "exit"
    /\ ~ArgumentsKnown \/ (~module.ffi /\ Kind \notin Wrapped)
    /\ ReturnExternal(Unknown, IF Kind \in Pure THEN {} ELSE {"no effect"})
    /\ UNCHANGED <<host, handlers>>

StringLength(mem, addr) == CHOOSE n \in 0..MemorySize : mem[addr + n] = 0 /\ \A i \in 0..(n - 1) : mem[addr + i] # 0
Percent == 2^ByteBits - 1
Conversions(mem, addr) == Cardinality({i \in 0..(StringLength(mem, addr) - 1) : mem[addr + i] = Percent})

lle_X_atexit ==
    /\ handlers' = Append(handlers, CHOOSE f \in DOMAIN FunctionAddress : FunctionAddress[f] = Arguments[1][1])
    /\ ReturnExternal(<<0>>, {})
    /\ UNCHANGED host

\* The result is the length of the format, whatever is printed.
lle_X_printf ==
    LET format == Arguments[1][1]
    IN /\ ReturnExternal(<<StringLength(host, format)>>,
                         (IF Conversions(host, format) = 0 THEN {} ELSE {"printf"}) \cup Misread(format, 1))
       /\ UNCHANGED <<host, handlers>>

lle_X_memset ==
    LET a == Arguments
    IN /\ host' = [x \in Addresses |-> IF x \in a[1][1]..(a[1][1] + a[3][1] - 1)
                                       THEN a[2][1] % 2^ByteBits ELSE host[x]]
       /\ ReturnExternal(<<0>>, {})
       /\ UNCHANGED handlers

lle_X_memcpy ==
    LET a == Arguments
    IN /\ host' = [x \in Addresses |-> IF x \in a[1][1]..(a[1][1] + a[3][1] - 1)
                                       THEN host[a[2][1] + x - a[1][1]] ELSE host[x]]
       /\ ReturnExternal(<<0>>, Misread(a[2][1], a[3][1]))
       /\ UNCHANGED handlers

\* "Returning an unknown value", it prints, and returns a default one.
lle_X_fgets ==
    /\ ReturnExternal(<<0>>, {"fgets"})
    /\ UNCHANGED <<host, handlers>>

\* The wrappers: abort raises a signal in the optimizer.
callWrapped ==
    /\ Visit({"call", "invoke"}) /\ External /\ ArgumentsKnown /\ Kind \in Wrapped
    /\ \/ Kind = "atexit" /\ lle_X_atexit
       \/ Kind = "abort" /\ Crash /\ UNCHANGED lost
       \/ Kind = "printf" /\ lle_X_printf
       \/ Kind = "memset" /\ lle_X_memset
       \/ Kind = "memcpy" /\ lle_X_memcpy
       \/ Kind = "fgets" /\ lle_X_fgets

\* Anything else is called with FFI, in the optimizer's process: a pure function reads
\* the string it is given, another one asks or changes the environment of the optimizer,
\* and variadic functions cannot be called.
callFFI ==
    /\ Visit({"call", "invoke"}) /\ External /\ ArgumentsKnown /\ module.ffi
    /\ \/ /\ Kind = "pure"
          /\ IF Arguments[1] = <<0>> THEN Crash /\ UNCHANGED lost
             ELSE /\ ReturnExternal(<<StringLength(host, Arguments[1][1])>>, Misread(Arguments[1][1], 1))
                  /\ UNCHANGED <<host, handlers>>
       \/ /\ Kind = "env"
          /\ ReturnExternal(<<0>>, {"host"})
          /\ UNCHANGED <<host, handlers>>
       \/ /\ Kind = "reads"
          /\ host' = [host EXCEPT ![Arguments[1][1]] = 0]
          /\ ReturnExternal(<<1>>, {"host"})
          /\ UNCHANGED handlers
       \/ Kind = "variadic" /\ Crash /\ UNCHANGED lost

Interpret ==
    \/ RunConstructor \/ RunMain
    \/ visitBinaryOperator \/ visitShift \/ visitICmpInst \/ visitFCmpInst \/ visitSelectInst \/ visitCast
    \/ visitGetElementPtrInst \/ visitAggregate \/ visitVAStart \/ visitVAArgInst
    \/ visitBranchInst \/ visitSwitchInst \/ visitIndirectBrInst \/ visitUnreachableInst \/ visitReturnInst
    \/ visitAllocaInst \/ visitMallocInst \/ visitLoadInst \/ visitStoreInst
    \/ visitIntrinsic \/ visitUnknownCall \/ visitCallSite
    \/ callExit \/ callSkipped \/ callWrapped \/ callFFI
=============================================================================
