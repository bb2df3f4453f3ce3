--------------------------- MODULE MCConfigPrime ---------------------------
(***************************************************************************)
(* Programs for the model checker: families of small ones, a choice of     *)
(* operators, operands and arguments each.                                 *)
(***************************************************************************)
EXTENDS ConfigPrime

SomeRegisters ==
    {"argc", "argv", "new_argv", "slot", "result", "match", "more", "new_argc", "size", "t1", "t2", "o1",
     "a1", "a2", "arg", "p", "q", "u", "x", "y", "z", "c"}
    \cup {"r" \o ToString(i) : i \in 1..20}
SomeAddresses == "f" :> 60 @@ "g" :> 61 @@ "h" :> 62 @@ "ask" :> 63 @@ "end" :> 64

I3 == IntType(3)          \* also the narrow type of an index; Word is the wide one
I1 == IntType(1)
F3 == FloatType(3)
ByteType == IntType(ByteBits)
R(i) == "r" \o ToString(i)
Ret(o) == Inst("ret", Word, NoRegister, <<o>>)
Branch(c, yes, no) == [Inst("br", Word, NoRegister, <<c>>) EXCEPT !.to = <<yes, no>>]
Cmp(pred, type, dst, a, b) == [Inst("cmp", I1, dst, <<a, b>>) EXCEPT !.pred = pred, !.from = type]
Cast(op, dst, a, from, to) == [Inst(op, to, dst, <<a>>) EXCEPT !.from = from]
Load(type, dst, p) == Inst("load", type, dst, <<p>>)
Store(type, v, p) == Inst("store", type, NoRegister, <<v, p>>)
Lanes(v) == [kind |-> "const", value |-> v]
Expr(i) == [kind |-> "expr"] @@ i
Alloca(dst, n) == [Inst("alloca", PtrType, dst, <<Const(n)>>) EXCEPT !.scale = <<1>>]
Global(name, type, init) == [name |-> name, type |-> type, external |-> FALSE, init |-> init]
Data(bytes) == [kind |-> "data", bytes |-> bytes]

External1 == [exit |-> "exit", abort |-> "abort", atexit |-> "atexit", printf |-> "printf", memset |-> "memset",
              memcpy |-> "memcpy", fgets |-> "fgets", strlen |-> "pure", ask |-> "env", read |-> "reads",
              open |-> "variadic"]
Fun(params, blocks) == [params |-> params, blocks |-> blocks]
Program(blocks, code) ==
    [funs |-> [main |-> Fun(<<"argc", "argv">>, blocks)], external |-> External1, globals |-> <<>>,
     ctors |-> <<>>, dtors |-> <<>>, code |-> code, known |-> << <<1>> >>, unknown |-> 0,
     actual |-> << <<1>> >>, strings |-> {<<>>, <<1>>}, room |-> 2, ffi |-> FALSE, lifted |-> "no", manifest |-> <<>>]

\* Everything is computed, and then a branch is unknown: the states are compared there.
Stopping(code) ==
    Program(<<"m0", "m1">>,
            "m0" :> code \o <<CallOf("u", "ask", <<>>), Branch(Reg("u"), "m1", "m1")>>
            @@ "m1" :> <<Ret(Const(0))>>)
\* The k-th instruction leaves its result in the k-th register.
Numbered(code) == [k \in DOMAIN code |-> [code[k] EXCEPT !.dst = R(k)]]
IntegerList == <<"add", "sub", "mul", "and", "or", "xor", "udiv", "sdiv", "urem", "srem">>

Integers1(x, y) ==
    LET ops == SubSeq(IntegerList, 1, IF y = 0 THEN 6 ELSE 10)
               \o (IF y < 3 THEN <<"shl", "lshr", "ashr">> ELSE <<>>)
        code == [k \in DOMAIN ops |-> Inst(ops[k], I3, "x", <<Const(x), Const(y)>>)]
    IN {Stopping(Numbered(code)),
        Stopping(Numbered([k \in DOMAIN code |-> Cast("zext", "x", Expr(code[k]), I3, IntType(6))]))}
Comparisons(x, y) ==
    LET preds == <<"eq", "ne", "ult", "ugt", "ule", "uge", "slt", "sgt", "sle", "sge">>
    IN {Stopping(Numbered([k \in DOMAIN preds |-> Cmp(preds[k], type, "x", Const(x), Const(y))])) :
           type \in {I3} \cup (IF x < 4 /\ y < 4 THEN {PtrType} ELSE {})}
Floats(x, y) ==
    LET preds == <<"oeq", "olt", "ogt", "ole", "oge", "one", "ueq", "une", "fult", "fugt", "fule", "fuge",
                  "ord", "uno", "true", "false">>
        ops == <<"fadd", "fsub", "fmul", "fdiv", "frem">>
    IN {Stopping(Numbered([k \in DOMAIN preds |-> Cmp(preds[k], F3, "x", Const(x), Const(y))])),
        Stopping(Numbered([k \in DOMAIN ops |-> Inst(ops[k], F3, "x", <<Const(x), Const(y)>>)]
                          \o <<Cast("fpext", "x", Const(x), F3, FloatType(6)),
                               Cast("fptrunc", "x", Const(8 * x + y), FloatType(6), F3),
                               Cast("uitofp", "x", Const(x), I3, F3),
                               Cast("sitofp", "x", Const(x), I3, FloatType(6))>>
                          \o (IF x < 4 THEN <<Cast("fptoui", "x", Const(x), F3, I3)>> ELSE <<>>)
                          \o (IF x # 4 THEN <<Cast("fptosi", "x", Const(x), F3, IntType(6))>> ELSE <<>>)))}
Vectors(x, y) ==
    LET v == <<x, y>>
        w == <<y, 7 - x>>
    IN {Stopping(Numbered(
            <<Cast("trunc", "x", Const(8 * x + y), IntType(6), I3), Cast("sext", "x", Const(x), I3, IntType(6)),
              Cast("zext", "x", Const(x), I3, IntType(6)),
              Cast("bitcast", "x", Lanes(v), Vec(I3, 2), IntType(6)),
              Cast("bitcast", "x", Const(8 * x + y), FloatType(6), Vec(I3, 2)),
              Inst("sub", Vec(I3, 2), "x", <<Lanes(v), Lanes(w)>>),
              Cmp("slt", Vec(I3, 2), "x", Lanes(v), Lanes(w)),
              [Inst("select", Vec(I3, 2), "x", <<Reg("r7"), Lanes(v), Lanes(w)>>) EXCEPT !.from = Vec(I1, 2)],
              [Inst("select", Vec(I3, 2), "x", <<Const(x % 2), Lanes(v), Lanes(w)>>) EXCEPT !.from = I1],
              Inst("extractelement", I3, "x", <<Lanes(v), Const(y % 2)>>),
              Inst("insertelement", Vec(I3, 2), "x", <<Lanes(v), Const(7), Const(y % 2)>>),
              Inst("shufflevector", Vec(I3, 3), "x", <<Lanes(v), Lanes(w), Lanes(<<x % 4, 3, y % 4>>)>>),
              [Inst("extractvalue", I3, "x", <<Lanes(v)>>) EXCEPT !.scale = <<x % 2>>],
              [Inst("insertvalue", Vec(I3, 2), "x", <<Lanes(v), Const(5)>>) EXCEPT !.scale = <<x % 2>>],
              [Inst("gep", PtrType, "x", <<Const(20), Const(x), Const(y)>>) EXCEPT !.scale = <<2, 1>>, !.from = I3]>>))}

Operations ==
    UNION {Integers1(x, y) \cup Comparisons(x, y) \cup Floats(x, y) \cup Vectors(x, y) : x \in 0..7, y \in 0..7}

-----------------------------------------------------------------------------
(* Memory: a byte is written in a place, passed to f, and read again.      *)

StructGlobal == <<Global("G", Vec(ByteType, 2), <<Data(<<3>>), Data(<<3>>)>>)>>
Globals1 == <<Global("G", ByteType, <<Data(<<3>>)>>), Global("H", ByteType, <<[kind |-> "undef", bytes |-> <<0>>]>>),
              [Global("E", ByteType, <<Data(<<2>>)>>) EXCEPT !.external = TRUE]>>
At(dst, base, n) == [Inst("gep", PtrType, dst, <<base, Const(n)>>) EXCEPT !.scale = <<1>>, !.from = Word]

\* Where p points to: the place, directly or through a computation.
Places ==
    {<<Alloca("p", 2)>>, <<Inst("malloc", PtrType, "p", <<Const(2)>>)>>, <<Alloca("q", 2), At("p", Reg("q"), 1)>>,
     <<At("p", Sym("G"), 0)>>, <<At("p", Sym("H"), 0)>>, <<At("p", Sym("E"), 0)>>,
     <<CallOf("u", "ask", <<>>), Alloca("q", 1), Inst("select", PtrType, "p", <<Reg("u"), Reg("q"), Sym("G")>>)>>,
     <<CallOf("u", "ask", <<>>), Inst("malloc", PtrType, "p", <<Reg("u")>>)>>,
     <<CallOf("u", "ask", <<>>), Inst("add", Word, "size", <<Const(1), Const(0)>>), [Alloca("p", 1) EXCEPT !.args = <<Reg("size")>>]>>}

Memory ==
    {[Program(<<"m0", "m1", "m2", "m3">>,
              [m0 |-> place \o value
                      \o <<Store(ByteType, Reg("x"), Reg("p")), CallOf("z", "f", <<Reg("p"), Reg("x")>>),
                           Load(ByteType, "y", Reg("p")), Load(ByteType, "r1", Sym("G")),
                           Cmp("eq", ByteType, "c", Reg("y"), Reg("z")), Branch(Reg("c"), "m1", "m2")>>,
               m1 |-> <<Load(ByteType, "r2", Sym("G")), Cmp("eq", ByteType, "c", Reg("r2"), Reg("r1")),
                        Branch(Reg("c"), "m2", "m3")>>,
               m2 |-> <<Ret(Const(0))>>, m3 |-> <<Load(ByteType, "r3", Sym("G")), Ret(Reg("r3"))>>, f0 |-> body])
      EXCEPT !.funs = [main |-> @.main, f |-> Fun(<<"q", "a1">>, <<"f0">>)],
             !.globals = globals] :
        place \in Places, globals \in {Globals1, StructGlobal \o Tail(Globals1)},
        value \in {<<Inst("add", ByteType, "x", <<Const(4), Const(1)>>)>>, <<CallOf("x", "ask", <<>>)>>},
        body \in {<<Store(ByteType, Const(2), Reg("q")), Ret(Const(2))>>,
                  <<Load(ByteType, "arg", Reg("q")), Ret(Reg("arg"))>>,
                  <<Store(ByteType, Const(4), Sym("G")), Store(ByteType, Reg("a1"), Sym("G")), Ret(Const(5))>>}}

-----------------------------------------------------------------------------
(* Calls: of an external function, or of one of the program, and a branch  *)
(* on the result.                                                          *)

Text == Global("T", Vec(ByteType, 3), <<Data(<<1, Percent, 0>>)>>)
Plain == Global("P", Vec(ByteType, 3), <<Data(<<1, 1, 0>>)>>)
CallGlobals == <<Text, Plain, Global("G", ByteType, <<Data(<<3>>)>>)>>
Invoke(dst, f, args, to) == [CallOf(dst, f, args) EXCEPT !.op = "invoke", !.to = to]
Indirect(dst, v, args) == [CallOf(dst, "none", <<v>> \o args) EXCEPT !.sym = "none"]

WithCallees(p, ffi) ==
    [p EXCEPT !.funs = [main |-> @.main, f |-> Fun(<<"q">>, <<"f0">>), h |-> Fun(<<>>, <<"h0">>)],
              !.code = @ @@ [f0 |-> <<Store(ByteType, Const(6), Sym("G")), Ret(Reg("q"))>>,
                             h0 |-> <<Load(ByteType, "x", Sym("G")), Store(ByteType, Reg("x"), Sym("P")), Ret(Const(0))>>],
              !.globals = CallGlobals, !.ffi = ffi]
Calling(call) ==
    <<call, Cmp("eq", ByteType, "c", Reg("z"), Const(0))>>
SomeCalls ==
    {CallOf("z", "exit", <<Const(0)>>), CallOf("z", "abort", <<>>), CallOf("z", "atexit", <<Sym("h")>>),
     CallOf("z", "printf", <<Sym("T")>>), CallOf("z", "printf", <<Sym("P")>>),
     CallOf("z", "memset", <<Sym("G"), Const(0), Const(1)>>), CallOf("z", "memset", <<Reg("u"), Const(0), Const(1)>>),
     CallOf("z", "memcpy", <<Sym("T"), Sym("P"), Const(2)>>), CallOf("z", "fgets", <<Sym("P")>>),
     CallOf("z", "strlen", <<Sym("P")>>), CallOf("z", "strlen", <<Reg("p")>>), CallOf("z", "ask", <<>>),
     CallOf("z", "read", <<Sym("P")>>), CallOf("z", "open", <<Sym("P")>>),
     CallOf("z", "f", <<Const(1)>>), CallOf("z", "f", <<Reg("u")>>),
     Indirect("z", Sym("f"), <<Const(0)>>), Indirect("z", Reg("r2"), <<Const(0)>>), Indirect("z", Sym("ask"), <<>>),
     [CallOf("z", "memset", <<Sym("G"), Const(1), Const(1)>>) EXCEPT !.op = "intrinsic"],
     Inst("dbg", Word, NoRegister, <<>>)}
Calls ==
    {WithCallees(Program(<<"m0", "m1", "m2">>,
                         [m0 |-> <<CallOf("u", "ask", <<>>), Cast("inttoptr", "p", Const(0), Word, PtrType),
                                   Inst("select", PtrType, "r2", <<Reg("u"), Sym("f"), Sym("h")>>)>>
                                 \o Calling(call) \o <<Branch(Reg("c"), "m1", "m2")>>,
                          m1 |-> <<Load(ByteType, "r1", Sym("G")), Ret(Reg("r1"))>>,
                          m2 |-> <<Load(ByteType, "r1", Sym("T")), Ret(Reg("r1"))>>]), ffi) :
        call \in SomeCalls, ffi \in BOOLEAN}
    \cup
    {WithCallees(Program(<<"m0", "m1", "m2", "m3", "m4">>,
                         [m0 |-> <<Invoke("z", f, <<Const(k)>>, <<"m1", "m2">>)>>,
                          m1 |-> <<[Inst("phi", Word, "x", <<Reg("z")>>) EXCEPT !.to = <<"m0">>],
                                   [Inst("switch", Word, NoRegister, <<Reg("x"), Const(7), Const(1)>>)
                                        EXCEPT !.to = <<"m2", "m3", "m4">>]>>,
                          m2 |-> <<Ret(Const(0))>>,
                          m3 |-> <<[Inst("indirectbr", Word, NoRegister, <<Const(1)>>) EXCEPT !.to = <<"m2">>]>>,
                          m4 |-> last]), FALSE) :
        f \in {"f", "ask"}, k \in {1, 7},
        last \in {<<Inst("unreachable", Word, NoRegister, <<>>)>>, <<Goto("m2")>>,
                  <<CallOf("u", "ask", <<>>), Inst("select", Word, "y", <<Reg("u"), Const(1), Const(1)>>),
                    [Inst("indirectbr", Word, NoRegister, <<Reg("y")>>) EXCEPT !.to = <<"m2">>]>>}}

-----------------------------------------------------------------------------
(* Arguments: main looks at each one, as a loop over options does, with a  *)
(* counter and a flag in globals, and at one of them afterwards.           *)

Scan == [s0 |-> <<Store(ByteType, Const(2), Sym("G")), Load(ByteType, "r5", Sym("G")), Goto("s1")>>,
         s1 |-> <<[Inst("phi", Word, "t1", <<Const(1), Reg("t2")>>) EXCEPT !.to = <<"s0", "s5">>],
                  [Inst("phi", Word, "z", <<Const(0), Reg("t1")>>) EXCEPT !.to = <<"s0", "s5">>],
                  Cmp("slt", Word, "more", Reg("t1"), Reg("argc")), Branch(Reg("more"), "s2", "s6")>>,
         s2 |-> <<Element("slot", Reg("argv"), Reg("t1")), Load(PtrType, "arg", Reg("slot")),
                  Load(ByteType, "x", Reg("arg")), Cmp("eq", ByteType, "c", Reg("x"), Const(1)),
                  Branch(Reg("c"), "s3", "s4")>>,
         s3 |-> <<Load(ByteType, "r1", Sym("G")), Inst("add", ByteType, "r2", <<Reg("r1"), Const(1)>>),
                  Store(ByteType, Reg("r2"), Sym("G")), Goto("s5")>>,
         s4 |-> <<Cmp("eq", ByteType, "c", Reg("x"), Const(2)), Branch(Reg("c"), "s7", "s5")>>,
         s5 |-> <<Inst("add", Word, "t2", <<Reg("t1"), Const(1)>>), Goto("s1")>>,
         s6 |-> <<Load(ByteType, "r3", Sym("G")), Load(ByteType, "r4", Sym("P")),
                  Cmp("ugt", ByteType, "match", Reg("r3"), Reg("r4")), Branch(Reg("match"), "s7", "s8")>>,
         s7 |-> <<Ret(Const(0))>>,
         s8 |-> <<Store(ByteType, Const(1), Sym("P")), Ret(Const(1))>>]
Scanned == <<"s0", "s1", "s2", "s3", "s4", "s5", "s6", "s7", "s8">>
Options(known, unknown) ==
    [Program(Scanned, Scan) EXCEPT
        !.globals = <<Global("G", ByteType, <<Data(<<0>>)>>), Global("P", ByteType, <<Data(<<2>>)>>)>>,
        !.known = known, !.actual = known, !.unknown = unknown]

\* As slash runs it: what main has been given is in the code, and the interpreter is told of
\* no argument but an empty name.
Lifted(p, how, strings) == [p EXCEPT !.known = << <<>> >>, !.lifted = how, !.manifest = strings]
Arguments1 ==
    {Options(known, n) : known \in {<< <<1>> >>, << <<1>>, <<1>> >>, << <<1>>, <<2>> >>, << <<1>>, <<>> >>}, n \in 0..2}
    \cup {Lifted(SpecializeArguments(Options(<< <<1>> >>, 0), TRUE, strings), "fixed", strings) :
              strings \in {<< <<3>>, <<1>> >>, << <<3>>, <<1>>, <<2>> >>}}
    \cup {Lifted(SpecializeArguments(Options(<< <<1>> >>, 0), FALSE, strings), "unnamed", strings) :
              strings \in {<< <<1>> >>, << <<4>>, <<2>> >>}}
    \cup {Lifted(PartialArguments(Options(<< <<1>> >>, n), strings, n), "partial", strings) :
              strings \in {<< <<3>> >>, << <<3>>, <<1>> >>}, n \in 0..2}

-----------------------------------------------------------------------------
(* Around main: constructors, destructors, exit handlers, variadic calls,  *)
(* operations on unknown values, and a function that is entered twice.     *)

Around(ctor, dtor, handler, code) ==
    [Program(<<"m0", "m1", "m2">>,
             [m0 |-> handler \o code \o <<Cmp("eq", ByteType, "c", Reg("z"), Const(2)), Branch(Reg("c"), "m1", "m2")>>,
              m1 |-> <<Ret(Const(0))>>, m2 |-> <<CallOf("y", "f", <<Const(1)>>), Ret(Reg("y"))>>,
              k0 |-> <<Store(ByteType, Const(2), Sym("G")), CallOf("u", "ask", <<>>), Ret(Const(0))>>,
              k1 |-> <<CallOf("u", "ask", <<>>), Branch(Reg("u"), "k2", "k2")>>, k2 |-> <<Ret(Const(0))>>,
              f0 |-> <<Load(ByteType, "r1", Sym("G")), Store(ByteType, Reg("q"), Sym("G")),
                       Cmp("eq", ByteType, "match", Reg("q"), Const(1)), Branch(Reg("match"), "f1", "f2")>>,
              f1 |-> <<Load(ByteType, "r2", Sym("G")), CallOf("u", "ask", <<>>), Branch(Reg("u"), "f2", "f2")>>,
              f2 |-> <<Load(ByteType, "r3", Sym("G")), Ret(Reg("r3"))>>,
              v0 |-> <<Inst("va_start", Word, NoRegister, <<>>), Inst("va_arg", Word, "x", <<Reg("q")>>),
                       Inst("va_end", Word, NoRegister, <<>>), Ret(Reg("x"))>>])
     EXCEPT !.funs = [main |-> @.main, f |-> Fun(<<"q">>, <<"f0", "f1", "f2">>), k |-> Fun(<<>>, <<"k0">>),
                      asks |-> Fun(<<>>, <<"k1", "k2">>), h |-> Fun(<<>>, <<"k0">>), v |-> Fun(<<"q">>, <<"v0">>)],
            !.globals = <<Global("G", ByteType, <<Data(<<3>>)>>)>>, !.ctors = ctor, !.dtors = dtor]
Surroundings ==
    {Around(ctor, dtor, handler, code) :
        ctor \in {<<>>, <<"k">>, <<"asks">>, <<"asks", "k">>}, dtor \in {<<>>, <<"k">>},
        handler \in {<<>>, <<CallOf("result", "atexit", <<Sym("h")>>)>>},
        code \in {<<Load(ByteType, "z", Sym("G"))>>,
                  <<CallOf("z", "f", <<Const(2)>>)>>,
                  <<CallOf("u", "ask", <<>>), Inst("add", ByteType, "z", <<Reg("u"), Const(0)>>)>>,
                  <<CallOf("u", "ask", <<>>), Inst("shl", I3, "z", <<Reg("u"), Const(1)>>)>>,
                  <<CallOf("z", "v", <<Const(1), Const(2)>>)>>,
                  <<CallOf("u", "ask", <<>>), CallOf("z", "v", <<Reg("u"), Const(2)>>)>>}}

-----------------------------------------------------------------------------
(* A value that is not stored: the branch behind it reads what was there.  *)

Forgotten ==
    {[Program(<<"m0", "m1", "m2">>,
              [m0 |-> <<Store(ByteType, Const(3), Sym("G")), CallOf("u", "ask", <<>>),
                        Store(ByteType, Reg("u"), Sym("G")), Load(ByteType, "x", Sym("G")),
                        Cmp(pred, ByteType, "c", Reg("x"), Const(3)), Branch(Reg("c"), "m1", "m2")>>,
               m1 |-> <<Ret(Const(0))>>, m2 |-> <<Ret(Const(1))>>])
      EXCEPT !.globals = <<Global("G", ByteType, <<Data(<<0>>)>>)>>] : pred \in {"eq", "ult"}}

\* A server: the loop is left by exit only.
Endless ==
    {[Program(<<"m0", "m1", "m2">>,
              [m0 |-> <<CallOf("u", "ask", <<>>), Branch(Reg("u"), "m1", "m2")>>,
               m1 |-> <<CallOf("z", "exit", <<Const(0)>>), Goto("m0")>>,
               m2 |-> <<CallOf("z", "f", <<>>), Goto("m0")>>, f0 |-> <<Ret(Const(0))>>])
      EXCEPT !.funs = [main |-> Fun(<<"argc", "argv">>, <<"e0">> \o @.main.blocks), f |-> Fun(<<>>, <<"f0">>)],
             !.code = [e0 |-> <<Goto("m0")>>] @@ @]}

Everything == Operations \cup Memory \cup Calls \cup Arguments1 \cup Surroundings \cup Forgotten \cup Endless
=============================================================================
