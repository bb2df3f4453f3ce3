------------------------------- MODULE MCSccp -------------------------------
(***************************************************************************)
(* Modules for the model checker: families of small modules, one choice of *)
(* operands, operators and linkages each.                                  *)
(***************************************************************************)
EXTENDS Sccp, Bitwise

CONSTANTS pr, er, cr, c1, c2, xr, yr, zr, lr, kr, wr, rr, dr

I(op, dst, args, sym, to) == [op |-> op, dst |-> dst, args |-> args, sym |-> sym, to |-> to]
Op(op, dst, args) == I(op, dst, args, "none", <<>>)
LoadOf(dst, g) == I("load", dst, <<>>, g, <<>>)
StoreTo(g, v) == I("store", "none", <<v>>, g, <<>>)
CallTo(dst, f, args) == I("call", dst, args, f, <<>>)
Phi(dst, args, from) == I("phi", dst, args, "none", from)
Ret(v) == I("ret", "none", <<v>>, "none", <<>>)
Br(c, yes, no) == I("br", "none", <<c>>, "none", <<yes, no>>)
Jmp(to) == I("jmp", "none", <<>>, "none", <<to>>)
Switch(args, to) == I("switch", "none", args, "none", to)

Internal(n) == [internal |-> TRUE, taken |-> FALSE, constant |-> FALSE, init |-> n, type |-> "int"]
External(n) == [Internal(n) EXCEPT !.internal = FALSE]
AddressTaken(n) == [Internal(n) EXCEPT !.taken = TRUE]
Constant(n) == [Internal(n) EXCEPT !.constant = TRUE]
Module(funs, blocks, params, linkage, taken, globals, code) ==
    [funs |-> funs, blocks |-> blocks, params |-> params, linkage |-> linkage, taken |-> taken,
     ctors |-> <<>>, globals |-> globals, code |-> code]

\* main calls f twice; f decides on its parameter and remembers it in g.
Decisions ==
    {Module(<<"main", "f">>,
            [main |-> <<"m0">>, f |-> <<"f0", "f1", "f2", "f3">>],
            [main |-> <<>>, f |-> <<pr>>],
            [main |-> "ext", f |-> link], {}, [g |-> Internal(0), h |-> Internal(0)],
            [m0 |-> <<CallTo(er, "external", <<>>),
                      CallTo(c1, "f", <<a1>>), CallTo(c2, "f", <<a2>>),
                      Op("sub", zr, <<c1, c2>>), Ret(zr)>>,
             f0 |-> <<Op(op, xr, <<pr, o>>), Op("ult", cr, <<xr, 2>>), Br(cr, "f1", "f2")>>,
             f1 |-> <<StoreTo("g", xr), Jmp("f3")>>,
             f2 |-> <<Jmp("f3")>>,
             f3 |-> <<Phi(yr, <<xr, w>>, <<"f1", "f2">>), LoadOf(lr, "g"),
                      Op("select", rr, <<cr, lr, yr>>), Ret(rr)>>]) :
        a1 \in {1, er, Undef}, a2 \in {1, 2, Undef}, link \in {"int", "weak", "ext"},
        op \in BinaryOps, o \in {0, 3, Undef}, w \in {1, 2}}

\* main counts up to a bound in g, which a called back function may change.
Loops ==
    {Module(<<"main", "f">>,
            [main |-> <<"m0", "m1", "m2">>, f |-> <<"f0">>],
            [main |-> <<>>, f |-> <<pr>>],
            [main |-> "ext", f |-> link], taken, [g |-> Internal(n), h |-> h],
            [m0 |-> <<CallTo(er, callee, <<1>>), Jmp("m1")>>,
             m1 |-> <<Phi(xr, <<start, yr>>, <<"m0", "m1">>), LoadOf(lr, "g"),
                      Op("add", yr, <<xr, step>>), Op("ult", cr, <<yr, lr>>), Br(cr, "m1", "m2")>>,
             m2 |-> <<LoadOf(zr, "h"), Op("xor", rr, <<yr, zr>>), StoreTo("h", 1), Ret(rr)>>,
             f0 |-> <<StoreTo("g", pr), LoadOf(wr, "h"), Ret(wr)>>]) :
        link \in {"int", "ext"}, taken \in {{}, {"f"}}, callee \in {"f", "external"},
        start \in {0, Undef}, step \in {0, 1}, n \in {0, 2, Undef},
        h \in {Internal(1), External(1), AddressTaken(1)}}

\* Values that stay unknown: f returns what it was called with, or never returns a
\* known value; main selects and switches on it.
Undefs ==
    {Module(<<"main", "f">>,
            [main |-> <<"m0", "m1", "m2", "m3">>, f |-> <<"f0">>],
            [main |-> <<>>, f |-> <<pr>>],
            [main |-> "ext", f |-> "int"], {}, [g |-> Internal(Undef), h |-> Internal(2)],
            [m0 |-> <<CallTo(c1, "f", <<a>>), LoadOf(lr, "g"), LoadOf(kr, "h"),
                      Op(op, xr, <<c1, b>>), Switch(<<cond, 1, 2>>, <<"m1", "m2", "m3">>)>>,
             m1 |-> <<StoreTo("h", xr), Jmp("m3")>>,
             m2 |-> <<Op("select", yr, <<xr, c1, kr>>), Br(yr, "m1", "m3")>>,
             m3 |-> <<Phi(zr, <<xr, 1, yr>>, <<"m0", "m1", "m2">>), LoadOf(wr, "h"),
                      Op("and", rr, <<zr, wr>>), Ret(rr)>>,
             f0 |-> <<Op(op2, dr, <<pr, Undef>>), Op(cast, er, <<dr>>), Ret(er)>>]) :
        a \in {Undef, 1}, b \in {Undef, 0, 2}, cond \in {Undef, xr, lr, kr},
        op \in {"mul", "xor", "eq", "add"}, op2 \in {"xor", "or", "sub"}, cast \in Casts}

\* f calls itself until its parameter reaches a bound in g, and tells outside.
Recursions ==
    {Module(<<"f", "main">>,
            [main |-> <<"m0">>, f |-> <<"f0", "f1", "f2">>],
            [main |-> <<>>, f |-> <<pr, kr>>],
            [main |-> "ext", f |-> link], {}, [g |-> Internal(2), h |-> External(0)],
            [m0 |-> <<CallTo(er, "external", <<>>), CallTo(c1, "f", <<0, b>>), LoadOf(zr, "g"), Ret(c1)>>,
             f0 |-> <<LoadOf(lr, "g"), Op("ult", cr, <<pr, lr>>), Br(cr, "f1", "f2")>>,
             f1 |-> <<Op("add", xr, <<pr, step>>), StoreTo("h", xr), CallTo(c2, "f", <<xr, rest>>), Jmp("f2")>>,
             f2 |-> <<Phi(yr, <<kr, c2>>, <<"f0", "f1">>), Ret(yr)>>]) :
        link \in {"int", "weak", "ext"}, b \in {1, er, Undef}, step \in {1, 2}, rest \in {kr, 1, xr}}

\* A library: f remembers a flag, which "main" of another module asks for by get.
Libraries ==
    {Module(<<"f", "get">>,
            [get |-> <<"m0">>, f |-> <<"f0", "f1", "f2">>],
            [get |-> <<>>, f |-> <<pr>>],
            [get |-> "ext", f |-> "ext"], {}, [g |-> Internal(0), h |-> Internal(0)],
            [m0 |-> <<LoadOf(lr, "g"), Ret(lr)>>,
             f0 |-> <<Br(pr, "f1", "f2")>>,
             f1 |-> <<StoreTo("g", 1), Jmp("f2")>>,
             f2 |-> <<LoadOf(zr, "g"), Ret(zr)>>])}

\* main branches on what f returns before f is known to return; f comes to its
\* return by a value that stays unknown, 0 & undef for one, and returns a constant,
\* which it may have left in g for main.
Forceds ==
    {Module(<<"main", "f">>,
            [main |-> <<"m0", "m1", "m2">>, f |-> <<"f0", "f1", "f2">>],
            [main |-> <<>>, f |-> <<>>],
            [main |-> "ext", f |-> link], {}, [g |-> Internal(n), h |-> Internal(0)],
            [m0 |-> <<CallTo(c1, "f", <<>>), LoadOf(lr, "g"), Br(cond, "m1", "m2")>>,
             m1 |-> <<Ret(lr)>>,
             m2 |-> <<Op("add", zr, <<c1, lr>>), Ret(zr)>>,
             f0 |-> <<Op(op, xr, <<0, Undef>>), Br(xr, "f1", "f2")>>,
             f1 |-> <<StoreTo("g", 2), Ret(ret)>>,
             f2 |-> <<StoreTo("g", ret), Ret(1)>>]) :
        link \in {"int", "ext"}, cond \in {c1, lr}, op \in {"and", "mul", "xor"},
        ret \in {1, 2}, n \in {1, Undef}}

\* A result of main is forced before the value f returns or the one it stores is known.
Corners ==
    {Module(<<"main", "f">>,
            [main |-> <<"m0", "m1", "m2">>, f |-> <<"f0", "f1", "f2">>],
            [main |-> <<>>, f |-> <<>>],
            [main |-> "ext", f |-> "int"], {}, [g |-> Internal(0), h |-> [Internal(0) EXCEPT !.type = type]],
            [m0 |-> <<CallTo(c1, "f", <<>>), LoadOf(lr, "h"), Op(o[1], xr, o[2]), Br(cond, "m1", "m2")>>,
             m1 |-> <<Ret(lr)>>,
             m2 |-> <<Ret(xr)>>,
             f0 |-> <<CallTo(er, "external", <<>>), Br(Undef, "f1", "f2")>>,
             f1 |-> <<Ret(0)>>,
             f2 |-> <<StoreTo("h", 1), Ret(ret)>>]) :
        o \in {<<"or", <<Undef, c1>>>>, <<"and", <<c1, Undef>>>>, <<"select", <<Undef, c1, c1>>>>,
               <<"select", <<Undef, c1, 2>>>>, <<"select", <<c1, lr, lr>>>>},
        cond \in {xr, 1}, ret \in {2, 3, er}, type \in {"int", "struct"}}

\* The constructor f reads one of the globals and gives g its first value, as int g = h
\* does; code outside may call it, too.
Constructors ==
    {[Module(<<"main", "f">>,
             [main |-> <<"m0">>, f |-> <<"f0">>],
             [main |-> <<>>, f |-> <<>>],
             [main |-> "ext", f |-> "int"], {"f"}, [g |-> g, h |-> h],
             [m0 |-> <<LoadOf(lr, "g"), CallTo(er, "external", <<>>), LoadOf(kr, "h"),
                       Op("add", zr, <<lr, kr>>), Ret(zr)>>,
              f0 |-> <<LoadOf(wr, read), StoreTo("g", v), Ret(wr)>>]) EXCEPT !.ctors = ctors] :
        read \in {"g", "h"}, ctors \in {<<>>, <<"f">>, <<"f", "f">>}, v \in {0, 1, wr},
        g \in {Internal(0), External(1), AddressTaken(0), [Internal(0) EXCEPT !.type = "struct"]},
        h \in {Internal(1), External(1), Constant(1), [Constant(1) EXCEPT !.type = "struct"]}}

\* LLVM's folding of numbers of AllOnes + 1 = 2^n values.
IntFold(op, x, y) ==
    CASE op = "add" -> (x + y) % (AllOnes + 1)
      [] op = "sub" -> (x - y) % (AllOnes + 1)
      [] op = "mul" -> (x * y) % (AllOnes + 1)
      [] op = "and" -> x & y
      [] op = "or" -> x | y
      [] op = "xor" -> x ^^ y
      [] op = "udiv" -> IF y = 0 THEN Undef ELSE x \div y
      [] op = "eq" -> IF x = y THEN 1 ELSE 0
      [] op = "ult" -> IF x < y THEN 1 ELSE 0

IntFoldCast(op, x) == IF op = "trunc" THEN x % 2 ELSE x

SccpRegisters == {pr, er, cr, c1, c2, xr, yr, zr, lr, kr, wr, rr, dr}
SomePrograms == Decisions \cup Loops \cup Undefs \cup Recursions \cup Forceds \cup Corners \cup Constructors

\* SameValues without what it supposes of lower-gv-init: false of Constructors.
LoweringChangesNothing == AllUsesReplaced /\ InitializersLowered /\ ForcedStand => ModulesAgree

\* Sccp.cpp says of ignoring the initializers of globals: "This is sound because we
\* ensure that the LowerGvInitializersPass has been run before."
InitializersMayBeIgnored == AllUsesReplaced => ModulesAgree
=============================================================================
