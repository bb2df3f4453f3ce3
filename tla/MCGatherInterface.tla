------------------------- MODULE MCGatherInterface -------------------------
(***************************************************************************)
(* Two modules: main and hlp in the first, fn and gn in the library.       *)
(***************************************************************************)
EXTENDS GatherInterface

CONSTANTS main, hlp, cb, fn, gn, one, two

MCArity == [f \in Functions |-> IF f = fn THEN 2 ELSE IF f = gn THEN 1 ELSE 0]
MCMainCalls == {<<main, <<>>>>}

to(f, args) == [callee |-> f, args |-> args]
MCModule(order, ext, int, body) ==
    [order |-> order,
     linkage |-> [f \in Functions |-> IF f \in ext THEN "ext" ELSE IF f \in int THEN "int"
                    ELSE IF \E i \in DOMAIN order : order[i] = f THEN "decl" ELSE "absent"],
     body |-> [f \in Functions |-> IF f \in DOMAIN body THEN body[f] ELSE <<>>]]

\* hlp is static, cb is exported, the library calls gn itself and cb back.
TwoModules ==
    {<<MCModule(<<main, hlp, cb, fn, gn>>, {main, cb}, {hlp},
            [f \in {main, hlp, cb} |-> IF f = main THEN inMain ELSE IF f = hlp THEN inHlp ELSE inCb]),
       MCModule(<<fn, gn, cb>>, {fn, gn}, {},
            [f \in {fn, gn} |-> IF f = fn THEN inFn ELSE <<to(cb, <<>>)>>])>> :
        inMain \in {<<to(hlp, <<>>)>>,
                    <<to(fn, <<one, one>>), to(fn, <<one, two>>)>>,
                    <<to(hlp, <<>>), to(cb, <<>>)>>,
                    <<to(fn, <<cb, one>>), to(Indirect, <<>>)>>,
                    <<to(fn, <<hlp, "any">>), to(hlp, <<>>)>>},
        inHlp \in {<<to(fn, <<one, two>>)>>, <<to(gn, <<one>>), to(main, <<>>)>>},
        inCb \in {<<>>, <<to(gn, <<two>>)>>},
        inFn \in {<<>>, <<to(cb, <<>>)>>, <<to(gn, <<one>>)>>, <<to(cb, <<>>), to(Indirect, <<>>)>>}}
=============================================================================
