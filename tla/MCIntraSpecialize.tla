------------------------- MODULE MCIntraSpecialize -------------------------
(***************************************************************************)
(* A module with an exported main and static fn, gn and hn.  The address   *)
(* of hn is a constant.                                                    *)
(***************************************************************************)
EXTENDS IntraSpecialize

CONSTANTS main, fn, gn, hn, one, two

MCArity == [f \in Functions |-> IF f = fn THEN 2 ELSE IF f = main THEN 0 ELSE 1]

\* Every constant has a text of its own.
OwnText == [c \in Constants |-> IF c = one THEN "0x1" ELSE IF c = two THEN "0x2" ELSE "@hn"]

to(f, args) == [callee |-> Original(f), args |-> args, wants |-> [fun |-> f, args |-> args]]

MCProgram(bodies) ==
    [order |-> <<Original(main), Original(fn), Original(gn), Original(hn)>>,
     body |-> [n \in {Original(f) : f \in Functions} |->
                  IF n[1] \in DOMAIN bodies THEN bodies[n[1]] ELSE <<>>]]

CallPrograms ==
    {MCProgram([f \in {main, fn, gn} |-> IF f = main THEN inMain ELSE IF f = fn THEN inFn ELSE inGn]) :
        inMain \in {<<to(fn, <<one, two>>), to(fn, <<two, "?">>)>>,
                    <<to(gn, <<one>>), to(fn, <<one, "?">>), to(gn, <<one>>)>>,
                    <<to(gn, <<one>>)>>},
        inFn \in {<<to(gn, <<"p2">>)>>, <<to(hn, <<"p1">>)>>, <<to(hn, <<"p1">>), to(gn, <<"p2">>)>>},
        inGn \in {<<>>, <<to(hn, <<two>>)>>, <<to(fn, <<"p1", one>>)>>, <<to(gn, <<"p1">>)>>}}

\* fn calls its first parameter, which is hn, and hn may call fn.
through(a, args) == [callee |-> Original(a), args |-> args, wants |-> [fun |-> a, args |-> args]]
PointerPrograms ==
    {MCProgram([f \in {main, fn, hn} |-> IF f = main THEN inMain ELSE IF f = fn THEN inFn ELSE inHn]) :
        inMain \in {<<to(fn, <<hn, one>>)>>, <<to(fn, <<hn, two>>), to(hn, <<"?">>)>>},
        inFn \in {<<through("p1", <<"p2">>)>>, <<through("p1", <<one>>), to(gn, <<"p2">>)>>},
        inHn \in {<<>>, <<to(gn, <<"p1">>)>>, <<to(fn, <<hn, "?">>)>>}}

MCPrograms == CallPrograms \cup PointerPrograms

\* fn calls hn through its parameter, and hn fn, directly.
GuardPrograms ==
    {MCProgram([f \in {main, fn, hn} |->
        IF f = main THEN <<to(fn, <<hn, one>>)>>
        ELSE IF f = fn THEN <<through("p1", <<one>>)>> ELSE <<to(fn, <<hn, "?">>)>>])}

\* main calls gn once, which makes one call.
TakenPrograms ==
    {MCProgram([f \in {main, gn} |-> IF f = main THEN <<to(gn, <<one>>)>> ELSE <<to(fn, <<"p1", one>>)>>])}
=============================================================================
