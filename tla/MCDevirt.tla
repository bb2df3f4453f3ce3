------------------------------ MODULE MCDevirt ------------------------------
(***************************************************************************)
(* Modules for the model checker: C programs with calls of one type whose  *)
(* targets overlap, calls through casts, and C++ programs with a class     *)
(* hierarchy.                                                              *)
(***************************************************************************)
EXTENDS Devirt

T(ret, this, rest) == [ret |-> ret, this |-> this, rest |-> rest]
Indirect(type, through, may) ==
    [kind |-> "indirect", type |-> type, through |-> through, pattern |-> "none", slot |-> 0,
     objects |-> {}, may |-> may]
Dsa(targets, complete) == [targets |-> targets, complete |-> complete]

\* All orders of the pass's options that matter, and the limit on the targets.
Opts(chas) ==
    {[cha |-> c, incomplete |-> i, allowIndirect |-> a, max |-> m] :
        c \in chas, i \in BOOLEAN, a \in BOOLEAN, m \in {1, 9999}}
AllOptions == Opts({FALSE, TRUE})
DefaultOptions == {[cha |-> FALSE, incomplete |-> FALSE, allowIndirect |-> FALSE, max |-> 9999]}
ChaOptions == {[o EXCEPT !.cha = TRUE] : o \in DefaultOptions}

---------------------------------------------------------------------------
(* C programs                                                              *)

\* f, g and h have the type of the calls, l returns a long; main has the type as well.
CProgram(ret, calls, dsa) ==
    LET type == T(ret, NoClass, "a")
    IN  [structs |-> <<>>, members |-> <<>>, tables |-> <<>>,
         names |-> <<"f", "g", "h", "l", "main">>,
         type |-> [f \in {"f", "g", "h", "main"} |-> type] @@ ("l" :> T("long", NoClass, "a")),
         eligible |-> {"f", "g", "h", "l"},
         calls |-> calls, dsa |-> dsa]

\* Three calls; an incomplete one may also call h.
Overlapping ==
    {LET type == T(ret, NoClass, "a")
         may(t) == (t \ {"l"}) \cup (IF whole THEN {} ELSE {"h"})
     IN  CProgram(ret, <<Indirect(type, type, may(t1)), Indirect(type, type, may(t2)),
                         Indirect(type, type, t3 \ {"l"})>>,
                  <<Dsa(t1, whole), Dsa(t2, whole), Dsa(t3, TRUE)>>) :
        ret \in {"int", "void"}, whole \in BOOLEAN,
        t1 \in {{}, {"f"}, {"f", "g"}, {"f", "g", "h"}},
        t2 \in {{"f"}, {"g"}, {"f", "g"}, {"g", "l"}},
        t3 \in {{"f"}, {"f", "g"}, {"l"}}}

\* A pointer stored as one to a function with a long result is called for nothing or for
\* another result, and again with its own type; a direct call and inline assembly.
Casts ==
    {LET long == T("long", NoClass, "a")
         type == T(ret, NoClass, "a")
     IN  CProgram("void", <<Indirect(type, long, {"l"}), Indirect(long, long, {"l"}),
                            [Indirect(type, type, {}) EXCEPT !.kind = k]>>,
                  <<Dsa({"l"} \cup extra, TRUE), Dsa({"l"}, TRUE), Dsa({}, TRUE)>>) :
        ret \in {"void", "int", "long"}, k \in {"direct", "asm"}, extra \in {{}, {"f"}, {"main"}}}

---------------------------------------------------------------------------
(* C++ programs                                                            *)

Class(name) == <<"class.">> \o name
B == Class(<<"B">>)
BBase == B \o <<".", "base">>
C == Class(<<"C">>)
\* The structs here are named as clang does, but for one without a prefix.
NameOf(struct) == IF struct[1] \in {"class.", "struct."} THEN Tail(struct) ELSE struct
Array(owner, statics, entries) ==
    [owner |-> owner, class |-> NameOf(owner), statics |-> statics, entries |-> entries]

StructOfE(last) ==
    CASE last = "struct" -> <<"struct.", "E">> [] last = "bare" -> <<"E">> [] OTHER -> Class(<<"E">>)

\* B has a destructor and the methods m and n; D derives from it and, if `second`, from C;
\* E derives from D. m is pure in B or not, and D's m has the result of B's or its own.
\* A last class W has a member of class B: it has no table, or a table with one entry, or a
\* name that ends like E's and a table that comes first.  Or B has padding that D uses; or E
\* is declared as struct, or is not named by clang.
Hierarchy(D, second, alias, pure, ret, last) ==
    LET W == Class(IF last = "namesake" THEN <<"o", "E">> ELSE <<"W">>)
        E == StructOfE(last)
        embedded == IF last = "padded" THEN BBase ELSE B
        first(c, m, n) ==
            <<Offset, Typeinfo(NameOf(c)), IF alias THEN AliasEntry("free") ELSE Entry("free"), m, Entry(n)>>
        thunks(c) == <<Offset, Typeinfo(NameOf(c)), Entry("free"), Entry("thunk")>>
    IN  [structs |-> <<B, BBase, C, D, E, W>>,
         members |-> (B :> {}) @@ (BBase :> {}) @@ (C :> {}) @@ (D :> {embedded} \cup (IF second THEN {C} ELSE {}))
                     @@ (E :> {D}) @@ (W :> {B}),
         tables |->
            (IF last = "namesake"
             THEN <<Array(W, <<W>>, first(W, Entry("Ww"), "Ww"))>> ELSE <<>>)
            \o <<Array(B, <<B>>, first(B, IF pure THEN PureVirtual ELSE Entry("Bm"), "Bn")),
                 Array(C, <<C>>, <<Offset, Typeinfo(NameOf(C)), Entry("free"), Entry("Cm")>>),
                 Array(D, <<B, D>>, first(D, Entry("Dm"), "Bn"))>>
            \o (IF second THEN <<Array(D, <<C>>, thunks(D))>> ELSE <<>>)
            \o <<Array(E, <<B, D, E>>, first(E, Entry("Dm"), "En"))>>
            \o (IF second THEN <<Array(E, <<C>>, thunks(E))>> ELSE <<>>)
            \o (IF last = "short"
                THEN <<Array(W, <<W>>, <<Offset, Typeinfo(NameOf(W)), Entry("Ww")>>)>> ELSE <<>>),
         names |-> <<"Bm", "Bn", "Cm", "Dm", "En", "Ww", "free", "thunk">>,
         type |-> [f \in {"Bm", "Bn"} |-> T("int", B, "v")] @@ ("Cm" :> T("int", C, "v"))
                  @@ ("Dm" :> T(ret, D, "v")) @@ ("En" :> T("int", E, "v"))
                  @@ ("Ww" :> T("int", W, "v")) @@ ("free" :> T("void", B, "v")) @@ ("thunk" :> T("int", D, "v")),
         eligible |-> {"Bm", "Bn", "Cm", "Dm", "En", "Ww", "free", "thunk"}]

VirtualCall(P, static, slot, objects) ==
    LET type == T("int", static, "v")
        call == [kind |-> "indirect", type |-> type, through |-> type, pattern |-> "slot",
                 slot |-> slot, objects |-> objects, may |-> {}]
    IN  [call EXCEPT !.may = {Dispatch(P, d, call) : d \in objects}]

\* A function pointer that is a field of an object of class B.
FieldCall == [Indirect(T("int", B, "v"), T("int", B, "v"), {"Bm"}) EXCEPT !.pattern = "field"]

\* The classes below a static class that may be instantiated.
Objects(P, static, D, E) ==
    IF static = C THEN {C} \cup (IF C \in P.members[D] THEN {D, E} ELSE {})
    ELSE IF static = E THEN {E}
    ELSE (IF static = B /\ ArrayFor(P, B, B).entries[4] # PureVirtual THEN {B} ELSE {}) \cup {D, E}

WithCalls(P, D, E, static, slot, complete) ==
    LET call == VirtualCall(P, static, slot, Objects(P, static, D, E))
    IN  [calls |-> <<call, FieldCall>>,
         dsa |-> <<Dsa(call.may, complete), Dsa({"Bm", "Bn"}, complete)>>] @@ P

Shapes ==
    {Hierarchy(D, second, alias, pure, ret, last) :
        D \in {Class(<<"D">>), Class(<<"D", "e">>)}, second \in BOOLEAN, alias \in BOOLEAN, pure \in BOOLEAN,
        ret \in {"int", "long"}, last \in {"plain", "short", "namesake"}}
    \cup {Hierarchy(Class(<<"D">>), FALSE, FALSE, pure, "int", last) :
             pure \in BOOLEAN, last \in {"padded", "struct", "bare"}}

\* D and E are the fourth and the fifth struct.
Hierarchies ==
    {WithCalls(P, P.structs[4], P.structs[5], IF s[1] = "E" THEN P.structs[5] ELSE Class(<<s[1]>>), s[2], complete) :
        P \in Shapes, complete \in BOOLEAN, s \in {<<"B", 1>>, <<"B", 2>>, <<"C", 1>>, <<"E", 2>>}}

Everything == Overlapping \cup Casts \cup Hierarchies
=============================================================================
