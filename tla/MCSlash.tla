------------------------------ MODULE MCSlash ------------------------------
(***************************************************************************)
(* Programs for the model checker.  Module 1 has main, module 2 is a       *)
(* library.                                                                *)
(***************************************************************************)
EXTENDS Slash

CONSTANTS main, lib, cb, hlp, var, ali

Module(defs, uses) ==
    [linkage |-> [s \in Names |-> IF s \in DOMAIN defs THEN defs[s] ELSE "absent"],
     uses |-> uses]

\* main calls lib, possibly by an alias and with its own function cb as argument;
\* lib calls hlp, which may be static, with a constant or with its parameter.
TwoModules ==
    {<<Module([s \in {main, cb, var} \cup {u[2] : u \in calls} |->
                  IF s = main THEN "ext" ELSE IF s = cb THEN cbLink ELSE "decl"],
              {<<main, var, "ref">>} \cup calls),
       Module([s \in {lib, hlp, var, ali} |-> IF s = hlp THEN hlpLink ELSE "ext"],
              {<<lib, var, "ref">>, <<ali, lib, "ref">>} \cup inner)>> :
        calls \in {{<<main, lib, cb>>}, {<<main, lib, cb>>, <<main, lib, "const">>}, {<<main, ali, "const">>}},
        cbLink \in {"ext", "int"},
        hlpLink \in {"ext", "int", "weak"},
        inner \in {{<<lib, hlp, "const">>}, {<<lib, hlp, "param">>}}}

\* A call chain through three modules, with the constant known in main only: the
\* inner call can be specialized only after the outer one was.
Chain ==
    {<<Module([s \in {main, lib} |-> IF s = main THEN "ext" ELSE "decl"],
              {<<main, lib, "const">>}),
       Module([s \in {lib, hlp} |-> IF s = lib THEN "ext" ELSE "decl"],
              {<<lib, hlp, "param">>}),
       Module([s \in {hlp, var} |-> "ext"],
              {<<hlp, var, "ref">>})>>}

\* cb is a function of the C library that no module uses before the optimizer runs.
LibraryCall ==
    {<<Module([s \in {main, lib} |-> IF s = main THEN "ext" ELSE "decl"],
              {<<main, lib, "any">>}),
       Module([s \in {lib, cb} |-> IF s = lib THEN "ext" ELSE cbLink],
              {<<lib, lib, "any">>})>> : cbLink \in {"ext", "weak"}}

\* test/weak-linkage-2: the library defines lib and a weak alias ali of lib, main uses neither.
WeakLinkage2 ==
    {<<Module([s \in {main} |-> "ext"], {}),
       Module([s \in {lib, ali} |-> IF s = lib THEN "ext" ELSE "weak"],
              {<<ali, lib, "ref">>})>>}

\* Module 1 has a static function hlp, or a weak one that it calls with its own
\* argument, and module 3 exports another hlp that module 2 calls.
SameName ==
    {<<Module([s \in {main, lib, hlp} |-> IF s = main THEN "ext" ELSE IF s = hlp THEN own[1] ELSE "decl"],
              {<<main, lib, "any">>, <<main, hlp, own[2]>>}),
       Module([s \in {lib, hlp} |-> IF s = lib THEN "ext" ELSE "decl"],
              {<<lib, hlp, "const">>}),
       Module([s \in {hlp, var} |-> "ext"],
              {<<hlp, var, "ref">>})>> : own \in {<<"int", "const">>, <<"weak", "any">>}}

\* Both modules have a static function cb, which they pass to a function of the other.
SameCallback ==
    {<<Module([s \in {main, lib, cb, hlp} |-> IF s = cb THEN "int" ELSE IF s = lib THEN "decl" ELSE "ext"],
              {<<main, lib, cb>>}),
       Module([s \in {lib, cb, hlp} |-> IF s = cb THEN "int" ELSE IF s = hlp THEN "decl" ELSE "ext"],
              {<<lib, hlp, cb>>})>>}

\* Two calls of lib, of which the rewriter may miss one.
TwoCalls ==
    {<<Module([s \in {main, cb, lib} |-> IF s = lib THEN "decl" ELSE "ext"],
              {<<main, lib, "const">>, <<main, lib, cb>>}),
       Module([s \in {lib} |-> "ext"], {})>>}

\* slash started on files, without --keep-external, for one round.
With(files, inter, noStrip) ==
    [files |-> files,
     options |-> [keep |-> {}, libCalls |-> {}, interSpec |-> inter, noStrip |-> noStrip,
                  maxRounds |-> 1]]

Keeping(cbs, job) ==
    [job EXCEPT !.options.keep = cbs, !.options.libCalls = cbs]

TwoJobs ==
    {With(p, TRUE, FALSE) : p \in TwoModules}
        \cup {Keeping({cb}, With(p, TRUE, FALSE)) : p \in LibraryCall}
        \cup {With(p, FALSE, TRUE) : p \in WeakLinkage2 \cup {q \in TwoModules : q[1].linkage[cb] = "ext"}}

\* Up to four rounds for the three modules of the chain, and three for the two calls.
ChainJobs == {[With(p, TRUE, FALSE) EXCEPT !.options.maxRounds = 4] : p \in Chain}
TwoCallJobs == {[With(p, TRUE, FALSE) EXCEPT !.options.maxRounds = 3] : p \in TwoCalls}

\* Two rounds for a call that passes a function on: the optimizer changes the
\* specializations the first round made.
CallbackJobs ==
    {[With(p, TRUE, FALSE) EXCEPT !.options.maxRounds = 2] :
        p \in {q \in TwoModules : /\ <<main, lib, cb>> \in q[1].uses /\ <<main, lib, "const">> \notin q[1].uses
                                  /\ q[2].linkage[hlp] = "ext" /\ <<lib, hlp, "param">> \in q[2].uses}}

NamesakeJobs == {With(p, TRUE, FALSE) : p \in SameName \cup SameCallback}

SlashJobs == TwoJobs \cup ChainJobs \cup TwoCallJobs \cup CallbackJobs \cup NamesakeJobs
AliasJobs == {With(p, FALSE, FALSE) : p \in WeakLinkage2}
SameNameJobs == {With(p, TRUE, FALSE) : p \in {q \in SameName : q[1].linkage[hlp] = "int"}}

\* What a linker asks of the modules that slash leaves: without the exception that
\* NoDuplicateSymbols makes, it is false of the programs with two functions of one name.
LinkableAgain ==
    \A m \in Modules : \A x \in Modules \ {m} : Strong(file[m]) \cap Strong(file[x]) = {}

\* test/weak-linkage-2/README.md: "the function test and its alias __test should
\* be kept by OCCAM".
AliasAndAliaseeKept ==
    stage = "linked" => /\ ali \in ExportedBy(file[2])
                        /\ lib \in ExportedBy(file[2])
=============================================================================
