------------------------------- MODULE Slash -------------------------------
(***************************************************************************)
(* razor/slash.py and the passes it runs, at the level of symbols: which   *)
(* module defines or declares which name, with which linkage, and which    *)
(* definition uses which name.                                             *)
(*                                                                         *)
(* A bitcode file is abstracted to its symbol table (linkage) and to the   *)
(* uses of names in its definitions.  A use <<c, s, a>> of a module says   *)
(* that the definition c refers to s: it takes the address of s or reads   *)
(* the variable s (a = "ref"), or it calls s with an argument that is not  *)
(* known (a = "any"), is the parameter of c (a = "param"), is the constant *)
(* "const", or is the function a.                                          *)
(*                                                                         *)
(* Slash.run is a sequence of steps over all modules.  Every step runs one *)
(* task per module through pool.InParallel, in any order, and the next     *)
(* step starts when all tasks ended (module ThreadPool); a task reads the  *)
(* file its own module had, and interface and rewrite files written by     *)
(* earlier steps.                                                          *)
(*                                                                         *)
(* "weak" stands for the weak and common linkages, which the pass treats   *)
(* alike; linkonce is left out.  Names that llvm.used lists only add to    *)
(* references and are left out.                                            *)
(***************************************************************************)
EXTENDS Integers, FiniteSets

CONSTANTS
    Functions,     \* the functions of the program and the libraries
    Variables,     \* the global variables
    Aliases,       \* the global aliases
    MainInterface, \* the functions interface.mainInterface calls, main first
    Jobs           \* the programs slash may be started on, each with its options

ConcreteArgs == {"const"} \cup Functions
SpecNames == Functions \X ConcreteArgs     \* __occam_spec.f(a)
Callable == Functions \cup SpecNames
Names == Callable \cup Variables \cup Aliases
Linkages == {"absent", "decl", "ext", "weak", "int"}
Exported == {"ext", "weak"}
Definitions == {"ext", "weak", "int"}
Args == {"any", "param"} \cup ConcreteArgs
Uses == Names \X Names \X ({"ref"} \cup Args)
Rules == [from : Functions \cup Aliases, arg : ConcreteArgs, to : SpecNames]
Files == [linkage : [Names -> Linkages], uses : SUBSET Uses]
Stages == {"references", "internalize", "intra", "deepBefore", "specialize",
           "rewrite", "deepAfter", "seal", "strip", "linked"}

\* A name is of one kind; what is known of an argument is not the name of a function.
ASSUME NamesAssumption ==
    /\ Functions \cap SpecNames = {} /\ Variables \cap Callable = {}
    /\ Aliases \cap (Callable \cup Variables) = {}
    /\ {"ref", "any", "param", "const"} \cap Functions = {}
    /\ MainInterface \subseteq Functions

VARIABLES
    options,       \* what slash was started with
    original,      \* the program slash was started on
    file,          \* the current bitcode file of each module: m.get()
    refs,          \* the simple interface of each module: refs[m].get()
    iface,         \* the interface the last deep() wrote
    rewrites,      \* the rewrite file of each module: rewrite_files[m].get()
    stage,         \* the step Slash.run is in
    pending,       \* the modules whose task of this step has not run
    round,         \* iteration
    progress       \* whether inter_rewrite made progress in this round

vars == <<options, original, file, refs, iface, rewrites, stage, pending, round, progress>>

Keep == options.keep              \* the names in the file given to --keep-external
LibCalls == options.libCalls      \* functions that calls may be introduced to
InterSpec == options.interSpec    \* whether --inter-spec-policy is not none
NoStrip == options.noStrip        \* whether --no-strip is given
MaxRounds == options.maxRounds    \* max_fixpoint_iterations

Modules == DOMAIN original        \* 1..n in link order; 1 has main

-----------------------------------------------------------------------------
(* Symbol tables.                                                          *)

DefinedIn(f) == {s \in Names : f.linkage[s] \in Definitions}
DeclaredIn(f) == {s \in Names : f.linkage[s] = "decl"}
ExportedBy(f) == {s \in Names : f.linkage[s] \in Exported}
Strong(f) == {s \in Names : f.linkage[s] = "ext"}

\* The names a set of uses mentions, as callee, operand or function argument.
Mentioned(U) == {u[2] : u \in U} \cup ({u[3] : u \in U} \cap Functions)

\* A well-formed bitcode file: only definitions use names, and only known names.
Consistent(f) ==
    \A u \in f.uses : /\ u[1] \in DefinedIn(f)
                      /\ Mentioned({u}) \subseteq DefinedIn(f) \cup DeclaredIn(f)

\* An alias refers to its aliasee, and to nothing else.
OneAliasee(f) ==
    \A a \in Aliases \cap DefinedIn(f) : \E s \in Names : {u \in f.uses : u[1] = a} = {<<a, s, "ref">>}

\* What slash can be started on: files that other tools made.
ASSUME JobsAssumption ==
    \A j \in Jobs :
        /\ j.options.keep \subseteq Names /\ j.options.libCalls \subseteq Functions
        /\ j.options.maxRounds \in Nat
        /\ DOMAIN j.files \subseteq Nat /\ j.files \in [DOMAIN j.files -> Files]
        /\ \A m \in DOMAIN j.files :
              Consistent(j.files[m]) /\ OneAliasee(j.files[m]) /\ \A s \in SpecNames : j.files[m].linkage[s] = "absent"

\* The names that are functions in f: an alias of another module is declared as one.
FunctionsOf(f) ==
    {s \in Callable : f.linkage[s] # "absent"} \cup {s \in Aliases : f.linkage[s] = "decl"}

\* A function whose address is used other than as the callee of a call.
AddressTaken(f) == {u[2] : u \in {w \in f.uses : w[3] = "ref"}}
                     \cup ({u[3] : u \in f.uses} \cap Functions)

\* The uses the definition of g makes, in a copy called c whose parameter is a.
Copy(f, g, c, a) ==
    {<<c, u[2], IF u[3] = "param" THEN a ELSE u[3]>> : u \in {w \in f.uses : w[1] = g}}

\* What GlobalDCE keeps: everything reachable from an exported definition.  The
\* rounds in which it is reached end with a set that mentions nothing else.
MentionedBy(f, S) == Mentioned({u \in f.uses : u[1] \in S})
Live(f) ==
    LET Reach[i \in 0..Cardinality(Names)] ==
            IF i = 0 THEN ExportedBy(f) ELSE LET S == Reach[i - 1] IN S \cup MentionedBy(f, S)
    IN  {S \in {Reach[i] : i \in 0..Cardinality(Names)} :
            ExportedBy(f) \subseteq S /\ MentionedBy(f, S) \subseteq S}

Only(f, live) ==
    [linkage |-> [s \in Names |-> IF s \in live THEN f.linkage[s] ELSE "absent"],
     uses |-> {u \in f.uses : u[1] \in live}]
GlobalDCE(f) == {Only(f, live) : live \in Live(f)}

\* f with a declaration of every name in S it does not know yet.
Declare(f, S) ==
    [f EXCEPT !.linkage = [s \in Names |->
        IF s \in S /\ f.linkage[s] = "absent" THEN "decl" ELSE f.linkage[s]]]

-----------------------------------------------------------------------------
(* Interfaces.                                                             *)

EmptyInterface == [calls |-> {}, references |-> {}]

\* Pinterface without entries starts at the external calling node: it lists
\* every function that is visible or whose address is taken as called, and
\* every declaration of the module as a reference.
SimpleInterface(f) ==
    [calls |-> FunctionsOf(f) \cap (ExportedBy(f) \cup DeclaredIn(f) \cup AddressTaken(f)),
     references |-> DeclaredIn(f)]

CalledNames(calls) == {c[1] : c \in calls}

\* The calls of declared functions: what Pinterface can record with arguments.
ExternalCalls(f) ==
    {<<u[2], u[3]>> : u \in {w \in f.uses : w[2] \in FunctionsOf(f) \cap DeclaredIn(f)
                                         /\ w[3] # "ref"}}

\* passes.deep: the calls it collects are those of the definitions it visits,
\* and all visible functions of a module in which it meets an indirect call.
\* Which definitions are visited is the business of module GatherInterface:
\* here any subset.  The references are those of all modules.
DeepInterface(C, V) ==
    [calls |-> {<<s, "any">> : s \in MainInterface} \cup C
                  \cup UNION {{<<s, "any">> : s \in SimpleInterface(file[m]).calls} : m \in V},
     references |-> UNION {DeclaredIn(file[m]) : m \in Modules}]

DeepInterfaces ==
    {DeepInterface(C, V) :
        C \in SUBSET UNION {ExternalCalls(file[m]) : m \in Modules}, V \in SUBSET Modules}

-----------------------------------------------------------------------------
(* MinimizeComponent.                                                      *)

UnusedAliases(f, I) ==
    {a \in Aliases : /\ f.linkage[a] \in Definitions
                     /\ a \notin Keep
                     /\ a \notin I.references
                     /\ a \notin Mentioned(f.uses)}

KeptAliasees(f, I) ==
    Mentioned({u \in f.uses : u[1] \in Aliases \ UnusedAliases(f, I)})

\* Mutant of Internalized: the names of --keep-external are not looked up.
InternalizedWithoutKeep(f, I) ==
    {s \in Callable \cup Variables :
        /\ f.linkage[s] \in Exported
        /\ s \notin I.references
        /\ s \in Callable => s \notin I.calls /\ s \notin AddressTaken(f)
        /\ s \notin KeptAliasees(f, I)}

Internalized(f, I) ==
    {s \in Callable \cup Variables :
        /\ f.linkage[s] \in Exported
        /\ s \notin Keep
        /\ s \notin I.references
        /\ s \in Callable => s \notin I.calls /\ s \notin AddressTaken(f)
        /\ s \notin KeptAliasees(f, I)}

MinimizeComponent(f, I) ==
    LET dead == UnusedAliases(f, I)
        hidden == Internalized(f, I)
        link == [s \in Names |-> IF s \in dead THEN "absent"
                                 ELSE IF s \in hidden THEN "int"
                                 ELSE f.linkage[s]]
    IN  IF dead \cup hidden = {} THEN {f}
        ELSE GlobalDCE([linkage |-> link, uses |-> {u \in f.uses : u[1] \notin dead}])

-----------------------------------------------------------------------------
Init ==
    /\ \E j \in Jobs : options = j.options /\ original = j.files
    /\ file = original
    /\ refs = [m \in Modules |-> EmptyInterface]
    /\ iface = EmptyInterface
    /\ rewrites = [m \in Modules |-> {}]
    /\ stage = "references"
    /\ pending = DOMAIN original
    /\ round = 0
    /\ progress = TRUE

Task(s, m) == stage = s /\ m \in pending /\ pending' = pending \ {m}
StepDone(s) == stage = s /\ pending = {}
StartStep(s) == stage' = s /\ pending' = Modules

\* Steps 1 and 5b: _references.
References(m) ==
    /\ Task("references", m)
    /\ refs' = [refs EXCEPT ![m] = SimpleInterface(file[m])]
    /\ UNCHANGED <<options, original, file, iface, rewrites, stage, round, progress>>

\* Steps 2 and 5b: _internalize, with the interfaces of the other modules.
OthersInterface(m) ==
    [calls |-> MainInterface \cup UNION {refs[x].calls : x \in Modules \ {m}},
     references |-> UNION {refs[x].references : x \in Modules \ {m}}]

Internalize(m) ==
    /\ Task("internalize", m)
    /\ \E f \in MinimizeComponent(file[m], OthersInterface(m)) : file' = [file EXCEPT ![m] = f]
    /\ UNCHANGED <<options, original, refs, iface, rewrites, stage, round, progress>>

\* Step 6: sealing, with the interface of the whole program only.
Seal(m) ==
    /\ Task("seal", m)
    /\ LET I == [calls |-> CalledNames(iface.calls), references |-> iface.references]
       IN  \E f \in MinimizeComponent(file[m], I) : file' = [file EXCEPT ![m] = f]
    /\ UNCHANGED <<options, original, refs, iface, rewrites, stage, round, progress>>

-----------------------------------------------------------------------------
(* Step 3, the task intra of a module, one elementary change at a time.    *)

IntraStep(m) == stage = "intra" /\ m \in pending
IntraFrame == UNCHANGED <<options, original, refs, iface, rewrites, stage, round, progress>>

\* opt finds a use dead.
DropUse(m, u) ==
    /\ IntraStep(m)
    /\ u \in file[m].uses
    /\ u[1] \notin Aliases
    /\ file' = [file EXCEPT ![m].uses = @ \ {u}]
    /\ IntraFrame
    /\ UNCHANGED pending

\* opt inlines a call of a definition that cannot be replaced at link time.
InlineCall(m, u) ==
    /\ IntraStep(m)
    /\ u \in file[m].uses
    /\ u[3] # "ref"
    /\ file[m].linkage[u[2]] \in {"ext", "int"}
    /\ u[2] # u[1]
    /\ file' = [file EXCEPT ![m].uses =
                   (@ \ {u}) \cup Copy(file[m], u[2], u[1], u[3])]
    /\ file' # file
    /\ IntraFrame
    /\ UNCHANGED pending

\* opt introduces a call of a library function, like memcpy for an intrinsic.
IntroduceCall(m, c, s) ==
    /\ IntraStep(m)
    /\ c \in DefinedIn(file[m]) \cap Callable
    /\ s \in LibCalls
    /\ <<c, s, "any">> \notin file[m].uses
    /\ LET f == Declare(file[m], {s})
       IN  file' = [file EXCEPT ![m] = [f EXCEPT !.uses = @ \cup {<<c, s, "any">>}]]
    /\ IntraFrame
    /\ UNCHANGED pending

\* PrevirtType::concretize: a function argument is looked up by name, or declared.
Concretized(f, bound) == Declare(f, {u[2] : u \in bound})

\* f with a definition of __occam_spec.g(a) for every <<g, a>> in new that is no
\* symbol of f yet.
Specialized(f, new, link) ==
    LET fresh == {s \in new : f.linkage[s] = "absent"}
        bound == {<<s, s[2], "ref">> : s \in {x \in fresh : x[2] \in Functions}}
        d == Concretized(f, bound)
    IN  [linkage |-> [s \in Names |-> IF s \in fresh THEN link ELSE d.linkage[s]],
         uses |-> f.uses \cup bound \cup UNION {Copy(f, s[1], s, s[2]) : s \in fresh}]

\* Ppeval specializes a call of an internal function.
SpecializeLocal(m, u) ==
    /\ IntraStep(m)
    /\ u \in file[m].uses
    /\ u[2] \in Functions
    /\ u[3] \in ConcreteArgs
    /\ file[m].linkage[u[2]] = "int"
    /\ LET spec == <<u[2], u[3]>>
           f == Specialized(file[m], {spec}, "int")
       IN  file' = [file EXCEPT ![m] =
               [f EXCEPT !.uses = (@ \ {u}) \cup {<<u[1], spec, "any">>}]]
    /\ IntraFrame
    /\ UNCHANGED pending

\* peval ends; the optimizer has run GlobalDCE.
IntraDone(m) ==
    /\ Task("intra", m)
    /\ \E f \in GlobalDCE(file[m]) : file' = [file EXCEPT ![m] = f]
    /\ IntraFrame

-----------------------------------------------------------------------------
\* Step 4, and its repetition in step 6: passes.deep.
Deep ==
    /\ stage \in {"deepBefore", "deepAfter"}
    /\ iface' \in DeepInterfaces
    /\ StartStep(IF stage = "deepAfter" THEN "seal"
                 ELSE IF InterSpec THEN "specialize" ELSE "references")
    /\ UNCHANGED <<options, original, file, refs, rewrites, round, progress>>

\* Mutant of Target: the pass does not skip declarations.
TargetOrDeclaration(f, s) ==
    IF s \in Functions THEN {s} \cap (DefinedIn(f) \cup DeclaredIn(f))
    ELSE {u[2] : u \in {w \in f.uses : w[1] = s /\ s \in Aliases}} \cap Functions

\* Step 5, inter_spec.  The function a recorded call names in this module: the
\* lookup is by name or by alias, whatever the linkage.
Target(f, s) ==
    IF s \in Functions THEN {s} \cap DefinedIn(f)
    ELSE {u[2] : u \in {w \in f.uses : w[1] = s /\ s \in Aliases}}
            \cap Functions \cap DefinedIn(f)

Candidates(m) ==
    {c \in iface.calls : c[2] \in ConcreteArgs /\ Target(file[m], c[1]) # {}}

\* The rules of one module: a call of from with argument arg becomes a call of to.
RulesFor(m, C) ==
    UNION {{[from |-> c[1], arg |-> c[2], to |-> <<g, c[2]>>] : g \in Target(file[m], c[1])} : c \in C}

\* The module with an exported specialization for every rule.
AddSpecializations(f, R) ==
    LET new == {r.to : r \in R}
        g == Specialized(f, new, "ext")
    IN  [g EXCEPT !.linkage = [s \in Names |-> IF s \in new THEN "ext" ELSE g.linkage[s]]]

\* The specialization policy accepts some of the candidates.
Specialize(m) ==
    /\ Task("specialize", m)
    /\ \E C \in SUBSET Candidates(m) :
        /\ rewrites' = [rewrites EXCEPT ![m] = RulesFor(m, C)]
        /\ file' = [file EXCEPT ![m] = AddSpecializations(file[m], RulesFor(m, C))]
    /\ UNCHANGED <<options, original, refs, iface, stage, round, progress>>

\* Step 5, inter_rewrite.  TransformComponent looks the function of a rule up by
\* name, and lookupRewrite finds the rule for the arguments of a call; it deletes the
\* call it is iterating over, so that after a first replacement of a use the remaining
\* uses may be missed.
RulesOfOthers(m) == UNION {rewrites[x] : x \in Modules \ {m}}

LooksUp(u, r) == u[2] = r.from /\ u[3] = r.arg
Matches(f, r) == {u \in f.uses : r.from \in FunctionsOf(f) /\ LooksUp(u, r)}

\* Mutant of ApplyRules: a function passed in a rewritten call is not marked external.
ApplyRulesWithoutMarking(f, R, done) ==
    LET hit == {r \in R : Matches(f, r) \cap done # {}}
        d == Declare(f, {r.to : r \in hit})
    IN  [linkage |-> d.linkage,
         uses |-> (f.uses \ done)
                    \cup UNION {{<<u[1], r.to, "any">> : u \in Matches(f, r) \cap done} : r \in hit}]

\* Mutant of ApplyRules: the new callee is not declared.
ApplyRulesWithoutDeclaring(f, R, done) ==
    LET hit == {r \in R : Matches(f, r) \cap done # {}}
    IN  [linkage |-> f.linkage,
         uses |-> (f.uses \ done)
                    \cup UNION {{<<u[1], r.to, "any">> : u \in Matches(f, r) \cap done} : r \in hit}]

ApplyRules(f, R, done) ==
    LET hit == {r \in R : Matches(f, r) \cap done # {}}
        \* function arguments removed from a call of an external function
        passed == {r.arg : r \in {x \in hit : f.linkage[x.from] \in {"ext", "decl"}}}
                     \cap Functions \cap DefinedIn(f)
        d == Declare(f, {r.to : r \in hit})
    IN  [linkage |-> [s \in Names |-> IF s \in passed THEN "ext" ELSE d.linkage[s]],
         uses |-> (f.uses \ done)
                    \cup UNION {{<<u[1], r.to, "any">> : u \in Matches(f, r) \cap done} : r \in hit}]

\* Mutant of Rewrite: the loop sees the verdict of the last task, not that of any.
RewriteLastVerdict(m) ==
    /\ Task("rewrite", m)
    /\ LET R == RulesOfOthers(m)
           all == UNION {Matches(file[m], r) : r \in R}
       IN  \E done \in SUBSET all :
            /\ \A u \in all : \E w \in done : w[2] = u[2]
            /\ file' = [file EXCEPT ![m] = ApplyRules(file[m], R, done)]
            /\ progress' = (all # {})
    /\ UNCHANGED <<options, original, refs, iface, rewrites, stage, round>>

Rewrite(m) ==
    /\ Task("rewrite", m)
    /\ LET R == RulesOfOthers(m)
           all == UNION {Matches(file[m], r) : r \in R}
       IN  \E done \in SUBSET all :
            \* the first use of every function is not missed
            /\ \A u \in all : \E w \in done : w[2] = u[2]
            /\ file' = [file EXCEPT ![m] = ApplyRules(file[m], R, done)]
            /\ progress' = (progress \/ all # {})
    /\ UNCHANGED <<options, original, refs, iface, rewrites, stage, round>>

\* After the loop: opt -strip -strip-dead-prototypes.
Strip(m) ==
    /\ Task("strip", m)
    /\ file' = IF NoStrip THEN file
               ELSE [file EXCEPT ![m].linkage = [s \in Names |->
                        IF file[m].linkage[s] = "decl" /\ s \notin Mentioned(file[m].uses)
                        THEN "absent" ELSE file[m].linkage[s]]]
    /\ UNCHANGED <<options, original, refs, iface, rewrites, stage, round, progress>>

-----------------------------------------------------------------------------
(* The control flow of Slash.run.                                          *)

LoopHead ==
    /\ \/ StepDone("seal")
       \/ StepDone("internalize") /\ round = 0
    /\ IF progress /\ round < MaxRounds
       THEN /\ StartStep("intra")
            /\ round' = round + 1
            /\ progress' = FALSE
       ELSE /\ StartStep("strip")
            /\ UNCHANGED <<round, progress>>
    /\ UNCHANGED <<options, original, file, refs, iface, rewrites>>

Advance(from, to) ==
    /\ StepDone(from)
    /\ StartStep(to)
    /\ UNCHANGED <<options, original, file, refs, iface, rewrites, round, progress>>

AdvanceStep ==
    \/ Advance("references", "internalize")
    \/ round > 0 /\ Advance("internalize", "deepAfter")
    \/ Advance("intra", "deepBefore")
    \/ Advance("specialize", "rewrite")
    \/ Advance("rewrite", "references")
    \/ Advance("strip", "linked")

Intra(m) ==
    \/ \E u \in file[m].uses : DropUse(m, u) \/ InlineCall(m, u) \/ SpecializeLocal(m, u)
    \/ \E c \in Callable, s \in LibCalls : IntroduceCall(m, c, s)
    \/ IntraDone(m)

TaskStep(m) ==
    \/ References(m)
    \/ Internalize(m)
    \/ Intra(m)
    \/ Specialize(m)
    \/ Rewrite(m)
    \/ Seal(m)
    \/ Strip(m)

Next ==
    \/ \E m \in Modules : TaskStep(m)
    \/ Deep
    \/ LoopHead
    \/ AdvanceStep

Spec == Init /\ [][Next]_vars

-----------------------------------------------------------------------------
(* Properties.                                                             *)

\* The modules whose definition of s the linker gives to module m.
Definers(F, m, s) ==
    LET strong == {x \in Modules : F[x].linkage[s] = "ext"}
        weak == {x \in Modules : F[x].linkage[s] = "weak"}
    IN  IF F[m].linkage[s] \in {"ext", "int"} THEN {m}
        ELSE IF strong # {} THEN strong
        ELSE {x \in weak : \A y \in weak : x <= y}

\* The definitions s stands for in module m, aliases followed to their aliasee.
Resolve(F, m, s) ==
    UNION {IF s \in Aliases THEN {<<x, u[2]>> : u \in {w \in original[x].uses : w[1] = s}}
           ELSE {<<x, s>>} : x \in Definers(F, m, s)}

SameMeaning(m, s) == Resolve(file, m, s) = Resolve(original, m, s)

TypeOK ==
    /\ \E j \in Jobs : options = j.options /\ original = j.files
    /\ file \in [Modules -> Files]
    /\ \A m \in Modules : Consistent(file[m])
    /\ refs \in [Modules -> [calls : SUBSET Names, references : SUBSET Names]]
    /\ iface \in [calls : SUBSET (Names \X Args), references : SUBSET Names]
    /\ rewrites \in [Modules -> SUBSET Rules]
    /\ stage \in Stages
    /\ pending \subseteq Modules
    /\ round \in 0..MaxRounds
    /\ progress \in BOOLEAN

\* No link failure: a name that a module declares and that the original program
\* exported, or that a pass made up, is exported by some module.
LinkClosed ==
    \A m \in Modules : \A s \in DeclaredIn(file[m]) :
        (s \in SpecNames \/ \E x \in Modules : s \in ExportedBy(original[x]))
            => \E x \in Modules : s \in ExportedBy(file[x])

\* The functions that modules m and x of the program slash was started on both
\* define: static or weak in one of them, or the program does not link.
Namesakes(m, x) == Functions \cap DefinedIn(original[m]) \cap DefinedIn(original[x])

\* The function that s is, or is a specialization of.
FunctionOf(s) == IF s \in SpecNames THEN s[1] ELSE s

\* No link failure of the other kind: two modules never both export a strong
\* definition of one name, but for namesakes.  SpecializeComponent finds the function
\* of a recorded call by its name, static or not, and exports the specialization that
\* it makes; TransformComponent exports a static function that a rewritten call passed.
NoDuplicateSymbols ==
    \A m \in Modules : \A x \in Modules \ {m} :
        \A s \in Strong(file[m]) \cap Strong(file[x]) : FunctionOf(s) \in Namesakes(m, x)

\* A name still stands for the definition it stood for in the program that was
\* given to slash; a call of __occam_spec.f(a) stands for f, called with a (where the
\* module of f still knows a: the optimizer may find that f does not use it).
NamePreserved(m, s) ==
    original[m].linkage[s] # "absent" \/ s \in LibCalls => SameMeaning(m, s)

SpecPreserved(m, s) ==
    /\ Definers(file, m, s) # {}
    /\ \A x \in Definers(file, m, s) :
        /\ \E n \in {s[1]} \cup Aliases : Resolve(original, m, n) = {<<x, s[1]>>}
        /\ s[2] \in Functions /\ original[m].linkage[s[2]] # "absent"
                              /\ file[x].linkage[s[2]] # "absent"
             => Resolve(file, x, s[2]) = Resolve(original, m, s[2])

\* ("__occam_spec.f(a)" itself refers to a, which its module may never have known.)
\* Nothing is said of a function with a namesake, nor of a specialization of one or for
\* one: a rule is applied, and its argument declared, by name.
Ambiguous == {s \in Functions : \E x, y \in Modules : x # y /\ s \in Namesakes(x, y)}

MeaningPreserved ==
    \A m \in Modules : \A u \in file[m].uses :
        \/ FunctionOf(u[2]) \in Ambiguous
        \/ u[2] \in SpecNames /\ u[2][2] \in Ambiguous
        \/ IF u[2] \in SpecNames THEN SpecPreserved(m, u[2])
           ELSE (u[1] \in SpecNames /\ u[1][2] = u[2]) \/ NamePreserved(m, u[2])

\* InterRewriter.cpp says that it specializes call sites "if the callee is
\* external": a use of a specialization declared by inter_rewrite stands for a
\* call of a function the module did not define.
RewritesExternalCallees ==
    \A m \in Modules : \A u \in file[m].uses :
        u[2] \in SpecNames /\ file[m].linkage[u[2]] = "decl"
            => u[2][1] \notin DefinedIn(original[m])

\* A loop that max_fixpoint_iterations does not cut off ends with every call rewritten
\* that a rule of its last round is for, also the calls that the rewriter missed in
\* an earlier round: any(rws) does not lose the progress of one module.
RewritesFinished ==
    stage \in {"strip", "linked"} /\ round < MaxRounds =>
        \A m \in Modules : \A r \in RulesOfOthers(m) : Matches(file[m], r) = {}

=============================================================================
