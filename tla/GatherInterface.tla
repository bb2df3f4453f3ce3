-------------------------- MODULE GatherInterface --------------------------
(***************************************************************************)
(* Interfaces: the pass Pinterface (src/GatherInterface.cpp) with the      *)
(* merging of calls (src/PrevirtualizeInterfaces.cpp), and passes.deep     *)
(* (razor/passes.py), which repeats it over all modules until the          *)
(* interface does not grow.  slash first runs the pass once on every       *)
(* module, without entries, and then calls deep.                           *)
(*                                                                         *)
(* A module is the list of its functions, their linkage and, for each      *)
(* definition, the list of its call sites.  An argument is "any", a        *)
(* constant, or a function.  The interface keeps no counts: nothing reads  *)
(* them.  Intrinsics are left out.                                         *)
(***************************************************************************)
EXTENDS Integers, Sequences, FiniteSets, SequencesExt

CONSTANTS
    NModules,      \* the modules are 1 .. NModules
    Functions,     \* the functions of all modules
    Constants,     \* the constant arguments
    Arity,         \* the number of parameters of a function
    MainCalls,     \* the calls of interface.mainInterface (it extends the references
                   \* with the letters of a name each, which name nothing)
    Programs       \* the programs slash may be started on

Modules == 1..NModules
Indirect == "indirect"                    \* the callee of a call by pointer
Args == {"any"} \cup Constants \cup Functions
Sites == [callee : Functions \cup {Indirect}, args : Seq(Args)]
Linkages == {"absent", "decl", "ext", "int"}
ModuleFiles == [order : Seq(Functions),
                linkage : [Functions -> Linkages],
                body : [Functions -> Seq(Sites)]]

\* The nodes of LLVM's call graph that are not functions.
ExternalCalling == "external calling node"
CallsExternal == "calls external node"
NoNode == "no node"
Nodes == Functions \cup {ExternalCalling, CallsExternal}

Calls == Functions \X Seq(Args)
Interfaces == [calls : SUBSET Calls, references : SUBSET Functions]

ASSUME ModulesAssumption == NModules \in Nat \ {0}
ASSUME FunctionsAssumption == IsFiniteSet(Functions)
ASSUME ArityAssumption == Arity \in [Functions -> Nat]
ASSUME MainAssumption == MainCalls \in SUBSET Calls
ASSUME ProgramsAssumption == Programs \in SUBSET [Modules -> ModuleFiles]
ASSUME NodesAreNotFunctions ==
    Functions \cap {ExternalCalling, CallsExternal, NoNode, Indirect, "any"} = {}

VARIABLES
    program,       \* the modules
    phase,         \* "references", "deep" or "done"
    l,             \* the module the pass runs on
    running,       \* whether the pass runs
    queue,         \* its stack of call graph nodes
    visited,       \* the nodes that pushed a callee
    cgn,           \* the node whose call records are being read, or NoNode
    pos,           \* the next call record of cgn
    x,             \* the interface the pass builds
    refs,          \* the interface of each module
    iface,         \* the interface deep builds, and writes to the entry file
    progress       \* whether iface grew in this round

vars == <<program, phase, l, running, queue, visited, cgn, pos, x, refs, iface, progress>>

-----------------------------------------------------------------------------
(* One module.                                                             *)

Linkage(f) == program[l].linkage[f]
Present == {f \in Functions : Linkage(f) # "absent"}
Declared == {f \in Functions : Linkage(f) = "decl"}

\* The functions whose address module l takes: here, by passing them.
AddressTaken ==
    {a \in Functions : \E f \in Functions : \E i \in DOMAIN program[l].body[f] :
        a \in Range(program[l].body[f][i].args)}

\* What can be called from outside of the module or by pointer.
Visible == {f \in Present : Linkage(f) # "int"} \cup AddressTaken

\* The call records of a node.  The external calling node has one for every
\* visible function; here the others are there too, and IsRecord skips them.
Records(n) ==
    IF n = ExternalCalling
    THEN [i \in DOMAIN program[l].order |-> [callee |-> program[l].order[i], args |-> <<>>]]
    ELSE program[l].body[n]

IsRecord(n, record) == n = ExternalCalling => record.callee \in Visible

\* The node a call record leads to.
Target(record) == IF record.callee = Indirect THEN CallsExternal ELSE record.callee

-----------------------------------------------------------------------------
(* ComponentInterface.                                                     *)

EmptyInterface == [calls |-> {}, references |-> {}]
CalledNames(S) == {c[1] : c \in S}

\* PrevirtType::refines
Refines(recorded, actual) == recorded = "any" \/ recorded = actual

AnyArgs(f) == [i \in 1..Arity[f] |-> "any"]

\* Mutant of Call: entries are compared with the wrong side of the call.
CallWidening(S, f, args) == S \cup {<<f, [i \in DOMAIN args |-> args[1]]>>}

\* call: the iterator over the actual arguments is not advanced, so every
\* argument of an entry is compared with the first actual argument.
Call(S, f, args) ==
    IF \E c \in S : c[1] = f /\ \A i \in DOMAIN c[2] : Refines(c[2][i], args[1])
    THEN S
    ELSE S \cup {<<f, args>>}

\* callAny
CallAny(S, f) ==
    IF \E c \in S : c[1] = f /\ Range(c[2]) \subseteq {"any"}
    THEN S
    ELSE S \cup {<<f, AnyArgs(f)>>}

-----------------------------------------------------------------------------
Init ==
    /\ program \in Programs
    /\ phase = "references"
    /\ l = 1
    /\ running = FALSE
    /\ queue = <<>>
    /\ visited = {}
    /\ cgn = NoNode
    /\ pos = 1
    /\ x = EmptyInterface
    /\ refs = [m \in Modules |-> EmptyInterface]
    /\ iface = [calls |-> MainCalls, references |-> {}]
    /\ progress = FALSE

\* What the pass starts from: everything visible, or what the interface in
\* the entry file names, in the order of a hash table.
Starts ==
    IF phase = "references" THEN {<<ExternalCalling>>}
    ELSE SetToSeqs(CalledNames(iface.calls) \cap Present)

StartPass ==
    /\ phase # "done"
    /\ ~running
    /\ running' = TRUE
    /\ queue' \in Starts
    /\ visited' = {}
    /\ cgn' = NoNode
    /\ pos' = 1
    /\ x' = EmptyInterface
    /\ UNCHANGED <<program, phase, l, refs, iface, progress>>

\* Mutant of Pop: the calls external node is read like a function.
PopWithoutReplacing ==
    /\ running
    /\ cgn = NoNode
    /\ queue # <<>>
    /\ queue' = Front(queue)
    /\ pos' = 1
    /\ cgn' = IF Last(queue) \in Declared THEN NoNode ELSE Last(queue)
    /\ UNCHANGED <<program, phase, l, running, visited, x, refs, iface, progress>>

\* Takes a node off the stack.  A declaration has nothing to read; a call by
\* pointer may reach everything the external calling node leads to.
Pop ==
    /\ running
    /\ cgn = NoNode
    /\ queue # <<>>
    /\ queue' = Front(queue)
    /\ pos' = 1
    /\ LET n == Last(queue)
       IN  cgn' = CASE n \in Declared -> NoNode
                    [] n = CallsExternal /\ ExternalCalling \in visited -> NoNode
                    [] n = CallsExternal /\ ExternalCalling \notin visited -> ExternalCalling
                    [] OTHER -> n
    /\ UNCHANGED <<program, phase, l, running, visited, x, refs, iface, progress>>

\* Reads one call record of cgn.  A call of a declared function is recorded.
\* The target of another record is pushed if cgn is not yet visited, and this
\* marks cgn as visited: only the first such record is ever followed.
ReadRecord ==
    /\ cgn # NoNode
    /\ pos <= Len(Records(cgn))
    /\ pos' = pos + 1
    /\ LET r == Records(cgn)[pos]
           external == cgn # ExternalCalling /\ r.callee \in Declared
           follow == IsRecord(cgn, r) /\ ~external /\ cgn \notin visited
       IN  /\ x' = IF ~IsRecord(cgn, r) THEN x
                   ELSE IF cgn = ExternalCalling THEN [x EXCEPT !.calls = CallAny(@, r.callee)]
                   ELSE IF external THEN [x EXCEPT !.calls = Call(@, r.callee, r.args)]
                   ELSE x
           /\ queue' = IF follow THEN Append(queue, Target(r)) ELSE queue
           /\ visited' = IF follow THEN visited \cup {cgn} ELSE visited
    /\ UNCHANGED <<program, phase, l, running, cgn, refs, iface, progress>>

LeaveNode ==
    /\ cgn # NoNode
    /\ pos > Len(Records(cgn))
    /\ cgn' = NoNode
    /\ UNCHANGED <<program, phase, l, running, queue, visited, pos, x, refs, iface, progress>>

\* The traversal has ended: the declarations become references.
Finished ==
    /\ running
    /\ cgn = NoNode
    /\ queue = <<>>

Result == [x EXCEPT !.references = @ \cup Declared]

ReferencesDone ==
    /\ Finished
    /\ phase = "references"
    /\ running' = FALSE
    /\ refs' = [refs EXCEPT ![l] = Result]
    /\ IF l < NModules
       THEN l' = l + 1 /\ phase' = phase
       ELSE l' = 1 /\ phase' = "deep"
    /\ UNCHANGED <<program, queue, visited, cgn, pos, x, iface, progress>>

\* joinInterfaces
Join(into, merge) ==
    [calls |-> into.calls \cup merge.calls,
     references |-> into.references \cup merge.references]

\* Mutant of DeepDone: there is one round.
DeepDoneOnce ==
    /\ Finished
    /\ phase = "deep"
    /\ running' = FALSE
    /\ iface' = Join(iface, Result)
    /\ l' = IF l < NModules THEN l + 1 ELSE 1
    /\ phase' = IF l < NModules THEN phase ELSE "done"
    /\ UNCHANGED <<program, queue, visited, cgn, pos, x, refs, progress>>

\* Mutant of DeepDone: progress is not reset at the start of a round.
DeepDoneSticky ==
    /\ Finished
    /\ phase = "deep"
    /\ running' = FALSE
    /\ iface' = Join(iface, Result)
    /\ l' = IF l < NModules THEN l + 1 ELSE 1
    /\ progress' = (progress \/ iface' # iface)
    /\ phase' = IF l = NModules /\ ~progress' THEN "done" ELSE phase
    /\ UNCHANGED <<program, queue, visited, cgn, pos, x, refs>>

\* deep joins the result; after the last module it starts another round if
\* something of this round was new.
DeepDone ==
    /\ Finished
    /\ phase = "deep"
    /\ running' = FALSE
    /\ iface' = Join(iface, Result)
    /\ LET grew == progress \/ iface' # iface
       IN  IF l < NModules
           THEN l' = l + 1 /\ progress' = grew /\ phase' = phase
           ELSE /\ l' = 1
                /\ progress' = FALSE
                /\ phase' = IF grew THEN "deep" ELSE "done"
    /\ UNCHANGED <<program, queue, visited, cgn, pos, x, refs>>

Next == StartPass \/ Pop \/ ReadRecord \/ LeaveNode \/ ReferencesDone \/ DeepDone

Spec == Init /\ [][Next]_vars
FairSpec == Spec /\ WF_vars(Next)

-----------------------------------------------------------------------------
(* Properties.                                                             *)

TypeOK ==
    /\ program \in Programs
    /\ phase \in {"references", "deep", "done"}
    /\ l \in Modules
    /\ running \in BOOLEAN
    /\ queue \in Seq(Nodes)
    /\ visited \in SUBSET Nodes
    /\ cgn \in (Nodes \cup {NoNode}) \ {CallsExternal}
    /\ pos \in Nat \ {0}
    /\ x \in Interfaces
    /\ refs \in [Modules -> Interfaces]
    /\ iface \in Interfaces
    /\ progress \in BOOLEAN

\* The calls of declared functions that are really made in module m.
RealCalls(m) ==
    {<<r.callee, r.args>> : r \in {s \in UNION {Range(program[m].body[f]) : f \in Functions} :
        s.callee # Indirect /\ program[m].linkage[s.callee] = "decl"}}

Justified(m, c) == c \in RealCalls(m) \/ c[2] = AnyArgs(c[1])

\* An entry of an interface with a constant stands for a call with exactly
\* these arguments: InterSpecializer makes a copy for it.  Nothing that is
\* merged, here or by joinInterfaces, invents a combination of arguments.
EntriesAreReal ==
    /\ running => \A c \in x.calls : Justified(l, c)
    /\ \A m \in Modules : \A c \in refs[m].calls : Justified(m, c)
    /\ \A c \in iface.calls : c \in MainCalls \/ \E m \in Modules : Justified(m, c)

\* A definition calls another of its module, or an exported one of another
\* module that it declares.
Definitions == {d \in Modules \X Functions : program[d[1]].linkage[d[2]] \in {"ext", "int"}}
CallsDefinition(d, e) ==
    /\ \E i \in DOMAIN program[d[1]].body[d[2]] : program[d[1]].body[d[2]][i].callee = e[2]
    /\ e[1] # d[1] => /\ program[e[1]].linkage[e[2]] = "ext"
                     /\ program[d[1]].linkage[e[2]] = "decl"

\* The definitions that may run when main is called, over all modules: the
\* smallest set with those of main that holds what its members call.
ClosedUnderCalls(T) ==
    /\ {d \in Definitions : d[2] \in CalledNames(MainCalls)} \subseteq T
    /\ \A d \in T, e \in Definitions : CallsDefinition(d, e) => e \in T
Reached == {e \in Definitions : \A T \in SUBSET Definitions : ClosedUnderCalls(T) => e \in T}

\* The calls of declared functions in them.
CallsMade ==
    UNION {{<<r.callee, r.args>> : r \in {s \in Range(program[d[1]].body[d[2]]) :
        s.callee # Indirect /\ program[d[1]].linkage[s.callee] = "decl"}} : d \in Reached}

Matched(c, S) ==
    \E e \in S : /\ e[1] = c[1]
                 /\ Len(e[2]) = Len(c[2])
                 /\ \A i \in DOMAIN e[2] : Refines(e[2][i], c[2][i])

\* No definition has two calls that are followed.
Unbranched ==
    \A m \in Modules, f \in Functions :
        Cardinality({i \in DOMAIN program[m].body[f] :
            LET c == program[m].body[f][i].callee
            IN  c = Indirect \/ program[m].linkage[c] # "decl"}) <= 1

\* In a program in which no definition has two calls to follow, the interface
\* of deep names every function that a definition main may reach calls in
\* another module, whatever the order in which modules and entries are
\* visited, and lists the very arguments of functions of one parameter.
CompleteWhenUnbranched ==
    phase = "done" /\ Unbranched =>
        \A c \in CallsMade : IF Len(c[2]) <= 1 THEN Matched(c, iface.calls)
                             ELSE c[1] \in CalledNames(iface.calls)

\* OnlyOnceSpecPolicy.cpp:100: "interface contains all possible calls to
\* calleeF from *all* the other modules."
AllCallsInInterface ==
    phase = "done" => \A c \in CallsMade : Matched(c, iface.calls)

\* deep ends: the interface cannot grow for ever and no traversal cycles,
\* recursion and calls by pointer included.
Terminates == <>(phase = "done")
=============================================================================
