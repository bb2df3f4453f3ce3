------------------------------- MODULE Devirt -------------------------------
(***************************************************************************)
(* Devirtualization, src/src/transforms/DevirtFunctions.cpp and its pass:  *)
(* an indirect call whose targets are known becomes a call of a bounce     *)
(* function, which compares the pointer with each target and calls the one *)
(* it is equal to.                                                         *)
(*                                                                         *)
(* The module P is the record of ClassHierarchy with                       *)
(*   names      its functions, sorted by name                              *)
(*   type       their types, records with ret, this, rest                  *)
(*   eligible   the functions that a pointer may stand for: all but        *)
(*              intrinsics, main, verifier functions and local functions   *)
(*              whose address is not taken                                 *)
(*   calls      the calls in their order: `kind` is direct, asm or         *)
(*              indirect, `through` is the type the pointer was stored     *)
(*              with (its type before a cast of the address it is read     *)
(*              from), `may` the functions it points to when the program   *)
(*              runs                                                       *)
(*   dsa        for each call the functions the pointer analysis found and *)
(*              whether they are all of them (complete); it is external    *)
(***************************************************************************)
EXTENDS ClassHierarchy

CONSTANTS
    Programs,   \* the modules to start from
    Options     \* the options of the pass: records with cha, incomplete, allowIndirect, max

\* What the pointer analysis promises: where it is complete, it has found all callees.
ASSUME DsaIsSound ==
    \A P \in Programs : \A c \in DOMAIN P.calls :
        P.dsa[c].complete => P.calls[c].may \subseteq P.dsa[c].targets

IsType(t) == t = [ret |-> t.ret, this |-> t.this, rest |-> t.rest]

\* The list of names has all functions that a pointer may stand for, and every pointer is
\* stored with a function type.
ASSUME ProgramsAssumption ==
    \A P \in Programs :
        /\ P.names \in Seq(Range(P.names)) /\ P.eligible \subseteq Range(P.names)
        /\ P.calls \in Seq(Range(P.calls))
        /\ \A c \in DOMAIN P.calls : IsType(P.calls[c].through)

\* A table of the C++ ABI: what precedes the type information are offsets, what follows it
\* are methods, and a call through a primary base class uses the table as well.
IsTable(P, array) ==
    /\ array.entries \in Seq(Range(array.entries))
    /\ \E t \in DOMAIN array.entries :
          /\ array.entries[t] = Typeinfo(array.class)
          /\ \A i \in DOMAIN array.entries :
                /\ i < t => array.entries[i].kind = "offset"
                /\ i > t => array.entries[i].kind \in {"function", "pure", "alias"}
    /\ array.statics \in Seq(Structs(P))

\* The first table of a class is the one for calls through the class itself.
IsPrimary(P, i) ==
    LET array == P.tables[i]
    IN  array.owner \in Range(array.statics) =>
            /\ array.owner = Last(array.statics)
            /\ \A j \in DOMAIN P.tables : P.tables[j].owner = array.owner => i <= j

\* An object has a table for its static class, with a method at the place that is called:
\* no object is of a class whose method is pure.
HasMethod(P, d, call) ==
    LET array == ArrayFor(P, d, call.type.this)
        t == IndexOfTypeinfo(array)
    IN  /\ \E i \in DOMAIN P.tables : P.tables[i].owner = d /\ call.type.this \in Range(P.tables[i].statics)
        /\ t + 1 + call.slot \in DOMAIN array.entries
        /\ array.entries[t + 1 + call.slot].kind \in {"function", "alias"}

\* What the C++ ABI and the language promise.
ASSUME HierarchyAssumption ==
    \A P \in Programs :
        /\ P.structs \in Seq(Structs(P)) /\ NoClass \notin Structs(P)
        /\ P.tables \in Seq(Range(P.tables))
        /\ \A i \in DOMAIN P.tables : IsTable(P, P.tables[i]) /\ IsPrimary(P, i)
        /\ \A c \in DOMAIN P.calls : \A d \in P.calls[c].objects :
              P.calls[c].slot \in Nat /\ HasMethod(P, d, P.calls[c])

VARIABLES
    program,
    options,
    resolver,    \* the resolver that is active: "none", "cha" or "dsa"; then "done" or "aborted"
    worklist,    \* the calls to transform; the last one is taken first
    targetsMap,  \* the targets recorded by the resolver for each call
    bounceMap,   \* its bounce functions, in the order of insertion
    bounces,     \* the bounce functions of the module
    callee       \* for each call 0, the pointer, or its bounce function

vars == <<program, options, resolver, worklist, targetsMap, bounceMap, bounces, callee>>

NoTargets == <<>>
Calls == DOMAIN program.calls
Call(c) == program.calls[c]

---------------------------------------------------------------------------
(* Targets                                                                 *)

\* All functions, whatever their type.
TypesTargetsOfAnyType(P, call) == P.eligible

\* The functions of a type; the type is the one before the cast of a load's address.
TypesTargets(P, call) == {f \in P.eligible : P.type[f] = call.through}

\* Without the question whether the pointer analysis is complete.
DsaTargetsUnchecked(P, opts, c) ==
    LET refined == P.dsa[c].targets \cap TypesTargets(P, P.calls[c])
    IN  IF P.calls[c].kind = "indirect" /\ Cardinality(refined) <= opts.max
        THEN Sublist(P.names, refined)
        ELSE NoTargets

\* The constructor of CallSiteResolverByDsa, for one call.
DsaTargets(P, opts, c) ==
    LET refined == P.dsa[c].targets \cap TypesTargets(P, P.calls[c])
    IN  IF /\ P.calls[c].kind = "indirect"
           /\ opts.incomplete \/ P.dsa[c].complete
           /\ Cardinality(refined) <= opts.max
        THEN Sublist(P.names, refined)
        ELSE NoTargets

\* CallSiteResolverByCHA::getTargets: what was not in the map is computed and recorded,
\* but the query that computed it returns nothing.
ChaComputes(c) == targetsMap[c] = NoTargets
ChaTargets(c) == IF ChaComputes(c) THEN NoTargets ELSE targetsMap[c]
ChaFound(c) ==
    LET found == ResolveVirtualCall(program, Call(c))
    IN  Sublist(program.names, found)

GetTargets(c) == IF resolver = "cha" THEN ChaTargets(c) ELSE targetsMap[c]
Recorded(c) ==
    IF resolver = "cha" /\ ChaComputes(c)
    THEN [targetsMap EXCEPT ![c] = ChaFound(c)] ELSE targetsMap

---------------------------------------------------------------------------
(* Bounce functions                                                        *)

\* std::equal compares as many functions as the cached list has; where the list of the
\* call is shorter it reads on behind its end, with any result.
EqualTargets(cached, targets) ==
    LET n == IF Len(cached) < Len(targets) THEN Len(cached) ELSE Len(targets)
        same == SubSeq(cached, 1, n) = SubSeq(targets, 1, n)
    IN  IF same /\ Len(cached) > Len(targets) THEN BOOLEAN ELSE {same}

\* find returns the first of the bounce functions with the type of the call.
CachedFor(c) == Sublist(bounceMap, {b \in Range(bounceMap) : b.type = Call(c).type})

\* The bounce function to reuse, or 0.
GetBounceFunction(c) ==
    IF CachedFor(c) = <<>> \/ GetTargets(c) = NoTargets THEN {0}
    ELSE {IF equal THEN Head(CachedFor(c)).bounce ELSE 0 :
             equal \in EqualTargets(Head(CachedFor(c)).targets, GetTargets(c))}

\* What a bounce function does with a pointer to none of its targets.
Default(type) ==
    IF ~options.allowIndirect THEN "unreachable"
    ELSE IF type.ret = "void" THEN "return" ELSE "indirect"

CacheBounce(c, b) == Append(bounceMap, [type |-> Call(c).type, targets |-> GetTargets(c), bounce |-> b])

NewBounce(c) == [type |-> Call(c).type, targets |-> GetTargets(c), default |-> Default(Call(c).type)]

---------------------------------------------------------------------------
(* The pass                                                                *)

Init ==
    /\ program \in Programs
    /\ options \in Options
    /\ resolver = "none"
    /\ worklist = <<>>
    /\ targetsMap = [c \in DOMAIN program.calls |-> NoTargets]
    /\ bounceMap = <<>>
    /\ bounces = <<>>
    /\ callee = [c \in DOMAIN program.calls |-> 0]

\* visit(M): indirect calls that are neither inline assembly nor rewritten already.
IndirectCalls ==
    Sublist([c \in Calls |-> c], {c \in Calls : Call(c).kind = "indirect" /\ callee[c] = 0})

StartCHA ==
    /\ resolver = "none"
    /\ options.cha
    /\ resolver' = "cha"
    /\ worklist' = IndirectCalls
    /\ UNCHANGED <<program, options, targetsMap, bounceMap, bounces, callee>>

StartDsa ==
    /\ resolver = (IF options.cha THEN "cha" ELSE "none")
    /\ worklist = <<>>
    /\ resolver' = "dsa"
    /\ targetsMap' = [c \in Calls |-> IF callee[c] = 0 THEN DsaTargets(program, options, c) ELSE NoTargets]
    /\ bounceMap' = <<>>
    /\ worklist' = IndirectCalls
    /\ UNCHANGED <<program, options, bounces, callee>>

Finish ==
    /\ resolver = "dsa" /\ worklist = <<>>
    /\ resolver' = "done"
    /\ UNCHANGED <<program, options, worklist, targetsMap, bounceMap, bounces, callee>>

Current == Last(worklist)
Pop == worklist' = Front(worklist)

\* The class hierarchy analysis runs into llvm_unreachable while it resolves the call.
Abort ==
    /\ resolver = "cha" /\ worklist # <<>>
    /\ ChaComputes(Current) /\ ResolveAborts(program, Call(Current))
    /\ resolver' = "aborted"
    /\ UNCHANGED <<program, options, worklist, targetsMap, bounceMap, bounces, callee>>

Resolving ==
    /\ resolver \in {"cha", "dsa"} /\ worklist # <<>>
    /\ resolver = "cha" => ~(ChaComputes(Current) /\ ResolveAborts(program, Call(Current)))

LeaveIndirect ==
    /\ Resolving
    /\ 0 \in GetBounceFunction(Current) /\ GetTargets(Current) = NoTargets
    /\ targetsMap' = Recorded(Current)
    /\ Pop
    /\ UNCHANGED <<program, options, resolver, bounceMap, bounces, callee>>

ReuseBounce ==
    /\ Resolving
    /\ \E b \in GetBounceFunction(Current) \ {0} : callee' = [callee EXCEPT ![Current] = b]
    /\ Pop
    /\ UNCHANGED <<program, options, resolver, targetsMap, bounceMap, bounces>>

MakeBounce ==
    /\ Resolving
    /\ 0 \in GetBounceFunction(Current) /\ GetTargets(Current) # NoTargets
    /\ bounces' = Append(bounces, NewBounce(Current))
    /\ bounceMap' = CacheBounce(Current, Len(bounces) + 1)
    /\ callee' = [callee EXCEPT ![Current] = Len(bounces) + 1]
    /\ Pop
    /\ UNCHANGED <<program, options, resolver, targetsMap>>

Ended == resolver \in {"done", "aborted"} /\ UNCHANGED vars

Next ==
    \/ StartCHA \/ StartDsa \/ Abort \/ LeaveIndirect \/ ReuseBounce \/ MakeBounce \/ Finish
    \/ Ended

Spec == Init /\ [][Next]_vars

---------------------------------------------------------------------------
(* Properties                                                              *)

BounceOf(c) == bounces[callee[c]]

\* The function that the bounce function of call c calls for pointer f.
Reached(c, f) ==
    IF f \in Range(BounceOf(c).targets) \/ BounceOf(c).default = "indirect" THEN f
    ELSE BounceOf(c).default

\* A list that continues the cached one counts as equal to it.
ReusedPrefix(c) ==
    /\ BounceOf(c).targets # DsaTargets(program, options, c)
    /\ IsPrefix(BounceOf(c).targets, DsaTargets(program, options, c))

\* A rewritten call calls the function its pointer stands for. It does not where the
\* option for incomplete calls was given, where the function has another type than the
\* pointer and was filtered out, and where a bounce function for the first of its targets
\* was reused (DevirtFunctions.cpp:214 and 301).
CallsKeepTheirCallee ==
    \A c \in Calls : callee[c] # 0 =>
        \A f \in Call(c).may :
            \/ Reached(c, f) = f
            \/ ~program.dsa[c].complete /\ options.incomplete
            \/ f \notin TypesTargets(program, Call(c))
            \/ ReusedPrefix(c)

\* The same without the exceptions of the code: a call is resolved if the pointer analysis
\* computes all possible callees (DevirtFunctionsPass.cpp:4-9).
ResolvedMeansAllCallees ==
    \A c \in Calls : callee[c] # 0 /\ program.dsa[c].complete =>
        \A f \in Call(c).may : Reached(c, f) = f

\* A cast of the address a pointer is read from that leaves its type or drops its result.
CastDropsResult(call) == call.type \in {call.through, [call.through EXCEPT !.ret = "void"]}

\* The direct calls of a bounce function pass the parameters that the target has, and what
\* they return is what the call returns, as long as a cast of the address the pointer is
\* read from does no more than drop a result (the case that typeAliasId is written for).
DirectCallsMatch ==
    \A c \in Calls : callee[c] # 0 /\ CastDropsResult(Call(c)) =>
        \A i \in DOMAIN BounceOf(c).targets :
            LET type == program.type[BounceOf(c).targets[i]]
            IN  /\ type.this = Call(c).type.this /\ type.rest = Call(c).type.rest
                /\ Call(c).type.ret \in {type.ret, "void"}

---------------------------------------------------------------------------
(* Properties of the class hierarchy analysis                              *)

VirtualCalls == {c \in Calls : Resolvable(Call(c)) /\ Call(c).pattern = "slot"}

AliasUpTo(array, slot) ==
    \E i \in DOMAIN array.entries : array.entries[i].kind = "alias" /\ i <= IndexOfTypeinfo(array) + 1 + slot

\* The struct that the analysis takes for the one of the table's class.
FoundFor(P, array) == ClassType(P, AfterLastOf(array.class))

\* A table that comes before table i and whose class is mistaken for d.
Namesake(P, d, i) ==
    \E j \in 1..(i - 1) : P.tables[j].owner # d /\ FoundFor(P, P.tables[j]) = d

\* From static class s on, each class of the array has its primary base class as an element.
Embeds(P, array, s) ==
    \E k \in DOMAIN array.statics :
        /\ array.statics[k] = s
        /\ \A i \in (k + 1)..Len(array.statics) : array.statics[i - 1] \in P.members[array.statics[i]]

\* The candidates of a virtual call contain the function that an object of any class below
\* its static class dispatches to. Missed are the classes declared as struct and those whose
\* name has a letter of "typeinfo for", as they are not found by that name; those that
\* another class's name ends with after its last such letter; those with a base class
\* between them and the static class whose padding is used again, so that it is an element
\* by the struct X.base; the tables of second base classes; the functions behind an alias
\* in the table; and overriding functions with a result of their own.
ChaCoversDispatch ==
    \A c \in VirtualCalls : ResolveAborts(program, Call(c)) \/
        \A d \in Call(c).objects :
            LET i == TableFor(program, d, Call(c).type.this)
                array == program.tables[i]
                f == Dispatch(program, d, Call(c))
            IN  \/ f \in ResolveVirtualCall(program, Call(c))
                \/ FoundFor(program, array) # d
                \/ Namesake(program, d, i)
                \/ ~Embeds(program, array, Call(c).type.this)
                \/ d \notin Range(array.statics)
                \/ AliasUpTo(array, Call(c).slot)
                \/ ~MatchVirtualSignature(Call(c).type, program.type[f])

\* Virtual calls are resolved with the class hierarchy before the pointer analysis is asked
\* (DevirtFunctionsPass.cpp:31-34).
ChaResolvesFirst ==
    resolver = "dsa" /\ options.cha =>
        \A c \in VirtualCalls : ResolveVirtualCall(program, Call(c)) # {} => callee[c] # 0
=============================================================================
