-------------------------- MODULE IntraSpecialize --------------------------
(***************************************************************************)
(* The intra-module specializer: the pass Ppeval (IntraSpecializer.cpp)    *)
(* with its table (SpecializationTable.cpp), the naming and cloning of     *)
(* Specializer.cpp and the policies, repeated by passes.peval until it     *)
(* makes no progress.                                                      *)
(*                                                                         *)
(* The body of a function is the list of its call sites.  An argument is a *)
(* constant, a parameter of the caller, or "?": anything else.  A constant *)
(* that is one of Functions is the address of that function.  A copy       *)
(* made by the specializer is named <<f, v>>: v has the text of a constant *)
(* for each parameter of f that was replaced, "?" for the others.  The     *)
(* name of an original function is <<f, <<>>>>.  A call through an argument *)
(* a, of whatever kind, has the callee <<a, <<>>>>, too: it is a direct     *)
(* call when a is a function of the module that takes what is passed.      *)
(*                                                                         *)
(* Every site carries the call it stood for at the start ("wants"): the    *)
(* parameters among its arguments are those of the original caller, except *)
(* those that the copy the site is in was made to replace.  What it called *)
(* stays as it was written, a function or a parameter.  The code does not  *)
(* record this.                                                            *)
(***************************************************************************)
EXTENDS Integers, Sequences, FiniteSets, SequencesExt

CONSTANTS
    Functions,     \* the functions of the module
    Exported,      \* those with external linkage
    AddressTaken,  \* those whose address is taken, other than as a call's argument
    Arity,         \* their numbers of parameters
    Constants,     \* the constants that can be specialized on
    Text,          \* PrevirtType::to_string of a constant
    Programs,      \* initial modules
    Policies,      \* the values of -Ppeval-policy
    Threshold      \* -Ppeval-max-bounded

Params == <<"p1", "p2", "p3">>
Texts == {Text[c] : c \in Constants}
Args == Constants \cup Range(Params) \cup {"?"}
Names == Functions \X Seq(Texts \cup {"?"})
Wants == [fun : Functions \cup Range(Params), args : Seq(Args)]
Sites == [callee : Names \cup (Args \X {<<>>}), args : Seq(Args), wants : Wants]

Original(f) == <<f, <<>>>>
IsCopy(n) == n[2] # <<>>

ASSUME ArityAssumption == Arity \in [Functions -> 0..Len(Params)]
ASSUME ThresholdAssumption == Threshold \in Nat
ASSUME PoliciesAssumption ==
    Policies \subseteq {"aggressive", "nonrec-aggressive", "bounded", "onlyonce"}
ASSUME ConstantsAssumption ==
    (Constants \cup Functions) \cap (Range(Params) \cup {"?"}) = {} /\ "?" \notin Texts

\* A module lists its functions once, has an exported one, and a site stands for
\* the call that it is: of a function, or through a parameter of the caller.
ArgsIn(n) == Constants \cup {Params[i] : i \in 1..n} \cup {"?"}
Called(p, n, s) ==
    \/ s.callee \in DOMAIN p.body /\ Len(s.args) = Arity[s.callee[1]]
    \/ \E i \in 1..Arity[n[1]] : s.callee = Original(Params[i])
ASSUME ProgramsAssumption ==
    \A p \in Programs :
        /\ p.order \in Seq(DOMAIN p.body) /\ Range(p.order) = DOMAIN p.body
        /\ IsFiniteSet(DOMAIN p.body)
        /\ DOMAIN p.body \subseteq {Original(f) : f \in Functions}
        /\ \E f \in Exported : Original(f) \in DOMAIN p.body
        /\ \A n \in DOMAIN p.body : p.body[n] \in Seq(Sites)
        /\ \A n \in DOMAIN p.body : \A k \in DOMAIN p.body[n] :
              LET s == p.body[n][k]
              IN  /\ Called(p, n, s) /\ s.args \in Seq(ArgsIn(Arity[n[1]]))
                  /\ s.wants = [fun |-> s.callee[1], args |-> s.args]

VARIABLES
    policy,        \* the policy of this peval
    order,         \* the functions of the module, in its order
    body,          \* name -> its call sites
    made,          \* name -> the constants it was really made for ("?" if none)
    phase,         \* "optimize", "ready", "pass" or "done"
    cur,           \* the position in order of the function being specialized
    todo,          \* the number of its sites still on the worklist, the first ones
    table,         \* SpecializationTable: entries <<parent, scheme, handle>>
    copies,        \* m_num_copy_map of the bounded policy
    refused,       \* the callees the other policies computed at the start
    modified       \* whether this pass rewrote a call

vars == <<policy, order, body, made, phase, cur, todo, table, copies, refused, modified>>

-----------------------------------------------------------------------------
(* Names and copies.                                                       *)

InModule(n) == n \in DOMAIN body
\* The places of K up to i, and the r-th of them.
Count(K, i) == Cardinality(K \cap (1..i))
Place(K, r) == CHOOSE i \in K : Count(K, i) = r
Select(s, K) == [r \in 1..Cardinality(K) |-> s[Place(K, r)]]

\* The open places of v; how many of the first i places are open.
Open(v) == {j \in DOMAIN v : v[j] = "?"}
Rank(v, i) == Count(Open(v), i)

\* v with its "?"s replaced, in order, by the elements of args.
Fill(v, args) ==
    [i \in DOMAIN v |-> IF v[i] = "?" THEN args[Rank(v, i)] ELSE v[i]]

Unknown(n) == [i \in 1..n |-> "?"]
ParamsOf(n) == IF IsCopy(n) THEN Cardinality(Open(n[2])) ELSE Arity[n[1]]

\* getCalledFunction: a function that is called under another type is a bitcast.
Direct(s) == InModule(s.callee) /\ Len(s.args) = ParamsOf(s.callee)

\* What the callee of a site was made for; the site fills the open places.
MadeFor(s) == IF IsCopy(s.callee) THEN made[s.callee] ELSE Unknown(Len(s.args))
TextOf(a) == IF a \in Constants THEN Text[a] ELSE "?"

\* specializeName and the loop after it: the texts of the new constants take
\* the place of the "?"s of the name.
SpecializedName(n, scheme) ==
    <<n[1], Fill(IF IsCopy(n) THEN n[2] ELSE Unknown(Arity[n[1]]),
                 [i \in DOMAIN scheme |-> TextOf(scheme[i])])>>

\* Mutant of Renumbered: the remaining parameters keep their numbers.
RenumberedNot(scheme, a) ==
    IF \E i \in DOMAIN scheme : a = Params[i] /\ scheme[i] # "?"
    THEN scheme[CHOOSE i \in DOMAIN scheme : a = Params[i]]
    ELSE a

\* An argument of the body in a copy for scheme: constants replace parameters
\* and the parameters that are left are renumbered.
Renumbered(scheme, a) ==
    IF \E i \in DOMAIN scheme : a = Params[i]
    THEN LET i == CHOOSE j \in DOMAIN scheme : a = Params[j]
         IN  IF scheme[i] # "?" THEN scheme[i] ELSE Params[Rank(scheme, i)]
    ELSE a

CopyArgs(scheme, args) == [i \in DOMAIN args |-> Renumbered(scheme, args[i])]

\* What an argument of an original function is in a function made for v.
KnownArg(v, a) ==
    IF \E j \in DOMAIN v : a = Params[j] /\ v[j] # "?"
    THEN v[CHOOSE j \in DOMAIN v : a = Params[j]]
    ELSE a
Known(v, args) == [i \in DOMAIN args |-> KnownArg(v, args[i])]

\* CloneFunction: the body as it is now.  A call through a parameter becomes one
\* of the constant that replaces the parameter.
CopyBody(n, scheme) ==
    [k \in DOMAIN body[n] |->
        [body[n][k] EXCEPT !.callee = <<Renumbered(scheme, @[1]), @[2]>>,
                           !.args = CopyArgs(scheme, @),
                           !.wants.args = Known(Fill(made[n], scheme), @)]]

-----------------------------------------------------------------------------
(* Policies.                                                               *)

\* AggressiveSpecPolicy: the constants of the call.
Scheme(site) == [i \in DOMAIN site.args |->
                    IF site.args[i] \in Constants THEN site.args[i] ELSE "?"]
SomeConstant(site) == Range(Scheme(site)) # {"?"} /\ site.args # <<>>

DirectSites(n) == {k \in DOMAIN body[n] : Direct(body[n][k])}
Callees(S) == UNION {{body[n][k].callee : k \in DirectSites(n)} : n \in S}

\* RecursiveGuardSpecPolicy: the functions on a cycle of direct calls.
ReachableFrom(n) ==
    LET R[k \in 1..Len(order)] ==
            IF k = 1 THEN Callees({n}) ELSE LET S == R[k - 1] IN S \cup Callees(S)
    IN  R[Len(order)]
Recursive == {n \in DOMAIN body : n \in ReachableFrom(n)}

\* OnlyOnceSpecPolicy: the functions that two call sites call.
CallSites(n) == UNION {{<<m, i>> : i \in {j \in DirectSites(m) : body[m][j].callee = n}} : m \in DOMAIN body}

\* Mutant of CalledTwice: two calls are allowed.
CalledThrice == {n \in DOMAIN body : Cardinality(CallSites(n)) > 2}

CalledTwice == {n \in DOMAIN body : Cardinality(CallSites(n)) > 1}

\* Mutant of RefusedAtStart: only direct recursion is seen.
RefusedDirectRecursion ==
    CASE policy = "nonrec-aggressive" ->
             {n \in DOMAIN body : n \in {s.callee : s \in Range(body[n])}}
      [] policy = "onlyonce" -> CalledTwice
      [] OTHER -> {}

\* What the constructors of the two policies compute.
RefusedAtStart ==
    CASE policy = "nonrec-aggressive" -> Recursive
      [] policy = "onlyonce" -> CalledTwice
      [] OTHER -> {}

CopiesOf(f) == {n \in DOMAIN body : n[1] = f /\ IsCopy(n)}

\* Mutant of CopiesAtStart: the copies of earlier passes are not counted.
CopiesAtStartZero == [f \in Functions |-> 0]

\* The constructor of BoundedSpecPolicy.
CopiesAtStart == [f \in Functions |-> Cardinality(CopiesOf(f))]

\* The policy looks at a direct call whose callee is local and defined.
Asks(site) == Direct(site) /\ site.callee[1] \notin Exported /\ SomeConstant(site)
NoCopies == policy \in {"bounded", "onlyonce"}
Counts(site) == Asks(site) /\ policy = "bounded" /\ ~IsCopy(site.callee)

Accepts(site) ==
    /\ Asks(site)
    /\ NoCopies => ~IsCopy(site.callee)
    /\ site.callee \notin refused
    /\ policy = "bounded" => copies[site.callee[1]] < Threshold

-----------------------------------------------------------------------------
Init ==
    /\ policy \in Policies
    /\ \E p \in Programs :
           /\ order = p.order
           /\ body = p.body
    /\ made = [n \in DOMAIN body |-> Unknown(Arity[n[1]])]
    /\ phase = "optimize"
    /\ cur = 1
    /\ todo = 0
    /\ table = {}
    /\ copies = [f \in Functions |-> 0]
    /\ refused = {}
    /\ modified = FALSE

\* Mutant of StartPass: modified is not reset.
StartPassKeepingModified ==
    /\ phase = "ready"
    /\ phase' = "pass"
    /\ cur' = 1
    /\ todo' = Len(body[order[1]])
    /\ copies' = CopiesAtStart
    /\ refused' = RefusedAtStart
    /\ UNCHANGED <<policy, order, body, made, table, modified>>

\* runOnModule: the policy is made anew, the table of the last pass is gone.
StartPass ==
    /\ phase = "ready"
    /\ phase' = "pass"
    /\ cur' = 1
    /\ todo' = Len(body[order[1]])
    /\ copies' = CopiesAtStart
    /\ refused' = RefusedAtStart
    /\ modified' = FALSE
    /\ UNCHANGED <<policy, order, body, made, table>>

\* The next call site of the worklist, from the back.
TheSite == body[order[cur]][todo]

\* The site is left as it is.  The bounded policy has counted it all the same.
KeepSite ==
    /\ phase = "pass"
    /\ todo > 0
    /\ ~Accepts(TheSite)
    /\ todo' = todo - 1
    /\ copies' = IF Counts(TheSite) THEN [copies EXCEPT ![TheSite.callee[1]] = @ + 1]
                 ELSE copies
    /\ UNCHANGED <<policy, order, body, made, phase, cur, table, refused, modified>>

\* The version the table has for the very scheme of the site.
InTable(n, scheme) == {e \in table : e[1] = n /\ e[2] = scheme}

\* getSpecialization gives a callee an entry of its own, without a parent, if it
\* has none; addSpecialization leaves a function that has an entry alone.
WithRoot(n) == IF \E e \in table : e[3] = n THEN table ELSE table \cup {<<n, <<>>, n>>}

\* The new call: the same constants, without the arguments the copy lacks.
CallOf(copy, s) ==
    [s EXCEPT !.callee = copy,
              !.args = Select(@, Open(Scheme(s)))]

\* The copy comes from the table, from the module (by name) or is made now.
CopyFor(s) ==
    LET hit == InTable(s.callee, Scheme(s))
    IN  IF hit # {} THEN (CHOOSE e \in hit : TRUE)[3] ELSE SpecializedName(s.callee, Scheme(s))

\* The site calls the copy of n for scheme; a new copy is put at the end of the
\* module.
CallCopy(n, scheme, copy) ==
    LET known == WithRoot(n)
        rewritten == [body EXCEPT ![order[cur]][todo] = CallOf(copy, @)]
        new == ~InModule(copy)
    IN  /\ body' = [m \in (DOMAIN body) \cup {copy} |->
                       IF m = copy /\ new THEN CopyBody(n, scheme) ELSE rewritten[m]]
        /\ made' = [m \in (DOMAIN body) \cup {copy} |->
                       IF m = copy /\ new THEN Fill(made[n], scheme) ELSE made[m]]
        /\ order' = IF new THEN Append(order, copy) ELSE order
        /\ table' = IF \E e \in known : e[3] = copy THEN known
                    ELSE known \cup {<<n, scheme, copy>>}

\* trySpecializeFunction on one site.
SpecializeSite ==
    /\ phase = "pass"
    /\ todo > 0
    /\ Accepts(TheSite)
    /\ todo' = todo - 1
    /\ modified' = TRUE
    /\ copies' = IF Counts(TheSite) THEN [copies EXCEPT ![TheSite.callee[1]] = @ + 1]
                 ELSE copies
    /\ CallCopy(TheSite.callee, Scheme(TheSite), CopyFor(TheSite))
    /\ UNCHANGED <<policy, phase, cur, refused>>

\* The pass goes on with the next function of the module, copies included:
\* they are put at the end of the list that it walks.
NextFunction ==
    /\ phase = "pass"
    /\ todo = 0
    /\ cur < Len(order)
    /\ cur' = cur + 1
    /\ todo' = Len(body[order[cur + 1]])
    /\ UNCHANGED <<policy, order, body, made, phase, table, copies, refused, modified>>

\* peval runs the pass again if it printed "...progress...".
EndPass ==
    /\ phase = "pass"
    /\ todo = 0
    /\ cur = Len(order)
    /\ phase' = IF modified THEN "optimize" ELSE "done"
    /\ cur' = 1
    /\ table' = {}
    /\ UNCHANGED <<policy, order, body, made, todo, copies, refused, modified>>

\* What the module cannot reach: globaldce, at the end of optimize, removes it.
Roots == {n \in DOMAIN body : n[1] \in Exported \/ n \in {Original(f) : f \in AddressTaken}}
Mentions(s) == {s.callee} \cup {Original(f) : f \in Functions \cap Range(s.args)}
Refs(S) == (DOMAIN body) \cap (UNION {UNION {Mentions(body[n][k]) : k \in DOMAIN body[n]} : n \in S})
Closed(S) == Roots \subseteq S /\ S \subseteq DOMAIN body /\ Refs(S) \subseteq S
Live ==
    LET Reach[k \in 0..Len(order)] ==
            IF k = 0 THEN Roots ELSE LET S == Reach[k - 1] IN S \cup Refs(S)
    IN  {S \in {Reach[k] : k \in 0..Len(order)} : Closed(S)}
DeadFunctions == {n \in DOMAIN body : \A S \in Live : n \notin S}

\* An argument that is found to be the constant c was that from the start.
Folded(s, i, c) == [s EXCEPT !.args[i] = c, !.wants.args[Place(Open(MadeFor(s)), i)] = c]

\* optimize runs before every pass.  It may find that an argument is a constant;
\* the address of a function, if it is taken.
FoldArgument ==
    /\ phase = "optimize"
    /\ \E n \in DOMAIN body : \E k \in DOMAIN body[n] : \E i \in DOMAIN body[n][k].args, c \in Constants :
          /\ body[n][k].args[i] = "?" /\ (c \in Functions => c \in AddressTaken)
          /\ body' = [body EXCEPT ![n][k] = Folded(@, i, c)]
    /\ UNCHANGED <<policy, order, made, phase, cur, todo, table, copies, refused, modified>>

\* The end of optimize.
Optimize ==
    /\ phase = "optimize"
    /\ phase' = "ready"
    /\ \E S \in Live :
          /\ order' = Select(order, {i \in DOMAIN order : order[i] \in S})
          /\ body' = [n \in S |-> body[n]]
          /\ made' = [n \in S |-> made[n]]
    /\ UNCHANGED <<policy, cur, todo, table, copies, refused, modified>>

Next == StartPass \/ KeepSite \/ SpecializeSite \/ NextFunction \/ EndPass
            \/ FoldArgument \/ Optimize

Spec == Init /\ [][Next]_vars
FairSpec == Spec /\ WF_vars(Next)

-----------------------------------------------------------------------------
(* Properties.                                                             *)

\* The arguments of a site in a function made for v, with the numbers that the
\* parameters had at first.
OriginalArg(v, a) ==
    IF \E j \in Open(v) : a = Params[Rank(v, j)]
    THEN Params[CHOOSE j \in Open(v) : a = Params[Rank(v, j)]]
    ELSE a
InOriginal(v, args) == [i \in DOMAIN args |-> OriginalArg(v, args[i])]

\* A call, rewritten any number of times, directly or inside of copies of its
\* caller, still calls the function it was written for, or the one that the
\* parameter it was written with stands for, and passes what it was written with.
\* A call that was written as a direct one stays one.  The code has only names to
\* rely on: a copy is found by the text of its constants, in a table that lives
\* for one pass or in the module, and a copy of a copy by the places its name
\* leaves open.
CallsKeepMeaning ==
    \A n \in DOMAIN body : \A k \in DOMAIN body[n] :
        LET s == body[n][k]
        IN  /\ OriginalArg(made[n], s.callee[1]) = KnownArg(made[n], s.wants.fun)
            /\ s.wants.fun \in Functions => Direct(s)
            /\ Fill(MadeFor(s), InOriginal(made[n], s.args)) = s.wants.args

\* Under the bounded policy a module never holds more copies of a function
\* than -Ppeval-max-bounded, over any number of passes, although the counter
\* is made anew for each of them.
CopiesBounded ==
    policy = "bounded" => \A f \in Functions : Cardinality(CopiesOf(f)) <= Threshold

\* A version of f makes a call that was written as a call of g; a set that holds
\* what such calls lead to from f; f leads to itself.
Leads(b, f, g) ==
    \E n \in DOMAIN b : n[1] = f /\ \E k \in DOMAIN b[n] : b[n][k].wants.fun = g
ClosedAfter(b, f, T) ==
    /\ \A g \in Functions : Leads(b, f, g) => g \in T
    /\ \A g \in T : \A h \in Functions : Leads(b, g, h) => h \in T
OnCycle(b, f) == \A T \in SUBSET Functions : ClosedAfter(b, f, T) => f \in T

\* nonrec-aggressive never copies a function that is on a cycle of calls written
\* as direct ones, be they made by the functions or by their copies: the guard
\* looks for cycles of the module only when a pass starts, and functions are added
\* and calls redirected after that.  Not so for a cycle with a call that was
\* written through a parameter: it becomes direct in a copy (Specializer.cpp:150),
\* in the middle of the pass.
RecursionNotCopied ==
    policy = "nonrec-aggressive" =>
        \A f \in Functions : OnCycle(body, f) => CopiesOf(f) = {}

\* IntraSpecializer.cpp:77-78: nonrec-aggressive is "Specialize always if some
\* constant arg and function is non-recursive".  Calls through a parameter that
\* became direct in this pass make functions recursive that the guard let pass.
SpecializesRecursive == SpecializeSite /\ TheSite.callee \in Recursive
NeverRecursive == [][policy = "nonrec-aggressive" => ~SpecializesRecursive]_vars

\* IntraSpecializer.cpp:72: onlyonce is "Specialize a function if it is called
\* once".  So at any time at most one copy of a function is in use, although its
\* call may have been copied with its caller, after the policy counted the calls:
\* the caller was called once itself.  Unless it may also be called by pointer,
\* which the policy does not count: then the caller and its copy both stay, and a
\* call through a parameter may become one more direct call of it.
ByPointer == AddressTaken \cup (Functions \cap Constants)
CopiesInUse(f) == CopiesOf(f) \ DeadFunctions
AtMostOneCopy == policy = "onlyonce" => \A f \in Functions : Cardinality(CopiesInUse(f)) <= 1
OneCopyIfOnlyOnce == (\A f \in ByPointer : CopiesOf(f) = {}) => AtMostOneCopy

\* peval ends: passes cannot make progress for ever, and a pass that visits
\* the copies it makes comes to an end of them.
Terminates == <>(phase = "done")
=============================================================================
