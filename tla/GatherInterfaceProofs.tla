----------------------- MODULE GatherInterfaceProofs -----------------------
(***************************************************************************)
(* Interfaces only hold calls that are really made, and the interface of   *)
(* deep holds all of them in programs without branches: for every program, *)
(* every order of the entries and any number of rounds.                    *)
(***************************************************************************)
EXTENDS GatherInterface, FiniteSetTheorems, TLAPS

-----------------------------------------------------------------------------
\* The type of the module the pass runs on: the assumption on Programs, for l.
LEMMA ModuleType ==
    ASSUME TypeOK
    PROVE  /\ program[l].order \in Seq(Functions)
           /\ program[l].linkage \in [Functions -> Linkages]
           /\ program[l].body \in [Functions -> Seq(Sites)]
BY ProgramsAssumption DEF TypeOK, ModuleFiles

\* What AnyArgs returns is an argument list.
LEMMA AnyArgsType ==
    ASSUME NEW f \in Functions
    PROVE  AnyArgs(f) \in Seq(Args)
<1>1. Arity[f] \in Nat
  BY ArityAssumption
<1>2. "any" \in Args
  BY DEF Args
<1> QED
  BY <1>1, <1>2 DEF AnyArgs

\* Merging a call adds that call or nothing.
LEMMA CallAdds ==
    ASSUME NEW S, NEW f, NEW args
    PROVE  Call(S, f, args) \subseteq S \cup {<<f, args>>}
BY DEF Call

\* Merging an unknown call adds the call with unknown arguments or nothing.
LEMMA CallAnyAdds ==
    ASSUME NEW S, NEW f
    PROVE  CallAny(S, f) \subseteq S \cup {<<f, AnyArgs(f)>>}
BY DEF CallAny

\* The call records of a node are a sequence.
LEMMA RecordsLength ==
    ASSUME TypeOK, NEW n \in Functions \cup {ExternalCalling}
    PROVE  Len(Records(n)) \in Nat
<1>1. CASE n = ExternalCalling
  BY <1>1, ModuleType DEF Records
<1>2. CASE n # ExternalCalling
  BY <1>2, ModuleType DEF Records
<1> QED
  BY <1>1, <1>2

\* A call record of a node has a target that is a node, and the record of a
\* function's body is one of its call sites.
LEMMA RecordType ==
    ASSUME TypeOK, NEW n \in Functions \cup {ExternalCalling},
           NEW i \in 1..Len(Records(n))
    PROVE  /\ Records(n)[i].callee \in Functions \cup {Indirect}
           /\ Target(Records(n)[i]) \in Nodes
           /\ n = ExternalCalling => Records(n)[i].callee \in Functions
           /\ n # ExternalCalling => /\ n \in Functions
                                     /\ Records(n)[i] \in Range(program[l].body[n])
                                     /\ Records(n)[i].args \in Seq(Args)
<1>1. CASE n = ExternalCalling
  <2>1. Records(n) = [j \in 1..Len(program[l].order) |->
                         [callee |-> program[l].order[j], args |-> <<>>]]
    BY <1>1, ModuleType DEF Records
  <2>2. Len(Records(n)) = Len(program[l].order)
    BY <2>1, ModuleType
  <2>3. Records(n)[i].callee = program[l].order[i] /\ program[l].order[i] \in Functions
    BY <2>1, <2>2, ModuleType
  <2> QED
    BY <1>1, <2>3, NodesAreNotFunctions DEF Target, Nodes
<1>2. CASE n # ExternalCalling
  <2>1. n \in Functions /\ Records(n) = program[l].body[n]
    BY <1>2 DEF Records
  <2>2. program[l].body[n] \in Seq(Sites)
    BY <2>1, ModuleType
  <2>3. Records(n)[i] \in Sites
    BY <2>1, <2>2
  <2>4. Records(n)[i] \in Range(program[l].body[n])
    BY <2>1, <2>2 DEF Range
  <2> QED
    BY <1>2, <2>1, <2>3, <2>4 DEF Sites, Target, Nodes
<1> QED
  BY <1>1, <1>2
-----------------------------------------------------------------------------
(* Type correctness.                                                       *)

\* Adding calls to the interface under construction keeps its type.
LEMMA InterfaceType ==
    ASSUME NEW I \in Interfaces, NEW S \in SUBSET Calls
    PROVE  [I EXCEPT !.calls = S] \in Interfaces
BY DEF Interfaces

\* What the pass has gathered at its end is an interface.
LEMMA ResultType ==
    ASSUME TypeOK
    PROVE  Result \in Interfaces /\ Result.calls = x.calls
BY DEF TypeOK, Result, Interfaces, Declared

\* What joinInterfaces returns is an interface.
LEMMA JoinType ==
    ASSUME NEW I \in Interfaces, NEW J \in Interfaces
    PROVE  Join(I, J) \in Interfaces
BY DEF Join, Interfaces

\* The stack a pass starts with holds nodes.
LEMMA StartsType ==
    ASSUME NEW q \in Starts
    PROVE  q \in Seq(Nodes)
<1>1. CASE phase = "references"
  BY <1>1 DEF Starts, Nodes
<1>2. CASE phase # "references"
  <2> DEFINE names == CalledNames(iface.calls) \cap Present
  <2>1. names \subseteq Functions
    BY DEF Present
  <2>2. Cardinality(names) \in Nat
    BY <2>1, FunctionsAssumption, FS_Subset, FS_CardinalityType
  <2>3. q \in [1..Cardinality(names) -> names]
    BY <1>2 DEF Starts, SetToSeqs
  <2>4. q \in [1..Cardinality(names) -> Nodes]
    BY <2>1, <2>3 DEF Nodes
  <2>5. \E n \in Nat : q \in [1..n -> Nodes]
    BY <2>2, <2>4
  <2> HIDE DEF names
  <2> QED
    BY <2>5
<1> QED
  BY <1>1, <1>2

\* The value of cgn between two nodes.
LEMMA NoNodeType == NoNode \in (Nodes \cup {NoNode}) \ {CallsExternal}
BY DEF NoNode, CallsExternal

\* Every action keeps the types.
LEMMA TypeStep == TypeOK /\ [Next]_vars => TypeOK'
<1> SUFFICES ASSUME TypeOK, [Next]_vars
             PROVE  TypeOK'
  OBVIOUS
<1>1. CASE StartPass
  <2>1. queue' \in Seq(Nodes)
    BY <1>1, StartsType DEF StartPass
  <2>2. x' \in Interfaces
    BY <1>1 DEF StartPass, EmptyInterface, Interfaces
  <2> QED
    BY <1>1, <2>1, <2>2, NoNodeType DEF StartPass, TypeOK
<1>2. CASE Pop
  <2>1. /\ Last(queue) \in Nodes
        /\ Front(queue) \in Seq(Nodes)
    BY <1>2 DEF Pop, TypeOK, Last, Front
  <2>2. cgn' \in (Nodes \cup {NoNode}) \ {CallsExternal}
    <3>1. /\ NoNode \in (Nodes \cup {NoNode}) \ {CallsExternal}
          /\ ExternalCalling \in (Nodes \cup {NoNode}) \ {CallsExternal}
      BY DEF Nodes, NoNode, ExternalCalling, CallsExternal
    <3> QED
      BY <1>2, <2>1, <3>1 DEF Pop
  <2> QED
    BY <1>2, <2>1, <2>2 DEF Pop, TypeOK
<1>3. CASE ReadRecord
  <2> DEFINE r == Records(cgn)[pos]
  <2>1. cgn \in Functions \cup {ExternalCalling} /\ pos \in 1..Len(Records(cgn))
    BY <1>3, RecordsLength DEF ReadRecord, TypeOK, Nodes
  <2>2. Target(r) \in Nodes
    BY <2>1, RecordType
  <2>3. queue' \in Seq(Nodes)
    BY <1>3, <2>2 DEF ReadRecord, TypeOK
  <2>4. x' \in Interfaces
    <3>1. CASE cgn = ExternalCalling
      <4>1. r.callee \in Functions
        BY <2>1, <3>1, RecordType
      <4>2. CallAny(x.calls, r.callee) \in SUBSET Calls
        BY <4>1, CallAnyAdds, AnyArgsType DEF Calls, TypeOK, Interfaces
      <4> QED
        BY <1>3, <3>1, <4>2, InterfaceType DEF ReadRecord, TypeOK
    <3>2. CASE cgn # ExternalCalling /\ r.callee \in Declared
      <4>1. r.args \in Seq(Args) /\ r.callee \in Functions
        BY <2>1, <3>2, RecordType DEF Declared
      <4>2. Call(x.calls, r.callee, r.args) \in SUBSET Calls
        BY <4>1, CallAdds DEF Calls, TypeOK, Interfaces
      <4> QED
        BY <1>3, <3>2, <4>2, InterfaceType DEF ReadRecord, TypeOK
    <3> QED
      BY <1>3, <3>1, <3>2 DEF ReadRecord, TypeOK
  <2>5. visited' \in SUBSET Nodes
    BY <1>3, <2>1 DEF ReadRecord, TypeOK, Nodes
  <2> QED
    BY <1>3, <2>3, <2>4, <2>5 DEF ReadRecord, TypeOK
<1>4. CASE LeaveNode
  BY <1>4 DEF LeaveNode, TypeOK, NoNode, CallsExternal
<1>5. CASE ReferencesDone
  <2>1. refs' \in [Modules -> Interfaces]
    BY <1>5, ResultType DEF ReferencesDone, TypeOK
  <2>2. l' \in Modules
    BY <1>5, ModulesAssumption DEF ReferencesDone, TypeOK, Modules
  <2> QED
    BY <1>5, <2>1, <2>2 DEF ReferencesDone, TypeOK
<1>6. CASE DeepDone
  <2>1. iface' \in Interfaces
    BY <1>6, ResultType, JoinType DEF DeepDone, TypeOK
  <2>2. l' \in Modules
    BY <1>6, ModulesAssumption DEF DeepDone, TypeOK, Modules
  <2>3. phase' \in {"references", "deep", "done"} /\ progress' \in BOOLEAN
    BY <1>6 DEF DeepDone, TypeOK
  <2> QED
    BY <1>6, <2>1, <2>2, <2>3 DEF DeepDone, TypeOK
<1>7. CASE UNCHANGED vars
  BY <1>7 DEF vars, TypeOK
<1> QED
  BY <1>1, <1>2, <1>3, <1>4, <1>5, <1>6, <1>7 DEF Next

\* The variables keep their types.
THEOREM TypeCorrect == Spec => []TypeOK
<1>1. Init => TypeOK
  <2> DEFINE mainInterface == [calls |-> MainCalls, references |-> {}]
  <2>1. /\ mainInterface \in Interfaces
        /\ EmptyInterface \in Interfaces
    BY MainAssumption DEF Interfaces, EmptyInterface
  <2>2. 1 \in Modules /\ <<>> \in Seq(Nodes)
    BY ModulesAssumption DEF Modules
  <2> SUFFICES ASSUME Init
               PROVE  TypeOK
    OBVIOUS
  <2>3. iface = mainInterface /\ x = EmptyInterface /\ refs = [m \in Modules |-> EmptyInterface]
    BY DEF Init
  <2> HIDE DEF mainInterface
  <2>4. iface \in Interfaces /\ x \in Interfaces /\ refs \in [Modules -> Interfaces]
    BY <2>1, <2>3
  <2>5. /\ phase \in {"references", "deep", "done"} /\ l \in Modules /\ pos \in Nat \ {0}
    BY <2>2 DEF Init
  <2>6. running \in BOOLEAN /\ progress \in BOOLEAN
    BY Zenon DEF Init
  <2>7. queue \in Seq(Nodes) /\ visited \in SUBSET Nodes
    BY <2>2 DEF Init
  <2>8. program \in Programs /\ cgn \in (Nodes \cup {NoNode}) \ {CallsExternal}
    BY NoNodeType DEF Init
  <2> QED
    BY <2>4, <2>5, <2>6, <2>7, <2>8 DEF TypeOK
<1> QED
  BY <1>1, TypeStep, PTL DEF Spec

-----------------------------------------------------------------------------
(* Interfaces only hold real calls.                                        *)

\* A call recorded from the body of a function is one of the module's calls.
LEMMA RecordedCallIsReal ==
    ASSUME TypeOK, NEW f \in Functions, NEW r \in Range(program[l].body[f]),
           r.callee \in Declared
    PROVE  <<r.callee, r.args>> \in RealCalls(l)
<1>1. r.callee # Indirect /\ program[l].linkage[r.callee] = "decl"
  BY NodesAreNotFunctions DEF Declared, Linkage
<1> QED
  BY <1>1 DEF RealCalls

\* Every action keeps EntriesAreReal.
LEMMA EntriesStep == TypeOK /\ EntriesAreReal /\ [Next]_vars => EntriesAreReal'
<1> SUFFICES ASSUME TypeOK, EntriesAreReal, [Next]_vars
             PROVE  EntriesAreReal'
  OBVIOUS
<1> DEFINE Merged == \A c \in iface.calls : c \in MainCalls \/ \E m \in Modules : Justified(m, c)
<1>0. program' = program /\ \A m : \A c : Justified(m, c)' = Justified(m, c)
  BY DEF Next, StartPass, Pop, ReadRecord, LeaveNode, ReferencesDone, DeepDone, vars,
         Justified, RealCalls
<1>1. CASE StartPass
  BY <1>0, <1>1 DEF StartPass, EntriesAreReal, EmptyInterface
<1>2. CASE Pop
  BY <1>0, <1>2 DEF Pop, EntriesAreReal
<1>3. CASE ReadRecord
  <2> DEFINE r == Records(cgn)[pos]
  <2>1. cgn \in Functions \cup {ExternalCalling} /\ pos \in 1..Len(Records(cgn))
    BY <1>3, RecordsLength DEF ReadRecord, TypeOK, Nodes
  <2>2. running => \A c \in x'.calls : Justified(l, c)
    <3>1. CASE cgn = ExternalCalling
      <4>1. Justified(l, <<r.callee, AnyArgs(r.callee)>>)
        BY DEF Justified
      <4>2. x'.calls \subseteq x.calls \cup {<<r.callee, AnyArgs(r.callee)>>}
        BY <1>3, <3>1, CallAnyAdds DEF ReadRecord, TypeOK, Interfaces
      <4> QED
        BY <4>1, <4>2 DEF EntriesAreReal
    <3>2. CASE cgn # ExternalCalling /\ r.callee \in Declared
      <4>1. Justified(l, <<r.callee, r.args>>)
        BY <2>1, <3>2, RecordType, RecordedCallIsReal DEF Justified
      <4>2. x'.calls \subseteq x.calls \cup {<<r.callee, r.args>>}
        BY <1>3, <3>2, CallAdds DEF ReadRecord, TypeOK, Interfaces
      <4> QED
        BY <4>1, <4>2 DEF EntriesAreReal
    <3>3. CASE cgn # ExternalCalling /\ r.callee \notin Declared
      BY <1>3, <3>3 DEF ReadRecord, EntriesAreReal
    <3> QED
      BY <3>1, <3>2, <3>3
  <2> QED
    BY <1>0, <1>3, <2>2 DEF ReadRecord, EntriesAreReal
<1>4. CASE LeaveNode
  BY <1>0, <1>4 DEF LeaveNode, EntriesAreReal
<1>5. CASE ReferencesDone
  <2>1. \A c \in Result.calls : Justified(l, c)
    BY <1>5, ResultType DEF ReferencesDone, Finished, EntriesAreReal
  <2>2. \A m \in Modules : \A c \in refs'[m].calls : Justified(m, c)
    BY <1>5, <2>1 DEF ReferencesDone, EntriesAreReal, TypeOK
  <2> QED
    BY <1>0, <1>5, <2>2 DEF ReferencesDone, EntriesAreReal
<1>6. CASE DeepDone
  <2>1. \A c \in Result.calls : Justified(l, c)
    BY <1>6, ResultType DEF DeepDone, Finished, EntriesAreReal
  <2>2. iface'.calls = iface.calls \cup Result.calls
    BY <1>6 DEF DeepDone, Join
  <2>3. \A c \in iface'.calls : c \in MainCalls \/ \E m \in Modules : Justified(m, c)
    BY <2>1, <2>2 DEF EntriesAreReal, TypeOK
  <2> QED
    BY <1>0, <1>6, <2>3 DEF DeepDone, EntriesAreReal
<1>7. CASE UNCHANGED vars
  BY <1>7 DEF vars, EntriesAreReal, Justified, RealCalls
<1> QED
  BY <1>1, <1>2, <1>3, <1>4, <1>5, <1>6, <1>7 DEF Next

\* Every entry of an interface stands for a call that some module makes with
\* these very arguments, or for calls with unknown arguments.
THEOREM EntriesReal == Spec => []EntriesAreReal
<1>1. Init => EntriesAreReal
  BY DEF Init, EntriesAreReal, EmptyInterface
<1>2. TypeOK /\ EntriesAreReal /\ [Next]_vars => EntriesAreReal'
  BY EntriesStep
<1> QED
  BY <1>1, <1>2, TypeCorrect, PTL DEF Spec

-----------------------------------------------------------------------------
(* The interface of deep is complete for programs without branches.        *)

\* A direct call passes as many arguments as the callee has parameters (the
\* verifier of LLVM demands it, but of functions with variable arguments).
CallsFit ==
    \A p \in Programs, m \in Modules, f \in Functions : \A i \in DOMAIN p[m].body[f] :
        p[m].body[f][i].callee # Indirect =>
            Len(p[m].body[f][i].args) = Arity[p[m].body[f][i].callee]

\* A call is in the calls S of an interface, as far as merging keeps it.
Recorded(r, S) ==
    IF Len(r.args) <= 1 THEN Matched(<<r.callee, r.args>>, S) ELSE r.callee \in CalledNames(S)

\* A direct call that the traversal follows within the module.
Followed(mod, r) == r.callee # Indirect /\ mod.linkage[r.callee] # "decl"

\* A direct call is recorded in S, or followed to a function in W.
Handled(mod, r, S, W) ==
    r.callee # Indirect => IF mod.linkage[r.callee] = "decl" THEN Recorded(r, S)
                           ELSE r.callee \in W

\* What D has to hold of the functions that an interface names.
Named(mod, S, W) ==
    \A f \in Functions : f \in CalledNames(S) /\ mod.linkage[f] \in {"ext", "int"} => f \in W

\* What is still on the stack or being read.
Pending == Range(queue) \cup {cgn}

\* D are the functions that were read: their calls are recorded, or lead to
\* functions that were read or are pending.  A visited function has pushed the
\* only one it leads to.
Traversed(D) ==
    LET mod == program[l]
        W == D \cup Pending
    IN  /\ Named(mod, iface.calls, W)
        /\ \A f \in D : \A i \in DOMAIN mod.body[f] : Handled(mod, mod.body[f][i], x.calls, W)
        /\ \A f \in visited \cap Functions : \A i \in DOMAIN mod.body[f] :
            Followed(mod, mod.body[f][i]) => mod.body[f][i].callee \in W
        /\ cgn \in Functions => \A i \in DOMAIN mod.body[cgn] :
            i < pos => Handled(mod, mod.body[cgn][i], x.calls, W)

\* A traversal from the names in the calls S reads D and finds nothing that is
\* not in S.
Explores(mod, S, D) ==
    /\ Named(mod, S, D)
    /\ \A f \in D : \A i \in DOMAIN mod.body[f] : Handled(mod, mod.body[f][i], S, D)
Explored(m) == \E D \in SUBSET Functions : Explores(program[m], iface.calls, D)

EntriesFit == running => \A c \in x.calls : Len(c[2]) = Arity[c[1]]
MainStays == MainCalls \subseteq iface.calls
Traversing == phase = "deep" /\ running => \E D \in SUBSET Functions : Traversed(D)

\* As long as a round brought nothing new, its modules bring nothing new; the
\* last round brought nothing new.
RoundsExplore ==
    /\ phase = "deep" /\ ~progress => \A m \in 1..(l - 1) : Explored(m)
    /\ phase = "done" => \A m \in Modules : Explored(m)

\* A call recorded in S is recorded in a larger set.
LEMMA RecordedStays ==
    ASSUME NEW r, NEW S, NEW S2, S \subseteq S2, Recorded(r, S)
    PROVE  Recorded(r, S2)
BY DEF Recorded, Matched, CalledNames

\* So is a handled one, if what was to be read still is.
LEMMA HandledStays ==
    ASSUME NEW mod, NEW r, NEW S, NEW S2, NEW W, NEW W2,
           r.callee \in Functions \cup {Indirect},
           S \subseteq S2, \A f \in Functions : mod.linkage[f] # "decl" /\ f \in W => f \in W2,
           Handled(mod, r, S, W)
    PROVE  Handled(mod, r, S2, W2)
BY RecordedStays DEF Handled

\* After merging a call, the call is recorded.
LEMMA CallRecords ==
    ASSUME NEW S \in SUBSET Calls, \A c \in S : Len(c[2]) = Arity[c[1]],
           NEW r, r.callee \in Functions, r.args \in Seq(Args), Len(r.args) = Arity[r.callee]
    PROVE  /\ Recorded(r, Call(S, r.callee, r.args))
           /\ \A c \in Call(S, r.callee, r.args) : Len(c[2]) = Arity[c[1]]
           /\ S \subseteq Call(S, r.callee, r.args)
<1> DEFINE f == r.callee
           args == r.args
           T == Call(S, f, args)
<1>1. S \subseteq T /\ T \subseteq S \cup {<<f, args>>}
  BY DEF Call
<1>2. \A c \in T : Len(c[2]) = Arity[c[1]]
  BY <1>1
<1>3. CASE \E c \in S : c[1] = f /\ \A i \in DOMAIN c[2] : Refines(c[2][i], args[1])
  <2>1. PICK c \in S : c[1] = f /\ \A i \in DOMAIN c[2] : Refines(c[2][i], args[1])
    BY <1>3
  <2>2. c \in T /\ Len(c[2]) = Len(args) /\ c[2] \in Seq(Args) /\ c[1] = f
    BY <1>1, <2>1 DEF Calls
  <2>3. f \in CalledNames(T)
    BY <2>2 DEF CalledNames
  <2>4. ASSUME Len(args) <= 1
        PROVE  Matched(<<f, args>>, T)
    <3>1. \A i \in DOMAIN c[2] : i = 1
      BY <2>2, <2>4
    <3>2. \A i \in DOMAIN c[2] : Refines(c[2][i], args[i])
      BY <2>1, <3>1
    <3> HIDE DEF T, f, args
    <3> QED
      BY <2>2, <3>2 DEF Matched
  <2> QED
    BY <1>1, <1>2, <2>3, <2>4 DEF Recorded
<1>4. CASE ~\E c \in S : c[1] = f /\ \A i \in DOMAIN c[2] : Refines(c[2][i], args[1])
  <2>1. <<f, args>> \in T
    BY <1>4 DEF Call
  <2>2. Matched(<<f, args>>, T)
    BY <2>1 DEF Matched, Refines
  <2>3. f \in CalledNames(T)
    BY <2>1 DEF CalledNames
  <2> QED
    BY <1>1, <1>2, <2>2, <2>3 DEF Recorded
<1> QED
  BY <1>3, <1>4

\* Merging an unknown call keeps what was recorded.
LEMMA CallAnyRecords ==
    ASSUME NEW S, NEW f \in Functions, \A c \in S : Len(c[2]) = Arity[c[1]]
    PROVE  /\ \A c \in CallAny(S, f) : Len(c[2]) = Arity[c[1]]
           /\ S \subseteq CallAny(S, f)
<1>1. S \subseteq CallAny(S, f) /\ CallAny(S, f) \subseteq S \cup {<<f, AnyArgs(f)>>}
  BY DEF CallAny
<1>2. Len(AnyArgs(f)) = Arity[f]
  BY ArityAssumption DEF AnyArgs
<1> QED
  BY <1>1, <1>2

\* A call site of the module the pass runs on.
LEMMA SiteType ==
    ASSUME TypeOK, NEW f \in Functions, NEW i \in DOMAIN program[l].body[f]
    PROVE  LET r == program[l].body[f][i]
           IN  /\ r.callee \in Functions \cup {Indirect}
               /\ r.args \in Seq(Args)
               /\ CallsFit /\ r.callee # Indirect => Len(r.args) = Arity[r.callee]
               /\ i \in Nat
<1>1. program[l].body[f] \in Seq(Sites)
  BY ModuleType
<1>2. program[l].body[f][i] \in Sites /\ i \in Nat
  BY <1>1
<1>3. program \in Programs /\ l \in Modules
  BY DEF TypeOK
<1> QED
  BY <1>2, <1>3 DEF CallsFit, Sites

\* The entries that are recorded have as many arguments as their functions.
LEMMA EntriesFitStep == TypeOK /\ CallsFit /\ EntriesFit /\ [Next]_vars => EntriesFit'
<1> SUFFICES ASSUME TypeOK, CallsFit, EntriesFit, [Next]_vars
             PROVE  EntriesFit'
  OBVIOUS
<1>1. CASE StartPass
  BY <1>1 DEF StartPass, EntriesFit, EmptyInterface
<1>2. CASE ReadRecord
  <2>0. running' = running
    BY <1>2 DEF ReadRecord
  <2> SUFFICES ASSUME running
               PROVE  \A c \in x'.calls : Len(c[2]) = Arity[c[1]]
    BY <2>0 DEF EntriesFit
  <2> DEFINE r == Records(cgn)[pos]
  <2>1. cgn \in Functions \cup {ExternalCalling} /\ pos \in 1..Len(Records(cgn))
    BY <1>2, RecordsLength DEF ReadRecord, TypeOK, Nodes
  <2>2. x.calls \in SUBSET Calls /\ \A c \in x.calls : Len(c[2]) = Arity[c[1]]
    BY DEF TypeOK, Interfaces, EntriesFit
  <2>3. CASE cgn = ExternalCalling
    <3>1. r.callee \in Functions
      BY <2>1, <2>3, RecordType
    <3>2. \A c \in CallAny(x.calls, r.callee) : Len(c[2]) = Arity[c[1]]
      BY <2>2, <3>1, CallAnyRecords
    <3> QED
      BY <1>2, <2>2, <2>3, <3>2 DEF ReadRecord, TypeOK, Interfaces
  <2>4. CASE cgn # ExternalCalling /\ r.callee \in Declared
    <3>1. cgn \in Functions /\ r = program[l].body[cgn][pos] /\ pos \in DOMAIN program[l].body[cgn]
      BY <2>1, <2>4, ModuleType DEF Records
    <3>2. r.callee \in Functions /\ r.args \in Seq(Args) /\ Len(r.args) = Arity[r.callee]
      BY <2>4, <3>1, SiteType, NodesAreNotFunctions DEF Declared
    <3>3. \A c \in Call(x.calls, r.callee, r.args) : Len(c[2]) = Arity[c[1]]
      BY <2>2, <3>2, CallRecords
    <3> QED
      BY <1>2, <2>2, <2>4, <3>3 DEF ReadRecord, TypeOK, Interfaces
  <2>5. CASE cgn # ExternalCalling /\ r.callee \notin Declared
    BY <1>2, <2>2, <2>5 DEF ReadRecord
  <2> QED
    BY <2>3, <2>4, <2>5
<1>3. CASE Pop \/ LeaveNode \/ ReferencesDone \/ DeepDone \/ UNCHANGED vars
  BY <1>3 DEF Pop, LeaveNode, ReferencesDone, DeepDone, vars, EntriesFit
<1> QED
  BY <1>1, <1>2, <1>3 DEF Next

\* In an unbranched program two calls of a function that are followed are one.
LEMMA OneFollowed ==
    ASSUME TypeOK, Unbranched, NEW f \in Functions,
           NEW i \in DOMAIN program[l].body[f], NEW j \in DOMAIN program[l].body[f],
           program[l].body[f][i].callee = Indirect \/ Followed(program[l], program[l].body[f][i]),
           program[l].body[f][j].callee = Indirect \/ Followed(program[l], program[l].body[f][j])
    PROVE  i = j
<1> DEFINE FollowedSites == {k \in DOMAIN program[l].body[f] :
            LET c == program[l].body[f][k].callee
            IN  c = Indirect \/ program[l].linkage[c] # "decl"}
<1>1. Cardinality(FollowedSites) <= 1
  BY Zenon DEF Unbranched, TypeOK
<1>2. i \in FollowedSites /\ j \in FollowedSites
  BY DEF Followed
<1>3. program[l].body[f] \in Seq(Sites)
  BY ModuleType
<1>4. IsFiniteSet(DOMAIN program[l].body[f])
  BY <1>3, FS_Interval
<1>5. IsFiniteSet(FollowedSites)
  BY <1>4, FS_Subset
<1> HIDE DEF FollowedSites
<1>6. Cardinality(FollowedSites) \in Nat /\ Cardinality(FollowedSites) # 0
  BY <1>2, <1>5, FS_CardinalityType, FS_EmptySet
<1>7. Cardinality(FollowedSites) = 1
  BY <1>1, <1>6
<1>8. PICK k : FollowedSites = {k}
  BY <1>5, <1>7, FS_Singleton
<1> QED
  BY <1>2, <1>8

\* A list of all names of a finite set has every one of them.
LEMMA SeqsHaveAll ==
    ASSUME NEW S, IsFiniteSet(S), NEW q \in SetToSeqs(S)
    PROVE  S \subseteq Range(q)
<1> DEFINE n == Cardinality(S)
<1>1. n \in Nat
  BY FS_CardinalityType
<1>2. q \in [1..n -> S] /\ \A i, j \in 1..n : i # j => q[i] # q[j]
  BY DEF SetToSeqs
<1>3. IsFiniteSet(1..n) /\ Cardinality(1..n) = Cardinality(S)
  BY <1>1, FS_Interval
<1>4. q \in Injection(1..n, S)
  BY <1>2 DEF Injection, IsInjective
<1>5. q \in Surjection(1..n, S)
  BY <1>3, <1>4, FS_Injection
<1> QED
  BY <1>2, <1>5 DEF Surjection, Range

\* The traversal of a module starts with nothing read, and with all names of
\* the interface on the stack.
LEMMA TraversalStarts ==
    ASSUME TypeOK, StartPass, phase = "deep"
    PROVE  Traversed({})'
<1> DEFINE names == CalledNames(iface.calls) \cap Present
<1>1. queue' \in SetToSeqs(names)
  BY DEF StartPass, Starts
<1>2. IsFiniteSet(names)
  BY FunctionsAssumption, FS_Subset DEF Present
<1>3. names \subseteq Range(queue')
  BY <1>1, <1>2, SeqsHaveAll
<1>4. \A f \in Functions : f \in CalledNames(iface.calls) /\ program[l].linkage[f] \in {"ext", "int"}
        => f \in Range(queue')
  BY <1>3 DEF Present, Linkage
<1>5. /\ program' = program /\ l' = l /\ iface' = iface
      /\ visited' = {} /\ cgn' = NoNode
  BY DEF StartPass
<1>6. cgn' \notin Functions
  BY <1>5, NodesAreNotFunctions
<1> QED
  BY <1>4, <1>5, <1>6 DEF Traversed, Named, Pending

\* What was pending is read or pending after a step that moves it there.
LEMMA TraversedStays ==
    ASSUME TypeOK, NEW D \in SUBSET Functions, Traversed(D),
           NEW D2 \in SUBSET Functions, D \subseteq D2,
           program' = program, l' = l, iface' = iface, x.calls \subseteq x'.calls,
           \A f \in Functions : program[l].linkage[f] # "decl" /\ f \in D \cup Pending
                => f \in D2 \cup Pending'
    PROVE  /\ Named(program[l], iface.calls, D2 \cup Pending)'
           /\ \A f \in Functions : \A i \in DOMAIN program[l].body[f] :
                Handled(program[l], program[l].body[f][i], x.calls, D \cup Pending)
                    => Handled(program[l], program[l].body[f][i], x.calls, D2 \cup Pending)'
           /\ \A f \in Functions : \A i \in DOMAIN program[l].body[f] :
                Followed(program[l], program[l].body[f][i])
                    /\ program[l].body[f][i].callee \in D \cup Pending
                    => program[l].body[f][i].callee \in D2 \cup Pending'
<1> DEFINE mod == program[l]
           W == D \cup Pending
           W2 == D2 \cup Pending'
<1>1. \A f \in Functions : mod.linkage[f] # "decl" /\ f \in W => f \in W2
  OBVIOUS
<1>2. Named(mod, iface.calls, W2)
  BY <1>1 DEF Traversed, Named
<1>3. ASSUME NEW f \in Functions, NEW i \in DOMAIN mod.body[f]
      PROVE  mod.body[f][i].callee \in Functions \cup {Indirect}
  BY <1>3, SiteType
<1> DEFINE S == x.calls
           S2 == x'.calls
<1>4. ASSUME NEW f \in Functions, NEW i \in DOMAIN mod.body[f], Handled(mod, mod.body[f][i], S, W)
      PROVE  Handled(mod, mod.body[f][i], S2, W2)
  <2> DEFINE r == mod.body[f][i]
  <2>1. r.callee \in Functions \cup {Indirect} /\ S \subseteq S2 /\ Handled(mod, r, S, W)
    BY <1>3, <1>4
  <2> HIDE DEF r, mod, W, W2, S, S2
  <2>2. Handled(mod, r, S2, W2)
    BY <1>1, <2>1, HandledStays
  <2> QED
    BY <2>2 DEF r
<1>5. ASSUME NEW f \in Functions, NEW i \in DOMAIN mod.body[f],
             Followed(mod, mod.body[f][i]), mod.body[f][i].callee \in W
      PROVE  mod.body[f][i].callee \in W2
  BY <1>1, <1>3, <1>5 DEF Followed
<1> QED
  BY <1>2, <1>4, <1>5

\* A node that is taken off the stack is read next, unless it is a declaration.
LEMMA PopTraverses ==
    ASSUME TypeOK, NEW D \in SUBSET Functions, Traversed(D), Pop
    PROVE  Traversed(D)'
<1>1. /\ program' = program /\ l' = l /\ iface' = iface /\ x' = x
      /\ visited' = visited /\ pos' = 1 /\ cgn = NoNode /\ queue # <<>>
      /\ queue' = Front(queue)
  BY DEF Pop
<1>2. \A f \in Functions : f \in Range(queue) => f \in Range(queue') \/ f = Last(queue)
  <2> TAKE f \in Functions
  <2> HAVE f \in Range(queue)
  <2>1. queue \in Seq(Nodes)
    BY DEF TypeOK
  <2>2. PICK i \in 1..Len(queue) : f = queue[i]
    BY <2>1 DEF Range
  <2>3. CASE i = Len(queue)
    BY <2>2, <2>3 DEF Last
  <2>4. CASE i # Len(queue)
    <3>1. Front(queue) = [j \in 1..(Len(queue) - 1) |-> queue[j]]
      BY <2>1 DEF Front
    <3>2. i \in 1..(Len(queue) - 1)
      BY <2>1, <2>2, <2>4
    <3> QED
      BY <1>1, <2>2, <3>1, <3>2 DEF Range
  <2> QED
    BY <2>3, <2>4
<1>3. Last(queue) \in Functions /\ Last(queue) \notin Declared => cgn' = Last(queue)
  BY NodesAreNotFunctions DEF Pop
<1>4. \A f \in Functions : program[l].linkage[f] # "decl" /\ f \in D \cup Pending
        => f \in D \cup Pending'
  <2> TAKE f \in Functions
  <2> HAVE program[l].linkage[f] # "decl" /\ f \in D \cup Pending
  <2>1. f \notin Declared /\ f # cgn
    BY <1>1, NodesAreNotFunctions DEF Declared, Linkage
  <2>2. f \in D \/ f \in Range(queue') \/ f = Last(queue)
    BY <1>2, <2>1 DEF Pending
  <2> QED
    BY <1>3, <2>1, <2>2 DEF Pending
<1>5. /\ Named(program[l], iface.calls, D \cup Pending)'
      /\ \A f \in Functions : \A i \in DOMAIN program[l].body[f] :
            Handled(program[l], program[l].body[f][i], x.calls, D \cup Pending)
                => Handled(program[l], program[l].body[f][i], x.calls, D \cup Pending)'
      /\ \A f \in Functions : \A i \in DOMAIN program[l].body[f] :
            Followed(program[l], program[l].body[f][i])
                /\ program[l].body[f][i].callee \in D \cup Pending
                => program[l].body[f][i].callee \in D \cup Pending'
  BY <1>1, <1>4, TraversedStays
<1>6. \A f \in Functions : \A i \in DOMAIN program[l].body[f] : ~(i < 1)
  <2> TAKE f \in Functions
  <2>1. program[l].body[f] \in Seq(Sites)
    BY ModuleType
  <2> QED
    BY <2>1
<1> QED
  BY <1>1, <1>5, <1>6 DEF Traversed

\* After the last record of a function, the function was read.
LEMMA LeaveTraverses ==
    ASSUME TypeOK, NEW D \in SUBSET Functions, Traversed(D), LeaveNode
    PROVE  \E E \in SUBSET Functions : Traversed(E)'
<1>0. PICK E \in SUBSET Functions : E = D \cup ({cgn} \cap Functions)
  OBVIOUS
<1>1. /\ program' = program /\ l' = l /\ iface' = iface /\ x' = x /\ queue' = queue
      /\ visited' = visited /\ cgn' = NoNode /\ pos > Len(Records(cgn))
  BY DEF LeaveNode
<1>2. \A f \in Functions : f \in D \cup Pending => f \in E \cup Pending'
  BY <1>0, <1>1 DEF Pending
<1>3. /\ Named(program[l], iface.calls, E \cup Pending)'
      /\ \A f \in Functions : \A i \in DOMAIN program[l].body[f] :
            Handled(program[l], program[l].body[f][i], x.calls, D \cup Pending)
                => Handled(program[l], program[l].body[f][i], x.calls, E \cup Pending)'
      /\ \A f \in Functions : \A i \in DOMAIN program[l].body[f] :
            Followed(program[l], program[l].body[f][i])
                /\ program[l].body[f][i].callee \in D \cup Pending
                => program[l].body[f][i].callee \in E \cup Pending'
  BY <1>0, <1>1, <1>2, TraversedStays
<1>4. \A f \in E : \A i \in DOMAIN program[l].body[f] :
        Handled(program[l], program[l].body[f][i], x.calls, D \cup Pending)
  <2> TAKE f \in E
  <2> TAKE i \in DOMAIN program[l].body[f]
  <2>1. CASE f \in D
    BY <2>1 DEF Traversed
  <2>2. CASE f \notin D
    <3>1. f = cgn /\ cgn \in Functions /\ Records(cgn) = program[l].body[cgn]
      BY <1>0, <2>2, NodesAreNotFunctions DEF Records
    <3>2. program[l].body[f] \in Seq(Sites) /\ pos \in Nat
      BY <3>1, ModuleType DEF TypeOK
    <3>3. i < pos
      BY <1>1, <3>1, <3>2
    <3> QED
      BY <3>1, <3>3 DEF Traversed
  <2> QED
    BY <2>1, <2>2
<1>5. cgn' \notin Functions
  BY <1>1, NodesAreNotFunctions
<1>6. \A f \in E : \A i \in DOMAIN program[l].body[f] :
        Handled(program[l], program[l].body[f][i], x.calls, E \cup Pending)'
  BY <1>0, <1>3, <1>4
<1>7. \A f \in visited \cap Functions : \A i \in DOMAIN program[l].body[f] :
        Followed(program[l], program[l].body[f][i]) =>
            program[l].body[f][i].callee \in E \cup Pending'
  BY <1>3 DEF Traversed
<1>8. Traversed(E)'
  BY <1>1, <1>3, <1>5, <1>6, <1>7 DEF Traversed
<1> QED
  BY <1>0, <1>8

\* A call record that is read is recorded, or followed; if the function that
\* makes the call has pushed a callee before, it was this one.
LEMMA ReadTraverses ==
    ASSUME TypeOK, CallsFit, EntriesFit, Unbranched, running,
           NEW D \in SUBSET Functions, Traversed(D), ReadRecord
    PROVE  Traversed(D)'
<1> DEFINE r == Records(cgn)[pos]
           mod == program[l]
           W == D \cup Pending
           W2 == D \cup Pending'
<1>1. /\ program' = program /\ l' = l /\ iface' = iface /\ cgn' = cgn /\ pos' = pos + 1
      /\ cgn \in Functions \cup {ExternalCalling} /\ pos \in 1..Len(Records(cgn))
  BY RecordsLength DEF ReadRecord, TypeOK, Nodes
<1>2. /\ x.calls \in SUBSET Calls
      /\ \A c \in x.calls : Len(c[2]) = Arity[c[1]]
      /\ x \in Interfaces /\ queue \in Seq(Nodes) /\ pos \in Nat /\ visited \in SUBSET Nodes
  BY DEF TypeOK, Interfaces, EntriesFit
<1>3. x.calls \subseteq x'.calls
  <2>1. CASE cgn = ExternalCalling
    <3>1. x.calls \subseteq CallAny(x.calls, r.callee)
      BY DEF CallAny
    <3> QED
      BY <1>2, <2>1, <3>1 DEF ReadRecord, Interfaces
  <2>2. CASE cgn # ExternalCalling
    <3>1. x.calls \subseteq Call(x.calls, r.callee, r.args)
      BY DEF Call
    <3> QED
      BY <1>2, <2>2, <3>1 DEF ReadRecord, Interfaces
  <2> QED
    BY <2>1, <2>2
<1>4. queue' = queue \/ queue' = Append(queue, Target(r))
  BY DEF ReadRecord
<1>5. Target(r) \in Nodes
  BY <1>1, RecordType
<1>6. Range(queue) \subseteq Range(queue')
  BY <1>2, <1>4, <1>5 DEF Range
<1>7. \A f \in Functions : f \in D \cup Pending => f \in D \cup Pending'
  BY <1>1, <1>6 DEF Pending
<1>8. /\ Named(program[l], iface.calls, D \cup Pending)'
      /\ \A f \in Functions : \A i \in DOMAIN program[l].body[f] :
            Handled(program[l], program[l].body[f][i], x.calls, D \cup Pending)
                => Handled(program[l], program[l].body[f][i], x.calls, D \cup Pending)'
      /\ \A f \in Functions : \A i \in DOMAIN program[l].body[f] :
            Followed(program[l], program[l].body[f][i])
                /\ program[l].body[f][i].callee \in D \cup Pending
                => program[l].body[f][i].callee \in D \cup Pending'
  BY <1>1, <1>3, <1>7, TraversedStays
<1>9. CASE cgn \notin Functions
  <2>1. visited' \cap Functions = visited \cap Functions
    BY <1>9 DEF ReadRecord
  <2> QED
    BY <1>1, <1>8, <1>9, <2>1 DEF Traversed
<1>10. CASE cgn \in Functions
  <2>1. cgn # ExternalCalling /\ Records(cgn) = mod.body[cgn] /\ mod.body[cgn] \in Seq(Sites)
    BY <1>10, NodesAreNotFunctions, ModuleType DEF Records
  <2>2. pos \in DOMAIN mod.body[cgn] /\ r = mod.body[cgn][pos]
    BY <1>1, <2>1
  <2>3. /\ r.callee \in Functions \cup {Indirect} /\ r.args \in Seq(Args)
        /\ r.callee # Indirect => Len(r.args) = Arity[r.callee]
    BY <1>10, <2>2, SiteType
  <2>4. r.callee \in Declared <=> r.callee # Indirect /\ mod.linkage[r.callee] = "decl"
    BY <2>3, NodesAreNotFunctions DEF Declared, Linkage
  <2>5. ASSUME r.callee \in Declared
        PROVE  Recorded(r, x'.calls)
    <3>1. x'.calls = Call(x.calls, r.callee, r.args)
      BY <1>2, <2>1, <2>5 DEF ReadRecord, IsRecord, Interfaces
    <3>2. r.callee \in Functions /\ Len(r.args) = Arity[r.callee]
      BY <2>3, <2>4, <2>5
    <3> HIDE DEF r
    <3> QED
      BY <1>2, <2>3, <3>1, <3>2, CallRecords
  <2>6. ASSUME Followed(mod, r)
        PROVE  r.callee \in W2
    <3>1. Target(r) = r.callee /\ r.callee \notin Declared
      BY <2>4, <2>6 DEF Followed, Target
    <3>2. CASE cgn \in visited
      <4>1. r.callee \in W
        BY <1>10, <2>2, <2>6, <3>2 DEF Traversed
      <4> QED
        BY <1>7, <2>3, <2>6, <4>1 DEF Followed
    <3>3. CASE cgn \notin visited
      <4>1. queue' = Append(queue, r.callee)
        BY <2>1, <3>1, <3>3 DEF ReadRecord, IsRecord
      <4>2. r.callee \in Range(queue')
        BY <1>2, <4>1 DEF Range
      <4> QED
        BY <4>2 DEF Pending
    <3> QED
      BY <3>2, <3>3
  <2>7. Handled(mod, r, x'.calls, W2)
    BY <2>4, <2>5, <2>6 DEF Handled, Followed
  <2>8. ASSUME NEW i \in DOMAIN mod.body[cgn], i < pos + 1
        PROVE  Handled(mod, mod.body[cgn][i], x'.calls, W2)
    <3>1. CASE i = pos
      BY <2>2, <2>7, <3>1
    <3>2. CASE i # pos
      <4>1. i < pos
        BY <1>2, <2>1, <2>8, <3>2
      <4>2. Handled(mod, mod.body[cgn][i], x.calls, W)
        BY <1>10, <4>1 DEF Traversed
      <4> QED
        BY <1>1, <1>8, <1>10, <4>2
    <3> QED
      BY <3>1, <3>2
  <2>9. ASSUME NEW f \in visited' \cap Functions, NEW i \in DOMAIN mod.body[f],
               Followed(mod, mod.body[f][i])
        PROVE  mod.body[f][i].callee \in W2
    <3>1. CASE f \in visited
      <4>1. mod.body[f][i].callee \in W
        BY <2>9, <3>1 DEF Traversed
      <4> QED
        BY <1>1, <1>8, <2>9, <4>1
    <3>2. CASE f \notin visited
      <4>1. f = cgn /\ r.callee \notin Declared
        BY <2>1, <3>2 DEF ReadRecord
      <4>2. r.callee = Indirect \/ Followed(mod, r)
        BY <2>4, <4>1 DEF Followed
      <4>3. i = pos
        BY <1>10, <2>2, <2>9, <4>1, <4>2, OneFollowed
      <4> QED
        BY <2>2, <2>6, <2>9, <4>1, <4>3
    <3> QED
      BY <3>1, <3>2
  <2> QED
    BY <1>1, <1>8, <2>8, <2>9 DEF Traversed
<1> QED
  BY <1>9, <1>10

\* Every action keeps a traversal complete.
LEMMA TraversingStep ==
    TypeOK /\ CallsFit /\ EntriesFit /\ Unbranched /\ Traversing /\ [Next]_vars => Traversing'
<1> SUFFICES ASSUME TypeOK, CallsFit, EntriesFit, Unbranched, Traversing, [Next]_vars,
                    phase' = "deep", running'
             PROVE  \E D \in SUBSET Functions : Traversed(D)'
  BY DEF Traversing
<1>1. CASE StartPass
  <2>1. phase = "deep"
    BY <1>1 DEF StartPass
  <2> QED
    BY <1>1, <2>1, TraversalStarts
<1>2. CASE Pop
  <2>1. PICK D \in SUBSET Functions : Traversed(D)
    BY <1>2 DEF Pop, Traversing
  <2> QED
    BY <1>2, <2>1, PopTraverses
<1>3. CASE ReadRecord
  <2>1. phase = "deep" /\ running
    BY <1>3 DEF ReadRecord
  <2>2. PICK D \in SUBSET Functions : Traversed(D)
    BY <2>1 DEF Traversing
  <2> QED
    BY <1>3, <2>1, <2>2, ReadTraverses
<1>4. CASE LeaveNode
  <2>1. phase = "deep" /\ running
    BY <1>4 DEF LeaveNode
  <2>2. PICK D \in SUBSET Functions : Traversed(D)
    BY <2>1 DEF Traversing
  <2> QED
    BY <1>4, <2>2, LeaveTraverses
<1>5. CASE ReferencesDone \/ DeepDone
  BY <1>5 DEF ReferencesDone, DeepDone
<1>6. CASE UNCHANGED vars
  <2>1. PICK D \in SUBSET Functions : Traversed(D)
    BY <1>6 DEF vars, Traversing
  <2>2. Traversed(D)'
    BY <1>6, <2>1 DEF vars, Traversed, Pending
  <2> QED
    BY <2>2
<1> QED
  BY <1>1, <1>2, <1>3, <1>4, <1>5, <1>6 DEF Next

\* A traversal that has ended, and has found nothing new, has explored its
\* module.
LEMMA TraversalEnds ==
    ASSUME TypeOK, Traversing, DeepDone, iface' = iface
    PROVE  Explored(l)
<1>1. PICK D \in SUBSET Functions : Traversed(D)
  BY DEF DeepDone, Finished, Traversing
<1> DEFINE mod == program[l]
<1>2. \A f \in Functions : f \in D \cup Pending => f \in D
  <2>1. Range(queue) = {} /\ cgn = NoNode
    BY DEF DeepDone, Finished, Range
  <2> QED
    BY <2>1, NodesAreNotFunctions DEF Pending
<1>3. x.calls \subseteq iface.calls
  BY ResultType DEF DeepDone, Join
<1>4. Named(mod, iface.calls, D)
  BY <1>1, <1>2 DEF Traversed, Named
<1>5. ASSUME NEW f \in D, NEW i \in DOMAIN mod.body[f]
      PROVE  Handled(mod, mod.body[f][i], iface.calls, D)
  <2> DEFINE r == mod.body[f][i]
  <2>1. Handled(mod, r, x.calls, D \cup Pending) /\ r.callee \in Functions \cup {Indirect}
    BY <1>1, <1>5, SiteType DEF Traversed
  <2> HIDE DEF mod, r
  <2>2. Handled(mod, r, iface.calls, D)
    BY <1>2, <1>3, <2>1, HandledStays
  <2> QED
    BY <2>2 DEF mod, r
<1> QED
  BY <1>1, <1>4, <1>5 DEF Explored, Explores

\* Every action keeps what the rounds have explored.
LEMMA RoundsStep ==
    TypeOK /\ Traversing /\ RoundsExplore /\ [Next]_vars => RoundsExplore'
<1> SUFFICES ASSUME TypeOK, Traversing, RoundsExplore, [Next]_vars
             PROVE  RoundsExplore'
  OBVIOUS
<1>1. CASE iface' = iface /\ phase' = phase /\ l' = l /\ progress' = progress /\ program' = program
  <2>1. \A m \in Modules : Explored(m)' <=> Explored(m)
    BY <1>1 DEF Explored
  <2>2. \A m \in 1..(l - 1) : m \in Modules
    BY ModulesAssumption DEF TypeOK, Modules
  <2> QED
    BY <1>1, <2>1, <2>2 DEF RoundsExplore
<1>2. CASE ReferencesDone
  <2>1. phase' = "references" \/ (phase' = "deep" /\ l' = 1)
    BY <1>2 DEF ReferencesDone
  <2> QED
    BY <2>1 DEF RoundsExplore
<1>3. CASE DeepDone
  <2>1. l \in 1..NModules /\ NModules \in Nat /\ NModules # 0
    BY ModulesAssumption DEF TypeOK, Modules
  <2>2. program' = program
    BY <1>3 DEF DeepDone
  <2>3. CASE progress \/ iface' # iface
    <3>1. phase' = "deep" /\ (progress' = TRUE \/ l' = 1)
      BY <1>3, <2>3 DEF DeepDone
    <3> QED
      BY <3>1 DEF RoundsExplore
  <2>4. CASE ~progress /\ iface' = iface
    <3>1. \A m \in 1..l : Explored(m)
      <4>1. Explored(l)
        BY <1>3, <2>4, TraversalEnds
      <4>2. \A m \in 1..(l - 1) : Explored(m)
        BY <1>3, <2>4 DEF DeepDone, RoundsExplore
      <4>3. \A m \in 1..l : m = l \/ m \in 1..(l - 1)
        BY <2>1
      <4> QED
        BY <4>1, <4>2, <4>3
    <3>2. \A m : Explored(m)' <=> Explored(m)
      BY <2>2, <2>4 DEF Explored
    <3>3. CASE l < NModules
      <4>1. l' = l + 1 /\ phase' = "deep"
        BY <1>3, <3>3 DEF DeepDone
      <4>2. \A m \in 1..(l' - 1) : m \in 1..l
        BY <2>1, <4>1
      <4> QED
        BY <3>1, <3>2, <4>1, <4>2 DEF RoundsExplore
    <3>4. CASE ~(l < NModules)
      <4>1. phase' = "done"
        BY <1>3, <2>4, <3>4 DEF DeepDone
      <4>2. l = NModules
        BY <2>1, <3>4
      <4> QED
        BY <3>1, <3>2, <4>1, <4>2 DEF RoundsExplore, Modules
    <3> QED
      BY <3>3, <3>4
  <2> QED
    BY <2>3, <2>4
<1>4. CASE StartPass
  BY <1>1, <1>4 DEF StartPass
<1>5. CASE Pop
  BY <1>1, <1>5 DEF Pop
<1>6. CASE ReadRecord
  BY <1>1, <1>6 DEF ReadRecord
<1>7. CASE LeaveNode
  BY <1>1, <1>7 DEF LeaveNode
<1>8. CASE UNCHANGED vars
  BY <1>1, <1>8, Zenon DEF vars
<1> QED
  BY <1>2, <1>3, <1>4, <1>5, <1>6, <1>7, <1>8 DEF Next

\* When every module is explored, the explored functions of all modules hold
\* what main may reach, and their calls of other modules are in the interface.
LEMMA ExploredIsComplete ==
    ASSUME TypeOK, MainStays, \A m \in Modules : Explored(m), NEW c \in CallsMade
    PROVE  IF Len(c[2]) <= 1 THEN Matched(c, iface.calls) ELSE c[1] \in CalledNames(iface.calls)
<1> DEFINE D == [m \in Modules |-> CHOOSE E \in SUBSET Functions :
                                        Explores(program[m], iface.calls, E)]
           T == {d \in Definitions : d[2] \in D[d[1]]}
           Lnk(d) == program[d[1]].linkage[d[2]]
<1>1. \A m \in Modules : D[m] \in SUBSET Functions /\ Explores(program[m], iface.calls, D[m])
  BY DEF Explored
<1> HIDE DEF D
<1>2. \A d \in Definitions : d[1] \in Modules /\ d[2] \in Functions /\ Lnk(d) \in {"ext", "int"}
  BY DEF Definitions
<1>3. ASSUME NEW d \in Definitions, d[2] \in CalledNames(iface.calls)
      PROVE  d \in T
  BY <1>1, <1>2, <1>3 DEF Explores, Named
<1>4. ASSUME NEW d \in Definitions, d[2] \in CalledNames(MainCalls)
      PROVE  d \in T
  BY <1>3, <1>4 DEF MainStays, CalledNames
<1>5. ASSUME NEW d \in T, NEW e \in Definitions, CallsDefinition(d, e)
      PROVE  e \in T
  <2> DEFINE mod == program[d[1]]
  <2>1. PICK i \in DOMAIN mod.body[d[2]] : mod.body[d[2]][i].callee = e[2]
    BY <1>5 DEF CallsDefinition
  <2>2. Handled(mod, mod.body[d[2]][i], iface.calls, D[d[1]])
    BY <1>1, <1>2, <2>1 DEF Explores
  <2>3. e[2] # Indirect
    BY <1>2, NodesAreNotFunctions
  <2>4. CASE e[1] = d[1]
    BY <1>2, <2>1, <2>2, <2>3, <2>4 DEF Handled
  <2>5. CASE e[1] # d[1]
    <3>1. mod.linkage[e[2]] = "decl"
      BY <1>5, <2>5 DEF CallsDefinition
    <3>2. Recorded(mod.body[d[2]][i], iface.calls)
      BY <2>1, <2>2, <2>3, <3>1 DEF Handled
    <3>3. e[2] \in CalledNames(iface.calls)
      BY <2>1, <3>2 DEF Recorded, Matched, CalledNames
    <3> QED
      BY <1>3, <3>3
  <2> QED
    BY <2>4, <2>5
<1>6. ClosedUnderCalls(T)
  BY <1>4, <1>5 DEF ClosedUnderCalls
<1>7. \A d \in Reached : d \in T
  BY <1>6 DEF Reached
<1>8. PICK d \in Reached : c \in {<<r.callee, r.args>> : r \in {s \in Range(program[d[1]].body[d[2]]) :
            s.callee # Indirect /\ program[d[1]].linkage[s.callee] = "decl"}}
  BY DEF CallsMade
<1>9. PICK i \in DOMAIN program[d[1]].body[d[2]] :
        LET r == program[d[1]].body[d[2]][i]
        IN  c = <<r.callee, r.args>> /\ r.callee # Indirect /\ program[d[1]].linkage[r.callee] = "decl"
  BY <1>8, Zenon DEF Range
<1>10. Handled(program[d[1]], program[d[1]].body[d[2]][i], iface.calls, D[d[1]])
  BY <1>1, <1>2, <1>7 DEF Explores
<1>11. Recorded(program[d[1]].body[d[2]][i], iface.calls)
  BY <1>9, <1>10 DEF Handled
<1> QED
  BY <1>9, <1>11 DEF Recorded

\* In a program in which no definition has two calls to follow, the interface
\* that deep ends with names every function that a definition main may reach
\* calls in another module, and lists the arguments of functions of one
\* parameter.
THEOREM InterfaceComplete == CallsFit => (Spec => []CompleteWhenUnbranched)
<1> DEFINE Inv == EntriesFit /\ MainStays /\ (Unbranched => Traversing /\ RoundsExplore)
<1> SUFFICES ASSUME CallsFit
             PROVE  Spec => []CompleteWhenUnbranched
  OBVIOUS
<1>1. Init => Inv
  BY DEF Init, EntriesFit, MainStays, Traversing, RoundsExplore
<1>2. TypeOK /\ Inv /\ [Next]_vars => Inv'
  <2> SUFFICES ASSUME TypeOK, Inv, [Next]_vars
               PROVE  Inv'
    OBVIOUS
  <2>1. program' = program
    BY DEF Next, StartPass, Pop, ReadRecord, LeaveNode, ReferencesDone, DeepDone, vars
  <2>2. Unbranched' <=> Unbranched
    BY <2>1 DEF Unbranched
  <2>3. MainStays'
    BY DEF MainStays, Next, StartPass, Pop, ReadRecord, LeaveNode, ReferencesDone, DeepDone, vars, Join
  <2>4. EntriesFit'
    BY EntriesFitStep
  <2>5. Unbranched => Traversing' /\ RoundsExplore'
    BY TraversingStep, RoundsStep
  <2> QED
    BY <2>2, <2>3, <2>4, <2>5
<1>3. TypeOK /\ Inv => CompleteWhenUnbranched
  <2> SUFFICES ASSUME TypeOK, Inv, phase = "done", Unbranched, NEW c \in CallsMade
               PROVE  IF Len(c[2]) <= 1 THEN Matched(c, iface.calls)
                      ELSE c[1] \in CalledNames(iface.calls)
    BY DEF CompleteWhenUnbranched
  <2> QED
    BY ExploredIsComplete DEF RoundsExplore
<1> QED
  BY <1>1, <1>2, <1>3, TypeCorrect, PTL DEF Spec
=============================================================================
