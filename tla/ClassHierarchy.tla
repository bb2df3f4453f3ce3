--------------------------- MODULE ClassHierarchy ---------------------------
(***************************************************************************)
(* The class hierarchy analysis of src/src/analysis: the graph of classes, *)
(* the tables of virtual functions read from the constants of a module,    *)
(* and the possible callees of a virtual call.                             *)
(*                                                                         *)
(* A module P is a record:                                                 *)
(*   structs    the named struct types, in the order of the graph's map;   *)
(*              the name of one is a sequence of characters, since the     *)
(*              analysis cuts names out of others, but for the prefix      *)
(*              "class." or "struct.", which is one element                *)
(*   members    for each struct, the structs among its elements: its base  *)
(*              classes and its members alike; a base class whose padding  *)
(*              is used again is an element by another struct, X.base      *)
(*   tables     the arrays in the initializers of the globals called       *)
(*              "vtable for ...", in the order of the globals and of their *)
(*              elements: the entries, the struct of the class that owns   *)
(*              the table and the class's name, and the structs of the     *)
(*              static classes whose calls go through the array, each the  *)
(*              primary base class of the next (tables for construction    *)
(*              only are left out)                                         *)
(***************************************************************************)
EXTENDS Integers, Sequences, FiniteSets, FiniteSetsExt, SequencesExt

NoClass == <<>>

\* The elements of a list that are in S, in the order of the list.
Places(s, S) == {i \in DOMAIN s : s[i] \in S}
Place(s, S, n) == CHOOSE i \in Places(s, S) : Cardinality(Places(s, S) \cap (1..i)) = n
Sublist(s, S) == [n \in 1..Cardinality(Places(s, S)) |-> s[Place(s, S, n)]]

Offset == [kind |-> "offset", fun |-> "none", class |-> NoClass]
Typeinfo(c) == [kind |-> "typeinfo", fun |-> "none", class |-> c]
PureVirtual == [kind |-> "pure", fun |-> "none", class |-> NoClass]
Entry(f) == [kind |-> "function", fun |-> f, class |-> NoClass]
\* A destructor that is an alias of another one: a GlobalAlias, not a Function.
AliasEntry(f) == [kind |-> "alias", fun |-> f, class |-> NoClass]

---------------------------------------------------------------------------
(* The class hierarchy graph                                               *)

Structs(P) == Range(P.structs)

\* An edge from every struct to the structs it is an element of.
BuildCHG(P) == {e \in Structs(P) \X Structs(P) : e[1] \in P.members[e[2]]}

\* One round of Floyd and Warshall: paths through k.
ThroughNode(edges, k) ==
    edges \cup {<<e[1], d[2]>> : e \in {e \in edges : e[2] = k}, d \in {d \in edges : d[1] = k}}

\* The graph without its closure: only direct subclasses.
ClosureOfNothing(P) == BuildCHG(P)

ClosureCHG(P) ==
    LET closed[k \in 0..Len(P.structs)] ==
            IF k = 0 THEN BuildCHG(P) ELSE ThroughNode(closed[k - 1], P.structs[k])
    IN  closed[Len(P.structs)]

ReachableTypes(P, type) == {c \in Structs(P) : <<type, c>> \in ClosureCHG(P)}

---------------------------------------------------------------------------
(* Tables of virtual functions                                             *)

\* find_last_of searches for a character, not for the string it is given: the class is
\* what follows the last of these characters.
TypeinfoChars == {"t", "y", "p", "e", "i", "n", "f", "o", " ", "r"}
AfterLastOf(name) ==
    SubSeq(name, 1 + Max({0} \cup {i \in DOMAIN name : name[i] \in TypeinfoChars}), Len(name))

\* The struct of a class: its name with the prefix, or without one; a struct is not looked
\* for by the prefix "struct.".
ClassType(P, name) ==
    IF <<"class.">> \o name \in Structs(P) THEN <<"class.">> \o name
    ELSE IF name \in Structs(P) THEN name
    ELSE NoClass

ClassTypeinfo(P, array) ==
    LET found == {ClassType(P, AfterLastOf(array.entries[i].class)) :
                     i \in {i \in DOMAIN array.entries : array.entries[i].kind = "typeinfo"}} \ {NoClass}
    IN  IF found = {} THEN NoClass ELSE CHOOSE c \in found : TRUE

\* The functions of an array in their order; a pure virtual one leaves a null.
VtableOf(array) ==
    Sublist(array.entries, {e \in Range(array.entries) : e.kind \in {"function", "pure"}})

\* The arrays with a class.
BuildVtables(P) == {i \in DOMAIN P.tables : ClassTypeinfo(P, P.tables[i]) # NoClass}

TablesOf(P, type) == {i \in BuildVtables(P) : ClassTypeinfo(P, P.tables[i]) = type}
HasVtable(P, type) == TablesOf(P, type) # {}

\* m_vtables.insert keeps the first array of a class.
FirstTable(P, type) == CHOOSE i \in TablesOf(P, type) : \A j \in TablesOf(P, type) : i <= j
GetVtable(P, type) == VtableOf(P.tables[FirstTable(P, type)])

---------------------------------------------------------------------------
(* Virtual calls                                                           *)
(* A call is a record: its function type (result, the class its first      *)
(* parameter points to or NoClass, the other parameters), the entry `slot` *)
(* it calls and the `pattern` of the code that reads the function pointer: *)
(* "slot" for an entry of a table, "field" for a field of the object.      *)

\* The entry at index 0 is read without a getelementptr; of a field of an object the
\* first index is read, which is 0 whatever the field.
GetVtableIndex(call) ==
    IF call.pattern = "field" THEN 0
    ELSE IF call.pattern = "slot" /\ call.slot > 0 THEN call.slot ELSE -1

MatchVirtualSignature(call, candidate) == call.ret = candidate.ret /\ call.rest = candidate.rest

OutOfBounds(P, type, index) == HasVtable(P, type) /\ index >= Len(GetVtable(P, type))

Candidates(P, type, call) ==
    IF ~HasVtable(P, type) \/ OutOfBounds(P, type, GetVtableIndex(call)) THEN {}
    ELSE LET entry == GetVtable(P, type)[GetVtableIndex(call) + 1]
         IN  {f \in {entry.fun} : /\ entry.kind = "function"
                                  /\ MatchVirtualSignature(call.type, P.type[f])}

LooksVirtual(call) == call.kind = "indirect" /\ call.type.this # NoClass

Resolvable(call) == LooksVirtual(call) /\ GetVtableIndex(call) >= 0

Receivers(P, call) == ReachableTypes(P, call.type.this) \cup {call.type.this}

\* An index beyond a table reaches llvm_unreachable.
ResolveAborts(P, call) ==
    Resolvable(call) /\ \E c \in Receivers(P, call) : OutOfBounds(P, c, GetVtableIndex(call))

ResolveVirtualCall(P, call) ==
    IF Resolvable(call) THEN UNION {Candidates(P, c, call) : c \in Receivers(P, call)} ELSE {}

---------------------------------------------------------------------------
(* What a virtual call does when the program runs                          *)

\* The array that a call through static class s uses in an object of class d: the one of
\* d's own table with s among its classes.
TableFor(P, d, s) ==
    CHOOSE i \in DOMAIN P.tables : P.tables[i].owner = d /\ s \in Range(P.tables[i].statics)
ArrayFor(P, d, s) == P.tables[TableFor(P, d, s)]

IndexOfTypeinfo(array) == CHOOSE i \in DOMAIN array.entries : array.entries[i].kind = "typeinfo"

Dispatch(P, d, call) ==
    LET array == ArrayFor(P, d, call.type.this)
    IN  array.entries[IndexOfTypeinfo(array) + 1 + call.slot].fun
=============================================================================
