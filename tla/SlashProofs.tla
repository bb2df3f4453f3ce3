---------------------------- MODULE SlashProofs ----------------------------
(* That the modules slash works on link in every state: no strong symbol is *)
(* defined twice, and no declaration is left without its definition, for    *)
(* every program, any number of modules and every choice of the passes.     *)
EXTENDS Slash, TLAPS

-----------------------------------------------------------------------------
(* What a pass may do to a file.                                            *)

\* The file f becomes g, which declares the names of D, takes the addresses of T
\* and exports the specializations of S, all of them possibly for the first time.
Becomes(f, g, D, T, S) ==
    /\ g \in Files /\ Consistent(g)
    /\ DeclaredIn(g) \subseteq DeclaredIn(f) \cup D
    /\ AddressTaken(g) \subseteq AddressTaken(f) \cup T
    /\ DefinedIn(g) \subseteq DefinedIn(f) \cup SpecNames
    /\ Strong(g) \subseteq Strong(f) \cup Functions \cup S

Exports(f, g) == ExportedBy(f) \subseteq ExportedBy(g)

\* What MinimizeComponent must not hide or remove.
Needed(f, I) == Keep \cup I.references \cup (AddressTaken(f) \cap Functions)

\* The functions that the specializations of S have bound to their parameter.
Bound(S) == {s[2] : s \in S} \cap Functions

LEMMA KindsOfNames ==
    /\ Functions \subseteq Names /\ SpecNames \subseteq Names
    /\ Variables \subseteq Names /\ Aliases \subseteq Names
    /\ ConcreteArgs \subseteq Args /\ Functions \subseteq ConcreteArgs
    /\ \A s \in SpecNames : s[1] \in Functions /\ s[2] \in ConcreteArgs
    /\ \A s \in Names : s \in Functions \/ s \in SpecNames \/ s \in Variables \/ s \in Aliases
BY DEF Names, Callable, SpecNames, ConcreteArgs, Args

LEMMA FileType ==
    ASSUME NEW f \in Files
    PROVE  /\ f.linkage \in [Names -> Linkages] /\ f.uses \subseteq Uses
           /\ f = [linkage |-> f.linkage, uses |-> f.uses]
           /\ \A s \in Names : f.linkage[s] \in Linkages
           /\ \A u \in f.uses : /\ u[1] \in Names /\ u[2] \in Names /\ u[3] \in {"ref"} \cup Args
                                /\ u = <<u[1], u[2], u[3]>>
BY DEF Files, Uses

LEMMA MakeFile ==
    ASSUME NEW l \in [Names -> Linkages], NEW U \in SUBSET Uses
    PROVE  [linkage |-> l, uses |-> U] \in Files
BY DEF Files

LEMMA OnlyOK ==
    ASSUME NEW f \in Files, Consistent(f), NEW live \in Live(f)
    PROVE  /\ Becomes(f, Only(f, live), {}, {}, {}) /\ Exports(f, Only(f, live))
           /\ \A s \in ExportedBy(f) : Only(f, live).linkage[s] = f.linkage[s]
<1> DEFINE g == Only(f, live)
<1>1. ExportedBy(f) \subseteq live /\ MentionedBy(f, live) \subseteq live
    BY DEF Live
<1>2. g.linkage = [s \in Names |-> IF s \in live THEN f.linkage[s] ELSE "absent"]
      /\ g.uses = {u \in f.uses : u[1] \in live}
    BY DEF Only
<1>3. g \in Files
    BY FileType, MakeFile DEF Only, Linkages
<1>4. ASSUME NEW u \in g.uses
      PROVE  u[1] \in DefinedIn(g) /\ Mentioned({u}) \subseteq DefinedIn(g) \cup DeclaredIn(g)
    <2>1. u \in f.uses /\ u[1] \in live
        BY <1>2
    <2>2. u[1] \in DefinedIn(f) /\ Mentioned({u}) \subseteq DefinedIn(f) \cup DeclaredIn(f)
        BY <2>1 DEF Consistent
    <2>3. Mentioned({u}) \subseteq live
        BY <2>1, <1>1 DEF MentionedBy, Mentioned
    <2>. QED
        BY <1>2, <2>1, <2>2, <2>3 DEF DefinedIn, DeclaredIn
<1>5. Consistent(g)
    BY <1>4 DEF Consistent
<1>6. DeclaredIn(g) \subseteq DeclaredIn(f) /\ DefinedIn(g) \subseteq DefinedIn(f) /\ Strong(g) \subseteq Strong(f)
    BY <1>2 DEF DeclaredIn, DefinedIn, Strong, Definitions
<1>7. AddressTaken(g) \subseteq AddressTaken(f)
    BY <1>2 DEF AddressTaken
<1>8. \A s \in ExportedBy(f) : g.linkage[s] = f.linkage[s] /\ s \in ExportedBy(g)
    BY <1>1, <1>2 DEF ExportedBy
<1>. QED
    BY <1>3, <1>5, <1>6, <1>7, <1>8 DEF Becomes, Exports

LEMMA MinimizeOK ==
    ASSUME NEW f \in Files, Consistent(f), NEW I, NEW g \in MinimizeComponent(f, I)
    PROVE  /\ Becomes(f, g, {}, {}, {})
           /\ \A s \in ExportedBy(f) \cap Needed(f, I) : s \in ExportedBy(g)
<1> DEFINE dead == UnusedAliases(f, I)
           hidden == Internalized(f, I)
           link == [s \in Names |-> IF s \in dead THEN "absent"
                                    ELSE IF s \in hidden THEN "int" ELSE f.linkage[s]]
           h == [linkage |-> link, uses |-> {u \in f.uses : u[1] \notin dead}]
<1>1. CASE g = f
    BY <1>1 DEF Becomes
<1>2. CASE g \in GlobalDCE(h)
    <2>1. link \in [Names -> Linkages] /\ h \in Files
        <3>1. \A s \in Names : f.linkage[s] \in Linkages
            BY FileType
        <3>2. link \in [Names -> Linkages]
            BY <3>1 DEF Linkages
        <3>. QED
            BY <3>2, FileType, MakeFile
    <2>2. \A s \in Names : \/ h.linkage[s] = f.linkage[s]
                           \/ h.linkage[s] = "absent" /\ s \in dead
                           \/ h.linkage[s] = "int" /\ f.linkage[s] \in Exported
        BY DEF Internalized
    <2>3. DefinedIn(h) \subseteq DefinedIn(f) /\ DeclaredIn(h) \subseteq DeclaredIn(f) /\ Strong(h) \subseteq Strong(f)
        BY <2>2 DEF DefinedIn, DeclaredIn, Strong, Definitions, Exported
    <2>4. AddressTaken(h) \subseteq AddressTaken(f)
        BY DEF AddressTaken
    <2>5. ASSUME NEW u \in h.uses
          PROVE  u[1] \in DefinedIn(h) /\ Mentioned({u}) \subseteq DefinedIn(h) \cup DeclaredIn(h)
        <3>1. u \in f.uses /\ u[1] \notin dead
            OBVIOUS
        <3>2. u[1] \in DefinedIn(f) /\ Mentioned({u}) \subseteq DefinedIn(f) \cup DeclaredIn(f)
            BY <3>1 DEF Consistent
        <3>3. Mentioned({u}) \cap dead = {}
            BY <3>1 DEF Mentioned, UnusedAliases
        <3>4. \A s \in Names : s \in DefinedIn(f) /\ s \notin dead => s \in DefinedIn(h)
            BY <2>2 DEF DefinedIn, Definitions
        <3>5. \A s \in Names : s \in DeclaredIn(f) /\ s \notin dead => s \in DeclaredIn(h)
            BY <2>2 DEF DeclaredIn, Exported
        <3>. QED
            BY <3>1, <3>2, <3>3, <3>4, <3>5 DEF DefinedIn, DeclaredIn
    <2>6. Consistent(h)
        BY <2>5 DEF Consistent
    <2>7. ASSUME NEW s \in ExportedBy(f), s \in Needed(f, I)
          PROVE  s \in ExportedBy(h)
        <3>1. s \in Names
            BY DEF ExportedBy
        <3>2. s \notin dead
            BY <2>7, NamesAssumption DEF Needed, UnusedAliases, Callable
        <3>3. s \notin hidden
            BY <2>7, NamesAssumption DEF Needed, Internalized, Callable
        <3>. QED
            BY <3>1, <3>2, <3>3 DEF ExportedBy
    <2>8. PICK live \in Live(h) : g = Only(h, live)
        BY <1>2 DEF GlobalDCE
    <2>9. Becomes(h, g, {}, {}, {}) /\ Exports(h, g)
        BY <2>1, <2>6, <2>8, OnlyOK
    <2>. QED
        BY <2>3, <2>4, <2>7, <2>9 DEF Becomes, Exports
<1>3. g \in {f} \/ g \in GlobalDCE(h)
    BY DEF MinimizeComponent
<1>. QED
    BY <1>1, <1>2, <1>3

LEMMA DeclareOK ==
    ASSUME NEW f \in Files, NEW S \in SUBSET Names, NEW g, g = Declare(f, S)
    PROVE  /\ g \in Files /\ g.uses = f.uses
           /\ \A s \in Names : f.linkage[s] # "absent" => g.linkage[s] = f.linkage[s]
           /\ \A s \in S : g.linkage[s] # "absent"
           /\ \A s \in Names \ S : g.linkage[s] = f.linkage[s]
           /\ \A s \in Names : f.linkage[s] = "absent" => g.linkage[s] \in {"absent", "decl"}
<1> DEFINE l == [s \in Names |-> IF s \in S /\ f.linkage[s] = "absent" THEN "decl" ELSE f.linkage[s]]
<1>1. l \in [Names -> Linkages]
    BY FileType DEF Linkages
<1>2. g = [linkage |-> l, uses |-> f.uses]
    <2>1. f = [linkage |-> f.linkage, uses |-> f.uses]
        BY FileType
    <2>. QED
        BY <2>1 DEF Declare
<1>3. g \in Files
    BY <1>1, <1>2, FileType, MakeFile
<1>. QED
    BY <1>2, <1>3

\* A use of a copy is a use of the original, but for the parameter.
LEMMA CopyOK ==
    ASSUME NEW f \in Files, Consistent(f), NEW h \in Names, NEW c \in Names, NEW a \in Args,
           NEW u \in Copy(f, h, c, a)
    PROVE  /\ u \in Uses /\ u[1] = c
           /\ \E w \in f.uses : u[2] = w[2] /\ (u[3] = w[3] \/ (u[3] = a /\ w[3] # "ref"))
<1>1. PICK w \in f.uses : u = <<c, w[2], IF w[3] = "param" THEN a ELSE w[3]>>
    BY DEF Copy
<1>2. w[2] \in Names /\ w[3] \in {"ref"} \cup Args
    BY <1>1, FileType
<1>3. u[1] = c /\ u[2] = w[2] /\ u[3] = IF w[3] = "param" THEN a ELSE w[3]
    BY <1>1
<1>. QED
    BY <1>1, <1>2, <1>3 DEF Uses

LEMMA TakenIs ==
    ASSUME NEW f, NEW s
    PROVE  s \in AddressTaken(f) <=> \E u \in f.uses : \/ (u[2] = s /\ u[3] = "ref")
                                                     \/ (u[3] = s /\ s \in Functions)
BY DEF AddressTaken

LEMMA KnownIs ==
    ASSUME NEW f \in Files, NEW s \in Names
    PROVE  s \in DefinedIn(f) \cup DeclaredIn(f) <=> f.linkage[s] # "absent"
BY FileType DEF DefinedIn, DeclaredIn, Definitions, Linkages

\* Consistent, in terms of the parts of a use.
LEMMA ConsistentIs ==
    ASSUME NEW f \in Files
    PROVE  Consistent(f) <=> \A u \in f.uses : /\ u[1] \in DefinedIn(f)
                                              /\ f.linkage[u[2]] # "absent"
                                              /\ (u[3] \in Functions => f.linkage[u[3]] # "absent")
<1>1. ASSUME NEW u \in f.uses
      PROVE  Mentioned({u}) \subseteq DefinedIn(f) \cup DeclaredIn(f)
               <=> f.linkage[u[2]] # "absent" /\ (u[3] \in Functions => f.linkage[u[3]] # "absent")
    <2>1. u[2] \in Names
        BY FileType
    <2>2. u[3] \in Functions => u[3] \in Names
        BY KindsOfNames
    <2>3. \A s : s \in Mentioned({u}) <=> s = u[2] \/ (s = u[3] /\ s \in Functions)
        BY DEF Mentioned
    <2>. QED
        BY <2>1, <2>2, <2>3, KnownIs
<1>. QED
    BY <1>1 DEF Consistent

LEMMA DropOK ==
    ASSUME NEW f \in Files, Consistent(f), NEW u, NEW g, g = [f EXCEPT !.uses = @ \ {u}]
    PROVE  Becomes(f, g, {}, {}, {}) /\ Exports(f, g)
<1>1. g.linkage = f.linkage /\ g.uses = f.uses \ {u} /\ g \in Files
    BY FileType, MakeFile
<1>2. Consistent(g)
    BY <1>1, ConsistentIs DEF DefinedIn
<1>. QED
    BY <1>1, <1>2 DEF Becomes, Exports, DefinedIn, DeclaredIn, Strong, ExportedBy, AddressTaken

LEMMA InlineOK ==
    ASSUME NEW f \in Files, Consistent(f), NEW u \in f.uses, u[3] # "ref", NEW g,
           g = [f EXCEPT !.uses = (@ \ {u}) \cup Copy(f, u[2], u[1], u[3])]
    PROVE  Becomes(f, g, {}, {}, {}) /\ Exports(f, g)
<1>1. u[1] \in Names /\ u[2] \in Names /\ u[3] \in Args
    BY FileType
<1>2. \A w \in Copy(f, u[2], u[1], u[3]) :
          /\ w \in Uses /\ w[1] = u[1]
          /\ \E v \in f.uses : w[2] = v[2] /\ (w[3] = v[3] \/ (w[3] = u[3] /\ v[3] # "ref"))
    BY <1>1, CopyOK
<1>3. g.linkage = f.linkage /\ g.uses = (f.uses \ {u}) \cup Copy(f, u[2], u[1], u[3])
    BY FileType
<1>4. g.uses \subseteq Uses
    BY <1>2, <1>3, FileType
<1>5. g \in Files
    BY <1>3, <1>4, FileType, MakeFile
<1>6. Consistent(g)
    <2>1. \A w \in f.uses : /\ w[1] \in DefinedIn(f) /\ f.linkage[w[2]] # "absent"
                            /\ (w[3] \in Functions => f.linkage[w[3]] # "absent")
        BY ConsistentIs
    <2>2. DefinedIn(g) = DefinedIn(f)
        BY <1>3 DEF DefinedIn
    <2>3. ASSUME NEW w \in g.uses
          PROVE  /\ w[1] \in DefinedIn(g) /\ g.linkage[w[2]] # "absent"
                 /\ (w[3] \in Functions => g.linkage[w[3]] # "absent")
        <3>1. CASE w \in f.uses
            BY <1>3, <2>1, <2>2, <3>1
        <3>2. CASE w \in Copy(f, u[2], u[1], u[3])
            <4>1. PICK v \in f.uses : w[2] = v[2] /\ (w[3] = v[3] \/ w[3] = u[3])
                BY <1>2, <3>2
            <4>2. w[1] = u[1]
                BY <1>2, <3>2
            <4>. QED
                BY <1>3, <2>1, <2>2, <4>1, <4>2
        <3>. QED
            BY <1>3, <3>1, <3>2
    <2>. QED
        BY <1>5, <2>3, ConsistentIs
<1>7. AddressTaken(g) \subseteq AddressTaken(f)
    <2> SUFFICES ASSUME NEW s \in AddressTaken(g) PROVE s \in AddressTaken(f)
        OBVIOUS
    <2>1. PICK w \in g.uses : (w[2] = s /\ w[3] = "ref") \/ (w[3] = s /\ s \in Functions)
        BY TakenIs
    <2>. QED
        BY <1>2, <1>3, <2>1, TakenIs
<1>. QED
    BY <1>3, <1>5, <1>6, <1>7 DEF Becomes, Exports, DefinedIn, DeclaredIn, Strong, ExportedBy

LEMMA IntroduceOK ==
    ASSUME NEW f \in Files, Consistent(f), NEW c \in DefinedIn(f), NEW s \in Functions, NEW g,
           g = [Declare(f, {s}) EXCEPT !.uses = @ \cup {<<c, s, "any">>}]
    PROVE  Becomes(f, g, {s}, {}, {}) /\ Exports(f, g)
<1> DEFINE d == Declare(f, {s})
<1>1. s \in Names /\ c \in Names /\ {s} \in SUBSET Names
    BY KindsOfNames DEF DefinedIn
<1>2. /\ d \in Files /\ d.uses = f.uses
      /\ \A x \in Names : f.linkage[x] # "absent" => d.linkage[x] = f.linkage[x]
      /\ d.linkage[s] # "absent"
      /\ \A x \in Names \ {s} : d.linkage[x] = f.linkage[x]
      /\ \A x \in Names : f.linkage[x] = "absent" => d.linkage[x] \in {"absent", "decl"}
    BY <1>1, DeclareOK
<1> HIDE DEF d
<1>3. g = [d EXCEPT !.uses = @ \cup {<<c, s, "any">>}]
    BY DEF d
<1>4. g.linkage = d.linkage /\ g.uses = f.uses \cup {<<c, s, "any">>}
    BY <1>2, <1>3, FileType
<1>5. <<c, s, "any">> \in Uses
    BY <1>1 DEF Uses, Args
<1>6. g \in Files
    <2>1. d.linkage \in [Names -> Linkages] /\ d.uses \subseteq Uses
          /\ d = [linkage |-> d.linkage, uses |-> d.uses]
        BY <1>2, FileType
    <2>2. g = [linkage |-> d.linkage, uses |-> f.uses \cup {<<c, s, "any">>}]
        BY <1>2, <1>3, <2>1
    <2>3. f.uses \cup {<<c, s, "any">>} \in SUBSET Uses
        BY <1>5, FileType
    <2>. QED
        BY <2>1, <2>2, <2>3, MakeFile
<1>7. /\ DefinedIn(g) = DefinedIn(f) /\ ExportedBy(g) = ExportedBy(f) /\ Strong(g) = Strong(f)
      /\ DeclaredIn(g) \subseteq DeclaredIn(f) \cup {s}
    BY <1>2, <1>4, SMTT(60) DEF DefinedIn, ExportedBy, Strong, DeclaredIn, Definitions, Exported
<1>8. Consistent(g)
    <2>1. \A w \in f.uses : /\ w[1] \in DefinedIn(f) /\ f.linkage[w[2]] # "absent"
                            /\ (w[3] \in Functions => f.linkage[w[3]] # "absent")
        BY ConsistentIs
    <2>2. \A x \in Names : f.linkage[x] # "absent" => g.linkage[x] # "absent"
        BY <1>2, <1>4
    <2>3. \A w \in g.uses : /\ w[1] \in DefinedIn(g) /\ g.linkage[w[2]] # "absent"
                            /\ (w[3] \in Functions => g.linkage[w[3]] # "absent")
        <3> TAKE w \in g.uses
        <3>1. CASE w \in f.uses
            <4>1. w[2] \in Names /\ (w[3] \in Functions => w[3] \in Names)
                BY <3>1, FileType, KindsOfNames
            <4>. QED
                BY <1>7, <2>1, <2>2, <3>1, <4>1
        <3>2. CASE w = <<c, s, "any">>
            <4>1. w[1] = c /\ w[2] = s /\ w[3] = "any"
                BY <3>2
            <4>. QED
                BY <1>2, <1>4, <1>7, <4>1, NamesAssumption
        <3>. QED
            BY <1>4, <3>1, <3>2
    <2>. QED
        BY <1>6, <2>3, ConsistentIs
<1>9. AddressTaken(g) \subseteq AddressTaken(f)
    BY <1>4, NamesAssumption DEF AddressTaken
<1>. QED
    BY <1>6, <1>7, <1>8, <1>9 DEF Becomes, Exports

\* A symbol table that knows and defines what another one does, and more uses.
LEMMA RelinkOK ==
    ASSUME NEW f \in Files, Consistent(f), NEW g \in Files,
           \A s \in Names : f.linkage[s] \in Definitions => g.linkage[s] \in Definitions,
           \A s \in Names : f.linkage[s] # "absent" => g.linkage[s] # "absent",
           \A u \in g.uses \ f.uses : /\ u[1] \in DefinedIn(g) /\ g.linkage[u[2]] # "absent"
                                      /\ (u[3] \in Functions => g.linkage[u[3]] # "absent")
    PROVE  Consistent(g)
<1> SUFFICES ASSUME NEW u \in g.uses, u \in f.uses
             PROVE  /\ u[1] \in DefinedIn(g) /\ g.linkage[u[2]] # "absent"
                    /\ (u[3] \in Functions => g.linkage[u[3]] # "absent")
    BY ConsistentIs
<1>1. /\ u[1] \in DefinedIn(f) /\ f.linkage[u[2]] # "absent"
      /\ (u[3] \in Functions => f.linkage[u[3]] # "absent")
    BY ConsistentIs
<1>2. u[2] \in Names /\ (u[3] \in Functions => u[3] \in Names)
    BY FileType, KindsOfNames
<1>. QED
    BY <1>1, <1>2 DEF DefinedIn

LEMMA SpecializedOK ==
    ASSUME NEW f \in Files, Consistent(f), NEW new \in SUBSET SpecNames, NEW link \in {"int", "ext"},
           NEW g, g = Specialized(f, new, link)
    PROVE  /\ Becomes(f, g, Bound(new), Bound(new), new) /\ Exports(f, g)
           /\ (link = "int" => Strong(g) \subseteq Strong(f))
           /\ \A s \in Names : f.linkage[s] # "absent" => g.linkage[s] = f.linkage[s]
           /\ \A s \in new : g.linkage[s] # "absent"
           /\ f.uses \subseteq g.uses
<1> DEFINE fresh == {s \in new : f.linkage[s] = "absent"}
           bound == {<<s, s[2], "ref">> : s \in {x \in fresh : x[2] \in Functions}}
           copies == UNION {Copy(f, s[1], s, s[2]) : s \in fresh}
           B == {u[2] : u \in bound}
           A == Bound(new)
           d == Declare(f, B)
           l == [s \in Names |-> IF s \in fresh THEN link ELSE d.linkage[s]]
<1>1. g = [linkage |-> l, uses |-> f.uses \cup bound \cup copies]
    BY DEF Specialized, Concretized
<1>2. \A s \in new : s \in Names /\ s[1] \in Names /\ s[2] \in Args
    BY KindsOfNames
<1>3. \A u \in bound : /\ u[1] \in fresh /\ u[2] \in A /\ u[3] = "ref" /\ u[2] \in B
                       /\ u \in Uses
    <2> TAKE u \in bound
    <2>1. PICK s \in fresh : s[2] \in Functions /\ u = <<s, s[2], "ref">>
        OBVIOUS
    <2>2. s \in Names /\ s[2] \in Names
        BY <1>2, <2>1, KindsOfNames
    <2>. QED
        BY <2>1, <2>2 DEF Uses, Bound
<1>4. B \subseteq A /\ A \subseteq Functions /\ B \in SUBSET Names
    <2>1. B \subseteq A
        BY <1>3
    <2>2. A \subseteq Functions
        BY DEF Bound
    <2>. QED
        BY <2>1, <2>2, KindsOfNames
<1>5. \A u \in copies : /\ u \in Uses
                        /\ \E s \in fresh : /\ u[1] = s
                                            /\ \E w \in f.uses : u[2] = w[2] /\ (u[3] = w[3] \/ (u[3] = s[2] /\ w[3] # "ref"))
    <2> TAKE u \in copies
    <2>1. PICK s \in fresh : u \in Copy(f, s[1], s, s[2])
        OBVIOUS
    <2>2. s[1] \in Names /\ s \in Names /\ s[2] \in Args
        BY <1>2
    <2>. QED
        BY <2>1, <2>2, CopyOK
<1>6. /\ d \in Files /\ d.uses = f.uses
      /\ \A s \in Names : f.linkage[s] # "absent" => d.linkage[s] = f.linkage[s]
      /\ \A s \in B : d.linkage[s] # "absent"
      /\ \A s \in Names \ B : d.linkage[s] = f.linkage[s]
      /\ \A s \in Names : f.linkage[s] = "absent" => d.linkage[s] \in {"absent", "decl"}
    BY <1>4, DeclareOK
<1>a. \A s \in new : s[2] \in Functions => s[2] \in A
    BY DEF Bound
<1> HIDE DEF d, B, A
<1>7. \A s \in Names : g.linkage[s] = IF s \in fresh THEN link ELSE d.linkage[s]
    BY <1>1
<1>8. g.uses = f.uses \cup bound \cup copies
    BY <1>1
<1>9. g \in Files
    <2>1. l \in [Names -> Linkages]
        BY <1>6, FileType DEF Linkages
    <2>2. f.uses \cup bound \cup copies \in SUBSET Uses
        BY <1>3, <1>5, FileType
    <2>. QED
        BY <1>1, <2>1, <2>2, MakeFile
<1> HIDE DEF bound, copies, l
<1>10. \A s \in Names : f.linkage[s] # "absent" => g.linkage[s] = f.linkage[s]
    BY <1>6, <1>7
<1>11. \A s \in new : g.linkage[s] # "absent"
    BY <1>2, <1>7, <1>10
<1>12. \A s \in fresh : s \in DefinedIn(g)
    BY <1>2, <1>7 DEF DefinedIn, Definitions
<1>13. fresh \cap Functions = {} /\ fresh \subseteq SpecNames
    BY NamesAssumption
<1>14. Consistent(g)
    <2>1. ASSUME NEW u \in bound
          PROVE  /\ u[1] \in DefinedIn(g) /\ g.linkage[u[2]] # "absent"
                 /\ (u[3] \in Functions => g.linkage[u[3]] # "absent")
        <3>1. u[1] \in fresh /\ u[2] \in B /\ u[3] = "ref"
            BY <1>3
        <3>2. u[2] \in Names /\ u[2] \notin fresh
            BY <1>4, <1>13, <3>1
        <3>. QED
            BY <1>6, <1>7, <1>12, <3>1, <3>2, NamesAssumption
    <2>2. ASSUME NEW u \in copies
          PROVE  /\ u[1] \in DefinedIn(g) /\ g.linkage[u[2]] # "absent"
                 /\ (u[3] \in Functions => g.linkage[u[3]] # "absent")
        <3>1. PICK s \in fresh : /\ u[1] = s
                                /\ \E w \in f.uses : u[2] = w[2] /\ (u[3] = w[3] \/ u[3] = s[2])
            BY <1>5
        <3>2. PICK w \in f.uses : u[2] = w[2] /\ (u[3] = w[3] \/ u[3] = s[2])
            BY <3>1
        <3>3. /\ w[2] \in Names /\ f.linkage[w[2]] # "absent"
              /\ (w[3] \in Functions => w[3] \in Names /\ f.linkage[w[3]] # "absent")
            BY ConsistentIs, FileType, KindsOfNames
        <3>4. s[2] \in Functions => g.linkage[s[2]] # "absent"
            <4>1. SUFFICES ASSUME s[2] \in Functions PROVE g.linkage[s[2]] # "absent"
                OBVIOUS
            <4>2. <<s, s[2], "ref">> \in bound
                BY <4>1 DEF bound
            <4>3. g.linkage[<<s, s[2], "ref">>[2]] # "absent"
                BY <2>1, <4>2
            <4>. QED
                BY <4>3
        <3>. QED
            BY <1>10, <1>12, <3>1, <3>2, <3>3, <3>4
    <2>3. \A s \in Names : f.linkage[s] \in Definitions => g.linkage[s] \in Definitions
        BY <1>10 DEF Definitions
    <2>4. \A s \in Names : f.linkage[s] # "absent" => g.linkage[s] # "absent"
        BY <1>10
    <2>5. \A u \in g.uses \ f.uses : u \in bound \/ u \in copies
        BY <1>8
    <2>6. \A u \in g.uses \ f.uses : /\ u[1] \in DefinedIn(g) /\ g.linkage[u[2]] # "absent"
                                     /\ (u[3] \in Functions => g.linkage[u[3]] # "absent")
        BY <2>1, <2>2, <2>5
    <2>. QED
        BY <1>9, <2>3, <2>4, <2>6, RelinkOK
<1>15. AddressTaken(g) \subseteq AddressTaken(f) \cup A
    <2> SUFFICES ASSUME NEW s \in AddressTaken(g) PROVE s \in AddressTaken(f) \cup A
        OBVIOUS
    <2>1. PICK u \in g.uses : (u[2] = s /\ u[3] = "ref") \/ (u[3] = s /\ s \in Functions)
        BY TakenIs
    <2>2. CASE u \in f.uses
        BY <2>1, <2>2, TakenIs
    <2>3. CASE u \in bound
        BY <1>3, <2>1, <2>3, NamesAssumption
    <2>4. CASE u \in copies
        <3>1. PICK c \in fresh : \E w \in f.uses : u[2] = w[2] /\ (u[3] = w[3] \/ (u[3] = c[2] /\ w[3] # "ref"))
            BY <1>5, <2>4
        <3>2. PICK w \in f.uses : u[2] = w[2] /\ (u[3] = w[3] \/ (u[3] = c[2] /\ w[3] # "ref"))
            BY <3>1
        <3>3. CASE u[3] = w[3]
            BY <2>1, <3>2, <3>3, TakenIs
        <3>4. CASE u[3] = c[2]
            <4>1. c[2] # "ref"
                BY <3>1, KindsOfNames, NamesAssumption DEF ConcreteArgs
            <4>. QED
                BY <1>a, <2>1, <3>4, <4>1
        <3>. QED
            BY <3>2, <3>3, <3>4
    <2>. QED
        BY <1>8, <2>2, <2>3, <2>4
<1>16. DeclaredIn(g) \subseteq DeclaredIn(f) \cup A
    BY <1>4, <1>6, <1>7 DEF DeclaredIn
<1>17. DefinedIn(g) \subseteq DefinedIn(f) \cup SpecNames
    BY <1>6, <1>7, <1>13 DEF DefinedIn, Definitions
<1>18. /\ Strong(g) \subseteq Strong(f) \cup new
       /\ (link = "int" => Strong(g) \subseteq Strong(f))
    BY <1>6, <1>7 DEF Strong
<1>19. Exports(f, g)
    BY <1>10 DEF Exports, ExportedBy, Exported
<1>. QED
    BY <1>8, <1>9, <1>10, <1>11, <1>14, <1>15, <1>16, <1>17, <1>18, <1>19 DEF Becomes, A

LEMMA SpecializedLocallyOK ==
    ASSUME NEW f \in Files, Consistent(f), NEW spec \in SpecNames, NEW h, h = Specialized(f, {spec}, "int")
    PROVE  /\ Becomes(f, h, Bound({spec}), Bound({spec}), {spec}) /\ Exports(f, h)
           /\ Strong(h) \subseteq Strong(f)
           /\ \A s \in Names : f.linkage[s] # "absent" => h.linkage[s] = f.linkage[s]
           /\ h.linkage[spec] # "absent"
<1>1. /\ "int" \in {"int", "ext"} /\ {spec} \in SUBSET SpecNames /\ spec \in {spec}
    OBVIOUS
<1>. QED
    BY <1>1, SpecializedOK

\* The call is then replaced in the file with the specialization.
LEMMA LocalOK ==
    ASSUME NEW f \in Files, Consistent(f), NEW u \in f.uses, u[2] \in Functions, u[3] \in ConcreteArgs,
           NEW spec, spec = <<u[2], u[3]>>,
           NEW h, Becomes(f, h, Bound({spec}), Bound({spec}), {spec}), Exports(f, h), Strong(h) \subseteq Strong(f),
           \A s \in Names : f.linkage[s] # "absent" => h.linkage[s] = f.linkage[s],
           h.linkage[spec] # "absent",
           NEW g, g = [h EXCEPT !.uses = (@ \ {u}) \cup {<<u[1], spec, "any">>}]
    PROVE  Becomes(f, g, {}, {}, {}) /\ Exports(f, g)
<1> DEFINE A == Bound({spec})
<1>1. spec \in SpecNames /\ spec[2] = u[3] /\ spec \in Names
    BY KindsOfNames DEF SpecNames
<1>2. /\ Becomes(f, h, A, A, {spec}) /\ Exports(f, h) /\ Strong(h) \subseteq Strong(f)
      /\ \A s \in Names : f.linkage[s] # "absent" => h.linkage[s] = f.linkage[s]
      /\ h.linkage[spec] # "absent"
    OBVIOUS
<1> HIDE DEF A
<1>3. h \in Files /\ Consistent(h)
    BY <1>2 DEF Becomes
<1>4. g = [linkage |-> h.linkage, uses |-> (h.uses \ {u}) \cup {<<u[1], spec, "any">>}]
    <2>1. h = [linkage |-> h.linkage, uses |-> h.uses]
        BY <1>3, FileType
    <2>. QED
        BY <2>1
<1>5. u[1] \in DefinedIn(f) /\ (u[3] \in Functions => f.linkage[u[3]] # "absent")
    BY ConsistentIs
<1>6. \A s \in A : /\ s = u[3] /\ s \in Functions /\ s \in Names /\ f.linkage[s] # "absent"
                   /\ s \in AddressTaken(f)
    BY <1>1, <1>5, KindsOfNames, TakenIs DEF A, Bound
<1>7. u[1] \in DefinedIn(h) /\ u[1] \in Names
    BY <1>2, <1>5 DEF DefinedIn, Definitions
<1>8. g \in Files
    <2>1. <<u[1], spec, "any">> \in Uses
        BY <1>1, <1>7 DEF Uses, Args
    <2>2. h.linkage \in [Names -> Linkages] /\ h.uses \subseteq Uses
        BY <1>3, FileType
    <2>3. (h.uses \ {u}) \cup {<<u[1], spec, "any">>} \in SUBSET Uses
        BY <2>1, <2>2
    <2>. QED
        BY <1>4, <2>2, <2>3 DEF Files
<1>9. Consistent(g)
    <2>1. g.linkage = h.linkage /\ g.uses \ h.uses \subseteq {<<u[1], spec, "any">>}
        BY <1>4
    <2>2. ASSUME NEW w \in g.uses \ h.uses
          PROVE  /\ w[1] \in DefinedIn(g) /\ g.linkage[w[2]] # "absent"
                 /\ (w[3] \in Functions => g.linkage[w[3]] # "absent")
        <3>1. w[1] = u[1] /\ w[2] = spec /\ w[3] = "any"
            BY <2>1
        <3>. QED
            BY <1>2, <1>7, <2>1, <3>1, NamesAssumption DEF DefinedIn
    <2>. QED
        BY <1>3, <1>8, <2>1, <2>2, RelinkOK
<1>10. DeclaredIn(g) \subseteq DeclaredIn(f)
    <2>1. DeclaredIn(g) \subseteq DeclaredIn(f) \cup A
        BY <1>2, <1>4 DEF Becomes, DeclaredIn
    <2>. QED
        BY <1>2, <1>4, <1>6, <2>1 DEF DeclaredIn
<1>11. AddressTaken(g) \subseteq AddressTaken(f)
    <2>1. AddressTaken(g) \subseteq AddressTaken(h)
        <3> SUFFICES ASSUME NEW s \in AddressTaken(g) PROVE s \in AddressTaken(h)
            OBVIOUS
        <3>1. PICK w \in g.uses : (w[2] = s /\ w[3] = "ref") \/ (w[3] = s /\ s \in Functions)
            BY TakenIs
        <3>2. w # <<u[1], spec, "any">>
            BY <3>1, NamesAssumption
        <3>3. w \in h.uses
            BY <1>4, <3>2
        <3>. QED
            BY <3>1, <3>3, TakenIs
    <2>2. AddressTaken(h) \subseteq AddressTaken(f) \cup A
        BY <1>2 DEF Becomes
    <2>. QED
        BY <1>6, <2>1, <2>2
<1>12. DefinedIn(g) \subseteq DefinedIn(f) \cup SpecNames /\ Strong(g) \subseteq Strong(f) \cup Functions
    BY <1>2, <1>4 DEF Becomes, DefinedIn, Strong
<1>13. Exports(f, g)
    BY <1>2, <1>4 DEF Exports, ExportedBy
<1>. QED
    BY <1>8, <1>9, <1>10, <1>11, <1>12, <1>13 DEF Becomes

LEMMA AddOK ==
    ASSUME NEW f \in Files, Consistent(f), NEW R \in SUBSET Rules, NEW g, g = AddSpecializations(f, R),
           NEW new, new = {r.to : r \in R}
    PROVE  /\ Becomes(f, g, Bound(new), Bound(new), new) /\ Exports(f, g)
           /\ \A r \in R : r.to \in ExportedBy(g)
<1> DEFINE h == Specialized(f, new, "ext")
           l == [s \in Names |-> IF s \in new THEN "ext" ELSE h.linkage[s]]
           B == Bound(new)
<1>1. new \in SUBSET SpecNames /\ new \subseteq Names
    BY KindsOfNames DEF Rules
<1>2. /\ Becomes(f, h, B, B, new) /\ Exports(f, h)
    BY <1>1, SpecializedOK
<1>3. \A r \in R : r.to \in new
    OBVIOUS
<1> HIDE DEF h, B
<1>4. h \in Files /\ Consistent(h)
    BY <1>2 DEF Becomes
<1>5. g = [linkage |-> l, uses |-> h.uses]
    <2>1. h = [linkage |-> h.linkage, uses |-> h.uses]
        BY <1>4, FileType
    <2>. QED
        BY <2>1 DEF AddSpecializations, h
<1>6. l \in [Names -> Linkages]
    BY <1>4, FileType DEF Linkages
<1>7. g \in Files
    BY <1>4, <1>5, <1>6, FileType, MakeFile
<1>8. \A s \in Names : g.linkage[s] = IF s \in new THEN "ext" ELSE h.linkage[s]
    BY <1>5
<1>9. g.uses = h.uses
    BY <1>5
<1> HIDE DEF l
<1>10. Consistent(g)
    BY <1>4, <1>7, <1>8, <1>9, RelinkOK DEF Definitions
<1>11. DeclaredIn(g) \subseteq DeclaredIn(f) \cup B
    BY <1>2, <1>8 DEF Becomes, DeclaredIn
<1>12. AddressTaken(g) \subseteq AddressTaken(f) \cup B
    BY <1>2, <1>9 DEF Becomes, AddressTaken
<1>13. DefinedIn(g) \subseteq DefinedIn(f) \cup SpecNames
    BY <1>1, <1>2, <1>8 DEF Becomes, DefinedIn
<1>14. Strong(g) \subseteq Strong(f) \cup Functions \cup new
    BY <1>2, <1>8 DEF Becomes, Strong
<1>15. Exports(f, g)
    BY <1>2, <1>8 DEF Exports, ExportedBy, Exported
<1>16. \A s \in new : s \in ExportedBy(g)
    BY <1>1, <1>8 DEF ExportedBy, Exported
<1>. QED
    BY <1>3, <1>7, <1>10, <1>11, <1>12, <1>13, <1>14, <1>15, <1>16 DEF Becomes, B

LEMMA ApplyOK ==
    ASSUME NEW f \in Files, Consistent(f), NEW R \in SUBSET Rules, NEW done \in SUBSET f.uses,
           NEW g, g = ApplyRules(f, R, done)
    PROVE  Becomes(f, g, {r.to : r \in R}, {}, {}) /\ Exports(f, g)
<1> DEFINE hit == {r \in R : Matches(f, r) \cap done # {}}
           passed == {r.arg : r \in {x \in hit : f.linkage[x.from] \in {"ext", "decl"}}}
                        \cap Functions \cap DefinedIn(f)
           B == {r.to : r \in hit}
           d == Declare(f, B)
           l == [s \in Names |-> IF s \in passed THEN "ext" ELSE d.linkage[s]]
           calls == UNION {{<<u[1], r.to, "any">> : u \in Matches(f, r) \cap done} : r \in hit}
<1>1. g = [linkage |-> l, uses |-> (f.uses \ done) \cup calls]
    BY DEF ApplyRules
<1>2. B \in SUBSET Names /\ B \subseteq SpecNames /\ B \subseteq {r.to : r \in R}
    BY KindsOfNames DEF Rules
<1>3. /\ d \in Files /\ d.uses = f.uses
      /\ \A s \in Names : f.linkage[s] # "absent" => d.linkage[s] = f.linkage[s]
      /\ \A s \in B : d.linkage[s] # "absent"
      /\ \A s \in Names \ B : d.linkage[s] = f.linkage[s]
      /\ \A s \in Names : f.linkage[s] = "absent" => d.linkage[s] \in {"absent", "decl"}
    BY <1>2, DeclareOK
<1>4. \A u \in calls : /\ u \in Uses /\ u[2] \in B /\ u[3] = "any"
                       /\ \E w \in f.uses : u[1] = w[1]
    <2> TAKE u \in calls
    <2>1. PICK r \in hit : \E w \in Matches(f, r) \cap done : u = <<w[1], r.to, "any">>
        OBVIOUS
    <2>2. PICK w \in Matches(f, r) \cap done : u = <<w[1], r.to, "any">>
        BY <2>1
    <2>3. w \in f.uses /\ w[1] \in Names /\ r.to \in B
        BY <2>2, FileType
    <2>. QED
        BY <1>2, <2>2, <2>3 DEF Uses, Args
<1>5. passed \subseteq DefinedIn(f) /\ passed \subseteq Functions
    OBVIOUS
<1> HIDE DEF hit, passed, d, calls, B
<1>6. l \in [Names -> Linkages]
    BY <1>3, FileType DEF Linkages
<1>7. g \in Files
    <2>1. (f.uses \ done) \cup calls \in SUBSET Uses
        BY <1>4, FileType
    <2>. QED
        BY <1>1, <1>6, <2>1, MakeFile
<1>8. /\ g.uses = (f.uses \ done) \cup calls
      /\ \A s \in Names : g.linkage[s] = IF s \in passed THEN "ext" ELSE d.linkage[s]
    BY <1>1
<1> HIDE DEF l
<1>9. \A s \in Names : f.linkage[s] \in Definitions => g.linkage[s] \in Definitions
    BY <1>3, <1>8 DEF Definitions
<1>10. \A s \in Names : f.linkage[s] # "absent" => g.linkage[s] # "absent"
    BY <1>3, <1>8
<1>11. Consistent(g)
    <2>1. ASSUME NEW u \in g.uses \ f.uses
          PROVE  /\ u[1] \in DefinedIn(g) /\ g.linkage[u[2]] # "absent"
                 /\ (u[3] \in Functions => g.linkage[u[3]] # "absent")
        <3>1. /\ u[2] \in B /\ u[3] = "any" /\ \E w \in f.uses : u[1] = w[1]
            BY <1>4, <1>8
        <3>2. PICK w \in f.uses : u[1] = w[1]
            BY <3>1
        <3>3. w[1] \in DefinedIn(f)
            BY ConsistentIs
        <3>. QED
            BY <1>2, <1>3, <1>8, <1>9, <3>1, <3>2, <3>3, NamesAssumption DEF DefinedIn
    <2>. QED
        BY <1>7, <1>9, <1>10, <2>1, RelinkOK
<1>12. DeclaredIn(g) \subseteq DeclaredIn(f) \cup {r.to : r \in R}
    BY <1>2, <1>3, <1>8 DEF DeclaredIn
<1>13. AddressTaken(g) \subseteq AddressTaken(f)
    <2> SUFFICES ASSUME NEW s \in AddressTaken(g) PROVE s \in AddressTaken(f)
        OBVIOUS
    <2>1. PICK u \in g.uses : (u[2] = s /\ u[3] = "ref") \/ (u[3] = s /\ s \in Functions)
        BY TakenIs
    <2>2. u \notin calls
        BY <1>4, <2>1, NamesAssumption
    <2>. QED
        BY <1>8, <2>1, <2>2, TakenIs
<1>14. DefinedIn(g) \subseteq DefinedIn(f)
    BY <1>3, <1>5, <1>8 DEF DefinedIn, Definitions
<1>15. Strong(g) \subseteq Strong(f) \cup Functions
    BY <1>3, <1>5, <1>8 DEF Strong
<1>16. Exports(f, g)
    BY <1>3, <1>8 DEF Exports, ExportedBy, Exported
<1>. QED
    BY <1>7, <1>11, <1>12, <1>13, <1>14, <1>15, <1>16 DEF Becomes

LEMMA StripOK ==
    ASSUME NEW f \in Files, Consistent(f), NEW g,
           g = [f EXCEPT !.linkage = [s \in Names |->
                   IF f.linkage[s] = "decl" /\ s \notin Mentioned(f.uses) THEN "absent" ELSE f.linkage[s]]]
    PROVE  Becomes(f, g, {}, {}, {}) /\ Exports(f, g)
<1> DEFINE l == [s \in Names |-> IF f.linkage[s] = "decl" /\ s \notin Mentioned(f.uses)
                                 THEN "absent" ELSE f.linkage[s]]
<1>1. l \in [Names -> Linkages]
    BY FileType DEF Linkages
<1>2. g = [linkage |-> l, uses |-> f.uses]
    BY FileType
<1>3. g \in Files
    BY <1>1, <1>2, FileType, MakeFile
<1>4. /\ g.uses = f.uses
      /\ \A s \in Names : g.linkage[s] = IF f.linkage[s] = "decl" /\ s \notin Mentioned(f.uses)
                                         THEN "absent" ELSE f.linkage[s]
    BY <1>2
<1> HIDE DEF l
<1>5. Consistent(g)
    <2> SUFFICES ASSUME NEW u \in f.uses
                 PROVE  /\ u[1] \in DefinedIn(g) /\ g.linkage[u[2]] # "absent"
                        /\ (u[3] \in Functions => g.linkage[u[3]] # "absent")
        BY <1>3, <1>4, ConsistentIs
    <2>1. /\ u[1] \in DefinedIn(f) /\ f.linkage[u[2]] # "absent"
          /\ (u[3] \in Functions => f.linkage[u[3]] # "absent")
        BY ConsistentIs
    <2>2. u[2] \in Mentioned(f.uses) /\ (u[3] \in Functions => u[3] \in Mentioned(f.uses))
        BY DEF Mentioned
    <2>3. u[2] \in Names /\ (u[3] \in Functions => u[3] \in Names)
        BY FileType, KindsOfNames
    <2>. QED
        BY <1>4, <2>1, <2>2, <2>3 DEF DefinedIn, Definitions
<1>6. /\ DeclaredIn(g) \subseteq DeclaredIn(f) /\ DefinedIn(g) = DefinedIn(f)
      /\ Strong(g) = Strong(f) /\ ExportedBy(g) = ExportedBy(f)
    BY <1>4 DEF DeclaredIn, DefinedIn, Strong, ExportedBy, Definitions, Exported
<1>7. AddressTaken(g) = AddressTaken(f)
    BY <1>4 DEF AddressTaken
<1>. QED
    BY <1>3, <1>5, <1>6, <1>7 DEF Becomes, Exports

-----------------------------------------------------------------------------
(* What the tasks do to the file of their module.                           *)

Others(m) == \A x \in Modules \ {m} : file'[x] = file[x]

\* A task that removes nothing others could need.
Widens(m, D, T, S) ==
    /\ m \in Modules /\ file' \in [Modules -> Files] /\ Others(m)
    /\ Becomes(file[m], file'[m], D, T, S) /\ Exports(file[m], file'[m])

\* A task that hides or removes what the interface I does not mention.
Narrows(m, I) ==
    /\ m \in Modules /\ file' \in [Modules -> Files] /\ Others(m)
    /\ Becomes(file[m], file'[m], {}, {}, {})
    /\ \A s \in ExportedBy(file[m]) \cap Needed(file[m], I) : s \in ExportedBy(file'[m])

LEMMA InputType ==
    ASSUME TypeOK
    PROVE  /\ original \in [Modules -> Files] /\ file \in [Modules -> Files]
           /\ \A m \in Modules : Consistent(file[m]) /\ Consistent(original[m])
           /\ \A m \in Modules, s \in SpecNames : original[m].linkage[s] = "absent"
           /\ Keep \subseteq Names /\ LibCalls \subseteq Functions /\ MaxRounds \in Nat
BY JobsAssumption DEF TypeOK, Modules, Keep, LibCalls, MaxRounds

LEMMA PutFile ==
    ASSUME TypeOK, NEW m \in Modules, NEW g \in Files, file' = [file EXCEPT ![m] = g]
    PROVE  /\ file' \in [Modules -> Files] /\ file'[m] = g /\ Others(m)
BY InputType DEF Others

LEMMA InternalizeFile ==
    ASSUME TypeOK, NEW m \in Modules, Internalize(m)
    PROVE  Narrows(m, OthersInterface(m))
<1>1. PICK g \in MinimizeComponent(file[m], OthersInterface(m)) : file' = [file EXCEPT ![m] = g]
    BY DEF Internalize
<1>2. file[m] \in Files /\ Consistent(file[m])
    BY InputType
<1>3. /\ Becomes(file[m], g, {}, {}, {})
      /\ \A s \in ExportedBy(file[m]) \cap Needed(file[m], OthersInterface(m)) : s \in ExportedBy(g)
    BY <1>1, <1>2, MinimizeOK
<1>4. g \in Files
    BY <1>3 DEF Becomes
<1>. QED
    BY <1>1, <1>3, <1>4, PutFile DEF Narrows

SealInterface == [calls |-> CalledNames(iface.calls), references |-> iface.references]

LEMMA SealFile ==
    ASSUME TypeOK, NEW m \in Modules, Seal(m)
    PROVE  Narrows(m, SealInterface)
<1>1. PICK g \in MinimizeComponent(file[m], SealInterface) : file' = [file EXCEPT ![m] = g]
    BY DEF Seal, SealInterface
<1>2. file[m] \in Files /\ Consistent(file[m])
    BY InputType
<1>3. /\ Becomes(file[m], g, {}, {}, {})
      /\ \A s \in ExportedBy(file[m]) \cap Needed(file[m], SealInterface) : s \in ExportedBy(g)
    BY <1>1, <1>2, MinimizeOK
<1>4. g \in Files
    BY <1>3 DEF Becomes
<1>. QED
    BY <1>1, <1>3, <1>4, PutFile DEF Narrows

\* A file that becomes g is replaced by g.
LEMMA PutWidens ==
    ASSUME TypeOK, NEW m \in Modules, NEW g, file' = [file EXCEPT ![m] = g], NEW D, NEW T, NEW S,
           Becomes(file[m], g, D, T, S), Exports(file[m], g)
    PROVE  Widens(m, D, T, S)
<1>1. g \in Files
    BY DEF Becomes
<1>. QED
    BY <1>1, PutFile DEF Widens

LEMMA IntraFile ==
    ASSUME TypeOK, NEW m \in Modules, Intra(m)
    PROVE  \E D \in SUBSET LibCalls : Widens(m, D, {}, {})
<1> DEFINE f == file[m]
<1>1. f \in Files /\ Consistent(f) /\ file \in [Modules -> Files] /\ {} \in SUBSET LibCalls
    BY InputType
<1>2. ASSUME NEW u \in f.uses, DropUse(m, u)
      PROVE  Widens(m, {}, {}, {})
    <2> DEFINE g == [f EXCEPT !.uses = @ \ {u}]
    <2>1. file' = [file EXCEPT ![m] = g]
        BY <1>2, <1>1 DEF DropUse
    <2>2. Becomes(f, g, {}, {}, {}) /\ Exports(f, g)
        BY <1>1, DropOK
    <2>. QED
        BY <2>1, <2>2, PutWidens
<1>3. ASSUME NEW u \in f.uses, InlineCall(m, u)
      PROVE  Widens(m, {}, {}, {})
    <2> DEFINE g == [f EXCEPT !.uses = (@ \ {u}) \cup Copy(f, u[2], u[1], u[3])]
    <2>1. file' = [file EXCEPT ![m] = g] /\ u[3] # "ref"
        BY <1>3, <1>1 DEF InlineCall
    <2>2. Becomes(f, g, {}, {}, {}) /\ Exports(f, g)
        BY <1>1, <2>1, InlineOK
    <2>. QED
        BY <2>1, <2>2, PutWidens
<1>4. ASSUME NEW u \in f.uses, SpecializeLocal(m, u)
      PROVE  Widens(m, {}, {}, {})
    <2> DEFINE spec == <<u[2], u[3]>>
               h == Specialized(f, {spec}, "int")
               g == [h EXCEPT !.uses = (@ \ {u}) \cup {<<u[1], spec, "any">>}]
    <2>1. file' = [file EXCEPT ![m] = g] /\ u[2] \in Functions /\ u[3] \in ConcreteArgs
        BY <1>4 DEF SpecializeLocal
    <2>2. spec \in SpecNames
        BY <2>1 DEF SpecNames
    <2>3. /\ Becomes(f, h, Bound({spec}), Bound({spec}), {spec}) /\ Exports(f, h)
          /\ Strong(h) \subseteq Strong(f)
          /\ \A s \in Names : f.linkage[s] # "absent" => h.linkage[s] = f.linkage[s]
          /\ h.linkage[spec] # "absent"
        BY <1>1, <2>2, SpecializedLocallyOK
    <2>4. Becomes(f, g, {}, {}, {}) /\ Exports(f, g)
        <3> HIDE DEF h
        <3>. QED
            BY <1>1, <2>1, <2>3, LocalOK
    <2>. QED
        BY <2>1, <2>4, PutWidens
<1>5. ASSUME NEW c \in Callable, NEW s \in LibCalls, IntroduceCall(m, c, s)
      PROVE  Widens(m, {s}, {}, {})
    <2> DEFINE g == [Declare(f, {s}) EXCEPT !.uses = @ \cup {<<c, s, "any">>}]
    <2>1. file' = [file EXCEPT ![m] = g] /\ c \in DefinedIn(f) /\ s \in Functions
        BY <1>5, InputType DEF IntroduceCall
    <2>2. Becomes(f, g, {s}, {}, {}) /\ Exports(f, g)
        BY <1>1, <2>1, IntroduceOK
    <2>. QED
        BY <2>1, <2>2, PutWidens
<1>6. ASSUME IntraDone(m)
      PROVE  Widens(m, {}, {}, {})
    <2>1. PICK live \in Live(f) : file' = [file EXCEPT ![m] = Only(f, live)]
        BY <1>6 DEF IntraDone, GlobalDCE
    <2>2. Becomes(f, Only(f, live), {}, {}, {}) /\ Exports(f, Only(f, live))
        BY <1>1, OnlyOK
    <2>. QED
        BY <2>1, <2>2, PutWidens
<1>. QED
    BY <1>1, <1>2, <1>3, <1>4, <1>5, <1>6 DEF Intra

LEMMA RulesOK ==
    ASSUME TypeOK, NEW m \in Modules, NEW C \in SUBSET Candidates(m)
    PROVE  /\ RulesFor(m, C) \in SUBSET Rules
           /\ \A r \in RulesFor(m, C) : /\ r.to[1] \in DefinedIn(file[m]) \cap Functions
                                        /\ \E c \in iface.calls : r.to[2] = c[2]
<1> SUFFICES ASSUME NEW r \in RulesFor(m, C)
             PROVE  /\ r \in Rules /\ r.to[1] \in DefinedIn(file[m]) \cap Functions
                    /\ \E c \in iface.calls : r.to[2] = c[2]
    OBVIOUS
<1>1. PICK c \in C : \E g \in Target(file[m], c[1]) : r = [from |-> c[1], arg |-> c[2], to |-> <<g, c[2]>>]
    BY DEF RulesFor
<1>2. PICK g \in Target(file[m], c[1]) : r = [from |-> c[1], arg |-> c[2], to |-> <<g, c[2]>>]
    BY <1>1
<1>3. c \in iface.calls /\ c[2] \in ConcreteArgs
    BY DEF Candidates
<1>4. g \in Functions \cap DefinedIn(file[m]) /\ c[1] \in Functions \cup Aliases
    BY DEF Target
<1>. QED
    BY <1>2, <1>3, <1>4 DEF Rules, SpecNames

LEMMA SpecializeFile ==
    ASSUME TypeOK, NEW m \in Modules, Specialize(m)
    PROVE  \E N \in SUBSET SpecNames :
               /\ Widens(m, Bound(N), Bound(N), N)
               /\ \A s \in N : s[1] \in DefinedIn(file[m]) /\ \E c \in iface.calls : s[2] = c[2]
               /\ rewrites'[m] \in SUBSET Rules
               /\ \A x \in Modules \ {m} : rewrites'[x] = rewrites[x]
               /\ \A r \in rewrites'[m] : r.to \in ExportedBy(file'[m])
<1>1. PICK C \in SUBSET Candidates(m) :
          /\ rewrites' = [rewrites EXCEPT ![m] = RulesFor(m, C)]
          /\ file' = [file EXCEPT ![m] = AddSpecializations(file[m], RulesFor(m, C))]
    BY DEF Specialize
<1> DEFINE R == RulesFor(m, C)
           N == {r.to : r \in R}
           g == AddSpecializations(file[m], R)
<1>2. /\ R \in SUBSET Rules
      /\ \A r \in R : /\ r.to[1] \in DefinedIn(file[m]) /\ \E c \in iface.calls : r.to[2] = c[2]
    BY RulesOK
<1> HIDE DEF R
<1>3. N \in SUBSET SpecNames
    BY <1>2 DEF Rules
<1>4. file[m] \in Files /\ Consistent(file[m]) /\ file \in [Modules -> Files]
    BY InputType
<1>5. /\ Becomes(file[m], g, Bound(N), Bound(N), N) /\ Exports(file[m], g)
      /\ \A r \in R : r.to \in ExportedBy(g)
    BY <1>2, <1>4, AddOK
<1>6. file' = [file EXCEPT ![m] = g] /\ rewrites' = [rewrites EXCEPT ![m] = R]
    BY <1>1 DEF R
<1>7. Widens(m, Bound(N), Bound(N), N)
    BY <1>5, <1>6, PutWidens
<1>8. DOMAIN rewrites = Modules
    BY DEF TypeOK
<1>. QED
    BY <1>2, <1>3, <1>4, <1>5, <1>6, <1>7, <1>8

LEMMA RewriteFile ==
    ASSUME TypeOK, NEW m \in Modules, Rewrite(m)
    PROVE  Widens(m, {r.to : r \in RulesOfOthers(m)}, {}, {}) /\ RulesOfOthers(m) \in SUBSET Rules
<1> DEFINE R == RulesOfOthers(m)
<1>1. PICK done \in SUBSET UNION {Matches(file[m], r) : r \in R} :
          file' = [file EXCEPT ![m] = ApplyRules(file[m], R, done)]
    BY DEF Rewrite
<1>2. done \in SUBSET file[m].uses
    BY DEF Matches, LooksUp
<1>3. R \in SUBSET Rules
    BY DEF TypeOK, RulesOfOthers
<1>4. file[m] \in Files /\ Consistent(file[m])
    BY InputType
<1> HIDE DEF R
<1>5. /\ Becomes(file[m], ApplyRules(file[m], R, done), {r.to : r \in R}, {}, {})
      /\ Exports(file[m], ApplyRules(file[m], R, done))
    BY <1>2, <1>3, <1>4, ApplyOK
<1>6. Widens(m, {r.to : r \in R}, {}, {})
    BY <1>1, <1>5, PutWidens
<1>. QED
    BY <1>3, <1>6 DEF R

LEMMA StripFile ==
    ASSUME TypeOK, NEW m \in Modules, Strip(m)
    PROVE  Widens(m, {}, {}, {}) \/ UNCHANGED file
<1> DEFINE f == file[m]
           g == [f EXCEPT !.linkage = [s \in Names |->
                    IF f.linkage[s] = "decl" /\ s \notin Mentioned(f.uses) THEN "absent" ELSE f.linkage[s]]]
<1>1. f \in Files /\ Consistent(f) /\ file \in [Modules -> Files]
    BY InputType
<1>2. CASE NoStrip
    BY <1>2 DEF Strip
<1>3. CASE ~NoStrip
    <2>1. file' = [file EXCEPT ![m] = g]
        BY <1>1, <1>3 DEF Strip
    <2>2. Becomes(f, g, {}, {}, {}) /\ Exports(f, g)
        BY <1>1, StripOK
    <2>. QED
        BY <2>1, <2>2, PutWidens
<1>. QED
    BY <1>2, <1>3

\* All of the above: how a step changes the files.
FileStep ==
    \/ UNCHANGED file
    \/ \E m \in Modules : Intra(m) /\ \E D \in SUBSET LibCalls : Widens(m, D, {}, {})
    \/ \E m \in Modules : Internalize(m) /\ Narrows(m, OthersInterface(m))
    \/ \E m \in Modules : Seal(m) /\ Narrows(m, SealInterface)
    \/ \E m \in Modules, N \in SUBSET SpecNames :
          /\ Specialize(m) /\ Widens(m, Bound(N), Bound(N), N)
          /\ \A s \in N : s[1] \in DefinedIn(file[m]) /\ \E c \in iface.calls : s[2] = c[2]
    \/ \E m \in Modules : /\ Rewrite(m) /\ Widens(m, {r.to : r \in RulesOfOthers(m)}, {}, {})
                          /\ RulesOfOthers(m) \in SUBSET Rules
    \/ \E m \in Modules : Strip(m) /\ Widens(m, {}, {}, {})

LEMMA FileSteps ==
    ASSUME TypeOK, [Next]_vars
    PROVE  FileStep
<1>1. CASE UNCHANGED vars
    BY <1>1 DEF vars, FileStep
<1>2. ASSUME NEW m \in Modules, References(m)
      PROVE  FileStep
    BY <1>2 DEF References, FileStep
<1>3. ASSUME NEW m \in Modules, Internalize(m)
      PROVE  FileStep
    BY <1>3, InternalizeFile DEF FileStep
<1>4. ASSUME NEW m \in Modules, Intra(m)
      PROVE  FileStep
    BY <1>4, IntraFile DEF FileStep
<1>5. ASSUME NEW m \in Modules, Specialize(m)
      PROVE  FileStep
    <2>1. PICK N \in SUBSET SpecNames :
              /\ Widens(m, Bound(N), Bound(N), N)
              /\ \A s \in N : s[1] \in DefinedIn(file[m]) /\ \E c \in iface.calls : s[2] = c[2]
        BY <1>5, SpecializeFile
    <2>. QED
        BY <1>5, <2>1 DEF FileStep
<1>6. ASSUME NEW m \in Modules, Rewrite(m)
      PROVE  FileStep
    BY <1>6, RewriteFile DEF FileStep
<1>7. ASSUME NEW m \in Modules, Seal(m)
      PROVE  FileStep
    BY <1>7, SealFile DEF FileStep
<1>8. ASSUME NEW m \in Modules, Strip(m)
      PROVE  FileStep
    BY <1>8, StripFile DEF FileStep
<1>9. CASE Deep \/ LoopHead \/ AdvanceStep
    BY <1>9 DEF Deep, LoopHead, AdvanceStep, Advance, FileStep
<1>. QED
    BY <1>1, <1>2, <1>3, <1>4, <1>5, <1>6, <1>7, <1>8, <1>9 DEF Next, TaskStep

LEMMA InputKept ==
    ASSUME [Next]_vars
    PROVE  UNCHANGED <<options, original>>
<1>1. \A m \in Modules : TaskStep(m) => UNCHANGED <<options, original>>
  <2> SUFFICES ASSUME NEW m \in Modules, TaskStep(m)
               PROVE  UNCHANGED <<options, original>>
    OBVIOUS
  <2>1. Intra(m) => UNCHANGED <<options, original>>
    BY DEF Intra, DropUse, InlineCall, SpecializeLocal, IntroduceCall, IntraDone, IntraFrame
  <2>. QED
    BY <2>1 DEF TaskStep, References, Internalize, Specialize, Rewrite, Seal, Strip
<1>2. Deep \/ LoopHead \/ AdvanceStep => UNCHANGED <<options, original>>
    BY DEF Deep, LoopHead, AdvanceStep, Advance
<1>. QED
    BY <1>1, <1>2 DEF Next, vars

LEMMA FilesKept ==
    ASSUME TypeOK, [Next]_vars
    PROVE  file' \in [Modules -> Files] /\ \A m \in Modules : Consistent(file'[m])
<1>1. file \in [Modules -> Files] /\ \A m \in Modules : Consistent(file[m])
    BY InputType
<1>2. ASSUME NEW m, NEW D, NEW T, NEW S, Widens(m, D, T, S)
      PROVE  file' \in [Modules -> Files] /\ \A x \in Modules : Consistent(file'[x])
    BY <1>1, <1>2 DEF Widens, Becomes, Others
<1>3. ASSUME NEW m, NEW I, Narrows(m, I)
      PROVE  file' \in [Modules -> Files] /\ \A x \in Modules : Consistent(file'[x])
    BY <1>1, <1>3 DEF Narrows, Becomes, Others
<1>4. FileStep
    BY FileSteps
<1>. QED
    BY <1>1, <1>2, <1>3, <1>4 DEF FileStep

LEMMA InterfaceType ==
    ASSUME NEW f \in Files
    PROVE  SimpleInterface(f) \in [calls : SUBSET Names, references : SUBSET Names]
BY DEF SimpleInterface, FunctionsOf, DeclaredIn, Names

LEMMA DeepType ==
    ASSUME TypeOK, NEW I \in DeepInterfaces
    PROVE  I \in [calls : SUBSET (Names \X Args), references : SUBSET Names]
<1>1. PICK C \in SUBSET UNION {ExternalCalls(file[m]) : m \in Modules}, V \in SUBSET Modules :
          I = DeepInterface(C, V)
    BY DEF DeepInterfaces
<1>2. \A m \in Modules : file[m] \in Files
    BY InputType
<1>3. {<<s, "any">> : s \in MainInterface} \subseteq Names \X Args
    BY NamesAssumption, KindsOfNames DEF Args
<1>4. C \subseteq Names \X Args
    <2> SUFFICES ASSUME NEW m \in Modules, NEW c \in ExternalCalls(file[m])
                 PROVE  c \in Names \X Args
        OBVIOUS
    <2>1. PICK u \in file[m].uses : u[3] # "ref" /\ c = <<u[2], u[3]>>
        BY DEF ExternalCalls
    <2>. QED
        BY <1>2, <2>1, FileType
<1>5. UNION {{<<s, "any">> : s \in SimpleInterface(file[m]).calls} : m \in V} \subseteq Names \X Args
    <2> SUFFICES ASSUME NEW m \in V, NEW s \in SimpleInterface(file[m]).calls
                 PROVE  <<s, "any">> \in Names \X Args
        OBVIOUS
    <2>. QED
        BY <1>2, InterfaceType DEF Args
<1>6. UNION {DeclaredIn(file[m]) : m \in Modules} \subseteq Names
    BY DEF DeclaredIn
<1>. QED
    BY <1>1, <1>3, <1>4, <1>5, <1>6 DEF DeepInterface

LEMMA TypeNext ==
    ASSUME TypeOK, [Next]_vars
    PROVE  TypeOK'
<1>1. /\ file' \in [Modules -> Files] /\ \A m \in Modules : Consistent(file'[m])
      /\ UNCHANGED <<options, original>> /\ Modules' = Modules /\ MaxRounds' = MaxRounds
    BY FilesKept, InputKept DEF Modules, MaxRounds
<1>2. (\E j \in Jobs : options = j.options /\ original = j.files)'
    BY <1>1 DEF TypeOK
<1> DEFINE Rest ==
        /\ refs' \in [Modules -> [calls : SUBSET Names, references : SUBSET Names]]
        /\ iface' \in [calls : SUBSET (Names \X Args), references : SUBSET Names]
        /\ rewrites' \in [Modules -> SUBSET Rules]
        /\ stage' \in Stages
        /\ pending' \subseteq Modules
        /\ round' \in 0..MaxRounds
        /\ progress' \in BOOLEAN
<1>3. ASSUME UNCHANGED vars PROVE Rest
    BY <1>3 DEF vars, TypeOK
<1>4. ASSUME NEW m \in Modules, References(m)
      PROVE  Rest
    <2>1. SimpleInterface(file[m]) \in [calls : SUBSET Names, references : SUBSET Names]
        BY InputType, InterfaceType
    <2>2. refs' = [refs EXCEPT ![m] = SimpleInterface(file[m])]
        BY <1>4 DEF References
    <2>3. refs' \in [Modules -> [calls : SUBSET Names, references : SUBSET Names]]
        BY <2>1, <2>2 DEF TypeOK
    <2>. QED
        BY <1>4, <2>3 DEF References, TypeOK, Task
<1>5. ASSUME NEW m \in Modules, Internalize(m) \/ Intra(m) \/ Seal(m) \/ Strip(m)
      PROVE  Rest
    BY <1>5 DEF Internalize, Seal, Strip, Task, Intra, DropUse, InlineCall, SpecializeLocal,
                IntroduceCall, IntraDone, IntraFrame, TypeOK
<1>6. ASSUME NEW m \in Modules, Specialize(m)
      PROVE  Rest
    <2>1. PICK C \in SUBSET Candidates(m) : rewrites' = [rewrites EXCEPT ![m] = RulesFor(m, C)]
        BY <1>6 DEF Specialize
    <2>2. RulesFor(m, C) \in SUBSET Rules
        BY RulesOK
    <2>3. rewrites' \in [Modules -> SUBSET Rules]
        BY <2>1, <2>2 DEF TypeOK
    <2>. QED
        BY <1>6, <2>3 DEF Specialize, Task, TypeOK
<1>7. ASSUME NEW m \in Modules, Rewrite(m)
      PROVE  Rest
    BY <1>7 DEF Rewrite, Task, TypeOK
<1>8. ASSUME Deep PROVE Rest
    <2>1. iface' \in [calls : SUBSET (Names \X Args), references : SUBSET Names]
        BY <1>8, DeepType DEF Deep
    <2>. QED
        BY <1>8, <2>1 DEF Deep, StartStep, TypeOK, Stages
<1>9. ASSUME LoopHead PROVE Rest
    <2>1. MaxRounds \in Nat
        BY InputType
    <2>2. round' \in 0..MaxRounds /\ progress' \in BOOLEAN
        <3>1. CASE progress /\ round < MaxRounds
            <4>1. round \in 0..MaxRounds
                BY DEF TypeOK
            <4>2. round' = round + 1 /\ round < MaxRounds
                BY <1>9, <3>1 DEF LoopHead
            <4>3. round' \in 0..MaxRounds
                BY <2>1, <4>1, <4>2
            <4>4. progress' \in BOOLEAN
                BY <1>9, <3>1 DEF LoopHead
            <4>. QED
                BY <4>3, <4>4
        <3>2. CASE ~(progress /\ round < MaxRounds)
            BY <1>9, <3>2 DEF LoopHead, TypeOK
        <3>. QED
            BY <3>1, <3>2
    <2>. QED
        BY <1>9, <2>2 DEF LoopHead, StartStep, TypeOK, Stages
<1>10. ASSUME AdvanceStep PROVE Rest
    BY <1>10 DEF AdvanceStep, Advance, StartStep, TypeOK, Stages
<1>11. Rest
    BY <1>3, <1>4, <1>5, <1>6, <1>7, <1>8, <1>9, <1>10 DEF Next, TaskStep
<1>. QED
    BY <1>1, <1>2, <1>11 DEF TypeOK

LEMMA TypeInit ==
    ASSUME Init
    PROVE  TypeOK
<1>1. PICK j \in Jobs : options = j.options /\ original = j.files
    BY DEF Init
<1>2. /\ original \in [Modules -> Files] /\ MaxRounds \in Nat
      /\ \A m \in Modules : Consistent(original[m])
    BY <1>1, JobsAssumption DEF Modules, MaxRounds
<1>3. EmptyInterface \in [calls : SUBSET Names, references : SUBSET Names]
      /\ EmptyInterface \in [calls : SUBSET (Names \X Args), references : SUBSET Names]
    BY DEF EmptyInterface
<1>. QED
    BY <1>1, <1>2, <1>3 DEF Init, TypeOK, Modules, Stages

\* Whatever slash is started on, every step leaves well-formed bitcode files in
\* which no definition uses an unknown name, and the files that the steps pass to
\* each other have the type the readers expect.
THEOREM TypeCorrect == Spec => []TypeOK
<1>1. Init => TypeOK
    BY TypeInit
<1>2. TypeOK /\ [Next]_vars => TypeOK'
    BY TypeNext
<1>. QED
    BY <1>1, <1>2, PTL DEF Spec

-----------------------------------------------------------------------------
(* No symbol is exported twice.                                             *)

\* What is asked of the input: no symbol is a strong definition in two modules, as the
\* linker asks too.  Static and weak functions may have any name.
Linkable ==
    \A j \in Jobs : \A m, x \in DOMAIN j.files : Strong(j.files[m]) \cap Strong(j.files[x]) # {} => m = x

\* The strengthening: definitions do not move, but for specializations, which
\* are made where their function is.
OriginKept(m) ==
    /\ DefinedIn(file[m]) \ SpecNames \subseteq DefinedIn(original[m])
    /\ Strong(file[m]) \ (Functions \cup SpecNames) \subseteq Strong(original[m])
    /\ \A s \in Strong(file[m]) \cap SpecNames : s[1] \in DefinedIn(original[m])

Origin == \A m \in Modules : OriginKept(m)

LEMMA OriginInit ==
    ASSUME Init
    PROVE  Origin
<1>1. TypeOK
    BY TypeInit
<1>2. \A m \in Modules, s \in SpecNames : original[m].linkage[s] = "absent"
    BY <1>1, InputType
<1>. QED
    BY <1>2 DEF Init, Origin, OriginKept, DefinedIn, Strong, Definitions

LEMMA OriginBecomes ==
    ASSUME Origin, NEW m \in Modules, NEW D, NEW T, NEW S,
           UNCHANGED original, Becomes(file[m], file'[m], D, T, S), Others(m),
           \A s \in S \cap SpecNames : s[1] \in DefinedIn(file[m]) \cap Functions, S \subseteq SpecNames
    PROVE  Origin'
<1>1. OriginKept(m)
    BY DEF Origin
<1>2. /\ DefinedIn(file'[m]) \subseteq DefinedIn(file[m]) \cup SpecNames
      /\ Strong(file'[m]) \subseteq Strong(file[m]) \cup Functions \cup S
    BY DEF Becomes
<1>3. DefinedIn(file'[m]) \ SpecNames \subseteq DefinedIn(original[m])
    BY <1>1, <1>2 DEF OriginKept
<1>4. Strong(file'[m]) \ (Functions \cup SpecNames) \subseteq Strong(original[m])
    BY <1>1, <1>2 DEF OriginKept
<1>5. \A s \in Strong(file'[m]) \cap SpecNames : s[1] \in DefinedIn(original[m])
    <2> TAKE s \in Strong(file'[m]) \cap SpecNames
    <2>1. s \in Strong(file[m]) \/ s \in S
        BY <1>2, NamesAssumption
    <2>2. CASE s \in S
        BY <1>1, <2>2, NamesAssumption DEF OriginKept
    <2>. QED
        BY <1>1, <2>1, <2>2 DEF OriginKept
<1>6. OriginKept(m)'
    BY <1>3, <1>4, <1>5 DEF OriginKept
<1>7. \A x \in Modules \ {m} : OriginKept(x)'
    BY DEF Origin, OriginKept, Others
<1>. QED
    BY <1>6, <1>7 DEF Origin, Modules

LEMMA OriginNext ==
    ASSUME TypeOK, Origin, [Next]_vars
    PROVE  Origin'
<1>1. UNCHANGED original
    BY InputKept
<1>2. CASE UNCHANGED file
    BY <1>1, <1>2 DEF Origin, OriginKept, Modules
<1>3. ASSUME NEW m \in Modules, NEW D, NEW T, Widens(m, D, T, {})
      PROVE  Origin'
    BY <1>1, <1>3, OriginBecomes DEF Widens
<1>4. ASSUME NEW m \in Modules, NEW I, Narrows(m, I)
      PROVE  Origin'
    BY <1>1, <1>4, OriginBecomes DEF Narrows
<1>5. ASSUME NEW m \in Modules, NEW N \in SUBSET SpecNames, Widens(m, Bound(N), Bound(N), N),
             \A s \in N : s[1] \in DefinedIn(file[m])
      PROVE  Origin'
    <2>1. \A s \in N \cap SpecNames : s[1] \in DefinedIn(file[m]) \cap Functions
        BY <1>5, KindsOfNames
    <2>. QED
        BY <1>1, <1>5, <2>1, OriginBecomes DEF Widens
<1>6. FileStep
    BY FileSteps
<1>. QED
    BY <1>2, <1>3, <1>4, <1>5, <1>6 DEF FileStep

LEMMA OriginImplies ==
    ASSUME Linkable, TypeOK, Origin
    PROVE  NoDuplicateSymbols
<1> SUFFICES ASSUME NEW m \in Modules, NEW x \in Modules \ {m}, NEW s \in Strong(file[m]) \cap Strong(file[x])
             PROVE  FunctionOf(s) \in Namesakes(m, x)
    BY DEF NoDuplicateSymbols
<1>1. OriginKept(m) /\ OriginKept(x)
    BY DEF Origin
<1>2. s \in Names /\ s \in DefinedIn(file[m]) /\ s \in DefinedIn(file[x])
    BY DEF Strong, DefinedIn, Definitions
<1>3. CASE s \in SpecNames
    <2>1. s[1] \in Functions /\ s[1] \in DefinedIn(original[m]) /\ s[1] \in DefinedIn(original[x])
        BY <1>1, <1>3, KindsOfNames DEF OriginKept
    <2>. QED
        BY <1>3, <2>1 DEF FunctionOf, Namesakes
<1>4. CASE s \in Functions
    <2>1. s \in DefinedIn(original[m]) /\ s \in DefinedIn(original[x]) /\ s \notin SpecNames
        BY <1>1, <1>2, <1>4, NamesAssumption DEF OriginKept
    <2>. QED
        BY <1>4, <2>1 DEF FunctionOf, Namesakes
<1>5. CASE s \notin Functions \cup SpecNames
    <2>1. s \in Strong(original[m]) /\ s \in Strong(original[x])
        BY <1>1, <1>5 DEF OriginKept
    <2>2. Strong(original[m]) \cap Strong(original[x]) # {} => m = x
        BY DEF Linkable, TypeOK, Modules
    <2>. QED
        BY <2>1, <2>2
<1>. QED
    BY <1>3, <1>4, <1>5

\* The passes make symbols external (a specialization for another module, a
\* function that a rewritten call passed) but never so that two modules export
\* one, unless it is, or is made from, a function that both of the modules defined.
THEOREM NothingExportedTwice == Linkable => (Spec => []NoDuplicateSymbols)
<1> SUFFICES ASSUME Linkable PROVE Spec => []NoDuplicateSymbols
    OBVIOUS
<1>1. Init => TypeOK /\ Origin
    BY TypeInit, OriginInit
<1>2. TypeOK /\ Origin /\ [Next]_vars => (TypeOK /\ Origin)'
    BY TypeNext, OriginNext
<1>3. TypeOK /\ Origin => NoDuplicateSymbols
    BY OriginImplies
<1>. QED
    BY <1>1, <1>2, <1>3, PTL DEF Spec

-----------------------------------------------------------------------------
(* Nothing declared is lost.                                                *)

\* What is asked of the input here: no function is defined in two modules, not even as
\* static or weak, and no symbol is a strong definition in two.
DefinedInBoth(f, g) == (Functions \cap DefinedIn(f) \cap DefinedIn(g)) \cup (Strong(f) \cap Strong(g))

OneDefinition ==
    \A j \in Jobs : \A m, x \in DOMAIN j.files :
        DefinedInBoth(j.files[m], j.files[x]) # {} => m = x

LEMMA OneDefinitionHere ==
    ASSUME OneDefinition, TypeOK, NEW m \in Modules, NEW x \in Modules
    PROVE  /\ \A s \in Functions : s \in DefinedIn(original[m]) /\ s \in DefinedIn(original[x]) => m = x
           /\ \A s : s \in Strong(original[m]) /\ s \in Strong(original[x]) => m = x
<1>1. DefinedInBoth(original[m], original[x]) # {} => m = x
    BY DEF OneDefinition, TypeOK, Modules
<1>. QED
    BY <1>1 DEF DefinedInBoth

\* The library functions that opt may introduce calls of are kept external.
KeepCoversLibCalls == \A j \in Jobs : j.options.libCalls \subseteq j.options.keep

Wanted(s) == s \in SpecNames \/ \E x \in Modules : s \in ExportedBy(original[x])
Covered(s) == \E x \in Modules : s \in ExportedBy(file[x])

\* The strengthening, in every state: what LinkClosed says; a function whose address
\* its module takes, and a kept symbol, stay exported if they were.
TakenExported ==
    \A m \in Modules : \A s \in Functions \cap AddressTaken(file[m]) \cap ExportedBy(original[m]) :
        s \in ExportedBy(file[m])
KeepExported ==
    \A m \in Modules : \A s \in Keep \cap ExportedBy(original[m]) : s \in ExportedBy(file[m])
Sound == LinkClosed /\ TakenExported /\ KeepExported

\* And what the files that a step leaves for the next ones say about the modules.
ReferencesKnown ==
    \A m \in Modules : (stage = "internalize" \/ (stage = "references" /\ m \notin pending))
        => DeclaredIn(file[m]) \subseteq refs[m].references
InterfaceKnown ==
    stage = "seal" => \A m \in Modules : DeclaredIn(file[m]) \subseteq iface.references
ArgumentsCovered ==
    stage = "specialize" =>
        \A c \in iface.calls : c[2] \in Functions /\ Wanted(c[2]) => Covered(c[2])
RulesExported ==
    \A m \in Modules : (stage = "rewrite" \/ (stage = "specialize" /\ m \notin pending))
        => \A r \in rewrites[m] : r.to \in ExportedBy(file[m])
FilesKnown == ReferencesKnown /\ InterfaceKnown /\ ArgumentsCovered /\ RulesExported

LEMMA LinkClosedIs ==
    LinkClosed <=> \A m \in Modules : \A s \in DeclaredIn(file[m]) : Wanted(s) => Covered(s)
BY DEF LinkClosed, Wanted, Covered

LEMMA SoundUnchanged ==
    ASSUME Sound, UNCHANGED <<options, original, file>>
    PROVE  Sound'
BY DEF Sound, LinkClosed, TakenExported, KeepExported, Keep, Modules

LEMMA CoveredKept ==
    ASSUME NEW m, NEW D, NEW T, NEW S, Widens(m, D, T, S), UNCHANGED original, NEW s, Covered(s)
    PROVE  Covered(s)'
<1>1. PICK x \in Modules : s \in ExportedBy(file[x])
    BY DEF Covered
<1>2. s \in ExportedBy(file'[x])
    BY <1>1 DEF Widens, Exports, Others
<1>. QED
    BY <1>2 DEF Covered, Modules

LEMMA SoundWidens ==
    ASSUME Sound, UNCHANGED <<options, original>>, NEW m, NEW D, NEW T, NEW S, Widens(m, D, T, S),
           \A s \in D : Wanted(s) => Covered(s),
           \A s \in T \cap Functions : s \in ExportedBy(original[m]) => s \in ExportedBy(file[m])
    PROVE  Sound'
<1>1. m \in Modules /\ Modules' = Modules /\ Keep' = Keep /\ \A s : Wanted(s)' = Wanted(s)
    BY DEF Widens, Modules, Keep, Wanted
<1>2. /\ DeclaredIn(file'[m]) \subseteq DeclaredIn(file[m]) \cup D
      /\ AddressTaken(file'[m]) \subseteq AddressTaken(file[m]) \cup T
      /\ ExportedBy(file[m]) \subseteq ExportedBy(file'[m])
      /\ \A x \in Modules \ {m} : file'[x] = file[x]
    BY DEF Widens, Becomes, Exports, Others
<1>3. LinkClosed'
    <2>1. \A x \in Modules : \A s \in DeclaredIn(file'[x]) : Wanted(s) => Covered(s)
        BY <1>2, LinkClosedIs DEF Sound
    <2>2. \A s : Covered(s) => \E y \in Modules : s \in ExportedBy(file'[y])
        BY <1>2 DEF Covered
    <2>. QED
        BY <1>1, <2>1, <2>2 DEF LinkClosed, Wanted
<1>4. TakenExported'
    <2>1. \A x \in Modules : \A s \in Functions \cap AddressTaken(file'[x]) \cap ExportedBy(original[x]) :
              s \in ExportedBy(file'[x])
        BY <1>1, <1>2 DEF Sound, TakenExported
    <2>. QED
        BY <1>1, <2>1 DEF TakenExported
<1>5. KeepExported'
    <2>1. \A x \in Modules : \A s \in Keep \cap ExportedBy(original[x]) : s \in ExportedBy(file'[x])
        BY <1>1, <1>2 DEF Sound, KeepExported
    <2>. QED
        BY <1>1, <2>1 DEF KeepExported
<1>. QED
    BY <1>3, <1>4, <1>5 DEF Sound

LEMMA SoundNarrows ==
    ASSUME Sound, UNCHANGED <<options, original>>, NEW m, NEW I, Narrows(m, I),
           \A x \in Modules \ {m} : DeclaredIn(file[x]) \subseteq I.references
    PROVE  Sound'
<1>1. m \in Modules /\ Modules' = Modules /\ Keep' = Keep /\ \A s : Wanted(s)' = Wanted(s)
    BY DEF Narrows, Modules, Keep, Wanted
<1>2. /\ DeclaredIn(file'[m]) \subseteq DeclaredIn(file[m])
      /\ AddressTaken(file'[m]) \subseteq AddressTaken(file[m])
      /\ \A s \in ExportedBy(file[m]) \cap Needed(file[m], I) : s \in ExportedBy(file'[m])
      /\ \A x \in Modules \ {m} : file'[x] = file[x]
    BY DEF Narrows, Becomes, Others
<1>3. LinkClosed'
    <2>1. ASSUME NEW x \in Modules, NEW s \in DeclaredIn(file'[x]), Wanted(s)
          PROVE  \E y \in Modules : s \in ExportedBy(file'[y])
        <3>1. s \in DeclaredIn(file[x])
            BY <1>2, <2>1
        <3>2. PICK y \in Modules : s \in ExportedBy(file[y])
            BY <2>1, <3>1, LinkClosedIs DEF Sound, Covered
        <3>3. CASE y # m
            BY <1>2, <3>2, <3>3
        <3>4. CASE y = m
            <4>1. x # m
                BY <3>1, <3>2, <3>4 DEF DeclaredIn, ExportedBy, Exported
            <4>2. s \in Needed(file[m], I)
                BY <3>1, <4>1 DEF Needed
            <4>. QED
                BY <1>2, <3>2, <3>4, <4>2
        <3>. QED
            BY <3>3, <3>4
    <2>. QED
        BY <1>1, <2>1 DEF LinkClosed, Wanted
<1>4. TakenExported'
    <2>1. \A x \in Modules : \A s \in Functions \cap AddressTaken(file'[x]) \cap ExportedBy(original[x]) :
              s \in ExportedBy(file'[x])
        BY <1>1, <1>2 DEF Sound, TakenExported, Needed
    <2>. QED
        BY <1>1, <2>1 DEF TakenExported
<1>5. KeepExported'
    <2>1. \A x \in Modules : \A s \in Keep \cap ExportedBy(original[x]) : s \in ExportedBy(file'[x])
        BY <1>1, <1>2 DEF Sound, KeepExported, Needed
    <2>. QED
        BY <1>1, <2>1 DEF KeepExported
<1>. QED
    BY <1>3, <1>4, <1>5 DEF Sound

LEMMA SoundNext ==
    ASSUME OneDefinition, KeepCoversLibCalls, TypeOK, Origin, Sound, FilesKnown, [Next]_vars
    PROVE  Sound'
<1>1. UNCHANGED <<options, original>>
    BY InputKept
<1>2. CASE UNCHANGED file
    BY <1>1, <1>2, SoundUnchanged
<1>3. ASSUME NEW m \in Modules, NEW D \in SUBSET LibCalls, Widens(m, D, {}, {})
      PROVE  Sound'
    <2>1. LibCalls \subseteq Keep /\ LibCalls \subseteq Functions
        BY InputType DEF KeepCoversLibCalls, TypeOK, LibCalls, Keep
    <2>2. \A s \in D : Wanted(s) => Covered(s)
        BY <2>1, NamesAssumption DEF Wanted, Covered, Sound, KeepExported
    <2>. QED
        BY <1>1, <1>3, <2>2, SoundWidens
<1>4. ASSUME NEW m \in Modules, Internalize(m), Narrows(m, OthersInterface(m))
      PROVE  Sound'
    <2>1. \A x \in Modules \ {m} : DeclaredIn(file[x]) \subseteq refs[x].references
        BY <1>4 DEF Internalize, Task, FilesKnown, ReferencesKnown
    <2>2. \A x \in Modules \ {m} : DeclaredIn(file[x]) \subseteq OthersInterface(m).references
        BY <2>1 DEF OthersInterface
    <2>. QED
        BY <1>1, <1>4, <2>2, SoundNarrows
<1>5. ASSUME NEW m \in Modules, Seal(m), Narrows(m, SealInterface)
      PROVE  Sound'
    <2>1. \A x \in Modules \ {m} : DeclaredIn(file[x]) \subseteq SealInterface.references
        BY <1>5 DEF Seal, Task, FilesKnown, InterfaceKnown, SealInterface
    <2>. QED
        BY <1>1, <1>5, <2>1, SoundNarrows
<1>6. ASSUME NEW m \in Modules, NEW N \in SUBSET SpecNames, Specialize(m), Widens(m, Bound(N), Bound(N), N),
             \A s \in N : \E c \in iface.calls : s[2] = c[2]
      PROVE  Sound'
    <2>1. \A s \in Bound(N) : Wanted(s) => Covered(s)
        BY <1>6 DEF Bound, Specialize, Task, FilesKnown, ArgumentsCovered
    <2>2. ASSUME NEW s \in Bound(N) \cap Functions, s \in ExportedBy(original[m])
          PROVE  s \in ExportedBy(file[m])
        <3>1. PICK x \in Modules : s \in ExportedBy(file[x])
            BY <2>1, <2>2 DEF Wanted, Covered
        <3>2. s \in DefinedIn(original[m])
            BY <2>2 DEF ExportedBy, DefinedIn, Exported, Definitions
        <3>3. s \in DefinedIn(file[x])
            BY <3>1 DEF ExportedBy, DefinedIn, Exported, Definitions
        <3>4. s \in DefinedIn(original[x])
            BY <3>3, NamesAssumption DEF Origin, OriginKept
        <3>. QED
            BY <3>1, <3>2, <3>4, OneDefinitionHere
    <2>. QED
        BY <1>1, <1>6, <2>1, <2>2, SoundWidens
<1>7. ASSUME NEW m \in Modules, Rewrite(m), Widens(m, {r.to : r \in RulesOfOthers(m)}, {}, {})
      PROVE  Sound'
    <2>1. \A s \in {r.to : r \in RulesOfOthers(m)} : Covered(s)
        BY <1>7 DEF Rewrite, Task, FilesKnown, RulesExported, RulesOfOthers, Covered
    <2>. QED
        BY <1>1, <1>7, <2>1, SoundWidens
<1>8. ASSUME NEW m \in Modules, Widens(m, {}, {}, {})
      PROVE  Sound'
    BY <1>1, <1>8, SoundWidens
<1>9. FileStep
    BY FileSteps
<1>. QED
    BY <1>2, <1>3, <1>4, <1>5, <1>6, <1>7, <1>8, <1>9 DEF FileStep

\* A step of the stage a task belongs to; no other stage is affected.
LEMMA StageOf ==
    ASSUME NEW m
    PROVE  /\ References(m) => Task("references", m) /\ stage' = stage
           /\ Internalize(m) => Task("internalize", m) /\ stage' = stage
           /\ Intra(m) => stage = "intra" /\ stage' = stage
           /\ Specialize(m) => Task("specialize", m) /\ stage' = stage
           /\ Rewrite(m) => Task("rewrite", m) /\ stage' = stage
           /\ Seal(m) => Task("seal", m) /\ stage' = stage
           /\ Strip(m) => Task("strip", m) /\ stage' = stage
BY DEF References, Internalize, Intra, DropUse, InlineCall, SpecializeLocal, IntroduceCall, IntraDone,
       IntraStep, IntraFrame, Specialize, Rewrite, Seal, Strip, Task

LEMMA ReferencesNext ==
    ASSUME TypeOK, ReferencesKnown, [Next]_vars
    PROVE  ReferencesKnown'
<1>1. Modules' = Modules
    BY InputKept DEF Modules
<1>2. CASE UNCHANGED vars
    BY <1>2 DEF vars, ReferencesKnown, Modules
<1>3. ASSUME NEW m \in Modules, References(m)
      PROVE  ReferencesKnown'
    <2>1. /\ refs' = [refs EXCEPT ![m] = SimpleInterface(file[m])] /\ file' = file
          /\ stage = "references" /\ stage' = stage /\ pending' = pending \ {m}
        BY <1>3 DEF References, Task
    <2>2. refs'[m].references = DeclaredIn(file[m]) /\ \A x \in Modules \ {m} : refs'[x] = refs[x]
        BY <2>1 DEF SimpleInterface, TypeOK
    <2>. QED
        BY <1>1, <2>1, <2>2 DEF ReferencesKnown
<1>4. ASSUME NEW m \in Modules, Internalize(m)
      PROVE  ReferencesKnown'
    <2>1. refs' = refs /\ stage = "internalize" /\ stage' = stage
        BY <1>4 DEF Internalize, Task
    <2>2. \A x \in Modules : DeclaredIn(file'[x]) \subseteq DeclaredIn(file[x])
        BY <1>4, InternalizeFile DEF Narrows, Becomes, Others
    <2>. QED
        BY <1>1, <2>1, <2>2 DEF ReferencesKnown
<1>5. ASSUME NEW m \in Modules, Intra(m) \/ Specialize(m) \/ Rewrite(m) \/ Seal(m) \/ Strip(m)
      PROVE  ReferencesKnown'
    <2>1. stage' \notin {"references", "internalize"}
        BY <1>5, StageOf DEF Task
    <2>. QED
        BY <2>1 DEF ReferencesKnown
<1>6. ASSUME Deep \/ LoopHead \/ Advance("rewrite", "references") PROVE ReferencesKnown'
    <2>1. stage' # "internalize" /\ pending' = Modules
        BY <1>6 DEF Deep, LoopHead, Advance, StartStep
    <2>. QED
        BY <1>1, <2>1 DEF ReferencesKnown
<1>7. ASSUME Advance("references", "internalize") PROVE ReferencesKnown'
    BY <1>1, <1>7 DEF Advance, StepDone, StartStep, ReferencesKnown
<1>8. ASSUME AdvanceStep PROVE ReferencesKnown'
    <2>1. CASE Advance("references", "internalize") \/ Advance("rewrite", "references")
        BY <1>6, <1>7, <2>1
    <2>2. CASE stage' \notin {"references", "internalize"}
        BY <2>2 DEF ReferencesKnown
    <2>. QED
        BY <1>8, <2>1, <2>2 DEF AdvanceStep, Advance, StartStep
<1>. QED
    BY <1>2, <1>3, <1>4, <1>5, <1>6, <1>8 DEF Next, TaskStep

LEMMA InterfaceNext ==
    ASSUME TypeOK, InterfaceKnown, [Next]_vars
    PROVE  InterfaceKnown'
<1>1. Modules' = Modules
    BY InputKept DEF Modules
<1>2. ASSUME UNCHANGED vars PROVE InterfaceKnown'
    BY <1>2 DEF vars, InterfaceKnown, Modules
<1>3. ASSUME NEW m \in Modules, Seal(m)
      PROVE  InterfaceKnown'
    <2>1. iface' = iface /\ stage = "seal"
        BY <1>3 DEF Seal, Task
    <2>2. \A x \in Modules : DeclaredIn(file'[x]) \subseteq DeclaredIn(file[x])
        BY <1>3, SealFile DEF Narrows, Becomes, Others
    <2>. QED
        BY <1>1, <2>1, <2>2 DEF InterfaceKnown
<1>4. ASSUME NEW m \in Modules, References(m) \/ Internalize(m) \/ Intra(m) \/ Specialize(m) \/ Rewrite(m) \/ Strip(m)
      PROVE  InterfaceKnown'
    <2>1. stage' # "seal"
        BY <1>4, StageOf DEF Task
    <2>. QED
        BY <2>1 DEF InterfaceKnown
<1>5. ASSUME Deep PROVE InterfaceKnown'
    <2>1. file' = file /\ iface' \in DeepInterfaces
        BY <1>5 DEF Deep
    <2>2. iface'.references = UNION {DeclaredIn(file[m]) : m \in Modules}
        BY <2>1 DEF DeepInterfaces, DeepInterface
    <2>. QED
        BY <1>1, <2>1, <2>2 DEF InterfaceKnown
<1>6. ASSUME LoopHead \/ AdvanceStep PROVE InterfaceKnown'
    <2>1. stage' # "seal"
        BY <1>6 DEF LoopHead, AdvanceStep, Advance, StartStep
    <2>. QED
        BY <2>1 DEF InterfaceKnown
<1>. QED
    BY <1>2, <1>3, <1>4, <1>5, <1>6 DEF Next, TaskStep

\* A function that a recorded call passes is one its module knows.
LEMMA DeepArguments ==
    ASSUME OneDefinition, TypeOK, Origin, Sound, NEW I \in DeepInterfaces,
           NEW c \in I.calls, c[2] \in Functions, Wanted(c[2])
    PROVE  Covered(c[2])
<1>1. PICK C \in SUBSET UNION {ExternalCalls(file[m]) : m \in Modules}, V \in SUBSET Modules :
          I = DeepInterface(C, V)
    BY DEF DeepInterfaces
<1>2. c[2] # "any"
    BY NamesAssumption
<1>3. c \in C
    BY <1>1, <1>2 DEF DeepInterface
<1>4. PICK m \in Modules : c \in ExternalCalls(file[m])
    BY <1>3
<1>5. PICK u \in file[m].uses : c = <<u[2], u[3]>>
    BY <1>4 DEF ExternalCalls
<1> DEFINE s == c[2]
<1>6. s \in Names /\ s = u[3] /\ s \in AddressTaken(file[m])
    BY <1>5, KindsOfNames, TakenIs
<1>7. s \in DefinedIn(file[m]) \/ s \in DeclaredIn(file[m])
    <2>1. file[m] \in Files /\ Consistent(file[m])
        BY InputType
    <2>2. file[m].linkage[s] # "absent"
        BY <1>6, <2>1, ConsistentIs
    <2>. QED
        BY <1>6, <2>1, <2>2, KnownIs
<1>8. CASE s \in DeclaredIn(file[m])
    BY <1>8, LinkClosedIs DEF Sound
<1>9. CASE s \in DefinedIn(file[m])
    <2>1. s \in DefinedIn(original[m])
        BY <1>9, NamesAssumption DEF Origin, OriginKept
    <2>2. PICK x \in Modules : s \in ExportedBy(original[x])
        BY NamesAssumption DEF Wanted
    <2>3. s \in DefinedIn(original[x])
        BY <2>2 DEF ExportedBy, DefinedIn, Exported, Definitions
    <2>4. s \in ExportedBy(original[m])
        BY <2>1, <2>2, <2>3, OneDefinitionHere
    <2>5. s \in ExportedBy(file[m])
        BY <1>6, <2>4 DEF Sound, TakenExported
    <2>. QED
        BY <2>5 DEF Covered
<1>. QED
    BY <1>7, <1>8, <1>9

LEMMA ArgumentsNext ==
    ASSUME OneDefinition, TypeOK, Origin, Sound, ArgumentsCovered, [Next]_vars
    PROVE  ArgumentsCovered'
<1>1. UNCHANGED original /\ Modules' = Modules
    BY InputKept DEF Modules
<1>2. ASSUME UNCHANGED vars PROVE ArgumentsCovered'
    BY <1>2 DEF vars, ArgumentsCovered, Wanted, Covered, Modules
<1>3. ASSUME NEW m \in Modules, Specialize(m)
      PROVE  ArgumentsCovered'
    <2>1. iface' = iface /\ stage = "specialize"
        BY <1>3 DEF Specialize, Task
    <2>2. \A x \in Modules : ExportedBy(file[x]) \subseteq ExportedBy(file'[x])
        BY <1>3, SpecializeFile DEF Widens, Exports, Others
    <2>3. \A c \in iface.calls : c[2] \in Functions /\ Wanted(c[2])
              => \E x \in Modules : c[2] \in ExportedBy(file'[x])
        BY <2>1, <2>2 DEF ArgumentsCovered, Covered
    <2>. QED
        BY <1>1, <2>1, <2>3 DEF ArgumentsCovered, Wanted, Covered
<1>4. ASSUME NEW m \in Modules, References(m) \/ Internalize(m) \/ Intra(m) \/ Rewrite(m) \/ Seal(m) \/ Strip(m)
      PROVE  ArgumentsCovered'
    <2>1. stage' # "specialize"
        BY <1>4, StageOf DEF Task
    <2>. QED
        BY <2>1 DEF ArgumentsCovered
<1>5. ASSUME Deep PROVE ArgumentsCovered'
    <2>1. file' = file /\ iface' \in DeepInterfaces
        BY <1>5 DEF Deep
    <2>2. \A c \in iface'.calls : c[2] \in Functions /\ Wanted(c[2]) => Covered(c[2])
        BY <2>1, DeepArguments
    <2>. QED
        BY <1>1, <2>1, <2>2 DEF ArgumentsCovered, Wanted, Covered
<1>6. ASSUME LoopHead \/ AdvanceStep PROVE ArgumentsCovered'
    <2>1. stage' # "specialize"
        BY <1>6 DEF LoopHead, AdvanceStep, Advance, StartStep
    <2>. QED
        BY <2>1 DEF ArgumentsCovered
<1>. QED
    BY <1>2, <1>3, <1>4, <1>5, <1>6 DEF Next, TaskStep

LEMMA RulesNext ==
    ASSUME TypeOK, RulesExported, [Next]_vars
    PROVE  RulesExported'
<1>1. Modules' = Modules
    BY InputKept DEF Modules
<1>2. ASSUME UNCHANGED vars PROVE RulesExported'
    BY <1>2 DEF vars, RulesExported, Modules
<1>3. ASSUME NEW m \in Modules, Specialize(m)
      PROVE  RulesExported'
    <2>1. stage = "specialize" /\ stage' = stage /\ pending' = pending \ {m}
        BY <1>3 DEF Specialize, Task
    <2>2. /\ \A r \in rewrites'[m] : r.to \in ExportedBy(file'[m])
          /\ \A x \in Modules \ {m} : rewrites'[x] = rewrites[x] /\ file'[x] = file[x]
        BY <1>3, SpecializeFile DEF Widens, Others
    <2>. QED
        BY <1>1, <2>1, <2>2 DEF RulesExported
<1>4. ASSUME NEW m \in Modules, Rewrite(m)
      PROVE  RulesExported'
    <2>1. rewrites' = rewrites /\ stage = "rewrite"
        BY <1>4 DEF Rewrite, Task
    <2>2. \A x \in Modules : ExportedBy(file[x]) \subseteq ExportedBy(file'[x])
        BY <1>4, RewriteFile DEF Widens, Exports, Others
    <2>. QED
        BY <1>1, <2>1, <2>2 DEF RulesExported
<1>5. ASSUME NEW m \in Modules, References(m) \/ Internalize(m) \/ Intra(m) \/ Seal(m) \/ Strip(m)
      PROVE  RulesExported'
    <2>1. stage' \notin {"specialize", "rewrite"}
        BY <1>5, StageOf DEF Task
    <2>. QED
        BY <2>1 DEF RulesExported
<1>6. ASSUME Deep \/ LoopHead PROVE RulesExported'
    <2>1. stage' # "rewrite" /\ pending' = Modules
        BY <1>6 DEF Deep, LoopHead, StartStep
    <2>. QED
        BY <1>1, <2>1 DEF RulesExported
<1>7. ASSUME AdvanceStep PROVE RulesExported'
    <2>1. CASE Advance("specialize", "rewrite")
        BY <1>1, <2>1 DEF Advance, StepDone, StartStep, RulesExported
    <2>2. CASE stage' \notin {"specialize", "rewrite"}
        BY <2>2 DEF RulesExported
    <2>. QED
        BY <1>7, <2>1, <2>2 DEF AdvanceStep, Advance, StartStep
<1>. QED
    BY <1>2, <1>3, <1>4, <1>5, <1>6, <1>7 DEF Next, TaskStep

LEMMA LinksInit ==
    ASSUME Init
    PROVE  Sound /\ FilesKnown
<1>1. TypeOK /\ file = original /\ stage = "references" /\ pending = Modules
    BY TypeInit DEF Init, Modules
<1>2. \A m \in Modules : \A s \in DeclaredIn(file[m]) : s \notin SpecNames
    BY <1>1, InputType DEF DeclaredIn
<1>3. LinkClosed
    BY <1>1, <1>2 DEF LinkClosed
<1>4. TakenExported /\ KeepExported
    BY <1>1 DEF TakenExported, KeepExported
<1>5. FilesKnown
    BY <1>1 DEF FilesKnown, ReferencesKnown, InterfaceKnown, ArgumentsCovered, RulesExported
<1>. QED
    BY <1>3, <1>4, <1>5 DEF Sound

\* A symbol that a module declares and that the program defined, or that a pass
\* made up, is exported by some module in every state: the interfaces and rewrite
\* files, written by earlier steps, still cover what the tasks of a step hide and
\* what they call.  It needs that no function is defined in two modules and that
\* the library functions the optimizer may call are kept.
THEOREM NothingDeclaredLost == OneDefinition /\ KeepCoversLibCalls => (Spec => []LinkClosed)
<1> SUFFICES ASSUME OneDefinition, KeepCoversLibCalls PROVE Spec => []LinkClosed
    OBVIOUS
<1> DEFINE IInv == TypeOK /\ Origin /\ Sound /\ FilesKnown
<1>1. Init => IInv
    BY TypeInit, OriginInit, LinksInit
<1>2. IInv /\ [Next]_vars => IInv'
    <2> SUFFICES ASSUME IInv, [Next]_vars PROVE IInv'
        OBVIOUS
    <2>1. TypeOK' /\ Origin' /\ Sound'
        BY TypeNext, OriginNext, SoundNext
    <2>2. FilesKnown'
        BY ReferencesNext, InterfaceNext, ArgumentsNext, RulesNext DEF FilesKnown
    <2>. QED
        BY <2>1, <2>2
<1>3. IInv => LinkClosed
    BY DEF Sound
<1>. QED
    BY <1>1, <1>2, <1>3, PTL DEF Spec

-----------------------------------------------------------------------------
(* Names keep their meaning.                                                *)

ArgsOf(f) == {u[3] : u \in f.uses} \cap Functions
KnownIn(f) == {s \in Names : f.linkage[s] # "absent"}

\* An alias refers to its aliasee, and calls nothing.
AliasesRefer(f) == \A u \in f.uses : u[1] \in Aliases => u[3] = "ref"

\* What becomes of the definitions and arguments when the file f becomes g, with
\* the functions of T passed and the specializations of N defined for the first time.
Preserves(f, g, T, N) ==
    /\ ArgsOf(g) \subseteq ArgsOf(f) \cup T
    /\ \A u \in g.uses : u[1] \in Aliases => u \in f.uses
    /\ ExportedBy(g) \subseteq ExportedBy(f) \cup (ArgsOf(f) \cap DefinedIn(f)) \cup SpecNames
    /\ DefinedIn(g) \subseteq DefinedIn(f) \cup N
    /\ \A s \in SpecNames : g.linkage[s] = "weak" => f.linkage[s] = "weak"

LEMMA ArgsIs ==
    ASSUME NEW f, NEW s
    PROVE  s \in ArgsOf(f) <=> s \in Functions /\ \E u \in f.uses : u[3] = s
BY DEF ArgsOf

LEMMA ArgsAmong ==
    ASSUME NEW f, NEW g, NEW T,
           \A w \in g.uses : w[3] \in Functions => w[3] \in T \/ \E v \in f.uses : v[3] = w[3]
    PROVE  ArgsOf(g) \subseteq ArgsOf(f) \cup T
<1> SUFFICES ASSUME NEW s \in ArgsOf(g) PROVE s \in ArgsOf(f) \cup T
    OBVIOUS
<1>1. PICK w \in g.uses : s \in Functions /\ w[3] = s
    BY ArgsIs
<1>. QED
    BY <1>1, ArgsIs

\* A task that removes uses, removes definitions and hides exported ones.
LEMMA LessPreserves ==
    ASSUME NEW f, NEW g, g.uses \subseteq f.uses,
           \A s \in Names : \/ g.linkage[s] \in {"absent", f.linkage[s]}
                            \/ g.linkage[s] = "int" /\ f.linkage[s] \in Exported
    PROVE  Preserves(f, g, {}, {})
<1>1. ArgsOf(g) \subseteq ArgsOf(f)
    BY DEF ArgsOf
<1>2. ExportedBy(g) \subseteq ExportedBy(f)
    BY DEF ExportedBy, Exported
<1>3. DefinedIn(g) \subseteq DefinedIn(f)
    BY DEF DefinedIn, Definitions, Exported
<1>4. \A s \in SpecNames : g.linkage[s] = "weak" => f.linkage[s] = "weak"
    BY KindsOfNames DEF Exported
<1>. QED
    BY <1>1, <1>2, <1>3, <1>4 DEF Preserves

LEMMA OnlyPreserves ==
    ASSUME NEW f, NEW live
    PROVE  Preserves(f, Only(f, live), {}, {})
<1> DEFINE g == Only(f, live)
<1>1. g.uses \subseteq f.uses /\ \A s \in Names : g.linkage[s] \in {"absent", f.linkage[s]}
    BY DEF Only
<1>. QED
    BY <1>1, LessPreserves

LEMMA MinimizePreserves ==
    ASSUME NEW f, NEW I, NEW g \in MinimizeComponent(f, I)
    PROVE  Preserves(f, g, {}, {})
<1> DEFINE dead == UnusedAliases(f, I)
           hidden == Internalized(f, I)
           link == [s \in Names |-> IF s \in dead THEN "absent"
                                    ELSE IF s \in hidden THEN "int" ELSE f.linkage[s]]
           h == [linkage |-> link, uses |-> {u \in f.uses : u[1] \notin dead}]
<1>1. g = f \/ g \in GlobalDCE(h)
    BY DEF MinimizeComponent
<1>2. /\ h.uses \subseteq f.uses
      /\ \A s \in Names : \/ h.linkage[s] \in {"absent", f.linkage[s]}
                          \/ h.linkage[s] = "int" /\ f.linkage[s] \in Exported
    BY DEF Internalized
<1> HIDE DEF h
<1>3. CASE g = f
    BY <1>3, LessPreserves
<1>4. CASE g \in GlobalDCE(h)
    <2>1. PICK live : g = Only(h, live)
        BY <1>4 DEF GlobalDCE
    <2>2. g.uses \subseteq h.uses /\ \A s \in Names : g.linkage[s] \in {"absent", h.linkage[s]}
        BY <2>1 DEF Only
    <2>3. g.uses \subseteq f.uses
        BY <1>2, <2>2
    <2>4. \A s \in Names : \/ g.linkage[s] \in {"absent", f.linkage[s]}
                           \/ g.linkage[s] = "int" /\ f.linkage[s] \in Exported
        BY <1>2, <2>2
    <2>. QED
        BY <2>3, <2>4, LessPreserves
<1>. QED
    BY <1>1, <1>3, <1>4

LEMMA InlinePreserves ==
    ASSUME NEW f \in Files, Consistent(f), AliasesRefer(f), NEW u \in f.uses, u[3] # "ref", NEW g,
           g = [f EXCEPT !.uses = (@ \ {u}) \cup Copy(f, u[2], u[1], u[3])]
    PROVE  Preserves(f, g, {}, {})
<1>1. u[1] \in Names /\ u[2] \in Names /\ u[3] \in Args /\ u[1] \notin Aliases
    BY FileType DEF AliasesRefer
<1>2. \A w \in Copy(f, u[2], u[1], u[3]) :
          /\ w[1] = u[1]
          /\ \E v \in f.uses : w[3] = v[3]
    BY <1>1, CopyOK
<1>3. g.linkage = f.linkage /\ g.uses = (f.uses \ {u}) \cup Copy(f, u[2], u[1], u[3])
    BY FileType
<1>4. ArgsOf(g) \subseteq ArgsOf(f)
    <2>1. \A w \in g.uses : \E v \in f.uses : v[3] = w[3]
        BY <1>2, <1>3
    <2>2. ArgsOf(g) \subseteq ArgsOf(f) \cup {}
        BY <2>1, ArgsAmong
    <2>. QED
        BY <2>2
<1>5. \A w \in g.uses : w[1] \in Aliases => w \in f.uses
    BY <1>1, <1>2, <1>3
<1>. QED
    BY <1>3, <1>4, <1>5 DEF Preserves, ExportedBy, DefinedIn

LEMMA IntroducePreserves ==
    ASSUME NEW f \in Files, NEW c \in Callable, NEW s \in Functions, NEW g,
           g = [Declare(f, {s}) EXCEPT !.uses = @ \cup {<<c, s, "any">>}]
    PROVE  Preserves(f, g, {}, {})
<1> DEFINE d == Declare(f, {s})
<1>1. {s} \in SUBSET Names
    BY KindsOfNames
<1>2. /\ d \in Files /\ d.uses = f.uses
      /\ \A x \in Names : f.linkage[x] # "absent" => d.linkage[x] = f.linkage[x]
      /\ \A x \in Names : f.linkage[x] = "absent" => d.linkage[x] \in {"absent", "decl"}
    BY <1>1, DeclareOK
<1> HIDE DEF d
<1>3. g = [d EXCEPT !.uses = @ \cup {<<c, s, "any">>}]
    BY DEF d
<1>4. g.linkage = d.linkage /\ g.uses = f.uses \cup {<<c, s, "any">>}
    BY <1>2, <1>3, FileType
<1>5. \A w \in g.uses : w \in f.uses \/ (w[1] = c /\ w[3] = "any")
    <2> TAKE w \in g.uses
    <2>1. CASE w = <<c, s, "any">>
        BY <2>1
    <2>. QED
        BY <1>4, <2>1
<1>6. ArgsOf(g) \subseteq ArgsOf(f)
    <2>1. \A w \in g.uses : w[3] \in Functions => \E v \in f.uses : v[3] = w[3]
        BY <1>5, NamesAssumption
    <2>2. ArgsOf(g) \subseteq ArgsOf(f) \cup {}
        BY <2>1, ArgsAmong
    <2>. QED
        BY <2>2
<1>7. \A w \in g.uses : w[1] \in Aliases => w \in f.uses
    BY <1>5, NamesAssumption
<1>8. /\ ExportedBy(g) \subseteq ExportedBy(f) /\ DefinedIn(g) \subseteq DefinedIn(f)
      /\ \A x \in SpecNames : g.linkage[x] = "weak" => f.linkage[x] = "weak"
    BY <1>2, <1>4, KindsOfNames DEF ExportedBy, DefinedIn, Definitions, Exported
<1>. QED
    BY <1>6, <1>7, <1>8 DEF Preserves

LEMMA SpecializedPreserves ==
    ASSUME NEW f \in Files, Consistent(f), NEW new \in SUBSET SpecNames, NEW link \in {"int", "ext"},
           NEW g, g = Specialized(f, new, link)
    PROVE  Preserves(f, g, Bound(new), new)
<1> DEFINE fresh == {s \in new : f.linkage[s] = "absent"}
           bound == {<<s, s[2], "ref">> : s \in {x \in fresh : x[2] \in Functions}}
           copies == UNION {Copy(f, s[1], s, s[2]) : s \in fresh}
           B == {u[2] : u \in bound}
           d == Declare(f, B)
           l == [s \in Names |-> IF s \in fresh THEN link ELSE d.linkage[s]]
<1>1. g = [linkage |-> l, uses |-> f.uses \cup bound \cup copies]
    BY DEF Specialized, Concretized
<1>2. \A s \in new : s \in SpecNames /\ s \in Names /\ s[1] \in Names /\ s[2] \in Args
    BY KindsOfNames
<1>3. \A u \in bound : u[1] \in SpecNames /\ u[2] \in Names /\ u[3] = "ref"
    <2> TAKE u \in bound
    <2>1. PICK s \in fresh : s[2] \in Functions /\ u = <<s, s[2], "ref">>
        OBVIOUS
    <2>. QED
        BY <1>2, <2>1, KindsOfNames
<1>4. \A u \in copies : /\ u[1] \in SpecNames
                        /\ u[3] \in Functions => u[3] \in Bound(new) \/ \E w \in f.uses : w[3] = u[3]
    <2> TAKE u \in copies
    <2>1. PICK s \in fresh : u \in Copy(f, s[1], s, s[2])
        OBVIOUS
    <2>2. u[1] = s /\ \E w \in f.uses : u[3] = w[3] \/ u[3] = s[2]
        BY <1>2, <2>1, CopyOK
    <2>3. u[3] = s[2] /\ u[3] \in Functions => u[3] \in Bound(new)
        BY DEF Bound
    <2>. QED
        BY <1>2, <2>2, <2>3
<1>5. B \in SUBSET Names /\ fresh \subseteq SpecNames
    BY <1>2, <1>3
<1>6. /\ \A s \in Names : f.linkage[s] # "absent" => d.linkage[s] = f.linkage[s]
      /\ \A s \in Names : f.linkage[s] = "absent" => d.linkage[s] \in {"absent", "decl"}
    BY <1>5, DeclareOK
<1>7. fresh \subseteq new
    OBVIOUS
<1> HIDE DEF fresh, bound, copies, B, d
<1>8. /\ g.uses = f.uses \cup bound \cup copies
      /\ \A s \in Names : g.linkage[s] = IF s \in fresh THEN link ELSE d.linkage[s]
    BY <1>1
<1> HIDE DEF l
<1>9. ArgsOf(g) \subseteq ArgsOf(f) \cup Bound(new)
    <2>1. \A w \in g.uses : w[3] \in Functions => w[3] \in Bound(new) \/ \E v \in f.uses : v[3] = w[3]
        BY <1>3, <1>4, <1>8, NamesAssumption
    <2>. QED
        BY <2>1, ArgsAmong
<1>10. \A w \in g.uses : w[1] \in Aliases => w \in f.uses
    BY <1>3, <1>4, <1>8, NamesAssumption DEF Callable
<1>11. ExportedBy(g) \subseteq ExportedBy(f) \cup SpecNames
    BY <1>5, <1>6, <1>8 DEF ExportedBy, Exported
<1>12. DefinedIn(g) \subseteq DefinedIn(f) \cup new
    BY <1>6, <1>7, <1>8 DEF DefinedIn, Definitions
<1>13. \A s \in SpecNames : g.linkage[s] = "weak" => f.linkage[s] = "weak"
    BY <1>6, <1>8, KindsOfNames
<1>. QED
    BY <1>9, <1>10, <1>11, <1>12, <1>13 DEF Preserves

LEMMA LocalPreserves ==
    ASSUME NEW f \in Files, Consistent(f), AliasesRefer(f), NEW u \in f.uses, u[2] \in Functions, u[3] \in ConcreteArgs,
           NEW spec, spec = <<u[2], u[3]>>,
           NEW h \in Files, Preserves(f, h, Bound({spec}), {spec}),
           NEW g, g = [h EXCEPT !.uses = (@ \ {u}) \cup {<<u[1], spec, "any">>}]
    PROVE  Preserves(f, g, {}, {spec})
<1>1. g.linkage = h.linkage /\ g.uses = (h.uses \ {u}) \cup {<<u[1], spec, "any">>}
    BY FileType
<1>2. u[3] # "ref" /\ u[1] \notin Aliases
    BY NamesAssumption DEF ConcreteArgs, AliasesRefer
<1>3. Bound({spec}) \subseteq ArgsOf(f)
    BY ArgsIs DEF Bound
<1>4. \A w \in g.uses : w \in h.uses \/ (w[1] = u[1] /\ w[3] = "any")
    <2> TAKE w \in g.uses
    <2>1. CASE w = <<u[1], spec, "any">>
        BY <2>1
    <2>. QED
        BY <1>1, <2>1
<1>5. ArgsOf(g) \subseteq ArgsOf(f)
    <2>1. ArgsOf(h) \subseteq ArgsOf(f)
        BY <1>3 DEF Preserves
    <2>2. \A w \in g.uses : w[3] \in Functions => \E v \in h.uses : v[3] = w[3]
        BY <1>4, NamesAssumption
    <2>3. ArgsOf(g) \subseteq ArgsOf(h) \cup {}
        BY <2>2, ArgsAmong
    <2>. QED
        BY <2>1, <2>3
<1>6. \A w \in g.uses : w[1] \in Aliases => w \in f.uses
    BY <1>2, <1>4 DEF Preserves
<1>. QED
    BY <1>1, <1>5, <1>6 DEF Preserves, ExportedBy, DefinedIn

LEMMA AddPreserves ==
    ASSUME NEW f \in Files, Consistent(f), NEW R \in SUBSET Rules, NEW g, g = AddSpecializations(f, R),
           NEW new, new = {r.to : r \in R}
    PROVE  Preserves(f, g, Bound(new), new)
<1> DEFINE h == Specialized(f, new, "ext")
           l == [s \in Names |-> IF s \in new THEN "ext" ELSE h.linkage[s]]
<1>1. new \in SUBSET SpecNames /\ new \subseteq Names
    BY KindsOfNames DEF Rules
<1>2. Preserves(f, h, Bound(new), new)
    BY <1>1, SpecializedPreserves
<1>3. h \in Files
    BY <1>1, SpecializedOK DEF Becomes
<1>4. g.uses = h.uses /\ g.linkage = l
    <2>1. h = [linkage |-> h.linkage, uses |-> h.uses]
        BY <1>3, FileType
    <2> HIDE DEF h
    <2>2. g = [h EXCEPT !.linkage = l]
        BY DEF AddSpecializations, h
    <2>. QED
        BY <2>1, <2>2
<1>5. \A s \in Names : g.linkage[s] = IF s \in new THEN "ext" ELSE h.linkage[s]
    BY <1>4
<1> HIDE DEF h, l
<1>6. ArgsOf(g) = ArgsOf(h)
    BY <1>4 DEF ArgsOf
<1>7. ExportedBy(g) \subseteq ExportedBy(h) \cup SpecNames /\ DefinedIn(g) \subseteq DefinedIn(h) \cup new
    BY <1>1, <1>5 DEF ExportedBy, DefinedIn
<1>8. \A s \in SpecNames : g.linkage[s] = "weak" => h.linkage[s] = "weak"
    BY <1>5, KindsOfNames
<1>. QED
    BY <1>2, <1>4, <1>6, <1>7, <1>8 DEF Preserves

\* The module f has a call that a rule of R makes a call of s.
Called(f, R, s) == \E r \in R : s = r.to /\ Matches(f, r) # {}

LEMMA ApplyPreserves ==
    ASSUME NEW f \in Files, Consistent(f), AliasesRefer(f), NEW R \in SUBSET Rules, NEW done \in SUBSET f.uses,
           NEW g, g = ApplyRules(f, R, done)
    PROVE  /\ Preserves(f, g, {}, {})
           /\ \A s \in SpecNames : g.linkage[s] # "absent" => f.linkage[s] # "absent" \/ Called(f, R, s)
<1> DEFINE hit == {r \in R : Matches(f, r) \cap done # {}}
           passed == {r.arg : r \in {x \in hit : f.linkage[x.from] \in {"ext", "decl"}}}
                        \cap Functions \cap DefinedIn(f)
           B == {r.to : r \in hit}
           d == Declare(f, B)
           l == [s \in Names |-> IF s \in passed THEN "ext" ELSE d.linkage[s]]
           calls == UNION {{<<u[1], r.to, "any">> : u \in Matches(f, r) \cap done} : r \in hit}
<1>1. g = [linkage |-> l, uses |-> (f.uses \ done) \cup calls]
    BY DEF ApplyRules
<1>2. B \in SUBSET Names /\ \A s \in B : Called(f, R, s)
    BY KindsOfNames DEF Rules, Called
<1>3. /\ \A s \in Names : f.linkage[s] # "absent" => d.linkage[s] = f.linkage[s]
      /\ \A s \in Names \ B : d.linkage[s] = f.linkage[s]
      /\ \A s \in Names : f.linkage[s] = "absent" => d.linkage[s] \in {"absent", "decl"}
    BY <1>2, DeclareOK
<1>4. \A u \in calls : u[3] = "any" /\ u[1] \notin Aliases
    <2> TAKE u \in calls
    <2>1. PICK r \in hit : \E w \in Matches(f, r) \cap done : u = <<w[1], r.to, "any">>
        OBVIOUS
    <2>2. PICK w \in Matches(f, r) \cap done : u = <<w[1], r.to, "any">>
        BY <2>1
    <2>3. w \in f.uses /\ w[3] = r.arg /\ r \in Rules
        BY <2>2 DEF Matches, LooksUp
    <2>4. w[3] # "ref"
        BY <2>3, NamesAssumption DEF Rules, ConcreteArgs
    <2>. QED
        BY <2>2, <2>3, <2>4 DEF AliasesRefer
<1>5. passed \subseteq ArgsOf(f) \cap DefinedIn(f)
    <2> SUFFICES ASSUME NEW s \in passed PROVE s \in ArgsOf(f)
        OBVIOUS
    <2>1. PICK r \in hit : s = r.arg /\ s \in Functions
        OBVIOUS
    <2>2. PICK w \in Matches(f, r) : TRUE
        BY <2>1
    <2>3. w \in f.uses /\ w[3] = s
        BY <2>1, <2>2 DEF Matches, LooksUp
    <2>. QED
        BY <2>1, <2>3, ArgsIs
<1> HIDE DEF hit, passed, d, calls, B
<1>6. /\ g.uses = (f.uses \ done) \cup calls
      /\ \A s \in Names : g.linkage[s] = IF s \in passed THEN "ext" ELSE d.linkage[s]
    BY <1>1
<1> HIDE DEF l
<1>7. ArgsOf(g) \subseteq ArgsOf(f)
    <2>1. \A w \in g.uses : w[3] \in Functions => \E v \in f.uses : v[3] = w[3]
        BY <1>4, <1>6, NamesAssumption
    <2>2. ArgsOf(g) \subseteq ArgsOf(f) \cup {}
        BY <2>1, ArgsAmong
    <2>. QED
        BY <2>2
<1>8. \A w \in g.uses : w[1] \in Aliases => w \in f.uses
    BY <1>4, <1>6
<1>9. ExportedBy(g) \subseteq ExportedBy(f) \cup (ArgsOf(f) \cap DefinedIn(f))
    BY <1>3, <1>5, <1>6 DEF ExportedBy, Exported
<1>10. DefinedIn(g) \subseteq DefinedIn(f)
    BY <1>3, <1>5, <1>6 DEF DefinedIn, Definitions
<1>11. \A s \in SpecNames : g.linkage[s] = "weak" => f.linkage[s] = "weak"
    BY <1>3, <1>6, KindsOfNames
<1>12. \A s \in SpecNames : g.linkage[s] # "absent" => f.linkage[s] # "absent" \/ s \in B
    BY <1>3, <1>5, <1>6, KindsOfNames DEF DefinedIn, Definitions
<1>. QED
    BY <1>2, <1>7, <1>8, <1>9, <1>10, <1>11, <1>12 DEF Preserves

\* What is asked of the input beside OneDefinition: one module exports a name; a
\* function or an alias that is static in one module is unknown to the others; and
\* the functions that calls pass on, or that opt may introduce calls of, are not static.
NamesApart ==
    \A j \in Jobs : \A m, x \in DOMAIN j.files :
        /\ ExportedBy(j.files[m]) \cap ExportedBy(j.files[x]) # {} => m = x
        /\ \A s \in (Functions \cup Aliases) \cap KnownIn(j.files[m]) : j.files[x].linkage[s] = "int" => m = x
        /\ \A s \in ArgsOf(j.files[m]) \cup j.options.libCalls : j.files[x].linkage[s] # "int"

NotStatic(s) == \A x \in Modules : original[x].linkage[s] # "int"
Passable(a) == a \in Functions => NotStatic(a)

\* The program defined the function of the specialization s, and module m called it
\* by some name.
StandsFor(m, s) ==
    \E x \in Modules, n \in {s[1]} \cup Aliases :
        s[1] \in DefinedIn(original[x]) /\ Resolve(original, m, n) = {<<x, s[1]>>}

\* The strengthening.  Of every file: what it passes on is not static; it exports and
\* aliases nothing it did not; it declares nothing it defined; it knows no static
\* name of another module; its specializations are where their function is, and it
\* knows no others than those of functions it could call.
ArgumentsPlaced(m) == \A a \in ArgsOf(file[m]) : NotStatic(a)
ExportsPlaced(m) == ExportedBy(file[m]) \ SpecNames \subseteq ExportedBy(original[m])
AliasesPlaced(m) == \A u \in file[m].uses : u[1] \in Aliases => u \in original[m].uses
DeclarationsPlaced(m) == \A s \in DeclaredIn(file[m]) \ SpecNames : s \notin DefinedIn(original[m])
StaticsPlaced(m) ==
    \A s \in KnownIn(file[m]) \cap (Functions \cup Aliases), x \in Modules :
        original[x].linkage[s] = "int" => x = m
SpecsPlaced(m) ==
    /\ \A s \in DefinedIn(file[m]) \cap SpecNames :
          s[1] \in DefinedIn(original[m]) /\ file[m].linkage[s] # "weak"
    /\ \A s \in KnownIn(file[m]) \cap SpecNames : StandsFor(m, s) /\ Passable(s[2])
PlacedIn(m) ==
    /\ ArgumentsPlaced(m) /\ ExportsPlaced(m) /\ AliasesPlaced(m)
    /\ DeclarationsPlaced(m) /\ StaticsPlaced(m) /\ SpecsPlaced(m)
Placed == \A m \in Modules : PlacedIn(m)

\* And of the files between the steps: the rules of module x are about a function it
\* defined, by its name or by an alias, and the arguments can be passed.
Founded(x, r) ==
    /\ Passable(r.to[2]) /\ r.to[1] \in DefinedIn(original[x])
    /\ \/ r.from = r.to[1]
       \/ /\ r.from \in Aliases \cap DefinedIn(original[x])
          /\ \E u \in original[x].uses : u[1] = r.from /\ u[2] = r.to[1]
RulesFounded == \A x \in Modules : \A r \in rewrites[x] : Founded(x, r)
CallsPassable == \A c \in iface.calls : Passable(c[2])

LEMMA ApartHere ==
    ASSUME OneDefinition, NamesApart, TypeOK
    PROVE  /\ Modules \subseteq Nat
           /\ \A m \in Modules : OneAliasee(original[m])
           /\ \A m, x \in Modules : \A s : s \in ExportedBy(original[m]) /\ s \in ExportedBy(original[x]) => m = x
           /\ \A m, x \in Modules : \A s \in (Functions \cup Aliases) \cap KnownIn(original[m]) :
                  original[x].linkage[s] = "int" => m = x
           /\ \A m \in Modules : \A s \in ArgsOf(original[m]) : NotStatic(s)
           /\ \A s \in LibCalls : NotStatic(s)
<1>1. PICK j \in Jobs : options = j.options /\ original = j.files
    BY DEF TypeOK
<1>2. Modules \subseteq Nat /\ \A m \in Modules : OneAliasee(original[m])
    BY <1>1, JobsAssumption DEF Modules
<1>3. \A m, x \in Modules :
        /\ ExportedBy(original[m]) \cap ExportedBy(original[x]) # {} => m = x
        /\ \A s \in (Functions \cup Aliases) \cap KnownIn(original[m]) : original[x].linkage[s] = "int" => m = x
        /\ \A s \in ArgsOf(original[m]) \cup LibCalls : original[x].linkage[s] # "int"
    BY <1>1 DEF NamesApart, Modules, LibCalls
<1>4. \A m, x \in Modules : \A s : s \in ExportedBy(original[m]) /\ s \in ExportedBy(original[x]) => m = x
    BY <1>3
<1>. QED
    BY <1>2, <1>3, <1>4 DEF NotStatic

\* The definers, when one module at most exports the name.
LEMMA DefinersAre ==
    ASSUME NEW F, NEW m \in Modules, NEW s, Modules \subseteq Nat,
           \A x, y \in Modules : F[x].linkage[s] \in Exported /\ F[y].linkage[s] \in Exported => x = y
    PROVE  Definers(F, m, s) = IF F[m].linkage[s] = "int" THEN {m}
                               ELSE {x \in Modules : F[x].linkage[s] \in Exported}
<1> DEFINE strong == {x \in Modules : F[x].linkage[s] = "ext"}
           weak == {x \in Modules : F[x].linkage[s] = "weak"}
           first == {x \in weak : \A y \in weak : x <= y}
           all == {x \in Modules : F[x].linkage[s] \in Exported}
<1>1. Definers(F, m, s) = IF F[m].linkage[s] \in {"ext", "int"} THEN {m} ELSE IF strong # {} THEN strong ELSE first
    BY DEF Definers
<1>2. all = strong \cup weak
    BY DEF Exported
<1>3. \A x, y \in weak : x = y /\ x <= y
    <2> SUFFICES ASSUME NEW x \in weak, NEW y \in weak PROVE x = y /\ x <= y
        OBVIOUS
    <2>1. x = y /\ x \in Nat
        BY <1>2
    <2>. QED
        BY <2>1
<1>4. first = weak
    BY <1>3
<1>5. strong # {} => weak = {}
    <2> SUFFICES ASSUME NEW x \in strong, NEW y \in weak PROVE FALSE
        OBVIOUS
    <2>1. x = y
        BY <1>2
    <2>. QED
        BY <2>1
<1>6. CASE F[m].linkage[s] = "ext"
    <2>1. m \in all /\ \A x \in all : x = m
        BY <1>2, <1>6
    <2>. QED
        BY <1>1, <1>6, <2>1
<1>7. CASE F[m].linkage[s] = "int"
    BY <1>1, <1>7
<1>8. CASE F[m].linkage[s] \notin {"ext", "int"}
    BY <1>1, <1>2, <1>4, <1>5, <1>8
<1>. QED
    BY <1>6, <1>7, <1>8

LEMMA ResolveAs ==
    ASSUME NEW F, NEW m, NEW n, NEW x, Definers(F, m, n) = {x}
    PROVE  /\ n \notin Aliases => Resolve(F, m, n) = {<<x, n>>}
           /\ \A s : n \in Aliases /\ {u \in original[x].uses : u[1] = n} = {<<n, s, "ref">>}
                  => Resolve(F, m, n) = {<<x, s>>}
<1> DEFINE To(y) == IF n \in Aliases THEN {<<y, u[2]>> : u \in {w \in original[y].uses : w[1] = n}} ELSE {<<y, n>>}
<1>1. Resolve(F, m, n) = UNION {To(y) : y \in Definers(F, m, n)}
    BY DEF Resolve
<1>2. Resolve(F, m, n) = To(x)
    BY <1>1
<1>3. ASSUME NEW s, n \in Aliases, {u \in original[x].uses : u[1] = n} = {<<n, s, "ref">>}
      PROVE  Resolve(F, m, n) = {<<x, s>>}
    <2>1. To(x) = {<<x, u[2]>> : u \in {<<n, s, "ref">>}}
        BY <1>3
    <2>2. {<<x, u[2]>> : u \in {<<n, s, "ref">>}} = {<<x, s>>}
        OBVIOUS
    <2>. QED
        BY <1>2, <2>1, <2>2
<1>. QED
    BY <1>2, <1>3

OneDefiner(F, m, n, x) == Definers(F, m, n) = {x}

LEMMA ResolveName ==
    ASSUME NEW F, NEW m, NEW n, NEW x, OneDefiner(F, m, n, x), n \notin Aliases
    PROVE  Resolve(F, m, n) = {<<x, n>>}
BY ResolveAs DEF OneDefiner

LEMMA ResolveAlike ==
    ASSUME NEW F, NEW G, NEW m, NEW x, NEW n, Definers(F, m, n) = Definers(G, x, n)
    PROVE  Resolve(F, m, n) = Resolve(G, x, n)
BY DEF Resolve

\* The definers in the program slash was started on.
LEMMA OriginalDefiners ==
    ASSUME OneDefinition, NamesApart, TypeOK, NEW m \in Modules, NEW s \in Names
    PROVE  /\ s \in DefinedIn(original[m]) => Definers(original, m, s) = {m}
           /\ s \notin DefinedIn(original[m])
                 => /\ Definers(original, m, s) = {x \in Modules : s \in ExportedBy(original[x])}
                    /\ \A x \in Modules : s \in ExportedBy(original[x]) => Definers(original, m, s) = {x}
<1>1. \A x, y \in Modules : original[x].linkage[s] \in Exported /\ original[y].linkage[s] \in Exported => x = y
    BY ApartHere DEF ExportedBy
<1>2. Definers(original, m, s) = IF original[m].linkage[s] = "int" THEN {m}
                                 ELSE {x \in Modules : original[x].linkage[s] \in Exported}
    BY <1>1, ApartHere, DefinersAre
<1>. QED
    BY <1>1, <1>2 DEF DefinedIn, ExportedBy, Definitions, Exported

\* A function that is static nowhere stands for the same definition in every module.
LEMMA NotStaticDefiners ==
    ASSUME OneDefinition, NamesApart, TypeOK, NEW m \in Modules, NEW x \in Modules, NEW s \in Functions, NotStatic(s)
    PROVE  Definers(original, m, s) = Definers(original, x, s)
<1>1. s \in Names
    BY KindsOfNames
<1>2. \A y \in Modules : s \in DefinedIn(original[y]) => s \in ExportedBy(original[y])
    BY <1>1 DEF NotStatic, DefinedIn, ExportedBy, Definitions, Exported
<1>3. \A y \in Modules : Definers(original, y, s) = {z \in Modules : s \in ExportedBy(original[z])}
    <2> TAKE y \in Modules
    <2>1. CASE s \notin DefinedIn(original[y])
        BY <1>1, <2>1, OriginalDefiners
    <2>2. CASE s \in DefinedIn(original[y])
        <3>1. Definers(original, y, s) = {y} /\ s \in ExportedBy(original[y])
            BY <1>1, <1>2, <2>2, OriginalDefiners
        <3>2. \A z \in Modules : s \in ExportedBy(original[z]) => z = y
            BY <3>1, ApartHere
        <3>. QED
            BY <3>1, <3>2
    <2>. QED
        BY <2>1, <2>2
<1>. QED
    BY <1>3

\* In every state: a name that a file knows has the definers it had.
LEMMA NamesKeepDefiners ==
    ASSUME OneDefinition, NamesApart, TypeOK, Origin, LinkClosed, Placed,
           NEW m \in Modules, NEW s \in Names \ SpecNames, file[m].linkage[s] # "absent"
    PROVE  Definers(file, m, s) = Definers(original, m, s)
<1>1. \A x \in Modules : s \in ExportedBy(file[x]) => s \in ExportedBy(original[x])
    BY DEF Placed, PlacedIn, ExportsPlaced
<1>2. \A x, y \in Modules : file[x].linkage[s] \in Exported /\ file[y].linkage[s] \in Exported => x = y
    BY <1>1, ApartHere DEF ExportedBy
<1>3. Definers(file, m, s) = IF file[m].linkage[s] = "int" THEN {m}
                             ELSE {x \in Modules : file[x].linkage[s] \in Exported}
    BY <1>2, ApartHere, DefinersAre
<1>4. CASE s \in DefinedIn(file[m])
    <2>1. s \in DefinedIn(original[m])
        BY <1>4 DEF Origin, OriginKept
    <2>2. Definers(original, m, s) = {m}
        BY <2>1, OriginalDefiners
    <2>. QED
        BY <1>2, <1>3, <1>4, <2>2 DEF DefinedIn, Definitions, Exported
<1>5. CASE s \in DeclaredIn(file[m])
    <2>1. s \notin DefinedIn(original[m])
        BY <1>5 DEF Placed, PlacedIn, DeclarationsPlaced
    <2>2. Definers(original, m, s) = {x \in Modules : s \in ExportedBy(original[x])}
        BY <2>1, OriginalDefiners
    <2>3. Definers(file, m, s) = {x \in Modules : s \in ExportedBy(file[x])}
        BY <1>3, <1>5 DEF DeclaredIn, ExportedBy
    <2>4. ASSUME NEW x \in Modules, s \in ExportedBy(original[x])
          PROVE  s \in ExportedBy(file[x])
        <3>1. PICK y \in Modules : s \in ExportedBy(file[y])
            BY <1>5, <2>4 DEF LinkClosed
        <3>2. y = x
            BY <1>1, <2>4, <3>1, ApartHere
        <3>. QED
            BY <3>1, <3>2
    <2>. QED
        BY <1>1, <2>2, <2>3, <2>4
<1>6. file[m] \in Files
    BY InputType
<1>. QED
    BY <1>4, <1>5, <1>6, KnownIs

\* And a specialization that a file knows has one definer, the module that defined
\* its function.
LEMMA SpecDefiners ==
    ASSUME OneDefinition, NamesApart, TypeOK, Origin, LinkClosed, Placed,
           NEW m \in Modules, NEW s \in SpecNames, file[m].linkage[s] # "absent",
           NEW x \in Modules, s[1] \in DefinedIn(original[x])
    PROVE  Definers(file, m, s) = {x}
<1>1. s \in Names /\ s[1] \in Functions
    BY KindsOfNames
<1>2. \A y \in Modules : s \in DefinedIn(file[y]) => y = x
    BY <1>1, OneDefinitionHere DEF Placed, PlacedIn, SpecsPlaced
<1>3. \A y \in Modules : file[y].linkage[s] \in Exported => y = x
    BY <1>1, <1>2 DEF DefinedIn, Definitions, Exported
<1>4. Definers(file, m, s) = IF file[m].linkage[s] = "int" THEN {m}
                             ELSE {y \in Modules : file[y].linkage[s] \in Exported}
    BY <1>3, ApartHere, DefinersAre
<1>5. CASE s \in DefinedIn(file[m])
    <2>1. m = x
        BY <1>2, <1>5
    <2>. QED
        BY <1>3, <1>4, <1>5, <2>1 DEF DefinedIn, Definitions, Exported
<1>6. CASE s \in DeclaredIn(file[m])
    <2>1. PICK y \in Modules : s \in ExportedBy(file[y])
        BY <1>6 DEF LinkClosed
    <2>. QED
        BY <1>3, <1>4, <1>6, <2>1 DEF DeclaredIn, ExportedBy
<1>7. file[m] \in Files
    BY InputType
<1>. QED
    BY <1>1, <1>5, <1>6, <1>7, KnownIs

LEMMA PlacedImplies ==
    ASSUME OneDefinition, NamesApart, TypeOK, Origin, LinkClosed, Placed
    PROVE  MeaningPreserved
<1> SUFFICES ASSUME NEW m \in Modules, NEW u \in file[m].uses
             PROVE  IF u[2] \in SpecNames THEN SpecPreserved(m, u[2]) ELSE NamePreserved(m, u[2])
    BY DEF MeaningPreserved
<1>1. u[2] \in Names /\ file[m].linkage[u[2]] # "absent"
    <2>1. file[m] \in Files /\ Consistent(file[m])
        BY InputType
    <2>. QED
        BY <2>1, FileType, ConsistentIs
<1>2. CASE u[2] \notin SpecNames
    <2>1. Definers(file, m, u[2]) = Definers(original, m, u[2])
        BY <1>1, <1>2, NamesKeepDefiners
    <2>. QED
        BY <1>2, <2>1, ResolveAlike DEF NamePreserved, SameMeaning
<1>3. ASSUME u[2] \in SpecNames
      PROVE  SpecPreserved(m, u[2])
    <2> DEFINE s == u[2]
    <2>1. StandsFor(m, s) /\ Passable(s[2])
        BY <1>1, <1>3 DEF Placed, PlacedIn, SpecsPlaced, KnownIn
    <2>2. PICK x \in Modules, n \in {s[1]} \cup Aliases :
              s[1] \in DefinedIn(original[x]) /\ Resolve(original, m, n) = {<<x, s[1]>>}
        BY <2>1 DEF StandsFor
    <2>3. Definers(file, m, s) = {x}
        BY <1>1, <1>3, <2>2, SpecDefiners
    <2>4. ASSUME s[2] \in Functions, file[x].linkage[s[2]] # "absent"
          PROVE  Resolve(file, x, s[2]) = Resolve(original, m, s[2])
        <3>1. NotStatic(s[2])
            BY <2>1, <2>4 DEF Passable
        <3>2. s[2] \in Names \ SpecNames
            BY <2>4, KindsOfNames, NamesAssumption
        <3>3. Definers(file, x, s[2]) = Definers(original, x, s[2])
            BY <2>4, <3>2, NamesKeepDefiners
        <3>4. Definers(original, x, s[2]) = Definers(original, m, s[2])
            BY <2>4, <3>1, NotStaticDefiners
        <3>. QED
            BY <3>3, <3>4, ResolveAlike
    <2>. QED
        BY <2>2, <2>3, <2>4 DEF SpecPreserved
<1>. QED
    BY <1>2, <1>3

\* The steps.
LEMMA PlacedRefer ==
    ASSUME OneDefinition, NamesApart, TypeOK, Placed, NEW m \in Modules
    PROVE  AliasesRefer(file[m])
<1> SUFFICES ASSUME NEW u \in file[m].uses, u[1] \in Aliases
             PROVE  u[3] = "ref"
    BY DEF AliasesRefer
<1>1. u \in original[m].uses
    BY DEF Placed, PlacedIn, AliasesPlaced
<1>2. u[1] \in DefinedIn(original[m])
    BY <1>1, InputType DEF Consistent
<1>3. PICK s : {w \in original[m].uses : w[1] = u[1]} = {<<u[1], s, "ref">>}
    BY <1>2, ApartHere DEF OneAliasee
<1>4. u = <<u[1], s, "ref">>
    BY <1>1, <1>3
<1>. QED
    BY <1>4

LEMMA IntraPreserves ==
    ASSUME TypeOK, NEW m \in Modules, AliasesRefer(file[m]), Intra(m)
    PROVE  \E N \in SUBSET SpecNames :
               /\ Preserves(file[m], file'[m], {}, N)
               /\ \A s \in N : /\ s[1] \in DefinedIn(file[m]) \cap Functions
                               /\ s[2] \in Functions => s[2] \in ArgsOf(file[m])
<1> DEFINE f == file[m]
           Kept == Preserves(f, file'[m], {}, {})
<1>1. f \in Files /\ Consistent(f) /\ m \in DOMAIN file
    BY InputType
<1>2. ASSUME NEW u \in f.uses, DropUse(m, u)
      PROVE  Kept
    <2>1. file'[m] = [f EXCEPT !.uses = @ \ {u}]
        BY <1>1, <1>2 DEF DropUse
    <2>2. file'[m].uses \subseteq f.uses /\ file'[m].linkage = f.linkage
        BY <1>1, <2>1, FileType
    <2>. QED
        BY <2>2, LessPreserves
<1>3. ASSUME NEW u \in f.uses, InlineCall(m, u)
      PROVE  Kept
    <2>1. file'[m] = [f EXCEPT !.uses = (@ \ {u}) \cup Copy(f, u[2], u[1], u[3])] /\ u[3] # "ref"
        BY <1>1, <1>3 DEF InlineCall
    <2>. QED
        BY <1>1, <2>1, InlinePreserves
<1>4. ASSUME NEW u \in f.uses, SpecializeLocal(m, u)
      PROVE  \E N \in SUBSET SpecNames :
               /\ Preserves(f, file'[m], {}, N)
               /\ \A s \in N : /\ s[1] \in DefinedIn(f) \cap Functions
                               /\ s[2] \in Functions => s[2] \in ArgsOf(f)
    <2> DEFINE spec == <<u[2], u[3]>>
               h == Specialized(f, {spec}, "int")
    <2>1. /\ file'[m] = [h EXCEPT !.uses = (@ \ {u}) \cup {<<u[1], spec, "any">>}]
          /\ u[2] \in Functions /\ u[3] \in ConcreteArgs /\ f.linkage[u[2]] = "int"
        BY <1>1, <1>4 DEF SpecializeLocal
    <2>2. spec \in SpecNames /\ {spec} \in SUBSET SpecNames /\ "int" \in {"int", "ext"}
        BY <2>1 DEF SpecNames
    <2>3. Preserves(f, h, Bound({spec}), {spec})
        BY <1>1, <2>2, SpecializedPreserves
    <2>4. h \in Files
        BY <1>1, <2>2, SpecializedLocallyOK DEF Becomes
    <2> HIDE DEF h
    <2>5. Preserves(f, file'[m], {}, {spec})
        BY <1>1, <2>1, <2>3, <2>4, LocalPreserves
    <2>6. u[2] \in DefinedIn(f) /\ (u[3] \in Functions => u[3] \in ArgsOf(f))
        BY <2>1, ArgsIs, KindsOfNames DEF DefinedIn, Definitions
    <2>7. spec[1] = u[2] /\ spec[2] = u[3]
        OBVIOUS
    <2>. QED
        BY <2>1, <2>2, <2>5, <2>6, <2>7
<1>5. ASSUME NEW c \in Callable, NEW s \in LibCalls, IntroduceCall(m, c, s)
      PROVE  Kept
    <2>1. file'[m] = [Declare(f, {s}) EXCEPT !.uses = @ \cup {<<c, s, "any">>}] /\ s \in Functions
        BY <1>1, <1>5, InputType DEF IntroduceCall
    <2>. QED
        BY <1>1, <2>1, IntroducePreserves
<1>6. ASSUME IntraDone(m)
      PROVE  Kept
    <2>1. PICK live \in Live(f) : file' = [file EXCEPT ![m] = Only(f, live)]
        BY <1>6 DEF IntraDone, GlobalDCE
    <2>2. file'[m] = Only(f, live)
        BY <1>1, <2>1
    <2>. QED
        BY <2>2, OnlyPreserves
<1>7. Kept => \E N \in SUBSET SpecNames :
               /\ Preserves(f, file'[m], {}, N)
               /\ \A s \in N : /\ s[1] \in DefinedIn(f) \cap Functions
                               /\ s[2] \in Functions => s[2] \in ArgsOf(f)
    <2> SUFFICES ASSUME Kept PROVE \E N \in SUBSET SpecNames :
               /\ Preserves(f, file'[m], {}, N)
               /\ \A s \in N : /\ s[1] \in DefinedIn(f) \cap Functions
                               /\ s[2] \in Functions => s[2] \in ArgsOf(f)
        OBVIOUS
    <2> WITNESS {} \in SUBSET SpecNames
    <2>. QED
        OBVIOUS
<1>. QED
    BY <1>2, <1>3, <1>4, <1>5, <1>6, <1>7 DEF Intra

LEMMA NarrowPreserves ==
    ASSUME TypeOK, NEW m \in Modules, Internalize(m) \/ Seal(m) \/ Strip(m)
    PROVE  Preserves(file[m], file'[m], {}, {})
<1>1. m \in DOMAIN file /\ file[m] \in Files
    BY InputType
<1>2. ASSUME Internalize(m) PROVE Preserves(file[m], file'[m], {}, {})
    <2>1. PICK g \in MinimizeComponent(file[m], OthersInterface(m)) : file' = [file EXCEPT ![m] = g]
        BY <1>2 DEF Internalize
    <2>. QED
        BY <1>1, <2>1, MinimizePreserves
<1>3. ASSUME Seal(m) PROVE Preserves(file[m], file'[m], {}, {})
    <2>1. PICK g \in MinimizeComponent(file[m], SealInterface) : file' = [file EXCEPT ![m] = g]
        BY <1>3 DEF Seal, SealInterface
    <2>. QED
        BY <1>1, <2>1, MinimizePreserves
<1>4. ASSUME Strip(m) PROVE Preserves(file[m], file'[m], {}, {})
    <2>1. CASE file' = file
        BY <2>1, LessPreserves
    <2>2. CASE file' = [file EXCEPT ![m].linkage = [s \in Names |->
                        IF file[m].linkage[s] = "decl" /\ s \notin Mentioned(file[m].uses)
                        THEN "absent" ELSE file[m].linkage[s]]]
        <3>1. /\ file'[m].uses = file[m].uses
              /\ file'[m].linkage = [s \in Names |->
                        IF file[m].linkage[s] = "decl" /\ s \notin Mentioned(file[m].uses)
                        THEN "absent" ELSE file[m].linkage[s]]
            BY <1>1, <2>2, FileType
        <3>2. \A s \in Names : file'[m].linkage[s] \in {"absent", file[m].linkage[s]}
            BY <3>1
        <3>. QED
            BY <3>1, <3>2, LessPreserves
    <2>. QED
        BY <1>4, <2>1, <2>2 DEF Strip
<1>. QED
    BY <1>2, <1>3, <1>4

LEMMA SameOriginal ==
    ASSUME UNCHANGED original
    PROVE  /\ Modules' = Modules
           /\ \A s : NotStatic(s)' = NotStatic(s) /\ Passable(s)' = Passable(s)
           /\ \A m, s : StandsFor(m, s)' = StandsFor(m, s)
           /\ \A x, r : Founded(x, r)' = Founded(x, r)
<1>1. Modules' = Modules
    BY DEF Modules
<1>2. \A s : NotStatic(s)' = NotStatic(s) /\ Passable(s)' = Passable(s)
    BY <1>1 DEF NotStatic, Passable
<1>3. \A m, s : StandsFor(m, s)' = StandsFor(m, s)
    <2> TAKE m, s
    <2>1. \A n : Resolve(original, m, n)' = Resolve(original, m, n)
        BY <1>1 DEF Resolve, Definers
    <2>. QED
        BY <1>1, <2>1 DEF StandsFor
<1>4. \A x, r : Founded(x, r)' = Founded(x, r)
    BY <1>2 DEF Founded
<1>. QED
    BY <1>1, <1>2, <1>3, <1>4

LEMMA PlacedSame ==
    ASSUME UNCHANGED original, NEW x \in Modules, file'[x] = file[x], PlacedIn(x)
    PROVE  PlacedIn(x)'
<1>1. ArgumentsPlaced(x)'
    BY SameOriginal DEF PlacedIn, ArgumentsPlaced
<1>2. ExportsPlaced(x)' /\ AliasesPlaced(x)' /\ DeclarationsPlaced(x)' /\ StaticsPlaced(x)'
    BY SameOriginal DEF PlacedIn, ExportsPlaced, AliasesPlaced, DeclarationsPlaced, StaticsPlaced
<1>3. SpecsPlaced(x)'
    BY SameOriginal DEF PlacedIn, SpecsPlaced
<1>. QED
    BY <1>1, <1>2, <1>3 DEF PlacedIn

\* The functions of A may be passed, the names of D declared and the specializations
\* of N defined by a task of module m.
Justified(m, D, A, N) ==
    /\ \A s \in A \cup (D \ SpecNames) : NotStatic(s)
    /\ \A s \in N : s[1] \in DefinedIn(file[m]) \cap Functions /\ Passable(s[2])
    /\ \A s \in D \cap SpecNames : file'[m].linkage[s] # "absent" =>
           \/ file[m].linkage[s] # "absent"
           \/ s \in N
           \/ StandsFor(m, s) /\ Passable(s[2])

\* A task that passes, declares and defines no more than that, and exports nothing
\* else that is new, keeps everything in its place.
LEMMA PlacedStep ==
    ASSUME OneDefinition, NamesApart, TypeOK, TypeOK', Origin, Origin', LinkClosed', Placed,
           UNCHANGED <<options, original>>, NEW m \in Modules, Others(m), NEW D, NEW A, NEW N \in SUBSET SpecNames,
           Preserves(file[m], file'[m], A, N), DeclaredIn(file'[m]) \subseteq DeclaredIn(file[m]) \cup D,
           Justified(m, D, A, N)
    PROVE  Placed'
<1> DEFINE f == file[m]
           g == file'[m]
<1>0. /\ \A s \in A \cup (D \ SpecNames) : NotStatic(s)
      /\ \A s \in N : s[1] \in DefinedIn(f) \cap Functions /\ Passable(s[2])
      /\ \A s \in D \cap SpecNames : g.linkage[s] # "absent" =>
             f.linkage[s] # "absent" \/ s \in N \/ (StandsFor(m, s) /\ Passable(s[2]))
    BY DEF Justified
<1>1. /\ Modules' = Modules
      /\ \A s : NotStatic(s)' = NotStatic(s) /\ Passable(s)' = Passable(s)
      /\ \A y, s : StandsFor(y, s)' = StandsFor(y, s)
    BY SameOriginal
<1>2. f \in Files /\ g \in Files
    <2>1. file' \in [Modules -> Files]
        BY <1>1 DEF TypeOK
    <2>. QED
        BY <2>1, InputType
<1>3. /\ ArgumentsPlaced(m) /\ ExportsPlaced(m) /\ AliasesPlaced(m)
      /\ DeclarationsPlaced(m) /\ StaticsPlaced(m) /\ SpecsPlaced(m)
    BY DEF Placed, PlacedIn
<1>4. \A s : s \in KnownIn(f) <=> s \in DefinedIn(f) \/ s \in DeclaredIn(f)
    BY <1>2, KnownIs DEF KnownIn, DefinedIn, DeclaredIn
<1>5. \A s : s \in KnownIn(g) <=> s \in DefinedIn(g) \/ s \in DeclaredIn(g)
    BY <1>2, KnownIs DEF KnownIn, DefinedIn, DeclaredIn
<1>6. \A s \in KnownIn(g) : s \in KnownIn(f) \/ s \in N \/ s \in D
    BY <1>4, <1>5 DEF Preserves
<1>7. DefinedIn(f) \ SpecNames \subseteq DefinedIn(original[m])
    BY DEF Origin, OriginKept
<1>8. \A s \in SpecNames : s \notin Functions /\ s \notin Aliases /\ s \in Names /\ s[1] \in Functions
    BY KindsOfNames, NamesAssumption DEF Callable
<1>9. ArgumentsPlaced(m)'
    <2>1. \A a \in ArgsOf(g) : NotStatic(a)
        BY <1>0, <1>3 DEF Preserves, ArgumentsPlaced
    <2>. QED
        BY <1>1, <2>1 DEF ArgumentsPlaced
<1>10. ExportsPlaced(m)'
    <2>1. ASSUME NEW s \in ExportedBy(g), s \notin SpecNames
          PROVE  s \in ExportedBy(original[m])
        <3>1. CASE s \in ExportedBy(f)
            BY <1>3, <2>1, <3>1 DEF ExportsPlaced
        <3>2. CASE s \in ArgsOf(f) /\ s \in DefinedIn(f)
            <4>1. NotStatic(s) /\ s \in DefinedIn(original[m])
                BY <1>3, <1>7, <2>1, <3>2 DEF ArgumentsPlaced
            <4>. QED
                BY <4>1 DEF NotStatic, DefinedIn, Definitions, ExportedBy, Exported
        <3>. QED
            BY <2>1, <3>1, <3>2 DEF Preserves
    <2>. QED
        BY <2>1 DEF ExportsPlaced
<1>11. AliasesPlaced(m)'
    <2>1. \A u \in g.uses : u[1] \in Aliases => u \in original[m].uses
        BY <1>3 DEF Preserves, AliasesPlaced
    <2>. QED
        BY <2>1 DEF AliasesPlaced
<1>12. \A x \in Modules : ExportedBy(file'[x]) \ SpecNames \subseteq ExportedBy(original[x])
    <2> TAKE x \in Modules
    <2>1. CASE x = m
        BY <1>10, <2>1 DEF ExportsPlaced
    <2>2. CASE x # m
        BY <2>2 DEF Others, Placed, PlacedIn, ExportsPlaced
    <2>. QED
        BY <2>1, <2>2
<1>13. DeclarationsPlaced(m)'
    <2>1. ASSUME NEW s \in DeclaredIn(g), s \notin SpecNames
          PROVE  s \notin DefinedIn(original[m])
        <3>1. CASE s \in DeclaredIn(f)
            BY <1>3, <2>1, <3>1 DEF DeclarationsPlaced
        <3>2. CASE s \in D
            <4> SUFFICES ASSUME s \in DefinedIn(original[m]) PROVE FALSE
                OBVIOUS
            <4>1. s \in ExportedBy(original[m])
                BY <1>0, <2>1, <3>2 DEF NotStatic, DefinedIn, Definitions, ExportedBy, Exported
            <4>2. PICK y \in Modules : s \in ExportedBy(file'[y])
                BY <1>1, <2>1, <4>1 DEF LinkClosed
            <4>3. s \in ExportedBy(original[y])
                BY <1>12, <2>1, <4>2
            <4>4. y = m
                BY <4>1, <4>3, ApartHere
            <4>. QED
                BY <2>1, <4>2, <4>4 DEF DeclaredIn, ExportedBy, Exported
        <3>. QED
            BY <2>1, <3>1, <3>2
    <2>. QED
        BY <2>1 DEF DeclarationsPlaced
<1>14. StaticsPlaced(m)'
    <2>1. ASSUME NEW s \in KnownIn(g) \cap (Functions \cup Aliases), NEW x \in Modules, original[x].linkage[s] = "int"
          PROVE  x = m
        <3>1. s \in KnownIn(f) \/ s \in D \ SpecNames
            BY <1>6, <1>8
        <3>2. s \notin D \ SpecNames
            BY <1>0, <2>1 DEF NotStatic
        <3>. QED
            BY <1>3, <2>1, <3>1, <3>2 DEF StaticsPlaced
    <2>. QED
        BY <1>1, <2>1 DEF StaticsPlaced, KnownIn
<1>15. ASSUME NEW s \in N
       PROVE  s[1] \in DefinedIn(original[m]) /\ StandsFor(m, s) /\ Passable(s[2])
    <2>1. s[1] \in DefinedIn(original[m]) /\ s[1] \in Functions /\ s[1] \in Names
        BY <1>0, <1>7, <1>8, <1>15, KindsOfNames
    <2>2. Definers(original, m, s[1]) = {m}
        BY <2>1, OriginalDefiners
    <2>3. s[1] \notin Aliases
        BY <2>1, NamesAssumption DEF Callable
    <2> DEFINE n == s[1]
    <2>4. OneDefiner(original, m, n, m) /\ n \notin Aliases
        BY <2>2, <2>3 DEF OneDefiner
    <2> HIDE DEF n
    <2>5. Resolve(original, m, n) = {<<m, n>>}
        BY <2>4, ResolveName
    <2>. QED
        BY <1>0, <1>15, <2>1, <2>5 DEF StandsFor, n
<1>16. SpecsPlaced(m)'
    <2>1. ASSUME NEW s \in DefinedIn(g) \cap SpecNames
          PROVE  s[1] \in DefinedIn(original[m]) /\ g.linkage[s] # "weak"
        <3>1. CASE s \in N /\ s \notin DefinedIn(f)
            BY <1>8, <1>15, <3>1 DEF Preserves, DefinedIn, Definitions
        <3>2. CASE s \in DefinedIn(f)
            BY <1>3, <3>2 DEF Preserves, SpecsPlaced
        <3>. QED
            BY <3>1, <3>2 DEF Preserves
    <2>2. ASSUME NEW s \in KnownIn(g) \cap SpecNames
          PROVE  StandsFor(m, s) /\ Passable(s[2])
        <3>1. s \in KnownIn(f) \/ s \in N \/ (StandsFor(m, s) /\ Passable(s[2]))
            BY <1>0, <1>6 DEF KnownIn
        <3>. QED
            BY <1>3, <1>15, <3>1 DEF SpecsPlaced
    <2>. QED
        BY <1>1, <2>1, <2>2 DEF SpecsPlaced, KnownIn
<1>17. PlacedIn(m)'
    BY <1>9, <1>10, <1>11, <1>13, <1>14, <1>16 DEF PlacedIn
<1>18. \A x \in Modules \ {m} : PlacedIn(x)'
    BY PlacedSame DEF Others, Placed
<1>. QED
    BY <1>1, <1>17, <1>18 DEF Placed

\* A rule of another module, whose function module m calls.
LEMMA FoundedStands ==
    ASSUME OneDefinition, NamesApart, TypeOK, Placed, NEW m \in Modules, NEW x \in Modules \ {m},
           NEW r \in Rules, Founded(x, r), r.from \in FunctionsOf(file[m])
    PROVE  StandsFor(m, r.to) /\ Passable(r.to[2])
<1> DEFINE g == r.to[1]
<1>1. /\ r.to \in SpecNames /\ g \in Functions /\ g \in Names /\ g \notin Aliases
      /\ Passable(r.to[2]) /\ g \in DefinedIn(original[x])
    BY KindsOfNames, NamesAssumption DEF Rules, Founded, Callable
<1>2. DeclarationsPlaced(m) /\ StaticsPlaced(m)
    BY DEF Placed, PlacedIn
<1>3. ASSUME NEW n \in Functions \cup Aliases, n \in KnownIn(file[m]), n \in DefinedIn(original[x]),
             n \notin DefinedIn(original[m])
      PROVE  Definers(original, m, n) = {x}
    <2>1. original[x].linkage[n] # "int"
        BY <1>2, <1>3 DEF StaticsPlaced
    <2>2. n \in ExportedBy(original[x])
        BY <1>3, <2>1 DEF DefinedIn, Definitions, ExportedBy, Exported
    <2>. QED
        BY <1>3, <2>2, OriginalDefiners, KindsOfNames
<1>4. CASE r.from = g
    <2>1. g \in KnownIn(file[m])
        BY <1>1, <1>4 DEF FunctionsOf, KnownIn
    <2>2. g \notin DefinedIn(original[m])
        BY <1>1, OneDefinitionHere
    <2>3. OneDefiner(original, m, g, x)
        BY <1>1, <1>3, <2>1, <2>2 DEF OneDefiner
    <2>4. Resolve(original, m, g) = {<<x, g>>}
        BY <1>1, <2>3, ResolveName
    <2>. QED
        BY <1>1, <2>4 DEF StandsFor
<1>5. ASSUME r.from \in Aliases \cap DefinedIn(original[x]), NEW u \in original[x].uses, u[1] = r.from, u[2] = g
      PROVE  StandsFor(m, r.to)
    <2> DEFINE n == r.from
    <2>1. n \in DeclaredIn(file[m]) /\ n \notin SpecNames
        BY <1>5, NamesAssumption, KindsOfNames DEF FunctionsOf, DeclaredIn, Callable
    <2>2. n \in KnownIn(file[m]) /\ n \notin DefinedIn(original[m])
        BY <1>2, <2>1 DEF KnownIn, DeclaredIn, DeclarationsPlaced
    <2>3. Definers(original, m, n) = {x}
        BY <1>3, <1>5, <2>2
    <2>4. PICK s : {w \in original[x].uses : w[1] = n} = {<<n, s, "ref">>}
        BY <1>5, ApartHere DEF OneAliasee
    <2>5. u \in {<<n, s, "ref">>}
        BY <1>5, <2>4
    <2>6. s = g
        BY <1>5, <2>5
    <2>7. {w \in original[x].uses : w[1] = n} = {<<n, g, "ref">>}
        BY <2>4, <2>6
    <2> HIDE DEF n
    <2>8. Resolve(original, m, n) = {<<x, g>>}
        BY <1>5, <2>3, <2>7, ResolveAs DEF n
    <2>. QED
        BY <1>1, <1>5, <2>8 DEF StandsFor, n
<1>. QED
    BY <1>1, <1>4, <1>5 DEF Founded

LEMMA PlacedIntra ==
    ASSUME OneDefinition, NamesApart, TypeOK, TypeOK', Origin, Origin', LinkClosed', Placed,
           UNCHANGED <<options, original>>, NEW m \in Modules, Intra(m)
    PROVE  Placed'
<1>1. PICK D \in SUBSET LibCalls : Widens(m, D, {}, {})
    BY IntraFile
<1>2. Others(m) /\ DeclaredIn(file'[m]) \subseteq DeclaredIn(file[m]) \cup D
    BY <1>1 DEF Widens, Becomes
<1>3. PICK N \in SUBSET SpecNames :
          /\ Preserves(file[m], file'[m], {}, N)
          /\ \A s \in N : /\ s[1] \in DefinedIn(file[m]) \cap Functions
                          /\ s[2] \in Functions => s[2] \in ArgsOf(file[m])
    BY IntraPreserves, PlacedRefer
<1>4. \A s \in N : s[1] \in DefinedIn(file[m]) \cap Functions /\ Passable(s[2])
    <2> SUFFICES ASSUME NEW s \in N, s[2] \in Functions
                 PROVE  NotStatic(s[2])
        BY <1>3 DEF Passable
    <2>1. s[2] \in ArgsOf(file[m])
        BY <1>3
    <2>2. ArgumentsPlaced(m)
        BY DEF Placed, PlacedIn
    <2>. QED
        BY <2>1, <2>2 DEF ArgumentsPlaced
<1>5. \A s \in {} \cup (D \ SpecNames) : NotStatic(s)
    BY ApartHere
<1>6. \A s \in D \cap SpecNames : FALSE
    BY InputType, NamesAssumption
<1>7. Justified(m, D, {}, N)
    BY <1>4, <1>5, <1>6 DEF Justified
<1>. QED
    BY <1>2, <1>3, <1>7, PlacedStep

LEMMA PlacedNarrow ==
    ASSUME OneDefinition, NamesApart, TypeOK, TypeOK', Origin, Origin', LinkClosed', Placed,
           UNCHANGED <<options, original>>, NEW m \in Modules, Internalize(m) \/ Seal(m) \/ Strip(m)
    PROVE  Placed'
<1>1. Others(m) /\ DeclaredIn(file'[m]) \subseteq DeclaredIn(file[m]) \cup {}
    BY InternalizeFile, SealFile, StripFile DEF Widens, Narrows, Becomes, Others
<1>2. Preserves(file[m], file'[m], {}, {})
    BY NarrowPreserves
<1>3. Justified(m, {}, {}, {})
    BY DEF Justified
<1>. QED
    BY <1>1, <1>2, <1>3, PlacedStep

LEMMA PlacedSpecialize ==
    ASSUME OneDefinition, NamesApart, TypeOK, TypeOK', Origin, Origin', LinkClosed', Placed, CallsPassable,
           UNCHANGED <<options, original>>, NEW m \in Modules, Specialize(m)
    PROVE  Placed'
<1>1. PICK C \in SUBSET Candidates(m) : file' = [file EXCEPT ![m] = AddSpecializations(file[m], RulesFor(m, C))]
    BY DEF Specialize
<1> DEFINE R == RulesFor(m, C)
           N == {r.to : r \in R}
<1>2. /\ R \in SUBSET Rules
      /\ \A r \in R : /\ r.to[1] \in DefinedIn(file[m]) \cap Functions
                      /\ \E c \in iface.calls : r.to[2] = c[2]
    BY RulesOK
<1>3. file' = [file EXCEPT ![m] = AddSpecializations(file[m], R)]
    BY <1>1
<1> HIDE DEF R
<1>4. N \in SUBSET SpecNames
    BY <1>2 DEF Rules
<1>5. file[m] \in Files /\ Consistent(file[m]) /\ m \in DOMAIN file
    BY InputType
<1>6. file'[m] = AddSpecializations(file[m], R)
    BY <1>3, <1>5
<1>7. Preserves(file[m], file'[m], Bound(N), N)
    BY <1>2, <1>5, <1>6, AddPreserves
<1>8. Becomes(file[m], file'[m], Bound(N), Bound(N), N)
    BY <1>2, <1>5, <1>6, AddOK
<1>9. Others(m) /\ DeclaredIn(file'[m]) \subseteq DeclaredIn(file[m]) \cup Bound(N)
    BY <1>3, <1>5, <1>8, InputType DEF Becomes, Others
<1>10. \A s \in N : s[1] \in DefinedIn(file[m]) \cap Functions /\ Passable(s[2])
    BY <1>2 DEF CallsPassable
<1>11. \A s \in Bound(N) : NotStatic(s) /\ s \notin SpecNames
    BY <1>10, NamesAssumption DEF Bound, Passable
<1> HIDE DEF N
<1>12. Justified(m, Bound(N), Bound(N), N)
    BY <1>10, <1>11 DEF Justified
<1>. QED
    BY <1>4, <1>7, <1>9, <1>12, PlacedStep

LEMMA PlacedRewrite ==
    ASSUME OneDefinition, NamesApart, TypeOK, TypeOK', Origin, Origin', LinkClosed', Placed, RulesFounded,
           UNCHANGED <<options, original>>, NEW m \in Modules, Rewrite(m)
    PROVE  Placed'
<1> DEFINE R == RulesOfOthers(m)
           D == {r.to : r \in R}
<1>1. PICK done \in SUBSET UNION {Matches(file[m], r) : r \in R} :
          file' = [file EXCEPT ![m] = ApplyRules(file[m], R, done)]
    BY DEF Rewrite
<1>2. done \in SUBSET file[m].uses
    BY DEF Matches, LooksUp
<1>3. Widens(m, D, {}, {}) /\ R \in SUBSET Rules
    BY RewriteFile
<1>4. file[m] \in Files /\ Consistent(file[m]) /\ m \in DOMAIN file /\ AliasesRefer(file[m])
    BY InputType, PlacedRefer
<1>5. \A r \in R : \E x \in Modules \ {m} : Founded(x, r)
    BY DEF RulesOfOthers, RulesFounded
<1> HIDE DEF R
<1>6. file'[m] = ApplyRules(file[m], R, done)
    BY <1>1, <1>4
<1>7. /\ Preserves(file[m], file'[m], {}, {})
      /\ \A s \in SpecNames : file'[m].linkage[s] # "absent"
            => file[m].linkage[s] # "absent" \/ Called(file[m], R, s)
    BY <1>2, <1>3, <1>4, <1>6, ApplyPreserves
<1>8. ASSUME NEW s \in D \cap SpecNames, file'[m].linkage[s] # "absent", file[m].linkage[s] = "absent"
      PROVE  StandsFor(m, s) /\ Passable(s[2])
    <2>1. PICK r \in R : s = r.to /\ Matches(file[m], r) # {}
        BY <1>7, <1>8 DEF Called
    <2>2. r.from \in FunctionsOf(file[m])
        BY <2>1 DEF Matches
    <2>3. PICK x \in Modules \ {m} : Founded(x, r)
        BY <1>5
    <2>. QED
        BY <1>3, <2>1, <2>2, <2>3, FoundedStands
<1>9. Others(m) /\ DeclaredIn(file'[m]) \subseteq DeclaredIn(file[m]) \cup D
    BY <1>3 DEF Widens, Becomes
<1>10. D \subseteq SpecNames
    BY <1>3 DEF Rules
<1> HIDE DEF D
<1>11. Justified(m, D, {}, {})
    BY <1>8, <1>10 DEF Justified
<1>12. Preserves(file[m], file'[m], {}, {})
    BY <1>7
<1>. QED
    BY <1>9, <1>11, <1>12, PlacedStep

LEMMA PlacedNext ==
    ASSUME OneDefinition, NamesApart, TypeOK, TypeOK', Origin, Origin', LinkClosed', Placed, RulesFounded,
           CallsPassable, [Next]_vars
    PROVE  Placed'
<1>1. UNCHANGED <<options, original>>
    BY InputKept
<1>2. CASE UNCHANGED file
    BY <1>1, <1>2, PlacedSame, SameOriginal DEF Placed
<1>3. FileStep
    BY FileSteps
<1>. QED
    BY <1>1, <1>2, <1>3, PlacedIntra, PlacedNarrow, PlacedSpecialize, PlacedRewrite DEF FileStep

LEMMA RulesFoundedNext ==
    ASSUME TypeOK, Origin, Placed, CallsPassable, RulesFounded, [Next]_vars
    PROVE  RulesFounded'
<1>1. UNCHANGED original
    BY InputKept
<1>2. Modules' = Modules /\ \A x, r : Founded(x, r)' = Founded(x, r)
    BY <1>1, SameOriginal
<1>3. ASSUME NEW m \in Modules, Specialize(m)
      PROVE  RulesFounded'
    <2>1. PICK C \in SUBSET Candidates(m) : rewrites' = [rewrites EXCEPT ![m] = RulesFor(m, C)]
        BY <1>3 DEF Specialize
    <2>2. ASSUME NEW r \in RulesFor(m, C)
          PROVE  Founded(m, r)
        <3>1. PICK c \in C : \E g \in Target(file[m], c[1]) : r = [from |-> c[1], arg |-> c[2], to |-> <<g, c[2]>>]
            BY DEF RulesFor
        <3>2. PICK g \in Target(file[m], c[1]) : r = [from |-> c[1], arg |-> c[2], to |-> <<g, c[2]>>]
            BY <3>1
        <3>3. r.from = c[1] /\ r.to[1] = g /\ r.to[2] = c[2]
            BY <3>2
        <3>4. Passable(r.to[2])
            BY <3>3 DEF Candidates, CallsPassable
        <3>5. g \in Functions /\ g \in DefinedIn(file[m])
            BY DEF Target
        <3>6. g \in DefinedIn(original[m])
            BY <3>5, NamesAssumption DEF Origin, OriginKept
        <3>7. CASE c[1] \in Functions
            BY <3>3, <3>4, <3>6, <3>7 DEF Founded, Target
        <3>8. CASE c[1] \notin Functions
            <4>1. PICK u \in file[m].uses : u[1] = c[1] /\ u[2] = g /\ c[1] \in Aliases
                BY <3>8 DEF Target
            <4>2. u \in original[m].uses
                BY <4>1 DEF Placed, PlacedIn, AliasesPlaced
            <4>3. u[1] \in DefinedIn(original[m])
                BY <4>2, InputType DEF Consistent
            <4>. QED
                BY <3>3, <3>4, <3>6, <4>1, <4>2, <4>3 DEF Founded
        <3>. QED
            BY <3>7, <3>8
    <2>3. rewrites'[m] = RulesFor(m, C) /\ \A x \in Modules \ {m} : rewrites'[x] = rewrites[x]
        BY <2>1 DEF TypeOK
    <2>. QED
        BY <1>2, <2>2, <2>3 DEF RulesFounded
<1>4. CASE UNCHANGED rewrites
    BY <1>2, <1>4 DEF RulesFounded
<1>5. ASSUME NEW m \in Modules, Intra(m)
      PROVE  UNCHANGED rewrites
    BY <1>5 DEF Intra, DropUse, InlineCall, SpecializeLocal, IntroduceCall, IntraDone, IntraFrame
<1>6. (\E m \in Modules : Specialize(m)) \/ UNCHANGED rewrites
    BY <1>5 DEF Next, vars, TaskStep, References, Internalize, Rewrite, Seal, Strip, Deep, LoopHead, AdvanceStep,
                Advance
<1>. QED
    BY <1>3, <1>4, <1>6

LEMMA CallsPassableNext ==
    ASSUME TypeOK, Placed, CallsPassable, [Next]_vars
    PROVE  CallsPassable'
<1>1. \A s : Passable(s)' = Passable(s)
    BY InputKept, SameOriginal
<1>2. ASSUME Deep
      PROVE  CallsPassable'
    <2>1. ASSUME NEW c \in iface'.calls, c[2] \in Functions
          PROVE  NotStatic(c[2])
        <3>1. PICK C \in SUBSET UNION {ExternalCalls(file[m]) : m \in Modules}, V \in SUBSET Modules :
                  iface' = DeepInterface(C, V)
            BY <1>2 DEF Deep, DeepInterfaces
        <3>2. c[2] # "any"
            BY <2>1, NamesAssumption
        <3>3. c \in C
            BY <3>1, <3>2 DEF DeepInterface
        <3>4. PICK m \in Modules : c \in ExternalCalls(file[m])
            BY <3>3
        <3>5. PICK u \in file[m].uses : c = <<u[2], u[3]>>
            BY <3>4 DEF ExternalCalls
        <3>6. c[2] \in ArgsOf(file[m])
            BY <2>1, <3>5, ArgsIs
        <3>. QED
            BY <3>6 DEF Placed, PlacedIn, ArgumentsPlaced
    <2>. QED
        BY <1>1, <2>1 DEF CallsPassable, Passable
<1>3. CASE UNCHANGED iface
    BY <1>1, <1>3 DEF CallsPassable
<1>4. ASSUME NEW m \in Modules, Intra(m)
      PROVE  UNCHANGED iface
    BY <1>4 DEF Intra, DropUse, InlineCall, SpecializeLocal, IntroduceCall, IntraDone, IntraFrame
<1>5. Deep \/ UNCHANGED iface
    BY <1>4 DEF Next, vars, TaskStep, References, Internalize, Specialize, Rewrite, Seal, Strip, LoopHead,
                AdvanceStep, Advance
<1>. QED
    BY <1>2, <1>3, <1>5

LEMMA PlacedInit ==
    ASSUME OneDefinition, NamesApart, Init
    PROVE  Placed /\ RulesFounded /\ CallsPassable
<1>1. TypeOK /\ file = original
    BY TypeInit DEF Init
<1>2. ASSUME NEW m \in Modules
      PROVE  PlacedIn(m)
    <2>1. ArgumentsPlaced(m) /\ ExportsPlaced(m) /\ AliasesPlaced(m)
        BY <1>1, ApartHere DEF ArgumentsPlaced, ExportsPlaced, AliasesPlaced
    <2>2. DeclarationsPlaced(m)
        BY <1>1 DEF DeclarationsPlaced, DeclaredIn, DefinedIn, Definitions
    <2>3. StaticsPlaced(m)
        BY <1>1, ApartHere DEF StaticsPlaced
    <2>4. SpecsPlaced(m)
        BY <1>1, InputType DEF SpecsPlaced, DefinedIn, Definitions, KnownIn
    <2>. QED
        BY <2>1, <2>2, <2>3, <2>4 DEF PlacedIn
<1>3. RulesFounded /\ CallsPassable
    BY <1>1 DEF Init, RulesFounded, CallsPassable, EmptyInterface
<1>. QED
    BY <1>2, <1>3 DEF Placed

\* Whatever inlining, specialization, internalization and stripping do to the
\* modules: a name that a module uses stands for the definition it stood for in the
\* program slash was started on, and a specialization for the function it was made of.
THEOREM MeaningKept ==
    OneDefinition /\ NamesApart /\ KeepCoversLibCalls => (Spec => []MeaningPreserved)
<1> SUFFICES ASSUME OneDefinition, NamesApart, KeepCoversLibCalls PROVE Spec => []MeaningPreserved
    OBVIOUS
<1> DEFINE IInv == /\ TypeOK /\ Origin /\ Sound /\ FilesKnown
                   /\ Placed /\ RulesFounded /\ CallsPassable
<1>1. Init => IInv
    BY TypeInit, OriginInit, LinksInit, PlacedInit
<1>2. IInv /\ [Next]_vars => IInv'
    <2> SUFFICES ASSUME IInv, [Next]_vars PROVE IInv'
        OBVIOUS
    <2>1. TypeOK' /\ Origin' /\ Sound'
        BY TypeNext, OriginNext, SoundNext
    <2>2. FilesKnown'
        BY ReferencesNext, InterfaceNext, ArgumentsNext, RulesNext DEF FilesKnown
    <2>3. LinkClosed'
        BY <2>1 DEF Sound
    <2>4. Placed'
        BY <2>1, <2>3, PlacedNext
    <2>5. RulesFounded' /\ CallsPassable'
        BY RulesFoundedNext, CallsPassableNext
    <2>. QED
        BY <2>1, <2>2, <2>4, <2>5
<1>3. IInv => MeaningPreserved
    BY PlacedImplies DEF Sound
<1>. QED
    BY <1>1, <1>2, <1>3, PTL DEF Spec

-----------------------------------------------------------------------------
(* The loop ends with nothing left to rewrite.                              *)

\* No rule of another module is for a call that m still has.
Rewritten(m) == \A r \in RulesOfOthers(m) : Matches(file[m], r) = {}

\* inter_rewrite has run on m, and no specialization since then.
AfterRewrite(m) ==
    \/ stage = "rewrite" /\ m \notin pending
    \/ stage \in {"references", "internalize", "deepAfter", "seal"} /\ round > 0
    \/ stage \in {"strip", "linked"} /\ round < MaxRounds

\* What holds while no task of a round has reported progress: the verdict of a
\* round is about all modules.
VerdictTrue == \A m \in Modules : AfterRewrite(m) /\ ~progress => Rewritten(m)
LoopEnded == stage \in {"strip", "linked"} /\ round < MaxRounds => ~progress
LoopStarts == round = 0 => progress
NoRules == ~InterSpec => stage \notin {"specialize", "rewrite"} /\ \A m \in Modules : rewrites[m] = {}

Verdict == VerdictTrue /\ LoopEnded /\ LoopStarts /\ NoRules

\* A file with no new function and no new use has no new call for a rule.
LEMMA FewerMatches ==
    ASSUME NEW f, NEW g, NEW r, FunctionsOf(g) \subseteq FunctionsOf(f), g.uses \subseteq f.uses
    PROVE  Matches(g, r) \subseteq Matches(f, r)
BY DEF Matches

LEMMA OnlyFewer ==
    ASSUME NEW f \in Files, NEW live
    PROVE  FunctionsOf(Only(f, live)) \subseteq FunctionsOf(f) /\ Only(f, live).uses \subseteq f.uses
<1> DEFINE g == Only(f, live)
<1>1. /\ \A s \in Names : g.linkage[s] = f.linkage[s] \/ g.linkage[s] = "absent"
      /\ g.uses \subseteq f.uses
    BY DEF Only
<1>2. Callable \subseteq Names /\ Aliases \subseteq Names
    BY DEF Names
<1>3. FunctionsOf(g) \subseteq FunctionsOf(f)
    <2> SUFFICES ASSUME NEW s \in FunctionsOf(g) PROVE s \in FunctionsOf(f)
        OBVIOUS
    <2>1. s \in Names
        BY <1>2 DEF FunctionsOf
    <2>. QED
        BY <1>1, <2>1 DEF FunctionsOf
<1>. QED
    BY <1>1, <1>3

\* MinimizeComponent hides and removes symbols, and brings none.
LEMMA MinimizeFewer ==
    ASSUME NEW f \in Files, NEW I, NEW g \in MinimizeComponent(f, I)
    PROVE  FunctionsOf(g) \subseteq FunctionsOf(f) /\ g.uses \subseteq f.uses
<1> DEFINE dead == UnusedAliases(f, I)
           hidden == Internalized(f, I)
           link == [s \in Names |-> IF s \in dead THEN "absent"
                                    ELSE IF s \in hidden THEN "int" ELSE f.linkage[s]]
           h == [linkage |-> link, uses |-> {u \in f.uses : u[1] \notin dead}]
<1>1. CASE g = f
    BY <1>1
<1>2. CASE g \in GlobalDCE(h)
    <2>1. \A s \in Names : f.linkage[s] \in Linkages
        BY FileType
    <2>2. link \in [Names -> Linkages]
        BY <2>1 DEF Linkages
    <2>3. h \in Files
        BY <2>2, FileType, MakeFile
    <2>4. Callable \subseteq Names /\ Aliases \subseteq Names
        BY DEF Names
    <2>5. \A s \in Names : \/ h.linkage[s] = f.linkage[s]
                           \/ h.linkage[s] = "absent"
                           \/ h.linkage[s] = "int" /\ f.linkage[s] \in Exported
        BY DEF Internalized
    <2>6. FunctionsOf(h) \subseteq FunctionsOf(f)
        <3> SUFFICES ASSUME NEW s \in FunctionsOf(h) PROVE s \in FunctionsOf(f)
            OBVIOUS
        <3>1. s \in Names
            BY <2>4 DEF FunctionsOf
        <3>2. (s \in Callable /\ h.linkage[s] # "absent") \/ (s \in Aliases /\ h.linkage[s] = "decl")
            BY DEF FunctionsOf
        <3>3. (s \in Callable /\ f.linkage[s] # "absent") \/ (s \in Aliases /\ f.linkage[s] = "decl")
            BY <2>5, <3>1, <3>2 DEF Exported
        <3>. QED
            BY <3>3 DEF FunctionsOf
    <2>7. h.uses \subseteq f.uses
        OBVIOUS
    <2>8. PICK live \in Live(h) : g = Only(h, live)
        BY <1>2 DEF GlobalDCE
    <2>9. FunctionsOf(g) \subseteq FunctionsOf(h) /\ g.uses \subseteq h.uses
        BY <2>3, <2>8, OnlyFewer
    <2>. QED
        BY <2>6, <2>7, <2>9
<1>. QED
    BY <1>1, <1>2 DEF MinimizeComponent

\* Rewritten is kept where a module loses functions and uses, and the rules stay.
LEMMA RewrittenKept ==
    ASSUME NEW m \in Modules, Modules' = Modules, rewrites' = rewrites, Rewritten(m),
           FunctionsOf(file'[m]) \subseteq FunctionsOf(file[m]), file'[m].uses \subseteq file[m].uses
    PROVE  Rewritten(m)'
<1>1. RulesOfOthers(m)' = RulesOfOthers(m)
    BY DEF RulesOfOthers
<1>2. ASSUME NEW r \in RulesOfOthers(m)
      PROVE  Matches(file'[m], r) = {}
    BY <1>2, FewerMatches DEF Rewritten
<1>. QED
    BY <1>1, <1>2 DEF Rewritten

\* The steps after inter_rewrite: they leave the rules and the verdict, and only
\* take from the files.
LEMMA VerdictNarrow ==
    ASSUME TypeOK, Verdict, NEW m \in Modules,
           Internalize(m) \/ Seal(m) \/ Strip(m) \/ References(m), UNCHANGED <<options, original>>
    PROVE  Verdict'
<1>1. /\ Modules' = Modules /\ rewrites' = rewrites /\ stage' = stage /\ round' = round
      /\ progress' = progress /\ MaxRounds' = MaxRounds /\ InterSpec' = InterSpec
      /\ stage \in {"references", "internalize", "seal", "strip"}
    BY DEF Internalize, Seal, Strip, References, Task, Modules, MaxRounds, InterSpec
<1>2. file \in [Modules -> Files]
    BY DEF TypeOK
<1>3. ASSUME NEW x \in Modules
      PROVE  FunctionsOf(file'[x]) \subseteq FunctionsOf(file[x]) /\ file'[x].uses \subseteq file[x].uses
    <2>1. CASE file'[x] = file[x]
        BY <2>1
    <2>2. CASE Internalize(m) \/ Seal(m)
        <3> DEFINE sealing == [calls |-> CalledNames(iface.calls), references |-> iface.references]
        <3>1. PICK f \in MinimizeComponent(file[m], OthersInterface(m))
                           \cup MinimizeComponent(file[m], sealing) : file' = [file EXCEPT ![m] = f]
            BY <2>2 DEF Internalize, Seal
        <3>2. file[m] \in Files
            BY <1>2
        <3>3. FunctionsOf(f) \subseteq FunctionsOf(file[m]) /\ f.uses \subseteq file[m].uses
            BY <3>2, MinimizeFewer
        <3>. QED
            BY <1>2, <2>1, <3>1, <3>3
    <2>3. CASE Strip(m)
        <3>1. CASE file' = file
            BY <2>1, <3>1
        <3>2. CASE file' # file /\ x = m
            <4>1. Callable \subseteq Names /\ Aliases \subseteq Names
                BY DEF Names
            <4> DEFINE l == [s \in Names |->
                                IF file[m].linkage[s] = "decl" /\ s \notin Mentioned(file[m].uses)
                                THEN "absent" ELSE file[m].linkage[s]]
            <4>2. file' = [file EXCEPT ![m].linkage = l]
                BY <2>3, <3>2 DEF Strip
            <4>3. file[m] \in Files
                BY <1>2
            <4>4. file'[m] = [linkage |-> l, uses |-> file[m].uses]
                <5>1. file'[m] = [file[m] EXCEPT !.linkage = l]
                    BY <1>2, <4>2
                <5>. QED
                    BY <4>3, <5>1 DEF Files
            <4>5. ASSUME NEW s \in FunctionsOf(file'[m])
                  PROVE  s \in FunctionsOf(file[m])
                <5>1. s \in Names
                    BY <4>1 DEF FunctionsOf
                <5>2. file'[m].linkage[s] = file[m].linkage[s] \/ file'[m].linkage[s] = "absent"
                    BY <4>4, <5>1
                <5>. QED
                    BY <5>2 DEF FunctionsOf
            <4>. QED
                BY <3>2, <4>4, <4>5
        <3>3. CASE x # m
            BY <1>2, <2>1, <2>3, <3>3 DEF Strip
        <3>. QED
            BY <3>1, <3>2, <3>3
    <2>4. CASE References(m)
        BY <2>1, <2>4 DEF References
    <2>. QED
        BY <2>2, <2>3, <2>4
<1>4. ASSUME NEW x \in Modules, AfterRewrite(x)', ~progress'
      PROVE  Rewritten(x)'
    <2>1. AfterRewrite(x) /\ ~progress
        BY <1>1, <1>4 DEF AfterRewrite
    <2>2. Rewritten(x)
        BY <2>1 DEF Verdict, VerdictTrue
    <2>. QED
        BY <1>1, <1>3, <2>2, RewrittenKept
<1>5. VerdictTrue'
    BY <1>1, <1>4 DEF VerdictTrue
<1>. QED
    BY <1>1, <1>5 DEF Verdict, LoopEnded, LoopStarts, NoRules

\* A task that reports nothing has found no call, and leaves its module as it is.
LEMMA VerdictRewrite ==
    ASSUME TypeOK, Verdict, NEW m \in Modules, Rewrite(m), UNCHANGED <<options, original>>
    PROVE  Verdict'
<1> DEFINE R == RulesOfOthers(m)
           all == UNION {Matches(file[m], r) : r \in R}
<1>1. /\ Modules' = Modules /\ rewrites' = rewrites /\ stage' = stage /\ round' = round
      /\ MaxRounds' = MaxRounds /\ InterSpec' = InterSpec
      /\ stage = "rewrite" /\ pending' = pending \ {m}
    BY DEF Rewrite, Task, Modules, MaxRounds, InterSpec
<1>2. PICK done \in SUBSET all : /\ file' = [file EXCEPT ![m] = ApplyRules(file[m], R, done)]
                                 /\ progress' = (progress \/ all # {})
    BY DEF Rewrite
<1>3. file \in [Modules -> Files] /\ progress \in BOOLEAN
    BY DEF TypeOK
<1>4. ASSUME NEW x \in Modules, x \notin pending', ~progress'
      PROVE  Rewritten(x)'
    <2>1. ~progress /\ all = {}
        BY <1>2, <1>3, <1>4
    <2>2. CASE x # m
        <3>1. AfterRewrite(x)
            BY <1>1, <1>4, <2>2 DEF AfterRewrite
        <3>2. Rewritten(x)
            BY <2>1, <3>1 DEF Verdict, VerdictTrue
        <3>3. file'[x] = file[x]
            BY <1>2, <1>3, <2>2
        <3>. QED
            BY <1>1, <3>2, <3>3, RewrittenKept
    <2>3. CASE x = m
        <3>1. Rewritten(m)
            BY <2>1 DEF Rewritten
        <3> DEFINE f == file[m]
                   hit == {r \in R : Matches(f, r) \cap done # {}}
                   passed == {r.arg : r \in {y \in hit : f.linkage[y.from] \in {"ext", "decl"}}}
                                \cap Functions \cap DefinedIn(f)
                   d == Declare(f, {r.to : r \in hit})
        <3>2. done = {} /\ hit = {}
            BY <2>1
        <3>3. passed = {} /\ {r.to : r \in hit} = {}
            BY <3>2
        <3>4. ApplyRules(f, R, done) =
                [linkage |-> [s \in Names |-> IF s \in passed THEN "ext" ELSE d.linkage[s]],
                 uses |-> (f.uses \ done)
                    \cup UNION {{<<u[1], r.to, "any">> : u \in Matches(f, r) \cap done} : r \in hit}]
            BY DEF ApplyRules
        <3>5. ApplyRules(f, R, done).uses = f.uses
            <4>1. UNION {{<<u[1], r.to, "any">> : u \in Matches(f, r) \cap done} : r \in hit} = {}
                BY <3>2
            <4>2. f.uses \ done = f.uses
                BY <3>2
            <4>3. ApplyRules(f, R, done).uses = (f.uses \ done)
                    \cup UNION {{<<u[1], r.to, "any">> : u \in Matches(f, r) \cap done} : r \in hit}
                BY <3>4
            <4>. QED
                BY <4>1, <4>2, <4>3, Zenon
        <3>6. \A s \in Names : d.linkage[s] = f.linkage[s]
            <4>1. Declare(f, {}) = [f EXCEPT !.linkage = [s \in Names |-> f.linkage[s]]]
                BY DEF Declare
            <4>2. f \in Files
                BY <1>3
            <4>3. \A s \in Names : Declare(f, {}).linkage[s] = f.linkage[s]
                BY <4>1, <4>2 DEF Files
            <4>. QED
                BY <3>3, <4>3
        <3>7. \A s \in Names : ApplyRules(f, R, done).linkage[s] = f.linkage[s]
            BY <3>3, <3>4, <3>6
        <3>8. FunctionsOf(ApplyRules(f, R, done)) \subseteq FunctionsOf(f)
            BY <3>7 DEF FunctionsOf, Names
        <3>9. file'[m] = ApplyRules(f, R, done)
            BY <1>2, <1>3
        <3>. QED
            BY <1>1, <2>3, <3>1, <3>5, <3>8, <3>9, RewrittenKept
    <2>. QED
        BY <2>2, <2>3
<1>5. VerdictTrue'
    BY <1>1, <1>4 DEF VerdictTrue, AfterRewrite
<1>6. LoopStarts'
    BY <1>1, <1>2 DEF LoopStarts, Verdict
<1>. QED
    BY <1>1, <1>5, <1>6 DEF Verdict, LoopEnded, NoRules

\* Before inter_rewrite nothing is claimed.
LEMMA VerdictSpecialize ==
    ASSUME TypeOK, Verdict, NEW m \in Modules, Intra(m) \/ Specialize(m), UNCHANGED <<options, original>>
    PROVE  Verdict'
<1>1. /\ Modules' = Modules /\ stage' = stage /\ round' = round /\ progress' = progress
      /\ InterSpec' = InterSpec
      /\ (stage = "intra" /\ rewrites' = rewrites) \/ stage = "specialize"
    BY DEF Intra, Specialize, Task, IntraStep, DropUse, InlineCall, SpecializeLocal,
           IntroduceCall, IntraDone, IntraFrame, Modules, InterSpec
<1>2. VerdictTrue' /\ LoopEnded'
    BY <1>1 DEF VerdictTrue, AfterRewrite, LoopEnded
<1>. QED
    BY <1>1, <1>2 DEF Verdict, LoopStarts, NoRules

\* The control flow: a step ends when all its tasks ended, and the loop goes on
\* unless the verdict of the round is that nothing was found.
LEMMA VerdictControl ==
    ASSUME TypeOK, Verdict, Deep \/ LoopHead \/ AdvanceStep, UNCHANGED <<options, original>>
    PROVE  Verdict'
<1>1. /\ Modules' = Modules /\ MaxRounds' = MaxRounds /\ InterSpec' = InterSpec
      /\ rewrites' = rewrites /\ file' = file
    BY DEF Deep, LoopHead, AdvanceStep, Advance, Modules, MaxRounds, InterSpec
<1>2. \A m \in Modules : Rewritten(m) => Rewritten(m)'
    BY <1>1 DEF Rewritten, RulesOfOthers
<1>3. ~InterSpec => \A m \in Modules : Rewritten(m)
    BY DEF Verdict, NoRules, Rewritten, RulesOfOthers
<1>4. round \in Nat /\ MaxRounds \in Nat /\ pending \subseteq Modules /\ progress \in BOOLEAN
    <2>1. MaxRounds \in Nat
        BY InputType
    <2>. QED
        BY <2>1 DEF TypeOK
<1>5. CASE Deep
    <2>1. round' = round /\ progress' = progress /\ pending' = Modules
        BY <1>5 DEF Deep, StartStep
    <2>2. \/ stage = "deepAfter" /\ stage' = "seal"
          \/ stage = "deepBefore" /\ InterSpec /\ stage' = "specialize"
          \/ stage = "deepBefore" /\ ~InterSpec /\ stage' = "references"
        BY <1>5 DEF Deep, StartStep
    <2>3. VerdictTrue'
        BY <1>1, <1>2, <1>3, <2>1, <2>2 DEF Verdict, VerdictTrue, AfterRewrite
    <2>. QED
        BY <1>1, <2>1, <2>2, <2>3 DEF Verdict, LoopEnded, LoopStarts, NoRules
<1>6. CASE LoopHead
    <2>1. stage \in {"seal", "internalize"} /\ (stage = "internalize" => round = 0)
        BY <1>6 DEF LoopHead, StepDone
    <2>2. CASE progress /\ round < MaxRounds
        <3>1. stage' = "intra" /\ round' = round + 1 /\ progress' = FALSE
            BY <1>6, <2>2 DEF LoopHead, StartStep
        <3>2. VerdictTrue' /\ LoopEnded'
            BY <3>1 DEF VerdictTrue, AfterRewrite, LoopEnded
        <3>3. LoopStarts'
            BY <1>4, <3>1 DEF LoopStarts
        <3>. QED
            BY <1>1, <3>1, <3>2, <3>3 DEF Verdict, NoRules
    <2>3. CASE ~(progress /\ round < MaxRounds)
        <3>1. stage' = "strip" /\ round' = round /\ progress' = progress
            BY <1>6, <2>3 DEF LoopHead, StartStep
        <3>2. ASSUME NEW m \in Modules, round < MaxRounds, ~progress
              PROVE  Rewritten(m)
            <4>1. round # 0
                BY <3>2 DEF Verdict, LoopStarts
            <4>2. stage = "seal" /\ round > 0
                BY <1>4, <2>1, <4>1
            <4>. QED
                BY <3>2, <4>2 DEF Verdict, VerdictTrue, AfterRewrite
        <3>3. VerdictTrue'
            BY <1>1, <1>2, <3>1, <3>2 DEF VerdictTrue, AfterRewrite
        <3>. QED
            BY <1>1, <2>3, <3>1, <3>3 DEF Verdict, LoopEnded, LoopStarts, NoRules
    <2>. QED
        BY <2>2, <2>3
<1>7. CASE AdvanceStep
    <2>1. round' = round /\ progress' = progress /\ pending = {} /\ pending' = Modules
        BY <1>7 DEF AdvanceStep, Advance, StepDone, StartStep
    <2>2. \/ stage = "references" /\ stage' = "internalize"
          \/ stage = "internalize" /\ stage' = "deepAfter" /\ round > 0
          \/ stage = "intra" /\ stage' = "deepBefore"
          \/ stage = "specialize" /\ stage' = "rewrite"
          \/ stage = "rewrite" /\ stage' = "references"
          \/ stage = "strip" /\ stage' = "linked"
        BY <1>7 DEF AdvanceStep, Advance, StepDone, StartStep
    <2>3. ASSUME NEW m \in Modules, AfterRewrite(m)', ~progress'
          PROVE  Rewritten(m)'
        <3>1. AfterRewrite(m)
            BY <1>1, <2>1, <2>2, <2>3 DEF AfterRewrite
        <3>. QED
            BY <1>2, <2>1, <2>3, <3>1 DEF Verdict, VerdictTrue
    <2>4. VerdictTrue'
        BY <1>1, <2>3 DEF VerdictTrue
    <2>. QED
        BY <1>1, <2>1, <2>2, <2>4 DEF Verdict, LoopEnded, LoopStarts, NoRules
<1>. QED
    BY <1>5, <1>6, <1>7

LEMMA VerdictInit ==
    ASSUME Init
    PROVE  Verdict
<1>1. stage = "references" /\ round = 0 /\ progress = TRUE /\ \A m \in Modules : rewrites[m] = {}
    BY DEF Init
<1>. QED
    BY <1>1 DEF Verdict, VerdictTrue, AfterRewrite, LoopEnded, LoopStarts, NoRules

\* Whatever the program and the policies: unless max_fixpoint_iterations cuts the
\* loop off, slash ends with no call left that a rule of its last round is for. The
\* verdict of a round is about all modules, and what the steps after inter_rewrite do
\* cannot bring a call back.
THEOREM NothingLeftToRewrite == Spec => []RewritesFinished
<1>1. Init => TypeOK /\ Verdict
    BY TypeInit, VerdictInit
<1>2. TypeOK /\ Verdict /\ [Next]_vars => TypeOK' /\ Verdict'
    <2> SUFFICES ASSUME TypeOK, Verdict, [Next]_vars PROVE TypeOK' /\ Verdict'
        OBVIOUS
    <2>1. TypeOK' /\ UNCHANGED <<options, original>>
        BY TypeNext, InputKept
    <2>2. CASE UNCHANGED vars
        <3>1. \A m \in Modules : (AfterRewrite(m)' <=> AfterRewrite(m)) /\ (Rewritten(m)' <=> Rewritten(m))
            BY <2>2 DEF vars, AfterRewrite, Rewritten, RulesOfOthers, Modules, MaxRounds
        <3>2. VerdictTrue'
            BY <2>2, <3>1 DEF vars, Verdict, VerdictTrue, Modules
        <3>3. LoopEnded' /\ LoopStarts' /\ NoRules'
            BY <2>2 DEF vars, Verdict, LoopEnded, LoopStarts, NoRules, Modules, MaxRounds, InterSpec
        <3>. QED
            BY <2>1, <3>2, <3>3 DEF Verdict
    <2>3. CASE Next
        BY <2>1, <2>3, VerdictNarrow, VerdictRewrite, VerdictSpecialize, VerdictControl DEF Next, TaskStep
    <2>. QED
        BY <2>1, <2>2, <2>3
<1>3. Verdict => RewritesFinished
    BY DEF Verdict, VerdictTrue, LoopEnded, AfterRewrite, Rewritten, RewritesFinished
<1>. QED
    BY <1>1, <1>2, <1>3, PTL DEF Spec
=============================================================================
