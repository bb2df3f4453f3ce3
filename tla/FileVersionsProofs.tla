-------------------------- MODULE FileVersionsProofs --------------------------
(* That peval hands out bitcode, with the effect of every tool that ended well, *)
(* and that the version slash ends with is whole: for every number of runs, of  *)
(* iterations and of specializations, and every choice of passes and options.   *)
EXTENDS FileVersions, TLAPS

-----------------------------------------------------------------------------
(* Peval.                                                                   *)

Excused == killed \cap {"devirt", "bounce"} # {}

\* What an inliner that died before it opened its output may have lost, and
\* whether slash goes on with a module of an earlier run.
Lost == IF "bounce" \in left THEN {"devirt"} ELSE {}
Tainted == left \cap SlashTools # {}

\* A file is of this run and holds what the tools made so far, but for what was
\* lost, if it is bitcode at all.
HasStages(c) == c.run = "this" /\ applied \ c.stages \subseteq Lost
HasSpecs(c) == "inlineSpec" \in left \/ c.specs = claimed
Good(c) == Tainted \/ ~Readable(c) \/ (HasStages(c) /\ HasSpecs(c))

\* What done is before the two inliners, if they leave it as it is.
GoodButDevirt(c) ==
    \/ Tainted
    \/ c.run = "this" /\ applied \ c.stages \subseteq {"devirt"} /\ HasSpecs(c)
GoodButSpecs(c) == Tainted \/ ~Readable(c) \/ HasStages(c)
Live(c) == Readable(c) \/ Excused

FilesOK == file \in [Names -> Content]

\* What the files hold before each step.
AtOptimize == pc = "optimize" => Good(file["input"]) /\ ~Readable(file["tmp"])
AtDevirt == pc = "devirt" => /\ Readable(file["done"]) /\ Good(file["done"])
                             /\ ~Readable(file["tmp"])
AtBounce ==
    pc = "bounce" => /\ Readable(file["done"])
                     /\ GoodButDevirt(file["done"])
                     /\ Good(file["tmp"])
                     /\ ~Readable(file["tmp"]) => Good(file["done"]) /\ "devirt" \in killed
AtDone ==
    pc \in {"ipdse", "clam", "policy", "finish"} =>
        Good(file["done"]) /\ (file["done"].kind = "absent" \/ Live(file["done"]))
AtReoptimize ==
    pc = "reoptimize" =>
        /\ Good(file["done"])
        /\ first => file["done"].kind = "absent" \/ Live(file["done"])
AtSpecialize == pc = "specialize" => Good(file["opt"]) /\ Live(file["opt"])
                                     /\ Good(file["done"])
AtInline ==
    pc = "inline" =>
        /\ ~progress => Good(file["opt"]) /\ Live(file["opt"])
        /\ progress => /\ Good(file["tmp"]) /\ GoodButSpecs(file["done"])
                       /\ ~Readable(file["tmp"]) => Good(file["done"])
AtDecide ==
    pc = "decide" =>
        /\ ~progress => Good(file["opt"]) /\ Live(file["opt"])
        /\ progress => Good(file["done"])
AtReturned == pc = "returned" => Good(file["output"]) /\ Live(file["output"])

IInv ==
    /\ FilesOK
    /\ applied \subseteq Stages /\ claimed \in Nat
    /\ progress \in BOOLEAN /\ first \in BOOLEAN
    /\ AtOptimize /\ AtDevirt /\ AtBounce /\ AtDone /\ AtReoptimize
    /\ AtSpecialize /\ AtInline /\ AtDecide /\ AtReturned

-----------------------------------------------------------------------------
USE DEF Readable, Good, GoodButDevirt, GoodButSpecs, Live, Excused, HasStages, HasSpecs,
        Tainted, Lost

LEMMA ConstantContents == Absent \in Content /\ Empty \in Content /\ Source \in Content
BY MaxSpecsAssumption DEF Absent, Empty, Source, Content

\* A tool adds its stage, and changes nothing else.
LEMMA WithStage ==
    ASSUME NEW c \in Content, NEW s \in Stages
    PROVE  /\ With(c, s) \in Content
           /\ With(c, s).kind = c.kind /\ With(c, s).run = c.run
           /\ With(c, s).specs = c.specs
           /\ With(c, s).stages = c.stages \cup {s}
BY DEF With, Content

\* A failing tool leaves no bitcode, or what was there before.
LEMMA BrokenContents ==
    ASSUME NEW from \in Content, NEW to \in Content, NEW c \in Broken(from, to)
    PROVE  /\ c \in Content
           /\ c = to \/ (Readable(from) /\ c \in {Absent, Empty} /\ ~Readable(c))
BY ConstantContents DEF Broken, Absent, Empty

\* The temporary files exist, and are empty, before the first tool runs.
LEMMA InitIInv == PevalInit("optimize") => IInv
<1> SUFFICES ASSUME PevalInit("optimize") PROVE IInv
    OBVIOUS
<1>1. FilesOK
    BY ConstantContents DEF PevalInit, FilesOK, Files, Names
<1>2. AtOptimize
    BY DEF AtOptimize, PevalInit, Files, Names, Source, Empty
<1>. QED
    BY <1>1, <1>2 DEF PevalInit, IInv, AtDevirt, AtBounce, AtDone, AtReoptimize, AtSpecialize,
                      AtInline, AtDecide, AtReturned

\* The parts of the invariant are about one step each.
LEMMA Elsewhere ==
    /\ pc' # "optimize" => AtOptimize'
    /\ pc' # "devirt" => AtDevirt'
    /\ pc' # "bounce" => AtBounce'
    /\ pc' \notin {"ipdse", "clam", "policy", "finish"} => AtDone'
    /\ pc' # "reoptimize" => AtReoptimize'
    /\ pc' # "specialize" => AtSpecialize'
    /\ pc' # "inline" => AtInline'
    /\ pc' # "decide" => AtDecide'
    /\ pc' # "returned" => AtReturned'
BY DEF AtOptimize, AtDevirt, AtBounce, AtDone, AtReoptimize, AtSpecialize, AtInline,
       AtDecide, AtReturned

LEMMA OptimizeStep == IInv /\ Optimize => IInv'
<1> SUFFICES ASSUME IInv, Optimize PROVE IInv'
    OBVIOUS
<1>0. /\ Good(file["input"]) /\ ~Readable(file["tmp"]) /\ file \in [Names -> Content]
      /\ "input" \in Names /\ "done" \in Names /\ "tmp" \in Names
    BY DEF Optimize, IInv, AtOptimize, FilesOK, Names
<1>1. CASE Readable(file["input"]) /\ file' = [file EXCEPT !["done"] = file["input"]] /\ pc' = "devirt"
                 /\ UNCHANGED <<opts, first, progress, applied, claimed, killed, left>>
    <2>1. AtDevirt'
        BY <1>0, <1>1 DEF AtDevirt
    <2>. QED
        BY <1>0, <1>1, <2>1, Elsewhere DEF IInv, FilesOK
<1>2. CASE ToolRaises("input", "done")
    <2>1. FilesOK'
        BY <1>0, <1>2, BrokenContents DEF ToolRaises, FilesOK
    <2>. QED
        BY <1>2, <2>1, Elsewhere DEF ToolRaises, IInv
<1>. QED
    BY <1>1, <1>2 DEF Optimize, OptimizeTo

\* What an action finds: the type of the files, and the names.
LEMMA FileNames ==
    /\ {"input", "output", "done", "opt", "tmp"} = Names
    /\ IInv => /\ file \in [Names -> Content]
               /\ \A n \in Names : file[n] \in Content
BY DEF Names, IInv, FilesOK

LEMMA SkipStep ==
    ASSUME IInv, NEW next \in {"ipdse", "clam", "policy", "reoptimize", "finish"}, Skip(next),
           pc \in {"devirt", "ipdse", "clam", "policy"}
    PROVE  IInv'
<1>1. Good(file["done"]) /\ (file["done"].kind = "absent" \/ Live(file["done"]))
    BY DEF IInv, AtDevirt, AtDone
<1>2. AtDone' /\ AtReoptimize'
    BY <1>1 DEF Skip, AtDone, AtReoptimize
<1>. QED
    BY <1>2, Elsewhere DEF Skip, IInv, FilesOK

LEMMA RaisesStep ==
    ASSUME IInv, NEW from \in Names, NEW to \in Names, ToolRaises(from, to)
    PROVE  IInv'
<1>1. FilesOK'
    BY FileNames, BrokenContents DEF ToolRaises, FilesOK
<1>. QED
    BY <1>1, Elsewhere DEF ToolRaises, IInv

LEMMA DevirtStep == IInv /\ Devirt => IInv'
<1> SUFFICES ASSUME IInv, Devirt PROVE IInv'
    OBVIOUS
<1>0. /\ file["done"] \in Content /\ file["tmp"] \in Content /\ file \in [Names -> Content]
      /\ "tmp" \in Names /\ "done" \in Names /\ "output" \in Names
      /\ Readable(file["done"]) /\ Good(file["done"]) /\ ~Readable(file["tmp"])
    BY FileNames DEF Devirt, IInv, AtDevirt
<1>1. CASE "devirt" \notin opts
    BY <1>1, SkipStep DEF Devirt
<1>2. ASSUME "devirt" \in opts, file' = [file EXCEPT !["tmp"] = With(file["done"], "devirt")],
             applied' = applied \cup {"devirt"}, pc' = "bounce",
             UNCHANGED <<claimed, progress, first, left>>
      PROVE  IInv'
    <2>1. FilesOK'
        BY <1>0, <1>2, WithStage DEF FilesOK, Stages
    <2>2. AtBounce'
        BY <1>0, <1>2, WithStage DEF AtBounce, Stages
    <2>. QED
        BY <1>2, <2>1, <2>2, Elsewhere DEF IInv, Stages
<1>3. ASSUME NEW c \in Broken(file["done"], file["tmp"]), c.kind = "absent",
             file' = [file EXCEPT !["tmp"] = c, !["output"] = file["done"]],
             pc' = "returned", UNCHANGED <<applied, killed, left, claimed, progress, first>>
      PROVE  IInv'
    <2>1. FilesOK'
        BY <1>0, <1>3, BrokenContents DEF FilesOK
    <2>2. AtReturned'
        BY <1>0, <1>3 DEF AtReturned
    <2>. QED
        BY <1>3, <2>1, <2>2, Elsewhere DEF IInv
<1>4. ASSUME NEW c \in Broken(file["done"], file["tmp"]),
             file' = [file EXCEPT !["tmp"] = c], killed' = killed \cup {"devirt"},
             pc' = "bounce", UNCHANGED <<applied, left, claimed, progress, first>>
      PROVE  IInv'
    <2>1. FilesOK'
        BY <1>0, <1>4, BrokenContents DEF FilesOK
    <2>2. AtBounce'
        BY <1>0, <1>4, BrokenContents DEF AtBounce
    <2>. QED
        BY <1>4, <2>1, <2>2, Elsewhere DEF IInv
<1>. QED
    BY <1>1, <1>2, <1>3, <1>4 DEF Devirt, LooksDevirtualized

\* A copy that is not an exception, as the actions use it.
LEMMA CopyStep ==
    ASSUME IInv, NEW from \in Names, NEW to \in Names, NEW next, Copy(from, to, next)
    PROVE  /\ pc' = "raised" => IInv'
           /\ pc' # "raised" => /\ pc' = next
                               /\ file[from].kind # "absent"
                               /\ file' = [file EXCEPT ![to] = file[from]]
                               /\ FilesOK'
           /\ UNCHANGED <<opts, first, progress, applied, claimed, killed, left>>
<1>1. FilesOK'
    BY FileNames DEF Copy, FilesOK
<1>2. pc' = "raised" => IInv'
    BY <1>1, Elsewhere DEF Copy, IInv
<1>. QED
    BY <1>1, <1>2 DEF Copy

\* The inliner, the same way.
LEMMA InlineStep ==
    ASSUME IInv, NEW on, NEW tool, NEW next, next # "raised", ForceInline(on, tool, next)
    PROVE  /\ pc' = "raised" => IInv'
           /\ pc' # "raised" =>
                 /\ pc' = next
                 /\ FilesOK'
                 /\ \A n \in Names \ {"done"} : file'[n] = file[n]
                 /\ \/ file'["done"] = file["tmp"] /\ file["tmp"].kind # "absent"
                       /\ UNCHANGED <<killed, left>>
                    \/ /\ file'["done"] \in {Absent, Empty, file["done"]}
                       /\ ~Readable(file["tmp"]) => file'["done"] = file["done"]
                       /\ killed' = IF file'["done"].kind = "empty"
                                    THEN killed \cup {tool} ELSE killed
                       /\ left' = IF Older(file'["done"], file["tmp"])
                                  THEN left \cup {tool} ELSE left
           /\ UNCHANGED <<opts, first, progress, applied, claimed>>
<1>0. /\ file["done"] \in Content /\ file["tmp"] \in Content /\ file \in [Names -> Content]
      /\ "tmp" \in Names /\ "done" \in Names
    BY FileNames
<1>1. CASE ~on
    BY <1>0, <1>1, CopyStep DEF ForceInline
<1>2. CASE on
    <2>1. /\ pc' = next
          /\ UNCHANGED <<opts, first, progress, applied, claimed>>
        BY <1>2 DEF ForceInline
    <2>2. CASE /\ Readable(file["tmp"])
               /\ file' = [file EXCEPT !["done"] = file["tmp"]]
               /\ UNCHANGED <<killed, left>>
        BY <1>0, <2>1, <2>2 DEF FilesOK
    <2>3. ASSUME NEW c \in Broken(file["tmp"], file["done"]),
                 file' = [file EXCEPT !["done"] = c],
                 killed' = IF c.kind = "empty" THEN killed \cup {tool} ELSE killed,
                 left' = IF Older(c, file["tmp"]) THEN left \cup {tool} ELSE left
          PROVE  /\ FilesOK'
                 /\ \A n \in Names \ {"done"} : file'[n] = file[n]
                 /\ file'["done"] = c
                 /\ c \in {Absent, Empty, file["done"]}
                 /\ ~Readable(file["tmp"]) => c = file["done"]
        BY <1>0, <2>3, BrokenContents DEF FilesOK
    <2>. QED
        BY <1>2, <2>1, <2>2, <2>3 DEF ForceInline
<1>. QED
    BY <1>1, <1>2

\* What is good stays so when another tool has left something.
LEMMA StaysGood ==
    ASSUME NEW c, Good(c), UNCHANGED <<applied, claimed>>, left \subseteq left'
    PROVE  Good(c)'
OBVIOUS

LEMMA BounceStep == IInv /\ InlineBounce => IInv'
<1> SUFFICES ASSUME IInv, InlineBounce, pc' # "raised" PROVE IInv'
    BY InlineStep DEF InlineBounce
<1>1. /\ Readable(file["done"]) /\ Good(file["tmp"]) /\ GoodButDevirt(file["done"])
      /\ ~Readable(file["tmp"]) => Good(file["done"]) /\ "devirt" \in killed
    BY DEF InlineBounce, IInv, AtBounce
<1>2. Good(file["done"])' /\ (file'["done"].kind = "absent" \/ Live(file["done"])')
    BY <1>1, InlineStep, FileNames
       DEF InlineBounce, GoodButDevirt, Older, Absent, Empty
<1>3. AtDone'
    BY <1>2 DEF AtDone
<1>. QED
    BY <1>3, InlineStep, Elsewhere DEF InlineBounce, IInv

LEMMA IpdseStep == IInv /\ Ipdse => IInv'
<1> SUFFICES ASSUME IInv, Ipdse PROVE IInv'
    OBVIOUS
<1>0. /\ file["done"] \in Content /\ file \in [Names -> Content]
      /\ "tmp" \in Names /\ "done" \in Names
      /\ Good(file["done"])
    BY FileNames DEF Ipdse, IInv, AtDone
<1>1. CASE "ipdse" \notin opts
    BY <1>1, SkipStep DEF Ipdse
<1>2. CASE ToolRaises("done", "tmp")
    BY <1>0, <1>2, RaisesStep
<1>3. CASE /\ Readable(file["done"])
           /\ LET c == With(file["done"], "ipdse")
              IN  file' = [file EXCEPT !["tmp"] = c, !["done"] = c]
           /\ applied' = applied \cup {"ipdse"}
           /\ pc' = "clam"
           /\ UNCHANGED <<opts, first, progress, claimed, killed, left>>
    <2>1. FilesOK'
        BY <1>0, <1>3, WithStage DEF FilesOK, Stages
    <2>2. AtDone'
        BY <1>0, <1>3, WithStage DEF AtDone, Stages
    <2>. QED
        BY <1>3, <2>1, <2>2, Elsewhere DEF IInv, Stages
<1>. QED
    BY <1>1, <1>2, <1>3 DEF Ipdse

LEMMA ClamStep == IInv /\ Clam => IInv'
<1> SUFFICES ASSUME IInv, Clam PROVE IInv'
    OBVIOUS
<1>0. /\ file["done"] \in Content /\ file["tmp"] \in Content /\ file \in [Names -> Content]
      /\ "tmp" \in Names /\ "done" \in Names /\ "output" \in Names
      /\ Good(file["done"]) /\ (file["done"].kind = "absent" \/ Live(file["done"]))
    BY FileNames DEF Clam, IInv, AtDone
<1>1. CASE "clam" \notin opts
    BY <1>1, SkipStep DEF Clam
<1>2. CASE /\ "clam" \in opts
           /\ UNCHANGED <<opts, first, progress, claimed, killed, left>>
           /\ Readable(file["done"])
           /\ LET c == With(file["done"], "clam")
              IN  file' = [file EXCEPT !["tmp"] = c, !["done"] = c]
           /\ applied' = applied \cup {"clam"}
           /\ pc' = "policy"
    <2>1. FilesOK'
        BY <1>0, <1>2, WithStage DEF FilesOK, Stages
    <2>2. AtDone'
        BY <1>0, <1>2, WithStage DEF AtDone, Stages
    <2>. QED
        BY <1>2, <2>1, <2>2, Elsewhere DEF IInv, Stages
<1>3. ASSUME NEW c \in Broken(file["done"], file["tmp"]),
             file' = [file EXCEPT !["tmp"] = c,
                         !["output"] = IF file["done"].kind = "absent" THEN @ ELSE file["done"]],
             pc' = IF file["done"].kind = "absent" THEN "raised" ELSE "returned",
             UNCHANGED <<opts, first, progress, applied, claimed, killed, left>>
      PROVE  IInv'
    <2>1. FilesOK'
        BY <1>0, <1>3, BrokenContents DEF FilesOK
    <2>2. AtReturned'
        BY <1>0, <1>3 DEF AtReturned
    <2>. QED
        BY <1>3, <2>1, <2>2, Elsewhere DEF IInv
<1>. QED
    BY <1>1, <1>2, <1>3 DEF Clam

LEMMA PolicyStep == IInv /\ Policy => IInv'
BY SkipStep DEF Policy

LEMMA ReoptimizeStep == IInv /\ Reoptimize => IInv'
<1> SUFFICES ASSUME IInv, Reoptimize PROVE IInv'
    OBVIOUS
<1>0. /\ file["done"] \in Content /\ file \in [Names -> Content]
      /\ "opt" \in Names /\ "done" \in Names
      /\ Good(file["done"])
      /\ first => file["done"].kind = "absent" \/ Live(file["done"])
    BY FileNames DEF Reoptimize, IInv, AtReoptimize
<1>1. CASE ToolRaises("done", "opt")
    BY <1>0, <1>1, RaisesStep
<1>2. CASE /\ Readable(file["done"])
           /\ file' = [file EXCEPT !["opt"] = file["done"]]
           /\ pc' = "specialize"
           /\ UNCHANGED <<opts, first, progress, applied, claimed, killed, left>>
    <2>1. FilesOK' /\ AtSpecialize'
        BY <1>0, <1>2 DEF FilesOK, AtSpecialize
    <2>. QED
        BY <1>2, <2>1, Elsewhere DEF IInv
<1>3. CASE first /\ Copy("done", "opt", "specialize")
    <2>0. Copy("done", "opt", "specialize")
        BY <1>3
    <2>1. pc' # "raised" => AtSpecialize'
        <3> SUFFICES ASSUME pc' # "raised" PROVE AtSpecialize'
            OBVIOUS
        <3>1. /\ file["done"].kind # "absent"
              /\ file' = [file EXCEPT !["opt"] = file["done"]]
              /\ UNCHANGED <<applied, claimed, killed, left>>
            BY <1>0, <2>0, CopyStep
        <3>2. file'["opt"] = file["done"] /\ file'["done"] = file["done"]
            BY <1>0, <3>1
        <3>. QED
            BY <1>0, <1>3, <3>1, <3>2 DEF AtSpecialize
    <2>. QED
        BY <1>0, <2>0, <2>1, CopyStep, Elsewhere DEF IInv
<1>. QED
    BY <1>1, <1>2, <1>3 DEF Reoptimize, OptimizeTo

\* After the specializer tmp has what was claimed, or done still has.
LEMMA SpecializeStep == IInv /\ Specialize => IInv'
<1> SUFFICES ASSUME IInv, Specialize PROVE IInv'
    OBVIOUS
<1>0. /\ file["opt"] \in Content /\ file["tmp"] \in Content /\ file \in [Names -> Content]
      /\ "opt" \in Names /\ "done" \in Names /\ "tmp" \in Names
      /\ Good(file["done"]) /\ Good(file["opt"]) /\ Live(file["opt"])
      /\ pc' = "inline" /\ progress' \in BOOLEAN
      /\ progress' => Readable(file["opt"]) /\ file["opt"].specs < MaxSpecs
      /\ UNCHANGED <<opts, first, applied, killed, left>>
      /\ claimed \in Nat
    BY FileNames DEF Specialize, IInv, AtSpecialize
<1>1. ASSUME NEW new \in {0, 1}, new = (IF progress' THEN 1 ELSE 0), Readable(file["opt"]),
             file' = [file EXCEPT !["tmp"] = [file["opt"] EXCEPT !.specs = @ + new]],
             Claim(new)
      PROVE  IInv'
    <2> DEFINE c == [file["opt"] EXCEPT !.specs = @ + new]
    <2>1. c \in Content /\ c.specs = file["opt"].specs + new /\ c.stages = file["opt"].stages
              /\ c.run = file["opt"].run
        BY <1>0, <1>1, MaxSpecsAssumption DEF Content
    <2>2. FilesOK'
        BY <1>0, <1>1, <2>1 DEF FilesOK
    <2>3. file'["tmp"] = c /\ file'["opt"] = file["opt"] /\ c.kind = "bitcode"
        BY <1>0, <1>1 DEF Content
    <2>4. file'["done"] = file["done"] /\ claimed' \in Nat
        BY <1>0, <1>1 DEF Claim
    <2>5. Good(file["done"]) => GoodButSpecs(file["done"])'
        BY <1>0, <2>4
    <2>6. Good(file["tmp"])'
        BY <1>0, <1>1, <2>1, <2>3 DEF Claim
    <2>7. ~progress' => Good(file["opt"])' /\ Live(file["opt"])'
        BY <1>0, <1>1 DEF Claim
    <2>8. AtInline'
        BY <1>0, <2>1, <2>3, <2>4, <2>5, <2>6, <2>7 DEF AtInline
    <2>. QED
        BY <1>0, <1>1, <2>2, <2>4, <2>8, Elsewhere DEF IInv
<1>2. ASSUME NEW c \in Broken(file["opt"], file["tmp"]), file' = [file EXCEPT !["tmp"] = c],
             progress' => c \in {Absent, Empty}, UNCHANGED claimed
      PROVE  IInv'
    <2>1. FilesOK'
        BY <1>0, <1>2, BrokenContents DEF FilesOK
    <2>2. AtInline'
        BY <1>0, <1>2 DEF AtInline, GoodButSpecs, Absent, Empty
    <2>. QED
        BY <1>0, <1>2, <2>1, <2>2, Elsewhere DEF IInv
<1>. QED
    BY <1>1, <1>2 DEF Specialize

LEMMA InlineSpecializedStep == IInv /\ InlineSpecialized => IInv'
<1> SUFFICES ASSUME IInv, InlineSpecialized, pc' # "raised" PROVE IInv'
    BY InlineStep DEF InlineSpecialized
<1>1. /\ ~progress => Good(file["opt"]) /\ Live(file["opt"])
      /\ progress => /\ Good(file["tmp"]) /\ GoodButSpecs(file["done"])
                     /\ ~Readable(file["tmp"]) => Good(file["done"])
    BY DEF InlineSpecialized, IInv, AtInline
<1>2. AtDecide'
    <2>1. ASSUME progress PROVE Good(file["done"])'
        <3>1. UNCHANGED <<applied, claimed>> /\ "done" \in Names /\ "tmp" \in Names
            BY InlineStep, FileNames DEF InlineSpecialized
        <3>2. CASE file'["done"] = file["tmp"] /\ UNCHANGED left
            BY <1>1, <2>1, <3>1, <3>2
        <3>3. CASE file'["done"] \in {Absent, Empty}
            BY <3>3 DEF Absent, Empty
        <3>4. CASE /\ file'["done"] = file["done"]
                   /\ left' = IF Older(file["done"], file["tmp"])
                              THEN left \cup {"inlineSpec"} ELSE left
            <4>1. CASE Older(file["done"], file["tmp"])
                BY <1>1, <2>1, <3>1, <3>4, <4>1
            <4>2. CASE ~Older(file["done"], file["tmp"])
                BY <1>1, <2>1, <3>1, <3>4, <4>2 DEF Older
            <4>. QED
                BY <4>1, <4>2
        <3>. QED
            BY <3>2, <3>3, <3>4, InlineStep DEF InlineSpecialized
    <2>2. ASSUME ~progress PROVE Good(file["opt"])' /\ Live(file["opt"])'
        <3>1. Good(file["opt"]) /\ Live(file["opt"]) /\ file'["opt"] = file["opt"]
              /\ UNCHANGED <<applied, claimed>> /\ left \subseteq left' /\ killed \subseteq killed'
            BY <1>1, <2>2, InlineStep, FileNames DEF InlineSpecialized
        <3>. QED
            BY <3>1, StaysGood
    <2>3. progress' = progress
        BY InlineStep DEF InlineSpecialized
    <2>. QED
        BY <2>1, <2>2, <2>3 DEF AtDecide
<1>. QED
    BY <1>2, InlineStep, Elsewhere DEF InlineSpecialized, IInv

LEMMA DecideStep == IInv /\ Decide => IInv'
<1> SUFFICES ASSUME IInv, Decide PROVE IInv'
    OBVIOUS
<1>0. /\ "opt" \in Names /\ "done" \in Names /\ file \in [Names -> Content]
      /\ ~progress => Good(file["opt"]) /\ Live(file["opt"])
      /\ progress => Good(file["done"])
    BY FileNames DEF Decide, IInv, AtDecide
<1>1. CASE progress
    <2>1. AtReoptimize' /\ pc' = "reoptimize"
        BY <1>0, <1>1 DEF Decide, AtReoptimize
    <2>. QED
        BY <1>1, <2>1, Elsewhere DEF Decide, IInv, FilesOK
<1>2. CASE ~progress
    <2>1. Copy("opt", "done", "finish")
        BY <1>2 DEF Decide
    <2>2. pc' # "raised" => AtDone'
        BY <1>0, <1>2, <2>1, CopyStep DEF AtDone
    <2>. QED
        BY <1>0, <2>1, <2>2, CopyStep, Elsewhere DEF IInv
<1>. QED
    BY <1>1, <1>2

LEMMA FinishStep == IInv /\ Finish => IInv'
<1> SUFFICES ASSUME IInv, Finish PROVE IInv'
    OBVIOUS
<1>0. /\ file \in [Names -> Content] /\ Good(file["done"])
      /\ file["done"].kind = "absent" \/ Live(file["done"])
    BY DEF Finish, IInv, FilesOK, AtDone
<1>1. FilesOK'
    BY <1>0, ConstantContents, FileNames DEF Finish, FilesOK
<1>2. AtReturned'
    BY <1>0, FileNames DEF Finish, AtReturned
<1>. QED
    BY <1>1, <1>2, Elsewhere DEF Finish, IInv

-----------------------------------------------------------------------------
\* The invariant is inductive.
LEMMA NextIInv == IInv /\ [PevalNext]_pevalVars => IInv'
<1> SUFFICES ASSUME IInv, [PevalNext]_pevalVars PROVE IInv'
    OBVIOUS
<1>1. CASE PevalNext
    BY <1>1, OptimizeStep, DevirtStep, BounceStep, IpdseStep, ClamStep, PolicyStep,
       ReoptimizeStep, SpecializeStep, InlineSpecializedStep, DecideStep, FinishStep
       DEF PevalNext
<1>2. CASE UNCHANGED pevalVars
    BY <1>2 DEF pevalVars, IInv, FilesOK, AtOptimize, AtDevirt, AtBounce, AtDone, AtReoptimize,
               AtSpecialize, AtInline, AtDecide, AtReturned
<1>. QED
    BY <1>1, <1>2

\* passes.peval, alone: it hands out bitcode when it returns, unless the
\* devirtualizer or the bounce inliner was killed.
THEOREM PevalBitcode == PevalSpec => []PevalHandsOutBitcode
<1>1. IInv => PevalHandsOutBitcode
    BY DEF IInv, AtReturned, PevalHandsOutBitcode
<1>. QED
    BY InitIInv, NextIInv, <1>1, PTL DEF PevalSpec

\* passes.peval, alone: no effect of a tool that ended well is lost, but to an
\* inliner that died before it opened its output.
THEOREM PevalKeepsEffects == PevalSpec => []EffectsKept
<1>1. IInv => EffectsKept
    BY DEF IInv, AtReturned, EffectsKept
<1>. QED
    BY InitIInv, NextIInv, <1>1, PTL DEF PevalSpec

-----------------------------------------------------------------------------
(* Slash: what holds of the module's file before each stage.                *)

\* Between two stages, and no task of peval at work.
Idle(s) == outcome = "running" /\ pc = "idle" /\ stage \in s

Fresh(c) == Readable(c) /\ Good(c)

\* The stage before would have raised on a module it could not read; and the
\* stages whose input a tool may have failed to write, unnoticed.
ReadStages == {"arguments", "prime", "references", "internalize", "interspec", "rewrite",
               "internalize2", "sealing"}
UnreadStages == {"fixpoint", "intra", "before", "references2", "after", "strip"}

AtRead == Idle(ReadStages) => Fresh(version)
AtUnread == Idle(UnreadStages) => Good(version)
AtLink == Idle({"link"}) => Good(version) /\ ("strip" \in flags => Readable(version))
AtRopGadget ==
    Idle({"ropgadget"}) => /\ Good(version)
                           /\ "strip" \in flags \/ linked => Readable(version)

\* mc_dce names its output at once, and fills it last.
AtQuery == Idle({"query"}) => Fresh(curfile)
AtRelink == Idle({"relink"}) => Fresh(version) \/ "mc_dce" \in killed

Whole == Fresh(version) \/ "mc_dce" \in killed \/ ("strip" \notin flags /\ ~linked)
AtEnd == Idle({"symlinks"}) \/ outcome = "returned" => Whole

Typed ==
    /\ version \in Content /\ curfile \in Content
    /\ pc \in {"idle"} \cup Steps \cup Ended
    /\ pc # "idle" => outcome = "running"

StageInv == /\ AtRead /\ AtUnread /\ AtLink /\ AtRopGadget
            /\ AtQuery /\ AtRelink /\ AtEnd

SlashInv == IInv /\ Typed /\ StageInv

-----------------------------------------------------------------------------
USE DEF Fresh, Readable, Good, ReadStages, UnreadStages

LEMMA StaleContent == Stale \in Content /\ Leftover \subseteq Content
BY ConstantContents DEF Stale, Source, Content, Leftover

\* What the stages of slash leave alone in peval.
LEMMA IdleIInv ==
    ASSUME IInv, pc' = "idle", FilesOK', applied' \subseteq Stages, UNCHANGED <<claimed, first, progress>>
    PROVE  IInv'
BY Elsewhere DEF IInv

\* The new version has all that was done before, and this stage's.
LEMMA EndsWellStep ==
    ASSUME IInv, version \in Content, Good(version), NEW tag \in Stages, ToolEndsWell(tag),
           UNCHANGED <<claimed, killed>>
    PROVE  version' \in Content /\ Fresh(version)' /\ applied' \subseteq Stages
<1>1. /\ version' = With(version, tag) /\ Readable(version)
      /\ applied' = applied \cup {tag} /\ left' = left
    BY DEF ToolEndsWell, NewVersion
<1>2. /\ version' \in Content /\ version'.kind = version.kind /\ version'.run = version.run
      /\ version'.specs = version.specs /\ version'.stages = version.stages \cup {tag}
    BY <1>1, WithStage
<1>. QED
    BY <1>1, <1>2 DEF IInv

\* A failing tool that had bitcode to read leaves none, or an earlier run's.
LEMMA FailsStep ==
    ASSUME version \in Content, NEW tag, ToolFails(tag), UNCHANGED claimed
    PROVE  /\ version' \in Content /\ applied' = applied
           /\ Fresh(version) /\ tag \in SlashTools => Good(version)'
<1>0. PICK old \in Leftover : \E c \in Broken(version, old) :
         /\ NewVersion(tag, c)
         /\ left' = IF Older(c, version) THEN left \cup {tag} ELSE left
    BY DEF ToolFails
<1>1. PICK c \in Broken(version, old) :
         /\ version' = c /\ applied' = applied
         /\ left' = IF Older(c, version) THEN left \cup {tag} ELSE left
    BY <1>0 DEF ToolFails, NewVersion
<1>2. version' \in Content
    BY <1>1, StaleContent, BrokenContents
<1>3. ASSUME Fresh(version), tag \in SlashTools PROVE Good(version)'
    <2>1. CASE Older(c, version)
        BY <1>1, <1>3, <2>1
    <2>2. CASE ~Older(c, version)
        BY <1>1, <1>3, <2>2 DEF Older
    <2>. QED
        BY <2>1, <2>2
<1>. QED
    BY <1>1, <1>2, <1>3

\* A stage that raises ends slash, and the file is not promised anything.
LEMMA RaisedStep ==
    ASSUME NEW how \in {"raised", "waiting"}, Failed(how)
    PROVE  StageInv'
BY DEF Failed, StageInv, Idle, AtRead, AtUnread, AtLink, AtRopGadget, AtQuery, AtRelink, AtEnd

LEMMA PassedRead ==
    ASSUME outcome' = "running", stage' \in ReadStages, Fresh(version)'
    PROVE  StageInv'
BY DEF StageInv, Idle, AtRead, AtUnread, AtLink, AtRopGadget, AtQuery, AtRelink, AtEnd

LEMMA PassedUnread ==
    ASSUME outcome' = "running", stage' \in UnreadStages, Good(version)'
    PROVE  StageInv'
BY DEF StageInv, Idle, AtRead, AtUnread, AtLink, AtRopGadget, AtQuery, AtRelink, AtEnd

LEMMA CheckedStep ==
    ASSUME SlashInv, NEW tag \in Stages, NEW next \in ReadStages \cup {"link"},
           NEW how \in {"raised", "waiting"}, tag \in ReadStages \cup UnreadStages,
           CheckedStage(tag, next, how)
    PROVE  SlashInv'
<1>0. /\ IInv /\ version \in Content /\ curfile \in Content /\ Good(version)
      /\ UNCHANGED <<claimed, killed, first, progress, file, curfile, pc, flags>>
      /\ pc = "idle" /\ outcome = "running" /\ FilesOK' /\ applied \subseteq Stages
    BY DEF SlashInv, Typed, IInv, FilesOK, StageInv, AtRead, AtUnread, Idle, CheckedStage, StageKeeps, At,
           ReadStages
<1>1. CASE ToolEndsWell(tag) /\ Passed(next)
    <2>1. version' \in Content /\ Fresh(version)' /\ applied' \subseteq Stages
        BY <1>0, <1>1, EndsWellStep
    <2>2. IInv'
        BY <1>0, <2>1, IdleIInv
    <2>3. StageInv'
        BY <1>0, <1>1, <2>1 DEF Passed, StageInv, Idle, AtRead, AtUnread, AtLink,
                                AtRopGadget, AtQuery, AtRelink, AtEnd
    <2>. QED
        BY <1>0, <1>1, <2>1, <2>2, <2>3 DEF SlashInv, Typed, Passed
<1>2. CASE ToolFails(tag) /\ Failed(how)
    <2>1. version' \in Content /\ applied' = applied
        BY <1>0, <1>2, FailsStep
    <2>2. IInv' /\ StageInv'
        BY <1>0, <1>2, <2>1, IdleIInv, RaisedStep
    <2>. QED
        BY <1>0, <1>2, <2>1, <2>2 DEF SlashInv, Typed
<1>. QED
    BY <1>1, <1>2 DEF CheckedStage

\* The file may be absent, or empty, or an earlier run's afterwards.
LEMMA UncheckedStep ==
    ASSUME SlashInv, NEW s \in ReadStages, NEW tag \in SlashTools, NEW next \in UnreadStages,
           UncheckedStage(s, tag, next)
    PROVE  SlashInv'
<1>0. /\ IInv /\ version \in Content /\ curfile \in Content /\ Fresh(version)
      /\ UNCHANGED <<claimed, killed, first, progress, file, curfile, pc, flags>>
      /\ pc = "idle" /\ outcome = "running" /\ FilesOK' /\ applied \subseteq Stages
      /\ stage' = next /\ outcome' = "running"
    BY DEF SlashInv, Typed, IInv, FilesOK, StageInv, AtRead, Idle, UncheckedStage, StageKeeps, At,
           Passed
<1>1. version' \in Content /\ Good(version)' /\ applied' \subseteq Stages
    <2>1. CASE ToolEndsWell(tag)
        BY <1>0, <2>1, EndsWellStep DEF SlashTools, Stages
    <2>2. CASE ToolFails(tag)
        BY <1>0, <2>2, FailsStep
    <2>. QED
        BY <2>1, <2>2 DEF UncheckedStage
<1>2. IInv' /\ StageInv'
    BY <1>0, <1>1, IdleIInv, PassedUnread
<1>. QED
    BY <1>0, <1>1, <1>2 DEF SlashInv, Typed

LEMMA ReadStep ==
    ASSUME SlashInv, NEW s \in ReadStages \cup UnreadStages, NEW next \in ReadStages \cup UnreadStages,
           NEW how \in {"raised", "waiting"}, ReadStage(s, next, how)
    PROVE  SlashInv'
<1>0. /\ IInv /\ version \in Content /\ curfile \in Content /\ Good(version)
      /\ UNCHANGED <<claimed, killed, left, applied, first, progress, file, version, curfile, pc, flags>>
      /\ pc = "idle" /\ outcome = "running" /\ FilesOK' /\ applied \subseteq Stages
    BY DEF SlashInv, Typed, IInv, FilesOK, StageInv, AtRead, AtUnread, Idle, ReadStage, StageKeeps, At,
           SameVersion
<1>1. IInv'
    BY <1>0, IdleIInv
<1>2. StageInv'
    BY <1>0, RaisedStep, PassedRead, PassedUnread DEF ReadStage, Passed
<1>. QED
    BY <1>0, <1>1, <1>2 DEF SlashInv, Typed

LEMMA OmitStep ==
    ASSUME SlashInv, NEW s, NEW next, OmitStage(s, next),
           s \in ReadStages /\ next \in ReadStages
    PROVE  SlashInv'
<1>0. /\ IInv /\ version \in Content /\ curfile \in Content /\ Fresh(version)
      /\ UNCHANGED <<claimed, killed, left, applied, first, progress, file, version, curfile, pc, flags>>
      /\ pc = "idle" /\ outcome' = "running" /\ FilesOK' /\ applied \subseteq Stages
      /\ stage' = next
    BY DEF SlashInv, Typed, IInv, FilesOK, StageInv, AtRead, Idle, OmitStage, StageKeeps, At,
           Passed, SameVersion
<1>1. IInv' /\ StageInv'
    BY <1>0, IdleIInv, PassedRead
<1>. QED
    BY <1>0, <1>1 DEF SlashInv, Typed

LEMMA FixpointStep == SlashInv /\ Fixpoint => SlashInv'
<1> SUFFICES ASSUME SlashInv, Fixpoint PROVE SlashInv'
    OBVIOUS
<1>0. /\ IInv /\ FilesOK /\ applied \subseteq Stages /\ version \in Content /\ curfile \in Content
      /\ Good(version) /\ pc = "idle" /\ outcome' = "running" /\ stage' \in UnreadStages
      /\ UNCHANGED <<pevalVars, version, curfile>>
    BY DEF SlashInv, Typed, IInv, StageInv, AtUnread, Idle, Fixpoint, At, SameVersion
<1>1. IInv' /\ StageInv'
    BY <1>0, IdleIInv, PassedUnread DEF pevalVars, FilesOK
<1>. QED
    BY <1>0, <1>1 DEF SlashInv, Typed, pevalVars

\* peval reads the version there was, and a name with nothing, or an old file.
LEMMA IntraBeginsStep == SlashInv /\ IntraBegins => SlashInv'
<1> SUFFICES ASSUME SlashInv, IntraBegins PROVE SlashInv'
    OBVIOUS
<1>1. /\ IInv /\ version \in Content /\ curfile \in Content /\ Good(version)
      /\ outcome = "running" /\ UNCHANGED <<outcome, curfile>>
    BY DEF SlashInv, Typed, StageInv, AtUnread, Idle, IntraBegins, At
<1>2. PICK old \in Leftover : file' = Files(version, old) /\ version' = old
    BY DEF IntraBegins, NewVersion
<1>3. old \in Content
    BY StaleContent
<1>4. file' \in [Names -> Content] /\ file'["input"] = version /\ ~Readable(file'["tmp"])
    BY <1>1, <1>2, <1>3, ConstantContents DEF Files, Names, Empty
<1>5. AtOptimize' /\ pc' = "optimize"
    BY <1>1, <1>4 DEF IntraBegins, AtOptimize
<1>6. IInv'
    BY <1>1, <1>4, <1>5, Elsewhere DEF IntraBegins, IInv, FilesOK
<1>7. StageInv'
    BY <1>1, <1>5 DEF StageInv, Idle, AtRead, AtUnread, AtLink, AtRopGadget, AtQuery, AtRelink, AtEnd
<1>. QED
    BY <1>1, <1>2, <1>3, <1>5, <1>6, <1>7 DEF SlashInv, Typed, Steps

LEMMA PevalStaysPeval == PevalNext => pc' \in Steps \cup Ended
BY DEF PevalNext, Optimize, OptimizeTo, Devirt, InlineBounce, ForceInline, Ipdse, Clam, Policy,
       Reoptimize, Specialize, InlineSpecialized, Decide, Finish, ToolRaises, Copy, Skip, Steps, Ended

LEMMA IntraRunsStep == SlashInv /\ IntraRuns => SlashInv'
<1> SUFFICES ASSUME SlashInv, IntraRuns PROVE SlashInv'
    OBVIOUS
<1>1. IInv'
    BY NextIInv DEF SlashInv, IntraRuns
<1>2. pc' \in Steps \cup Ended /\ pc' # "idle" /\ outcome' = "running" /\ UNCHANGED <<version, curfile>>
    BY PevalStaysPeval DEF IntraRuns, slashVars, Steps, Ended
<1>3. StageInv'
    BY <1>2 DEF StageInv, Idle, AtRead, AtUnread, AtLink, AtRopGadget, AtQuery, AtRelink, AtEnd
<1>. QED
    BY <1>1, <1>2, <1>3 DEF SlashInv, Typed

\* What peval hands out is the module's version from here on.
LEMMA IntraEndsStep == SlashInv /\ IntraEnds => SlashInv'
<1> SUFFICES ASSUME SlashInv, IntraEnds PROVE SlashInv'
    OBVIOUS
<1>1. /\ IInv /\ curfile \in Content /\ file["output"] \in Content
      /\ pc = "returned" => Good(file["output"])
      /\ pc' = "idle" /\ version' = file["output"] /\ file' = Files(Source, Absent)
      /\ UNCHANGED <<curfile, applied, left, claimed, first, progress>>
    BY FileNames DEF SlashInv, Typed, IInv, AtReturned, IntraEnds
<1>2. IInv'
    BY <1>1, ConstantContents, IdleIInv DEF FilesOK, Files, Names, IInv
<1>3. StageInv'
    <2>1. CASE pc = "returned"
        BY <1>1, <2>1, PassedUnread DEF IntraEnds, Passed
    <2>2. CASE pc # "returned"
        BY <2>2, RaisedStep DEF IntraEnds
    <2>. QED
        BY <2>1, <2>2
<1>. QED
    BY <1>1, <1>2, <1>3 DEF SlashInv, Typed

LEMMA StripStep == SlashInv /\ Strip => SlashInv'
<1> SUFFICES ASSUME SlashInv, Strip PROVE SlashInv'
    OBVIOUS
<1>1. CASE "strip" \in flags
    BY <1>1, CheckedStep DEF Strip, Stages
<1>2. CASE "strip" \notin flags
    <2>0. /\ IInv /\ version \in Content /\ curfile \in Content /\ Good(version)
          /\ UNCHANGED <<claimed, killed, left, applied, first, progress, file, version, curfile, pc, flags>>
          /\ pc = "idle" /\ outcome' = "running" /\ stage' = "link" /\ FilesOK /\ applied \subseteq Stages
        BY <1>2 DEF SlashInv, Typed, IInv, StageInv, AtUnread, Idle, Strip, OmitStage, StageKeeps, At,
                    Passed, SameVersion
    <2>1. IInv'
        BY <2>0, IdleIInv DEF FilesOK
    <2>2. StageInv'
        BY <1>2, <2>0 DEF StageInv, Idle, AtRead, AtUnread, AtLink, AtRopGadget, AtQuery, AtRelink, AtEnd
    <2>. QED
        BY <2>0, <2>1, <2>2 DEF SlashInv, Typed
<1>. QED
    BY <1>1, <1>2

-----------------------------------------------------------------------------
\* The tail reads no code of its tools but llvm-link's and seahorn's.
LEMMA TailKeeps ==
    ASSUME SlashInv, pc = "idle", UNCHANGED <<pc, file, first, progress, claimed>>,
           applied' \subseteq Stages, version' \in Content, curfile' \in Content, StageInv'
    PROVE  SlashInv'
<1>1. IInv'
    BY IdleIInv DEF SlashInv, IInv, FilesOK
<1>. QED
    BY <1>1 DEF SlashInv, Typed

LEMMA LinkStep == SlashInv /\ LinkProgram => SlashInv'
<1> SUFFICES ASSUME SlashInv, LinkProgram PROVE SlashInv'
    OBVIOUS
<1>0. /\ version \in Content /\ curfile \in Content /\ applied \subseteq Stages
      /\ Good(version) /\ ("strip" \in flags => Readable(version))
      /\ pc = "idle" /\ outcome = "running"
      /\ UNCHANGED <<pevalVars, flags, version, curfile>>
    BY DEF SlashInv, Typed, IInv, StageInv, AtLink, Idle, LinkProgram, Link, At
<1>1. StageInv'
    BY <1>0, RaisedStep DEF LinkProgram, Link, Passed, pevalVars, StageInv, Idle, AtRead, AtUnread, AtLink,
                            AtRopGadget, AtQuery, AtRelink, AtEnd
<1>. QED
    BY <1>0, <1>1, TailKeeps DEF pevalVars

LEMMA RopGadgetStep == SlashInv /\ RopGadget => SlashInv'
<1> SUFFICES ASSUME SlashInv, RopGadget PROVE SlashInv'
    OBVIOUS
<1>0. /\ version \in Content /\ curfile \in Content /\ applied \subseteq Stages
      /\ Good(version) /\ ("strip" \in flags \/ linked => Readable(version))
      /\ pc = "idle" /\ outcome = "running"
    BY DEF SlashInv, Typed, IInv, StageInv, AtRopGadget, Idle, RopGadget, OmitStage, At
<1>1. CASE OmitStage("ropgadget", "symlinks") /\ ("mc_dce" \notin flags \/ ~linked)
    <2>1. UNCHANGED <<pc, file, first, progress, claimed, applied, killed, left, flags, linked, version, curfile>>
          /\ stage' = "symlinks" /\ outcome' = "running"
        BY <1>0, <1>1 DEF OmitStage, Passed, SameVersion, StageKeeps
    <2>2. Fresh(version)' \/ ("strip" \notin flags /\ ~linked)'
        BY <1>0, <1>1, <2>1
    <2>3. StageInv'
        BY <2>1, <2>2 DEF StageInv, Idle, AtRead, AtUnread, AtLink, AtRopGadget, AtQuery, AtRelink, AtEnd, Whole
    <2>. QED
        BY <1>0, <2>1, <2>3, TailKeeps
<1>2. CASE /\ linked
           /\ UNCHANGED pevalVars
           /\ curfile' = version
           /\ \E old \in Leftover : NewVersion("mc_dce", old)
           /\ Passed("query")
    <2>1. version' \in Content
        BY <1>2, StaleContent DEF NewVersion
    <2>2. StageInv'
        BY <1>0, <1>2 DEF Passed, pevalVars, StageInv, Idle, AtRead, AtUnread, AtLink, AtRopGadget, AtQuery,
                          AtRelink, AtEnd
    <2>. QED
        BY <1>0, <1>2, <2>1, <2>2, TailKeeps DEF pevalVars
<1>3. CASE UNCHANGED pevalVars /\ UNCHANGED curfile /\ SameVersion /\ Failed("raised")
    BY <1>0, <1>3, RaisedStep, TailKeeps DEF pevalVars, SameVersion
<1>. QED
    BY <1>1, <1>2, <1>3 DEF RopGadget

LEMMA QueryStep == SlashInv /\ (QueryProves \/ QueryRaises \/ QueriesDone) => SlashInv'
<1> SUFFICES ASSUME SlashInv, QueryProves \/ QueryRaises \/ QueriesDone PROVE SlashInv'
    OBVIOUS
<1>0. /\ version \in Content /\ curfile \in Content /\ applied \subseteq Stages
      /\ Fresh(curfile) /\ pc = "idle" /\ outcome = "running" /\ stage = "query"
    BY DEF SlashInv, Typed, IInv, StageInv, AtQuery, Idle, QueryProves, QueryRaises, QueriesDone, At
<1>1. CASE QueryProves
    <2>1. "mc_dce" \in Stages
        BY DEF Stages
    <2>2. /\ curfile' = With(curfile, "mc_dce") /\ applied' = applied \cup {"mc_dce"}
          /\ UNCHANGED <<pc, file, first, progress, claimed, left, version, stage, outcome>>
        BY <1>1 DEF QueryProves, SameVersion
    <2>3. /\ With(curfile, "mc_dce") \in Content
          /\ With(curfile, "mc_dce").kind = curfile.kind /\ With(curfile, "mc_dce").run = curfile.run
          /\ With(curfile, "mc_dce").specs = curfile.specs
          /\ With(curfile, "mc_dce").stages = curfile.stages \cup {"mc_dce"}
        BY <1>0, <2>1, WithStage
    <2>4. Fresh(curfile)' /\ curfile' \in Content /\ applied' \subseteq Stages /\ version' \in Content
        BY <1>0, <2>1, <2>2, <2>3
    <2>5. StageInv'
        BY <1>0, <2>2, <2>4 DEF StageInv, Idle, AtRead, AtUnread, AtLink, AtRopGadget, AtQuery, AtRelink, AtEnd
    <2>. QED
        BY <1>0, <2>2, <2>4, <2>5, TailKeeps
<1>2. CASE QueryRaises
    <2>1. StageInv'
        BY <1>0, <1>2 DEF QueryRaises, Passed, StageInv, Idle, AtRead, AtUnread, AtLink, AtRopGadget,
                          AtQuery, AtRelink, AtEnd
    <2>. QED
        BY <1>0, <1>2, <2>1, TailKeeps DEF QueryRaises, SameVersion
<1>3. CASE QueriesDone
    <2>1. StageInv'
        BY <1>0, <1>3 DEF QueriesDone, Passed, StageKeeps, StageInv, Idle, AtRead, AtUnread, AtLink, AtRopGadget,
                          AtQuery, AtRelink, AtEnd
    <2>. QED
        BY <1>0, <1>3, <2>1, TailKeeps DEF QueriesDone, StageKeeps
<1>. QED
    BY <1>1, <1>2, <1>3

LEMMA RelinkStep == SlashInv /\ Relink => SlashInv'
<1> SUFFICES ASSUME SlashInv, Relink PROVE SlashInv'
    OBVIOUS
<1>0. /\ version \in Content /\ curfile \in Content /\ applied \subseteq Stages
      /\ Fresh(version) \/ "mc_dce" \in killed
      /\ pc = "idle" /\ outcome = "running"
      /\ UNCHANGED <<pevalVars, flags, version, curfile>>
    BY DEF SlashInv, Typed, IInv, StageInv, AtRelink, Idle, Relink, Link, At
<1>1. StageInv'
    BY <1>0, RaisedStep DEF Relink, Link, Passed, pevalVars, StageInv, Idle, AtRead, AtUnread, AtLink,
                            AtRopGadget, AtQuery, AtRelink, AtEnd, Whole
<1>. QED
    BY <1>0, <1>1, TailKeeps DEF pevalVars

LEMMA SymlinksStep == SlashInv /\ Symlinks => SlashInv'
<1> SUFFICES ASSUME SlashInv, Symlinks PROVE SlashInv'
    OBVIOUS
<1>0. /\ version \in Content /\ curfile \in Content /\ applied \subseteq Stages
      /\ Whole /\ pc = "idle" /\ outcome' \in {"raised", "returned"}
      /\ UNCHANGED <<pc, file, first, progress, claimed, applied, killed, left, flags, linked, version, curfile>>
    BY DEF SlashInv, Typed, IInv, StageInv, AtEnd, Idle, Symlinks, StageKeeps, At, Failed
<1>1. StageInv'
    BY <1>0 DEF StageInv, Idle, AtRead, AtUnread, AtLink, AtRopGadget, AtQuery, AtRelink, AtEnd, Whole
<1>. QED
    BY <1>0, <1>1, TailKeeps

\* Another run forgets what the one before did.
LEMMA RerunStep == SlashInv /\ Rerun => SlashInv'
<1> SUFFICES ASSUME SlashInv, Rerun PROVE SlashInv'
    OBVIOUS
<1>1. /\ pc' = "idle" /\ file' = Files(Source, Absent) /\ applied' = {} /\ claimed' = 0
      /\ progress' = FALSE /\ first' = TRUE /\ version' = Source /\ curfile' = Absent
      /\ outcome' = "running" /\ stage' = "arguments"
    BY DEF Rerun, Begin
<1>2. IInv'
    BY <1>1, ConstantContents, Elsewhere DEF IInv, FilesOK, Files, Names
<1>3. StageInv'
    BY <1>1, PassedRead DEF Source
<1>. QED
    BY <1>1, <1>2, <1>3, ConstantContents DEF SlashInv, Typed

-----------------------------------------------------------------------------
LEMMA InitSlashInv == Init => SlashInv
<1> SUFFICES ASSUME Init PROVE SlashInv
    OBVIOUS
<1>1. /\ pc = "idle" /\ file = Files(Source, Absent) /\ applied = {} /\ claimed = 0
      /\ progress = FALSE /\ first = TRUE /\ version = Source /\ curfile = Absent
      /\ outcome = "running" /\ stage = "arguments"
    BY DEF Init, PevalInit
<1>2. IInv
    BY <1>1, ConstantContents
       DEF IInv, FilesOK, Files, Names, AtOptimize, AtDevirt, AtBounce, AtDone, AtReoptimize, AtSpecialize,
           AtInline, AtDecide, AtReturned
<1>3. StageInv
    BY <1>1 DEF StageInv, Idle, AtRead, AtUnread, AtLink, AtRopGadget, AtQuery, AtRelink, AtEnd, Source
<1>. QED
    BY <1>1, <1>2, <1>3, ConstantContents DEF SlashInv, Typed

LEMMA SlashNextStep == SlashInv /\ SlashNext => SlashInv'
<1> SUFFICES ASSUME SlashInv, SlashNext PROVE SlashInv'
    OBVIOUS
<1>1. ASSUME Arguments PROVE SlashInv'
    <2>1. CASE CheckedStage("arguments", "prime", "raised")
        BY <2>1, CheckedStep DEF Stages
    <2>2. CASE OmitStage("arguments", "references")
        BY <2>2, OmitStep
    <2>. QED
        BY <1>1, <2>1, <2>2 DEF Arguments
<1>2. ASSUME Prime PROVE SlashInv'
    <2>1. CASE CheckedStage("prime", "references", "raised")
        BY <2>1, CheckedStep DEF Stages
    <2>2. CASE OmitStage("prime", "references")
        BY <2>2, OmitStep
    <2>. QED
        BY <1>2, <2>1, <2>2 DEF Prime
<1>3. ASSUME InterSpecialize PROVE SlashInv'
    BY <1>3, CheckedStep DEF InterSpecialize, Stages
<1>4. ASSUME References \/ Before \/ References2 \/ After PROVE SlashInv'
    BY <1>4, ReadStep DEF References, Before, References2, After, Stages
<1>5. ASSUME Internalize \/ Rewrite \/ Internalize2 \/ Sealing PROVE SlashInv'
    BY <1>5, UncheckedStep DEF Internalize, Rewrite, Internalize2, Sealing, SlashTools
<1>6. ASSUME Fixpoint \/ IntraBegins \/ IntraRuns \/ IntraEnds PROVE SlashInv'
    BY <1>6, FixpointStep, IntraBeginsStep, IntraRunsStep, IntraEndsStep
<1>7. ASSUME Strip \/ LinkProgram \/ RopGadget \/ Relink \/ Symlinks PROVE SlashInv'
    BY <1>7, StripStep, LinkStep, RopGadgetStep, RelinkStep, SymlinksStep
<1>8. ASSUME QueryProves \/ QueryRaises \/ QueriesDone PROVE SlashInv'
    BY <1>8, QueryStep
<1>. QED
    BY <1>1, <1>2, <1>3, <1>4, <1>5, <1>6, <1>7, <1>8 DEF SlashNext

LEMMA NextSlashInv == SlashInv /\ [Next]_vars => SlashInv'
<1> SUFFICES ASSUME SlashInv, [Next]_vars PROVE SlashInv'
    OBVIOUS
<1>1. CASE UNCHANGED vars
    BY <1>1 DEF vars, pevalVars, slashVars, SlashInv, IInv, FilesOK, AtOptimize, AtDevirt, AtBounce, AtDone,
                AtReoptimize, AtSpecialize, AtInline, AtDecide, AtReturned, Typed, StageInv, Idle, AtRead,
                AtUnread, AtLink, AtRopGadget, AtQuery, AtRelink, AtEnd, Whole, Live, Excused
<1>. QED
    BY <1>1, SlashNextStep, RerunStep DEF Next, Terminated

-----------------------------------------------------------------------------
\* slash.run: when it returns 0, the last version is bitcode of this run with
\* all that its tools did, but for the ways out that it does not notice: a module
\* it could not link, mc_dce, and a tool that died before it opened its output.
THEOREM WholeModule == Spec => []FinalIsWhole
<1>1. SlashInv => FinalIsWhole
    BY DEF SlashInv, StageInv, AtEnd, Whole, FinalIsWhole
<1>. QED
    BY InitSlashInv, NextSlashInv, <1>1, PTL DEF Spec

\* The same of passes.peval as its tasks call it, on what the stages left.
THEOREM PevalBitcodeInSlash == Spec => []PevalHandsOutBitcode
<1>1. SlashInv => PevalHandsOutBitcode
    BY DEF SlashInv, IInv, AtReturned, PevalHandsOutBitcode, Live, Excused
<1>. QED
    BY InitSlashInv, NextSlashInv, <1>1, PTL DEF Spec

\* No effect of a tool that ended well is lost, in any of slash's iterations, but
\* to such an inliner, until a module of an earlier run is taken for the version.
THEOREM EffectsKeptInSlash == Spec => []EffectsKept
<1>1. SlashInv => EffectsKept
    BY DEF SlashInv, IInv, AtReturned, EffectsKept
<1>. QED
    BY InitSlashInv, NextSlashInv, <1>1, PTL DEF Spec
=============================================================================
