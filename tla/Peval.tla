-------------------------------- MODULE Peval --------------------------------
(***************************************************************************)
(* razor/passes.py: peval, the chain of tools that one slash iteration     *)
(* runs on one module, with the five files it reads and writes.  A file is *)
(* absent, empty (a temporary file starts so), or bitcode with the stages  *)
(* that made it and the number of specializations in it.                   *)
(*                                                                         *)
(* The tools are opt with the plug-ins, and clam (external).  A tool loads *)
(* its plug-ins and reads its input, opens its output, and runs its passes. *)
(* It may die before it opens the output, which is then left as it was: so  *)
(* it does on an input that is no bitcode.  It may stop later: by an error  *)
(* or a signal it handles, when it removes the output, or killed, when it   *)
(* leaves it empty.                                                         *)
(***************************************************************************)
EXTENDS Naturals

CONSTANTS
    MaxSpecs,      \* bound: the specializations found in one run
    PevalOptions   \* the options: which passes run, a subset of OptionRecords

Passes == {"devirt", "bounce", "llpe", "ipdse", "clam", "policy", "inlineSpec"}
Stages == {"devirt", "ipdse", "clam",
           "arguments", "prime", "internalize", "interspec", "rewrite", "sealing",
           "strip", "mc_dce"}
Names == {"input", "output", "done", "opt", "tmp"}

Content == [kind : {"absent", "empty", "bitcode"}, run : {"this", "earlier"},
            stages : SUBSET Stages, specs : 0..MaxSpecs]

Absent == [kind |-> "absent", run |-> "this", stages |-> {}, specs |-> 0]
Empty  == [kind |-> "empty", run |-> "this", stages |-> {}, specs |-> 0]
Source == [kind |-> "bitcode", run |-> "this", stages |-> {}, specs |-> 0]

Readable(c) == c.kind = "bitcode"

\* The tools of slash whose exit code is ignored (FileVersions.tla).
SlashTools == {"internalize", "rewrite", "sealing"}

ASSUME MaxSpecsAssumption == MaxSpecs \in Nat
ASSUME PevalOptionsAssumption == PevalOptions \subseteq SUBSET Passes

VARIABLES
    opts,          \* the passes asked for
    pc,            \* the next step of peval, or "idle", "returned", "raised"
    file,          \* the contents of the five files
    first,         \* whether this is the first round of the policy's loop
    progress,      \* whether -Ppeval printed that it made progress
    applied,       \* the stages whose tool ended well (history)
    claimed,       \* the specializations -Ppeval made and wrote (history)
    killed,        \* the unchecked tools that left an empty output (history)
    left           \* those that left an older module in it, their input being good (history)

pevalVars == <<opts, pc, file, first, progress, applied, claimed, killed, left>>

Steps == {"optimize", "devirt", "bounce", "ipdse", "clam", "policy", "reoptimize",
          "specialize", "inline", "decide", "finish"}
Ended == {"returned", "raised"}

-----------------------------------------------------------------------------
\* What a tool makes of its input when it ends well, and what may be in its
\* output when it does not.
With(c, stage) == [c EXCEPT !.stages = @ \cup {stage}]
Broken(from, to) == IF Readable(from) THEN {Absent, Empty, to} ELSE {to}

\* tempfile.NamedTemporaryFile makes the three files.
Files(input, output) ==
    [n \in Names |-> IF n = "input" THEN input
                     ELSE IF n = "output" THEN output
                     ELSE Empty]

PevalInit(start) ==
    /\ opts \in PevalOptions
    /\ pc = start
    /\ file = Files(Source, Absent)
    /\ first = TRUE
    /\ progress = FALSE
    /\ applied = {}
    /\ claimed = 0
    /\ killed = {}
    /\ left = {}

\* driver.run and previrt raise if the tool fails; f is the file map then.
ToolRaises(from, to) ==
    /\ \E c \in Broken(file[from], file[to]) : file' = [file EXCEPT ![to] = c]
    /\ pc' = "raised"
    /\ UNCHANGED <<opts, first, progress, applied, claimed, killed, left>>

\* shutil.copy raises if the source is absent.
Copy(from, to, next) ==
    /\ IF file[from].kind = "absent"
       THEN pc' = "raised" /\ UNCHANGED file
       ELSE pc' = next /\ file' = [file EXCEPT ![to] = file[from]]
    /\ UNCHANGED <<opts, first, progress, applied, claimed, killed, left>>

Skip(next) == pc' = next /\ UNCHANGED <<opts, file, first, progress, applied, claimed, killed, left>>

-----------------------------------------------------------------------------
\* _optimize: its branch for a non-zero code is not reached, for run raises.
OptimizeTo(from, to, next) ==
    \/ /\ Readable(file[from])
       /\ file' = [file EXCEPT ![to] = file[from]]
       /\ pc' = next
       /\ UNCHANGED <<opts, first, progress, applied, claimed, killed, left>>
    \/ ToolRaises(from, to)

Optimize == pc = "optimize" /\ OptimizeTo("input", "done", "devirt")

\* devirt ignores the exit code, and checks that the output exists; it did
\* before the call, too.
LooksDevirtualized(c) == c.kind # "absent"

\* If the check fails peval hands out what it has so far.
Devirt ==
    /\ pc = "devirt"
    /\ IF "devirt" \notin opts THEN Skip("ipdse")
       ELSE /\ UNCHANGED <<opts, first, progress, claimed, left>>
            /\ \/ /\ Readable(file["done"])
                  /\ file' = [file EXCEPT !["tmp"] = With(file["done"], "devirt")]
                  /\ applied' = applied \cup {"devirt"}
                  /\ pc' = "bounce"
                  /\ UNCHANGED killed
               \/ \E c \in Broken(file["done"], file["tmp"]) :
                     IF LooksDevirtualized(c)
                     THEN /\ file' = [file EXCEPT !["tmp"] = c]
                          /\ killed' = killed \cup {"devirt"}
                          /\ pc' = "bounce"
                          /\ UNCHANGED applied
                     ELSE /\ file' = [file EXCEPT !["tmp"] = c, !["output"] = file["done"]]
                          /\ pc' = "returned"
                          /\ UNCHANGED <<applied, killed>>

\* A module that is not the one the tool was to work on, which was good.
Older(c, from) == Readable(from) /\ Readable(c) /\ c # from

\* force_inline, tmp to done: a copy, or -Pinliner with its exit code ignored.
ForceInline(on, tool, next) ==
    IF ~on THEN Copy("tmp", "done", next)
    ELSE /\ pc' = next
         /\ UNCHANGED <<opts, first, progress, applied, claimed>>
         /\ \/ /\ Readable(file["tmp"])
               /\ file' = [file EXCEPT !["done"] = file["tmp"]]
               /\ UNCHANGED <<killed, left>>
            \/ \E c \in Broken(file["tmp"], file["done"]) :
                  /\ file' = [file EXCEPT !["done"] = c]
                  /\ killed' = IF c.kind = "empty" THEN killed \cup {tool} ELSE killed
                  /\ left' = IF Older(c, file["tmp"]) THEN left \cup {tool} ELSE left

InlineBounce == pc = "bounce" /\ ForceInline("bounce" \in opts, "bounce", "ipdse")

\* Mutant of Ipdse: the result is not copied back.
IpdseLeftInTmp ==
    /\ pc = "ipdse"
    /\ IF "ipdse" \notin opts THEN Skip("clam")
       ELSE \/ /\ Readable(file["done"])
               /\ file' = [file EXCEPT !["tmp"] = With(file["done"], "ipdse")]
               /\ applied' = applied \cup {"ipdse"}
               /\ pc' = "clam"
               /\ UNCHANGED <<opts, first, progress, claimed, killed, left>>
            \/ ToolRaises("done", "tmp")

\* The dead store elimination and -Pipsccp, and the copy back to done.
Ipdse ==
    /\ pc = "ipdse"
    /\ IF "ipdse" \notin opts THEN Skip("clam")
       ELSE \/ /\ Readable(file["done"])
               /\ LET c == With(file["done"], "ipdse")
                  IN  file' = [file EXCEPT !["tmp"] = c, !["done"] = c]
               /\ applied' = applied \cup {"ipdse"}
               /\ pc' = "clam"
               /\ UNCHANGED <<opts, first, progress, claimed, killed, left>>
            \/ ToolRaises("done", "tmp")

\* clam runs without the check: peval hands out done if it fails.
Clam ==
    /\ pc = "clam"
    /\ IF "clam" \notin opts THEN Skip("policy")
       ELSE /\ UNCHANGED <<opts, first, progress, claimed, killed, left>>
            /\ \/ /\ Readable(file["done"])
                  /\ LET c == With(file["done"], "clam")
                     IN  file' = [file EXCEPT !["tmp"] = c, !["done"] = c]
                  /\ applied' = applied \cup {"clam"}
                  /\ pc' = "policy"
               \/ /\ \E c \in Broken(file["done"], file["tmp"]) :
                        file' = [file EXCEPT !["tmp"] = c,
                                    !["output"] = IF file["done"].kind = "absent"
                                                  THEN @ ELSE file["done"]]
                  /\ pc' = IF file["done"].kind = "absent" THEN "raised" ELSE "returned"
                  /\ UNCHANGED applied

\* The policy's loop: done to opt, opt to tmp, tmp to done.
Policy ==
    /\ pc = "policy"
    /\ Skip(IF "policy" \in opts THEN "reoptimize" ELSE "finish")

Reoptimize ==
    /\ pc = "reoptimize"
    /\ IF ~first \/ opts \cap {"llpe", "ipdse"} # {}
       THEN OptimizeTo("done", "opt", "specialize")
       ELSE Copy("done", "opt", "specialize")

\* Mutant of Specialize: the text of the rounds before is searched too.
SpecializeSeesOldText ==
    /\ pc = "specialize"
    /\ pc' = "inline"
    /\ progress' \in {progress, progress \/ (Readable(file["opt"]) /\ file["opt"].specs < MaxSpecs)}
    /\ UNCHANGED <<opts, first, applied, killed, claimed, left>>
    /\ \E c \in Broken(file["opt"], file["tmp"]) \cup {file["opt"]} :
          file' = [file EXCEPT !["tmp"] = c]

\* A specialization counts, unless one was thrown away before.
Claim(new) == claimed' = IF "inlineSpec" \in left THEN claimed ELSE claimed + new

\* -Ppeval: it prints its progress after its output was opened and before the
\* module is written, and then the writing, or a pass that comes later, may fail.
Specialize ==
    /\ pc = "specialize"
    /\ pc' = "inline"
    /\ progress' \in BOOLEAN
    /\ progress' => (Readable(file["opt"]) /\ file["opt"].specs < MaxSpecs)
    /\ UNCHANGED <<opts, first, applied, killed, left>>
    /\ \/ /\ Readable(file["opt"])
          /\ LET new == IF progress' THEN 1 ELSE 0
             IN  /\ file' = [file EXCEPT !["tmp"] = [file["opt"] EXCEPT !.specs = @ + new]]
                 /\ Claim(new)
       \/ /\ \E c \in Broken(file["opt"], file["tmp"]) :
                /\ progress' => c \in {Absent, Empty}
                /\ file' = [file EXCEPT !["tmp"] = c]
          /\ UNCHANGED claimed

InlineSpecialized == pc = "inline" /\ ForceInline("inlineSpec" \in opts, "inlineSpec", "decide")

\* Mutant of Decide: the module that -Ppeval left is kept.
DecideByTmp ==
    /\ pc = "decide"
    /\ IF progress
       THEN /\ pc' = "reoptimize"
            /\ first' = FALSE
            /\ UNCHANGED <<opts, file, progress, applied, claimed, killed, left>>
       ELSE Skip("finish")

\* Without progress the optimized module is the result, whatever came of tmp.
Decide ==
    /\ pc = "decide"
    /\ IF progress
       THEN /\ pc' = "reoptimize"
            /\ first' = FALSE
            /\ UNCHANGED <<opts, file, progress, applied, claimed, killed, left>>
       ELSE Copy("opt", "done", "finish")

\* The result is copied out, and the three temporary files are unlinked.
Finish ==
    /\ pc = "finish"
    /\ IF file["done"].kind = "absent"
       THEN pc' = "raised" /\ UNCHANGED file
       ELSE /\ pc' = "returned"
            /\ file' = [file EXCEPT !["output"] = file["done"],
                           !["done"] = Absent, !["opt"] = Absent, !["tmp"] = Absent]
    /\ UNCHANGED <<opts, first, progress, applied, claimed, killed, left>>

PevalNext ==
    \/ Optimize \/ Devirt \/ InlineBounce \/ Ipdse \/ Clam \/ Policy
    \/ Reoptimize \/ Specialize \/ InlineSpecialized \/ Decide \/ Finish

PevalSpec == PevalInit("optimize") /\ [][PevalNext]_pevalVars

-----------------------------------------------------------------------------
\* peval hands out bitcode when it returns, unless the devirtualizer or the
\* inliner of its bounce functions was killed over its output.
PevalHandsOutBitcode ==
    pc = "returned" => Readable(file["output"]) \/ killed \cap {"devirt", "bounce"} # {}

\* Whatever tools failed, a module that peval hands out was made in this run, and
\* has the effect of every tool that ended well and every specialization, except
\* what an inliner lost that died before it opened its output: the one of the
\* bounce functions loses the devirtualizer's effect, the one of the specialized
\* functions some specializations.  (A module that slash left as an earlier run
\* had it is followed no further.)
EffectsKept ==
    pc = "returned" /\ Readable(file["output"]) /\ left \cap SlashTools = {} =>
        /\ file["output"].run = "this"
        /\ applied \ file["output"].stages \subseteq IF "bounce" \in left THEN {"devirt"} ELSE {}
        /\ "inlineSpec" \in left \/ file["output"].specs = claimed
=============================================================================
