----------------------------- MODULE FileVersions -----------------------------
(***************************************************************************)
(* razor/slash.py: run, and razor/provenance.py, as what happens to the    *)
(* files of one module, in one run of slash and in a second one in the     *)
(* same working directory.  Every stage names a new file with m.new() and  *)
(* then runs a tool that is to write it; m.get() names it from then on,    *)
(* whether the tool wrote it or not.                                       *)
(*                                                                         *)
(* A task of the pool that raises leaves slash waiting (ThreadPool.tla),   *)
(* until it is interrupted; an exception of the main thread ends it.       *)
(***************************************************************************)
EXTENDS Peval, Sequences

CONSTANTS
    MaxFixpoint,   \* max_fixpoint_iterations (10 in the code)
    MaxRuns,       \* bound: the runs in the working directory
    Options        \* pairs of peval's options and slash's

Flags == {"arguments", "prime", "interspec", "strip", "amalgamate", "mc_dce"}

ASSUME MaxFixpointAssumption == MaxFixpoint \in Nat \ {0}
ASSUME OptionsAssumption == Options \subseteq PevalOptions \X SUBSET Flags

VARIABLES
    runs,          \* the runs begun
    flags,         \* the options of this one
    stage,         \* the stage that comes next
    iteration,     \* the iterations of the fixpoint begun
    again,         \* progress: whether inter-module rewriting changed a module
    path,          \* FileStream._versions: the suffixes of the name m.get()
    version,       \* what is in the file of that name
    curfile,       \* mc_dce: what is in the file of the next query
    binary,        \* the program the linker made
    linked,        \* whether the last link succeeded
    final,         \* the "-final" link: the name it holds, and if that exists
    outcome        \* "running", "returned" (0), "raised" or "waiting"

slashVars == <<runs, flags, stage, iteration, again, path, version, curfile,
               binary, linked, final, outcome>>
vars == <<pevalVars, slashVars>>

NoLink == [name |-> <<>>, there |-> FALSE]

\* What a new name may find in the directory.
Stale == [Source EXCEPT !.run = "earlier"]
Leftover == IF runs > 1 THEN {Absent, Stale} ELSE {Absent}

\* populate_work_dir copies the input.
Begin ==
    /\ stage' = "arguments"
    /\ iteration' = 0
    /\ again' = TRUE
    /\ path' = <<>>
    /\ version' = Source
    /\ curfile' = Absent
    /\ linked' = FALSE
    /\ outcome' = "running"

Init ==
    /\ PevalInit("idle")
    /\ runs = 1
    /\ flags \in SUBSET Flags
    /\ <<opts, flags>> \in Options
    /\ stage = "arguments"
    /\ iteration = 0
    /\ again = TRUE
    /\ path = <<>>
    /\ version = Source
    /\ curfile = Absent
    /\ binary = Absent
    /\ linked = FALSE
    /\ final = NoLink
    /\ outcome = "running"

\* Another run, with options of its own, after one that ended.
Rerun ==
    /\ outcome # "running"
    /\ runs < MaxRuns
    /\ runs' = runs + 1
    /\ \E o \in Options : opts' = o[1] /\ flags' = o[2]
    /\ Begin
    /\ binary' = IF Readable(binary) THEN Stale ELSE binary
    /\ pc' = "idle"
    /\ file' = Files(Source, Absent)
    /\ first' = TRUE
    /\ progress' = FALSE
    /\ applied' = {}
    /\ claimed' = 0
    /\ killed' = {}
    /\ left' = {}
    /\ UNCHANGED final

-----------------------------------------------------------------------------
At(s) == outcome = "running" /\ pc = "idle" /\ stage = s
Passed(next) == stage' = next /\ UNCHANGED outcome
Failed(how) == outcome' = how /\ UNCHANGED stage

\* The link's target exists once a file of its name is written.
Stored(name, c) ==
    final' = IF final.name = name THEN [final EXCEPT !.there = c.kind # "absent"] ELSE final

\* m.new(tag), and a file with that name.
NewVersion(tag, c) ==
    /\ path' = Append(path, tag)
    /\ version' = c
    /\ Stored(path', c)

SameVersion == UNCHANGED <<path, version, final>>

\* A tool reads m.get(), and writes the name that m.new(tag) gives.
ToolEndsWell(tag) ==
    /\ Readable(version)
    /\ NewVersion(tag, With(version, tag))
    /\ applied' = applied \cup {tag}
    /\ UNCHANGED left
ToolFails(tag) ==
    /\ \E old \in Leftover : \E c \in Broken(version, old) :
          /\ NewVersion(tag, c)
          /\ left' = IF Older(c, version) THEN left \cup {tag} ELSE left
    /\ UNCHANGED applied

StageKeeps ==
    /\ UNCHANGED <<opts, pc, file, first, progress, claimed, killed>>
    /\ UNCHANGED <<runs, flags, iteration, curfile, binary, linked>>

\* A stage whose tool raises on an error, in the main thread ("raised") or in
\* a task of the pool ("waiting").
CheckedStage(tag, next, how) ==
    /\ At(tag)
    /\ \/ ToolEndsWell(tag) /\ Passed(next)
       \/ ToolFails(tag) /\ Failed(how)
    /\ StageKeeps /\ UNCHANGED again

\* A stage whose tool's exit code is ignored.
UncheckedStage(s, tag, next) ==
    /\ At(s)
    /\ ToolEndsWell(tag) \/ ToolFails(tag)
    /\ Passed(next)
    /\ StageKeeps

\* A stage that reads the module and writes no version of it: -Pinterface.
ReadStage(s, next, how) ==
    /\ At(s)
    /\ \/ Readable(version) /\ Passed(next)
       \/ Failed(how)
    /\ SameVersion
    /\ StageKeeps /\ UNCHANGED <<applied, left, again>>

OmitStage(s, next) ==
    /\ At(s)
    /\ Passed(next)
    /\ SameVersion
    /\ StageKeeps /\ UNCHANGED <<applied, left, again>>

-----------------------------------------------------------------------------
\* The deployment: constraints of main, and the configuration prime.
Arguments ==
    IF "arguments" \in flags THEN CheckedStage("arguments", "prime", "raised")
    ELSE OmitStage("arguments", "references")

Prime ==
    IF "prime" \in flags THEN CheckedStage("prime", "references", "raised")
    ELSE OmitStage("prime", "references")

References == ReadStage("references", "internalize", "waiting")
Internalize == UncheckedStage("internalize", "internalize", "fixpoint") /\ UNCHANGED again

\* while progress: at most MaxFixpoint times.
Fixpoint ==
    /\ At("fixpoint")
    /\ iteration' = IF again THEN iteration + 1 ELSE iteration
    /\ again' = FALSE
    /\ stage' = IF again /\ iteration' <= MaxFixpoint THEN "intra" ELSE "strip"
    /\ SameVersion
    /\ UNCHANGED <<pevalVars, runs, flags, curfile, binary, linked, outcome>>

\* Mutant of IntraBegins: the input is named after m.new('p').
IntraReadsNewName ==
    /\ At("intra")
    /\ \E old \in Leftover :
          /\ file' = Files(old, old)
          /\ NewVersion("intra", old)
    /\ pc' = "optimize"
    /\ first' = TRUE
    /\ progress' = FALSE
    /\ UNCHANGED <<opts, applied, claimed, killed, left>>
    /\ UNCHANGED <<runs, flags, stage, iteration, again, curfile, binary, linked, outcome>>

\* intra: post = m.new('p'), and peval on the two names.
IntraBegins ==
    /\ At("intra")
    /\ \E old \in Leftover :
          /\ file' = Files(version, old)
          /\ NewVersion("intra", old)
    /\ pc' = "optimize"
    /\ first' = TRUE
    /\ progress' = FALSE
    /\ UNCHANGED <<opts, applied, claimed, killed, left>>
    /\ UNCHANGED <<runs, flags, stage, iteration, again, curfile, binary, linked, outcome>>

IntraRuns == outcome = "running" /\ PevalNext /\ UNCHANGED slashVars

\* The task ignores the code that peval returns.
IntraEnds ==
    /\ outcome = "running"
    /\ pc \in Ended
    /\ pc' = "idle"
    /\ file' = Files(Source, Absent)
    /\ version' = file["output"]
    /\ Stored(path, file["output"])
    /\ IF pc = "returned" THEN Passed("before") ELSE Failed("waiting")
    /\ UNCHANGED <<opts, first, progress, applied, claimed, killed, left>>
    /\ UNCHANGED <<runs, flags, iteration, again, path, curfile, binary, linked>>

\* passes.deep, in the main thread, before and after the inter-module part.
Before ==
    ReadStage("before", IF "interspec" \in flags THEN "interspec" ELSE "references2", "raised")

InterSpecialize == CheckedStage("interspec", "rewrite", "waiting")

\* The tasks' results are whether a tool printed that it made progress.
Rewrite == UncheckedStage("rewrite", "rewrite", "references2") /\ again' \in BOOLEAN

References2 == ReadStage("references2", "internalize2", "waiting")
Internalize2 == UncheckedStage("internalize2", "internalize", "after") /\ UNCHANGED again
After == ReadStage("after", "sealing", "raised")
Sealing == UncheckedStage("sealing", "sealing", "fixpoint") /\ UNCHANGED again

Strip ==
    IF "strip" \in flags THEN CheckedStage("strip", "link", "waiting")
    ELSE OmitStage("strip", "link")

-----------------------------------------------------------------------------
\* link: llvm-link raises; what clang++ raises is caught, and run goes on.
Link(s, next) ==
    /\ At(s)
    /\ UNCHANGED <<pevalVars, runs, flags, iteration, again, path, version, curfile, final>>
    /\ \/ /\ Readable(version)
          /\ binary' = version
          /\ linked' = TRUE
          /\ Passed(next)
       \/ /\ linked' = FALSE
          /\ UNCHANGED binary
          /\ Passed(next)
       \/ /\ "amalgamate" \in flags
          /\ UNCHANGED <<binary, linked>>
          /\ Failed("raised")

LinkProgram == Link("link", "ropgadget")

\* ROPgadget runs in the main thread; then the task of mc_dce names its output.
RopGadget ==
    IF "mc_dce" \notin flags \/ ~linked THEN OmitStage("ropgadget", "symlinks")
    ELSE /\ At("ropgadget")
         /\ UNCHANGED <<pevalVars, runs, flags, iteration, again, binary, linked>>
         /\ \/ /\ curfile' = version
               /\ \E old \in Leftover : NewVersion("mc_dce", old)
               /\ Passed("query")
            \/ /\ UNCHANGED curfile
               /\ SameVersion
               /\ Failed("raised")

\* seahorn on one function: the file stays, or the next one has the function
\* removed.  Every tool of it raises but the one that puts unreachable in, and
\* the optimizer after that one raises on what it left.
QueryProves ==
    /\ At("query")
    /\ curfile' = With(curfile, "mc_dce")
    /\ applied' = applied \cup {"mc_dce"}
    /\ SameVersion
    /\ UNCHANGED <<opts, pc, file, first, progress, claimed, killed, left>>
    /\ UNCHANGED <<runs, flags, stage, iteration, again, binary, linked, outcome>>

\* The exception is caught in the task; the output has not been written.
QueryRaises ==
    /\ At("query")
    /\ Passed("relink")
    /\ killed' = killed \cup {"mc_dce"}
    /\ SameVersion
    /\ UNCHANGED <<opts, pc, file, first, progress, applied, claimed, left>>
    /\ UNCHANGED <<runs, flags, iteration, again, curfile, binary, linked>>

\* After the last query the last file is copied to the output.
QueriesDone ==
    /\ At("query")
    /\ version' = curfile
    /\ Stored(path, curfile)
    /\ Passed("relink")
    /\ UNCHANGED path
    /\ StageKeeps /\ UNCHANGED <<applied, left, again>>

Relink == Link("relink", "symlinks")

\* An old link is removed if os.path.exists says so, which follows the link;
\* os.symlink raises on one that is there.  Then run returns 0.
Symlinks ==
    /\ At("symlinks")
    /\ IF final.name # <<>> /\ ~final.there
       THEN Failed("raised") /\ UNCHANGED final
       ELSE /\ final' = [name |-> path, there |-> version.kind # "absent"]
            /\ outcome' = "returned"
            /\ UNCHANGED stage
    /\ UNCHANGED <<path, version>>
    /\ StageKeeps /\ UNCHANGED <<applied, left, again>>

SlashNext ==
    \/ Arguments \/ Prime \/ References \/ Internalize \/ Fixpoint
    \/ IntraBegins \/ IntraRuns \/ IntraEnds
    \/ Before \/ InterSpecialize \/ Rewrite \/ References2 \/ Internalize2
    \/ After \/ Sealing \/ Strip
    \/ LinkProgram \/ RopGadget \/ QueryProves \/ QueryRaises \/ QueriesDone
    \/ Relink \/ Symlinks

Terminated == outcome # "running" /\ runs = MaxRuns /\ UNCHANGED vars
Next == SlashNext \/ Rerun \/ Terminated

Spec == Init /\ [][Next]_vars
FairSpec == Spec /\ WF_vars(SlashNext)

-----------------------------------------------------------------------------
\* When slash returns 0, its last version is bitcode of this run with all that
\* its tools did, unless mc_dce failed, the module was left unstripped and could
\* not be linked, or a tool died before it opened its output and its exit code is
\* ignored: internalization, rewriting or sealing leave a module of an earlier run
\* then, and the inliners lose what EffectsKept says.
FinalIsWhole ==
    outcome = "returned" =>
        \/ /\ Readable(version) /\ version.run = "this"
           /\ applied \ version.stages \subseteq IF "bounce" \in left THEN {"devirt"} ELSE {}
           /\ "inlineSpec" \in left \/ version.specs = claimed
        \/ left \cap SlashTools # {}
        \/ "mc_dce" \in killed
        \/ "strip" \notin flags /\ ~linked

\* Slash ends, unless round after round -Ppeval makes progress and peval starts the
\* next one from the module it had before: -Ppeval failed after it printed that it
\* made progress, or the inliner of the specialized functions died before it opened
\* its output, and the inliner's exit code is ignored.
RoundLost ==
    pc = "decide" /\ progress /\ Readable(file["done"]) /\ file["done"] # file["tmp"]
SlashEnds == (outcome = "running" ~> outcome # "running") \/ []<>RoundLost

\* slash.py:625, "Make symlinks for the "final" versions": when it returns 0,
\* the link names a file.
FinalLinkResolves == outcome = "returned" => final.there
=============================================================================
