------------------------------- MODULE Driver -------------------------------
(***************************************************************************)
(* razor/driver.py: one call of previrt_progress or run, with the child    *)
(* process it starts, the two pipes, and the echo threads (razor/echo.py)  *)
(* that copy them to a string buffer (razor/stringbuffer.py).              *)
(*                                                                         *)
(* A call is "progress" (previrt_progress), "run" (run without a buffer)   *)
(* or "buffer" (run with a buffer and without failing on an error, as      *)
(* passes.seahorn calls it).  The child prints the lines of a script, each *)
(* to "out" or "err", and may stop before the end.                         *)
(***************************************************************************)
EXTENDS Integers, Sequences, SequencesExt, FiniteSets

CONSTANTS
    Calls,         \* the calls: a subset of {"progress", "run", "buffer"}
    Scripts,       \* what a child may print: sequences of <<stream, line>>
    NonAscii,      \* the lines with a byte that is not ASCII
    Capacity       \* the lines a pipe holds

Streams == {"out", "err"}
Lines == UNION {{p[2] : p \in Range(s)} : s \in Scripts}

ASSUME CallsAssumption == Calls \subseteq {"progress", "run", "buffer"}
ASSUME CapacityAssumption == Capacity \in Nat \ {0}
ASSUME ScriptsAssumption == \A s \in Scripts : s \in Seq(Streams \X Lines)

VARIABLES
    call,          \* the call being made
    script,        \* what the child has still to print
    printed,       \* what it has printed
    pipe,          \* the two pipes
    code,          \* its exit code, -1 while it runs
    echo,          \* the echo threads: "absent", "reading", "done" or "dead"
    buffer,        \* the string buffer, in the order of the appends
    closed,        \* whether it has been read and closed
    main,          \* the caller: "join", "wait", "read", "returned" or "raised"
    text           \* what the caller read

vars == <<call, script, printed, pipe, code, echo, buffer, closed, main, text>>
child == <<script, printed, code>>

HasBuffer == call # "run"

-----------------------------------------------------------------------------
\* Popen, and an echo thread for stderr; run has one for stdout if there is a
\* buffer.
Init ==
    /\ call \in Calls
    /\ script \in Scripts
    /\ printed = [s \in Streams |-> <<>>]
    /\ pipe = [s \in Streams |-> <<>>]
    /\ code = -1
    /\ echo = [s \in Streams |-> IF s = "err" \/ call = "buffer" THEN "reading" ELSE "absent"]
    /\ buffer = <<>>
    /\ closed = FALSE
    /\ main = IF call = "progress" THEN "join" ELSE "wait"
    /\ text = <<>>

\* The child blocks on a full pipe.
ChildPrints ==
    /\ code = -1
    /\ script # <<>>
    /\ LET s == Head(script)[1]
           line == Head(script)[2]
       IN  /\ Len(pipe[s]) < Capacity
           /\ pipe' = [pipe EXCEPT ![s] = Append(@, line)]
           /\ printed' = [printed EXCEPT ![s] = Append(@, line)]
    /\ script' = Tail(script)
    /\ UNCHANGED <<call, code, echo, buffer, closed, main, text>>

\* It exits when it has printed all, or it crashes; not while it is blocked.
ChildExits ==
    /\ code = -1
    /\ script # <<>> => Len(pipe[Head(script)[1]]) < Capacity
    /\ code' = IF script = <<>> THEN 0 ELSE 1
    /\ UNCHANGED <<call, script, printed, pipe, echo, buffer, closed, main, text>>

\* Mutant of EchoReads: the thread copies one line.
EchoReadsOne(s) ==
    /\ echo[s] = "reading"
    /\ pipe[s] # <<>>
    /\ pipe' = [pipe EXCEPT ![s] = Tail(@)]
    /\ buffer' = IF HasBuffer /\ ~closed THEN Append(buffer, Head(pipe[s])) ELSE buffer
    /\ echo' = [echo EXCEPT ![s] = "dead"]
    /\ UNCHANGED <<call, child, closed, main, text>>

\* thread_main: the append raises, and ends the thread, if the buffer is closed
\* or unicode(line) cannot decode the line.
EchoReads(s) ==
    /\ echo[s] = "reading"
    /\ pipe[s] # <<>>
    /\ pipe' = [pipe EXCEPT ![s] = Tail(@)]
    /\ IF HasBuffer /\ (closed \/ Head(pipe[s]) \in NonAscii)
       THEN echo' = [echo EXCEPT ![s] = "dead"] /\ buffer' = buffer
       ELSE echo' = echo /\ buffer' = IF HasBuffer THEN Append(buffer, Head(pipe[s])) ELSE buffer
    /\ UNCHANGED <<call, child, closed, main, text>>

\* readline returns '' once the child has exited and the pipe is empty.
EchoEnds(s) ==
    /\ echo[s] = "reading"
    /\ pipe[s] = <<>>
    /\ code # -1
    /\ echo' = [echo EXCEPT ![s] = "done"]
    /\ UNCHANGED <<call, child, pipe, buffer, closed, main, text>>

\* Mutant of Join: the echo thread is not waited for.
JoinNothing ==
    /\ main = "join"
    /\ main' = "wait"
    /\ UNCHANGED <<call, child, pipe, echo, buffer, closed, text>>

\* eobj.wait(), which also ends when the thread has died.
Join ==
    /\ main = "join"
    /\ echo["err"] \in {"done", "dead"}
    /\ main' = "wait"
    /\ UNCHANGED <<call, child, pipe, echo, buffer, closed, text>>

\* proc.wait(); run raises ReturnCode if it must fail on an error.
Wait ==
    /\ main = "wait"
    /\ code # -1
    /\ main' = IF call = "run" THEN IF code = 0 THEN "returned" ELSE "raised" ELSE "read"
    /\ UNCHANGED <<call, child, pipe, echo, buffer, closed, text>>

\* Mutant of ReadBuffer: the buffer is closed before its value is taken, which raises.
ReadBufferClosed ==
    /\ main = "read"
    /\ main' = "error"
    /\ closed' = TRUE
    /\ UNCHANGED <<call, child, pipe, echo, buffer, text>>

\* str(sb), in previrt_progress or, after run has returned, in seahorn.
ReadBuffer ==
    /\ main = "read"
    /\ main' = "returned"
    /\ text' = buffer
    /\ closed' = TRUE
    /\ UNCHANGED <<call, child, pipe, echo, buffer>>

Main == Join \/ Wait \/ ReadBuffer
Echo(s) == EchoReads(s) \/ EchoEnds(s)
Child == ChildPrints \/ ChildExits

Next == Main \/ Child \/ \E s \in Streams : Echo(s)

Spec == Init /\ [][Next]_vars

\* The child and the threads are scheduled by the operating system; a child
\* that is not blocked goes on, and exits at the end.
FairSpec == Spec /\ WF_vars(Main) /\ WF_vars(Child) /\ \A s \in Streams : WF_vars(Echo(s))

-----------------------------------------------------------------------------
(* Properties.                                                             *)

TypeOK ==
    /\ call \in Calls
    /\ script \in Seq(Streams \X Lines)
    /\ printed \in [Streams -> Seq(Lines)]
    /\ pipe \in [Streams -> Seq(Lines)]
    /\ \A s \in Streams : Len(pipe[s]) <= Capacity
    /\ code \in {-1, 0, 1}
    /\ echo \in [Streams -> {"absent", "reading", "done", "dead"}]
    /\ buffer \in Seq(Lines)
    /\ closed \in BOOLEAN
    /\ main \in {"join", "wait", "read", "returned", "raised"}
    /\ text \in Seq(Lines)

\* "'...progress...' in progress" is decided on all the child wrote to stderr,
\* whatever the threads did in between: no line is still in the pipe.  If it wrote
\* a line that is not ASCII, it is decided on the lines before that one.
ProgressIsComplete ==
    call = "progress" /\ main = "returned" =>
        \/ text = printed["err"]
        \/ \E i \in 1..Len(printed["err"]) :
               printed["err"][i] \in NonAscii /\ text = SubSeq(printed["err"], 1, i - 1)

\* The child waits on a pipe that nobody empties only if the call has no
\* thread for stdout and the child printed more to it than a pipe holds, or it
\* printed a line that is not ASCII, on which the pipe's thread died.
BlockedOnUnreadPipe ==
    code = -1 /\ script # <<>> /\ Len(pipe[Head(script)[1]]) = Capacity
        /\ echo[Head(script)[1]] # "reading" =>
        \/ /\ Head(script)[1] = "out" /\ call # "buffer"
           /\ Len(printed["out"]) >= Capacity
        \/ /\ HasBuffer
           /\ \E i \in 1..Len(printed[Head(script)[1]]) : printed[Head(script)[1]][i] \in NonAscii

\* The lines of a stream that no thread takes from its pipe, if the child prints
\* its whole script: all of them, or those behind one that is not ASCII.
NeverRead(s) ==
    LET lines == SelectSeq(script, LAMBDA p : p[1] = s)
    IN  IF echo[s] = "absent" THEN DOMAIN lines
        ELSE {i \in DOMAIN lines : HasBuffer /\ \E j \in 1..(i - 1) : lines[j][2] \in NonAscii}

\* A child is waited for if what nobody reads fits into the pipes: the call comes
\* to an end.
Returns ==
    (\A s \in Streams : Cardinality(NeverRead(s)) <= Capacity)
        => <>(main \in {"returned", "raised"})

\* passes.py:553: 'SeaHorn got a counterexample' is what seahorn says when the
\* child exited with 0 and the text has no "unsat".
CounterexampleIsReal ==
    call = "buffer" /\ main = "returned" /\ code = 0 /\ "unsat" \notin Range(text) =>
        "unsat" \notin UNION {Range(printed[s]) : s \in Streams}
=============================================================================
