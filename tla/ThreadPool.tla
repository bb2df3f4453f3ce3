----------------------------- MODULE ThreadPool -----------------------------
(***************************************************************************)
(* razor/pool.py: the work queue through which the driver runs one step of *)
(* the pipeline over all bitcode modules.                                  *)
(*                                                                         *)
(* The main thread calls map() again and again.  One call puts a closure   *)
(* per argument on the queue of the pool and then acquires a semaphore of  *)
(* its own once per argument.  A worker takes closures from the queue; a   *)
(* closure stores f(args[i]) and releases the semaphore.  When f raises,   *)
(* the closure calls sys.exit, which ends the worker after the release.    *)
(* _start starts the workers once, on the first call, and a worker that    *)
(* ended is never replaced.                                                *)
(*                                                                         *)
(* _start builds a list of exactly one worker, whatever the count given to *)
(* the constructor; Workers is that list.  The bodies f of the tasks are   *)
(* abstracted to whether they return or raise.                             *)
(***************************************************************************)
EXTENDS Integers, Sequences, FiniteSets

CONSTANTS
    Workers,      \* self.workers
    MaxArgs,      \* bound: the longest argument list of a call
    MaxCalls,     \* bound: the number of calls of map()
    MayFail       \* whether a task may raise

ASSUME WorkersAssumption == IsFiniteSet(Workers) /\ Workers # {}
ASSUME BoundsAssumption == MaxArgs \in Nat /\ MaxCalls \in Nat
ASSUME MayFailAssumption == MayFail \in BOOLEAN

NoTask == 0
Tasks == 1..MaxArgs

VARIABLES
    main,         \* main thread: "idle", or inside map(): "put" or "acquire"
    calls,        \* how many calls of map() were made
    nargs,        \* len(args) of the current (or last) call
    put,          \* how many closures the current call has put on the queue
    queue,        \* self.queue: the closures, by the slot they fill
    sem,          \* value of the semaphore of the current call
    acquired,     \* how often the main thread acquired it
    wstate,       \* "unstarted", "get", "run", "release", "leave", "dead"
    wtask,        \* the slot the worker's closure fills
    result,       \* the slots result[i] that were assigned
    failed,       \* the slots whose closure raised
    released      \* the slots whose closure released the semaphore

mainVars == <<main, calls, nargs, put, acquired>>
workVars == <<wstate, wtask>>
slotVars == <<result, failed, released>>
vars == <<mainVars, queue, sem, workVars, slotVars>>

MainStates == {"idle", "put", "acquire"}
WorkerStates == {"unstarted", "get", "run", "release", "leave", "dead"}

TypeOK ==
    /\ main \in MainStates
    /\ calls \in 0..MaxCalls
    /\ nargs \in 0..MaxArgs
    /\ put \in 0..nargs
    /\ queue \in Seq(Tasks)
    /\ sem \in Nat
    /\ acquired \in 0..MaxArgs
    /\ wstate \in [Workers -> WorkerStates]
    /\ wtask \in [Workers -> 0..MaxArgs]
    /\ result \subseteq Tasks
    /\ failed \subseteq Tasks
    /\ released \subseteq Tasks

Init ==
    /\ main = "idle"
    /\ calls = 0
    /\ nargs = 0
    /\ put = 0
    /\ queue = <<>>
    /\ sem = 0
    /\ acquired = 0
    /\ wstate = [w \in Workers |-> "unstarted"]
    /\ wtask = [w \in Workers |-> NoTask]
    /\ result = {}
    /\ failed = {}
    /\ released = {}

-----------------------------------------------------------------------------
(* The main thread, inside map().                                          *)

\* _start(): the workers are created when self.workers is None, that is once.
Started == [w \in Workers |-> IF wstate[w] = "unstarted" THEN "get" ELSE wstate[w]]

\* Mutant of EnterMap: map() does not call _start().
EnterMapWithoutStart(n) ==
    /\ main = "idle"
    /\ calls < MaxCalls
    /\ main' = "put"
    /\ calls' = calls + 1
    /\ nargs' = n
    /\ put' = 0
    /\ sem' = 0
    /\ acquired' = 0
    /\ result' = {}
    /\ failed' = {}
    /\ released' = {}
    /\ UNCHANGED <<queue, workVars>>

\* map() is entered: the workers run, result is a fresh list of None, the
\* semaphore is a fresh one with value 0.
EnterMap(n) ==
    /\ main = "idle"
    /\ calls < MaxCalls
    /\ main' = "put"
    /\ calls' = calls + 1
    /\ nargs' = n
    /\ put' = 0
    /\ sem' = 0
    /\ acquired' = 0
    /\ wstate' = Started
    /\ result' = {}
    /\ failed' = {}
    /\ released' = {}
    /\ UNCHANGED <<queue, wtask>>

\* The first loop of map(): self.queue.put(func(i)), in the order of args.
PutTask ==
    /\ main = "put"
    /\ put < nargs
    /\ put' = put + 1
    /\ queue' = Append(queue, put + 1)
    /\ UNCHANGED <<main, calls, nargs, acquired, sem, workVars, slotVars>>

PutDone ==
    /\ main = "put"
    /\ put = nargs
    /\ main' = "acquire"
    /\ UNCHANGED <<calls, nargs, put, acquired, queue, sem, workVars, slotVars>>

\* Mutant of Acquire: the semaphore is acquired without blocking.
AcquireNonBlocking ==
    /\ main = "acquire"
    /\ acquired < nargs
    /\ sem' = sem - 1
    /\ acquired' = acquired + 1
    /\ UNCHANGED <<main, calls, nargs, put, queue, workVars, slotVars>>

\* The second loop of map(): sem.acquire(True), once per argument.
Acquire ==
    /\ main = "acquire"
    /\ acquired < nargs
    /\ sem > 0
    /\ sem' = sem - 1
    /\ acquired' = acquired + 1
    /\ UNCHANGED <<main, calls, nargs, put, queue, workVars, slotVars>>

ReturnMap ==
    /\ main = "acquire"
    /\ acquired = nargs
    /\ main' = "idle"
    /\ UNCHANGED <<calls, nargs, put, acquired, queue, sem, workVars, slotVars>>

-----------------------------------------------------------------------------
(* A worker.                                                               *)

\* f = self.queue.get(True)
Get(w) ==
    /\ wstate[w] = "get"
    /\ queue # <<>>
    /\ wtask' = [wtask EXCEPT ![w] = Head(queue)]
    /\ queue' = Tail(queue)
    /\ wstate' = [wstate EXCEPT ![w] = "run"]
    /\ UNCHANGED <<mainVars, sem, slotVars>>

\* Mutant of TaskReturns: the closure captures the loop variable, not its value.
TaskReturnsLateBinding(w) ==
    /\ wstate[w] = "run"
    /\ result' = result \cup {put}
    /\ wstate' = [wstate EXCEPT ![w] = "release"]
    /\ UNCHANGED <<mainVars, queue, sem, wtask, failed, released>>

\* result[i] = f(args[i])
TaskReturns(w) ==
    /\ wstate[w] = "run"
    /\ result' = result \cup {wtask[w]}
    /\ wstate' = [wstate EXCEPT ![w] = "release"]
    /\ UNCHANGED <<mainVars, queue, sem, wtask, failed, released>>

\* f(args[i]) raises; the handler prints the trace and calls sys.exit(1).
TaskRaises(w) ==
    /\ MayFail
    /\ wstate[w] = "run"
    /\ failed' = failed \cup {wtask[w]}
    /\ wstate' = [wstate EXCEPT ![w] = "release"]
    /\ UNCHANGED <<mainVars, queue, sem, wtask, result, released>>

\* finally: sem.release()
Release(w) ==
    /\ wstate[w] = "release"
    /\ sem' = sem + 1
    /\ released' = released \cup {wtask[w]}
    /\ wstate' = [wstate EXCEPT ![w] = IF wtask[w] \in failed THEN "leave" ELSE "get"]
    /\ wtask' = [wtask EXCEPT ![w] = NoTask]
    /\ UNCHANGED <<mainVars, queue, result, failed>>

\* The SystemExit of sys.exit(1) leaves Worker.run: the thread ends.
Leave(w) ==
    /\ wstate[w] = "leave"
    /\ wstate' = [wstate EXCEPT ![w] = "dead"]
    /\ UNCHANGED <<mainVars, queue, sem, wtask, slotVars>>

-----------------------------------------------------------------------------
MainStep ==
    \/ \E n \in 0..MaxArgs : EnterMap(n)
    \/ PutTask
    \/ PutDone
    \/ Acquire
    \/ ReturnMap

WorkerStep(w) ==
    \/ Get(w)
    \/ TaskReturns(w)
    \/ TaskRaises(w)
    \/ Release(w)
    \/ Leave(w)

Next == MainStep \/ \E w \in Workers : WorkerStep(w)

Spec == Init /\ [][Next]_vars

\* Both threads are scheduled by the interpreter: a thread that can step does.
FairSpec == Spec /\ WF_vars(MainStep) /\ \A w \in Workers : WF_vars(WorkerStep(w))

-----------------------------------------------------------------------------
(* Properties.                                                             *)

Busy == {w \in Workers : wstate[w] \in {"run", "release"}}

\* map() is a barrier: when it has returned, every closure of the call ran to
\* its end, so nothing of it is left on the queue or in a worker.  The next
\* pipeline step reads files every module's task of this step must have written.
Barrier ==
    main = "idle" => /\ released = 1..nargs
                     /\ queue = <<>>
                     /\ Busy = {}

\* The semaphore counts exactly the finished closures of the current call: a
\* closure of an earlier call can never release the semaphore of this one.
SemaphoreCounts == sem + acquired = Cardinality(released)

\* A hole (None) in the list map() returns stands for a task that raised, and
\* every task that raised leaves a hole: any(rws) in Slash.run reads that list.
HolesAreFailures == main = "idle" => 1..nargs \ result = failed

\* The main thread waits forever only because a task raised: with all workers
\* alive there is always a closure or a release to come.
WaitingForEver ==
    /\ main = "acquire"
    /\ acquired < nargs
    /\ sem = 0
    /\ Busy = {}
    /\ \A w \in Workers : wstate[w] = "get" => queue = <<>>
StuckOnlyAfterFailure == WaitingForEver => \E w \in Workers : wstate[w] \in {"leave", "dead"}

\* The list a call returned is final: no late task stores into it afterwards.
ReturnedListIsFinal ==
    [][main = "idle" => result' = result \/ calls' > calls]_vars

\* Every call of map() returns, unless a failed task ended a worker.
MapReturns ==
    (main # "idle") ~> (main = "idle" \/ \E w \in Workers : wstate[w] \in {"leave", "dead"})

\* A call in which a task raised still returns to its caller.  razor/pool.py
\* replaced an exit of the whole process by sys.exit in the worker ("was _exit").
FailedCallReturns == (failed # {}) ~> (main = "idle")

\* The pool implements the parallel map its callers rely on.
Abstract == INSTANCE ParallelMap WITH
                Tasks <- MaxArgs,
                active <- main # "idle",
                todo <- 1..nargs \ released
ImplementsParallelMap == Abstract!MapSpec
=============================================================================
