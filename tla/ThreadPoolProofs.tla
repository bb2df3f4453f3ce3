-------------------------- MODULE ThreadPoolProofs --------------------------
(***************************************************************************)
(* Proofs about the thread pool, for any finite set of workers, any number *)
(* of calls and any number of arguments.                                   *)
(*                                                                         *)
(* The closures of a call are put on the queue in the order of their       *)
(* slots, so that the queue is always an interval of slots and the slots   *)
(* before it are exactly those a worker took.  The inductive invariant IInv *)
(* says that each of these was released or is in the hands of one worker,  *)
(* and that the semaphore counts the released ones.                        *)
(***************************************************************************)
EXTENDS ThreadPool, FiniteSetTheorems, TLAPS

Taken == put - Len(queue)
Holder == {w \in Workers : wstate[w] = "release"}

QueueIsInterval ==
    /\ Len(queue) <= put
    /\ \A j \in 1..Len(queue) : queue[j] = Taken + j

TakenOnce ==
    /\ \A i \in 1..Taken : i \in released \/ \E w \in Busy : wtask[w] = i
    /\ released \subseteq 1..Taken
    /\ \A w \in Busy : wtask[w] \in 1..Taken \ released
    /\ \A w, x \in Busy : wtask[w] = wtask[x] => w = x

Outcomes ==
    /\ result \cup failed = released \cup {wtask[w] : w \in Holder}
    /\ result \cap failed = {}

Phases ==
    /\ acquired <= nargs
    /\ main = "acquire" => put = nargs
    /\ main = "idle" => put = nargs /\ acquired = nargs
    /\ main # "idle" => \A w \in Workers : wstate[w] # "unstarted"

IInv ==
    /\ TypeOK
    /\ QueueIsInterval
    /\ TakenOnce
    /\ Outcomes
    /\ SemaphoreCounts
    /\ Phases

-----------------------------------------------------------------------------
\* A worker that runs or releases a closure holds a slot of the current call.
LEMMA BusyHoldsTask ==
    ASSUME IInv, NEW w \in Workers, wstate[w] \in {"run", "release"}
    PROVE  wtask[w] \in Tasks /\ wtask[w] \in 1..put /\ wtask[w] \notin released
<1>1. wtask[w] \in 1..Taken \ released
  BY DEF IInv, TakenOnce, Busy
<1>2. Taken \in Int /\ Taken <= put /\ put <= MaxArgs
  BY BoundsAssumption DEF IInv, TypeOK, Taken
<1>3. QED
  BY <1>1, <1>2, BoundsAssumption DEF Tasks, IInv, TypeOK

\* Once every closure has been put and the semaphore was acquired once per
\* argument, every closure was released: the reason why map() is a barrier.
LEMMA AllReleased ==
    ASSUME IInv, put = nargs, acquired = nargs
    PROVE  released = 1..nargs /\ queue = <<>> /\ Busy = {}
<1> USE BoundsAssumption DEF IInv, TypeOK, Tasks
<1>1. released \subseteq 1..nargs
  BY DEF TakenOnce, Taken
<1>2. IsFiniteSet(1..nargs) /\ Cardinality(1..nargs) = nargs
  BY FS_Interval
<1>3. IsFiniteSet(released) /\ Cardinality(released) <= nargs
      /\ (Cardinality(released) = nargs => released = 1..nargs)
  BY <1>1, <1>2, FS_Subset
<1>4. Cardinality(released) = nargs
  BY <1>3, FS_CardinalityType DEF SemaphoreCounts
<1>5. released = 1..nargs
  BY <1>3, <1>4
<1>6. queue = <<>>
  <2>1. Len(queue) = 0
    <3> SUFFICES ASSUME Len(queue) # 0
                 PROVE  FALSE
      OBVIOUS
    <3>1. Len(queue) \in Nat /\ Len(queue) >= 1 /\ Len(queue) <= nargs
      BY DEF QueueIsInterval
    <3>2. nargs \in released
      BY <1>5, <3>1
    <3>3. nargs \notin 1..Taken
      BY <3>1 DEF Taken
    <3>4. QED
      BY <3>2, <3>3 DEF TakenOnce
  <2>2. QED
    BY <2>1
<1>7. Busy = {}
  <2> SUFFICES ASSUME NEW w \in Busy
               PROVE  FALSE
    OBVIOUS
  <2>1. wtask[w] \in 1..nargs /\ wtask[w] \notin released
    BY BusyHoldsTask DEF Busy
  <2>2. QED
    BY <2>1, <1>5
<1>8. QED
  BY <1>5, <1>6, <1>7

LEMMA IdleIsQuiet ==
    ASSUME IInv, main = "idle"
    PROVE  released = 1..nargs /\ queue = <<>> /\ Busy = {}
BY AllReleased DEF IInv, Phases

-----------------------------------------------------------------------------
(* Every step preserves each part of IInv.                                 *)

LEMMA TypeStep == IInv /\ [Next]_vars => TypeOK'
<1> USE BoundsAssumption, WorkersAssumption DEF TypeOK, Tasks, MainStates, WorkerStates
<1> SUFFICES ASSUME IInv, [Next]_vars
             PROVE  TypeOK'
  OBVIOUS
<1>0. TypeOK
  BY DEF IInv
<1>1. ASSUME NEW n \in 0..MaxArgs, EnterMap(n)
      PROVE  TypeOK'
  <2>1. wstate' \in [Workers -> WorkerStates]
    BY <1>0, <1>1 DEF EnterMap, Started
  <2>2. QED
    BY <1>0, <1>1, <2>1 DEF EnterMap
<1>2. CASE PutTask
  BY <1>0, <1>2 DEF PutTask, workVars, slotVars
<1>3. CASE PutDone
  BY <1>0, <1>3 DEF PutDone, workVars, slotVars
<1>4. CASE Acquire
  BY <1>0, <1>4 DEF Acquire, workVars, slotVars
<1>5. CASE ReturnMap
  BY <1>0, <1>5 DEF ReturnMap, workVars, slotVars
<1>6. ASSUME NEW w \in Workers, Get(w)
      PROVE  TypeOK'
  <2>1. Head(queue) \in Tasks /\ Tail(queue) \in Seq(Tasks)
    BY <1>0, <1>6 DEF Get
  <2>2. QED
    BY <1>0, <1>6, <2>1 DEF Get, mainVars, slotVars
<1>7. ASSUME NEW w \in Workers, TaskReturns(w)
      PROVE  TypeOK'
  <2>1. wtask[w] \in Tasks
    BY <1>7, BusyHoldsTask DEF TaskReturns
  <2>2. QED
    BY <1>0, <1>7, <2>1 DEF TaskReturns, mainVars
<1>8. ASSUME NEW w \in Workers, TaskRaises(w)
      PROVE  TypeOK'
  <2>1. wtask[w] \in Tasks
    BY <1>8, BusyHoldsTask DEF TaskRaises
  <2>2. QED
    BY <1>0, <1>8, <2>1 DEF TaskRaises, mainVars
<1>9. ASSUME NEW w \in Workers, Release(w)
      PROVE  TypeOK'
  <2>1. wtask[w] \in Tasks
    BY <1>9, BusyHoldsTask DEF Release
  <2>2. wstate' \in [Workers -> WorkerStates] /\ wtask' \in [Workers -> 0..MaxArgs]
    BY <1>0, <1>9 DEF Release, NoTask
  <2>3. sem' \in Nat
    BY <1>0, <1>9 DEF Release
  <2>4. released' \subseteq Tasks
    BY <1>0, <1>9, <2>1 DEF Release
  <2>5. UNCHANGED <<main, calls, nargs, put, acquired, queue, result, failed>>
    BY <1>9 DEF Release, mainVars
  <2> HIDE DEF MainStates, WorkerStates, Tasks
  <2>6. QED
    BY <1>0, <2>2, <2>3, <2>4, <2>5
<1>10. ASSUME NEW w \in Workers, Leave(w)
       PROVE  TypeOK'
  BY <1>0, <1>10 DEF Leave, mainVars, slotVars
<1>11. CASE UNCHANGED vars
  BY <1>0, <1>11 DEF vars, mainVars, workVars, slotVars
<1>12. QED
  BY <1>1, <1>2, <1>3, <1>4, <1>5, <1>6, <1>7, <1>8, <1>9, <1>10, <1>11
  DEF Next, MainStep, WorkerStep

LEMMA QueueStep == IInv /\ [Next]_vars => QueueIsInterval'
<1> USE DEF QueueIsInterval, Taken
<1> SUFFICES ASSUME IInv, [Next]_vars
             PROVE  QueueIsInterval'
  OBVIOUS
<1>0. TypeOK /\ QueueIsInterval
  BY DEF IInv
<1>1. ASSUME NEW n \in 0..MaxArgs, EnterMap(n)
      PROVE  QueueIsInterval'
  BY <1>1, IdleIsQuiet DEF EnterMap
<1>2. CASE PutTask
  <2>1. put + 1 \in Tasks /\ put' = put + 1 /\ queue' = Append(queue, put + 1)
    BY <1>0, <1>2, BoundsAssumption DEF PutTask, TypeOK, Tasks
  <2>2. queue \in Seq(Tasks) /\ put \in Nat
    BY <1>0, BoundsAssumption DEF TypeOK
  <2>3. Len(queue') = Len(queue) + 1
    BY <2>1, <2>2
  <2>4. \A j \in 1..Len(queue') :
            queue'[j] = IF j = Len(queue) + 1 THEN put + 1 ELSE queue[j]
    BY <2>1, <2>2
  <2>5. \A j \in 1..Len(queue') : queue'[j] = put' - Len(queue') + j
    BY <1>0, <2>1, <2>2, <2>3, <2>4
  <2>6. QED
    BY <1>0, <2>1, <2>2, <2>3, <2>5
<1>3. ASSUME NEW w \in Workers, Get(w)
      PROVE  QueueIsInterval'
  BY <1>0, <1>3 DEF Get, TypeOK, mainVars
<1>4. CASE UNCHANGED <<put, queue>>
  BY <1>0, <1>4
<1>5. QED
  BY <1>1, <1>2, <1>3, <1>4
  DEF Next, MainStep, WorkerStep, PutDone, Acquire, ReturnMap, TaskReturns, TaskRaises,
      Release, Leave, vars, mainVars

LEMMA TakenStep == IInv /\ [Next]_vars => TakenOnce'
<1> USE DEF TakenOnce, Taken, Busy
<1> SUFFICES ASSUME IInv, [Next]_vars
             PROVE  TakenOnce'
  OBVIOUS
<1>0. TypeOK /\ QueueIsInterval /\ TakenOnce
  BY DEF IInv
<1>1. ASSUME NEW n \in 0..MaxArgs, EnterMap(n)
      PROVE  TakenOnce'
  <2>1. queue = <<>> /\ queue' = <<>> /\ put' = 0 /\ released' = {} /\ wtask' = wtask
    BY <1>1, IdleIsQuiet DEF EnterMap
  <2>2. \A w \in Workers : wstate'[w] \notin {"run", "release"}
    BY <1>0, <1>1, IdleIsQuiet DEF EnterMap, Started, TypeOK
  <2>3. QED
    BY <2>1, <2>2
<1>2. CASE PutTask
  <2>1. put' - Len(queue') = put - Len(queue)
    BY <1>0, <1>2, BoundsAssumption DEF PutTask, TypeOK, Tasks
  <2>2. UNCHANGED <<wstate, wtask, released>>
    BY <1>2 DEF PutTask, workVars, slotVars
  <2>3. QED
    BY <1>0, <2>1, <2>2
<1>3. ASSUME NEW w \in Workers, Get(w)
      PROVE  TakenOnce'
  <2> DEFINE n == put - Len(queue) + 1
  <2>1. Head(queue) = n
    BY <1>0, <1>3 DEF Get, TypeOK, QueueIsInterval
  <2>2. put' - Len(queue') = n
    BY <1>0, <1>3 DEF Get, TypeOK, mainVars
  <2>3. n \in Nat /\ Taken \in Nat /\ n = Taken + 1
    <3>1. put \in Nat /\ Len(queue) \in Nat /\ Len(queue) <= put
      BY <1>0, BoundsAssumption DEF TypeOK, QueueIsInterval
    <3>2. QED
      BY <3>1
  <2>4. Busy' = Busy \cup {w} /\ w \notin Busy
    BY <1>0, <1>3 DEF Get, TypeOK
  <2>5. /\ wtask'[w] = n
        /\ \A x \in Busy : wtask'[x] = wtask[x]
        /\ released' = released
    BY <1>0, <1>3, <2>1, <2>4 DEF Get, TypeOK, slotVars
  <2> HIDE DEF n, Taken, Busy
  <2>6. Taken' = n
    BY <2>2 DEF Taken
  <2>7. 1..n = (1..Taken) \cup {n} /\ n \notin 1..Taken
    BY <2>3
  <2>8. QED
    BY <1>0, <2>4, <2>5, <2>6, <2>7
<1>4. ASSUME NEW w \in Workers, TaskReturns(w) \/ TaskRaises(w)
      PROVE  TakenOnce'
  <2>1. Busy' = Busy
    BY <1>0, <1>4 DEF TaskReturns, TaskRaises, TypeOK
  <2>2. UNCHANGED <<put, queue, wtask, released>>
    BY <1>4 DEF TaskReturns, TaskRaises, mainVars
  <2> HIDE DEF Busy
  <2>3. QED
    BY <1>0, <2>1, <2>2
<1>5. ASSUME NEW w \in Workers, Release(w)
      PROVE  TakenOnce'
  <2>1. Busy' = Busy \ {w} /\ w \in Busy
    BY <1>0, <1>5 DEF Release, TypeOK
  <2>2. released' = released \cup {wtask[w]} /\ \A x \in Workers \ {w} : wtask'[x] = wtask[x]
    BY <1>0, <1>5 DEF Release, TypeOK
  <2>3. UNCHANGED <<put, queue>>
    BY <1>5 DEF Release, mainVars
  <2>4. Busy \subseteq Workers
    OBVIOUS
  <2> HIDE DEF Busy
  <2>5. QED
    BY <1>0, <2>1, <2>2, <2>3, <2>4
<1>6. ASSUME NEW w \in Workers, Leave(w)
      PROVE  TakenOnce'
  <2>1. Busy' = Busy
    BY <1>0, <1>6 DEF Leave, TypeOK
  <2>2. UNCHANGED <<put, queue, wtask, released>>
    BY <1>6 DEF Leave, mainVars, slotVars
  <2> HIDE DEF Busy
  <2>3. QED
    BY <1>0, <2>1, <2>2
<1>7. CASE UNCHANGED <<put, queue, workVars, slotVars>>
  BY <1>0, <1>7 DEF workVars, slotVars
<1>8. QED
  BY <1>1, <1>2, <1>3, <1>4, <1>5, <1>6, <1>7
  DEF Next, MainStep, WorkerStep, PutDone, Acquire, ReturnMap, vars, mainVars

LEMMA OutcomesStep == IInv /\ [Next]_vars => Outcomes'
<1> USE DEF Outcomes, Holder
<1> SUFFICES ASSUME IInv, [Next]_vars
             PROVE  Outcomes'
  OBVIOUS
<1>0. TypeOK /\ TakenOnce /\ Outcomes
  BY DEF IInv
<1>1. ASSUME NEW n \in 0..MaxArgs, EnterMap(n)
      PROVE  Outcomes'
  <2>1. \A w \in Workers : wstate'[w] # "release"
    BY <1>0, <1>1, IdleIsQuiet DEF EnterMap, Started, TypeOK, Busy
  <2>2. QED
    BY <1>1, <2>1 DEF EnterMap
<1>2. ASSUME NEW w \in Workers, Get(w)
      PROVE  Outcomes'
  <2>1. Holder' = Holder /\ w \notin Holder
    BY <1>0, <1>2 DEF Get, TypeOK
  <2>2. \A x \in Holder : wtask'[x] = wtask[x]
    BY <1>0, <1>2, <2>1 DEF Get, TypeOK
  <2>3. UNCHANGED slotVars
    BY <1>2 DEF Get
  <2> HIDE DEF Holder
  <2>4. QED
    BY <1>0, <2>1, <2>2, <2>3 DEF slotVars
<1>3. ASSUME NEW w \in Workers, TaskReturns(w) \/ TaskRaises(w)
      PROVE  Outcomes'
  <2>1. Holder' = Holder \cup {w}
    BY <1>0, <1>3 DEF TaskReturns, TaskRaises, TypeOK
  <2>2. UNCHANGED <<wtask, released>>
    BY <1>3 DEF TaskReturns, TaskRaises
  <2>3. wtask[w] \notin result \cup failed
    <3>1. wtask[w] \notin released
      BY <1>3, BusyHoldsTask DEF TaskReturns, TaskRaises
    <3>2. \A x \in Holder : x \in Busy /\ w \in Busy /\ x # w
      BY <1>3 DEF TaskReturns, TaskRaises, Busy
    <3>3. QED
      BY <1>0, <3>1, <3>2 DEF TakenOnce
  <2>4. \/ result' = result \cup {wtask[w]} /\ failed' = failed
        \/ failed' = failed \cup {wtask[w]} /\ result' = result
    BY <1>3 DEF TaskReturns, TaskRaises
  <2> HIDE DEF Holder
  <2>5. QED
    BY <1>0, <2>1, <2>2, <2>3, <2>4
<1>4. ASSUME NEW w \in Workers, Release(w)
      PROVE  Outcomes'
  <2>1. Holder' = Holder \ {w} /\ w \in Holder
    BY <1>0, <1>4 DEF Release, TypeOK
  <2>2. \A x \in Holder \ {w} : wtask'[x] = wtask[x]
    BY <1>0, <1>4 DEF Release, TypeOK
  <2>3. released' = released \cup {wtask[w]} /\ UNCHANGED <<result, failed>>
    BY <1>4 DEF Release
  <2> HIDE DEF Holder
  <2>4. QED
    BY <1>0, <2>1, <2>2, <2>3
<1>5. ASSUME NEW w \in Workers, Leave(w)
      PROVE  Outcomes'
  <2>1. Holder' = Holder
    BY <1>0, <1>5 DEF Leave, TypeOK
  <2>2. UNCHANGED <<wtask, slotVars>>
    BY <1>5 DEF Leave
  <2> HIDE DEF Holder
  <2>3. QED
    BY <1>0, <2>1, <2>2 DEF slotVars
<1>6. CASE UNCHANGED <<workVars, slotVars>>
  BY <1>0, <1>6 DEF workVars, slotVars
<1>7. QED
  BY <1>1, <1>2, <1>3, <1>4, <1>5, <1>6
  DEF Next, MainStep, WorkerStep, PutTask, PutDone, Acquire, ReturnMap, vars

LEMMA SemaphoreStep == IInv /\ [Next]_vars => SemaphoreCounts'
<1> USE DEF SemaphoreCounts
<1> SUFFICES ASSUME IInv, [Next]_vars
             PROVE  SemaphoreCounts'
  OBVIOUS
<1>0. TypeOK /\ SemaphoreCounts
  BY DEF IInv
<1>1. IsFiniteSet(released) /\ Cardinality(released) \in Nat
  <2>1. IsFiniteSet(Tasks)
    BY FS_Interval, BoundsAssumption DEF Tasks
  <2>2. QED
    BY <1>0, <2>1, FS_Subset, FS_CardinalityType DEF TypeOK
<1>2. ASSUME NEW n \in 0..MaxArgs, EnterMap(n)
      PROVE  SemaphoreCounts'
  BY <1>2, FS_EmptySet DEF EnterMap
<1>3. CASE Acquire
  BY <1>0, <1>3 DEF Acquire, TypeOK, slotVars
<1>4. ASSUME NEW w \in Workers, Release(w)
      PROVE  SemaphoreCounts'
  <2>1. wtask[w] \notin released
    BY <1>4, BusyHoldsTask DEF Release
  <2>2. Cardinality(released \cup {wtask[w]}) = Cardinality(released) + 1
    BY <1>1, <2>1, FS_AddElement
  <2>3. QED
    BY <1>0, <1>1, <1>4, <2>2 DEF Release, mainVars, TypeOK
<1>5. CASE UNCHANGED <<sem, acquired, released>>
  BY <1>0, <1>5
<1>6. QED
  BY <1>2, <1>3, <1>4, <1>5
  DEF Next, MainStep, WorkerStep, PutTask, PutDone, ReturnMap, Get, TaskReturns, TaskRaises,
      Leave, vars, mainVars, slotVars

LEMMA PhasesStep == IInv /\ [Next]_vars => Phases'
<1> USE BoundsAssumption DEF Phases
<1> SUFFICES ASSUME IInv, [Next]_vars
             PROVE  Phases'
  OBVIOUS
<1>0. TypeOK /\ Phases
  BY DEF IInv
<1>1. ASSUME NEW n \in 0..MaxArgs, EnterMap(n)
      PROVE  Phases'
  BY <1>0, <1>1 DEF EnterMap, Started, TypeOK
<1>2. CASE PutTask \/ PutDone \/ Acquire \/ ReturnMap
  BY <1>0, <1>2 DEF PutTask, PutDone, Acquire, ReturnMap, TypeOK, workVars
<1>3. ASSUME NEW w \in Workers, WorkerStep(w)
      PROVE  Phases'
  <2>1. UNCHANGED <<main, nargs, put, acquired>>
    BY <1>3 DEF WorkerStep, Get, TaskReturns, TaskRaises, Release, Leave, mainVars
  <2>2. \A x \in Workers : wstate[x] # "unstarted" => wstate'[x] # "unstarted"
    BY <1>0, <1>3 DEF WorkerStep, Get, TaskReturns, TaskRaises, Release, Leave, TypeOK
  <2>3. QED
    BY <1>0, <2>1, <2>2
<1>4. CASE UNCHANGED vars
  BY <1>0, <1>4 DEF vars, mainVars, workVars
<1>5. QED
  BY <1>1, <1>2, <1>3, <1>4 DEF Next, MainStep

-----------------------------------------------------------------------------
\* IInv holds of every reachable state.
LEMMA Invariance == Spec => []IInv
<1>1. Init => IInv
  <2> SUFFICES ASSUME Init
               PROVE  IInv
    OBVIOUS
  <2> USE BoundsAssumption DEF Init
  <2>1. TypeOK
    BY DEF TypeOK, Tasks, MainStates, WorkerStates, NoTask
  <2>2. \A w \in Workers : wstate[w] = "unstarted"
    OBVIOUS
  <2>3. QueueIsInterval /\ TakenOnce
    BY <2>2 DEF QueueIsInterval, TakenOnce, Taken, Busy
  <2>4. Outcomes /\ Phases
    BY <2>2 DEF Outcomes, Holder, Phases
  <2>5. SemaphoreCounts
    BY FS_EmptySet DEF SemaphoreCounts
  <2>6. QED
    BY <2>1, <2>3, <2>4, <2>5 DEF IInv
<1>2. IInv /\ [Next]_vars => IInv'
  BY TypeStep, QueueStep, TakenStep, OutcomesStep, SemaphoreStep, PhasesStep DEF IInv
<1>3. QED
  BY <1>1, <1>2, PTL DEF Spec

\* The variables keep their types; the slots of running closures exist.
THEOREM TypeCorrect == Spec => []TypeOK
<1>1. IInv => TypeOK
  BY DEF IInv
<1>2. QED
  BY <1>1, Invariance, PTL

\* map() is a barrier for any number of workers, arguments and calls, and
\* whichever tasks raise.
THEOREM BarrierHolds == Spec => []Barrier
<1>1. IInv => Barrier
  BY IdleIsQuiet DEF Barrier
<1>2. QED
  BY <1>1, Invariance, PTL

\* The semaphore of a call counts the released closures of that call.
THEOREM SemaphoreIsExact == Spec => []SemaphoreCounts
<1>1. IInv => SemaphoreCounts
  BY DEF IInv
<1>2. QED
  BY <1>1, Invariance, PTL

\* A None in the returned list stands for a task that raised, and conversely.
THEOREM HolesAreExactlyFailures == Spec => []HolesAreFailures
<1>1. IInv => HolesAreFailures
  <2> SUFFICES ASSUME IInv, main = "idle"
               PROVE  1..nargs \ result = failed
    BY DEF HolesAreFailures
  <2>1. released = 1..nargs /\ Holder = {}
    BY IdleIsQuiet DEF Busy, Holder
  <2>2. result \cup failed = released /\ result \cap failed = {}
    BY <2>1 DEF IInv, Outcomes
  <2>3. QED
    BY <2>1, <2>2
<1>2. QED
  BY <1>1, Invariance, PTL

\* The main thread can wait for ever only after a task raised: as long as every
\* worker lives, a closure or a release is still to come.
THEOREM StuckNeedsFailure == Spec => []StuckOnlyAfterFailure
<1>1. IInv => StuckOnlyAfterFailure
  <2> SUFFICES ASSUME IInv, WaitingForEver,
                      \A w \in Workers : wstate[w] \notin {"leave", "dead"}
               PROVE  FALSE
    BY DEF StuckOnlyAfterFailure
  <2>1. \A w \in Workers : wstate[w] = "get"
    <3>1. \A w \in Workers : wstate[w] \in WorkerStates /\ wstate[w] # "unstarted"
      BY DEF WaitingForEver, IInv, Phases, TypeOK
    <3>2. \A w \in Workers : wstate[w] \notin {"run", "release"}
      BY DEF WaitingForEver, Busy
    <3>3. QED
      BY <3>1, <3>2 DEF WorkerStates
  <2>2. queue = <<>>
    BY <2>1, WorkersAssumption DEF WaitingForEver
  <2>3. Taken = nargs
    BY <2>2, BoundsAssumption DEF WaitingForEver, IInv, Phases, Taken, TypeOK
  <2>4. released = 1..nargs
    BY <2>3 DEF WaitingForEver, IInv, TakenOnce
  <2>5. Cardinality(released) = nargs
    BY <2>4, FS_Interval, BoundsAssumption DEF IInv, TypeOK
  <2>6. QED
    BY <2>5, BoundsAssumption DEF WaitingForEver, IInv, SemaphoreCounts, TypeOK
<1>2. QED
  BY <1>1, Invariance, PTL

\* No closure of a call stores into the list after the call returned.
THEOREM ReturnedListNeverChanges == Spec => ReturnedListIsFinal
<1>1. IInv /\ [Next]_vars => (main = "idle" => result' = result \/ calls' > calls)
  <2> SUFFICES ASSUME IInv, [Next]_vars, main = "idle"
               PROVE  result' = result \/ calls' > calls
    OBVIOUS
  <2>1. ASSUME NEW n \in 0..MaxArgs, EnterMap(n)
        PROVE  calls' > calls
    BY <2>1, BoundsAssumption DEF EnterMap, IInv, TypeOK
  <2>2. ASSUME NEW w \in Workers, TaskReturns(w)
        PROVE  FALSE
    BY <2>2, IdleIsQuiet DEF TaskReturns, Busy
  <2>3. QED
    BY <2>1, <2>2
    DEF Next, MainStep, WorkerStep, PutTask, PutDone, Acquire, ReturnMap, Get, TaskRaises,
        Release, Leave, vars, slotVars
<1>2. QED
  BY <1>1, Invariance, PTL DEF Spec, ReturnedListIsFinal

-----------------------------------------------------------------------------
\* The pool implements the parallel map of module ParallelMap: EnterMap is Call,
\* Release is Compute, ReturnMap is Return, and all other steps stutter.
THEOREM Refinement == Spec => ImplementsParallelMap
<1> USE DEF Abstract!mapVars, Abstract!MapNext
<1>1. Init => Abstract!MapInit
  BY DEF Init, Abstract!MapInit
<1>2. IInv /\ [Next]_vars => [Abstract!MapNext]_(Abstract!mapVars)
  <2> SUFFICES ASSUME IInv, [Next]_vars
               PROVE  [Abstract!MapNext]_(Abstract!mapVars)
    OBVIOUS
  <2>1. ASSUME NEW n \in 0..MaxArgs, EnterMap(n)
        PROVE  Abstract!Call
    BY <2>1 DEF EnterMap, Abstract!Call
  <2>2. ASSUME NEW w \in Workers, Release(w)
        PROVE  Abstract!Compute
    <3>1. main # "idle"
      BY <2>2, IdleIsQuiet DEF Release, Busy
    <3>2. wtask[w] \in 1..nargs \ released
      BY <2>2, BusyHoldsTask, BoundsAssumption DEF Release, IInv, TypeOK
    <3>3. 1..nargs' \ released' = (1..nargs \ released) \ {wtask[w]} /\ main' = main
      BY <2>2 DEF Release, mainVars
    <3>4. QED
      BY <3>1, <3>2, <3>3 DEF Abstract!Compute
  <2>3. CASE ReturnMap
    <3>1. released = 1..nargs
      BY <2>3, AllReleased DEF ReturnMap, IInv, Phases
    <3>2. QED
      BY <2>3, <3>1 DEF ReturnMap, slotVars, Abstract!Return
  <2>4. CASE PutTask \/ Acquire
    BY <2>4 DEF PutTask, Acquire, slotVars
  <2>5. CASE PutDone
    BY <2>5 DEF PutDone, slotVars
  <2>6. CASE UNCHANGED <<main, nargs, released>>
    BY <2>6
  <2>7. QED
    BY <2>1, <2>2, <2>3, <2>4, <2>5, <2>6
    DEF Next, MainStep, WorkerStep, Get, TaskReturns, TaskRaises, Leave, vars, mainVars, slotVars
<1>3. QED
  BY <1>1, <1>2, Invariance, PTL DEF Spec, ImplementsParallelMap, Abstract!MapSpec
=============================================================================
