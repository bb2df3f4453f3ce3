---------------------------- MODULE DriverProofs ----------------------------
(***************************************************************************)
(* previrt_progress decides on the whole of the child's stderr, up to a    *)
(* line that is not ASCII, for any child and any capacity of the pipes.    *)
(*                                                                         *)
(* The inductive invariant says where the lines are (NothingLost, Unread)  *)
(* and in which order the threads and the caller can end (Threads): the    *)
(* echo thread outlives the child, the caller outlives the echo thread,    *)
(* and only then is the buffer closed.                                     *)
(***************************************************************************)
EXTENDS Driver, TLAPS

\* The child printed a line that is not ASCII.
Undecodable(s) == \E i \in 1..Len(printed[s]) : printed[s][i] \in NonAscii

\* The lines on stderr are in the buffer and, behind it, in the pipe; those
\* before the one the thread died on are in the buffer.
NothingLost ==
    call = "progress" =>
        IF echo["err"] = "dead"
        THEN \E i \in 1..Len(printed["err"]) :
                printed["err"][i] \in NonAscii /\ buffer = SubSeq(printed["err"], 1, i - 1)
        ELSE buffer \o pipe["err"] = printed["err"]

\* What is in a pipe was printed.
PipesHoldPrinted ==
    \A s \in Streams : \A i \in 1..Len(pipe[s]) :
        \E j \in 1..Len(printed[s]) : printed[s][j] = pipe[s][i]

\* Nothing is taken from a pipe without a thread.
Unread ==
    \A s \in Streams : echo[s] = "absent" => pipe[s] = printed[s]

Threads ==
    /\ echo["err"] # "absent"
    /\ echo["out"] = "absent" <=> call # "buffer"
    /\ \A s \in Streams : echo[s] = "done" => code # -1 /\ pipe[s] = <<>>
    /\ \A s \in Streams : echo[s] = "dead" => HasBuffer /\ (closed \/ Undecodable(s))
    /\ closed => main = "returned"
    /\ main \in {"read", "returned", "raised"} => code # -1
    /\ call = "progress" /\ main # "join" => echo["err"] \in {"done", "dead"}

IInv == TypeOK /\ NothingLost /\ Unread /\ PipesHoldPrinted /\ Threads /\ ProgressIsComplete

-----------------------------------------------------------------------------
\* Moving the first element of one sequence to the end of another.
LEMMA MoveHead ==
    ASSUME NEW S, NEW b \in Seq(S), NEW p \in Seq(S), p # <<>>
    PROVE  Append(b, Head(p)) \o Tail(p) = b \o p
OBVIOUS

\* Appending behind a concatenation.
LEMMA AppendBehind ==
    ASSUME NEW S, NEW b \in Seq(S), NEW p \in Seq(S), NEW e \in S
    PROVE  b \o Append(p, e) = Append(b \o p, e)
OBVIOUS

\* What was in front of an appended element stays there.
LEMMA AppendKeeps ==
    ASSUME NEW S, NEW b \in Seq(S), NEW e \in S
    PROVE  /\ Append(b, e) \in Seq(S) /\ Len(Append(b, e)) = Len(b) + 1
           /\ Append(b, e)[Len(b) + 1] = e
           /\ \A i \in 1..Len(b) : /\ Append(b, e)[i] = b[i]
                                 /\ SubSeq(Append(b, e), 1, i - 1) = SubSeq(b, 1, i - 1)
OBVIOUS

\* The first element behind a sequence.
LEMMA HeadBehind ==
    ASSUME NEW S, NEW b \in Seq(S), NEW p \in Seq(S), p # <<>>
    PROVE  /\ Len(b) + 1 \in 1..Len(b \o p)
           /\ (b \o p)[Len(b) + 1] = Head(p)
           /\ SubSeq(b \o p, 1, Len(b)) = b
OBVIOUS

\* The next line of the script.
LEMMA NextLine ==
    ASSUME TypeOK, script # <<>>
    PROVE  /\ Head(script)[1] \in Streams
           /\ Head(script)[2] \in Lines
           /\ Tail(script) \in Seq(Streams \X Lines)
<1>1. Head(script) \in Streams \X Lines /\ Tail(script) \in Seq(Streams \X Lines)
  BY DEF TypeOK
<1> QED
  BY <1>1

\* Every action keeps the types.
LEMMA TypeStep == TypeOK /\ [Next]_vars => TypeOK'
<1> SUFFICES ASSUME TypeOK, [Next]_vars
             PROVE  TypeOK'
  OBVIOUS
<1>1. CASE ChildPrints
  <2> DEFINE s == Head(script)[1]
             line == Head(script)[2]
  <2>1. s \in Streams /\ line \in Lines /\ script' \in Seq(Streams \X Lines)
    BY <1>1, NextLine DEF ChildPrints
  <2>2. /\ pipe' = [pipe EXCEPT ![s] = Append(@, line)]
        /\ printed' = [printed EXCEPT ![s] = Append(@, line)]
        /\ Len(pipe[s]) < Capacity
    BY <1>1 DEF ChildPrints
  <2> HIDE DEF s, line
  <2>3. pipe' \in [Streams -> Seq(Lines)] /\ printed' \in [Streams -> Seq(Lines)]
    BY <2>1, <2>2 DEF TypeOK
  <2>4. \A t \in Streams : Len(pipe'[t]) <= Capacity
    BY <2>1, <2>2, CapacityAssumption DEF TypeOK
  <2> QED
    BY <1>1, <2>1, <2>3, <2>4 DEF ChildPrints, TypeOK
<1>2. CASE ChildExits
  BY <1>2 DEF ChildExits, TypeOK
<1>3. ASSUME NEW s \in Streams, EchoReads(s)
      PROVE  TypeOK'
  <2>1. Head(pipe[s]) \in Lines /\ Tail(pipe[s]) \in Seq(Lines) /\ Len(Tail(pipe[s])) <= Capacity
    BY <1>3, CapacityAssumption DEF EchoReads, TypeOK
  <2>2. pipe' \in [Streams -> Seq(Lines)] /\ \A t \in Streams : Len(pipe'[t]) <= Capacity
    BY <1>3, <2>1 DEF EchoReads, TypeOK
  <2>3. echo' \in [Streams -> {"absent", "reading", "done", "dead"}]
    BY <1>3 DEF EchoReads, TypeOK
  <2>4. buffer' \in Seq(Lines)
    <3>1. buffer' = buffer \/ buffer' = Append(buffer, Head(pipe[s]))
      BY <1>3, Zenon DEF EchoReads
    <3>2. buffer \in Seq(Lines)
      BY DEF TypeOK
    <3>3. Append(buffer, Head(pipe[s])) \in Seq(Lines)
      BY <2>1, <3>2
    <3> QED
      BY <3>1, <3>2, <3>3, Zenon
  <2>5. closed' \in BOOLEAN
    BY <1>3, Zenon DEF EchoReads, TypeOK
  <2>6. /\ call' \in Calls /\ script' \in Seq(Streams \X Lines)
        /\ printed' \in [Streams -> Seq(Lines)] /\ code' \in {-1, 0, 1}
        /\ main' \in {"join", "wait", "read", "returned", "raised"}
        /\ text' \in Seq(Lines)
    BY <1>3, Zenon DEF EchoReads, TypeOK, child
  <2> QED
    BY <2>2, <2>3, <2>4, <2>5, <2>6, Zenon DEF TypeOK
<1>4. ASSUME NEW s \in Streams, EchoEnds(s)
      PROVE  TypeOK'
  BY <1>4 DEF EchoEnds, TypeOK, child
<1>5. CASE Join
  BY <1>5 DEF Join, TypeOK, child
<1>6. CASE Wait
  BY <1>6 DEF Wait, TypeOK, child
<1>7. CASE ReadBuffer
  BY <1>7 DEF ReadBuffer, TypeOK, child
<1>8. CASE UNCHANGED vars
  BY <1>8 DEF vars, TypeOK
<1> QED
  BY <1>1, <1>2, <1>3, <1>4, <1>5, <1>6, <1>7, <1>8 DEF Next, Main, Child, Echo

\* The invariant holds at the start.
LEMMA InitInv == Init => IInv
<1> SUFFICES ASSUME Init
             PROVE  IInv
  OBVIOUS
<1>1. script \in Seq(Streams \X Lines)
  BY ScriptsAssumption DEF Init
<1>2. TypeOK
  <2>1. closed \in BOOLEAN
    BY Zenon DEF Init
  <2> QED
    BY <1>1, <2>1, CapacityAssumption DEF Init, TypeOK, Streams
<1>3. NothingLost /\ Unread /\ PipesHoldPrinted /\ ProgressIsComplete
  BY DEF Init, NothingLost, Unread, PipesHoldPrinted, ProgressIsComplete, Streams
<1>4. Threads
  BY CallsAssumption DEF Init, Threads, Streams
<1> QED
  BY <1>2, <1>3, <1>4 DEF IInv

\* Every action keeps the lines where the invariant says they are.
LEMMA LinesStep == IInv /\ [Next]_vars => NothingLost' /\ Unread'
<1> SUFFICES ASSUME IInv, [Next]_vars
             PROVE  NothingLost' /\ Unread'
  OBVIOUS
<1> USE DEF IInv
<1>1. CASE ChildPrints
  <2> DEFINE s == Head(script)[1]
             line == Head(script)[2]
  <2>1. s \in Streams /\ line \in Lines
    BY <1>1, NextLine DEF ChildPrints
  <2>2. /\ pipe' = [pipe EXCEPT ![s] = Append(@, line)]
        /\ printed' = [printed EXCEPT ![s] = Append(@, line)]
        /\ UNCHANGED <<call, echo, buffer>>
    BY <1>1 DEF ChildPrints
  <2> HIDE DEF s, line
  <2>3. NothingLost'
    <3>0. CASE echo["err"] = "dead"
      <4>1. \/ printed'["err"] = printed["err"]
            \/ printed'["err"] = Append(printed["err"], line)
        BY <2>1, <2>2 DEF TypeOK, Streams
      <4>2. printed["err"] \in Seq(Lines) /\ UNCHANGED <<call, echo, buffer>>
        BY <2>2 DEF TypeOK, Streams
      <4>3. ASSUME call = "progress"
            PROVE  \E i \in 1..Len(printed'["err"]) :
                      printed'["err"][i] \in NonAscii /\ buffer = SubSeq(printed'["err"], 1, i - 1)
        <5>1. PICK i \in 1..Len(printed["err"]) :
                 printed["err"][i] \in NonAscii /\ buffer = SubSeq(printed["err"], 1, i - 1)
          BY <3>0, <4>3 DEF NothingLost
        <5>2. CASE printed'["err"] = printed["err"]
          BY <5>1, <5>2
        <5>3. CASE printed'["err"] = Append(printed["err"], line)
          <6>1. /\ i \in 1..Len(printed'["err"]) /\ printed'["err"][i] = printed["err"][i]
                /\ SubSeq(printed'["err"], 1, i - 1) = SubSeq(printed["err"], 1, i - 1)
            BY <2>1, <4>2, <5>3, AppendKeeps
          <6> QED
            BY <5>1, <6>1
        <5> QED
          BY <4>1, <5>2, <5>3
      <4> QED
        BY <3>0, <4>2, <4>3 DEF NothingLost
    <3>1. CASE echo["err"] # "dead" /\ s = "err"
      <4>1. pipe'["err"] = Append(pipe["err"], line) /\ printed'["err"] = Append(printed["err"], line)
        BY <2>1, <2>2, <3>1 DEF TypeOK, Streams
      <4>2. buffer \o Append(pipe["err"], line) = Append(buffer \o pipe["err"], line)
        BY <2>1, AppendBehind DEF TypeOK, Streams
      <4> QED
        BY <2>2, <3>1, <4>1, <4>2 DEF NothingLost
    <3>2. CASE echo["err"] # "dead" /\ s # "err"
      BY <2>1, <2>2, <3>2 DEF NothingLost, TypeOK, Streams
    <3> QED
      BY <3>0, <3>1, <3>2
  <2>4. Unread'
    BY <2>1, <2>2 DEF Unread, TypeOK
  <2> QED
    BY <2>3, <2>4
<1>2. CASE ChildExits
  BY <1>2 DEF ChildExits, NothingLost, Unread
<1>3. ASSUME NEW s \in Streams, EchoReads(s)
      PROVE  NothingLost' /\ Unread'
  <2>1. NothingLost'
    <3>1. CASE call = "progress" /\ s = "err"
      <4>1. ~closed /\ pipe["err"] # <<>> /\ echo["err"] = "reading" /\ HasBuffer
        BY <1>3, <3>1 DEF EchoReads, Threads, HasBuffer
      <4>2. /\ buffer \in Seq(Lines) /\ pipe["err"] \in Seq(Lines)
            /\ buffer \o pipe["err"] = printed["err"] /\ printed' = printed /\ call' = call
        BY <1>3, <3>1, <4>1 DEF EchoReads, NothingLost, TypeOK, Streams, child
      <4>3. CASE Head(pipe["err"]) \in NonAscii
        <5>1. echo'["err"] = "dead" /\ buffer' = buffer
          BY <1>3, <3>1, <4>3, <4>1 DEF EchoReads, TypeOK, Streams
        <5>2. /\ Len(buffer) + 1 \in 1..Len(printed["err"])
              /\ printed["err"][Len(buffer) + 1] \in NonAscii
              /\ SubSeq(printed["err"], 1, (Len(buffer) + 1) - 1) = buffer
          BY <4>1, <4>2, <4>3, HeadBehind
        <5> QED
          BY <4>2, <5>1, <5>2 DEF NothingLost
      <4>4. CASE Head(pipe["err"]) \notin NonAscii
        <5>1. /\ buffer' = Append(buffer, Head(pipe["err"])) /\ pipe'["err"] = Tail(pipe["err"])
              /\ echo' = echo
          BY <1>3, <3>1, <4>1, <4>4 DEF EchoReads, TypeOK
        <5>2. buffer' \o pipe'["err"] = buffer \o pipe["err"]
          BY <4>1, <4>2, <5>1, MoveHead
        <5> QED
          BY <4>1, <4>2, <5>1, <5>2 DEF NothingLost
      <4> QED
        BY <4>3, <4>4
    <3>2. CASE call = "progress" /\ s = "out"
      BY <1>3, <3>2 DEF EchoReads, Threads
    <3>3. CASE call # "progress"
      BY <1>3, <3>3 DEF EchoReads, child, NothingLost
    <3> QED
      BY <3>1, <3>2, <3>3 DEF Streams
  <2>2. Unread'
    BY <1>3 DEF EchoReads, Unread, TypeOK, child
  <2> QED
    BY <2>1, <2>2
<1>4. ASSUME NEW s \in Streams, EchoEnds(s)
      PROVE  NothingLost' /\ Unread'
  BY <1>4 DEF EchoEnds, child, NothingLost, Unread, TypeOK, Streams
<1>5. CASE Main
  BY <1>5 DEF Main, Join, Wait, ReadBuffer, child, NothingLost, Unread
<1>6. CASE UNCHANGED vars
  BY <1>6 DEF vars, NothingLost, Unread
<1> QED
  BY <1>1, <1>2, <1>3, <1>4, <1>5, <1>6 DEF Next, Child, Echo

\* No line comes into a pipe but from the child.
LEMMA PipesStep == IInv /\ [Next]_vars => PipesHoldPrinted'
<1> SUFFICES ASSUME IInv, [Next]_vars
             PROVE  PipesHoldPrinted'
  OBVIOUS
<1> USE DEF IInv
<1>1. CASE ChildPrints
  <2> DEFINE s == Head(script)[1]
             line == Head(script)[2]
  <2>1. s \in Streams /\ line \in Lines
    BY <1>1, NextLine DEF ChildPrints
  <2>2. /\ pipe' = [pipe EXCEPT ![s] = Append(@, line)]
        /\ printed' = [printed EXCEPT ![s] = Append(@, line)]
    BY <1>1 DEF ChildPrints
  <2> HIDE DEF s, line
  <2>3. ASSUME NEW t \in Streams, t # s
        PROVE  pipe'[t] = pipe[t] /\ printed'[t] = printed[t]
    BY <2>2, <2>3 DEF TypeOK
  <2>4. /\ pipe'[s] = Append(pipe[s], line) /\ printed'[s] = Append(printed[s], line)
        /\ pipe[s] \in Seq(Lines) /\ printed[s] \in Seq(Lines)
    BY <2>1, <2>2 DEF TypeOK
  <2>5. ASSUME NEW i \in 1..Len(pipe'[s])
        PROVE  \E j \in 1..Len(printed'[s]) : printed'[s][j] = pipe'[s][i]
    <3>1. CASE i \in 1..Len(pipe[s])
      <4>1. PICK j \in 1..Len(printed[s]) : printed[s][j] = pipe[s][i]
        BY <2>1, <3>1 DEF PipesHoldPrinted
      <4>2. j \in 1..Len(printed'[s]) /\ printed'[s][j] = printed[s][j] /\ pipe'[s][i] = pipe[s][i]
        BY <2>1, <2>4, <3>1, AppendKeeps
      <4> QED
        BY <4>1, <4>2
    <3>2. CASE i = Len(pipe[s]) + 1
      <4>1. pipe'[s][i] = line
        BY <2>1, <2>4, <3>2, AppendKeeps
      <4>2. /\ Len(printed[s]) + 1 \in 1..Len(printed'[s])
            /\ printed'[s][Len(printed[s]) + 1] = line
        BY <2>1, <2>4, AppendKeeps
      <4> QED
        BY <4>1, <4>2
    <3> QED
      BY <2>1, <2>4, <3>1, <3>2, AppendKeeps
  <2> QED
    BY <2>3, <2>5, SMTT(30) DEF PipesHoldPrinted
<1>2. ASSUME NEW s \in Streams, EchoReads(s)
      PROVE  PipesHoldPrinted'
  <2>1. /\ pipe' = [pipe EXCEPT ![s] = Tail(@)] /\ printed' = printed /\ pipe[s] # <<>>
        /\ pipe[s] \in Seq(Lines)
    BY <1>2 DEF EchoReads, child, TypeOK
  <2>2. ASSUME NEW i \in 1..Len(Tail(pipe[s]))
        PROVE  i + 1 \in 1..Len(pipe[s]) /\ Tail(pipe[s])[i] = pipe[s][i + 1]
    BY <2>1
  <2>3. ASSUME NEW t \in Streams, NEW i \in 1..Len(pipe'[t])
        PROVE  \E j \in 1..Len(printed[t]) : printed[t][j] = pipe'[t][i]
    <3>1. CASE t = s
      BY <2>1, <2>2, <2>3, <3>1 DEF PipesHoldPrinted, TypeOK
    <3>2. CASE t # s
      <4>1. pipe'[t] = pipe[t]
        BY <2>1, <3>2 DEF TypeOK
      <4> QED
        BY <2>3, <4>1 DEF PipesHoldPrinted
    <3> QED
      BY <3>1, <3>2
  <2> QED
    BY <2>1, <2>3 DEF PipesHoldPrinted
<1>3. CASE ChildExits \/ Main \/ (\E s \in Streams : EchoEnds(s)) \/ UNCHANGED vars
  BY <1>3 DEF ChildExits, Main, Join, Wait, ReadBuffer, EchoEnds, child, vars, PipesHoldPrinted
<1> QED
  BY <1>1, <1>2, <1>3 DEF Next, Child, Echo

\* Every action keeps the order in which threads and caller end.
LEMMA ThreadsStep == IInv /\ [Next]_vars => Threads'
<1> SUFFICES ASSUME IInv, [Next]_vars
             PROVE  Threads'
  OBVIOUS
<1> USE DEF IInv
<1> USE DEF HasBuffer
<1>1. CASE ChildPrints
  <2>1. ASSUME NEW s \in Streams, Undecodable(s)
        PROVE  Undecodable(s)'
    <3> DEFINE t == Head(script)[1]
               line == Head(script)[2]
    <3>1. t \in Streams /\ line \in Lines
      BY <1>1, NextLine DEF ChildPrints
    <3>2. printed' = [printed EXCEPT ![t] = Append(@, line)]
      BY <1>1 DEF ChildPrints
    <3> HIDE DEF t, line
    <3>3. printed[s] \in Seq(Lines) /\ (printed'[s] = printed[s] \/ printed'[s] = Append(printed[s], line))
      BY <3>1, <3>2 DEF TypeOK
    <3> QED
      BY <2>1, <3>1, <3>3, AppendKeeps DEF Undecodable
  <2> QED
    BY <1>1, <2>1, NextLine DEF ChildPrints, Threads, TypeOK
<1>2. CASE ChildExits
  BY <1>2 DEF ChildExits, Threads, TypeOK, Undecodable
<1>3. ASSUME NEW s \in Streams, EchoReads(s)
      PROVE  Threads'
  <2>1. Head(pipe[s]) \in NonAscii => Undecodable(s)
    <3>1. pipe[s] \in Seq(Lines) /\ pipe[s] # <<>>
      BY <1>3 DEF EchoReads, TypeOK
    <3>2. 1 \in 1..Len(pipe[s]) /\ pipe[s][1] = Head(pipe[s])
      BY <3>1
    <3> QED
      BY <3>2 DEF PipesHoldPrinted, Undecodable
  <2>2. \A t \in Streams : Undecodable(t)' <=> Undecodable(t)
    BY <1>3 DEF EchoReads, child, Undecodable
  <2> QED
    BY <1>3, <2>1, <2>2 DEF EchoReads, child, Threads, TypeOK, Streams
<1>4. ASSUME NEW s \in Streams, EchoEnds(s)
      PROVE  Threads'
  BY <1>4 DEF EchoEnds, child, Threads, TypeOK, Streams, Undecodable
<1>5. CASE Join
  BY <1>5 DEF Join, child, Threads, TypeOK, Streams, Undecodable
<1>6. CASE Wait
  BY <1>6 DEF Wait, child, Threads, TypeOK, Streams, Undecodable
<1>7. CASE ReadBuffer
  BY <1>7 DEF ReadBuffer, child, Threads, TypeOK, Streams, Undecodable
<1>8. CASE UNCHANGED vars
  BY <1>8 DEF vars, Threads, Undecodable
<1> QED
  BY <1>1, <1>2, <1>3, <1>4, <1>5, <1>6, <1>7, <1>8 DEF Next, Main, Child, Echo

\* The text does not fall behind the child, which has exited when it is read.
LEMMA CompleteStep == IInv /\ [Next]_vars => ProgressIsComplete'
<1> SUFFICES ASSUME IInv, [Next]_vars
             PROVE  ProgressIsComplete'
  OBVIOUS
<1> USE DEF IInv
<1>1. CASE ChildPrints
  BY <1>1 DEF ChildPrints, ProgressIsComplete, Threads
<1>2. CASE ReadBuffer
  <2>1. call = "progress" => echo["err"] = "dead" \/ (echo["err"] = "done" /\ pipe["err"] = <<>>)
    BY <1>2 DEF ReadBuffer, Threads, Streams
  <2>2. buffer \in Seq(Lines) /\ buffer \o <<>> = buffer
    BY DEF TypeOK
  <2>3. call' = call /\ printed' = printed /\ text' = buffer
    BY <1>2, Zenon DEF ReadBuffer, child
  <2> QED
    BY <2>1, <2>2, <2>3 DEF NothingLost, ProgressIsComplete
<1>3. CASE ChildExits
  BY <1>3 DEF ChildExits, ProgressIsComplete
<1>4. ASSUME NEW s \in Streams, Echo(s)
      PROVE  ProgressIsComplete'
  BY <1>4 DEF Echo, EchoReads, EchoEnds, child, ProgressIsComplete
<1>5. CASE Join \/ Wait
  BY <1>5 DEF Join, Wait, child, ProgressIsComplete
<1>6. CASE UNCHANGED vars
  BY <1>6 DEF vars, ProgressIsComplete
<1> QED
  BY <1>1, <1>2, <1>3, <1>4, <1>5, <1>6 DEF Next, Main, Child

LEMMA Invariance == Spec => []IInv
<1>1. IInv /\ [Next]_vars => IInv'
  BY TypeStep, LinesStep, PipesStep, ThreadsStep, CompleteStep DEF IInv
<1> QED
  BY <1>1, InitInv, PTL DEF Spec

\* The variables keep their types, and the pipes their capacity.
THEOREM TypeCorrect == Spec => []TypeOK
<1>1. IInv => TypeOK
  BY DEF IInv
<1> QED
  BY <1>1, Invariance, PTL

\* previrt_progress answers on all of the child's stderr, up to a line that is
\* not ASCII.
THEOREM ProgressComplete == Spec => []ProgressIsComplete
<1>1. IInv => ProgressIsComplete
  BY DEF IInv
<1> QED
  BY <1>1, Invariance, PTL

\* The only pipes that may block a child for ever are a stdout that the call
\* gave no thread to, and one whose thread died on a line that is not ASCII.
THEOREM OnlyUnreadPipesBlock == Spec => []BlockedOnUnreadPipe
<1>1. IInv => BlockedOnUnreadPipe
  <2> SUFFICES ASSUME IInv, code = -1, script # <<>>,
                      Len(pipe[Head(script)[1]]) = Capacity,
                      echo[Head(script)[1]] # "reading",
                      ~(HasBuffer /\ Undecodable(Head(script)[1]))
               PROVE  /\ Head(script)[1] = "out" /\ call # "buffer"
                      /\ Len(printed["out"]) >= Capacity
    BY DEF BlockedOnUnreadPipe, Undecodable
  <2> DEFINE s == Head(script)[1]
  <2>1. s \in Streams
    BY NextLine DEF IInv
  <2>2. echo[s] = "absent"
    BY <2>1 DEF IInv, Threads, TypeOK
  <2>3. s = "out" /\ call # "buffer" /\ pipe["out"] = printed["out"]
    BY <2>1, <2>2 DEF IInv, Threads, Unread, Streams
  <2> QED
    BY <2>3, CapacityAssumption
<1> QED
  BY <1>1, Invariance, PTL
=============================================================================
