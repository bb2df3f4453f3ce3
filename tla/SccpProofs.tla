----------------------------- MODULE SccpProofs -----------------------------
(***************************************************************************)
(* Proofs about Sccp, for every program that is well formed.               *)
(***************************************************************************)
EXTENDS Sccp, NaturalsInduction, WellFoundedInduction, FiniteSetTheorems, TLAPS

-----------------------------------------------------------------------------
(* Iteration.  The library's induction theorems take operators; these take *)
(* the set of numbers, or the family of sets of states, an induction is about. *)

LEMMA Induct ==
    ASSUME NEW n \in Nat, NEW T \in SUBSET (0..n), 0 \in T, \A k \in 1..n : k - 1 \in T => k \in T
    PROVE  T = 0..n
  <1> DEFINE M == (0..n) \ T
  <1>1. IsWellFoundedOn(OpToRel(<, Nat), Nat)
    BY NatLessThanWellFounded
  <1>2. SUFFICES ASSUME M # {} PROVE FALSE
    OBVIOUS
  <1>3. PICK m \in M : \A j \in M : <<j, m>> \notin OpToRel(<, Nat)
    <2>1. M \subseteq Nat
      OBVIOUS
    <2> HIDE DEF M
    <2> QED
      BY <1>1, <1>2, <2>1, WFMin
  <1>4. m # 0 /\ m \in 1..n /\ m - 1 \in 0..n
    OBVIOUS
  <1>5. m - 1 \in T
    <2>1. m - 1 \in M => <<m - 1, m>> \in OpToRel(<, Nat)
      BY <1>4 DEF OpToRel
    <2> QED
      BY <2>1, <1>3, <1>4
  <1> QED
    BY <1>4, <1>5

\* r iterates F from t, n times.
Iteration(r, n, t, F) == r = [k \in 0..n |-> IF k = 0 THEN t ELSE F[<<r[k - 1], k>>]]

\* A function defined by iteration exists, and keeps what every step keeps.
LEMMA Iterates ==
    ASSUME NEW n \in Nat, NEW P, NEW F, NEW t \in P[0],
           \A k \in 1..n : \A u \in P[k - 1] : F[<<u, k>>] \in P[k]
    PROVE  \E r : Iteration(r, n, t, F) /\ \A k \in 0..n : r[k] \in P[k]
  <1> DEFINE Good(m, r) == Iteration(r, m, t, F) /\ \A k \in 0..m : r[k] \in P[k]
             T == {m \in 0..n : \E r : Good(m, r)}
  <1>1. 0 \in T
    <2>1. Good(0, [k \in 0..0 |-> t])
      BY DEF Iteration
    <2>2. \E r : Good(0, r)
      <3> HIDE DEF Good
      <3> QED
        BY <2>1
    <2> QED
      BY <2>2
  <1>2. ASSUME NEW m \in 1..n, m - 1 \in T  PROVE m \in T
    <2>1. PICK r : Good(m - 1, r)
      BY <1>2
    <2> DEFINE q == [k \in 0..m |-> IF k = m THEN F[<<r[m - 1], m>>] ELSE r[k]]
    <2>2. \A k \in 0..(m-1) : q[k] = r[k]
      OBVIOUS
    <2>3. q[m] = F[<<q[m-1], m>>]
      <3>1. q[m] = F[<<r[m-1], m>>]
        OBVIOUS
      <3>2. q[m-1] = r[m-1]
        BY <2>2
      <3> QED
        BY <3>1, <3>2
    <2>4. \A k \in 0..m : q[k] = IF k = 0 THEN t ELSE F[<<q[k - 1], k>>]
      <3> TAKE k \in 0..m
      <3>1. CASE k = m
        BY <3>1, <2>3
      <3>2. CASE k # m
        <4>1. k \in 0..(m-1) /\ (k # 0 => k - 1 \in 0..(m-1))
          BY <3>2
        <4>2. r[k] = IF k = 0 THEN t ELSE F[<<r[k - 1], k>>]
          BY <4>1, <2>1 DEF Iteration
        <4> QED
          BY <4>1, <4>2, <2>2
      <3> QED
        BY <3>1, <3>2
    <2>5. q[m] \in P[m] /\ \A k \in 0..m : q[k] \in P[k]
      <3>1. r[m-1] \in P[m-1]
        BY <2>1
      <3>2. q[m] \in P[m]
        BY <3>1, <2>3, <2>2
      <3> QED
        BY <3>2, <2>2, <2>1
    <2>6. DOMAIN q = 0..m /\ q = [k \in 0..m |-> q[k]]
      OBVIOUS
    <2> HIDE DEF q
    <2>7. q = [k \in 0..m |-> IF k = 0 THEN t ELSE F[<<q[k - 1], k>>]]
      BY <2>4, <2>6
    <2>8. Good(m, q)
      BY <2>5, <2>7 DEF Iteration
    <2>9. \E h : Good(m, h)
      <3> HIDE DEF Good
      <3> QED
        BY <2>8
    <2> HIDE DEF Good
    <2> QED
      BY <2>9
  <1>3. T = 0..n
    <2> HIDE DEF T
    <2>1. T \in SUBSET (0..n)
      BY DEF T
    <2> QED
      BY <1>1, <1>2, <2>1, Induct
  <1> QED
    BY <1>3

LEMMA Kept ==
    ASSUME NEW n \in Nat, NEW P, NEW q, q[0] \in P[0], \A k \in 1..n : q[k - 1] \in P[k - 1] => q[k] \in P[k]
    PROVE  q[n] \in P[n]
  <1> DEFINE T == {k \in 0..n : q[k] \in P[k]}
  <1>1. T = 0..n
    <2>1. 0 \in T /\ \A k \in 1..n : k - 1 \in T => k \in T
      OBVIOUS
    <2> HIDE DEF T
    <2>2. T \in SUBSET (0..n)
      BY DEF T
    <2> QED
      BY <2>1, <2>2, Induct
  <1> QED
    BY <1>1

-----------------------------------------------------------------------------
(* The loops of the source: what every turn keeps holds of their results.  *)

\* MarkEdgeExecutable over the phis of a block.
LEMMA VisitPhisKeeps ==
    ASSUME NEW t, NEW b, Len(t.code[b]) \in Nat, NEW P, t \in P[0],
           \A k \in 1..Len(t.code[b]) : \A u \in P[k - 1] : (IF t.code[b][k].op = "phi" THEN VisitPHI(u, b, t.code[b][k]) ELSE u) \in P[k]
    PROVE  VisitPhis(t, b) \in P[Len(t.code[b])]
  <1> DEFINE n == Len(t.code[b])
             Step(u, k) == IF t.code[b][k].op = "phi" THEN VisitPHI(u, b, t.code[b][k]) ELSE u
             F == [x \in (UNION {P[k] : k \in 0..n}) \X (1..n) |-> Step(x[1], x[2])]
             Eq(q) == q = [k \in 0..n |-> IF k = 0 THEN t ELSE IF t.code[b][k].op = "phi" THEN VisitPHI(q[k - 1], b, t.code[b][k]) ELSE q[k - 1]]
             q == CHOOSE q : Eq(q)
  <1>1. n \in Nat /\ t \in P[0] /\ \A k \in 1..n : \A u \in P[k - 1] : Step(u, k) \in P[k]
    OBVIOUS
  <1>2. \A k \in 1..n : \A u \in P[k - 1] : F[<<u, k>>] = Step(u, k)
    <2>1. n \in Nat
      BY <1>1
    <2> HIDE DEF Step, n
    <2> QED
      BY <2>1
  <1>3. \E r : Eq(r)
    <2>1. ASSUME NEW k \in 1..n, NEW u \in P[k - 1]  PROVE F[<<u, k>>] \in P[k]
      <3> HIDE DEF F, Step, n
      <3>1. F[<<u, k>>] = Step(u, k)
        BY <1>2
      <3>2. Step(u, k) \in P[k]
        BY <1>1
      <3> QED
        BY <3>1, <3>2
    <2>2. PICK r : Iteration(r, n, t, F) /\ \A k \in 0..n : r[k] \in P[k]
      <3> HIDE DEF F, n
      <3> QED
        BY <1>1, <2>1, Iterates
    <2>3. ASSUME NEW k \in 0..n, k # 0  PROVE F[<<r[k - 1], k>>] = Step(r[k - 1], k)
      <3> HIDE DEF F, n, Step
      <3>1. k \in 1..n /\ k - 1 \in 0..n
        BY <1>1, <2>3
      <3> QED
        BY <3>1, <1>2, <2>2
    <2>4. Eq(r)
      <3> HIDE DEF F
      <3> QED
        BY <2>2, <2>3 DEF Iteration
    <2> HIDE DEF Eq
    <2> QED
      BY <2>4
  <1>4. Eq(q)
    <2> HIDE DEF Eq
    <2> QED
      BY <1>3
  <1>5. q[0] = t /\ \A k \in 1..n : q[k] = Step(q[k - 1], k)
    <2> HIDE DEF q, n
    <2>1. DOMAIN q = 0..n /\ 0 \in 0..n /\ \A k \in 1..n : k \in 0..n /\ k # 0
      BY <1>1, <1>4
    <2> QED
      BY <2>1, <1>4
  <1>6. VisitPhis(t, b) = q[n]
    BY DEF VisitPhis
  <1> HIDE DEF q, Step, n
  <1>7. q[n] \in P[n]
    <2>1. q[0] \in P[0]
      BY <1>1, <1>5
    <2>2. ASSUME NEW k \in 1..n, q[k - 1] \in P[k - 1]  PROVE q[k] \in P[k]
      <3>1. q[k] = Step(q[k - 1], k)
        BY <1>5
      <3> QED
        BY <1>1, <2>2, <3>1
    <2> QED
      BY <1>1, <2>1, <2>2, Kept
  <1> QED
    BY <1>6, <1>7 DEF n

\* visitTerminatorInst over the successors.
LEMMA VisitTerminatorKeeps ==
    ASSUME NEW t, NEW b, NEW i, Len(i.to) \in Nat, NEW P, t \in P[0],
           \A k \in 1..Len(i.to) : \A u \in P[k - 1] : (IF i.to[k] \in FeasibleSuccessors(t, i) THEN MarkEdgeExecutable(u, b, i.to[k]) ELSE u) \in P[k]
    PROVE  VisitTerminator(t, b, i) \in P[Len(i.to)]
  <1> DEFINE n == Len(i.to)
             Step(u, k) == IF i.to[k] \in FeasibleSuccessors(t, i) THEN MarkEdgeExecutable(u, b, i.to[k]) ELSE u
             F == [x \in (UNION {P[k] : k \in 0..n}) \X (1..n) |-> Step(x[1], x[2])]
             Eq(q) == q = [k \in 0..n |-> IF k = 0 THEN t ELSE IF i.to[k] \in FeasibleSuccessors(t, i) THEN MarkEdgeExecutable(q[k - 1], b, i.to[k]) ELSE q[k - 1]]
             q == CHOOSE q : Eq(q)
  <1>1. n \in Nat /\ t \in P[0] /\ \A k \in 1..n : \A u \in P[k - 1] : Step(u, k) \in P[k]
    OBVIOUS
  <1>2. \A k \in 1..n : \A u \in P[k - 1] : F[<<u, k>>] = Step(u, k)
    <2>1. n \in Nat
      BY <1>1
    <2> HIDE DEF Step, n
    <2> QED
      BY <2>1
  <1>3. \E r : Eq(r)
    <2>1. ASSUME NEW k \in 1..n, NEW u \in P[k - 1]  PROVE F[<<u, k>>] \in P[k]
      <3> HIDE DEF F, Step, n
      <3>1. F[<<u, k>>] = Step(u, k)
        BY <1>2
      <3>2. Step(u, k) \in P[k]
        BY <1>1
      <3> QED
        BY <3>1, <3>2
    <2>2. PICK r : Iteration(r, n, t, F) /\ \A k \in 0..n : r[k] \in P[k]
      <3> HIDE DEF F, n
      <3> QED
        BY <1>1, <2>1, Iterates
    <2>3. ASSUME NEW k \in 0..n, k # 0  PROVE F[<<r[k - 1], k>>] = Step(r[k - 1], k)
      <3> HIDE DEF F, n, Step
      <3>1. k \in 1..n /\ k - 1 \in 0..n
        BY <1>1, <2>3
      <3> QED
        BY <3>1, <1>2, <2>2
    <2>4. Eq(r)
      <3> HIDE DEF F
      <3> QED
        BY <2>2, <2>3 DEF Iteration
    <2> HIDE DEF Eq
    <2> QED
      BY <2>4
  <1>4. Eq(q)
    <2> HIDE DEF Eq
    <2> QED
      BY <1>3
  <1>5. q[0] = t /\ \A k \in 1..n : q[k] = Step(q[k - 1], k)
    <2> HIDE DEF q, n
    <2>1. DOMAIN q = 0..n /\ 0 \in 0..n /\ \A k \in 1..n : k \in 0..n /\ k # 0
      BY <1>1, <1>4
    <2> QED
      BY <2>1, <1>4
  <1>6. VisitTerminator(t, b, i) = q[n]
    BY DEF VisitTerminator
  <1> HIDE DEF q, Step, n
  <1>7. q[n] \in P[n]
    <2>1. q[0] \in P[0]
      BY <1>1, <1>5
    <2>2. ASSUME NEW k \in 1..n, q[k - 1] \in P[k - 1]  PROVE q[k] \in P[k]
      <3>1. q[k] = Step(q[k - 1], k)
        BY <1>5
      <3> QED
        BY <1>1, <2>2, <3>1
    <2> QED
      BY <1>1, <2>1, <2>2, Kept
  <1> QED
    BY <1>6, <1>7 DEF n

\* visitCallSite over the arguments.
LEMMA PassArgumentsKeeps ==
    ASSUME NEW t, NEW i, Len(i.args) \in Nat, NEW P, MarkBlockExecutable(t, EntryOf(i.sym)) \in P[0],
           \A k \in 1..Len(i.args) : \A u \in P[k - 1] : (MergeInValue(u, module.params[i.sym][k], ValueOf(u, i.args[k]))) \in P[k]
    PROVE  PassArguments(t, i) \in P[Len(i.args)]
  <1> DEFINE n == Len(i.args)
             Step(u, k) == MergeInValue(u, module.params[i.sym][k], ValueOf(u, i.args[k]))
             F == [x \in (UNION {P[k] : k \in 0..n}) \X (1..n) |-> Step(x[1], x[2])]
             Eq(q) == q = [k \in 0..n |-> IF k = 0 THEN MarkBlockExecutable(t, EntryOf(i.sym)) ELSE MergeInValue(q[k - 1], module.params[i.sym][k], ValueOf(q[k - 1], i.args[k]))]
             q == CHOOSE q : Eq(q)
  <1>1. n \in Nat /\ MarkBlockExecutable(t, EntryOf(i.sym)) \in P[0] /\ \A k \in 1..n : \A u \in P[k - 1] : Step(u, k) \in P[k]
    OBVIOUS
  <1>2. \A k \in 1..n : \A u \in P[k - 1] : F[<<u, k>>] = Step(u, k)
    <2>1. n \in Nat
      BY <1>1
    <2> HIDE DEF Step, n
    <2> QED
      BY <2>1
  <1>3. \E r : Eq(r)
    <2>1. ASSUME NEW k \in 1..n, NEW u \in P[k - 1]  PROVE F[<<u, k>>] \in P[k]
      <3> HIDE DEF F, Step, n
      <3>1. F[<<u, k>>] = Step(u, k)
        BY <1>2
      <3>2. Step(u, k) \in P[k]
        BY <1>1
      <3> QED
        BY <3>1, <3>2
    <2>2. PICK r : Iteration(r, n, MarkBlockExecutable(t, EntryOf(i.sym)), F) /\ \A k \in 0..n : r[k] \in P[k]
      <3> HIDE DEF F, n
      <3> QED
        BY <1>1, <2>1, Iterates
    <2>3. ASSUME NEW k \in 0..n, k # 0  PROVE F[<<r[k - 1], k>>] = Step(r[k - 1], k)
      <3> HIDE DEF F, n, Step
      <3>1. k \in 1..n /\ k - 1 \in 0..n
        BY <1>1, <2>3
      <3> QED
        BY <3>1, <1>2, <2>2
    <2>4. Eq(r)
      <3> HIDE DEF F
      <3> QED
        BY <2>2, <2>3 DEF Iteration
    <2> HIDE DEF Eq
    <2> QED
      BY <2>4
  <1>4. Eq(q)
    <2> HIDE DEF Eq
    <2> QED
      BY <1>3
  <1>5. q[0] = MarkBlockExecutable(t, EntryOf(i.sym)) /\ \A k \in 1..n : q[k] = Step(q[k - 1], k)
    <2> HIDE DEF q, n
    <2>1. DOMAIN q = 0..n /\ 0 \in 0..n /\ \A k \in 1..n : k \in 0..n /\ k # 0
      BY <1>1, <1>4
    <2> QED
      BY <2>1, <1>4
  <1>6. PassArguments(t, i) = q[n]
    BY DEF PassArguments
  <1> HIDE DEF q, Step, n
  <1>7. q[n] \in P[n]
    <2>1. q[0] \in P[0]
      BY <1>1, <1>5
    <2>2. ASSUME NEW k \in 1..n, q[k - 1] \in P[k - 1]  PROVE q[k] \in P[k]
      <3>1. q[k] = Step(q[k - 1], k)
        BY <1>5
      <3> QED
        BY <1>1, <2>2, <3>1
    <2> QED
      BY <1>1, <2>1, <2>2, Kept
  <1> QED
    BY <1>6, <1>7 DEF n

\* Solve over the instructions of a block.
LEMMA VisitBlockKeeps ==
    ASSUME NEW t, NEW b, Len(t.code[b]) \in Nat, NEW P, t \in P[0],
           \A k \in 1..Len(t.code[b]) : \A u \in P[k - 1] : (Visit(u, <<b, k>>)) \in P[k]
    PROVE  VisitBlock(t, b) \in P[Len(t.code[b])]
  <1> DEFINE n == Len(t.code[b])
             Step(u, k) == Visit(u, <<b, k>>)
             F == [x \in (UNION {P[k] : k \in 0..n}) \X (1..n) |-> Step(x[1], x[2])]
             Eq(q) == q = [k \in 0..n |-> IF k = 0 THEN t ELSE Visit(q[k - 1], <<b, k>>)]
             q == CHOOSE q : Eq(q)
  <1>1. n \in Nat /\ t \in P[0] /\ \A k \in 1..n : \A u \in P[k - 1] : Step(u, k) \in P[k]
    OBVIOUS
  <1>2. \A k \in 1..n : \A u \in P[k - 1] : F[<<u, k>>] = Step(u, k)
    <2>1. n \in Nat
      BY <1>1
    <2> HIDE DEF Step, n
    <2> QED
      BY <2>1
  <1>3. \E r : Eq(r)
    <2>1. ASSUME NEW k \in 1..n, NEW u \in P[k - 1]  PROVE F[<<u, k>>] \in P[k]
      <3> HIDE DEF F, Step, n
      <3>1. F[<<u, k>>] = Step(u, k)
        BY <1>2
      <3>2. Step(u, k) \in P[k]
        BY <1>1
      <3> QED
        BY <3>1, <3>2
    <2>2. PICK r : Iteration(r, n, t, F) /\ \A k \in 0..n : r[k] \in P[k]
      <3> HIDE DEF F, n
      <3> QED
        BY <1>1, <2>1, Iterates
    <2>3. ASSUME NEW k \in 0..n, k # 0  PROVE F[<<r[k - 1], k>>] = Step(r[k - 1], k)
      <3> HIDE DEF F, n, Step
      <3>1. k \in 1..n /\ k - 1 \in 0..n
        BY <1>1, <2>3
      <3> QED
        BY <3>1, <1>2, <2>2
    <2>4. Eq(r)
      <3> HIDE DEF F
      <3> QED
        BY <2>2, <2>3 DEF Iteration
    <2> HIDE DEF Eq
    <2> QED
      BY <2>4
  <1>4. Eq(q)
    <2> HIDE DEF Eq
    <2> QED
      BY <1>3
  <1>5. q[0] = t /\ \A k \in 1..n : q[k] = Step(q[k - 1], k)
    <2> HIDE DEF q, n
    <2>1. DOMAIN q = 0..n /\ 0 \in 0..n /\ \A k \in 1..n : k \in 0..n /\ k # 0
      BY <1>1, <1>4
    <2> QED
      BY <2>1, <1>4
  <1>6. VisitBlock(t, b) = q[n]
    BY DEF VisitBlock
  <1> HIDE DEF q, Step, n
  <1>7. q[n] \in P[n]
    <2>1. q[0] \in P[0]
      BY <1>1, <1>5
    <2>2. ASSUME NEW k \in 1..n, q[k - 1] \in P[k - 1]  PROVE q[k] \in P[k]
      <3>1. q[k] = Step(q[k - 1], k)
        BY <1>5
      <3> QED
        BY <1>1, <2>2, <3>1
    <2> QED
      BY <1>1, <2>1, <2>2, Kept
  <1> QED
    BY <1>6, <1>7 DEF n

\* runIPSCCP over the parameters of a function.
LEMMA OpenedKeeps ==
    ASSUME NEW t, NEW f, Len(module.params[f]) \in Nat, NEW P, MarkBlockExecutable(t, EntryOf(f)) \in P[0],
           \A k \in 1..Len(module.params[f]) : \A u \in P[k - 1] : (MarkOverdefined(u, module.params[f][k])) \in P[k]
    PROVE  Opened(t, f) \in P[Len(module.params[f])]
  <1> DEFINE n == Len(module.params[f])
             Step(u, k) == MarkOverdefined(u, module.params[f][k])
             F == [x \in (UNION {P[k] : k \in 0..n}) \X (1..n) |-> Step(x[1], x[2])]
             Eq(q) == q = [k \in 0..n |-> IF k = 0 THEN MarkBlockExecutable(t, EntryOf(f)) ELSE MarkOverdefined(q[k - 1], module.params[f][k])]
             q == CHOOSE q : Eq(q)
  <1>1. n \in Nat /\ MarkBlockExecutable(t, EntryOf(f)) \in P[0] /\ \A k \in 1..n : \A u \in P[k - 1] : Step(u, k) \in P[k]
    OBVIOUS
  <1>2. \A k \in 1..n : \A u \in P[k - 1] : F[<<u, k>>] = Step(u, k)
    <2>1. n \in Nat
      BY <1>1
    <2> HIDE DEF Step, n
    <2> QED
      BY <2>1
  <1>3. \E r : Eq(r)
    <2>1. ASSUME NEW k \in 1..n, NEW u \in P[k - 1]  PROVE F[<<u, k>>] \in P[k]
      <3> HIDE DEF F, Step, n
      <3>1. F[<<u, k>>] = Step(u, k)
        BY <1>2
      <3>2. Step(u, k) \in P[k]
        BY <1>1
      <3> QED
        BY <3>1, <3>2
    <2>2. PICK r : Iteration(r, n, MarkBlockExecutable(t, EntryOf(f)), F) /\ \A k \in 0..n : r[k] \in P[k]
      <3> HIDE DEF F, n
      <3> QED
        BY <1>1, <2>1, Iterates
    <2>3. ASSUME NEW k \in 0..n, k # 0  PROVE F[<<r[k - 1], k>>] = Step(r[k - 1], k)
      <3> HIDE DEF F, n, Step
      <3>1. k \in 1..n /\ k - 1 \in 0..n
        BY <1>1, <2>3
      <3> QED
        BY <3>1, <1>2, <2>2
    <2>4. Eq(r)
      <3> HIDE DEF F
      <3> QED
        BY <2>2, <2>3 DEF Iteration
    <2> HIDE DEF Eq
    <2> QED
      BY <2>4
  <1>4. Eq(q)
    <2> HIDE DEF Eq
    <2> QED
      BY <1>3
  <1>5. q[0] = MarkBlockExecutable(t, EntryOf(f)) /\ \A k \in 1..n : q[k] = Step(q[k - 1], k)
    <2> HIDE DEF q, n
    <2>1. DOMAIN q = 0..n /\ 0 \in 0..n /\ \A k \in 1..n : k \in 0..n /\ k # 0
      BY <1>1, <1>4
    <2> QED
      BY <2>1, <1>4
  <1>6. Opened(t, f) = q[n]
    BY DEF Opened
  <1> HIDE DEF q, Step, n
  <1>7. q[n] \in P[n]
    <2>1. q[0] \in P[0]
      BY <1>1, <1>5
    <2>2. ASSUME NEW k \in 1..n, q[k - 1] \in P[k - 1]  PROVE q[k] \in P[k]
      <3>1. q[k] = Step(q[k - 1], k)
        BY <1>5
      <3> QED
        BY <1>1, <2>2, <3>1
    <2> QED
      BY <1>1, <2>1, <2>2, Kept
  <1> QED
    BY <1>6, <1>7 DEF n

\* And over the functions of the module.
LEMMA AllOpenedKeeps ==
    ASSUME NEW t, Len(module.funs) \in Nat, NEW P, t \in P[0],
           \A k \in 1..Len(module.funs) : \A u \in P[k - 1] : (IF module.funs[k] \in ArgTracked THEN u ELSE Opened(u, module.funs[k])) \in P[k]
    PROVE  AllOpened(t) \in P[Len(module.funs)]
  <1> DEFINE n == Len(module.funs)
             Step(u, k) == IF module.funs[k] \in ArgTracked THEN u ELSE Opened(u, module.funs[k])
             F == [x \in (UNION {P[k] : k \in 0..n}) \X (1..n) |-> Step(x[1], x[2])]
             Eq(q) == q = [k \in 0..n |-> IF k = 0 THEN t ELSE IF module.funs[k] \in ArgTracked THEN q[k - 1] ELSE Opened(q[k - 1], module.funs[k])]
             q == CHOOSE q : Eq(q)
  <1>1. n \in Nat /\ t \in P[0] /\ \A k \in 1..n : \A u \in P[k - 1] : Step(u, k) \in P[k]
    OBVIOUS
  <1>2. \A k \in 1..n : \A u \in P[k - 1] : F[<<u, k>>] = Step(u, k)
    <2>1. n \in Nat
      BY <1>1
    <2> HIDE DEF Step, n
    <2> QED
      BY <2>1
  <1>3. \E r : Eq(r)
    <2>1. ASSUME NEW k \in 1..n, NEW u \in P[k - 1]  PROVE F[<<u, k>>] \in P[k]
      <3> HIDE DEF F, Step, n
      <3>1. F[<<u, k>>] = Step(u, k)
        BY <1>2
      <3>2. Step(u, k) \in P[k]
        BY <1>1
      <3> QED
        BY <3>1, <3>2
    <2>2. PICK r : Iteration(r, n, t, F) /\ \A k \in 0..n : r[k] \in P[k]
      <3> HIDE DEF F, n
      <3> QED
        BY <1>1, <2>1, Iterates
    <2>3. ASSUME NEW k \in 0..n, k # 0  PROVE F[<<r[k - 1], k>>] = Step(r[k - 1], k)
      <3> HIDE DEF F, n, Step
      <3>1. k \in 1..n /\ k - 1 \in 0..n
        BY <1>1, <2>3
      <3> QED
        BY <3>1, <1>2, <2>2
    <2>4. Eq(r)
      <3> HIDE DEF F
      <3> QED
        BY <2>2, <2>3 DEF Iteration
    <2> HIDE DEF Eq
    <2> QED
      BY <2>4
  <1>4. Eq(q)
    <2> HIDE DEF Eq
    <2> QED
      BY <1>3
  <1>5. q[0] = t /\ \A k \in 1..n : q[k] = Step(q[k - 1], k)
    <2> HIDE DEF q, n
    <2>1. DOMAIN q = 0..n /\ 0 \in 0..n /\ \A k \in 1..n : k \in 0..n /\ k # 0
      BY <1>1, <1>4
    <2> QED
      BY <2>1, <1>4
  <1>6. AllOpened(t) = q[n]
    BY DEF AllOpened
  <1> HIDE DEF q, Step, n
  <1>7. q[n] \in P[n]
    <2>1. q[0] \in P[0]
      BY <1>1, <1>5
    <2>2. ASSUME NEW k \in 1..n, q[k - 1] \in P[k - 1]  PROVE q[k] \in P[k]
      <3>1. q[k] = Step(q[k - 1], k)
        BY <1>5
      <3> QED
        BY <1>1, <2>2, <3>1
    <2> QED
      BY <1>1, <2>1, <2>2, Kept
  <1> QED
    BY <1>6, <1>7 DEF n

\* runIPSCCP over the functions with undefs to resolve.
LEMMA AllResolvedKeeps ==
    ASSUME Len(module.funs) \in Nat, NEW P, s \in P[0],
           \A k \in 1..Len(module.funs) : \A u \in P[k - 1] : (ResolvedUndefsIn(u, module.funs[k])) \in P[k]
    PROVE  AllResolved \in P[Len(module.funs)]
  <1> DEFINE n == Len(module.funs)
             Step(u, k) == ResolvedUndefsIn(u, module.funs[k])
             F == [x \in (UNION {P[k] : k \in 0..n}) \X (1..n) |-> Step(x[1], x[2])]
             Eq(q) == q = [k \in 0..n |-> IF k = 0 THEN s ELSE ResolvedUndefsIn(q[k - 1], module.funs[k])]
             q == CHOOSE q : Eq(q)
  <1>1. n \in Nat /\ s \in P[0] /\ \A k \in 1..n : \A u \in P[k - 1] : Step(u, k) \in P[k]
    OBVIOUS
  <1>2. \A k \in 1..n : \A u \in P[k - 1] : F[<<u, k>>] = Step(u, k)
    <2>1. n \in Nat
      BY <1>1
    <2> HIDE DEF Step, n
    <2> QED
      BY <2>1
  <1>3. \E r : Eq(r)
    <2>1. ASSUME NEW k \in 1..n, NEW u \in P[k - 1]  PROVE F[<<u, k>>] \in P[k]
      <3> HIDE DEF F, Step, n
      <3>1. F[<<u, k>>] = Step(u, k)
        BY <1>2
      <3>2. Step(u, k) \in P[k]
        BY <1>1
      <3> QED
        BY <3>1, <3>2
    <2>2. PICK r : Iteration(r, n, s, F) /\ \A k \in 0..n : r[k] \in P[k]
      <3> HIDE DEF F, n
      <3> QED
        BY <1>1, <2>1, Iterates
    <2>3. ASSUME NEW k \in 0..n, k # 0  PROVE F[<<r[k - 1], k>>] = Step(r[k - 1], k)
      <3> HIDE DEF F, n, Step
      <3>1. k \in 1..n /\ k - 1 \in 0..n
        BY <1>1, <2>3
      <3> QED
        BY <3>1, <1>2, <2>2
    <2>4. Eq(r)
      <3> HIDE DEF F
      <3> QED
        BY <2>2, <2>3 DEF Iteration
    <2> HIDE DEF Eq
    <2> QED
      BY <2>4
  <1>4. Eq(q)
    <2> HIDE DEF Eq
    <2> QED
      BY <1>3
  <1>5. q[0] = s /\ \A k \in 1..n : q[k] = Step(q[k - 1], k)
    <2> HIDE DEF q, n
    <2>1. DOMAIN q = 0..n /\ 0 \in 0..n /\ \A k \in 1..n : k \in 0..n /\ k # 0
      BY <1>1, <1>4
    <2> QED
      BY <2>1, <1>4
  <1>6. AllResolved = q[n]
    BY DEF AllResolved
  <1> HIDE DEF q, Step, n
  <1>7. q[n] \in P[n]
    <2>1. q[0] \in P[0]
      BY <1>1, <1>5
    <2>2. ASSUME NEW k \in 1..n, q[k - 1] \in P[k - 1]  PROVE q[k] \in P[k]
      <3>1. q[k] = Step(q[k - 1], k)
        BY <1>5
      <3> QED
        BY <1>1, <2>2, <3>1
    <2> QED
      BY <1>1, <2>1, <2>2, Kept
  <1> QED
    BY <1>6, <1>7 DEF n

-----------------------------------------------------------------------------
(* The lattice and the elementary state changes of the solver.             *)

Values == {Unknown, Over} \cup {Const(n) : n \in Ints} \cup {Forced(n) : n \in Ints}

\* w is as high as v, or higher.
Le(v, w) == v = Unknown \/ w = Over \/ (IsConst(v) /\ IsConst(w) /\ v.n = w.n)

LEMMA LatticeKinds ==
    /\ Unknown # Over /\ ~IsConst(Unknown) /\ ~IsConst(Over)
    /\ \A n : /\ IsConst(Const(n)) /\ IsConst(Forced(n)) /\ Const(n).n = n /\ Forced(n).n = n
              /\ Const(n) \notin {Unknown, Over} /\ Forced(n) \notin {Unknown, Over}
    /\ \A m, n : Const(n) # Forced(m)
  BY DEF Unknown, Over, Const, Forced, IsConst

LEMMA ValueKinds ==
    /\ {Unknown, Over} \subseteq Values
    /\ \A n \in Ints : Const(n) \in Values /\ Forced(n) \in Values
    /\ \A v \in Values : /\ v = Unknown \/ v = Over \/ IsConst(v)
                         /\ IsConst(v) => v.n \in Ints /\ (v = Const(v.n) \/ v = Forced(v.n))
                         /\ IsConst(v) => v # Unknown /\ v # Over
  BY LatticeKinds DEF Values

LEMMA LeOrders ==
    /\ \A v \in Values : Le(v, v)
    /\ \A u, v, w \in Values : Le(u, v) /\ Le(v, w) => Le(u, w)
  BY LatticeKinds, ValueKinds DEF Le

Assertions == {"different value", "overdefined to constant"}

Solvers ==
    [val : [Cells -> Values], tracked : SUBSET Globals, code : [BlockSet -> Seq(Instructions)],
     exec : SUBSET BlockSet, edges : SUBSET (BlockSet \X BlockSet),
     owl : Seq(Cells), iwl : Seq(Cells), bwl : Seq(BlockSet), broken : SUBSET Assertions]

\* u is t later on: values are higher and announced, lists longer.
Climb(t, u) ==
    /\ u.code = t.code /\ t.exec \subseteq u.exec /\ t.edges \subseteq u.edges
    /\ u.tracked \subseteq t.tracked
    /\ \A g \in t.tracked \ u.tracked : u.val[g] = Over
    /\ \A b \in u.exec \ t.exec : b \in ToSet(u.bwl)
    /\ ToSet(t.owl) \subseteq ToSet(u.owl) /\ ToSet(t.iwl) \subseteq ToSet(u.iwl)
    /\ ToSet(t.bwl) \subseteq ToSet(u.bwl)
    /\ \A x \in Cells : \/ u.val[x] = t.val[x]
                        \/ /\ Le(t.val[x], u.val[x])
                           /\ x \in IF u.val[x] = Over THEN ToSet(u.owl) ELSE ToSet(u.iwl)

\* u is t but for the value w merged into that of x, which is not tracked when it is Over.
Merged(t, u, x, w) ==
    /\ u \in Solvers /\ Climb(t, u)
    /\ Le(w, u.val[x])
    /\ \A y \in Cells \ {x} : u.val[y] = t.val[y]
    /\ u.exec = t.exec /\ u.edges = t.edges /\ u.bwl = t.bwl
    /\ u.tracked = t.tracked \/ (u.tracked = t.tracked \ {x} /\ u.val[x] = Over)
    /\ "different value" \in u.broken => "different value" \in t.broken
    /\ \/ u.val[x] = t.val[x] \/ u.val[x] = Over
       \/ t.val[x] = Unknown /\ IsConst(w) /\ u.val[x] = Const(w.n)

LEMMA AppendSet ==
    ASSUME NEW S, NEW q \in Seq(S), NEW e \in S
    PROVE  Append(q, e) \in Seq(S) /\ ToSet(Append(q, e)) = ToSet(q) \cup {e}
  <1>1. Append(q, e) \in Seq(S) /\ Len(Append(q, e)) = Len(q) + 1
    OBVIOUS
  <1>2. \A k \in 1..Len(q) : Append(q, e)[k] = q[k]
    OBVIOUS
  <1>3. Append(q, e)[Len(q) + 1] = e
    OBVIOUS
  <1>4. DOMAIN Append(q, e) = 1..(Len(q) + 1) /\ DOMAIN q = 1..Len(q) /\ Len(q) \in Nat
    OBVIOUS
  <1>5. 1..(Len(q) + 1) = 1..Len(q) \cup {Len(q) + 1}
    BY <1>4
  <1>6. ToSet(q) = {q[k] : k \in 1..Len(q)}
    BY <1>4 DEF ToSet
  <1>7. ToSet(Append(q, e)) = {Append(q, e)[k] : k \in 1..(Len(q) + 1)}
    BY <1>4 DEF ToSet
  <1> QED
    BY <1>1, <1>2, <1>3, <1>5, <1>6, <1>7

LEMMA FrontFacts ==
    ASSUME NEW S, NEW q \in Seq(S), q # <<>>
    PROVE  /\ Front(q) \in Seq(S) /\ Len(Front(q)) = Len(q) - 1 /\ Len(q) \in Nat \ {0} /\ Last(q) = q[Len(q)] /\ Last(q) \in S
           /\ \A k \in 1..(Len(q) - 1) : Front(q)[k] = q[k]
  <1>1. Len(q) \in Nat /\ Len(q) > 0 /\ DOMAIN q = 1..Len(q)
    OBVIOUS
  <1>2. Front(q) \in Seq(S) /\ Len(Front(q)) = Len(q) - 1 /\ \A k \in 1..(Len(q) - 1) : Front(q)[k] = q[k]
    BY <1>1 DEF Front
  <1>3. Last(q) = q[Len(q)] /\ Last(q) \in S
    BY <1>1 DEF Last
  <1> QED
    BY <1>1, <1>2, <1>3

LEMMA PopSet ==
    ASSUME NEW S, NEW q \in Seq(S), q # <<>>
    PROVE  /\ Last(q) \in S /\ Front(q) \in Seq(S)
           /\ ToSet(q) = ToSet(Front(q)) \cup {Last(q)}
  <1>1. Len(q) \in Nat /\ Len(q) > 0 /\ DOMAIN q = 1..Len(q)
    OBVIOUS
  <1>2. Front(q) \in Seq(S) /\ Len(Front(q)) = Len(q) - 1 /\ \A k \in 1..(Len(q) - 1) : Front(q)[k] = q[k]
    BY FrontFacts
  <1>3. DOMAIN Front(q) = 1..(Len(q) - 1)
    BY <1>2
  <1>4. 1..Len(q) = 1..(Len(q) - 1) \cup {Len(q)}
    BY <1>1
  <1>5. ToSet(q) = {q[k] : k \in 1..Len(q)}
    BY <1>1 DEF ToSet
  <1>6. ToSet(Front(q)) = {Front(q)[k] : k \in 1..(Len(q) - 1)}
    BY <1>3 DEF ToSet
  <1>7. Last(q) = q[Len(q)] /\ Last(q) \in S
    BY FrontFacts
  <1> QED
    BY <1>2, <1>4, <1>5, <1>6, <1>7

LEMMA MarkMerges ==
    ASSUME NEW t \in Solvers, NEW x \in Cells, NEW v \in Values, t.val[x] # Over, v # t.val[x],
           Le(t.val[x], v), NEW w, Le(w, v), v = Over \/ (IsConst(w) /\ v = Const(w.n) /\ t.val[x] = Unknown)
    PROVE  Merged(t, Mark(t, x, v), x, w)
  <1> DEFINE u == Mark(t, x, v)
  <1>1. CASE v = Over
    <2>1. u = [[t EXCEPT !.val[x] = v] EXCEPT !.owl = Append(@, x)]
      BY <1>1 DEF Mark, Push, Solvers
    <2>2. Append(t.owl, x) \in Seq(Cells) /\ ToSet(Append(t.owl, x)) = ToSet(t.owl) \cup {x}
      BY AppendSet DEF Solvers
    <2>3. u \in Solvers
      <3>1. u = [t EXCEPT !.val = [t.val EXCEPT ![x] = v], !.owl = Append(t.owl, x)]
        BY <2>1 DEF Solvers
      <3>2. [t.val EXCEPT ![x] = v] \in [Cells -> Values]
        BY DEF Solvers
      <3> QED
        BY <3>1, <3>2, <2>2 DEF Solvers
    <2>4. /\ u.val = [t.val EXCEPT ![x] = v] /\ u.owl = Append(t.owl, x) /\ u.iwl = t.iwl /\ u.code = t.code
          /\ u.exec = t.exec /\ u.edges = t.edges /\ u.bwl = t.bwl /\ u.tracked = t.tracked /\ u.broken = t.broken
      BY <2>1 DEF Solvers
    <2>5. u.val[x] = v /\ \A y \in Cells \ {x} : u.val[y] = t.val[y]
      BY <2>4 DEF Solvers
    <2>6. Climb(t, u)
      <3> HIDE DEF u
      <3> QED
        BY <2>2, <2>4, <2>5, <1>1 DEF Climb
    <2>7. Merged(t, u, x, w)
      <3> HIDE DEF u
      <3> QED
        BY <2>3, <2>4, <2>5, <2>6, <1>1 DEF Merged
    <2> QED
      BY <2>7
  <1>2. CASE v # Over
    <2>1. u = [[t EXCEPT !.val[x] = v] EXCEPT !.iwl = Append(@, x)]
      BY <1>2 DEF Mark, Push, Solvers
    <2>2. Append(t.iwl, x) \in Seq(Cells) /\ ToSet(Append(t.iwl, x)) = ToSet(t.iwl) \cup {x}
      BY AppendSet DEF Solvers
    <2>3. u \in Solvers
      <3>1. u = [t EXCEPT !.val = [t.val EXCEPT ![x] = v], !.iwl = Append(t.iwl, x)]
        BY <2>1 DEF Solvers
      <3>2. [t.val EXCEPT ![x] = v] \in [Cells -> Values]
        BY DEF Solvers
      <3> QED
        BY <3>1, <3>2, <2>2 DEF Solvers
    <2>4. /\ u.val = [t.val EXCEPT ![x] = v] /\ u.iwl = Append(t.iwl, x) /\ u.owl = t.owl /\ u.code = t.code
          /\ u.exec = t.exec /\ u.edges = t.edges /\ u.bwl = t.bwl /\ u.tracked = t.tracked /\ u.broken = t.broken
      BY <2>1 DEF Solvers
    <2>5. u.val[x] = v /\ \A y \in Cells \ {x} : u.val[y] = t.val[y]
      BY <2>4 DEF Solvers
    <2>6. Climb(t, u)
      <3> HIDE DEF u
      <3> QED
        BY <2>2, <2>4, <2>5, <1>2 DEF Climb
    <2>7. Merged(t, u, x, w)
      <3> HIDE DEF u
      <3> QED
        BY <2>3, <2>4, <2>5, <2>6, <1>2 DEF Merged
    <2> QED
      BY <2>7
  <1> QED
    BY <1>1, <1>2

LEMMA StayMerges ==
    ASSUME NEW t \in Solvers, NEW x \in Cells, NEW w, Le(w, t.val[x])
    PROVE  Merged(t, t, x, w)
  BY DEF Merged, Climb

LEMMA BreakMerges ==
    ASSUME NEW t \in Solvers, NEW x \in Cells, NEW w, Le(w, t.val[x])
    PROVE  Merged(t, [t EXCEPT !.broken = @ \cup {"overdefined to constant"}], x, w)
  <1> DEFINE u == [t EXCEPT !.broken = @ \cup {"overdefined to constant"}]
  <1>1. u \in Solvers
    BY DEF Solvers, Assertions
  <1>2. /\ u.val = t.val /\ u.owl = t.owl /\ u.iwl = t.iwl /\ u.code = t.code /\ u.exec = t.exec /\ u.edges = t.edges
        /\ u.bwl = t.bwl /\ u.tracked = t.tracked /\ u.broken = t.broken \cup {"overdefined to constant"}
    BY DEF Solvers
  <1>3. Merged(t, u, x, w)
    <2> HIDE DEF u
    <2> QED
      BY <1>1, <1>2 DEF Merged, Climb
  <1> QED
    BY <1>3

\* What markOverdefined, markConstant and mergeInValue do.
LEMMA OverMerges ==
    ASSUME NEW t \in Solvers, NEW x \in Cells, NEW w
    PROVE  Merged(t, MarkOverdefined(t, x), x, w)
  <1>1. CASE t.val[x] = Over
    BY <1>1, StayMerges DEF MarkOverdefined, Le
  <1>2. CASE t.val[x] # Over
    BY <1>2, MarkMerges, ValueKinds DEF MarkOverdefined, Le
  <1> QED
    BY <1>1, <1>2

LEMMA ConstantMerges ==
    ASSUME NEW t \in Solvers, NEW x \in Cells, NEW n \in Ints, \A m \in Ints : t.val[x] = Const(m) => m = n,
           NEW w, IsConst(w), w.n = n
    PROVE  Merged(t, MarkConstant(t, x, n), x, w)
  <1>0. t.val[x] \in Values
    BY DEF Solvers
  <1>1. CASE t.val[x] = Unknown
    <2>1. MarkConstant(t, x, n) = Mark(t, x, Const(n))
      BY <1>1 DEF MarkConstant
    <2>2. Le(w, Const(n)) /\ Le(t.val[x], Const(n)) /\ Const(n) # t.val[x] /\ t.val[x] # Over
      BY <1>1, LatticeKinds DEF Le
    <2> QED
      BY <2>1, <2>2, <1>1, MarkMerges, ValueKinds
  <1>2. CASE t.val[x] = Over
    BY <1>2, LatticeKinds, BreakMerges DEF MarkConstant, Le
  <1>3. CASE IsConst(t.val[x]) /\ t.val[x].n = n
    <2>1. MarkConstant(t, x, n) = t
      BY <1>3, <1>0, LatticeKinds, ValueKinds DEF MarkConstant
    <2> QED
      BY <2>1, <1>3, StayMerges DEF Le
  <1>4. CASE IsConst(t.val[x]) /\ t.val[x].n # n
    <2>1. t.val[x] = Forced(t.val[x].n) /\ t.val[x] # Over /\ t.val[x] # Unknown
      BY <1>4, <1>0, ValueKinds
    <2>2. MarkConstant(t, x, n) = Mark(t, x, Over)
      BY <1>4, <2>1 DEF MarkConstant
    <2> QED
      BY <2>1, <2>2, MarkMerges, ValueKinds DEF Le
  <1> QED
    BY <1>0, <1>1, <1>2, <1>3, <1>4, ValueKinds

LEMMA MergeMerges ==
    ASSUME NEW t \in Solvers, NEW x \in Cells, NEW v \in Values
    PROVE  Merged(t, MergeInValue(t, x, v), x, v)
  <1>0. t.val[x] \in Values
    BY DEF Solvers
  <1>1. CASE t.val[x] = Over \/ v = Unknown
    BY <1>1, StayMerges DEF MergeInValue, Le
  <1>2. CASE t.val[x] # Over /\ v = Over
    BY <1>2, OverMerges, LatticeKinds DEF MergeInValue
  <1>3. CASE t.val[x] = Unknown /\ IsConst(v)
    <2>1. MergeInValue(t, x, v) = MarkConstant(t, x, v.n)
      BY <1>3, LatticeKinds DEF MergeInValue
    <2>2. v.n \in Ints /\ \A m \in Ints : t.val[x] # Const(m)
      BY <1>3, LatticeKinds, ValueKinds
    <2> QED
      BY <2>1, <2>2, <1>3, ConstantMerges
  <1>4. CASE IsConst(t.val[x]) /\ IsConst(v) /\ t.val[x].n # v.n
    BY <1>4, OverMerges, LatticeKinds DEF MergeInValue
  <1>5. CASE IsConst(t.val[x]) /\ IsConst(v) /\ t.val[x].n = v.n
    BY <1>5, StayMerges, LatticeKinds DEF MergeInValue, Le
  <1> QED
    BY <1>0, <1>1, <1>2, <1>3, <1>4, <1>5, ValueKinds

\* And when they do nothing.
LEMMA MergeStays ==
    ASSUME NEW t \in Solvers, NEW x \in Cells, NEW v \in Values, Le(v, t.val[x])
    PROVE  MergeInValue(t, x, v) = t
  <1>0. t.val[x] \in Values
    BY DEF Solvers
  <1> QED
    BY <1>0, LatticeKinds, ValueKinds DEF MergeInValue, Le

LEMMA ConstantStays ==
    ASSUME NEW t \in Solvers, NEW x \in Cells, NEW n \in Ints, t.val[x] = Over \/ (IsConst(t.val[x]) /\ t.val[x].n = n)
    PROVE  MarkConstant(t, x, n) = [t EXCEPT !.broken = MarkConstant(t, x, n).broken]
  <1>0. t.val[x] \in Values
    BY DEF Solvers
  <1>1. t = [t EXCEPT !.broken = t.broken]
    BY DEF Solvers
  <1>2. CASE t.val[x] = Over
    BY <1>2, LatticeKinds DEF MarkConstant, Solvers
  <1>3. CASE IsConst(t.val[x]) /\ t.val[x].n = n
    <2>1. MarkConstant(t, x, n) = t
      BY <1>3, <1>0, LatticeKinds, ValueKinds DEF MarkConstant
    <2> QED
      BY <2>1, <1>1
  <1> QED
    BY <1>2, <1>3

-----------------------------------------------------------------------------
(* What an instruction wants its target to be.                             *)

WantsCast(t, i) ==
    LET x == ValueOf(t, i.args[1])
    IN  IF x = Unknown THEN Unknown ELSE IF x = Over THEN Over ELSE Const(FoldCast(i.op, x.n))

WantsPhi(t, b, i) ==
    LET in == Incoming(t, b, i)
    IN  IF Len(i.args) > MaxPhi \/ Over \in in \/ (\E v, w \in in : v.n # w.n) THEN Over
        ELSE IF in = {} THEN Unknown
        ELSE Const((CHOOSE v \in in : TRUE).n)

WantsBinary(t, i) ==
    LET x == ValueOf(t, i.args[1])
        y == ValueOf(t, i.args[2])
        known == IF x # Over THEN x ELSE y
    IN  IF IsConst(x) /\ IsConst(y)
        THEN IF Fold(i.op, x.n, y.n) = Undef THEN Unknown ELSE Const(Fold(i.op, x.n, y.n))
        ELSE IF x # Over /\ y # Over THEN Unknown
        ELSE IF i.op = "udiv" /\ IsConst(x) /\ x.n = 0 THEN Const(0)
        ELSE IF i.op \in Absorbing /\ known = Unknown THEN Unknown
        ELSE IF i.op \in Absorbing /\ IsConst(known) /\ known.n = Absorber(i.op) THEN Const(known.n)
        ELSE Over

WantsCmp(t, i) ==
    LET x == ValueOf(t, i.args[1])
        y == ValueOf(t, i.args[2])
    IN  IF IsConst(x) /\ IsConst(y) THEN Const(Fold(i.op, x.n, y.n))
        ELSE IF x # Over /\ y # Over THEN Unknown
        ELSE Over

WantsSelect(t, i) ==
    LET c == ValueOf(t, i.args[1])
        x == ValueOf(t, i.args[2])
        y == ValueOf(t, i.args[3])
    IN  IF c = Unknown THEN Unknown
        ELSE IF IsConst(c) THEN IF c.n = 0 THEN y ELSE x
        ELSE IF IsConst(x) /\ IsConst(y) /\ x.n = y.n THEN Const(y.n)
        ELSE IF x = Unknown THEN y
        ELSE IF y = Unknown THEN x
        ELSE Over

Wants(t, b, i) ==
    IF i.op = "phi" THEN WantsPhi(t, b, i)
    ELSE IF i.op \in Casts THEN WantsCast(t, i)
    ELSE IF i.op \in BinaryOps THEN WantsBinary(t, i)
    ELSE IF i.op \in Comparisons THEN WantsCmp(t, i)
    ELSE IF i.op = "select" THEN WantsSelect(t, i)
    ELSE IF i.op = "store" THEN IF i.sym \in t.tracked THEN ValueOf(t, i.args[1]) ELSE Unknown
    ELSE IF i.op = "load" THEN IF i.sym \in t.tracked THEN t.val[i.sym] ELSE Over
    ELSE IF i.op = "call" THEN IF i.sym \in RetTracked THEN t.val[i.sym] ELSE Over
    ELSE IF FunOf(b) \in RetTracked THEN ValueOf(t, i.args[1]) ELSE Unknown

Target(b, i) == IF i.op = "store" THEN i.sym ELSE IF i.op = "ret" THEN FunOf(b) ELSE i.dst

\* A result n that was folded can still be folded from what the operands are now.
CanBe(t, b, i, n) ==
    LET v(k) == ValueOf(t, i.args[k])
    IN  IF i.op = "phi" THEN \E k \in 1..Len(i.to) : IsEdgeFeasible(t, i.to[k], b) /\ Covers(v(k), n)
        ELSE IF i.op \in Casts THEN \E x \in Ints : Covers(v(1), x) /\ FoldCast(i.op, x) = n
        ELSE IF i.op \in BinaryOps \cup Comparisons
             THEN \E x, y \in Ints : Covers(v(1), x) /\ Covers(v(2), y) /\ Fold(i.op, x, y) = n
        ELSE i.op = "select" => Covers(v(2), n) \/ Covers(v(3), n)

LEMMA CoversFacts ==
    /\ \A n : Covers(Over, n)
    /\ \A n : ~Covers(Unknown, n)
    /\ \A v, n : IsConst(v) => (Covers(v, n) <=> v.n = n)
    /\ \A v, w, n : Covers(v, n) /\ Le(v, w) => Covers(w, n)
  BY LatticeKinds DEF Covers, Le

LEMMA OperandValues ==
    ASSUME NEW t \in Solvers, NEW o \in Operands
    PROVE  ValueOf(t, o) \in Values
  BY ValueKinds, KindsAssumption DEF ValueOf, Operands, Solvers, Cells

\* The number of operands of an instruction.
Arity(i) ==
    /\ i.op \in Casts \cup {"store", "ret", "br"} => Len(i.args) = 1
    /\ i.op \in BinaryOps \cup Comparisons => Len(i.args) = 2
    /\ i.op = "select" => Len(i.args) = 3
    /\ i.op \in {"phi", "switch"} => Len(i.args) = Len(i.to)
    /\ i.op \in {"load", "store"} => i.sym \in Globals
    /\ i.op = "call" => i.sym \in Functions
    /\ i.dst # "none" <=> i.op \in Results

LEMMA Arguments ==
    ASSUME NEW t \in Solvers, NEW i \in Instructions
    PROVE  /\ \A k \in 1..Len(i.args) : i.args[k] \in Operands /\ ValueOf(t, i.args[k]) \in Values
           /\ i.dst # "none" => i.dst \in Registers /\ i.dst \in Cells
           /\ Len(i.args) \in Nat /\ Len(i.to) \in Nat
           /\ DOMAIN i.args = 1..Len(i.args) /\ DOMAIN i.to = 1..Len(i.to)
  <1>1. i.args \in Seq(Operands) /\ i.to \in Seq(Blocks) /\ i.dst \in Registers \cup {"none"}
    BY DEF Instructions
  <1> QED
    BY <1>1, OperandValues DEF Cells

LEMMA Operations ==
    /\ Casts \cup BinaryOps \cup Comparisons \cup {"phi", "select", "load", "call"} = Results
    /\ Casts \cap (BinaryOps \cup Comparisons) = {} /\ BinaryOps \cap Comparisons = {}
    /\ {"phi", "select", "load", "call", "store", "ret", "jmp", "br", "switch"} \cap (Casts \cup BinaryOps \cup Comparisons) = {}
    /\ Absorbing \subseteq BinaryOps /\ "udiv" \in BinaryOps \ Absorbing
    /\ "store" \notin Results \cup Terminators /\ Terminators = {"ret", "jmp", "br", "switch"}
    /\ Terminators \cap Results = {}
  BY DEF Casts, BinaryOps, Comparisons, Absorbing, Results, Terminators

LEMMA CastMerges ==
    ASSUME NEW t \in Solvers, NEW b, NEW i \in Instructions, Arity(i), i.op \in Casts,
           \A m \in Ints : t.val[i.dst] = Const(m) => CanBe(t, b, i, m)
    PROVE  /\ Merged(t, VisitCast(t, i), i.dst, WantsCast(t, i))
           /\ IsConst(WantsCast(t, i)) => WantsCast(t, i).n \in Ints /\ CanBe(t, b, i, WantsCast(t, i).n)
  <1> DEFINE x == ValueOf(t, i.args[1])
  <1>1. i.dst \in Cells /\ x \in Values
    BY Arguments, Operations DEF Arity
  <1>2. \A n : CanBe(t, b, i, n) <=> \E a \in Ints : Covers(x, a) /\ FoldCast(i.op, a) = n
    BY Operations DEF CanBe
  <1>3. CASE x = Unknown
    BY <1>1, <1>3, StayMerges, LatticeKinds DEF VisitCast, WantsCast, Le
  <1>4. CASE x = Over
    BY <1>1, <1>4, OverMerges, LatticeKinds DEF VisitCast, WantsCast
  <1>5. CASE IsConst(x)
    <2>1. x.n \in Ints /\ x # Unknown /\ x # Over
      BY <1>1, <1>5, ValueKinds
    <2>2. FoldCast(i.op, x.n) \in Ints
      BY <2>1, FoldAssumption
    <2>3. /\ VisitCast(t, i) = MarkConstant(t, i.dst, FoldCast(i.op, x.n))
          /\ WantsCast(t, i) = Const(FoldCast(i.op, x.n))
      BY <2>1 DEF VisitCast, WantsCast
    <2>4. \A m \in Ints : t.val[i.dst] = Const(m) => m = FoldCast(i.op, x.n)
      BY <1>2, <1>5, CoversFacts
    <2>5. CanBe(t, b, i, FoldCast(i.op, x.n))
      BY <1>2, <2>1, <1>5, CoversFacts
    <2> QED
      BY <1>1, <2>2, <2>3, <2>4, <2>5, ConstantMerges, LatticeKinds
  <1> QED
    BY <1>1, <1>3, <1>4, <1>5, ValueKinds

LEMMA CmpMerges ==
    ASSUME NEW t \in Solvers, NEW b, NEW i \in Instructions, Arity(i), i.op \in Comparisons,
           \A m \in Ints : t.val[i.dst] = Const(m) => CanBe(t, b, i, m)
    PROVE  /\ Merged(t, VisitCmp(t, i), i.dst, WantsCmp(t, i))
           /\ IsConst(WantsCmp(t, i)) => WantsCmp(t, i).n \in Ints /\ CanBe(t, b, i, WantsCmp(t, i).n)
  <1> DEFINE x == ValueOf(t, i.args[1])
             y == ValueOf(t, i.args[2])
             n == Fold(i.op, x.n, y.n)
  <1>1. i.dst \in Cells /\ x \in Values /\ y \in Values
    BY Arguments, Operations DEF Arity
  <1>2. \A m : CanBe(t, b, i, m) <=> \E a, c \in Ints : Covers(x, a) /\ Covers(y, c) /\ Fold(i.op, a, c) = m
    BY Operations DEF CanBe
  <1>3. CASE ~(IsConst(x) /\ IsConst(y)) /\ x # Over /\ y # Over
    BY <1>1, <1>3, StayMerges, LatticeKinds DEF VisitCmp, WantsCmp, Le
  <1>4. CASE ~(IsConst(x) /\ IsConst(y)) /\ ~(x # Over /\ y # Over)
    <2>1. WantsCmp(t, i) = Over
      BY <1>4 DEF WantsCmp
    <2>2. (VisitCmp(t, i) = t /\ t.val[i.dst] = Over) \/ VisitCmp(t, i) = MarkOverdefined(t, i.dst)
      BY <1>4 DEF VisitCmp
    <2> QED
      BY <1>1, <2>1, <2>2, OverMerges, StayMerges, LatticeKinds DEF Le
  <1>5. CASE IsConst(x) /\ IsConst(y)
    <2>1. x.n \in Ints /\ y.n \in Ints
      BY <1>1, <1>5, ValueKinds
    <2>2. n \in Ints
      BY <2>1, FoldAssumption
    <2>3. WantsCmp(t, i) = Const(n)
      BY <1>5 DEF WantsCmp
    <2>4. \A m \in Ints : t.val[i.dst] = Const(m) => m = n
      BY <1>2, <1>5, CoversFacts
    <2>5. CanBe(t, b, i, n)
      BY <1>2, <2>1, <1>5, CoversFacts
    <2>6. (VisitCmp(t, i) = t /\ t.val[i.dst] = Over) \/ VisitCmp(t, i) = MarkConstant(t, i.dst, n)
      BY <1>5 DEF VisitCmp
    <2> QED
      BY <1>1, <2>2, <2>3, <2>4, <2>5, <2>6, ConstantMerges, StayMerges, LatticeKinds DEF Le
  <1> QED
    BY <1>1, <1>3, <1>4, <1>5, ValueKinds

LEMMA BinaryMerges ==
    ASSUME NEW t \in Solvers, NEW b, NEW i \in Instructions, Arity(i), i.op \in BinaryOps,
           \A m \in Ints : t.val[i.dst] = Const(m) => CanBe(t, b, i, m)
    PROVE  /\ Merged(t, VisitBinary(t, i), i.dst, WantsBinary(t, i))
           /\ IsConst(WantsBinary(t, i)) => WantsBinary(t, i).n \in Ints /\ CanBe(t, b, i, WantsBinary(t, i).n)
  <1> DEFINE x == ValueOf(t, i.args[1])
             y == ValueOf(t, i.args[2])
             known == IF x # Over THEN x ELSE y
             n == Fold(i.op, x.n, y.n)
  <1>1. i.dst \in Cells /\ x \in Values /\ y \in Values
    BY Arguments, Operations DEF Arity
  <1>2. \A m : CanBe(t, b, i, m) <=> \E a, c \in Ints : Covers(x, a) /\ Covers(y, c) /\ Fold(i.op, a, c) = m
    BY Operations DEF CanBe
  <1>3. 0 \in Ints /\ AllOnes \in Ints /\ Absorber(i.op) \in Ints /\ Undef \notin Ints
    BY SccpAssumption, KindsAssumption DEF Ints, Absorber
  \* a constant, when it is right
  <1>4. ASSUME NEW w, IsConst(w), w.n \in Ints, WantsBinary(t, i) = w, CanBe(t, b, i, w.n),
               \A m \in Ints : CanBe(t, b, i, m) => m = w.n,
               (VisitBinary(t, i) = t /\ t.val[i.dst] = Over) \/ VisitBinary(t, i) = MarkConstant(t, i.dst, w.n)
        PROVE  Merged(t, VisitBinary(t, i), i.dst, w) /\ CanBe(t, b, i, w.n)
    <2>1. \A m \in Ints : t.val[i.dst] = Const(m) => m = w.n
      BY <1>4
    <2>2. CASE t.val[i.dst] = Over /\ VisitBinary(t, i) = t
      BY <1>1, <1>4, <2>2, StayMerges DEF Le
    <2>3. CASE VisitBinary(t, i) = MarkConstant(t, i.dst, w.n)
      BY <1>1, <1>4, <2>1, <2>3, ConstantMerges
    <2> QED
      BY <1>4, <2>2, <2>3
  <1>5. ASSUME WantsBinary(t, i) = Unknown, VisitBinary(t, i) = t
        PROVE  Merged(t, VisitBinary(t, i), i.dst, WantsBinary(t, i)) /\ ~IsConst(WantsBinary(t, i))
    BY <1>1, <1>5, StayMerges, LatticeKinds DEF Le
  <1>6. CASE IsConst(x) /\ IsConst(y) /\ n = Undef
    <2>1. WantsBinary(t, i) = Unknown
      BY <1>6 DEF WantsBinary
    <2>2. VisitBinary(t, i) = t
      BY <1>6 DEF VisitBinary, MarkResult
    <2> QED
      BY <1>5, <2>1, <2>2
  <1>7. CASE IsConst(x) /\ IsConst(y) /\ n # Undef
    <2>1. x.n \in Ints /\ y.n \in Ints
      BY <1>1, <1>7, ValueKinds
    <2>2. n \in Ints
      BY <1>7, <2>1, FoldAssumption
    <2>3. WantsBinary(t, i) = Const(n) /\ Const(n).n = n /\ IsConst(Const(n))
      BY <1>7, LatticeKinds DEF WantsBinary
    <2>4. CanBe(t, b, i, n) /\ \A m \in Ints : CanBe(t, b, i, m) => m = n
      BY <1>2, <2>1, <1>7, CoversFacts
    <2>5. (VisitBinary(t, i) = t /\ t.val[i.dst] = Over) \/ VisitBinary(t, i) = MarkConstant(t, i.dst, n)
      BY <1>7 DEF VisitBinary, MarkResult
    <2> HIDE DEF n
    <2> QED
      BY <1>4, <2>2, <2>3, <2>4, <2>5
  <1>8. CASE ~(IsConst(x) /\ IsConst(y)) /\ x # Over /\ y # Over
    <2>1. WantsBinary(t, i) = Unknown /\ VisitBinary(t, i) = t
      BY <1>8 DEF VisitBinary, WantsBinary
    <2> QED
      BY <1>5, <2>1
  <1>9. CASE ~(IsConst(x) /\ IsConst(y)) /\ ~(x # Over /\ y # Over)
    <2>1. CASE i.op = "udiv" /\ IsConst(x) /\ x.n = 0
      <3>1. y = Over
        BY <1>1, <1>9, <2>1, ValueKinds
      <3>2. WantsBinary(t, i) = Const(0) /\ Const(0).n = 0 /\ IsConst(Const(0))
        BY <1>9, <2>1, LatticeKinds DEF WantsBinary
      <3>3. CanBe(t, b, i, 0)
        BY <1>2, <1>3, <2>1, <3>1, CoversFacts, FoldAssumption
      <3>4. \A m \in Ints : CanBe(t, b, i, m) => m = 0
        BY <1>2, <1>3, <2>1, CoversFacts, FoldAssumption
      <3>5. (VisitBinary(t, i) = t /\ t.val[i.dst] = Over) \/ VisitBinary(t, i) = MarkConstant(t, i.dst, 0)
        BY <1>9, <2>1 DEF VisitBinary
      <3> QED
        BY <1>3, <1>4, <3>2, <3>3, <3>4, <3>5
    <2>2. CASE i.op # "udiv" /\ i.op \in Absorbing /\ known = Unknown
      <3>1. WantsBinary(t, i) = Unknown /\ VisitBinary(t, i) = t
        BY <1>9, <2>2 DEF VisitBinary, WantsBinary
      <3> QED
        BY <1>5, <3>1
    <2>3. CASE i.op # "udiv" /\ i.op \in Absorbing /\ IsConst(known) /\ known.n = Absorber(i.op)
      <3> DEFINE a == Absorber(i.op)
      <3>1. known # Unknown /\ known # Over
        BY <2>3, LatticeKinds
      <3>2. (x = Over /\ known = y) \/ (y = Over /\ known = x)
        BY <1>9, <3>1
      <3>3. WantsBinary(t, i) = Const(a) /\ Const(a).n = a /\ IsConst(Const(a))
        BY <1>9, <2>3, <3>1, LatticeKinds DEF WantsBinary
      <3>4. \A c \in Ints : Fold(i.op, c, a) = a /\ Fold(i.op, a, c) = a
        BY <2>3, FoldAssumption
      <3>5. CanBe(t, b, i, a)
        <4>1. Covers(x, a) /\ Covers(y, a)
          BY <3>2, <2>3, CoversFacts
        <4> QED
          BY <4>1, <1>2, <1>3, <3>4
      <3>6. \A m \in Ints : CanBe(t, b, i, m) => m = a
        <4>1. (\A c : Covers(x, c) => c = a) \/ (\A c : Covers(y, c) => c = a)
          BY <3>2, <2>3, CoversFacts
        <4> QED
          BY <4>1, <1>2, <3>4
      <3>7. (VisitBinary(t, i) = t /\ t.val[i.dst] = Over) \/ VisitBinary(t, i) = MarkConstant(t, i.dst, a)
        BY <1>9, <2>3, <3>1 DEF VisitBinary
      <3> HIDE DEF a
      <3> QED
        BY <1>3, <1>4, <3>3, <3>5, <3>6, <3>7 DEF a
    <2>4. CASE /\ ~(i.op = "udiv" /\ IsConst(x) /\ x.n = 0)
               /\ ~(i.op \in Absorbing /\ known = Unknown)
               /\ ~(i.op \in Absorbing /\ IsConst(known) /\ known.n = Absorber(i.op))
      <3>1. WantsBinary(t, i) = Over
        BY <1>9, <2>4 DEF WantsBinary
      <3>2. (VisitBinary(t, i) = t /\ t.val[i.dst] = Over) \/ VisitBinary(t, i) = MarkOverdefined(t, i.dst)
        BY <1>9, <2>4 DEF VisitBinary
      <3> QED
        BY <1>1, <3>1, <3>2, OverMerges, StayMerges, LatticeKinds DEF Le
    <2> QED
      BY <2>1, <2>2, <2>3, <2>4, Operations
  <1> QED
    BY <1>6, <1>7, <1>8, <1>9

LEMMA SelectMerges ==
    ASSUME NEW t \in Solvers, NEW b, NEW i \in Instructions, Arity(i), i.op = "select",
           \A m \in Ints : t.val[i.dst] = Const(m) => CanBe(t, b, i, m)
    PROVE  /\ Merged(t, VisitSelect(t, i), i.dst, WantsSelect(t, i))
           /\ IsConst(WantsSelect(t, i)) => WantsSelect(t, i).n \in Ints /\ CanBe(t, b, i, WantsSelect(t, i).n)
  <1> DEFINE c == ValueOf(t, i.args[1])
             x == ValueOf(t, i.args[2])
             y == ValueOf(t, i.args[3])
  <1>1. i.dst \in Cells /\ c \in Values /\ x \in Values /\ y \in Values
    BY Arguments, Operations DEF Arity
  <1>2. \A m : CanBe(t, b, i, m) <=> Covers(x, m) \/ Covers(y, m)
    BY Operations DEF CanBe
  <1>3. ASSUME NEW w \in {x, y}, VisitSelect(t, i) = MergeInValue(t, i.dst, w), WantsSelect(t, i) = w
        PROVE  /\ Merged(t, VisitSelect(t, i), i.dst, WantsSelect(t, i))
               /\ IsConst(WantsSelect(t, i)) => WantsSelect(t, i).n \in Ints /\ CanBe(t, b, i, WantsSelect(t, i).n)
    <2>1. w \in Values
      BY <1>1
    <2>2. IsConst(w) => w.n \in Ints /\ Covers(w, w.n)
      BY <2>1, ValueKinds, CoversFacts
    <2> QED
      BY <1>1, <1>2, <1>3, <2>1, <2>2, MergeMerges
  <1>4. CASE c = Unknown
    <2>1. WantsSelect(t, i) = Unknown /\ VisitSelect(t, i) = t
      BY <1>4 DEF VisitSelect, WantsSelect
    <2> QED
      BY <1>1, <2>1, StayMerges, LatticeKinds DEF Le
  <1>5. CASE IsConst(c)
    <2>1. c # Unknown
      BY <1>5, LatticeKinds
    <2>2. /\ VisitSelect(t, i) = MergeInValue(t, i.dst, IF c.n = 0 THEN y ELSE x)
          /\ WantsSelect(t, i) = IF c.n = 0 THEN y ELSE x
      BY <1>5, <2>1 DEF VisitSelect, WantsSelect
    <2> QED
      BY <1>3, <2>2
  <1>6. CASE c = Over
    <2>0. c # Unknown /\ ~IsConst(c)
      BY <1>6, LatticeKinds
    <2>1. CASE IsConst(x) /\ IsConst(y) /\ x.n = y.n
      <3>1. WantsSelect(t, i) = Const(y.n) /\ Const(y.n).n = y.n /\ IsConst(Const(y.n)) /\ y.n \in Ints
        BY <1>1, <2>0, <2>1, LatticeKinds, ValueKinds DEF WantsSelect
      <3>2. VisitSelect(t, i) = MarkConstant(t, i.dst, y.n)
        BY <2>0, <2>1 DEF VisitSelect
      <3>3. CanBe(t, b, i, y.n) /\ \A m \in Ints : CanBe(t, b, i, m) => m = y.n
        BY <1>2, <2>1, CoversFacts
      <3> QED
        BY <1>1, <3>1, <3>2, <3>3, ConstantMerges
    <2>2. CASE ~(IsConst(x) /\ IsConst(y) /\ x.n = y.n) /\ x = Unknown
      <3>1. VisitSelect(t, i) = MergeInValue(t, i.dst, y) /\ WantsSelect(t, i) = y
        BY <2>0, <2>2 DEF VisitSelect, WantsSelect
      <3> QED
        BY <1>3, <3>1
    <2>3. CASE ~(IsConst(x) /\ IsConst(y) /\ x.n = y.n) /\ x # Unknown /\ y = Unknown
      <3>1. VisitSelect(t, i) = MergeInValue(t, i.dst, x) /\ WantsSelect(t, i) = x
        BY <2>0, <2>3 DEF VisitSelect, WantsSelect
      <3> QED
        BY <1>3, <3>1
    <2>4. CASE ~(IsConst(x) /\ IsConst(y) /\ x.n = y.n) /\ x # Unknown /\ y # Unknown
      <3>1. VisitSelect(t, i) = MarkOverdefined(t, i.dst) /\ WantsSelect(t, i) = Over
        BY <2>0, <2>4 DEF VisitSelect, WantsSelect
      <3> QED
        BY <1>1, <3>1, OverMerges, LatticeKinds
    <2> QED
      BY <2>1, <2>2, <2>3, <2>4
  <1> QED
    BY <1>1, <1>4, <1>5, <1>6, ValueKinds

LEMMA PhiMerges ==
    ASSUME NEW t \in Solvers, NEW b, NEW i \in Instructions, Arity(i), i.op = "phi",
           \A m \in Ints : t.val[i.dst] = Const(m) => CanBe(t, b, i, m)
    PROVE  /\ Merged(t, VisitPHI(t, b, i), i.dst, WantsPhi(t, b, i))
           /\ IsConst(WantsPhi(t, b, i)) => WantsPhi(t, b, i).n \in Ints /\ CanBe(t, b, i, WantsPhi(t, b, i).n)
  <1> DEFINE in == Incoming(t, b, i)
             v == CHOOSE w \in in : TRUE
             many == Len(i.args) > MaxPhi \/ Over \in in \/ (\E u, w \in in : u.n # w.n)
  <1>1. i.dst \in Cells /\ Len(i.args) = Len(i.to) /\ \A k \in 1..Len(i.to) : ValueOf(t, i.args[k]) \in Values
    BY Arguments, Operations DEF Arity
  <1>2. \A m : CanBe(t, b, i, m) <=> \E k \in 1..Len(i.to) : IsEdgeFeasible(t, i.to[k], b) /\ Covers(ValueOf(t, i.args[k]), m)
    BY DEF CanBe
  <1>3. \A u \in in : u # Unknown /\ \E k \in 1..Len(i.to) : u = ValueOf(t, i.args[k]) /\ IsEdgeFeasible(t, i.to[k], b)
    BY DEF Incoming
  <1>4. \A k \in 1..Len(i.to) : IsEdgeFeasible(t, i.to[k], b) /\ ValueOf(t, i.args[k]) # Unknown => ValueOf(t, i.args[k]) \in in
    BY DEF Incoming
  <1>5. CASE t.val[i.dst] = Over
    <2>1. VisitPHI(t, b, i) = t
      BY <1>5 DEF VisitPHI
    <2>2. Merged(t, t, i.dst, WantsPhi(t, b, i))
      BY <1>1, <1>5, StayMerges DEF Le
    <2>3. CASE many
      BY <2>1, <2>2, <2>3, LatticeKinds DEF WantsPhi
    <2>4. CASE ~many /\ in = {}
      BY <2>1, <2>2, <2>4, LatticeKinds DEF WantsPhi
    <2>5. CASE ~many /\ in # {}
      <3>1. WantsPhi(t, b, i) = Const(v.n) /\ v \in in
        BY <2>5 DEF WantsPhi
      <3>2. IsConst(v) /\ v.n \in Ints
        BY <1>1, <1>3, <2>5, <3>1, ValueKinds
      <3>3. CanBe(t, b, i, v.n)
        BY <1>2, <1>3, <3>1, <3>2, CoversFacts
      <3> QED
        BY <2>1, <2>2, <3>1, <3>2, <3>3, LatticeKinds
    <2> QED
      BY <2>3, <2>4, <2>5
  <1>6. CASE t.val[i.dst] # Over /\ many
    <2>1. VisitPHI(t, b, i) = MarkOverdefined(t, i.dst) /\ WantsPhi(t, b, i) = Over
      BY <1>6 DEF VisitPHI, WantsPhi
    <2> QED
      BY <1>1, <2>1, OverMerges, LatticeKinds
  <1>7. CASE t.val[i.dst] # Over /\ ~many /\ in = {}
    <2>1. VisitPHI(t, b, i) = t /\ WantsPhi(t, b, i) = Unknown
      BY <1>7 DEF VisitPHI, WantsPhi
    <2> QED
      BY <1>1, <2>1, StayMerges, LatticeKinds DEF Le
  <1>8. CASE t.val[i.dst] # Over /\ ~many /\ in # {}
    <2>1. VisitPHI(t, b, i) = MarkConstant(t, i.dst, v.n) /\ WantsPhi(t, b, i) = Const(v.n) /\ v \in in
      BY <1>8 DEF VisitPHI, WantsPhi
    <2>2. \A u \in in : IsConst(u) /\ u.n \in Ints /\ u.n = v.n
      BY <1>1, <1>3, <1>8, <2>1, ValueKinds
    <2>3. CanBe(t, b, i, v.n)
      BY <1>2, <1>3, <2>1, <2>2, CoversFacts
    <2>4. ASSUME NEW m \in Ints, CanBe(t, b, i, m)  PROVE m = v.n
      <3> HIDE DEF in, v
      <3>1. \E u \in in : Covers(u, m)
        BY <1>2, <1>4, <2>4, CoversFacts
      <3> QED
        BY <2>2, <3>1, CoversFacts
    <2> QED
      BY <1>1, <2>1, <2>2, <2>3, <2>4, ConstantMerges, LatticeKinds
  <1> QED
    BY <1>5, <1>6, <1>7, <1>8

-----------------------------------------------------------------------------
(* Code, and what grows as the values climb.                               *)

CodeOK(c) == c \in [BlockSet -> Seq(Instructions)] /\ CodeShaped(module, c) /\ SingleAssignment(module, c)

LEMMA BlocksOf ==
    ASSUME NEW b \in BlockSet
    PROVE  FunOf(b) \in FunctionSet /\ b \in ToSet(module.blocks[FunOf(b)])
  BY DEF BlockSet, FunOf

LEMMA CodeFacts ==
    ASSUME NEW c, CodeOK(c), NEW p \in Positions(c)
    PROVE  /\ p = <<p[1], p[2]>> /\ p[1] \in BlockSet /\ p[2] \in 1..Len(c[p[1]]) /\ At(c, p) = c[p[1]][p[2]]
           /\ At(c, p) \in Instructions /\ Arity(At(c, p)) /\ Shaped(module, FunOf(p[1]), At(c, p))
           /\ FunOf(p[1]) \in FunctionSet /\ p[1] \in ToSet(module.blocks[FunOf(p[1])])
           /\ BlockShaped(module, c, FunOf(p[1]), p[1])
  <1>1. p = <<p[1], p[2]>> /\ p[1] \in BlockSet /\ p[2] \in 1..Len(c[p[1]])
    BY DEF Positions
  <1>2. c[p[1]] \in Seq(Instructions) /\ p[2] \in DOMAIN c[p[1]]
    BY <1>1 DEF CodeOK
  <1>3. c[p[1]][p[2]] \in Instructions
    BY <1>2
  <1>4. FunOf(p[1]) \in FunctionSet /\ p[1] \in ToSet(module.blocks[FunOf(p[1])])
    BY <1>1, BlocksOf
  <1>5. BlockShaped(module, c, FunOf(p[1]), p[1])
    BY <1>4 DEF CodeOK, CodeShaped, FunctionSet
  <1>6. Shaped(module, FunOf(p[1]), c[p[1]][p[2]])
    BY <1>2, <1>5 DEF BlockShaped
  <1>7. Arity(c[p[1]][p[2]])
    BY <1>6 DEF Shaped, Arity
  <1> QED
    BY <1>1, <1>3, <1>4, <1>5, <1>6, <1>7 DEF At

LEMMA TermFacts ==
    ASSUME NEW c, CodeOK(c), NEW b \in BlockSet
    PROVE  /\ Len(c[b]) \in 1..Len(c[b]) /\ <<b, Len(c[b])>> \in Positions(c) /\ At(c, <<b, Len(c[b])>>) = Term(c, b)
           /\ Term(c, b) \in Instructions /\ Arity(Term(c, b)) /\ Shaped(module, FunOf(b), Term(c, b))
           /\ Term(c, b).op \in Terminators
           /\ \A k \in 1..Len(c[b]) : c[b][k].op \in Terminators => k = Len(c[b])
  <1>1. FunOf(b) \in FunctionSet /\ b \in ToSet(module.blocks[FunOf(b)])
    BY BlocksOf
  <1>2. BlockShaped(module, c, FunOf(b), b)
    BY <1>1 DEF CodeOK, CodeShaped, FunctionSet
  <1>3. c[b] \in Seq(Instructions) /\ c[b] # <<>>
    BY <1>2 DEF CodeOK, BlockShaped
  <1>4. Len(c[b]) \in 1..Len(c[b]) /\ DOMAIN c[b] = 1..Len(c[b])
    BY <1>3
  <1>5. <<b, Len(c[b])>> \in Positions(c)
    BY <1>4 DEF Positions
  <1>6. At(c, <<b, Len(c[b])>>) = Term(c, b)
    BY DEF At, Term
  <1>7. \A k \in 1..Len(c[b]) : c[b][k].op \in Terminators <=> k = Len(c[b])
    BY <1>2, <1>4 DEF BlockShaped
  <1>8. /\ At(c, <<b, Len(c[b])>>) \in Instructions /\ Arity(At(c, <<b, Len(c[b])>>))
        /\ Shaped(module, FunOf(<<b, Len(c[b])>>[1]), At(c, <<b, Len(c[b])>>))
    BY <1>5, CodeFacts
  <1> QED
    BY <1>4, <1>5, <1>6, <1>7, <1>8 DEF Term

LEMMA ClimbTransitive ==
    ASSUME NEW t \in Solvers, NEW u \in Solvers, NEW w \in Solvers, Climb(t, u), Climb(u, w)
    PROVE  Climb(t, w)
  <1>1. \A x \in Cells : t.val[x] \in Values /\ u.val[x] \in Values /\ w.val[x] \in Values
    BY DEF Solvers
  <1>2. \A g \in t.tracked \ w.tracked : w.val[g] = Over
    <2> SUFFICES ASSUME NEW g \in t.tracked, g \notin w.tracked  PROVE w.val[g] = Over
      OBVIOUS
    <2>1. g \in Cells
      BY DEF Solvers, Cells
    <2>2. CASE g \in u.tracked
      BY <2>2 DEF Climb
    <2>3. CASE g \notin u.tracked
      BY <2>1, <2>3, <1>1, LatticeKinds, ValueKinds DEF Climb, Le
    <2> QED
      BY <2>2, <2>3
  <1>3. ASSUME NEW x \in Cells
        PROVE  \/ w.val[x] = t.val[x]
               \/ /\ Le(t.val[x], w.val[x])
                  /\ x \in IF w.val[x] = Over THEN ToSet(w.owl) ELSE ToSet(w.iwl)
    <2>1. Le(t.val[x], u.val[x]) /\ Le(u.val[x], w.val[x])
      BY <1>1, LeOrders DEF Climb
    <2>2. Le(t.val[x], w.val[x])
      BY <2>1, <1>1, LeOrders
    <2>3. CASE w.val[x] = u.val[x]
      BY <2>3, <2>2 DEF Climb
    <2>4. CASE w.val[x] # u.val[x]
      BY <2>4, <2>2 DEF Climb
    <2> QED
      BY <2>3, <2>4
  <1>4. \A b \in w.exec \ t.exec : b \in ToSet(w.bwl)
    BY DEF Climb
  <1> QED
    BY <1>2, <1>3, <1>4 DEF Climb

LEMMA ClimbReflexive ==
    ASSUME NEW t \in Solvers
    PROVE  Climb(t, t)
  BY DEF Climb

LEMMA OperandsClimb ==
    ASSUME NEW t \in Solvers, NEW u \in Solvers, Climb(t, u)
    PROVE  /\ \A x \in Cells : Le(t.val[x], u.val[x])
           /\ \A o \in Operands : Le(ValueOf(t, o), ValueOf(u, o))
  <1>1. \A x \in Cells : Le(t.val[x], u.val[x])
    BY LeOrders DEF Climb, Solvers
  <1>2. ASSUME NEW o \in Operands  PROVE Le(ValueOf(t, o), ValueOf(u, o))
    <2>1. CASE o \in Registers
      <3>1. o \in Cells /\ o \notin Ints /\ o # Undef
        BY <2>1, KindsAssumption DEF Cells
      <3> QED
        BY <3>1, <1>1 DEF ValueOf
    <2>2. CASE o \in Ints \cup {Undef}
      <3>1. ValueOf(t, o) = ValueOf(u, o)
        BY <2>2 DEF ValueOf
      <3> QED
        BY <3>1, OperandValues, LeOrders
    <2> QED
      BY <2>1, <2>2 DEF Operands
  <1> QED
    BY <1>1, <1>2

LEMMA SuccessorsOf ==
    ASSUME NEW i \in Instructions, NEW M, NEW f, Shaped(M, f, i), i.op \in {"br", "switch"}, NEW n
    PROVE  SuccessorsFor(i, n) \subseteq ToSet(i.to)
  <1>1. i.to \in Seq(Blocks) /\ DOMAIN i.to = 1..Len(i.to) /\ Len(i.to) \in Nat /\ i.args \in Seq(Operands)
    BY DEF Instructions
  <1>2. \A k \in 1..Len(i.to) : i.to[k] \in ToSet(i.to)
    BY <1>1 DEF ToSet
  <1>3. CASE i.op = "br"
    <2>1. Len(i.to) = 2
      BY <1>3 DEF Shaped
    <2> QED
      BY <1>1, <1>2, <1>3, <2>1 DEF SuccessorsFor
  <1>4. CASE i.op = "switch"
    <2>1. Len(i.to) > 1 /\ Len(i.args) = Len(i.to)
      BY <1>4 DEF Shaped
    <2>2. 1 \in 1..Len(i.to) /\ 2..Len(i.args) \subseteq 1..Len(i.to)
      BY <1>1, <2>1
    <2>3. SuccessorsFor(i, n) = {i.to[k] : k \in IF {k \in 2..Len(i.args) : i.args[k] = n} = {} THEN {1}
                                                 ELSE {k \in 2..Len(i.args) : i.args[k] = n}}
      BY <1>4 DEF SuccessorsFor
    <2> QED
      BY <1>2, <2>2, <2>3
  <1> QED
    BY <1>3, <1>4

LEMMA FeasibleIn ==
    ASSUME NEW t \in Solvers, CodeOK(t.code), NEW b \in BlockSet
    PROVE  LET i == Term(t.code, b) IN FeasibleSuccessors(t, i) \subseteq ToSet(i.to)
  <1> DEFINE i == Term(t.code, b)
  <1>1. i \in Instructions /\ Arity(i) /\ Shaped(module, FunOf(b), i) /\ i.op \in Terminators
    BY TermFacts
  <1>2. CASE i.op \in {"br", "switch"}
    BY <1>1, <1>2, SuccessorsOf DEF FeasibleSuccessors
  <1>3. CASE i.op \notin {"br", "switch"}
    BY <1>3 DEF FeasibleSuccessors
  <1> QED
    BY <1>2, <1>3

LEMMA FeasibleClimbs ==
    ASSUME NEW t \in Solvers, NEW u \in Solvers, CodeOK(t.code), Climb(t, u), NEW b \in BlockSet
    PROVE  FeasibleSuccessors(t, Term(t.code, b)) \subseteq FeasibleSuccessors(u, Term(u.code, b))
  <1> DEFINE i == Term(t.code, b)
             v == ValueOf(t, i.args[1])
             w == ValueOf(u, i.args[1])
  <1>0. Term(u.code, b) = i
    BY DEF Climb
  <1>1. i \in Instructions /\ Arity(i) /\ Shaped(module, FunOf(b), i) /\ i.op \in Terminators
    BY TermFacts
  <1>2. CASE i.op \in {"br", "switch"}
    <2>1. 1 \in 1..Len(i.args)
      <3>1. Len(i.to) \in Nat /\ Len(i.args) \in Nat
        BY <1>1, Arguments
      <3>2. i.op = "br" => Len(i.args) = 1
        BY <1>1 DEF Shaped
      <3>3. i.op = "switch" => Len(i.args) = Len(i.to) /\ Len(i.to) > 1
        BY <1>1 DEF Shaped
      <3> HIDE DEF i
      <3> QED
        BY <1>2, <3>1, <3>2, <3>3
    <2>2. i.args[1] \in Operands /\ v \in Values /\ w \in Values
      BY <1>1, <2>1, Arguments
    <2>3. Le(v, w)
      BY <2>2, OperandsClimb
    <2>4. \A n : SuccessorsFor(i, n) \subseteq ToSet(i.to)
      BY <1>1, <1>2, SuccessorsOf
    <2>5. /\ FeasibleSuccessors(t, i) = IF v = Unknown THEN {} ELSE IF v = Over THEN ToSet(i.to) ELSE SuccessorsFor(i, v.n)
          /\ FeasibleSuccessors(u, i) = IF w = Unknown THEN {} ELSE IF w = Over THEN ToSet(i.to) ELSE SuccessorsFor(i, w.n)
      BY <1>2 DEF FeasibleSuccessors
    <2>6. v # Unknown /\ w # Over => w # Unknown /\ v # Over /\ v.n = w.n
      BY <2>2, <2>3, LatticeKinds DEF Le
    <2> HIDE DEF v, w, i
    <2>7. FeasibleSuccessors(t, i) \subseteq FeasibleSuccessors(u, i)
      <3>1. CASE v = Unknown
        BY <3>1, <2>5
      <3>2. CASE v # Unknown /\ w = Over
        BY <3>2, <2>4, <2>5, LatticeKinds
      <3>3. CASE v # Unknown /\ w # Over
        BY <3>3, <2>5, <2>6
      <3> QED
        BY <3>1, <3>2, <3>3
    <2> QED
      BY <1>0, <2>7 DEF i
  <1>3. CASE i.op \notin {"br", "switch"}
    <2>1. FeasibleSuccessors(t, i) = FeasibleSuccessors(u, i)
      BY <1>3 DEF FeasibleSuccessors
    <2> QED
      BY <1>0, <2>1
  <1> QED
    BY <1>2, <1>3

LEMMA EdgesClimb ==
    ASSUME NEW t \in Solvers, NEW u \in Solvers, CodeOK(t.code), Climb(t, u), NEW from \in BlockSet, NEW to,
           IsEdgeFeasible(t, from, to)
    PROVE  IsEdgeFeasible(u, from, to)
  BY FeasibleClimbs DEF IsEdgeFeasible, Climb

-----------------------------------------------------------------------------
(* The work lists miss nothing.                                            *)

\* p is still to be visited: it is in T, in a block to visit, or a user of a value on
\* one of the lists; Solve skips a register on the second list that is overdefined.
Pend(t, T, p) ==
    \/ p \in T
    \/ p[1] \in ToSet(t.bwl)
    \/ \E x \in ToSet(t.owl) : p \in Users(t.code, x)
    \/ \E x \in ToSet(t.iwl) : p \in Users(t.code, x) /\ ~(x \in Registers /\ t.val[x] = Over)

\* A visit of p would change no value, no edge and no block.
Settled(t, p) ==
    LET i == At(t.code, p)
        v(k) == ValueOf(t, i.args[k])
    IN  IF i.op = "phi"
        THEN \/ t.val[i.dst] = Over
             \/ /\ Len(i.args) <= MaxPhi
                /\ \A k \in 1..Len(i.to) : <<i.to[k], p[1]>> \in t.edges => Le(v(k), t.val[i.dst])
        ELSE IF i.op \in {"jmp", "br", "switch"}
        THEN \A to \in FeasibleSuccessors(t, i) : <<p[1], to>> \in t.edges
        ELSE /\ Le(Wants(t, p[1], i), t.val[Target(p[1], i)])
             /\ i.op = "call" /\ i.sym \in ArgTracked =>
                   /\ EntryOf(i.sym) \in t.exec
                   /\ \A k \in 1..Len(i.args) : Le(v(k), t.val[module.params[i.sym][k]])

\* What holds of the solver at any time.
Base(t) ==
    /\ t \in Solvers /\ CodeOK(t.code)
    /\ "different value" \notin t.broken
    /\ \A g \in t.tracked : t.val[g] # Over
    /\ \A e \in t.edges : e[2] \in t.exec /\ IsEdgeFeasible(t, e[1], e[2])
    /\ ToSet(t.bwl) \subseteq t.exec
    /\ \A p \in Positions(t.code) : \A n \in Ints :
          At(t.code, p).op \in Results /\ t.val[At(t.code, p).dst] = Const(n) => CanBe(t, p[1], At(t.code, p), n)

Complete(t, T) == \A p \in Positions(t.code) : p[1] \in t.exec => Pend(t, T, p) \/ Settled(t, p)

LEMMA ModuleFacts ==
    ASSUME WellFormed(module)
    PROVE  /\ FunctionSet \subseteq Functions
           /\ \A f \in FunctionSet :
                 /\ module.blocks[f] \in Seq(Blocks) /\ EntryOf(f) \in ToSet(module.blocks[f]) /\ EntryOf(f) \in BlockSet
                 /\ \A b \in ToSet(module.blocks[f]) : b \in BlockSet /\ FunOf(b) = f
                 /\ module.params[f] \in Seq(Registers)
                 /\ \A k \in 1..Len(module.params[f]) : module.params[f][k] \in ToSet(module.params[f])
                 /\ \A k \in 1..Len(module.params[f]) : module.params[f][k] \in Registers /\ module.params[f][k] \in Cells
                 /\ Len(module.params[f]) \in Nat /\ DOMAIN module.params[f] = 1..Len(module.params[f])
           /\ BlockSet \subseteq Blocks
           /\ Len(module.funs) \in Nat /\ \A k \in 1..Len(module.funs) : module.funs[k] \in FunctionSet
           /\ ArgTracked \subseteq FunctionSet /\ RetTracked \subseteq FunctionSet
  <1>1. module.funs \in Seq(Functions) /\ FunctionSet = {module.funs[k] : k \in 1..Len(module.funs)}
    BY DEF WellFormed, FunctionSet, ToSet
  <1>2. FunctionSet \subseteq Functions /\ Len(module.funs) \in Nat /\ \A k \in 1..Len(module.funs) : module.funs[k] \in FunctionSet
    BY <1>1
  <1>3. ASSUME NEW f \in FunctionSet
        PROVE  /\ module.blocks[f] \in Seq(Blocks) /\ EntryOf(f) \in ToSet(module.blocks[f]) /\ EntryOf(f) \in BlockSet
               /\ \A b \in ToSet(module.blocks[f]) : b \in BlockSet /\ FunOf(b) = f /\ b \in Blocks
               /\ module.params[f] \in Seq(Registers)
    <2>1. /\ module.blocks[f] \in Seq(Blocks) /\ module.blocks[f] # <<>> /\ module.params[f] \in Seq(Registers)
          /\ \A g \in FunctionSet : f # g => ToSet(module.blocks[f]) \cap ToSet(module.blocks[g]) = {}
      BY DEF WellFormed, FunctionSet
    <2>2. 1 \in DOMAIN module.blocks[f]
      BY <2>1
    <2>3. EntryOf(f) \in ToSet(module.blocks[f])
      BY <2>2 DEF EntryOf, ToSet
    <2>4. \A b \in ToSet(module.blocks[f]) : b \in BlockSet
      BY DEF BlockSet
    <2>5. \A b \in ToSet(module.blocks[f]) : FunOf(b) = f
      BY <2>1 DEF FunOf
    <2>6. \A b \in ToSet(module.blocks[f]) : b \in Blocks
      BY <2>1 DEF ToSet
    <2> QED
      BY <2>1, <2>3, <2>4, <2>5, <2>6
  <1>4. ASSUME NEW q \in Seq(Registers)
        PROVE  /\ \A k \in 1..Len(q) : q[k] \in ToSet(q) /\ q[k] \in Registers /\ q[k] \in Cells
               /\ Len(q) \in Nat /\ DOMAIN q = 1..Len(q)
    BY DEF ToSet, Cells
  <1>5. BlockSet \subseteq Blocks
    BY <1>3 DEF BlockSet
  <1> QED
    BY <1>2, <1>3, <1>4, <1>5 DEF ArgTracked, RetTracked

LEMMA TargetCell ==
    ASSUME WellFormed(module), NEW c, CodeOK(c), NEW p \in Positions(c)
    PROVE  LET i == At(c, p) IN i.op \in Results \cup {"store", "ret"} => Target(p[1], i) \in Cells
  <1> DEFINE i == At(c, p)
  <1>1. i \in Instructions /\ Arity(i) /\ FunOf(p[1]) \in FunctionSet
    BY CodeFacts
  <1>2. i.op \in Results => i.dst \in Cells /\ i.op \notin {"store", "ret"}
    BY <1>1, Operations DEF Arity, Instructions, Cells
  <1> QED
    BY <1>1, <1>2, ModuleFacts DEF Target, Cells, Arity

LEMMA ClimbPend ==
    ASSUME NEW t \in Solvers, NEW u \in Solvers, Climb(t, u), NEW T, NEW p, Pend(t, T, p)
    PROVE  Pend(u, T, p)
  <1>0. u.code = t.code
    BY DEF Climb
  <1>1. CASE p \in T
    BY <1>1 DEF Pend
  <1>2. CASE p[1] \in ToSet(t.bwl)
    BY <1>2 DEF Pend, Climb
  <1>3. ASSUME NEW x \in ToSet(t.owl), p \in Users(t.code, x)  PROVE Pend(u, T, p)
    BY <1>0, <1>3 DEF Pend, Climb
  <1>4. ASSUME NEW x \in ToSet(t.iwl), p \in Users(t.code, x), ~(x \in Registers /\ t.val[x] = Over)  PROVE Pend(u, T, p)
    <2>1. x \in Cells
      BY DEF Solvers, ToSet
    <2>2. CASE x \in Registers /\ u.val[x] = Over
      <3>1. u.val[x] # t.val[x]
        BY <2>2, <1>4
      <3>2. x \in ToSet(u.owl)
        BY <2>1, <2>2, <3>1 DEF Climb
      <3> QED
        BY <3>2, <1>0, <1>4 DEF Pend
    <2>3. CASE ~(x \in Registers /\ u.val[x] = Over)
      BY <2>3, <1>0, <1>4 DEF Pend, Climb
    <2> QED
      BY <2>2, <2>3
  <1> QED
    BY <1>1, <1>2, <1>3, <1>4 DEF Pend

LEMMA ChangedPends ==
    ASSUME NEW t \in Solvers, NEW u \in Solvers, Climb(t, u), NEW x \in Cells, u.val[x] # t.val[x],
           NEW T, NEW p \in Users(u.code, x)
    PROVE  Pend(u, T, p)
  <1>1. CASE u.val[x] = Over
    BY <1>1 DEF Climb, Pend
  <1>2. CASE u.val[x] # Over
    BY <1>2 DEF Climb, Pend
  <1> QED
    BY <1>1, <1>2

\* What p reads is the same in t and u.
SameReads(t, u, p) ==
    LET i == At(t.code, p)
    IN  /\ \A k \in 1..Len(i.args) : ValueOf(u, i.args[k]) = ValueOf(t, i.args[k])
        /\ i.sym \in Functions \cup Globals => u.val[i.sym] = t.val[i.sym]

LEMMA ReadsSame ==
    ASSUME NEW t \in Solvers, NEW u \in Solvers, CodeOK(t.code), Climb(t, u), NEW T,
           NEW p \in Positions(t.code), ~Pend(u, T, p)
    PROVE  SameReads(t, u, p)
  <1> DEFINE i == At(t.code, p)
  <1>0. u.code = t.code
    BY DEF Climb
  <1>1. i \in Instructions /\ Positions(u.code) = Positions(t.code)
    BY <1>0, CodeFacts
  <1>2. ASSUME NEW k \in 1..Len(i.args)  PROVE ValueOf(u, i.args[k]) = ValueOf(t, i.args[k])
    <2>1. i.args \in Seq(Operands) /\ DOMAIN i.args = 1..Len(i.args)
      BY <1>1 DEF Instructions
    <2>2. i.args[k] \in Operands /\ i.args[k] \in ToSet(i.args)
      BY <2>1 DEF ToSet
    <2>3. CASE i.args[k] \in Registers
      <3>1. p \in Users(u.code, i.args[k]) /\ i.args[k] \in Cells
        BY <1>0, <2>2, <2>3 DEF Users, Cells
      <3>2. u.val[i.args[k]] = t.val[i.args[k]]
        BY <3>1, ChangedPends
      <3> QED
        BY <3>2 DEF ValueOf
    <2>4. CASE i.args[k] \in Ints \cup {Undef}
      BY <2>4 DEF ValueOf
    <2> QED
      BY <2>2, <2>3, <2>4 DEF Operands
  <1>3. ASSUME i.sym \in Functions \cup Globals  PROVE u.val[i.sym] = t.val[i.sym]
    <2>1. p \in Users(u.code, i.sym) /\ i.sym \in Cells
      BY <1>0, <1>3 DEF Users, Cells
    <2> QED
      BY <2>1, ChangedPends
  <1> QED
    BY <1>2, <1>3 DEF SameReads

\* What reads the same wants the same; a phi is another matter.
LEMMA WantsSame ==
    ASSUME NEW t \in Solvers, NEW u \in Solvers, CodeOK(t.code), Climb(t, u), NEW p \in Positions(t.code), SameReads(t, u, p),
           \A g \in t.tracked : t.val[g] # Over, At(t.code, p).op \in (Results \ {"phi"}) \cup {"store", "ret"}
    PROVE  LET i == At(t.code, p) IN Wants(u, p[1], i) = Wants(t, p[1], i)
  <1> DEFINE i == At(t.code, p)
             b == p[1]
  <1>1. i \in Instructions /\ Arity(i)
    BY CodeFacts
  <1>2. /\ \A k \in 1..Len(i.args) : ValueOf(u, i.args[k]) = ValueOf(t, i.args[k])
        /\ i.sym \in Functions \cup Globals => u.val[i.sym] = t.val[i.sym]
    BY DEF SameReads
  <1>3. i.sym \in Globals => (i.sym \in u.tracked <=> i.sym \in t.tracked)
    <2> SUFFICES ASSUME i.sym \in Globals, i.sym \in t.tracked, i.sym \notin u.tracked  PROVE FALSE
      BY DEF Climb
    <2>1. u.val[i.sym] = Over
      BY DEF Climb
    <2> QED
      BY <2>1, <1>2
  <1>x. i.op \in (Results \ {"phi"}) \cup {"store", "ret"}
    OBVIOUS
  <1> SUFFICES Wants(u, b, i) = Wants(t, b, i)
    OBVIOUS
  <1> HIDE DEF i
  <1>4. CASE i.op \in Casts
    BY <1>1, <1>2, <1>4, Operations DEF Wants, WantsCast, Arity
  <1>5. CASE i.op \in BinaryOps
    BY <1>1, <1>2, <1>5, Operations DEF Wants, WantsBinary, Arity
  <1>6. CASE i.op \in Comparisons
    BY <1>1, <1>2, <1>6, Operations DEF Wants, WantsCmp, Arity
  <1>7. CASE i.op = "select"
    BY <1>1, <1>2, <1>7, Operations DEF Wants, WantsSelect, Arity
  <1>8. CASE i.op = "store"
    BY <1>1, <1>2, <1>3, <1>8, Operations DEF Wants, Arity
  <1>9. CASE i.op = "load"
    BY <1>1, <1>2, <1>3, <1>9, Operations DEF Wants, Arity
  <1>10. CASE i.op = "call"
    BY <1>1, <1>2, <1>10, Operations DEF Wants, Arity
  <1>11. CASE i.op = "ret"
    BY <1>1, <1>2, <1>11, Operations DEF Wants, Arity
  <1> QED
    BY <1>4, <1>5, <1>6, <1>7, <1>8, <1>9, <1>10, <1>11, <1>x, Operations

LEMMA SettledClimbs ==
    ASSUME WellFormed(module), NEW t \in Solvers, NEW u \in Solvers, CodeOK(t.code), Climb(t, u), NEW T,
           NEW p \in Positions(t.code), ~Pend(u, T, p), Settled(t, p), \A g \in t.tracked : t.val[g] # Over,
           At(t.code, p).op = "phi" => \A e \in u.edges \ t.edges : e[2] # p[1]
    PROVE  Settled(u, p)
  <1> DEFINE i == At(t.code, p)
             b == p[1]
  <1>0. At(u.code, p) = i
    BY DEF Climb
  <1>1. i \in Instructions /\ Arity(i) /\ b \in BlockSet /\ FunOf(b) \in FunctionSet /\ Shaped(module, FunOf(b), i)
    BY CodeFacts
  <1>2. SameReads(t, u, p)
    BY ReadsSame
  <1>3. /\ \A k \in 1..Len(i.args) : ValueOf(u, i.args[k]) = ValueOf(t, i.args[k]) /\ ValueOf(t, i.args[k]) \in Values
        /\ i.op \in Results => i.dst \in Cells
    BY <1>1, <1>2, Arguments DEF SameReads, Arity
  <1>4. \A x \in Cells : Le(t.val[x], u.val[x]) /\ t.val[x] \in Values /\ u.val[x] \in Values
    BY OperandsClimb DEF Solvers
  <1>5. CASE i.op = "phi"
    <2>1. i.dst \in Cells /\ Len(i.args) = Len(i.to)
      BY <1>1, <1>3, <1>5, Operations DEF Arity
    <2>2. CASE t.val[i.dst] = Over
      <3>1. u.val[i.dst] = Over
        BY <2>1, <2>2, <1>4, LatticeKinds DEF Le
      <3> QED
        BY <3>1, <1>0, <1>5 DEF Settled
    <2>3. CASE t.val[i.dst] # Over
      <3>1. Len(i.args) <= MaxPhi /\ \A k \in 1..Len(i.to) : <<i.to[k], b>> \in t.edges => Le(ValueOf(t, i.args[k]), t.val[i.dst])
        BY <2>3, <1>5 DEF Settled
      <3>2. ASSUME NEW k \in 1..Len(i.to), <<i.to[k], b>> \in u.edges
            PROVE Le(ValueOf(u, i.args[k]), u.val[i.dst])
        <4>1. <<i.to[k], b>> \in t.edges
          BY <3>2, <1>5
        <4>2. Le(ValueOf(t, i.args[k]), t.val[i.dst])
          BY <4>1, <3>1
        <4> QED
          BY <4>2, <2>1, <1>3, <1>4, LeOrders
      <3> QED
        BY <3>1, <3>2, <1>0, <1>5 DEF Settled
    <2> QED
      BY <2>2, <2>3
  <1>6. CASE i.op \in {"jmp", "br", "switch"}
    <2>1. FeasibleSuccessors(u, i) = FeasibleSuccessors(t, i)
      <3>1. CASE i.op = "jmp"
        BY <3>1 DEF FeasibleSuccessors
      <3>2. CASE i.op \in {"br", "switch"}
        <4>1. 1 \in 1..Len(i.args)
          <5>1. Len(i.to) \in Nat /\ Len(i.args) \in Nat
            BY <1>1, Arguments
          <5>2. i.op = "br" => Len(i.args) = 1
            BY <1>1 DEF Shaped
          <5>3. i.op = "switch" => Len(i.args) = Len(i.to) /\ Len(i.to) > 1
            BY <1>1 DEF Shaped
          <5> QED
            BY <3>2, <5>1, <5>2, <5>3
        <4>2. ValueOf(u, i.args[1]) = ValueOf(t, i.args[1])
          BY <4>1, <1>3
        <4> QED
          BY <4>2, <3>2 DEF FeasibleSuccessors
      <3> QED
        BY <1>6, <3>1, <3>2
    <2>2. \A to \in FeasibleSuccessors(t, i) : <<b, to>> \in t.edges
      BY <1>6 DEF Settled
    <2>3. t.edges \subseteq u.edges
      BY DEF Climb
    <2> QED
      BY <2>1, <2>2, <2>3, <1>0, <1>6 DEF Settled
  <1>7. CASE i.op \in (Results \ {"phi"}) \cup {"store", "ret"}
    <2>1. Wants(u, b, i) = Wants(t, b, i)
      BY <1>2, <1>7, WantsSame
    <2>2. Target(b, i) \in Cells
      BY <1>7, TargetCell
    <2>3. Le(Wants(t, b, i), t.val[Target(b, i)])
      BY <1>7, Operations DEF Settled
    <2>4. Le(Wants(t, b, i), u.val[Target(b, i)])
      BY <2>2, <2>3, <1>4, LatticeKinds DEF Le
    <2>5. ASSUME i.op = "call", i.sym \in ArgTracked
          PROVE  /\ EntryOf(i.sym) \in u.exec
                 /\ \A k \in 1..Len(i.args) : Le(ValueOf(u, i.args[k]), u.val[module.params[i.sym][k]])
      <3>1. /\ EntryOf(i.sym) \in t.exec
            /\ \A k \in 1..Len(i.args) : Le(ValueOf(t, i.args[k]), t.val[module.params[i.sym][k]])
        BY <2>5 DEF Settled
      <3>2. i.sym \in FunctionSet /\ Len(i.args) = Len(module.params[i.sym])
        BY <2>5, <1>1, ModuleFacts DEF Shaped, FunctionSet
      <3>3. \A k \in 1..Len(i.args) : module.params[i.sym][k] \in Cells
        BY <3>2, ModuleFacts
      <3> QED
        BY <3>1, <3>3, <1>3, <1>4, LeOrders DEF Climb
    <2> QED
      BY <2>1, <2>4, <2>5, <1>0, <1>7, Operations DEF Settled
  <1> QED
    BY <1>1, <1>5, <1>6, <1>7, Operations DEF Instructions

LEMMA CanBeClimbs ==
    ASSUME WellFormed(module), NEW t \in Solvers, NEW u \in Solvers, CodeOK(t.code), Climb(t, u),
           NEW p \in Positions(t.code), NEW n, CanBe(t, p[1], At(t.code, p), n)
    PROVE  CanBe(u, p[1], At(t.code, p), n)
  <1> DEFINE i == At(t.code, p)
             b == p[1]
  <1>1. i \in Instructions /\ Arity(i) /\ b \in BlockSet /\ FunOf(b) \in FunctionSet /\ Shaped(module, FunOf(b), i)
    BY CodeFacts
  <1>2. \A k \in 1..Len(i.args) : \A a : Covers(ValueOf(t, i.args[k]), a) => Covers(ValueOf(u, i.args[k]), a)
    BY <1>1, OperandsClimb, Arguments, CoversFacts
  <1> SUFFICES CanBe(u, b, i, n)
    OBVIOUS
  <1>x. CanBe(t, b, i, n)
    OBVIOUS
  <1>3. CASE i.op = "phi"
    <2>1. PICK k \in 1..Len(i.to) : IsEdgeFeasible(t, i.to[k], b) /\ Covers(ValueOf(t, i.args[k]), n)
      BY <1>3, <1>x DEF CanBe
    <2>2. i.to[k] \in BlockSet
      <3>1. i.to[k] \in ToSet(i.to)
        BY <1>1, Arguments DEF ToSet
      <3>2. i.to[k] \in ToSet(module.blocks[FunOf(b)])
        BY <3>1, <1>1 DEF Shaped
      <3> QED
        BY <3>2, <1>1, ModuleFacts
    <2>3. IsEdgeFeasible(u, i.to[k], b)
      BY <2>1, <2>2, EdgesClimb
    <2>4. Len(i.args) = Len(i.to)
      BY <1>1, <1>3 DEF Arity
    <2> QED
      BY <2>1, <2>3, <2>4, <1>2, <1>3 DEF CanBe
  <1> HIDE DEF i, b
  <1>4. CASE i.op \in Casts
    BY <1>1, <1>2, <1>4, <1>x, Operations DEF CanBe, Arity
  <1>5. CASE i.op \in BinaryOps \cup Comparisons
    <2>1. Len(i.args) = 2
      BY <1>1, <1>5 DEF Arity
    <2> QED
      BY <2>1, <1>2, <1>5, <1>x, Operations DEF CanBe
  <1>6. CASE i.op = "select"
    <2>1. Len(i.args) = 3
      BY <1>1, <1>6 DEF Arity
    <2>2. CanBe(t, b, i, n) <=> Covers(ValueOf(t, i.args[2]), n) \/ Covers(ValueOf(t, i.args[3]), n)
      BY <1>6, Operations DEF CanBe
    <2>3. CanBe(u, b, i, n) <=> Covers(ValueOf(u, i.args[2]), n) \/ Covers(ValueOf(u, i.args[3]), n)
      BY <1>6, Operations DEF CanBe
    <2> QED
      BY <2>1, <2>2, <2>3, <1>2, <1>x
  <1>7. CASE i.op \notin {"phi", "select"} \cup Casts \cup BinaryOps \cup Comparisons
    BY <1>7 DEF CanBe
  <1> QED
    BY <1>3, <1>4, <1>5, <1>6, <1>7

\* Every instruction has a result of its own, which is no parameter.
LEMMA OneResult ==
    ASSUME NEW c, CodeOK(c), NEW p \in Positions(c), NEW q \in Positions(c), At(c, p).op \in Results
    PROVE  /\ At(c, p).dst = At(c, q).dst => p = q
           /\ At(c, p).dst \in Registers
           /\ \A f \in FunctionSet : At(c, p).dst \notin ToSet(module.params[f])
  <1>1. /\ p = <<p[1], p[2]>> /\ p[1] \in BlockSet /\ p[2] \in 1..Len(c[p[1]]) /\ At(c, p) = c[p[1]][p[2]]
        /\ q = <<q[1], q[2]>> /\ q[1] \in BlockSet /\ q[2] \in 1..Len(c[q[1]]) /\ At(c, q) = c[q[1]][q[2]]
        /\ At(c, p) \in Instructions /\ Arity(At(c, p))
    BY CodeFacts
  <1>2. At(c, p).dst # "none" /\ At(c, p).dst \in Registers
    BY <1>1 DEF Arity, Instructions
  <1>3. p[1] \in DOMAIN c /\ q[1] \in DOMAIN c /\ p[2] \in DOMAIN c[p[1]] /\ q[2] \in DOMAIN c[q[1]]
    BY <1>1 DEF CodeOK
  <1>4. /\ At(c, p).dst = At(c, q).dst => <<p[1], p[2]>> = <<q[1], q[2]>>
        /\ \A f \in FunctionSet : At(c, p).dst \notin ToSet(module.params[f])
    BY <1>1, <1>2, <1>3 DEF CodeOK, SingleAssignment, FunctionSet
  <1> QED
    BY <1>1, <1>2, <1>4

LEMMA MergedBase ==
    ASSUME WellFormed(module), NEW t, Base(t), NEW u, NEW x \in Cells, NEW w, Merged(t, u, x, w),
           x \in u.tracked => u.val[x] # Over,
           IsConst(w) => \A p \in Positions(t.code) :
               At(t.code, p).op \in Results /\ At(t.code, p).dst = x => CanBe(t, p[1], At(t.code, p), w.n)
    PROVE  Base(u)
  <1>1. t \in Solvers /\ u \in Solvers /\ CodeOK(t.code) /\ Climb(t, u) /\ u.code = t.code /\ CodeOK(u.code)
    BY DEF Base, Merged, Climb
  <1>2. "different value" \notin u.broken
    BY DEF Base, Merged
  <1>3. \A g \in u.tracked : u.val[g] # Over
    <2>1. \A g \in u.tracked : g \in t.tracked /\ g \in Cells
      BY <1>1 DEF Climb, Solvers, Cells
    <2> QED
      BY <2>1 DEF Base, Merged
  <1>4. ASSUME NEW e \in u.edges  PROVE e[2] \in u.exec /\ IsEdgeFeasible(u, e[1], e[2])
    <2>1. e \in t.edges /\ e[1] \in BlockSet
      BY <1>1 DEF Merged, Solvers
    <2>2. e[2] \in t.exec /\ IsEdgeFeasible(t, e[1], e[2])
      BY <2>1 DEF Base
    <2> QED
      BY <2>1, <2>2, <1>1, EdgesClimb DEF Merged
  <1>5. ToSet(u.bwl) \subseteq u.exec
    BY DEF Base, Merged
  <1>6. ASSUME NEW p \in Positions(u.code), NEW n \in Ints, At(u.code, p).op \in Results,
               u.val[At(u.code, p).dst] = Const(n)
        PROVE  CanBe(u, p[1], At(u.code, p), n)
    <2> DEFINE i == At(t.code, p)
    <2>1. p \in Positions(t.code) /\ At(u.code, p) = i
      BY <1>1
    <2>2. i.dst \in Cells
      BY <1>1, <1>6, <2>1, OneResult DEF Cells
    <2>3. CanBe(t, p[1], i, n)
      <3>1. CASE u.val[i.dst] = t.val[i.dst]
        BY <3>1, <1>6, <2>1 DEF Base
      <3>2. CASE u.val[i.dst] # t.val[i.dst]
        <4>1. i.dst = x
          BY <2>2, <3>2 DEF Merged
        <4>2. IsConst(w) /\ Const(n) = Const(w.n)
          BY <4>1, <3>2, <1>6, <2>1, LatticeKinds DEF Merged
        <4>3. n = w.n
          BY <4>2, LatticeKinds
        <4> QED
          BY <4>1, <4>2, <4>3, <1>6, <2>1
      <3> QED
        BY <3>1, <3>2
    <2> QED
      BY <1>1, <2>1, <2>3, CanBeClimbs
  <1> QED
    BY <1>1, <1>2, <1>3, <1>4, <1>5, <1>6 DEF Base

LEMMA MergedComplete ==
    ASSUME WellFormed(module), NEW t, Base(t), NEW u, NEW x, NEW w, Merged(t, u, x, w),
           NEW T, NEW p, Complete(t, T \cup {p}), Pend(u, T, p) \/ Settled(u, p)
    PROVE  Complete(u, T)
  <1>1. t \in Solvers /\ u \in Solvers /\ CodeOK(t.code) /\ Climb(t, u) /\ u.code = t.code /\ u.exec = t.exec /\ u.edges = t.edges
    BY DEF Base, Merged, Climb
  <1>2. ASSUME NEW q \in Positions(u.code), q[1] \in u.exec, ~Pend(u, T, q)  PROVE Settled(u, q)
    <2>1. CASE q = p
      BY <2>1, <1>2
    <2>2. CASE q # p
      <3>1. ~Pend(u, T \cup {p}, q)
        BY <2>2, <1>2 DEF Pend
      <3>2. ~Pend(t, T \cup {p}, q)
        BY <3>1, <1>1, ClimbPend
      <3>3. Settled(t, q) /\ q \in Positions(t.code)
        BY <3>2, <1>1, <1>2 DEF Complete
      <3>4. \A g \in t.tracked : t.val[g] # Over
        BY DEF Base
      <3> QED
        BY <3>3, <3>4, <1>1, <1>2, SettledClimbs
    <2> QED
      BY <2>1, <2>2
  <1> QED
    BY <1>2 DEF Complete

-----------------------------------------------------------------------------
(* The visitors with one target.                                           *)

LEMMA StoreMerges ==
    ASSUME NEW t \in Solvers, NEW i \in Instructions, Arity(i), i.op = "store", NEW b
    PROVE  LET u == VisitStore(t, i)
           IN  Merged(t, u, i.sym, Wants(t, b, i)) /\ (i.sym \in u.tracked => u.val[i.sym] # Over)
  <1> DEFINE v == ValueOf(t, i.args[1])
             u == MergeInValue(t, i.sym, v)
             w == VisitStore(t, i)
  <1>1. i.sym \in Cells /\ v \in Values /\ Operations
    BY Arguments, Operations DEF Arity, Cells
  <1>2. Wants(t, b, i) = IF i.sym \in t.tracked THEN v ELSE Unknown
    BY Operations DEF Wants
  <1>3. CASE i.sym \notin t.tracked
    BY <1>1, <1>2, <1>3, StayMerges DEF VisitStore, Le
  <1>4. CASE i.sym \in t.tracked
    <2>1. Merged(t, u, i.sym, v)
      BY <1>1, MergeMerges
    <2>2. w = IF u.val[i.sym] = Over THEN [u EXCEPT !.tracked = @ \ {i.sym}] ELSE u
      BY <1>4 DEF VisitStore
    <2>3. u.tracked = t.tracked \/ u.tracked = t.tracked \ {i.sym}
      BY <2>1 DEF Merged
    <2>4. CASE u.val[i.sym] # Over
      BY <2>1, <2>2, <2>4, <1>2, <1>4
    <2>5. CASE u.val[i.sym] = Over
      <3>1. /\ w \in Solvers /\ w.tracked = u.tracked \ {i.sym}
            /\ w.val = u.val /\ w.owl = u.owl /\ w.iwl = u.iwl /\ w.code = u.code /\ w.exec = u.exec
            /\ w.edges = u.edges /\ w.bwl = u.bwl /\ w.broken = u.broken
        <4> HIDE DEF u, w
        <4> QED
          BY <2>1, <2>2, <2>5 DEF Merged, Solvers
      <3>2. w.tracked = t.tracked \ {i.sym}
        BY <3>1, <2>3
      <3>3. Merged(t, w, i.sym, v)
        <4> HIDE DEF u, w
        <4> QED
          BY <2>1, <2>5, <3>1, <3>2 DEF Merged, Climb
      <3> QED
        BY <3>2, <3>3, <1>2, <1>4
    <2> QED
      BY <2>4, <2>5
  <1> QED
    BY <1>3, <1>4

LEMMA VisitMerges ==
    ASSUME WellFormed(module), NEW t, Base(t), NEW p \in Positions(t.code),
           At(t.code, p).op \in (Results \ {"call"}) \cup {"store", "ret"}
    PROVE  LET i == At(t.code, p)
               u == Visit(t, p)
               x == Target(p[1], i)
               w == Wants(t, p[1], i)
           IN  /\ Merged(t, u, x, w)
               /\ x \in u.tracked => u.val[x] # Over
               /\ IsConst(w) /\ i.op \in Results => CanBe(t, p[1], i, w.n)
  <1> DEFINE i == At(t.code, p)
             b == p[1]
             u == Visit(t, p)
             x == Target(b, i)
             w == Wants(t, b, i)
  <1>1. i \in Instructions /\ Arity(i) /\ t \in Solvers /\ FunOf(b) \in FunctionSet
    BY CodeFacts DEF Base
  <1>2. x \in Cells
    BY TargetCell DEF Base
  <1>3. i.op \in Results => x = i.dst /\ x \in Registers /\ \A m \in Ints : t.val[i.dst] = Const(m) => CanBe(t, b, i, m)
    BY <1>1, Operations, OneResult DEF Base, Target
  <1>4. x \notin Globals => x \notin t.tracked
    BY <1>1 DEF Solvers
  <1>5. ASSUME Merged(t, u, x, w), x \in Registers \cup Functions  PROVE x \notin u.tracked
    BY <1>4, <1>5, KindsAssumption DEF Merged, Climb
  <1>6. Visit(t, p) = VisitInstruction(t, b, i)
    BY DEF Visit
  <1> SUFFICES /\ Merged(t, u, x, w)
               /\ x \in u.tracked => u.val[x] # Over
               /\ IsConst(w) /\ i.op \in Results => CanBe(t, b, i, w.n)
    OBVIOUS
  <1>x. i.op \in (Results \ {"call"}) \cup {"store", "ret"}
    OBVIOUS
  <1>7. CASE i.op = "phi"
    <2>1. u = VisitPHI(t, b, i) /\ w = WantsPhi(t, b, i)
      BY <1>6, <1>7, Operations DEF VisitInstruction, Wants
    <2> QED
      BY <2>1, <1>1, <1>3, <1>5, <1>7, PhiMerges, Operations
  <1>8. CASE i.op \in Casts
    <2>1. u = VisitCast(t, i) /\ w = WantsCast(t, i)
      BY <1>6, <1>8, Operations DEF VisitInstruction, Wants, Casts
    <2> QED
      BY <2>1, <1>1, <1>3, <1>5, <1>8, CastMerges, Operations
  <1>9. CASE i.op \in BinaryOps
    <2>1. u = VisitBinary(t, i) /\ w = WantsBinary(t, i)
      BY <1>6, <1>9, Operations DEF VisitInstruction, Wants, BinaryOps
    <2> QED
      BY <2>1, <1>1, <1>3, <1>5, <1>9, BinaryMerges, Operations
  <1>10. CASE i.op \in Comparisons
    <2>1. u = VisitCmp(t, i) /\ w = WantsCmp(t, i)
      BY <1>6, <1>10, Operations DEF VisitInstruction, Wants, Comparisons
    <2> QED
      BY <2>1, <1>1, <1>3, <1>5, <1>10, CmpMerges, Operations
  <1>11. CASE i.op = "select"
    <2>1. u = VisitSelect(t, i) /\ w = WantsSelect(t, i)
      BY <1>6, <1>11, Operations DEF VisitInstruction, Wants
    <2> QED
      BY <2>1, <1>1, <1>3, <1>5, <1>11, SelectMerges, Operations
  <1>12. CASE i.op = "load"
    <2>1. u = VisitLoad(t, i) /\ w = (IF i.sym \in t.tracked THEN t.val[i.sym] ELSE Over)
      BY <1>6, <1>12, Operations DEF VisitInstruction, Wants
    <2>2. CanBe(t, b, i, w.n)
      BY <1>12, Operations DEF CanBe
    <2>3. x = i.dst /\ x \in Registers
      BY <1>3, <1>12, Operations
    <2>4. t.val[i.sym] \in Values
      BY <1>1, <1>12 DEF Arity, Solvers, Cells
    <2>5. Merged(t, u, x, w)
      <3>1. CASE t.val[i.dst] = Over
        BY <3>1, <1>1, <1>2, <2>1, <2>3, StayMerges DEF VisitLoad, Le
      <3>2. CASE t.val[i.dst] # Over /\ i.sym \in t.tracked
        BY <3>2, <1>1, <1>2, <2>1, <2>3, <2>4, MergeMerges DEF VisitLoad
      <3>3. CASE t.val[i.dst] # Over /\ i.sym \notin t.tracked
        BY <3>3, <1>1, <1>2, <2>1, <2>3, OverMerges DEF VisitLoad
      <3> QED
        BY <3>1, <3>2, <3>3
    <2> QED
      BY <2>2, <2>3, <2>5, <1>5
  <1>13. CASE i.op = "store"
    <2>1. u = VisitStore(t, i) /\ x = i.sym
      BY <1>6, <1>13, Operations DEF VisitInstruction, Target
    <2> QED
      BY <2>1, <1>1, <1>13, StoreMerges, Operations
  <1>14. CASE i.op = "ret"
    <2>1. u = VisitReturn(t, b, i) /\ x = FunOf(b) /\ w = (IF FunOf(b) \in RetTracked THEN ValueOf(t, i.args[1]) ELSE Unknown)
      BY <1>6, <1>14, Operations DEF VisitInstruction, Wants, Target
    <2>2. ValueOf(t, i.args[1]) \in Values
      BY <1>1, <1>14, Arguments DEF Arity
    <2>3. Merged(t, u, x, w)
      BY <1>1, <1>2, <2>1, <2>2, MergeMerges, StayMerges DEF VisitReturn, Le
    <2>4. x \in Functions
      BY <2>1, <1>1, ModuleFacts
    <2> QED
      BY <2>3, <2>4, <1>5, <1>14, Operations
  <1> QED
    BY <1>7, <1>8, <1>9, <1>10, <1>11, <1>12, <1>13, <1>14, <1>x, Operations

LEMMA SimpleVisit ==
    ASSUME WellFormed(module), NEW t, Base(t), NEW p \in Positions(t.code), NEW T, Complete(t, T \cup {p}),
           At(t.code, p).op \in (Results \ {"call"}) \cup {"store", "ret"}
    PROVE  LET u == Visit(t, p)
           IN  Base(u) /\ Complete(u, T) /\ Climb(t, u) /\ u.exec = t.exec /\ u.edges = t.edges /\ u.bwl = t.bwl
  <1> DEFINE i == At(t.code, p)
             b == p[1]
             u == Visit(t, p)
             x == Target(b, i)
             w == Wants(t, b, i)
  <1>0. t \in Solvers /\ CodeOK(t.code) /\ i \in Instructions /\ Arity(i) /\ \A g \in t.tracked : t.val[g] # Over
    BY CodeFacts DEF Base
  <1>1. Merged(t, u, x, w) /\ (x \in u.tracked => u.val[x] # Over) /\ (IsConst(w) /\ i.op \in Results => CanBe(t, b, i, w.n))
    BY VisitMerges
  <1>2. x \in Cells
    BY <1>0, TargetCell
  <1> HIDE DEF u
  <1>3. u \in Solvers /\ Climb(t, u) /\ u.exec = t.exec /\ u.edges = t.edges /\ u.bwl = t.bwl /\ u.code = t.code
    BY <1>1 DEF Merged, Climb
  <1>4. Base(u)
    <2>1. ASSUME NEW q \in Positions(t.code), At(t.code, q).op \in Results, At(t.code, q).dst = x, IsConst(w)
          PROVE CanBe(t, q[1], At(t.code, q), w.n)
      <3>1. At(t.code, q).dst \in Registers
        BY <1>0, <2>1, OneResult
      <3>2. i.op \notin {"store", "ret"}
        <4>1. i.op = "store" => x \in Globals
          BY <1>0 DEF Target, Arity
        <4>2. i.op = "ret" => x \in Functions
          BY <1>0, CodeFacts, ModuleFacts DEF Target
        <4> QED
          BY <4>1, <4>2, <3>1, <2>1, KindsAssumption
      <3>3. i.op \in Results /\ x = i.dst
        BY <3>2 DEF Target
      <3>4. q = p
        BY <3>3, <1>0, <2>1, OneResult
      <3> QED
        BY <3>3, <3>4, <1>1, <2>1
    <2> QED
      BY <2>1, <1>1, <1>2, MergedBase
  <1>5. Pend(u, T, p) \/ Settled(u, p)
    <2> SUFFICES ASSUME ~Pend(u, T, p)  PROVE Settled(u, p)
      OBVIOUS
    <2>1. SameReads(t, u, p)
      BY <1>0, <1>3, ReadsSame
    <2>2. At(u.code, p) = i
      BY <1>3
    <2>3. Le(w, u.val[x])
      BY <1>1 DEF Merged
    <2>4. CASE i.op \in (Results \ {"phi", "call"}) \cup {"store", "ret"}
      <3>1. Wants(u, b, i) = w
        BY <2>1, <2>4, <1>0, <1>3, WantsSame
      <3> QED
        BY <2>2, <2>3, <2>4, <3>1, Operations DEF Settled
    <2>5. CASE i.op = "phi"
      <3> DEFINE in == Incoming(t, b, i)
                 v == CHOOSE z \in in : TRUE
                 many == Len(i.args) > MaxPhi \/ Over \in in \/ (\E y, z \in in : y.n # z.n)
      <3>1. x = i.dst /\ w = WantsPhi(t, b, i) /\ Len(i.args) = Len(i.to)
        BY <2>5, <1>0, Operations DEF Target, Wants, Arity
      <3>2. \A k \in 1..Len(i.to) : ValueOf(u, i.args[k]) = ValueOf(t, i.args[k]) /\ ValueOf(t, i.args[k]) \in Values
        BY <2>1, <3>1, <1>0, Arguments DEF SameReads
      <3>3. ASSUME NEW k \in 1..Len(i.to), <<i.to[k], b>> \in u.edges
            PROVE  ValueOf(t, i.args[k]) = Unknown \/ ValueOf(t, i.args[k]) \in in
        <4>0. \A e \in t.edges : IsEdgeFeasible(t, e[1], e[2])
          BY DEF Base
        <4>1. IsEdgeFeasible(t, i.to[k], b)
          BY <3>3, <1>3, <4>0
        <4> QED
          BY <4>1 DEF Incoming
      <3>4. CASE many
        <4>1. w = Over
          BY <3>1, <3>4 DEF WantsPhi
        <4>2. u.val[i.dst] = Over
          BY <4>1, <3>1, <2>3, LatticeKinds DEF Le
        <4> QED
          BY <4>2, <2>2, <2>5 DEF Settled
      <3>5. CASE ~many
        <4>1. ASSUME NEW k \in 1..Len(i.to), <<i.to[k], b>> \in u.edges
              PROVE  Le(ValueOf(u, i.args[k]), u.val[i.dst])
          <5>1. CASE ValueOf(t, i.args[k]) = Unknown
            BY <5>1, <3>2 DEF Le
          <5>2. CASE ValueOf(t, i.args[k]) # Unknown
            <6>1. ValueOf(t, i.args[k]) \in in /\ v \in in
              BY <3>3, <4>1, <5>2
            <6>2. w = Const(v.n) /\ ValueOf(t, i.args[k]).n = v.n /\ ValueOf(t, i.args[k]) # Over
              BY <3>1, <3>5, <6>1 DEF WantsPhi
            <6>3. IsConst(ValueOf(t, i.args[k]))
              BY <5>2, <6>2, <3>2, ValueKinds
            <6> QED
              BY <6>2, <6>3, <3>1, <3>2, <2>3, LatticeKinds DEF Le
          <5> QED
            BY <5>1, <5>2
        <4>2. Len(i.args) <= MaxPhi
          BY <3>5, <1>0, Arguments, SccpAssumption
        <4> QED
          BY <4>1, <4>2, <2>2, <2>5 DEF Settled
      <3> QED
        BY <3>4, <3>5
    <2> QED
      BY <2>4, <2>5
  <1>6. Complete(u, T)
    BY <1>1, <1>5, MergedComplete
  <1> QED
    BY <1>3, <1>4, <1>6 DEF u

-----------------------------------------------------------------------------
(* Edges, terminators, calls and blocks.                                   *)

LEMMA GrownBase ==
    ASSUME WellFormed(module), NEW t, Base(t), NEW u \in Solvers, Climb(t, u),
           u.val = t.val, u.broken = t.broken, u.tracked = t.tracked, ToSet(u.bwl) \subseteq u.exec,
           \A e \in u.edges \ t.edges : e[2] \in u.exec /\ IsEdgeFeasible(t, e[1], e[2])
    PROVE  Base(u)
  <1>1. t \in Solvers /\ CodeOK(t.code) /\ u.code = t.code
    BY DEF Base, Climb
  <1>2. ASSUME NEW e \in u.edges  PROVE e[2] \in u.exec /\ IsEdgeFeasible(u, e[1], e[2])
    <2>1. e[1] \in BlockSet
      BY DEF Solvers
    <2>2. e[2] \in u.exec /\ IsEdgeFeasible(t, e[1], e[2])
      BY DEF Base, Climb
    <2> QED
      BY <2>1, <2>2, <1>1, EdgesClimb
  <1>3. ASSUME NEW p \in Positions(u.code), NEW n \in Ints, At(u.code, p).op \in Results,
               u.val[At(u.code, p).dst] = Const(n)
        PROVE  CanBe(u, p[1], At(u.code, p), n)
    <2>1. CanBe(t, p[1], At(t.code, p), n) /\ p \in Positions(t.code)
      BY <1>1, <1>3 DEF Base
    <2> QED
      BY <1>1, <2>1, CanBeClimbs
  <1> QED
    BY <1>1, <1>2, <1>3 DEF Base

LEMMA GrownComplete ==
    ASSUME WellFormed(module), NEW t, Base(t), NEW u \in Solvers, Climb(t, u), NEW T, Complete(t, T),
           NEW R, T \subseteq R,
           \A q \in Positions(t.code) : \A e \in u.edges \ t.edges :
               e[2] = q[1] /\ At(t.code, q).op = "phi" => Pend(u, R, q)
    PROVE  Complete(u, R)
  <1>1. t \in Solvers /\ CodeOK(t.code) /\ u.code = t.code /\ \A g \in t.tracked : t.val[g] # Over
    BY DEF Base, Climb
  <1>2. ASSUME NEW q \in Positions(u.code), q[1] \in u.exec, ~Pend(u, R, q)  PROVE Settled(u, q)
    <2>1. q[1] \in t.exec
      BY <1>2 DEF Climb, Pend
    <2>2. ~Pend(u, T, q)
      BY <1>2 DEF Pend
    <2>3. ~Pend(t, T, q)
      BY <2>2, <1>1, ClimbPend
    <2>4. Settled(t, q) /\ q \in Positions(t.code)
      BY <2>1, <2>3, <1>1, <1>2 DEF Complete
    <2> QED
      BY <2>2, <2>4, <1>1, <1>2, SettledClimbs
  <1> QED
    BY <1>2 DEF Complete

LEMMA PhisVisited ==
    ASSUME WellFormed(module), NEW t, Base(t), NEW b \in BlockSet, NEW T,
           Complete(t, T \cup {<<b, j>> : j \in {k \in 1..Len(t.code[b]) : t.code[b][k].op = "phi"}})
    PROVE  LET u == VisitPhis(t, b)
           IN  Base(u) /\ Complete(u, T) /\ Climb(t, u) /\ u.exec = t.exec /\ u.edges = t.edges /\ u.bwl = t.bwl
  <1> DEFINE c == t.code[b]
             n == Len(c)
             Rest(k) == {<<b, j>> : j \in {h \in (k + 1)..n : c[h].op = "phi"}}
             P == [k \in 0..n |-> {u \in Solvers : /\ Base(u) /\ Complete(u, T \cup Rest(k)) /\ Climb(t, u)
                                                   /\ u.exec = t.exec /\ u.edges = t.edges /\ u.bwl = t.bwl}]
             Step(u, k) == IF c[k].op = "phi" THEN VisitPHI(u, b, c[k]) ELSE u
  <1>0. t \in Solvers /\ CodeOK(t.code) /\ c \in Seq(Instructions) /\ n \in Nat
    <2>1. t \in Solvers /\ CodeOK(t.code)
      BY DEF Base
    <2>2. c \in Seq(Instructions)
      BY <2>1 DEF CodeOK
    <2> QED
      BY <2>1, <2>2
  <1>1. t \in P[0]
    <2>1. Rest(0) = {<<b, j>> : j \in {k \in 1..Len(t.code[b]) : t.code[b][k].op = "phi"}}
      OBVIOUS
    <2> QED
      BY <2>1, <1>0, ClimbReflexive
  <1>2. ASSUME NEW k \in 1..n, NEW u \in P[k - 1]  PROVE Step(u, k) \in P[k]
    <2>1. /\ u \in Solvers /\ Base(u) /\ Complete(u, T \cup Rest(k - 1)) /\ Climb(t, u)
          /\ u.exec = t.exec /\ u.edges = t.edges /\ u.bwl = t.bwl /\ u.code = t.code
      BY <1>0, <1>2 DEF Climb
    <2>2. CASE c[k].op # "phi"
      <3>1. Rest(k - 1) = Rest(k)
        BY <2>2, <1>0
      <3> QED
        BY <3>1, <2>1, <2>2, <1>0
    <2>3. CASE c[k].op = "phi"
      <3> DEFINE p == <<b, k>>
      <3>1. T \cup Rest(k - 1) = (T \cup Rest(k)) \cup {p}
        BY <2>3, <1>0
      <3>2. p \in Positions(u.code) /\ At(u.code, p) = c[k]
        BY <2>1 DEF Positions, At
      <3>3. Step(u, k) = Visit(u, p)
        BY <3>2, <2>3, Operations DEF Visit, VisitInstruction
      <3>4. LET w == Visit(u, p)
            IN  Base(w) /\ Complete(w, T \cup Rest(k)) /\ Climb(u, w) /\ w.exec = u.exec /\ w.edges = u.edges /\ w.bwl = u.bwl
        <4>1. Complete(u, (T \cup Rest(k)) \cup {p})
          BY <2>1, <3>1
        <4>2. At(u.code, p).op \in (Results \ {"call"}) \cup {"store", "ret"}
          BY <3>2, <2>3 DEF Results
        <4> HIDE DEF Rest, p, P, Step
        <4> QED
          BY <4>1, <4>2, <3>2, <2>1, SimpleVisit
      <3>5. Visit(u, p) \in Solvers
        BY <3>4 DEF Base
      <3>6. Climb(t, Visit(u, p))
        BY <3>4, <3>5, <2>1, <1>0, ClimbTransitive
      <3> HIDE DEF p, Rest, Step
      <3> QED
        BY <3>3, <3>4, <3>5, <3>6, <2>1, <1>0
    <2> QED
      BY <2>1, <2>2, <2>3
  <1>3. VisitPhis(t, b) \in P[n]
    <2> HIDE DEF P
    <2> QED
      BY <1>0, <1>1, <1>2, VisitPhisKeeps
  <1>4. Rest(n) = {} /\ n \in 0..n
    BY <1>0
  <1>5. T \cup Rest(n) = T
    BY <1>4
  <1> HIDE DEF Rest, Step
  <1> QED
    BY <1>3, <1>4, <1>5

\* markBlockExecutable.
LEMMA MarkedBlock ==
    ASSUME NEW t \in Solvers, NEW b \in BlockSet
    PROVE  LET u == MarkBlockExecutable(t, b)
           IN  /\ u \in Solvers /\ Climb(t, u) /\ u.exec = t.exec \cup {b} /\ ToSet(u.bwl) \subseteq ToSet(t.bwl) \cup {b}
               /\ u.val = t.val /\ u.edges = t.edges /\ u.tracked = t.tracked /\ u.broken = t.broken
               /\ b \notin t.exec => b \in ToSet(u.bwl)
  <1> DEFINE u == MarkBlockExecutable(t, b)
  <1>1. CASE b \in t.exec
    <2>1. u = t
      BY <1>1 DEF MarkBlockExecutable
    <2> QED
      BY <1>1, <2>1, ClimbReflexive
  <1>2. CASE b \notin t.exec
    <2>1. Append(t.bwl, b) \in Seq(BlockSet) /\ ToSet(Append(t.bwl, b)) = ToSet(t.bwl) \cup {b}
      BY AppendSet DEF Solvers
    <2>2. u = [t EXCEPT !.exec = @ \cup {b}, !.bwl = Append(@, b)]
      BY <1>2 DEF MarkBlockExecutable
    <2>3. /\ u.exec = t.exec \cup {b} /\ u.bwl = Append(t.bwl, b) /\ u.val = t.val /\ u.edges = t.edges
          /\ u.tracked = t.tracked /\ u.broken = t.broken /\ u.code = t.code /\ u.owl = t.owl /\ u.iwl = t.iwl
      BY <2>2 DEF Solvers
    <2>4. u \in Solvers
      <3>1. u = [t EXCEPT !.exec = t.exec \cup {b}, !.bwl = Append(t.bwl, b)]
        BY <2>2 DEF Solvers
      <3>2. t.exec \cup {b} \in SUBSET BlockSet
        BY DEF Solvers
      <3> QED
        BY <2>1, <3>1, <3>2 DEF Solvers
    <2>5. Climb(t, u)
      <3> HIDE DEF u
      <3> QED
        BY <2>1, <2>3 DEF Climb
    <2> QED
      BY <2>1, <2>3, <2>4, <2>5
  <1> QED
    BY <1>1, <1>2

LEMMA BlockMarked ==
    ASSUME WellFormed(module), NEW t, Base(t), NEW b \in BlockSet, NEW T, Complete(t, T)
    PROVE  LET u == MarkBlockExecutable(t, b)
           IN  Base(u) /\ Complete(u, T) /\ Climb(t, u) /\ u.exec = t.exec \cup {b}
  <1> DEFINE u == MarkBlockExecutable(t, b)
  <1>0. t \in Solvers /\ ToSet(t.bwl) \subseteq t.exec
    BY DEF Base
  <1>1. /\ u \in Solvers /\ Climb(t, u) /\ u.exec = t.exec \cup {b} /\ ToSet(u.bwl) \subseteq ToSet(t.bwl) \cup {b}
        /\ u.val = t.val /\ u.edges = t.edges /\ u.tracked = t.tracked /\ u.broken = t.broken
    BY <1>0, MarkedBlock
  <1> HIDE DEF u
  <1>2. Base(u)
    BY <1>0, <1>1, GrownBase
  <1>3. Complete(u, T)
    BY <1>1, GrownComplete
  <1> QED
    BY <1>1, <1>2, <1>3 DEF u

LEMMA EdgeMarked ==
    ASSUME WellFormed(module), NEW t, Base(t), NEW from \in BlockSet, NEW to \in BlockSet,
           IsEdgeFeasible(t, from, to), NEW T, Complete(t, T)
    PROVE  LET u == MarkEdgeExecutable(t, from, to)
           IN  Base(u) /\ Complete(u, T) /\ Climb(t, u) /\ <<from, to>> \in u.edges
  <1> DEFINE e == <<from, to>>
             u == MarkEdgeExecutable(t, from, to)
             v == [t EXCEPT !.edges = @ \cup {e}]
  <1>0. t \in Solvers /\ ToSet(t.bwl) \subseteq t.exec /\ CodeOK(t.code)
    BY DEF Base
  <1>1. CASE e \in t.edges
    <2>1. u = t
      BY <1>1 DEF MarkEdgeExecutable
    <2> QED
      BY <1>0, <1>1, <2>1, ClimbReflexive
  <1>2. /\ v \in Solvers /\ v.edges = t.edges \cup {e} /\ v.val = t.val /\ v.exec = t.exec /\ v.bwl = t.bwl /\ v.code = t.code
        /\ v.tracked = t.tracked /\ v.broken = t.broken /\ v.owl = t.owl /\ v.iwl = t.iwl
    <2>1. v = [t EXCEPT !.edges = t.edges \cup {e}]
      BY <1>0 DEF Solvers
    <2>2. t.edges \cup {e} \in SUBSET (BlockSet \X BlockSet)
      BY <1>0 DEF Solvers
    <2> HIDE DEF e
    <2>3. v \in Solvers
      BY <1>0, <2>1, <2>2 DEF Solvers
    <2> QED
      BY <1>0, <2>1, <2>3 DEF Solvers
  <1>3. Climb(t, v)
    <2> HIDE DEF v
    <2> QED
      BY <1>2 DEF Climb
  <1>4. e[1] = from /\ e[2] = to
    OBVIOUS
  <1>5. CASE e \notin t.edges /\ to \notin t.exec
    <2>1. u = MarkBlockExecutable(v, to)
      BY <1>5 DEF MarkEdgeExecutable
    <2> HIDE DEF v, u
    <2>2. /\ u \in Solvers /\ Climb(v, u) /\ u.exec = t.exec \cup {to} /\ ToSet(u.bwl) \subseteq ToSet(t.bwl) \cup {to}
          /\ u.val = t.val /\ u.edges = t.edges \cup {e} /\ u.tracked = t.tracked /\ u.broken = t.broken
          /\ to \in ToSet(u.bwl)
      BY <1>2, <1>5, <2>1, MarkedBlock
    <2>3. Climb(t, u)
      BY <1>0, <1>2, <1>3, <2>2, ClimbTransitive
    <2> HIDE DEF e
    <2>4. \A f \in u.edges \ t.edges : f[2] = to /\ f[1] = from
      BY <1>4, <2>2
    <2>5. Base(u)
      <3>1. to \in u.exec /\ ToSet(u.bwl) \subseteq u.exec
        BY <1>0, <2>2
      <3> QED
        BY <2>2, <2>3, <2>4, <3>1, GrownBase
    <2>6. Complete(u, T)
      <3>1. \A q : q[1] = to => Pend(u, T, q)
        BY <2>2 DEF Pend
      <3> QED
        BY <2>2, <2>3, <2>4, <3>1, GrownComplete
    <2> QED
      BY <2>2, <2>3, <2>5, <2>6 DEF u, e
  <1>6. CASE e \notin t.edges /\ to \in t.exec
    <2> DEFINE R == T \cup {<<to, j>> : j \in {k \in 1..Len(v.code[to]) : v.code[to][k].op = "phi"}}
    <2>1. u = VisitPhis(v, to)
      BY <1>6 DEF MarkEdgeExecutable
    <2> HIDE DEF v, u, e
    <2>2. \A f \in v.edges \ t.edges : f[2] = to /\ f[1] = from
      BY <1>2, <1>4
    <2>3. Base(v)
      BY <1>0, <1>2, <1>3, <1>6, <2>2, GrownBase
    <2>4. Complete(v, R)
      <3>1. ASSUME NEW q \in Positions(t.code), q[1] = to, At(t.code, q).op = "phi"  PROVE q \in R
        BY <1>0, <1>2, <3>1, CodeFacts
      <3>2. T \subseteq R
        OBVIOUS
      <3> HIDE DEF R
      <3> QED
        BY <1>2, <1>3, <2>2, <3>1, <3>2, GrownComplete DEF Pend
    <2>5. Base(u) /\ Complete(u, T) /\ Climb(v, u) /\ u.edges = v.edges
      BY <2>1, <2>3, <2>4, PhisVisited
    <2>6. u \in Solvers
      BY <2>5 DEF Base
    <2>7. Climb(t, u)
      BY <1>0, <1>2, <1>3, <2>5, <2>6, ClimbTransitive
    <2> QED
      BY <1>2, <2>5, <2>7 DEF u, e
  <1> QED
    BY <1>1, <1>5, <1>6

\* A visit that leaves only the visited instruction to be settled.
LEMMA VisitedComplete ==
    ASSUME NEW u, NEW T, NEW p, Complete(u, T \cup {p}), Pend(u, T, p) \/ Settled(u, p)
    PROVE  Complete(u, T)
  BY DEF Complete, Pend

LEMMA TerminatorVisited ==
    ASSUME WellFormed(module), NEW t, Base(t), NEW p \in Positions(t.code), p[1] \in t.exec,
           NEW T, Complete(t, T \cup {p}), At(t.code, p).op \in {"jmp", "br", "switch"}
    PROVE  LET u == Visit(t, p) IN Base(u) /\ Complete(u, T) /\ Climb(t, u)
  <1> DEFINE i == At(t.code, p)
             b == p[1]
             u == Visit(t, p)
             n == Len(i.to)
             P == [k \in 0..n |-> {w \in Solvers : /\ Base(w) /\ Complete(w, T \cup {p}) /\ Climb(t, w)
                                                   /\ \A j \in 1..k : i.to[j] \in FeasibleSuccessors(t, i) =>
                                                                          <<b, i.to[j]>> \in w.edges}]
  <1>0. t \in Solvers /\ CodeOK(t.code)
    BY DEF Base
  <1>1. /\ i \in Instructions /\ Arity(i) /\ b \in BlockSet /\ FunOf(b) \in FunctionSet /\ Shaped(module, FunOf(b), i)
        /\ p = <<b, p[2]>> /\ p[2] \in 1..Len(t.code[b]) /\ i = t.code[b][p[2]]
    BY <1>0, CodeFacts
  <1>2. i = Term(t.code, b)
    <2>1. i.op \in Terminators
      BY DEF Terminators
    <2>2. \A k \in 1..Len(t.code[b]) : t.code[b][k].op \in Terminators => k = Len(t.code[b])
      <3> HIDE DEF i, b
      <3> QED
        BY <1>0, <1>1, TermFacts
    <2> QED
      BY <1>1, <2>1, <2>2 DEF Term
  <1>3. n \in Nat /\ \A k \in 1..n : i.to[k] \in BlockSet
    <2> HIDE DEF i
    <2>1. n \in Nat /\ DOMAIN i.to = 1..n
      BY <1>0, <1>1, Arguments
    <2>2. \A k \in 1..n : i.to[k] \in ToSet(i.to)
      BY <2>1 DEF ToSet
    <2>3. ToSet(i.to) \subseteq BlockSet
      BY <1>1, ModuleFacts DEF Shaped
    <2> QED
      BY <2>1, <2>2, <2>3
  <1>4. t \in P[0]
    BY <1>0, <1>3, ClimbReflexive
  <1>5. ASSUME NEW k \in 1..n, NEW w \in P[k - 1]
        PROVE  (IF i.to[k] \in FeasibleSuccessors(t, i) THEN MarkEdgeExecutable(w, b, i.to[k]) ELSE w) \in P[k]
    <2>1. /\ w \in Solvers /\ Base(w) /\ Complete(w, T \cup {p}) /\ Climb(t, w)
          /\ \A j \in 1..(k - 1) : i.to[j] \in FeasibleSuccessors(t, i) => <<b, i.to[j]>> \in w.edges
      BY <1>3, <1>5
    <2>2. CASE i.to[k] \notin FeasibleSuccessors(t, i)
      <3>1. \A j \in 1..k : i.to[j] \in FeasibleSuccessors(t, i) => <<b, i.to[j]>> \in w.edges
        BY <2>1, <2>2, <1>3
      <3> QED
        BY <2>1, <2>2, <3>1, <1>3
    <2>3. CASE i.to[k] \in FeasibleSuccessors(t, i)
      <3> DEFINE z == MarkEdgeExecutable(w, b, i.to[k])
      <3>1. IsEdgeFeasible(t, b, i.to[k])
        BY <1>2, <2>3, Zenon DEF IsEdgeFeasible
      <3>2. IsEdgeFeasible(w, b, i.to[k])
        BY <1>0, <1>1, <2>1, <3>1, EdgesClimb
      <3>3. Base(z) /\ Complete(z, T \cup {p}) /\ Climb(w, z) /\ <<b, i.to[k]>> \in z.edges
        BY <1>1, <1>3, <2>1, <3>2, EdgeMarked
      <3> HIDE DEF z, i
      <3>4. z \in Solvers /\ Climb(t, z)
        BY <1>0, <2>1, <3>3, ClimbTransitive DEF Base
      <3>5. w.edges \subseteq z.edges
        BY <3>3 DEF Climb
      <3>6. \A j \in 1..k : i.to[j] \in FeasibleSuccessors(t, i) => <<b, i.to[j]>> \in z.edges
        BY <2>1, <3>3, <3>5, <1>3
      <3>7. z \in P[k]
        BY <3>3, <3>4, <3>6, <1>3
      <3> QED
        BY <2>3, <3>7 DEF z
    <2> QED
      BY <2>2, <2>3
  <1>6. VisitTerminator(t, b, i) \in P[n]
    <2> HIDE DEF P, i
    <2> QED
      BY <1>3, <1>4, <1>5, VisitTerminatorKeeps
  <1>7. u = VisitTerminator(t, b, i)
    BY Operations DEF Visit, VisitInstruction
  <1>8. /\ u \in Solvers /\ Base(u) /\ Complete(u, T \cup {p}) /\ Climb(t, u)
        /\ \A j \in 1..n : i.to[j] \in FeasibleSuccessors(t, i) => <<b, i.to[j]>> \in u.edges
    <2> HIDE DEF i, u
    <2>1. u \in P[n] /\ n \in 0..n
      BY <1>3, <1>6, <1>7
    <2> QED
      BY <2>1
  <1>9. ASSUME ~Pend(u, T, p)  PROVE Settled(u, p)
    <2> HIDE DEF u
    <2>1. SameReads(t, u, p) /\ At(u.code, p) = i
      BY <1>0, <1>8, <1>9, ReadsSame DEF Climb
    <2>2. FeasibleSuccessors(u, i) = FeasibleSuccessors(t, i)
      <3>1. CASE i.op = "jmp"
        BY <3>1 DEF FeasibleSuccessors
      <3>2. CASE i.op \in {"br", "switch"}
        <4>1. 1 \in 1..Len(i.args)
          <5>1. Len(i.to) \in Nat /\ Len(i.args) \in Nat
            BY <1>0, <1>1, Arguments
          <5>2. i.op = "br" => Len(i.args) = 1
            BY <1>1 DEF Shaped
          <5>3. i.op = "switch" => Len(i.args) = Len(i.to) /\ Len(i.to) > 1
            BY <1>1 DEF Shaped
          <5> HIDE DEF i
          <5>4. Len(i.args) >= 1
            BY ONLY <3>2, <5>1, <5>2, <5>3, SMT
          <5> QED
            BY ONLY <5>1, <5>4, SMT
        <4>2. ValueOf(u, i.args[1]) = ValueOf(t, i.args[1])
          BY <4>1, <2>1 DEF SameReads
        <4> QED
          BY <4>2, <3>2 DEF FeasibleSuccessors
      <3> QED
        BY <3>1, <3>2
    <2>3. FeasibleSuccessors(t, i) \subseteq ToSet(i.to)
      BY <1>0, <1>1, <1>2, FeasibleIn
    <2>4. \A to \in ToSet(i.to) : \E j \in 1..n : to = i.to[j]
      <3> HIDE DEF i
      <3>1. DOMAIN i.to = 1..n
        BY <1>0, <1>1, Arguments
      <3> QED
        BY <3>1 DEF ToSet
    <2> QED
      BY <1>8, <2>1, <2>2, <2>3, <2>4 DEF Settled
  <1>10. Complete(u, T)
    <2> HIDE DEF u
    <2> QED
      BY <1>8, <1>9, VisitedComplete, Zenon
  <1> QED
    BY <1>8, <1>10

LEMMA ArgumentsPassed ==
    ASSUME WellFormed(module), NEW t, Base(t), NEW p \in Positions(t.code),
           NEW T, Complete(t, T \cup {p}), At(t.code, p).op = "call", At(t.code, p).sym \in ArgTracked
    PROVE  LET i == At(t.code, p)
               u == PassArguments(t, i)
           IN  /\ Base(u) /\ Complete(u, T \cup {p}) /\ Climb(t, u) /\ EntryOf(i.sym) \in u.exec
               /\ \A k \in 1..Len(i.args) : Le(ValueOf(t, i.args[k]), u.val[module.params[i.sym][k]])
  <1> DEFINE i == At(t.code, p)
             n == Len(i.args)
             x(k) == module.params[i.sym][k]
             P == [k \in 0..n |-> {w \in Solvers : /\ Base(w) /\ Complete(w, T \cup {p}) /\ Climb(t, w)
                                                   /\ EntryOf(i.sym) \in w.exec
                                                   /\ \A j \in 1..k : Le(ValueOf(t, i.args[j]), w.val[x(j)])}]
  <1>0. t \in Solvers /\ CodeOK(t.code)
    BY DEF Base
  <1>1. i \in Instructions /\ Arity(i) /\ p[1] \in BlockSet /\ Shaped(module, FunOf(p[1]), i)
    BY <1>0, CodeFacts
  <1>2. i.sym \in FunctionSet /\ n = Len(module.params[i.sym])
    BY <1>1, ModuleFacts DEF Shaped, FunctionSet
  <1>3. n \in Nat /\ EntryOf(i.sym) \in BlockSet
        /\ \A k \in 1..n : x(k) \in Registers /\ x(k) \in Cells /\ x(k) \in ToSet(module.params[i.sym])
    BY <1>2, ModuleFacts
  <1>4. \A k \in 1..n : i.args[k] \in Operands
    BY <1>0, <1>1, Arguments
  <1>5. MarkBlockExecutable(t, EntryOf(i.sym)) \in P[0]
    <2> DEFINE u == MarkBlockExecutable(t, EntryOf(i.sym))
    <2>1. Base(u) /\ Complete(u, T \cup {p}) /\ Climb(t, u) /\ u.exec = t.exec \cup {EntryOf(i.sym)}
      BY <1>3, BlockMarked
    <2> HIDE DEF u, i
    <2>2. u \in Solvers /\ EntryOf(i.sym) \in u.exec
      BY <2>1 DEF Base
    <2>3. u \in P[0]
      BY <1>3, <2>1, <2>2
    <2> QED
      BY <2>3 DEF u
  <1>6. ASSUME NEW k \in 1..n, NEW w \in P[k - 1]
        PROVE  MergeInValue(w, x(k), ValueOf(w, i.args[k])) \in P[k]
    <2> DEFINE v == ValueOf(w, i.args[k])
               z == MergeInValue(w, x(k), v)
    <2>1. /\ w \in Solvers /\ Base(w) /\ Complete(w, T \cup {p}) /\ Climb(t, w) /\ EntryOf(i.sym) \in w.exec
          /\ \A j \in 1..(k - 1) : Le(ValueOf(t, i.args[j]), w.val[x(j)])
      <3> DEFINE In(m) == {e \in Solvers : /\ Base(e) /\ Complete(e, T \cup {p}) /\ Climb(t, e)
                                           /\ EntryOf(i.sym) \in e.exec
                                           /\ \A j \in 1..m : Le(ValueOf(t, i.args[j]), e.val[x(j)])}
      <3>1. w \in In(k - 1)
        <4> HIDE DEF In
        <4>1. k - 1 \in 0..n
          <5> HIDE DEF n, x
          <5> QED
            BY <1>3
        <4>2. P = [m \in 0..n |-> In(m)]
          BY DEF In
        <4> HIDE DEF P, n
        <4> QED
          BY <1>6, <4>1, <4>2
      <3> HIDE DEF i, x
      <3> QED
        BY <3>1
    <2>2. v \in Values /\ ValueOf(t, i.args[k]) \in Values /\ Le(ValueOf(t, i.args[k]), v)
      BY <1>0, <1>4, <2>1, OperandValues, OperandsClimb, Zenon
    <2>3. Merged(w, z, x(k), v)
      BY <1>3, <2>1, <2>2, MergeMerges
    <2> HIDE DEF v, z, i, x
    <2>4. z \in Solvers /\ Climb(w, z) /\ Le(v, z.val[x(k)]) /\ z.exec = w.exec
      BY <2>3 DEF Merged
    <2>5. Climb(t, z)
      BY <1>0, <2>1, <2>4, ClimbTransitive
    <2>6. Base(z)
      <3>1. x(k) \notin z.tracked
        <4>1. z.tracked \subseteq Globals
          BY <2>4 DEF Solvers
        <4> QED
          BY <1>3, <4>1, KindsAssumption
      <3>2. ASSUME NEW q \in Positions(w.code), At(w.code, q).op \in Results  PROVE At(w.code, q).dst # x(k)
        <4>1. CodeOK(w.code)
          BY <2>1 DEF Base
        <4>2. At(w.code, q).dst \notin ToSet(module.params[i.sym])
          BY <1>2, <3>2, <4>1, OneResult
        <4> QED
          BY <1>3, <4>2
      <3> QED
        BY <1>3, <2>1, <2>3, <3>1, <3>2, MergedBase
    <2>7. Complete(z, T \cup {p})
      <3>1. Pend(z, T \cup {p}, p) /\ Complete(w, (T \cup {p}) \cup {p})
        <4>1. (T \cup {p}) \cup {p} = T \cup {p}
          OBVIOUS
        <4> QED
          BY <2>1, <4>1 DEF Pend
      <3> QED
        BY <2>1, <2>3, <3>1, MergedComplete
    <2>8. ASSUME NEW j \in 1..k  PROVE Le(ValueOf(t, i.args[j]), z.val[x(j)])
      <3>1. j \in 1..n /\ x(j) \in Cells
        <4> HIDE DEF n
        <4>1. k \in 1..n /\ n \in Nat
          BY <1>3
        <4>2. j \in 1..n
          BY <2>8, <4>1
        <4> QED
          BY <1>3, <4>2
      <3>2. ValueOf(t, i.args[j]) \in Values /\ w.val[x(j)] \in Values /\ z.val[x(j)] \in Values
        BY <1>0, <1>4, <2>1, <2>4, <3>1, OperandValues DEF Solvers
      <3>3. Le(w.val[x(j)], z.val[x(j)])
        BY <2>1, <2>4, <3>1, OperandsClimb
      <3>4. CASE j = k
        BY <2>2, <2>4, <3>2, <3>4, LeOrders
      <3>5. CASE j # k
        <4>1. Le(ValueOf(t, i.args[j]), w.val[x(j)])
          BY <2>1, <3>5, <1>3
        <4> QED
          BY <3>2, <3>3, <4>1, LeOrders
      <3> QED
        BY <3>4, <3>5
    <2>9. z \in P[k]
      BY <1>3, <2>1, <2>4, <2>5, <2>6, <2>7, <2>8
    <2> QED
      BY <2>9 DEF z, v
  <1>7. PassArguments(t, i) \in P[n]
    <2> HIDE DEF P, i
    <2> QED
      BY <1>3, <1>5, <1>6, PassArgumentsKeeps
  <1> HIDE DEF i, x
  <1>8. PassArguments(t, i) \in P[n] /\ n \in 0..n
    BY <1>3, <1>7
  <1> QED
    BY <1>8 DEF i, x

LEMMA CallVisited ==
    ASSUME WellFormed(module), NEW t, Base(t), NEW p \in Positions(t.code),
           NEW T, Complete(t, T \cup {p}), At(t.code, p).op = "call"
    PROVE  LET u == Visit(t, p) IN Base(u) /\ Complete(u, T) /\ Climb(t, u)
  <1> DEFINE i == At(t.code, p)
             b == p[1]
             called == IF i.sym \in ArgTracked THEN PassArguments(t, i) ELSE t
             u == Visit(t, p)
             w == Wants(called, b, i)
  <1>0. t \in Solvers /\ CodeOK(t.code)
    BY DEF Base
  <1>1. i \in Instructions /\ Arity(i) /\ b \in BlockSet /\ Shaped(module, FunOf(b), i) /\ i.op = "call" /\ i.sym \in Functions
    BY <1>0, CodeFacts DEF Arity
  <1>2. i.dst \in Registers /\ i.dst \in Cells /\ Target(b, i) = i.dst
    BY <1>0, <1>1, Arguments, Operations DEF Arity, Target, Results
  <1>3. /\ Base(called) /\ Complete(called, T \cup {p}) /\ Climb(t, called)
        /\ i.sym \in ArgTracked => EntryOf(i.sym) \in called.exec
        /\ i.sym \in ArgTracked => \A k \in 1..Len(i.args) : Le(ValueOf(t, i.args[k]), called.val[module.params[i.sym][k]])
    BY <1>0, ArgumentsPassed, ClimbReflexive
  <1>4. called \in Solvers /\ CodeOK(called.code) /\ called.code = t.code
    BY <1>3 DEF Base, Climb
  <1>5. u = IF i.sym \in RetTracked THEN MergeInValue(called, i.dst, called.val[i.sym]) ELSE MarkOverdefined(called, i.dst)
    BY <1>1, Operations DEF Visit, VisitInstruction, VisitCall
  <1>6. w = IF i.sym \in RetTracked THEN called.val[i.sym] ELSE Over
    BY <1>1, Operations DEF Wants
  <1> HIDE DEF called
  <1>7. Merged(called, u, i.dst, w)
    <2>1. called.val[i.sym] \in Values
      BY <1>1, <1>4 DEF Solvers, Cells
    <2> QED
      BY <1>2, <1>4, <1>5, <1>6, <2>1, MergeMerges, OverMerges
  <1> HIDE DEF u, w
  <1>8. u \in Solvers /\ Climb(called, u) /\ Le(w, u.val[i.dst]) /\ u.code = t.code
    BY <1>4, <1>7 DEF Merged, Climb
  <1>9. Climb(t, u)
    BY <1>0, <1>3, <1>4, <1>8, ClimbTransitive
  <1>10. Base(u)
    <2>1. i.dst \notin u.tracked
      BY <1>2, <1>8, KindsAssumption DEF Solvers
    <2>2. ASSUME NEW q \in Positions(called.code), At(called.code, q).op \in Results, At(called.code, q).dst = i.dst, IsConst(w)
          PROVE  CanBe(called, q[1], At(called.code, q), w.n)
      <3>1. q = p
        BY <1>0, <1>1, <1>4, <2>2, OneResult, Operations
      <3> QED
        BY <1>1, <1>4, <3>1, Operations DEF CanBe
    <2> QED
      BY <1>2, <1>3, <1>7, <2>1, <2>2, MergedBase
  <1>11. ASSUME ~Pend(u, T, p)  PROVE Settled(u, p)
    <2>1. SameReads(t, u, p) /\ SameReads(called, u, p) /\ At(u.code, p) = i
      BY <1>0, <1>4, <1>8, <1>9, <1>11, ReadsSame
    <2>2. Wants(u, b, i) = w
      <3>1. \A g \in called.tracked : called.val[g] # Over
        BY <1>3 DEF Base
      <3>2. At(called.code, p).op \in (Results \ {"phi"}) \cup {"store", "ret"}
        BY <1>1, <1>4 DEF Results
      <3>3. Wants(u, b, At(called.code, p)) = Wants(called, b, At(called.code, p))
        BY <1>4, <1>8, <2>1, <3>1, <3>2, WantsSame
      <3> QED
        BY <1>4, <3>3 DEF w
    <2>3. ASSUME i.sym \in ArgTracked
          PROVE  /\ EntryOf(i.sym) \in u.exec
                 /\ \A k \in 1..Len(i.args) : Le(ValueOf(u, i.args[k]), u.val[module.params[i.sym][k]])
      <3>1. EntryOf(i.sym) \in u.exec
        BY <1>3, <1>8, <2>3 DEF Climb
      <3>2. i.sym \in FunctionSet /\ Len(i.args) = Len(module.params[i.sym])
        BY <1>1, <2>3, ModuleFacts DEF Shaped, FunctionSet
      <3>3. ASSUME NEW k \in 1..Len(i.args)  PROVE Le(ValueOf(u, i.args[k]), u.val[module.params[i.sym][k]])
        <4> DEFINE x == module.params[i.sym][k]
        <4>1. ValueOf(u, i.args[k]) = ValueOf(t, i.args[k]) /\ ValueOf(t, i.args[k]) \in Values
          BY <1>0, <1>1, <2>1, Arguments DEF SameReads
        <4>2. x \in Cells
          BY <3>2, ModuleFacts
        <4>3. called.val[x] \in Values /\ u.val[x] \in Values /\ Le(called.val[x], u.val[x])
          BY <4>2, <1>4, <1>8, OperandsClimb DEF Solvers
        <4>4. Le(ValueOf(t, i.args[k]), called.val[x])
          BY <1>3, <2>3
        <4> HIDE DEF x, i
        <4>5. Le(ValueOf(t, i.args[k]), u.val[x])
          BY <4>1, <4>3, <4>4, LeOrders
        <4>6. Le(ValueOf(u, i.args[k]), u.val[x])
          BY <4>1, <4>5
        <4> QED
          BY <4>6 DEF x
      <3> QED
        BY <3>1, <3>3
    <2> QED
      BY <1>1, <1>2, <1>8, <2>1, <2>2, <2>3 DEF Settled
  <1>12. Complete(u, T)
    BY <1>3, <1>7, <1>11, MergedComplete
  <1> QED
    BY <1>9, <1>10, <1>12 DEF u

LEMMA AnyVisited ==
    ASSUME WellFormed(module), NEW t, Base(t), NEW p \in Positions(t.code), p[1] \in t.exec, NEW T, Complete(t, T \cup {p})
    PROVE  LET u == Visit(t, p) IN Base(u) /\ Complete(u, T) /\ Climb(t, u)
  <1> DEFINE i == At(t.code, p)
  <1>1. i.op \in Results \cup Terminators \cup {"store"}
    <2>1. CodeOK(t.code)
      BY DEF Base
    <2> QED
      BY <2>1, CodeFacts DEF Instructions
  <1>2. CASE i.op = "call"
    BY <1>2, CallVisited
  <1>3. CASE i.op \in {"jmp", "br", "switch"}
    BY <1>3, TerminatorVisited
  <1>4. CASE i.op \in (Results \ {"call"}) \cup {"store", "ret"}
    BY <1>4, SimpleVisit
  <1> QED
    BY <1>1, <1>2, <1>3, <1>4, Operations

LEMMA BlockVisited ==
    ASSUME WellFormed(module), NEW t, Base(t), NEW b \in t.exec, NEW T, Complete(t, T \cup {<<b, j>> : j \in 1..Len(t.code[b])})
    PROVE  LET u == VisitBlock(t, b) IN Base(u) /\ Complete(u, T) /\ Climb(t, u)
  <1> DEFINE n == Len(t.code[b])
             Rest(k) == {<<b, j>> : j \in (k + 1)..n}
             P == [k \in 0..n |-> {u \in Solvers : Base(u) /\ Complete(u, T \cup Rest(k)) /\ Climb(t, u)}]
  <1>0. t \in Solvers /\ b \in BlockSet
    BY DEF Base, Solvers
  <1>1. n \in Nat
    <2>1. t.code[b] \in Seq(Instructions)
      BY <1>0 DEF Solvers
    <2> QED
      BY <2>1
  <1>2. t \in P[0]
    <2>1. Rest(0) = {<<b, j>> : j \in 1..Len(t.code[b])} /\ 0 \in 0..n
      BY <1>1
    <2> QED
      BY <1>0, <2>1, ClimbReflexive
  <1>3. ASSUME NEW k \in 1..n, NEW u \in P[k - 1]  PROVE Visit(u, <<b, k>>) \in P[k]
    <2> DEFINE p == <<b, k>>
               w == Visit(u, p)
    <2>1. u \in Solvers /\ Base(u) /\ Complete(u, T \cup Rest(k - 1)) /\ Climb(t, u)
      BY <1>1, <1>3
    <2>2. p \in Positions(u.code) /\ p[1] \in u.exec
      BY <1>0, <2>1 DEF Positions, Climb
    <2>3. T \cup Rest(k - 1) = (T \cup Rest(k)) \cup {p}
      BY <1>1
    <2> HIDE DEF Rest, p
    <2>4. Base(w) /\ Complete(w, T \cup Rest(k)) /\ Climb(u, w)
      BY <2>1, <2>2, <2>3, AnyVisited
    <2> HIDE DEF w
    <2>5. w \in Solvers
      BY <2>4 DEF Base
    <2>6. Climb(t, w)
      BY <1>0, <2>1, <2>4, <2>5, ClimbTransitive
    <2>7. w \in P[k]
      BY <1>1, <2>4, <2>5, <2>6
    <2> QED
      BY <2>7 DEF w, p
  <1>4. VisitBlock(t, b) \in P[n]
    <2> HIDE DEF P
    <2> QED
      BY <1>1, <1>2, <1>3, VisitBlockKeeps
  <1>5. T \cup Rest(n) = T /\ n \in 0..n
    BY <1>1
  <1> HIDE DEF Rest
  <1> QED
    BY <1>4, <1>5

-----------------------------------------------------------------------------
(* ResolvedUndefsIn.                                                       *)

LEMMA NatMin ==
    ASSUME NEW S \in SUBSET Nat, S # {}
    PROVE  Min(S) \in S /\ \A y \in S : Min(S) <= y
  <1>1. IsWellFoundedOn(OpToRel(<, Nat), Nat)
    BY NatLessThanWellFounded
  <1>2. PICK m \in S : \A j \in S : <<j, m>> \notin OpToRel(<, Nat)
    BY <1>1, WFMin
  <1>3. \A j \in S : m <= j
    <2> TAKE j \in S
    <2>1. j \in Nat /\ m \in Nat
      OBVIOUS
    <2>2. ~(j < m)
      <3>1. j < m => <<j, m>> \in OpToRel(<, Nat)
        BY <2>1 DEF OpToRel
      <3> QED
        BY <3>1, <1>2
    <2> QED
      BY <2>1, <2>2
  <1> QED
    BY <1>2, <1>3 DEF Min

LEMMA FirstUndefFound ==
    ASSUME WellFormed(module), NEW t, CodeOK(t.code), NEW f \in FunctionSet,
           NEW q \in Positions(t.code), q[1] \in ToSet(module.blocks[f]), Resolvable(t, q)
    PROVE  LET p == FirstUndef(t, f) IN p \in Positions(t.code) /\ Resolvable(t, p) /\ p[1] \in ToSet(module.blocks[f])
  <1> DEFINE B == module.blocks[f]
             in(j) == {k \in DOMAIN t.code[B[j]] : Resolvable(t, <<B[j], k>>)}
             H == {h \in DOMAIN B : in(h) # {}}
             j == Min(H)
  <1>1. B \in Seq(Blocks) /\ DOMAIN B \subseteq Nat
    BY ModuleFacts
  <1>2. \A b \in ToSet(B) : b \in BlockSet /\ t.code[b] \in Seq(Instructions) /\ DOMAIN t.code[b] = 1..Len(t.code[b])
    BY ModuleFacts DEF CodeOK
  <1>3. H # {}
    <2>1. PICK h \in DOMAIN B : q[1] = B[h]
      BY DEF ToSet
    <2>2. q = <<q[1], q[2]>> /\ q[2] \in 1..Len(t.code[q[1]])
      BY CodeFacts
    <2>3. q[2] \in in(h)
      BY <2>1, <2>2, <1>2
    <2> QED
      BY <2>3
  <1>4. j \in H
    <2> HIDE DEF H
    <2>1. H \subseteq Nat
      BY <1>1 DEF H
    <2> QED
      BY <1>3, <2>1, NatMin
  <1>5. B[j] \in ToSet(B)
    BY <1>4 DEF ToSet
  <1>6. Min(in(j)) \in in(j)
    <2> HIDE DEF j
    <2>1. in(j) # {}
      BY <1>4
    <2>2. DOMAIN t.code[B[j]] \subseteq Nat
      BY <1>2, <1>5
    <2>3. in(j) \in SUBSET Nat
      BY <2>2
    <2> HIDE DEF in
    <2> QED
      BY <2>1, <2>3, NatMin
  <1> DEFINE k == Min(in(j))
  <1>7. FirstUndef(t, f) = <<B[j], k>>
    BY DEF FirstUndef
  <1> HIDE DEF j, k
  <1>8. k \in DOMAIN t.code[B[j]] /\ Resolvable(t, <<B[j], k>>)
    BY <1>6 DEF k
  <1>9. <<B[j], k>> \in Positions(t.code)
    BY <1>2, <1>5, <1>8 DEF Positions
  <1> QED
    BY <1>5, <1>7, <1>8, <1>9

\* A value that is forced.
LEMMA ForcedMarked ==
    ASSUME WellFormed(module), NEW t, Base(t), NEW x \in Registers, t.val[x] = Unknown,
           NEW v \in {Over} \cup {Forced(n) : n \in Ints}, NEW T, Complete(t, T)
    PROVE  LET u == Mark(t, x, v)
           IN  /\ Base(u) /\ Complete(u, T) /\ Climb(t, u) /\ u.val = [t.val EXCEPT ![x] = v] /\ u.exec = t.exec
               /\ u.tracked = t.tracked /\ u.edges = t.edges
  <1> DEFINE u == Mark(t, x, v)
  <1>0. t \in Solvers /\ CodeOK(t.code) /\ x \in Cells /\ v \in Values /\ v # Unknown /\ v # t.val[x]
    <2>1. t \in Solvers /\ CodeOK(t.code) /\ x \in Cells
      BY DEF Base, Cells
    <2>2. v \in Values /\ v # Unknown
      BY ValueKinds, LatticeKinds
    <2> QED
      BY <2>1, <2>2
  <1>1. /\ u \in Solvers /\ Climb(t, u) /\ u.val = [t.val EXCEPT ![x] = v] /\ u.exec = t.exec /\ u.edges = t.edges /\ u.bwl = t.bwl
        /\ u.tracked = t.tracked /\ u.broken = t.broken /\ u.code = t.code
    <2>1. CASE v = Over
      <3>1. u = [t EXCEPT !.val = [t.val EXCEPT ![x] = v], !.owl = Append(t.owl, x)]
        BY <1>0, <2>1 DEF Mark, Push, Solvers
      <3>2. Append(t.owl, x) \in Seq(Cells) /\ ToSet(Append(t.owl, x)) = ToSet(t.owl) \cup {x}
        BY <1>0, AppendSet DEF Solvers
      <3>3. [t.val EXCEPT ![x] = v] \in [Cells -> Values]
        BY <1>0 DEF Solvers
      <3>4. u \in Solvers
        BY <1>0, <3>1, <3>2, <3>3 DEF Solvers
      <3>5. /\ u.val = [t.val EXCEPT ![x] = v] /\ u.exec = t.exec /\ u.edges = t.edges /\ u.bwl = t.bwl /\ u.iwl = t.iwl
            /\ u.tracked = t.tracked /\ u.broken = t.broken /\ u.code = t.code /\ u.owl = Append(t.owl, x)
        BY <1>0, <3>1 DEF Solvers
      <3>6. u.val[x] = v /\ \A y \in Cells : y # x => u.val[y] = t.val[y]
        BY <1>0, <3>5 DEF Solvers
      <3>7. Climb(t, u)
        <4> HIDE DEF u
        <4> QED
          BY <1>0, <2>1, <3>2, <3>5, <3>6 DEF Climb, Le
      <3> QED
        BY <3>4, <3>5, <3>7
    <2>2. CASE v # Over
      <3>1. u = [t EXCEPT !.val = [t.val EXCEPT ![x] = v], !.iwl = Append(t.iwl, x)]
        BY <1>0, <2>2 DEF Mark, Push, Solvers
      <3>2. Append(t.iwl, x) \in Seq(Cells) /\ ToSet(Append(t.iwl, x)) = ToSet(t.iwl) \cup {x}
        BY <1>0, AppendSet DEF Solvers
      <3>3. [t.val EXCEPT ![x] = v] \in [Cells -> Values]
        BY <1>0 DEF Solvers
      <3>4. u \in Solvers
        BY <1>0, <3>1, <3>2, <3>3 DEF Solvers
      <3>5. /\ u.val = [t.val EXCEPT ![x] = v] /\ u.exec = t.exec /\ u.edges = t.edges /\ u.bwl = t.bwl /\ u.owl = t.owl
            /\ u.tracked = t.tracked /\ u.broken = t.broken /\ u.code = t.code /\ u.iwl = Append(t.iwl, x)
        BY <1>0, <3>1 DEF Solvers
      <3>6. u.val[x] = v /\ \A y \in Cells : y # x => u.val[y] = t.val[y]
        BY <1>0, <3>5 DEF Solvers
      <3>7. Climb(t, u)
        <4> HIDE DEF u
        <4> QED
          BY <1>0, <2>2, <3>2, <3>5, <3>6 DEF Climb, Le
      <3> QED
        BY <3>4, <3>5, <3>7
    <2> QED
      BY <2>1, <2>2
  <1>2. u.val[x] = v /\ \A y \in Cells : y # x => u.val[y] = t.val[y]
    BY <1>0, <1>1 DEF Solvers
  <1> HIDE DEF u
  <1>3. Base(u)
    <2>1. \A g \in u.tracked : u.val[g] # Over
      <3>1. \A g \in t.tracked : g \in Cells /\ g # x
        BY <1>0, KindsAssumption DEF Solvers, Cells
      <3> QED
        BY <1>1, <1>2, <3>1 DEF Base
    <2>2. ASSUME NEW e \in u.edges  PROVE e[2] \in u.exec /\ IsEdgeFeasible(u, e[1], e[2])
      <3>1. e \in t.edges /\ e[1] \in BlockSet
        BY <1>1 DEF Solvers
      <3>2. e[2] \in t.exec /\ IsEdgeFeasible(t, e[1], e[2])
        BY <3>1 DEF Base
      <3> QED
        BY <1>0, <1>1, <3>1, <3>2, EdgesClimb
    <2>3. ASSUME NEW p \in Positions(u.code), NEW n \in Ints, At(u.code, p).op \in Results,
                 u.val[At(u.code, p).dst] = Const(n)
          PROVE  CanBe(u, p[1], At(u.code, p), n)
      <3>1. At(t.code, p).dst \in Cells /\ p \in Positions(t.code)
        BY <1>0, <1>1, <2>3, OneResult DEF Cells
      <3>2. t.val[At(t.code, p).dst] = Const(n)
        BY <1>1, <1>2, <2>3, <3>1, LatticeKinds
      <3>3. CanBe(t, p[1], At(t.code, p), n)
        BY <1>1, <2>3, <3>1, <3>2 DEF Base
      <3> QED
        BY <1>0, <1>1, <3>1, <3>3, CanBeClimbs
    <2>4. "different value" \notin u.broken /\ ToSet(u.bwl) \subseteq u.exec
      BY <1>1 DEF Base
    <2> QED
      BY <1>0, <1>1, <2>1, <2>2, <2>3, <2>4 DEF Base
  <1>4. Complete(u, T)
    BY <1>1, GrownComplete
  <1> QED
    BY <1>1, <1>3, <1>4 DEF u

LEMMA ResolvedValue ==
    ASSUME NEW t \in Solvers, NEW i \in Instructions, Arity(i), i.op \in Results
    PROVE  ResolvedAs(t, i) \in {Unknown, Over} \cup {Forced(n) : n \in Ints}
  <1>1. 0 \in Ints /\ AllOnes \in Ints /\ Absorber(i.op) \in Ints
    BY SccpAssumption DEF Ints, Absorber
  <1>2. CASE i.op # "select"
    BY <1>1, <1>2 DEF ResolvedAs
  <1>3. CASE i.op = "select"
    <2> DEFINE v(k) == ValueOf(t, i.args[k])
               pick == IF v(1) = Unknown THEN (IF IsConst(v(2)) THEN v(2) ELSE v(3))
                       ELSE IF v(2) = Unknown THEN v(3) ELSE v(2)
    <2>1. pick \in Values
      BY <1>3, Arguments DEF Arity
    <2>2. IsConst(pick) => pick.n \in Ints
      BY <2>1, ValueKinds
    <2>3. ResolvedAs(t, i) = IF pick = Unknown /\ v(1) # Unknown THEN Unknown ELSE IF IsConst(pick) THEN Forced(pick.n) ELSE Over
      BY <1>3 DEF ResolvedAs, Absorbing
    <2> HIDE DEF pick
    <2> QED
      BY <2>2, <2>3
  <1> QED
    BY <1>2, <1>3

\* The condition of the terminator at p becomes the number n.
Decided(c, p, n) == [c EXCEPT ![p[1]][p[2]].args[1] = n]

LEMMA Intervals ==
    \A m, n \in Nat : 1..m = 1..n => m = n
  <1> TAKE m \in Nat
  <1> TAKE n \in Nat
  <1> HAVE 1..m = 1..n
  <1>1. m = 0 \/ m \in 1..m
    OBVIOUS
  <1>2. n = 0 \/ n \in 1..n
    OBVIOUS
  <1>3. m <= n
    <2>1. CASE m = 0
      BY <2>1
    <2>2. CASE m # 0
      <3>1. m \in 1..n
        BY <1>1, <2>2
      <3> QED
        BY <3>1
    <2> QED
      BY <2>1, <2>2
  <1>4. n <= m
    <2>1. CASE n = 0
      BY <2>1
    <2>2. CASE n # 0
      <3>1. n \in 1..m
        BY <1>2, <2>2
      <3> QED
        BY <3>1
    <2> QED
      BY <2>1, <2>2
  <1> QED
    BY <1>3, <1>4

LEMMA DecidedCode ==
    ASSUME WellFormed(module), NEW c, CodeOK(c), NEW p \in Positions(c), At(c, p).op \in {"br", "switch"}, NEW n \in Ints
    PROVE  LET d == Decided(c, p, n)
               i == At(c, p)
           IN  /\ CodeOK(d) /\ Positions(d) = Positions(c)
               /\ \A q \in Positions(c) : q # p => At(d, q) = At(c, q)
               /\ At(d, p) = [i EXCEPT !.args = [i.args EXCEPT ![1] = n]]
               /\ 1 \in DOMAIN i.args /\ i.args \in Seq(Operands)
               /\ \A b \in BlockSet : Len(d[b]) = Len(c[b])
  <1> DEFINE d == Decided(c, p, n)
             i == At(c, p)
             b == p[1]
             a == [i.args EXCEPT ![1] = n]
             j == [i EXCEPT !.args = a]
  <1>1. /\ i \in Instructions /\ Arity(i) /\ b \in BlockSet /\ FunOf(b) \in FunctionSet /\ Shaped(module, FunOf(b), i)
        /\ p = <<b, p[2]>> /\ p[2] \in 1..Len(c[b]) /\ i = c[b][p[2]]
    BY CodeFacts
  <1>2. /\ c \in [BlockSet -> Seq(Instructions)] /\ c[b] \in Seq(Instructions) /\ DOMAIN c[b] = 1..Len(c[b])
        /\ i.args \in Seq(Operands) /\ i.to \in Seq(Blocks) /\ DOMAIN i.args = 1..Len(i.args) /\ Len(i.args) \in Nat
        /\ Len(i.to) \in Nat
    <2>1. c \in [BlockSet -> Seq(Instructions)]
      BY DEF CodeOK
    <2>2. c[b] \in Seq(Instructions)
      BY <1>1, <2>1
    <2>3. i.args \in Seq(Operands) /\ i.to \in Seq(Blocks)
      BY <1>1 DEF Instructions
    <2> QED
      BY <2>1, <2>2, <2>3
  <1>3. 1 \in DOMAIN i.args
    <2>1. i.op = "br" => Len(i.args) = 1
      BY <1>1 DEF Shaped
    <2>2. i.op = "switch" => Len(i.args) = Len(i.to) /\ Len(i.to) > 1
      BY <1>1 DEF Shaped
    <2>3. i.op \in {"br", "switch"}
      OBVIOUS
    <2>4. DOMAIN i.args = 1..Len(i.args) /\ Len(i.to) \in Nat
      BY <1>2
    <2> HIDE DEF i
    <2>5. CASE i.op = "br"
      <3>1. Len(i.args) = 1
        BY <2>1, <2>5
      <3>2. DOMAIN i.args = 1..1
        BY <2>4, <3>1
      <3> QED
        BY <3>2
    <2>6. CASE i.op = "switch"
      <3>1. Len(i.args) = Len(i.to) /\ Len(i.to) > 1
        BY <2>2, <2>6
      <3>2. DOMAIN i.args = 1..Len(i.to) /\ 1 \in 1..Len(i.to)
        BY <2>4, <3>1
      <3> QED
        BY <3>2
    <2> QED
      BY <2>3, <2>5, <2>6
  <1>4. a \in Seq(Operands) /\ Len(a) = Len(i.args) /\ a[1] = n /\ \A k \in 2..Len(i.args) : a[k] = i.args[k]
    <2>1. n \in Operands
      BY DEF Operands
    <2> QED
      BY <1>2, <1>3, <2>1
  <1>5. j \in Instructions /\ j.args = a /\ j.op = i.op /\ j.dst = i.dst /\ j.sym = i.sym /\ j.to = i.to
    <2> HIDE DEF a, i
    <2> QED
      BY <1>1, <1>4 DEF Instructions
  <1>6. d = [c EXCEPT ![b] = [c[b] EXCEPT ![p[2]] = j]]
    BY <1>1, <1>2, <1>3 DEF Decided, Instructions
  <1> HIDE DEF d, j, a
  <1>7. /\ d \in [BlockSet -> Seq(Instructions)] /\ d[b] = [c[b] EXCEPT ![p[2]] = j]
        /\ \A e \in BlockSet : e # b => d[e] = c[e]
    <2> DEFINE X == [c[b] EXCEPT ![p[2]] = j]
    <2>1. X \in Seq(Instructions)
      BY <1>1, <1>2, <1>5
    <2>2. d = [c EXCEPT ![b] = X]
      BY <1>6
    <2> HIDE DEF X, b
    <2>3. d \in [BlockSet -> Seq(Instructions)] /\ d[b] = X /\ \A e \in BlockSet : e # b => d[e] = c[e]
      BY <1>1, <1>2, <2>1, <2>2
    <2>4. d[b] = [c[b] EXCEPT ![p[2]] = j]
      BY <2>3 DEF X
    <2> QED
      BY <2>3, <2>4
  <1>8. \A e \in BlockSet : Len(d[e]) = Len(c[e]) /\ DOMAIN d[e] = DOMAIN c[e] /\ c[e] \in Seq(Instructions)
    <2> TAKE e \in BlockSet
    <2>1. c[e] \in Seq(Instructions) /\ d[e] \in Seq(Instructions)
      BY <1>2, <1>7
    <2>2. DOMAIN d[e] = DOMAIN c[e]
      <3>1. CASE e = b
        <4>1. DOMAIN d[b] = DOMAIN c[b]
          BY <1>7
        <4> QED
          BY <3>1, <4>1
      <3>2. CASE e # b
        BY <1>7, <3>2
      <3> QED
        BY <3>1, <3>2
    <2>3. DOMAIN d[e] = 1..Len(d[e]) /\ DOMAIN c[e] = 1..Len(c[e]) /\ Len(d[e]) \in Nat /\ Len(c[e]) \in Nat
      BY <2>1
    <2>4. Len(d[e]) = Len(c[e])
      <3>1. \A m, h \in Nat : 1..m = 1..h => m = h
        BY Intervals
      <3> QED
        BY <2>2, <2>3, <3>1
    <2> QED
      BY <2>1, <2>2, <2>4
  <1>9. \A e \in BlockSet : \A k \in DOMAIN c[e] : <<e, k>> # p => d[e][k] = c[e][k]
    BY <1>1, <1>2, <1>7
  <1>10. d[b][p[2]] = j
    BY <1>1, <1>2, <1>7
  <1>11. \A e \in BlockSet : \A k \in DOMAIN c[e] : /\ d[e][k].op = c[e][k].op /\ d[e][k].to = c[e][k].to
                                                    /\ d[e][k].dst = c[e][k].dst
    <2> TAKE e \in BlockSet
    <2> TAKE k \in DOMAIN c[e]
    <2>1. CASE <<e, k>> # p
      BY <2>1, <1>9
    <2>2. CASE <<e, k>> = p
      <3>1. e = b /\ k = p[2]
        BY <2>2
      <3> QED
        BY <3>1, <1>1, <1>5, <1>10
    <2> QED
      BY <2>1, <2>2
  <1>12. Shaped(module, FunOf(b), j)
    <2>1. i.op \in {"br", "switch"}
      OBVIOUS
    <2>2. i.op = "switch" => \A h, k \in 2..Len(i.args) : i.args[k] \in Ints /\ (i.args[h] = i.args[k] => h = k)
      BY <1>1 DEF Shaped
    <2> HIDE DEF i
    <2>3. j.op = "switch" => \A h, k \in 2..Len(j.args) : j.args[k] \in Ints /\ (j.args[h] = j.args[k] => h = k)
      BY <1>4, <1>5, <2>2
    <2>4. (j.dst # "none" <=> j.op \in Results) /\ ToSet(j.to) \subseteq ToSet(module.blocks[FunOf(b)])
      BY <1>1, <1>5 DEF Shaped
    <2>5. /\ j.op = "br" => Len(j.args) = 1 /\ Len(j.to) = 2
          /\ j.op = "switch" => Len(j.args) = Len(j.to) /\ Len(j.to) > 1
      BY <1>1, <1>4, <1>5 DEF Shaped
    <2> QED
      BY <1>5, <2>1, <2>3, <2>4, <2>5, Operations DEF Shaped
  <1>13. ASSUME NEW f \in FunctionSet, NEW e \in ToSet(module.blocks[f])  PROVE BlockShaped(module, d, f, e)
    <2>1. e \in BlockSet /\ FunOf(e) = f
      BY ModuleFacts
    <2>2. BlockShaped(module, c, f, e)
      BY DEF CodeOK, CodeShaped, FunctionSet
    <2>3. d[e] # <<>> /\ c[e] # <<>> /\ Len(c[e]) \in DOMAIN c[e]
      BY <2>1, <2>2, <1>8 DEF BlockShaped
    <2>4. ASSUME NEW k \in DOMAIN d[e]
          PROVE  /\ Shaped(module, f, d[e][k])
                 /\ d[e][k].op \in Terminators <=> k = Len(d[e])
                 /\ d[e][k].op = "phi" => e # module.blocks[f][1] /\ \A h \in 1..k : d[e][h].op = "phi"
      <3>1. k \in DOMAIN c[e] /\ Len(c[e]) = Len(d[e]) /\ DOMAIN c[e] = 1..Len(c[e]) /\ Len(c[e]) \in Nat
        BY <2>1, <1>8
      <3>2. Shaped(module, f, d[e][k])
        <4>1. CASE <<e, k>> # p
          BY <2>1, <2>2, <3>1, <4>1, <1>9 DEF BlockShaped
        <4>2. CASE <<e, k>> = p
          <5>1. e = b /\ k = p[2]
            BY <4>2
          <5> QED
            BY <5>1, <2>1, <1>10, <1>12
        <4> QED
          BY <4>1, <4>2
      <3>3. \A h \in 1..k : h \in DOMAIN c[e]
        BY <3>1
      <3> QED
        BY <2>1, <2>2, <3>1, <3>2, <3>3, <1>11 DEF BlockShaped
    <2>5. ASSUME NEW to \in ToSet(d[e][Len(d[e])].to)
          PROVE  /\ to # module.blocks[f][1]
                 /\ \A k \in DOMAIN d[to] : d[to][k].op = "phi" => e \in ToSet(d[to][k].to)
      <3>1. to \in ToSet(c[e][Len(c[e])].to)
        BY <2>1, <2>3, <1>8, <1>11
      <3>2. to \in BlockSet
        <4>1. Shaped(module, f, c[e][Len(c[e])])
          BY <2>2, <2>3 DEF BlockShaped
        <4> QED
          BY <3>1, <4>1, ModuleFacts DEF Shaped
      <3>3. \A k \in DOMAIN c[to] : c[to][k].op = "phi" => e \in ToSet(c[to][k].to)
        BY <2>2, <3>1 DEF BlockShaped
      <3>4. to # module.blocks[f][1]
        BY <2>2, <3>1 DEF BlockShaped
      <3> QED
        BY <3>2, <3>3, <3>4, <1>8, <1>11
    <2> QED
      BY <2>3, <2>4, <2>5 DEF BlockShaped
  <1>14. CodeShaped(module, d)
    <2>1. d \in [UNION {ToSet(module.blocks[f]) : f \in ToSet(module.funs)} -> Seq(Instructions)]
      BY <1>7 DEF BlockSet, FunctionSet
    <2> QED
      BY <2>1, <1>13 DEF CodeShaped, FunctionSet
  <1>15. SingleAssignment(module, d)
    <2>1. SingleAssignment(module, c) /\ DOMAIN d = BlockSet /\ DOMAIN c = BlockSet
      BY <1>2, <1>7 DEF CodeOK
    <2> QED
      BY <2>1, <1>8, <1>11 DEF SingleAssignment
  <1>16. CodeOK(d)
    BY <1>7, <1>14, <1>15 DEF CodeOK
  <1>17. Positions(d) = Positions(c)
    BY <1>8 DEF Positions
  <1>18. ASSUME NEW q \in Positions(c), q # p  PROVE At(d, q) = At(c, q)
    <2>1. q = <<q[1], q[2]>> /\ q[1] \in BlockSet /\ q[2] \in DOMAIN c[q[1]]
      BY <1>8, CodeFacts
    <2> QED
      BY <2>1, <1>9, <1>18 DEF At
  <1>19. At(d, p) = j
    BY <1>10 DEF At
  <1> QED
    BY <1>2, <1>3, <1>8, <1>16, <1>17, <1>18, <1>19 DEF d, j, a

LEMMA DecidedKeeps ==
    ASSUME WellFormed(module), NEW t, Base(t), NEW p \in Positions(t.code), At(t.code, p).op \in {"br", "switch"},
           At(t.code, p).args[1] = Undef, NEW n \in Ints, NEW T, Complete(t, T)
    PROVE  LET u == [t EXCEPT !.code = Decided(t.code, p, n)]
           IN  Base(u) /\ Complete(u, T \cup {p})
  <1> DEFINE c == t.code
             d == Decided(c, p, n)
             u == [t EXCEPT !.code = d]
             i == At(c, p)
             b == p[1]
             a == [i.args EXCEPT ![1] = n]
  <1>0. t \in Solvers /\ CodeOK(c)
    BY DEF Base
  <1>1. /\ CodeOK(d) /\ Positions(d) = Positions(c)
        /\ \A q \in Positions(c) : q # p => At(d, q) = At(c, q)
        /\ At(d, p) = [i EXCEPT !.args = a] /\ 1 \in DOMAIN i.args /\ i.args \in Seq(Operands)
        /\ \A e \in BlockSet : Len(d[e]) = Len(c[e])
    <2>1. p \in Positions(c) /\ At(c, p).op \in {"br", "switch"}
      OBVIOUS
    <2> HIDE DEF c
    <2> QED
      BY <1>0, <2>1, DecidedCode
  <1>2. /\ u.code = d /\ u.val = t.val /\ u.exec = t.exec /\ u.edges = t.edges /\ u.bwl = t.bwl /\ u.owl = t.owl
        /\ u.iwl = t.iwl /\ u.tracked = t.tracked /\ u.broken = t.broken
    BY <1>0 DEF Solvers
  <1>3. u \in Solvers
    <2>1. d \in [BlockSet -> Seq(Instructions)]
      BY <1>1 DEF CodeOK
    <2> HIDE DEF d
    <2> QED
      BY <1>0, <2>1 DEF Solvers
  <1>4. /\ i \in Instructions /\ Arity(i) /\ b \in BlockSet /\ p = <<b, p[2]>> /\ p[2] \in 1..Len(c[b]) /\ i = c[b][p[2]]
    BY <1>0, CodeFacts
  <1>5. At(d, p).op = i.op /\ At(d, p).sym = i.sym /\ At(d, p).dst = i.dst /\ At(d, p).to = i.to /\ At(d, p).args = a
    <2> HIDE DEF i, a, d
    <2> QED
      BY <1>1, <1>4 DEF Instructions
  <1>6. \A o : ValueOf(u, o) = ValueOf(t, o)
    BY <1>2 DEF ValueOf
  <1>7. i = Term(c, b)
    <2>1. i.op \in Terminators
      BY DEF Terminators
    <2>2. \A k \in 1..Len(c[b]) : c[b][k].op \in Terminators => k = Len(c[b])
      <3> HIDE DEF i, b
      <3> QED
        BY <1>0, <1>4, TermFacts
    <2> QED
      BY <1>4, <2>1, <2>2 DEF Term
  <1>8. ASSUME NEW from \in BlockSet, NEW to, IsEdgeFeasible(t, from, to)  PROVE IsEdgeFeasible(u, from, to)
    <2>1. from # b
      <3>1. ValueOf(t, i.args[1]) = Unknown
        BY KindsAssumption DEF ValueOf
      <3>2. FeasibleSuccessors(t, i) = {}
        BY <3>1 DEF FeasibleSuccessors
      <3> QED
        BY <1>7, <1>8, <3>2 DEF IsEdgeFeasible
    <2>2. <<from, Len(c[from])>> \in Positions(c) /\ At(c, <<from, Len(c[from])>>) = Term(c, from)
      BY <1>0, TermFacts
    <2>3. At(d, <<from, Len(d[from])>>) = Term(d, from)
      BY DEF At, Term
    <2>4. Term(d, from) = Term(c, from)
      <3> HIDE DEF c, d, i
      <3>1. Len(d[from]) = Len(c[from])
        BY <1>1
      <3>2. <<from, Len(c[from])>> # p
        BY <2>1 DEF b
      <3>3. At(d, <<from, Len(c[from])>>) = At(c, <<from, Len(c[from])>>)
        BY <1>1, <2>2, <3>2
      <3> QED
        BY <2>2, <2>3, <3>1, <3>3
    <2> HIDE DEF d, u, i
    <2>5. FeasibleSuccessors(u, Term(u.code, from)) = FeasibleSuccessors(t, Term(c, from))
      BY <1>2, <1>6, <2>4 DEF FeasibleSuccessors
    <2> QED
      BY <1>2, <1>8, <2>5 DEF IsEdgeFeasible
  <1>9. \A x \in Cells : Users(u.code, x) = Users(c, x)
    <2> TAKE x \in Cells
    <2>1. ASSUME x \in Registers  PROVE x \in ToSet(At(d, p).args) <=> x \in ToSet(i.args)
      <3>1. n \notin Registers /\ Undef \notin Registers
        BY KindsAssumption
      <3>2. DOMAIN a = DOMAIN i.args /\ a[1] = n /\ \A k \in DOMAIN i.args : k # 1 => a[k] = i.args[k]
        BY <1>1
      <3>3. i.args[1] = Undef
        OBVIOUS
      <3> HIDE DEF a, i, d
      <3> QED
        BY <1>1, <1>5, <2>1, <3>1, <3>2, <3>3 DEF ToSet
    <2>2. \A q \in Positions(c) : (x \in Registers /\ x \in ToSet(At(d, q).args)) <=> (x \in Registers /\ x \in ToSet(At(c, q).args))
      BY <1>1, <2>1
    <2>3. \A q \in Positions(c) : At(d, q).sym = At(c, q).sym
      BY <1>1, <1>5
    <2> HIDE DEF d, u, i, a
    <2> QED
      BY <1>1, <1>2, <2>2, <2>3 DEF Users
  <1>10. \A R, q : Pend(t, R, q) => Pend(u, R, q)
    <2>1. ToSet(t.owl) \subseteq Cells /\ ToSet(t.iwl) \subseteq Cells
      BY <1>0 DEF Solvers, ToSet
    <2> HIDE DEF u
    <2> QED
      BY <1>2, <1>9, <2>1 DEF Pend
  <1>11. ASSUME NEW q \in Positions(c), At(c, q).op # "phi"  PROVE Wants(u, q[1], At(c, q)) = Wants(t, q[1], At(c, q))
    <2> DEFINE o == At(c, q)
    <2> HIDE DEF o, u
    <2>1. o.op # "phi"
      BY <1>11 DEF o
    <2>2. WantsCast(u, o) = WantsCast(t, o) /\ WantsBinary(u, o) = WantsBinary(t, o)
      BY <1>6 DEF WantsCast, WantsBinary
    <2>3. WantsCmp(u, o) = WantsCmp(t, o) /\ WantsSelect(u, o) = WantsSelect(t, o)
      BY <1>6 DEF WantsCmp, WantsSelect
    <2>4. Wants(u, q[1], o) = Wants(t, q[1], o)
      BY <1>2, <1>6, <2>1, <2>2, <2>3 DEF Wants
    <2> QED
      BY <2>4 DEF o
  <1>12. ASSUME NEW q \in Positions(c), q # p, Settled(t, q)  PROVE Settled(u, q)
    <2>1. At(u.code, q) = At(c, q)
      BY <1>1, <1>2, <1>12
    <2>2. FeasibleSuccessors(u, At(c, q)) = FeasibleSuccessors(t, At(c, q))
      <3> HIDE DEF u
      <3> QED
        BY <1>6 DEF FeasibleSuccessors
    <2> HIDE DEF u
    <2> QED
      BY <1>2, <1>6, <1>11, <1>12, <2>1, <2>2 DEF Settled
  <1>13. Complete(u, T \cup {p})
    <2> SUFFICES ASSUME NEW q \in Positions(c), q[1] \in t.exec, q # p, ~Pend(u, T, q)  PROVE Settled(u, q)
      <3> HIDE DEF u
      <3> QED
        BY <1>1, <1>2 DEF Complete, Pend
    <2>1. ~Pend(t, T, q)
      BY <1>10
    <2>2. Settled(t, q)
      BY <2>1 DEF Complete
    <2> QED
      BY <1>12, <2>2
  <1>14. ASSUME NEW q \in Positions(u.code), NEW m \in Ints, At(u.code, q).op \in Results, u.val[At(u.code, q).dst] = Const(m)
         PROVE  CanBe(u, q[1], At(u.code, q), m)
    <2> HIDE DEF u, d, i
    <2>1. q # p /\ q \in Positions(c) /\ At(u.code, q) = At(c, q)
      <3>1. i.op \notin Results
        BY Operations DEF i
      <3> QED
        BY <1>1, <1>2, <1>5, <1>14, <3>1
    <2> DEFINE o == At(c, q)
    <2>2. CanBe(t, q[1], o, m)
      BY <1>2, <1>14, <2>1 DEF Base
    <2>3. o \in Instructions /\ Shaped(module, FunOf(q[1]), o) /\ FunOf(q[1]) \in FunctionSet
      BY <1>0, <2>1, CodeFacts
    <2>4. \A k \in 1..Len(o.to) : o.to[k] \in BlockSet
      <3>1. \A k \in 1..Len(o.to) : o.to[k] \in ToSet(o.to)
        BY <1>0, <2>3, Arguments DEF ToSet
      <3> QED
        BY <2>3, <3>1, ModuleFacts DEF Shaped
    <2> HIDE DEF o
    <2>5. CanBe(u, q[1], o, m)
      <3>1. CASE o.op = "phi"
        BY <1>6, <1>8, <2>2, <2>4, <3>1 DEF CanBe
      <3>2. CASE o.op # "phi"
        BY <1>6, <2>2, <3>2 DEF CanBe
      <3> QED
        BY <3>1, <3>2
    <2> QED
      BY <2>1, <2>5 DEF o
  <1>15. Base(u)
    <2>1. ASSUME NEW e \in u.edges  PROVE e[2] \in u.exec /\ IsEdgeFeasible(u, e[1], e[2])
      <3>1. e \in t.edges /\ e[1] \in BlockSet
        BY <1>0, <1>2 DEF Solvers
      <3>2. e[2] \in t.exec /\ IsEdgeFeasible(t, e[1], e[2])
        BY <3>1 DEF Base
      <3> QED
        BY <1>2, <1>8, <3>1, <3>2
    <2>2. /\ "different value" \notin u.broken /\ \A g \in u.tracked : u.val[g] # Over
          /\ ToSet(u.bwl) \subseteq u.exec
      BY <1>2 DEF Base
    <2> HIDE DEF u, d
    <2> QED
      BY <1>1, <1>2, <1>3, <1>14, <2>1, <2>2 DEF Base
  <1> QED
    BY <1>13, <1>15

\* Instruction j is i, or i with its undefined condition decided.
Became(i, j) ==
    j = i \/ /\ i.op \in {"br", "switch"} /\ i.args[1] = Undef
             /\ \E n \in Ints : j = [i EXCEPT !.args = [i.args EXCEPT ![1] = n]]

\* u is t later on, when undefs may have been resolved.
Advanced(t, u) ==
    /\ t.exec \subseteq u.exec /\ u.tracked \subseteq t.tracked
    /\ \A x \in Cells : Le(t.val[x], u.val[x])
    /\ \A b \in BlockSet : Len(u.code[b]) = Len(t.code[b])
    /\ \A p \in Positions(t.code) : Became(At(t.code, p), At(u.code, p))

\* Something was resolved between t and u.
Moved(t, u) ==
    \/ \E x \in Cells : t.val[x] = Unknown /\ u.val[x] # Unknown
    \/ \E p \in Positions(t.code) : At(t.code, p).args[1] = Undef /\ At(u.code, p).args[1] \in Ints

LEMMA BecameFacts ==
    ASSUME NEW i \in Instructions, NEW j, Became(i, j), Arity(i)
    PROVE  /\ j.op = i.op /\ j.dst = i.dst /\ j.sym = i.sym /\ j.to = i.to /\ Len(j.args) = Len(i.args)
           /\ i.args[1] \in Ints => j = i
  <1>1. CASE j = i
    BY <1>1
  <1>2. CASE j # i
    <2>1. PICK n \in Ints : j = [i EXCEPT !.args = [i.args EXCEPT ![1] = n]] /\ i.args[1] = Undef
      BY <1>2 DEF Became
    <2>2. j.op = i.op /\ j.dst = i.dst /\ j.sym = i.sym /\ j.to = i.to /\ j.args = [i.args EXCEPT ![1] = n]
      BY <2>1 DEF Instructions
    <2>3. i.args \in Seq(Operands)
      BY DEF Instructions
    <2>4. Len(j.args) = Len(i.args)
      BY <2>2, <2>3
    <2> QED
      BY <2>1, <2>2, <2>4, KindsAssumption
  <1> QED
    BY <1>1, <1>2

LEMMA BecameTransitive ==
    ASSUME NEW i \in Instructions, 1 \in DOMAIN i.args \/ i.op \notin {"br", "switch"}, NEW j, NEW k, Became(i, j), Became(j, k)
    PROVE  Became(i, k)
  <1>1. CASE i = j
    BY <1>1
  <1>2. CASE i # j
    <2>1. PICK n \in Ints : j = [i EXCEPT !.args = [i.args EXCEPT ![1] = n]] /\ i.op \in {"br", "switch"}
      BY <1>2 DEF Became
    <2>2. j.args[1] = n
      <3>1. j.args = [i.args EXCEPT ![1] = n]
        BY <2>1 DEF Instructions
      <3> QED
        BY <2>1, <3>1
    <2>3. j = k
      BY <2>2, KindsAssumption DEF Became
    <2> QED
      BY <2>3
  <1> QED
    BY <1>1, <1>2

LEMMA ClimbAdvances ==
    ASSUME NEW t \in Solvers, NEW u \in Solvers, Climb(t, u)
    PROVE  Advanced(t, u)
  <1>1. u.code = t.code /\ \A x \in Cells : Le(t.val[x], u.val[x])
    BY OperandsClimb DEF Climb
  <1> QED
    BY <1>1 DEF Advanced, Became, Climb

LEMMA AdvancedTransitive ==
    ASSUME WellFormed(module), NEW t \in Solvers, CodeOK(t.code), NEW u \in Solvers, NEW w \in Solvers, Advanced(t, u), Advanced(u, w)
    PROVE  Advanced(t, w) /\ Positions(u.code) = Positions(t.code)
  <1>1. t.exec \subseteq w.exec /\ w.tracked \subseteq t.tracked /\ \A b \in BlockSet : Len(w.code[b]) = Len(t.code[b])
    BY DEF Advanced
  <1>2. \A x \in Cells : Le(t.val[x], w.val[x])
    <2>1. \A x \in Cells : t.val[x] \in Values /\ u.val[x] \in Values /\ w.val[x] \in Values
      BY DEF Solvers
    <2> QED
      BY <2>1, LeOrders DEF Advanced
  <1>3. Positions(u.code) = Positions(t.code)
    BY DEF Advanced, Positions
  <1>4. ASSUME NEW p \in Positions(t.code)  PROVE Became(At(t.code, p), At(w.code, p))
    <2> DEFINE i == At(t.code, p)
    <2>1. i \in Instructions /\ Arity(i) /\ Shaped(module, FunOf(p[1]), i)
      BY CodeFacts
    <2>2. Became(i, At(u.code, p)) /\ Became(At(u.code, p), At(w.code, p))
      BY <1>3 DEF Advanced
    <2>3. 1 \in DOMAIN i.args \/ i.op \notin {"br", "switch"}
      <3> SUFFICES ASSUME i.op \in {"br", "switch"}  PROVE 1 \in DOMAIN i.args
        OBVIOUS
      <3>1. 0 \in Ints
        BY SccpAssumption DEF Ints
      <3> QED
        BY <3>1, DecidedCode
    <2> HIDE DEF i
    <2>4. Became(i, At(w.code, p))
      BY <2>1, <2>2, <2>3, BecameTransitive
    <2> QED
      BY <2>4 DEF i
  <1> QED
    BY <1>1, <1>2, <1>3, <1>4 DEF Advanced

LEMMA MovedOn ==
    ASSUME NEW t \in Solvers, NEW u \in Solvers, NEW w \in Solvers, Advanced(t, u), Advanced(u, w), Moved(t, u) \/ Moved(u, w)
    PROVE  Moved(t, w)
  <1>0. /\ \A x \in Cells : t.val[x] \in Values /\ u.val[x] \in Values /\ w.val[x] \in Values
        /\ \A x \in Cells : Le(t.val[x], u.val[x]) /\ Le(u.val[x], w.val[x])
        /\ Positions(u.code) = Positions(t.code)
        /\ \A p \in Positions(t.code) : Became(At(t.code, p), At(u.code, p)) /\ Became(At(u.code, p), At(w.code, p))
        /\ Undef \notin Ints
    BY KindsAssumption DEF Solvers, Advanced, Positions
  <1>1. ASSUME NEW x \in Cells, t.val[x] = Unknown \/ u.val[x] = Unknown, u.val[x] # Unknown \/ w.val[x] # Unknown,
               ~(t.val[x] = Unknown /\ u.val[x] = Unknown /\ w.val[x] = Unknown)
        PROVE  t.val[x] = Unknown /\ w.val[x] # Unknown
    BY <1>0, <1>1, LatticeKinds DEF Le
  <1>2. ASSUME NEW p \in Positions(t.code), At(t.code, p).args[1] = Undef, At(u.code, p).args[1] \in Ints
        PROVE  At(w.code, p).args[1] \in Ints
    <2>1. At(w.code, p) = At(u.code, p)
      BY <1>0, <1>2 DEF Became
    <2> QED
      BY <1>2, <2>1
  <1>3. ASSUME NEW p \in Positions(t.code), At(u.code, p).args[1] = Undef, At(w.code, p).args[1] \in Ints
        PROVE  At(t.code, p).args[1] = Undef
    BY <1>0, <1>3 DEF Became
  <1>4. CASE Moved(t, u)
    BY <1>0, <1>1, <1>2, <1>4 DEF Moved
  <1>5. CASE Moved(u, w)
    BY <1>0, <1>1, <1>3, <1>5 DEF Moved
  <1> QED
    BY <1>4, <1>5

\* The condition of a terminator that has to be resolved.
LEMMA ConditionFacts ==
    ASSUME WellFormed(module), NEW t \in Solvers, CodeOK(t.code), NEW p \in Positions(t.code),
           At(t.code, p).op \in {"br", "switch"}, ValueOf(t, At(t.code, p).args[1]) = Unknown
    PROVE  LET i == At(t.code, p)
               n == IF i.op = "br" THEN 0 ELSE i.args[2]
           IN  /\ 0 \in Ints /\ n \in Ints /\ i.args \in Seq(Operands) /\ DOMAIN i.args = 1..Len(i.args) /\ 1 \in DOMAIN i.args
               /\ Len(i.to) > 1 /\ Len(i.to) \in Nat /\ i.op \in {"br", "switch"} /\ i.to[2] \in ToSet(i.to)
               /\ i.op = "switch" => /\ Len(i.args) = Len(i.to)
                                     /\ \A h, k \in 2..Len(i.args) : i.args[k] \in Ints /\ (i.args[h] = i.args[k] => h = k)
               /\ i.args[1] \in Operands /\ ValueOf(t, i.args[1]) = Unknown
               /\ i.args[1] = Undef \/ (i.args[1] \in Registers /\ t.val[i.args[1]] = Unknown)
  <1> DEFINE i == At(t.code, p)
             n == IF i.op = "br" THEN 0 ELSE i.args[2]
  <1>1. i \in Instructions /\ Arity(i) /\ Shaped(module, FunOf(p[1]), i)
    BY CodeFacts
  <1>2. 0 \in Ints /\ i.args \in Seq(Operands) /\ DOMAIN i.args = 1..Len(i.args) /\ 1 \in DOMAIN i.args
    <2>1. 0 \in Ints
      BY SccpAssumption DEF Ints
    <2>2. i.args \in Seq(Operands)
      BY <1>1 DEF Instructions
    <2>3. 1 \in DOMAIN i.args
      BY <2>1, DecidedCode
    <2> QED
      BY <2>1, <2>2, <2>3
  <1>3. /\ Len(i.to) > 1 /\ Len(i.to) \in Nat /\ i.op \in {"br", "switch"}
        /\ i.op = "switch" => /\ Len(i.args) = Len(i.to)
                              /\ \A h, k \in 2..Len(i.args) : i.args[k] \in Ints /\ (i.args[h] = i.args[k] => h = k)
    <2>1. Len(i.to) \in Nat
      BY <1>1, Arguments
    <2>2. i.op = "br" => Len(i.to) = 2
      BY <1>1 DEF Shaped
    <2>3. i.op = "switch" => /\ Len(i.args) = Len(i.to) /\ Len(i.to) > 1
                             /\ \A h, k \in 2..Len(i.args) : i.args[k] \in Ints /\ (i.args[h] = i.args[k] => h = k)
      BY <1>1 DEF Shaped
    <2>4. i.op \in {"br", "switch"}
      OBVIOUS
    <2> HIDE DEF i
    <2>5. Len(i.to) > 1
      <3> DEFINE m == Len(i.to)
      <3>1. i.op = "br" => m = 2
        BY <2>2
      <3>2. i.op = "switch" => m > 1
        BY <2>3
      <3> HIDE DEF m
      <3>3. m = 2 => m > 1
        OBVIOUS
      <3>4. m > 1
        BY <2>4, <3>1, <3>2, <3>3
      <3> QED
        BY <3>4 DEF m
    <2> QED
      BY <2>1, <2>3, <2>4, <2>5
  <1>4. n \in Ints
    <2>1. CASE i.op = "br"
      BY <1>2, <2>1
    <2>2. CASE i.op = "switch"
      <3>1. 2 \in 2..Len(i.args)
        <4> HIDE DEF i
        <4> QED
          BY <1>3, <2>2
      <3>2. i.args[2] \in Ints
        <4> HIDE DEF i
        <4> QED
          BY <1>3, <2>2, <3>1
      <3> QED
        BY <2>2, <3>2
    <2> QED
      BY <1>3, <2>1, <2>2
  <1>5. i.args[1] \in Operands /\ ValueOf(t, i.args[1]) = Unknown
    BY <1>2
  <1>6. i.args[1] = Undef \/ (i.args[1] \in Registers /\ t.val[i.args[1]] = Unknown)
    <2> HIDE DEF i
    <2> QED
      BY <1>5, LatticeKinds DEF ValueOf, Operands
  <1>7. i.to[2] \in ToSet(i.to)
    <2>1. DOMAIN i.to = 1..Len(i.to)
      BY <1>1, Arguments
    <2> HIDE DEF i
    <2>2. 2 \in 1..Len(i.to)
      BY <1>3
    <2> QED
      BY <2>1, <2>2 DEF ToSet
  <1> HIDE DEF i
  <1> QED
    BY <1>2, <1>3, <1>4, <1>5, <1>6, <1>7 DEF i

LEMMA ConditionResolved ==
    ASSUME WellFormed(module), NEW t, Base(t), NEW p \in Positions(t.code), p[1] \in t.exec,
           At(t.code, p).op \in {"br", "switch"}, ValueOf(t, At(t.code, p).args[1]) = Unknown, NEW T, Complete(t, T)
    PROVE  LET u == ResolveCondition(t, p, At(t.code, p))
           IN  Base(u) /\ Complete(u, T) /\ Advanced(t, u) /\ Moved(t, u)
  <1> DEFINE c == t.code
             i == At(c, p)
             b == p[1]
             n == IF i.op = "br" THEN 0 ELSE i.args[2]
             u == ResolveCondition(t, p, i)
  <1>0. t \in Solvers /\ CodeOK(c)
    BY DEF Base
  <1>1. /\ i \in Instructions /\ Arity(i) /\ b \in BlockSet /\ FunOf(b) \in FunctionSet /\ Shaped(module, FunOf(b), i)
        /\ p = <<b, p[2]>> /\ p[2] \in 1..Len(c[b]) /\ i = c[b][p[2]]
    BY <1>0, CodeFacts
  <1>2. 0 \in Ints /\ i.args \in Seq(Operands) /\ DOMAIN i.args = 1..Len(i.args) /\ 1 \in DOMAIN i.args
    BY <1>0, ConditionFacts
  <1>3. /\ Len(i.to) > 1 /\ Len(i.to) \in Nat /\ i.op \in {"br", "switch"}
        /\ i.op = "switch" => /\ Len(i.args) = Len(i.to)
                              /\ \A h, k \in 2..Len(i.args) : i.args[k] \in Ints /\ (i.args[h] = i.args[k] => h = k)
    BY <1>0, ConditionFacts
  <1>4. n \in Ints
    BY <1>0, ConditionFacts
  <1>6. i.args[1] = Undef \/ (i.args[1] \in Registers /\ t.val[i.args[1]] = Unknown)
    BY <1>0, ConditionFacts
  <1>7. CASE i.args[1] # Undef
    <2>1. u = Mark(t, i.args[1], Forced(n))
      BY <1>7 DEF ResolveCondition
    <2> HIDE DEF i, u, n
    <2>2. Base(u) /\ Complete(u, T) /\ Climb(t, u) /\ u.val = [t.val EXCEPT ![i.args[1]] = Forced(n)]
      BY <1>4, <1>6, <1>7, <2>1, ForcedMarked
    <2>3. u \in Solvers
      BY <2>2 DEF Base
    <2>4. Advanced(t, u)
      BY <1>0, <2>2, <2>3, ClimbAdvances
    <2>5. i.args[1] \in Cells /\ u.val[i.args[1]] = Forced(n)
      BY <1>0, <1>6, <1>7, <2>2 DEF Solvers, Cells
    <2>6. Moved(t, u)
      BY <1>6, <1>7, <2>5, LatticeKinds DEF Moved
    <2> QED
      BY <2>2, <2>4, <2>6 DEF u, i
  <1>8. CASE i.args[1] = Undef
    <2> DEFINE d == Decided(c, p, n)
               v == [t EXCEPT !.code = d]
               a == [i.args EXCEPT ![1] = n]
    <2>1. u = MarkEdgeExecutable(v, b, i.to[2])
      <3>1. [t EXCEPT !.code[p[1]][p[2]].args[1] = n] = v
        BY <1>0 DEF Decided, Solvers
      <3> QED
        BY <1>8, <3>1 DEF ResolveCondition
    <2>2. Base(v) /\ Complete(v, T \cup {p})
      BY <1>4, <1>8, DecidedKeeps
    <2>3. /\ CodeOK(d) /\ Positions(d) = Positions(c)
          /\ \A q \in Positions(c) : q # p => At(d, q) = At(c, q)
          /\ At(d, p) = [i EXCEPT !.args = a]
          /\ \A e \in BlockSet : Len(d[e]) = Len(c[e])
      BY <1>0, <1>4, DecidedCode
    <2>4. v.code = d /\ v.val = t.val /\ v.exec = t.exec /\ v.tracked = t.tracked
      BY <1>0 DEF Solvers
    <2>5. At(d, p).op = i.op /\ At(d, p).to = i.to /\ At(d, p).args = a /\ a[1] = n /\ Len(a) = Len(i.args)
          /\ \A k \in 2..Len(i.args) : a[k] = i.args[k]
      <3> HIDE DEF i, d, n
      <3>1. At(d, p).op = i.op /\ At(d, p).to = i.to /\ At(d, p).args = a
        BY <1>1, <2>3 DEF Instructions
      <3>2. a \in Seq(Operands) /\ DOMAIN a = DOMAIN i.args
        BY <1>2, <1>4 DEF Operands
      <3>3. a[1] = n /\ Len(a) = Len(i.args) /\ \A k \in 2..Len(i.args) : a[k] = i.args[k]
        BY ONLY <1>2, SMT
      <3> QED
        BY <3>1, <3>3
    <2>6. Term(d, b) = At(d, p)
      <3>1. Len(d[b]) = p[2]
        <4>1. \A k \in 1..Len(c[b]) : c[b][k].op \in Terminators => k = Len(c[b])
          <5> HIDE DEF b, i
          <5> QED
            BY <1>0, <1>1, TermFacts
        <4>2. i.op \in Terminators
          BY DEF Terminators
        <4> QED
          BY <1>1, <2>3, <4>1, <4>2
      <3> QED
        BY <3>1, Zenon DEF Term, At
    <2>7. \A w \in Solvers : FeasibleSuccessors(w, At(d, p)) = {i.to[2]}
      <3> TAKE w \in Solvers
      <3> DEFINE j == At(d, p)
      <3>1. ValueOf(w, j.args[1]) = Const(n) /\ j.op \in {"br", "switch"}
        BY <1>3, <1>4, <2>5 DEF ValueOf
      <3>2. FeasibleSuccessors(w, j) = SuccessorsFor(j, n)
        <4> HIDE DEF j, n
        <4> QED
          BY <3>1, LatticeKinds DEF FeasibleSuccessors
      <3>3. CASE j.op = "br"
        <4>1. n = 0
          BY <2>5, <3>3
        <4> QED
          BY <2>5, <3>2, <3>3, <4>1 DEF SuccessorsFor
      <3>4. CASE j.op = "switch"
        <4>1. n = i.args[2] /\ i.op = "switch" /\ 2 \in 2..Len(i.args)
          <5>1. i.op = "switch"
            BY <2>5, <3>4
          <5>2. n = i.args[2]
            BY <5>1
          <5>3. 2 \in 2..Len(i.args)
            <6> HIDE DEF i
            <6> QED
              BY <1>3, <5>1
          <5> QED
            BY <5>1, <5>2, <5>3
        <4>2. {k \in 2..Len(j.args) : j.args[k] = n} = {2}
          <5> HIDE DEF i, d, a, n
          <5>1. ASSUME NEW k \in 2..Len(i.args)  PROVE a[k] = n <=> k = 2
            <6>1. a[k] = i.args[k]
              BY <2>5
            <6>2. i.args[2] = i.args[k] => 2 = k
              BY <1>3, <4>1
            <6> QED
              BY <4>1, <6>1, <6>2
          <5> QED
            BY <2>5, <4>1, <5>1
        <4> HIDE DEF j, n, d
        <4>3. SuccessorsFor(j, n) = {j.to[k] : k \in {2}}
          BY <3>4, <4>2 DEF SuccessorsFor
        <4> QED
          BY <2>5, <3>2, <4>3 DEF j
      <3> QED
        BY <3>1, <3>3, <3>4
    <2>8. v \in Solvers /\ i.to[2] \in BlockSet /\ IsEdgeFeasible(v, b, i.to[2])
      <3>1. v \in Solvers
        BY <2>2 DEF Base
      <3>2. i.to[2] \in ToSet(i.to)
        <4>1. DOMAIN i.to = 1..Len(i.to)
          BY <1>0, <1>1, Arguments
        <4>2. 2 \in 1..Len(i.to)
          <5> HIDE DEF i
          <5> QED
            BY ONLY <1>3, SMT
        <4> QED
          BY <4>1, <4>2 DEF ToSet
      <3>3. i.to[2] \in BlockSet
        BY <1>1, <3>2, ModuleFacts DEF Shaped
      <3>4. b \in v.exec
        BY <2>4, Zenon
      <3> HIDE DEF v, d, i
      <3> QED
        BY <2>4, <2>6, <2>7, <3>1, <3>3, <3>4 DEF IsEdgeFeasible
    <2> HIDE DEF v, d, u, n, i
    <2>9. Base(u) /\ Complete(u, T \cup {p}) /\ Climb(v, u) /\ <<b, i.to[2]>> \in u.edges
      BY <1>1, <2>1, <2>2, <2>8, EdgeMarked
    <2>10. u \in Solvers /\ u.code = d
      BY <2>4, <2>9 DEF Base, Climb
    <2>11. Settled(u, p)
      <3>0. At(u.code, p) = At(d, p)
        BY <2>10
      <3>1. FeasibleSuccessors(u, At(u.code, p)) = {i.to[2]} /\ At(u.code, p).op \in {"br", "switch"}
        <4>1. FeasibleSuccessors(u, At(d, p)) = {i.to[2]}
          BY <2>7, <2>10
        <4>2. At(d, p).op \in {"br", "switch"}
          BY <1>3, <2>5
        <4> QED
          BY <3>0, <4>1, <4>2
      <3> QED
        BY <2>9, <3>1 DEF Settled
    <2>12. Complete(u, T)
      BY <2>9, <2>11, VisitedComplete
    <2>13. Advanced(t, v)
      <3>1. \A x \in Cells : Le(t.val[x], t.val[x])
        <4>1. \A x \in Cells : t.val[x] \in Values
          BY <1>0 DEF Solvers
        <4> QED
          BY <4>1, LeOrders
      <3>2. \A q \in Positions(t.code) : Became(At(t.code, q), At(v.code, q))
        <4>1. Became(i, [i EXCEPT !.args = a])
          <5> DEFINE j == [i EXCEPT !.args = a]
          <5>1. j = [i EXCEPT !.args = [i.args EXCEPT ![1] = n]]
            OBVIOUS
          <5> HIDE DEF n, j, i
          <5> QED
            BY <1>3, <1>4, <1>8, <5>1 DEF Became
        <4> QED
          BY <2>3, <2>4, <4>1 DEF Became, i
      <3> QED
        BY <2>3, <2>4, <3>1, <3>2 DEF Advanced
    <2>14. Advanced(v, u)
      BY <2>8, <2>9, <2>10, ClimbAdvances
    <2>15. Advanced(t, u)
      BY <1>0, <2>8, <2>10, <2>13, <2>14, AdvancedTransitive
    <2>16. Moved(t, u)
      BY <1>4, <1>8, <2>5, <2>10 DEF Moved, i
    <2> QED
      BY <2>9, <2>12, <2>15, <2>16 DEF u, i
  <1> QED
    BY <1>7, <1>8

LEMMA ResultResolved ==
    ASSUME WellFormed(module), NEW t, Base(t), NEW p \in Positions(t.code), At(t.code, p).dst # "none",
           t.val[At(t.code, p).dst] = Unknown, ResolvedAs(t, At(t.code, p)) # Unknown, NEW T, Complete(t, T)
    PROVE  LET u == Mark(t, At(t.code, p).dst, ResolvedAs(t, At(t.code, p)))
           IN  Base(u) /\ Complete(u, T) /\ Advanced(t, u) /\ Moved(t, u)
  <1> DEFINE i == At(t.code, p)
             v == ResolvedAs(t, i)
             u == Mark(t, i.dst, v)
  <1>1. t \in Solvers /\ CodeOK(t.code)
    BY DEF Base
  <1>2. i \in Instructions /\ Arity(i)
    BY <1>1, CodeFacts
  <1>3. i.op \in Results /\ i.dst \in Registers /\ i.dst \in Cells
    <2> HIDE DEF i
    <2>1. i.op \in Results
      BY <1>2 DEF Arity, i
    <2>2. i.dst \in Registers /\ i.dst \in Cells
      BY <1>1, <1>2, Arguments DEF i
    <2> QED
      BY <2>1, <2>2
  <1>4. v \in {Over} \cup {Forced(n) : n \in Ints}
    BY <1>1, <1>2, <1>3, ResolvedValue
  <1>5. t.val[i.dst] = Unknown
    OBVIOUS
  <1> HIDE DEF i, v, u
  <1>6. Base(u) /\ Complete(u, T) /\ Climb(t, u) /\ u.val = [t.val EXCEPT ![i.dst] = v]
    BY <1>3, <1>4, <1>5, ForcedMarked DEF u
  <1>7. u \in Solvers
    BY <1>6 DEF Base
  <1>8. Advanced(t, u)
    BY <1>1, <1>6, <1>7, ClimbAdvances
  <1>9. u.val[i.dst] # Unknown
    <2>1. u.val[i.dst] = v
      BY <1>1, <1>3, <1>6 DEF Solvers
    <2> QED
      BY <1>4, <2>1, LatticeKinds
  <1>10. Moved(t, u)
    BY <1>3, <1>5, <1>9 DEF Moved
  <1> QED
    BY <1>6, <1>8, <1>10 DEF u, v, i

LEMMA UndefsResolved ==
    ASSUME WellFormed(module), NEW t, Base(t), NEW f \in FunctionSet, NEW T, Complete(t, T)
    PROVE  LET u == ResolvedUndefsIn(t, f)
           IN  /\ Base(u) /\ Complete(u, T) /\ Advanced(t, u)
               /\ \/ Moved(t, u)
                  \/ u = t /\ \A q \in Positions(t.code) : q[1] \in ToSet(module.blocks[f]) => ~Resolvable(t, q)
  <1> DEFINE u == ResolvedUndefsIn(t, f)
             Clear == \A q \in Positions(t.code) : q[1] \in ToSet(module.blocks[f]) => ~Resolvable(t, q)
             p == FirstUndef(t, f)
             i == At(t.code, p)
  <1>0. t \in Solvers /\ CodeOK(t.code)
    BY DEF Base
  <1>1. CASE Clear
    <2>1. u = t
      BY <1>1 DEF ResolvedUndefsIn
    <2>2. Advanced(t, t)
      BY <1>0, ClimbReflexive, ClimbAdvances
    <2> QED
      BY <1>1, <2>1, <2>2
  <1>2. CASE ~Clear
    <2>1. p \in Positions(t.code) /\ Resolvable(t, p)
      BY <1>0, <1>2, FirstUndefFound
    <2>2. CASE i.op \in {"br", "switch"}
      <3>1. u = ResolveCondition(t, p, i)
        BY <1>2, <2>2 DEF ResolvedUndefsIn
      <3>2. p[1] \in t.exec /\ ValueOf(t, i.args[1]) = Unknown
        BY <2>1, <2>2 DEF Resolvable
      <3> HIDE DEF p, u
      <3>3. Base(u) /\ Complete(u, T) /\ Advanced(t, u) /\ Moved(t, u)
        BY <2>1, <2>2, <3>1, <3>2, ConditionResolved
      <3> QED
        BY <3>3 DEF u
    <2>3. CASE i.op \notin {"br", "switch"}
      <3>1. u = Mark(t, i.dst, ResolvedAs(t, i))
        BY <1>2, <2>3 DEF ResolvedUndefsIn
      <3>2. i.dst # "none" /\ t.val[i.dst] = Unknown /\ ResolvedAs(t, i) # Unknown
        BY <2>1, <2>3 DEF Resolvable
      <3> HIDE DEF p, u
      <3>3. Base(u) /\ Complete(u, T) /\ Advanced(t, u) /\ Moved(t, u)
        BY <2>1, <3>1, <3>2, ResultResolved
      <3> QED
        BY <3>3 DEF u
    <2> QED
      BY <2>2, <2>3
  <1> QED
    BY <1>1, <1>2

LEMMA AllUndefsResolved ==
    ASSUME WellFormed(module), Base(s), Complete(s, {})
    PROVE  LET u == AllResolved
           IN  /\ Base(u) /\ Complete(u, {}) /\ Advanced(s, u)
               /\ u = s => \A q \in Positions(s.code) : ~Resolvable(s, q)
  <1> DEFINE n == Len(module.funs)
             Clear(h) == \A q \in Positions(s.code) : q[1] \in ToSet(module.blocks[module.funs[h]]) => ~Resolvable(s, q)
             Good(k, u) == /\ Base(u) /\ Complete(u, {}) /\ Advanced(s, u)
                           /\ Moved(s, u) \/ (u = s /\ \A h \in 1..k : Clear(h))
             P == [k \in 0..n |-> {u \in Solvers : Good(k, u)}]
  <1>1. n \in Nat /\ \A k \in 1..n : module.funs[k] \in FunctionSet
    BY ModuleFacts
  <1>2. s \in Solvers /\ CodeOK(s.code)
    BY DEF Base
  <1>3. s \in P[0]
    <2>1. Advanced(s, s)
      BY <1>2, ClimbReflexive, ClimbAdvances
    <2>2. Good(0, s)
      BY <2>1
    <2> HIDE DEF Good
    <2> QED
      BY <1>1, <1>2, <2>2
  <1>4. ASSUME NEW k \in 1..n, NEW u \in P[k - 1]  PROVE ResolvedUndefsIn(u, module.funs[k]) \in P[k]
    <2> DEFINE f == module.funs[k]
               w == ResolvedUndefsIn(u, f)
    <2>1. k - 1 \in 0..n /\ k \in 0..n /\ k \in 1..n /\ f \in FunctionSet /\ u \in Solvers /\ Good(k - 1, u)
      <3> HIDE DEF Good
      <3> QED
        BY <1>1, <1>4
    <2>2. /\ Base(w) /\ Complete(w, {}) /\ Advanced(u, w)
          /\ \/ Moved(u, w)
             \/ w = u /\ \A q \in Positions(u.code) : q[1] \in ToSet(module.blocks[f]) => ~Resolvable(u, q)
      BY <2>1, UndefsResolved
    <2>3. w \in Solvers
      BY <2>2 DEF Base
    <2>4. Advanced(s, w)
      BY <1>2, <2>1, <2>2, <2>3, AdvancedTransitive
    <2>5. Moved(s, w) \/ (w = s /\ \A h \in 1..k : Clear(h))
      <3>1. CASE Moved(s, u) \/ Moved(u, w)
        BY <1>2, <2>1, <2>2, <2>3, <3>1, MovedOn
      <3>2. CASE ~Moved(s, u) /\ ~Moved(u, w)
        <4>1. u = s /\ w = s /\ Clear(k) /\ \A h \in 1..(k-1) : Clear(h)
          BY <2>1, <2>2, <3>2
        <4>2. \A h \in 1..k : h = k \/ h \in 1..(k-1)
          OBVIOUS
        <4> HIDE DEF Clear
        <4> QED
          BY <4>1, <4>2
      <3> QED
        BY <3>1, <3>2
    <2> HIDE DEF w, Clear
    <2>6. Good(k, w)
      BY <2>2, <2>4, <2>5
    <2> HIDE DEF Good
    <2> QED
      BY <1>1, <2>1, <2>3, <2>6 DEF w
  <1>5. AllResolved \in P[n]
    <2> HIDE DEF P, n
    <2> QED
      BY <1>1, <1>3, <1>4, AllResolvedKeeps DEF n
  <1>6. Good(n, AllResolved)
    <2> HIDE DEF Good
    <2> QED
      BY <1>1, <1>5
  <1>7. ~Moved(s, s)
    BY KindsAssumption DEF Moved
  <1>8. ASSUME AllResolved = s, NEW q \in Positions(s.code)  PROVE ~Resolvable(s, q)
    <2>1. \A h \in 1..n : Clear(h)
      BY <1>6, <1>7, <1>8
    <2>2. FunOf(q[1]) \in FunctionSet /\ q[1] \in ToSet(module.blocks[FunOf(q[1])])
      BY <1>2, CodeFacts
    <2>3. PICK h \in 1..n : FunOf(q[1]) = module.funs[h]
      <3>1. DOMAIN module.funs = 1..n
        BY DEF WellFormed
      <3> QED
        BY <2>2, <3>1 DEF FunctionSet, ToSet
    <2> QED
      BY <2>1, <2>2, <2>3
  <1> HIDE DEF Clear, n
  <1> QED
    BY <1>6, <1>8

-----------------------------------------------------------------------------
(* The fixpoint: a visit of what is settled changes nothing but broken.    *)

Stays(t, u) == u = [t EXCEPT !.broken = u.broken]

LEMMA StaysSame ==
    ASSUME NEW t \in Solvers
    PROVE  Stays(t, t)
  BY DEF Stays, Solvers

LEMMA CastStays ==
    ASSUME NEW t \in Solvers, NEW i \in Instructions, Arity(i), i.op \in Casts, i.dst \in Cells, Le(WantsCast(t, i), t.val[i.dst])
    PROVE  Stays(t, VisitCast(t, i))
  <1> DEFINE x == ValueOf(t, i.args[1])
  <1>0. Len(i.args) = 1 /\ 1 \in 1..1
    BY DEF Arity
  <1>1. x \in Values /\ t.val[i.dst] \in Values
    BY <1>0, Arguments DEF Solvers
  <1>2. CASE x = Unknown
    BY <1>2, StaysSame DEF VisitCast
  <1>3. CASE x = Over
    <2>1. t.val[i.dst] = Over
      BY <1>3, LatticeKinds DEF WantsCast, Le
    <2> QED
      BY <1>3, <2>1, StaysSame, LatticeKinds DEF VisitCast, MarkOverdefined
  <1>4. CASE IsConst(x)
    <2> DEFINE n == FoldCast(i.op, x.n)
    <2>1. n \in Ints
      BY <1>1, <1>4, ValueKinds, FoldAssumption
    <2>2. WantsCast(t, i) = Const(n) /\ VisitCast(t, i) = MarkConstant(t, i.dst, n)
      BY <1>4, LatticeKinds DEF WantsCast, VisitCast
    <2> HIDE DEF n
    <2>3. t.val[i.dst] = Over \/ (IsConst(t.val[i.dst]) /\ t.val[i.dst].n = n)
      BY <2>2, LatticeKinds DEF Le
    <2> QED
      BY <2>1, <2>2, <2>3, ConstantStays DEF Stays
  <1> QED
    BY <1>1, <1>2, <1>3, <1>4, ValueKinds

LEMMA CmpStays ==
    ASSUME NEW t \in Solvers, NEW i \in Instructions, Arity(i), i.op \in Comparisons, i.dst \in Cells, Le(WantsCmp(t, i), t.val[i.dst])
    PROVE  Stays(t, VisitCmp(t, i))
  <1> DEFINE x == ValueOf(t, i.args[1])
             y == ValueOf(t, i.args[2])
  <1>1. x \in Values /\ y \in Values /\ t.val[i.dst] \in Values
    <2>1. Len(i.args) = 2 /\ 1 \in 1..2 /\ 2 \in 1..2
      BY DEF Arity
    <2> QED
      BY <2>1, Arguments DEF Solvers
  <1>2. CASE t.val[i.dst] = Over
    BY <1>2, StaysSame DEF VisitCmp
  <1>3. CASE t.val[i.dst] # Over /\ IsConst(x) /\ IsConst(y)
    <2> DEFINE n == Fold(i.op, x.n, y.n)
    <2>1. n \in Ints
      BY <1>1, <1>3, ValueKinds, FoldAssumption
    <2>2. WantsCmp(t, i) = Const(n) /\ VisitCmp(t, i) = MarkConstant(t, i.dst, n)
      BY <1>3, LatticeKinds DEF WantsCmp, VisitCmp
    <2> HIDE DEF n
    <2>3. t.val[i.dst] = Over \/ (IsConst(t.val[i.dst]) /\ t.val[i.dst].n = n)
      BY <2>2, LatticeKinds DEF Le
    <2> QED
      BY <2>1, <2>2, <2>3, ConstantStays DEF Stays
  <1>4. CASE t.val[i.dst] # Over /\ ~(IsConst(x) /\ IsConst(y))
    <2>1. x # Over /\ y # Over
      BY <1>4, LatticeKinds DEF WantsCmp, Le
    <2> QED
      BY <1>4, <2>1, StaysSame DEF VisitCmp
  <1> QED
    BY <1>2, <1>3, <1>4

LEMMA BinaryStays ==
    ASSUME NEW t \in Solvers, NEW i \in Instructions, Arity(i), i.op \in BinaryOps, i.dst \in Cells, Le(WantsBinary(t, i), t.val[i.dst])
    PROVE  Stays(t, VisitBinary(t, i))
  <1> DEFINE x == ValueOf(t, i.args[1])
             y == ValueOf(t, i.args[2])
             known == IF x # Over THEN x ELSE y
             v == t.val[i.dst]
  <1>1. x \in Values /\ y \in Values /\ v \in Values
    <2>1. Len(i.args) = 2 /\ 1 \in 1..2 /\ 2 \in 1..2
      BY DEF Arity
    <2> QED
      BY <2>1, Arguments DEF Solvers
  <1>2. CASE v = Over
    BY <1>2, StaysSame DEF VisitBinary
  <1>3. ASSUME v # Over, NEW n \in Ints, WantsBinary(t, i) = Const(n)  PROVE Stays(t, MarkConstant(t, i.dst, n))
    <2>1. IsConst(v) /\ v.n = n
      BY <1>3, LatticeKinds DEF Le
    <2> QED
      BY <1>3, <2>1, ConstantStays DEF Stays
  <1>4. CASE v # Over /\ IsConst(x) /\ IsConst(y)
    <2> DEFINE n == Fold(i.op, x.n, y.n)
    <2>1. n \in Ints \cup {Undef}
      BY <1>1, <1>4, ValueKinds, FoldAssumption
    <2>2. VisitBinary(t, i) = MarkResult(t, i, n)
      BY <1>4 DEF VisitBinary
    <2>3. CASE n = Undef
      BY <2>2, <2>3, StaysSame DEF MarkResult
    <2>4. CASE n # Undef
      <3>1. WantsBinary(t, i) = Const(n)
        BY <1>4, <2>4 DEF WantsBinary
      <3> HIDE DEF n
      <3> QED
        BY <1>3, <1>4, <2>1, <2>2, <2>4, <3>1 DEF MarkResult
    <2> QED
      BY <2>3, <2>4
  <1>5. CASE v # Over /\ ~(IsConst(x) /\ IsConst(y)) /\ x # Over /\ y # Over
    BY <1>5, StaysSame DEF VisitBinary
  <1>6. CASE v # Over /\ ~(IsConst(x) /\ IsConst(y)) /\ ~(x # Over /\ y # Over)
    <2>1. CASE i.op = "udiv" /\ IsConst(x) /\ x.n = 0
      <3>1. 0 \in Ints
        BY SccpAssumption DEF Ints
      <3>2. WantsBinary(t, i) = Const(0) /\ VisitBinary(t, i) = MarkConstant(t, i.dst, 0)
        BY <1>6, <2>1 DEF WantsBinary, VisitBinary
      <3> QED
        BY <1>3, <1>6, <3>1, <3>2
    <2>2. CASE ~(i.op = "udiv" /\ IsConst(x) /\ x.n = 0) /\ i.op \in Absorbing /\ known = Unknown
      BY <1>6, <2>2, StaysSame DEF VisitBinary
    <2>3. CASE ~(i.op = "udiv" /\ IsConst(x) /\ x.n = 0) /\ i.op \in Absorbing /\ IsConst(known) /\ known.n = Absorber(i.op)
      <3>1. known.n \in Ints /\ known # Unknown
        BY <1>1, <2>3, ValueKinds
      <3>2. WantsBinary(t, i) = Const(known.n) /\ VisitBinary(t, i) = MarkConstant(t, i.dst, known.n)
        BY <1>6, <2>3, <3>1 DEF WantsBinary, VisitBinary
      <3> HIDE DEF known
      <3> QED
        BY <1>3, <1>6, <3>1, <3>2
    <2>4. CASE /\ ~(i.op = "udiv" /\ IsConst(x) /\ x.n = 0) /\ ~(i.op \in Absorbing /\ known = Unknown)
               /\ ~(i.op \in Absorbing /\ IsConst(known) /\ known.n = Absorber(i.op))
      <3>1. WantsBinary(t, i) = Over
        BY <1>6, <2>4 DEF WantsBinary
      <3> QED
        BY <1>6, <3>1, LatticeKinds DEF Le
    <2> QED
      BY <2>1, <2>2, <2>3, <2>4
  <1> QED
    BY <1>2, <1>4, <1>5, <1>6

LEMMA SelectStays ==
    ASSUME NEW t \in Solvers, NEW i \in Instructions, Arity(i), i.op = "select", i.dst \in Cells, Le(WantsSelect(t, i), t.val[i.dst])
    PROVE  Stays(t, VisitSelect(t, i))
  <1> DEFINE c == ValueOf(t, i.args[1])
             x == ValueOf(t, i.args[2])
             y == ValueOf(t, i.args[3])
             v == t.val[i.dst]
  <1>0. Len(i.args) = 3 /\ 1 \in 1..3 /\ 2 \in 1..3 /\ 3 \in 1..3
    BY DEF Arity
  <1>1. c \in Values /\ x \in Values /\ y \in Values /\ v \in Values
    BY <1>0, Arguments DEF Solvers
  <1>2. CASE c = Unknown
    BY <1>2, StaysSame DEF VisitSelect
  <1>3. CASE IsConst(c)
    <2> DEFINE z == IF c.n = 0 THEN y ELSE x
    <2>1. c # Unknown
      BY <1>3, LatticeKinds
    <2>2. VisitSelect(t, i) = MergeInValue(t, i.dst, z) /\ WantsSelect(t, i) = z
      BY <1>3, <2>1 DEF VisitSelect, WantsSelect
    <2>3. z \in Values
      BY <1>1
    <2> HIDE DEF z
    <2> QED
      BY <2>2, <2>3, MergeStays, StaysSame
  <1>4. CASE c = Over
    <2>0. c # Unknown /\ ~IsConst(c)
      BY <1>4, LatticeKinds
    <2>1. CASE IsConst(x) /\ IsConst(y) /\ x.n = y.n
      <3>1. VisitSelect(t, i) = MarkConstant(t, i.dst, y.n) /\ WantsSelect(t, i) = Const(y.n)
        BY <2>0, <2>1 DEF VisitSelect, WantsSelect
      <3>2. y.n \in Ints
        BY <1>1, <2>1, ValueKinds
      <3>3. v = Over \/ (IsConst(v) /\ v.n = y.n)
        BY <3>1, LatticeKinds DEF Le
      <3> QED
        BY <3>1, <3>2, <3>3, ConstantStays DEF Stays
    <2>2. CASE ~(IsConst(x) /\ IsConst(y) /\ x.n = y.n) /\ x = Unknown
      <3>1. VisitSelect(t, i) = MergeInValue(t, i.dst, y) /\ WantsSelect(t, i) = y
        BY <2>0, <2>2 DEF VisitSelect, WantsSelect
      <3> QED
        BY <1>1, <3>1, MergeStays, StaysSame
    <2>3. CASE ~(IsConst(x) /\ IsConst(y) /\ x.n = y.n) /\ x # Unknown /\ y = Unknown
      <3>1. VisitSelect(t, i) = MergeInValue(t, i.dst, x) /\ WantsSelect(t, i) = x
        BY <2>0, <2>3 DEF VisitSelect, WantsSelect
      <3> QED
        BY <1>1, <3>1, MergeStays, StaysSame
    <2>4. CASE ~(IsConst(x) /\ IsConst(y) /\ x.n = y.n) /\ x # Unknown /\ y # Unknown
      <3>1. VisitSelect(t, i) = MarkOverdefined(t, i.dst) /\ WantsSelect(t, i) = Over
        BY <2>0, <2>4 DEF VisitSelect, WantsSelect
      <3>2. v = Over
        BY <3>1, LatticeKinds DEF Le
      <3> QED
        BY <3>1, <3>2, StaysSame DEF MarkOverdefined
    <2> QED
      BY <2>1, <2>2, <2>3, <2>4
  <1> QED
    BY <1>1, <1>2, <1>3, <1>4, ValueKinds

LEMMA PhiStays ==
    ASSUME NEW t \in Solvers, NEW b, NEW i \in Instructions, Arity(i), i.op = "phi", i.dst \in Cells,
           \/ t.val[i.dst] = Over
           \/ /\ Len(i.args) <= MaxPhi
              /\ \A k \in 1..Len(i.to) : IsEdgeFeasible(t, i.to[k], b) => Le(ValueOf(t, i.args[k]), t.val[i.dst])
    PROVE  Stays(t, VisitPHI(t, b, i))
  <1> DEFINE in == Incoming(t, b, i)
             v == t.val[i.dst]
  <1>1. CASE v = Over
    BY <1>1, StaysSame DEF VisitPHI
  <1>2. CASE v # Over
    <2>1. Len(i.args) = Len(i.to) /\ v \in Values /\ \A k \in 1..Len(i.to) : ValueOf(t, i.args[k]) \in Values
      BY Arguments DEF Arity, Solvers
    <2>2. ASSUME NEW w \in in  PROVE IsConst(w) /\ w.n \in Ints /\ IsConst(v) /\ v.n = w.n
      <3>1. PICK k \in 1..Len(i.to) : w = ValueOf(t, i.args[k]) /\ IsEdgeFeasible(t, i.to[k], b) /\ w # Unknown
        BY <2>2 DEF Incoming
      <3>2. Le(w, v) /\ w \in Values
        BY <1>2, <2>1, <3>1
      <3> QED
        BY <1>2, <3>1, <3>2, ValueKinds, LatticeKinds DEF Le
    <2>3. Over \notin in /\ ~(\E u, w \in in : u.n # w.n)
      BY <2>2, LatticeKinds
    <2>4. ~(Len(i.args) > MaxPhi)
      <3>1. Len(i.args) \in Nat /\ Len(i.args) <= MaxPhi
        BY <1>2, Arguments
      <3> QED
        BY <3>1, SccpAssumption
    <2> HIDE DEF in
    <2>5. CASE in = {}
      BY <1>2, <2>3, <2>4, <2>5, StaysSame DEF VisitPHI, in
    <2>6. CASE in # {}
      <3> DEFINE w == CHOOSE u \in in : TRUE
      <3>1. w \in in
        BY <2>6
      <3>2. VisitPHI(t, b, i) = MarkConstant(t, i.dst, w.n)
        BY <1>2, <2>3, <2>4, <2>6 DEF VisitPHI, in
      <3> HIDE DEF w
      <3>3. w.n \in Ints /\ IsConst(v) /\ v.n = w.n
        BY <2>2, <3>1
      <3> QED
        BY <3>2, <3>3, ConstantStays DEF Stays
    <2> QED
      BY <2>5, <2>6
  <1> QED
    BY <1>1, <1>2

LEMMA ArgumentsStay ==
    ASSUME WellFormed(module), NEW t \in Solvers, CodeOK(t.code), NEW p \in Positions(t.code), At(t.code, p).op = "call",
           At(t.code, p).sym \in ArgTracked, Settled(t, p)
    PROVE  PassArguments(t, At(t.code, p)) = t
  <1> DEFINE i == At(t.code, p)
             n == Len(i.args)
             x(k) == module.params[i.sym][k]
             P == [k \in 0..n |-> {t}]
  <1>1. i \in Instructions /\ Arity(i) /\ p[1] \in BlockSet /\ Shaped(module, FunOf(p[1]), i)
    BY CodeFacts
  <1>2. i.sym \in FunctionSet /\ n = Len(module.params[i.sym])
    BY <1>1, ModuleFacts DEF Shaped, FunctionSet
  <1>3. n \in Nat /\ \A k \in 1..n : x(k) \in Cells /\ ValueOf(t, i.args[k]) \in Values
    BY <1>1, <1>2, ModuleFacts, Arguments
  <1>4. EntryOf(i.sym) \in t.exec /\ \A k \in 1..n : Le(ValueOf(t, i.args[k]), t.val[x(k)])
    BY <1>1, Operations DEF Settled
  <1>5. MarkBlockExecutable(t, EntryOf(i.sym)) \in P[0]
    BY <1>3, <1>4 DEF MarkBlockExecutable
  <1>6. ASSUME NEW k \in 1..n, NEW u \in P[k - 1]  PROVE MergeInValue(u, x(k), ValueOf(u, i.args[k])) \in P[k]
    <2>1. u = t /\ k \in 0..n
      BY <1>3, <1>6
    <2>2. MergeInValue(t, x(k), ValueOf(t, i.args[k])) = t
      BY <1>3, <1>4, MergeStays
    <2> QED
      BY <2>1, <2>2
  <1>7. PassArguments(t, i) \in P[n]
    <2> HIDE DEF i, P
    <2> QED
      BY <1>3, <1>5, <1>6, PassArgumentsKeeps
  <1> QED
    BY <1>3, <1>7

LEMMA TerminatorStays ==
    ASSUME NEW t \in Solvers, CodeOK(t.code), NEW p \in Positions(t.code), At(t.code, p).op \in {"jmp", "br", "switch"}, Settled(t, p)
    PROVE  VisitTerminator(t, p[1], At(t.code, p)) = t
  <1> DEFINE i == At(t.code, p)
             n == Len(i.to)
             P == [k \in 0..n |-> {t}]
  <1>1. i \in Instructions /\ n \in Nat
    BY CodeFacts, Arguments
  <1>2. \A to \in FeasibleSuccessors(t, i) : <<p[1], to>> \in t.edges
    BY DEF Settled
  <1>3. t \in P[0]
    BY <1>1
  <1>4. ASSUME NEW k \in 1..n, NEW u \in P[k - 1]
        PROVE  (IF i.to[k] \in FeasibleSuccessors(t, i) THEN MarkEdgeExecutable(u, p[1], i.to[k]) ELSE u) \in P[k]
    <2>1. u = t /\ k \in 0..n
      BY <1>1, <1>4
    <2>2. i.to[k] \in FeasibleSuccessors(t, i) => MarkEdgeExecutable(t, p[1], i.to[k]) = t
      BY <1>2 DEF MarkEdgeExecutable
    <2> QED
      BY <2>1, <2>2
  <1>5. VisitTerminator(t, p[1], i) \in P[n]
    <2> HIDE DEF i, P
    <2> QED
      BY <1>1, <1>3, <1>4, VisitTerminatorKeeps
  <1> QED
    BY <1>1, <1>5

\* Once all lists are empty, the edges the solver knows are the feasible ones.
LEMMA EdgesComplete ==
    ASSUME WellFormed(module), NEW t, Base(t), \A p \in Positions(t.code) : p[1] \in t.exec => Settled(t, p),
           NEW from \in BlockSet, NEW to, IsEdgeFeasible(t, from, to)
    PROVE  <<from, to>> \in t.edges
  <1> DEFINE i == Term(t.code, from)
             p == <<from, Len(t.code[from])>>
  <1>0. t \in Solvers /\ CodeOK(t.code)
    BY DEF Base
  <1>1. /\ p \in Positions(t.code) /\ At(t.code, p) = i /\ i.op \in Terminators /\ Shaped(module, FunOf(from), i)
        /\ p[1] = from
    BY <1>0, TermFacts
  <1>2. from \in t.exec /\ to \in FeasibleSuccessors(t, i)
    BY DEF IsEdgeFeasible
  <1> HIDE DEF i, p
  <1>3. i.op # "ret"
    <2> SUFFICES ASSUME i.op = "ret"  PROVE FALSE
      OBVIOUS
    <2>1. i.to = <<>>
      BY <1>1 DEF Shaped
    <2>2. FeasibleSuccessors(t, i) = ToSet(i.to)
      BY LatticeKinds DEF FeasibleSuccessors
    <2> QED
      BY <1>2, <2>1, <2>2 DEF ToSet
  <1>4. Settled(t, p)
    BY <1>1, <1>2
  <1>5. \A e \in FeasibleSuccessors(t, i) : <<from, e>> \in t.edges
    BY <1>1, <1>3, <1>4 DEF Settled, Terminators
  <1> QED
    BY <1>2, <1>5

LEMMA VisitStays ==
    ASSUME WellFormed(module), NEW t, Base(t), \A q \in Positions(t.code) : q[1] \in t.exec => Settled(t, q),
           NEW p \in Positions(t.code), p[1] \in t.exec
    PROVE  Stays(t, Visit(t, p))
  <1> DEFINE i == At(t.code, p)
             b == p[1]
             u == Visit(t, p)
             x == Target(b, i)
             w == Wants(t, b, i)
  <1>0. t \in Solvers /\ CodeOK(t.code) /\ \A g \in t.tracked : t.val[g] # Over
    BY DEF Base
  <1>1. i \in Instructions /\ Arity(i) /\ FunOf(b) \in FunctionSet /\ Shaped(module, FunOf(b), i) /\ b \in BlockSet
    BY <1>0, CodeFacts
  <1>2. Settled(t, p)
    OBVIOUS
  <1>3. i.op \in Results \cup {"store", "ret"} => x \in Cells
    BY <1>0, TargetCell
  <1>4. Visit(t, p) = VisitInstruction(t, b, i)
    BY DEF Visit
  <1>5. i.op \in Results \cup Terminators \cup {"store"}
    BY <1>1 DEF Instructions
  <1>6. i.op \in Results \ {"phi"} => x = i.dst /\ Le(w, t.val[i.dst])
    BY <1>2, Operations DEF Settled, Target
  <1> SUFFICES Stays(t, u)
    OBVIOUS
  <1>7. CASE i.op = "phi"
    <2>1. u = VisitPHI(t, b, i)
      BY <1>4, <1>7, Operations DEF VisitInstruction
    <2>2. i.dst \in Cells /\ i.to \in Seq(Blocks) /\ ToSet(i.to) \subseteq BlockSet
      BY <1>1, <1>3, <1>7, Operations, ModuleFacts DEF Target, Instructions, Shaped
    <2>3. ASSUME NEW k \in 1..Len(i.to), IsEdgeFeasible(t, i.to[k], b)  PROVE <<i.to[k], b>> \in t.edges
      <3>1. i.to[k] \in BlockSet
        BY <2>2 DEF ToSet
      <3> QED
        BY <2>3, <3>1, EdgesComplete
    <2>4. \/ t.val[i.dst] = Over
          \/ /\ Len(i.args) <= MaxPhi
             /\ \A k \in 1..Len(i.to) : <<i.to[k], b>> \in t.edges => Le(ValueOf(t, i.args[k]), t.val[i.dst])
      BY <1>2, <1>7 DEF Settled
    <2> HIDE DEF i, b, u
    <2> QED
      BY <1>0, <1>1, <1>7, <2>1, <2>2, <2>3, <2>4, PhiStays
  <1>8. CASE i.op \in Casts
    <2>1. u = VisitCast(t, i) /\ w = WantsCast(t, i)
      BY <1>4, <1>8, Operations DEF VisitInstruction, Wants, Casts
    <2> QED
      BY <2>1, <1>0, <1>1, <1>3, <1>6, <1>8, CastStays, Operations
  <1>9. CASE i.op \in BinaryOps
    <2>1. u = VisitBinary(t, i) /\ w = WantsBinary(t, i)
      BY <1>4, <1>9, Operations DEF VisitInstruction, Wants, BinaryOps
    <2> QED
      BY <2>1, <1>0, <1>1, <1>3, <1>6, <1>9, BinaryStays, Operations
  <1>10. CASE i.op \in Comparisons
    <2>1. u = VisitCmp(t, i) /\ w = WantsCmp(t, i)
      BY <1>4, <1>10, Operations DEF VisitInstruction, Wants, Comparisons
    <2> QED
      BY <2>1, <1>0, <1>1, <1>3, <1>6, <1>10, CmpStays, Operations
  <1>11. CASE i.op = "select"
    <2>1. u = VisitSelect(t, i) /\ w = WantsSelect(t, i)
      BY <1>4, <1>11, Operations DEF VisitInstruction, Wants
    <2> QED
      BY <2>1, <1>0, <1>1, <1>3, <1>6, <1>11, SelectStays, Operations
  <1>12. CASE i.op = "load"
    <2>1. u = VisitLoad(t, i) /\ w = (IF i.sym \in t.tracked THEN t.val[i.sym] ELSE Over)
      BY <1>4, <1>12, Operations DEF VisitInstruction, Wants
    <2>2. t.val[i.sym] \in Values /\ i.dst \in Cells /\ Le(w, t.val[i.dst])
      BY <1>0, <1>1, <1>3, <1>6, <1>12, Operations DEF Arity, Solvers, Cells
    <2>3. CASE t.val[i.dst] = Over
      BY <1>0, <2>1, <2>3, StaysSame DEF VisitLoad
    <2>4. CASE t.val[i.dst] # Over
      <3>1. i.sym \in t.tracked
        BY <2>1, <2>2, <2>4, LatticeKinds DEF Le
      <3>2. u = t
        BY <1>0, <2>1, <2>2, <2>4, <3>1, MergeStays DEF VisitLoad
      <3> QED
        BY <1>0, <3>2, StaysSame
    <2> QED
      BY <2>3, <2>4
  <1>13. CASE i.op = "store"
    <2>1. u = VisitStore(t, i) /\ x = i.sym /\ w = (IF i.sym \in t.tracked THEN ValueOf(t, i.args[1]) ELSE Unknown)
      BY <1>4, <1>13, Operations DEF VisitInstruction, Target, Wants
    <2>2. ValueOf(t, i.args[1]) \in Values /\ i.sym \in Cells
      <3>1. Len(i.args) = 1 /\ 1 \in 1..1
        BY <1>1, <1>13 DEF Arity
      <3>2. ValueOf(t, i.args[1]) \in Values
        BY <1>0, <1>1, <3>1, Arguments
      <3> QED
        BY <1>3, <1>13, <2>1, <3>2
    <2>3. Le(w, t.val[i.sym])
      BY <1>2, <1>13, <2>1, Operations DEF Settled
    <2>4. CASE i.sym \notin t.tracked
      BY <1>0, <2>1, <2>4, StaysSame DEF VisitStore
    <2>5. CASE i.sym \in t.tracked
      <3>1. MergeInValue(t, i.sym, ValueOf(t, i.args[1])) = t
        BY <1>0, <2>1, <2>2, <2>3, <2>5, MergeStays
      <3>2. u = t
        BY <1>0, <2>1, <2>5, <3>1 DEF VisitStore
      <3> QED
        BY <1>0, <3>2, StaysSame
    <2> QED
      BY <2>4, <2>5
  <1>14. CASE i.op = "ret"
    <2>1. u = VisitReturn(t, b, i) /\ x = FunOf(b) /\ w = (IF FunOf(b) \in RetTracked THEN ValueOf(t, i.args[1]) ELSE Unknown)
      BY <1>4, <1>14, Operations DEF VisitInstruction, Wants, Target
    <2>2. ValueOf(t, i.args[1]) \in Values /\ x \in Cells
      <3>1. Len(i.args) = 1 /\ 1 \in 1..1
        BY <1>1, <1>14 DEF Arity
      <3> QED
        BY <1>0, <1>1, <1>3, <1>14, <3>1, Arguments
    <2>3. Le(w, t.val[x])
      BY <1>2, <1>14, <2>1, Operations DEF Settled
    <2>4. u = t
      BY <1>0, <2>1, <2>2, <2>3, MergeStays DEF VisitReturn
    <2> QED
      BY <1>0, <2>4, StaysSame
  <1>15. CASE i.op = "call"
    <2>1. u = VisitCall(t, i) /\ w = (IF i.sym \in RetTracked THEN t.val[i.sym] ELSE Over)
      BY <1>4, <1>15, Operations DEF VisitInstruction, Wants
    <2>2. i.dst \in Cells /\ Le(w, t.val[i.dst]) /\ t.val[i.sym] \in Values
      BY <1>0, <1>1, <1>3, <1>6, <1>15, Operations DEF Arity, Solvers, Cells
    <2>3. i.sym \in ArgTracked => PassArguments(t, i) = t
      BY <1>0, <1>15, ArgumentsStay
    <2>4. u = IF i.sym \in RetTracked THEN MergeInValue(t, i.dst, t.val[i.sym]) ELSE MarkOverdefined(t, i.dst)
      BY <2>1, <2>3 DEF VisitCall
    <2>5. u = t
      <3>1. CASE i.sym \in RetTracked
        BY <1>0, <2>1, <2>2, <2>4, <3>1, MergeStays
      <3>2. CASE i.sym \notin RetTracked
        <4>1. t.val[i.dst] = Over
          BY <2>1, <2>2, <3>2, LatticeKinds DEF Le
        <4> QED
          BY <2>4, <3>2, <4>1 DEF MarkOverdefined
      <3> QED
        BY <3>1, <3>2
    <2> QED
      BY <1>0, <2>5, StaysSame
  <1>16. CASE i.op \in {"jmp", "br", "switch"}
    <2>1. u = VisitTerminator(t, b, i)
      BY <1>4, <1>16, Operations DEF VisitInstruction
    <2> QED
      BY <1>0, <1>16, <2>1, TerminatorStays, StaysSame
  <1> QED
    BY <1>5, <1>7, <1>8, <1>9, <1>10, <1>11, <1>12, <1>13, <1>14, <1>15, <1>16, Operations

-----------------------------------------------------------------------------
(* The stores that initializers become, and where the analysis starts.     *)

StoreOf(g) == [op |-> "store", dst |-> "none", args |-> <<module.globals[g].init>>, sym |-> g, to |-> <<>>]

AllStores(q) == \A k \in 1..Len(q) : \E g \in Globals : q[k] = StoreOf(g)

LEMMA StoresFacts ==
    ASSUME WellFormed(module), NEW G
    PROVE  /\ Stores(G) \in Seq(Instructions)
           /\ AllStores(Stores(G))
           /\ \A g \in Globals \ G : module.globals[g].type = "int" => \E k \in 1..Len(Stores(G)) : Stores(G)[k] = StoreOf(g)
  <1> DEFINE S == {g \in Globals \ G : module.globals[g].type = "int"}
             n == Cardinality(S)
             gs == SetToSeq(S)
             q == Stores(G)
  <1>1. IsFiniteSet(S) /\ n \in Nat /\ ExistsBijection(1..n, S)
    <2>1. IsFiniteSet(S)
      BY SccpAssumption, FS_Subset
    <2> HIDE DEF S
    <2> QED
      BY <2>1, FS_CardinalityType
  <1> HIDE DEF S, n
  <1>2. \E f : f \in [1..n -> S] /\ IsInjective(f)
    BY <1>1 DEF ExistsBijection, Bijection, Injection
  <1>3. gs \in [1..n -> S] /\ IsInjective(gs)
    BY <1>2 DEF SetToSeq, n
  <1>4. \A g \in S : \E k \in 1..n : gs[k] = g
    <2>1. gs \in Injection(1..n, S)
      BY <1>3 DEF Injection
    <2>2. IsFiniteSet(1..n) /\ Cardinality(1..n) = n
      BY <1>1, FS_Interval
    <2>3. gs \in Surjection(1..n, S)
      BY <1>1, <2>1, <2>2, FS_Injection DEF n
    <2> QED
      BY <2>3 DEF Surjection
  <1>5. q = [k \in 1..n |-> StoreOf(gs[k])]
    BY <1>3 DEF Stores, StoreOf, S
  <1>6. \A g \in Globals : StoreOf(g) \in Instructions
    <2> TAKE g \in Globals
    <2>1. module.globals[g].init \in Operands
      BY DEF WellFormed, Operands
    <2>2. <<module.globals[g].init>> \in Seq(Operands)
      BY <2>1
    <2>3. <<>> \in Seq(Blocks)
      OBVIOUS
    <2> QED
      BY <2>2, <2>3 DEF StoreOf, Instructions
  <1>7. S \subseteq Globals
    BY DEF S
  <1> HIDE DEF q, gs
  <1>8. Len(q) = n /\ q \in Seq(Instructions) /\ \A k \in 1..n : q[k] = StoreOf(gs[k])
    BY <1>1, <1>3, <1>5, <1>6, <1>7
  <1>9. \A k \in 1..n : gs[k] \in Globals
    BY <1>3, <1>7
  <1>10. \A g \in Globals \ G : module.globals[g].type = "int" => \E k \in 1..Len(q) : q[k] = StoreOf(g)
    BY <1>4, <1>8 DEF S
  <1> QED
    BY <1>8, <1>9, <1>10 DEF q, AllStores

LEMMA Concatenated ==
    ASSUME NEW S, NEW q \in Seq(S), NEW r \in Seq(S)
    PROVE  /\ q \o r \in Seq(S) /\ Len(q \o r) = Len(q) + Len(r) /\ Len(q) \in Nat /\ Len(r) \in Nat
           /\ DOMAIN (q \o r) = 1..(Len(q) + Len(r)) /\ DOMAIN q = 1..Len(q) /\ DOMAIN r = 1..Len(r)
           /\ \A k \in 1..Len(q) : (q \o r)[k] = q[k]
           /\ \A k \in 1..Len(r) : (q \o r)[Len(q) + k] = r[k]
           /\ \A k \in 1..(Len(q) + Len(r)) : k \in 1..Len(q) \/ (k - Len(q) \in 1..Len(r) /\ k = Len(q) + (k - Len(q)))
  <1>1. Len(q) \in Nat /\ Len(r) \in Nat /\ DOMAIN q = 1..Len(q) /\ DOMAIN r = 1..Len(r)
    OBVIOUS
  <1>2. q \o r \in Seq(S) /\ Len(q \o r) = Len(q) + Len(r)
    OBVIOUS
  <1>3. DOMAIN (q \o r) = 1..(Len(q) + Len(r))
    BY <1>2
  <1>4. \A k \in 1..Len(q) : (q \o r)[k] = q[k]
    BY <1>1
  <1>5. \A k \in 1..Len(r) : (q \o r)[Len(q) + k] = r[k]
    BY <1>1
  <1>6. \A k \in 1..(Len(q) + Len(r)) : k \in 1..Len(q) \/ (k - Len(q) \in 1..Len(r) /\ k = Len(q) + (k - Len(q)))
    BY <1>1
  <1> QED
    BY <1>1, <1>2, <1>3, <1>4, <1>5, <1>6

Prepended(c, e, q) == [c EXCEPT ![e] = q \o @]

\* The code of the module after stores were put at the entry of a function.
LEMMA PrependedCode ==
    ASSUME WellFormed(module), NEW c, CodeOK(c), NEW f \in FunctionSet, NEW q \in Seq(Instructions),
           AllStores(q)
    PROVE  LET d == Prepended(c, EntryOf(f), q)
           IN  /\ CodeOK(d)
               /\ \A k \in 1..Len(q) : k \in 1..Len(d[EntryOf(f)]) /\ d[EntryOf(f)][k] = q[k]
  <1> DEFINE e == EntryOf(f)
             n == Len(q)
             d == Prepended(c, e, q)
  <1>1. e \in BlockSet /\ FunOf(e) = f /\ e = module.blocks[f][1] /\ e \in ToSet(module.blocks[f])
    BY ModuleFacts DEF EntryOf
  <1>2. c \in [BlockSet -> Seq(Instructions)] /\ CodeShaped(module, c) /\ SingleAssignment(module, c)
    BY DEF CodeOK
  <1>3. d = [b \in BlockSet |-> IF b = e THEN q \o c[e] ELSE c[b]]
    BY <1>1, <1>2 DEF Prepended
  <1> HIDE DEF e, n, d
  <1>4. d[e] = q \o c[e] /\ \A b \in BlockSet \ {e} : d[b] = c[b]
    BY <1>1, <1>3
  <1>5. /\ d[e] \in Seq(Instructions) /\ Len(d[e]) = n + Len(c[e]) /\ n \in Nat /\ Len(c[e]) \in Nat
        /\ DOMAIN d[e] = 1..(n + Len(c[e])) /\ DOMAIN c[e] = 1..Len(c[e])
        /\ \A k \in 1..n : d[e][k] = q[k]
        /\ \A k \in 1..Len(c[e]) : d[e][n + k] = c[e][k]
        /\ \A k \in 1..(n + Len(c[e])) : k \in 1..n \/ (k - n \in 1..Len(c[e]) /\ k = n + (k - n))
    <2>1. c[e] \in Seq(Instructions)
      BY <1>1, <1>2
    <2> QED
      BY <1>4, <2>1, Concatenated DEF n
  <1>6. d \in [BlockSet -> Seq(Instructions)]
    <2>1. \A b \in BlockSet : d[b] \in Seq(Instructions)
      BY <1>2, <1>4, <1>5
    <2>2. d = [b \in BlockSet |-> d[b]]
      BY <1>3
    <2> QED
      BY <2>1, <2>2
  <1>7. \A k \in 1..n : /\ d[e][k].op = "store" /\ d[e][k].dst = "none" /\ Shaped(module, f, d[e][k])
    <2> TAKE k \in 1..n
    <2>1. PICK g \in Globals : d[e][k] = StoreOf(g)
      BY <1>5 DEF n, AllStores
    <2> DEFINE i == StoreOf(g)
    <2>2. i.op = "store" /\ i.dst = "none" /\ i.sym = g /\ i.to = <<>> /\ Len(i.args) = 1
      BY DEF StoreOf
    <2> HIDE DEF i
    <2>3. ToSet(i.to) \subseteq ToSet(module.blocks[f])
      BY <2>2 DEF ToSet
    <2>4. Shaped(module, f, i)
      BY <2>2, <2>3, Operations DEF Shaped
    <2> QED
      BY <2>1, <2>2, <2>4 DEF i
  <1>8. ASSUME NEW g \in FunctionSet, NEW b \in ToSet(module.blocks[g])
        PROVE  /\ b \in BlockSet /\ c[b] # <<>> /\ c[b] \in Seq(Instructions) /\ DOMAIN c[b] = 1..Len(c[b]) /\ Len(c[b]) \in Nat
               /\ \A k \in DOMAIN c[b] :
                     /\ Shaped(module, g, c[b][k])
                     /\ c[b][k].op \in Terminators <=> k = Len(c[b])
                     /\ c[b][k].op = "phi" => b # module.blocks[g][1] /\ \A j \in 1..k : c[b][j].op = "phi"
               /\ \A to \in ToSet(c[b][Len(c[b])].to) :
                     /\ to # module.blocks[g][1]
                     /\ \A k \in DOMAIN c[to] : c[to][k].op = "phi" => b \in ToSet(c[to][k].to)
    <2>1. b \in BlockSet
      BY ModuleFacts
    <2>2. BlockShaped(module, c, g, b)
      BY <1>2 DEF CodeShaped, FunctionSet
    <2> QED
      BY <1>2, <2>1, <2>2 DEF BlockShaped
  <1>9. ASSUME NEW g \in FunctionSet, NEW b \in ToSet(module.blocks[g])
        PROVE  BlockShaped(module, d, g, b)
    <2>0. b \in BlockSet /\ c[b] # <<>> /\ c[b] \in Seq(Instructions) /\ DOMAIN c[b] = 1..Len(c[b]) /\ Len(c[b]) \in Nat
      BY <1>8
    <2>1. Len(c[b]) \in 1..Len(c[b])
      BY <2>0
    <2>2. b = e => g = f
      BY <1>1, ModuleFacts
    <2>3. Len(d[b]) \in Nat /\ d[b] # <<>> /\ d[b][Len(d[b])] = c[b][Len(c[b])] /\ DOMAIN d[b] = 1..Len(d[b])
      <3>1. CASE b # e
        BY <1>4, <2>0, <3>1
      <3>2. CASE b = e
        <4>1. Len(d[e]) = n + Len(c[e]) /\ d[e][n + Len(c[e])] = c[e][Len(c[e])]
          BY <1>5, <2>1, <3>2
        <4>2. d[e] # <<>>
          BY <1>5, <2>1, <3>2
        <4> QED
          BY <1>5, <3>2, <4>1, <4>2
      <3> QED
        BY <3>1, <3>2
    <2>4. ASSUME NEW k \in DOMAIN d[b]
          PROVE  /\ Shaped(module, g, d[b][k])
                 /\ d[b][k].op \in Terminators <=> k = Len(d[b])
                 /\ d[b][k].op = "phi" => b # module.blocks[g][1] /\ \A j \in 1..k : d[b][j].op = "phi"
      <3>1. CASE b # e
        BY <1>4, <1>8, <2>0, <2>4, <3>1
      <3>2. CASE b = e /\ k \in 1..n
        <4>1. d[e][k].op = "store" /\ Shaped(module, f, d[e][k])
          BY <1>7, <3>2
        <4>2. k # Len(d[e])
          BY <1>5, <2>1, <3>2
        <4>3. "store" \notin Terminators
          BY Operations
        <4> QED
          BY <2>2, <3>2, <4>1, <4>2, <4>3
      <3>3. CASE b = e /\ k \notin 1..n
        <4> DEFINE j == k - n
        <4>1. j \in 1..Len(c[e]) /\ k = n + j
          BY <1>5, <2>4, <3>3
        <4>2. d[e][k] = c[e][j]
          BY <1>5, <4>1
        <4> HIDE DEF j
        <4>3. j \in DOMAIN c[e] /\ (j = Len(c[e]) <=> k = Len(d[e]))
          <5>1. j \in DOMAIN c[e] /\ j \in Int
            BY <1>5, <4>1
          <5>2. Len(d[e]) = n + Len(c[e]) /\ n \in Nat /\ Len(c[e]) \in Nat
            BY <1>5
          <5>3. k = n + j
            BY <4>1
          <5> QED
            BY <5>1, <5>2, <5>3
        <4>4. Shaped(module, g, c[b][j]) /\ (c[b][j].op \in Terminators <=> j = Len(c[b])) /\ c[b][j].op # "phi"
          BY <1>1, <1>8, <2>2, <3>3, <4>3
        <4> QED
          BY <3>3, <4>2, <4>3, <4>4
      <3> QED
        BY <3>1, <3>2, <3>3
    <2>5. ASSUME NEW to \in ToSet(d[b][Len(d[b])].to)
          PROVE  /\ to # module.blocks[g][1]
                 /\ \A k \in DOMAIN d[to] : d[to][k].op = "phi" => b \in ToSet(d[to][k].to)
      <3>1. to \in ToSet(c[b][Len(c[b])].to)
        BY <2>3, <2>5
      <3>2. to # module.blocks[g][1] /\ \A k \in DOMAIN c[to] : c[to][k].op = "phi" => b \in ToSet(c[to][k].to)
        BY <1>8, <3>1
      <3>3. to \in ToSet(module.blocks[g])
        <4>1. Shaped(module, g, c[b][Len(c[b])])
          BY <1>8, <2>0, <2>1
        <4> QED
          BY <3>1, <4>1 DEF Shaped
      <3>4. to # e
        <4>1. to = e => f = g
          BY <1>1, <3>3, ModuleFacts
        <4> QED
          BY <1>1, <3>2, <4>1
      <3>5. d[to] = c[to]
        BY <1>4, <3>3, <3>4, ModuleFacts
      <3> QED
        BY <3>2, <3>5
    <2> QED
      BY <2>3, <2>4, <2>5 DEF BlockShaped
  <1>10. CodeShaped(module, d)
    BY <1>6, <1>9 DEF CodeShaped, BlockSet, FunctionSet
  <1>11. ASSUME NEW b \in BlockSet, NEW j \in DOMAIN d[b], d[b][j].dst # "none"
         PROVE  \E h \in DOMAIN c[b] : d[b][j].dst = c[b][h].dst /\ j = (IF b = e THEN n + h ELSE h)
    <2>1. CASE b # e
      BY <1>4, <1>11, <2>1
    <2>2. CASE b = e
      <3>1. j \notin 1..n
        BY <1>7, <1>11, <2>2
      <3>2. j - n \in 1..Len(c[e]) /\ j = n + (j - n)
        BY <1>5, <1>11, <2>2, <3>1
      <3>3. d[e][j] = c[e][j - n] /\ j - n \in DOMAIN c[e]
        BY <1>5, <3>2
      <3> QED
        BY <2>2, <3>2, <3>3
    <2> QED
      BY <2>1, <2>2
  <1>12. SingleAssignment(module, d)
    <2>1. DOMAIN d = BlockSet /\ DOMAIN c = BlockSet
      BY <1>2, <1>3
    <2>2. ASSUME NEW b \in BlockSet, NEW b2 \in BlockSet, NEW j \in DOMAIN d[b], NEW k \in DOMAIN d[b2]
          PROVE  /\ d[b][j].dst = d[b2][k].dst /\ d[b][j].dst # "none" => <<b, j>> = <<b2, k>>
                 /\ \A g \in ToSet(module.funs) : d[b][j].dst \notin ToSet(module.params[g])
      <3>1. d[b][j].dst = d[b2][k].dst /\ d[b][j].dst # "none" => <<b, j>> = <<b2, k>>
        <4> SUFFICES ASSUME d[b][j].dst = d[b2][k].dst, d[b][j].dst # "none"  PROVE b = b2 /\ j = k
          OBVIOUS
        <4>1. PICK h \in DOMAIN c[b] : d[b][j].dst = c[b][h].dst /\ j = (IF b = e THEN n + h ELSE h)
          BY <1>11
        <4>2. PICK m \in DOMAIN c[b2] : d[b2][k].dst = c[b2][m].dst /\ k = (IF b2 = e THEN n + m ELSE m)
          BY <1>11
        <4>3. <<b, h>> = <<b2, m>>
          <5>1. c[b][h].dst = c[b2][m].dst /\ c[b][h].dst # "none"
            BY <4>1, <4>2
          <5>2. b \in DOMAIN c /\ b2 \in DOMAIN c
            BY <2>1
          <5> QED
            BY <1>2, <4>1, <4>2, <5>1, <5>2 DEF SingleAssignment
        <4> QED
          BY <4>1, <4>2, <4>3
      <3>2. ASSUME NEW g \in ToSet(module.funs)  PROVE d[b][j].dst \notin ToSet(module.params[g])
        <4>1. CASE d[b][j].dst = "none"
          <5>1. ToSet(module.params[g]) \subseteq Registers
            BY DEF WellFormed, ToSet
          <5> QED
            BY <4>1, <5>1, KindsAssumption
        <4>2. CASE d[b][j].dst # "none"
          <5>1. PICK h \in DOMAIN c[b] : d[b][j].dst = c[b][h].dst
            BY <1>11, <4>2
          <5>2. c[b][h].dst \notin ToSet(module.params[g])
            BY <1>2, <2>1 DEF SingleAssignment
          <5> QED
            BY <5>1, <5>2
        <4> QED
          BY <4>1, <4>2
      <3> QED
        BY <3>1, <3>2
    <2> QED
      BY <2>1, <2>2 DEF SingleAssignment
  <1>13. \A k \in 1..Len(q) : k \in 1..Len(d[e]) /\ d[e][k] = q[k]
    BY <1>5 DEF n
  <1> QED
    BY <1>6, <1>10, <1>12, <1>13 DEF CodeOK, d, e

\* What the analysis starts from and keeps: the functions that others may call are
\* open, and the stores of the initializers are there.
Ready(t) ==
    /\ \A f \in FunctionSet \ ArgTracked :
          /\ EntryOf(f) \in t.exec
          /\ \A k \in 1..Len(module.params[f]) : t.val[module.params[f][k]] = Over
    /\ \A g \in t.tracked :
          /\ module.globals[g].internal /\ ~module.globals[g].taken /\ module.globals[g].init \in Ints
          /\ HasMain /\ module.globals[g].type = "int" =>
                \E k \in 1..Len(t.code[EntryOf("main")]) : t.code[EntryOf("main")][k] = StoreOf(g)

LEMMA ReadyKept ==
    ASSUME WellFormed(module), NEW t \in Solvers, CodeOK(t.code), Ready(t), NEW u \in Solvers, Advanced(t, u)
    PROVE  Ready(u)
  <1>1. ASSUME NEW x \in Cells, t.val[x] = Over  PROVE u.val[x] = Over
    <2>1. Le(t.val[x], u.val[x])
      BY DEF Advanced
    <2> QED
      BY <1>1, <2>1, LatticeKinds DEF Le
  <1>2. ASSUME NEW f \in FunctionSet \ ArgTracked
        PROVE  /\ EntryOf(f) \in u.exec
               /\ \A k \in 1..Len(module.params[f]) : u.val[module.params[f][k]] = Over
    <2>1. \A k \in 1..Len(module.params[f]) : module.params[f][k] \in Cells
      BY ModuleFacts
    <2> QED
      BY <1>1, <2>1 DEF Ready, Advanced
  <1>3. ASSUME NEW g \in u.tracked, HasMain, NEW k \in 1..Len(t.code[EntryOf("main")]), t.code[EntryOf("main")][k] = StoreOf(g)
        PROVE  k \in 1..Len(u.code[EntryOf("main")]) /\ u.code[EntryOf("main")][k] = StoreOf(g)
    <2> DEFINE e == EntryOf("main")
    <2>1. e \in BlockSet
      BY <1>3, ModuleFacts DEF HasMain
    <2>2. Len(u.code[e]) = Len(t.code[e])
      BY <2>1 DEF Advanced
    <2>3. <<e, k>> \in Positions(t.code)
      BY <1>3, <2>1 DEF Positions
    <2>4. Became(At(t.code, <<e, k>>), At(u.code, <<e, k>>))
      BY <2>3 DEF Advanced
    <2>5. At(t.code, <<e, k>>) = StoreOf(g) /\ At(u.code, <<e, k>>) = u.code[e][k]
      BY <1>3 DEF At
    <2>6. StoreOf(g).op = "store"
      BY DEF StoreOf
    <2> QED
      BY <1>3, <2>2, <2>4, <2>5, <2>6 DEF Became
  <1>4. u.tracked \subseteq t.tracked
    BY DEF Advanced
  <1>5. ASSUME NEW g \in u.tracked
        PROVE  /\ module.globals[g].internal /\ ~module.globals[g].taken /\ module.globals[g].init \in Ints
               /\ HasMain /\ module.globals[g].type = "int" =>
                     \E k \in 1..Len(u.code[EntryOf("main")]) : u.code[EntryOf("main")][k] = StoreOf(g)
    <2>1. g \in t.tracked
      BY <1>4
    <2> QED
      BY <1>3, <2>1 DEF Ready
  <1> QED
    BY <1>2, <1>5 DEF Ready

\* markOverdefined of what is no result.
LEMMA OverMarked ==
    ASSUME WellFormed(module), NEW t, Base(t), NEW x \in Registers, NEW T, Complete(t, T)
    PROVE  LET u == MarkOverdefined(t, x) IN Base(u) /\ Complete(u, T) /\ Climb(t, u) /\ u.val[x] = Over
  <1> DEFINE u == MarkOverdefined(t, x)
  <1>0. t \in Solvers /\ x \in Cells
    BY DEF Base, Cells
  <1>1. Merged(t, u, x, Over)
    BY <1>0, OverMerges
  <1> HIDE DEF u
  <1>2. u \in Solvers /\ Climb(t, u) /\ Le(Over, u.val[x]) /\ u.edges = t.edges
    BY <1>1 DEF Merged
  <1>3. u.val[x] = Over
    BY <1>2, LatticeKinds DEF Le
  <1>4. x \notin u.tracked
    BY <1>2, KindsAssumption DEF Solvers
  <1>5. Base(u)
    BY <1>0, <1>1, <1>4, LatticeKinds, MergedBase
  <1>6. Complete(u, T)
    BY <1>2, GrownComplete
  <1> QED
    BY <1>2, <1>3, <1>5, <1>6 DEF u

LEMMA FunctionOpened ==
    ASSUME WellFormed(module), NEW t, Base(t), NEW f \in FunctionSet, NEW T, Complete(t, T)
    PROVE  LET u == Opened(t, f)
           IN  /\ Base(u) /\ Complete(u, T) /\ Climb(t, u) /\ EntryOf(f) \in u.exec
               /\ \A k \in 1..Len(module.params[f]) : u.val[module.params[f][k]] = Over
  <1> DEFINE n == Len(module.params[f])
             x(k) == module.params[f][k]
             Good(k, u) == /\ Base(u) /\ Complete(u, T) /\ Climb(t, u) /\ EntryOf(f) \in u.exec
                           /\ \A j \in 1..k : u.val[x(j)] = Over
             P == [k \in 0..n |-> {u \in Solvers : Good(k, u)}]
  <1>0. t \in Solvers
    BY DEF Base
  <1>1. n \in Nat /\ EntryOf(f) \in BlockSet /\ \A k \in 1..n : x(k) \in Registers /\ x(k) \in Cells
    BY ModuleFacts
  <1>2. MarkBlockExecutable(t, EntryOf(f)) \in P[0]
    <2> DEFINE u == MarkBlockExecutable(t, EntryOf(f))
    <2>1. Base(u) /\ Complete(u, T) /\ Climb(t, u) /\ u.exec = t.exec \cup {EntryOf(f)}
      BY <1>1, BlockMarked
    <2> HIDE DEF u
    <2>2. u \in Solvers /\ Good(0, u)
      <3>1. u \in Solvers
        BY <2>1 DEF Base
      <3>2. \A j \in 1..0 : u.val[x(j)] = Over
        OBVIOUS
      <3> QED
        BY <2>1, <3>1, <3>2
    <2> HIDE DEF Good
    <2> QED
      BY <1>1, <2>2 DEF u
  <1>3. ASSUME NEW k \in 1..n, NEW w \in P[k - 1]  PROVE MarkOverdefined(w, x(k)) \in P[k]
    <2> DEFINE u == MarkOverdefined(w, x(k))
    <2>1. w \in Solvers /\ Good(k - 1, w) /\ k \in 0..n
      <3> HIDE DEF Good
      <3> QED
        BY <1>1, <1>3
    <2>2. Base(u) /\ Complete(u, T) /\ Climb(w, u) /\ u.val[x(k)] = Over
      BY <1>1, <2>1, OverMarked
    <2> HIDE DEF u
    <2>3. u \in Solvers
      BY <2>2 DEF Base
    <2>4. Climb(t, u)
      BY <1>0, <2>1, <2>2, <2>3, ClimbTransitive
    <2>5. EntryOf(f) \in u.exec
      BY <2>1, <2>2 DEF Climb
    <2>6. ASSUME NEW j \in 1..k  PROVE u.val[x(j)] = Over
      <3>1. CASE j = k
        BY <2>2, <3>1
      <3>2. CASE j # k
        <4>1. j \in 1..(k-1) /\ j \in 1..n
          BY <1>1, <3>2
        <4>2. w.val[x(j)] = Over /\ Le(w.val[x(j)], u.val[x(j)])
          BY <1>1, <2>1, <2>2, <2>3, <4>1, OperandsClimb
        <4> QED
          BY <4>2, LatticeKinds DEF Le
      <3> QED
        BY <3>1, <3>2
    <2>7. Good(k, u)
      BY <2>2, <2>4, <2>5, <2>6
    <2> HIDE DEF Good
    <2> QED
      BY <2>1, <2>3, <2>7 DEF u
  <1>4. Opened(t, f) \in P[n]
    <2> HIDE DEF P
    <2> QED
      BY <1>1, <1>2, <1>3, OpenedKeeps
  <1>5. Good(n, Opened(t, f))
    <2> HIDE DEF Good
    <2> QED
      BY <1>1, <1>4
  <1> QED
    BY <1>5

LEMMA FunctionsOpened ==
    ASSUME WellFormed(module), NEW t, Base(t), NEW T, Complete(t, T)
    PROVE  LET u == AllOpened(t)
           IN  /\ Base(u) /\ Complete(u, T) /\ Climb(t, u)
               /\ \A f \in FunctionSet \ ArgTracked :
                     /\ EntryOf(f) \in u.exec
                     /\ \A k \in 1..Len(module.params[f]) : u.val[module.params[f][k]] = Over
  <1> DEFINE n == Len(module.funs)
             Open(u, f) == EntryOf(f) \in u.exec /\ \A k \in 1..Len(module.params[f]) : u.val[module.params[f][k]] = Over
             Good(k, u) == /\ Base(u) /\ Complete(u, T) /\ Climb(t, u)
                           /\ \A j \in 1..k : module.funs[j] \notin ArgTracked => Open(u, module.funs[j])
             P == [k \in 0..n |-> {u \in Solvers : Good(k, u)}]
  <1>0. t \in Solvers
    BY DEF Base
  <1>1. n \in Nat /\ \A k \in 1..n : module.funs[k] \in FunctionSet
    BY ModuleFacts
  <1>2. t \in P[0]
    <2>1. Climb(t, t)
      BY <1>0, ClimbReflexive
    <2>2. Good(0, t)
      BY <2>1
    <2> HIDE DEF Good
    <2> QED
      BY <1>0, <1>1, <2>2
  <1>3. ASSUME NEW k \in 1..n, NEW w \in P[k - 1]
        PROVE  (IF module.funs[k] \in ArgTracked THEN w ELSE Opened(w, module.funs[k])) \in P[k]
    <2> DEFINE f == module.funs[k]
               u == IF f \in ArgTracked THEN w ELSE Opened(w, f)
    <2>1. w \in Solvers /\ Good(k - 1, w) /\ k \in 0..n /\ f \in FunctionSet
      <3> HIDE DEF Good
      <3> QED
        BY <1>1, <1>3
    <2>2. Base(u) /\ Complete(u, T) /\ Climb(w, u) /\ (f \notin ArgTracked => Open(u, f))
      <3> HIDE DEF f
      <3>1. CASE f \in ArgTracked
        BY <2>1, <3>1, ClimbReflexive
      <3>2. CASE f \notin ArgTracked
        <4>1. u = Opened(w, f) /\ Base(w) /\ Complete(w, T)
          BY <2>1, <3>2
        <4> HIDE DEF u, Good
        <4> QED
          BY <2>1, <4>1, FunctionOpened
      <3> QED
        BY <3>1, <3>2
    <2> HIDE DEF u
    <2>3. u \in Solvers
      BY <2>2 DEF Base
    <2>4. Climb(t, u)
      BY <1>0, <2>1, <2>2, <2>3, ClimbTransitive
    <2>5. ASSUME NEW j \in 1..k, module.funs[j] \notin ArgTracked  PROVE Open(u, module.funs[j])
      <3>1. CASE j = k
        BY <2>2, <2>5, <3>1
      <3>2. CASE j # k
        <4>1. j \in 1..(k-1) /\ j \in 1..n
          BY <1>1, <3>2
        <4>2. Open(w, module.funs[j])
          BY <2>1, <2>5, <4>1
        <4>3. EntryOf(module.funs[j]) \in u.exec
          BY <2>2, <4>2, Zenon DEF Climb
        <4>4. ASSUME NEW h \in 1..Len(module.params[module.funs[j]])  PROVE u.val[module.params[module.funs[j]][h]] = Over
          <5> DEFINE x == module.params[module.funs[j]][h]
          <5>1. x \in Cells
            BY <1>1, <4>1, <4>4, ModuleFacts, Zenon
          <5>2. w.val[x] = Over /\ Le(w.val[x], u.val[x])
            BY <2>1, <2>2, <2>3, <4>2, <4>4, <5>1, OperandsClimb
          <5> QED
            BY <5>2, LatticeKinds DEF Le
        <4> QED
          BY <4>3, <4>4
      <3> QED
        BY <3>1, <3>2
    <2>6. Good(k, u)
      <3> HIDE DEF Open
      <3> QED
        BY <2>2, <2>4, <2>5
    <2> HIDE DEF Good
    <2> QED
      BY <2>1, <2>3, <2>6 DEF u
  <1>4. AllOpened(t) \in P[n]
    <2> HIDE DEF P
    <2> QED
      BY <1>1, <1>2, <1>3, AllOpenedKeeps
  <1>5. Good(n, AllOpened(t))
    <2> HIDE DEF Good
    <2> QED
      BY <1>1, <1>4
  <1>6. ASSUME NEW f \in FunctionSet \ ArgTracked  PROVE Open(AllOpened(t), f)
    <2>1. PICK h \in 1..n : f = module.funs[h]
      <3>1. DOMAIN module.funs = 1..n
        BY DEF WellFormed
      <3> QED
        BY <3>1 DEF FunctionSet, ToSet
    <2> QED
      BY <1>5, <2>1
  <1> QED
    BY <1>5, <1>6

\* Start: the solver before the first turn of Solve.
LEMMA Started ==
    ASSUME WellFormed(module), s = [NoSolver EXCEPT !.code = module.code], Start
    PROVE  Base(s') /\ Complete(s', {}) /\ Ready(s')
  <1> DEFINE G == IF HasMain THEN Promoted ELSE {}
             e == EntryOf("main")
             c == IF HasMain THEN [s.code EXCEPT ![e] = Stores(G) \o @] ELSE s.code
             t == [NoSolver EXCEPT !.code = c, !.tracked = GlobTracked(G), !.val = [x \in Cells |-> Unknown]]
             u == AllOpened(t)
  <1>1. s' = u
    BY DEF Start
  <1>2. s.code = module.code /\ CodeOK(s.code)
    <2>1. s.code = module.code
      BY DEF NoSolver
    <2> QED
      BY <2>1 DEF CodeOK, WellFormed, CodeShaped, BlockSet, FunctionSet
  <1>3. CodeOK(c) /\ (HasMain => \A g \in Globals \ G : module.globals[g].type = "int" => \E k \in 1..Len(c[e]) : c[e][k] = StoreOf(g))
    <2>1. CASE HasMain
      <3>1. "main" \in FunctionSet
        BY <2>1 DEF HasMain
      <3>2. /\ Stores(G) \in Seq(Instructions)
            /\ AllStores(Stores(G))
            /\ \A g \in Globals \ G : module.globals[g].type = "int" => \E k \in 1..Len(Stores(G)) : Stores(G)[k] = StoreOf(g)
        BY StoresFacts
      <3>3. CodeOK(c) /\ \A k \in 1..Len(Stores(G)) : k \in 1..Len(c[e]) /\ c[e][k] = Stores(G)[k]
        <4>1. c = [s.code EXCEPT ![EntryOf("main")] = Stores(G) \o @]
          BY <2>1
        <4> DEFINE q == Stores(G)
        <4>2. q \in Seq(Instructions) /\ AllStores(q)
          BY <3>2
        <4> HIDE DEF G, c, q
        <4>3. c = Prepended(s.code, EntryOf("main"), q)
          BY <4>1 DEF q, Prepended
        <4>4. CodeOK(c) /\ \A k \in 1..Len(q) : k \in 1..Len(c[EntryOf("main")]) /\ c[EntryOf("main")][k] = q[k]
          BY <1>2, <3>1, <4>2, <4>3, PrependedCode
        <4> QED
          BY <4>4 DEF q
      <3> HIDE DEF c, G, e
      <3> QED
        BY <3>2, <3>3
    <2>2. CASE ~HasMain
      BY <1>2, <2>2
    <2> QED
      BY <2>1, <2>2
  <1> HIDE DEF c, G
  <1>4. /\ t.code = c /\ t.tracked = GlobTracked(G) /\ t.val = [x \in Cells |-> Unknown] /\ t.exec = {} /\ t.edges = {}
        /\ t.owl = <<>> /\ t.iwl = <<>> /\ t.bwl = <<>> /\ t.broken = {}
    BY DEF NoSolver
  <1>5. GlobTracked(G) \subseteq Globals \ G
        /\ \A g \in GlobTracked(G) : module.globals[g].internal /\ ~module.globals[g].taken /\ module.globals[g].init \in Ints
    BY DEF GlobTracked, Trackable, WellFormed
  <1>6. t \in Solvers
    <2>1. [x \in Cells |-> Unknown] \in [Cells -> Values]
      BY ValueKinds
    <2>2. c \in [BlockSet -> Seq(Instructions)]
      BY <1>3 DEF CodeOK
    <2> DEFINE v == [x \in Cells |-> Unknown]
               K == GlobTracked(G)
    <2>3. t = [NoSolver EXCEPT !.code = c, !.tracked = K, !.val = v] /\ K \in SUBSET Globals /\ v \in [Cells -> Values]
      BY <1>5, <2>1
    <2> HIDE DEF t, v, K
    <2>4. t = [val |-> v, tracked |-> K, code |-> c, exec |-> {}, edges |-> {},
               owl |-> <<>>, iwl |-> <<>>, bwl |-> <<>>, broken |-> {}]
      BY <2>3 DEF NoSolver
    <2>5. <<>> \in Seq(Cells) /\ <<>> \in Seq(BlockSet)
      OBVIOUS
    <2>6. K \in SUBSET Globals /\ v \in [Cells -> Values]
      BY <2>3
    <2> QED
      BY <2>2, <2>4, <2>5, <2>6 DEF Solvers
  <1> HIDE DEF t
  <1>7. \A x \in Cells : t.val[x] = Unknown
    BY <1>4
  <1>8. Base(t)
    <2>1. \A g \in t.tracked : t.val[g] # Over
      BY <1>4, <1>5, <1>7, LatticeKinds DEF Cells
    <2>2. ToSet(t.bwl) = {}
      BY <1>4 DEF ToSet
    <2>3. ASSUME NEW p \in Positions(t.code), NEW n \in Ints, At(t.code, p).op \in Results  PROVE t.val[At(t.code, p).dst] # Const(n)
      <3>1. At(t.code, p).dst \in Registers
        BY <1>3, <1>4, <2>3, OneResult
      <3> QED
        BY <1>7, <3>1, LatticeKinds DEF Cells
    <2> QED
      BY <1>3, <1>4, <1>6, <2>1, <2>2, <2>3 DEF Base
  <1>9. Complete(t, {})
    BY <1>4 DEF Complete
  <1>10. /\ Base(u) /\ Complete(u, {}) /\ Climb(t, u)
         /\ \A f \in FunctionSet \ ArgTracked :
               EntryOf(f) \in u.exec /\ \A k \in 1..Len(module.params[f]) : u.val[module.params[f][k]] = Over
    BY <1>8, <1>9, FunctionsOpened
  <1> HIDE DEF u
  <1>11. Ready(u)
    <2>1. u.code = c /\ u.tracked \subseteq GlobTracked(G)
      BY <1>4, <1>10 DEF Climb
    <2> HIDE DEF e
    <2>2. ASSUME NEW g \in u.tracked
          PROVE  /\ module.globals[g].internal /\ ~module.globals[g].taken /\ module.globals[g].init \in Ints
                 /\ HasMain /\ module.globals[g].type = "int" => \E k \in 1..Len(u.code[e]) : u.code[e][k] = StoreOf(g)
      BY <1>3, <1>5, <2>1
    <2> QED
      BY <1>10, <2>2 DEF Ready, e
  <1> QED
    BY <1>1, <1>10, <1>11

-----------------------------------------------------------------------------
(* The module never changes, so neither does what is said of it.           *)

LEMMA RigidModule ==
    ASSUME module' = module
    PROVE  /\ WellFormed(module)' <=> WellFormed(module)
           /\ FunctionSet' = FunctionSet /\ BlockSet' = BlockSet /\ HasMain' = HasMain
           /\ RetTracked' = RetTracked /\ ArgTracked' = ArgTracked /\ Solvers' = Solvers
           /\ \A f : EntryOf(f)' = EntryOf(f)
           /\ \A b : FunOf(b)' = FunOf(b)
           /\ \A g : StoreOf(g)' = StoreOf(g)
           /\ \A c : Positions(c)' = Positions(c) /\ (CodeOK(c)' <=> CodeOK(c))
           /\ \A c, x : Users(c, x)' = Users(c, x)
           /\ \A b, i : Target(b, i)' = Target(b, i)
           /\ \A t, b, i : Wants(t, b, i)' = Wants(t, b, i)
           /\ \A t, i : ResolvedAs(t, i)' = ResolvedAs(t, i)
  <1>1. FunctionSet' = FunctionSet
    BY DEF FunctionSet
  <1>2. BlockSet' = BlockSet /\ HasMain' = HasMain
    BY <1>1 DEF BlockSet, HasMain
  <1>3. RetTracked' = RetTracked /\ ArgTracked' = ArgTracked
    BY <1>1 DEF RetTracked, ArgTracked
  <1>4. Solvers' = Solvers
    BY <1>2 DEF Solvers
  <1>5. \A f : EntryOf(f)' = EntryOf(f)
    BY DEF EntryOf
  <1>6. \A b : FunOf(b)' = FunOf(b)
    BY <1>1 DEF FunOf
  <1>7. \A g : StoreOf(g)' = StoreOf(g)
    BY DEF StoreOf
  <1>8. \A c : Positions(c)' = Positions(c)
    BY <1>2 DEF Positions
  <1>9. \A c : CodeOK(c)' <=> CodeOK(c)
    BY <1>2 DEF CodeOK
  <1>10. \A c, x : Users(c, x)' = Users(c, x)
    BY <1>8 DEF Users
  <1>11. \A b, i : Target(b, i)' = Target(b, i)
    BY <1>6 DEF Target
  <1>12. \A t, b, i : Wants(t, b, i)' = Wants(t, b, i)
    BY <1>3, <1>6 DEF Wants
  <1>13. \A t, i : ResolvedAs(t, i)' = ResolvedAs(t, i)
    BY <1>3 DEF ResolvedAs
  <1>14. WellFormed(module)' <=> WellFormed(module)
    OBVIOUS
  <1> QED
    BY <1>1, <1>2, <1>3, <1>4, <1>5, <1>6, <1>7, <1>8, <1>9, <1>10, <1>11, <1>12, <1>13, <1>14

LEMMA RigidSolver ==
    ASSUME module' = module
    PROVE  /\ \A t, p : Settled(t, p)' <=> Settled(t, p)
           /\ \A t, p : Resolvable(t, p)' <=> Resolvable(t, p)
           /\ \A t, T : Complete(t, T)' <=> Complete(t, T)
           /\ \A t : Base(t)' <=> Base(t)
           /\ \A t : Ready(t)' <=> Ready(t)
  <1>1. \A t, p : Settled(t, p)' <=> Settled(t, p)
    BY RigidModule DEF Settled
  <1>2. \A t, p : Resolvable(t, p)' <=> Resolvable(t, p)
    BY RigidModule DEF Resolvable
  <1>3. \A t, T, p : Pend(t, T, p)' <=> Pend(t, T, p)
    BY RigidModule DEF Pend
  <1>4. \A t, T : Complete(t, T)' <=> Complete(t, T)
    BY <1>1, <1>3, RigidModule DEF Complete
  <1>5. \A t : Base(t)' <=> Base(t)
    BY RigidModule DEF Base
  <1>6. \A t : Ready(t)' <=> Ready(t)
    BY RigidModule DEF Ready
  <1> QED
    BY <1>1, <1>2, <1>4, <1>5, <1>6

-----------------------------------------------------------------------------
(* The solver's invariant.                                                 *)

\* The solver before and while it solves, and when the code was transformed.
Fresh == s = [NoSolver EXCEPT !.code = module.code] /\ todo = {}
Solving == Base(s) /\ Complete(s, todo) /\ Ready(s) /\ todo \subseteq Positions(s.code)
Finished ==
    /\ Base(s) /\ Ready(s)
    /\ \A p \in Positions(s.code) : ~Resolvable(s, p) /\ (p[1] \in s.exec => Settled(s, p))
    /\ erased = s.tracked /\ zapped = ReturnsToZap

SolverInv ==
    /\ WellFormed(module) /\ phase \in {"lower", "solve", "run"}
    /\ phase = "lower" => Fresh
    /\ phase = "solve" => Solving
    /\ phase = "run" => Finished

LEMMA SolverInit == Init => SolverInv
  BY ProgramsAssumption DEF Init, SolverInv, Fresh

\* u is t but for its lists.
SameButLists(t, u) ==
    /\ u \in Solvers /\ u.val = t.val /\ u.tracked = t.tracked /\ u.code = t.code /\ u.exec = t.exec /\ u.edges = t.edges
    /\ u.broken = t.broken /\ ToSet(u.bwl) \subseteq ToSet(t.bwl)

LEMMA ListsApart ==
    ASSUME NEW t, Base(t), NEW u, SameButLists(t, u)
    PROVE  /\ Base(u)
           /\ \A p : Settled(u, p) <=> Settled(t, p)
           /\ Ready(t) => Ready(u)
  <1>1. \A from, to : IsEdgeFeasible(u, from, to) <=> IsEdgeFeasible(t, from, to)
    BY DEF SameButLists, IsEdgeFeasible, FeasibleSuccessors, ValueOf
  <1>2. \A o : ValueOf(u, o) = ValueOf(t, o)
    BY DEF SameButLists, ValueOf
  <1>3. \A b, i, n : CanBe(u, b, i, n) <=> CanBe(t, b, i, n)
    BY <1>1, <1>2 DEF CanBe
  <1>4. \A b, i : Incoming(u, b, i) = Incoming(t, b, i)
    BY <1>1, <1>2 DEF Incoming
  <1>5. \A i : FeasibleSuccessors(u, i) = FeasibleSuccessors(t, i)
    BY <1>2 DEF FeasibleSuccessors
  <1>6. \A b, i : Wants(u, b, i) = Wants(t, b, i)
    <2> TAKE b, i
    <2>1. WantsPhi(u, b, i) = WantsPhi(t, b, i)
      BY <1>4 DEF WantsPhi
    <2>2. WantsCast(u, i) = WantsCast(t, i) /\ WantsCmp(u, i) = WantsCmp(t, i)
      BY <1>2 DEF WantsCast, WantsCmp
    <2>3. WantsBinary(u, i) = WantsBinary(t, i)
      BY <1>2 DEF WantsBinary
    <2>4. WantsSelect(u, i) = WantsSelect(t, i)
      BY <1>2 DEF WantsSelect
    <2> QED
      BY <1>2, <2>1, <2>2, <2>3, <2>4 DEF Wants, SameButLists
  <1>7. \A p : Settled(u, p) <=> Settled(t, p)
    BY <1>2, <1>5, <1>6 DEF Settled, SameButLists
  <1>8. Base(u)
    BY <1>1, <1>3 DEF Base, SameButLists
  <1>9. Ready(t) => Ready(u)
    BY DEF Ready, SameButLists
  <1> QED
    BY <1>7, <1>8, <1>9

LEMMA PositionsSame ==
    ASSUME WellFormed(module), NEW t \in Solvers, NEW u \in Solvers, Advanced(t, u)
    PROVE  Positions(u.code) = Positions(t.code)
  BY DEF Advanced, Positions

LEMMA ClimbKeeps ==
    ASSUME WellFormed(module), NEW t, Base(t), Ready(t), NEW u, Base(u), Climb(t, u)
    PROVE  Ready(u) /\ u.code = t.code
  <1>1. t \in Solvers /\ u \in Solvers /\ CodeOK(t.code)
    BY DEF Base
  <1>2. Advanced(t, u)
    BY <1>1, ClimbAdvances
  <1> QED
    BY <1>1, <1>2, ReadyKept DEF Climb

LEMMA StepOver ==
    ASSUME WellFormed(module), Solving, PopOverdefined
    PROVE  Base(s') /\ Complete(s', todo') /\ Ready(s') /\ todo' \subseteq Positions(s'.code)
  <1> DEFINE x == Last(s.owl)
             u == [s EXCEPT !.owl = Front(@)]
  <1>1. /\ s \in Solvers /\ s.owl # <<>> /\ todo = {} /\ s' = u /\ todo' = Users(s.code, x)
    BY DEF PopOverdefined, PopValue, Solving, Base
  <1>2. s.owl \in Seq(Cells) /\ Front(s.owl) \in Seq(Cells) /\ ToSet(s.owl) = ToSet(Front(s.owl)) \cup {x}
    BY <1>1, PopSet DEF Solvers
  <1>3. SameButLists(s, u) /\ u.owl = Front(s.owl) /\ u.iwl = s.iwl /\ u.bwl = s.bwl
    BY <1>1, <1>2 DEF SameButLists, Solvers
  <1> HIDE DEF u, x
  <1>4. Base(u) /\ Ready(u) /\ \A p : Settled(u, p) <=> Settled(s, p)
    BY <1>3, ListsApart DEF Solving
  <1>5. u.code = s.code /\ u.val = s.val /\ u.exec = s.exec
    BY <1>3 DEF SameButLists
  <1>6. ASSUME NEW p \in Positions(u.code), p[1] \in u.exec  PROVE Pend(u, Users(s.code, x), p) \/ Settled(u, p)
    <2>1. Pend(s, {}, p) \/ Settled(s, p)
      BY <1>1, <1>5, <1>6 DEF Solving, Complete
    <2>2. Pend(s, {}, p) => Pend(u, Users(s.code, x), p)
      BY <1>2, <1>3, <1>5 DEF Pend
    <2> QED
      BY <1>4, <2>1, <2>2
  <1>7. Complete(u, Users(s.code, x))
    BY <1>6 DEF Complete
  <1> QED
    BY <1>1, <1>4, <1>5, <1>7 DEF Users

LEMMA StepInst ==
    ASSUME WellFormed(module), Solving, PopInst
    PROVE  Base(s') /\ Complete(s', todo') /\ Ready(s') /\ todo' \subseteq Positions(s'.code)
  <1> DEFINE x == Last(s.iwl)
             u == [s EXCEPT !.iwl = Front(@)]
             T == IF x \in Registers /\ s.val[x] = Over THEN {} ELSE Users(s.code, x)
  <1>1. /\ s \in Solvers /\ s.iwl # <<>> /\ todo = {} /\ s' = u /\ todo' = T
    BY DEF PopInst, PopValue, Solving, Base
  <1>2. s.iwl \in Seq(Cells) /\ Front(s.iwl) \in Seq(Cells) /\ ToSet(s.iwl) = ToSet(Front(s.iwl)) \cup {x}
    BY <1>1, PopSet DEF Solvers
  <1>3. SameButLists(s, u) /\ u.iwl = Front(s.iwl) /\ u.owl = s.owl /\ u.bwl = s.bwl
    BY <1>1, <1>2 DEF SameButLists, Solvers
  <1> HIDE DEF u, x
  <1>4. Base(u) /\ Ready(u) /\ \A p : Settled(u, p) <=> Settled(s, p)
    BY <1>3, ListsApart DEF Solving
  <1>5. u.code = s.code /\ u.val = s.val /\ u.exec = s.exec
    BY <1>3 DEF SameButLists
  <1>6. ASSUME NEW p \in Positions(u.code), p[1] \in u.exec  PROVE Pend(u, T, p) \/ Settled(u, p)
    <2>1. Pend(s, {}, p) \/ Settled(s, p)
      BY <1>1, <1>5, <1>6 DEF Solving, Complete
    <2>2. Pend(s, {}, p) => Pend(u, T, p)
      BY <1>2, <1>3, <1>5 DEF Pend
    <2> QED
      BY <1>4, <2>1, <2>2
  <1>7. Complete(u, T)
    BY <1>6 DEF Complete
  <1>8. T \subseteq Positions(u.code)
    BY <1>5 DEF Users
  <1> QED
    BY <1>1, <1>4, <1>7, <1>8

LEMMA StepUser ==
    ASSUME WellFormed(module), Solving, NEW p, VisitUser(p)
    PROVE  Base(s') /\ Complete(s', todo') /\ Ready(s') /\ todo' \subseteq Positions(s'.code)
  <1> DEFINE T == todo \ {p}
             u == IF p[1] \in s.exec THEN Visit(s, p) ELSE s
  <1>1. p \in todo /\ p \in Positions(s.code) /\ todo' = T /\ s' = u /\ T \cup {p} = todo /\ s \in Solvers
    BY DEF VisitUser, Solving, Base
  <1>2. CASE p[1] \in s.exec
    <2>1. Complete(s, T \cup {p})
      BY <1>1 DEF Solving
    <2> HIDE DEF T
    <2>2. Base(u) /\ Complete(u, T) /\ Climb(s, u)
      BY <1>1, <1>2, <2>1, AnyVisited DEF Solving
    <2> HIDE DEF u
    <2>3. Ready(u) /\ u.code = s.code
      BY <2>2, ClimbKeeps DEF Solving
    <2> QED
      BY <1>1, <2>2, <2>3 DEF Solving, T
  <1>3. CASE p[1] \notin s.exec
    <2>1. u = s
      BY <1>3
    <2>2. Complete(s, T)
      BY <1>3 DEF Solving, Complete, Pend
    <2> QED
      BY <1>1, <2>1, <2>2 DEF Solving
  <1> QED
    BY <1>2, <1>3

LEMMA StepBlock ==
    ASSUME WellFormed(module), Solving, PopBlock
    PROVE  Base(s') /\ Complete(s', todo') /\ Ready(s') /\ todo' \subseteq Positions(s'.code)
  <1> DEFINE b == Last(s.bwl)
             t == [s EXCEPT !.bwl = Front(@)]
             u == VisitBlock(t, b)
             T == {<<b, j>> : j \in 1..Len(t.code[b])}
  <1>1. /\ s \in Solvers /\ s.bwl # <<>> /\ todo = {} /\ s' = u /\ todo' = {}
    BY DEF PopBlock, Solving, Base
  <1>2. s.bwl \in Seq(BlockSet) /\ Front(s.bwl) \in Seq(BlockSet) /\ ToSet(s.bwl) = ToSet(Front(s.bwl)) \cup {b} /\ b \in BlockSet
    BY <1>1, PopSet DEF Solvers
  <1>3. SameButLists(s, t) /\ t.bwl = Front(s.bwl) /\ t.owl = s.owl /\ t.iwl = s.iwl
    BY <1>1, <1>2 DEF SameButLists, Solvers
  <1> HIDE DEF t, b
  <1>4. Base(t) /\ Ready(t) /\ \A p : Settled(t, p) <=> Settled(s, p)
    BY <1>3, ListsApart DEF Solving
  <1>5. t.code = s.code /\ t.val = s.val /\ t.exec = s.exec
    BY <1>3 DEF SameButLists
  <1>6. b \in t.exec
    BY <1>2, <1>5 DEF Solving, Base
  <1>7. ASSUME NEW p \in Positions(t.code), p[1] \in t.exec  PROVE Pend(t, T, p) \/ Settled(t, p)
    <2>1. Pend(s, {}, p) \/ Settled(s, p)
      BY <1>1, <1>5, <1>7 DEF Solving, Complete
    <2>2. p[1] = b => p \in T
      <3>1. p = <<p[1], p[2]>> /\ p[2] \in 1..Len(t.code[p[1]])
        BY <1>4, <1>7, CodeFacts DEF Base
      <3> QED
        BY <3>1
    <2>3. Pend(s, {}, p) => Pend(t, T, p)
      BY <1>2, <1>3, <1>5, <2>2 DEF Pend
    <2> QED
      BY <1>4, <2>1, <2>3
  <1>8. Complete(t, {} \cup T)
    BY <1>7 DEF Complete
  <1>9. Base(u) /\ Complete(u, {}) /\ Climb(t, u)
    BY <1>4, <1>6, <1>8, BlockVisited
  <1> HIDE DEF u
  <1>10. Ready(u)
    BY <1>4, <1>9, ClimbKeeps
  <1> QED
    BY <1>1, <1>9, <1>10

LEMMA StepResolve ==
    ASSUME WellFormed(module), Solving, ResolveUndefs
    PROVE  Base(s') /\ Complete(s', todo') /\ Ready(s') /\ todo' \subseteq Positions(s'.code)
  <1> DEFINE u == AllResolved
  <1>1. todo = {} /\ s' = u /\ todo' = {} /\ s \in Solvers /\ CodeOK(s.code)
    BY DEF ResolveUndefs, Solved, Solving, Base
  <1>2. Base(u) /\ Complete(u, {}) /\ Advanced(s, u)
    BY <1>1, AllUndefsResolved DEF Solving
  <1> HIDE DEF u
  <1>3. Ready(u)
    BY <1>1, <1>2, ReadyKept DEF Solving, Base
  <1> QED
    BY <1>1, <1>2, <1>3

\* When Solve ends, everything is settled.
LEMMA SolvedSettled ==
    ASSUME Solving, Solved, NEW p \in Positions(s.code), p[1] \in s.exec
    PROVE  Settled(s, p)
  <1>1. ToSet(s.owl) = {} /\ ToSet(s.iwl) = {} /\ ToSet(s.bwl) = {} /\ todo = {}
    BY DEF Solved, ToSet
  <1> QED
    BY <1>1 DEF Solving, Complete, Pend

LEMMA StepTransform ==
    ASSUME WellFormed(module), Solving, Transform
    PROVE  /\ Base(s) /\ Ready(s)
           /\ \A p \in Positions(s.code) : ~Resolvable(s, p) /\ (p[1] \in s.exec => Settled(s, p))
           /\ erased' = s.tracked /\ zapped' = ReturnsToZap
           /\ module' = module /\ s' = s /\ phase' = "run"
  <1>1. Solved /\ AllResolved = s /\ todo = {}
    BY DEF Transform, Solved
  <1>2. \A p \in Positions(s.code) : ~Resolvable(s, p)
    BY <1>1, AllUndefsResolved DEF Solving
  <1>3. \A p \in Positions(s.code) : p[1] \in s.exec => Settled(s, p)
    BY <1>1, SolvedSettled
  <1> QED
    BY <1>2, <1>3 DEF Transform, Solving, StoresToErase, solver

LEMMA SolverNext == SolverInv /\ [Next]_vars => SolverInv'
  <1> SUFFICES ASSUME SolverInv, [Next]_vars  PROVE SolverInv'
    OBVIOUS
  <1>1. module' = module
    BY DEF Next, Analysis, Start, Solve, PopOverdefined, PopInst, PopValue, PopBlock, NextList, VisitUser, ResolveUndefs,
           Transform, Run, Compute, Load, Store, Branch, CallDefined, ReturnExternal, Return, Enter, CallBack, RunFrame,
           Ended, Crashed, vars
  <1>2. WellFormed(module) /\ WellFormed(module)'
    BY <1>1, RigidModule DEF SolverInv
  <1>3. CASE Start
    <2>1. s = [NoSolver EXCEPT !.code = module.code] /\ phase' = "solve" /\ todo' = {}
      BY <1>3 DEF Start, SolverInv, Fresh
    <2>2. Base(s') /\ Complete(s', {}) /\ Ready(s')
      BY <1>2, <1>3, <2>1, Started
    <2>3. Solving'
      BY <1>1, <2>1, <2>2, RigidSolver DEF Solving
    <2> QED
      BY <1>2, <2>1, <2>3 DEF SolverInv
  <1>4. CASE Solve \/ ResolveUndefs
    <2>1. phase = "solve" /\ phase' = "solve" /\ Solving
      BY <1>4 DEF Solve, ResolveUndefs, PopOverdefined, PopInst, PopValue, PopBlock, NextList, VisitUser, SolverInv
    <2>3. Base(s') /\ Complete(s', todo') /\ Ready(s') /\ todo' \subseteq Positions(s'.code)
      <3>1. CASE NextList
        BY <2>1, <3>1 DEF NextList, Solving
      <3> QED
        BY <1>2, <1>4, <2>1, <3>1, StepOver, StepInst, StepUser, StepBlock, StepResolve DEF Solve
    <2>4. Solving'
      BY <1>1, <2>3, RigidSolver, RigidModule DEF Solving
    <2> QED
      BY <1>2, <2>1, <2>4 DEF SolverInv
  <1>5. CASE Transform
    <2>1. phase = "solve" /\ Solving
      BY <1>5 DEF Transform, SolverInv
    <2>2. /\ Base(s) /\ Ready(s) /\ s' = s /\ phase' = "run"
          /\ \A p \in Positions(s.code) : ~Resolvable(s, p) /\ (p[1] \in s.exec => Settled(s, p))
          /\ erased' = s.tracked /\ zapped' = ReturnsToZap
      BY <1>2, <1>5, <2>1, StepTransform
    <2>3. ReturnsToZap' = ReturnsToZap
      BY <1>1, <2>2, RigidModule DEF ReturnsToZap
    <2>4. Finished'
      BY <1>1, <2>2, <2>3, RigidModule, RigidSolver DEF Finished
    <2> QED
      BY <1>2, <2>2, <2>4 DEF SolverInv
  <1>6. CASE Run \/ Ended \/ Crashed \/ UNCHANGED vars
    <2>1. s' = s /\ todo' = todo /\ phase' = phase /\ erased' = erased /\ zapped' = zapped
      BY <1>6 DEF Run, Compute, Load, Store, Branch, CallDefined, ReturnExternal, Return, Enter, CallBack, RunFrame,
           Ended, Crashed, vars, solver, transformed
    <2>2. ReturnsToZap' = ReturnsToZap
      BY <1>1, <2>1, RigidModule DEF ReturnsToZap
    <2>3. Fresh => Fresh'
      BY <1>1, <2>1 DEF Fresh, NoSolver
    <2>4. Solving => Solving'
      BY <1>1, <2>1, RigidModule, RigidSolver DEF Solving
    <2>5. Finished => Finished'
      BY <1>1, <2>1, <2>2, RigidModule, RigidSolver DEF Finished
    <2> QED
      BY <1>2, <2>1, <2>3, <2>4, <2>5 DEF SolverInv
  <1> QED
    BY <1>3, <1>4, <1>5, <1>6 DEF Next, Analysis

LEMMA SolverAlways == Spec => []SolverInv
  <1>1. Init => SolverInv
    BY SolverInit
  <1>2. SolverInv /\ [Next]_vars => SolverInv'
    BY SolverNext
  <1> QED
    BY <1>1, <1>2, PTL DEF Spec

\* The work lists miss nothing: whatever the program, when Solve ends, no instruction of an
\* executable block would change a value, a block or an edge any more, and no constant was
\* replaced by a different one.
THEOREM SolverReachesFixpoint == Spec => []SolveReachesFixpoint
  <1>1. SolverInv => SolveReachesFixpoint
    <2> SUFFICES ASSUME SolverInv, phase = "solve", Solved  PROVE SolveReachesFixpoint
      BY DEF SolveReachesFixpoint
    <2>1. Solving /\ WellFormed(module) /\ Base(s) /\ s \in Solvers /\ CodeOK(s.code)
      BY DEF SolverInv, Solving, Base
    <2>2. \A q \in Positions(s.code) : q[1] \in s.exec => Settled(s, q)
      BY <2>1, SolvedSettled
    <2>3. ASSUME NEW b \in s.exec, NEW k \in DOMAIN s.code[b]
          PROVE  Visit(s, <<b, k>>) = [s EXCEPT !.broken = Visit(s, <<b, k>>).broken]
      <3>1. b \in BlockSet /\ s.code[b] \in Seq(Instructions)
        BY <2>1 DEF Solvers
      <3>2. <<b, k>> \in Positions(s.code)
        BY <3>1 DEF Positions
      <3>3. Stays(s, Visit(s, <<b, k>>))
        BY <2>1, <2>2, <3>2, VisitStays
      <3> QED
        BY <3>3 DEF Stays
    <2>4. "different value" \notin s.broken
      BY <2>1 DEF Base
    <2> QED
      BY <2>3, <2>4 DEF SolveReachesFixpoint
  <1> QED
    BY <1>1, SolverAlways, PTL

-----------------------------------------------------------------------------
(* The analysis ends: what the visitors add to the lists they pay for.     *)

\* u is t after a visit, and worth no more.
Spends(t, u) == u \in Solvers /\ u.code = t.code /\ Potential(u) <= Potential(t)

\* What an instruction may do to the value of x.
Outcomes(t, x) == {t, MarkOverdefined(t, x)} \cup {MarkConstant(t, x, n) : n \in Ints}

\* A module has finitely many values, blocks, edges and instructions.
LEMMA FiniteModule ==
    ASSUME WellFormed(module)
    PROVE  /\ IsFiniteSet(Cells) /\ IsFiniteSet(BlockSet) /\ IsFiniteSet(BlockSet \X BlockSet)
           /\ \A t \in Solvers : IsFiniteSet(Positions(t.code))
  <1>1. IsFiniteSet(Cells)
    BY SccpAssumption, FS_Union DEF Cells
  <1>2. IsFiniteSet(BlockSet)
    BY SccpAssumption, ModuleFacts, FS_Subset
  <1>3. IsFiniteSet(BlockSet \X BlockSet)
    BY <1>2, FS_Product
  <1>4. ASSUME NEW t \in Solvers  PROVE IsFiniteSet(Positions(t.code))
    <2> DEFINE R(b) == {b} \X (1..Len(t.code[b]))
               f == [b \in BlockSet |-> R(b)]
               S == {R(b) : b \in BlockSet}
    <2>1. ASSUME NEW b \in BlockSet  PROVE IsFiniteSet(R(b))
      <3>1. t.code[b] \in Seq(Instructions)
        BY DEF Solvers
      <3>2. Len(t.code[b]) \in Int /\ 1 \in Int
        BY <3>1
      <3>3. IsFiniteSet(1..Len(t.code[b]))
        BY <3>2, FS_Interval
      <3> QED
        BY <3>3, FS_Singleton, FS_Product
    <2>2. f \in Surjection(BlockSet, S)
      <3> HIDE DEF R
      <3> QED
        BY DEF Surjection
    <2>3. IsFiniteSet(S)
      <3> HIDE DEF f, S
      <3> QED
        BY <1>2, <2>2, FS_Surjection
    <2>4. \A T \in S : IsFiniteSet(T)
      <3> HIDE DEF R
      <3> QED
        BY <2>1
    <2>5. IsFiniteSet(UNION S)
      <3> HIDE DEF S
      <3> QED
        BY <2>3, <2>4, FS_UNION
    <2> QED
      BY <2>5 DEF Positions
  <1> QED
    BY <1>1, <1>2, <1>3, <1>4

\* The summands of the potential.
Climbing(t) == Cardinality({x \in Cells : t.val[x] = Unknown}) + Cardinality({x \in Cells : t.val[x] # Over})
Shut(t) == Cardinality(BlockSet \ t.exec)
Unmarked(t) == Cardinality((BlockSet \X BlockSet) \ t.edges)

Overs(t) == Len(t.owl)
Insts(t) == Len(t.iwl)
News(t) == Len(t.bwl)

LEMMA PotentialSum ==
    ASSUME WellFormed(module), NEW t \in Solvers
    PROVE  /\ Climbing(t) \in Nat /\ Shut(t) \in Nat /\ Unmarked(t) \in Nat
           /\ Overs(t) \in Nat /\ Insts(t) \in Nat /\ News(t) \in Nat
           /\ Potential(t) = 2 * (Climbing(t) + Shut(t) + Unmarked(t)) + (Overs(t) + Insts(t) + News(t))
           /\ Potential(t) \in Nat
  <1> DEFINE U == {x \in Cells : t.val[x] = Unknown}
             N == {x \in Cells : t.val[x] # Over}
  <1>1. DOMAIN t.val = Cells
    BY DEF Solvers
  <1>2. Cardinality(U) \in Nat /\ Cardinality(N) \in Nat
    <2>1. U \in SUBSET Cells /\ N \in SUBSET Cells
      OBVIOUS
    <2> HIDE DEF U, N
    <2> QED
      BY <2>1, FiniteModule, FS_Subset, FS_CardinalityType
  <1>3. Shut(t) \in Nat /\ Unmarked(t) \in Nat
    <2>1. BlockSet \ t.exec \in SUBSET BlockSet /\ (BlockSet \X BlockSet) \ t.edges \in SUBSET (BlockSet \X BlockSet)
      OBVIOUS
    <2> QED
      BY <2>1, FiniteModule, FS_Subset, FS_CardinalityType DEF Shut, Unmarked
  <1>4. Overs(t) \in Nat /\ Insts(t) \in Nat /\ News(t) \in Nat
    <2>1. t.owl \in Seq(Cells) /\ t.iwl \in Seq(Cells) /\ t.bwl \in Seq(BlockSet)
      BY DEF Solvers
    <2> QED
      BY <2>1 DEF Overs, Insts, News
  <1>5. Left(t) = Cardinality(U) + Cardinality(N) + Shut(t) + Unmarked(t)
    BY <1>1 DEF Left, Shut, Unmarked
  <1>6. Climbing(t) = Cardinality(U) + Cardinality(N)
    BY DEF Climbing
  <1>7. Potential(t) = 2 * Left(t) + (Overs(t) + Insts(t) + News(t))
    BY DEF Potential, Entries, Overs, Insts, News
  <1> HIDE DEF U, N
  <1>8. Climbing(t) \in Nat /\ Left(t) = Climbing(t) + Shut(t) + Unmarked(t)
    BY <1>2, <1>3, <1>5, <1>6
  <1> QED
    BY <1>3, <1>4, <1>7, <1>8

LEMMA SpendsTransitive ==
    ASSUME WellFormed(module), NEW t \in Solvers, NEW u, NEW w, Spends(t, u), Spends(u, w)
    PROVE  /\ Spends(t, w)
           /\ Potential(u) < Potential(t) \/ Potential(w) < Potential(u) => Potential(w) < Potential(t)
  <1>1. u \in Solvers /\ w \in Solvers
    BY DEF Spends
  <1>2. Potential(t) \in Nat /\ Potential(u) \in Nat /\ Potential(w) \in Nat
    BY <1>1, PotentialSum
  <1> QED
    BY <1>1, <1>2 DEF Spends

LEMMA SpendsReflexive ==
    ASSUME WellFormed(module), NEW t \in Solvers
    PROVE  Spends(t, t)
  <1>1. Potential(t) \in Nat
    BY PotentialSum
  <1> QED
    BY <1>1 DEF Spends

\* What a change of values, blocks and edges is worth.
LEMMA SpendsBy ==
    ASSUME WellFormed(module), NEW t \in Solvers, NEW u \in Solvers, u.code = t.code,
           NEW d \in Nat, NEW e \in Nat,
           Climbing(u) + Shut(u) + Unmarked(u) + d <= Climbing(t) + Shut(t) + Unmarked(t),
           Overs(u) + Insts(u) + News(u) = Overs(t) + Insts(t) + News(t) + e,
           e <= 2 * d
    PROVE  Spends(t, u) /\ (e < 2 * d => Potential(u) < Potential(t))
  <1> DEFINE a == Climbing(u) + Shut(u) + Unmarked(u)
             b == Climbing(t) + Shut(t) + Unmarked(t)
             x == Overs(u) + Insts(u) + News(u)
             y == Overs(t) + Insts(t) + News(t)
  <1>1. a \in Nat /\ b \in Nat /\ x \in Nat /\ y \in Nat
    <2>1. Climbing(t) \in Nat /\ Shut(t) \in Nat /\ Unmarked(t) \in Nat /\ Overs(t) \in Nat /\ Insts(t) \in Nat /\ News(t) \in Nat
      BY PotentialSum
    <2>2. Climbing(u) \in Nat /\ Shut(u) \in Nat /\ Unmarked(u) \in Nat /\ Overs(u) \in Nat /\ Insts(u) \in Nat /\ News(u) \in Nat
      BY PotentialSum
    <2> QED
      BY <2>1, <2>2
  <1>2. Potential(u) = 2 * a + x /\ Potential(t) = 2 * b + y
    BY PotentialSum
  <1>3. a + d <= b /\ x = y + e
    OBVIOUS
  <1> HIDE DEF a, b, x, y
  <1> QED
    BY <1>1, <1>2, <1>3 DEF Spends

\* A value that climbs pays for its entry.
LEMMA MarkSpends ==
    ASSUME WellFormed(module), NEW t \in Solvers, NEW x \in Cells, NEW v \in Values, v # Unknown, t.val[x] # Over,
           v = Over \/ t.val[x] = Unknown
    PROVE  Spends(t, Mark(t, x, v)) /\ Potential(Mark(t, x, v)) < Potential(t)
  <1> DEFINE u == Mark(t, x, v)
             U(w) == {y \in Cells : w.val[y] = Unknown}
             N(w) == {y \in Cells : w.val[y] # Over}
  <1>1. /\ u \in Solvers /\ u.val = [t.val EXCEPT ![x] = v] /\ u.code = t.code /\ u.exec = t.exec /\ u.edges = t.edges
        /\ u.bwl = t.bwl
        /\ Overs(u) + Insts(u) = Overs(t) + Insts(t) + 1
    <2>1. t.owl \in Seq(Cells) /\ t.iwl \in Seq(Cells) /\ [t.val EXCEPT ![x] = v] \in [Cells -> Values]
      BY DEF Solvers
    <2>2. CASE v = Over
      <3>1. u = [t EXCEPT !.val = [t.val EXCEPT ![x] = v], !.owl = Append(t.owl, x)]
        BY <2>2 DEF Mark, Push, Solvers
      <3>2. Append(t.owl, x) \in Seq(Cells) /\ Len(Append(t.owl, x)) = Overs(t) + 1
        BY <2>1 DEF Overs
      <3>3. Overs(u) = Len(Append(t.owl, x)) /\ Insts(u) = Insts(t)
        BY <3>1 DEF Solvers, Overs, Insts
      <3>4. Overs(u) + Insts(u) = Overs(t) + Insts(t) + 1
        <4>1. Overs(t) \in Nat /\ Insts(t) \in Nat
          BY PotentialSum
        <4> HIDE DEF u
        <4> QED
          BY <4>1, <3>2, <3>3
      <3> QED
        BY <2>1, <3>1, <3>2, <3>4 DEF Solvers
    <2>3. CASE v # Over
      <3>1. u = [t EXCEPT !.val = [t.val EXCEPT ![x] = v], !.iwl = Append(t.iwl, x)]
        BY <2>3 DEF Mark, Push, Solvers
      <3>2. Append(t.iwl, x) \in Seq(Cells) /\ Len(Append(t.iwl, x)) = Insts(t) + 1
        BY <2>1 DEF Insts
      <3>3. Insts(u) = Len(Append(t.iwl, x)) /\ Overs(u) = Overs(t)
        BY <3>1 DEF Solvers, Overs, Insts
      <3>4. Overs(u) + Insts(u) = Overs(t) + Insts(t) + 1
        <4>1. Overs(t) \in Nat /\ Insts(t) \in Nat
          BY PotentialSum
        <4> HIDE DEF u
        <4> QED
          BY <4>1, <3>2, <3>3
      <3> QED
        BY <2>1, <3>1, <3>2, <3>4 DEF Solvers
    <2> QED
      BY <2>2, <2>3
  <1> HIDE DEF u
  <1>2. \A y \in Cells : u.val[y] = IF y = x THEN v ELSE t.val[y]
    BY <1>1 DEF Solvers
  <1>3. /\ U(u) = U(t) \ {x} /\ (t.val[x] = Unknown => x \in U(t))
        /\ N(u) = (IF v = Over THEN N(t) \ {x} ELSE N(t)) /\ x \in N(t)
    BY <1>2, LatticeKinds
  <1>4. IsFiniteSet(U(t)) /\ IsFiniteSet(N(t))
    BY FiniteModule, FS_Subset
  <1> HIDE DEF U, N
  <1>5. Cardinality(U(t)) \in Nat /\ Cardinality(N(t)) \in Nat
    BY <1>4, FS_CardinalityType
  <1>6. Cardinality(U(u)) + Cardinality(N(u)) <= Cardinality(U(t)) + Cardinality(N(t)) - 1
    <2>1. Cardinality(U(u)) = IF x \in U(t) THEN Cardinality(U(t)) - 1 ELSE Cardinality(U(t))
      BY <1>3, <1>4, FS_RemoveElement
    <2>2. Cardinality(N(u)) = IF v = Over THEN Cardinality(N(t)) - 1 ELSE Cardinality(N(t))
      BY <1>3, <1>4, FS_RemoveElement
    <2> QED
      BY <1>3, <1>5, <2>1, <2>2
  <1>7. Climbing(u) = Cardinality(U(u)) + Cardinality(N(u)) /\ Climbing(t) = Cardinality(U(t)) + Cardinality(N(t))
    BY DEF Climbing, U, N
  <1>8. Shut(u) = Shut(t) /\ Unmarked(u) = Unmarked(t)
    BY <1>1 DEF Shut, Unmarked
  <1>8a. Cardinality(U(u)) \in Nat /\ Cardinality(N(u)) \in Nat
    BY <1>3, <1>4, FS_RemoveElement, FS_CardinalityType
  <1>9. /\ Climbing(t) \in Nat /\ Shut(t) \in Nat /\ Unmarked(t) \in Nat /\ Climbing(u) \in Nat /\ News(u) = News(t)
        /\ Overs(u) \in Nat /\ Insts(u) \in Nat /\ Overs(t) \in Nat /\ Insts(t) \in Nat /\ News(t) \in Nat
    BY <1>1, PotentialSum DEF News
  <1>10. Climbing(u) + Shut(u) + Unmarked(u) + 1 <= Climbing(t) + Shut(t) + Unmarked(t)
    BY <1>5, <1>6, <1>7, <1>8, <1>9, <1>8a
  <1>11. Overs(u) + Insts(u) + News(u) = Overs(t) + Insts(t) + News(t) + 1
    BY <1>1, <1>9
  <1>12. Spends(t, u) /\ (1 < 2 * 1 => Potential(u) < Potential(t))
    BY <1>1, <1>10, <1>11, SpendsBy
  <1> QED
    BY <1>12 DEF u

LEMMA OutcomeSpends ==
    ASSUME WellFormed(module), NEW t \in Solvers, NEW x \in Cells, NEW u \in Outcomes(t, x)
    PROVE  Spends(t, u)
  <1>0. t.val[x] \in Values
    BY DEF Solvers
  <1>1. CASE u = t
    BY <1>1, SpendsReflexive
  <1>2. CASE u = MarkOverdefined(t, x)
    <2>1. CASE t.val[x] = Over
      BY <1>2, <2>1, SpendsReflexive DEF MarkOverdefined
    <2>2. CASE t.val[x] # Over
      <3>1. Spends(t, Mark(t, x, Over))
        BY <2>2, MarkSpends, LatticeKinds, ValueKinds
      <3> QED
        BY <1>2, <2>2, <3>1 DEF MarkOverdefined
    <2> QED
      BY <2>1, <2>2
  <1>3. ASSUME NEW n \in Ints, u = MarkConstant(t, x, n)  PROVE Spends(t, u)
    <2> DEFINE v == t.val[x]
    <2>1. CASE v = Unknown
      <3>1. Spends(t, Mark(t, x, Const(n)))
        BY <2>1, MarkSpends, LatticeKinds, ValueKinds
      <3> QED
        BY <1>3, <2>1, <3>1 DEF MarkConstant
    <2>2. CASE v # Unknown /\ v # Over /\ v.n # n /\ v = Forced(v.n)
      <3>1. Spends(t, Mark(t, x, Over))
        BY <2>2, MarkSpends, LatticeKinds, ValueKinds
      <3> QED
        BY <1>3, <2>2, <3>1 DEF MarkConstant
    <2>3. ASSUME NEW a \in Assertions, u = [t EXCEPT !.broken = @ \cup {a}]  PROVE Spends(t, u)
      <3>1. u \in Solvers /\ u.code = t.code /\ u.val = t.val /\ u.exec = t.exec /\ u.edges = t.edges
            /\ u.owl = t.owl /\ u.iwl = t.iwl /\ u.bwl = t.bwl
        BY <2>3 DEF Solvers
      <3>2. Potential(u) = Potential(t) /\ Potential(t) \in Nat
        BY <3>1, PotentialSum DEF Potential, Left, Entries
      <3> QED
        BY <3>1, <3>2 DEF Spends
    <2>4. CASE ~(v = Unknown) /\ ~(v # Over /\ v.n # n /\ v = Forced(v.n))
      <3>1. u = t \/ \E a \in Assertions : u = [t EXCEPT !.broken = @ \cup {a}]
        BY <1>3, <2>4 DEF MarkConstant, Assertions
      <3> QED
        BY <2>3, <3>1, SpendsReflexive
    <2> QED
      BY <2>1, <2>2, <2>4
  <1> QED
    BY <1>1, <1>2, <1>3 DEF Outcomes

LEMMA MergeOutcome ==
    ASSUME NEW t \in Solvers, NEW x \in Cells, NEW v \in Values
    PROVE  MergeInValue(t, x, v) \in Outcomes(t, x)
  <1>1. IsConst(v) => v.n \in Ints
    BY ValueKinds
  <1>2. v = Unknown \/ v = Over \/ IsConst(v)
    BY ValueKinds
  <1> QED
    BY <1>1, <1>2 DEF MergeInValue, Outcomes

LEMMA VisitOutcome ==
    ASSUME NEW t \in Solvers, NEW b, NEW i \in Instructions, Arity(i)
    PROVE  /\ i.op = "phi" => VisitPHI(t, b, i) \in Outcomes(t, i.dst)
           /\ i.op \in Casts => VisitCast(t, i) \in Outcomes(t, i.dst)
           /\ i.op \in BinaryOps => VisitBinary(t, i) \in Outcomes(t, i.dst)
           /\ i.op \in Comparisons => VisitCmp(t, i) \in Outcomes(t, i.dst)
           /\ i.op = "select" => VisitSelect(t, i) \in Outcomes(t, i.dst)
           /\ i.op = "load" => VisitLoad(t, i) \in Outcomes(t, i.dst)
  <1> DEFINE v(k) == ValueOf(t, i.args[k])
  <1>1. /\ \A k \in 1..Len(i.args) : v(k) \in Values
        /\ i.op \in Results => i.dst \in Cells
    BY Arguments DEF Arity
  <1>2. \A k \in 1..Len(i.args) : IsConst(v(k)) <=> v(k) # Unknown /\ v(k) # Over
    BY <1>1, ValueKinds, LatticeKinds
  <1>3. \A k \in 1..Len(i.args) : IsConst(v(k)) => v(k).n \in Ints
    BY <1>1, ValueKinds
  <1>4. /\ t \in Outcomes(t, i.dst) /\ MarkOverdefined(t, i.dst) \in Outcomes(t, i.dst)
        /\ \A n \in Ints : MarkConstant(t, i.dst, n) \in Outcomes(t, i.dst)
    BY DEF Outcomes
  <1>5. 0 \in Ints
    BY SccpAssumption DEF Ints
  <1>6. ASSUME i.op = "phi"  PROVE VisitPHI(t, b, i) \in Outcomes(t, i.dst)
    <2> DEFINE in == Incoming(t, b, i)
    <2>1. Len(i.args) = Len(i.to)
      BY <1>6 DEF Arity
    <2>2. ASSUME NEW w \in in  PROVE w # Unknown /\ \E k \in 1..Len(i.to) : w = v(k)
      BY <2>2 DEF Incoming
    <2>3. \A w \in in : w = Over \/ w.n \in Ints
      BY <1>2, <1>3, <2>1, <2>2
    <2> HIDE DEF in, v
    <2>4. in # {} => (CHOOSE w \in in : TRUE) \in in
      OBVIOUS
    <2>5. in # {} /\ Over \notin in => (CHOOSE w \in in : TRUE).n \in Ints
      BY <2>3, <2>4
    <2> QED
      BY <1>4, <2>5 DEF VisitPHI, in
  <1>7. ASSUME i.op \in Casts  PROVE VisitCast(t, i) \in Outcomes(t, i.dst)
    <2>1. 1 \in 1..Len(i.args)
      BY <1>7 DEF Arity
    <2>2. IsConst(v(1)) => FoldCast(i.op, v(1).n) \in Ints
      BY <1>3, <1>7, <2>1, FoldAssumption
    <2> QED
      BY <1>2, <1>4, <2>1, <2>2 DEF VisitCast
  <1>8. ASSUME i.op \in BinaryOps  PROVE VisitBinary(t, i) \in Outcomes(t, i.dst)
    <2>1. 1 \in 1..Len(i.args) /\ 2 \in 1..Len(i.args)
      BY <1>8, Operations DEF Arity
    <2> DEFINE known == IF v(1) # Over THEN v(1) ELSE v(2)
               n == Fold(i.op, v(1).n, v(2).n)
    <2>2. IsConst(v(1)) /\ IsConst(v(2)) => n \in Ints \cup {Undef}
      BY <1>3, <1>8, <2>1, FoldAssumption
    <2>3. IsConst(v(1)) /\ IsConst(v(2)) => MarkResult(t, i, n) \in Outcomes(t, i.dst)
      BY <1>4, <2>2 DEF MarkResult
    <2>4. IsConst(known) => known.n \in Ints
      BY <1>3, <2>1
    <2> HIDE DEF n
    <2>5. VisitBinary(t, i) = IF t.val[i.dst] = Over THEN t
            ELSE IF IsConst(v(1)) /\ IsConst(v(2)) THEN MarkResult(t, i, n)
            ELSE IF v(1) # Over /\ v(2) # Over THEN t
            ELSE IF i.op = "udiv" /\ IsConst(v(1)) /\ v(1).n = 0 THEN MarkConstant(t, i.dst, 0)
            ELSE IF i.op \in Absorbing /\ known = Unknown THEN t
            ELSE IF i.op \in Absorbing /\ IsConst(known) /\ known.n = Absorber(i.op)
                 THEN MarkConstant(t, i.dst, known.n)
            ELSE MarkOverdefined(t, i.dst)
      BY DEF VisitBinary, n
    <2> HIDE DEF v, known
    <2> QED
      BY <1>4, <1>5, <2>3, <2>4, <2>5
  <1>9. ASSUME i.op \in Comparisons  PROVE VisitCmp(t, i) \in Outcomes(t, i.dst)
    <2>1. 1 \in 1..Len(i.args) /\ 2 \in 1..Len(i.args)
      BY <1>9, Operations DEF Arity
    <2>2. IsConst(v(1)) /\ IsConst(v(2)) => Fold(i.op, v(1).n, v(2).n) \in Ints
      BY <1>3, <1>9, <2>1, FoldAssumption
    <2> QED
      BY <1>4, <2>2 DEF VisitCmp
  <1>10. ASSUME i.op = "select"  PROVE VisitSelect(t, i) \in Outcomes(t, i.dst)
    <2>0. Len(i.args) = 3 /\ i.dst \in Cells
      BY <1>1, <1>10, Operations DEF Arity
    <2>1. 1 \in 1..Len(i.args) /\ 2 \in 1..Len(i.args) /\ 3 \in 1..Len(i.args) /\ i.dst \in Cells
      BY <2>0
    <2>2. MergeInValue(t, i.dst, v(2)) \in Outcomes(t, i.dst) /\ MergeInValue(t, i.dst, v(3)) \in Outcomes(t, i.dst)
      BY <1>1, <2>1, MergeOutcome
    <2> QED
      BY <1>3, <1>4, <2>1, <2>2 DEF VisitSelect
  <1>11. ASSUME i.op = "load"  PROVE VisitLoad(t, i) \in Outcomes(t, i.dst)
    <2>1. i.dst \in Cells /\ t.val[i.sym] \in Values
      BY <1>1, <1>11, Operations DEF Arity, Solvers, Cells
    <2>2. MergeInValue(t, i.dst, t.val[i.sym]) \in Outcomes(t, i.dst)
      BY <2>1, MergeOutcome
    <2> QED
      BY <1>4, <2>2 DEF VisitLoad
  <1> QED
    BY <1>6, <1>7, <1>8, <1>9, <1>10, <1>11

LEMMA StoreSpends ==
    ASSUME WellFormed(module), NEW t \in Solvers, NEW i \in Instructions, Arity(i), i.op = "store"
    PROVE  Spends(t, VisitStore(t, i))
  <1> DEFINE u == MergeInValue(t, i.sym, ValueOf(t, i.args[1]))
             w == [u EXCEPT !.tracked = @ \ {i.sym}]
  <1>1. i.sym \in Cells /\ ValueOf(t, i.args[1]) \in Values
    BY Arguments DEF Arity, Cells
  <1>2. Spends(t, u)
    BY <1>1, MergeOutcome, OutcomeSpends
  <1> HIDE DEF u
  <1>3. w \in Solvers /\ w.code = u.code /\ w.val = u.val /\ w.exec = u.exec /\ w.edges = u.edges
        /\ w.owl = u.owl /\ w.iwl = u.iwl /\ w.bwl = u.bwl
    BY <1>2 DEF Spends, Solvers
  <1>4. Potential(w) = Potential(u)
    BY <1>3 DEF Potential, Left, Entries
  <1>5. Spends(t, w)
    BY <1>2, <1>3, <1>4 DEF Spends
  <1>6. VisitStore(t, i) \in {t, u, w}
    BY DEF VisitStore, u
  <1> QED
    BY <1>2, <1>5, <1>6, SpendsReflexive

\* A visit of an instruction that calls and branches nowhere.
LEMMA SimpleSpends ==
    ASSUME WellFormed(module), NEW t \in Solvers, CodeOK(t.code), NEW p \in Positions(t.code),
           At(t.code, p).op \in (Results \ {"call"}) \cup {"store", "ret"}
    PROVE  Spends(t, Visit(t, p))
  <1> DEFINE i == At(t.code, p)
             b == p[1]
             u == Visit(t, p)
  <1>1. i \in Instructions /\ Arity(i) /\ FunOf(b) \in FunctionSet
    BY CodeFacts
  <1>2. u = VisitInstruction(t, b, i)
    BY DEF Visit
  <1>3. i.op \in (Results \ {"call"}) \cup {"store", "ret"}
    OBVIOUS
  <1>4. i.op \in Results => i.dst \in Cells
    BY <1>1, Arguments DEF Arity
  <1> SUFFICES Spends(t, u)
    OBVIOUS
  <1> HIDE DEF i, u
  <1>5. CASE i.op \in Results \ {"call"}
    <2>1. u \in Outcomes(t, i.dst)
      <3>1. CASE i.op = "phi"
        BY <1>1, <1>2, <3>1, VisitOutcome, Operations DEF VisitInstruction
      <3>2. CASE i.op \in Casts
        BY <1>1, <1>2, <3>2, VisitOutcome, Operations DEF VisitInstruction, Casts
      <3>3. CASE i.op \in BinaryOps
        BY <1>1, <1>2, <3>3, VisitOutcome, Operations DEF VisitInstruction, BinaryOps
      <3>4. CASE i.op \in Comparisons
        BY <1>1, <1>2, <3>4, VisitOutcome, Operations DEF VisitInstruction, Comparisons
      <3>5. CASE i.op = "select"
        BY <1>1, <1>2, <3>5, VisitOutcome, Operations DEF VisitInstruction
      <3>6. CASE i.op = "load"
        BY <1>1, <1>2, <3>6, VisitOutcome, Operations DEF VisitInstruction
      <3> QED
        BY <1>5, <3>1, <3>2, <3>3, <3>4, <3>5, <3>6, Operations
    <2> QED
      BY <1>4, <1>5, <2>1, OutcomeSpends
  <1>6. CASE i.op = "store"
    <2>1. u = VisitStore(t, i)
      BY <1>2, <1>6, Operations DEF VisitInstruction
    <2> QED
      BY <1>1, <1>6, <2>1, StoreSpends
  <1>7. CASE i.op = "ret"
    <2>1. u = VisitReturn(t, b, i)
      BY <1>2, <1>7, Operations DEF VisitInstruction
    <2>2. FunOf(b) \in Cells /\ ValueOf(t, i.args[1]) \in Values
      BY <1>1, <1>7, ModuleFacts, Arguments DEF Arity, Cells
    <2>3. Spends(t, MergeInValue(t, FunOf(b), ValueOf(t, i.args[1])))
      BY <2>2, MergeOutcome, OutcomeSpends
    <2> QED
      BY <2>1, <2>3, SpendsReflexive DEF VisitReturn
  <1> QED
    BY <1>3, <1>5, <1>6, <1>7

LEMMA PhisSpend ==
    ASSUME WellFormed(module), NEW t \in Solvers, CodeOK(t.code), NEW b \in BlockSet
    PROVE  Spends(t, VisitPhis(t, b))
  <1> DEFINE n == Len(t.code[b])
             P == [k \in 0..n |-> {u \in Solvers : Spends(t, u)}]
  <1>1. n \in Nat /\ \A k \in 1..n : <<b, k>> \in Positions(t.code) /\ At(t.code, <<b, k>>) = t.code[b][k]
    <2>1. t.code[b] \in Seq(Instructions)
      BY DEF Solvers
    <2> QED
      BY <2>1 DEF Positions, At
  <1>2. t \in P[0]
    BY <1>1, SpendsReflexive
  <1>3. ASSUME NEW k \in 1..n, NEW u \in P[k - 1]
        PROVE  (IF t.code[b][k].op = "phi" THEN VisitPHI(u, b, t.code[b][k]) ELSE u) \in P[k]
    <2> DEFINE i == t.code[b][k]
               w == VisitPHI(u, b, i)
    <2>1. u \in Solvers /\ Spends(t, u) /\ k \in 0..n
      BY <1>1, <1>3
    <2>2. i \in Instructions /\ Arity(i)
      <3>1. At(t.code, <<b, k>>) \in Instructions /\ Arity(At(t.code, <<b, k>>))
        BY <1>1, CodeFacts
      <3> QED
        BY <1>1, <3>1
    <2>3. CASE i.op = "phi"
      <3>1. i.dst \in Cells
        BY <2>2, <2>3, Arguments, Operations DEF Arity
      <3> HIDE DEF i
      <3>2. Spends(u, w)
        BY <2>1, <2>2, <2>3, <3>1, VisitOutcome, OutcomeSpends
      <3> HIDE DEF w
      <3>3. Spends(t, w)
        BY <2>1, <3>2, SpendsTransitive
      <3>4. w \in P[k]
        BY <2>1, <3>3 DEF Spends
      <3> QED
        BY <2>3, <3>4 DEF i, w
    <2>4. CASE i.op # "phi"
      BY <2>1, <2>4
    <2> QED
      BY <2>3, <2>4
  <1>4. VisitPhis(t, b) \in P[n]
    <2> HIDE DEF P
    <2> QED
      BY <1>1, <1>2, <1>3, VisitPhisKeeps
  <1> QED
    BY <1>1, <1>4

LEMMA BlockPays ==
    ASSUME WellFormed(module), NEW t \in Solvers, NEW b \in BlockSet
    PROVE  Spends(t, MarkBlockExecutable(t, b))
  <1> DEFINE u == MarkBlockExecutable(t, b)
             X(w) == BlockSet \ w.exec
  <1>1. CASE b \in t.exec
    BY <1>1, SpendsReflexive DEF MarkBlockExecutable
  <1>2. CASE b \notin t.exec
    <2>1. u = [t EXCEPT !.exec = t.exec \cup {b}, !.bwl = Append(t.bwl, b)]
      BY <1>2 DEF MarkBlockExecutable
    <2>2. t.bwl \in Seq(BlockSet) /\ Append(t.bwl, b) \in Seq(BlockSet) /\ Len(Append(t.bwl, b)) = News(t) + 1
      BY DEF Solvers, News
    <2>3. /\ u \in Solvers
          /\ u.code = t.code /\ u.val = t.val /\ u.edges = t.edges /\ u.owl = t.owl /\ u.iwl = t.iwl
          /\ u.exec = t.exec \cup {b} /\ u.bwl = Append(t.bwl, b)
      <3>1. t.exec \cup {b} \in SUBSET BlockSet
        BY DEF Solvers
      <3> HIDE DEF u
      <3> QED
        BY <2>1, <2>2, <3>1 DEF Solvers
    <2> SUFFICES Spends(t, u)
      OBVIOUS
    <2> HIDE DEF u
    <2>4. X(u) = X(t) \ {b} /\ b \in X(t)
      BY <1>2, <2>3
    <2>5. Shut(u) = Shut(t) - 1
      <3>1. IsFiniteSet(X(t)) /\ Shut(u) = Cardinality(X(u)) /\ Shut(t) = Cardinality(X(t))
        BY FiniteModule, FS_Subset DEF Shut
      <3> HIDE DEF X
      <3> QED
        BY <2>4, <3>1, FS_RemoveElement
    <2>6. Climbing(u) = Climbing(t) /\ Unmarked(u) = Unmarked(t)
      BY <2>3 DEF Climbing, Unmarked
    <2>7. /\ Climbing(t) \in Nat /\ Shut(t) \in Nat /\ Unmarked(t) \in Nat
          /\ Overs(t) \in Nat /\ Insts(t) \in Nat /\ News(t) \in Nat
      BY PotentialSum
    <2>8. Climbing(u) + Shut(u) + Unmarked(u) + 1 <= Climbing(t) + Shut(t) + Unmarked(t)
      BY <2>5, <2>6, <2>7
    <2>9. Overs(u) + Insts(u) + News(u) = Overs(t) + Insts(t) + News(t) + 1
      <3>1. Overs(u) = Overs(t) /\ Insts(u) = Insts(t) /\ News(u) = Len(Append(t.bwl, b))
        BY <2>3 DEF Overs, Insts, News
      <3> QED
        BY <2>2, <2>7, <3>1
    <2> QED
      BY <2>3, <2>8, <2>9, SpendsBy
  <1> QED
    BY <1>1, <1>2

\* An edge pays for the block it leads to, and more.
LEMMA EdgePays ==
    ASSUME WellFormed(module), NEW t \in Solvers, CodeOK(t.code), NEW from \in BlockSet, NEW to \in BlockSet
    PROVE  LET u == MarkEdgeExecutable(t, from, to)
           IN  Spends(t, u) /\ (<<from, to>> \notin t.edges => Potential(u) < Potential(t))
  <1> DEFINE e == <<from, to>>
             v == [t EXCEPT !.edges = t.edges \cup {e}]
             u == MarkEdgeExecutable(t, from, to)
             X(w) == (BlockSet \X BlockSet) \ w.edges
  <1>1. CASE e \in t.edges
    <2>1. u = t
      BY <1>1 DEF MarkEdgeExecutable
    <2> QED
      BY <1>1, <2>1, SpendsReflexive
  <1>2. CASE e \notin t.edges
    <2>1. /\ v \in Solvers /\ v.code = t.code /\ v.val = t.val /\ v.exec = t.exec /\ v.owl = t.owl /\ v.iwl = t.iwl
          /\ v.bwl = t.bwl /\ v.edges = t.edges \cup {e}
      <3>1. t.edges \cup {e} \in SUBSET (BlockSet \X BlockSet)
        BY DEF Solvers
      <3> HIDE DEF e
      <3> QED
        BY <3>1 DEF Solvers
    <2>2. u = IF to \notin t.exec THEN MarkBlockExecutable(v, to) ELSE VisitPhis(v, to)
      BY <1>2 DEF MarkEdgeExecutable
    <2> HIDE DEF v
    <2>3. X(v) = X(t) \ {e} /\ e \in X(t)
      BY <1>2, <2>1
    <2>4. Unmarked(v) = Unmarked(t) - 1
      <3>1. IsFiniteSet(X(t)) /\ Unmarked(v) = Cardinality(X(v)) /\ Unmarked(t) = Cardinality(X(t))
        BY FiniteModule, FS_Subset DEF Unmarked
      <3> HIDE DEF X
      <3> QED
        BY <2>3, <3>1, FS_RemoveElement
    <2>5. Climbing(v) = Climbing(t) /\ Shut(v) = Shut(t)
      BY <2>1 DEF Climbing, Shut
    <2>6. /\ Climbing(t) \in Nat /\ Shut(t) \in Nat /\ Unmarked(t) \in Nat
          /\ Overs(t) \in Nat /\ Insts(t) \in Nat /\ News(t) \in Nat
      BY PotentialSum
    <2>7. Climbing(v) + Shut(v) + Unmarked(v) + 1 <= Climbing(t) + Shut(t) + Unmarked(t)
      BY <2>4, <2>5, <2>6
    <2>x. Overs(v) + Insts(v) + News(v) = Overs(t) + Insts(t) + News(t) + 0
      <3>1. Overs(v) = Overs(t) /\ Insts(v) = Insts(t) /\ News(v) = News(t)
        BY <2>1 DEF Overs, Insts, News
      <3> QED
        BY <2>6, <3>1
    <2>8. Spends(t, v) /\ (0 < 2 * 1 => Potential(v) < Potential(t))
      BY <2>1, <2>7, <2>x, SpendsBy
    <2>9. Spends(v, u)
      BY <2>1, <2>2, BlockPays, PhisSpend
    <2> HIDE DEF u
    <2>10. Spends(t, u) /\ Potential(u) < Potential(t)
      BY <2>8, <2>9, SpendsTransitive
    <2> QED
      BY <2>10 DEF u
  <1> QED
    BY <1>1, <1>2

LEMMA TerminatorSpends ==
    ASSUME WellFormed(module), NEW t \in Solvers, CodeOK(t.code), NEW b \in BlockSet, NEW i \in Instructions,
           Shaped(module, FunOf(b), i)
    PROVE  Spends(t, VisitTerminator(t, b, i))
  <1> DEFINE n == Len(i.to)
             P == [k \in 0..n |-> {u \in Solvers : Spends(t, u)}]
  <1>1. n \in Nat /\ \A k \in 1..n : i.to[k] \in BlockSet
    <2>1. n \in Nat /\ DOMAIN i.to = 1..n
      BY Arguments
    <2>2. \A k \in 1..n : i.to[k] \in ToSet(module.blocks[FunOf(b)])
      BY <2>1 DEF Shaped, ToSet
    <2> QED
      BY <2>1, <2>2, BlocksOf, ModuleFacts
  <1>2. t \in P[0]
    BY <1>1, SpendsReflexive
  <1>3. ASSUME NEW k \in 1..n, NEW u \in P[k - 1]
        PROVE  (IF i.to[k] \in FeasibleSuccessors(t, i) THEN MarkEdgeExecutable(u, b, i.to[k]) ELSE u) \in P[k]
    <2> DEFINE w == MarkEdgeExecutable(u, b, i.to[k])
    <2>1. u \in Solvers /\ Spends(t, u) /\ k \in 0..n /\ u.code = t.code
      BY <1>1, <1>3 DEF Spends
    <2>2. Spends(u, w)
      BY <1>1, <2>1, EdgePays
    <2> HIDE DEF w
    <2>3. Spends(t, w)
      BY <2>1, <2>2, SpendsTransitive
    <2>4. w \in P[k]
      BY <2>1, <2>3 DEF Spends
    <2> QED
      BY <2>1, <2>4 DEF w
  <1>4. VisitTerminator(t, b, i) \in P[n]
    <2> HIDE DEF P
    <2> QED
      BY <1>1, <1>2, <1>3, VisitTerminatorKeeps
  <1> QED
    BY <1>1, <1>4

LEMMA CallSpends ==
    ASSUME WellFormed(module), NEW t \in Solvers, CodeOK(t.code), NEW b \in BlockSet, NEW i \in Instructions, Arity(i),
           Shaped(module, FunOf(b), i), i.op = "call"
    PROVE  Spends(t, VisitCall(t, i))
  <1> DEFINE n == Len(i.args)
             x(k) == module.params[i.sym][k]
             P == [k \in 0..n |-> {u \in Solvers : Spends(t, u)}]
             called == IF i.sym \in ArgTracked THEN PassArguments(t, i) ELSE t
             w == IF i.sym \in RetTracked THEN MergeInValue(called, i.dst, called.val[i.sym])
                  ELSE MarkOverdefined(called, i.dst)
  <1>1. /\ n \in Nat /\ i.dst \in Cells /\ i.sym \in Cells
        /\ \A k \in 1..n : i.args[k] \in Operands
    BY Arguments, Operations DEF Arity, Cells
  <1>2. ASSUME i.sym \in ArgTracked  PROVE Spends(t, PassArguments(t, i))
    <2>1. /\ i.sym \in FunctionSet /\ n = Len(module.params[i.sym]) /\ EntryOf(i.sym) \in BlockSet
          /\ \A k \in 1..n : x(k) \in Cells
      <3>1. i.sym \in FunctionSet
        BY <1>2, ModuleFacts
      <3>2. n = Len(module.params[i.sym])
        BY <3>1 DEF Shaped, FunctionSet
      <3> QED
        BY <3>1, <3>2, ModuleFacts
    <2>2. MarkBlockExecutable(t, EntryOf(i.sym)) \in P[0]
      <3>1. Spends(t, MarkBlockExecutable(t, EntryOf(i.sym)))
        BY <2>1, BlockPays
      <3> QED
        BY <1>1, <3>1 DEF Spends
    <2>3. ASSUME NEW k \in 1..n, NEW u \in P[k - 1]  PROVE MergeInValue(u, x(k), ValueOf(u, i.args[k])) \in P[k]
      <3> DEFINE v == MergeInValue(u, x(k), ValueOf(u, i.args[k]))
      <3>1. u \in Solvers /\ Spends(t, u) /\ k \in 0..n
        BY <1>1, <2>3
      <3>2. ValueOf(u, i.args[k]) \in Values /\ x(k) \in Cells
        BY <1>1, <2>1, <3>1, OperandValues
      <3>3. Spends(u, v)
        BY <3>1, <3>2, MergeOutcome, OutcomeSpends
      <3> HIDE DEF v
      <3>4. Spends(t, v)
        BY <3>1, <3>3, SpendsTransitive
      <3>5. v \in P[k]
        BY <3>1, <3>4 DEF Spends
      <3> QED
        BY <3>5 DEF v
    <2>4. PassArguments(t, i) \in P[n]
      <3> HIDE DEF P
      <3> QED
        BY <1>1, <2>2, <2>3, PassArgumentsKeeps
    <2> QED
      BY <1>1, <2>4
  <1>3. Spends(t, called)
    BY <1>2, SpendsReflexive
  <1>4. VisitCall(t, i) = w
    BY DEF VisitCall
  <1> HIDE DEF called
  <1>5. called \in Solvers
    BY <1>3 DEF Spends
  <1>6. called.val[i.sym] \in Values
    BY <1>1, <1>5 DEF Solvers
  <1>7. w \in Outcomes(called, i.dst)
    BY <1>1, <1>5, <1>6, MergeOutcome DEF Outcomes
  <1> HIDE DEF w
  <1>8. Spends(called, w)
    BY <1>1, <1>5, <1>7, OutcomeSpends
  <1> QED
    BY <1>3, <1>4, <1>8, SpendsTransitive

LEMMA AnySpends ==
    ASSUME WellFormed(module), NEW t \in Solvers, CodeOK(t.code), NEW p \in Positions(t.code)
    PROVE  Spends(t, Visit(t, p))
  <1> DEFINE i == At(t.code, p)
             b == p[1]
  <1>1. i \in Instructions /\ Arity(i) /\ b \in BlockSet /\ Shaped(module, FunOf(b), i)
    BY CodeFacts
  <1>2. i.op \in Results \cup Terminators \cup {"store"}
    BY <1>1 DEF Instructions
  <1>3. Visit(t, p) = VisitInstruction(t, b, i)
    BY DEF Visit
  <1>4. CASE i.op \in (Results \ {"call"}) \cup {"store", "ret"}
    BY <1>4, SimpleSpends
  <1> HIDE DEF i, b
  <1>5. CASE i.op = "call"
    <2>1. VisitInstruction(t, b, i) = VisitCall(t, i)
      BY <1>5, Operations DEF VisitInstruction
    <2> QED
      BY <1>1, <1>3, <1>5, <2>1, CallSpends
  <1>6. CASE i.op \in {"jmp", "br", "switch"}
    <2>1. VisitInstruction(t, b, i) = VisitTerminator(t, b, i)
      BY <1>6, Operations DEF VisitInstruction
    <2> QED
      BY <1>1, <1>3, <2>1, TerminatorSpends
  <1> QED
    BY <1>2, <1>4, <1>5, <1>6, Operations DEF i

LEMMA BlockSpends ==
    ASSUME WellFormed(module), NEW t \in Solvers, CodeOK(t.code), NEW b \in BlockSet
    PROVE  Spends(t, VisitBlock(t, b))
  <1> DEFINE n == Len(t.code[b])
             P == [k \in 0..n |-> {u \in Solvers : Spends(t, u)}]
  <1>1. n \in Nat /\ \A k \in 1..n : <<b, k>> \in Positions(t.code)
    <2>1. t.code[b] \in Seq(Instructions)
      BY DEF Solvers
    <2> QED
      BY <2>1 DEF Positions
  <1>2. t \in P[0]
    BY <1>1, SpendsReflexive
  <1>3. ASSUME NEW k \in 1..n, NEW u \in P[k - 1]  PROVE Visit(u, <<b, k>>) \in P[k]
    <2> DEFINE w == Visit(u, <<b, k>>)
    <2>1. u \in Solvers /\ Spends(t, u) /\ k \in 0..n /\ u.code = t.code
      BY <1>1, <1>3 DEF Spends
    <2>2. Spends(u, w)
      BY <1>1, <2>1, AnySpends
    <2> HIDE DEF w
    <2>3. Spends(t, w)
      BY <2>1, <2>2, SpendsTransitive
    <2>4. w \in P[k]
      BY <2>1, <2>3 DEF Spends
    <2> QED
      BY <2>4 DEF w
  <1>4. VisitBlock(t, b) \in P[n]
    <2> HIDE DEF P
    <2> QED
      BY <1>1, <1>2, <1>3, VisitBlockKeeps
  <1> QED
    BY <1>1, <1>4

\* A resolved condition climbs, or has an edge marked that was not feasible before.
LEMMA ConditionSpends ==
    ASSUME WellFormed(module), NEW t, Base(t), NEW p \in Positions(t.code),
           At(t.code, p).op \in {"br", "switch"}, ValueOf(t, At(t.code, p).args[1]) = Unknown
    PROVE  LET u == ResolveCondition(t, p, At(t.code, p)) IN u \in Solvers /\ Potential(u) < Potential(t)
  <1> DEFINE i == At(t.code, p)
             b == p[1]
             n == IF i.op = "br" THEN 0 ELSE i.args[2]
             u == ResolveCondition(t, p, i)
  <1>0. t \in Solvers /\ CodeOK(t.code)
    BY DEF Base
  <1>1. /\ n \in Ints /\ i.op \in {"br", "switch"} /\ i.to[2] \in ToSet(i.to) /\ ValueOf(t, i.args[1]) = Unknown
        /\ i.args[1] = Undef \/ (i.args[1] \in Registers /\ t.val[i.args[1]] = Unknown)
    BY <1>0, ConditionFacts
  <1>2. /\ b \in BlockSet /\ Shaped(module, FunOf(b), i) /\ FunOf(b) \in FunctionSet
        /\ p = <<b, p[2]>> /\ p[2] \in 1..Len(t.code[b]) /\ i = t.code[b][p[2]]
    BY <1>0, CodeFacts
  <1>3. CASE i.args[1] # Undef
    <2>1. u = Mark(t, i.args[1], Forced(n))
      BY <1>3 DEF ResolveCondition
    <2>2. i.args[1] \in Cells /\ t.val[i.args[1]] = Unknown /\ Forced(n) \in Values /\ Forced(n) # Unknown
      BY <1>1, <1>3, ValueKinds, LatticeKinds DEF Cells
    <2> HIDE DEF i, n, u
    <2>3. Spends(t, Mark(t, i.args[1], Forced(n))) /\ Potential(Mark(t, i.args[1], Forced(n))) < Potential(t)
      BY <1>0, <2>2, MarkSpends, LatticeKinds
    <2>4. u \in Solvers /\ Potential(u) < Potential(t)
      BY <2>1, <2>3 DEF Spends
    <2> QED
      BY <2>4 DEF u, i
  <1>4. CASE i.args[1] = Undef
    <2> DEFINE d == Decided(t.code, p, n)
               v == [t EXCEPT !.code = d]
               e == <<b, i.to[2]>>
    <2>1. u = MarkEdgeExecutable(v, b, i.to[2])
      <3>1. [t EXCEPT !.code[p[1]][p[2]].args[1] = n] = v
        BY <1>0 DEF Decided, Solvers
      <3> QED
        BY <1>4, <3>1 DEF ResolveCondition
    <2>2. CodeOK(d)
      BY <1>0, <1>1, DecidedCode
    <2>3. /\ v \in Solvers /\ v.code = d /\ v.val = t.val /\ v.exec = t.exec /\ v.edges = t.edges
          /\ v.owl = t.owl /\ v.iwl = t.iwl /\ v.bwl = t.bwl
      <3>1. d \in [BlockSet -> Seq(Instructions)]
        BY <2>2 DEF CodeOK
      <3> HIDE DEF d
      <3> QED
        BY <1>0, <3>1 DEF Solvers
    <2>4. Potential(v) = Potential(t)
      <3> HIDE DEF v
      <3> QED
        BY <2>3 DEF Potential, Left, Entries
    <2>5. i.to[2] \in BlockSet
      BY <1>1, <1>2, ModuleFacts DEF Shaped
    <2>6. e \notin t.edges
      <3>1. e \in t.edges => e[2] \in FeasibleSuccessors(t, Term(t.code, e[1]))
        BY DEF Base, IsEdgeFeasible
      <3>2. e[1] = b /\ e[2] = i.to[2]
        OBVIOUS
      <3>3. Term(t.code, b) = i
        <4>1. \A k \in 1..Len(t.code[b]) : t.code[b][k].op \in Terminators => k = Len(t.code[b])
          <5> HIDE DEF b, i
          <5> QED
            BY <1>0, <1>2, TermFacts
        <4>2. i.op \in Terminators
          BY <1>1 DEF Terminators
        <4> QED
          BY <1>2, <4>1, <4>2 DEF Term
      <3>4. FeasibleSuccessors(t, i) = {}
        BY <1>1 DEF FeasibleSuccessors
      <3> QED
        BY <3>1, <3>2, <3>3, <3>4
    <2> HIDE DEF v, d, i, n, u, b
    <2>7. Spends(v, u) /\ Potential(u) < Potential(v)
      BY <1>2, <2>1, <2>2, <2>3, <2>5, <2>6, EdgePays
    <2>8. u \in Solvers /\ Potential(u) < Potential(t)
      BY <2>4, <2>7 DEF Spends
    <2> QED
      BY <2>8 DEF u, i
  <1> QED
    BY <1>3, <1>4

LEMMA UndefsSpend ==
    ASSUME WellFormed(module), NEW t, Base(t), NEW f \in FunctionSet
    PROVE  LET u == ResolvedUndefsIn(t, f) IN u = t \/ (u \in Solvers /\ Potential(u) < Potential(t))
  <1> DEFINE u == ResolvedUndefsIn(t, f)
             Clear == \A q \in Positions(t.code) : q[1] \in ToSet(module.blocks[f]) => ~Resolvable(t, q)
             p == FirstUndef(t, f)
             i == At(t.code, p)
  <1>0. t \in Solvers /\ CodeOK(t.code)
    BY DEF Base
  <1>1. CASE Clear
    BY <1>1 DEF ResolvedUndefsIn
  <1>2. CASE ~Clear
    <2>1. p \in Positions(t.code) /\ Resolvable(t, p)
      BY <1>0, <1>2, FirstUndefFound
    <2>2. i \in Instructions /\ Arity(i)
      BY <1>0, <2>1, CodeFacts
    <2>3. CASE i.op \in {"br", "switch"}
      <3>1. u = ResolveCondition(t, p, i)
        BY <1>2, <2>3 DEF ResolvedUndefsIn
      <3>2. ValueOf(t, i.args[1]) = Unknown
        BY <2>1, <2>3 DEF Resolvable
      <3> HIDE DEF p, u
      <3>3. u \in Solvers /\ Potential(u) < Potential(t)
        BY <2>1, <2>3, <3>1, <3>2, ConditionSpends
      <3> QED
        BY <3>3 DEF u
    <2>4. CASE i.op \notin {"br", "switch"}
      <3> DEFINE v == ResolvedAs(t, i)
      <3>1. u = Mark(t, i.dst, v)
        BY <1>2, <2>4 DEF ResolvedUndefsIn
      <3>2. i.dst # "none" /\ t.val[i.dst] = Unknown /\ v # Unknown
        BY <2>1, <2>4 DEF Resolvable
      <3> HIDE DEF i, u
      <3>3. i.op \in Results /\ i.dst \in Cells
        BY <1>0, <2>2, <3>2, Arguments DEF Arity
      <3>4. v \in Values
        BY <1>0, <2>2, <3>3, ResolvedValue, ValueKinds
      <3> HIDE DEF v
      <3>5. Spends(t, u) /\ Potential(u) < Potential(t)
        BY <1>0, <3>1, <3>2, <3>3, <3>4, MarkSpends, LatticeKinds
      <3>6. u \in Solvers
        BY <3>5 DEF Spends
      <3> QED
        BY <3>5, <3>6 DEF u
    <2> QED
      BY <2>3, <2>4
  <1> QED
    BY <1>1, <1>2

\* A round of ResolvedUndefsIn leaves everything as it is, or lowers the potential.
LEMMA AllUndefsSpend ==
    ASSUME WellFormed(module), Base(s), Complete(s, {})
    PROVE  AllResolved = s \/ Potential(AllResolved) < Potential(s)
  <1> DEFINE n == Len(module.funs)
             P == [k \in 0..n |-> {u \in Solvers : /\ Base(u) /\ Complete(u, {})
                                                   /\ u = s \/ Potential(u) < Potential(s)}]
  <1>1. n \in Nat /\ \A k \in 1..n : module.funs[k] \in FunctionSet
    BY ModuleFacts
  <1>2. s \in Solvers
    BY DEF Base
  <1>3. s \in P[0]
    BY <1>1, <1>2
  <1>4. ASSUME NEW k \in 1..n, NEW u \in P[k - 1]  PROVE ResolvedUndefsIn(u, module.funs[k]) \in P[k]
    <2> DEFINE w == ResolvedUndefsIn(u, module.funs[k])
    <2>1. u \in Solvers /\ Base(u) /\ Complete(u, {}) /\ (u = s \/ Potential(u) < Potential(s)) /\ k \in 0..n
      BY <1>1, <1>4
    <2>2. Base(w) /\ Complete(w, {})
      BY <1>1, <2>1, UndefsResolved
    <2>3. w = u \/ Potential(w) < Potential(u)
      BY <1>1, <2>1, UndefsSpend
    <2> HIDE DEF w
    <2>4. w \in Solvers
      BY <2>2 DEF Base
    <2>5. Potential(s) \in Nat /\ Potential(u) \in Nat /\ Potential(w) \in Nat
      BY <1>2, <2>1, <2>4, PotentialSum
    <2>6. w = s \/ Potential(w) < Potential(s)
      BY <2>1, <2>3, <2>5
    <2>7. w \in P[k]
      BY <2>1, <2>2, <2>4, <2>6
    <2> QED
      BY <2>7 DEF w
  <1>5. AllResolved \in P[n]
    <2> HIDE DEF P
    <2> QED
      BY <1>1, <1>3, <1>4, AllResolvedKeeps
  <1> QED
    BY <1>1, <1>5

\* Visits, pops and turns pay in different coins.
LEMMA Coins ==
    ASSUME NEW a \in Nat, NEW p \in Nat, NEW q \in Nat, NEW c \in Nat, NEW d \in Nat, NEW t \in 0..2, NEW r \in 0..2,
           \/ q = p /\ d = c /\ r < t
           \/ q <= p /\ d < c
           \/ q < p /\ d <= a
    PROVE  3 * (a + 1) * q + 3 * d + r < 3 * (a + 1) * p + 3 * c + t
  <1> DEFINE w == 3 * (a + 1)
  <1>1. w \in Nat /\ 3 * d \in Nat /\ 3 * c \in Nat /\ t \in Nat /\ r \in Nat /\ r <= 2
    OBVIOUS
  <1>2. w * p \in Nat /\ w * q \in Nat
    BY <1>1
  <1>3. CASE q = p /\ d = c /\ r < t
    BY <1>1, <1>2, <1>3
  <1>4. CASE q <= p /\ d < c
    <2>1. 3 * d + 3 <= 3 * c
      BY <1>4
    <2>2. PICK e \in Nat : p = q + e
      <3>1. p - q \in Nat /\ p = q + (p - q)
        BY <1>4
      <3> QED
        BY <3>1
    <2>3. w * p = w * q + w * e /\ w * e \in Nat
      BY <1>1, <2>2
    <2> HIDE DEF w
    <2> QED
      BY <1>1, <1>2, <2>1, <2>3
  <1>5. CASE q < p /\ d <= a
    <2>1. 3 * d + 3 <= w
      BY <1>5
    <2>2. PICK e \in Nat : p = q + e + 1
      <3>1. p - q - 1 \in Nat /\ p = q + (p - q - 1) + 1
        BY <1>5
      <3> QED
        BY <3>1
    <2>3. w * p = w * q + w * e + w /\ w * e \in Nat
      BY <1>1, <2>2
    <2> HIDE DEF w
    <2> QED
      BY <1>1, <1>2, <2>1, <2>3
  <1> QED
    BY <1>3, <1>4, <1>5

LEMMA RigidPotential ==
    ASSUME module' = module
    PROVE  \A t : Potential(t)' = Potential(t)
  <1>1. BlockSet' = BlockSet
    BY RigidModule
  <1>2. \A t : Left(t)' = Left(t)
    BY <1>1 DEF Left
  <1> QED
    BY <1>2 DEF Potential, Entries

LEMMA TurnsFew == Turns \in 0..2 /\ Turns' \in 0..2
  BY DEF Turns

\* Never more visits than instructions.
LEMMA UsersFew ==
    ASSUME WellFormed(module), NEW t \in Solvers, NEW T \in SUBSET Positions(t.code)
    PROVE  /\ IsFiniteSet(T) /\ Cardinality(T) \in Nat /\ Cardinality(Positions(t.code)) \in Nat
           /\ Cardinality(T) <= Cardinality(Positions(t.code))
  BY FiniteModule, FS_Subset, FS_CardinalityType

\* A value or a block taken from its list is an entry less.
LEMMA PopPays ==
    ASSUME WellFormed(module), NEW t \in Solvers, NEW u \in Solvers, SameButLists(t, u),
           Overs(u) + Insts(u) + News(u) + 1 = Overs(t) + Insts(t) + News(t)
    PROVE  Potential(u) < Potential(t)
  <1>1. Climbing(u) = Climbing(t) /\ Shut(u) = Shut(t) /\ Unmarked(u) = Unmarked(t)
    BY DEF SameButLists, Climbing, Shut, Unmarked
  <1>2. /\ Overs(t) \in Nat /\ Insts(t) \in Nat /\ News(t) \in Nat
        /\ Climbing(t) \in Nat /\ Shut(t) \in Nat /\ Unmarked(t) \in Nat
        /\ Potential(t) = 2 * (Climbing(t) + Shut(t) + Unmarked(t)) + (Overs(t) + Insts(t) + News(t))
    BY PotentialSum
  <1>3. /\ Overs(u) \in Nat /\ Insts(u) \in Nat /\ News(u) \in Nat
        /\ Potential(u) = 2 * (Climbing(u) + Shut(u) + Unmarked(u)) + (Overs(u) + Insts(u) + News(u))
    BY PotentialSum
  <1> QED
    BY <1>1, <1>2, <1>3

\* What a step has to do for the measure to fall.
LEMMA Cheaper ==
    ASSUME WellFormed(module), module' = module, Base(s), Base(s'),
           todo \subseteq Positions(s.code), todo' \subseteq Positions(s'.code),
           Positions(s'.code) = Positions(s.code),
           \/ s' = s /\ todo' = todo /\ Turns' < Turns
           \/ Potential(s') <= Potential(s) /\ Cardinality(todo') < Cardinality(todo)
           \/ Potential(s') < Potential(s)
    PROVE  Measure' < Measure
  <1> DEFINE a == Cardinality(Positions(s.code))
  <1>1. s \in Solvers /\ s' \in Solvers
    BY DEF Base
  <1>2. Potential(s) \in Nat /\ Potential(s') \in Nat
    BY <1>1, PotentialSum
  <1>3. /\ a \in Nat /\ Cardinality(todo) \in Nat
        /\ Cardinality(todo') \in Nat /\ Cardinality(todo') <= a
    BY <1>1, UsersFew
  <1>4. Measure = 3 * (a + 1) * Potential(s) + 3 * Cardinality(todo) + Turns
    BY DEF Measure, Worth
  <1>5. Measure' = 3 * (a + 1) * Potential(s') + 3 * Cardinality(todo') + Turns'
    <2>1. Potential(s)' = Potential(s')
      BY RigidPotential
    <2>2. Positions(s.code)' = Positions(s.code)
      BY RigidModule
    <2>3. Worth' = 3 * (a + 1)
      BY <2>2 DEF Worth
    <2> QED
      BY <2>1, <2>3 DEF Measure
  <1> HIDE DEF a
  <1>6. Turns \in 0..2 /\ Turns' \in 0..2
    BY TurnsFew
  <1>7. \/ Potential(s') = Potential(s) /\ Cardinality(todo') = Cardinality(todo) /\ Turns' < Turns
        \/ Potential(s') <= Potential(s) /\ Cardinality(todo') < Cardinality(todo)
        \/ Potential(s') < Potential(s) /\ Cardinality(todo') <= a
    BY <1>3
  <1> QED
    BY <1>2, <1>3, <1>4, <1>5, <1>6, <1>7, Coins

LEMMA OverPays ==
    ASSUME WellFormed(module), Solving, PopOverdefined
    PROVE  Potential(s') < Potential(s) /\ s'.code = s.code
  <1> DEFINE u == [s EXCEPT !.owl = Front(@)]
  <1>1. s \in Solvers /\ s.owl # <<>> /\ s' = u /\ s.owl \in Seq(Cells)
    BY DEF PopOverdefined, PopValue, Solving, Base, Solvers
  <1>2. Front(s.owl) \in Seq(Cells) /\ Len(Front(s.owl)) = Len(s.owl) - 1
    BY <1>1, FrontFacts
  <1>3. SameButLists(s, u) /\ u.owl = Front(s.owl) /\ u.iwl = s.iwl /\ u.bwl = s.bwl
    BY <1>1, <1>2 DEF SameButLists, Solvers
  <1>4. u \in Solvers
    BY <1>3 DEF SameButLists
  <1> HIDE DEF u
  <1>5. Overs(u) = Overs(s) - 1 /\ Insts(u) = Insts(s) /\ News(u) = News(s)
    BY <1>2, <1>3 DEF Overs, Insts, News
  <1>6. Overs(s) \in Nat /\ Insts(s) \in Nat /\ News(s) \in Nat
    BY <1>1, PotentialSum
  <1>7. Overs(u) + Insts(u) + News(u) + 1 = Overs(s) + Insts(s) + News(s)
    BY <1>5, <1>6
  <1> QED
    BY <1>1, <1>3, <1>4, <1>7, PopPays DEF SameButLists

LEMMA InstPays ==
    ASSUME WellFormed(module), Solving, PopInst
    PROVE  Potential(s') < Potential(s) /\ s'.code = s.code
  <1> DEFINE u == [s EXCEPT !.iwl = Front(@)]
  <1>1. s \in Solvers /\ s.iwl # <<>> /\ s' = u /\ s.iwl \in Seq(Cells)
    BY DEF PopInst, PopValue, Solving, Base, Solvers
  <1>2. Front(s.iwl) \in Seq(Cells) /\ Len(Front(s.iwl)) = Len(s.iwl) - 1
    BY <1>1, FrontFacts
  <1>3. SameButLists(s, u) /\ u.iwl = Front(s.iwl) /\ u.owl = s.owl /\ u.bwl = s.bwl
    BY <1>1, <1>2 DEF SameButLists, Solvers
  <1>4. u \in Solvers
    BY <1>3 DEF SameButLists
  <1> HIDE DEF u
  <1>5. Insts(u) = Insts(s) - 1 /\ Overs(u) = Overs(s) /\ News(u) = News(s)
    BY <1>2, <1>3 DEF Overs, Insts, News
  <1>6. Overs(s) \in Nat /\ Insts(s) \in Nat /\ News(s) \in Nat
    BY <1>1, PotentialSum
  <1>7. Overs(u) + Insts(u) + News(u) + 1 = Overs(s) + Insts(s) + News(s)
    BY <1>5, <1>6
  <1> QED
    BY <1>1, <1>3, <1>4, <1>7, PopPays DEF SameButLists

LEMMA VisitPays ==
    ASSUME WellFormed(module), Solving, NEW p, VisitUser(p)
    PROVE  Potential(s') <= Potential(s) /\ s'.code = s.code /\ Cardinality(todo') < Cardinality(todo)
  <1> DEFINE u == IF p[1] \in s.exec THEN Visit(s, p) ELSE s
  <1>1. p \in todo /\ p \in Positions(s.code) /\ todo' = todo \ {p} /\ s' = u /\ s \in Solvers /\ CodeOK(s.code)
    BY DEF VisitUser, Solving, Base
  <1>2. Spends(s, u)
    BY <1>1, AnySpends, SpendsReflexive
  <1>3. IsFiniteSet(todo) /\ Cardinality(todo) \in Nat
    BY <1>1, UsersFew DEF Solving
  <1>4. Cardinality(todo \ {p}) = Cardinality(todo) - 1
    BY <1>1, <1>3, FS_RemoveElement
  <1> QED
    BY <1>1, <1>2, <1>3, <1>4 DEF Spends

LEMMA NewPays ==
    ASSUME WellFormed(module), Solving, PopBlock
    PROVE  Potential(s') < Potential(s) /\ s'.code = s.code
  <1> DEFINE b == Last(s.bwl)
             t == [s EXCEPT !.bwl = Front(@)]
             u == VisitBlock(t, b)
  <1>1. /\ s \in Solvers /\ CodeOK(s.code) /\ s.bwl # <<>> /\ s' = u /\ s.bwl \in Seq(BlockSet)
    BY DEF PopBlock, Solving, Base, Solvers
  <1>2. Front(s.bwl) \in Seq(BlockSet) /\ Len(Front(s.bwl)) = Len(s.bwl) - 1 /\ b \in BlockSet
        /\ ToSet(s.bwl) = ToSet(Front(s.bwl)) \cup {b}
    BY <1>1, FrontFacts, PopSet
  <1>3. SameButLists(s, t) /\ t.bwl = Front(s.bwl) /\ t.owl = s.owl /\ t.iwl = s.iwl
    BY <1>1, <1>2 DEF SameButLists, Solvers
  <1>4. t \in Solvers /\ t.code = s.code
    BY <1>3 DEF SameButLists
  <1> HIDE DEF t, b
  <1>5. Overs(t) = Overs(s) /\ Insts(t) = Insts(s) /\ News(t) = News(s) - 1
    BY <1>2, <1>3 DEF Overs, Insts, News
  <1>6. Overs(s) \in Nat /\ Insts(s) \in Nat /\ News(s) \in Nat
    BY <1>1, PotentialSum
  <1>7. Overs(t) + Insts(t) + News(t) + 1 = Overs(s) + Insts(s) + News(s)
    BY <1>5, <1>6
  <1>8. Potential(t) < Potential(s)
    BY <1>1, <1>3, <1>4, <1>7, PopPays
  <1>9. Spends(t, u)
    BY <1>1, <1>2, <1>4, BlockSpends
  <1> HIDE DEF u
  <1>10. u \in Solvers /\ u.code = t.code /\ Potential(u) <= Potential(t)
    BY <1>9 DEF Spends
  <1>11. Potential(s) \in Nat /\ Potential(t) \in Nat /\ Potential(u) \in Nat
    BY <1>1, <1>4, <1>10, PotentialSum
  <1> QED
    BY <1>1, <1>4, <1>8, <1>10, <1>11

\* Solve turns to the next list at most twice before it finds an entry.
LEMMA TurnPays ==
    ASSUME WellFormed(module), Solving, NextList
    PROVE  Turns' < Turns
  <1>1. s' = s /\ s \in Solvers /\ todo = {}
    BY DEF NextList, Solving, Base
  <1>2. s.owl \in Seq(Cells) /\ s.iwl \in Seq(Cells) /\ s.bwl \in Seq(BlockSet)
    BY <1>1 DEF Solvers
  <1>3. ~(s.owl = <<>> /\ s.iwl = <<>> /\ s.bwl = <<>>)
    BY <1>1 DEF NextList, Solved
  <1>4. Entries(s) # 0
    <2>1. /\ Overs(s) \in Nat /\ Insts(s) \in Nat /\ News(s) \in Nat
          /\ (s.owl # <<>> => Overs(s) # 0) /\ (s.iwl # <<>> => Insts(s) # 0) /\ (s.bwl # <<>> => News(s) # 0)
      BY <1>2 DEF Overs, Insts, News
    <2>2. Overs(s) + Insts(s) + News(s) # 0
      BY <1>3, <2>1
    <2> QED
      BY <2>2 DEF Entries, Overs, Insts, News
  <1>5. Entries(s') = Entries(s) /\ Entries(s)' = Entries(s)
    BY <1>1 DEF Entries
  <1>6. CASE list = "over" /\ s.owl = <<>> /\ list' = "inst"
    BY <1>1, <1>3, <1>4, <1>5, <1>6 DEF Turns
  <1>7. CASE list = "inst" /\ s.iwl = <<>> /\ list' = "block"
    BY <1>1, <1>3, <1>4, <1>5, <1>7 DEF Turns
  <1>8. CASE list = "block" /\ s.bwl = <<>> /\ list' = "over"
    BY <1>1, <1>3, <1>4, <1>5, <1>8 DEF Turns
  <1> QED
    BY <1>6, <1>7, <1>8 DEF NextList

LEMMA ResolutionPays ==
    ASSUME WellFormed(module), Solving, ResolveUndefs
    PROVE  Potential(s') < Potential(s) /\ Positions(s'.code) = Positions(s.code)
  <1>1. Base(s) /\ Complete(s, {}) /\ s' = AllResolved /\ AllResolved # s
    BY DEF ResolveUndefs, Solved, Solving
  <1>2. Base(AllResolved) /\ Advanced(s, AllResolved)
    BY <1>1, AllUndefsResolved
  <1>3. Potential(AllResolved) < Potential(s)
    BY <1>1, AllUndefsSpend
  <1>4. Positions(AllResolved.code) = Positions(s.code)
    BY <1>1, <1>2, PositionsSame DEF Base
  <1> QED
    BY <1>1, <1>3, <1>4

\* The analysis ends, whatever the program: every step of Solve, of a visit and of
\* ResolvedUndefsIn lowers a measure that is a natural number.
THEOREM AnalysisEnds == Spec => AnalysisProgresses
  <1>1. SolverInv /\ SolverInv' /\ [Next]_vars =>
            [phase = "solve" => phase' # "solve" \/ Measure' < Measure]_vars
    <2> SUFFICES ASSUME SolverInv, SolverInv', Next, phase = "solve", phase' = "solve"
                 PROVE  Measure' < Measure
      OBVIOUS
    <2>1. Solve \/ ResolveUndefs
      BY DEF Next, Analysis, Start, Transform, Run, Running, Compute, Load, Store, Branch, CallDefined, ReturnExternal,
             Return, Enter, CallBack, Ended, Crashed, Killed
    <2>2. WellFormed(module) /\ Solving /\ Solving'
      BY DEF SolverInv
    <2>3. module' = module
      BY <2>1 DEF Solve, ResolveUndefs, PopOverdefined, PopInst, PopValue, PopBlock, NextList, VisitUser
    <2>4. /\ Base(s) /\ Base(s') /\ todo \subseteq Positions(s.code) /\ todo' \subseteq Positions(s'.code)
      BY <2>2, <2>3, RigidSolver, RigidModule DEF Solving
    <2>5. CASE PopOverdefined
      BY <2>2, <2>3, <2>4, <2>5, OverPays, Cheaper
    <2>6. CASE PopInst
      BY <2>2, <2>3, <2>4, <2>6, InstPays, Cheaper
    <2>7. CASE PopBlock
      BY <2>2, <2>3, <2>4, <2>7, NewPays, Cheaper
    <2>8. CASE NextList
      <3>1. s' = s /\ todo' = todo
        BY <2>8 DEF NextList
      <3>2. Turns' < Turns
        BY <2>2, <2>8, TurnPays
      <3> QED
        BY <2>2, <2>3, <2>4, <3>1, <3>2, Cheaper
    <2>9. ASSUME NEW p \in todo, VisitUser(p)  PROVE Measure' < Measure
      BY <2>2, <2>3, <2>4, <2>9, VisitPays, Cheaper
    <2>10. CASE ResolveUndefs
      BY <2>2, <2>3, <2>4, <2>10, ResolutionPays, Cheaper
    <2> QED
      BY <2>1, <2>5, <2>6, <2>7, <2>8, <2>9, <2>10 DEF Solve
  <1> QED
    BY <1>1, SolverAlways, PTL DEF Spec, AnalysisProgresses

-----------------------------------------------------------------------------
(* The machine: the two modules in step, and what the solver says of both. *)

Numbers == Ints \cup {Undef}

\* Where the original has the number a, the optimized module has it too, and the
\* solver allows it; and the optimized module has the constants of the solver.
Sound(v, a, o) ==
    /\ a \in Numbers /\ o \in Numbers
    /\ a # Undef => o = a /\ Covers(v, a)
    /\ IsConst(v) => o = v.n

Frames ==
    [b : BlockSet, pc : Nat, dst : Registers \cup {"none"}, env : [Registers -> Numbers], opt : [Registers -> Numbers]]

FrameOK(fr) ==
    /\ fr \in Frames /\ fr.b \in s.exec /\ fr.pc \in 1..Len(s.code[fr.b])
    /\ \A x \in Registers : Sound(s.val[x], fr.env[x], fr.opt[x])

\* The result of fr, if it has one, is that of the call the caller is at.
Called(caller, fr) ==
    LET i == s.code[caller.b][caller.pc]
    IN  fr.dst # "none" => i.op = "call" /\ i.sym = FunOf(fr.b) /\ i.dst = fr.dst

StackOK(st) ==
    /\ st \in Seq(Frames)
    /\ \A k \in 1..Len(st) : FrameOK(st[k]) /\ IF k = 1 THEN st[k].dst = "none" ELSE Called(st[k - 1], st[k])

MemoryOK(m, o) ==
    /\ m \in [Globals -> Numbers] /\ o \in [Globals -> Numbers]
    /\ \A g \in Globals : m[g] # Undef => IF g \in erased THEN Covers(s.val[g], m[g]) ELSE o[g] = m[g]

Agreeing == AllUsesReplaced /\ InitializersLowered /\ ForcedStand /\ LoweringHarmless

\* What the steps of the machine take from the analysis.
Analysed == WellFormed(module) /\ Finished /\ Agreeing

LEMMA AnalysedFacts ==
    ASSUME Analysed
    PROVE  /\ WellFormed(module) /\ Base(s) /\ Ready(s) /\ s \in Solvers /\ CodeOK(s.code) /\ s.exec \subseteq BlockSet
           /\ \A p \in Positions(s.code) : ~Resolvable(s, p) /\ (p[1] \in s.exec => Settled(s, p))
           /\ erased = s.tracked /\ zapped \subseteq RetTracked
           /\ s.val \in [Cells -> Values]
  BY DEF Analysed, Finished, Base, Solvers, ReturnsToZap

LEMMA OperandSound ==
    ASSUME NEW fr, FrameOK(fr), NEW o \in Operands
    PROVE  Sound(ValueOf(s, o), Operand(fr.env, o), Operand(fr.opt, o))
  <1>1. CASE o \in Registers
    <2>1. Operand(fr.env, o) = fr.env[o] /\ Operand(fr.opt, o) = fr.opt[o]
      BY <1>1 DEF Operand
    <2>2. ValueOf(s, o) = s.val[o]
      BY <1>1, KindsAssumption DEF ValueOf
    <2> QED
      BY <1>1, <2>1, <2>2 DEF FrameOK
  <1>2. CASE o \in Ints
    <2>1. Operand(fr.env, o) = o /\ Operand(fr.opt, o) = o /\ ValueOf(s, o) = Const(o)
      BY <1>2, KindsAssumption DEF Operand, ValueOf
    <2> QED
      BY <1>2, <2>1, LatticeKinds, CoversFacts DEF Sound, Numbers
  <1>3. CASE o = Undef
    <2>1. Operand(fr.env, o) = Undef /\ Operand(fr.opt, o) = Undef /\ ValueOf(s, o) = Unknown
      BY <1>3, KindsAssumption DEF Operand, ValueOf
    <2> QED
      BY <2>1, LatticeKinds DEF Sound, Numbers
  <1> QED
    BY <1>1, <1>2, <1>3 DEF Operands

\* The instruction a frame is at.
LEMMA FrameFacts ==
    ASSUME Analysed, NEW fr, FrameOK(fr)
    PROVE  LET p == <<fr.b, fr.pc>>
               i == s.code[fr.b][fr.pc]
           IN  /\ p \in Positions(s.code) /\ i = At(s.code, p) /\ i \in Instructions /\ Arity(i)
               /\ Shaped(module, FunOf(fr.b), i) /\ FunOf(fr.b) \in FunctionSet
               /\ Settled(s, p) /\ ~Resolvable(s, p) /\ fr.b \in BlockSet
               /\ i.op \notin Terminators => fr.pc + 1 \in 1..Len(s.code[fr.b])
               /\ i.op \in Terminators => i = Term(s.code, fr.b)
               /\ i.op \in Results => i.dst \in Registers
               /\ \A k \in 1..Len(i.args) : Sound(ValueOf(s, i.args[k]), Operand(fr.env, i.args[k]), Operand(fr.opt, i.args[k]))
  <1> DEFINE p == <<fr.b, fr.pc>>
             i == s.code[fr.b][fr.pc]
  <1>1. fr.b \in s.exec /\ fr.b \in BlockSet /\ fr.pc \in 1..Len(s.code[fr.b])
    BY AnalysedFacts DEF FrameOK
  <1>2. p \in Positions(s.code) /\ i = At(s.code, p)
    BY <1>1 DEF Positions, At
  <1>3. i \in Instructions /\ Arity(i) /\ Shaped(module, FunOf(fr.b), i) /\ FunOf(fr.b) \in FunctionSet
    BY <1>2, AnalysedFacts, CodeFacts
  <1>4. Settled(s, p) /\ ~Resolvable(s, p)
    BY <1>1, <1>2, AnalysedFacts
  <1>5. Term(s.code, fr.b).op \in Terminators /\ (i.op \in Terminators => fr.pc = Len(s.code[fr.b]))
    BY <1>1, AnalysedFacts, TermFacts
  <1>6. s.code[fr.b] \in Seq(Instructions)
    BY <1>1, AnalysedFacts DEF Solvers
  <1>7. i.op \notin Terminators => fr.pc + 1 \in 1..Len(s.code[fr.b])
    BY <1>1, <1>5, <1>6 DEF Term
  <1>8. i.op \in Terminators => i = Term(s.code, fr.b)
    BY <1>5 DEF Term
  <1>9. i.op \in Results => i.dst \in Registers
    BY <1>3, AnalysedFacts, Arguments DEF Arity
  <1>10. ASSUME NEW k \in 1..Len(i.args)
         PROVE  Sound(ValueOf(s, i.args[k]), Operand(fr.env, i.args[k]), Operand(fr.opt, i.args[k]))
    BY <1>3, <1>10, AnalysedFacts, Arguments, OperandSound
  <1> QED
    BY <1>1, <1>2, <1>3, <1>4, <1>7, <1>8, <1>9, <1>10

\* A result a of the original fits x beside w of the optimized module.
Fits(x, a, w) == a # Undef => Covers(s.val[x], a) /\ (s.val[x] = Over => w = a)

LEMMA ShownSound ==
    ASSUME s \in Solvers, NEW x \in Registers, NEW a \in Numbers, NEW w \in Numbers, Fits(x, a, w)
    PROVE  Sound(s.val[x], a, Shown(x, w))
  <1>1. s.val[x] \in Values
    BY DEF Solvers, Cells
  <1>2. CASE s.val[x] = Over
    BY <1>2, LatticeKinds DEF Sound, Shown, Fits
  <1>3. CASE s.val[x] = Unknown
    BY <1>3, LatticeKinds, CoversFacts DEF Sound, Shown, Fits, Numbers
  <1>4. CASE IsConst(s.val[x])
    <2>1. Shown(x, w) = s.val[x].n /\ s.val[x].n \in Numbers
      BY <1>1, <1>4, ValueKinds, LatticeKinds DEF Shown, Numbers
    <2> QED
      BY <1>4, <2>1, CoversFacts DEF Sound, Fits
  <1> QED
    BY <1>1, <1>2, <1>3, <1>4, ValueKinds

\* A frame after an assignment that fits.
LEMMA AssignOK ==
    ASSUME Analysed, NEW fr, FrameOK(fr), NEW x \in Registers, NEW a \in Numbers, NEW w \in Numbers, Fits(x, a, w),
           s.code[fr.b][fr.pc].op \notin Terminators
    PROVE  LET new == Assign(fr, x, a, w) IN FrameOK(new) /\ new.dst = fr.dst /\ new.b = fr.b
  <1> DEFINE new == Assign(fr, x, a, w)
             sh == Shown(x, w)
  <1>1. fr \in Frames /\ fr.pc + 1 \in 1..Len(s.code[fr.b])
    BY FrameFacts DEF FrameOK
  <1>2. Sound(s.val[x], a, sh) /\ sh \in Numbers
    BY AnalysedFacts, ShownSound DEF Sound
  <1> HIDE DEF sh
  <1>3. new = [fr EXCEPT !.env = [fr.env EXCEPT ![x] = a], !.opt = [fr.opt EXCEPT ![x] = sh], !.pc = fr.pc + 1]
    BY <1>1 DEF Assign, sh, Frames
  <1> HIDE DEF new
  <1>4. new.b = fr.b /\ new.pc = fr.pc + 1 /\ new.dst = fr.dst
        /\ new.env = [fr.env EXCEPT ![x] = a] /\ new.opt = [fr.opt EXCEPT ![x] = sh] /\ new \in Frames
    <2> DEFINE e == [fr.env EXCEPT ![x] = a]
               f == [fr.opt EXCEPT ![x] = sh]
    <2>1. e \in [Registers -> Numbers] /\ f \in [Registers -> Numbers]
      BY <1>1, <1>2 DEF Frames
    <2>2. new = [fr EXCEPT !.env = e, !.opt = f, !.pc = fr.pc + 1]
      BY <1>3
    <2> HIDE DEF e, f
    <2>3. fr.pc + 1 \in Nat
      BY <1>1 DEF Frames
    <2>4. new.b = fr.b /\ new.pc = fr.pc + 1 /\ new.dst = fr.dst /\ new.env = e /\ new.opt = f /\ new \in Frames
      BY <1>1, <2>1, <2>2, <2>3 DEF Frames
    <2> QED
      BY <2>4 DEF e, f
  <1>5. ASSUME NEW y \in Registers  PROVE Sound(s.val[y], new.env[y], new.opt[y])
    <2>1. CASE y = x
      <3>1. new.env[y] = a /\ new.opt[y] = sh
        BY <1>1, <1>4, <2>1 DEF Frames
      <3> QED
        BY <1>2, <2>1, <3>1
    <2>2. CASE y # x
      <3>1. new.env[y] = fr.env[y] /\ new.opt[y] = fr.opt[y]
        BY <1>1, <1>4, <2>2 DEF Frames
      <3> QED
        BY <3>1 DEF FrameOK
    <2> QED
      BY <2>1, <2>2
  <1>6. FrameOK(new)
    BY <1>1, <1>4, <1>5 DEF FrameOK
  <1> QED
    BY <1>4, <1>6 DEF new

LEMMA TopReplaced ==
    ASSUME NEW st, StackOK(st), st # <<>>, NEW fr, FrameOK(fr), fr.dst = Last(st).dst, FunOf(fr.b) = FunOf(Last(st).b)
    PROVE  StackOK(Front(st) \o <<fr>>)
  <1> DEFINE n == Len(st)
             f == Front(st)
             q == f \o <<fr>>
  <1>1. st \in Seq(Frames) /\ fr \in Frames
    BY DEF StackOK, FrameOK
  <1>2. f \in Seq(Frames) /\ Len(f) = n - 1 /\ n \in Nat \ {0} /\ Last(st) = st[n] /\ \A k \in 1..(n - 1) : f[k] = st[k]
    BY <1>1, FrontFacts
  <1> HIDE DEF f
  <1>3. q \in Seq(Frames) /\ Len(q) = n /\ q[n] = fr /\ \A k \in 1..(n - 1) : q[k] = st[k]
    BY <1>1, <1>2
  <1> HIDE DEF q, n
  <1>4. ASSUME NEW k \in 1..n  PROVE FrameOK(q[k]) /\ IF k = 1 THEN q[k].dst = "none" ELSE Called(q[k - 1], q[k])
    <2>0. FrameOK(st[k]) /\ IF k = 1 THEN st[k].dst = "none" ELSE Called(st[k - 1], st[k])
      BY DEF StackOK, n
    <2>1. k # 1 => k - 1 \in 1..(n - 1)
      BY <1>2
    <2>2. CASE k = n
      <3>1. q[k] = fr /\ (k # 1 => q[k - 1] = st[k - 1])
        BY <1>3, <2>1, <2>2
      <3> QED
        BY <1>2, <2>0, <2>2, <3>1 DEF Called
    <2>3. CASE k # n
      <3>1. k \in 1..(n - 1)
        BY <1>2, <2>3
      <3>2. q[k] = st[k] /\ (k # 1 => q[k - 1] = st[k - 1])
        BY <1>3, <2>1, <3>1
      <3> QED
        BY <2>0, <3>2
    <2> QED
      BY <2>2, <2>3
  <1> QED
    BY <1>3, <1>4 DEF StackOK, q, f

LEMMA FramePushed ==
    ASSUME NEW st, StackOK(st), NEW fr, FrameOK(fr), IF st = <<>> THEN fr.dst = "none" ELSE Called(Last(st), fr)
    PROVE  StackOK(Append(st, fr))
  <1> DEFINE n == Len(st)
             q == Append(st, fr)
  <1>1. st \in Seq(Frames) /\ fr \in Frames
    BY DEF StackOK, FrameOK
  <1>2. n \in Nat /\ q \in Seq(Frames) /\ Len(q) = n + 1 /\ q[n + 1] = fr /\ (\A k \in 1..n : q[k] = st[k])
        /\ (n = 0 <=> st = <<>>) /\ (n # 0 => Last(st) = st[n])
    BY <1>1 DEF Last
  <1> HIDE DEF q, n
  <1>3. ASSUME NEW k \in 1..(n + 1)  PROVE FrameOK(q[k]) /\ IF k = 1 THEN q[k].dst = "none" ELSE Called(q[k - 1], q[k])
    <2>1. k # 1 => k - 1 \in 1..n /\ q[k - 1] = st[k - 1]
      BY <1>2
    <2>2. CASE k = n + 1
      <3>1. q[k] = fr /\ (k # 1 => k - 1 = n) /\ (k = 1 <=> n = 0)
        BY <1>2, <2>2
      <3> QED
        BY <1>2, <2>1, <3>1
    <2>3. CASE k # n + 1
      <3>1. k \in 1..n
        BY <1>2, <2>3
      <3>2. q[k] = st[k]
        BY <1>2, <3>1
      <3> QED
        BY <2>1, <3>1, <3>2 DEF StackOK, n
    <2> QED
      BY <2>2, <2>3
  <1> QED
    BY <1>2, <1>3 DEF StackOK, q

LEMMA FramePopped ==
    ASSUME NEW st, StackOK(st), st # <<>>
    PROVE  StackOK(Front(st))
  <1> DEFINE n == Len(st)
             q == Front(st)
  <1>1. st \in Seq(Frames)
    BY DEF StackOK
  <1>2. q \in Seq(Frames) /\ Len(q) = n - 1 /\ n \in Nat \ {0} /\ \A k \in 1..(n - 1) : q[k] = st[k]
    BY <1>1, FrontFacts
  <1> HIDE DEF q, n
  <1>3. ASSUME NEW k \in 1..(n - 1)  PROVE FrameOK(q[k]) /\ IF k = 1 THEN q[k].dst = "none" ELSE Called(q[k - 1], q[k])
    <2>1. q[k] = st[k] /\ (k # 1 => q[k - 1] = st[k - 1]) /\ k \in 1..n
      BY <1>2
    <2> QED
      BY <2>1 DEF StackOK, n
  <1> QED
    BY <1>2, <1>3 DEF StackOK, q

-----------------------------------------------------------------------------
(* The results of the operators.                                           *)

\* What the solver says of a number is not Unknown.
LEMMA SoundFacts ==
    ASSUME NEW v \in Values, NEW a, NEW o, Sound(v, a, o), a # Undef
    PROVE  a \in Ints /\ o = a /\ v # Unknown /\ (v = Over \/ (IsConst(v) /\ v.n = a))
  BY ValueKinds, LatticeKinds, CoversFacts DEF Sound, Numbers, Covers

\* What an operator computes in the original, it computes in the optimized module.
LEMMA ResultAgrees ==
    ASSUME NEW op \in BinaryOps \cup Comparisons, NEW a \in Numbers, NEW b \in Numbers, NEW o \in Numbers, NEW p \in Numbers,
           a # Undef => o = a, b # Undef => p = b
    PROVE  /\ Result(op, a, b) \in Numbers
           /\ Result(op, a, b) # Undef => Result(op, o, p) = Result(op, a, b)
  <1>0. \A n \in Ints : n # Undef
    BY KindsAssumption
  <1>1. Absorber(op) \in Ints /\ Absorbing \subseteq BinaryOps
    BY SccpAssumption DEF Absorber, Ints, Absorbing, BinaryOps
  <1>2. CASE a # Undef /\ b # Undef
    <2>1. Result(op, a, b) = Fold(op, a, b) /\ Result(op, o, p) = Fold(op, a, b) /\ a \in Ints /\ b \in Ints
      BY <1>2 DEF Result, Numbers
    <2> QED
      BY <2>1, FoldAssumption DEF Numbers
  <1>3. CASE a = Undef \/ b = Undef
    <2>1. Result(op, a, b) \in Numbers
      BY <1>1, <1>3 DEF Result, Numbers
    <2>2. ASSUME Result(op, a, b) # Undef
          PROVE  Result(op, o, p) = Result(op, a, b)
      <3>1. op \in Absorbing /\ Absorber(op) \in {a, b} /\ Result(op, a, b) = Absorber(op)
        BY <1>3, <2>2 DEF Result
      <3>2. Absorber(op) \in {o, p}
        BY <1>0, <1>1, <3>1
      <3>3. CASE Undef \in {o, p}
        BY <3>1, <3>2, <3>3 DEF Result
      <3>4. CASE Undef \notin {o, p}
        <4>1. o \in Ints /\ p \in Ints /\ Result(op, o, p) = Fold(op, o, p)
          BY <3>4 DEF Result, Numbers
        <4>2. Fold(op, o, p) = Absorber(op)
          BY <3>1, <3>2, <4>1, FoldAssumption
        <4> QED
          BY <3>1, <4>1, <4>2
      <3> QED
        BY <3>3, <3>4
    <2> QED
      BY <2>1, <2>2
  <1> QED
    BY <1>2, <1>3

\* The solver allows what a binary operator computes.
LEMMA BinaryCovered ==
    ASSUME Analysed, NEW fr, FrameOK(fr), s.code[fr.b][fr.pc].op \in BinaryOps
    PROVE  LET i == s.code[fr.b][fr.pc]
               r == Result(i.op, Operand(fr.env, i.args[1]), Operand(fr.env, i.args[2]))
           IN  r # Undef => Covers(s.val[i.dst], r)
  <1> DEFINE i == s.code[fr.b][fr.pc]
             x == ValueOf(s, i.args[1])
             y == ValueOf(s, i.args[2])
             a == Operand(fr.env, i.args[1])
             b == Operand(fr.env, i.args[2])
             o == Operand(fr.opt, i.args[1])
             p == Operand(fr.opt, i.args[2])
             r == Result(i.op, a, b)
             w == WantsBinary(s, i)
             A == Absorber(i.op)
  <1>0. SUFFICES ASSUME r # Undef  PROVE Covers(s.val[i.dst], r)
    OBVIOUS
  <1>1. i \in Instructions /\ Arity(i) /\ Settled(s, <<fr.b, fr.pc>>) /\ i = At(s.code, <<fr.b, fr.pc>>) /\ i.dst \in Registers
        /\ Len(i.args) = 2
    BY FrameFacts DEF Arity, Results
  <1>2. x \in Values /\ y \in Values /\ Sound(x, a, o) /\ Sound(y, b, p)
    <2>1. 1 \in 1..2 /\ 2 \in 1..2
      OBVIOUS
    <2> QED
      BY <1>1, <2>1, FrameFacts, AnalysedFacts, Arguments
  <1>3. Le(w, s.val[i.dst])
    BY <1>1, Operations DEF Settled, Wants, Target, Terminators, Results
  <1>4. s.val[i.dst] \in Values
    BY <1>1, AnalysedFacts, Zenon DEF Cells
  <1>5. Covers(w, r) => Covers(s.val[i.dst], r)
    BY <1>3, CoversFacts
  <1>6. \A n \in Ints : n # Undef
    BY KindsAssumption
  <1>7. A \in Ints
    BY SccpAssumption DEF Absorber, Ints
  <1>10. ASSUME i.op \in Absorbing
         PROVE  /\ x = Unknown /\ Covers(y, A) => Covers(s.val[i.dst], A)
                /\ y = Unknown /\ Covers(x, A) => Covers(s.val[i.dst], A)
    <2>1. fr.b \in s.exec /\ s.code[fr.b] \in Seq(Instructions) /\ fr.pc \in 1..Len(s.code[fr.b]) /\ ForcedStand
      BY AnalysedFacts DEF FrameOK, Analysed, Agreeing, Solvers
    <2>2. fr.pc \in DOMAIN s.code[fr.b]
      BY <2>1
    <2>3. 1 \in 1..2 /\ 2 \in 1..2 /\ 3 - 1 = 2 /\ 3 - 2 = 1
      BY ONLY SMT
    <2>4. \A j \in 1..2 : ValueOf(s, i.args[j]) = Unknown /\ Covers(ValueOf(s, i.args[3 - j]), A) => Covers(s.val[i.dst], A)
      BY <1>10, <2>1, <2>2 DEF ForcedStand
    <2> HIDE DEF i, A
    <2> QED
      BY <2>3, <2>4
  <1>11. w = IF IsConst(x) /\ IsConst(y)
             THEN IF Fold(i.op, x.n, y.n) = Undef THEN Unknown ELSE Const(Fold(i.op, x.n, y.n))
             ELSE IF x # Over /\ y # Over THEN Unknown
             ELSE IF i.op = "udiv" /\ IsConst(x) /\ x.n = 0 THEN Const(0)
             ELSE IF i.op \in Absorbing /\ (IF x # Over THEN x ELSE y) = Unknown THEN Unknown
             ELSE IF i.op \in Absorbing /\ IsConst(IF x # Over THEN x ELSE y) /\ (IF x # Over THEN x ELSE y).n = A
                  THEN Const((IF x # Over THEN x ELSE y).n)
             ELSE Over
    BY DEF WantsBinary
  <1>12. r = IF Undef \notin {a, b} THEN Fold(i.op, a, b)
             ELSE IF i.op \in Absorbing /\ A \in {a, b} THEN A
             ELSE Undef
    BY DEF Result
  <1>13. i.op \in BinaryOps
    OBVIOUS
  <1>14. i.op \in Absorbing => Fold(i.op, A, A) = A /\ \A n \in Ints : Fold(i.op, n, A) = A /\ Fold(i.op, A, n) = A
    BY <1>7, FoldAssumption
  <1> HIDE DEF w, r, a, b, o, p, x, y, A, i
  <1>8. CASE a # Undef /\ b # Undef
    <2>1. /\ a \in Ints /\ b \in Ints /\ x # Unknown /\ y # Unknown /\ r = Fold(i.op, a, b)
          /\ x = Over \/ (IsConst(x) /\ x.n = a)
          /\ y = Over \/ (IsConst(y) /\ y.n = b)
      BY <1>2, <1>8, <1>12, SoundFacts
    <2>2. CASE IsConst(x) /\ IsConst(y)
      <3>1. w = Const(r)
        BY <1>0, <2>1, <2>2, LatticeKinds, <1>11
      <3> QED
        BY <3>1, <1>5, LatticeKinds, CoversFacts
    <2>3. CASE i.op = "udiv" /\ IsConst(x) /\ ~IsConst(y) /\ x.n = 0
      <3>1. w = Const(0)
        BY <2>1, <2>3, LatticeKinds, <1>11
      <3>2. r = 0
        BY <1>0, <2>1, <2>3, LatticeKinds, <1>13, <1>14, FoldAssumption
      <3> QED
        BY <3>1, <3>2, <1>5, LatticeKinds, CoversFacts
    <2>4. CASE i.op \in Absorbing /\ IsConst(x) /\ ~IsConst(y) /\ x.n = A
      <3>1. w = Const(A)
        BY <2>1, <2>4, LatticeKinds, <1>11 DEF Absorbing
      <3>2. r = A
        BY <2>1, <2>4, LatticeKinds, <1>13, <1>14, FoldAssumption
      <3> QED
        BY <3>1, <3>2, <1>5, LatticeKinds, CoversFacts
    <2>5. CASE i.op \in Absorbing /\ IsConst(y) /\ ~IsConst(x) /\ y.n = A
      <3>1. w = Const(A)
        BY <2>1, <2>5, LatticeKinds, <1>11 DEF Absorbing
      <3>2. r = A
        BY <2>1, <2>5, LatticeKinds, <1>13, <1>14, FoldAssumption
      <3> QED
        BY <3>1, <3>2, <1>5, LatticeKinds, CoversFacts
    <2>6. CASE ~(IsConst(x) /\ IsConst(y)) /\ ~(i.op = "udiv" /\ IsConst(x) /\ x.n = 0)
               /\ ~(i.op \in Absorbing /\ IsConst(x) /\ x.n = A) /\ ~(i.op \in Absorbing /\ IsConst(y) /\ y.n = A)
      <3>1. w = Over
        BY <2>1, <2>6, LatticeKinds, <1>11
      <3> QED
        BY <1>5, <3>1, CoversFacts
    <2> QED
      BY <2>2, <2>3, <2>4, <2>5, <2>6
  <1>9. CASE a = Undef \/ b = Undef
    <2>1. i.op \in Absorbing /\ r = A /\ A \in {a, b} /\ i.op # "udiv"
      BY <1>9, <1>0, <1>12 DEF Absorbing
    <2>2. CASE a = Undef /\ b = A
      <3>1. y = Over \/ (IsConst(y) /\ y.n = A)
        BY <1>2, <1>6, <1>7, <2>2, SoundFacts
      <3>2. CASE x = Unknown
        <4>1. Covers(y, A)
          BY <3>1 DEF Covers
        <4>2. Covers(s.val[i.dst], A)
          BY <1>10, <2>1, <3>2, <4>1
        <4> QED
          BY <2>1, <4>2
      <3>3. CASE x # Unknown
        <4>1. CASE IsConst(x) /\ IsConst(y)
          <5>1. x.n \in Ints
            BY <1>2, <4>1, ValueKinds
          <5>2. Fold(i.op, x.n, A) = A
            BY <1>14, <2>1, <5>1
          <5>3. w = Const(A)
            BY <1>6, <1>7, <3>1, <4>1, <5>2, LatticeKinds, <1>11
          <5> QED
            BY <2>1, <5>3, <1>5, LatticeKinds, CoversFacts
        <4>2. CASE ~(IsConst(x) /\ IsConst(y))
          <5>1. x = Over \/ (IsConst(x) /\ y = Over)
            BY <1>2, <3>1, <3>3, <4>2, ValueKinds
          <5>2. w = Const(A) \/ w = Over
            BY <2>1, <3>1, <3>3, <4>2, <5>1, LatticeKinds, <1>11
          <5> QED
            BY <2>1, <5>2, <1>5, LatticeKinds, CoversFacts
        <4> QED
          BY <4>1, <4>2
      <3> QED
        BY <2>1, <3>2, <3>3
    <2>3. CASE b = Undef /\ a = A
      <3>1. x = Over \/ (IsConst(x) /\ x.n = A)
        BY <1>2, <1>6, <1>7, <2>3, SoundFacts
      <3>2. CASE y = Unknown
        <4>1. Covers(x, A)
          BY <3>1 DEF Covers
        <4>2. Covers(s.val[i.dst], A)
          BY <1>10, <2>1, <3>2, <4>1
        <4> QED
          BY <2>1, <4>2
      <3>3. CASE y # Unknown
        <4>1. CASE IsConst(x) /\ IsConst(y)
          <5>1. y.n \in Ints
            BY <1>2, <4>1, ValueKinds
          <5>2. Fold(i.op, A, y.n) = A
            BY <1>14, <2>1, <5>1
          <5>3. w = Const(A)
            BY <1>6, <1>7, <3>1, <4>1, <5>2, LatticeKinds, <1>11
          <5> QED
            BY <2>1, <5>3, <1>5, LatticeKinds, CoversFacts
        <4>2. CASE ~(IsConst(x) /\ IsConst(y))
          <5>1. y = Over \/ (IsConst(y) /\ x = Over)
            BY <1>2, <3>1, <3>3, <4>2, ValueKinds
          <5>2. w = Const(A) \/ w = Over
            BY <2>1, <3>1, <3>3, <4>2, <5>1, LatticeKinds, <1>11, Zenon
          <5> QED
            BY <2>1, <5>2, <1>5, LatticeKinds, CoversFacts
        <4> QED
          BY <4>1, <4>2
      <3> QED
        BY <2>1, <3>2, <3>3
    <2> QED
      BY <1>6, <1>7, <1>9, <2>1, <2>2, <2>3
  <1> QED
    BY <1>8, <1>9, Zenon

\* And what a comparison, a cast or a select computes.
LEMMA CmpCovered ==
    ASSUME Analysed, NEW fr, FrameOK(fr), s.code[fr.b][fr.pc].op \in Comparisons
    PROVE  LET i == s.code[fr.b][fr.pc]
               r == Result(i.op, Operand(fr.env, i.args[1]), Operand(fr.env, i.args[2]))
           IN  r # Undef => Covers(s.val[i.dst], r)
  <1> DEFINE i == s.code[fr.b][fr.pc]
             x == ValueOf(s, i.args[1])
             y == ValueOf(s, i.args[2])
             a == Operand(fr.env, i.args[1])
             b == Operand(fr.env, i.args[2])
             o == Operand(fr.opt, i.args[1])
             p == Operand(fr.opt, i.args[2])
             r == Result(i.op, a, b)
             w == WantsCmp(s, i)
  <1>0. SUFFICES ASSUME r # Undef  PROVE Covers(s.val[i.dst], r)
    OBVIOUS
  <1>1. i \in Instructions /\ Arity(i) /\ Settled(s, <<fr.b, fr.pc>>) /\ i = At(s.code, <<fr.b, fr.pc>>) /\ i.dst \in Registers
        /\ Len(i.args) = 2
    BY FrameFacts DEF Arity, Results
  <1>2. x \in Values /\ y \in Values /\ Sound(x, a, o) /\ Sound(y, b, p)
    <2>1. 1 \in 1..2 /\ 2 \in 1..2
      OBVIOUS
    <2> QED
      BY <1>1, <2>1, FrameFacts, AnalysedFacts, Arguments
  <1>3. Le(w, s.val[i.dst])
    BY <1>1, Operations DEF Settled, Wants, Target, Terminators, Results
  <1>4. Covers(w, r) => Covers(s.val[i.dst], r)
    BY <1>3, CoversFacts
  <1>5. w = IF IsConst(x) /\ IsConst(y) THEN Const(Fold(i.op, x.n, y.n))
            ELSE IF x # Over /\ y # Over THEN Unknown
            ELSE Over
    BY DEF WantsCmp
  <1>6. i.op \notin Absorbing
    BY Operations
  <1>7. r = Fold(i.op, a, b) /\ a # Undef /\ b # Undef
    BY <1>0, <1>6 DEF Result
  <1> HIDE DEF w, r, a, b, o, p, x, y, i
  <1>8. (x = Over \/ (IsConst(x) /\ x.n = a)) /\ (y = Over \/ (IsConst(y) /\ y.n = b))
    BY <1>2, <1>7, SoundFacts
  <1>9. CASE IsConst(x) /\ IsConst(y)
    <2>1. w = Const(r)
      BY <1>5, <1>7, <1>8, <1>9, LatticeKinds
    <2> QED
      BY <1>4, <2>1, LatticeKinds, CoversFacts
  <1>10. CASE ~(IsConst(x) /\ IsConst(y))
    <2>1. w = Over
      BY <1>5, <1>8, <1>10, LatticeKinds
    <2> QED
      BY <1>4, <2>1, CoversFacts
  <1> QED
    BY <1>9, <1>10

LEMMA CastCovered ==
    ASSUME Analysed, NEW fr, FrameOK(fr), s.code[fr.b][fr.pc].op \in Casts
    PROVE  LET i == s.code[fr.b][fr.pc]
               a == Operand(fr.env, i.args[1])
           IN  a # Undef => Covers(s.val[i.dst], FoldCast(i.op, a))
  <1> DEFINE i == s.code[fr.b][fr.pc]
             x == ValueOf(s, i.args[1])
             a == Operand(fr.env, i.args[1])
             o == Operand(fr.opt, i.args[1])
             w == WantsCast(s, i)
  <1>0. SUFFICES ASSUME a # Undef  PROVE Covers(s.val[i.dst], FoldCast(i.op, a))
    OBVIOUS
  <1>1. i \in Instructions /\ Arity(i) /\ Settled(s, <<fr.b, fr.pc>>) /\ i = At(s.code, <<fr.b, fr.pc>>) /\ i.dst \in Registers
        /\ Len(i.args) = 1
    BY FrameFacts DEF Arity, Results
  <1>2. x \in Values /\ Sound(x, a, o)
    <2>1. 1 \in 1..1
      OBVIOUS
    <2> QED
      BY <1>1, <2>1, FrameFacts, AnalysedFacts, Arguments
  <1>3. Le(w, s.val[i.dst])
    BY <1>1, Operations DEF Settled, Wants, Target, Terminators, Results
  <1>4. w = IF x = Unknown THEN Unknown ELSE IF x = Over THEN Over ELSE Const(FoldCast(i.op, x.n))
    BY DEF WantsCast
  <1> HIDE DEF w, a, o, x, i
  <1>5. x # Unknown /\ (x = Over \/ (IsConst(x) /\ x.n = a))
    BY <1>0, <1>2, SoundFacts
  <1>6. w = Over \/ w = Const(FoldCast(i.op, a))
    BY <1>4, <1>5
  <1> QED
    BY ONLY <1>3, <1>6, LatticeKinds, CoversFacts, SMT

LEMMA SelectCovered ==
    ASSUME Analysed, NEW fr, FrameOK(fr), s.code[fr.b][fr.pc].op = "select"
    PROVE  LET i == s.code[fr.b][fr.pc]
               r == Computed(i, fr.env)
           IN  r # Undef => Covers(s.val[i.dst], r)
  <1> DEFINE i == s.code[fr.b][fr.pc]
             c == ValueOf(s, i.args[1])
             x == ValueOf(s, i.args[2])
             y == ValueOf(s, i.args[3])
             d == Operand(fr.env, i.args[1])
             a == Operand(fr.env, i.args[2])
             b == Operand(fr.env, i.args[3])
             r == Computed(i, fr.env)
             w == WantsSelect(s, i)
             v == s.val[i.dst]
  <1>0. SUFFICES ASSUME r # Undef  PROVE Covers(v, r)
    BY Zenon
  <1>1. i \in Instructions /\ Arity(i) /\ Settled(s, <<fr.b, fr.pc>>) /\ i = At(s.code, <<fr.b, fr.pc>>) /\ i.dst \in Registers
        /\ Len(i.args) = 3
    BY FrameFacts, Zenon DEF Arity, Results
  <1>2. /\ c \in Values /\ x \in Values /\ y \in Values
        /\ \E o \in Numbers : Sound(c, d, o)
        /\ \E o \in Numbers : Sound(x, a, o)
        /\ \E o \in Numbers : Sound(y, b, o)
    <2>1. 1 \in 1..3 /\ 2 \in 1..3 /\ 3 \in 1..3
      OBVIOUS
    <2>2. c \in Values /\ x \in Values /\ y \in Values
      BY <1>1, <2>1, AnalysedFacts, Arguments, Zenon
    <2>3. \A k \in 1..3 : \E o \in Numbers : Sound(ValueOf(s, i.args[k]), Operand(fr.env, i.args[k]), o)
      BY <1>1, FrameFacts DEF Sound
    <2> QED
      BY <2>1, <2>2, <2>3
  <1>3. Le(w, v)
    BY <1>1, Operations DEF Settled, Wants, Target, Terminators, Results
  <1>4. w = IF c = Unknown THEN Unknown
            ELSE IF IsConst(c) THEN IF c.n = 0 THEN y ELSE x
            ELSE IF IsConst(x) /\ IsConst(y) /\ x.n = y.n THEN Const(y.n)
            ELSE IF x = Unknown THEN y
            ELSE IF y = Unknown THEN x
            ELSE Over
    BY DEF WantsSelect
  <1>5. r = IF d = Undef THEN (IF a = b THEN a ELSE Undef) ELSE IF d = 0 THEN b ELSE a
    BY Operations, Zenon DEF Computed, Casts
  <1>6. c = Unknown => \A n \in Ints : Covers(x, n) /\ Covers(y, n) => Covers(v, n)
    <2>1. fr.b \in s.exec /\ s.code[fr.b] \in Seq(Instructions) /\ fr.pc \in 1..Len(s.code[fr.b]) /\ ForcedStand
      BY AnalysedFacts DEF FrameOK, Analysed, Agreeing, Solvers
    <2>2. fr.pc \in DOMAIN s.code[fr.b]
      BY ONLY <2>1, SMT
    <2> QED
      BY <2>1, <2>2 DEF ForcedStand
  <1>7. Covers(w, r) => Covers(v, r)
    BY <1>3, CoversFacts
  <1> HIDE DEF w, v, d, a, b, c, x, y, r, i
  <1>8. /\ d # Undef => c # Unknown /\ (c = Over \/ (IsConst(c) /\ c.n = d))
        /\ a # Undef => a \in Ints /\ x # Unknown /\ (x = Over \/ (IsConst(x) /\ x.n = a)) /\ Covers(x, a)
        /\ b # Undef => b \in Ints /\ y # Unknown /\ (y = Over \/ (IsConst(y) /\ y.n = b)) /\ Covers(y, b)
    BY <1>2, SoundFacts DEF Sound
  <1>9. CASE d = Undef
    <2>1. a = b /\ r = a /\ a # Undef /\ Covers(x, r) /\ Covers(y, r) /\ x # Unknown /\ y # Unknown /\ r \in Ints
      BY <1>0, <1>5, <1>8, <1>9
    <2>2. CASE c = Unknown
      BY <1>6, <2>1, <2>2
    <2>3. CASE c # Unknown
      <3>1. w \in {x, y, Over} \/ (IsConst(y) /\ w = Const(y.n))
        BY <1>4, <2>3
      <3>2. Covers(w, r)
        BY <2>1, <3>1, LatticeKinds, CoversFacts
      <3> QED
        BY <1>7, <3>2
    <2> QED
      BY <2>2, <2>3
  <1>10. CASE d # Undef
    <2>1. CASE IsConst(c)
      <3>1. c # Unknown /\ c.n = d /\ w = IF d = 0 THEN y ELSE x
        BY <1>4, <1>8, <1>10, <2>1, LatticeKinds
      <3>2. Covers(w, r)
        BY <1>0, <1>5, <1>8, <1>10, <3>1
      <3> QED
        BY <1>7, <3>2
    <2>2. CASE ~IsConst(c)
      <3>1. c = Over /\ c # Unknown
        BY <1>8, <1>10, <2>2
      <3>2. (r = a /\ a # Undef) \/ (r = b /\ b # Undef)
        BY <1>0, <1>5, <1>10
      <3>3. CASE IsConst(x) /\ IsConst(y) /\ x.n = y.n
        <4>1. w = Const(y.n)
          BY <1>4, <2>2, <3>1, <3>3
        <4>2. r = y.n
          BY <1>8, <3>2, <3>3, LatticeKinds
        <4> QED
          BY <1>7, <4>1, <4>2, LatticeKinds, CoversFacts
      <3>4. CASE ~(IsConst(x) /\ IsConst(y) /\ x.n = y.n)
        <4>1. w = IF x = Unknown THEN y ELSE IF y = Unknown THEN x ELSE Over
          BY <1>4, <2>2, <3>1, <3>4
        <4>2. Covers(w, r)
          BY <1>8, <3>2, <4>1, CoversFacts
        <4> QED
          BY <1>7, <4>2
      <3> QED
        BY <3>3, <3>4
    <2> QED
      BY <2>1, <2>2
  <1> QED
    BY <1>9, <1>10, Zenon

\* What is computed fits its register.
LEMMA ComputedFits ==
    ASSUME Analysed, NEW fr, FrameOK(fr), s.code[fr.b][fr.pc].op \in BinaryOps \cup Comparisons \cup Casts \cup {"select"}
    PROVE  LET i == s.code[fr.b][fr.pc]
               r == Computed(i, fr.env)
               w == Computed(i, fr.opt)
           IN  r \in Numbers /\ w \in Numbers /\ Fits(i.dst, r, w)
  <1> DEFINE i == s.code[fr.b][fr.pc]
             r == Computed(i, fr.env)
             w == Computed(i, fr.opt)
             a(k) == Operand(fr.env, i.args[k])
             o(k) == Operand(fr.opt, i.args[k])
  <1> SUFFICES r \in Numbers /\ w \in Numbers /\ Fits(i.dst, r, w)
    OBVIOUS
  <1>1. Arity(i)
    BY FrameFacts
  <1>2. \A k \in 1..Len(i.args) : a(k) \in Numbers /\ o(k) \in Numbers /\ (a(k) # Undef => o(k) = a(k) /\ a(k) \in Ints)
    BY FrameFacts DEF Sound, Numbers
  <1>3. CASE i.op \in BinaryOps \cup Comparisons
    <2>1. Len(i.args) = 2 /\ 1 \in 1..2 /\ 2 \in 1..2
      BY ONLY <1>1, <1>3, SMT DEF Arity
    <2>2. r = Result(i.op, a(1), a(2)) /\ w = Result(i.op, o(1), o(2))
      BY <1>3, Operations, Zenon DEF Computed
    <2>3. r # Undef => Covers(s.val[i.dst], r)
      BY <1>3, <2>2, BinaryCovered, CmpCovered
    <2>4. r \in Numbers /\ (r # Undef => w = r)
      <3>1. /\ a(1) \in Numbers /\ o(1) \in Numbers /\ (a(1) # Undef => o(1) = a(1))
            /\ a(2) \in Numbers /\ o(2) \in Numbers /\ (a(2) # Undef => o(2) = a(2))
        BY <1>2, <2>1
      <3> HIDE DEF r, w, a, o
      <3> QED
        BY <1>3, <2>2, <3>1, ResultAgrees
    <2>5. w \in Numbers
      <3>1. w = Result(i.op, o(1), o(2)) /\ o(1) \in Numbers /\ o(2) \in Numbers
        BY <1>2, <2>1, <2>2
      <3> HIDE DEF w, o
      <3> QED
        BY <1>3, <3>1, ResultAgrees
    <2> QED
      BY <2>3, <2>4, <2>5 DEF Fits
  <1>4. CASE i.op \in Casts
    <2>1. Len(i.args) = 1 /\ 1 \in 1..1
      BY <1>1, <1>4 DEF Arity
    <2>2. r = (IF a(1) = Undef THEN Undef ELSE FoldCast(i.op, a(1))) /\ w = (IF o(1) = Undef THEN Undef ELSE FoldCast(i.op, o(1)))
      BY <1>4 DEF Computed
    <2>3. a(1) # Undef => Covers(s.val[i.dst], FoldCast(i.op, a(1)))
      BY <1>4, CastCovered
    <2>4. a(1) \in Numbers /\ o(1) \in Numbers /\ (a(1) # Undef => o(1) = a(1))
      BY <1>2, <2>1
    <2> HIDE DEF r, w, a, o
    <2> QED
      BY <1>4, <2>2, <2>3, <2>4, FoldAssumption DEF Fits, Numbers
  <1>5. CASE i.op = "select"
    <2>1. Len(i.args) = 3 /\ 1 \in 1..3 /\ 2 \in 1..3 /\ 3 \in 1..3
      BY ONLY <1>1, <1>5, SMT DEF Arity
    <2>2. /\ r = IF a(1) = Undef THEN (IF a(2) = a(3) THEN a(2) ELSE Undef) ELSE IF a(1) = 0 THEN a(3) ELSE a(2)
          /\ w = IF o(1) = Undef THEN (IF o(2) = o(3) THEN o(2) ELSE Undef) ELSE IF o(1) = 0 THEN o(3) ELSE o(2)
      BY <1>5, Operations DEF Computed
    <2>3. r # Undef => Covers(s.val[i.dst], r)
      BY <1>5, SelectCovered, Zenon
    <2>4. /\ a(1) \in Numbers /\ o(1) \in Numbers /\ (a(1) # Undef => o(1) = a(1))
          /\ a(2) \in Numbers /\ o(2) \in Numbers /\ (a(2) # Undef => o(2) = a(2))
          /\ a(3) \in Numbers /\ o(3) \in Numbers /\ (a(3) # Undef => o(3) = a(3))
      BY <1>2, <2>1
    <2> HIDE DEF r, w, a, o
    <2>5. r \in Numbers /\ w \in Numbers /\ (r # Undef => w = r)
      BY <2>2, <2>4 DEF Numbers
    <2> QED
      BY <2>3, <2>5 DEF Fits
  <1> QED
    BY <1>3, <1>4, <1>5

-----------------------------------------------------------------------------
(* The steps of the machine.                                               *)

Machine == StackOK(stack) /\ MemoryOK(memory, optimized)

LEMMA TopFacts ==
    ASSUME Machine, Running
    PROVE  stack # <<>> /\ stack \in Seq(Frames) /\ FrameOK(Top) /\ Top \in Frames /\ Len(stack) \in 1..Len(stack) /\ Top = stack[Len(stack)]
  <1>1. stack # <<>> /\ stack \in Seq(Frames)
    BY DEF Running, Machine, StackOK
  <1>2. Len(stack) \in 1..Len(stack) /\ Top = stack[Len(stack)]
    BY <1>1 DEF Top, Last
  <1> QED
    BY <1>1, <1>2 DEF Machine, StackOK, FrameOK

\* A result that fits is assigned.
LEMMA ResultAssigned ==
    ASSUME Analysed, Machine, Running, Instr.op \in Results, NEW a \in Numbers, NEW w \in Numbers, Fits(Instr.dst, a, w),
           SetTop(Assign(Top, Instr.dst, a, w))
    PROVE  StackOK(stack')
  <1> DEFINE new == Assign(Top, Instr.dst, a, w)
  <1>1. FrameOK(Top) /\ stack # <<>>
    BY TopFacts, Zenon
  <1>2. Instr.dst \in Registers /\ Instr.op \notin Terminators
    BY <1>1, FrameFacts, Operations DEF Instr
  <1>3. FrameOK(new) /\ new.dst = Top.dst /\ new.b = Top.b
    BY <1>1, <1>2, AssignOK DEF Instr
  <1>4. stack' = Front(stack) \o <<new>>
    BY DEF SetTop
  <1> HIDE DEF new
  <1> QED
    BY <1>1, <1>3, <1>4, TopReplaced DEF Machine, Top

LEMMA ComputeOK ==
    ASSUME Analysed, Machine, Compute
    PROVE  StackOK(stack')
  <1>1. FrameOK(Top) /\ Running /\ Instr.op \in BinaryOps \cup Comparisons \cup Casts \cup {"select"}
    BY TopFacts DEF Compute
  <1>2. Computed(Instr, Top.env) \in Numbers /\ Computed(Instr, Top.opt) \in Numbers
        /\ Fits(Instr.dst, Computed(Instr, Top.env), Computed(Instr, Top.opt))
    BY <1>1, ComputedFits DEF Instr
  <1>3. Instr.op \in Results
    BY <1>1 DEF Results
  <1> QED
    BY <1>1, <1>2, <1>3, ResultAssigned DEF Compute

LEMMA LoadOK ==
    ASSUME Analysed, Machine, Load
    PROVE  StackOK(stack')
  <1> DEFINE g == Instr.sym
             p == <<Top.b, Top.pc>>
  <1>1. FrameOK(Top) /\ Running /\ Instr.op = "load" /\ Instr.op \in Results
    BY TopFacts, Zenon DEF Load, Results
  <1>2. /\ Settled(s, p) /\ Instr = At(s.code, p) /\ g \in Globals /\ Instr.dst \in Registers /\ Instr \in Instructions
        /\ Top.b \in s.exec /\ p \in Positions(s.code)
    BY <1>1, FrameFacts DEF Instr, Arity, FrameOK
  <1>3. Le(IF g \in s.tracked THEN s.val[g] ELSE Over, s.val[Instr.dst])
    BY <1>1, <1>2, Operations DEF Settled, Wants, Target, Terminators
  <1>4. memory[g] \in Numbers /\ optimized[g] \in Numbers
        /\ (memory[g] # Undef => IF g \in erased THEN Covers(s.val[g], memory[g]) ELSE optimized[g] = memory[g])
    BY <1>2 DEF Machine, MemoryOK
  <1>5. erased = s.tracked
    BY AnalysedFacts
  <1>6. CASE g \in erased
    <2>1. s.val[Instr.dst] # Over
      <3>1. s.code[Top.b] \in Seq(Instructions) /\ Top.pc \in 1..Len(s.code[Top.b])
        BY <1>1, <1>2, AnalysedFacts DEF FrameOK, Solvers
      <3>2. Top.pc \in DOMAIN s.code[Top.b] /\ AllUsesReplaced
        BY <3>1 DEF Analysed, Agreeing
      <3> QED
        BY <1>1, <1>2, <1>6, <3>2 DEF AllUsesReplaced, Instr
    <2>2. Fits(Instr.dst, memory[g], optimized[g])
      BY <1>3, <1>4, <1>5, <1>6, <2>1, CoversFacts DEF Fits
    <2> QED
      BY <1>1, <1>4, <2>2, ResultAssigned DEF Load
  <1>7. CASE g \notin erased
    <2>1. Fits(Instr.dst, memory[g], optimized[g])
      BY <1>3, <1>4, <1>5, <1>7, CoversFacts DEF Fits
    <2> QED
      BY <1>1, <1>4, <2>1, ResultAssigned DEF Load
  <1> QED
    BY <1>6, <1>7

LEMMA StoreOK ==
    ASSUME Analysed, Machine, Store, reset' = {}
    PROVE  StackOK(stack') /\ MemoryOK(memory', optimized')
  <1> DEFINE g == Instr.sym
             p == <<Top.b, Top.pc>>
             v == ValueOf(s, Instr.args[1])
             a == Operand(Top.env, Instr.args[1])
             o == Operand(Top.opt, Instr.args[1])
             new == [Top EXCEPT !.pc = @ + 1]
  <1>1. FrameOK(Top) /\ Running /\ Instr.op = "store" /\ Instr.op \notin Terminators /\ stack # <<>> /\ Top \in Frames
    BY TopFacts DEF Store, Terminators
  <1>2. /\ Settled(s, p) /\ Instr = At(s.code, p) /\ g \in Globals /\ Instr \in Instructions /\ Len(Instr.args) = 1
        /\ Top.pc + 1 \in 1..Len(s.code[Top.b])
    BY <1>1, FrameFacts DEF Instr, Arity
  <1>3. Sound(v, a, o)
    <2>1. 1 \in 1..1
      OBVIOUS
    <2> QED
      BY <1>1, <1>2, <2>1, FrameFacts DEF Instr
  <1>4. g \in s.tracked => Le(v, s.val[g])
    BY <1>1, <1>2, Operations DEF Settled, Wants, Target, Terminators
  <1>5. StackOK(stack')
    <2>1. new.b = Top.b /\ new.pc = Top.pc + 1 /\ new.dst = Top.dst /\ new.env = Top.env /\ new.opt = Top.opt /\ new \in Frames
      BY <1>1 DEF Frames
    <2>2. stack' = Front(stack) \o <<new>>
      BY DEF Store, SetTop
    <2> HIDE DEF new
    <2>3. FrameOK(new)
      BY <1>1, <1>2, <2>1 DEF FrameOK
    <2> QED
      BY <1>1, <2>1, <2>2, <2>3, TopReplaced DEF Machine, Top
  <1>6. /\ memory' = [memory EXCEPT ![g] = a]
        /\ optimized' = IF g \in erased THEN optimized ELSE [optimized EXCEPT ![g] = o]
    <2>1. CASE ~Inserted
      BY <2>1 DEF Store
    \* The original finds there what the inserted store stores.
    <2>2. CASE Inserted
      <3>1. memory[g] = a
        BY <2>2 DEF Store
      <3>2. memory \in [Globals -> Numbers] /\ memory' = memory
        BY <2>2 DEF Store, Machine, MemoryOK
      <3> HIDE DEF a, g
      <3>3. memory' = [memory EXCEPT ![g] = a]
        BY <1>2, <3>1, <3>2
      <3> QED
        BY <3>3 DEF Store, a, g
    <2> QED
      BY <2>1, <2>2
  <1>7. /\ erased = s.tracked
        /\ memory \in [Globals -> Numbers] /\ optimized \in [Globals -> Numbers]
        /\ \A h \in Globals : memory[h] # Undef => IF h \in erased THEN Covers(s.val[h], memory[h]) ELSE optimized[h] = memory[h]
    BY AnalysedFacts DEF Machine, MemoryOK
  <1>8. a \in Numbers /\ o \in Numbers /\ (a # Undef => o = a /\ Covers(v, a))
    BY <1>3 DEF Sound
  <1> HIDE DEF a, o, v, g
  <1>9. memory' \in [Globals -> Numbers] /\ optimized' \in [Globals -> Numbers]
    BY <1>2, <1>6, <1>7, <1>8
  <1>10. ASSUME NEW h \in Globals, memory'[h] # Undef
         PROVE  IF h \in erased THEN Covers(s.val[h], memory'[h]) ELSE optimized'[h] = memory'[h]
    <2>1. CASE h = g
      <3>1. memory'[h] = a /\ (h \notin erased => optimized'[h] = o)
        BY <1>6, <1>7, <1>10, <2>1
      <3> QED
        BY <1>4, <1>7, <1>8, <1>10, <2>1, <3>1, CoversFacts
    <2>2. CASE h # g
      <3>1. memory'[h] = memory[h] /\ optimized'[h] = optimized[h]
        BY <1>6, <1>7, <1>10, <2>2
      <3> QED
        BY <1>7, <1>10, <3>1
    <2> QED
      BY <2>1, <2>2
  <1>11. MemoryOK(memory', optimized')
    BY <1>9, <1>10 DEF MemoryOK
  <1> QED
    BY <1>5, <1>11

\* The successors the two modules may take are feasible.
LEMMA TakenFeasible ==
    ASSUME Analysed, Machine, Running, Instr.op \in {"jmp", "br", "switch"}
    PROVE  Taken \subseteq FeasibleSuccessors(s, Instr)
  <1> DEFINE V == ValueOf(s, Instr.args[1])
             v == Operand(Top.env, Instr.args[1])
             o == Operand(Top.opt, Instr.args[1])
             decided == IF v = Undef THEN o ELSE v
             cases == {k \in 2..Len(Instr.args) : Instr.args[k] = decided}
  <1>1. FrameOK(Top)
    BY TopFacts
  <1>2. /\ Instr \in Instructions /\ Arity(Instr) /\ Shaped(module, FunOf(Top.b), Instr)
        /\ ~Resolvable(s, <<Top.b, Top.pc>>) /\ Instr = At(s.code, <<Top.b, Top.pc>>) /\ Top.b \in s.exec
    BY <1>1, FrameFacts DEF Instr, FrameOK
  <1>3. CASE Instr.op = "jmp"
    <2>1. FeasibleSuccessors(s, Instr) = ToSet(Instr.to)
      BY <1>3, LatticeKinds DEF FeasibleSuccessors
    <2>2. Taken = ToSet(Instr.to)
      BY <1>3 DEF Taken
    <2> QED
      BY <2>1, <2>2
  <1>4. CASE Instr.op \in {"br", "switch"}
    <2>1. 1 \in 1..Len(Instr.args)
      <3>1. Len(Instr.args) \in Nat /\ (Instr.op = "br" => Len(Instr.args) = 1) /\ (Instr.op = "switch" => Len(Instr.args) = Len(Instr.to) /\ Len(Instr.to) > 1)
        BY <1>2 DEF Instructions, Shaped
      <3> QED
        BY <1>4, <3>1
    <2>2. V \in Values /\ Sound(V, v, o)
      BY <1>1, <1>2, <2>1, FrameFacts, AnalysedFacts, Arguments DEF Instr
    <2>3. V # Unknown
      BY <1>2, <1>4 DEF Resolvable
    <2>4. Taken = IF decided = Undef THEN ToSet(Instr.to) ELSE SuccessorsFor(Instr, decided)
      BY <1>4 DEF Taken, SuccessorsFor
    <2>5. FeasibleSuccessors(s, Instr) = IF V = Over THEN ToSet(Instr.to) ELSE SuccessorsFor(Instr, V.n)
      BY <1>4, <2>3 DEF FeasibleSuccessors
    <2>6. SuccessorsFor(Instr, decided) \subseteq ToSet(Instr.to)
      BY <1>2, <1>4, SuccessorsOf
    <2> HIDE DEF V, v, o
    <2>7. CASE V = Over
      BY <2>4, <2>5, <2>6, <2>7
    <2>8. CASE V # Over
      <3>1. IsConst(V) /\ V.n \in Ints
        BY <2>2, <2>3, <2>8, ValueKinds
      <3>2. o = V.n /\ (v # Undef => v = V.n)
        BY <2>2, <3>1 DEF Sound
      <3>3. decided = V.n /\ V.n # Undef
        BY <3>1, <3>2, KindsAssumption
      <3> HIDE DEF decided
      <3> QED
        BY <2>4, <2>5, <2>8, <3>3
    <2> QED
      BY <2>7, <2>8
  <1> QED
    BY <1>3, <1>4

\* Where a feasible jump leads.
LEMMA JumpTarget ==
    ASSUME Analysed, NEW fr, FrameOK(fr), s.code[fr.b][fr.pc].op \in {"jmp", "br", "switch"},
           NEW to \in FeasibleSuccessors(s, s.code[fr.b][fr.pc])
    PROVE  /\ <<fr.b, to>> \in s.edges /\ to \in s.exec /\ to \in BlockSet /\ FunOf(to) = FunOf(fr.b)
           /\ \A k \in 1..Len(s.code[to]) : s.code[to][k].op = "phi" => fr.b \in ToSet(s.code[to][k].to)
  <1> DEFINE i == s.code[fr.b][fr.pc]
             p == <<fr.b, fr.pc>>
  <1>1. /\ Settled(s, p) /\ i = At(s.code, p) /\ i = Term(s.code, fr.b) /\ Shaped(module, FunOf(fr.b), i)
        /\ FunOf(fr.b) \in FunctionSet /\ fr.b \in BlockSet /\ p \in Positions(s.code)
    BY FrameFacts DEF Terminators
  <1>2. <<fr.b, to>> \in s.edges
    BY <1>1 DEF Settled
  <1>3. to \in s.exec /\ to \in BlockSet
    <2>1. <<fr.b, to>>[2] \in s.exec
      BY <1>2, AnalysedFacts DEF Base
    <2> QED
      BY <2>1, AnalysedFacts
  <1>4. to \in ToSet(i.to)
    BY <1>1, AnalysedFacts, FeasibleIn
  <1>5. FunOf(to) = FunOf(fr.b)
    <2>1. to \in ToSet(module.blocks[FunOf(fr.b)])
      BY <1>1, <1>4 DEF Shaped
    <2> QED
      BY <1>1, <2>1, AnalysedFacts, ModuleFacts
  <1>6. BlockShaped(module, s.code, FunOf(fr.b), fr.b)
    BY <1>1, AnalysedFacts, CodeFacts
  <1>7. \A k \in DOMAIN s.code[to] : s.code[to][k].op = "phi" => fr.b \in ToSet(s.code[to][k].to)
    BY <1>1, <1>4, <1>6 DEF BlockShaped, Term
  <1>8. DOMAIN s.code[to] = 1..Len(s.code[to])
    BY <1>3, AnalysedFacts DEF Solvers
  <1> QED
    BY <1>2, <1>3, <1>5, <1>7, <1>8

\* The phis of a block are not all of it.
LEMMA PhisBefore ==
    ASSUME Analysed, NEW to \in BlockSet
    PROVE  LET phis == {k \in DOMAIN s.code[to] : s.code[to][k].op = "phi"}
           IN  Cardinality(phis) + 1 \in 1..Len(s.code[to])
  <1> DEFINE phis == {k \in DOMAIN s.code[to] : s.code[to][k].op = "phi"}
             n == Len(s.code[to])
  <1>1. n \in 1..n /\ s.code[to] \in Seq(Instructions) /\ DOMAIN s.code[to] = 1..n /\ s.code[to][n].op \in Terminators
    <2>1. s.code[to] \in Seq(Instructions)
      BY AnalysedFacts DEF Solvers
    <2>2. n \in 1..n /\ Term(s.code, to).op \in Terminators
      BY AnalysedFacts, TermFacts
    <2> QED
      BY <2>1, <2>2 DEF Term
  <1>2. phis \subseteq 1..(n - 1)
    <2> SUFFICES ASSUME NEW k \in phis  PROVE k \in 1..(n - 1)
      OBVIOUS
    <2>1. k \in 1..n /\ s.code[to][k].op = "phi"
      BY <1>1
    <2>2. k # n
      BY <1>1, <2>1 DEF Terminators
    <2> QED
      BY <1>1, <2>1, <2>2
  <1> HIDE DEF phis, n
  <1>3. n - 1 \in Nat /\ IsFiniteSet(1..(n - 1)) /\ Cardinality(1..(n - 1)) = n - 1
    <2>1. n - 1 \in Nat /\ 1 \in Int /\ n - 1 \in Int
      BY <1>1
    <2>2. IsFiniteSet(1..(n - 1)) /\ Cardinality(1..(n - 1)) = IF 1 > n - 1 THEN 0 ELSE (n - 1) - 1 + 1
      BY <2>1, FS_Interval
    <2> QED
      BY <2>1, <2>2
  <1>4. Cardinality(phis) \in Nat /\ Cardinality(phis) <= n - 1
    BY <1>2, <1>3, FS_Subset, FS_CardinalityType
  <1> QED
    BY <1>1, <1>3, <1>4 DEF phis, n

\* What a phi is assigned fits.
LEMMA PhiFits ==
    ASSUME Analysed, NEW fr, FrameOK(fr), NEW to \in s.exec, <<fr.b, to>> \in s.edges,
           NEW k \in 1..Len(s.code[to]), s.code[to][k].op = "phi", fr.b \in ToSet(s.code[to][k].to)
    PROVE  LET i == s.code[to][k]
               o == i.args[CHOOSE j \in DOMAIN i.to : i.to[j] = fr.b]
           IN  /\ i.dst \in Registers
               /\ Operand(fr.env, o) \in Numbers /\ Operand(fr.opt, o) \in Numbers
               /\ Fits(i.dst, Operand(fr.env, o), Operand(fr.opt, o))
  <1> DEFINE i == s.code[to][k]
             j == CHOOSE j \in DOMAIN i.to : i.to[j] = fr.b
             o == i.args[j]
             a == Operand(fr.env, o)
             w == Operand(fr.opt, o)
             p == <<to, k>>
  <1>1. p \in Positions(s.code) /\ At(s.code, p) = i /\ to \in BlockSet
    BY AnalysedFacts DEF Positions, At
  <1>2. i \in Instructions /\ Arity(i)
    BY <1>1, AnalysedFacts, CodeFacts
  <1>3. j \in DOMAIN i.to /\ i.to[j] = fr.b
    BY DEF ToSet
  <1>4. j \in 1..Len(i.to) /\ Len(i.to) = Len(i.args) /\ i.dst \in Registers
    BY <1>2, <1>3, AnalysedFacts, Arguments DEF Arity, Results
  <1>5. Settled(s, p) /\ p[1] = to
    BY <1>1, AnalysedFacts
  <1>6. s.val[i.dst] = Over \/ Le(ValueOf(s, i.args[j]), s.val[i.dst])
    <2>1. \/ s.val[i.dst] = Over
          \/ \A h \in 1..Len(i.to) : <<i.to[h], to>> \in s.edges => Le(ValueOf(s, i.args[h]), s.val[i.dst])
      BY <1>1, <1>5 DEF Settled
    <2> HIDE DEF j, i
    <2> QED
      BY <1>3, <1>4, <2>1
  <1>7. o \in Operands
    BY <1>2, <1>4, AnalysedFacts, Arguments
  <1>8. Sound(ValueOf(s, o), a, w)
    BY <1>7, OperandSound, Zenon
  <1>9. Fits(i.dst, a, w)
    <2> HIDE DEF a, w
    <2> QED
      BY <1>6, <1>8, CoversFacts DEF Fits, Sound
  <1> QED
    BY <1>4, <1>8, <1>9 DEF Sound

LEMMA JumpOK ==
    ASSUME Analysed, NEW fr, FrameOK(fr), s.code[fr.b][fr.pc].op \in {"jmp", "br", "switch"},
           NEW to \in FeasibleSuccessors(s, s.code[fr.b][fr.pc])
    PROVE  LET new == Jumped(fr, to) IN FrameOK(new) /\ new.dst = fr.dst /\ FunOf(new.b) = FunOf(fr.b)
  <1> DEFINE phis == {k \in DOMAIN s.code[to] : s.code[to][k].op = "phi"}
             of(x) == CHOOSE i \in {s.code[to][k] : k \in phis} : i.dst = x
             from(i) == CHOOSE j \in DOMAIN i.to : i.to[j] = fr.b
             assigned == {s.code[to][k].dst : k \in phis}
             in(env, x) == Operand(env, of(x).args[from(of(x))])
             e == [x \in Registers |-> IF x \in assigned THEN in(fr.env, x) ELSE fr.env[x]]
             f == [x \in Registers |-> IF x \in assigned THEN Shown(x, in(fr.opt, x)) ELSE fr.opt[x]]
             new == Jumped(fr, to)
  <1>1. <<fr.b, to>> \in s.edges /\ to \in s.exec /\ to \in BlockSet /\ FunOf(to) = FunOf(fr.b)
        /\ \A k \in 1..Len(s.code[to]) : s.code[to][k].op = "phi" => fr.b \in ToSet(s.code[to][k].to)
    BY JumpTarget
  <1>2. DOMAIN s.code[to] = 1..Len(s.code[to])
    BY <1>1, AnalysedFacts DEF Solvers
  <1>3. Cardinality(phis) + 1 \in 1..Len(s.code[to])
    BY <1>1, PhisBefore
  <1>4. fr \in Frames
    BY DEF FrameOK
  <1>5. ASSUME NEW x \in assigned
        PROVE  /\ x \in Registers /\ in(fr.env, x) \in Numbers /\ in(fr.opt, x) \in Numbers
               /\ Fits(x, in(fr.env, x), in(fr.opt, x))
    <2>1. of(x) \in {s.code[to][k] : k \in phis} /\ of(x).dst = x
      OBVIOUS
    <2>2. PICK k \in phis : of(x) = s.code[to][k]
      BY <2>1
    <2>3. k \in 1..Len(s.code[to]) /\ s.code[to][k].op = "phi" /\ fr.b \in ToSet(s.code[to][k].to)
      BY <1>1, <1>2, Zenon
    <2> DEFINE i == s.code[to][k]
               o == i.args[CHOOSE j \in DOMAIN i.to : i.to[j] = fr.b]
    <2>4. /\ i.dst \in Registers
          /\ Operand(fr.env, o) \in Numbers /\ Operand(fr.opt, o) \in Numbers
          /\ Fits(i.dst, Operand(fr.env, o), Operand(fr.opt, o))
      <3> HIDE DEF phis, of, from, assigned, in
      <3> QED
        BY <1>1, <2>3, PhiFits
    <2>5. in(fr.env, x) = Operand(fr.env, o) /\ in(fr.opt, x) = Operand(fr.opt, o) /\ i.dst = x
      BY <2>1, <2>2
    <2> HIDE DEF i, o, in, of, from
    <2> QED
      BY <2>4, <2>5
  <1>6. \A x \in assigned : Sound(s.val[x], in(fr.env, x), Shown(x, in(fr.opt, x)))
    <2> HIDE DEF in, of, from, assigned
    <2> QED
      BY <1>5, AnalysedFacts, ShownSound
  <1>7. \A x \in Registers : fr.env[x] \in Numbers /\ fr.opt[x] \in Numbers /\ Sound(s.val[x], fr.env[x], fr.opt[x])
    BY DEF FrameOK, Sound
  <1>8. \A x \in Registers : Sound(s.val[x], e[x], f[x]) /\ e[x] \in Numbers /\ f[x] \in Numbers
    <2> HIDE DEF in, of, from, assigned
    <2> QED
      BY <1>6, <1>7 DEF Sound
  <1>9. new = [fr EXCEPT !.b = to, !.pc = Cardinality(phis) + 1, !.env = e, !.opt = f]
    BY <1>4 DEF Jumped, Frames
  <1>10. e \in [Registers -> Numbers] /\ f \in [Registers -> Numbers]
    <2> HIDE DEF in, of, from, assigned
    <2> QED
      BY <1>8
  <1> DEFINE n == Cardinality(phis) + 1
  <1> HIDE DEF e, f, new, phis, n
  <1>11. new.b = to /\ new.pc = n /\ new.dst = fr.dst /\ new.env = e /\ new.opt = f /\ new \in Frames
    <2>1. n \in Nat /\ new = [fr EXCEPT !.b = to, !.pc = n, !.env = e, !.opt = f]
      BY <1>3, <1>9 DEF n
    <2> QED
      BY <1>1, <1>4, <1>10, <2>1 DEF Frames
  <1>12. FrameOK(new)
    BY <1>1, <1>3, <1>8, <1>11 DEF FrameOK, n
  <1> QED
    BY <1>1, <1>11, <1>12 DEF new

LEMMA BranchOK ==
    ASSUME Analysed, Machine, Branch
    PROVE  StackOK(stack')
  <1>1. FrameOK(Top) /\ Running /\ stack # <<>> /\ Instr.op \in {"jmp", "br", "switch"}
    BY TopFacts DEF Branch
  <1>2. PICK to \in Taken : SetTop(Jumped(Top, to))
    BY DEF Branch
  <1> DEFINE new == Jumped(Top, to)
  <1>3. to \in FeasibleSuccessors(s, Instr)
    BY <1>1, TakenFeasible
  <1>4. FrameOK(new) /\ new.dst = Top.dst /\ FunOf(new.b) = FunOf(Top.b)
    BY <1>1, <1>3, JumpOK DEF Instr
  <1>5. stack' = Front(stack) \o <<new>>
    BY <1>2 DEF SetTop
  <1> HIDE DEF new
  <1> QED
    BY <1>1, <1>4, <1>5, TopReplaced DEF Machine, Top

\* The frame of a call whose arguments fit the parameters.
LEMMA EnterOK ==
    ASSUME Analysed, NEW f \in FunctionSet, EntryOf(f) \in s.exec, NEW a, NEW o, NEW dst \in Registers \cup {"none"},
           \A k \in 1..Len(module.params[f]) : a[k] \in Numbers /\ o[k] \in Numbers /\ Fits(module.params[f][k], a[k], o[k])
    PROVE  LET new == Entered(f, a, o, dst) IN FrameOK(new) /\ new.dst = dst /\ FunOf(new.b) = f
  <1> DEFINE given(v, x) == IF x \notin ToSet(module.params[f]) THEN Undef
                            ELSE v[CHOOSE k \in DOMAIN module.params[f] : module.params[f][k] = x]
             e == [x \in Registers |-> given(a, x)]
             h == [x \in Registers |-> Shown(x, given(o, x))]
             new == Entered(f, a, o, dst)
             b == EntryOf(f)
  <1>1. /\ module.params[f] \in Seq(Registers) /\ DOMAIN module.params[f] = 1..Len(module.params[f])
        /\ b \in BlockSet /\ FunOf(b) = f
    BY AnalysedFacts, ModuleFacts
  <1>2. 1 \in 1..Len(s.code[b])
    <2>1. s.code[b] \in Seq(Instructions) /\ Len(s.code[b]) \in 1..Len(s.code[b])
      BY <1>1, AnalysedFacts, TermFacts DEF Solvers
    <2> QED
      BY <2>1
  <1>3. ASSUME NEW x \in Registers  PROVE given(a, x) \in Numbers /\ given(o, x) \in Numbers /\ Fits(x, given(a, x), given(o, x))
    <2>1. CASE x \notin ToSet(module.params[f])
      BY <2>1 DEF Numbers, Fits
    <2>2. CASE x \in ToSet(module.params[f])
      <3> DEFINE k == CHOOSE k \in DOMAIN module.params[f] : module.params[f][k] = x
      <3>1. k \in DOMAIN module.params[f] /\ module.params[f][k] = x
        BY <2>2 DEF ToSet
      <3>2. given(a, x) = a[k] /\ given(o, x) = o[k]
        BY <2>2
      <3> HIDE DEF given, k
      <3> QED
        BY <1>1, <3>1, <3>2
    <2> QED
      BY <2>1, <2>2
  <1>4. \A x \in Registers : Sound(s.val[x], given(a, x), Shown(x, given(o, x)))
    <2> HIDE DEF given
    <2> QED
      BY <1>3, AnalysedFacts, ShownSound
  <1>5. new = [b |-> b, pc |-> 1, dst |-> dst, env |-> e, opt |-> h]
    BY DEF Entered
  <1>6. \A x \in Registers : Sound(s.val[x], e[x], h[x])
    <2> HIDE DEF given
    <2> QED
      BY <1>4
  <1>7. e \in [Registers -> Numbers] /\ h \in [Registers -> Numbers]
    <2> HIDE DEF given
    <2> QED
      BY <1>4 DEF Sound
  <1> HIDE DEF e, h, b, new
  <1>8. new \in Frames /\ new.b = b /\ new.pc = 1 /\ new.dst = dst /\ new.env = e /\ new.opt = h
    BY <1>1, <1>5, <1>7 DEF Frames
  <1>9. b \in s.exec
    BY DEF b
  <1>10. FrameOK(new)
    BY <1>2, <1>6, <1>8, <1>9 DEF FrameOK
  <1> QED
    BY <1>1, <1>8, <1>10 DEF new

\* Whoever calls a function from outside finds it open.
LEMMA OutsideOK ==
    ASSUME Analysed, NEW f \in FunctionSet \ ArgTracked, NEW a \in [DOMAIN module.params[f] -> Ints]
    PROVE  LET new == Entered(f, a, a, "none") IN FrameOK(new) /\ new.dst = "none"
  <1>1. EntryOf(f) \in s.exec /\ \A k \in 1..Len(module.params[f]) : s.val[module.params[f][k]] = Over
    BY AnalysedFacts DEF Ready
  <1>2. DOMAIN module.params[f] = 1..Len(module.params[f])
    BY AnalysedFacts, ModuleFacts
  <1>3. \A k \in 1..Len(module.params[f]) : a[k] \in Numbers /\ Fits(module.params[f][k], a[k], a[k])
    BY <1>1, <1>2, CoversFacts DEF Numbers, Fits
  <1> QED
    BY <1>1, <1>3, EnterOK

LEMMA CallOK ==
    ASSUME Analysed, Machine, CallDefined
    PROVE  StackOK(stack')
  <1> DEFINE f == Instr.sym
             passed(env) == [k \in DOMAIN Instr.args |-> Operand(env, Instr.args[k])]
             a == passed(Top.env)
             o == passed(Top.opt)
             new == Entered(f, a, o, Instr.dst)
             p == <<Top.b, Top.pc>>
  <1>1. FrameOK(Top) /\ Running /\ stack # <<>> /\ Instr.op = "call" /\ f \in FunctionSet
    BY TopFacts DEF CallDefined
  <1>2. /\ Instr \in Instructions /\ Shaped(module, FunOf(Top.b), Instr) /\ Settled(s, p) /\ Instr = At(s.code, p)
        /\ Instr.dst \in Registers
        /\ \A k \in 1..Len(Instr.args) : Sound(ValueOf(s, Instr.args[k]), Operand(Top.env, Instr.args[k]), Operand(Top.opt, Instr.args[k]))
    BY <1>1, FrameFacts DEF Instr, Results
  <1>3. Len(Instr.args) = Len(module.params[f]) /\ DOMAIN Instr.args = 1..Len(Instr.args)
    BY <1>1, <1>2 DEF Shaped, FunctionSet, Instructions
  <1>4. EntryOf(f) \in s.exec /\ \A k \in 1..Len(Instr.args) : Le(ValueOf(s, Instr.args[k]), s.val[module.params[f][k]])
    <2>1. CASE f \in ArgTracked
      BY <1>1, <1>2, <2>1, Operations DEF Settled, Terminators
    <2>2. CASE f \notin ArgTracked
      BY <1>1, <1>3, <2>2, AnalysedFacts DEF Ready, Le
    <2> QED
      BY <2>1, <2>2
  <1>5. ASSUME NEW k \in 1..Len(module.params[f])
        PROVE  a[k] \in Numbers /\ o[k] \in Numbers /\ Fits(module.params[f][k], a[k], o[k])
    <2>1. a[k] = Operand(Top.env, Instr.args[k]) /\ o[k] = Operand(Top.opt, Instr.args[k])
      BY <1>3, Zenon
    <2>2. Sound(ValueOf(s, Instr.args[k]), a[k], o[k]) /\ Le(ValueOf(s, Instr.args[k]), s.val[module.params[f][k]])
      BY <1>2, <1>3, <1>4, <2>1
    <2> HIDE DEF a, o
    <2> QED
      BY <2>2, CoversFacts DEF Sound, Fits
  <1> HIDE DEF a, o
  <1>6. FrameOK(new) /\ new.dst = Instr.dst /\ FunOf(new.b) = f
    BY <1>1, <1>2, <1>4, <1>5, EnterOK
  <1>7. stack' = Append(stack, new)
    BY DEF CallDefined, a, o
  <1> HIDE DEF new
  <1>8. Called(Top, new)
    BY <1>1, <1>6 DEF Called, Instr
  <1> QED
    BY <1>1, <1>6, <1>7, <1>8, FramePushed DEF Machine, Top

LEMMA CallBackOK ==
    ASSUME Analysed, Machine, NEW f \in Reachable, CallBack(f)
    PROVE  StackOK(stack')
  <1>1. Running /\ stack # <<>>
    BY TopFacts DEF CallBack
  <1>2. PICK a \in [DOMAIN module.params[f] -> Ints] : stack' = Append(stack, Entered(f, a, a, "none"))
    BY DEF CallBack
  <1> DEFINE new == Entered(f, a, a, "none")
  <1>3. FrameOK(new) /\ new.dst = "none"
    BY OutsideOK DEF Reachable
  <1>4. stack' = Append(stack, new)
    BY <1>2
  <1> HIDE DEF new
  <1>5. Called(Last(stack), new)
    BY <1>3 DEF Called
  <1> QED
    BY <1>1, <1>3, <1>4, <1>5, FramePushed DEF Machine

\* Code outside changes the two memories alike.
LEMMA OutsideWritesOK ==
    ASSUME Analysed, Machine, OutsideWrites
    PROVE  MemoryOK(memory', optimized')
  <1>1. local \cap Shared = {}
    BY DEF Analysed, Agreeing, LoweringHarmless
  <1>2. PICK h \in [Shared -> Ints] :
            /\ memory' = [g \in Globals |-> IF g \in Shared THEN h[g] ELSE memory[g]]
            /\ optimized' = [g \in Globals |-> IF g \in Shared \ local THEN h[g] ELSE optimized[g]]
    BY DEF OutsideWrites
  <1>3. \A g \in erased : g \notin Shared
    BY AnalysedFacts DEF Ready, Shared
  <1> QED
    BY <1>1, <1>2, <1>3 DEF Machine, MemoryOK, Numbers

\* Constructors have their addresses taken, so they are open as what is reachable is.
LEMMA StartupOpen ==
    ASSUME WellFormed(module), NEW k \in 1..Len(Startup)
    PROVE  Startup[k] \notin ArgTracked
  <1>1. CASE HasMain
    <2> DEFINE c == module.ctors
    <2>1. "main" \notin ArgTracked
      BY <1>1 DEF ArgTracked, WellFormed, FunctionSet, HasMain
    <2>2. c \in Seq(module.taken)
      BY DEF WellFormed
    <2>3. Startup = c \o <<"main">>
      BY <1>1 DEF Startup
    <2>4. k \in 1..(Len(c) + 1) /\ Startup[k] = IF k \in 1..Len(c) THEN c[k] ELSE "main"
      BY <2>2, <2>3
    <2>5. k \in 1..Len(c) => c[k] \in module.taken
      BY <2>2
    <2> QED
      BY <2>1, <2>2, <2>4, <2>5 DEF ArgTracked
  <1>2. CASE ~HasMain
    BY <1>2 DEF Startup
  <1> QED
    BY <1>1, <1>2

LEMMA EnteredOK ==
    ASSUME Analysed, Machine, NEW f \in FunctionSet, Enter(f), started \in Nat
    PROVE  StackOK(stack') /\ MemoryOK(memory', optimized')
  <1>1. f \notin ArgTracked
    <2>1. CASE started < Len(Startup)
      <3>1. f = Startup[started + 1]
        BY <2>1 DEF Enter
      <3>2. Len(Startup) \in Nat
        BY DEF Startup, Analysed, WellFormed
      <3>3. started + 1 \in 1..Len(Startup)
        BY <2>1, <3>2
      <3> QED
        BY <3>1, <3>3, StartupOpen, AnalysedFacts
    <2>2. CASE ~(started < Len(Startup))
      BY <2>2 DEF Enter, Reachable
    <2> QED
      BY <2>1, <2>2
  <1>2. PICK a \in [DOMAIN module.params[f] -> Ints] : stack' = <<Entered(f, a, a, "none")>>
    BY DEF Enter
  <1> DEFINE new == Entered(f, a, a, "none")
  <1>3. FrameOK(new) /\ new.dst = "none"
    BY <1>1, OutsideOK
  <1>4. stack = <<>> /\ stack' = <<new>>
    BY <1>2 DEF Enter
  <1> HIDE DEF new
  <1>5. stack' = Append(stack, new)
    BY <1>4
  <1>6. StackOK(stack')
    BY <1>3, <1>4, <1>5, FramePushed DEF Machine
  <1>7. MemoryOK(memory', optimized')
    <2>1. CASE OutsideWrites
      BY <2>1, OutsideWritesOK
    <2>2. CASE UNCHANGED <<memory, optimized>>
      BY <2>2 DEF Machine
    <2> QED
      BY <2>1, <2>2 DEF Enter
  <1> QED
    BY <1>6, <1>7

LEMMA ReturnExternalOK ==
    ASSUME Analysed, Machine, ReturnExternal
    PROVE  StackOK(stack') /\ MemoryOK(memory', optimized')
  <1> DEFINE p == <<Top.b, Top.pc>>
  <1>1. FrameOK(Top) /\ Running /\ Instr.op = "call" /\ Instr.sym \notin FunctionSet /\ Instr.op \in Results
    BY TopFacts DEF ReturnExternal, Results
  <1>2. Settled(s, p) /\ Instr = At(s.code, p) /\ Instr.dst \in Registers
    BY <1>1, FrameFacts DEF Instr
  <1>3. s.val[Instr.dst] = Over
    <2>1. Instr.sym \notin RetTracked
      BY <1>1 DEF RetTracked
    <2>2. Le(Over, s.val[Instr.dst])
      BY <1>1, <1>2, <2>1, Operations DEF Settled, Wants, Target, Terminators
    <2> QED
      BY <2>2, LatticeKinds DEF Le
  <1>4. StackOK(stack')
    <2>1. PICK v \in Ints : SetTop(Assign(Top, Instr.dst, v, v))
      BY DEF ReturnExternal
    <2>2. v \in Numbers /\ Fits(Instr.dst, v, v)
      BY <1>3, CoversFacts DEF Fits, Numbers
    <2> QED
      BY <1>1, <2>1, <2>2, ResultAssigned
  <1>5. MemoryOK(memory', optimized')
    BY OutsideWritesOK DEF ReturnExternal
  <1> QED
    BY <1>4, <1>5

LEMMA ReturnOK ==
    ASSUME Analysed, Machine, Return
    PROVE  StackOK(stack')
  <1> DEFINE rest == Front(stack)
             f == FunOf(Top.b)
             a == Operand(Top.env, Instr.args[1])
             o == Operand(Top.opt, Instr.args[1])
             w == IF f \in zapped THEN Undef ELSE o
             v == ValueOf(s, Instr.args[1])
             p == <<Top.b, Top.pc>>
  <1>1. FrameOK(Top) /\ Running /\ Instr.op = "ret" /\ stack # <<>> /\ stack \in Seq(Frames) /\ Top = stack[Len(stack)]
    BY TopFacts DEF Return
  <1>2. StackOK(rest)
    BY <1>1, FramePopped DEF Machine
  <1>3. CASE Top.dst = "none"
    BY <1>2, <1>3 DEF Return
  <1>4. CASE Top.dst # "none"
    <2> DEFINE n == Len(stack)
               caller == Last(rest)
               i == s.code[caller.b][caller.pc]
               q == <<caller.b, caller.pc>>
               new == Assign(caller, Top.dst, a, w)
    <2>1. n \in 1..n /\ n # 1 /\ Called(stack[n - 1], stack[n])
      <3>1. n \in Nat \ {0}
        BY <1>1, FrontFacts
      <3>2. \A k \in 1..n : IF k = 1 THEN stack[k].dst = "none" ELSE Called(stack[k - 1], stack[k])
        BY DEF Machine, StackOK
      <3>3. stack[n].dst # "none"
        BY <1>1, <1>4
      <3> HIDE DEF n
      <3> QED
        BY <3>1, <3>2, <3>3
    <2>2. rest \in Seq(Frames) /\ Len(rest) = n - 1 /\ \A k \in 1..(n - 1) : rest[k] = stack[k]
      BY <1>1, FrontFacts
    <2>3. rest # <<>> /\ caller = stack[n - 1] /\ FrameOK(caller)
      <3>1. n - 1 \in 1..(n - 1)
        <4>1. n \in Nat \ {0}
          BY <1>1, FrontFacts
        <4>2. n # 1
          BY <2>1
        <4> HIDE DEF n
        <4> QED
          BY <4>1, <4>2
      <3>2. rest # <<>> /\ caller = rest[n - 1] /\ rest[n - 1] = stack[n - 1] /\ FrameOK(rest[n - 1])
        <4> HIDE DEF rest, n
        <4>1. rest # <<>> /\ Last(rest) = rest[n - 1]
          BY <2>2, <3>1 DEF Last
        <4>2. FrameOK(rest[n - 1])
          BY <1>2, <2>2, <3>1 DEF StackOK
        <4> QED
          BY <2>2, <3>1, <4>1, <4>2
      <3> QED
        BY <3>2
    <2>4. i.op = "call" /\ i.sym = f /\ i.dst = Top.dst
      BY <1>1, <1>4, <2>1, <2>3, Zenon DEF Called
    <2>5. /\ Settled(s, q) /\ i = At(s.code, q) /\ i.dst \in Registers /\ i.op \notin Terminators
          /\ caller.b \in s.exec /\ caller.pc \in 1..Len(s.code[caller.b]) /\ caller.b \in BlockSet
      BY <2>3, <2>4, FrameFacts DEF Results, Terminators, FrameOK
    <2>6. Settled(s, p) /\ Instr = At(s.code, p) /\ Len(Instr.args) = 1 /\ f \in FunctionSet
      BY <1>1, FrameFacts, Zenon DEF Instr, Arity
    <2>7. Sound(v, a, o)
      <3>1. 1 \in 1..1
        OBVIOUS
      <3> QED
        BY <1>1, <2>6, <3>1, FrameFacts, Zenon DEF Instr
    <2>8. f \in RetTracked => Le(v, s.val[f])
      BY <1>1, <2>6, Operations DEF Settled, Wants, Target, Terminators, Results
    <2>9. Le(IF f \in RetTracked THEN s.val[f] ELSE Over, s.val[Top.dst])
      BY <2>4, <2>5, Operations DEF Settled, Wants, Target, Terminators
    <2>10. f \in zapped => f \in RetTracked /\ s.val[Top.dst] # Over
      <3>1. s.code[caller.b] \in Seq(Instructions)
        BY <2>5, AnalysedFacts DEF Solvers
      <3>2. caller.pc \in DOMAIN s.code[caller.b] /\ AllUsesReplaced
        BY <2>5, <3>1 DEF Analysed, Agreeing
      <3> QED
        BY <2>4, <2>5, <3>2, AnalysedFacts DEF AllUsesReplaced
    <2>11. Fits(Top.dst, a, w) /\ a \in Numbers /\ w \in Numbers
      <3>1. w = IF f \in zapped THEN Undef ELSE o
        OBVIOUS
      <3> HIDE DEF a, o, w, v, f
      <3>2. a \in Numbers /\ o \in Numbers /\ (a # Undef => o = a /\ Covers(v, a)) /\ w \in Numbers
        BY <2>7, <3>1 DEF Sound, Numbers
      <3>3. a # Undef => Covers(s.val[Top.dst], a)
        BY <2>8, <2>9, <3>2, CoversFacts
      <3> QED
        BY <2>10, <3>1, <3>2, <3>3 DEF Fits
    <2>12. FrameOK(new) /\ new.dst = caller.dst /\ new.b = caller.b
      <3> HIDE DEF a, w, caller
      <3> QED
        BY <2>3, <2>4, <2>5, <2>11, AssignOK
    <2>13. stack' = Front(rest) \o <<new>>
      BY <1>4 DEF Return
    <2> HIDE DEF new, rest
    <2> QED
      BY <1>2, <2>3, <2>12, <2>13, TopReplaced
  <1> QED
    BY <1>3, <1>4

-----------------------------------------------------------------------------
(* The two modules agree.                                                  *)

\* What the predicates of the machine are about does not change while it runs.
LEMMA RigidMachine ==
    ASSUME module' = module, s' = s, erased' = erased, zapped' = zapped, local' = local, reset \subseteq reset'
    PROVE  /\ \A st : StackOK(st)' <=> StackOK(st)
           /\ \A m, o : MemoryOK(m, o)' <=> MemoryOK(m, o)
           /\ Agreeing' => Agreeing
  <1>1. Frames' = Frames
    BY RigidModule DEF Frames
  <1>2. \A fr : FrameOK(fr)' <=> FrameOK(fr)
    BY <1>1 DEF FrameOK
  <1>3. \A c, fr : Called(c, fr)' <=> Called(c, fr)
    BY RigidModule DEF Called
  <1>4. \A st : StackOK(st)' <=> StackOK(st)
    BY <1>1, <1>2, <1>3 DEF StackOK
  <1>5. \A m, o : MemoryOK(m, o)' <=> MemoryOK(m, o)
    BY DEF MemoryOK
  <1>6. AllUsesReplaced' <=> AllUsesReplaced
    BY DEF AllUsesReplaced
  <1>7. InitializersLowered' <=> InitializersLowered
    BY RigidModule DEF InitializersLowered
  <1>8. ForcedStand' <=> ForcedStand
    BY DEF ForcedStand
  <1>9. LoweringHarmless' => LoweringHarmless
    BY DEF LoweringHarmless, Shared
  <1> QED
    BY <1>4, <1>5, <1>6, <1>7, <1>8, <1>9 DEF Agreeing

Untouched == stack = <<>> /\ memory = [g \in Globals |-> module.globals[g].init] /\ optimized = memory

MachineInv ==
    /\ started \in Nat
    /\ phase # "run" => Untouched
    /\ phase = "run" /\ Agreeing => Machine

\* The memory a program starts with: the value of an erased global is that of the
\* store of its initializer, which is settled.
LEMMA InitialMemory ==
    ASSUME WellFormed(module), Base(s), Ready(s), \A p \in Positions(s.code) : p[1] \in s.exec => Settled(s, p),
           \A g \in s.tracked : HasMain /\ module.globals[g].type = "int", NEW g \in s.tracked
    PROVE  Covers(s.val[g], module.globals[g].init)
  <1> DEFINE e == EntryOf("main")
             n == module.globals[g].init
  <1>1. s \in Solvers /\ CodeOK(s.code) /\ g \in Globals
    BY DEF Base, Solvers
  <1>2. "main" \in FunctionSet \ ArgTracked
    BY DEF HasMain, ArgTracked, WellFormed, FunctionSet
  <1>3. e \in s.exec /\ e \in BlockSet
    BY <1>2, ModuleFacts DEF Ready
  <1>4. PICK k \in 1..Len(s.code[e]) : s.code[e][k] = StoreOf(g)
    BY DEF Ready
  <1> DEFINE i == s.code[e][k]
             p == <<e, k>>
  <1>5. p \in Positions(s.code) /\ At(s.code, p) = i /\ p[1] = e
    BY <1>3 DEF Positions, At
  <1>6. Settled(s, p)
    BY <1>3, <1>5
  <1>7. i.op = "store" /\ i.sym = g /\ i.args = <<n>> /\ i.args[1] = n
    BY <1>4 DEF StoreOf
  <1>8. Le(ValueOf(s, n), s.val[g])
    BY <1>5, <1>6, <1>7, Operations DEF Settled, Wants, Target, Terminators
  <1>9. n \in Ints
    BY DEF Ready
  <1>10. ValueOf(s, n) = Const(n)
    BY <1>9 DEF ValueOf
  <1> QED
    BY <1>8, <1>10, LatticeKinds, CoversFacts

LEMMA MachineInit == Init => MachineInv
  BY DEF Init, MachineInv, Untouched

LEMMA MachineStarts ==
    ASSUME SolverInv, MachineInv, Transform
    PROVE  MachineInv'
  <1>1. /\ phase = "solve" /\ phase' = "run" /\ module' = module /\ s' = s /\ memory' = memory /\ optimized' = optimized
        /\ started' = started /\ stack' = stack /\ erased' = s.tracked /\ Untouched /\ Solving /\ WellFormed(module) /\ Solved
    BY DEF Transform, SolverInv, MachineInv, solver, machine, StoresToErase
  <1>2. \A p \in Positions(s.code) : p[1] \in s.exec => Settled(s, p)
    BY <1>1, SolvedSettled
  <1>3. Base(s) /\ Ready(s)
    BY <1>1 DEF Solving
  <1>4. SUFFICES ASSUME Agreeing'  PROVE Machine'
    BY <1>1 DEF MachineInv
  <1>5. \A g \in s.tracked : HasMain /\ module.globals[g].type = "int"
    BY <1>1, <1>4, RigidModule DEF Agreeing, InitializersLowered
  <1>6. \A g \in s.tracked : Covers(s.val[g], module.globals[g].init)
    BY <1>1, <1>2, <1>3, <1>5, InitialMemory
  <1>7. \A g \in Globals : module.globals[g].init \in Numbers
    BY <1>1 DEF WellFormed, Numbers
  <1>8. MemoryOK(memory, optimized)'
    BY <1>1, <1>6, <1>7 DEF MemoryOK, Untouched, Numbers
  <1>9. StackOK(stack)'
    <2>1. stack' = <<>>
      BY <1>1 DEF Untouched
    <2> QED
      BY <2>1 DEF StackOK
  <1> QED
    BY <1>8, <1>9 DEF Machine

LEMMA MachineNext == SolverInv /\ MachineInv /\ [Next]_vars => MachineInv'
  <1> SUFFICES ASSUME SolverInv, MachineInv, [Next]_vars  PROVE MachineInv'
    OBVIOUS
  <1>1. CASE Start \/ Solve \/ ResolveUndefs
    <2>1. phase # "run" /\ phase' # "run" /\ module' = module /\ started' = started /\ stack' = stack /\ memory' = memory /\ optimized' = optimized
      BY <1>1 DEF Start, Solve, ResolveUndefs, PopOverdefined, PopInst, PopValue, PopBlock, NextList, VisitUser, machine
    <2> QED
      BY <2>1 DEF MachineInv, Untouched
  <1>2. CASE Transform
    BY <1>2, MachineStarts
  <1>3. CASE Run
    <2>1. /\ phase = "run" /\ phase' = "run" /\ module' = module /\ s' = s /\ erased' = erased /\ zapped' = zapped
          /\ local' = local /\ reset \subseteq reset' /\ (started' = started \/ started' = started + 1)
      BY <1>3 DEF Run, Compute, Load, Store, Branch, CallDefined, ReturnExternal, Return, Enter, CallBack, RunFrame, Running,
             solver, transformed
    <2>2. SUFFICES ASSUME Agreeing'  PROVE Machine'
      BY <2>1 DEF MachineInv
    <2>3. Agreeing /\ reset' = {} /\ started \in Nat
      BY <2>1, <2>2, RigidMachine DEF Agreeing, LoweringHarmless, MachineInv
    <2>4. Analysed /\ Machine
      BY <2>1, <2>3 DEF Analysed, SolverInv, MachineInv
    <2>5. ASSUME memory' = memory, optimized' = optimized  PROVE MemoryOK(memory', optimized')
      BY <2>4, <2>5 DEF Machine
    <2>6. StackOK(stack') /\ MemoryOK(memory', optimized')
      <3>1. CASE Compute
        BY <2>4, <2>5, <3>1, ComputeOK DEF Compute
      <3>2. CASE Load
        BY <2>4, <2>5, <3>2, LoadOK DEF Load
      <3>3. CASE Store
        BY <2>3, <2>4, <3>3, StoreOK
      <3>4. CASE Branch
        BY <2>4, <2>5, <3>4, BranchOK DEF Branch
      <3>5. CASE CallDefined
        BY <2>4, <2>5, <3>5, CallOK DEF CallDefined
      <3>6. CASE ReturnExternal
        BY <2>4, <3>6, ReturnExternalOK
      <3>7. CASE Return
        BY <2>4, <2>5, <3>7, ReturnOK DEF Return
      <3>8. ASSUME NEW f \in FunctionSet, Enter(f)  PROVE StackOK(stack') /\ MemoryOK(memory', optimized')
        BY <2>3, <2>4, <3>8, EnteredOK
      <3>9. ASSUME NEW f \in Reachable, CallBack(f)  PROVE StackOK(stack') /\ MemoryOK(memory', optimized')
        BY <2>4, <2>5, <3>9, CallBackOK DEF CallBack
      <3> QED
        BY <1>3, <3>1, <3>2, <3>3, <3>4, <3>5, <3>6, <3>7, <3>8, <3>9 DEF Run
    <2>7. (\A st : StackOK(st)' <=> StackOK(st)) /\ (\A m, o : MemoryOK(m, o)' <=> MemoryOK(m, o))
      BY <2>1, RigidMachine
    <2> QED
      BY <2>6, <2>7 DEF Machine
  <1>4. CASE Ended \/ Crashed \/ UNCHANGED vars
    <2>1. /\ module' = module /\ s' = s /\ erased' = erased /\ zapped' = zapped /\ phase' = phase
          /\ stack' = stack /\ memory' = memory /\ optimized' = optimized
          /\ local' = local /\ reset' = reset /\ started' = started
      BY <1>4 DEF Ended, Crashed, vars, solver, transformed, machine
    <2>2. Untouched => Untouched'
      BY <2>1 DEF Untouched
    <2>3. Machine => Machine'
      BY <2>1, RigidMachine DEF Machine
    <2>4. Agreeing' => Agreeing
      BY <2>1, RigidMachine
    <2> QED
      BY <2>1, <2>2, <2>3, <2>4 DEF MachineInv
  <1> QED
    BY <1>1, <1>2, <1>3, <1>4 DEF Next, Analysis

\* The optimized module computes what the module before lower-gv-init computes: whatever
\* the program, its constructors, arguments and what code outside does, if the three
\* things hold that the comments of Sccp.cpp take for granted and the lowering was
\* harmless, every number the original computes is the optimized module's too, no
\* block that was made unreachable is entered, the globals that code outside sees are
\* the same, and no constant is stored to.
THEOREM ValuesAgree == Spec => []SameValues
  <1>1. Init => SolverInv /\ MachineInv
    BY SolverInit, MachineInit
  <1>2. (SolverInv /\ MachineInv) /\ [Next]_vars => (SolverInv /\ MachineInv)'
    BY SolverNext, MachineNext
  <1>3. SolverInv /\ MachineInv => SameValues
    <2> SUFFICES ASSUME SolverInv, MachineInv, Agreeing  PROVE ModulesAgree
      BY DEF SameValues, Agreeing
    <2>1. CASE phase # "run"
      BY <2>1 DEF MachineInv, Untouched, ModulesAgree, Killed, Running
    <2>2. CASE phase = "run"
      <3>1. Machine /\ Analysed
        BY <2>2 DEF MachineInv, SolverInv, Analysed
      <3>2. stack \in Seq(Frames) /\ DOMAIN stack = 1..Len(stack) /\ \A k \in 1..Len(stack) : FrameOK(stack[k])
        BY <3>1 DEF Machine, StackOK
      <3>3. ASSUME NEW k \in DOMAIN stack
            PROVE  /\ stack[k].b \in s.exec
                   /\ \A x \in Registers : stack[k].env[x] = Undef \/ stack[k].opt[x] = stack[k].env[x]
        BY <3>2, <3>3 DEF FrameOK, Sound
      <3>4. ASSUME NEW g \in Shared  PROVE memory[g] = Undef \/ optimized[g] = memory[g]
        <4>1. g \notin erased /\ g \in Globals
          BY <3>1, <3>4, AnalysedFacts DEF Ready, Shared
        <4> QED
          BY <3>1, <4>1 DEF Machine, MemoryOK
      <3>5. ~Killed
        <4> SUFFICES ASSUME Killed  PROVE FALSE
          OBVIOUS
        <4>1. Running /\ Instr.op = "store" /\ module.globals[Instr.sym].constant
          BY DEF Killed
        <4>2. FrameOK(Top)
          BY <3>1, <4>1, TopFacts
        <4>3. Top.b \in s.exec /\ Top.pc \in 1..Len(s.code[Top.b]) /\ Top.b \in BlockSet
          BY <3>1, <4>2, AnalysedFacts DEF FrameOK
        <4>4. s.code[Top.b] \in Seq(Instructions)
          BY <3>1, <4>3, AnalysedFacts DEF Solvers
        <4>5. Top.pc \in DOMAIN s.code[Top.b] /\ s.code[Top.b][Top.pc] = Instr
          BY <4>3, <4>4 DEF Instr
        <4>6. \A b \in s.exec : \A k \in DOMAIN s.code[b] :
                 s.code[b][k].op = "store" => ~module.globals[s.code[b][k].sym].constant
          BY DEF Agreeing, LoweringHarmless
        <4>7. s.code[Top.b][Top.pc].op = "store" => ~module.globals[s.code[Top.b][Top.pc].sym].constant
          BY <4>3, <4>5, <4>6
        <4> QED
          BY <4>1, <4>5, <4>7
      <3> QED
        BY <3>3, <3>4, <3>5 DEF ModulesAgree
    <2> QED
      BY <2>1, <2>2
  <1> QED
    BY <1>1, <1>2, <1>3, PTL DEF Spec
=============================================================================
