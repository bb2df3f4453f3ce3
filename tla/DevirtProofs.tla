---------------------------- MODULE DevirtProofs ----------------------------
(***************************************************************************)
(* Proofs about Devirt, for all modules and options: what the calls are    *)
(* rewritten to, what the class hierarchy analysis finds for virtual       *)
(* calls, and that it rewrites none.                                       *)
(***************************************************************************)
EXTENDS Devirt, FiniteSetTheorems, NaturalsInduction, WellFoundedInduction, TLAPS

---------------------------------------------------------------------------
(* Sublists                                                                *)

LEMMA PlacesFinite ==
    ASSUME NEW s, NEW S, s \in Seq(Range(s))
    PROVE  /\ Len(s) \in Nat /\ Places(s, S) \subseteq 1..Len(s)
           /\ IsFiniteSet(Places(s, S)) /\ Cardinality(Places(s, S)) \in Nat
<1>1. Places(s, S) \subseteq 1..Len(s) /\ Len(s) \in Nat /\ IsFiniteSet(1..Len(s))
    BY FS_Interval DEF Places
<1>2. IsFiniteSet(Places(s, S))
    BY <1>1, FS_Subset
<1>. QED
    BY <1>1, <1>2, FS_CardinalityType

LEMMA CountType ==
    ASSUME NEW s, NEW S, s \in Seq(Range(s)), NEW i \in Int
    PROVE  /\ IsFiniteSet(Places(s, S) \cap (1..i)) /\ Cardinality(Places(s, S) \cap (1..i)) \in Nat
           /\ Cardinality(Places(s, S) \cap (1..i)) <= Cardinality(Places(s, S))
BY PlacesFinite, FS_Intersection, FS_CardinalityType

\* One more place is counted at a place.
LEMMA CountsMore ==
    ASSUME NEW s, NEW S, s \in Seq(Range(s)), NEW i \in Int, NEW j \in Places(s, S), i < j
    PROVE  Cardinality(Places(s, S) \cap (1..i)) < Cardinality(Places(s, S) \cap (1..j))
<1> DEFINE A == Places(s, S) \cap (1..i)
           B == Places(s, S) \cap (1..j)
<1>1. Places(s, S) \subseteq 1..Len(s) /\ Len(s) \in Nat
    BY PlacesFinite
<1>2. j \in Int
    BY <1>1
<1>3. /\ IsFiniteSet(A) /\ Cardinality(A) \in Nat
      /\ IsFiniteSet(B) /\ Cardinality(B) \in Nat
    BY <1>2, CountType
<1>4. A \subseteq B /\ j \in B /\ j \notin A
    BY <1>1, <1>2
<1> HIDE DEF A, B
<1>5. Cardinality(A) <= Cardinality(B) /\ (Cardinality(B) = Cardinality(A) => B = A)
    BY <1>3, <1>4, FS_Subset
<1>6. Cardinality(A) < Cardinality(B)
    BY <1>3, <1>4, <1>5
<1>. QED
    BY <1>6 DEF A, B

\* The places are counted one by one.
LEMMA PlaceIsCounted ==
    ASSUME NEW s, NEW S, s \in Seq(Range(s))
    PROVE  /\ \A n \in 1..Cardinality(Places(s, S)) :
                 /\ Place(s, S, n) \in Places(s, S)
                 /\ Cardinality(Places(s, S) \cap (1..Place(s, S, n))) = n
           /\ \A i \in Places(s, S) : \E n \in 1..Cardinality(Places(s, S)) : Place(s, S, n) = i
<1> DEFINE K == Places(s, S)
           Count(i) == Cardinality(K \cap (1..i))
           f == [i \in K |-> Count(i)]
<1>1. /\ K \subseteq 1..Len(s) /\ Len(s) \in Nat /\ IsFiniteSet(K) /\ Cardinality(K) \in Nat
      /\ \A i \in Int : Count(i) \in Nat /\ Count(i) <= Cardinality(K)
    BY PlacesFinite, CountType
<1>2. \A i \in Int, j \in K : i < j => Count(i) < Count(j)
    BY CountsMore
<1> HIDE DEF K, Count
<1>3. ASSUME NEW i \in K PROVE Count(i) \in 1..Cardinality(K)
    <2>1. i \in Int /\ 0 < i
        BY <1>1
    <2>2. Count(0) < Count(i)
        BY <1>2, <2>1
    <2>. QED
        BY <1>1, <2>1, <2>2
<1>4. ASSUME NEW i \in K, NEW j \in K, Count(i) = Count(j) PROVE i = j
    <2>1. i \in Int /\ j \in Int /\ Count(i) \in Nat /\ Count(j) \in Nat
        BY <1>1
    <2>2. ~(i < j) /\ ~(j < i)
        BY <1>2, <1>4, <2>1
    <2>. QED
        BY <2>1, <2>2
<1>5. f \in Injection(K, 1..Cardinality(K))
    BY <1>3, <1>4 DEF Injection, IsInjective
<1>6. IsFiniteSet(1..Cardinality(K)) /\ Cardinality(1..Cardinality(K)) = Cardinality(K)
    BY <1>1, FS_Interval
<1>7. f \in Surjection(K, 1..Cardinality(K))
    BY <1>1, <1>5, <1>6, FS_Injection
<1>8. \A n \in 1..Cardinality(K) : \E i \in K : Count(i) = n
    BY <1>7 DEF Surjection
<1>9. \A n : Place(s, S, n) = CHOOSE i \in K : Count(i) = n
    BY DEF Place, K, Count
<1>10. ASSUME NEW n \in 1..Cardinality(K) PROVE Place(s, S, n) \in K /\ Count(Place(s, S, n)) = n
    BY <1>8, <1>9
<1>11. ASSUME NEW i \in K PROVE Place(s, S, Count(i)) = i
    BY <1>3, <1>4, <1>10
<1>. QED
    BY <1>3, <1>10, <1>11 DEF K, Count

\* A sublist has exactly the elements of the list that are in the set, each as often.
LEMMA SublistElements ==
    ASSUME NEW s, NEW S, s \in Seq(Range(s))
    PROVE  /\ Sublist(s, S) \in Seq(Range(s) \cap S)
           /\ Range(Sublist(s, S)) = Range(s) \cap S
           /\ (\A i, j \in DOMAIN s : s[i] = s[j] => i = j) =>
                  \A m, n \in DOMAIN Sublist(s, S) : Sublist(s, S)[m] = Sublist(s, S)[n] => m = n
<1> DEFINE c == Cardinality(Places(s, S))
<1>1. c \in Nat /\ DOMAIN Sublist(s, S) = 1..c
    BY PlacesFinite DEF Sublist
<1>2. /\ \A n \in 1..c : Place(s, S, n) \in Places(s, S)
      /\ \A n \in 1..c : Cardinality(Places(s, S) \cap (1..Place(s, S, n))) = n
      /\ \A i \in Places(s, S) : \E n \in 1..c : Place(s, S, n) = i
    BY PlaceIsCounted
<1>3. \A m, n \in 1..c : Place(s, S, m) = Place(s, S, n) => m = n
    BY <1>2
<1>4. \A n \in 1..c : Sublist(s, S)[n] = s[Place(s, S, n)]
    BY DEF Sublist
<1>5. \A i : i \in Places(s, S) <=> i \in DOMAIN s /\ s[i] \in S
    BY DEF Places
<1> HIDE DEF c
<1>6. \A n \in 1..c : Sublist(s, S)[n] \in Range(s) \cap S
    BY <1>2, <1>4, <1>5 DEF Range
<1>7. Sublist(s, S) = [n \in 1..c |-> Sublist(s, S)[n]]
    BY <1>1 DEF Sublist, c
<1>8. Sublist(s, S) \in Seq(Range(s) \cap S)
    BY <1>1, <1>6, <1>7
<1>9. ASSUME NEW x \in Range(s) \cap S PROVE x \in Range(Sublist(s, S))
    <2>1. PICK i \in DOMAIN s : s[i] = x
        BY DEF Range
    <2>2. PICK n \in 1..c : Place(s, S, n) = i
        BY <1>2, <1>5, <2>1
    <2>. QED
        BY <1>1, <1>4, <2>1, <2>2 DEF Range
<1>10. ASSUME NEW x \in Range(Sublist(s, S)) PROVE x \in Range(s) \cap S
    BY <1>1, <1>6 DEF Range
<1>11. ASSUME \A i, j \in DOMAIN s : s[i] = s[j] => i = j,
              NEW m \in 1..c, NEW n \in 1..c, Sublist(s, S)[m] = Sublist(s, S)[n]
       PROVE  m = n
    BY <1>2, <1>3, <1>4, <1>5, <1>11
<1>. QED
    BY <1>1, <1>8, <1>9, <1>10, <1>11

---------------------------------------------------------------------------
(* The invariant                                                           *)

CallTypes == {Call(c).type : c \in Calls}
Lists == Seq(Range(program.names))
Found(c) == DsaTargets(program, options, c)

CacheEntries == [type : CallTypes, targets : Lists, bounce : Nat]
BounceFunctions ==
    [type : CallTypes, targets : Lists, default : {"unreachable", "return", "indirect"}]

Typed ==
    /\ program \in Programs
    /\ resolver \in {"none", "cha", "dsa", "done", "aborted"}
    /\ worklist \in Seq(Calls)
    /\ targetsMap \in [Calls -> Lists]
    /\ bounceMap \in Seq(CacheEntries)
    /\ bounces \in Seq(BounceFunctions)
    /\ callee \in [Calls -> Nat]

\* The class hierarchy answers no query: each call is asked about once.
AskedOnce ==
    /\ \A i, j \in DOMAIN worklist : worklist[i] = worklist[j] => i = j
    /\ \A i \in DOMAIN worklist : targetsMap[worklist[i]] = NoTargets
ChaAnswersNothing ==
    resolver \in {"none", "cha", "aborted"} =>
        /\ callee = [c \in Calls |-> 0] /\ bounces = <<>> /\ bounceMap = <<>>
        /\ AskedOnce
        /\ resolver = "none" => targetsMap = [c \in Calls |-> NoTargets]

DsaAnswers ==
    resolver \in {"dsa", "done"} => \A c \in Calls : targetsMap[c] = Found(c)

\* A bounce function was made for a call of its type.
MadeFor(b) ==
    \E c \in Calls : bounces[b].type = Call(c).type /\ bounces[b].targets = Found(c) /\ Found(c) # NoTargets
Made == \A b \in DOMAIN bounces : MadeFor(b)

Cached ==
    \A i \in DOMAIN bounceMap :
        LET b == bounceMap[i].bounce
        IN  /\ b \in DOMAIN bounces /\ bounceMap[i].type = bounces[b].type
            /\ bounceMap[i].targets = bounces[b].targets

\* A rewritten call has targets, and either these continue those of its bounce function or
\* those of the bounce function continue them.
Rewritten(c) ==
    /\ callee[c] \in DOMAIN bounces
    /\ BounceOf(c).type = Call(c).type
    /\ Found(c) # NoTargets
    /\ IsPrefix(BounceOf(c).targets, Found(c)) \/ IsPrefix(Found(c), BounceOf(c).targets)
AllRewritten == \A c \in Calls : callee[c] # 0 => Rewritten(c)

IInv == Typed /\ ChaAnswersNothing /\ DsaAnswers /\ Made /\ Cached /\ AllRewritten

---------------------------------------------------------------------------
(* Targets                                                                 *)

\* The targets of a call are all functions that the pointer analysis found and that have
\* the type of the pointer.
LEMMA FoundTargets ==
    ASSUME NEW P \in Programs, NEW opts, NEW c \in DOMAIN P.calls
    PROVE  /\ DsaTargets(P, opts, c) \in Seq(Range(P.names))
           /\ DsaTargets(P, opts, c) # NoTargets =>
                 /\ Range(DsaTargets(P, opts, c)) = P.dsa[c].targets \cap TypesTargets(P, P.calls[c])
                 /\ opts.incomplete \/ P.dsa[c].complete
<1> DEFINE refined == P.dsa[c].targets \cap TypesTargets(P, P.calls[c])
<1>1. P.names \in Seq(Range(P.names)) /\ P.eligible \subseteq Range(P.names)
    BY ProgramsAssumption
<1>2. refined \subseteq Range(P.names)
    BY <1>1 DEF TypesTargets
<1>3. /\ Sublist(P.names, refined) \in Seq(Range(P.names) \cap refined)
      /\ Range(Sublist(P.names, refined)) = Range(P.names) \cap refined
    BY <1>1, SublistElements
<1>4. Sublist(P.names, refined) \in Seq(Range(P.names)) /\ NoTargets \in Seq(Range(P.names))
    BY <1>3 DEF NoTargets
<1>5. \/ DsaTargets(P, opts, c) = NoTargets
      \/ /\ DsaTargets(P, opts, c) = Sublist(P.names, refined)
         /\ opts.incomplete \/ P.dsa[c].complete
    BY DEF DsaTargets
<1> HIDE DEF refined
<1>6. Range(P.names) \cap refined = refined
    BY <1>2
<1>. QED
    BY <1>3, <1>4, <1>5, <1>6 DEF refined

\* The worklist has each indirect call once.
LEMMA EachCallOnce ==
    ASSUME Typed
    PROVE  /\ IndirectCalls \in Seq(Calls)
           /\ \A i, j \in DOMAIN IndirectCalls : IndirectCalls[i] = IndirectCalls[j] => i = j
<1> DEFINE all == [c \in Calls |-> c]
           open == {c \in Calls : Call(c).kind = "indirect" /\ callee[c] = 0}
<1>1. program.calls \in Seq(Range(program.calls))
    BY ProgramsAssumption DEF Typed
<1>2. Calls = 1..Len(program.calls) /\ Len(program.calls) \in Nat
    BY <1>1 DEF Calls
<1>3. all \in Seq(Range(all)) /\ Range(all) = Calls
    <2>1. Range(all) = Calls
        BY DEF Range
    <2>2. all \in Seq(Calls)
        BY <1>2
    <2>. QED
        BY <2>1, <2>2
<1>4. \A i, j \in DOMAIN all : all[i] = all[j] => i = j
    OBVIOUS
<1>5. IndirectCalls = Sublist(all, open)
    BY DEF IndirectCalls
<1> HIDE DEF all, open
<1>6. Sublist(all, open) \in Seq(Range(all) \cap open)
    BY <1>3, SublistElements
<1>7. \A i, j \in DOMAIN Sublist(all, open) : Sublist(all, open)[i] = Sublist(all, open)[j] => i = j
    BY <1>3, <1>4, SublistElements
<1>8. Sublist(all, open) \in Seq(Calls)
    BY <1>3, <1>6
<1>. QED
    BY <1>5, <1>7, <1>8

LEMMA Popped ==
    ASSUME Typed, worklist # <<>>, Pop
    PROVE  /\ Current \in Calls /\ Len(worklist) \in DOMAIN worklist
           /\ worklist' \in Seq(Calls)
           /\ DOMAIN worklist' = 1..(Len(worklist) - 1)
           /\ \A i \in DOMAIN worklist' : i \in DOMAIN worklist /\ worklist'[i] = worklist[i]
           /\ Current = worklist[Len(worklist)]
BY DEF Typed, Pop, Front, Last, Current

\* Of two lists that count as equal, one continues the other.
LEMMA EqualListsContinue ==
    ASSUME NEW S, NEW s \in Seq(S), NEW t \in Seq(S), TRUE \in EqualTargets(s, t)
    PROVE  IsPrefix(s, t) \/ IsPrefix(t, s)
<1>1. Len(s) \in Nat /\ Len(t) \in Nat
    OBVIOUS
<1>2. CASE Len(s) < Len(t)
    <2>1. SubSeq(s, 1, Len(s)) = SubSeq(t, 1, Len(s))
        BY <1>1, <1>2 DEF EqualTargets
    <2>. QED
        BY <1>1, <1>2, <2>1 DEF IsPrefix
<1>3. CASE ~(Len(s) < Len(t))
    <2>1. SubSeq(s, 1, Len(t)) = SubSeq(t, 1, Len(t))
        BY <1>1, <1>3 DEF EqualTargets
    <2>. QED
        BY <1>1, <1>3, <2>1 DEF IsPrefix
<1>. QED
    BY <1>2, <1>3

\* A bounce function that is reused was made for a call of the same type, and one of the
\* lists of targets continues the other.
LEMMA Reused ==
    ASSUME IInv, resolver = "dsa", NEW c \in Calls, NEW b \in GetBounceFunction(c) \ {0}
    PROVE  /\ b \in DOMAIN bounces /\ bounces[b].type = Call(c).type
           /\ Found(c) # NoTargets
           /\ IsPrefix(bounces[b].targets, Found(c)) \/ IsPrefix(Found(c), bounces[b].targets)
<1> DEFINE same == {e \in Range(bounceMap) : e.type = Call(c).type}
           first == Head(CachedFor(c))
<1>1. GetTargets(c) = Found(c)
    BY DEF IInv, DsaAnswers, GetTargets
<1>2. CachedFor(c) # <<>> /\ GetTargets(c) # NoTargets
    BY DEF GetBounceFunction
<1>3. TRUE \in EqualTargets(first.targets, GetTargets(c)) /\ b = first.bounce
    BY <1>2 DEF GetBounceFunction
<1>4. bounceMap \in Seq(Range(bounceMap))
    BY DEF IInv, Typed, Range
<1>5. CachedFor(c) \in Seq(Range(bounceMap) \cap same)
    BY <1>4, SublistElements DEF CachedFor
<1>6. first \in Range(bounceMap) /\ first.type = Call(c).type
    BY <1>2, <1>5
<1>7. PICK i \in DOMAIN bounceMap : first = bounceMap[i]
    BY <1>6 DEF Range
<1>8. b \in DOMAIN bounces /\ bounces[b].type = Call(c).type /\ first.targets = bounces[b].targets
    BY <1>3, <1>6, <1>7 DEF IInv, Cached
<1>9. bounces[b].targets \in Lists /\ Found(c) \in Lists
    <2>1. bounces[b].targets \in Lists
        <3>1. bounces[b] \in BounceFunctions
            BY <1>8 DEF IInv, Typed
        <3>. QED
            BY <3>1 DEF BounceFunctions
    <2>2. Found(c) \in Lists
        BY FoundTargets DEF IInv, Typed, Found, Lists, Calls
    <2>. QED
        BY <2>1, <2>2
<1>10. IsPrefix(bounces[b].targets, Found(c)) \/ IsPrefix(Found(c), bounces[b].targets)
    <2>1. TRUE \in EqualTargets(bounces[b].targets, Found(c))
        BY <1>1, <1>3, <1>8
    <2>. QED
        BY <1>9, <2>1, EqualListsContinue DEF Lists
<1>. QED
    BY <1>1, <1>2, <1>8, <1>10

---------------------------------------------------------------------------
(* The invariant is preserved                                              *)

LEMMA InitInv == Init => IInv
<1> SUFFICES ASSUME Init PROVE IInv
    OBVIOUS
<1> USE DEF Init
<1>1. Typed
    <2>1. NoTargets \in Lists
        BY DEF NoTargets, Lists
    <2>2. targetsMap \in [Calls -> Lists] /\ callee \in [Calls -> Nat]
        BY <2>1 DEF Calls
    <2>. QED
        BY <2>2 DEF Typed
<1>2. ChaAnswersNothing
    BY DEF ChaAnswersNothing, AskedOnce, Calls
<1>3. DsaAnswers /\ Made /\ Cached /\ AllRewritten
    BY DEF DsaAnswers, Made, Cached, AllRewritten, Calls
<1>. QED
    BY <1>1, <1>2, <1>3 DEF IInv

\* Nothing that is constant for a module changes.
LEMMA SameProgram ==
    ASSUME program' = program, options' = options
    PROVE  /\ Calls' = Calls /\ Lists' = Lists /\ CallTypes' = CallTypes
           /\ CacheEntries' = CacheEntries /\ BounceFunctions' = BounceFunctions
           /\ \A c : Call(c)' = Call(c) /\ Found(c)' = Found(c)
<1>1. Calls' = Calls /\ Lists' = Lists /\ (\A c : Call(c)' = Call(c))
    BY DEF Calls, Call, Lists
<1>2. \A c : Found(c)' = Found(c)
    BY DEF Found
<1>3. CallTypes' = CallTypes
    BY <1>1 DEF CallTypes
<1>. QED
    BY <1>1, <1>2, <1>3 DEF CacheEntries, BounceFunctions

\* What does not change the calls and the bounce functions keeps what is said of them.
LEMMA SameBounces ==
    ASSUME IInv, UNCHANGED <<program, options, bounces, callee>>
    PROVE  Made' /\ AllRewritten' /\ (bounceMap' \in {bounceMap, <<>>} => Cached')
<1>1. Calls' = Calls /\ \A c : Call(c)' = Call(c) /\ Found(c)' = Found(c)
    BY SameProgram
<1>2. Made'
    BY <1>1 DEF IInv, Made, MadeFor
<1>3. AllRewritten'
    BY <1>1 DEF IInv, AllRewritten, Rewritten, BounceOf
<1>4. bounceMap' \in {bounceMap, <<>>} => Cached'
    BY DEF IInv, Cached
<1>. QED
    BY <1>2, <1>3, <1>4

LEMMA StepStartCHA == IInv /\ StartCHA => IInv'
<1> SUFFICES ASSUME IInv, StartCHA PROVE IInv'
    OBVIOUS
<1> USE DEF StartCHA
<1>1. /\ Calls' = Calls /\ Lists' = Lists /\ CacheEntries' = CacheEntries
      /\ BounceFunctions' = BounceFunctions
    BY SameProgram
<1>2. /\ IndirectCalls \in Seq(Calls)
      /\ \A i, j \in DOMAIN IndirectCalls : IndirectCalls[i] = IndirectCalls[j] => i = j
    BY EachCallOnce DEF IInv
<1>3. Typed'
    BY <1>1, <1>2 DEF IInv, Typed
<1>4. /\ targetsMap = [c \in Calls |-> NoTargets] /\ callee = [c \in Calls |-> 0]
      /\ bounces = <<>> /\ bounceMap = <<>>
    BY DEF IInv, ChaAnswersNothing
<1>5. \A i \in DOMAIN IndirectCalls : targetsMap[IndirectCalls[i]] = NoTargets
    BY <1>2, <1>4
<1>6. ChaAnswersNothing'
    BY <1>1, <1>2, <1>4, <1>5 DEF ChaAnswersNothing, AskedOnce
<1>7. DsaAnswers'
    BY DEF DsaAnswers
<1>. QED
    BY <1>3, <1>6, <1>7, SameBounces DEF IInv

LEMMA StepStartDsa == IInv /\ StartDsa => IInv'
<1> SUFFICES ASSUME IInv, StartDsa PROVE IInv'
    OBVIOUS
<1> USE DEF StartDsa
<1>1. /\ Calls' = Calls /\ Lists' = Lists /\ CacheEntries' = CacheEntries
      /\ BounceFunctions' = BounceFunctions /\ \A c : Found(c)' = Found(c)
    BY SameProgram
<1>2. IndirectCalls \in Seq(Calls)
    BY EachCallOnce DEF IInv
<1>3. callee = [c \in Calls |-> 0]
    BY DEF IInv, ChaAnswersNothing
<1>4. targetsMap' = [c \in Calls |-> Found(c)]
    BY <1>3 DEF Found
<1>5. \A c \in Calls : Found(c) \in Lists
    BY FoundTargets DEF IInv, Typed, Found, Lists, Calls
<1>6. Typed'
    BY <1>1, <1>2, <1>4, <1>5 DEF IInv, Typed
<1>7. ChaAnswersNothing'
    BY DEF ChaAnswersNothing
<1>8. DsaAnswers'
    BY <1>1, <1>4 DEF DsaAnswers
<1>. QED
    BY <1>6, <1>7, <1>8, SameBounces DEF IInv

\* The end of a resolver.
LEMMA StepEnd == IInv /\ (Finish \/ Abort) => IInv'
<1> SUFFICES ASSUME IInv, Finish \/ Abort PROVE IInv'
    OBVIOUS
<1>1. /\ UNCHANGED <<program, options, worklist, targetsMap, bounceMap, bounces, callee>>
      /\ \/ resolver = "dsa" /\ resolver' = "done"
         \/ resolver = "cha" /\ resolver' = "aborted"
    BY DEF Finish, Abort
<1>2. /\ Calls' = Calls /\ Lists' = Lists /\ CacheEntries' = CacheEntries
      /\ BounceFunctions' = BounceFunctions /\ \A c : Found(c)' = Found(c)
    BY <1>1, SameProgram
<1>3. Typed'
    BY <1>1, <1>2 DEF IInv, Typed
<1>4. ChaAnswersNothing'
    BY <1>1, <1>2 DEF IInv, ChaAnswersNothing, AskedOnce
<1>5. DsaAnswers'
    BY <1>1, <1>2 DEF IInv, DsaAnswers
<1>. QED
    BY <1>1, <1>3, <1>4, <1>5, SameBounces DEF IInv

\* The query that computes the targets of a virtual call returns none.
LEMMA ChaSilent ==
    ASSUME IInv, resolver = "cha", worklist # <<>>, Current \in Calls
    PROVE  GetTargets(Current) = NoTargets /\ GetBounceFunction(Current) = {0}
<1>1. Len(worklist) \in DOMAIN worklist /\ Current = worklist[Len(worklist)]
    BY DEF IInv, Typed, Current, Last
<1>2. targetsMap[Current] = NoTargets
    BY <1>1 DEF IInv, ChaAnswersNothing, AskedOnce
<1>3. GetTargets(Current) = NoTargets
    BY <1>2 DEF GetTargets, ChaTargets, ChaComputes
<1>. QED
    BY <1>3 DEF GetBounceFunction

LEMMA StepLeaveIndirect == IInv /\ LeaveIndirect => IInv'
<1> SUFFICES ASSUME IInv, LeaveIndirect PROVE IInv'
    OBVIOUS
<1> USE DEF LeaveIndirect
<1>1. /\ Calls' = Calls /\ Lists' = Lists /\ CacheEntries' = CacheEntries
      /\ BounceFunctions' = BounceFunctions /\ \A c : Found(c)' = Found(c)
    BY SameProgram
<1>2. resolver \in {"cha", "dsa"} /\ worklist # <<>> /\ Typed
    BY DEF Resolving, IInv
<1>3. /\ Current \in Calls /\ worklist' \in Seq(Calls)
      /\ Len(worklist) \in DOMAIN worklist /\ Current = worklist[Len(worklist)]
      /\ \A i \in DOMAIN worklist' : i \in DOMAIN worklist /\ i # Len(worklist) /\ worklist'[i] = worklist[i]
    <2>1. /\ Current \in Calls /\ worklist' \in Seq(Calls)
          /\ Len(worklist) \in DOMAIN worklist /\ Current = worklist[Len(worklist)]
          /\ DOMAIN worklist' = 1..(Len(worklist) - 1)
          /\ \A i \in DOMAIN worklist' : i \in DOMAIN worklist /\ worklist'[i] = worklist[i]
        BY <1>2, Popped
    <2>2. Len(worklist) \in Nat
        BY <1>2 DEF Typed
    <2>. QED
        BY <2>1, <2>2
<1>4. CASE resolver = "dsa"
    <2>1. targetsMap' = targetsMap
        BY <1>4 DEF Recorded
    <2>2. Typed'
        BY <1>1, <1>2, <1>3, <2>1 DEF Typed
    <2>3. ChaAnswersNothing'
        BY <1>4 DEF ChaAnswersNothing
    <2>4. DsaAnswers'
        BY <1>1, <2>1 DEF IInv, DsaAnswers
    <2>. QED
        BY <2>2, <2>3, <2>4, SameBounces DEF IInv
<1>5. CASE resolver = "cha"
    <2>1. ChaFound(Current) \in Lists
        <3>1. program.names \in Seq(Range(program.names))
            BY <1>2, ProgramsAssumption DEF Typed
        <3>2. ChaFound(Current)
                  \in Seq(Range(program.names) \cap ResolveVirtualCall(program, Call(Current)))
            BY <3>1, SublistElements DEF ChaFound
        <3>. QED
            BY <3>2 DEF Lists
    <2>2. /\ targetsMap' \in [Calls -> Lists]
          /\ \A c \in Calls : c # Current => targetsMap'[c] = targetsMap[c]
        BY <1>2, <2>1 DEF Typed, Recorded
    <2>3. Typed'
        BY <1>1, <1>2, <1>3, <2>2 DEF Typed
    <2>4. /\ callee = [c \in Calls |-> 0] /\ bounces = <<>> /\ bounceMap = <<>>
          /\ \A i, j \in DOMAIN worklist : worklist[i] = worklist[j] => i = j
          /\ \A i \in DOMAIN worklist : targetsMap[worklist[i]] = NoTargets
        BY <1>5 DEF IInv, ChaAnswersNothing, AskedOnce
    <2>5. ASSUME NEW i \in DOMAIN worklist' PROVE targetsMap'[worklist'[i]] = NoTargets
        <3>1. /\ i \in DOMAIN worklist /\ worklist'[i] = worklist[i]
              /\ worklist[i] # Current /\ worklist[i] \in Calls
            BY <1>2, <1>3, <2>4 DEF Typed
        <3>. QED
            BY <2>2, <2>4, <3>1
    <2>6. \A i, j \in DOMAIN worklist' : worklist'[i] = worklist'[j] => i = j
        BY <1>3, <2>4
    <2>7. ChaAnswersNothing'
        BY <1>1, <1>5, <2>4, <2>5, <2>6 DEF ChaAnswersNothing, AskedOnce
    <2>8. DsaAnswers'
        BY <1>5 DEF DsaAnswers
    <2>. QED
        BY <2>3, <2>7, <2>8, SameBounces DEF IInv
<1>. QED
    BY <1>2, <1>4, <1>5

LEMMA StepReuseBounce == IInv /\ ReuseBounce => IInv'
<1> SUFFICES ASSUME IInv, ReuseBounce PROVE IInv'
    OBVIOUS
<1> USE DEF ReuseBounce
<1>1. /\ Calls' = Calls /\ Lists' = Lists /\ CacheEntries' = CacheEntries
      /\ BounceFunctions' = BounceFunctions
      /\ \A c : Found(c)' = Found(c) /\ Call(c)' = Call(c)
    BY SameProgram
<1>2. resolver \in {"cha", "dsa"} /\ worklist # <<>> /\ Typed
    BY DEF Resolving, IInv
<1>3. Current \in Calls /\ worklist' \in Seq(Calls)
    BY <1>2, Popped
<1>4. PICK b \in GetBounceFunction(Current) \ {0} : callee' = [callee EXCEPT ![Current] = b]
    OBVIOUS
<1>5. resolver = "dsa"
    BY <1>2, <1>3, <1>4, ChaSilent
<1>6. /\ b \in DOMAIN bounces /\ bounces[b].type = Call(Current).type
      /\ Found(Current) # NoTargets
      /\ IsPrefix(bounces[b].targets, Found(Current)) \/ IsPrefix(Found(Current), bounces[b].targets)
    BY <1>3, <1>5, Reused
<1>7. b \in Nat /\ callee' \in [Calls -> Nat]
    BY <1>2, <1>3, <1>4, <1>6 DEF Typed
<1>8. Typed'
    BY <1>1, <1>2, <1>3, <1>7 DEF Typed
<1>9. ChaAnswersNothing'
    BY <1>5 DEF ChaAnswersNothing
<1>10. DsaAnswers'
    BY <1>1 DEF IInv, DsaAnswers
<1>11. Made'
    BY <1>1 DEF IInv, Made, MadeFor
<1>12. Cached'
    BY DEF IInv, Cached
<1>13. ASSUME NEW c \in Calls, callee'[c] # 0 PROVE Rewritten(c)'
    <2>1. CASE c = Current
        <3>1. callee'[c] = b
            BY <1>2, <1>3, <1>4, <2>1 DEF Typed
        <3>. QED
            BY <1>1, <1>6, <2>1, <3>1 DEF Rewritten, BounceOf
    <2>2. CASE c # Current
        <3>1. callee'[c] = callee[c]
            BY <1>2, <1>4, <2>2 DEF Typed
        <3>2. Rewritten(c)
            BY <1>13, <3>1 DEF IInv, AllRewritten
        <3>. QED
            BY <1>1, <3>1, <3>2 DEF Rewritten, BounceOf
    <2>. QED
        BY <2>1, <2>2
<1>14. AllRewritten'
    BY <1>1, <1>13 DEF AllRewritten
<1>. QED
    BY <1>8, <1>9, <1>10, <1>11, <1>12, <1>14 DEF IInv

LEMMA StepMakeBounce == IInv /\ MakeBounce => IInv'
<1> SUFFICES ASSUME IInv, MakeBounce PROVE IInv'
    OBVIOUS
<1>a. PICK n : n = Len(bounces) + 1
    OBVIOUS
<1>b. PICK new : new = NewBounce(Current)
    OBVIOUS
<1>c. PICK entry : entry = [type |-> Call(Current).type, targets |-> GetTargets(Current), bounce |-> n]
    OBVIOUS
<1>0. /\ Resolving /\ Pop /\ GetTargets(Current) # NoTargets /\ 0 \in GetBounceFunction(Current)
      /\ bounces' = Append(bounces, new) /\ bounceMap' = Append(bounceMap, entry)
      /\ callee' = [callee EXCEPT ![Current] = n]
      /\ UNCHANGED <<program, options, resolver, targetsMap>>
    BY <1>a, <1>b, <1>c DEF MakeBounce, CacheBounce
<1>1. /\ Calls' = Calls /\ Lists' = Lists /\ CacheEntries' = CacheEntries
      /\ BounceFunctions' = BounceFunctions
      /\ \A c : Found(c)' = Found(c) /\ Call(c)' = Call(c)
    BY <1>0, SameProgram
<1>2. resolver \in {"cha", "dsa"} /\ worklist # <<>> /\ Typed
    BY <1>0 DEF Resolving, IInv
<1>3. Current \in Calls /\ worklist' \in Seq(Calls)
    BY <1>0, <1>2, Popped
<1>4. resolver = "dsa"
    BY <1>0, <1>2, <1>3, ChaSilent
<1>5. GetTargets(Current) = Found(Current) /\ Found(Current) # NoTargets
    BY <1>0, <1>3, <1>4 DEF IInv, DsaAnswers, GetTargets
<1>6. Found(Current) \in Lists /\ Call(Current).type \in CallTypes
    <2>1. Found(Current) \in Lists
        BY <1>2, <1>3, FoundTargets DEF Typed, Found, Lists, Calls
    <2>. QED
        BY <1>3, <2>1 DEF CallTypes
<1>7. /\ bounces \in Seq(BounceFunctions) /\ bounceMap \in Seq(CacheEntries)
      /\ Len(bounces) \in Nat /\ callee \in [Calls -> Nat]
    BY <1>2 DEF Typed
<1>8. new \in BounceFunctions /\ new.type = Call(Current).type /\ new.targets = Found(Current)
    BY <1>b, <1>5, <1>6 DEF NewBounce, Default, BounceFunctions
<1>9. entry \in CacheEntries
    BY <1>a, <1>c, <1>5, <1>6, <1>7 DEF CacheEntries
<1>10. entry.type = new.type /\ entry.targets = new.targets /\ entry.bounce = n
    BY <1>c, <1>5, <1>8
<1>11. /\ DOMAIN bounces' = DOMAIN bounces \cup {n} /\ bounces'[n] = new
       /\ \A b \in DOMAIN bounces : bounces'[b] = bounces[b] /\ b # n
    BY <1>7, <1>8, <1>0, <1>a
<1>12. Typed'
    <2>1. bounces' \in Seq(BounceFunctions) /\ bounceMap' \in Seq(CacheEntries)
        BY <1>7, <1>8, <1>9, <1>0
    <2>2. callee' \in [Calls -> Nat]
        <3>1. n \in Nat /\ callee' = [callee EXCEPT ![Current] = n]
            BY <1>0, <1>7, <1>a
        <3>. QED
            BY <1>7, <3>1
    <2>. QED
        BY <1>0, <1>1, <1>2, <1>3, <2>1, <2>2 DEF Typed
<1>13. ChaAnswersNothing'
    BY <1>0, <1>4 DEF ChaAnswersNothing
<1>14. DsaAnswers'
    BY <1>0, <1>1 DEF IInv, DsaAnswers
<1>15. Made'
    <2>1. MadeFor(n)'
        BY <1>1, <1>3, <1>5, <1>8, <1>11 DEF MadeFor
    <2>2. ASSUME NEW b \in DOMAIN bounces PROVE MadeFor(b)'
        <3>1. MadeFor(b)
            BY DEF IInv, Made
        <3>. QED
            BY <1>1, <1>11, <3>1 DEF MadeFor
    <2>. QED
        BY <1>11, <2>1, <2>2 DEF Made
<1>16. Cached'
    <2>1. ASSUME NEW i \in DOMAIN bounceMap'
          PROVE  LET b == bounceMap'[i].bounce
                 IN  /\ b \in DOMAIN bounces' /\ bounceMap'[i].type = bounces'[b].type
                     /\ bounceMap'[i].targets = bounces'[b].targets
        <3>1. (i \in DOMAIN bounceMap /\ bounceMap'[i] = bounceMap[i]) \/ bounceMap'[i] = entry
            BY <1>7, <1>9, <1>0
        <3>2. CASE i \in DOMAIN bounceMap /\ bounceMap'[i] = bounceMap[i]
            BY <1>11, <3>2 DEF IInv, Cached
        <3>3. CASE bounceMap'[i] = entry
            BY <1>10, <1>11, <3>3
        <3>. QED
            BY <3>1, <3>2, <3>3
    <2>. QED
        BY <2>1 DEF Cached
<1>17. ASSUME NEW c \in Calls, callee'[c] # 0 PROVE Rewritten(c)'
    <2>1. CASE c = Current
        <3>1. callee'[c] = n
            BY <1>3, <1>7, <1>0, <2>1
        <3>2. IsPrefix(Found(c), Found(c))
            BY <1>6, <2>1 DEF IsPrefix, Lists
        <3>. QED
            BY <1>1, <1>5, <1>8, <1>11, <2>1, <3>1, <3>2 DEF Rewritten, BounceOf
    <2>2. CASE c # Current
        <3>1. callee'[c] = callee[c]
            BY <1>7, <1>0, <2>2
        <3>2. Rewritten(c)
            BY <1>17, <3>1 DEF IInv, AllRewritten
        <3>. QED
            BY <1>1, <1>11, <3>1, <3>2 DEF Rewritten, BounceOf
    <2>. QED
        BY <2>1, <2>2
<1>18. AllRewritten'
    BY <1>1, <1>17 DEF AllRewritten
<1>. QED
    BY <1>12, <1>13, <1>14, <1>15, <1>16, <1>18 DEF IInv

---------------------------------------------------------------------------
(* The class hierarchy                                                     *)

LEMMA Induct ==
    ASSUME NEW n \in Nat, NEW T \in SUBSET (0..n), 0 \in T, \A k \in 1..n : k - 1 \in T => k \in T
    PROVE  T = 0..n
<1> DEFINE M == (0..n) \ T
<1>1. SUFFICES ASSUME M # {} PROVE FALSE
    OBVIOUS
<1>2. PICK m \in M : \A j \in M : <<j, m>> \notin OpToRel(<, Nat)
    <2>1. M \subseteq Nat
        OBVIOUS
    <2> HIDE DEF M
    <2>. QED
        BY <1>1, <2>1, NatLessThanWellFounded, WFMin
<1>3. m \in 1..n /\ m - 1 \in 0..n
    OBVIOUS
<1>4. m - 1 \in T
    <2>1. m - 1 \in M => <<m - 1, m>> \in OpToRel(<, Nat)
        BY <1>3 DEF OpToRel
    <2>. QED
        BY <2>1, <1>2, <1>3
<1>. QED
    BY <1>3, <1>4

\* The graphs after the first rounds of closureCHG.
Rounds(P, n, g) ==
    g = [k \in 0..n |-> IF k = 0 THEN BuildCHG(P) ELSE ThroughNode(g[k - 1], P.structs[k])]

LEMMA RoundsExist ==
    ASSUME NEW P, NEW n \in Nat
    PROVE  \E g : Rounds(P, n, g)
<1> DEFINE T == {m \in 0..n : \E g : Rounds(P, m, g)}
<1>1. 0 \in T
    <2>1. Rounds(P, 0, [k \in 0..0 |-> BuildCHG(P)])
        BY DEF Rounds
    <2>. QED
        BY <2>1
<1>2. ASSUME NEW m \in 1..n, m - 1 \in T PROVE m \in T
    <2>1. PICK g : Rounds(P, m - 1, g)
        BY <1>2
    <2> DEFINE h == [k \in 0..m |-> IF k = m THEN ThroughNode(g[m - 1], P.structs[m]) ELSE g[k]]
    <2>2. \A k \in 0..(m - 1) : h[k] = g[k]
        OBVIOUS
    <2>3. h[m] = ThroughNode(h[m - 1], P.structs[m])
        <3>1. h[m] = ThroughNode(g[m - 1], P.structs[m]) /\ m - 1 \in 0..(m - 1)
            OBVIOUS
        <3> HIDE DEF h
        <3>. QED
            BY <2>2, <3>1
    <2>4. h = [k \in 0..m |-> h[k]]
        OBVIOUS
    <2> HIDE DEF h
    <2>5. ASSUME NEW k \in 0..m
          PROVE  h[k] = IF k = 0 THEN BuildCHG(P) ELSE ThroughNode(h[k - 1], P.structs[k])
        <3>1. CASE k = m
            BY <2>3, <3>1
        <3>2. CASE k # m
            <4>1. k \in 0..(m - 1) /\ (k # 0 => k - 1 \in 0..(m - 1))
                BY <3>2
            <4>2. g[k] = IF k = 0 THEN BuildCHG(P) ELSE ThroughNode(g[k - 1], P.structs[k])
                BY <2>1, <4>1 DEF Rounds
            <4>. QED
                BY <2>2, <4>1, <4>2
        <3>. QED
            BY <3>1, <3>2
    <2>6. h = [k \in 0..m |-> IF k = 0 THEN BuildCHG(P) ELSE ThroughNode(h[k - 1], P.structs[k])]
        BY <2>4, <2>5
    <2>7. Rounds(P, m, h)
        BY <2>6 DEF Rounds
    <2>. QED
        BY <2>7
<1>3. T = 0..n
    <2> HIDE DEF T
    <2>1. T \in SUBSET (0..n)
        BY DEF T
    <2>. QED
        BY <1>1, <1>2, <2>1, Induct
<1>. QED
    BY <1>3

\* Paths of two edges through the classes S have an edge.
ClosedThrough(V, edges, S) ==
    \A a, b \in V, k \in S : <<a, k>> \in edges /\ <<k, b>> \in edges => <<a, b>> \in edges

LEMMA EdgesThroughNode ==
    ASSUME NEW V, NEW edges \in SUBSET (V \X V), NEW k \in V
    PROVE  /\ ThroughNode(edges, k) \in SUBSET (V \X V)
           /\ \A a, b \in V :
                 <<a, b>> \in ThroughNode(edges, k) <=>
                     <<a, b>> \in edges \/ (<<a, k>> \in edges /\ <<k, b>> \in edges)
<1> DEFINE new == {<<e[1], d[2]>> : e \in {e \in edges : e[2] = k}, d \in {d \in edges : d[1] = k}}
<1>1. ThroughNode(edges, k) = edges \cup new
    BY DEF ThroughNode
<1>2. ASSUME NEW x \in new PROVE \E a, b \in V : x = <<a, b>> /\ <<a, k>> \in edges /\ <<k, b>> \in edges
    <2>1. PICK e \in {e \in edges : e[2] = k}, d \in {d \in edges : d[1] = k} : x = <<e[1], d[2]>>
        OBVIOUS
    <2>2. e \in V \X V /\ d \in V \X V /\ e[2] = k /\ d[1] = k
        OBVIOUS
    <2>3. e[1] \in V /\ d[2] \in V /\ e = <<e[1], k>> /\ d = <<k, d[2]>>
        BY <2>2
    <2>. QED
        BY <2>1, <2>3
<1>3. ASSUME NEW a \in V, NEW b \in V, <<a, k>> \in edges, <<k, b>> \in edges PROVE <<a, b>> \in new
    <2>1. <<a, k>> \in {e \in edges : e[2] = k} /\ <<k, b>> \in {d \in edges : d[1] = k}
        BY <1>3
    <2>2. <<a, b>> = << <<a, k>>[1], <<k, b>>[2] >>
        OBVIOUS
    <2>. QED
        BY <2>1, <2>2
<1> HIDE DEF new
<1>4. new \subseteq V \X V
    <2>1. ASSUME NEW x \in new PROVE x \in V \X V
        <3>1. PICK a \in V, b \in V : x = <<a, b>>
            BY <1>2
        <3>. QED
            BY <3>1
    <2>. QED
        BY <2>1
<1>5. ASSUME NEW a \in V, NEW b \in V, <<a, b>> \in new PROVE <<a, k>> \in edges /\ <<k, b>> \in edges
    BY <1>2, <1>5
<1>. QED
    BY <1>1, <1>3, <1>4, <1>5

\* A round adds the paths through its class and loses none of those before.
LEMMA RoundCloses ==
    ASSUME NEW V, NEW edges \in SUBSET (V \X V), NEW k \in V, NEW S \in SUBSET V,
           ClosedThrough(V, edges, S)
    PROVE  ClosedThrough(V, ThroughNode(edges, k), S \cup {k})
<1> DEFINE Edge(a, b) == <<a, b>> \in edges
           New(a, b) == <<a, b>> \in ThroughNode(edges, k)
<1>1. \A a, b \in V : New(a, b) <=> Edge(a, b) \/ (Edge(a, k) /\ Edge(k, b))
    BY EdgesThroughNode
<1>2. \A a, b \in V, j \in S : Edge(a, j) /\ Edge(j, b) => Edge(a, b)
    BY DEF ClosedThrough
<1>3. \A j \in S : j \in V
    OBVIOUS
<1> SUFFICES ASSUME NEW a \in V, NEW b \in V, NEW j \in S \cup {k}, New(a, j), New(j, b) PROVE New(a, b)
    BY DEF ClosedThrough
<1> HIDE DEF Edge, New
<1>4. CASE j \in S
    BY <1>1, <1>2, <1>3, <1>4
<1>5. CASE j = k
    BY <1>1, <1>5
<1>. QED
    BY <1>4, <1>5

\* closureCHG closes the graph: it keeps the edges and follows them.
LEMMA GraphIsClosed ==
    ASSUME NEW P \in Programs
    PROVE  /\ ClosureCHG(P) \in SUBSET (Structs(P) \X Structs(P))
           /\ BuildCHG(P) \subseteq ClosureCHG(P)
           /\ ClosedThrough(Structs(P), ClosureCHG(P), Structs(P))
<1> DEFINE n == Len(P.structs)
           V == Structs(P)
           g == CHOOSE g : Rounds(P, n, g)
           Seen(k) == {P.structs[i] : i \in 1..k}
           Good(k) == /\ g[k] \in SUBSET (V \X V) /\ BuildCHG(P) \subseteq g[k]
                      /\ ClosedThrough(V, g[k], Seen(k))
           T == {k \in 0..n : Good(k)}
<1>1. P.structs \in Seq(V) /\ n \in Nat /\ V = {P.structs[i] : i \in 1..n}
    <2>1. P.structs \in Seq(V)
        BY HierarchyAssumption
    <2>2. n \in Nat /\ DOMAIN P.structs = 1..n
        BY <2>1
    <2>. QED
        BY <2>1, <2>2 DEF Structs, Range
<1>2. Rounds(P, n, g)
    BY <1>1, RoundsExist
<1>3. ClosureCHG(P) = g[n]
    BY DEF ClosureCHG, Rounds
<1> HIDE DEF n, V, g
<1>4. g[0] = BuildCHG(P) /\ \A k \in 1..n : g[k] = ThroughNode(g[k - 1], P.structs[k])
    <2>1. 0 \in 0..n /\ \A k \in 1..n : k \in 0..n /\ k # 0
        BY <1>1
    <2>. QED
        BY <1>2, <2>1 DEF Rounds
<1>5. 0 \in T
    <2>1. BuildCHG(P) \in SUBSET (V \X V) /\ Seen(0) = {}
        BY DEF BuildCHG, V
    <2>2. ClosedThrough(V, g[0], Seen(0))
        BY <2>1 DEF ClosedThrough
    <2>3. BuildCHG(P) \subseteq g[0] /\ 0 \in 0..n
        BY <1>1, <1>4
    <2>4. Good(0)
        BY <1>4, <2>1, <2>2, <2>3
    <2> HIDE DEF Good
    <2>. QED
        BY <2>3, <2>4
<1>6. ASSUME NEW k \in 1..n, k - 1 \in T PROVE k \in T
    <2>1. Good(k - 1) /\ P.structs[k] \in V /\ k \in 0..n
        BY <1>1, <1>6
    <2>2. Seen(k) = Seen(k - 1) \cup {P.structs[k]} /\ Seen(k - 1) \in SUBSET V
        BY <1>1
    <2>3. g[k] = ThroughNode(g[k - 1], P.structs[k])
        BY <1>4
    <2> HIDE DEF Seen
    <2>4. g[k] \in SUBSET (V \X V) /\ ClosedThrough(V, g[k], Seen(k))
        BY <2>1, <2>2, <2>3, EdgesThroughNode, RoundCloses
    <2>5. g[k - 1] \subseteq g[k]
        BY <2>3 DEF ThroughNode
    <2>. QED
        BY <2>1, <2>4, <2>5
<1>7. T = 0..n
    <2> HIDE DEF T
    <2>1. T \in SUBSET (0..n)
        BY DEF T
    <2>. QED
        BY <1>1, <1>5, <1>6, <2>1, Induct
<1>8. Good(n) /\ Seen(n) = V
    <2>1. n \in T
        <3> HIDE DEF T
        <3>. QED
            BY <1>1, <1>7
    <2>2. Good(n)
        BY <2>1
    <2>. QED
        BY <1>1, <2>2
<1>. QED
    BY <1>3, <1>8 DEF V

\* The primary base classes of a class reach it in the closed graph, if each is an element
\* of the next.
LEMMA BasesReach ==
    ASSUME NEW P \in Programs, NEW i \in DOMAIN P.tables, P.tables[i].owner \in Range(P.tables[i].statics),
           NEW s, Embeds(P, P.tables[i], s)
    PROVE  /\ s \in Structs(P) /\ P.tables[i].owner \in Structs(P)
           /\ s = P.tables[i].owner \/ <<s, P.tables[i].owner>> \in ClosureCHG(P)
<1> DEFINE chain == P.tables[i].statics
           d == P.tables[i].owner
           E == ClosureCHG(P)
           n == Len(chain)
<1>1. IsTable(P, P.tables[i]) /\ IsPrimary(P, i)
    BY HierarchyAssumption
<1>2. chain \in Seq(Structs(P)) /\ n \in Nat /\ DOMAIN chain = 1..n
    BY <1>1 DEF IsTable
<1>3. d = chain[n]
    BY <1>1 DEF IsPrimary, Last
<1>4. PICK m \in 1..n : s = chain[m] /\ \A j \in (m + 1)..n : chain[j - 1] \in P.members[chain[j]]
    BY <1>2 DEF Embeds
<1>5. ClosedThrough(Structs(P), E, Structs(P)) /\ BuildCHG(P) \subseteq E
    BY GraphIsClosed
<1>6. \A j \in 1..n : chain[j] \in Structs(P)
    BY <1>2
<1>7. ASSUME NEW j \in (m + 1)..n PROVE <<chain[j - 1], chain[j]>> \in E
    <2>1. j - 1 \in 1..n /\ j \in 1..n
        BY <1>2
    <2>2. chain[j - 1] \in P.members[chain[j]] /\ chain[j - 1] \in Structs(P) /\ chain[j] \in Structs(P)
        BY <1>4, <1>6, <2>1
    <2>3. <<chain[j - 1], chain[j]>> \in BuildCHG(P)
        BY <2>2 DEF BuildCHG
    <2>. QED
        BY <1>5, <2>3
<1> DEFINE T == {k \in 0..(n - m) : k = 0 \/ <<s, chain[m + k]>> \in E}
<1> HIDE DEF chain, d, n, E
<1>8. ASSUME NEW k \in 1..(n - m), k - 1 \in T PROVE k \in T
    <2>1. m + k \in (m + 1)..n /\ m + k \in 1..n /\ m + k - 1 \in 1..n /\ k \in 0..(n - m) /\ m + (k - 1) = m + k - 1
        BY <1>2
    <2>2. <<chain[m + k - 1], chain[m + k]>> \in E
        BY <1>7, <2>1
    <2>3. CASE k = 1
        <3>1. chain[m + k - 1] = s
            BY <1>4, <2>3
        <3>. QED
            BY <2>1, <2>2, <3>1
    <2>4. CASE k # 1
        <3>1. <<s, chain[m + k - 1]>> \in E
            BY <1>8, <2>1, <2>4
        <3>2. s \in Structs(P) /\ chain[m + k - 1] \in Structs(P) /\ chain[m + k] \in Structs(P)
            BY <1>4, <1>6, <2>1
        <3>3. <<s, chain[m + k]>> \in E
            BY <1>5, <2>2, <3>1, <3>2 DEF ClosedThrough
        <3>. QED
            BY <2>1, <3>3
    <2>. QED
        BY <2>3, <2>4
<1>9. n - m \in Nat /\ n - m \in 0..(n - m) /\ m + (n - m) = n
    BY <1>2
<1>10. T = 0..(n - m)
    <2>1. 0 \in T
        BY <1>9
    <2> HIDE DEF T
    <2>2. T \in SUBSET (0..(n - m))
        BY DEF T
    <2>. QED
        BY <1>8, <1>9, <2>1, <2>2, Induct
<1>11. n - m = 0 \/ <<s, chain[n]>> \in E
    <2>1. n - m \in T
        <3> HIDE DEF T
        <3>. QED
            BY <1>9, <1>10
    <2>. QED
        BY <1>9, <2>1
<1>12. n - m = 0 => s = chain[n]
    BY <1>2, <1>4
<1>13. s \in Structs(P) /\ chain[n] \in Structs(P)
    BY <1>2, <1>4, <1>6
<1>. QED
    BY <1>3, <1>11, <1>12, <1>13 DEF chain, d, n, E

\* The type information of a table is its only entry of this kind.
LEMMA TypeinfoOfTable ==
    ASSUME NEW P, NEW array, IsTable(P, array)
    PROVE  /\ IndexOfTypeinfo(array) \in DOMAIN array.entries
           /\ array.entries[IndexOfTypeinfo(array)] = Typeinfo(array.class)
           /\ \A i \in DOMAIN array.entries :
                 /\ i < IndexOfTypeinfo(array) => array.entries[i].kind = "offset"
                 /\ i > IndexOfTypeinfo(array) => array.entries[i].kind \in {"function", "pure", "alias"}
<1> DEFINE entries == array.entries
           Is(t) == entries[t].kind = "typeinfo"
<1>1. PICK t \in DOMAIN entries :
          /\ entries[t] = Typeinfo(array.class)
          /\ \A i \in DOMAIN entries :
                /\ i < t => entries[i].kind = "offset"
                /\ i > t => entries[i].kind \in {"function", "pure", "alias"}
    BY DEF IsTable
<1>2. entries \in Seq(Range(entries)) /\ DOMAIN entries \subseteq Int
    BY DEF IsTable
<1>3. Is(t)
    BY <1>1 DEF Typeinfo
<1>4. \A i \in DOMAIN entries : Is(i) => i = t
    <2>1. \A i \in DOMAIN entries : ~(i < t) /\ ~(i > t) => i = t
        BY <1>2
    <2>. QED
        BY <1>1, <2>1
<1>5. IndexOfTypeinfo(array) = t
    BY <1>3, <1>4 DEF IndexOfTypeinfo
<1>. QED
    BY <1>1, <1>5

\* A table is recorded for the struct that its class's name, cut down, stands for.
LEMMA ClassOfTable ==
    ASSUME NEW P, NEW array, IsTable(P, array), NoClass \notin Structs(P)
    PROVE  ClassTypeinfo(P, array) = FoundFor(P, array)
<1> DEFINE t == IndexOfTypeinfo(array)
           named == {ClassType(P, AfterLastOf(array.entries[i].class)) :
                        i \in {i \in DOMAIN array.entries : array.entries[i].kind = "typeinfo"}}
           known == named \ {NoClass}
<1>1. /\ t \in DOMAIN array.entries /\ array.entries[t] = Typeinfo(array.class)
      /\ \A i \in DOMAIN array.entries :
            /\ i < t => array.entries[i].kind = "offset"
            /\ i > t => array.entries[i].kind \in {"function", "pure", "alias"}
    BY TypeinfoOfTable
<1>2. DOMAIN array.entries \subseteq Int
    <2>1. array.entries \in Seq(Range(array.entries))
        BY DEF IsTable
    <2>. QED
        BY <2>1
<1> HIDE DEF t
<1>3. array.entries[t].kind = "typeinfo" /\ array.entries[t].class = array.class
    BY <1>1 DEF Typeinfo
<1>4. {i \in DOMAIN array.entries : array.entries[i].kind = "typeinfo"} = {t}
    <2>1. ASSUME NEW i \in DOMAIN array.entries, array.entries[i].kind = "typeinfo" PROVE i = t
        <3>1. ~(i < t) /\ ~(i > t) /\ i \in Int /\ t \in Int
            BY <1>1, <1>2, <2>1
        <3>. QED
            BY <3>1
    <2>. QED
        BY <1>1, <1>3, <2>1
<1>5. named = {FoundFor(P, array)}
    BY <1>3, <1>4 DEF FoundFor
<1>6. ClassTypeinfo(P, array) = IF known = {} THEN NoClass ELSE CHOOSE c \in known : TRUE
    BY DEF ClassTypeinfo
<1> HIDE DEF named
<1>. QED
    BY <1>5, <1>6

\* The analysis finds the table of a class if its name, cut down, stands for the class's
\* struct and no other class is mistaken for it.
LEMMA TableIsFound ==
    ASSUME NEW P \in Programs, NEW i \in DOMAIN P.tables,
           P.tables[i].owner \in Range(P.tables[i].statics),
           FoundFor(P, P.tables[i]) = P.tables[i].owner, ~Namesake(P, P.tables[i].owner, i)
    PROVE  HasVtable(P, P.tables[i].owner) /\ GetVtable(P, P.tables[i].owner) = VtableOf(P.tables[i])
<1> DEFINE d == P.tables[i].owner
           S == TablesOf(P, d)
<1>1. NoClass \notin Structs(P) /\ IsPrimary(P, i) /\ \A j \in DOMAIN P.tables : IsTable(P, P.tables[j])
    BY HierarchyAssumption
<1>2. P.tables \in Seq(Range(P.tables))
    BY HierarchyAssumption
<1>3. DOMAIN P.tables \subseteq Nat \ {0}
    BY <1>2
<1>4. d \in Structs(P) /\ d # NoClass
    <2>1. P.tables[i].statics \in Seq(Structs(P))
        BY <1>1 DEF IsTable
    <2>. QED
        BY <1>1, <2>1 DEF Range
<1>5. \A j \in DOMAIN P.tables : j \in S <=> ClassTypeinfo(P, P.tables[j]) = d
    BY <1>4 DEF TablesOf, BuildVtables
<1>6. i \in S
    <2>1. ClassTypeinfo(P, P.tables[i]) = d
        BY <1>1, <1>4, ClassOfTable
    <2>. QED
        BY <1>5, <2>1
<1>7. S \subseteq DOMAIN P.tables
    BY DEF TablesOf, BuildVtables
<1>8. ASSUME NEW j \in S PROVE i <= j
    <2>1. j \in DOMAIN P.tables /\ ClassTypeinfo(P, P.tables[j]) = d
        BY <1>5, <1>7
    <2>2. FoundFor(P, P.tables[j]) = d
        BY <1>1, <1>4, <2>1, ClassOfTable
    <2>3. CASE P.tables[j].owner = d
        BY <1>1, <2>1, <2>3 DEF IsPrimary
    <2>4. CASE P.tables[j].owner # d
        <3>1. j \notin 1..(i - 1)
            BY <2>2, <2>4 DEF Namesake
        <3>. QED
            BY <1>3, <2>1, <3>1
    <2>. QED
        BY <2>3, <2>4
<1>9. FirstTable(P, d) = i
    <2>1. \A j \in S : (\A k \in S : j <= k) => j = i
        BY <1>3, <1>6, <1>7, <1>8
    <2>. QED
        BY <1>6, <1>8, <2>1 DEF FirstTable
<1>. QED
    BY <1>6, <1>9 DEF HasVtable, GetVtable

\* Without aliases up to it, the entry that is called is where the index says.
LEMMA EntryIsThere ==
    ASSUME NEW P, NEW array, IsTable(P, array), NEW slot \in Nat,
           IndexOfTypeinfo(array) + 1 + slot \in DOMAIN array.entries, ~AliasUpTo(array, slot),
           slot < Len(VtableOf(array))
    PROVE  VtableOf(array)[slot + 1] = array.entries[IndexOfTypeinfo(array) + 1 + slot]
<1> DEFINE entries == array.entries
           methods == {e \in Range(entries) : e.kind \in {"function", "pure"}}
           t == IndexOfTypeinfo(array)
           K == Places(entries, methods)
           p == t + 1 + slot
<1>1. /\ t \in DOMAIN entries /\ entries[t] = Typeinfo(array.class)
      /\ \A i \in DOMAIN entries :
            /\ i < t => entries[i].kind = "offset"
            /\ i > t => entries[i].kind \in {"function", "pure", "alias"}
    BY TypeinfoOfTable
<1>2. entries \in Seq(Range(entries))
    BY DEF IsTable
<1>3. DOMAIN entries = 1..Len(entries) /\ Len(entries) \in Nat /\ t \in Nat /\ p \in DOMAIN entries
    BY <1>1, <1>2
<1>4. \A i \in DOMAIN entries : i <= p => entries[i].kind # "alias"
    BY DEF AliasUpTo
<1>5. \A i \in DOMAIN entries : i \in K <=> entries[i].kind \in {"function", "pure"}
    BY DEF Places, Range
<1> HIDE DEF t
<1>6. K \cap (1..p) = (t + 1)..p
    <2>1. ASSUME NEW i \in K, i \in 1..p PROVE i \in (t + 1)..p
        <3>1. i \in DOMAIN entries /\ entries[i].kind \in {"function", "pure"} /\ i \in Nat
            BY <1>3, <1>5, <2>1 DEF Places
        <3>2. i # t
            BY <1>1, <3>1 DEF Typeinfo
        <3>3. ~(i < t)
            BY <1>1, <3>1
        <3>. QED
            BY <1>3, <2>1, <3>1, <3>2, <3>3
    <2>2. ASSUME NEW i \in (t + 1)..p PROVE i \in K /\ i \in 1..p
        <3>1. i \in DOMAIN entries /\ i > t /\ i <= p
            BY <1>3
        <3>2. entries[i].kind \in {"function", "pure"}
            BY <1>1, <1>4, <3>1
        <3>. QED
            BY <1>3, <1>5, <3>1, <3>2
    <2>. QED
        BY <2>1, <2>2
<1>7. Cardinality(K \cap (1..p)) = slot + 1 /\ p \in K
    <2>1. Cardinality((t + 1)..p) = p - (t + 1) + 1
        BY <1>3, FS_Interval
    <2>2. p - (t + 1) + 1 = slot + 1 /\ p \in (t + 1)..p
        BY <1>3
    <2>. QED
        BY <1>6, <2>1, <2>2
<1>8. PICK n \in 1..Cardinality(K) : Place(entries, methods, n) = p
    <2> HIDE DEF methods, p
    <2>1. \A i \in Places(entries, methods) :
              \E n \in 1..Cardinality(Places(entries, methods)) : Place(entries, methods, n) = i
        BY <1>2, PlaceIsCounted
    <2>. QED
        BY <1>7, <2>1
<1>9. n = slot + 1
    BY <1>2, <1>7, <1>8, PlaceIsCounted
<1>10. VtableOf(array) = [m \in 1..Cardinality(K) |-> entries[Place(entries, methods, m)]]
    BY DEF VtableOf, Sublist
<1> HIDE DEF methods, K, p
<1>11. VtableOf(array)[n] = entries[p]
    BY <1>8, <1>10
<1>. QED
    BY <1>9, <1>11 DEF p, t

---------------------------------------------------------------------------
(* Theorems                                                                *)

\* The invariant of the pass, for all modules, options and answers of the pointer analysis.
THEOREM Invariant == Spec => []IInv
<1>1. IInv /\ UNCHANGED vars => IInv'
    <2> SUFFICES ASSUME IInv, UNCHANGED vars PROVE IInv'
        OBVIOUS
    <2> USE DEF vars
    <2>1. /\ Calls' = Calls /\ Lists' = Lists /\ CacheEntries' = CacheEntries
          /\ BounceFunctions' = BounceFunctions /\ \A c : Found(c)' = Found(c)
        BY SameProgram
    <2>2. Typed'
        BY <2>1 DEF IInv, Typed
    <2>3. ChaAnswersNothing' /\ DsaAnswers'
        BY <2>1 DEF IInv, ChaAnswersNothing, AskedOnce, DsaAnswers
    <2>. QED
        BY <2>2, <2>3, SameBounces DEF IInv
<1>2. IInv /\ [Next]_vars => IInv'
    BY <1>1, StepStartCHA, StepStartDsa, StepEnd, StepLeaveIndirect, StepReuseBounce, StepMakeBounce
    DEF Next, Ended
<1>. QED
    BY <1>2, InitInv, PTL DEF Spec

\* The query that resolves a virtual call returns nothing (DevirtFunctions.cpp:365): up to
\* the pointer analysis no call is rewritten, whatever the class hierarchy says.
ChaRewritesNothing == resolver \in {"none", "cha", "aborted"} => \A c \in Calls : callee[c] = 0

THEOREM ChaNeverRewrites == Spec => []ChaRewritesNothing
<1>1. IInv => ChaRewritesNothing
    BY DEF IInv, ChaAnswersNothing, ChaRewritesNothing
<1>. QED
    BY <1>1, Invariant, PTL

LEMMA PrefixRange ==
    ASSUME NEW S, NEW s \in Seq(S), NEW t \in Seq(S), IsPrefix(s, t)
    PROVE  Range(s) \subseteq Range(t)
<1>1. Len(s) \in Nat /\ Len(t) \in Nat /\ Len(s) <= Len(t) /\ SubSeq(s, 1, Len(s)) = SubSeq(t, 1, Len(s))
    BY DEF IsPrefix
<1>2. ASSUME NEW i \in 1..Len(s) PROVE s[i] = t[i] /\ i \in 1..Len(t)
    <2>1. SubSeq(s, 1, Len(s))[i] = s[i] /\ SubSeq(t, 1, Len(s))[i] = t[i]
        BY <1>1
    <2>. QED
        BY <1>1, <2>1
<1>. QED
    BY <1>2 DEF Range

LEMMA PrefixHead ==
    ASSUME NEW S, NEW s \in Seq(S), NEW t \in Seq(S), s # <<>>, t # <<>>,
           IsPrefix(s, t) \/ IsPrefix(t, s)
    PROVE  1 \in DOMAIN s /\ 1 \in DOMAIN t /\ s[1] = t[1]
<1>1. Len(s) \in Nat \ {0} /\ Len(t) \in Nat \ {0}
    OBVIOUS
<1>2. ASSUME NEW x \in Seq(S), NEW y \in Seq(S), x # <<>>, IsPrefix(x, y) PROVE x[1] = y[1]
    <2>1. /\ Len(x) \in Nat \ {0} /\ Len(y) \in Nat /\ Len(x) <= Len(y)
          /\ SubSeq(x, 1, Len(x)) = SubSeq(y, 1, Len(x))
        BY <1>2 DEF IsPrefix
    <2>2. SubSeq(x, 1, Len(x))[1] = x[1] /\ SubSeq(y, 1, Len(x))[1] = y[1]
        BY <2>1
    <2>. QED
        BY <2>1, <2>2
<1>3. s[1] = t[1]
    BY <1>2
<1>. QED
    BY <1>1, <1>3

LEMMA BounceLists ==
    ASSUME IInv, NEW c \in Calls, callee[c] # 0
    PROVE  BounceOf(c).targets \in Lists /\ Found(c) \in Lists
<1>1. bounces[callee[c]] \in BounceFunctions
    BY DEF IInv, Typed, AllRewritten, Rewritten
<1>2. Found(c) \in Lists
    BY FoundTargets DEF IInv, Typed, Found, Lists, Calls
<1>. QED
    BY <1>1, <1>2 DEF BounceFunctions, BounceOf

\* A rewritten call calls the function its pointer stands for, with the exceptions that
\* CallsKeepTheirCallee names, for all modules, options and sound pointer analyses.
THEOREM CalleesKept == Spec => []CallsKeepTheirCallee
<1>1. ASSUME IInv PROVE CallsKeepTheirCallee
    <2> SUFFICES ASSUME NEW c \in Calls, callee[c] # 0, NEW f \in Call(c).may,
                        ~(~program.dsa[c].complete /\ options.incomplete),
                        f \in TypesTargets(program, Call(c)), ~ReusedPrefix(c)
                 PROVE  Reached(c, f) = f
        BY DEF CallsKeepTheirCallee
    <2>1. Rewritten(c) /\ program \in Programs /\ c \in DOMAIN program.calls
        BY <1>1 DEF IInv, AllRewritten, Typed, Calls
    <2>2. /\ Range(Found(c)) = program.dsa[c].targets \cap TypesTargets(program, program.calls[c])
          /\ options.incomplete \/ program.dsa[c].complete
        BY <2>1, FoundTargets DEF Found, Rewritten
    <2>3. program.dsa[c].complete
        BY <2>2
    <2>4. f \in program.dsa[c].targets
        BY <2>1, <2>3, DsaIsSound DEF Call
    <2>5. f \in Range(Found(c))
        BY <2>2, <2>4 DEF Call
    <2>6. BounceOf(c).targets \in Lists /\ Found(c) \in Lists
        BY <1>1, BounceLists
    <2>7. CASE IsPrefix(Found(c), BounceOf(c).targets)
        BY <2>5, <2>6, <2>7, PrefixRange DEF Reached, Lists
    <2>8. CASE IsPrefix(BounceOf(c).targets, Found(c))
        <3>1. BounceOf(c).targets = Found(c)
            BY <2>8 DEF ReusedPrefix, Found
        <3>. QED
            BY <2>5, <3>1 DEF Reached
    <2>. QED
        BY <2>1, <2>7, <2>8 DEF Rewritten
<1>. QED
    BY <1>1, Invariant, PTL

\* The direct calls of a bounce function have the parameters and the result of the calls
\* that it was made for and of those that reuse it, unless the address was cast to more
\* than another result, for all modules and options.
THEOREM DirectCalls == Spec => []DirectCallsMatch
<1>1. ASSUME IInv PROVE DirectCallsMatch
    <2> SUFFICES ASSUME NEW c \in Calls, callee[c] # 0, CastDropsResult(Call(c)),
                        NEW i \in DOMAIN BounceOf(c).targets
                 PROVE  LET type == program.type[BounceOf(c).targets[i]]
                        IN  /\ type.this = Call(c).type.this /\ type.rest = Call(c).type.rest
                            /\ Call(c).type.ret \in {type.ret, "void"}
        BY DEF DirectCallsMatch
    <2> DEFINE list == BounceOf(c).targets
    <2>1. Rewritten(c) /\ program \in Programs
        BY <1>1 DEF IInv, AllRewritten, Typed
    <2>2. PICK d \in Calls : list = Found(d) /\ Found(d) # NoTargets
        BY <1>1, <2>1 DEF IInv, Made, MadeFor, Rewritten, BounceOf
    <2>3. ASSUME NEW e \in Calls, Found(e) # NoTargets, NEW j \in DOMAIN Found(e)
          PROVE  program.type[Found(e)[j]] = Call(e).through
        <3>1. Range(Found(e)) = program.dsa[e].targets \cap TypesTargets(program, program.calls[e])
            BY <2>1, <2>3, FoundTargets DEF Found, Calls
        <3>2. Found(e)[j] \in Range(Found(e))
            BY DEF Range
        <3>. QED
            BY <3>1, <3>2 DEF TypesTargets, Call
    <2>4. list \in Lists /\ Found(c) \in Lists
        BY <1>1, BounceLists
    <2>5. 1 \in DOMAIN list /\ 1 \in DOMAIN Found(c) /\ list[1] = Found(c)[1]
        BY <2>1, <2>2, <2>4, PrefixHead DEF Lists, Rewritten, NoTargets
    <2>6. program.type[list[1]] = Call(d).through /\ program.type[Found(c)[1]] = Call(c).through
        BY <2>1, <2>2, <2>3, <2>5 DEF Rewritten
    <2>7. program.type[list[i]] = Call(c).through
        BY <2>2, <2>3, <2>5, <2>6
    <2>8. IsType(Call(c).through)
        BY <2>1, ProgramsAssumption DEF Calls, Call
    <2>. QED
        BY <2>7, <2>8 DEF CastDropsResult, IsType
<1>. QED
    BY <1>1, Invariant, PTL

\* The candidates of a virtual call contain what objects dispatch to, with the exceptions
\* that ChaCoversDispatch names, for every hierarchy and every set of tables.
THEOREM DispatchCovered == Spec => []ChaCoversDispatch
<1>1. ASSUME program \in Programs PROVE ChaCoversDispatch
    <2> SUFFICES ASSUME NEW c \in VirtualCalls, ~ResolveAborts(program, Call(c)),
                        NEW d \in Call(c).objects,
                        FoundFor(program, ArrayFor(program, d, Call(c).type.this)) = d,
                        Embeds(program, ArrayFor(program, d, Call(c).type.this), Call(c).type.this),
                        ~Namesake(program, d, TableFor(program, d, Call(c).type.this)),
                        d \in Range(ArrayFor(program, d, Call(c).type.this).statics),
                        ~AliasUpTo(ArrayFor(program, d, Call(c).type.this), Call(c).slot),
                        MatchVirtualSignature(Call(c).type, program.type[Dispatch(program, d, Call(c))])
                 PROVE  Dispatch(program, d, Call(c)) \in ResolveVirtualCall(program, Call(c))
        BY DEF ChaCoversDispatch, ArrayFor
    <2> DEFINE call == Call(c)
               s == call.type.this
               i == TableFor(program, d, s)
               array == program.tables[i]
               t == IndexOfTypeinfo(array)
               entry == array.entries[t + 1 + call.slot]
    <2>1. c \in DOMAIN program.calls /\ call = program.calls[c] /\ Resolvable(call) /\ call.pattern = "slot"
        BY DEF VirtualCalls, Calls, Call
    <2>2. HasMethod(program, d, call) /\ call.slot \in Nat
        BY <1>1, <2>1, HierarchyAssumption
    <2>3. i \in DOMAIN program.tables /\ array.owner = d /\ s \in Range(array.statics)
        BY <2>2 DEF HasMethod, TableFor
    <2>4. t + 1 + call.slot \in DOMAIN array.entries /\ entry.kind \in {"function", "alias"}
        BY <2>2 DEF HasMethod, ArrayFor
    <2>5. IsTable(program, array)
        BY <1>1, <2>3, HierarchyAssumption
    <2>6. GetVtableIndex(call) = call.slot
        BY <2>1, <2>2 DEF Resolvable, GetVtableIndex
    <2>7. d \in Receivers(program, call)
        <3>1. /\ d \in Structs(program)
              /\ s = d \/ <<s, d>> \in ClosureCHG(program)
            BY <1>1, <2>3, BasesReach DEF ArrayFor
        <3>. QED
            BY <3>1 DEF Receivers, ReachableTypes
    <2>8. HasVtable(program, d) /\ GetVtable(program, d) = VtableOf(array)
        BY <1>1, <2>3, TableIsFound DEF ArrayFor
    <2>9. ~OutOfBounds(program, d, GetVtableIndex(call))
        BY <2>1, <2>7 DEF ResolveAborts
    <2>10. call.slot < Len(VtableOf(array))
        <3>1. Len(VtableOf(array)) \in Nat
            <4> DEFINE methods == {e \in Range(array.entries) : e.kind \in {"function", "pure"}}
            <4>1. array.entries \in Seq(Range(array.entries)) /\ VtableOf(array) = Sublist(array.entries, methods)
                BY <2>5 DEF IsTable, VtableOf
            <4> HIDE DEF methods
            <4>2. VtableOf(array) \in Seq(Range(array.entries) \cap methods)
                BY <4>1, SublistElements
            <4>. QED
                BY ONLY <4>2, SMT
        <3>. QED
            BY <2>2, <2>6, <2>8, <2>9, <3>1 DEF OutOfBounds
    <2>11. VtableOf(array)[call.slot + 1] = entry
        BY <2>2, <2>4, <2>5, <2>10, EntryIsThere, Zenon DEF ArrayFor
    <2>12. entry.kind = "function"
        <3>1. array.entries \in Seq(Range(array.entries))
            BY <2>5 DEF IsTable
        <3>2. t + 1 + call.slot <= t + 1 + call.slot
            BY ONLY <2>4, <3>1, SMT
        <3>. QED
            BY <2>4, <3>2, Zenon DEF AliasUpTo, ArrayFor
    <2>13. Dispatch(program, d, call) = entry.fun
        BY DEF Dispatch, ArrayFor
    <2>14. entry.fun \in Candidates(program, d, call)
        BY <2>6, <2>8, <2>9, <2>11, <2>12, <2>13 DEF Candidates
    <2>. QED
        BY <2>1, <2>7, <2>13, <2>14 DEF ResolveVirtualCall
<1>2. IInv => program \in Programs
    BY DEF IInv, Typed
<1>. QED
    BY <1>1, <1>2, Invariant, PTL
=============================================================================
