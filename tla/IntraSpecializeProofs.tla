------------------------ MODULE IntraSpecializeProofs ------------------------
(* That a call keeps its meaning under the intra-module specializer, however  *)
(* often it is specialized and its caller copied, and that the three policies *)
(* with a limit keep it over the passes: for every module and threshold.      *)
EXTENDS IntraSpecialize, FiniteSetTheorems, WellFoundedInduction, TLAPS

\* The constants of a copy can be told from its name.
TextsDiffer == \A c, d \in Constants : Text[c] = Text[d] => c = d

TextsOf(v) == [i \in DOMAIN v |-> TextOf(v[i])]

\* The names of the functions, and what the copies were made for.
NamesOK ==
    /\ IsFiniteSet(DOMAIN body) /\ DOMAIN made = DOMAIN body
    /\ order \in Seq(DOMAIN body) /\ Range(order) = DOMAIN body
    /\ \E f \in Exported : Original(f) \in DOMAIN body
    /\ \A n \in DOMAIN body :
          /\ n \in Names
          /\ made[n] \in [1..Arity[n[1]] -> Constants \cup {"?"}]
          /\ IF IsCopy(n) THEN n[2] = TextsOf(made[n]) ELSE made[n] = Unknown(Arity[n[1]])

\* A call that was written as a direct one, or that was specialized, is direct: it
\* passes what its callee has parameters for.  Of its own function's parameters a
\* call passes only those that there are, and calls no other.
SiteFits(n, s) ==
    /\ IF s.wants.fun \in Functions THEN s.callee[1] = s.wants.fun /\ Direct(s)
       ELSE s.callee[1] \in ArgsIn(ParamsOf(n))
    /\ IsCopy(s.callee) => Direct(s)
    /\ \A i \in DOMAIN s.args : s.args[i] \in ArgsIn(ParamsOf(n))
SitesOK ==
    \A n \in DOMAIN body : body[n] \in Seq(Sites) /\ \A k \in DOMAIN body[n] : SiteFits(n, body[n][k])

\* The table's versions have the names that the module would give them.
EntryOK(e) ==
    /\ e[1] \in DOMAIN body /\ e[3] \in DOMAIN body
    /\ e[2] # <<>> => e[3] = SpecializedName(e[1], e[2])
TableOK == (\A e \in table : EntryOK(e)) /\ (phase # "pass" => table = {})

PassOK ==
    /\ policy \in Policies /\ copies \in [Functions -> Nat]
    /\ phase = "pass" => cur \in DOMAIN order /\ todo \in 0..Len(body[order[cur]])

\* The counter of a pass counts the copies of the earlier passes, too.
CountOK ==
    policy = "bounded" => \A f \in Functions :
        /\ Cardinality(CopiesOf(f)) <= Threshold
        /\ phase = "pass" => Cardinality(CopiesOf(f)) <= copies[f]

Means(n, s) ==
    /\ OriginalArg(made[n], s.callee[1]) = KnownArg(made[n], s.wants.fun)
    /\ Fill(MadeFor(s), InOriginal(made[n], s.args)) = s.wants.args
MeaningOK == \A n \in DOMAIN body : \A k \in DOMAIN body[n] : Means(n, body[n][k])

Structure == NamesOK /\ SitesOK /\ TableOK /\ PassOK
IInv == Structure /\ CountOK /\ (TextsDiffer => MeaningOK)

-----------------------------------------------------------------------------
(* Places and ranks.                                                          *)

LEMMA PlacesFinite ==
    ASSUME NEW m \in Nat, NEW K \in SUBSET (1..m)
    PROVE  IsFiniteSet(K) /\ Cardinality(K) \in Nat
<1>1. IsFiniteSet(1..m)
    BY FS_Interval
<1>. QED
    BY <1>1, FS_Subset, FS_CardinalityType

LEMMA CountType ==
    ASSUME NEW m \in Nat, NEW K \in SUBSET (1..m), NEW i \in Int
    PROVE  /\ IsFiniteSet(K \cap (1..i)) /\ Count(K, i) \in Nat
           /\ Count(K, i) <= Cardinality(K)
<1>1. IsFiniteSet(K) /\ Cardinality(K) \in Nat
    BY PlacesFinite
<1>2. IsFiniteSet(K \cap (1..i)) /\ Cardinality(K \cap (1..i)) <= Cardinality(K)
    BY <1>1, FS_Intersection
<1>. QED
    BY <1>1, <1>2, FS_CardinalityType DEF Count

\* Counting further does not give less, and gives more where it meets a place.
LEMMA CountGrows ==
    ASSUME NEW m \in Nat, NEW K \in SUBSET (1..m), NEW i \in Int, NEW j \in Int, i <= j
    PROVE  /\ Count(K, i) <= Count(K, j)
           /\ i < j /\ j \in K => Count(K, i) < Count(K, j)
<1> DEFINE A == K \cap (1..i)
           B == K \cap (1..j)
<1>1. IsFiniteSet(A) /\ Cardinality(A) \in Nat
    BY CountType DEF Count
<1>2. IsFiniteSet(B) /\ Cardinality(B) \in Nat
    BY CountType DEF Count
<1>3. A \in SUBSET B
    OBVIOUS
<1>4. Cardinality(A) <= Cardinality(B) /\ (Cardinality(B) = Cardinality(A) => B = A)
    BY <1>2, <1>3, FS_Subset
<1>5. i < j /\ j \in K => j \in B /\ j \notin A
    OBVIOUS
<1> HIDE DEF A, B
<1>6. Cardinality(A) <= Cardinality(B) /\ (i < j /\ j \in K => Cardinality(A) < Cardinality(B))
    BY <1>1, <1>2, <1>4, <1>5
<1>. QED
    BY <1>6 DEF Count, A, B

LEMMA CountsMore ==
    ASSUME NEW m \in Nat, NEW K \in SUBSET (1..m), NEW i \in Int, NEW j \in K, i < j
    PROVE  Count(K, i) < Count(K, j)
<1>1. j \in Int /\ i <= j
    OBVIOUS
<1>. QED
    BY <1>1, CountGrows

\* The places of K are counted one by one, up to their number.
LEMMA Counting ==
    ASSUME NEW m \in Nat, NEW K \in SUBSET (1..m)
    PROVE  /\ \A i \in K : Count(K, i) \in 1..Cardinality(K)
           /\ \A i, j \in K : Count(K, i) = Count(K, j) => i = j
           /\ \A r \in 1..Cardinality(K) : Place(K, r) \in K /\ Count(K, Place(K, r)) = r
           /\ \A i \in K : Place(K, Count(K, i)) = i
<1>1. IsFiniteSet(K) /\ Cardinality(K) \in Nat
    BY PlacesFinite
<1>2. ASSUME NEW i \in K PROVE Count(K, i) \in 1..Cardinality(K)
    <2>1. i \in Int /\ 0 \in Int /\ 0 < i
        OBVIOUS
    <2>2. Count(K, 0) < Count(K, i)
        BY <2>1, CountsMore
    <2>3. Count(K, 0) \in Nat /\ Count(K, i) \in Nat /\ Count(K, i) <= Cardinality(K)
        BY <2>1, CountType
    <2>. QED
        BY <1>1, <2>2, <2>3
<1>3. ASSUME NEW i \in K, NEW j \in K, Count(K, i) = Count(K, j) PROVE i = j
    <2>1. i \in Int /\ j \in Int
        OBVIOUS
    <2>2. Count(K, i) \in Nat /\ Count(K, j) \in Nat
        BY <2>1, CountType
    <2>3. ASSUME i < j PROVE FALSE
        <3>1. Count(K, i) < Count(K, j)
            BY <2>1, <2>3, CountsMore
        <3>. QED
            BY <1>3, <2>2, <3>1
    <2>4. ASSUME j < i PROVE FALSE
        <3>1. Count(K, j) < Count(K, i)
            BY <2>1, <2>4, CountsMore
        <3>. QED
            BY <1>3, <2>2, <3>1
    <2>. QED
        BY <2>1, <2>3, <2>4
<1>4. ASSUME NEW r \in 1..Cardinality(K) PROVE \E i \in K : Count(K, i) = r
    <2> DEFINE f == [i \in K |-> Count(K, i)]
    <2>1. f \in Injection(K, 1..Cardinality(K))
        BY <1>2, <1>3 DEF Injection, IsInjective
    <2>2. IsFiniteSet(1..Cardinality(K)) /\ Cardinality(1..Cardinality(K)) = Cardinality(K)
        BY <1>1, FS_Interval
    <2>3. f \in Surjection(K, 1..Cardinality(K))
        BY <2>1, <2>2, FS_Injection
    <2>. QED
        BY <2>3 DEF Surjection
<1>. QED
    BY <1>2, <1>3, <1>4 DEF Place

LEMMA OpenPlaces ==
    ASSUME NEW m \in Nat, NEW v, DOMAIN v = 1..m
    PROVE  /\ Open(v) \in SUBSET (1..m)
           /\ Cardinality(Open(v)) \in Nat /\ Cardinality(Open(v)) <= m
           /\ \A j \in Open(v) : Rank(v, j) \in 1..Cardinality(Open(v))
           /\ Rank(v, m) = Cardinality(Open(v))
<1>1. Open(v) \in SUBSET (1..m)
    BY DEF Open
<1>2. Open(v) \cap (1..m) = Open(v)
    BY <1>1
<1>3. Cardinality(Open(v)) \in Nat
    BY <1>1, PlacesFinite
<1>5. IsFiniteSet(1..m) /\ Cardinality(1..m) = m
    BY FS_Interval
<1>6. Cardinality(Open(v)) <= m
    BY <1>1, <1>5, FS_Subset
<1>4. \A j \in Open(v) : Count(Open(v), j) \in 1..Cardinality(Open(v))
    BY <1>1, Counting
<1>. QED
    BY <1>1, <1>2, <1>3, <1>4, <1>6 DEF Rank, Count

\* What is open in v filled with s.
LEMMA OpenOfFill ==
    ASSUME NEW m \in Nat, NEW v, DOMAIN v = 1..m, NEW s
    PROVE  /\ DOMAIN Fill(v, s) = 1..m
           /\ Open(Fill(v, s)) = {j \in Open(v) : s[Rank(v, j)] = "?"}
           /\ Open(Fill(v, s)) \in SUBSET (1..m)
BY DEF Open, Fill

\* A place that is still open in v filled with s is, in s, the place it was in v.
LEMMA RankOfFill ==
    ASSUME NEW m \in Nat, NEW v, DOMAIN v = 1..m,
           NEW s, DOMAIN s = 1..Cardinality(Open(v)), NEW i \in Nat
    PROVE  Rank(Fill(v, s), i) = Rank(s, Rank(v, i))
<1> DEFINE A == Open(Fill(v, s)) \cap (1..i)
           B == Open(s) \cap (1..Rank(v, i))
           f == [j \in A |-> Rank(v, j)]
<1>1. Open(v) \in SUBSET (1..m) /\ Cardinality(Open(v)) \in Nat
    BY OpenPlaces
<1>2. Open(s) \in SUBSET (1..Cardinality(Open(v)))
    BY <1>1, OpenPlaces
<1>3. A = {j \in Open(v) : j <= i /\ s[Rank(v, j)] = "?"}
    BY <1>1, OpenOfFill
<1>4. IsFiniteSet(A)
    <2>1. Open(Fill(v, s)) \in SUBSET (1..m) /\ i \in Int
        BY OpenOfFill
    <2>. QED
        BY <2>1, CountType
<1>5. Rank(v, i) \in Nat /\ Rank(v, i) <= Cardinality(Open(v))
    <2>1. i \in Int
        OBVIOUS
    <2>2. Count(Open(v), i) \in Nat /\ Count(Open(v), i) <= Cardinality(Open(v))
        BY <1>1, <2>1, CountType
    <2>. QED
        BY <2>2 DEF Rank
<1>6. ASSUME NEW j \in A PROVE Rank(v, j) \in B
    <2>1. j \in Open(v) /\ j <= i /\ s[Rank(v, j)] = "?" /\ j \in Int /\ i \in Int
        BY <1>1, <1>3
    <2>2. Rank(v, j) \in 1..Cardinality(Open(v))
        BY <2>1, OpenPlaces
    <2>3. Rank(v, j) <= Rank(v, i)
        BY <1>1, <2>1, CountGrows DEF Rank
    <2>. QED
        BY <1>5, <2>1, <2>2, <2>3 DEF Open
<1>7. ASSUME NEW j \in A, NEW k \in A, Rank(v, j) = Rank(v, k) PROVE j = k
    BY <1>1, <1>3, <1>7, Counting DEF Rank
<1>8. ASSUME NEW r \in B PROVE \E j \in A : Rank(v, j) = r
    <2>1. r \in 1..Cardinality(Open(v)) /\ r <= Rank(v, i) /\ s[r] = "?"
        BY <1>2, <1>5 DEF Open
    <2>2. PICK j \in Open(v) : Rank(v, j) = r
        BY <1>1, <2>1, Counting DEF Rank
    <2>3. j \in Int /\ i \in Int
        BY <1>1
    <2>4. ASSUME i < j PROVE FALSE
        <3>0. i <= j
            BY <2>3, <2>4
        <3>1. Count(Open(v), i) < Count(Open(v), j)
            BY <1>1, <2>3, <2>4, <3>0, CountGrows
        <3>. QED
            BY <1>5, <2>1, <2>2, <3>1 DEF Rank
    <2>5. j <= i
        BY <2>3, <2>4
    <2>. QED
        BY <1>3, <2>1, <2>2, <2>5
<1> HIDE DEF A, B
<1>9. f \in Bijection(A, B)
    BY <1>6, <1>7, <1>8 DEF Bijection, Injection, IsInjective, Surjection
<1>10. ExistsBijection(A, B)
    BY <1>9 DEF ExistsBijection
<1>11. Cardinality(B) = Cardinality(A)
    BY <1>4, <1>10, FS_Bijection
<1>. QED
    BY <1>11 DEF A, B, Rank, Count

LEMMA OpensOfFill ==
    ASSUME NEW m \in Nat, NEW v, DOMAIN v = 1..m, NEW s, DOMAIN s = 1..Cardinality(Open(v))
    PROVE  Cardinality(Open(Fill(v, s))) = Cardinality(Open(s))
<1>1. Rank(v, m) = Cardinality(Open(v)) /\ Cardinality(Open(v)) \in Nat
    BY OpenPlaces
<1>2. DOMAIN Fill(v, s) = 1..m
    BY OpenOfFill
<1>3. Rank(Fill(v, s), m) = Cardinality(Open(Fill(v, s)))
    BY <1>2, OpenPlaces
<1>4. Rank(s, Cardinality(Open(v))) = Cardinality(Open(s))
    BY <1>1, OpenPlaces
<1>5. Rank(Fill(v, s), m) = Rank(s, Rank(v, m))
    BY RankOfFill
<1>. QED
    BY <1>1, <1>3, <1>4, <1>5

-----------------------------------------------------------------------------
(* Arguments.                                                                 *)

LEMMA ParamNames ==
    /\ \A i, j \in 1..3 : Params[i] = Params[j] => i = j
    /\ \A i \in 1..3 : Params[i] \in Range(Params)
    /\ \A i \in 1..3 : Params[i] \notin Constants \cup Functions \cup {"?"}
<1>1. \A i \in 1..3 : Params[i] \in Range(Params) /\ Params[i] # "?"
    BY DEF Params, Range
<1>. QED
    BY <1>1, ConstantsAssumption DEF Params

\* The parameters of a copy have the numbers that its open places have.
LEMMA OriginalArgs ==
    ASSUME NEW m \in 0..3, NEW v, DOMAIN v = 1..m
    PROVE  /\ \A j \in Open(v) : OriginalArg(v, Params[Rank(v, j)]) = Params[j]
           /\ \A a \in Constants \cup Functions \cup {"?"} : OriginalArg(v, a) = a
<1>0. Open(v) \in SUBSET (1..m) /\ m \in Nat
    BY OpenPlaces
<1>1. \A j \in Open(v) : Rank(v, j) \in 1..3
    BY OpenPlaces
<1>2. \A j, k \in Open(v) : Rank(v, j) = Rank(v, k) => j = k
    BY <1>0, Counting DEF Rank
<1>3. ASSUME NEW j \in Open(v) PROVE OriginalArg(v, Params[Rank(v, j)]) = Params[j]
    <2>1. \A k \in Open(v) : Params[Rank(v, j)] = Params[Rank(v, k)] => k = j
        BY <1>1, <1>2, ParamNames
    <2>. QED
        BY <2>1 DEF OriginalArg
<1>4. ASSUME NEW a \in Constants \cup Functions \cup {"?"} PROVE OriginalArg(v, a) = a
    BY <1>1, ParamNames DEF OriginalArg
<1>. QED
    BY <1>3, <1>4

LEMMA RenumberedParam ==
    ASSUME NEW m \in 0..3, NEW s, DOMAIN s = 1..m, NEW r \in 1..m
    PROVE  Renumbered(s, Params[r]) = IF s[r] # "?" THEN s[r] ELSE Params[Rank(s, r)]
<1>1. \A k \in DOMAIN s : Params[r] = Params[k] => k = r
    BY ParamNames
<1>2. (CHOOSE j \in DOMAIN s : Params[r] = Params[j]) = r
    BY <1>1
<1>. QED
    BY <1>2 DEF Renumbered

LEMMA RenumberedConstant ==
    ASSUME NEW m \in 0..3, NEW s, DOMAIN s = 1..m, NEW a \in Constants \cup Functions \cup {"?"}
    PROVE  Renumbered(s, a) = a
BY ParamNames DEF Renumbered

LEMMA KnownArgs ==
    ASSUME NEW m \in 0..3, NEW w, DOMAIN w = 1..m
    PROVE  /\ \A j \in 1..m : KnownArg(w, Params[j]) = IF w[j] # "?" THEN w[j] ELSE Params[j]
           /\ \A a \in Constants \cup Functions \cup {"?"} : KnownArg(w, a) = a
<1>1. ASSUME NEW j \in 1..m PROVE KnownArg(w, Params[j]) = IF w[j] # "?" THEN w[j] ELSE Params[j]
    <2>1. \A k \in DOMAIN w : Params[j] = Params[k] => k = j
        BY ParamNames
    <2>2. (CHOOSE k \in DOMAIN w : Params[j] = Params[k]) = j
        BY <2>1
    <2>. QED
        BY <2>1, <2>2 DEF KnownArg
<1>2. ASSUME NEW a \in Constants \cup Functions \cup {"?"} PROVE KnownArg(w, a) = a
    BY ParamNames DEF KnownArg
<1>. QED
    BY <1>1, <1>2

\* The argument of a copied call is the copied argument of the call.
LEMMA CopiedArg ==
    ASSUME NEW m \in 0..3, NEW v, DOMAIN v = 1..m,
           NEW s \in [1..Cardinality(Open(v)) -> Constants \cup {"?"}],
           NEW a \in ArgsIn(Cardinality(Open(v)))
    PROVE  /\ OriginalArg(Fill(v, s), Renumbered(s, a)) = KnownArg(Fill(v, s), OriginalArg(v, a))
           /\ Renumbered(s, a) \in ArgsIn(Cardinality(Open(s)))
<1> DEFINE w == Fill(v, s)
           c == Cardinality(Open(v))
<1>0. /\ Open(v) \in SUBSET (1..m) /\ m \in Nat /\ DOMAIN w = 1..m /\ c \in 0..3
      /\ Cardinality(Open(s)) \in Nat /\ DOMAIN s = 1..c
    BY OpenPlaces, OpenOfFill
<1> HIDE DEF w, c
<1>r. /\ \A r \in 1..c : Renumbered(s, Params[r]) = IF s[r] # "?" THEN s[r] ELSE Params[Rank(s, r)]
      /\ \A b \in Constants \cup {"?"} : Renumbered(s, b) = b
    <2>1. DOMAIN s = 1..c /\ c \in 0..3
        BY <1>0
    <2>2. ASSUME NEW r \in 1..c
          PROVE  Renumbered(s, Params[r]) = IF s[r] # "?" THEN s[r] ELSE Params[Rank(s, r)]
        BY <2>1, RenumberedParam
    <2>3. ASSUME NEW b \in Constants \cup {"?"} PROVE Renumbered(s, b) = b
        BY <2>1, RenumberedConstant
    <2>. QED
        BY <2>2, <2>3
<1>k. /\ \A j \in 1..m : KnownArg(w, Params[j]) = IF w[j] # "?" THEN w[j] ELSE Params[j]
      /\ \A b \in Constants \cup {"?"} : KnownArg(w, b) = b
    <2>1. /\ \A j \in 1..m : KnownArg(w, Params[j]) = IF w[j] # "?" THEN w[j] ELSE Params[j]
          /\ \A b \in Constants \cup Functions \cup {"?"} : KnownArg(w, b) = b
        BY <1>0, KnownArgs
    <2>. QED
        BY <2>1
<1>1. CASE a \in Constants \cup {"?"}
    <2>1. Renumbered(s, a) = a
        BY <1>1, <1>r
    <2>2. OriginalArg(v, a) = a
        BY <1>1, OriginalArgs
    <2>3. OriginalArg(w, a) = a
        BY <1>0, <1>1, OriginalArgs
    <2>4. KnownArg(w, a) = a
        BY <1>1, <1>k
    <2>. QED
        BY <1>1, <2>1, <2>2, <2>3, <2>4 DEF ArgsIn, w
<1>2. ASSUME NEW r \in 1..c, a = Params[r]
      PROVE  /\ OriginalArg(w, Renumbered(s, a)) = KnownArg(w, OriginalArg(v, a))
             /\ Renumbered(s, a) \in ArgsIn(Cardinality(Open(s)))
    <2>1. PICK j \in Open(v) : Rank(v, j) = r
        BY <1>0, Counting DEF Rank, c
    <2>2. OriginalArg(v, a) = Params[j] /\ j \in 1..m
        BY <1>0, <1>2, <2>1, OriginalArgs
    <2>3. KnownArg(w, Params[j]) = IF w[j] # "?" THEN w[j] ELSE Params[j]
        BY <2>2, <1>k
    <2>4. w[j] = s[r]
        BY <1>0, <2>1 DEF Fill, Open, w
    <2>5. Renumbered(s, a) = IF s[r] # "?" THEN s[r] ELSE Params[Rank(s, r)]
        BY <1>2, <1>r
    <2>6. CASE s[r] # "?"
        <3>1. s[r] \in Constants \cup {"?"}
            BY <1>2 DEF c
        <3>2. OriginalArg(w, s[r]) = s[r]
            BY <1>0, <3>1, OriginalArgs
        <3>. QED
            BY <2>2, <2>3, <2>4, <2>5, <2>6, <3>1, <3>2 DEF ArgsIn
    <2>7. CASE s[r] = "?"
        <3>1. j \in Open(w)
            BY <1>0, <2>1, <2>4, <2>7 DEF Open
        <3>2. Rank(w, j) = Rank(s, r)
            BY <1>0, <2>1, RankOfFill DEF w, c
        <3>3. OriginalArg(w, Params[Rank(w, j)]) = Params[j]
            BY <1>0, <3>1, OriginalArgs
        <3>4. r \in Open(s) /\ Rank(s, r) \in 1..Cardinality(Open(s))
            BY <1>0, <2>7, OpenPlaces DEF Open
        <3>. QED
            BY <2>2, <2>3, <2>4, <2>5, <2>7, <3>2, <3>3, <3>4 DEF ArgsIn
    <2>. QED
        BY <2>6, <2>7
<1>. QED
    BY <1>1, <1>2 DEF ArgsIn, w, c

\* A call of a copy passes what is left of the call's arguments.
LEMMA FillOfSelect ==
    ASSUME NEW m \in Nat, NEW v, DOMAIN v = 1..m,
           NEW s, DOMAIN s = 1..Cardinality(Open(v)),
           NEW a, DOMAIN a = 1..Cardinality(Open(v)),
           \A r \in DOMAIN s : s[r] # "?" => a[r] = s[r]
    PROVE  Fill(Fill(v, s), Select(a, Open(s))) = Fill(v, a)
<1> DEFINE w == Fill(v, s)
           b == Select(a, Open(s))
<1>0. DOMAIN w = 1..m /\ Open(v) \in SUBSET (1..m) /\ Cardinality(Open(v)) \in Nat
    BY OpenPlaces, OpenOfFill
<1>1. ASSUME NEW i \in 1..m PROVE Fill(w, b)[i] = Fill(v, a)[i]
    <2>1. CASE v[i] # "?"
        BY <1>0, <2>1 DEF Fill
    <2>2. CASE v[i] = "?"
        <3>1. i \in Open(v) /\ Rank(v, i) \in DOMAIN s
            BY <2>2, OpenPlaces DEF Open
        <3>2. w[i] = s[Rank(v, i)] /\ Fill(v, a)[i] = a[Rank(v, i)]
            BY <2>2 DEF Fill
        <3>3. CASE s[Rank(v, i)] # "?"
            BY <1>0, <3>1, <3>2, <3>3 DEF Fill
        <3>4. CASE s[Rank(v, i)] = "?"
            <4>1. Rank(w, i) = Rank(s, Rank(v, i))
                BY RankOfFill
            <4>2. Rank(v, i) \in Open(s)
                BY <3>1, <3>4 DEF Open
            <4>3. /\ Rank(s, Rank(v, i)) \in 1..Cardinality(Open(s))
                  /\ Place(Open(s), Rank(s, Rank(v, i))) = Rank(v, i)
                <5>1. Open(s) \in SUBSET (1..Cardinality(Open(v)))
                    BY <1>0, OpenPlaces
                <5>. QED
                    BY <1>0, <4>2, <5>1, Counting DEF Rank
            <4>4. b[Rank(w, i)] = a[Rank(v, i)]
                BY <4>1, <4>3 DEF Select
            <4>. QED
                BY <1>0, <3>2, <3>4, <4>4 DEF Fill
        <3>. QED
            BY <3>3, <3>4
    <2>. QED
        BY <2>1, <2>2
<1>2. /\ Fill(w, b) = [i \in 1..m |-> Fill(w, b)[i]]
      /\ Fill(v, a) = [i \in 1..m |-> Fill(v, a)[i]]
    BY <1>0 DEF Fill
<1>. QED
    BY <1>1, <1>2
Values == Constants \cup {"?"}
IsVector(v) == \E m \in Nat : v \in [1..m -> Values]
ForParams(v) == \E m \in 0..3 : DOMAIN v = 1..m

\* The constants a caller is copied for do not disturb those of a callee.
LEMMA KnownFill ==
    ASSUME NEW w, ForParams(w), NEW u, IsVector(u), NEW a, DOMAIN a = 1..Cardinality(Open(u))
    PROVE  Fill(u, Known(w, a)) = Known(w, Fill(u, a))
<1>a. PICK k \in Nat : u \in [1..k -> Values]
    BY DEF IsVector
<1>b. PICK m \in 0..3 : DOMAIN w = 1..m
    BY DEF ForParams
<1>0. /\ DOMAIN u = 1..k /\ DOMAIN Known(w, a) = 1..Cardinality(Open(u))
      /\ Open(u) \in SUBSET (1..k)
      /\ \A j \in Open(u) : Rank(u, j) \in 1..Cardinality(Open(u))
    BY <1>a, OpenPlaces DEF Known
<1>1. ASSUME NEW j \in 1..k PROVE Fill(u, Known(w, a))[j] = Known(w, Fill(u, a))[j]
    <2>1. CASE u[j] # "?"
        <3>0. \A b \in Constants \cup {"?"} : KnownArg(w, b) = b
            BY <1>b, KnownArgs
        <3>1. KnownArg(w, u[j]) = u[j]
            BY <1>a, <3>0 DEF Values
        <3>. QED
            BY <1>0, <2>1, <3>1 DEF Fill, Known
    <2>2. CASE u[j] = "?"
        <3>1. Rank(u, j) \in DOMAIN a
            BY <1>0, <2>2 DEF Open
        <3>. QED
            BY <1>0, <2>2, <3>1 DEF Fill, Known
    <2>. QED
        BY <2>1, <2>2
<1>2. /\ Fill(u, Known(w, a)) = [j \in 1..k |-> Fill(u, Known(w, a))[j]]
      /\ Known(w, Fill(u, a)) = [j \in 1..k |-> Known(w, Fill(u, a))[j]]
    BY <1>0 DEF Fill, Known
<1>. QED
    BY <1>1, <1>2

LEMMA SelectType ==
    ASSUME NEW c \in Nat, NEW K \in SUBSET (1..c), NEW a, DOMAIN a = 1..c
    PROVE  /\ Cardinality(K) \in Nat /\ DOMAIN Select(a, K) = 1..Cardinality(K)
           /\ \A r \in 1..Cardinality(K) : Place(K, r) \in K /\ Select(a, K)[r] = a[Place(K, r)]
<1>1. \A r \in 1..Cardinality(K) : Place(K, r) \in K
    BY Counting
<1>. QED
    BY <1>1, PlacesFinite DEF Select

\* Leaving arguments out and renumbering the parameters in them commute.
LEMMA SelectOriginal ==
    ASSUME NEW c \in Nat, NEW K \in SUBSET (1..c), NEW v, NEW a, DOMAIN a = 1..c
    PROVE  InOriginal(v, Select(a, K)) = Select(InOriginal(v, a), K)
<1>1. \A r \in 1..Cardinality(K) : Place(K, r) \in DOMAIN a
    BY Counting
<1>. QED
    BY <1>1 DEF InOriginal, Select

-----------------------------------------------------------------------------
(* Names.                                                                     *)

LEMMA TextsOpen ==
    ASSUME NEW m \in Nat, NEW v \in [1..m -> Values]
    PROVE  /\ TextsOf(v) \in [1..m -> Texts \cup {"?"}]
           /\ \A i \in 1..m : TextsOf(v)[i] = "?" <=> v[i] = "?"
           /\ Open(TextsOf(v)) = Open(v)
<1>1. "?" \notin Constants /\ "?" \notin Texts
    BY ConstantsAssumption
<1>2. \A a \in Values : TextOf(a) \in Texts \cup {"?"} /\ (TextOf(a) = "?" <=> a = "?")
    BY <1>1 DEF Values, TextOf, Texts
<1>. QED
    BY <1>2 DEF TextsOf, Open

\* A copy's name can be made from the name of what it is a copy of.
LEMMA TextsOfFill ==
    ASSUME NEW m \in Nat, NEW v \in [1..m -> Values],
           NEW s \in [1..Cardinality(Open(v)) -> Values]
    PROVE  Fill(TextsOf(v), TextsOf(s)) = TextsOf(Fill(v, s)) /\ Fill(v, s) \in [1..m -> Values]
<1>1. \A i \in 1..m : TextsOf(v)[i] = "?" <=> v[i] = "?"
    BY TextsOpen
<1>2. Open(TextsOf(v)) = Open(v)
    BY TextsOpen
<1>3. \A i \in 1..m : Rank(TextsOf(v), i) = Rank(v, i)
    BY <1>2 DEF Rank
<1>4. \A j \in 1..m : v[j] = "?" => Rank(v, j) \in 1..Cardinality(Open(v))
    BY OpenPlaces DEF Open
<1>5. DOMAIN TextsOf(v) = 1..m /\ \A i \in 1..m : TextsOf(v)[i] = TextOf(v[i])
    BY DEF TextsOf
<1>6. \A r \in 1..Cardinality(Open(v)) : TextsOf(s)[r] = TextOf(s[r])
    BY DEF TextsOf
<1>7. Fill(TextsOf(v), TextsOf(s)) = [i \in 1..m |-> IF v[i] = "?" THEN TextOf(s[Rank(v, i)]) ELSE TextOf(v[i])]
    BY <1>1, <1>3, <1>4, <1>5, <1>6 DEF Fill
<1>8. TextsOf(Fill(v, s)) = [i \in 1..m |-> TextOf(IF v[i] = "?" THEN s[Rank(v, i)] ELSE v[i])]
    BY DEF Fill, TextsOf
<1>. QED
    BY <1>4, <1>7, <1>8 DEF Fill

LEMMA OpenUnknown ==
    ASSUME NEW m \in Nat
    PROVE  /\ Unknown(m) \in [1..m -> Values] /\ Open(Unknown(m)) = 1..m
           /\ TextsOf(Unknown(m)) = Unknown(m) /\ Cardinality(1..m) = m
<1>1. "?" \notin Constants
    BY ConstantsAssumption
<1>. QED
    BY <1>1, FS_Interval DEF Unknown, Values, Open, TextsOf, TextOf

LEMMA NamedFor ==
    ASSUME NamesOK, NEW n \in DOMAIN body
    PROVE  /\ n[1] \in Functions /\ Arity[n[1]] \in 0..3
           /\ made[n] \in [1..Arity[n[1]] -> Values]
           /\ ParamsOf(n) = Cardinality(Open(made[n])) /\ ParamsOf(n) \in 0..3
           /\ \A s \in [1..ParamsOf(n) -> Values] :
                 SpecializedName(n, s) = <<n[1], TextsOf(Fill(made[n], s))>>
<1>1. n[1] \in Functions /\ Arity[n[1]] \in 0..3 /\ Arity[n[1]] \in Nat
    BY ArityAssumption DEF NamesOK, Names, Params
<1>2. made[n] \in [1..Arity[n[1]] -> Values]
    BY DEF NamesOK, Values
<1>3. (IF IsCopy(n) THEN n[2] ELSE Unknown(Arity[n[1]])) = TextsOf(made[n])
    BY <1>1, OpenUnknown DEF NamesOK
<1>4. Open(TextsOf(made[n])) = Open(made[n])
    BY <1>1, <1>2, TextsOpen
<1>5. ParamsOf(n) = Cardinality(Open(made[n]))
    <2>1. CASE IsCopy(n)
        BY <2>1, <1>3, <1>4 DEF ParamsOf
    <2>2. CASE ~IsCopy(n)
        BY <2>2, <1>1, OpenUnknown DEF ParamsOf, NamesOK
    <2>. QED
        BY <2>1, <2>2
<1>6. Cardinality(Open(made[n])) \in Nat /\ Cardinality(Open(made[n])) <= Arity[n[1]]
    BY <1>1, <1>2, OpenPlaces
<1>7. ASSUME NEW s \in [1..ParamsOf(n) -> Values]
      PROVE  SpecializedName(n, s) = <<n[1], TextsOf(Fill(made[n], s))>>
    <2>1. s \in [1..Cardinality(Open(made[n])) -> Values]
        BY <1>5
    <2>2. Fill(TextsOf(made[n]), TextsOf(s)) = TextsOf(Fill(made[n], s))
        BY <1>1, <1>2, <2>1, TextsOfFill
    <2>. QED
        BY <1>3, <2>2 DEF SpecializedName, TextsOf
<1>. QED
    BY <1>1, <1>2, <1>5, <1>6, <1>7
-----------------------------------------------------------------------------
(* The initial states.                                                        *)

LEMMA RankUnknown ==
    ASSUME NEW m \in Nat, NEW i \in 1..m
    PROVE  Rank(Unknown(m), i) = i
<1>1. Open(Unknown(m)) \cap (1..i) = 1..i
    BY OpenUnknown
<1>2. i \in Int /\ Cardinality(1..i) = i
    BY FS_Interval
<1>. QED
    BY <1>1, <1>2 DEF Rank, Count

\* In an original function parameters have their own numbers.
LEMMA PlainArg ==
    ASSUME NEW k \in 0..3, NEW b \in ArgsIn(k)
    PROVE  OriginalArg(Unknown(k), b) = b /\ KnownArg(Unknown(k), b) = b
<1>0. k \in Nat /\ DOMAIN Unknown(k) = 1..k /\ \A j \in 1..k : Unknown(k)[j] = "?"
    BY DEF Unknown
<1>1. Open(Unknown(k)) = 1..k /\ \A j \in 1..k : Rank(Unknown(k), j) = j
    BY <1>0, OpenUnknown, RankUnknown
<1>2. /\ \A j \in Open(Unknown(k)) : OriginalArg(Unknown(k), Params[Rank(Unknown(k), j)]) = Params[j]
      /\ \A c \in Constants \cup {"?"} : OriginalArg(Unknown(k), c) = c
    BY <1>0, OriginalArgs
<1>3. /\ \A j \in 1..k : KnownArg(Unknown(k), Params[j]) = Params[j]
      /\ \A c \in Constants \cup {"?"} : KnownArg(Unknown(k), c) = c
    <2>1. /\ \A j \in 1..k : KnownArg(Unknown(k), Params[j])
                                 = IF Unknown(k)[j] # "?" THEN Unknown(k)[j] ELSE Params[j]
          /\ \A c \in Constants \cup Functions \cup {"?"} : KnownArg(Unknown(k), c) = c
        BY <1>0, KnownArgs
    <2>. QED
        BY <1>0, <2>1
<1>. QED
    BY <1>1, <1>2, <1>3 DEF ArgsIn

LEMMA PlainCallee ==
    ASSUME NEW k \in 0..3, NEW b \in ArgsIn(k) \cup Functions
    PROVE  OriginalArg(Unknown(k), b) = KnownArg(Unknown(k), b)
<1>0. DOMAIN Unknown(k) = 1..k
    BY DEF Unknown
<1>1. b \in Functions => OriginalArg(Unknown(k), b) = b /\ KnownArg(Unknown(k), b) = b
    BY <1>0, OriginalArgs, KnownArgs
<1>. QED
    BY <1>1, PlainArg

\* A call in an original function means what it says.
LEMMA PlainMeaning ==
    ASSUME NEW m \in Nat, NEW k \in 0..3, NEW a \in [1..m -> ArgsIn(k)]
    PROVE  Fill(Unknown(m), InOriginal(Unknown(k), a)) = a
<1>1. InOriginal(Unknown(k), a) = a
    BY PlainArg DEF InOriginal
<1>. QED
    BY <1>1, RankUnknown DEF Fill, Unknown

WrittenIn(D, n, s) ==
    /\ \/ s.callee \in D /\ Len(s.args) = Arity[s.callee[1]]
       \/ \E i \in 1..Arity[n[1]] : s.callee = Original(Params[i])
    /\ s.args \in Seq(ArgsIn(Arity[n[1]]))
    /\ s.wants = [fun |-> s.callee[1], args |-> s.args]

LEMMA InitIInv == Init => IInv
<1> SUFFICES ASSUME Init PROVE IInv
    OBVIOUS
<1>1. PICK p \in Programs : order = p.order /\ body = p.body
    BY DEF Init
<1>2. /\ order \in Seq(DOMAIN body) /\ Range(order) = DOMAIN body
      /\ IsFiniteSet(DOMAIN body)
      /\ DOMAIN body \subseteq {Original(f) : f \in Functions}
      /\ \E f \in Exported : Original(f) \in DOMAIN body
      /\ \A n \in DOMAIN body : body[n] \in Seq(Sites)
      /\ \A n \in DOMAIN body : \A k \in DOMAIN body[n] :
            WrittenIn(DOMAIN body, n, body[n][k])
    <2> DEFINE Fine(o, b) ==
            /\ o \in Seq(DOMAIN b) /\ Range(o) = DOMAIN b
            /\ IsFiniteSet(DOMAIN b)
            /\ DOMAIN b \subseteq {Original(f) : f \in Functions}
            /\ \E f \in Exported : Original(f) \in DOMAIN b
            /\ \A n \in DOMAIN b : b[n] \in Seq(Sites)
            /\ \A n \in DOMAIN b : \A k \in DOMAIN b[n] : WrittenIn(DOMAIN b, n, b[n][k])
    <2>1. Fine(p.order, p.body)
        BY ProgramsAssumption DEF Called, WrittenIn
    <2> HIDE DEF Fine
    <2>2. Fine(order, body)
        BY <1>1, <2>1
    <2>. QED
        BY <2>2 DEF Fine
<1>3. ASSUME NEW n \in DOMAIN body
      PROVE  /\ n \in Names /\ ~IsCopy(n) /\ n[1] \in Functions
             /\ Arity[n[1]] \in 0..3 /\ ParamsOf(n) = Arity[n[1]]
             /\ made[n] = Unknown(Arity[n[1]]) /\ made[n] \in [1..Arity[n[1]] -> Values]
    <2>1. PICK f \in Functions : n = <<f, <<>>>>
        BY <1>2 DEF Original
    <2>2. Arity[n[1]] \in 0..3
        BY <2>1, ArityAssumption DEF Params
    <2>3. made[n] = Unknown(Arity[n[1]])
        BY DEF Init
    <2>4. Unknown(Arity[n[1]]) \in [1..Arity[n[1]] -> Values]
        BY <2>2, OpenUnknown
    <2>5. ~IsCopy(n) /\ n[1] \in Functions
        BY <2>1 DEF IsCopy
    <2>6. n \in Names
        <3>1. <<>> \in Seq(Texts \cup {"?"})
            OBVIOUS
        <3>. QED
            BY <2>1, <3>1 DEF Names
    <2>. QED
        BY <2>2, <2>3, <2>4, <2>5, <2>6 DEF ParamsOf
<1>4. NamesOK
    <2>1. DOMAIN made = DOMAIN body
        BY DEF Init
    <2>. QED
        BY <1>2, <1>3, <2>1 DEF NamesOK, Values
<1>5. ASSUME NEW n \in DOMAIN body, NEW k \in DOMAIN body[n]
      PROVE  SiteFits(n, body[n][k]) /\ Means(n, body[n][k])
    <2> DEFINE s == body[n][k]
    <2>1. WrittenIn(DOMAIN body, n, s)
        BY <1>2
    <2>2. s.wants.fun = s.callee[1] /\ s.wants.args = s.args /\ s.args \in Seq(ArgsIn(Arity[n[1]]))
        BY <2>1 DEF WrittenIn
    <2>3. Len(s.args) \in Nat /\ s.args \in [1..Len(s.args) -> ArgsIn(Arity[n[1]])]
        BY <2>2
    <2>4. Arity[n[1]] \in 0..3 /\ ParamsOf(n) = Arity[n[1]] /\ made[n] = Unknown(Arity[n[1]])
        BY <1>3
    <2> HIDE DEF s
    <2>7. /\ IF s.wants.fun \in Functions THEN s.callee[1] = s.wants.fun /\ Direct(s)
             ELSE s.callee[1] \in ArgsIn(ParamsOf(n))
          /\ ~IsCopy(s.callee) /\ (s.callee[1] \in Functions \/ s.callee[1] \in ArgsIn(Arity[n[1]]))
        <3>1. (s.callee \in DOMAIN body /\ Len(s.args) = Arity[s.callee[1]])
              \/ \E i \in 1..Arity[n[1]] : s.callee = Original(Params[i])
            BY <2>1 DEF WrittenIn
        <3>2. s.callee \in DOMAIN body => s.callee[1] \in Functions /\ ~IsCopy(s.callee)
            BY <1>3
        <3>3. \A i \in 1..Arity[n[1]] : s.callee = Original(Params[i]) =>
                  /\ s.callee[1] = Params[i] /\ ~IsCopy(s.callee)
                  /\ s.callee[1] \notin Functions /\ s.callee[1] \in ArgsIn(Arity[n[1]])
            BY <2>4, ParamNames DEF Original, IsCopy, ArgsIn
        <3>4. s.callee \in DOMAIN body /\ Len(s.args) = Arity[s.callee[1]] => Direct(s)
            BY <1>3 DEF Direct, InModule
        <3>. QED
            BY <2>2, <2>4, <3>1, <3>2, <3>3, <3>4
    <2>8. SiteFits(n, s)
        BY <2>2, <2>3, <2>4, <2>7 DEF SiteFits
    <2>9. OriginalArg(made[n], s.callee[1]) = KnownArg(made[n], s.wants.fun)
        BY <2>2, <2>4, <2>7, PlainCallee
    <2>10. MadeFor(s) = Unknown(Len(s.args))
        BY <2>7 DEF MadeFor
    <2>11. Fill(MadeFor(s), InOriginal(made[n], s.args)) = s.wants.args
        BY <2>2, <2>3, <2>4, <2>10, PlainMeaning
    <2>. QED
        BY <2>8, <2>9, <2>11 DEF Means, s
<1>6. SitesOK /\ MeaningOK
    BY <1>2, <1>5 DEF SitesOK, MeaningOK
<1>7. TableOK /\ PassOK
    BY DEF Init, TableOK, PassOK
<1>8. CountOK
    <2>1. \A f \in Functions : CopiesOf(f) = {}
        BY <1>3 DEF CopiesOf
    <2>2. Cardinality({}) = 0 /\ phase = "optimize"
        BY FS_EmptySet DEF Init
    <2>. QED
        BY <2>1, <2>2, ThresholdAssumption DEF CountOK
<1>. QED
    BY <1>4, <1>6, <1>7, <1>8 DEF IInv, Structure

-----------------------------------------------------------------------------
(* The steps that leave the module as it is.                                  *)

LEMMA ModuleKept ==
    ASSUME UNCHANGED <<order, body, made>>
    PROVE  /\ NamesOK' <=> NamesOK
           /\ SitesOK' <=> SitesOK
           /\ MeaningOK' <=> MeaningOK
           /\ \A e : EntryOK(e)' <=> EntryOK(e)
           /\ \A f : CopiesOf(f)' = CopiesOf(f)
<1>1. NamesOK' <=> NamesOK
    BY DEF NamesOK
<1>2. SitesOK' <=> SitesOK
    BY DEF SitesOK, SiteFits, Direct, InModule
<1>3. MeaningOK' <=> MeaningOK
    BY DEF MeaningOK, Means, MadeFor
<1>4. \A e : EntryOK(e)' <=> EntryOK(e)
    BY DEF EntryOK
<1>5. \A f : CopiesOf(f)' = CopiesOf(f)
    BY DEF CopiesOf
<1>. QED
    BY <1>1, <1>2, <1>3, <1>4, <1>5

LEMMA OrderFacts ==
    ASSUME NamesOK, SitesOK
    PROVE  /\ Len(order) \in Nat /\ DOMAIN order = 1..Len(order) /\ 1 \in DOMAIN order
           /\ \A i \in DOMAIN order : /\ order[i] \in DOMAIN body
                                      /\ Len(body[order[i]]) \in Nat
                                      /\ DOMAIN body[order[i]] = 1..Len(body[order[i]])
<1>1. order # <<>>
    BY DEF NamesOK, Range
<1>. QED
    BY <1>1 DEF NamesOK, SitesOK

LEMMA CopiesFinite ==
    ASSUME IsFiniteSet(DOMAIN body), NEW f
    PROVE  IsFiniteSet(CopiesOf(f)) /\ Cardinality(CopiesOf(f)) \in Nat
BY FS_Subset, FS_CardinalityType DEF CopiesOf

LEMMA StepStartPass == IInv /\ StartPass => IInv'
<1> SUFFICES ASSUME IInv, StartPass PROVE IInv'
    OBVIOUS
<1>0. NamesOK /\ SitesOK /\ TableOK /\ PassOK /\ CountOK
    BY DEF IInv, Structure
<1>1. UNCHANGED <<policy, order, body, made, table>> /\ phase' = "pass" /\ phase = "ready"
      /\ cur' = 1 /\ todo' = Len(body[order[1]]) /\ copies' = CopiesAtStart
    BY DEF StartPass
<1>2. NamesOK' /\ SitesOK' /\ (MeaningOK => MeaningOK') /\ TableOK'
    BY <1>0, <1>1, ModuleKept DEF TableOK
<1>3. PassOK'
    <2>1. CopiesAtStart \in [Functions -> Nat]
        BY <1>0, CopiesFinite DEF CopiesAtStart, NamesOK
    <2>. QED
        BY <1>0, <1>1, <2>1, OrderFacts DEF PassOK
<1>4. CountOK'
    <2>1. \A f \in Functions : copies'[f] = Cardinality(CopiesOf(f)) /\ Cardinality(CopiesOf(f)) \in Nat
        BY <1>0, <1>1, CopiesFinite DEF CopiesAtStart, NamesOK
    <2>2. \A f : CopiesOf(f)' = CopiesOf(f)
        BY <1>1, ModuleKept
    <2>. QED
        BY <1>0, <1>1, <2>1, <2>2 DEF CountOK
<1>. QED
    BY <1>2, <1>3, <1>4 DEF IInv, Structure

LEMMA CountedUp ==
    ASSUME NEW c \in [Functions -> Nat], NEW g
    PROVE  /\ [c EXCEPT ![g] = @ + 1] \in [Functions -> Nat]
           /\ \A f \in Functions :
                 /\ c[f] \in Nat /\ c[f] <= [c EXCEPT ![g] = @ + 1][f]
                 /\ f = g => [c EXCEPT ![g] = @ + 1][f] = c[f] + 1
<1>1. [c EXCEPT ![g] = @ + 1] = [f \in Functions |-> IF f = g THEN c[f] + 1 ELSE c[f]]
    OBVIOUS
<1>2. \A f \in Functions : c[f] \in Nat
    OBVIOUS
<1> DEFINE d == [f \in Functions |-> IF f = g THEN c[f] + 1 ELSE c[f]]
<1>3. d \in [Functions -> Nat]
    BY <1>2
<1>4. \A f \in Functions : c[f] <= d[f] /\ (f = g => d[f] = c[f] + 1)
    BY <1>2
<1> HIDE DEF d
<1>. QED
    BY <1>1, <1>2, <1>3, <1>4 DEF d

LEMMA StepKeepSite == IInv /\ KeepSite => IInv'
<1> SUFFICES ASSUME IInv, KeepSite PROVE IInv'
    OBVIOUS
<1>0. NamesOK /\ SitesOK /\ TableOK /\ PassOK /\ CountOK
    BY DEF IInv, Structure
<1>1. UNCHANGED <<policy, order, body, made, phase, cur, table>> /\ phase = "pass"
      /\ todo > 0 /\ todo' = todo - 1
      /\ copies' = IF Counts(TheSite) THEN [copies EXCEPT ![TheSite.callee[1]] = @ + 1] ELSE copies
    BY DEF KeepSite
<1>2. NamesOK' /\ SitesOK' /\ (MeaningOK => MeaningOK') /\ TableOK'
    BY <1>0, <1>1, ModuleKept DEF TableOK
<1>3. copies' \in [Functions -> Nat] /\ \A f \in Functions : copies[f] \in Nat /\ copies[f] <= copies'[f]
    <2>1. copies \in [Functions -> Nat]
        BY <1>0 DEF PassOK
    <2>2. CASE Counts(TheSite)
        BY <1>1, <2>1, <2>2, CountedUp
    <2>3. CASE ~Counts(TheSite)
        BY <1>1, <2>1, <2>3
    <2>. QED
        BY <2>2, <2>3
<1>4. PassOK'
    BY <1>0, <1>1, <1>3, OrderFacts DEF PassOK
<1>5. CountOK'
    <2>1. \A f : CopiesOf(f)' = CopiesOf(f)
        BY <1>1, ModuleKept
    <2>2. \A f \in Functions : Cardinality(CopiesOf(f)) \in Nat
        BY <1>0, CopiesFinite DEF NamesOK
    <2>. QED
        BY <1>0, <1>1, <1>3, <2>1, <2>2 DEF CountOK
<1>. QED
    BY <1>2, <1>4, <1>5 DEF IInv, Structure

LEMMA StepNextFunction == IInv /\ NextFunction => IInv'
<1> SUFFICES ASSUME IInv, NextFunction PROVE IInv'
    OBVIOUS
<1>0. NamesOK /\ SitesOK /\ TableOK /\ PassOK /\ CountOK
    BY DEF IInv, Structure
<1>1. UNCHANGED <<policy, order, body, made, phase, table, copies>> /\ phase = "pass"
      /\ cur < Len(order) /\ cur' = cur + 1 /\ todo' = Len(body[order[cur + 1]])
    BY DEF NextFunction
<1>2. NamesOK' /\ SitesOK' /\ (MeaningOK => MeaningOK') /\ TableOK'
    BY <1>0, <1>1, ModuleKept DEF TableOK
<1>3. PassOK'
    BY <1>0, <1>1, OrderFacts DEF PassOK
<1>4. CountOK'
    BY <1>0, <1>1, ModuleKept DEF CountOK
<1>. QED
    BY <1>2, <1>3, <1>4 DEF IInv, Structure

LEMMA StepEndPass == IInv /\ EndPass => IInv'
<1> SUFFICES ASSUME IInv, EndPass PROVE IInv'
    OBVIOUS
<1>0. NamesOK /\ SitesOK /\ TableOK /\ PassOK /\ CountOK
    BY DEF IInv, Structure
<1>1. UNCHANGED <<policy, order, body, made, copies>> /\ phase' # "pass" /\ table' = {}
    BY DEF EndPass
<1>2. NamesOK' /\ SitesOK' /\ (MeaningOK => MeaningOK') /\ TableOK'
    BY <1>0, <1>1, ModuleKept DEF TableOK
<1>3. PassOK'
    BY <1>0, <1>1 DEF PassOK
<1>4. CountOK'
    BY <1>0, <1>1, ModuleKept DEF CountOK
<1>. QED
    BY <1>2, <1>3, <1>4 DEF IInv, Structure
-----------------------------------------------------------------------------
(* optimize.                                                                  *)

LEMMA SelectedOrder ==
    ASSUME NEW S, NEW o \in Seq(S), NEW T, T \subseteq Range(o)
    PROVE  LET q == Select(o, {i \in DOMAIN o : o[i] \in T})
           IN  q \in Seq(T) /\ Range(q) = T
<1> DEFINE K == {i \in DOMAIN o : o[i] \in T}
           q == Select(o, K)
<1>1. Len(o) \in Nat /\ DOMAIN o = 1..Len(o) /\ K \in SUBSET (1..Len(o))
    OBVIOUS
<1>2. /\ \A i \in K : Count(K, i) \in 1..Cardinality(K) /\ Place(K, Count(K, i)) = i
      /\ \A r \in 1..Cardinality(K) : Place(K, r) \in K
    BY <1>1, Counting
<1>3. Cardinality(K) \in Nat
    BY <1>1, PlacesFinite
<1>4. \A i \in K : o[i] \in T
    OBVIOUS
<1>5. \A n \in T : \E i \in K : o[i] = n
    BY DEF Range
<1> HIDE DEF K
<1>6. DOMAIN q = 1..Cardinality(K) /\ \A r \in 1..Cardinality(K) : q[r] = o[Place(K, r)]
    BY DEF Select
<1>7. q \in [1..Cardinality(K) -> T]
    BY <1>2, <1>4, <1>6 DEF Select
<1>8. q \in Seq(T)
    BY <1>3, <1>7
<1>9. Range(q) = T
    <2>1. \A n \in T : \E r \in 1..Cardinality(K) : q[r] = n
        BY <1>2, <1>5, <1>6
    <2>2. \A r \in DOMAIN q : q[r] \in T
        BY <1>2, <1>4, <1>6
    <2> HIDE DEF q
    <2>. QED
        BY <1>6, <2>1, <2>2 DEF Range
<1>. QED
    BY <1>8, <1>9 DEF K

LEMMA StepOptimize == IInv /\ Optimize => IInv'
<1> SUFFICES ASSUME IInv, Optimize PROVE IInv'
    OBVIOUS
<1>0. NamesOK /\ SitesOK /\ TableOK /\ PassOK /\ CountOK
    BY DEF IInv, Structure
<1>1. PICK S \in Live :
          /\ order' = Select(order, {i \in DOMAIN order : order[i] \in S})
          /\ body' = [n \in S |-> body[n]]
          /\ made' = [n \in S |-> made[n]]
    BY DEF Optimize
<1>2. UNCHANGED <<policy, table, copies>> /\ phase = "optimize" /\ phase' = "ready"
    BY DEF Optimize
<1>3. Roots \subseteq S /\ S \subseteq DOMAIN body /\ Refs(S) \subseteq S
    BY DEF Live, Closed
<1>4. NamesOK'
    <2>1. order' \in Seq(S) /\ Range(order') = S
        <3>1. order \in Seq(DOMAIN body) /\ S \subseteq Range(order)
            BY <1>0, <1>3 DEF NamesOK
        <3>. QED
            BY <1>1, <3>1, SelectedOrder
    <2>2. IsFiniteSet(S)
        BY <1>0, <1>3, FS_Subset DEF NamesOK
    <2>3. \E f \in Exported : Original(f) \in S
        BY <1>0, <1>3 DEF NamesOK, Roots, Original
    <2>4. DOMAIN body' = S /\ DOMAIN made' = S
        BY <1>1
    <2>5. ASSUME NEW n \in S
          PROVE  /\ n \in Names
                 /\ made'[n] \in [1..Arity[n[1]] -> Constants \cup {"?"}]
                 /\ IF IsCopy(n) THEN n[2] = TextsOf(made'[n]) ELSE made'[n] = Unknown(Arity[n[1]])
        <3>1. made'[n] = made[n] /\ n \in DOMAIN body
            BY <1>1, <1>3
        <3>. QED
            BY <1>0, <3>1 DEF NamesOK
    <2>. QED
        BY <2>1, <2>2, <2>3, <2>4, <2>5 DEF NamesOK
<1>5. \A n \in S : body'[n] = body[n] /\ made'[n] = made[n] /\ n \in DOMAIN body
    BY <1>1, <1>3
<1>7. DOMAIN body' = S
    BY <1>1
<1>6. ASSUME NEW n \in S, NEW k \in DOMAIN body[n], Direct(body[n][k])
      PROVE  body[n][k].callee \in S /\ Direct(body[n][k])'
    <2>1. body[n][k].callee \in S
        BY <1>3, <1>6 DEF Refs, Mentions, Direct, InModule
    <2>2. \A s : s.callee \in S /\ Direct(s) => Direct(s)'
        BY <1>7 DEF Direct, InModule
    <2>. QED
        BY <1>5, <1>6, <2>1, <2>2
<1>8. SitesOK'
    <2>1. ASSUME NEW n \in S, NEW k \in DOMAIN body[n], NEW s, s = body[n][k] PROVE SiteFits(n, s)'
        <3>1. SiteFits(n, s)
            BY <1>0, <1>3, <2>1 DEF SitesOK
        <3>2. Direct(s) => Direct(s)'
            <4>1. Direct(body[n][k]) => s.callee \in S
                BY <1>6, <2>1
            <4>. QED
                BY <1>7, <2>1, <4>1 DEF Direct, InModule
        <3>. QED
            BY <3>1, <3>2 DEF SiteFits
    <2>2. SitesOK' <=> \A m \in DOMAIN body' :
                           /\ body'[m] \in Seq(Sites)
                           /\ \A j \in DOMAIN body'[m] : \A q : q = body'[m][j] => SiteFits(m, q)'
        BY DEF SitesOK, SiteFits, Direct, InModule
    <2>. QED
        BY <1>0, <1>5, <1>7, <2>1, <2>2 DEF SitesOK
<1>9. MeaningOK => MeaningOK'
    <2>1. ASSUME NEW n \in S, NEW k \in DOMAIN body[n], NEW s, s = body[n][k], Means(n, s)
          PROVE  Means(n, s)'
        <3>1. IsCopy(s.callee) => s.callee \in S
            BY <1>0, <1>3, <1>6, <2>1 DEF SitesOK, SiteFits
        <3>2. MadeFor(s)' = MadeFor(s) /\ made'[n] = made[n]
            BY <1>5, <3>1 DEF MadeFor
        <3>. QED
            BY <2>1, <3>2 DEF Means
    <2>2. MeaningOK' <=> \A m \in DOMAIN body' : \A j \in DOMAIN body'[m] : \A q : q = body'[m][j] => Means(m, q)'
        BY DEF MeaningOK, Means, MadeFor
    <2>. QED
        BY <1>5, <1>7, <2>1, <2>2 DEF MeaningOK
<1>10. TableOK' /\ PassOK'
    BY <1>0, <1>2 DEF TableOK, PassOK
<1>11. CountOK'
    <2>1. ASSUME NEW f
          PROVE  /\ Cardinality(CopiesOf(f)') \in Nat /\ Cardinality(CopiesOf(f)) \in Nat
                 /\ Cardinality(CopiesOf(f)') <= Cardinality(CopiesOf(f))
        <3>1. IsFiniteSet(CopiesOf(f)) /\ Cardinality(CopiesOf(f)) \in Nat
            BY <1>0, CopiesFinite DEF NamesOK
        <3>2. CopiesOf(f)' \subseteq CopiesOf(f)
            BY <1>3, <1>7 DEF CopiesOf
        <3>. QED
            BY <3>1, <3>2, FS_Subset, FS_CardinalityType
    <2>. QED
        BY <1>0, <1>2, <2>1, ThresholdAssumption DEF CountOK
<1>. QED
    BY <1>4, <1>8, <1>9, <1>10, <1>11 DEF IInv, Structure

\* What is known of a call site.
LEMMA SiteFacts ==
    ASSUME NamesOK, SitesOK, NEW n \in DOMAIN body, NEW k \in DOMAIN body[n],
           NEW s, s = body[n][k]
    PROVE  /\ s \in Sites /\ Len(s.args) \in Nat /\ DOMAIN s.args = 1..Len(s.args)
           /\ s.args \in [1..Len(s.args) -> ArgsIn(ParamsOf(n))]
           /\ IsVector(MadeFor(s)) /\ Len(s.args) = Cardinality(Open(MadeFor(s)))
<1>0. body[n] \in Seq(Sites) /\ SiteFits(n, s)
    BY DEF SitesOK
<1>1. s \in Sites /\ SiteFits(n, s) /\ s.args \in Seq(Args)
    <2>1. s \in Sites
        BY <1>0
    <2>. QED
        BY <1>0, <2>1 DEF Sites
<1>2. Len(s.args) \in Nat /\ DOMAIN s.args = 1..Len(s.args)
    BY <1>1
<1>3. s.args \in [1..Len(s.args) -> ArgsIn(ParamsOf(n))]
    <2>0. \A a \in Seq(Args) : a = [j \in DOMAIN a |-> a[j]]
        OBVIOUS
    <2>1. s.args = [j \in 1..Len(s.args) |-> s.args[j]]
        BY <1>1, <1>2, <2>0
    <2>2. \A j \in 1..Len(s.args) : s.args[j] \in ArgsIn(ParamsOf(n))
        BY <1>1, <1>2 DEF SiteFits
    <2>. QED
        BY <2>1, <2>2
<1>4. CASE IsCopy(s.callee)
    <2>1. s.callee \in DOMAIN body /\ Len(s.args) = ParamsOf(s.callee) /\ MadeFor(s) = made[s.callee]
        BY <1>1, <1>4 DEF SiteFits, Direct, InModule, MadeFor
    <2>2. made[s.callee] \in [1..Arity[s.callee[1]] -> Values] /\ Arity[s.callee[1]] \in Nat
          /\ ParamsOf(s.callee) = Cardinality(Open(made[s.callee]))
        BY <2>1, NamedFor
    <2>. QED
        BY <1>1, <1>2, <1>3, <2>1, <2>2 DEF IsVector
<1>5. CASE ~IsCopy(s.callee)
    <2>1. MadeFor(s) = Unknown(Len(s.args))
        BY <1>5 DEF MadeFor
    <2>2. Unknown(Len(s.args)) \in [1..Len(s.args) -> Values]
          /\ Cardinality(Open(Unknown(Len(s.args)))) = Len(s.args)
        BY <1>2, OpenUnknown
    <2>. QED
        BY <1>1, <1>2, <1>3, <2>1, <2>2 DEF IsVector
<1>. QED
    BY <1>4, <1>5

\* A direct call fills what its callee was made for.
LEMMA DirectFacts ==
    ASSUME NamesOK, NEW s, Direct(s)
    PROVE  /\ s.callee \in DOMAIN body /\ s.callee \in Names
           /\ MadeFor(s) = made[s.callee] /\ Len(s.args) = ParamsOf(s.callee)
           /\ ParamsOf(s.callee) = Cardinality(Open(made[s.callee])) /\ ParamsOf(s.callee) \in 0..3
<1>1. s.callee \in DOMAIN body /\ Len(s.args) = ParamsOf(s.callee)
    BY DEF Direct, InModule
<1>2. s.callee \in Names /\ (~IsCopy(s.callee) => made[s.callee] = Unknown(Arity[s.callee[1]]))
    BY <1>1 DEF NamesOK
<1>3. MadeFor(s) = made[s.callee]
    BY <1>1, <1>2 DEF MadeFor, ParamsOf
<1>. QED
    BY <1>1, <1>2, <1>3, NamedFor

LEMMA ChangedIn ==
    ASSUME NEW T, NEW q \in Seq(T), NEW x, NEW y \in T
    PROVE  /\ [q EXCEPT ![x] = y] \in Seq(T)
           /\ DOMAIN [q EXCEPT ![x] = y] = DOMAIN q
           /\ \A j \in DOMAIN q : [q EXCEPT ![x] = y][j] = IF j = x THEN y ELSE q[j]
           /\ Len([q EXCEPT ![x] = y]) = Len(q)
<1> DEFINE r == [j \in 1..Len(q) |-> IF j = x THEN y ELSE q[j]]
<1>1. Len(q) \in Nat /\ DOMAIN q = 1..Len(q) /\ \A j \in 1..Len(q) : q[j] \in T
    OBVIOUS
<1>2. [q EXCEPT ![x] = y] = r
    BY <1>1
<1>3. r \in [1..Len(q) -> T]
    BY <1>1
<1>4. r \in Seq(T) /\ DOMAIN r = 1..Len(q)
    BY <1>1, <1>3
<1>5. Len(r) = Len(q)
    BY <1>1, <1>4
<1>6. \A j \in 1..Len(q) : r[j] = IF j = x THEN y ELSE q[j]
    OBVIOUS
<1> HIDE DEF r
<1>. QED
    BY <1>1, <1>2, <1>4, <1>5, <1>6

\* One site of the module changed.
LEMMA SiteChanged ==
    ASSUME NEW b, NEW n \in DOMAIN b, b[n] \in Seq(Sites), NEW k, NEW t \in Sites
    PROVE  /\ DOMAIN [b EXCEPT ![n][k] = t] = DOMAIN b
           /\ \A m \in DOMAIN b : m # n => [b EXCEPT ![n][k] = t][m] = b[m]
           /\ [b EXCEPT ![n][k] = t][n] \in Seq(Sites)
           /\ DOMAIN [b EXCEPT ![n][k] = t][n] = DOMAIN b[n]
           /\ Len([b EXCEPT ![n][k] = t][n]) = Len(b[n])
           /\ \A j \in DOMAIN b[n] : [b EXCEPT ![n][k] = t][n][j] = IF j = k THEN t ELSE b[n][j]
<1>1. /\ DOMAIN [b EXCEPT ![n][k] = t] = DOMAIN b
      /\ \A m \in DOMAIN b : m # n => [b EXCEPT ![n][k] = t][m] = b[m]
      /\ [b EXCEPT ![n][k] = t][n] = [b[n] EXCEPT ![k] = t]
    OBVIOUS
<1>2. /\ [b[n] EXCEPT ![k] = t] \in Seq(Sites) /\ DOMAIN [b[n] EXCEPT ![k] = t] = DOMAIN b[n]
      /\ Len([b[n] EXCEPT ![k] = t]) = Len(b[n])
      /\ \A j \in DOMAIN b[n] : [b[n] EXCEPT ![k] = t][j] = IF j = k THEN t ELSE b[n][j]
    BY ChangedIn
<1>. QED
    BY <1>1, <1>2

\* b is a, of length n, with c in place i.
PlacedIn(a, b, n, i, c) == \A r \in 1..n : b[r] = IF r = i THEN c ELSE a[r]

\* An argument that becomes a constant becomes it in what the site stands for.
LEMMA FoldMeaning ==
    ASSUME NEW m \in Nat, NEW v, DOMAIN v = 1..m, NEW i \in 1..Cardinality(Open(v)), NEW c,
           NEW a, NEW b, PlacedIn(a, b, Cardinality(Open(v)), i, c)
    PROVE  PlacedIn(Fill(v, a), Fill(v, b), m, Place(Open(v), i), c)
<1> DEFINE place == Place(Open(v), i)
<1>1. Open(v) \in SUBSET (1..m)
    BY OpenPlaces
<1>2. /\ \A j \in Open(v) : Rank(v, j) \in 1..Cardinality(Open(v))
      /\ \A j \in Open(v) : Rank(v, j) = i <=> j = place
      /\ place \in Open(v)
    <2>1. /\ \A j \in Open(v) : Count(Open(v), j) \in 1..Cardinality(Open(v))
          /\ \A r \in 1..Cardinality(Open(v)) : Place(Open(v), r) \in Open(v) /\ Count(Open(v), Place(Open(v), r)) = r
          /\ \A j \in Open(v) : Place(Open(v), Count(Open(v), j)) = j
        BY <1>1, Counting
    <2>. QED
        BY <2>1 DEF Rank
<1> HIDE DEF place
<1>4. ASSUME NEW j \in 1..m
      PROVE  (IF v[j] = "?" THEN b[Rank(v, j)] ELSE v[j])
             = IF j = place THEN c ELSE (IF v[j] = "?" THEN a[Rank(v, j)] ELSE v[j])
    <2>1. CASE v[j] = "?"
        <3>1. j \in Open(v)
            BY <2>1 DEF Open
        <3>. QED
            BY <1>2, <2>1, <3>1 DEF PlacedIn
    <2>2. CASE v[j] # "?"
        BY <1>2, <2>2 DEF Open
    <2>. QED
        BY <2>1, <2>2
<1>5. \A j \in 1..m : /\ Fill(v, b)[j] = (IF v[j] = "?" THEN b[Rank(v, j)] ELSE v[j])
                        /\ Fill(v, a)[j] = IF v[j] = "?" THEN a[Rank(v, j)] ELSE v[j]
    BY DEF Fill
<1>. QED
    BY <1>4, <1>5 DEF place, PlacedIn

LEMMA FoldedSite ==
    ASSUME NamesOK, SitesOK, NEW n \in DOMAIN body, NEW k \in DOMAIN body[n],
           NEW s, s = body[n][k], NEW i \in DOMAIN s.args, NEW c \in Constants
    PROVE  /\ Folded(s, i, c) \in Sites
           /\ SiteFits(n, Folded(s, i, c))
           /\ Means(n, s) => Means(n, Folded(s, i, c))
<1> DEFINE v == MadeFor(s)
           place == Place(Open(v), i)
           args == [s.args EXCEPT ![i] = c]
           wanted == [s.wants.args EXCEPT ![place] = c]
           t == Folded(s, i, c)
<1>4. /\ s \in Sites /\ Len(s.args) = Cardinality(Open(v)) /\ Len(s.args) \in Nat
      /\ DOMAIN s.args = 1..Len(s.args) /\ IsVector(v)
      /\ s.args \in [1..Len(s.args) -> ArgsIn(ParamsOf(n))]
    BY SiteFacts
<1>2. s.args \in Seq(Args) /\ s.wants \in Wants /\ s.wants.args \in Seq(Args) /\ c \in Args
    BY <1>4 DEF Sites, Wants, Args
<1>3. /\ args \in Seq(Args) /\ DOMAIN args = DOMAIN s.args /\ Len(args) = Len(s.args)
      /\ \A j \in DOMAIN s.args : args[j] = IF j = i THEN c ELSE s.args[j]
    BY <1>2, ChangedIn
<1>5. wanted \in Seq(Args)
    BY <1>2, ChangedIn
<1>6. t = [s EXCEPT !.args = args, !.wants = [@ EXCEPT !.args = wanted]]
    BY DEF Folded
<1> HIDE DEF args, wanted, t
<1>7. [s.wants EXCEPT !.args = wanted] \in Wants /\ [s.wants EXCEPT !.args = wanted].args = wanted
      /\ [s.wants EXCEPT !.args = wanted].fun = s.wants.fun
    BY <1>2, <1>5 DEF Wants
<1>8. t \in Sites /\ t.callee = s.callee /\ t.args = args /\ t.wants.fun = s.wants.fun
      /\ t.wants.args = wanted
    BY <1>2, <1>3, <1>4, <1>6, <1>7 DEF Sites
<1>9. SiteFits(n, t)
    <2>1. SiteFits(n, s)
        BY DEF SitesOK
    <2>2. c \in ArgsIn(ParamsOf(n))
        BY DEF ArgsIn
    <2>3. \A j \in DOMAIN args : args[j] \in ArgsIn(ParamsOf(n))
        BY <1>3, <1>4, <2>2
    <2>4. Direct(t) <=> Direct(s)
        BY <1>3, <1>8 DEF Direct
    <2>. QED
        BY <1>3, <1>8, <2>1, <2>3, <2>4 DEF SiteFits
<1>10. ASSUME Means(n, s) PROVE Means(n, t)
    <2>1. n[1] \in Functions /\ Arity[n[1]] \in 0..3 /\ DOMAIN made[n] = 1..Arity[n[1]]
        BY NamedFor
    <2>2. PICK m \in Nat : DOMAIN v = 1..m
        BY <1>4 DEF IsVector
    <2>3. OriginalArg(made[n], c) = c
        BY <2>1, OriginalArgs
    <2> DEFINE old == InOriginal(made[n], s.args)
           new == InOriginal(made[n], args)
    <2>4. \A r \in DOMAIN s.args : new[r] = IF r = i THEN c ELSE old[r]
        BY <1>3, <2>3 DEF InOriginal
    <2>5. DOMAIN old = 1..Cardinality(Open(v)) /\ i \in 1..Cardinality(Open(v))
        BY <1>4 DEF InOriginal
    <2>7. /\ Fill(v, old) = s.wants.args
          /\ OriginalArg(made[n], s.callee[1]) = KnownArg(made[n], s.wants.fun)
        BY <1>10 DEF Means
    <2> HIDE DEF old, new, v
    <2>6. PlacedIn(Fill(v, old), Fill(v, new), m, place, c)
        <3>1. PlacedIn(old, new, Cardinality(Open(v)), i, c)
            BY <1>4, <2>4 DEF v, PlacedIn
        <3>. QED
            BY <2>2, <2>5, <3>1, FoldMeaning
    <2>8. Fill(v, new) = wanted
        <3>1. DOMAIN Fill(v, old) = 1..m /\ DOMAIN Fill(v, new) = 1..m
            BY <2>2 DEF Fill
        <3>2. Fill(v, new) = [j \in 1..m |-> Fill(v, new)[j]]
            BY <3>1 DEF Fill
        <3>3. wanted = [j \in 1..m |-> IF j = place THEN c ELSE Fill(v, old)[j]]
            BY <2>7, <3>1 DEF wanted
        <3>4. \A j \in 1..m : Fill(v, new)[j] = IF j = place THEN c ELSE Fill(v, old)[j]
            BY <2>6 DEF PlacedIn
        <3>. QED
            BY <3>2, <3>3, <3>4, ZenonT(60)
    <2>9. MadeFor(t) = v
        BY <1>3, <1>8 DEF MadeFor, v
    <2>. QED
        BY <1>8, <2>7, <2>8, <2>9 DEF Means, new
<1>. QED
    BY <1>8, <1>9, <1>10 DEF t

LEMMA StepFoldArgument == IInv /\ FoldArgument => IInv'
<1> SUFFICES ASSUME IInv, FoldArgument PROVE IInv'
    OBVIOUS
<1>0. NamesOK /\ SitesOK /\ TableOK /\ PassOK /\ CountOK
    BY DEF IInv, Structure
<1>a. PICK n \in DOMAIN body : \E k \in DOMAIN body[n] : \E i \in DOMAIN body[n][k].args, c \in Constants :
          body' = [body EXCEPT ![n][k] = Folded(@, i, c)]
    BY DEF FoldArgument
<1>b. PICK k \in DOMAIN body[n] : \E i \in DOMAIN body[n][k].args, c \in Constants :
          body' = [body EXCEPT ![n][k] = Folded(@, i, c)]
    BY <1>a
<1>1. PICK i \in DOMAIN body[n][k].args, c \in Constants :
          body' = [body EXCEPT ![n][k] = Folded(@, i, c)]
    BY <1>b
<1>2. UNCHANGED <<policy, order, made, table, copies, phase, cur, todo>> /\ phase = "optimize"
    BY DEF FoldArgument
<1> DEFINE t == Folded(body[n][k], i, c)
<1>3. t \in Sites /\ SiteFits(n, t) /\ (Means(n, body[n][k]) => Means(n, t))
    BY <1>0, FoldedSite
<1>4. body' = [body EXCEPT ![n][k] = t] /\ body[n] \in Seq(Sites)
    BY <1>0, <1>1 DEF SitesOK
<1> HIDE DEF t
<1>5. /\ DOMAIN body' = DOMAIN body
      /\ \A m \in DOMAIN body : m # n => body'[m] = body[m]
      /\ body'[n] \in Seq(Sites) /\ DOMAIN body'[n] = DOMAIN body[n]
      /\ \A j \in DOMAIN body[n] : body'[n][j] = IF j = k THEN t ELSE body[n][j]
    BY <1>3, <1>4, SiteChanged
<1>6. \A m, q : SiteFits(m, q)' <=> SiteFits(m, q)
    BY <1>5 DEF SiteFits, Direct, InModule
<1>7. \A m, q : Means(m, q)' <=> Means(m, q)
    BY <1>2 DEF Means, MadeFor
<1>8. ASSUME NEW m \in DOMAIN body
      PROVE  body'[m] \in Seq(Sites) /\ \A j \in DOMAIN body'[m] : SiteFits(m, body'[m][j])
    BY <1>0, <1>3, <1>5 DEF SitesOK
<1>9. SitesOK'
    BY <1>5, <1>6, <1>8 DEF SitesOK
<1>10. ASSUME MeaningOK PROVE MeaningOK'
    <2>1. ASSUME NEW m \in DOMAIN body, NEW j \in DOMAIN body'[m] PROVE Means(m, body'[m][j])
        BY <1>3, <1>5, <1>10 DEF MeaningOK
    <2>. QED
        BY <1>5, <1>7, <2>1 DEF MeaningOK
<1>11. NamesOK'
    BY <1>0, <1>2, <1>5 DEF NamesOK
<1>12. TableOK' /\ PassOK'
    BY <1>0, <1>2, <1>5 DEF TableOK, PassOK
<1>13. CountOK'
    <2>1. \A f : CopiesOf(f)' = CopiesOf(f)
        BY <1>5 DEF CopiesOf
    <2>. QED
        BY <1>0, <1>2, <2>1 DEF CountOK
<1>. QED
    BY <1>9, <1>10, <1>11, <1>12, <1>13 DEF IInv, Structure
-----------------------------------------------------------------------------
(* A call that is specialized, and the copy it is specialized to.             *)

LEMMA SchemeOf ==
    ASSUME NEW d, NEW s, DOMAIN s.args = 1..d
    PROVE  /\ Scheme(s) \in [1..d -> Values]
           /\ \A r \in 1..d : Scheme(s)[r] # "?" => Scheme(s)[r] = s.args[r] /\ s.args[r] \in Constants
BY DEF Scheme, Values

LEMMA FunctionIsList ==
    ASSUME NEW n \in Nat, NEW S, NEW f \in [1..n -> S]
    PROVE  f \in Seq(S)
OBVIOUS

LEMMA CopyNamed ==
    ASSUME NamesOK, NEW n \in DOMAIN body, ParamsOf(n) # 0,
           NEW sch \in [1..ParamsOf(n) -> Values],
           NEW w, w = Fill(made[n], sch), NEW copy, copy = SpecializedName(n, sch)
    PROVE  /\ w \in [1..Arity[n[1]] -> Values] /\ DOMAIN w = 1..Arity[n[1]]
           /\ copy = <<n[1], TextsOf(w)>> /\ copy \in Names /\ IsCopy(copy)
           /\ ParamsOf(copy) = Cardinality(Open(w)) /\ ParamsOf(copy) = Cardinality(Open(sch))
           /\ ParamsOf(copy) \in 0..3
           /\ copy \in DOMAIN body /\ TextsDiffer => made[copy] = w
<1>1. /\ n[1] \in Functions /\ Arity[n[1]] \in 0..3 /\ Arity[n[1]] \in Nat
      /\ made[n] \in [1..Arity[n[1]] -> Values] /\ DOMAIN made[n] = 1..Arity[n[1]]
      /\ ParamsOf(n) = Cardinality(Open(made[n])) /\ ParamsOf(n) \in 0..3
      /\ copy = <<n[1], TextsOf(w)>>
    BY NamedFor
<1>2. w \in [1..Arity[n[1]] -> Values] /\ DOMAIN w = 1..Arity[n[1]]
    <2>1. sch \in [1..Cardinality(Open(made[n])) -> Values]
        BY <1>1
    <2>2. Fill(made[n], sch) \in [1..Arity[n[1]] -> Values]
        BY <1>1, <2>1, TextsOfFill
    <2>. QED
        BY <2>2
<1>3. /\ TextsOf(w) \in [1..Arity[n[1]] -> Texts \cup {"?"}]
      /\ Open(TextsOf(w)) = Open(w)
    BY <1>1, <1>2, TextsOpen
<1>4. TextsOf(w) \in Seq(Texts \cup {"?"})
    BY <1>1, <1>3, FunctionIsList
<1>5. Arity[n[1]] # 0
    <2>1. Cardinality(Open(made[n])) <= Arity[n[1]]
        BY <1>1, OpenPlaces
    <2>. QED
        BY <1>1, <2>1
<1>6. IsCopy(copy) /\ copy \in Names /\ copy[1] = n[1] /\ copy[2] = TextsOf(w)
    <2>1. copy[1] = n[1] /\ copy[2] = TextsOf(w) /\ copy \in Names
        BY <1>1, <1>4 DEF Names
    <2>2. TextsOf(w) # <<>>
        BY <1>1, <1>3, <1>5
    <2>. QED
        BY <2>1, <2>2 DEF IsCopy
<1>7. ParamsOf(copy) = Cardinality(Open(w))
    BY <1>3, <1>6 DEF ParamsOf
<1>8. Cardinality(Open(w)) = Cardinality(Open(sch))
    <2>1. DOMAIN sch = 1..Cardinality(Open(made[n]))
        BY <1>1
    <2>. QED
        BY <1>1, <2>1, OpensOfFill
<1>9. ParamsOf(copy) \in 0..3
    <2>1. Cardinality(Open(w)) \in Nat /\ Cardinality(Open(w)) <= Arity[n[1]]
        BY <1>1, <1>2, OpenPlaces
    <2>. QED
        BY <1>1, <1>7, <2>1
<1>10. ASSUME copy \in DOMAIN body, TextsDiffer PROVE made[copy] = w
    <2>1. TextsOf(made[copy]) = TextsOf(w) /\ made[copy] \in [1..Arity[n[1]] -> Values]
        BY <1>6, <1>10 DEF NamesOK, Values
    <2>2. \A j \in 1..Arity[n[1]] : TextOf(made[copy][j]) = TextOf(w[j])
        <3>1. \A j \in 1..Arity[n[1]] : TextsOf(made[copy])[j] = TextOf(made[copy][j])
            BY <2>1 DEF TextsOf
        <3>2. \A j \in 1..Arity[n[1]] : TextsOf(w)[j] = TextOf(w[j])
            BY <1>2 DEF TextsOf
        <3>. QED
            BY <2>1, <3>1, <3>2
    <2>3. \A x, y \in Values : TextOf(x) = TextOf(y) => x = y
        <3>1. "?" \notin Constants /\ "?" \notin Texts
            BY ConstantsAssumption
        <3>. QED
            BY <1>10, <3>1 DEF Values, TextOf, Texts, TextsDiffer
    <2>4. \A j \in 1..Arity[n[1]] : made[copy][j] = w[j]
        <3>1. \A j \in 1..Arity[n[1]] : made[copy][j] \in Values /\ w[j] \in Values
            BY <1>2, <2>1
        <3>. QED
            BY <2>2, <2>3, <3>1
    <2>5. /\ made[copy] = [j \in 1..Arity[n[1]] |-> made[copy][j]]
          /\ w = [j \in 1..Arity[n[1]] |-> w[j]]
        BY <1>2, <2>1
    <2>. QED
        BY <2>4, <2>5
<1>. QED
    BY <1>1, <1>2, <1>6, <1>7, <1>8, <1>9, <1>10

LEMMA NewCall ==
    ASSUME NamesOK, SitesOK, NEW p \in DOMAIN body, NEW k \in DOMAIN body[p],
           NEW s, s = body[p][k], Direct(s), ParamsOf(s.callee) # 0,
           NEW w, w = Fill(made[s.callee], Scheme(s)),
           NEW copy, copy = SpecializedName(s.callee, Scheme(s)),
           NEW t, t = CallOf(copy, s)
    PROVE  /\ t \in Sites /\ t.callee = copy /\ Len(t.args) = ParamsOf(copy)
           /\ \A j \in DOMAIN t.args : t.args[j] \in ArgsIn(ParamsOf(p))
           /\ t.wants = s.wants
           /\ Means(p, s) => Fill(w, InOriginal(made[p], t.args)) = t.wants.args
<1> DEFINE n == s.callee
           d == ParamsOf(n)
           sch == Scheme(s)
           v == made[n]
<1>1. /\ s \in Sites /\ n \in DOMAIN body
      /\ d = Cardinality(Open(v)) /\ d \in 0..3
      /\ DOMAIN s.args = 1..d /\ s.args \in [1..d -> ArgsIn(ParamsOf(p))]
      /\ MadeFor(s) = v
    BY SiteFacts, DirectFacts
<1>2. /\ sch \in [1..d -> Values]
      /\ \A r \in 1..d : sch[r] # "?" => sch[r] = s.args[r] /\ s.args[r] \in Constants
    BY <1>1, SchemeOf
<1>3. /\ copy \in Names /\ copy[1] = n[1] /\ ParamsOf(copy) = Cardinality(Open(sch))
      /\ ParamsOf(copy) \in 0..3
    BY <1>1, <1>2, CopyNamed
<1>4. Open(sch) \in SUBSET (1..d)
    BY <1>1, <1>2 DEF Open
<1> DEFINE args == Select(s.args, Open(sch))
<1>5. /\ args \in [1..ParamsOf(copy) -> ArgsIn(ParamsOf(p))]
      /\ \A r \in 1..ParamsOf(copy) : Place(Open(sch), r) \in 1..d /\ args[r] = s.args[Place(Open(sch), r)]
    <2>1. d \in Nat /\ DOMAIN s.args = 1..d
        BY <1>1
    <2>2. \A r \in 1..Cardinality(Open(sch)) :
                Place(Open(sch), r) \in Open(sch) /\ args[r] = s.args[Place(Open(sch), r)]
        BY <1>4, <2>1, SelectType
    <2>3. \A r \in 1..ParamsOf(copy) : Place(Open(sch), r) \in 1..d /\ args[r] = s.args[Place(Open(sch), r)]
        BY <1>3, <1>4, <2>2
    <2>4. \A r \in 1..ParamsOf(copy) : args[r] \in ArgsIn(ParamsOf(p))
        BY <1>1, <2>3
    <2>5. args = [r \in 1..ParamsOf(copy) |-> args[r]]
        BY <1>3 DEF Select
    <2> HIDE DEF args
    <2>. QED
        BY <2>3, <2>4, <2>5
<1>6. args \in Seq(Args)
    <2>1. s.args \in Seq(Args)
        BY <1>1 DEF Sites
    <2>2. \A j \in 1..d : s.args[j] \in Args
        BY <1>1, <2>1
    <2>3. args \in [1..ParamsOf(copy) -> Args]
        BY <1>5, <2>2
    <2>4. ParamsOf(copy) \in Nat
        BY <1>3
    <2> HIDE DEF args
    <2>. QED
        BY <2>3, <2>4, FunctionIsList
<1>7. t = [s EXCEPT !.callee = copy, !.args = args]
    BY DEF CallOf
<1> HIDE DEF args
<1>8. t \in Sites /\ t.callee = copy /\ t.args = args /\ t.wants = s.wants
    BY <1>1, <1>3, <1>6, <1>7 DEF Sites
<1>9. Len(t.args) = ParamsOf(copy) /\ \A j \in DOMAIN t.args : t.args[j] \in ArgsIn(ParamsOf(p))
    BY <1>3, <1>5, <1>6, <1>8
<1>10. ASSUME Means(p, s)
       PROVE  Fill(w, InOriginal(made[p], t.args)) = t.wants.args
    <2> DEFINE a == InOriginal(made[p], s.args)
    <2>1. Arity[p[1]] \in 0..3 /\ DOMAIN made[p] = 1..Arity[p[1]]
        BY NamedFor
    <2>2. \A c \in Constants \cup {"?"} : OriginalArg(made[p], c) = c
        BY <2>1, OriginalArgs
    <2>3. DOMAIN a = 1..d /\ \A r \in DOMAIN sch : sch[r] # "?" => a[r] = sch[r]
        BY <1>1, <1>2, <2>2 DEF InOriginal
    <2>4. InOriginal(made[p], t.args) = Select(a, Open(sch))
        <3>1. d \in Nat
            BY <1>1
        <3>. QED
            BY <1>1, <1>4, <1>8, <3>1, SelectOriginal DEF args
    <2>5. Arity[n[1]] \in Nat /\ DOMAIN v = 1..Arity[n[1]]
        BY <1>1, NamedFor
    <2>6. DOMAIN sch = 1..d /\ d = Cardinality(Open(v))
        BY <1>1, <1>2
    <2>7. Fill(v, a) = s.wants.args
        BY <1>1, <1>10 DEF Means
    <2> HIDE DEF a, sch, d, v
    <2>8. Fill(Fill(v, sch), Select(a, Open(sch))) = Fill(v, a)
        BY <2>3, <2>5, <2>6, FillOfSelect, ZenonT(60)
    <2>9. w = Fill(v, sch)
        BY DEF v, sch
    <2>. QED
        BY <1>8, <2>4, <2>7, <2>8, <2>9
<1>. QED
    BY <1>8, <1>9, <1>10

SchemeFor(n, sch) == sch \in [1..ParamsOf(n) -> Values]

\* The callee of a site of n in a copy for sch.
CopiedCallee(sch, c) == <<Renumbered(sch, c[1]), c[2]>>

\* The site t of a copy of n for sch fits as the site s of n does.
CopyFits(n, sch, s, t) ==
    /\ t \in Sites /\ t.callee = CopiedCallee(sch, s.callee) /\ Len(t.args) = Len(s.args)
    /\ \A j \in DOMAIN t.args : t.args[j] \in ArgsIn(Cardinality(Open(sch)))
    /\ s.callee[1] \in Functions => t.callee = s.callee
    /\ s.callee[1] \notin Functions => t.callee[1] \in ArgsIn(Cardinality(Open(sch)))
    /\ IsCopy(s.callee) <=> IsCopy(t.callee)
    /\ t.wants.fun = s.wants.fun /\ MadeFor(t) = MadeFor(s)
    /\ Means(n, s) => /\ OriginalArg(Fill(made[n], sch), t.callee[1]) = KnownArg(Fill(made[n], sch), t.wants.fun)
                      /\ Fill(MadeFor(t), InOriginal(Fill(made[n], sch), t.args)) = t.wants.args

\* What is known of a parameter stays known when more is.
LEMMA KnownTwice ==
    ASSUME NEW m \in 0..3, NEW v \in [1..m -> Values], NEW w, DOMAIN w = 1..m,
           \A j \in 1..m : v[j] # "?" => w[j] = v[j],
           NEW a \in Functions \cup Range(Params)
    PROVE  KnownArg(w, KnownArg(v, a)) = KnownArg(w, a)
<1>1. m \in 0..3 /\ DOMAIN v = 1..m /\ DOMAIN w = 1..m
    OBVIOUS
<1>v. /\ \A j \in 1..m : KnownArg(v, Params[j]) = IF v[j] # "?" THEN v[j] ELSE Params[j]
      /\ \A b \in Constants \cup Functions \cup {"?"} : KnownArg(v, b) = b
    BY ONLY <1>1, KnownArgs, Zenon
<1>w. /\ \A j \in 1..m : KnownArg(w, Params[j]) = IF w[j] # "?" THEN w[j] ELSE Params[j]
      /\ \A b \in Constants \cup Functions \cup {"?"} : KnownArg(w, b) = b
    BY ONLY <1>1, KnownArgs, Zenon
<1>3. ASSUME NEW j \in 1..m, a = Params[j] PROVE KnownArg(w, KnownArg(v, a)) = KnownArg(w, a)
    <2>1. /\ KnownArg(v, a) = IF v[j] # "?" THEN v[j] ELSE a
          /\ KnownArg(w, a) = IF w[j] # "?" THEN w[j] ELSE a
        BY <1>3, <1>v, <1>w
    <2>2. v[j] \in Constants \cup {"?"}
        BY DEF Values
    <2>. QED
        BY <1>3, <1>v, <1>w, <2>1, <2>2
<1>4. ASSUME \A j \in 1..m : a # Params[j] PROVE KnownArg(v, a) = a
    BY <1>1, <1>4 DEF KnownArg
<1>. QED
    BY <1>3, <1>4

LEMMA CopiedSite ==
    ASSUME NamesOK, SitesOK, NEW n \in DOMAIN body, NEW sch, SchemeFor(n, sch),
           NEW k \in DOMAIN body[n]
    PROVE  CopyFits(n, sch, body[n][k], CopyBody(n, sch)[k])
<1> DEFINE s == body[n][k]
           t == CopyBody(n, sch)[k]
           w == Fill(made[n], sch)
           v == made[n]
           m == Arity[n[1]]
           u == MadeFor(s)
           d == Len(s.args)
           args == CopyArgs(sch, s.args)
           wanted == Known(w, s.wants.args)
           callee == CopiedCallee(sch, s.callee)
<1>1. /\ n[1] \in Functions /\ m \in 0..3 /\ DOMAIN v = 1..m /\ v \in [1..m -> Values]
      /\ ParamsOf(n) = Cardinality(Open(v)) /\ ParamsOf(n) \in 0..3
      /\ sch \in [1..Cardinality(Open(v)) -> Values]
    BY NamedFor DEF SchemeFor
<1>2. /\ s \in Sites /\ SiteFits(n, s) /\ IsVector(u) /\ d = Cardinality(Open(u)) /\ d \in Nat
      /\ DOMAIN s.args = 1..d
      /\ s.args \in [1..d -> ArgsIn(ParamsOf(n))]
    BY SiteFacts DEF SitesOK
<1>3. \A a \in ArgsIn(Cardinality(Open(v))) :
          /\ OriginalArg(w, Renumbered(sch, a)) = KnownArg(w, OriginalArg(v, a))
          /\ Renumbered(sch, a) \in ArgsIn(Cardinality(Open(sch)))
    <2>1. sch \in [1..Cardinality(Open(v)) -> Constants \cup {"?"}]
        BY <1>1 DEF Values
    <2>. QED
        BY <1>1, <2>1, CopiedArg
<1>4. /\ DOMAIN args = 1..d
      /\ \A j \in DOMAIN args : args[j] \in ArgsIn(Cardinality(Open(sch)))
      /\ \A j \in DOMAIN args : args[j] = Renumbered(sch, s.args[j])
    BY <1>1, <1>2, <1>3 DEF CopyArgs
<1>5. Cardinality(Open(sch)) \in 0..3
    <2>1. DOMAIN sch = 1..ParamsOf(n) /\ ParamsOf(n) \in Nat
        BY <1>1
    <2>2. Cardinality(Open(sch)) \in Nat /\ Cardinality(Open(sch)) <= ParamsOf(n)
        BY <2>1, OpenPlaces
    <2>. QED
        BY <1>1, <2>2
<1>6. \A e \in 0..3 : ArgsIn(e) \subseteq Args
    BY ParamNames DEF ArgsIn, Args
<1>7. args \in Seq(Args)
    <2>1. args \in [1..d -> Args]
        <3>1. args = [j \in 1..d |-> args[j]]
            BY <1>4 DEF CopyArgs
        <3>2. \A j \in 1..d : args[j] \in Args
            BY <1>4, <1>5, <1>6
        <3> HIDE DEF args
        <3>. QED
            BY <3>1, <3>2
    <2>. QED
        BY <1>2, <2>1, FunctionIsList
<1>w. w \in [1..m -> Values] /\ DOMAIN w = 1..m
    <2>1. m \in Nat
        BY <1>1
    <2>2. w \in [1..m -> Values]
        BY <1>1, <2>1, TextsOfFill
    <2>. QED
        BY <2>2
<1>8. wanted \in Seq(Args) /\ s.wants \in Wants
    <2>0. s.wants \in Wants
        BY <1>2 DEF Sites
    <2>1. s.wants.args \in Seq(Args)
        BY <2>0 DEF Wants
    <2>3. \A a \in Args : KnownArg(w, a) \in Args
        BY <1>w DEF KnownArg, Values, Args
    <2>4. wanted \in [1..Len(s.wants.args) -> Args]
        <3>1. DOMAIN s.wants.args = 1..Len(s.wants.args)
              /\ \A j \in 1..Len(s.wants.args) : s.wants.args[j] \in Args
            BY <2>1
        <3>2. \A j \in 1..Len(s.wants.args) : KnownArg(w, s.wants.args[j]) \in Args
            BY <2>3, <3>1
        <3>. QED
            BY <3>1, <3>2 DEF Known
    <2>5. Len(s.wants.args) \in Nat
        BY <2>1
    <2> HIDE DEF wanted
    <2>. QED
        BY <2>0, <2>4, <2>5
<1>c. /\ s.callee \in Names \cup (Args \X {<<>>}) /\ s.callee = <<s.callee[1], s.callee[2]>>
      /\ s.callee[1] \notin Functions => s.callee[2] = <<>> /\ s.callee[1] \in ArgsIn(ParamsOf(n))
    <2>1. s.callee \in Names \cup (Args \X {<<>>})
        BY <1>2 DEF Sites
    <2>2. s.callee = <<s.callee[1], s.callee[2]>> /\ (s.callee[1] \notin Functions => s.callee[2] = <<>>)
        BY <2>1 DEF Names
    <2>3. s.callee[1] \notin Functions => s.callee[1] \in ArgsIn(ParamsOf(n))
        BY <1>2 DEF SiteFits
    <2>. QED
        BY <2>1, <2>2, <2>3
<1>9. /\ callee \in Names \cup (Args \X {<<>>})
      /\ s.callee[1] \in Functions => callee = s.callee
      /\ s.callee[1] \notin Functions => callee[1] \in ArgsIn(Cardinality(Open(sch)))
      /\ callee[2] = s.callee[2]
      /\ OriginalArg(w, callee[1]) = KnownArg(w, OriginalArg(v, s.callee[1]))
    <2>1. CASE s.callee[1] \in Functions
        <3>1. DOMAIN sch = 1..ParamsOf(n)
            BY <1>1
        <3>2. Renumbered(sch, s.callee[1]) = s.callee[1]
            BY <1>1, <2>1, <3>1, RenumberedConstant
        <3>3. /\ OriginalArg(w, s.callee[1]) = s.callee[1] /\ OriginalArg(v, s.callee[1]) = s.callee[1]
              /\ KnownArg(w, s.callee[1]) = s.callee[1]
            <4>1. OriginalArg(w, s.callee[1]) = s.callee[1]
                BY <1>1, <1>w, <2>1, OriginalArgs, ZenonT(60)
            <4>2. OriginalArg(v, s.callee[1]) = s.callee[1]
                BY <1>1, <2>1, OriginalArgs
            <4>3. KnownArg(w, s.callee[1]) = s.callee[1]
                <5> HIDE DEF w, m
                <5>0. /\ \A j \in 1..m : KnownArg(w, Params[j]) = IF w[j] # "?" THEN w[j] ELSE Params[j]
                      /\ \A a \in Constants \cup Functions \cup {"?"} : KnownArg(w, a) = a
                    <6>1. m \in 0..3 /\ DOMAIN w = 1..m
                        BY <1>1, <1>w
                    <6>. QED
                        BY <6>1, KnownArgs
                <5>1. \A a \in Constants \cup Functions \cup {"?"} : KnownArg(w, a) = a
                    BY <5>0
                <5>. QED
                    BY <2>1, <5>1
            <4>. QED
                BY <4>1, <4>2, <4>3
        <3> HIDE DEF w, v, s
        <3>. QED
            BY <1>c, <2>1, <3>2, <3>3 DEF CopiedCallee
    <2>2. CASE s.callee[1] \notin Functions
        <3>1. s.callee[1] \in ArgsIn(Cardinality(Open(v))) /\ s.callee[2] = <<>>
            BY <1>1, <1>c, <2>2
        <3>2. /\ OriginalArg(w, Renumbered(sch, s.callee[1])) = KnownArg(w, OriginalArg(v, s.callee[1]))
              /\ Renumbered(sch, s.callee[1]) \in ArgsIn(Cardinality(Open(sch)))
            BY <1>3, <3>1
        <3>3. Renumbered(sch, s.callee[1]) \in Args
            BY <1>5, <1>6, <3>2
        <3> HIDE DEF w, v, s
        <3>. QED
            BY <2>2, <3>1, <3>2, <3>3 DEF CopiedCallee
    <2>. QED
        BY <2>1, <2>2
<1>10. /\ t \in Sites /\ t.callee = callee /\ t.args = args /\ t.wants.fun = s.wants.fun
       /\ t.wants.args = wanted
    <2>1. t = [s EXCEPT !.callee = callee, !.args = args, !.wants = [@ EXCEPT !.args = wanted]]
        BY DEF CopyBody, CopiedCallee
    <2> HIDE DEF args, wanted, callee
    <2>2. /\ [s.wants EXCEPT !.args = wanted] \in Wants
          /\ [s.wants EXCEPT !.args = wanted].args = wanted
          /\ [s.wants EXCEPT !.args = wanted].fun = s.wants.fun
        BY <1>8 DEF Wants
    <2>. QED
        BY <1>2, <1>7, <1>9, <2>1, <2>2 DEF Sites
<1>11. Len(t.args) = d
    BY <1>2, <1>4, <1>7, <1>10
<1>13. (IsCopy(s.callee) <=> IsCopy(t.callee)) /\ MadeFor(t) = u
    <2>1. IsCopy(s.callee) <=> IsCopy(t.callee)
        BY <1>9, <1>10 DEF IsCopy
    <2>2. IsCopy(s.callee) => s.callee[1] \in Functions
        BY <1>c DEF IsCopy
    <2>. QED
        BY <1>9, <1>10, <1>11, <2>1, <2>2 DEF MadeFor
<1>12. ASSUME Means(n, s)
       PROVE  OriginalArg(w, t.callee[1]) = KnownArg(w, t.wants.fun) /\ Fill(u, InOriginal(w, args)) = wanted
    <2> DEFINE a == InOriginal(v, s.args)
    <2>1. InOriginal(w, args) = Known(w, a)
        <3>1. \A j \in 1..d : s.args[j] \in ArgsIn(Cardinality(Open(v)))
            BY <1>1, <1>2
        <3>2. \A j \in 1..d : OriginalArg(w, args[j]) = KnownArg(w, OriginalArg(v, s.args[j]))
            BY <1>3, <1>4, <3>1
        <3> HIDE DEF args, d
        <3>. QED
            BY <1>2, <1>4, <3>2 DEF InOriginal, Known
    <2>2. Fill(u, a) = s.wants.args /\ OriginalArg(v, s.callee[1]) = KnownArg(v, s.wants.fun)
        BY <1>12 DEF Means
    <2>3. DOMAIN a = 1..Cardinality(Open(u)) /\ DOMAIN w = 1..m
        BY <1>1, <1>2 DEF InOriginal, Fill
    <2>5. KnownArg(w, KnownArg(v, s.wants.fun)) = KnownArg(w, s.wants.fun)
        <3>1. \A j \in 1..m : v[j] # "?" => w[j] = v[j]
            BY <1>1 DEF Fill
        <3>2. s.wants.fun \in Functions \cup Range(Params)
            BY <1>8 DEF Wants
        <3> HIDE DEF w, v, m, s
        <3>. QED
            BY <1>1, <1>w, <3>1, <3>2, KnownTwice
    <2>6. OriginalArg(w, t.callee[1]) = KnownArg(w, t.wants.fun)
        BY <1>9, <1>10, <2>2, <2>5
    <2> HIDE DEF a, u, m
    <2>4. Fill(u, Known(w, a)) = Known(w, Fill(u, a))
        <3>1. ForParams(w)
            BY <1>1, <2>3 DEF ForParams
        <3>. QED
            BY <1>2, <2>3, <3>1, KnownFill
    <2>. QED
        BY <2>1, <2>2, <2>4, <2>6
<1>15. /\ t.callee = callee /\ Len(t.args) = Len(s.args)
       /\ \A j \in DOMAIN t.args : t.args[j] \in ArgsIn(Cardinality(Open(sch)))
       /\ Means(n, s) => /\ OriginalArg(w, t.callee[1]) = KnownArg(w, t.wants.fun)
                         /\ Fill(MadeFor(t), InOriginal(w, t.args)) = t.wants.args
    BY <1>4, <1>10, <1>11, <1>12, <1>13
<1>16. /\ t \in Sites
       /\ s.callee[1] \in Functions => t.callee = s.callee
       /\ s.callee[1] \notin Functions => t.callee[1] \in ArgsIn(Cardinality(Open(sch)))
       /\ IsCopy(s.callee) <=> IsCopy(t.callee)
       /\ t.wants.fun = s.wants.fun /\ MadeFor(t) = MadeFor(s)
    BY <1>9, <1>10, <1>13
<1> HIDE DEF s, t, u, d, args, wanted, callee, w
<1>17. t.callee = CopiedCallee(sch, s.callee)
    BY <1>15 DEF callee
<1>14. CopyFits(n, sch, s, t)
    BY <1>15, <1>16, <1>17 DEF CopyFits, w
<1>. QED
    BY <1>14 DEF s, t

LEMMA Appended ==
    ASSUME NEW S, NEW o \in Seq(S), NEW x
    PROVE  /\ Append(o, x) \in Seq(S \cup {x}) /\ Range(Append(o, x)) = Range(o) \cup {x}
           /\ \A i \in DOMAIN o : i \in DOMAIN Append(o, x) /\ Append(o, x)[i] = o[i]
<1>1. /\ Len(o) \in Nat /\ DOMAIN o = 1..Len(o) /\ Append(o, x) \in Seq(S \cup {x})
      /\ DOMAIN Append(o, x) = 1..(Len(o) + 1)
      /\ \A i \in 1..Len(o) : Append(o, x)[i] = o[i]
      /\ Append(o, x)[Len(o) + 1] = x
    OBVIOUS
<1>. QED
    BY <1>1 DEF Range

\* What the specialization of a site does to the module: the copy is named for
\* the constants that it is made for, its call replaces the site, and a copy
\* that is new gets the body of the callee.
SiteSpecialized(p, s, n, sch, w, copy, t) ==
    /\ p \in DOMAIN body /\ todo \in DOMAIN body[p]
    /\ s \in Sites /\ n \in DOMAIN body /\ ParamsOf(n) \in 0..3 /\ ParamsOf(n) # 0
    /\ sch \in [1..ParamsOf(n) -> Values]
    /\ w \in [1..Arity[n[1]] -> Values] /\ copy \in Names /\ IsCopy(copy)
    /\ copy = <<n[1], TextsOf(w)>>
    /\ ParamsOf(copy) = Cardinality(Open(sch)) /\ ParamsOf(copy) \in 0..3
    /\ copy \in DOMAIN body /\ TextsDiffer => made[copy] = w
    /\ t \in Sites /\ t.callee = copy /\ Len(t.args) = ParamsOf(copy)
    /\ \A j \in DOMAIN t.args : t.args[j] \in ArgsIn(ParamsOf(p))
    /\ Direct(s) /\ t.wants = s.wants
    /\ Means(p, s) => Fill(w, InOriginal(made[p], t.args)) = t.wants.args
ModuleSpecialized(p, n, sch, w, copy, t) ==
    LET new == copy \notin DOMAIN body
    IN  /\ order' = IF new THEN Append(order, copy) ELSE order
        /\ table' \subseteq table \cup {<<n, <<>>, n>>, <<n, sch, copy>>}
        /\ DOMAIN body' = (DOMAIN body) \cup {copy} /\ DOMAIN made' = (DOMAIN body) \cup {copy}
        /\ \A m \in DOMAIN body : made'[m] = made[m] /\ (m # p => body'[m] = body[m])
        /\ body'[p] \in Seq(Sites) /\ DOMAIN body'[p] = DOMAIN body[p] /\ Len(body'[p]) = Len(body[p])
        /\ \A j \in DOMAIN body[p] : body'[p][j] = IF j = todo THEN t ELSE body[p][j]
        /\ new => body'[copy] = CopyBody(n, sch) /\ made'[copy] = w

Chosen(p, s, n, sch, w, copy, t) ==
    /\ p = order[cur] /\ s = body[p][todo] /\ n = s.callee /\ sch = Scheme(s)
    /\ w = Fill(made[n], sch) /\ copy = SpecializedName(n, sch) /\ t = CallOf(copy, s)

LEMMA Specialized ==
    ASSUME NamesOK, SitesOK, TableOK, PassOK, SpecializeSite,
           NEW p, NEW s, NEW n, NEW sch, NEW w, NEW copy, NEW t,
           Chosen(p, s, n, sch, w, copy, t)
    PROVE  SiteSpecialized(p, s, n, sch, w, copy, t) /\ ModuleSpecialized(p, n, sch, w, copy, t)
<1> DEFINE new == copy \notin DOMAIN body
<1>0. NamesOK /\ SitesOK /\ TableOK /\ PassOK
    OBVIOUS
<1>d. /\ p = order[cur] /\ s = body[p][todo] /\ n = s.callee /\ sch = Scheme(s)
      /\ w = Fill(made[n], sch) /\ copy = SpecializedName(n, sch) /\ t = CallOf(copy, s)
    BY DEF Chosen
<1>1. /\ phase = "pass" /\ todo > 0 /\ Accepts(s) /\ todo' = todo - 1
      /\ copies' = IF Counts(s) THEN [copies EXCEPT ![n[1]] = @ + 1] ELSE copies
      /\ UNCHANGED <<policy, phase, cur>>
    BY <1>d DEF SpecializeSite, TheSite
<1>2. cur \in DOMAIN order /\ p \in DOMAIN body /\ todo \in DOMAIN body[p] /\ copies \in [Functions -> Nat]
    <2>1. cur \in DOMAIN order /\ todo \in 0..Len(body[order[cur]]) /\ copies \in [Functions -> Nat]
        BY <1>0, <1>1 DEF PassOK
    <2>2. order[cur] \in DOMAIN body /\ DOMAIN body[order[cur]] = 1..Len(body[order[cur]])
          /\ Len(body[order[cur]]) \in Nat
        BY <1>0, <2>1, OrderFacts
    <2>3. p = order[cur] /\ todo > 0
        BY <1>1, <1>d
    <2>. QED
        BY <2>1, <2>2, <2>3
<1>3. /\ Direct(s) /\ s \in Sites /\ n \in DOMAIN body /\ ParamsOf(n) \in 0..3
      /\ DOMAIN s.args = 1..ParamsOf(n)
    <2>1. Direct(s)
        BY <1>1 DEF Accepts, Asks
    <2>2. n \in DOMAIN body /\ ParamsOf(n) \in 0..3 /\ Len(s.args) = ParamsOf(n)
        BY <1>0, <1>d, <2>1, DirectFacts
    <2>3. s \in Sites /\ DOMAIN s.args = 1..Len(s.args)
        BY <1>0, <1>2, <1>d, SiteFacts
    <2>. QED
        BY <2>1, <2>2, <2>3
<1>4. ParamsOf(n) # 0
    <2>1. s.args # <<>> /\ s.args \in Seq(Args)
        BY <1>1, <1>3 DEF Accepts, Asks, SomeConstant, Sites
    <2>. QED
        BY <1>3, <2>1
<1>5. sch \in [1..ParamsOf(n) -> Values] /\ sch # <<>>
    <2>1. sch \in [1..ParamsOf(n) -> Values]
        BY <1>3, <1>d, SchemeOf
    <2>2. DOMAIN sch # {}
        <3>1. DOMAIN sch = 1..ParamsOf(n) /\ 1 \in 1..ParamsOf(n)
            BY <1>3, <1>4, <2>1
        <3>. QED
            BY <3>1
    <2>3. DOMAIN <<>> = {}
        BY ONLY SMT
    <2>. QED
        BY <2>1, <2>2, <2>3
<1>6. /\ body' = [m \in (DOMAIN body) \cup {copy} |->
                     IF m = copy /\ new THEN CopyBody(n, sch)
                     ELSE [body EXCEPT ![p][todo] = CallOf(copy, @)][m]]
      /\ made' = [m \in (DOMAIN body) \cup {copy} |-> IF m = copy /\ new THEN w ELSE made[m]]
      /\ order' = IF new THEN Append(order, copy) ELSE order
      /\ table' \subseteq table \cup {<<n, <<>>, n>>, <<n, sch, copy>>}
    <2>1. CopyFor(s) = copy
        <3>1. \A e \in InTable(n, sch) : e[3] = copy
            BY <1>0, <1>5, <1>d DEF InTable, TableOK, EntryOK
        <3>2. (CHOOSE e \in InTable(n, sch) : TRUE) \in InTable(n, sch) \/ InTable(n, sch) = {}
            OBVIOUS
        <3>. QED
            BY <1>d, <3>1, <3>2 DEF CopyFor
    <2>2. CallCopy(n, sch, copy)
        <3>1. TheSite = s /\ TheSite.callee = n /\ Scheme(TheSite) = sch /\ CopyFor(TheSite) = copy
            BY <1>d, <2>1 DEF TheSite
        <3>2. CallCopy(TheSite.callee, Scheme(TheSite), CopyFor(TheSite))
            BY DEF SpecializeSite
        <3>. QED
            BY <3>1, <3>2
    <2>3. WithRoot(n) \subseteq table \cup {<<n, <<>>, n>>}
        BY DEF WithRoot
    <2>4. table' \subseteq table \cup {<<n, <<>>, n>>, <<n, sch, copy>>}
        BY <2>2, <2>3 DEF CallCopy
    <2>. QED
        BY <1>d, <2>2, <2>4 DEF CallCopy, InModule
<1>7. /\ w \in [1..Arity[n[1]] -> Values] /\ copy \in Names /\ IsCopy(copy)
      /\ copy = <<n[1], TextsOf(w)>>
      /\ ParamsOf(copy) = Cardinality(Open(sch)) /\ ParamsOf(copy) \in 0..3
      /\ copy \in DOMAIN body /\ TextsDiffer => made[copy] = w
    <2>1. NamesOK /\ n \in DOMAIN body /\ ParamsOf(n) # 0 /\ sch \in [1..ParamsOf(n) -> Values]
        BY <1>0, <1>3, <1>4, <1>5
    <2>2. w = Fill(made[n], sch) /\ copy = SpecializedName(n, sch)
        BY <1>d
    <2>. QED
        BY <2>1, <2>2, CopyNamed, SMTT(60)
<1>8. /\ t \in Sites /\ t.callee = copy /\ Len(t.args) = ParamsOf(copy)
      /\ \A j \in DOMAIN t.args : t.args[j] \in ArgsIn(ParamsOf(p))
      /\ t.wants = s.wants
      /\ Means(p, s) => Fill(w, InOriginal(made[p], t.args)) = t.wants.args
    BY <1>0, <1>2, <1>3, <1>4, <1>d, NewCall
<1>11. /\ DOMAIN body' = (DOMAIN body) \cup {copy} /\ DOMAIN made' = (DOMAIN body) \cup {copy}
       /\ \A m \in DOMAIN body : made'[m] = made[m] /\ (m # p => body'[m] = body[m])
       /\ body'[p] \in Seq(Sites) /\ DOMAIN body'[p] = DOMAIN body[p] /\ Len(body'[p]) = Len(body[p])
       /\ \A j \in DOMAIN body[p] : body'[p][j] = IF j = todo THEN t ELSE body[p][j]
       /\ new => body'[copy] = CopyBody(n, sch) /\ made'[copy] = w
    <2> DEFINE b == [body EXCEPT ![p][todo] = t]
    <2>1. b = [body EXCEPT ![p][todo] = CallOf(copy, @)]
        BY <1>d
    <2>2. body[p] \in Seq(Sites)
        BY <1>0, <1>2 DEF SitesOK
    <2>3. /\ DOMAIN b = DOMAIN body
          /\ \A m \in DOMAIN body : m # p => b[m] = body[m]
          /\ b[p] \in Seq(Sites) /\ DOMAIN b[p] = DOMAIN body[p] /\ Len(b[p]) = Len(body[p])
          /\ \A j \in DOMAIN body[p] : b[p][j] = IF j = todo THEN t ELSE body[p][j]
        BY <1>2, <1>8, <2>2, SiteChanged
    <2>4. /\ DOMAIN body' = (DOMAIN body) \cup {copy}
          /\ \A m \in DOMAIN body : body'[m] = b[m]
          /\ new => body'[copy] = CopyBody(n, sch)
        BY <1>6, <2>1
    <2> HIDE DEF b
    <2>. QED
        BY <1>2, <1>6, <2>3, <2>4
<1>12. SiteSpecialized(p, s, n, sch, w, copy, t)
    BY <1>2, <1>3, <1>4, <1>5, <1>7, <1>8 DEF SiteSpecialized
<1>13. ModuleSpecialized(p, n, sch, w, copy, t)
    BY <1>6, <1>11 DEF ModuleSpecialized
<1>. QED
    BY <1>12, <1>13

LEMMA StepSpecializeSite == IInv /\ SpecializeSite => IInv'
<1> SUFFICES ASSUME IInv, SpecializeSite PROVE IInv'
    OBVIOUS
<1>d. PICK p, s, n, sch, w, copy, t :
          /\ p = order[cur] /\ s = body[p][todo] /\ n = s.callee /\ sch = Scheme(s)
          /\ w = Fill(made[n], sch) /\ copy = SpecializedName(n, sch) /\ t = CallOf(copy, s)
    OBVIOUS
<1> DEFINE new == copy \notin DOMAIN body
<1>0. NamesOK /\ SitesOK /\ TableOK /\ PassOK /\ CountOK
    BY DEF IInv, Structure
<1>1. /\ phase = "pass" /\ todo > 0 /\ Accepts(s) /\ todo' = todo - 1
      /\ copies' = IF Counts(s) THEN [copies EXCEPT ![n[1]] = @ + 1] ELSE copies
      /\ UNCHANGED <<policy, phase, cur>>
    BY <1>d DEF SpecializeSite, TheSite
<1>4. SiteSpecialized(p, s, n, sch, w, copy, t) /\ ModuleSpecialized(p, n, sch, w, copy, t)
    BY <1>0, <1>d, Specialized DEF Chosen
<1>2. cur \in DOMAIN order /\ p \in DOMAIN body /\ todo \in DOMAIN body[p] /\ copies \in [Functions -> Nat]
    BY <1>0, <1>1, <1>4 DEF PassOK, SiteSpecialized
<1>3. s \in Sites /\ n \in DOMAIN body /\ ParamsOf(n) \in 0..3 /\ ParamsOf(n) # 0
    BY <1>4 DEF SiteSpecialized
<1>5. sch \in [1..ParamsOf(n) -> Values]
    BY <1>4 DEF SiteSpecialized
<1>6. /\ order' = IF new THEN Append(order, copy) ELSE order
      /\ table' \subseteq table \cup {<<n, <<>>, n>>, <<n, sch, copy>>}
    BY <1>4 DEF ModuleSpecialized
<1>7. /\ w \in [1..Arity[n[1]] -> Values] /\ copy \in Names /\ IsCopy(copy)
      /\ copy = <<n[1], TextsOf(w)>>
      /\ ParamsOf(copy) = Cardinality(Open(sch)) /\ ParamsOf(copy) \in 0..3
      /\ copy \in DOMAIN body /\ TextsDiffer => made[copy] = w
    BY <1>4 DEF SiteSpecialized
<1>8. /\ t \in Sites /\ t.callee = copy /\ Len(t.args) = ParamsOf(copy)
      /\ \A j \in DOMAIN t.args : t.args[j] \in ArgsIn(ParamsOf(p))
      /\ Direct(s) /\ t.wants = s.wants
      /\ Means(p, s) => Fill(w, InOriginal(made[p], t.args)) = t.wants.args
    BY <1>4 DEF SiteSpecialized
<1>9. ASSUME NEW k \in DOMAIN body[n], NEW q, q = body[n][k], NEW r, r = CopyBody(n, sch)[k]
      PROVE  /\ r \in Sites /\ Len(r.args) = Len(q.args)
             /\ \A j \in DOMAIN r.args : r.args[j] \in ArgsIn(Cardinality(Open(sch)))
             /\ q.callee[1] \in Functions => r.callee = q.callee
             /\ q.callee[1] \notin Functions => r.callee[1] \in ArgsIn(Cardinality(Open(sch)))
             /\ (IsCopy(q.callee) <=> IsCopy(r.callee)) /\ r.wants.fun = q.wants.fun
             /\ Means(n, q) => /\ OriginalArg(w, r.callee[1]) = KnownArg(w, r.wants.fun)
                               /\ Fill(MadeFor(r), InOriginal(w, r.args)) = r.wants.args
    <2>1. SchemeFor(n, sch)
        BY <1>5 DEF SchemeFor
    <2>2. CopyFits(n, sch, body[n][k], CopyBody(n, sch)[k])
        BY <1>0, <1>3, <2>1, CopiedSite
    <2>. QED
        BY <1>d, <1>9, <2>2, ZenonT(60) DEF CopyFits
<1>10. CopyBody(n, sch) \in Seq(Sites) /\ DOMAIN CopyBody(n, sch) = DOMAIN body[n]
    <2>1. body[n] \in Seq(Sites) /\ Len(body[n]) \in Nat /\ DOMAIN body[n] = 1..Len(body[n])
        BY <1>0, <1>3 DEF SitesOK
    <2>2. DOMAIN CopyBody(n, sch) = DOMAIN body[n]
        BY DEF CopyBody
    <2>3. CopyBody(n, sch) = [k \in 1..Len(body[n]) |-> CopyBody(n, sch)[k]]
        BY <2>1 DEF CopyBody
    <2>4. \A k \in 1..Len(body[n]) : CopyBody(n, sch)[k] \in Sites
        BY <1>9, <2>1
    <2>. QED
        BY <2>1, <2>2, <2>3, <2>4
<1>11. /\ DOMAIN body' = (DOMAIN body) \cup {copy} /\ DOMAIN made' = (DOMAIN body) \cup {copy}
       /\ \A m \in DOMAIN body : made'[m] = made[m] /\ (m # p => body'[m] = body[m])
       /\ body'[p] \in Seq(Sites) /\ DOMAIN body'[p] = DOMAIN body[p] /\ Len(body'[p]) = Len(body[p])
       /\ \A j \in DOMAIN body[p] : body'[p][j] = IF j = todo THEN t ELSE body[p][j]
       /\ new => body'[copy] = CopyBody(n, sch) /\ made'[copy] = w
    BY <1>4 DEF ModuleSpecialized
<1>12. NamesOK'
    <2>1. IsFiniteSet(DOMAIN body')
        BY <1>0, <1>11, FS_AddElement DEF NamesOK
    <2>2. order' \in Seq(DOMAIN body') /\ Range(order') = DOMAIN body'
        <3>1. order \in Seq(DOMAIN body) /\ Range(order) = DOMAIN body
            BY <1>0 DEF NamesOK
        <3>2. CASE new
            <4>1. /\ Append(order, copy) \in Seq((DOMAIN body) \cup {copy})
                  /\ Range(Append(order, copy)) = Range(order) \cup {copy}
                BY <3>1, Appended
            <4>. QED
                BY <1>6, <1>11, <3>1, <3>2, <4>1
        <3>3. CASE ~new
            BY <1>6, <1>11, <3>1, <3>3
        <3>. QED
            BY <3>2, <3>3
    <2>3. \E f \in Exported : Original(f) \in DOMAIN body'
        BY <1>0, <1>11 DEF NamesOK
    <2>4. ASSUME NEW m \in DOMAIN body'
          PROVE  /\ m \in Names
                 /\ made'[m] \in [1..Arity[m[1]] -> Constants \cup {"?"}]
                 /\ IF IsCopy(m) THEN m[2] = TextsOf(made'[m]) ELSE made'[m] = Unknown(Arity[m[1]])
        <3>1. CASE m \in DOMAIN body
            BY <1>0, <1>11, <3>1 DEF NamesOK
        <3>2. CASE m \notin DOMAIN body
            <4>1. m = copy /\ new
                BY <1>11, <3>2
            <4>2. made'[m] = w /\ m[1] = n[1] /\ m[2] = TextsOf(w)
                BY <1>7, <1>11, <4>1
            <4>. QED
                BY <1>7, <4>1, <4>2 DEF Values
        <3>. QED
            BY <3>1, <3>2
    <2>5. DOMAIN made' = DOMAIN body'
        BY <1>11
    <2>. QED
        BY <2>1, <2>2, <2>3, <2>4, <2>5 DEF NamesOK
<1>u. \A q : Direct(q) => Direct(q)'
    BY <1>11 DEF Direct, InModule
<1>13. \A m, q : SiteFits(m, q) => SiteFits(m, q)'
    BY <1>u DEF SiteFits
<1>14. SiteFits(p, t)'
    <2>1. SiteFits(p, s) /\ copy[1] = s.callee[1]
        BY <1>0, <1>2, <1>7, <1>d DEF SitesOK
    <2>2. Direct(t)'
        BY <1>8, <1>11 DEF Direct, InModule
    <2>. QED
        BY <1>8, <2>1, <2>2 DEF SiteFits
<1>x. ASSUME NEW k \in DOMAIN body[n], NEW q, q = body[n][k], NEW r, r = CopyBody(n, sch)[k],
             Direct(q)
      PROVE  r.callee = q.callee /\ Direct(r) /\ Direct(r)'
    <2>1. q.callee[1] \in Functions
        BY <1>0, <1>x, DirectFacts DEF Names
    <2>2. r.callee = q.callee /\ Len(r.args) = Len(q.args)
        BY <1>9, <1>x, <2>1
    <2>. QED
        BY <1>u, <1>x, <2>2 DEF Direct
<1>15. ASSUME NEW k \in DOMAIN body[n], NEW r, r = CopyBody(n, sch)[k] PROVE SiteFits(copy, r)'
    <2> DEFINE q == body[n][k]
    <2>1. SiteFits(n, q)
        BY <1>0, <1>3 DEF SitesOK
    <2>2. /\ \A j \in DOMAIN r.args : r.args[j] \in ArgsIn(ParamsOf(copy))
          /\ q.callee[1] \in Functions => r.callee = q.callee
          /\ q.callee[1] \notin Functions => r.callee[1] \in ArgsIn(ParamsOf(copy))
          /\ (IsCopy(q.callee) <=> IsCopy(r.callee)) /\ r.wants.fun = q.wants.fun
        BY ONLY <1>7, <1>9, <1>15, SMTT(30)
    <2>3. Direct(q) => r.callee = q.callee /\ Direct(r)'
        BY <1>x, <1>15
    <2> HIDE DEF q
    <2>4. \A a \in ArgsIn(ParamsOf(n)) : a \in Functions => a \in ArgsIn(ParamsOf(copy))
        <3>1. ParamsOf(n) \in 0..3 /\ \A i \in 1..ParamsOf(n) : i \in 1..3
            BY <1>3
        <3>2. \A i \in 1..ParamsOf(n) : Params[i] \notin Functions
            BY <3>1, ParamNames
        <3>. QED
            BY <3>2, ConstantsAssumption DEF ArgsIn
    <2>5. q.wants.fun \notin Functions => r.callee[1] \in ArgsIn(ParamsOf(copy))
        BY <2>1, <2>2, <2>4 DEF SiteFits
    <2>6. /\ IF r.wants.fun \in Functions THEN r.callee[1] = r.wants.fun /\ Direct(r)'
             ELSE r.callee[1] \in ArgsIn(ParamsOf(copy))
          /\ IsCopy(r.callee) => Direct(r)'
        BY <2>1, <2>2, <2>3, <2>5 DEF SiteFits
    <2>. QED
        BY <2>2, <2>6 DEF SiteFits
<1>16. SitesOK'
    <2>1. ASSUME NEW m \in DOMAIN body'
          PROVE  body'[m] \in Seq(Sites)
                 /\ \A j \in DOMAIN body'[m] : \A q : q = body'[m][j] => SiteFits(m, q)'
        <3>1. CASE m = p
            <4>1. \A j \in DOMAIN body[p] : SiteFits(p, body[p][j])
                BY <1>0, <1>2 DEF SitesOK
            <4>. QED
                BY <1>11, <1>13, <1>14, <3>1, <4>1
        <3>2. CASE m \in DOMAIN body /\ m # p
            BY <1>0, <1>11, <1>13, <3>2 DEF SitesOK
        <3>3. CASE m \notin DOMAIN body
            <4>1. m = copy /\ body'[m] = CopyBody(n, sch)
                BY <1>11, <3>3
            <4>. QED
                BY <1>10, <1>15, <4>1
        <3>. QED
            BY <3>1, <3>2, <3>3
    <2>2. SitesOK' <=> \A m \in DOMAIN body' :
                           /\ body'[m] \in Seq(Sites)
                           /\ \A j \in DOMAIN body'[m] : \A q : q = body'[m][j] => SiteFits(m, q)'
        BY DEF SitesOK, SiteFits, Direct, InModule
    <2>. QED
        BY <2>1, <2>2
<1>17. ASSUME TextsDiffer, MeaningOK PROVE MeaningOK'
    <2>1. made'[copy] = w
        BY <1>7, <1>11, <1>17
    <2>2. ASSUME NEW m \in DOMAIN body, NEW j \in DOMAIN body[m], NEW q, q = body[m][j] PROVE Means(m, q)'
        <3>1. Means(m, q) /\ (IsCopy(q.callee) => q.callee \in DOMAIN body)
            BY <1>0, <1>17, <2>2 DEF MeaningOK, SitesOK, SiteFits, Direct, InModule
        <3>2. MadeFor(q)' = MadeFor(q) /\ made'[m] = made[m]
            BY <1>11, <3>1 DEF MadeFor
        <3>. QED
            BY <3>1, <3>2 DEF Means
    <2>3. Means(p, t)'
        <3>1. Means(p, s)
            BY <1>2, <1>17, <1>d DEF MeaningOK
        <3>2. MadeFor(t)' = w /\ made'[p] = made[p]
            BY <1>2, <1>7, <1>8, <1>11, <2>1 DEF MadeFor
        <3>3. t.callee[1] = s.callee[1] /\ t.wants.fun = s.wants.fun
            <4>1. copy[1] = n[1]
                BY <1>7, Zenon
            <4>2. t.callee = copy /\ t.wants = s.wants /\ n = s.callee
                BY <1>8, <1>d
            <4>. QED
                BY <4>1, <4>2
        <3>. QED
            BY <1>8, <3>1, <3>2, <3>3 DEF Means
    <2>4. ASSUME NEW k \in DOMAIN body[n], NEW r, r = CopyBody(n, sch)[k] PROVE Means(copy, r)'
        <3>1. Means(n, body[n][k]) /\ (IsCopy(body[n][k].callee) => Direct(body[n][k]))
            BY <1>0, <1>3, <1>17 DEF MeaningOK, SitesOK, SiteFits
        <3>2. /\ OriginalArg(w, r.callee[1]) = KnownArg(w, r.wants.fun)
              /\ Fill(MadeFor(r), InOriginal(w, r.args)) = r.wants.args
              /\ IsCopy(r.callee) => Direct(body[n][k])
            BY <1>9, <2>4, <3>1
        <3>3. IsCopy(r.callee) => r.callee \in DOMAIN body
            BY <1>x, <2>4, <3>2 DEF Direct, InModule
        <3>4. MadeFor(r)' = MadeFor(r)
            BY <1>11, <3>3 DEF MadeFor
        <3>. QED
            BY <2>1, <3>2, <3>4 DEF Means
    <2>5. ASSUME NEW m \in DOMAIN body', NEW j \in DOMAIN body'[m], NEW q, q = body'[m][j] PROVE Means(m, q)'
        <3>1. CASE m = p
            BY <1>2, <1>11, <2>2, <2>3, <2>5, <3>1
        <3>2. CASE m \in DOMAIN body /\ m # p
            BY <1>11, <2>2, <2>5, <3>2
        <3>3. CASE m \notin DOMAIN body
            <4>1. m = copy /\ body'[m] = CopyBody(n, sch)
                BY <1>11, <3>3
            <4>. QED
                BY <1>10, <2>4, <2>5, <4>1
        <3>. QED
            BY <3>1, <3>2, <3>3
    <2>6. MeaningOK' <=> \A m \in DOMAIN body' : \A j \in DOMAIN body'[m] : \A q : q = body'[m][j] => Means(m, q)'
        BY DEF MeaningOK, Means, MadeFor
    <2>. QED
        BY <2>5, <2>6
<1>18. TableOK'
    <2>1. ASSUME NEW e \in table' PROVE EntryOK(e)'
        <3>1. CASE e \in table
            BY <1>0, <1>11, <3>1 DEF TableOK, EntryOK
        <3>2. CASE e = <<n, <<>>, n>>
            BY <1>3, <1>11, <3>2 DEF EntryOK
        <3>3. CASE e = <<n, sch, copy>>
            BY <1>3, <1>11, <1>d, <3>3 DEF EntryOK
        <3>. QED
            BY <1>6, <3>1, <3>2, <3>3
    <2>. QED
        BY <1>1, <2>1 DEF TableOK
<1>19. copies' \in [Functions -> Nat] /\ \A f \in Functions : copies[f] \in Nat /\ copies[f] <= copies'[f]
    <2>1. CASE Counts(s)
        BY <1>1, <1>2, <2>1, CountedUp
    <2>2. CASE ~Counts(s)
        BY <1>1, <1>2, <2>2
    <2>. QED
        BY <2>1, <2>2
<1>20. PassOK'
    <2>1. cur \in DOMAIN order' /\ order'[cur] = p
        <3>1. order \in Seq(DOMAIN body)
            BY <1>0 DEF NamesOK
        <3>. QED
            BY <1>2, <1>6, <1>d, <3>1, Appended
    <2>2. todo - 1 \in 0..Len(body'[p])
        <3>1. todo \in 0..Len(body[p]) /\ todo > 0
            BY <1>0, <1>1, <1>d DEF PassOK
        <3>2. Len(body'[p]) = Len(body[p]) /\ body[p] \in Seq(Sites)
            BY <1>0, <1>2, <1>11 DEF SitesOK
        <3>3. Len(body[p]) \in Nat
            BY <3>2
        <3>. QED
            BY <3>1, <3>2, <3>3
    <2>. QED
        BY <1>0, <1>1, <1>19, <2>1, <2>2 DEF PassOK
<1>21. CountOK'
    <2> SUFFICES ASSUME policy = "bounded", NEW f \in Functions
                 PROVE  /\ Cardinality(CopiesOf(f)') <= Threshold
                        /\ Cardinality(CopiesOf(f)') <= copies'[f]
        BY <1>1 DEF CountOK
    <2>1. IsFiniteSet(CopiesOf(f)) /\ Cardinality(CopiesOf(f)) \in Nat
        BY <1>0, CopiesFinite DEF NamesOK
    <2>2. Cardinality(CopiesOf(f)) <= Threshold /\ Cardinality(CopiesOf(f)) <= copies[f]
        BY <1>0, <1>1 DEF CountOK
    <2>3. CASE f # n[1]
        <3>1. copy[1] = n[1]
            BY <1>7
        <3>2. CopiesOf(f)' = CopiesOf(f)
            BY <1>11, <2>3, <3>1 DEF CopiesOf
        <3>. QED
            BY <1>19, <2>1, <2>2, <3>2, ThresholdAssumption
    <2>4. CASE f = n[1]
        <3>1. Counts(s) /\ copies[f] < Threshold
            BY <1>1, <1>d, <2>4 DEF Accepts, NoCopies, Counts
        <3>2. copies'[f] = copies[f] + 1
            BY <1>1, <1>2, <2>4, <3>1, CountedUp
        <3>3. CopiesOf(f)' \subseteq CopiesOf(f) \cup {copy}
            BY <1>11 DEF CopiesOf
        <3>a. ASSUME NEW S, IsFiniteSet(S)
              PROVE  /\ IsFiniteSet(S \cup {copy}) /\ Cardinality(S) \in Nat
                     /\ Cardinality(S \cup {copy}) <= Cardinality(S) + 1
            BY <3>a, FS_AddElement, FS_CardinalityType
        <3>4. IsFiniteSet(CopiesOf(f) \cup {copy})
              /\ Cardinality(CopiesOf(f) \cup {copy}) \in Nat
              /\ Cardinality(CopiesOf(f) \cup {copy}) <= Cardinality(CopiesOf(f)) + 1
            BY <2>1, <3>a, FS_CardinalityType
        <3>5. Cardinality(CopiesOf(f)') \in Nat
              /\ Cardinality(CopiesOf(f)') <= Cardinality(CopiesOf(f) \cup {copy})
            BY <3>3, <3>4, FS_Subset, FS_CardinalityType
        <3>. QED
            BY <1>19, <2>1, <2>2, <3>1, <3>2, <3>4, <3>5, ThresholdAssumption
    <2>. QED
        BY <2>3, <2>4
<1>. QED
    BY <1>12, <1>16, <1>17, <1>18, <1>20, <1>21 DEF IInv, Structure

-----------------------------------------------------------------------------
(* The theorems.                                                              *)

LEMMA IInvStep == IInv /\ [Next]_vars => IInv'
<1> SUFFICES ASSUME IInv, [Next]_vars PROVE IInv'
    OBVIOUS
<1>1. CASE UNCHANGED vars
    <2>1. UNCHANGED <<policy, order, body, made, phase, cur, todo, table, copies>>
        BY <1>1 DEF vars
    <2>2. /\ NamesOK' <=> NamesOK
          /\ SitesOK' <=> SitesOK
          /\ MeaningOK' <=> MeaningOK
          /\ \A e : EntryOK(e)' <=> EntryOK(e)
          /\ \A f : CopiesOf(f)' = CopiesOf(f)
        BY <2>1, ModuleKept
    <2>3. TableOK' <=> TableOK
        BY <2>1, <2>2 DEF TableOK
    <2>4. PassOK' <=> PassOK
        BY <2>1 DEF PassOK
    <2>5. CountOK' <=> CountOK
        BY <2>1, <2>2 DEF CountOK
    <2>. QED
        BY <2>2, <2>3, <2>4, <2>5 DEF IInv, Structure
<1>. QED
    BY <1>1, StepStartPass, StepKeepSite, StepSpecializeSite, StepNextFunction, StepEndPass,
       StepFoldArgument, StepOptimize DEF Next

\* The names, the sites, the table and the worklist are always as the code
\* takes them to be, and the counter of the bounded policy counts every copy.
THEOREM Invariant == Spec => []IInv
<1>1. Init => IInv
    BY InitIInv
<1>2. IInv /\ [Next]_vars => IInv'
    BY IInvStep
<1>. QED
    BY <1>1, <1>2, PTL DEF Spec

\* If no two constants have one text, a call calls the function that it was
\* written for, with the arguments that it was written with, whatever the
\* policy, however often it, its callee and its caller were specialized.
THEOREM Meaning == TextsDiffer => (Spec => []CallsKeepMeaning)
<1> SUFFICES ASSUME TextsDiffer PROVE Spec => []CallsKeepMeaning
    OBVIOUS
<1>1. IInv => CallsKeepMeaning
    <2> SUFFICES ASSUME IInv PROVE CallsKeepMeaning
        OBVIOUS
    <2>1. NamesOK /\ SitesOK /\ MeaningOK
        BY DEF IInv, Structure
    <2>. QED
        BY <2>1 DEF CallsKeepMeaning, SitesOK, SiteFits, MeaningOK, Means
<1>2. Spec => []IInv
    BY Invariant
<1>. QED
    BY <1>1, <1>2, PTL

\* The bounded policy keeps its bound over all the passes of a peval.
THEOREM Bounded == Spec => []CopiesBounded
<1>1. IInv => CopiesBounded
    BY DEF IInv, Structure, CountOK, CopiesBounded
<1>2. Spec => []IInv
    BY Invariant
<1>. QED
    BY <1>1, <1>2, PTL

-----------------------------------------------------------------------------
(* Induction on the length of paths: a statement about numbers that is not    *)
(* always true has a least counterexample.                                    *)

LEMMA LessIsWellFounded ==
    \E R : IsWellFoundedOn(R, Nat) /\ \A i, j \in Nat : <<i, j>> \in R <=> i < j
<1> DEFINE R == OpToRel(<, Nat)
<1>1. IsWellFoundedOn(R, Nat)
    BY NatLessThanWellFounded
<1>2. R = {p \in Nat \X Nat : p[1] < p[2]}
    BY Zenon DEF OpToRel
<1> HIDE DEF R
<1>3. \A i, j \in Nat : <<i, j>> \in R <=> i < j
    BY <1>2
<1>. QED
    BY <1>1, <1>3

LEMMA Least ==
    ASSUME NEW T \in SUBSET Nat, T # {}
    PROVE  \E i \in T : \A j \in T : i <= j
<1>1. PICK R : IsWellFoundedOn(R, Nat) /\ \A i, j \in Nat : <<i, j>> \in R <=> i < j
    BY LessIsWellFounded
<1>2. T \subseteq Nat
    OBVIOUS
<1>3. PICK i \in T : \A j \in T : ~(<<j, i>> \in R)
    <2>1. IsWellFoundedOn(R, Nat)
        BY <1>1
    <2>. QED
        BY <1>2, <2>1, WFMin
<1>4. ASSUME NEW j \in T PROVE i <= j
    <2>1. i \in Nat /\ j \in Nat /\ ~(<<j, i>> \in R)
        BY <1>2, <1>3
    <2>2. ~(j < i)
        BY <1>1, <2>1
    <2>. QED
        BY <2>1, <2>2
<1>. QED
    BY <1>4

\* The numbers 1 .. m that a set misses have a least one, which is 1 or follows
\* a number that the set has.
LEMMA FirstMissing ==
    ASSUME NEW m \in Nat, NEW T, NEW i \in 1..m, i \notin T
    PROVE  \/ 1 \notin T
           \/ \E j \in 1..m : j + 1 \in 1..m /\ j \in T /\ j + 1 \notin T
<1> DEFINE Bad == {j \in Nat : j \in 1..m /\ j \notin T}
<1>1. Bad \in SUBSET Nat /\ i \in Bad
    OBVIOUS
<1>2. PICK j \in Bad : \A k \in Bad : j <= k
    <2> HIDE DEF Bad
    <2>. QED
        BY <1>1, Least
<1>3. CASE j = 1
    BY <1>3
<1>4. CASE j # 1
    <2>1. j - 1 \in 1..m /\ (j - 1) + 1 = j /\ j \in 1..m /\ j \notin T
        BY <1>4
    <2>2. j - 1 \in T
        <3>1. j - 1 \notin Bad
            BY <1>2, <2>1
        <3>. QED
            BY <2>1, <3>1
    <2>. QED
        BY <2>1, <2>2
<1>. QED
    BY <1>3, <1>4

\* A list is defined by its first element and a step from each to the next.
IsIteration(r, m, a, g) == r[1] = a /\ \A k \in 1..m : k # 1 => r[k] = g[r[k - 1]]

LEMMA Iteration ==
    ASSUME NEW m \in Nat \ {0}, NEW V, NEW a \in V, NEW g \in [V -> V]
    PROVE  \E r \in [1..m -> V] : IsIteration(r, m, a, g)
<1> DEFINE Lists(i) == {r \in [1..i -> V] : r[1] = a /\ \A k \in 1..i : k # 1 => r[k] = g[r[k - 1]]}
           T == {i \in 1..m : Lists(i) # {}}
<1>1. 1 \in T
    <2>1. [k \in 1..1 |-> a] \in Lists(1)
        OBVIOUS
    <2>. QED
        BY <2>1
<1>2. ASSUME NEW i \in 1..m, i + 1 \in 1..m, i \in T
      PROVE  i + 1 \in T
    <2>1. PICK r \in [1..i -> V] : r[1] = a /\ \A k \in 1..i : k # 1 => r[k] = g[r[k - 1]]
        BY <1>2
    <2> DEFINE q == [k \in 1..(i + 1) |-> IF k = i + 1 THEN g[r[i]] ELSE r[k]]
    <2>2. q \in [1..(i + 1) -> V]
        BY <2>1
    <2>3. q[1] = a
        BY <2>1
    <2>4. ASSUME NEW k \in 1..(i + 1), k # 1
          PROVE  q[k] = g[q[k - 1]]
        BY <2>1, <2>4
    <2>5. q \in Lists(i + 1)
        BY <2>2, <2>3, <2>4
    <2>. QED
        BY <1>2, <2>5
<1>3. m \in T
    <2> HIDE DEF T
    <2>1. m \in 1..m
        OBVIOUS
    <2>. QED
        BY <1>1, <1>2, <2>1, FirstMissing
<1>. QED
    BY <1>3 DEF IsIteration

-----------------------------------------------------------------------------
(* What a function reaches by calls.                                          *)

LEMMA CalleesType ==
    ASSUME NEW S
    PROVE  Callees(S) \in SUBSET DOMAIN body
<1>1. \A n \in S : \A k \in DirectSites(n) : body[n][k].callee \in DOMAIN body
    BY DEF DirectSites, Direct, InModule
<1>. QED
    BY <1>1 DEF Callees

LEMMA CalleesGrow ==
    ASSUME NEW S, NEW T, S \subseteq T
    PROVE  Callees(S) \subseteq Callees(T)
BY DEF Callees

\* The sets that the recursion behind ReachableFrom goes through.
PathsFrom(n, r) ==
    /\ r[1] = Callees({n})
    /\ \A k \in 1..Len(order) : k # 1 => r[k] = r[k - 1] \cup Callees(r[k - 1])

LEMMA ReachSteps ==
    ASSUME NamesOK, SitesOK, NEW n \in DOMAIN body, Len(order) \in Nat \ {0}
    PROVE  \E r : PathsFrom(n, r) /\ ReachableFrom(n) = r[Len(order)]
<1> DEFINE m == Len(order)
           V == SUBSET DOMAIN body
           g == [S \in V |-> S \cup Callees(S)]
           Body(r) == [k \in 1..m |-> IF k = 1 THEN Callees({n})
                                      ELSE r[k - 1] \cup Callees(r[k - 1])]
           R == CHOOSE r : r = Body(r)
<1>1. Callees({n}) \in V /\ g \in [V -> V]
    BY CalleesType
<1>2. PICK q \in [1..m -> V] : q[1] = Callees({n}) /\ \A k \in 1..m : k # 1 => q[k] = g[q[k - 1]]
    <2> DEFINE a == Callees({n})
    <2>1. a \in V /\ g \in [V -> V] /\ m \in Nat \ {0}
        BY <1>1
    <2> HIDE DEF V, g, m, a
    <2>2. \E q \in [1..m -> V] : IsIteration(q, m, a, g)
        BY <2>1, Iteration
    <2>. QED
        BY <2>2 DEF a, IsIteration
<1>3. \A k \in 1..m : q[k] = IF k = 1 THEN Callees({n}) ELSE q[k - 1] \cup Callees(q[k - 1])
    <2> TAKE k \in 1..m
    <2>1. CASE k # 1
        <3>1. k - 1 \in 1..m
            BY <2>1
        <3>2. q[k - 1] \in V
            BY <1>2, <3>1
        <3>. QED
            BY <1>2, <2>1, <3>2
    <2>. QED
        BY <1>2, <2>1
<1>4. q = Body(q)
    <2>1. q = [k \in 1..m |-> q[k]]
        BY <1>2
    <2>. QED
        BY <1>3, <2>1, Zenon
<1>5. R = Body(R)
    BY <1>4
<1>6. ReachableFrom(n) = R[m]
    BY DEF ReachableFrom
<1>7. PathsFrom(n, R)
    <2> HIDE DEF R
    <2>1. \A k \in 1..m : R[k] = IF k = 1 THEN Callees({n}) ELSE R[k - 1] \cup Callees(R[k - 1])
        BY <1>5
    <2>2. 1 \in 1..m
        OBVIOUS
    <2>. QED
        BY <2>1, <2>2 DEF PathsFrom
<1>. QED
    BY <1>6, <1>7

\* What is reached is in every set that holds the callees and is closed.
LEMMA ReachSound ==
    ASSUME NamesOK, SitesOK, NEW n \in DOMAIN body, Len(order) \in Nat \ {0},
           NEW U, Callees({n}) \subseteq U, Callees(U) \subseteq U
    PROVE  ReachableFrom(n) \subseteq U
<1>1. PICK r : PathsFrom(n, r) /\ ReachableFrom(n) = r[Len(order)]
    BY ReachSteps
<1> DEFINE m == Len(order)
           T == {k \in 1..m : r[k] \subseteq U}
<1>2. 1 \in T
    BY <1>1 DEF PathsFrom
<1>3. ASSUME NEW k \in 1..m, k + 1 \in 1..m, k \in T
      PROVE  k + 1 \in T
    <2>1. k + 1 # 1 /\ (k + 1) - 1 = k
        OBVIOUS
    <2>2. r[k + 1] = r[k] \cup Callees(r[k])
        BY <1>1, <1>3, <2>1 DEF PathsFrom
    <2>3. Callees(r[k]) \subseteq Callees(U)
        BY <1>3, CalleesGrow
    <2>. QED
        BY <1>3, <2>2, <2>3
<1>4. m \in T
    <2> HIDE DEF T
    <2>1. m \in 1..m
        OBVIOUS
    <2>. QED
        BY <1>2, <1>3, <2>1, FirstMissing
<1>. QED
    BY <1>1, <1>4

\* As many rounds as the module has functions reach everything: a round that
\* is not the last that adds something adds a function.
LEMMA ReachClosed ==
    ASSUME NamesOK, SitesOK, NEW n \in DOMAIN body, Len(order) \in Nat \ {0}
    PROVE  /\ Callees({n}) \subseteq ReachableFrom(n)
           /\ Callees(ReachableFrom(n)) \subseteq ReachableFrom(n)
<1>1. PICK r : PathsFrom(n, r) /\ ReachableFrom(n) = r[Len(order)]
    BY ReachSteps
<1> DEFINE m == Len(order)
           D == DOMAIN body
           T == {k \in 1..m : /\ r[k] \in SUBSET D
                              /\ Callees({n}) \subseteq r[k]
                              /\ Callees(r[k]) \subseteq r[k] \/ k <= Cardinality(r[k])}
<1>2. IsFiniteSet(D)
    BY DEF NamesOK
<1>3. \A S \in SUBSET D : IsFiniteSet(S) /\ Cardinality(S) \in Nat
    BY <1>2, FS_Subset, FS_CardinalityType
<1>4. 1 \in T
    <2>1. r[1] = Callees({n}) /\ r[1] \in SUBSET D
        BY <1>1, CalleesType DEF PathsFrom
    <2>2. CASE r[1] = {}
        BY <2>1, <2>2 DEF Callees
    <2>3. CASE r[1] # {}
        <3>1. Cardinality(r[1]) # 0 /\ Cardinality(r[1]) \in Nat
            BY <1>3, <2>1, <2>3, FS_EmptySet
        <3>2. 1 <= Cardinality(r[1]) /\ 1 \in 1..m
            BY <3>1
        <3>3. Callees({n}) \subseteq r[1]
            BY <2>1
        <3>. QED
            BY <2>1, <3>2, <3>3
    <2>. QED
        BY <2>2, <2>3
<1>5. ASSUME NEW k \in 1..m, k + 1 \in 1..m, k \in T
      PROVE  k + 1 \in T
    <2> DEFINE S == r[k]
               S2 == r[k + 1]
    <2>1. k + 1 # 1 /\ (k + 1) - 1 = k
        OBVIOUS
    <2>2. S2 = S \cup Callees(S)
        BY <1>1, <1>5, <2>1 DEF PathsFrom
    <2>3. S \in SUBSET D /\ Callees({n}) \subseteq S /\ (Callees(S) \subseteq S \/ k <= Cardinality(S))
        BY <1>5
    <2> HIDE DEF S, S2
    <2>4. S2 \in SUBSET D /\ Callees({n}) \subseteq S2
        BY <2>2, <2>3, CalleesType
    <2>5. Callees(S2) \subseteq S2 \/ k + 1 <= Cardinality(S2)
        <3>1. CASE Callees(S) \subseteq S
            <4>1. S2 = S
                BY <2>2, <3>1
            <4>. QED
                BY <3>1, <4>1
        <3>2. CASE ~(Callees(S) \subseteq S)
            <4>1. PICK x \in S2 : x \notin S
                BY <2>2, <3>2
            <4>2. S \cup {x} \in SUBSET D /\ S \cup {x} \subseteq S2
                BY <2>2, <2>3, <2>4, <4>1
            <4>3. Cardinality(S \cup {x}) = Cardinality(S) + 1
                BY <1>3, <2>3, <4>1, FS_AddElement
            <4>4. Cardinality(S \cup {x}) <= Cardinality(S2)
                BY <1>3, <2>4, <4>2, FS_Subset
            <4>5. Cardinality(S) \in Nat /\ Cardinality(S2) \in Nat /\ k <= Cardinality(S)
                BY <1>3, <2>3, <2>4, <3>2
            <4>. QED
                BY <4>3, <4>4, <4>5
        <3>. QED
            BY <3>1, <3>2
    <2>. QED
        BY <1>5, <2>4, <2>5 DEF S2
<1>6. m \in T
    <2> HIDE DEF T
    <2>1. m \in 1..m
        OBVIOUS
    <2>. QED
        BY <1>4, <1>5, <2>1, FirstMissing
<1>7. Cardinality(D) <= m
    <2>1. order \in [1..m -> D] /\ Range(order) = D
        BY DEF NamesOK
    <2>2. order \in Surjection(1..m, D)
        BY <2>1 DEF Surjection, Range
    <2>3. IsFiniteSet(1..m) /\ Cardinality(1..m) = m
        BY FS_Interval
    <2>. QED
        BY <2>2, <2>3, FS_Surjection
<1>8. CASE Callees(r[m]) \subseteq r[m]
    BY <1>1, <1>6, <1>8
<1>9. CASE ~(Callees(r[m]) \subseteq r[m])
    <2>1. r[m] \in SUBSET D /\ m <= Cardinality(r[m])
        BY <1>6, <1>9
    <2>2. Cardinality(r[m]) <= Cardinality(D) /\ Cardinality(r[m]) \in Nat /\ Cardinality(D) \in Nat
        BY <1>2, <1>3, <2>1, FS_Subset
    <2>3. Cardinality(r[m]) = Cardinality(D)
        BY <1>7, <2>1, <2>2
    <2>4. r[m] = D
        BY <1>2, <2>1, <2>3, FS_Subset
    <2>. QED
        BY <1>9, <2>4, CalleesType
<1>. QED
    BY <1>8, <1>9

-----------------------------------------------------------------------------
(* Recursion. A function and its copies make calls that were written as the   *)
(* same; a cycle of calls that were written as direct ones stays one for as   *)
(* long as its functions are in the module, and no step makes a new one.      *)

\* Two functions have calls that were written as the same in the same places.
LikeBody(a, c) ==
    DOMAIN a = DOMAIN c /\ \A k \in DOMAIN a : a[k].wants.fun = c[k].wants.fun
BodiesAlike(b) == \A m, n \in DOMAIN b : m[1] = n[1] => LikeBody(b[m], b[n])

\* The functions of b2 are functions of b, or made from them.
Descends(b2, b) ==
    \A n \in DOMAIN b2 : \E m \in DOMAIN b : m[1] = n[1] /\ LikeBody(b2[n], b[m])

CyclesKnown ==
    \A f \in Functions : OnCycle(body, f) =>
        /\ CopiesOf(f) = {}
        /\ phase = "pass" /\ Original(f) \in DOMAIN body => Original(f) \in refused
CycleInv == BodiesAlike(body) /\ (policy = "nonrec-aggressive" => CyclesKnown)

LEMMA DescendsAlike ==
    ASSUME NEW b, NEW b2, Descends(b2, b), BodiesAlike(b)
    PROVE  BodiesAlike(b2)
<1> SUFFICES ASSUME NEW m \in DOMAIN b2, NEW n \in DOMAIN b2, m[1] = n[1]
             PROVE  LikeBody(b2[m], b2[n])
    BY DEF BodiesAlike
<1>1. PICK p \in DOMAIN b : p[1] = m[1] /\ LikeBody(b2[m], b[p])
    BY DEF Descends
<1>2. PICK q \in DOMAIN b : q[1] = n[1] /\ LikeBody(b2[n], b[q])
    BY DEF Descends
<1>3. LikeBody(b[p], b[q])
    BY <1>1, <1>2 DEF BodiesAlike
<1>. QED
    BY <1>1, <1>2, <1>3 DEF LikeBody

LEMMA DescendsCycles ==
    ASSUME NEW b, NEW b2, Descends(b2, b), NEW f \in Functions, OnCycle(b2, f)
    PROVE  OnCycle(b, f)
<1>1. ASSUME NEW g, NEW h, Leads(b2, g, h)
      PROVE  Leads(b, g, h)
    <2>1. PICK n \in DOMAIN b2 : n[1] = g /\ \E k \in DOMAIN b2[n] : b2[n][k].wants.fun = h
        BY <1>1 DEF Leads
    <2>2. PICK k \in DOMAIN b2[n] : b2[n][k].wants.fun = h
        BY <2>1
    <2>3. PICK m \in DOMAIN b : m[1] = n[1] /\ LikeBody(b2[n], b[m])
        BY DEF Descends
    <2>4. k \in DOMAIN b[m] /\ b[m][k].wants.fun = h
        BY <2>2, <2>3 DEF LikeBody
    <2>. QED
        BY <2>1, <2>3, <2>4 DEF Leads
<1>. QED
    BY <1>1 DEF OnCycle, ClosedAfter

\* A function that is on a cycle and was not copied is found by the guard.
LEMMA OnCycleRecursive ==
    ASSUME NamesOK, SitesOK, Len(order) \in Nat \ {0}, BodiesAlike(body),
           NEW f \in Functions, OnCycle(body, f), CopiesOf(f) = {}, Original(f) \in DOMAIN body
    PROVE  Original(f) \in Recursive
<1> DEFINE n == Original(f)
           S == ReachableFrom(n)
           T == {m[1] : m \in S}
<1>1. n \in DOMAIN body /\ n[1] = f
    BY DEF Original
<1>2. Callees({n}) \subseteq S /\ Callees(S) \subseteq S
    BY <1>1, ReachClosed
<1>d. \A m \in DOMAIN body : \A k \in DOMAIN body[m] : body[m][k].wants.fun \in Functions =>
          k \in DirectSites(m) /\ body[m][k].callee[1] = body[m][k].wants.fun
    BY DEF SitesOK, SiteFits, DirectSites
<1>3. S \subseteq DOMAIN body
    <2>1. Callees({n}) \subseteq DOMAIN body /\ Callees(DOMAIN body) \subseteq DOMAIN body
        BY <1>1, CalleesType
    <2>. QED
        BY <1>1, <2>1, ReachSound
<1> HIDE DEF S, n
<1>4. T \in SUBSET Functions
    BY <1>3 DEF NamesOK, Names
<1>5. ASSUME NEW m \in DOMAIN body, NEW h, Leads(body, m[1], h)
      PROVE  \E k \in DOMAIN body[m] : body[m][k].wants.fun = h
    <2>1. PICK q \in DOMAIN body : q[1] = m[1] /\ \E k \in DOMAIN body[q] : body[q][k].wants.fun = h
        BY <1>5 DEF Leads
    <2>. QED
        BY <1>5, <2>1 DEF BodiesAlike, LikeBody
<1>6. \A g \in Functions : Leads(body, f, g) => g \in T
    <2> SUFFICES ASSUME NEW g \in Functions, Leads(body, f, g)
                 PROVE  g \in T
        OBVIOUS
    <2>1. PICK k \in DOMAIN body[n] : body[n][k].wants.fun = g
        BY <1>1, <1>5
    <2>2. body[n][k].callee \in S /\ body[n][k].callee[1] = g
        BY <1>1, <1>2, <1>d, <2>1 DEF Callees
    <2>. QED
        BY <2>2
<1>7. \A g \in T : \A h \in Functions : Leads(body, g, h) => h \in T
    <2> SUFFICES ASSUME NEW m \in S, NEW h \in Functions, Leads(body, m[1], h)
                 PROVE  h \in T
        OBVIOUS
    <2>1. PICK k \in DOMAIN body[m] : body[m][k].wants.fun = h
        BY <1>3, <1>5
    <2>2. body[m][k].callee \in S /\ body[m][k].callee[1] = h
        BY <1>2, <1>3, <1>d, <2>1 DEF Callees
    <2>. QED
        BY <2>2
<1>8. f \in T
    BY <1>4, <1>6, <1>7 DEF OnCycle, ClosedAfter
<1>9. PICK m \in S : m[1] = f
    BY <1>8
<1>10. m[2] = <<>> /\ m \in Names
    BY <1>3, <1>9 DEF CopiesOf, IsCopy, NamesOK
<1>11. m = <<f, <<>>>>
    BY <1>9, <1>10 DEF Names
<1>12. n \in S
    BY <1>9, <1>11 DEF n, Original
<1>. QED
    BY <1>1, <1>12 DEF Recursive, S, n

\* A step that makes functions only from those that there are, copies no
\* function of a cycle and keeps what the guard refuses, keeps CycleInv.
LEMMA CyclesStay ==
    ASSUME CycleInv, Descends(body', body), policy' = policy,
           policy = "nonrec-aggressive" =>
               \A f \in Functions : OnCycle(body, f) /\ CopiesOf(f) = {} /\ OnCycle(body, f)'
                   => CopiesOf(f)' = {},
           policy = "nonrec-aggressive" /\ phase' = "pass" =>
               \A f \in Functions : OnCycle(body, f) /\ OnCycle(body, f)'
                                        /\ Original(f) \in DOMAIN body'
                                    => Original(f) \in refused'
    PROVE  CycleInv'
<1>1. BodiesAlike(body)'
    BY DescendsAlike DEF CycleInv
<1>2. \A f \in Functions : OnCycle(body, f)' => OnCycle(body, f)
    BY DescendsCycles
<1>3. CASE policy = "nonrec-aggressive"
    <2>1. CyclesKnown
        BY <1>3 DEF CycleInv
    <2>2. ASSUME NEW f \in Functions, OnCycle(body, f)'
          PROVE  /\ CopiesOf(f)' = {}
                 /\ phase' = "pass" /\ Original(f) \in DOMAIN body' => Original(f) \in refused'
        <3>1. OnCycle(body, f) /\ CopiesOf(f) = {}
            BY <1>2, <2>1, <2>2 DEF CyclesKnown
        <3>. QED
            BY <1>3, <2>2, <3>1
    <2>3. CyclesKnown'
        BY <2>2 DEF CyclesKnown
    <2>. QED
        BY <1>1, <2>3 DEF CycleInv
<1>. QED
    BY <1>1, <1>3 DEF CycleInv

LEMMA FoldDescends ==
    ASSUME NamesOK, SitesOK, FoldArgument
    PROVE  Descends(body', body) /\ DOMAIN body' = DOMAIN body
<1>0. SitesOK
    OBVIOUS
<1>1. PICK n \in DOMAIN body : \E k \in DOMAIN body[n] : \E i \in DOMAIN body[n][k].args, c \in Constants :
          body' = [body EXCEPT ![n][k] = Folded(@, i, c)]
    BY DEF FoldArgument
<1>2. PICK k \in DOMAIN body[n] : \E i \in DOMAIN body[n][k].args, c \in Constants :
          body' = [body EXCEPT ![n][k] = Folded(@, i, c)]
    BY <1>1
<1>3. PICK i \in DOMAIN body[n][k].args, c \in Constants :
          body' = [body EXCEPT ![n][k] = Folded(@, i, c)]
    BY <1>2
<1> DEFINE t == Folded(body[n][k], i, c)
<1>4. t \in Sites /\ t.wants.fun = body[n][k].wants.fun
    <2>1. t \in Sites
        BY <1>0, FoldedSite
    <2>2. body[n][k] \in Sites
        BY <1>0 DEF SitesOK
    <2>. QED
        BY <2>1, <2>2 DEF Folded, Sites, Wants
<1>5. body' = [body EXCEPT ![n][k] = t] /\ body[n] \in Seq(Sites)
    BY <1>0, <1>3 DEF SitesOK
<1> HIDE DEF t
<1>6. /\ DOMAIN body' = DOMAIN body
      /\ \A m \in DOMAIN body : m # n => body'[m] = body[m]
      /\ DOMAIN body'[n] = DOMAIN body[n]
      /\ \A j \in DOMAIN body[n] : body'[n][j] = IF j = k THEN t ELSE body[n][j]
    BY <1>4, <1>5, SiteChanged
<1>7. \A m \in DOMAIN body : LikeBody(body'[m], body[m])
    BY <1>4, <1>6 DEF LikeBody
<1>. QED
    BY <1>6, <1>7 DEF Descends

LEMMA OptimizeDescends ==
    ASSUME Optimize
    PROVE  Descends(body', body) /\ DOMAIN body' \subseteq DOMAIN body
<1>1. PICK S \in Live : body' = [n \in S |-> body[n]]
    BY DEF Optimize
<1>2. S \subseteq DOMAIN body
    BY DEF Live, Closed
<1>3. DOMAIN body' = S /\ \A n \in S : body'[n] = body[n] /\ n \in DOMAIN body
    BY <1>1, <1>2
<1>. QED
    BY <1>3 DEF Descends, LikeBody

\* The step adds at most a copy of n, which the policy lets it copy.
CopyAdded(n, copy) ==
    /\ n \in DOMAIN body /\ n \notin refused /\ n[1] \notin Exported
    /\ policy = "onlyonce" => ~IsCopy(n)
    /\ IsCopy(copy) /\ copy[1] = n[1]
    /\ DOMAIN body' = (DOMAIN body) \cup {copy}

LEMMA CopyDescends ==
    ASSUME IInv, SpecializeSite
    PROVE  Descends(body', body) /\ \E n, copy : CopyAdded(n, copy)
<1>d. PICK p, s, n, sch, w, copy, t :
          /\ p = order[cur] /\ s = body[p][todo] /\ n = s.callee /\ sch = Scheme(s)
          /\ w = Fill(made[n], sch) /\ copy = SpecializedName(n, sch) /\ t = CallOf(copy, s)
    OBVIOUS
<1>0. NamesOK /\ SitesOK /\ TableOK /\ PassOK
    BY DEF IInv, Structure
<1>1. SiteSpecialized(p, s, n, sch, w, copy, t) /\ ModuleSpecialized(p, n, sch, w, copy, t)
    BY <1>0, <1>d, Specialized DEF Chosen
<1>2. n \notin refused /\ n[1] \notin Exported /\ (policy = "onlyonce" => ~IsCopy(n))
    BY <1>d DEF SpecializeSite, TheSite, Accepts, Asks, NoCopies
<1>3. /\ p \in DOMAIN body /\ n \in DOMAIN body /\ sch \in [1..ParamsOf(n) -> Values]
      /\ IsCopy(copy) /\ copy[1] = n[1] /\ t.wants = s.wants
    BY <1>1 DEF SiteSpecialized
<1>4. /\ DOMAIN body' = (DOMAIN body) \cup {copy}
      /\ \A m \in DOMAIN body : m # p => body'[m] = body[m]
      /\ DOMAIN body'[p] = DOMAIN body[p]
      /\ \A j \in DOMAIN body[p] : body'[p][j] = IF j = todo THEN t ELSE body[p][j]
      /\ copy \notin DOMAIN body => body'[copy] = CopyBody(n, sch)
    BY <1>1 DEF ModuleSpecialized
<1>5. Descends(body', body)
    <2>1. ASSUME NEW m \in DOMAIN body
          PROVE  LikeBody(body'[m], body[m])
        <3>1. CASE m # p
            BY <1>4, <3>1 DEF LikeBody
        <3>2. CASE m = p
            <4>1. ASSUME NEW j \in DOMAIN body[p]
                  PROVE  body'[p][j].wants.fun = body[p][j].wants.fun
                BY <1>3, <1>4, <1>d
            <4>. QED
                BY <1>4, <3>2, <4>1 DEF LikeBody
        <3>. QED
            BY <3>1, <3>2
    <2>2. ASSUME copy \notin DOMAIN body
          PROVE  LikeBody(body'[copy], body[n])
        <3>1. body'[copy] = CopyBody(n, sch) /\ DOMAIN CopyBody(n, sch) = DOMAIN body[n]
            BY <1>4, <2>2 DEF CopyBody
        <3>2. ASSUME NEW k \in DOMAIN body[n]
              PROVE  CopyBody(n, sch)[k].wants.fun = body[n][k].wants.fun
            <4>1. SchemeFor(n, sch)
                BY <1>3 DEF SchemeFor
            <4>2. CopyFits(n, sch, body[n][k], CopyBody(n, sch)[k])
                BY <1>0, <1>3, <4>1, CopiedSite
            <4>. QED
                BY <4>2 DEF CopyFits
        <3>. QED
            BY <3>1, <3>2 DEF LikeBody
    <2>3. ASSUME NEW m \in DOMAIN body'
          PROVE  \E q \in DOMAIN body : q[1] = m[1] /\ LikeBody(body'[m], body[q])
        BY <1>3, <1>4, <2>1, <2>2
    <2>. QED
        BY <2>3 DEF Descends
<1>6. CopyAdded(n, copy)
    BY <1>2, <1>3, <1>4 DEF CopyAdded
<1>. QED
    BY <1>5, <1>6

LEMMA CopyKeepsCycles ==
    ASSUME IInv, CycleInv, SpecializeSite
    PROVE  CycleInv'
<1>0. NamesOK
    BY DEF IInv, Structure
<1>1. Descends(body', body) /\ \E n, copy : CopyAdded(n, copy)
    BY CopyDescends
<1>2. PICK n, copy : CopyAdded(n, copy)
    BY <1>1
<1>3. /\ n \in DOMAIN body /\ n \notin refused /\ IsCopy(copy) /\ copy[1] = n[1]
      /\ DOMAIN body' = (DOMAIN body) \cup {copy}
    BY <1>2 DEF CopyAdded
<1>4. phase = "pass" /\ UNCHANGED <<policy, phase, refused>>
    BY DEF SpecializeSite
<1>5. ASSUME policy = "nonrec-aggressive", NEW f \in Functions, OnCycle(body, f), CopiesOf(f) = {}
      PROVE  CopiesOf(f)' = {} /\ (Original(f) \in DOMAIN body' => Original(f) \in refused')
    <2>1. Original(f) \in DOMAIN body => Original(f) \in refused
        BY <1>4, <1>5 DEF CycleInv, CyclesKnown
    <2>2. copy[1] # f
        <3>1. SUFFICES ASSUME n[1] = f PROVE FALSE
            BY <1>3
        <3>2. n[2] = <<>> /\ n \in Names
            BY <1>0, <1>3, <1>5, <3>1 DEF CopiesOf, IsCopy, NamesOK
        <3>3. n = Original(f)
            BY <3>1, <3>2 DEF Names, Original
        <3>. QED
            BY <1>3, <2>1, <3>3
    <2>3. CopiesOf(f)' = {}
        BY <1>3, <1>5, <2>2 DEF CopiesOf
    <2>4. Original(f) # copy
        BY <1>3 DEF Original, IsCopy
    <2>. QED
        BY <1>3, <1>4, <2>1, <2>3, <2>4
<1>6. policy = "nonrec-aggressive" =>
        \A f \in Functions : OnCycle(body, f) /\ CopiesOf(f) = {} /\ OnCycle(body, f)'
            => CopiesOf(f)' = {}
    BY <1>5
<1>7. policy = "nonrec-aggressive" /\ phase' = "pass" =>
        \A f \in Functions : OnCycle(body, f) /\ OnCycle(body, f)' /\ Original(f) \in DOMAIN body'
            => Original(f) \in refused'
    BY <1>5 DEF CycleInv, CyclesKnown
<1>. QED
    BY <1>1, <1>4, <1>6, <1>7, CyclesStay

\* Every action keeps CycleInv.
LEMMA CycleStep == IInv /\ CycleInv /\ [Next]_vars => CycleInv'
<1> SUFFICES ASSUME IInv, CycleInv, [Next]_vars
             PROVE  CycleInv'
    OBVIOUS
<1>0. NamesOK /\ SitesOK /\ Len(order) \in Nat \ {0}
    BY OrderFacts DEF IInv, Structure
<1>1. ASSUME body' = body
      PROVE  /\ Descends(body', body)
             /\ \A f : CopiesOf(f)' = CopiesOf(f)
             /\ \A f : OnCycle(body, f)' <=> OnCycle(body, f)
    BY <1>1 DEF Descends, LikeBody, CopiesOf
<1>2. CASE StartPass
    <2>1. body' = body /\ policy' = policy /\ refused' = RefusedAtStart
        BY <1>2 DEF StartPass
    <2>2. ASSUME policy = "nonrec-aggressive", NEW f \in Functions, OnCycle(body, f),
                 Original(f) \in DOMAIN body
          PROVE  Original(f) \in refused'
        <3>1. CopiesOf(f) = {} /\ BodiesAlike(body)
            BY <2>2 DEF CycleInv, CyclesKnown
        <3>2. Original(f) \in Recursive
            BY <1>0, <2>2, <3>1, OnCycleRecursive
        <3>. QED
            BY <2>1, <2>2, <3>2 DEF RefusedAtStart
    <2>3. policy = "nonrec-aggressive" => \A f \in Functions :
                OnCycle(body, f) /\ Original(f) \in DOMAIN body => Original(f) \in refused'
        BY <2>2
    <2>. QED
        BY <1>1, <2>1, <2>3, CyclesStay
<1>3. CASE KeepSite \/ NextFunction \/ EndPass \/ UNCHANGED vars
    <2>1. body' = body /\ policy' = policy /\ refused' = refused /\ (phase' = "pass" => phase = "pass")
        BY <1>3 DEF KeepSite, NextFunction, EndPass, vars
    <2>2. policy = "nonrec-aggressive" /\ phase' = "pass" => \A f \in Functions :
                OnCycle(body, f) /\ Original(f) \in DOMAIN body => Original(f) \in refused
        BY <2>1 DEF CycleInv, CyclesKnown
    <2>. QED
        BY <1>1, <2>1, <2>2, CyclesStay
<1>4. CASE SpecializeSite
    BY <1>4, CopyKeepsCycles
<1>5. CASE FoldArgument \/ Optimize
    <2>1. Descends(body', body) /\ DOMAIN body' \subseteq DOMAIN body
        BY <1>0, <1>5, FoldDescends, OptimizeDescends
    <2>2. \A f : CopiesOf(f)' \subseteq CopiesOf(f)
        BY <2>1 DEF CopiesOf
    <2>3. policy' = policy /\ phase' # "pass"
        BY <1>5 DEF FoldArgument, Optimize
    <2>. QED
        BY <2>1, <2>2, <2>3, CyclesStay
<1>. QED
    BY <1>2, <1>3, <1>4, <1>5 DEF Next

\* Under nonrec-aggressive no function is copied that is on a cycle of calls
\* written as direct ones, by functions or in their copies: the guard looks for
\* cycles when a pass starts, and the copies that are made later, in this pass or
\* in another, close none.  Of calls written through a parameter this is not true.
THEOREM NoRecursiveCopies == Spec => []RecursionNotCopied
<1>1. Init => CycleInv
    <2> SUFFICES ASSUME Init
                 PROVE  CycleInv
        OBVIOUS
    <2>1. PICK p \in Programs : body = p.body
        BY DEF Init
    <2>2. \A n \in DOMAIN body : n[2] = <<>> /\ n = <<n[1], <<>>>>
        BY <2>1, ProgramsAssumption DEF Original
    <2>3. BodiesAlike(body)
        BY <2>2 DEF BodiesAlike, LikeBody
    <2>4. \A f : CopiesOf(f) = {}
        BY <2>2 DEF CopiesOf, IsCopy
    <2>5. phase # "pass"
        BY DEF Init
    <2>. QED
        BY <2>3, <2>4, <2>5 DEF CycleInv, CyclesKnown
<1>2. IInv /\ CycleInv /\ [Next]_vars => CycleInv'
    BY CycleStep
<1>3. CycleInv => RecursionNotCopied
    BY DEF CycleInv, CyclesKnown, RecursionNotCopied
<1>4. Spec => []IInv
    BY Invariant
<1>. QED
    BY <1>1, <1>2, <1>3, <1>4, PTL DEF Spec

-----------------------------------------------------------------------------
(* Once. Under onlyonce all calls that were written as calls of a function    *)
(* that has copies are made in one place of one function, if copies are taken *)
(* for their originals; what the exported functions reach then has one        *)
(* version of each function that is not called by pointer.                    *)

SiteUnique(b, f) ==
    \A m, n \in DOMAIN b : \A i \in DOMAIN b[m], j \in DOMAIN b[n] :
        b[m][i].wants.fun = f /\ b[n][j].wants.fun = f => m[1] = n[1] /\ i = j

\* The functions that were copied, and those that the pass may still copy.
MayBeCopied(f) ==
    CopiesOf(f) # {} \/ (phase = "pass" /\ Original(f) \in DOMAIN body \ refused)
OnceInv ==
    /\ \A f \in Exported : CopiesOf(f) = {}
    /\ policy = "onlyonce" => \A f \in Functions : MayBeCopied(f) => SiteUnique(body, f)

LEMMA DescendsUnique ==
    ASSUME NEW b, NEW b2, Descends(b2, b), NEW f, SiteUnique(b, f)
    PROVE  SiteUnique(b2, f)
<1> SUFFICES ASSUME NEW m \in DOMAIN b2, NEW n \in DOMAIN b2,
                    NEW i \in DOMAIN b2[m], NEW j \in DOMAIN b2[n],
                    b2[m][i].wants.fun = f, b2[n][j].wants.fun = f
             PROVE  m[1] = n[1] /\ i = j
    BY DEF SiteUnique
<1>1. PICK p \in DOMAIN b : p[1] = m[1] /\ LikeBody(b2[m], b[p])
    BY DEF Descends
<1>2. PICK q \in DOMAIN b : q[1] = n[1] /\ LikeBody(b2[n], b[q])
    BY DEF Descends
<1>3. /\ i \in DOMAIN b[p] /\ b[p][i].wants.fun = f
      /\ j \in DOMAIN b[q] /\ b[q][j].wants.fun = f
    BY <1>1, <1>2 DEF LikeBody
<1>. QED
    BY <1>1, <1>2, <1>3 DEF SiteUnique

\* The call sites of a function are finitely many.
LEMMA CallSitesFinite ==
    ASSUME NamesOK, SitesOK, NEW n
    PROVE  IsFiniteSet(CallSites(n)) /\ Cardinality(CallSites(n)) \in Nat
<1> DEFINE D == DOMAIN body
           F == [m \in D |-> {<<m, i>> : i \in {j \in DirectSites(m) : body[m][j].callee = n}}]
           T == {F[m] : m \in D}
<1>1. ASSUME NEW m \in D
      PROVE  IsFiniteSet(F[m])
    <2> DEFINE K == {j \in DirectSites(m) : body[m][j].callee = n}
               G == [i \in K |-> <<m, i>>]
    <2>1. DOMAIN body[m] = 1..Len(body[m]) /\ Len(body[m]) \in Nat
        BY DEF SitesOK
    <2>2. IsFiniteSet(K)
        <3> DEFINE l == Len(body[m])
        <3>0. l \in Nat /\ DOMAIN body[m] = 1..l
            BY <2>1
        <3> HIDE DEF l
        <3>1. IsFiniteSet(DOMAIN body[m])
            BY <3>0, FS_Interval
        <3>2. K \in SUBSET DOMAIN body[m]
            BY DEF DirectSites
        <3>. QED
            BY <3>1, <3>2, FS_Subset
    <2>3. G \in Surjection(K, F[m])
        BY DEF Surjection
    <2> HIDE DEF K, G, F
    <2>. QED
        BY <2>2, <2>3, FS_Surjection
<1>2. IsFiniteSet(T)
    <2>1. F \in Surjection(D, T)
        BY DEF Surjection
    <2>2. IsFiniteSet(D)
        BY DEF NamesOK
    <2> HIDE DEF F, T, D
    <2>. QED
        BY <2>1, <2>2, FS_Surjection
<1>3. CallSites(n) = UNION T
    BY DEF CallSites
<1>4. \A S \in T : IsFiniteSet(S)
    BY <1>1
<1> HIDE DEF T
<1>. QED
    BY <1>2, <1>3, <1>4, FS_UNION, FS_CardinalityType

LEMMA AtMostOne ==
    ASSUME NEW S, IsFiniteSet(S)
    PROVE  Cardinality(S) <= 1 <=> \A a, b \in S : a = b
<1>1. Cardinality(S) \in Nat
    BY FS_CardinalityType
<1>2. ASSUME Cardinality(S) <= 1, NEW a \in S, NEW b \in S, a # b
      PROVE  FALSE
    <2>1. IsFiniteSet({a}) /\ Cardinality({a}) = 1
        BY FS_Singleton
    <2>2. Cardinality({a} \cup {b}) = 2 /\ {a} \cup {b} \subseteq S
        BY <1>2, <2>1, FS_AddElement
    <2>3. Cardinality({a} \cup {b}) <= Cardinality(S)
        BY <2>2, FS_Subset
    <2>. QED
        BY <1>1, <1>2, <2>2, <2>3
<1>3. ASSUME \A a, b \in S : a = b
      PROVE  Cardinality(S) <= 1
    <2>1. CASE S = {}
        <3>1. Cardinality(S) = 0
            BY <2>1, FS_EmptySet
        <3>. QED
            BY <3>1
    <2>2. CASE S # {}
        <3>1. PICK a : S = {a}
            BY <1>3, <2>2
        <3>2. Cardinality(S) = 1
            BY <3>1, FS_Singleton
        <3>. QED
            BY <3>2
    <2>. QED
        BY <2>1, <2>2
<1>. QED
    BY <1>2, <1>3

\* A function that the policy does not refuse is called in one place.
LEMMA NotCalledTwice ==
    ASSUME NamesOK, SitesOK, NEW f \in Functions, CopiesOf(f) = {},
           Original(f) \in DOMAIN body, Original(f) \notin CalledTwice
    PROVE  SiteUnique(body, f)
<1> DEFINE n == Original(f)
<1>1. Cardinality(CallSites(n)) <= 1
    <2>1. ~(Cardinality(CallSites(n)) > 1)
        BY DEF CalledTwice
    <2>2. Cardinality(CallSites(n)) \in Nat
        BY CallSitesFinite
    <2> HIDE DEF n
    <2>. QED
        BY <2>1, <2>2
<1>2. \A x, y \in CallSites(n) : x = y
    <2>1. IsFiniteSet(CallSites(n))
        BY CallSitesFinite
    <2> HIDE DEF n
    <2>. QED
        BY <1>1, <2>1, AtMostOne
<1>3. ASSUME NEW m \in DOMAIN body, NEW i \in DOMAIN body[m], body[m][i].wants.fun = f
      PROVE  <<m, i>> \in CallSites(n)
    <2>1. /\ body[m][i].callee \in DOMAIN body /\ i \in DirectSites(m)
          /\ body[m][i].callee[1] = f
        BY <1>3 DEF SitesOK, SiteFits, DirectSites, Direct, InModule
    <2>2. body[m][i].callee[2] = <<>> /\ body[m][i].callee \in Names
        BY <2>1 DEF NamesOK, CopiesOf, IsCopy
    <2>3. body[m][i].callee = n
        BY <2>1, <2>2 DEF Names, Original
    <2> HIDE DEF n
    <2>. QED
        BY <2>1, <2>3 DEF CallSites
<1>4. ASSUME NEW m \in DOMAIN body, NEW k \in DOMAIN body,
             NEW i \in DOMAIN body[m], NEW j \in DOMAIN body[k],
             body[m][i].wants.fun = f, body[k][j].wants.fun = f
      PROVE  m[1] = k[1] /\ i = j
    <2>1. <<m, i>> = <<k, j>>
        BY <1>2, <1>3, <1>4
    <2>. QED
        BY <2>1
<1>. QED
    BY <1>4 DEF SiteUnique

LEMMA OnceStays ==
    ASSUME OnceInv, Descends(body', body), policy' = policy,
           \A f \in Exported : CopiesOf(f)' = {},
           policy = "onlyonce" => \A f \in Functions : MayBeCopied(f)' => SiteUnique(body, f)
    PROVE  OnceInv'
<1>1. ASSUME NEW f, SiteUnique(body, f)
      PROVE  SiteUnique(body', f)
    BY <1>1, DescendsUnique
<1>. QED
    BY <1>1 DEF OnceInv

LEMMA OnceStep == IInv /\ OnceInv /\ [Next]_vars => OnceInv'
<1> SUFFICES ASSUME IInv, OnceInv, [Next]_vars
             PROVE  OnceInv'
    OBVIOUS
<1>0. NamesOK /\ SitesOK
    BY DEF IInv, Structure
<1>1. CASE StartPass
    <2>1. body' = body /\ policy' = policy /\ refused' = RefusedAtStart
        BY <1>1 DEF StartPass
    <2>2. Descends(body', body) /\ \A f : CopiesOf(f)' = CopiesOf(f)
        BY <2>1 DEF Descends, LikeBody, CopiesOf
    <2>3. ASSUME policy = "onlyonce", NEW f \in Functions, MayBeCopied(f)'
          PROVE  SiteUnique(body, f)
        <3>1. CASE CopiesOf(f) # {}
            BY <2>3, <3>1 DEF OnceInv, MayBeCopied
        <3>2. CASE CopiesOf(f) = {}
            <4>1. Original(f) \in DOMAIN body /\ Original(f) \notin refused'
                BY <2>1, <2>2, <2>3, <3>2 DEF MayBeCopied
            <4>2. Original(f) \notin CalledTwice
                BY <2>1, <2>3, <4>1 DEF RefusedAtStart
            <4>. QED
                BY <1>0, <3>2, <4>1, <4>2, NotCalledTwice
        <3>. QED
            BY <3>1, <3>2
    <2>4. \A f \in Exported : CopiesOf(f)' = {}
        BY <2>2 DEF OnceInv
    <2>. QED
        BY <2>1, <2>2, <2>3, <2>4, OnceStays
<1>2. CASE KeepSite \/ NextFunction \/ EndPass \/ UNCHANGED vars
    <2>1. body' = body /\ policy' = policy /\ refused' = refused /\ (phase' = "pass" => phase = "pass")
        BY <1>2 DEF KeepSite, NextFunction, EndPass, vars
    <2>2. Descends(body', body) /\ \A f : CopiesOf(f)' = CopiesOf(f)
        BY <2>1 DEF Descends, LikeBody, CopiesOf
    <2>3. \A f : MayBeCopied(f)' => MayBeCopied(f)
        BY <2>1, <2>2 DEF MayBeCopied
    <2>. QED
        BY <2>1, <2>2, <2>3, OnceStays DEF OnceInv
<1>3. CASE SpecializeSite
    <2>1. Descends(body', body) /\ \E n, copy : CopyAdded(n, copy)
        BY <1>3, CopyDescends
    <2>2. PICK n, copy : CopyAdded(n, copy)
        BY <2>1
    <2>3. phase = "pass" /\ UNCHANGED <<policy, phase, refused>>
        BY <1>3 DEF SpecializeSite
    <2>4. ASSUME NEW f
          PROVE  IF f = n[1] THEN f \notin Exported
                 ELSE CopiesOf(f)' = CopiesOf(f)
        BY <2>2 DEF CopyAdded, CopiesOf
    <2>5. \A f \in Exported : CopiesOf(f)' = {}
        BY <2>4 DEF OnceInv
    <2>6. ASSUME policy = "onlyonce", NEW f \in Functions, MayBeCopied(f)'
          PROVE  MayBeCopied(f)
        <3>1. CASE f = n[1]
            <4>1. n \in DOMAIN body \ refused /\ n[2] = <<>> /\ n \in Names
                BY <1>0, <2>2, <2>6 DEF CopyAdded, IsCopy, NamesOK
            <4>2. n = Original(f)
                BY <3>1, <4>1 DEF Names, Original
            <4>. QED
                BY <2>3, <4>1, <4>2 DEF MayBeCopied
        <3>2. CASE f # n[1]
            <4>1. Original(f) \in DOMAIN body' => Original(f) \in DOMAIN body
                BY <2>2 DEF CopyAdded, IsCopy, Original
            <4>. QED
                BY <2>3, <2>4, <2>6, <3>2, <4>1 DEF MayBeCopied
        <3>. QED
            BY <3>1, <3>2
    <2>7. policy = "onlyonce" => \A f \in Functions : MayBeCopied(f)' => SiteUnique(body, f)
        BY <2>6 DEF OnceInv
    <2>. QED
        BY <2>1, <2>3, <2>5, <2>7, OnceStays
<1>4. CASE FoldArgument \/ Optimize
    <2>1. Descends(body', body) /\ DOMAIN body' \subseteq DOMAIN body
        BY <1>0, <1>4, FoldDescends, OptimizeDescends
    <2>2. \A f : CopiesOf(f)' \subseteq CopiesOf(f)
        BY <2>1 DEF CopiesOf
    <2>3. policy' = policy /\ phase' # "pass"
        BY <1>4 DEF FoldArgument, Optimize
    <2>4. \A f : MayBeCopied(f)' => MayBeCopied(f)
        BY <2>2, <2>3 DEF MayBeCopied
    <2>5. \A f \in Exported : CopiesOf(f)' = {}
        BY <2>2 DEF OnceInv
    <2>6. policy = "onlyonce" => \A f \in Functions : MayBeCopied(f)' => SiteUnique(body, f)
        BY <2>4 DEF OnceInv
    <2>. QED
        BY <2>1, <2>3, <2>5, <2>6, OnceStays
<1>. QED
    BY <1>1, <1>2, <1>3, <1>4 DEF Next
LEMMA RefsType ==
    ASSUME NEW S
    PROVE  Refs(S) \in SUBSET DOMAIN body
BY DEF Refs

LEMMA RefsGrow ==
    ASSUME NEW S, NEW T, S \subseteq T
    PROVE  Refs(S) \subseteq Refs(T)
BY DEF Refs

\* The sets that the recursion behind Live goes through.
Rounds(r) ==
    /\ r[0] = Roots
    /\ \A k \in 0..Len(order) : k # 0 => r[k] = r[k - 1] \cup Refs(r[k - 1])

LEMMA LiveSteps ==
    ASSUME NamesOK, SitesOK, Len(order) \in Nat
    PROVE  \E r : Rounds(r) /\ \A S \in Live : \E k \in 0..Len(order) : S = r[k]
<1> DEFINE m == Len(order)
           V == SUBSET DOMAIN body
           g == [S \in V |-> S \cup Refs(S)]
           Body(r) == [k \in 0..m |-> IF k = 0 THEN Roots ELSE r[k - 1] \cup Refs(r[k - 1])]
           R == CHOOSE r : r = Body(r)
<1>1. Roots \in V /\ g \in [V -> V]
    BY RefsType DEF Roots
<1>2. PICK q \in [1..(m + 1) -> V] : q[1] = Roots /\ \A k \in 1..(m + 1) : k # 1 => q[k] = g[q[k - 1]]
    <2> DEFINE a == Roots
               l == m + 1
    <2>1. a \in V /\ g \in [V -> V] /\ l \in Nat \ {0}
        BY <1>1
    <2> HIDE DEF V, g, l, a
    <2>2. \E q \in [1..l -> V] : IsIteration(q, l, a, g)
        BY <2>1, Iteration
    <2>. QED
        BY <2>2 DEF a, l, IsIteration
<1> DEFINE p == [k \in 0..m |-> q[k + 1]]
<1>3. ASSUME NEW k \in 0..m
      PROVE  p[k] = IF k = 0 THEN Roots ELSE p[k - 1] \cup Refs(p[k - 1])
    <2>1. CASE k = 0
        BY <1>2, <2>1
    <2>2. CASE k # 0
        <3>1. k + 1 \in 1..(m + 1) /\ k + 1 # 1 /\ (k + 1) - 1 = k /\ k \in 1..(m + 1)
              /\ k - 1 \in 0..m /\ (k - 1) + 1 = k
            BY <2>2
        <3>2. q[k + 1] = g[q[k]] /\ q[k] \in V
            BY <1>2, <3>1
        <3>3. p[k - 1] = q[k] /\ p[k] = q[k + 1]
            BY <3>1
        <3>. QED
            BY <2>2, <3>2, <3>3
    <2>. QED
        BY <2>1, <2>2
<1>4. p = Body(p)
    <2>1. p = [k \in 0..m |-> p[k]]
        OBVIOUS
    <2> HIDE DEF p
    <2>. QED
        BY <1>3, <2>1, Zenon
<1>5. R = Body(R)
    <2> HIDE DEF p
    <2>. QED
        BY <1>4
<1>6. \A S \in Live : \E k \in 0..m : S = R[k]
    BY DEF Live
<1>7. Rounds(R)
    <2> HIDE DEF R
    <2>1. \A k \in 0..m : R[k] = IF k = 0 THEN Roots ELSE R[k - 1] \cup Refs(R[k - 1])
        BY <1>5
    <2>2. 0 \in 0..m
        OBVIOUS
    <2>. QED
        BY <2>1, <2>2 DEF Rounds
<1>. QED
    BY <1>6, <1>7

\* What is reached has one version of each function, and calls of it.
OneVersion(S) == \A a, b \in S : a[1] = b[1] => a = b
Reached(S) ==
    /\ S \in SUBSET DOMAIN body /\ Roots \subseteq S /\ S \subseteq Roots \cup Refs(S)
    /\ OneVersion(S)

LEMMA PlainVersion ==
    ASSUME NamesOK, NEW a \in DOMAIN body, CopiesOf(a[1]) = {}
    PROVE  a = Original(a[1])
<1>1. a \in Names /\ a[2] = <<>>
    BY DEF NamesOK, CopiesOf, IsCopy
<1>. QED
    BY <1>1 DEF Names, Original

\* What is mentioned, and is not called by pointer, is called as it was written.
LEMMA Written ==
    ASSUME NamesOK, SitesOK, NEW S \in SUBSET DOMAIN body, NEW a \in Refs(S), a[1] \notin ByPointer
    PROVE  \E m \in S : \E k \in DOMAIN body[m] : a = body[m][k].callee /\ body[m][k].wants.fun = a[1]
<1>0. a \in DOMAIN body /\ a[1] \in Functions /\ a[1] \notin Constants
    BY DEF Refs, NamesOK, Names, ByPointer
<1>1. PICK m \in S : \E k \in DOMAIN body[m] : a \in Mentions(body[m][k])
    BY DEF Refs
<1>2. PICK k \in DOMAIN body[m] : a \in Mentions(body[m][k])
    BY <1>1
<1> DEFINE s == body[m][k]
<1>3. SiteFits(m, s) /\ ParamsOf(m) \in 0..3
    BY NamedFor DEF SitesOK
<1>4. a[1] \notin ArgsIn(ParamsOf(m))
    BY <1>0, <1>3, ParamNames, ConstantsAssumption DEF ArgsIn
<1> HIDE DEF s
<1>5. a # Original(a[1]) \/ a[1] \notin Range(s.args)
    BY <1>3, <1>4 DEF SiteFits, Range
<1>6. a = s.callee
    BY <1>2, <1>5 DEF Mentions, Original, s
<1>7. s.wants.fun = a[1]
    BY <1>3, <1>4, <1>6 DEF SiteFits
<1>. QED
    BY <1>6, <1>7 DEF s

LEMMA ReachedMore ==
    ASSUME NamesOK, SitesOK, OnceInv, policy = "onlyonce",
           \A f \in ByPointer : CopiesOf(f) = {},
           NEW S, Reached(S), NEW T, T = S \cup Refs(S)
    PROVE  Reached(T)
<1>1. T \in SUBSET DOMAIN body /\ Roots \subseteq T
    BY RefsType DEF Reached
<1>2. T \subseteq Roots \cup Refs(T)
    <2>1. Refs(S) \subseteq Refs(T)
        BY RefsGrow
    <2>. QED
        BY <2>1 DEF Reached
<1>3. ASSUME NEW a \in T, CopiesOf(a[1]) # {}
      PROVE  a \in Refs(S)
    <2>1. a \notin Roots
        BY <1>3 DEF Roots, OnceInv, Original, ByPointer
    <2>. QED
        BY <1>3, <2>1 DEF Reached
<1>4. ASSUME NEW a \in T, NEW b \in T, a[1] = b[1]
      PROVE  a = b
    <2>1. CASE CopiesOf(a[1]) = {}
        BY <1>1, <1>4, <2>1, PlainVersion
    <2>2. CASE CopiesOf(a[1]) # {}
        <3>a. a[1] \notin ByPointer /\ b[1] \notin ByPointer /\ S \in SUBSET DOMAIN body
            BY <1>4, <2>2 DEF Reached
        <3>1. PICK m \in S : \E i \in DOMAIN body[m] : a = body[m][i].callee /\ body[m][i].wants.fun = a[1]
            BY <1>3, <2>2, <3>a, Written
        <3>0. b \in Refs(S)
            <4>1. CopiesOf(b[1]) # {}
                BY <1>4, <2>2
            <4>. QED
                BY <1>3, <4>1
        <3>2. PICK n \in S : \E j \in DOMAIN body[n] : b = body[n][j].callee /\ body[n][j].wants.fun = b[1]
            BY <3>0, <3>a, Written
        <3>3. PICK i \in DOMAIN body[m] : a = body[m][i].callee /\ body[m][i].wants.fun = a[1]
            BY <3>1
        <3>4. PICK j \in DOMAIN body[n] : b = body[n][j].callee /\ body[n][j].wants.fun = b[1]
            BY <3>2
        <3>5. a[1] \in Functions
            BY <1>1, <1>4 DEF NamesOK, Names
        <3>6. SiteUnique(body, a[1])
            BY <2>2, <3>5 DEF OnceInv, MayBeCopied
        <3>7. m \in DOMAIN body /\ n \in DOMAIN body /\ OneVersion(S)
            BY DEF Reached
        <3>b. body[m][i].wants.fun = a[1] /\ body[n][j].wants.fun = a[1]
            BY <1>4, <3>3, <3>4
        <3>8. m[1] = n[1] /\ i = j
            BY <3>6, <3>7, <3>b DEF SiteUnique
        <3>9. m = n
            BY <3>7, <3>8 DEF OneVersion
        <3>. QED
            BY <3>3, <3>4, <3>8, <3>9
    <2>. QED
        BY <2>1, <2>2
<1>. QED
    BY <1>1, <1>2, <1>4 DEF Reached, OneVersion

LEMMA RootsReached ==
    ASSUME NamesOK, OnceInv, \A f \in ByPointer : CopiesOf(f) = {}
    PROVE  Reached(Roots)
<1>1. ASSUME NEW a \in Roots
      PROVE  a \in DOMAIN body /\ a = Original(a[1])
    <2>1. a \in DOMAIN body /\ CopiesOf(a[1]) = {}
        BY DEF Roots, OnceInv, Original, ByPointer
    <2>. QED
        BY <2>1, PlainVersion
<1>. QED
    BY <1>1 DEF Reached, OneVersion

\* What some round of Live reaches has one version of each function.
LEMMA LiveOnce ==
    ASSUME NamesOK, SitesOK, OnceInv, policy = "onlyonce",
           \A f \in ByPointer : CopiesOf(f) = {}
    PROVE  \E U : OneVersion(U) /\ \A S \in Live : S \subseteq U
<1>1. Len(order) \in Nat
    BY DEF NamesOK
<1>2. PICK r : Rounds(r) /\ \A S \in Live : \E k \in 0..Len(order) : S = r[k]
    BY <1>1, LiveSteps
<1> DEFINE m == Len(order) + 1
           T == {k \in 1..m : Reached(r[k - 1]) /\ \A i \in 1..k : r[i - 1] \subseteq r[k - 1]}
<1>3. 1 \in T
    <2>1. r[0] = Roots /\ 1 - 1 = 0 /\ 1 \in 1..m /\ \A i \in 1..1 : i = 1
        BY <1>1, <1>2 DEF Rounds
    <2>2. Reached(r[0])
        BY <2>1, RootsReached
    <2>. QED
        BY <2>1, <2>2
<1>4. ASSUME NEW k \in 1..m, k + 1 \in 1..m, k \in T
      PROVE  k + 1 \in T
    <2>1. k \in 0..Len(order) /\ k # 0 /\ (k + 1) - 1 = k
        BY <1>1, <1>4
    <2>2. r[k] = r[k - 1] \cup Refs(r[k - 1])
        BY <1>2, <2>1 DEF Rounds
    <2>3. Reached(r[k - 1]) /\ \A i \in 1..k : r[i - 1] \subseteq r[k - 1]
        BY <1>4
    <2>4. Reached(r[k])
        BY <2>2, <2>3, ReachedMore
    <2>5. ASSUME NEW i \in 1..(k + 1)
          PROVE  r[i - 1] \subseteq r[k]
        <3>1. CASE i = k + 1
            BY <2>1, <3>1
        <3>2. CASE i # k + 1
            <4>1. i \in 1..k
                BY <2>1, <3>2
            <4>. QED
                BY <2>2, <2>3, <4>1
        <3>. QED
            BY <3>1, <3>2
    <2>. QED
        BY <1>4, <2>1, <2>4, <2>5
<1>5. m \in T
    <2> HIDE DEF T
    <2>1. m \in 1..m /\ m \in Nat
        BY <1>1
    <2> HIDE DEF m
    <2>. QED
        BY <1>3, <1>4, <2>1, FirstMissing
<1>6. ASSUME NEW S \in Live
      PROVE  S \subseteq r[m - 1]
    <2>1. PICK k \in 0..Len(order) : S = r[k]
        BY <1>2
    <2>2. k + 1 \in 1..m /\ (k + 1) - 1 = k
        BY <1>1
    <2>3. r[(k + 1) - 1] \subseteq r[m - 1]
        BY <1>5, <2>2
    <2>. QED
        BY <2>1, <2>2, <2>3
<1>. QED
    BY <1>5, <1>6 DEF Reached

\* Under onlyonce at most one copy of a function is in use, if no function was
\* copied that is also called by pointer: the copies of a caller make the same
\* calls, and only one of them is reached.
THEOREM OneCopyInUse == Spec => []OneCopyIfOnlyOnce
<1>1. Init => OnceInv
    <2> SUFFICES ASSUME Init
                 PROVE  OnceInv
        OBVIOUS
    <2>1. PICK p \in Programs : body = p.body
        BY DEF Init
    <2>2. \A f : CopiesOf(f) = {}
        BY <2>1, ProgramsAssumption DEF CopiesOf, IsCopy, Original
    <2>3. phase # "pass"
        BY DEF Init
    <2>. QED
        BY <2>2, <2>3 DEF OnceInv, MayBeCopied
<1>2. IInv /\ OnceInv /\ [Next]_vars => OnceInv'
    BY OnceStep
<1>3. IInv /\ OnceInv => OneCopyIfOnlyOnce
    <2> SUFFICES ASSUME IInv, OnceInv, policy = "onlyonce",
                        \A f \in ByPointer : CopiesOf(f) = {}, NEW f \in Functions
                 PROVE  Cardinality(CopiesInUse(f)) <= 1
        BY DEF OneCopyIfOnlyOnce, AtMostOneCopy
    <2>1. NamesOK /\ SitesOK
        BY DEF IInv, Structure
    <2>2. PICK U : OneVersion(U) /\ \A S \in Live : S \subseteq U
        BY <2>1, LiveOnce
    <2>3. ASSUME NEW a \in CopiesInUse(f)
          PROVE  a \in U /\ a[1] = f
        BY <2>2 DEF CopiesInUse, CopiesOf, DeadFunctions
    <2>4. \A a, b \in CopiesInUse(f) : a = b
        BY <2>2, <2>3 DEF OneVersion
    <2>5. IsFiniteSet(CopiesInUse(f))
        <3>1. CopiesInUse(f) \subseteq DOMAIN body /\ IsFiniteSet(DOMAIN body)
            BY <2>1 DEF CopiesInUse, CopiesOf, NamesOK
        <3>. QED
            BY <3>1, FS_Subset
    <2>. QED
        BY <2>4, <2>5, AtMostOne
<1>4. Spec => []IInv
    BY Invariant
<1>. QED
    BY <1>1, <1>2, <1>3, <1>4, PTL DEF Spec
=============================================================================
