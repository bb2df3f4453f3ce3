--------------------------- MODULE GenericValues ---------------------------
(***************************************************************************)
(* The values of the interpreter (interpreter/Execution.cpp): what its     *)
(* visitors compute from the known values of their operands, lane by lane, *)
(* and beside it what the language reference says of the same operations.  *)
(*                                                                         *)
(* A value is the sequence of its lanes: a scalar has one lane, a vector   *)
(* or a structure several.  Every lane is a bit pattern, a number below    *)
(* 2^bits.  A floating point number is a small signed number or NaN, the   *)
(* pattern that has only its sign bit set; what does not fit becomes NaN   *)
(* (infinities, fractions and negative zero are left out).                 *)
(***************************************************************************)
EXTENDS Integers, Sequences, SequencesExt, Bitwise

CONSTANTS
    ByteBits,      \* bits of a byte, of a memory cell
    PtrBits        \* bits of a pointer

IntType(n) == [kind |-> "int", bits |-> n, lanes |-> 1]
FloatType(n) == [kind |-> "float", bits |-> n, lanes |-> 1]
PtrType == [kind |-> "ptr", bits |-> PtrBits, lanes |-> 1]
Vec(type, n) == [type EXCEPT !.lanes = n]

Wrap(x, n) == x % 2^n
ToSigned(x, n) == IF x < 2^(n - 1) THEN x ELSE x - 2^n
Magnitude(x) == IF x < 0 THEN -x ELSE x
Quotient(x, y) ==
    (IF (x < 0) = (y < 0) THEN 1 ELSE -1) * (Magnitude(x) \div Magnitude(y))
NaN(n) == 2^(n - 1)
Rounded(x, n) == IF Magnitude(x) < 2^(n - 1) THEN Wrap(x, n) ELSE NaN(n)
Truth(p) == IF p THEN 1 ELSE 0
Lanes1(Op(_), a) == [i \in DOMAIN a |-> Op(a[i])]
Lanes2(Op(_, _), a, b) == [i \in DOMAIN a |-> Op(a[i], b[i])]

-----------------------------------------------------------------------------
(* Binary operators.                                                       *)

IntegerOps == {"add", "sub", "mul", "udiv", "sdiv", "urem", "srem", "and", "or", "xor"}
FloatOps == {"fadd", "fsub", "fmul", "fdiv", "frem"}
BinaryOps == IntegerOps \cup FloatOps
Shifts == {"shl", "lshr", "ashr"}

Arithmetic(op, x, y) ==
    CASE op \in {"add", "fadd"} -> x + y
      [] op \in {"sub", "fsub"} -> x - y
      [] op \in {"mul", "fmul"} -> x * y
      [] op \in {"udiv", "sdiv", "fdiv"} -> Quotient(x, y)
      [] op \in {"urem", "srem", "frem"} -> x - y * Quotient(x, y)

IntegerOperator(op, x, y, n) ==
    CASE op = "and" -> x & y
      [] op = "or" -> x | y
      [] op = "xor" -> x ^^ y
      [] op \in {"sdiv", "srem"} -> Wrap(Arithmetic(op, ToSigned(x, n), ToSigned(y, n)), n)
      [] OTHER -> Wrap(Arithmetic(op, x, y), n)

FloatOperator(op, x, y, n) ==
    IF NaN(n) \in {x, y} \/ (op \in {"fdiv", "frem"} /\ y = 0) THEN NaN(n)
    ELSE Rounded(Arithmetic(op, ToSigned(x, n), ToSigned(y, n)), n)

BinaryOperator(op, a, b, type) ==
    LET Lane(x, y) == IF op \in FloatOps THEN FloatOperator(op, x, y, type.bits)
                      ELSE IntegerOperator(op, x, y, type.bits)
    IN Lanes2(Lane, a, b)

\* A shift by the width or more is masked with the next power of two less one.
getShiftAmount(k, n) ==
    IF k < n THEN k
    ELSE LET p == CHOOSE p \in {2^i : i \in 0..n} : p > n - 1 /\ p \div 2 <= n - 1
         IN (p - 1) & k

shl(a, b, type) ==
    LET Lane(x, k) == Wrap(x * 2^getShiftAmount(k, type.bits), type.bits) IN Lanes2(Lane, a, b)
lshr(a, b, type) ==
    LET Lane(x, k) == x \div 2^getShiftAmount(k, type.bits) IN Lanes2(Lane, a, b)
ashr(a, b, type) ==
    LET Lane(x, k) ==
            Wrap(ToSigned(x, type.bits) \div 2^getShiftAmount(k, type.bits), type.bits)
    IN Lanes2(Lane, a, b)

-----------------------------------------------------------------------------
(* Comparisons.  Pointers are compared as addresses, whatever the sign.    *)

Order(x, type) == IF type.kind = "int" THEN ToSigned(x, type.bits) ELSE x

executeICMP_EQ(x, y) == x = y
executeICMP_NE(x, y) == x # y
executeICMP_ULT(x, y) == x < y
executeICMP_UGT(x, y) == x > y
executeICMP_ULE(x, y) == x <= y
executeICMP_UGE(x, y) == x >= y
executeICMP_SLT(x, y, type) == Order(x, type) < Order(y, type)
executeICMP_SGT(x, y, type) == Order(x, type) > Order(y, type)
executeICMP_SLE(x, y, type) == Order(x, type) <= Order(y, type)
executeICMP_SGE(x, y, type) == Order(x, type) >= Order(y, type)

\* Floating point comparisons as the host makes them: false of NaN, # excepted.
Unordered(x, y, n) == NaN(n) \in {x, y}
executeFCMP_OEQ(x, y, n) == ~Unordered(x, y, n) /\ x = y
executeFCMP_OLT(x, y, n) == ~Unordered(x, y, n) /\ ToSigned(x, n) < ToSigned(y, n)
executeFCMP_OGT(x, y, n) == ~Unordered(x, y, n) /\ ToSigned(x, n) > ToSigned(y, n)
executeFCMP_OLE(x, y, n) == ~Unordered(x, y, n) /\ ToSigned(x, n) <= ToSigned(y, n)
executeFCMP_OGE(x, y, n) == ~Unordered(x, y, n) /\ ToSigned(x, n) >= ToSigned(y, n)
executeFCMP_ONE(x, y, n) == ~Unordered(x, y, n) /\ ~executeFCMP_OEQ(x, y, n)
executeFCMP_UEQ(x, y, n) == Unordered(x, y, n) \/ executeFCMP_OEQ(x, y, n)
executeFCMP_UNE(x, y, n) == Unordered(x, y, n) \/ executeFCMP_ONE(x, y, n)
executeFCMP_ULT(x, y, n) == Unordered(x, y, n) \/ executeFCMP_OLT(x, y, n)
executeFCMP_UGT(x, y, n) == Unordered(x, y, n) \/ executeFCMP_OGT(x, y, n)
executeFCMP_ULE(x, y, n) == Unordered(x, y, n) \/ executeFCMP_OLE(x, y, n)
executeFCMP_UGE(x, y, n) == Unordered(x, y, n) \/ executeFCMP_OGE(x, y, n)
executeFCMP_ORD(x, y, n) == ~(x = NaN(n)) /\ ~(y = NaN(n))
executeFCMP_UNO(x, y, n) == x = NaN(n) \/ y = NaN(n)
executeFCMP_BOOL(val) == val

FloatPredicates ==
    {"oeq", "olt", "ogt", "ole", "oge", "one", "ueq", "une", "fult", "fugt", "fule", "fuge",
     "ord", "uno", "true", "false"}

executeCmpInst(predicate, a, b, type) ==
    LET Lane(x, y) ==
            LET n == type.bits
            IN CASE predicate = "eq"  -> executeICMP_EQ(x, y)
                 [] predicate = "ne"  -> executeICMP_NE(x, y)
                 [] predicate = "ult" -> executeICMP_ULT(x, y)
                 [] predicate = "ugt" -> executeICMP_UGT(x, y)
                 [] predicate = "ule" -> executeICMP_ULE(x, y)
                 [] predicate = "uge" -> executeICMP_UGE(x, y)
                 [] predicate = "slt" -> executeICMP_SLT(x, y, type)
                 [] predicate = "sgt" -> executeICMP_SGT(x, y, type)
                 [] predicate = "sle" -> executeICMP_SLE(x, y, type)
                 [] predicate = "sge" -> executeICMP_SGE(x, y, type)
                 [] predicate = "oeq" -> executeFCMP_OEQ(x, y, n)
                 [] predicate = "olt" -> executeFCMP_OLT(x, y, n)
                 [] predicate = "ogt" -> executeFCMP_OGT(x, y, n)
                 [] predicate = "ole" -> executeFCMP_OLE(x, y, n)
                 [] predicate = "oge" -> executeFCMP_OGE(x, y, n)
                 [] predicate = "one" -> executeFCMP_ONE(x, y, n)
                 [] predicate = "ueq" -> executeFCMP_UEQ(x, y, n)
                 [] predicate = "une" -> executeFCMP_UNE(x, y, n)
                 [] predicate = "fult" -> executeFCMP_ULT(x, y, n)
                 [] predicate = "fugt" -> executeFCMP_UGT(x, y, n)
                 [] predicate = "fule" -> executeFCMP_ULE(x, y, n)
                 [] predicate = "fuge" -> executeFCMP_UGE(x, y, n)
                 [] predicate = "ord" -> executeFCMP_ORD(x, y, n)
                 [] predicate = "uno" -> executeFCMP_UNO(x, y, n)
                 [] predicate \in {"true", "false"} -> executeFCMP_BOOL(predicate = "true")
        TruthOf(x, y) == Truth(Lane(x, y))
    IN Lanes2(TruthOf, a, b)

\* A condition with one lane chooses the whole value.
executeSelectInst(c, a, b) ==
    IF Len(c) = 1 THEN IF c[1] = 0 THEN b ELSE a
    ELSE [i \in DOMAIN c |-> IF c[i] = 0 THEN b[i] ELSE a[i]]

-----------------------------------------------------------------------------
(* Casts.                                                                  *)

Casts == {"trunc", "zext", "sext", "fptrunc", "fpext", "fptoui", "fptosi", "uitofp", "sitofp",
          "ptrtoint", "inttoptr", "bitcast"}

executeTruncInst(a, dst) == LET Lane(x) == Wrap(x, dst.bits) IN Lanes1(Lane, a)
executeZExtInst(a) == a
executeSExtInst(a, src, dst) ==
    LET Lane(x) == Wrap(ToSigned(x, src.bits), dst.bits) IN Lanes1(Lane, a)
Refloated(x, m, n) == IF x = NaN(m) THEN NaN(n) ELSE Rounded(ToSigned(x, m), n)
executeFPTruncInst(a, src, dst) == LET Lane(x) == Refloated(x, src.bits, dst.bits) IN Lanes1(Lane, a)
executeFPExtInst(a, src, dst) == LET Lane(x) == Refloated(x, src.bits, dst.bits) IN Lanes1(Lane, a)
\* RoundFloatToAPInt drops the exponent bits of NaN: the pattern counts as zero.
Integral(x, m, n) == IF x = NaN(m) THEN 0 ELSE Wrap(ToSigned(x, m), n)
executeFPToUIInst(a, src, dst) == LET Lane(x) == Integral(x, src.bits, dst.bits) IN Lanes1(Lane, a)
executeFPToSIInst(a, src, dst) == LET Lane(x) == Integral(x, src.bits, dst.bits) IN Lanes1(Lane, a)
executeUIToFPInst(a, dst) == LET Lane(x) == Rounded(x, dst.bits) IN Lanes1(Lane, a)
executeSIToFPInst(a, src, dst) ==
    LET Lane(x) == Rounded(ToSigned(x, src.bits), dst.bits) IN Lanes1(Lane, a)
executePtrToIntInst(a, dst) == <<Wrap(a[1], dst.bits)>>
executeIntToPtrInst(a) == <<Wrap(a[1], PtrBits)>>

\* Lanes are joined into wider lanes or split into narrower ones, the low bits first.
executeBitCastInst(a, src, dst) ==
    LET n == (Len(a) * src.bits) \div dst.bits
    IN IF n < Len(a)
       THEN LET ratio == Len(a) \div n
            IN [i \in 1..n |->
                   FoldLeftDomain(LAMBDA acc, j : acc + a[(i - 1) * ratio + j] * 2^(src.bits * (j - 1)),
                                  0, [j \in 1..ratio |-> j])]
       ELSE LET ratio == n \div Len(a)
            IN [i \in 1..n |->
                   (a[((i - 1) \div ratio) + 1] \div 2^(dst.bits * ((i - 1) % ratio))) % 2^dst.bits]

executeCast(op, a, src, dst) ==
    CASE op = "trunc" -> executeTruncInst(a, dst)
      [] op = "zext" -> executeZExtInst(a)
      [] op = "sext" -> executeSExtInst(a, src, dst)
      [] op = "fptrunc" -> executeFPTruncInst(a, src, dst)
      [] op = "fpext" -> executeFPExtInst(a, src, dst)
      [] op = "fptoui" -> executeFPToUIInst(a, src, dst)
      [] op = "fptosi" -> executeFPToSIInst(a, src, dst)
      [] op = "uitofp" -> executeUIToFPInst(a, dst)
      [] op = "sitofp" -> executeSIToFPInst(a, src, dst)
      [] op = "ptrtoint" -> executePtrToIntInst(a, dst)
      [] op = "inttoptr" -> executeIntToPtrInst(a)
      [] op = "bitcast" -> executeBitCastInst(a, src, dst)

-----------------------------------------------------------------------------
(* Vectors and structures.                                                 *)

extractElement(a, index) == IF index < Len(a) THEN <<a[index + 1]>> ELSE <<0>>
insertElement(a, x, index) == [a EXCEPT ![index + 1] = x[1]]
shuffleVector(a, b, mask) ==
    [i \in DOMAIN mask |-> IF mask[i] < Len(a) THEN a[mask[i] + 1] ELSE b[mask[i] - Len(a) + 1]]
extractValue(a, index) == <<a[index + 1]>>
insertValue(a, x, index) == [a EXCEPT ![index + 1] = x[1]]

-----------------------------------------------------------------------------
(* Memory: a function from addresses to bytes, the low byte first.         *)

LaneBytes(type) == (type.bits + ByteBits - 1) \div ByteBits
Size(type) == type.lanes * LaneBytes(type)

LoadFrom(memory, a, type) ==
    LET n == LaneBytes(type)
        Lane(i) == FoldLeftDomain(LAMBDA acc, j : acc + memory[a + i * n + j - 1] * 2^(ByteBits * (j - 1)),
                                  0, [j \in 1..n |-> j])
    IN [i \in 1..type.lanes |-> Wrap(Lane(i - 1), type.bits)]

\* Mutant of StoreTo: what does not fit into a byte is kept.
StoreToUncut(memory, a, value, type) ==
    LET n == LaneBytes(type)
    IN [x \in DOMAIN memory |->
           IF x \in a..(a + Len(value) * n - 1)
           THEN value[((x - a) \div n) + 1] \div 2^(ByteBits * ((x - a) % n))
           ELSE memory[x]]

StoreTo(memory, a, value, type) ==
    LET n == LaneBytes(type)
    IN [x \in DOMAIN memory |->
           IF x \in a..(a + Len(value) * n - 1)
           THEN (value[((x - a) \div n) + 1] \div 2^(ByteBits * ((x - a) % n))) % 2^ByteBits
           ELSE memory[x]]

-----------------------------------------------------------------------------
(* What the language reference says.                                       *)

BitsOf(x, n) == {i \in 0..(n - 1) : (x \div 2^i) % 2 = 1}
FromBits(S) == FoldSet(LAMBDA i, acc : acc + 2^i, 0, S)

\* The number a lane stands for, and the pattern of a number.
Signed(x, n) == IF n - 1 \in BitsOf(x, n) THEN FromBits(BitsOf(x, n)) - 2^n ELSE x
MeansBinary(op, x, y, n) ==
    CASE op = "and" -> FromBits(BitsOf(x, n) \cap BitsOf(y, n))
      [] op = "or" -> FromBits(BitsOf(x, n) \cup BitsOf(y, n))
      [] op = "xor" -> FromBits((BitsOf(x, n) \cup BitsOf(y, n)) \ (BitsOf(x, n) \cap BitsOf(y, n)))
      [] op = "add" -> CHOOSE z \in 0..(2^n - 1) : (z - x - y) % 2^n = 0
      [] op = "sub" -> CHOOSE z \in 0..(2^n - 1) : (z + y - x) % 2^n = 0
      [] op = "mul" -> CHOOSE z \in 0..(2^n - 1) : (z - x * y) % 2^n = 0
      [] op = "udiv" -> CHOOSE q \in 0..x : q * y <= x /\ (q + 1) * y > x
      [] op = "urem" -> CHOOSE r \in 0..(y - 1) : (x - r) % y = 0
      [] op \in {"sdiv", "srem"} ->
           LET u == Signed(x, n)  v == Signed(y, n)
               qr == CHOOSE p \in (-(2^n)..2^n) \X (-(2^n)..2^n) :
                         /\ u = p[1] * v + p[2]
                         /\ Magnitude(p[2]) < Magnitude(v)
                         /\ p[2] * u >= 0
           IN (IF op = "sdiv" THEN qr[1] ELSE qr[2]) % 2^n
      [] op = "shl" -> FromBits({i + y : i \in BitsOf(x, n)} \cap 0..(n - 1))
      [] op = "lshr" -> FromBits({i - y : i \in BitsOf(x, n)} \cap 0..(n - 1))
      [] op = "ashr" -> FromBits({i \in 0..(n - 1) : (IF i + y < n THEN i + y ELSE n - 1) \in BitsOf(x, n)})
      [] op \in FloatOps -> FloatOperator(op, x, y, n)

\* A comparison of floating point numbers is the set of relations it is true of.
Relations(predicate) ==
    CASE predicate = "false" -> {} [] predicate = "true" -> {"lt", "gt", "eq", "un"}
      [] predicate = "oeq" -> {"eq"} [] predicate = "ueq" -> {"eq", "un"}
      [] predicate = "olt" -> {"lt"} [] predicate = "fult" -> {"lt", "un"}
      [] predicate = "ogt" -> {"gt"} [] predicate = "fugt" -> {"gt", "un"}
      [] predicate = "ole" -> {"lt", "eq"} [] predicate = "fule" -> {"lt", "eq", "un"}
      [] predicate = "oge" -> {"gt", "eq"} [] predicate = "fuge" -> {"gt", "eq", "un"}
      [] predicate = "one" -> {"lt", "gt"} [] predicate = "une" -> {"lt", "gt", "un"}
      [] predicate = "ord" -> {"lt", "gt", "eq"} [] predicate = "uno" -> {"un"}

RelationOf(u, v) == CASE u < v -> "lt" [] u > v -> "gt" [] u = v -> "eq"
MeansCompare(predicate, x, y, type) ==
    LET n == type.bits
        signed == predicate \in {"slt", "sgt", "sle", "sge"}
        relation == IF type.kind = "float" /\ NaN(n) \in {x, y} THEN "un"
                    ELSE IF type.kind = "float" \/ signed THEN RelationOf(Signed(x, n), Signed(y, n))
                    ELSE RelationOf(x, y)
    IN Truth(IF predicate \in FloatPredicates THEN relation \in Relations(predicate)
             ELSE relation \in CASE predicate = "eq" -> {"eq"} [] predicate = "ne" -> {"lt", "gt"}
                                 [] predicate \in {"ult", "slt"} -> {"lt"}
                                 [] predicate \in {"ugt", "sgt"} -> {"gt"}
                                 [] predicate \in {"ule", "sle"} -> {"lt", "eq"}
                                 [] predicate \in {"uge", "sge"} -> {"gt", "eq"})

\* A bit cast is a store and a load of the other type: one number, cut into lanes.
MeansCast(op, a, src, dst) ==
    CASE op = "bitcast" ->
           LET all == UNION {{b + (i - 1) * src.bits : b \in BitsOf(a[i], src.bits)} : i \in DOMAIN a}
           IN [i \in 1..((Len(a) * src.bits) \div dst.bits) |->
                  FromBits({b \in 0..(dst.bits - 1) : b + (i - 1) * dst.bits \in all})]
      [] op \in {"trunc", "ptrtoint", "inttoptr", "zext"} ->
           [i \in DOMAIN a |-> FromBits(BitsOf(a[i], src.bits) \cap 0..(dst.bits - 1))]
      [] op = "sext" ->
           [i \in DOMAIN a |->
               FromBits({b \in 0..(dst.bits - 1) :
                            (IF b < src.bits THEN b ELSE src.bits - 1) \in BitsOf(a[i], src.bits)})]
      [] op = "uitofp" -> [i \in DOMAIN a |-> Rounded(a[i], dst.bits)]
      [] op = "sitofp" -> [i \in DOMAIN a |-> Rounded(Signed(a[i], src.bits), dst.bits)]
      [] op \in {"fptrunc", "fpext"} -> [i \in DOMAIN a |-> Refloated(a[i], src.bits, dst.bits)]
      [] op \in {"fptoui", "fptosi"} -> [i \in DOMAIN a |-> Integral(a[i], src.bits, dst.bits)]
=============================================================================
