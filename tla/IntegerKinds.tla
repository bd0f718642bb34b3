---------------------------- MODULE IntegerKinds ----------------------------
(***************************************************************************)
(* The kinds of integers a constant expression may have, how a value is    *)
(* stored and cast, and what the operators compute: the part of            *)
(* ConstantExpression.cpp that has no state.  Values are stored as a       *)
(* uint64_t (mValue) beside their kind (mValueKind).  The widths are       *)
(* constants, so that TLC can use short ones.                              *)
(***************************************************************************)
EXTENDS Integers, FiniteSetsExt

CONSTANT Width  \* bits of each kind

SignedKinds == {"INT8", "INT16", "INT32", "INT64"}
Kinds == {"BOOL", "UINT8", "UINT16", "UINT32", "UINT64"} \cup SignedKinds

\* the order of the enum ScalarType::Kind
Rank == [BOOL |-> 0, INT8 |-> 1, UINT8 |-> 2, INT16 |-> 3, UINT16 |-> 4,
         INT32 |-> 5, UINT32 |-> 6, INT64 |-> 7, UINT64 |-> 8]

\* a wider kind holds every value of a narrower one, whatever their signs
ASSUME WidthAssumption ==
    /\ Width \in [Kinds -> Nat \ {0}]
    /\ Width["BOOL"] < Width["INT8"]
    /\ Width["INT8"] = Width["UINT8"] /\ Width["UINT8"] < Width["INT16"]
    /\ Width["INT16"] = Width["UINT16"] /\ Width["UINT16"] < Width["INT32"]
    /\ Width["INT32"] = Width["UINT32"] /\ Width["UINT32"] < Width["INT64"]
    /\ Width["INT64"] = Width["UINT64"]

-----------------------------------------------------------------------------
(* Casts.                                                                  *)

PowerOfTwo[n \in Nat] == IF n = 0 THEN 1 ELSE 2 * PowerOfTwo[n - 1]

Lowest(k) == IF k \in SignedKinds THEN -(PowerOfTwo[Width[k] - 1]) ELSE 0
Highest(k) ==
    CASE k = "BOOL" -> 1
      [] k \in SignedKinds -> PowerOfTwo[Width[k] - 1] - 1
      [] OTHER -> PowerOfTwo[Width[k]] - 1
InRange(k, n) == Lowest(k) <= n /\ n <= Highest(k)

Truth(condition) == IF condition THEN 1 ELSE 0

\* static_cast of an integer to a kind
Cast(k, n) ==
    IF k = "BOOL" THEN Truth(n # 0)
    ELSE LET rest == n % PowerOfTwo[Width[k]]
         IN IF rest > Highest(k) THEN rest - PowerOfTwo[Width[k]] ELSE rest

\* what mValue holds after a value of some kind was assigned to it
Stored(n) == Cast("UINT64", n)

-----------------------------------------------------------------------------
(* Kinds of results.                                                       *)

integralPromotion(k) == IF Rank["INT32"] < Rank[k] THEN k ELSE "INT32"

Greater(k, l) == IF Rank[k] < Rank[l] THEN l ELSE k

\* (A fault: of two kinds the signed one wins.)
usualArithmeticConversionToSigned(k, l) ==
    IF k \in SignedKinds /\ l \notin SignedKinds THEN k
    ELSE IF l \in SignedKinds /\ k \notin SignedKinds THEN l
    ELSE Greater(k, l)

usualArithmeticConversion(k, l) ==
    LET unsignedKind == IF k \in SignedKinds THEN l ELSE k
        signedKind == IF k \in SignedKinds THEN k ELSE l
    IN CASE k = "BOOL" -> l
         [] l = "BOOL" -> k
         [] k # "BOOL" /\ l # "BOOL" /\ (k \in SignedKinds <=> l \in SignedKinds) -> Greater(k, l)
         [] OTHER -> IF Rank[unsignedKind] >= Rank[signedKind] THEN unsignedKind ELSE signedKind

-----------------------------------------------------------------------------
(* Operators.                                                              *)

UnaryOps == {"+", "-", "!", "~"}
Arithmetic == {"+", "-", "*", "/", "%"}
Bitflip == {"|", "^", "&"}
Comparison == {"<", ">", "<=", ">=", "==", "!="}
Shift == {">>", "<<"}
Logical == {"||", "&&"}
BinaryOps == Arithmetic \cup Bitflip \cup Comparison \cup Shift \cup Logical

Magnitude(n) == IF n < 0 THEN -n ELSE n
\* division as C++ does it: towards zero
Quotient(l, r) ==
    LET q == Magnitude(l) \div Magnitude(r) IN IF (l < 0) = (r < 0) THEN q ELSE -q

\* the bits of an integer in two's complement, and back
Bits(k, n) == {i \in 0 .. Width[k] - 1 : (n \div PowerOfTwo[i]) % 2 = 1}
Number(k, bits) ==
    LET sum[n \in 0 .. Width[k]] ==
            IF n = 0 THEN 0
            ELSE sum[n - 1] + (IF n - 1 \in bits THEN PowerOfTwo[n - 1] ELSE 0)
    IN sum[Width[k]]

\* (A fault: the result is stored as it is promoted.)
handleUnaryPromoted(k, op, n) ==
    CASE op = "+" -> n
      [] op = "-" -> -n
      [] op = "!" -> Truth(n = 0)
      [] op = "~" -> -n - 1

handleUnary(k, op, n) ==
    Cast(k, CASE op = "+" -> n
              [] op = "-" -> -n
              [] op = "!" -> Truth(n = 0)
              [] op = "~" -> -n - 1)

\* the division instruction stops the process
Traps(k, op, l, r) ==
    op \in {"/", "%"} /\ (r = 0 \/ (k \in SignedKinds /\ l = Lowest(k) /\ r = -1))

Holds(op, l, r) ==
    CASE op = "<" -> l < r [] op = ">" -> l > r [] op = "<=" -> l <= r
      [] op = ">=" -> l >= r [] op = "==" -> l = r [] op = "!=" -> l # r

\* operands and result are of kind k; an overflow wraps
handleBinaryCommon(k, op, l, r) ==
    Cast(k, CASE op = "+" -> l + r
              [] op = "-" -> l - r
              [] op = "*" -> l * r
              [] op = "/" -> Quotient(l, r)
              [] op = "%" -> l - r * Quotient(l, r)
              [] op = "|" -> Number(k, Bits(k, l) \cup Bits(k, r))
              [] op = "&" -> Number(k, Bits(k, l) \cap Bits(k, r))
              [] op = "^" -> Number(k, SymDiff(Bits(k, l), Bits(k, r)))
              [] op \in Comparison -> Truth(Holds(op, l, r)))

\* the processor takes the number of bits modulo the width
handleShift(k, op, n, numBits) ==
    LET factor == PowerOfTwo[numBits % Width[k]]
    IN Cast(k, IF op = "<<" THEN n * factor ELSE n \div factor)

handleLogical(op, l, r) ==
    Truth(IF op = "||" THEN l # 0 \/ r # 0 ELSE l # 0 /\ r # 0)
=============================================================================
