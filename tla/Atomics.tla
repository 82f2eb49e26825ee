------------------------------ MODULE Atomics ------------------------------
(* Integers of a fixed width and Booleans (src/common/atomics) and the      *)
(* constant values the type checker computes with them                      *)
(* (src/lang/representation/constants).                                     *)
(*                                                                          *)
(* An integer is a record with its type and its number.  The widths are a   *)
(* constant: a check uses smaller ones, in the same order, so that the edge *)
(* of every type is near.  IntBits is the width operands are promoted to    *)
(* before C++ computes with them, the width of "i32".                       *)
EXTENDS Integers, Sequences, Bitwise

CONSTANT WidthOf        \* the number of bits of "8", "16", "32" and "64"

ASSUME WidthsGrow ==
  /\ DOMAIN WidthOf = {"8", "16", "32", "64"}
  /\ WidthOf["8"] < WidthOf["16"]
  /\ WidthOf["16"] < WidthOf["32"]
  /\ WidthOf["32"] < WidthOf["64"]

SignedTypes   == {"i8", "i16", "i32", "i64"}
UnsignedTypes == {"u8", "u16", "u32", "u64"}
IntTypes      == SignedTypes \cup UnsignedTypes

Size(t) == IF t \in {"i8", "u8"} THEN "8" ELSE
           IF t \in {"i16", "u16"} THEN "16" ELSE
           IF t \in {"i32", "u32"} THEN "32" ELSE "64"

BitSizeOf(t)  == WidthOf[Size(t)]
IsSigned(t)   == t \in SignedTypes
IsUnsigned(t) == ~IsSigned(t)
ToUnsigned(t) == CHOOSE u \in UnsignedTypes : Size(u) = Size(t)

MinOf(t) == IF IsSigned(t) THEN -(2 ^ (BitSizeOf(t) - 1)) ELSE 0
MaxOf(t) == MinOf(t) + 2 ^ BitSizeOf(t) - 1
InRange(t, n) == MinOf(t) <= n /\ n <= MaxOf(t)

(* static_cast to the type: the number modulo the width.                    *)
Cast(t, n) == MinOf(t) + ((n - MinOf(t)) % (2 ^ BitSizeOf(t)))
Bits(t, n) == n % (2 ^ BitSizeOf(t))

(* Int::CanConvertTo compares the value with the limits of the other type   *)
(* as C++ compares them: the negative minimum of a signed type that is not  *)
(* wider becomes a huge number next to an unsigned value of 32 or 64 bits,  *)
(* and no value is above it and below the maximum.                          *)
CanConvertTo(from, n, to) ==
  /\ ~(n < 0 /\ IsUnsigned(to))
  /\ ~(from \in {"u32", "u64"} /\ IsSigned(to) /\ BitSizeOf(to) <= BitSizeOf(from))
  /\ n <= MaxOf(to)
  /\ n >= MinOf(to)

(* Bool::ConvertTo gives 0 for true and 1 for false.                        *)
BoolConvertTo(b) == 1 - b

IntBits == WidthOf["32"]
IsTrue(b) == IF b THEN 1 ELSE 0

(* Int::CanCompute and Int::Compute of a unary operation.                   *)
CanComputeUnary(op, t, n) == op = "-" => IsSigned(t) /\ n # MinOf(t)
ComputeUnary(op, t, n) == IF op = "-" THEN Cast(t, -n) ELSE Cast(t, -n - 1)

BoolCompute(op, a, b) ==
  CASE op = "==" -> IsTrue(a = b)
    [] op = "!=" -> IsTrue(a # b)
    [] op = "&&" -> a * b
    [] op = "||" -> IsTrue(a + b > 0)

IntCompare(op, a, b) ==
  CASE op = "==" -> IsTrue(a = b)
    [] op = "!=" -> IsTrue(a # b)
    [] op = "<"  -> IsTrue(a < b)
    [] op = "<=" -> IsTrue(a <= b)
    [] op = ">=" -> IsTrue(a >= b)
    [] op = ">"  -> IsTrue(a > b)

Abs(n) == IF n < 0 THEN -n ELSE n
Quotient(a, b) ==                   \* C++ rounds towards zero
  IF (a < 0) = (b < 0) THEN Abs(a) \div Abs(b) ELSE -(Abs(a) \div Abs(b))

(* Division traps for a zero divisor, and for the quotient that the type    *)
(* the operands are promoted to cannot hold.                                *)
Traps(op, t, a, b) ==
  /\ op \in {"/", "%"}
  /\ b = 0 \/ (b = -1 /\ a = MinOf(t) /\ t \in {"i32", "i64"})

(* Int::Compute of a binary operation that does not trap.                   *)
IntCompute(op, t, a, b) ==
  Cast(t, CASE op = "+"  -> a + b
            [] op = "-"  -> a - b
            [] op = "*"  -> a * b
            [] op = "/"  -> Quotient(a, b)
            [] op = "%"  -> a - b * Quotient(a, b)
            [] op = "&"  -> Bits(t, a) & Bits(t, b)
            [] op = "|"  -> Bits(t, a) | Bits(t, b)
            [] op = "^"  -> Bits(t, a) ^^ Bits(t, b)
            [] op = "&^" -> Bits(t, a) - (Bits(t, a) & Bits(t, b)))

(* Int::Shift shifts in the promoted type of its left operand and is        *)
(* undefined for an offset that is negative or not below its width.         *)
ShiftDefined(t, offset) ==
  /\ offset >= 0
  /\ offset < IF BitSizeOf(t) < IntBits THEN IntBits ELSE BitSizeOf(t)
IntShift(op, t, a, offset) ==
  IF op = "<<" THEN Cast(t, a * (2 ^ offset)) ELSE a \div (2 ^ offset)

----------------------------------------------------------------------------
(* Constant values: a Boolean, an integer with its type, or a string of at  *)
(* most one letter, whose number stands for the letter.  A computation that *)
(* ends the checker (logging::fail, a bad variant access, a trap) gives     *)
(* Failed.                                                                  *)
NoConstant    == [k |-> "no", t |-> "", v |-> 0]
Failed        == [k |-> "fail", t |-> "", v |-> 0]
BoolConst(b)  == [k |-> "bool", t |-> "", v |-> b]
IntConst(t, n) == [k |-> "int", t |-> t, v |-> n]
StrConst(s)   == [k |-> "string", t |-> "", v |-> s]

OrderOps   == {"<", "<=", ">=", ">"}
CompareOps == OrderOps \cup {"==", "!="}
ArithOps   == {"+", "-", "*", "/", "%", "&", "|", "^", "&^"}

(* constants::Compare leaves with false when the integers CAN be compared,  *)
(* and compares those that cannot: std::get of the other type throws.       *)
ConstCompare(x, op, y) ==
  IF x.k # y.k THEN Failed ELSE
  CASE x.k = "bool" -> IF op \in OrderOps THEN Failed ELSE BoolConst(BoolCompute(op, x.v, y.v))
    [] x.k = "int" -> IF x.t = y.t THEN BoolConst(0) ELSE Failed
    [] x.k = "string" -> BoolConst(IntCompare(op, x.v, y.v))

ConstBinary(x, op, y) ==
  CASE x.k # y.k -> Failed
    [] x.k = y.k /\ x.k = "bool" ->
         IF op \in {"&&", "||"} THEN BoolConst(BoolCompute(op, x.v, y.v)) ELSE Failed
    [] x.k = y.k /\ x.k = "int" ->
         IF x.t = y.t /\ op \in ArithOps /\ ~Traps(op, x.t, x.v, y.v)
         THEN IntConst(x.t, IntCompute(op, x.t, x.v, y.v)) ELSE Failed
    [] x.k = y.k /\ x.k = "string" ->
         IF op = "+" THEN StrConst(10 * x.v + y.v) ELSE Failed

(* constants::ShiftOp; the checker gives it an offset of type u64.          *)
ConstShift(x, op, offset) ==
  IF x.k = "int" /\ ShiftDefined(x.t, offset)
  THEN IntConst(x.t, IntShift(op, x.t, x.v, offset)) ELSE Failed

ConstUnary(op, x) ==
  CASE x.k = "bool" -> IF op = "!" THEN BoolConst(1 - x.v) ELSE Failed
    [] x.k = "int" ->
         IF op = "+" THEN x ELSE
         IF op \in {"-", "^"} /\ CanComputeUnary(op, x.t, x.v)
         THEN IntConst(x.t, ComputeUnary(op, x.t, x.v)) ELSE Failed
    [] x.k = "string" -> Failed
=============================================================================
