---------------------------- MODULE ExprHandler ----------------------------
(* How the type checker checks an expression                                *)
(* (src/lang/processors/type_checker/expr_handler.cc).                      *)
(*                                                                          *)
(* An expression is a record: kind, name or operator, number, comparison    *)
(* operators, operands (a call's function first), types written in it, and  *)
(* the info the checker gives it.  Check returns the expression with the    *)
(* infos of all its parts.  An info's kind is "no" where the check returned *)
(* false, "fail" where it ended the program; issue says that an issue was   *)
(* added, here or below.                                                    *)
EXTENDS LangTypes

Info(k, t, v, issue) == [k |-> k, t |-> t, v |-> v, issue |-> issue]
Unknown         == Info("unknown", NoType, NoConstant, FALSE)
NoInfo          == Info("no", NoType, NoConstant, TRUE)
FailInfo        == Info("fail", NoType, NoConstant, TRUE)
KindInfo(k, t)  == Info(k, t, NoConstant, FALSE)
ValueInfo(t)    == KindInfo("value", t)
ConstInfo(t, v) == IF v.k = "fail" THEN FailInfo ELSE Info("const", t, v, FALSE)

IsConstant(x) == x.k = "const"
IsValue(x) == x.k \in {"const", "variable", "value", "valueok"}
IsAddressable(x) == x.k = "variable"
Basics(x) == UnderlyingOf(x.t).n              \* the kind of a basic operand
IsOfBasics(x, names) == UnderlyingOf(x.t).k = "basic" /\ Basics(x) \in names

(* CheckBoolExpr, CheckIntExpr and CheckIntegerExpr.  CheckIntExpr tests    *)
(* the number of the kind bit by bit against kInt | kUntypedInt.            *)
IsBoolExpr(x) == IsValue(x) /\ IsOfBasics(x, BooleanBasics)
IsIntExpr(x) ==
  /\ IsValue(x) /\ UnderlyingOf(x.t).k = "basic"
  /\ KindNumber(Basics(x)) & (KindNumber("int") | KindNumber("untyped int")) # 0
IsIntegerExpr(x) == IsValue(x) /\ IsOfBasics(x, IntegerBasics)

IsBasicOperand(x) == IsValue(x) /\ UnderlyingOf(x.t).k = "basic"
NumericOrString == IntegerBasics \cup StringBasics

\* The operands' types fit: one is untyped, or they are identical.
SameOperandTypes(x, y) ==
  Basics(x) \in UntypedBasics \/ Basics(y) \in UntypedBasics \/ IsIdentical(x.t, y.t)
\* The untyped operand takes the type of the other.
TypedSide(x, y) == IF IsUntyped(x.t) THEN y.t ELSE x.t
\* A constant when both operands are, computed by constants::BinaryOp.
FoldedBinary(op, x, y) ==
  IF IsConstant(x) /\ IsConstant(y) THEN ConstInfo(TypedSide(x, y), ConstBinary(x.v, op, y.v))
  ELSE ValueInfo(TypedSide(x, y))
FoldedUnary(op, x) == IF IsConstant(x) THEN ConstInfo(x.t, ConstUnary(op, x.v)) ELSE ValueInfo(x.t)

UnaryArithmetic(op, x) ==
  IF IsBasicOperand(x) /\ Basics(x) \in IntegerBasics THEN FoldedUnary(op, x) ELSE NoInfo

(* The test is inverted: a Boolean operand is refused.                      *)
UnaryLogic(x) ==
  IF IsBasicOperand(x) /\ Basics(x) \notin BooleanBasics THEN FoldedUnary("!", x) ELSE NoInfo

UnaryAddress(op, x) ==
  CASE x.k = "no" -> NoInfo
    [] x.k # "no" /\ op = "&" ->
         IF IsAddressable(x) THEN ValueInfo(Pointer("strong", x.t)) ELSE NoInfo
    [] x.k # "no" /\ op # "&" /\ x.t = NoType -> FailInfo
    [] x.k # "no" /\ op # "&" /\ x.t # NoType ->
         IF x.t.k = "pointer" /\ op = (IF x.t.n = "strong" THEN "*" ELSE "%")
         THEN KindInfo("variable", x.t.ts[1]) ELSE NoInfo

BinaryArithmetic(op, x, y) ==
  IF /\ IsBasicOperand(x) /\ IsBasicOperand(y)
     /\ {Basics(x), Basics(y)} \subseteq (IF op = "+" THEN NumericOrString ELSE IntegerBasics)
     /\ (Basics(x) \in IntegerBasics) = (Basics(y) \in IntegerBasics)
     /\ SameOperandTypes(x, y)
  THEN FoldedBinary(op, x, y) ELSE NoInfo

BinaryLogic(op, x, y) ==
  IF /\ IsBasicOperand(x) /\ IsBasicOperand(y)
     /\ {Basics(x), Basics(y)} \subseteq BooleanBasics
     /\ SameOperandTypes(x, y)
  THEN FoldedBinary(op, x, y) ELSE NoInfo

\* The offset is untyped or unsigned, and a constant one is not negative.
ShiftFits(x, y) ==
  /\ IsBasicOperand(x) /\ IsBasicOperand(y)
  /\ {Basics(x), Basics(y)} \subseteq IntegerBasics
  /\ Basics(y) \in UntypedBasics \cup UnsignedBasics
  /\ IsConstant(x) /\ IsConstant(y) => y.v.v >= 0
BinaryShift(op, x, y) ==
  LET t == IF IsUntyped(x.t) THEN Basic("int") ELSE x.t IN
  IF ~ShiftFits(x, y) THEN NoInfo
  ELSE IF IsConstant(x) /\ IsConstant(y) THEN ConstInfo(t, ConstShift(x.v, op, y.v.v))
  ELSE ValueInfo(t)

(* The comparisons of a chain, constant while all operands are; any two     *)
(* types are comparable and orderable.                                      *)
RECURSIVE CompareFrom(_, _, _, _)
CompareFrom(ops, xs, i, v) ==
  IF v.k = "fail" THEN FailInfo
  ELSE IF i > Len(ops) THEN ConstInfo(Basic("untyped bool"), v)
  ELSE IF ~IsConstant(xs[i]) \/ ~IsConstant(xs[i + 1]) THEN ValueInfo(Basic("untyped bool"))
  ELSE CompareFrom(ops, xs, i + 1, IF v.v = 0 THEN v ELSE ConstCompare(xs[i].v, ops[i], xs[i + 1].v))
CompareInfo(ops, xs) ==
  IF \A i \in DOMAIN xs : IsValue(xs[i]) THEN CompareFrom(ops, xs, 1, BoolConst(1)) ELSE NoInfo

TypeAssert(x, t) ==
  IF IsValue(x) /\ x.t.k = "interface" THEN KindInfo("valueok", t) ELSE NoInfo

IndexInfo(x, i) ==
  LET under == UnderlyingOf(x.t)
      accessed == IF under.k = "pointer" /\ under.ts[1].k = "array" THEN under.ts[1] ELSE under IN
  CASE ~(IsValue(x) /\ IsIntExpr(i)) -> NoInfo
    [] IsValue(x) /\ IsIntExpr(i) /\ accessed.k \in {"array", "slice"} ->
         KindInfo("variable", accessed.ts[1])
    [] IsValue(x) /\ IsIntExpr(i) /\ accessed.k = "basic" /\ accessed.n \in StringBasics ->
         ValueInfo(Basic("uint8"))
    [] OTHER -> NoInfo

(* A conversion.  The test for a basic result is inverted: a constant       *)
(* converted to a basic type is a value, and one converted to another type  *)
(* is treated as if that were basic.                                        *)
Conversion(e, ctx, t, xs) ==
  CASE e.ts # <<>> \/ Len(xs) # 1 -> NoInfo
    [] e.ts = <<>> /\ Len(xs) = 1 /\ UnderlyingOf(t).k # "basic" ->
         IF ctx.const THEN NoInfo ELSE IF IsConstant(xs[1]) THEN FailInfo ELSE ValueInfo(t)
    [] OTHER -> ValueInfo(t)

\* make refuses the slices it is for.
Builtin(name, ts, xs) ==
  CASE name = "len" ->
         IF /\ ts = <<>> /\ Len(xs) = 1
            /\ UnderlyingOf(xs[1].t).k \in {"array", "slice"} \/ IsOfBasics(xs[1], {"string"})
         THEN ValueInfo(Basic("int")) ELSE NoInfo
    [] name = "make" ->
         IF /\ Len(ts) = 1 /\ Len(xs) = 1 /\ ts[1].k # "slice"
            /\ xs[1].t.k = "basic" /\ xs[1].t.n \in {"int", "untyped int"}
         THEN ValueInfo(ts[1]) ELSE NoInfo
    [] name = "new" ->
         IF Len(ts) = 1 /\ xs = <<>> THEN ValueInfo(Pointer("strong", ts[1])) ELSE NoInfo

(* A call of a function: the results' types are known, and the call's info  *)
(* set, whether or not the arguments fit.                                   *)
ArgTypes(xs) ==
  IF Len(xs) = 1 /\ xs[1].t.k = "tuple" THEN xs[1].t.ts ELSE [i \in DOMAIN xs |-> xs[i].t]
ArgsFit(params, ts) ==
  Len(ts) = Len(params) /\ \A i \in DOMAIN ts : IsAssignableTo(ts[i], params[i])
ResultInfo(results) ==
  CASE results = <<>> -> KindInfo("novalue", NoType)
    [] Len(results) = 1 -> ValueInfo(results[1])
    [] OTHER -> ValueInfo(Tuple(results))
CallOf(signature, xs) ==
  [ResultInfo(signature.rs) EXCEPT !.issue = ~ArgsFit(signature.ts, ArgTypes(xs))]
FuncCall(t, ts, xs) ==
  CASE t.k # "signature" -> NoInfo
    [] t.k = "signature" /\ t.ps = <<>> -> CallOf(t, xs)
    [] t.k = "signature" /\ t.ps # <<>> /\ Len(ts) # Len(t.ps) ->
         IF ts = <<>> THEN FailInfo ELSE NoInfo
    [] OTHER ->
         IF \A i \in DOMAIN ts : IsAssignableTo(ts[i], t.ps[i])
         THEN CallOf(Instantiate([t EXCEPT !.ps = <<>>], ArgsFor(t.ps, ts)), xs) ELSE NoInfo

CallInfo(e, ctx, func, xs) ==
  CASE func.k = "no" \/ \E i \in DOMAIN xs : ~IsValue(xs[i]) -> NoInfo
    [] func.k = "type" -> Conversion(e, ctx, func.t, xs)
    [] func.k = "builtin" -> IF ctx.const THEN NoInfo ELSE Builtin(e.ops[1].s, e.ts, xs)
    [] func.k \in {"variable", "value", "valueok"} ->
         IF ctx.const THEN NoInfo ELSE FuncCall(UnderlyingOf(func.t), e.ts, xs)
    [] OTHER -> NoInfo

BasicLit(e) ==
  CASE e.k = "int" -> ConstInfo(Basic("untyped int"), IntConst("i64", e.v))
    [] e.k = "char" -> ConstInfo(Basic("untyped rune"), IntConst("i32", e.v))
    [] e.k = "string" -> ConstInfo(Basic("untyped string"), StrConst(e.v))

(* An identifier that the identifier resolver found; one whose object has   *)
(* no type yet ends the checker.  In a constant expression an identifier    *)
(* that is no constant adds an issue, and its info is set all the same.     *)
Object(k, t, v) == [k |-> k, t |-> t, v |-> v]
ObjectInfo(s, o, ctx) ==
  CASE o.k = "builtin" -> KindInfo("builtin", NoType)
    [] o.k = "nil" -> ValueInfo(Basic("untyped nil"))
    [] o.k \notin {"builtin", "nil"} /\ o.t = NoType -> FailInfo
    [] OTHER ->
         CASE o.k = "type" -> KindInfo("type", o.t)
           [] o.k = "const" -> ConstInfo(o.t, IF s = "iota" THEN IntConst("i64", ctx.iota) ELSE o.v)
           [] o.k \in {"variable", "func"} -> KindInfo("variable", o.t)
Ident(s, ctx, objs) ==
  IF s \notin DOMAIN objs THEN NoInfo
  ELSE [ObjectInfo(s, objs[s], ctx) EXCEPT !.issue = @ \/ (ctx.const /\ objs[s].k # "const")]

\* What a constant expression must not contain is not looked into.
ForbiddenInConstant(e) ==
  e.k \in {"assert", "index", "complit"} \/ (e.k = "unary" /\ e.s \in {"*", "%", "&"})

UnaryInfo(op, x) ==
  CASE op \in {"+", "-", "^"} -> UnaryArithmetic(op, x)
    [] op = "!" -> UnaryLogic(x)
    [] op \in {"*", "%", "&"} -> UnaryAddress(op, x)
BinaryInfo(op, x, y) ==
  CASE op \in ArithOps -> BinaryArithmetic(op, x, y)
    [] op \in {"<<", ">>"} -> BinaryShift(op, x, y)
    [] op \in {"&&", "||"} -> BinaryLogic(op, x, y)

InfoOf(e, ctx, objs, xs) ==
  CASE e.k \in {"int", "char", "string"} -> BasicLit(e)
    [] e.k = "ident" -> Ident(e.s, ctx, objs)
    [] e.k = "paren" -> [xs[1] EXCEPT !.issue = FALSE]
    [] e.k = "unary" -> UnaryInfo(e.s, xs[1])
    [] e.k = "binary" -> BinaryInfo(e.s, xs[1], xs[2])
    [] e.k = "compare" -> CompareInfo(e.c, xs)
    [] e.k = "index" -> IndexInfo(xs[1], xs[2])
    [] e.k = "assert" -> TypeAssert(xs[1], e.ts[1])
    [] e.k = "call" -> CallInfo(e, ctx, xs[1], Tail(xs))
    [] e.k = "complit" -> ValueInfo(e.ts[1])

Judged(e, ctx, objs, ops, xs) ==
  [e EXCEPT !.ops = ops, !.info =
     IF \E i \in DOMAIN xs : xs[i].k = "fail" THEN FailInfo
     ELSE [InfoOf(e, ctx, objs, xs) EXCEPT !.issue = @ \/ \E i \in DOMAIN xs : xs[i].issue]]
JudgedWith(e, ctx, objs, ops) == Judged(e, ctx, objs, ops, [i \in DOMAIN ops |-> ops[i].info])

NoContext == [const |-> FALSE, iota |-> 0]
RECURSIVE CheckExpr(_, _, _), CheckOperands(_, _, _, _)
CheckOperands(es, first, rest, objs) ==
  IF es = <<>> THEN <<>>
  ELSE <<CheckExpr(Head(es), first, objs)>> \o CheckOperands(Tail(es), rest, rest, objs)
CheckExpr(e, ctx, objs) ==
  IF ctx.const /\ ForbiddenInConstant(e) THEN [e EXCEPT !.info = NoInfo]
  ELSE JudgedWith(e, ctx, objs,
         CheckOperands(e.ops, IF e.k = "call" THEN NoContext ELSE ctx, ctx, objs))
CheckExprs(es, objs) == CheckOperands(es, NoContext, NoContext, objs)
============================================================================
