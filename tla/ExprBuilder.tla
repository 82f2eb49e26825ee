---------------------------- MODULE ExprBuilder ----------------------------
(* How a checked expression becomes instructions                            *)
(* (src/lang/processors/ir/builder: expr_builder.cc, value_builder.cc,      *)
(* type_builder.cc, context.cc).                                            *)
(*                                                                          *)
(* The builder threads g: the function's blocks and the edges between them, *)
(* the block instructions are added to (0 is the null block), the next      *)
(* number of a computed value, the contexts of the statements around, the   *)
(* objects the checker knows, the values of what was built last, and        *)
(* whether the builder ended the program or used a null pointer.            *)
(*                                                                          *)
(* An IR type is a sequence: a pointer's strength and the element's type.   *)
EXTENDS ExprHandler

IrBool   == <<"bool">>
IrString == <<"string">>
IrPtr    == <<"ptr">>
IrFunc   == <<"func">>
IrI64    == <<"i64">>
Strengths == {"strong", "weak"}
IsIrInt(t)    == t[1] \in IntTypes
IsShared(t)   == t[1] \in Strengths
IsAtomicType(t) == t[1] \in IntTypes \cup {"bool", "ptr", "func"}

Value(k, n, t) == [k |-> k, n |-> n, t |-> t]
Computed(n, t) == Value("computed", n, t)
Null       == Value("null", 0, <<"none">>)
NilPointer == Value("nil", 0, IrPtr)
NilFunc    == Value("func", 0, IrFunc)
BoolValue(b)   == Value("bool", b, IrBool)
IntValue(t, n) == Value("int", n, t)

Instr(op, name, res, args, dst) ==
  [op |-> op, name |-> name, res |-> res, args |-> args, dst |-> dst]
Jump(b)                  == Instr("jump", "", <<>>, <<>>, <<b>>)
JumpCond(x, true, false) == Instr("jump_cond", "", <<>>, <<x>>, <<true, false>>)

----------------------------------------------------------------------------
Crash(g) == [g EXCEPT !.crash = TRUE, !.vs = <<Null>>]
EmitTo(g, b, instr) ==
  IF b = 0 THEN Crash(g) ELSE [g EXCEPT !.blocks[b] = Append(@, instr)]
Emit(g, instr) == EmitTo(g, g.cur, instr)
Fresh(g, t) == [g EXCEPT !.next = @ + 1, !.vs = <<Computed(g.next, t)>>]
Result(g, op, name, t, args) ==
  Fresh(Emit(g, Instr(op, name, <<Computed(g.next, t)>>, args, <<>>)), t)
Phi(g, t, args, origins) ==
  Fresh(Emit(g, Instr("phi", "", <<Computed(g.next, t)>>, args, origins)), t)
Delete(g, v)   == Emit(g, Instr("delete", "", <<>>, <<v>>, <<>>))
Store(g, a, v) == Emit(g, Instr("store", "", <<>>, <<a, v>>, <<>>))
LoadFrom(g, a, t) == Result(g, "load", "", t, <<a>>)
CopyOf(g, v) == IF v = Null THEN Crash(g) ELSE Result(g, "copy", "", v.t, <<v>>)
Built(g, v)  == [g EXCEPT !.vs = <<v>>]
AddBlock(g)  == [g EXCEPT !.blocks = Append(@, <<>>)]
NewBlock(g)  == Len(g.blocks)
Enter(g, b)  == [g EXCEPT !.cur = b]
Connect(g, edges) == [g EXCEPT !.edges = @ \cup edges]

----------------------------------------------------------------------------
BuildTypeForBasic(n) ==
  CASE n \in BooleanBasics -> IrBool
    [] n \in StringBasics -> IrString
    [] n = "untyped rune" -> <<"i32">>
    [] n = "untyped nil" -> IrPtr
    [] OTHER -> <<IntTypeOf(n)>>
RECURSIVE BuildType(_)
BuildType(t) ==
  CASE t.k = "basic" -> BuildTypeForBasic(t.n)
    [] t.k = "pointer" -> <<t.n>> \o BuildType(t.ts[1])
    [] t.k \in {"typeparam", "named", "alias", "instance"} -> BuildType(UnderlyingOf(t))
    [] t.k = "signature" -> IrFunc
    [] t.k \in {"array", "slice", "struct", "interface"} -> <<t.k>>
    [] t.k \in {"tuple", "none"} -> <<"fail">>
TypeFails(t) == LET ir == BuildType(t) IN ir[Len(ir)] = "fail"

BuildConstant(c) ==
  CASE c.k = "bool" -> BoolValue(c.v)
    [] c.k = "int" -> IntValue(<<c.t>>, c.v)
    [] c.k = "string" -> Value("string", c.v, IrString)

\* Null where the builder ends the program: a default is known for the types
\* of the basic kinds, pointers and functions alone.
BuildDefaultForType(t) ==
  CASE t.k = "basic" /\ t.n \in BooleanBasics -> BoolValue(0)
    [] t.k = "basic" /\ t.n \in IntegerBasics -> IntValue(BuildType(t), 0)
    [] t.k = "basic" /\ t.n \in StringBasics -> Value("string", 0, IrString)
    [] t.k = "pointer" -> NilPointer
    [] t.k = "signature" -> NilFunc
    [] OTHER -> Null

BuildConversion(g, t) ==
  CASE g.vs[1] = Null -> Crash(g)
    [] g.vs[1] # Null /\ g.vs[1].t = t -> g
    [] OTHER -> IF IsAtomicType(g.vs[1].t) /\ IsAtomicType(t)
                THEN Result(g, "convert", "", t, g.vs) ELSE Crash(g)

----------------------------------------------------------------------------
(* Contexts of statements, the innermost first.                             *)
KnownVars(g) == UNION {{c.vars[i] : i \in DOMAIN c.vars} : c \in {g.ctxs[j] : j \in DOMAIN g.ctxs}}
LookupAddressOfVar(g, s) ==
  LET found == {v \in KnownVars(g) : v.s = s} IN
  IF found = {} THEN Null ELSE (CHOOSE v \in found : TRUE).a

NewPointer(g, t, v) ==
  IF TypeFails(t) \/ v = Null THEN Crash(g)
  ELSE Fresh(Store(Emit(g, Instr("make", "", <<Computed(g.next, <<"strong">> \o BuildType(t))>>,
                                 <<IntValue(IrI64, 1)>>, <<>>)),
                   Computed(g.next, <<"strong">> \o BuildType(t)), v),
             <<"strong">> \o BuildType(t))
AddAddressOfVar(g, s) ==
  IF LookupAddressOfVar(g, s) # Null THEN Crash(g)
  ELSE [g EXCEPT !.ctxs[1].vars = Append(@, [s |-> s, a |-> g.vs[1]])]
BuildVarDecl(g, s, t) ==
  AddAddressOfVar(NewPointer(g, t, BuildDefaultForType(t)), s)

----------------------------------------------------------------------------
(* Identifiers.  A pointer read from a variable is copied.                  *)
Owned(g) == IF IsShared(g.vs[1].t) THEN CopyOf(g, g.vs[1]) ELSE g
BuildValueOfVariable(g, s, t) ==
  IF LookupAddressOfVar(g, s) = Null THEN Crash(g)
  ELSE Owned(LoadFrom(g, LookupAddressOfVar(g, s), BuildType(t)))
BuildValueOfIdent(g, s, o) ==
  CASE o.k = "const" -> Built(g, BuildConstant(o.v))
    [] o.k = "variable" -> BuildValueOfVariable(g, s, o.t)
    [] o.k = "func" -> Built(g, Value("func", o.v.v, IrFunc))
    [] o.k = "nil" -> Built(g, NilPointer)
    [] OTHER -> Crash(g)
BuildAddressOfIdent(g, s) == CopyOf(g, LookupAddressOfVar(g, s))

(* Comparisons: the operand of fewer bits is converted, the right one if    *)
(* the left is unsigned.                                                    *)
BuildIntComparison(g, op, x, y) ==
  IF ~IsIrInt(x.t) \/ ~IsIrInt(y.t) THEN Crash(g)
  ELSE IF BitSizeOf(x.t[1]) > BitSizeOf(y.t[1]) \/ IsUnsigned(x.t[1])
       THEN LET converted == BuildConversion(Built(g, y), x.t)
            IN Result(converted, "int_compare", op, IrBool, <<x>> \o converted.vs)
       ELSE LET converted == BuildConversion(Built(g, x), y.t)
            IN Result(converted, "int_compare", op, IrBool, converted.vs \o <<y>>)
BuildComparison(g, op, xe, x, ye, y) ==
  CASE UnderlyingOf(xe.info.t).k # "basic" \/ UnderlyingOf(ye.info.t).k # "basic" ->
         Built(g, BoolValue(1))
    [] OTHER ->
         CASE Basics(xe.info) \in BooleanBasics ->
                IF op \in {"==", "!="} THEN Result(g, "bool_binary", op, IrBool, <<x, y>>) ELSE Crash(g)
           [] Basics(xe.info) \in IntegerBasics -> BuildIntComparison(g, op, x, y)
           [] OTHER -> Built(g, BoolValue(1))

\* The merge of && and ||: from is the block that decides, to the one the
\* right operand, begun in block right, ends in.
BuildMerge(g, op, x, from, right, y, to) ==
  LET merge == NewBlock(g) IN
  Phi(Enter(Connect(EmitTo(EmitTo(g, from, IF op = "&&" THEN JumpCond(x, right, merge)
                                           ELSE JumpCond(x, merge, right)),
                           to, Jump(merge)),
                    {<<from, right>>, <<from, merge>>, <<to, merge>>}), merge),
      IrBool, <<BoolValue(IsTrue(op = "||")), y>>, <<from, to>>)

----------------------------------------------------------------------------
RECURSIVE BuildValuesOfExpr(_, _), BuildValuesOfExprs(_, _, _), BuildChain(_, _, _, _, _, _)

OneValue(g) == IF Len(g.vs) = 1 THEN g ELSE Crash(g)
BuildValueOfExpr(e, g) == OneValue(BuildValuesOfExpr(e, g))

\* The first value of each expression.
Front(g, vs) == IF g.vs = <<>> THEN Crash(g) ELSE [g EXCEPT !.vs = vs \o <<Head(@)>>]
BuildMoreExprs(es, r) == BuildValuesOfExprs(es, r, r.vs)
BuildValuesOfExprs(es, g, vs) ==
  IF es = <<>> THEN [g EXCEPT !.vs = vs]
  ELSE BuildMoreExprs(Tail(es), Front(BuildValuesOfExpr(Head(es), g), vs))

BuildAddressOfExpr(e, g) ==
  CASE e.k = "unary" /\ e.s \in {"*", "%"} -> BuildValueOfExpr(e.ops[1], g)
    [] e.k = "ident" -> BuildAddressOfIdent(g, e.s)
    [] e.k = "index" -> Fresh(g, <<"weak">> \o BuildType(e.info.t))
    [] OTHER -> Crash(g)

(* The pointer is deleted once the value is loaded; the value is not copied.*)
BuildValueOfDeRefExpr(g, t) ==
  [Delete(LoadFrom(g, g.vs[1], BuildType(t)), g.vs[1]) EXCEPT !.vs = <<Computed(g.next, BuildType(t))>>]
BuildIntUnary(g, op) == Result(g, "int_unary", op, g.vs[1].t, g.vs)
BuildValueOfUnaryExpr(e, g) ==
  CASE e.s = "&" -> IF e.ops[1].k = "complit" THEN Crash(g) ELSE BuildAddressOfExpr(e.ops[1], g)
    [] e.s \in {"*", "%"} -> BuildValueOfDeRefExpr(BuildValueOfExpr(e.ops[1], g), e.info.t)
    [] e.s = "+" -> BuildValueOfExpr(e.ops[1], g)
    [] e.s \in {"-", "^"} ->
         BuildIntUnary(BuildConversion(BuildValueOfExpr(e.ops[1], g), BuildType(e.info.t)), e.s)
    [] e.s = "!" -> LET x == BuildValueOfExpr(e.ops[1], g) IN Result(x, "bool_not", "", IrBool, x.vs)

(* Both operands of arithmetic get the expression's type, the offset of a   *)
(* shift becomes a u64.                                                     *)
BuildIntOp(g, op, x, e) == Result(g, op, e.s, x.t, <<x>> \o g.vs)
BuildRight(e, g, op, t) ==
  BuildIntOp(BuildConversion(BuildValueOfExpr(e.ops[2], g), t), op, g.vs[1], e)
BuildInts(e, g, op, t, offset) ==
  BuildRight(e, BuildConversion(BuildValueOfExpr(e.ops[1], g), t), op, offset)

\* The second operand of a concatenation is the first one built again.
BuildConcat(e, g, x) == Result(g, "concat", "", IrString, x \o g.vs)
BuildTwice(e, g) == BuildConcat(e, BuildValueOfExpr(e.ops[1], g), g.vs)

BuildLogicMerge(op, x, from, right, g) ==
  BuildMerge(AddBlock(g), op, x, from, right, g.vs[1], g.cur)
BuildLogicRight(e, x, from, g) ==
  BuildLogicMerge(e.s, x, from, NewBlock(g), BuildValueOfExpr(e.ops[2], Enter(g, NewBlock(g))))
BuildLogic(e, g) == BuildLogicRight(e, g.vs[1], g.cur, AddBlock(g))

BuildValueOfBinaryExpr(e, g) ==
  CASE e.info.t.k # "basic" -> Crash(g)           \* read as a basic type all the same
    [] e.info.t.k = "basic" /\ e.s \in {"<<", ">>"} -> BuildInts(e, g, "int_shift", BuildType(e.info.t), <<"u64">>)
    [] e.info.t.k = "basic" /\ e.s \in {"&&", "||"} -> BuildLogic(e, BuildValueOfExpr(e.ops[1], g))
    [] e.info.t.k = "basic" /\ e.s = "+" /\ e.info.t.n \in StringBasics ->
         BuildTwice(e, BuildValueOfExpr(e.ops[1], g))
    [] OTHER -> BuildInts(e, g, "int_binary", BuildType(e.info.t), BuildType(e.info.t))

(* A chain of comparisons.  Every comparison but the last decides in its    *)
(* block whether the next one is made; origins are the blocks that go to    *)
(* the merge block with false.  x is the operand compared last.             *)
\* Mutant: a chain that is cut off holds.
TruesOfOrigins(origins) == [i \in DOMAIN origins |-> BoolValue(1)]
Falses(origins) == [i \in DOMAIN origins |-> BoolValue(0)]
BuildChainEnd(g, merge, origins) ==
  Phi(Enter(Connect(Emit(g, Jump(merge)), {<<g.cur, merge>>}), merge), IrBool,
      Falses(origins) \o g.vs, Append(origins, g.cur))
BuildChainNext(e, i, g, merge, origins, y) ==
  BuildChain(e, i, BuildComparison(g, e.c[i], e.ops[i], y, e.ops[i + 1], g.vs[1]), merge, origins, g.vs[1])
BuildChainStart(e, i, g, merge, origins, x, start) ==
  BuildChainNext(e, i,
    BuildValueOfExpr(e.ops[i + 1],
      Enter(Connect(Emit(g, JumpCond(g.vs[1], start, merge)),
                    {<<g.cur, start>>, <<g.cur, merge>>}), start)),
    merge, Append(origins, g.cur), x)
BuildChain(e, done, g, merge, origins, y) ==
  IF done = Len(e.c) THEN BuildChainEnd(g, merge, origins)
  ELSE BuildChainStart(e, done + 1, AddBlock(g), merge, origins, y, NewBlock(g) + 1)

BuildChainMerge(e, y, g) == BuildChain(e, 1, g, NewBlock(g), <<>>, y)
BuildFirst(e, x, g) ==
  IF Len(e.c) = 1 THEN BuildComparison(g, e.c[1], e.ops[1], x, e.ops[2], g.vs[1])
  ELSE BuildChainMerge(e, g.vs[1], AddBlock(BuildComparison(g, e.c[1], e.ops[1], x, e.ops[2], g.vs[1])))
BuildCompareRight(e, g) == BuildFirst(e, g.vs[1], BuildValueOfExpr(e.ops[2], g))
BuildValueOfCompareExpr(e, g) == BuildCompareRight(e, BuildValueOfExpr(e.ops[1], g))

(* An element of a string has 32 bits; that of a container is not loaded.   *)
BuildStringIndex(g, s) == Result(g, "string_index", "", <<"i32">>, s \o g.vs)
BuildIndexOf(e, g) == BuildStringIndex(BuildValueOfExpr(e.ops[2], g), g.vs)
BuildValueOfIndexExpr(e, g) ==
  IF UnderlyingOf(e.ops[1].info.t).k = "basic" THEN BuildIndexOf(e, BuildValueOfExpr(e.ops[1], g))
  ELSE IF UnderlyingOf(e.ops[1].info.t).k \in {"array", "slice"} THEN Fresh(g, BuildType(e.info.t))
  ELSE Crash(g)

(* Calls.  Arguments are passed as they are.  Conversions and the other     *)
(* builtins than new have no value yet.                                     *)
ResultTypes(info) ==
  CASE info.k = "novalue" -> <<>>
    [] info.t.k = "tuple" -> [i \in DOMAIN info.t.ts |-> BuildType(info.t.ts[i])]
    [] OTHER -> <<BuildType(info.t)>>
EmitCall(g, f, results) ==
  LET rs == [i \in DOMAIN results |-> Computed(g.next + i - 1, results[i])] \o <<>> IN
  [Emit(g, Instr("call", "", rs, f \o g.vs, <<>>)) EXCEPT !.next = @ + Len(rs), !.vs = rs]
BuildCallArgs(e, g) == EmitCall(BuildValuesOfExprs(Tail(e.ops), g, <<>>), g.vs, ResultTypes(e.info))
BuildValuesOfCallExpr(e, g) ==
  CASE e.ops[1].info.k = "type" -> Built(g, Null)
    [] e.ops[1].info.k = "builtin" ->
         IF e.ops[1].s = "new" THEN NewPointer(g, e.ts[1], BuildDefaultForType(e.ts[1]))
         ELSE Built(g, Null)
    [] OTHER -> BuildCallArgs(e, BuildValueOfExpr(e.ops[1], g))

BuildValuesOfExpr(e, g) ==
  CASE g.crash -> g
    [] ~g.crash /\ e.k = "paren" -> BuildValuesOfExpr(e.ops[1], g)
    [] ~g.crash /\ e.k = "unary" -> BuildValueOfUnaryExpr(e, g)
    [] ~g.crash /\ e.k = "binary" -> BuildValueOfBinaryExpr(e, g)
    [] ~g.crash /\ e.k = "compare" -> BuildValueOfCompareExpr(e, g)
    [] ~g.crash /\ e.k = "index" -> BuildValueOfIndexExpr(e, g)
    [] ~g.crash /\ e.k = "call" -> BuildValuesOfCallExpr(e, g)
    [] ~g.crash /\ e.k = "ident" -> BuildValueOfIdent(g, e.s, g.objs[e.s])
    [] ~g.crash /\ e.k \in {"int", "char", "string"} -> Built(g, BuildConstant(e.info.v))
    [] ~g.crash /\ e.k = "assert" -> [g EXCEPT !.vs = <<>>]
    [] ~g.crash /\ e.k = "complit" -> Built(g, Null)
============================================================================
