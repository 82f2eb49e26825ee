---------------------------- MODULE StmtHandler ----------------------------
(* How the type checker checks a function's body: statements and the        *)
(* constants and variables declared in them                                 *)
(* (src/lang/processors/type_checker/{stmt_handler,decl_handler}.cc).       *)
(*                                                                          *)
(* A statement is a record: kind, operator or name, expressions on its left *)
(* and right (a condition is on the left), declared type, and the           *)
(* statements it is made of.  The checker threads g: the objects known so   *)
(* far, the function's results, whether an issue was added and whether the  *)
(* checker ended the program.  An identifier has one object in a function;  *)
(* := defines those that have none.                                         *)
EXTENDS ExprHandler, TLC

CheckState(objs, results) == [objs |-> objs, results |-> results, issue |-> FALSE, fail |-> FALSE]
Noted(g, x, ok) == [g EXCEPT !.issue = @ \/ x.issue \/ ~ok, !.fail = @ \/ x.k = "fail"]
Complain(g, ok) == [g EXCEPT !.issue = @ \/ ~ok]
RECURSIVE NotedAll(_, _)
NotedAll(g, es) == IF es = <<>> THEN g
                   ELSE NotedAll(Noted(g, Head(es).info, IsValue(Head(es).info)), Tail(es))
Define(g, name, o) == [g EXCEPT !.objs = (name :> o) @@ @]
Declare(g, k, name) == Define(g, name, Object(k, NoType, NoConstant))

Checked(s, g) == [s |-> s, g |-> g]

----------------------------------------------------------------------------
(* DeclHandler::ProcessConstant of a constant in a function.                *)
DefaultConstant(n) ==
  CASE n \in BooleanBasics -> BoolConst(0)
    [] n \in StringBasics -> Failed           \* falls through to the default case
    [] n = "untyped rune" -> IntConst("i32", 0)
    [] OTHER -> IntConst(IntTypeOf(n), 0)
DefineConstant(g, name, t, v) ==
  IF v.k = "fail" THEN [g EXCEPT !.fail = TRUE] ELSE Define(g, name, Object("const", t, v))
ConstantValue(g, name, t, x) ==
  CASE x.k = "no" -> Complain(g, FALSE)
    [] x.k # "no" /\ (~IsConstant(x) \/ x.t.k # "basic") -> [g EXCEPT !.fail = TRUE]
    [] IsConstant(x) /\ x.t.k = "basic" /\ (t = NoType \/ UnderlyingOf(t) = x.t) ->
         DefineConstant(g, name, IF t = NoType THEN x.t ELSE t, x.v)
    [] IsConstant(x) /\ IsUntyped(x.t) /\ t # NoType /\ UnderlyingOf(t) # x.t ->
         DefineConstant(g, name, t, ConvertUntypedValue(x.v, UnderlyingOf(t).n))
    [] OTHER -> Complain(g, FALSE)
ProcessConstant(g, name, t, xs) ==
  CASE t = NoType /\ xs = <<>> -> Complain(g, FALSE)
    [] t # NoType /\ UnderlyingOf(t).k # "basic" -> Complain(g, FALSE)
    [] t # NoType /\ UnderlyingOf(t).k = "basic" /\ xs = <<>> ->
         DefineConstant(g, name, t, DefaultConstant(UnderlyingOf(t).n))
    [] OTHER -> ConstantValue(Noted(g, xs[1], TRUE), name, t, xs[1])
CheckConstDecl(s, g, ys) ==
  Checked([s EXCEPT !.y = ys],
          ProcessConstant(Declare(g, "const", s.s), s.s, s.t, [i \in DOMAIN ys |-> ys[i].info]))

(* DeclHandler::ProcessVariable; the names of a declaration are always      *)
(* processed one by one.                                                    *)
TypedValue(t) == IF t.k = "basic" /\ ConvertIfUntyped(t.n) # "fail"
                 THEN Basic(ConvertIfUntyped(t.n)) ELSE t
IsNil(t) == t = Basic("untyped nil")          \* ConvertIfUntyped ends the program
ProcessVariable(g, name, t, xs) ==
  CASE xs = <<>> -> Complain(Define(g, name, Object("variable", t, NoConstant)), t # NoType)
    [] xs # <<>> /\ ~IsValue(xs[1]) ->
         Noted(Define(g, name, Object("variable", t, NoConstant)), xs[1], FALSE)
    [] xs # <<>> /\ IsValue(xs[1]) /\ t # NoType ->
         Noted(Define(g, name, Object("variable", t, NoConstant)), xs[1], IsAssignableTo(xs[1].t, t))
    [] xs # <<>> /\ IsValue(xs[1]) /\ t = NoType ->
         IF IsNil(xs[1].t) THEN [g EXCEPT !.fail = TRUE]
         ELSE Noted(Define(g, name, Object("variable", TypedValue(xs[1].t), NoConstant)), xs[1], TRUE)
FirstOf(xs) == IF xs = <<>> THEN <<>> ELSE <<Head(xs)>>
RECURSIVE ProcessVariables(_, _, _, _)
ProcessVariables(g, names, t, xs) ==
  IF names = <<>> THEN g
  ELSE ProcessVariables(ProcessVariable(g, Head(names).s, t, FirstOf(xs)), Tail(names), t,
                        SubSeq(xs, 2, Len(xs)))
CheckVarDecl(s, g, ys) ==
  Checked([s EXCEPT !.y = ys], ProcessVariables(g, s.x, s.t, [i \in DOMAIN ys |-> ys[i].info]))

----------------------------------------------------------------------------
(* Assignments.  A variable that := defines gets the type of its value; one *)
(* whose value has no type stays without.                                   *)
IsDefined(s, objs, e) == s.s = ":=" /\ e.s \notin DOMAIN objs
CheckLhs(s, g) ==
  [i \in DOMAIN s.x |-> IF IsDefined(s, g.objs, s.x[i]) THEN s.x[i]
                        ELSE CheckExpr(s.x[i], NoContext, g.objs)] \o <<>>
ValueTypes(ys) ==
  IF Len(ys) = 1 /\ IsValue(ys[1].info) /\ ys[1].info.t.k = "tuple" THEN ys[1].info.t.ts
  ELSE [i \in DOMAIN ys |-> IF IsValue(ys[i].info) THEN ys[i].info.t ELSE NoType]
RhsTypes(lhs, ys) ==
  ValueTypes(ys) \o (IF Len(ys) = 1 /\ ys[1].info.k = "valueok" /\ Len(lhs) = 2
                     THEN <<Basic("untyped bool")>> ELSE <<>>)

DefineVariable(g, e, t) ==
  IF IsNil(t) THEN [g EXCEPT !.fail = TRUE]
  ELSE Define(g, e.s, Object("variable", TypedValue(t), NoConstant))
\* One operand of an assignment: a variable it defines, one that := names
\* again (it has no definition here: the null object is dereferenced), or
\* an operand that is assigned.
AssignTo(s, g, e, t) ==
  CASE s.s = ":=" /\ e.info = Unknown -> IF t = NoType THEN g ELSE DefineVariable(g, e, t)
    [] s.s = ":=" /\ e.info # Unknown -> [g EXCEPT !.fail = TRUE]
    [] s.s # ":=" -> Complain(g, IsAddressable(e.info) /\ t # NoType => IsAssignableTo(t, e.info.t))
RECURSIVE AssignAll(_, _, _, _)
AssignAll(s, g, es, ts) ==
  IF es = <<>> \/ ts = <<>> THEN g
  ELSE AssignAll(s, AssignTo(s, g, Head(es), Head(ts)), Tail(es), Tail(ts))
RECURSIVE NoteLhs(_, _)
NoteLhs(g, es) ==
  IF es = <<>> THEN g
  ELSE NoteLhs(IF Head(es).info = Unknown THEN Declare(g, "variable", Head(es).s)
               ELSE Noted(g, Head(es).info, IsAddressable(Head(es).info)), Tail(es))
CheckAssign(s, g, es, ys, ts) ==
  Checked([s EXCEPT !.x = es, !.y = ys],
          IF Len(ys) = 1 /\ ys[1].info.k = "valueok" /\ Len(es) > 2
          THEN Complain(NotedAll(NoteLhs(g, es), ys), FALSE)
          ELSE AssignAll(s, Complain(NotedAll(NoteLhs(g, es), ys), Len(es) = Len(ts)), es, ts))
CheckAssignStmt(s, g, es, ys) == CheckAssign(s, g, es, ys, RhsTypes(es, ys))

(* Returns.  A return without operands is not checked; a tuple in a         *)
(* function without results is compared with the null type.                 *)
ResultsFit(ys, results) ==
  IF Len(ys) = 1 /\ ys[1].info.t.k = "tuple" THEN IsAssignableTo(ys[1].info.t, Tuple(results))
  ELSE /\ Len(ys) = Len(results)
       /\ \A i \in DOMAIN ys : IsAssignableTo(TypedValue(ys[i].info.t), results[i])
ReturnFails(ys, results) ==
  IF Len(ys) = 1 /\ ys[1].info.t.k = "tuple" THEN results = <<>>
  ELSE Len(ys) = Len(results) /\ \E i \in DOMAIN ys : IsNil(ys[i].info.t)
CheckReturn(s, g, ys) ==
  Checked([s EXCEPT !.y = ys],
          IF ys = <<>> \/ \E i \in DOMAIN ys : ~IsValue(ys[i].info) THEN NotedAll(g, ys)
          ELSE IF ReturnFails(ys, g.results) THEN [g EXCEPT !.fail = TRUE]
          ELSE Complain(NotedAll(g, ys), ResultsFit(ys, g.results)))

(* A branch ends a block.  The label map holds the labeled statement, never *)
(* the loop inside it, so that a branch with a label is always refused; in  *)
(* a case clause no statement counts as the last.                           *)
BranchFits(s, ctx) ==
  /\ ctx.last /\ s.label = ""
  /\ CASE s.s = "break" -> ctx.break
       [] s.s = "continue" -> ctx.continue
       [] s.s = "fallthrough" -> ctx.fallthrough

----------------------------------------------------------------------------
BodyContext == [break |-> FALSE, continue |-> FALSE, fallthrough |-> FALSE, last |-> FALSE]
InBody(ctx) == [ctx EXCEPT !.fallthrough = FALSE]
InLoop(ctx) == [ctx EXCEPT !.break = TRUE, !.continue = TRUE, !.fallthrough = FALSE]
InSwitch(ctx, rest) == [ctx EXCEPT !.break = TRUE, !.fallthrough = rest # <<>>]

\* Whether a statement is the last of the block: the parts of a statement
\* take the answer of the statement, a case clause never says so.
LastIn(mode, ctx, rest) ==
  CASE mode = "block" -> rest = <<>> [] mode = "part" -> ctx.last [] mode = "case" -> FALSE

RECURSIVE CheckStmt(_, _, _), CheckStmts(_, _, _, _), CheckCases(_, _, _)
Before(s, r) == [ss |-> <<s>> \o r.ss, g |-> r.g]
MoreStmts(r, mode, ctx, rest) == Before(r.s, CheckStmts(rest, mode, ctx, r.g))
CheckStmts(ss, mode, ctx, g) ==
  IF ss = <<>> THEN [ss |-> <<>>, g |-> g]
  ELSE MoreStmts(CheckStmt(Head(ss), [ctx EXCEPT !.last = LastIn(mode, ctx, Tail(ss))], g),
                 mode, ctx, Tail(ss))

CheckBlockStmt(s, r) == Checked([s EXCEPT !.body = r.ss], r.g)

IfDone(s, c, i, b, e) ==
  Checked([s EXCEPT !.init = i.ss, !.x = <<c>>, !.body = b.ss, !.els = e.ss], e.g)
IfElse(s, ctx, c, i, b) == IfDone(s, c, i, b, CheckStmts(s.els, "part", InBody(ctx), b.g))
IfBody(s, ctx, c, i) ==
  IfElse(s, ctx, c, i,
         CheckStmts(s.body, "block", InBody(ctx), Noted(i.g, c.info, IsBoolExpr(c.info))))
CheckIf(s, ctx, i) == IfBody(s, ctx, CheckExpr(s.x[1], NoContext, i.g.objs), i)

ForDone(s, c, i, p, b) ==
  Checked([s EXCEPT !.init = i.ss, !.x = c, !.post = p.ss, !.body = b.ss], b.g)
ForBody(s, ctx, c, i, p) == ForDone(s, c, i, p, CheckStmts(s.body, "block", InLoop(ctx), p.g))
ForPost(s, ctx, c, i) ==
  ForBody(s, ctx, c, i, CheckStmts(s.post, "part", ctx,
    IF c = <<>> THEN i.g ELSE Noted(i.g, c[1].info, IsBoolExpr(c[1].info))))
CheckFor(s, ctx, i) == ForPost(s, ctx, CheckExprs(s.x, i.g.objs), i)

(* An expression switch: the clauses' values are compared with the tag, and *)
(* any two types are comparable.  A second default is an issue.             *)
CaseBody(s, ctx, vs, g) == CheckStmts(s.body, "case", ctx, NotedAll(g, vs))
CaseDone(s, vs, r) == Checked([s EXCEPT !.x = vs, !.body = r.ss], r.g)
CheckCase(s, ctx, g, vs) == CaseDone(s, vs, CaseBody(s, ctx, vs, g))
MoreCases(r, ctx, rest) == Before(r.s, CheckCases(rest, ctx, r.g))
CheckCases(cs, ctx, g) ==
  IF cs = <<>> THEN [ss |-> <<>>, g |-> g]
  ELSE MoreCases(CheckCase(Head(cs), InSwitch(ctx, Tail(cs)), g, CheckExprs(Head(cs).x, g.objs)),
                 ctx, Tail(cs))
Defaults(cs) == {i \in DOMAIN cs : cs[i].s = "default"}
SwitchDone(s, i, tag, r) ==
  Checked([s EXCEPT !.init = i.ss, !.x = tag, !.body = r.ss],
          Complain(r.g, \A a, b \in Defaults(r.ss) : a = b))
SwitchBody(s, ctx, i, tag) == SwitchDone(s, i, tag, CheckCases(s.body, ctx, NotedAll(i.g, tag)))
CheckSwitch(s, ctx, i) == SwitchBody(s, ctx, i, CheckExprs(s.x, i.g.objs))

LabeledDone(s, r) == Checked([s EXCEPT !.body = <<r.s>>], r.g)

NotedExpr(s, g, e, ok) == Checked([s EXCEPT !.x = <<e>>], Noted(g, e.info, ok))
CheckExprStmt(s, g, e) == NotedExpr(s, g, e, TRUE)
CheckIncDec(s, g, e) == NotedExpr(s, g, e, IsIntegerExpr(e.info))

CheckStmt(s, ctx, g) ==
  CASE s.k = "labeled" ->
         IF s.body[1].k = "labeled" THEN Checked(s, Complain(g, FALSE))
         ELSE LabeledDone(s, CheckStmt(s.body[1], ctx, g))
    [] s.k = "block" -> CheckBlockStmt(s, CheckStmts(s.body, "block", InBody(ctx), g))
    [] s.k = "const" -> CheckConstDecl(s, g, CheckOperands(s.y, [const |-> TRUE, iota |-> 0],
                                                           [const |-> TRUE, iota |-> 0], g.objs))
    [] s.k = "var" -> CheckVarDecl(s, g, CheckExprs(s.y, g.objs))
    [] s.k = "assign" -> CheckAssignStmt(s, g, CheckLhs(s, g), CheckExprs(s.y, g.objs))
    [] s.k = "expr" -> CheckExprStmt(s, g, CheckExpr(s.x[1], NoContext, g.objs))
    [] s.k = "incdec" -> CheckIncDec(s, g, CheckExpr(s.x[1], NoContext, g.objs))
    [] s.k = "return" -> CheckReturn(s, g, CheckExprs(s.y, g.objs))
    [] s.k = "if" -> CheckIf(s, ctx, CheckStmts(s.init, "part", ctx, g))
    [] s.k = "switch" -> CheckSwitch(s, ctx, CheckStmts(s.init, "part", ctx, g))
    [] s.k = "for" -> CheckFor(s, ctx, CheckStmts(s.init, "part", ctx, g))
    [] s.k = "branch" -> Checked(s, Complain(g, BranchFits(s, ctx)))

\* CheckFuncBody: the checked statements and the state the checker ends in.
CheckFuncBody(body, objs, results) ==
  CheckStmts(body, "block", BodyContext, CheckState(objs, results))
============================================================================
