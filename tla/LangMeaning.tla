---------------------------- MODULE LangMeaning ----------------------------
(* What a checked function is supposed to compute: the reference the built  *)
(* function is compared with.  The statements are followed directly, in the *)
(* order they are written in: no blocks, no copies and no owners.           *)
(*                                                                          *)
(* m holds the place of each variable, the values in the places, the calls  *)
(* made, the values of the last expression, and where the execution goes:   *)
(* to the next statement, out of a loop, to its next round, out of the      *)
(* function, or nowhere because of a trap.                                  *)
EXTENDS StmtHandler

CONSTANT MaxRounds      \* the number of rounds of loops that are followed

IntegerType(t) ==
  IF t = Basic("untyped rune") THEN "i32" ELSE IntTypeOf(UnderlyingOf(t).n)
IsIntegerType(t) == UnderlyingOf(t).k = "basic" /\ UnderlyingOf(t).n \in IntegerBasics
AsType(t, v) == IF IsIntegerType(t) THEN Cast(IntegerType(t), v) ELSE v

Meant(m, v)     == [m EXCEPT !.vs = <<v>>]
Ends(m, flow)   == IF m.flow = "next" THEN [m EXCEPT !.flow = flow] ELSE m
ReadAt(m, p)    == IF p = 0 THEN Meant(Ends(m, "trap"), 0) ELSE Meant(m, m.places[p])
WriteAt(m, p, v) == IF p = 0 THEN Ends(m, "trap") ELSE [m EXCEPT !.places[p] = v]
NewPlace(m, v)  == [m EXCEPT !.places = Append(@, v), !.vs = <<Len(m.places) + 1>>]
DeclaredAs(m, name) == [m EXCEPT !.vars = (name :> m.vs[1]) @@ @]

MeantAnswer(n, args) ==
  CASE n = 1 -> <<Cast("i8", args[1] + 1)>>
    [] n = 2 -> <<1 - args[1]>>
    [] n = 3 -> <<2, 1>>
    [] n = 4 -> <<>>
CallTo(m, n, args) ==
  IF m.flow # "next" THEN m
  ELSE IF n = 0 THEN Ends(m, "trap")
  ELSE [m EXCEPT !.trace = Append(@, <<n, args>>), !.vs = MeantAnswer(n, args)]

Arithmetic(m, op, t, x, y) ==
  IF m.flow # "next" THEN m
  ELSE IF Traps(op, t, x, y) THEN Ends(m, "trap")
  ELSE Meant(m, IntCompute(op, t, x, y))
Shifted(m, op, t, x, offset) ==
  Meant(m, IF ShiftDefined(t, offset) THEN IntShift(op, t, x, offset) ELSE 0)

----------------------------------------------------------------------------
RECURSIVE MeanExpr(_, _), MeanExprs(_, _, _), MeanChain(_, _, _, _)

\* The values of the expressions, after those in vs.
MoreExprs(es, m, vs) == MeanExprs(es, m, vs \o m.vs)
MeanExprs(es, m, vs) ==
  IF es = <<>> \/ m.flow # "next" THEN [m EXCEPT !.vs = vs]
  ELSE MoreExprs(Tail(es), MeanExpr(Head(es), m), vs)

AsTypes(ts, vs) == [i \in DOMAIN vs |-> AsType(ts[i], vs[i])] \o <<>>
MeanCall(e, m) == CallTo(m, m.vs[1], AsTypes(e.ops[1].info.t.ts, Tail(m.vs)))

MeanBinary(e, m) ==
  IF e.s \in {"<<", ">>"}
  THEN Shifted(m, e.s, IntegerType(e.info.t), AsType(e.info.t, m.vs[1]), m.vs[2])
  ELSE Arithmetic(m, e.s, IntegerType(e.info.t), AsType(e.info.t, m.vs[1]), AsType(e.info.t, m.vs[2]))
MeanLogic(e, m) ==
  IF m.flow # "next" \/ m.vs[1] = IsTrue(e.s = "||") THEN m ELSE MeanExpr(e.ops[2], m)

\* The i-th comparison is made while all before it hold.
ChainNext(e, i, x, m) ==
  IF m.flow # "next" THEN m
  ELSE IF i = Len(e.c) \/ IntCompare(e.c[i], x, m.vs[1]) = 0
       THEN Meant(m, IntCompare(e.c[i], x, m.vs[1]))
  ELSE MeanChain(e, i + 1, m.vs[1], m)
MeanChain(e, i, x, m) == ChainNext(e, i, x, MeanExpr(e.ops[i + 1], m))
MeanCompare(e, m) == IF m.flow # "next" THEN m ELSE MeanChain(e, 1, m.vs[1], m)

MeanUnary(e, m) ==
  CASE e.s = "+" \/ m.flow # "next" -> m
    [] e.s \in {"-", "^"} ->
         Meant(m, ComputeUnary(e.s, IntegerType(e.info.t), AsType(e.info.t, m.vs[1])))
    [] e.s = "!" -> Meant(m, 1 - m.vs[1])
    [] e.s = "*" -> ReadAt(m, m.vs[1])

MeanIdent(s, o, m) ==
  CASE s \in DOMAIN m.vars -> Meant(m, m.places[m.vars[s]])
    [] s \notin DOMAIN m.vars /\ o.k = "const" -> Meant(m, o.v.v)
    [] o.k = "func" -> Meant(m, o.v.v)
    [] o.k = "nil" -> Meant(m, 0)

\* Nothing is said of values that the builder leaves out.
NoMeaning == {"assert", "complit", "index"}
MeanCallExpr(e, m) ==
  CASE e.ops[1].info.k = "builtin" /\ e.ops[1].s = "new" -> NewPlace(m, 0)
    [] e.ops[1].info.k = "builtin" /\ e.ops[1].s # "new" -> Meant(m, 0)
    [] e.ops[1].info.k # "builtin" -> MeanCall(e, MeanExprs(e.ops, m, <<>>))

\* The place an expression denotes.
MeanPlace(e, m) ==
  IF e.k = "ident" THEN Meant(m, m.vars[e.s]) ELSE MeanExpr(e.ops[1], m)

MeanExpr(e, m) ==
  CASE m.flow # "next" -> m
    [] m.flow = "next" /\ e.k \in {"int", "char", "string"} -> Meant(m, e.v)
    [] m.flow = "next" /\ e.k = "ident" -> MeanIdent(e.s, m.objs[e.s], m)
    [] m.flow = "next" /\ e.k = "paren" -> MeanExpr(e.ops[1], m)
    [] m.flow = "next" /\ e.k = "unary" ->
         IF e.s = "&" THEN MeanPlace(e.ops[1], m) ELSE MeanUnary(e, MeanExpr(e.ops[1], m))
    [] m.flow = "next" /\ e.k = "binary" ->
         IF e.s \in {"&&", "||"} THEN MeanLogic(e, MeanExpr(e.ops[1], m))
         ELSE MeanBinary(e, MeanExprs(e.ops, m, <<>>))
    [] m.flow = "next" /\ e.k = "compare" -> MeanCompare(e, MeanExpr(e.ops[1], m))
    [] m.flow = "next" /\ e.k = "call" -> MeanCallExpr(e, m)
    [] m.flow = "next" /\ e.k \in NoMeaning -> Meant(m, 0)

----------------------------------------------------------------------------
(* Statements.  Places are found before values are computed; then one value *)
(* after the other is put in its place.                                     *)
RECURSIVE MeanPlaces(_, _, _), Assign(_, _, _, _), MeanNames(_, _)

MorePlaces(es, m, ps) == MeanPlaces(es, m, ps \o m.vs)
MeanPlaces(es, m, ps) ==
  IF es = <<>> \/ m.flow # "next" THEN [m EXCEPT !.vs = ps]
  ELSE MorePlaces(Tail(es), MeanPlace(Head(es), m), ps)

Written(m, s, e, p, v) ==
  IF s.s \in {"=", ":="} \/ s.k = "var" THEN WriteAt(m, p, AsType(e, v))
  ELSE LET op == SubSeq(s.s, 1, Len(s.s) - 1)
           old == ReadAt(m, p) IN
       LET new == IF op \in {"<<", ">>"} THEN Shifted(old, op, IntegerType(e), old.vs[1], v)
                  ELSE Arithmetic(old, op, IntegerType(e), old.vs[1], AsType(e, v)) IN
       IF new.flow = "next" THEN WriteAt(new, p, new.vs[1]) ELSE new
\* e is the type of the place.
Assign(m, s, ps, vs) ==
  IF ps = <<>> \/ vs = <<>> \/ m.flow # "next" THEN m
  ELSE Assign(Written(m, s, Head(ps).t, Head(ps).p, Head(vs)), s, Tail(ps), Tail(vs))
TypesOf(es, m) ==
  [i \in DOMAIN es |-> IF es[i].k = "ident" THEN m.objs[es[i].s].t ELSE es[i].info.t] \o <<>>
PlacesOf(ps, ts) == [i \in DOMAIN ps |-> [p |-> ps[i], t |-> ts[i]]] \o <<>>
AssignMeant(s, ps, m) == Assign(m, s, PlacesOf(ps, TypesOf(s.x, m)), m.vs)
AssignTo1(s, m) == AssignMeant(s, m.vs, MeanExprs(s.y, m, <<>>))
MeanNames(es, m) ==
  IF es = <<>> THEN m
  ELSE MeanNames(Tail(es), IF Head(es).k = "ident" THEN DeclaredAs(NewPlace(m, 0), Head(es).s) ELSE m)
MeanAssign(s, m) ==
  AssignTo1(s, MeanPlaces(s.x, IF s.s = ":=" \/ s.k = "var" THEN MeanNames(s.x, m) ELSE m, <<>>))

IncDec(s, t, m) ==
  IF m.flow # "next" THEN m
  ELSE LET old == ReadAt(m, m.vs[1]) IN
       WriteAt(old, m.vs[1], IntCompute(IF s.s = "++" THEN "+" ELSE "-", IntegerType(t), old.vs[1], 1))

Returned(m) ==
  IF m.flow # "next" THEN m ELSE [Ends(m, "return") EXCEPT !.vs = AsTypes(m.results, m.vs)]

RECURSIVE MeanStmts(_, _), MeanStmt(_, _), MeanLoop(_, _)
MeanStmts(ss, m) ==
  IF ss = <<>> \/ m.flow # "next" THEN m ELSE MeanStmts(Tail(ss), MeanStmt(Head(ss), m))

MeanBranch(s, m) == IF m.flow # "next" THEN m ELSE MeanStmts(IF m.vs[1] = 1 THEN s.body ELSE s.els, m)
MeanIf(s, m) == MeanBranch(s, IF m.flow = "next" THEN MeanExpr(s.x[1], m) ELSE m)

\* A round: the body, what break and continue lead to, the post statement.
AfterBody(m) == IF m.flow = "continue" THEN [m EXCEPT !.flow = "next"] ELSE m
AfterLoop(m) == IF m.flow = "break" THEN [m EXCEPT !.flow = "next"] ELSE m
MeanRound(s, m) ==
  IF m.flow # "next" \/ m.vs[1] = 0 THEN m
  ELSE IF m.rounds = MaxRounds THEN Ends(m, "long")
  ELSE MeanLoop(s, MeanStmts(s.post, AfterBody(MeanStmts(s.body, [m EXCEPT !.rounds = @ + 1]))))
MeanLoop(s, m) ==
  IF m.flow # "next" THEN m
  ELSE MeanRound(s, IF s.x = <<>> THEN Meant(m, 1) ELSE MeanExpr(s.x[1], m))

\* A constant has a place like a variable.
MeanConst(s, m) ==
  DeclaredAs(NewPlace(m, IF m.vs = <<>> THEN 0 ELSE AsType(m.objs[s.s].t, m.vs[1])), s.s)

\* A switch: the first clause with the tag's value, or the default clause.
RECURSIVE MeanCases(_, _, _, _)
HasValue(tag, vs) == \E i \in DOMAIN vs : vs[i] = tag
DefaultBody(cs) ==
  IF Defaults(cs) = {} THEN <<>> ELSE cs[CHOOSE i \in Defaults(cs) : TRUE].body
MeanCase(all, cs, tag, m) ==
  IF HasValue(tag, m.vs) THEN MeanStmts(Head(cs).body, m) ELSE MeanCases(all, Tail(cs), tag, m)
MeanCases(all, cs, tag, m) ==
  IF cs = <<>> THEN MeanStmts(DefaultBody(all), m)
  ELSE MeanCase(all, cs, tag, MeanExprs(Head(cs).x, m, <<>>))
MeanSwitch(s, m) == AfterLoop(MeanCases(s.body, s.body, IF m.vs = <<>> THEN 1 ELSE m.vs[1], m))

MeanStmt(s, m) ==
  CASE s.k = "const" -> MeanConst(s, MeanExprs(s.y, m, <<>>))
    [] s.k = "labeled" -> MeanStmt(s.body[1], m)
    [] s.k = "block" -> MeanStmts(s.body, m)
    [] s.k \in {"var", "assign"} -> MeanAssign(s, m)
    [] s.k = "expr" -> MeanExpr(s.x[1], m)
    [] s.k = "incdec" -> IncDec(s, s.x[1].info.t, MeanPlace(s.x[1], m))
    [] s.k = "return" -> Returned(MeanExprs(s.y, m, <<>>))
    [] s.k = "if" -> MeanIf(s, MeanStmts(s.init, m))
    [] s.k = "for" -> AfterLoop(MeanLoop(s, MeanStmts(s.init, m)))
    [] s.k = "switch" -> MeanSwitch(s, MeanExprs(s.x, MeanStmts(s.init, m), <<>>))
    [] s.k = "branch" -> Ends(m, s.s)

\* The parameters' places hold the arguments; a pointer's object has a place
\* of its own, before theirs.
RECURSIVE MeanParams(_, _, _)
MeanParams(ps, args, m) ==
  IF ps = <<>> THEN m
  ELSE MeanParams(Tail(ps), Tail(args), DeclaredAs(NewPlace(m, Head(args)), Head(ps).s))
MeanFunc(params, results, ss, objs, places, args) ==
  MeanStmts(ss, MeanParams(params, args,
    [objs |-> objs, results |-> results, vars |-> <<>>, places |-> places, vs |-> <<>>,
     trace |-> <<>>, flow |-> "next", rounds |-> 0]))
============================================================================
