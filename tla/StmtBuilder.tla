---------------------------- MODULE StmtBuilder ----------------------------
(* How checked statements and functions become blocks of instructions       *)
(* (src/lang/processors/ir/builder: stmt_builder.cc, ir_builder.cc).        *)
(*                                                                          *)
(* A context holds the variables declared in it, in order, with their       *)
(* addresses, and in the body of a loop the blocks continue and break go to.*)
EXTENDS ExprBuilder, StmtHandler

Context(continue, break) == [vars |-> <<>>, continue |-> continue, break |-> break]
PushContext(g, continue, break) == [g EXCEPT !.ctxs = <<Context(continue, break)>> \o @]
PopContext(g) == [g EXCEPT !.ctxs = Tail(@)]

HasControlFlowInstr(instrs) ==
  instrs # <<>> /\ instrs[Len(instrs)].op \in {"jump", "jump_cond", "return"}
\* Mutant: an instruction that leaves the block does not complete it.
CompletedWithoutBlock(g) == g.cur = 0
Completed(g) == g.cur = 0 \/ HasControlFlowInstr(g.blocks[g.cur])

\* The addresses in the order in which they are deleted.
DeletionOrder(vars) == [i \in DOMAIN vars |-> vars[Len(vars) + 1 - i].a] \o <<>>
RECURSIVE DeleteAll(_, _)
DeleteAll(g, as) == IF as = <<>> THEN g ELSE DeleteAll(Delete(g, Head(as)), Tail(as))
BuildVarDeletionsForASTContext(g, ctx) == DeleteAll(g, DeletionOrder(ctx.vars))
\* Mutant: the contexts around the innermost one are left out.
DeleteInnermost(g, i, n) == BuildVarDeletionsForASTContext(g, g.ctxs[i])
\* Of the contexts from the innermost to the n-th.
RECURSIVE BuildVarDeletionsUntil(_, _, _)
BuildVarDeletionsUntil(g, i, n) ==
  IF i > n THEN g
  ELSE BuildVarDeletionsUntil(BuildVarDeletionsForASTContext(g, g.ctxs[i]), i + 1, n)

----------------------------------------------------------------------------
(* Assignments.  The value a pointer variable had is deleted.               *)
DeleteOldValue(g, a) ==
  IF IsShared(Tail(a.t)) THEN LET old == LoadFrom(g, a, Tail(a.t)) IN Delete(old, old.vs[1]) ELSE g
StoreAndDelete(g, a) == Delete(Store(g, a, g.vs[1]), a)
BuildAssignment(g, a, v) ==
  IF a = Null \/ v = Null THEN Crash(g)
  ELSE StoreAndDelete(BuildConversion(Built(DeleteOldValue(g, a), v), Tail(a.t)), a)
RECURSIVE BuildAssignments(_, _, _)
BuildAssignments(g, as, vs) ==
  IF as = <<>> THEN g
  ELSE IF vs = <<>> THEN Crash(g)
  ELSE BuildAssignments(BuildAssignment(g, Head(as), Head(vs)), Tail(as), Tail(vs))

RECURSIVE BuildVarDecls(_, _)
BuildVarDecls(g, names) ==
  IF names = <<>> THEN g
  ELSE BuildVarDecls(BuildVarDecl(g, Head(names).s, g.objs[Head(names).s].t), Tail(names))

RECURSIVE AssignToVars(_, _, _)
AssignToVars(g, names, vs) ==
  IF names = <<>> \/ vs = <<>> THEN g
  ELSE LET copied == BuildAddressOfIdent(g, Head(names).s) IN
       AssignToVars(BuildAssignment(copied, copied.vs[1], Head(vs)), Tail(names), Tail(vs))
AssignValues(g, names) == AssignToVars(g, names, g.vs)
BuildVarDeclStmt(s, g) ==
  IF s.y = <<>> THEN BuildVarDecls(g, s.x)
  ELSE AssignValues(BuildValuesOfExprs(s.y, BuildVarDecls(g, s.x), <<>>), s.x)

\* The spelling of an assignment is the operator's, with = appended.
OpOf(tok) == SubSeq(tok, 1, Len(tok) - 1)
BuildAssignedValue(g, op, old, v) ==
  CASE op = "+" /\ old.t = IrString -> Result(g, "concat", "", IrString, <<old, v>>)
    [] op \in {"<<", ">>"} ->
         LET offset == BuildConversion(Built(g, v), <<"u64">>)
         IN Result(offset, "int_shift", op, old.t, <<old>> \o offset.vs)
    [] OTHER ->
         LET right == BuildConversion(Built(g, v), old.t)
         IN Result(right, "int_binary", op, old.t, <<old>> \o right.vs)
BuildAssignedValueForOpAssignment(g, op, a, v) ==
  IF a = Null \/ v = Null THEN Crash(g)
  ELSE LET old == LoadFrom(g, a, Tail(a.t)) IN BuildAssignedValue(old, op, old.vs[1], v)
RECURSIVE BuildAssignedValues(_, _, _, _, _)
AssignedNext(g, op, as, vs, done) == BuildAssignedValues(g, op, as, vs, done \o g.vs)
BuildAssignedValues(g, op, as, vs, done) ==
  IF as = <<>> THEN [g EXCEPT !.vs = done]
  ELSE IF vs = <<>> THEN Crash(g)
  ELSE AssignedNext(BuildAssignedValueForOpAssignment(g, op, Head(as), Head(vs)),
                    op, Tail(as), Tail(vs), done)

RECURSIVE BuildAddressesOfExprs(_, _, _)
MoreAddresses(es, g, as) == BuildAddressesOfExprs(es, g, as \o g.vs)
BuildAddressesOfExprs(es, g, as) ==
  IF es = <<>> THEN [g EXCEPT !.vs = as]
  ELSE MoreAddresses(Tail(es), BuildAddressOfExpr(Head(es), g), as)

AssignBuilt(g, as) == BuildAssignments(g, as, g.vs)
AssignTok(s, g, as) ==
  IF s.s \in {"=", ":="} THEN AssignBuilt(g, as)
  ELSE AssignBuilt(BuildAssignedValues(g, OpOf(s.s), as, g.vs, <<>>), as)
AssignRight(s, g) == AssignTok(s, BuildValuesOfExprs(s.y, g, <<>>), g.vs)
DefinedNames(s) == IF s.s = ":=" THEN SelectSeq(s.x, LAMBDA e : e.k = "ident") ELSE <<>>
BuildAssignStmt(s, g) ==
  AssignRight(s, BuildAddressesOfExprs(s.x, BuildVarDecls(g, DefinedNames(s)), <<>>))

\* The operand is read, changed by one and stored at the same address.
ChangeByOne(s, g, a) ==
  LET old == LoadFrom(g, a, BuildType(s.x[1].info.t))
      new == Result(old, "int_binary", IF s.s = "++" THEN "+" ELSE "-", old.vs[1].t,
                    <<old.vs[1], IntValue(old.vs[1].t, 1)>>) IN
  Delete(Store(new, a, new.vs[1]), a)
BuildIncDecOf(s, g) == IF g.vs[1] = Null THEN Crash(g) ELSE ChangeByOne(s, g, g.vs[1])
BuildIncDecStmt(s, g) == BuildIncDecOf(s, BuildAddressOfExpr(s.x[1], g))

----------------------------------------------------------------------------
RECURSIVE BuildStmt(_, _), BuildStmts(_, _)
BuildStmts(ss, g) == IF ss = <<>> \/ g.crash THEN g ELSE BuildStmts(Tail(ss), BuildStmt(Head(ss), g))

EndBlock(g) == PopContext(IF Completed(g) THEN g ELSE BuildVarDeletionsForASTContext(g, g.ctxs[1]))
BuildBlockStmt(ss, g) == EndBlock(BuildStmts(ss, PushContext(g, 0, 0)))

(* If.  start decides; the body is begun in block yes and ends in yesEnd,   *)
(* what else does is begun in no.  There is a merge block unless both are   *)
(* completed; without else the condition goes there.                        *)
FirstValue(g) == IF g.vs = <<>> THEN Crash(g) ELSE g
MergeInto(g, b, isCompleted, merge) ==
  IF isCompleted THEN g ELSE Connect(EmitTo(g, b, Jump(merge)), {<<b, merge>>})
CloseIf(g, cond, start, yes, no, ends, merge) ==
  LET false == IF no = 0 THEN merge ELSE no IN
  Connect(MergeInto(MergeInto(EmitTo(g, start, JumpCond(cond, yes, false)),
                              ends[1].b, ends[1].completed, merge),
                    ends[2].b, ends[2].completed, merge),
          {<<start, yes>>, <<start, false>>})
End(g) == [b |-> g.cur, completed |-> Completed(g)]
NoElse == [b |-> 0, completed |-> TRUE]
JoinIf(g, cond, start, yes, no, ends) ==
  IF no # 0 /\ ends[1].completed /\ ends[2].completed
  THEN CloseIf(Enter(g, 0), cond, start, yes, no, ends, 0)
  ELSE LET merged == AddBlock(g) IN
       CloseIf(Enter(merged, NewBlock(merged)), cond, start, yes, no, ends, NewBlock(merged))
ElseBuilt(g, cond, start, yes, no, yesEnd) == JoinIf(g, cond, start, yes, no, <<yesEnd, End(g)>>)
BodyBuilt(s, g, cond, start, yes) ==
  IF s.els = <<>> THEN JoinIf(g, cond, start, yes, 0, <<End(g), NoElse>>)
  ELSE ElseBuilt(BuildStmt(s.els[1], Enter(AddBlock(g), NewBlock(g) + 1)),
                 cond, start, yes, NewBlock(g) + 1, End(g))
BuildIfBody(s, g, start) ==
  BodyBuilt(s, BuildBlockStmt(s.body, Enter(AddBlock(g), NewBlock(g) + 1)), g.vs[1], start,
            NewBlock(g) + 1)
BuildIfCond(s, g) == BuildIfBody(s, g, g.cur)
BuildIfStmt(s, g) == BuildIfCond(s, FirstValue(BuildValuesOfExpr(s.x[1], BuildStmts(s.init, g))))

(* For.  The blocks of the condition, of the post statement that continue   *)
(* goes to, the one break goes to and the body's are added in this order.   *)
CloseFor(g, start, conds, cond, continues, break, body) ==
  LET looped == MergeInto(g, g.cur, Completed(g), continues[1])
      closed == EmitTo(EmitTo(EmitTo(looped, start, Jump(conds[1])),
                              conds[2], JumpCond(cond, body, break)),
                       continues[2], Jump(conds[1]))
      after  == Enter(Connect(closed, {<<start, conds[1]>>, <<conds[2], body>>, <<conds[2], break>>,
                                       <<continues[2], conds[1]>>}), break) IN
  BuildVarDeletionsForASTContext(after, after.ctxs[1])
BodyOfFor(s, g, start, conds, cond, continues) ==
  CloseFor(PopContext(BuildBlockStmt(s.body,
             PushContext(Enter(AddBlock(AddBlock(g)), NewBlock(g) + 2), continues[1], NewBlock(g) + 1))),
           start, conds, cond, continues, NewBlock(g) + 1, NewBlock(g) + 2)
PostBuilt(s, g, start, conds, cond, entry) == BodyOfFor(s, g, start, conds, cond, <<entry, g.cur>>)
BuildPost(s, g, start, conds) ==
  PostBuilt(s, BuildStmts(s.post, Enter(AddBlock(g), NewBlock(g) + 1)), start, conds, g.vs[1],
            NewBlock(g) + 1)
CondBuilt(s, g, start, entry) == BuildPost(s, g, start, <<entry, g.cur>>)
BuildCond(s, g) == IF s.x = <<>> THEN Built(g, BoolValue(1)) ELSE FirstValue(BuildValuesOfExpr(s.x[1], g))
BuildForCond(s, g) == CondBuilt(s, BuildCond(s, Enter(AddBlock(g), NewBlock(g) + 1)), g.cur, NewBlock(g) + 1)
BuildForStmt(s, g) == PopContext(BuildForCond(s, BuildStmts(s.init, PushContext(g, 0, 0))))

(* Break and continue leave the contexts up to the loop's body.  No loop    *)
(* around, and the null context is used.                                    *)
JumpOut(g, b) == Connect(Emit(g, Jump(b)), {<<g.cur, b>>})
Leave(g, n, b) == JumpOut(BuildVarDeletionsUntil(g, 1, n), b)
LoopContexts(g) == {i \in DOMAIN g.ctxs : g.ctxs[i].break # 0}
Innermost(ns) == CHOOSE n \in ns : \A m \in ns : n <= m
BuildBranchStmt(s, g) ==
  IF LoopContexts(g) = {} \/ s.s = "fallthrough" THEN Crash(g)
  ELSE LET n == Innermost(LoopContexts(g)) IN
       Leave(g, n, IF s.s = "break" THEN g.ctxs[n].break ELSE g.ctxs[n].continue)

\* The variables of all contexts are deleted whether or not the block is
\* completed.
ReturnValues(g, vs) == Emit(g, Instr("return", "", <<>>, vs, <<>>))
LeaveFunc(g) == ReturnValues(BuildVarDeletionsUntil(g, 1, Len(g.ctxs)), g.vs)
BuildReturnStmt(s, g) == LeaveFunc(BuildValuesOfExprs(s.y, g, <<>>))

\* Nothing is built for a switch statement.
BuildStmt(s, g) ==
  CASE s.k = "labeled" -> BuildStmt(s.body[1], g)
    [] s.k = "block" -> BuildBlockStmt(s.body, g)
    [] s.k \in {"const", "switch"} -> g
    [] s.k = "var" -> BuildVarDeclStmt(s, g)
    [] s.k = "assign" -> BuildAssignStmt(s, g)
    [] s.k = "expr" -> BuildValuesOfExpr(s.x[1], g)
    [] s.k = "incdec" -> BuildIncDecStmt(s, g)
    [] s.k = "return" -> BuildReturnStmt(s, g)
    [] s.k = "if" -> BuildIfStmt(s, g)
    [] s.k = "for" -> BuildForStmt(s, g)
    [] s.k = "branch" -> BuildBranchStmt(s, g)

----------------------------------------------------------------------------
(* IRBuilder::BuildFuncDecl.  An argument is stored in a variable; a        *)
(* function that ends without a return statement returns no values.         *)
EmptyFunc(objs) ==
  [blocks |-> <<<<>>>>, edges |-> {}, cur |-> 1, next |-> 1, ctxs |-> <<Context(0, 0)>>,
   objs |-> objs, vs |-> <<>>, crash |-> FALSE, args |-> <<>>]
StoreArg(g, arg) == Store(g, g.vs[1], arg)
BuildParameter(g, p) ==
  LET arg == Fresh(g, BuildType(p.t)) IN
  [StoreArg(BuildVarDecl(arg, p.s, p.t), arg.vs[1]) EXCEPT !.args = Append(@, arg.vs[1])]
RECURSIVE BuildFuncParameters(_, _)
BuildFuncParameters(g, ps) ==
  IF ps = <<>> THEN g ELSE BuildFuncParameters(BuildParameter(g, Head(ps)), Tail(ps))
NamedResults(rs) == SelectSeq(rs, LAMBDA r : r.s # "")
RECURSIVE BuildFuncResults(_, _)
BuildFuncResults(g, rs) ==
  IF rs = <<>> THEN g ELSE BuildFuncResults(BuildVarDecl(g, Head(rs).s, Head(rs).t), Tail(rs))
EndFunc(g) ==
  IF Completed(g) THEN g
  ELSE ReturnValues(BuildVarDeletionsForASTContext(g, g.ctxs[1]), <<>>)
BuildFuncDecl(params, results, body, objs) ==
  EndFunc(BuildBlockStmt(body,
    BuildFuncResults(BuildFuncParameters(EmptyFunc(objs), params), NamedResults(results))))
============================================================================
