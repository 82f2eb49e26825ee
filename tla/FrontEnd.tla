------------------------------ MODULE FrontEnd ------------------------------
(* A function on its way from the parser to the interpreter: it is checked, *)
(* built, the built function is checked, and it is run                      *)
(* (src/cmd/katara/{load,build,interpret}.cc).                              *)
(*                                                                          *)
(* The function stands in a package with others, which it may call:         *)
(* f(int8) int8, g(bool) bool, two() (int8, int8) and v(), with a generic   *)
(* one, id[T any](T) T, and with a variable gv.                             *)
EXTENDS StmtBuilder, LangMeaning, BuiltFunc

CONSTANTS
  Programs,     \* functions: parameters, results, statements, types and names of each
  Environments  \* arguments of a run: a value for each name of a parameter

VARIABLES
  program,      \* the function as the parser hands it on
  stage,        \* how far it has come
  checked,      \* what the type checker makes of it
  func,         \* what the builder makes of it
  env,          \* the arguments of the run
  run           \* the machine at the end of the run
vars == <<program, stage, checked, func, env, run>>

----------------------------------------------------------------------------
(* The objects of the package and the predeclared ones.                     *)
Int8 == Basic("int8")
Bool == Basic("bool")
FuncObject(n, params, results) ==
  Object("func", Signature(<<>>, params, results), IntConst("i64", n))
TypeParamT == LangType("typeparam", "T", <<LangType("interface", "", <<>>, <<>>, <<>>)>>, <<>>, <<>>)
Predeclared ==
  [int8 |-> Object("type", Int8, NoConstant), bool |-> Object("type", Bool, NoConstant),
   true |-> Object("const", Basic("untyped bool"), BoolConst(1)),
   false |-> Object("const", Basic("untyped bool"), BoolConst(0)),
   nil |-> Object("nil", NoType, NoConstant),
   len |-> Object("builtin", NoType, NoConstant), new |-> Object("builtin", NoType, NoConstant),
   f |-> FuncObject(1, <<Int8>>, <<Int8>>), g |-> FuncObject(2, <<Bool>>, <<Bool>>),
   two |-> FuncObject(3, <<>>, <<Int8, Int8>>), v |-> FuncObject(4, <<>>, <<>>),
   make |-> Object("builtin", NoType, NoConstant),
   id |-> Object("func", Signature(<<TypeParamT>>, <<TypeParamT>>, <<TypeParamT>>), IntConst("i64", 5)),
   gv |-> Object("variable", Int8, NoConstant)]
Signatures ==
  <<[args |-> <<<<"i8">>>>, results |-> <<<<"i8">>>>], [args |-> <<IrBool>>, results |-> <<IrBool>>],
    [args |-> <<>>, results |-> <<<<"i8">>, <<"i8">>>>], [args |-> <<>>, results |-> <<>>],
    [args |-> <<<<"interface">>>>, results |-> <<<<"interface">>>>]>>

ParamObjects(ps) ==
  [s \in {ps[i].s : i \in DOMAIN ps} |->
     Object("variable", ps[CHOOSE i \in DOMAIN ps : ps[i].s = s].t, NoConstant)]
ObjectsOf(p) == ParamObjects(p.params \o NamedResults(p.results)) @@ Predeclared
TypesOfResults(p) == [i \in DOMAIN p.results |-> p.results[i].t] \o <<>>
IrResults(p) == [i \in DOMAIN p.results |-> BuildType(p.results[i].t)] \o <<>>

----------------------------------------------------------------------------
(* A run.  The argument for a pointer is 0 or 1, the number of an object    *)
(* that holds 1 and that the function owns once.                            *)
Argument(p, e) == e[p.s]
Arguments(p, e) == [i \in DOMAIN p.params |-> Argument(p.params[i], e)] \o <<>>
ArgumentObject == <<[t |-> <<"i8">>, owners |-> 1, v |-> 1]>>
Objects0(p, e) ==
  IF \E i \in DOMAIN p.params : p.params[i].t.k = "pointer" /\ e[p.params[i].s] = 1
  THEN ArgumentObject ELSE <<>>
ArgRegisters(g, args) ==
  [n \in 1..g.next |->
     IF \E i \in DOMAIN g.args : g.args[i].n = n
     THEN args[CHOOSE i \in DOMAIN g.args : g.args[i].n = n] ELSE 0]

NoCheck == [ss |-> <<>>, issue |-> FALSE, fail |-> FALSE, objs |-> <<>>]
NoFunc  == [blocks |-> <<>>, edges |-> {}, args |-> <<>>, next |-> 0, results |-> <<>>, crash |-> FALSE]
NoRun   == [out |-> "no", results |-> <<>>, trace |-> <<>>, objects |-> <<>>]

Init ==
  /\ program \in Programs
  /\ stage = "parsed"
  /\ checked = NoCheck /\ func = NoFunc /\ env = <<>> /\ run = NoRun

(* Load: an issue of any kind is an error of the check.                     *)
Outcome(r) == [ss |-> r.ss, issue |-> r.g.issue, fail |-> r.g.fail, objs |-> r.g.objs]
CheckTypes ==
  /\ stage = "parsed"
  /\ checked' = Outcome(CheckFuncBody(program.body, ObjectsOf(program), TypesOfResults(program)))
  /\ stage' = IF checked'.fail THEN "checker ended"
              ELSE IF checked'.issue THEN "rejected" ELSE "checked"
  /\ UNCHANGED <<program, func, env, run>>

BuiltAs(p, g) ==
  [blocks |-> g.blocks, edges |-> g.edges, args |-> g.args, next |-> g.next,
   results |-> IrResults(p), crash |-> g.crash]
BuildIr ==
  /\ stage = "checked"
  /\ func' = BuiltAs(program, BuildFuncDecl(program.params, program.results, checked.ss, checked.objs))
  /\ stage' = IF func'.crash THEN "builder ended" ELSE "built"
  /\ UNCHANGED <<program, checked, env, run>>

CheckIr ==
  /\ stage = "built"
  /\ stage' = CASE CheckFunc(func, Signatures) = "ok" -> "ready"
                [] CheckFunc(func, Signatures) = "issues" -> "malformed"
                [] CheckFunc(func, Signatures) = "crash" -> "dominators not found"
  /\ UNCHANGED <<program, checked, func, env, run>>

RunOf(m) == [out |-> m.out, results |-> m.results, trace |-> m.trace, objects |-> m.objects]
RunFunc ==
  /\ stage = "ready"
  /\ \E e \in Environments :
       /\ env' = e
       /\ run' = RunOf(Execute(Machine(func, ArgRegisters(func, Arguments(program, e)),
                                       Objects0(program, e))))
  /\ stage' = "ran"
  /\ UNCHANGED <<program, checked, func>>

Next == CheckTypes \/ BuildIr \/ CheckIr \/ RunFunc
Spec == Init /\ [][Next]_vars

----------------------------------------------------------------------------
(* What the run means.  A result that is a pointer is compared by what it   *)
(* points to.                                                               *)
Meaning ==
  MeanFunc(program.params \o NamedResults(program.results), TypesOfResults(program), checked.ss,
           checked.objs, [i \in DOMAIN Objects0(program, env) |-> 1] \o <<>>,
           Arguments(program, env) \o [i \in DOMAIN NamedResults(program.results) |-> 0])
PointedTo(values, p) == IF p = 0 THEN <<>> ELSE <<values[p]>>
ResultIn(values, t, x) == IF t.k = "pointer" THEN PointedTo(values, x) ELSE <<x>>
ResultsIn(values, xs) ==
  [i \in DOMAIN xs |-> ResultIn(values, program.results[i].t, xs[i])] \o <<>>
ObjectValues == [i \in DOMAIN run.objects |-> run.objects[i].v] \o <<>>

SameOutcome(m) ==
  CASE m.flow \in {"next", "return"} ->
         /\ run.out = "returned" /\ run.trace = m.trace
         /\ ResultsIn(ObjectValues, run.results)
              = ResultsIn(m.places, IF m.flow = "return" THEN m.vs ELSE <<>>)
    [] m.flow = "trap" -> run.out \in {"trap", "nil"} /\ run.trace = m.trace
    [] OTHER -> TRUE

----------------------------------------------------------------------------
(* The parts of the function.                                               *)
RECURSIVE PartsOf(_), StmtsOf(_)
PartsOf(e) == {e} \cup UNION {PartsOf(e.ops[i]) : i \in DOMAIN e.ops}
StmtsOf(ss) ==
  UNION {{ss[i]} \cup StmtsOf(ss[i].init \o ss[i].post \o ss[i].body \o ss[i].els) : i \in DOMAIN ss}
SeqOf(xs) == {xs[i] : i \in DOMAIN xs}
Exprs(stmts) == UNION {UNION {PartsOf(e) : e \in SeqOf(st.x \o st.y)} : st \in stmts}

(* What the checker accepts though the builder has nothing for it, or       *)
(* builds what is not a function of the IR.  Of expressions:                *)
\* Comparisons are not checked: any two operands can be compared and ordered.
UncheckedComparison(e) ==
  /\ e.k = "compare"
  /\ \E i \in DOMAIN e.c :
       LET x == e.ops[i].info
           y == e.ops[i + 1].info IN
       ~ \/ /\ IsOfBasics(x, IntegerBasics) /\ IsOfBasics(y, IntegerBasics)
            /\ SameOperandTypes(x, y)
         \/ IsOfBasics(x, BooleanBasics) /\ IsOfBasics(y, BooleanBasics) /\ e.c[i] \in {"==", "!="}
\* Constants of different integer types, and division of constants by zero.
FailingConstants(e) ==
  /\ e.k \in {"binary", "compare"}
  /\ \A i \in DOMAIN e.ops : IsConstant(e.ops[i].info)
  /\ \/ \E i, j \in DOMAIN e.ops : e.ops[i].info.v.t # e.ops[j].info.v.t
     \/ e.s \in {"/", "%"} /\ e.ops[2].info.v.v = 0
\* A Boolean operand of ! is refused, every other basic one is not.
NegatedNumber(e) == e.k = "unary" /\ e.s = "!"
\* A constant without type is passed as it is.
UnconvertedArgument(e) ==
  e.k = "call" /\ \E i \in 2..Len(e.ops) : IsConstant(e.ops[i].info) /\ e.ops[i].info.v.k = "int"
\* The element of a string has the wrong type; conversions, literals of
\* slices and len have no value.
UnbuiltValue(e) ==
  \/ e.k \in {"index", "assert", "complit"}
  \/ e.k = "call" /\ (e.ops[1].info.k = "type" \/ (e.ops[1].k = "ident" /\ e.ops[1].s = "len"))
\* Of a generic function there is one, which is not built for the arguments.
GenericCall(e) == e.k = "call" /\ e.ops[1].info.t.k = "signature" /\ e.ops[1].info.t.ps # <<>>
\* A variable of the package has no place.
PackageVariable(e) == e.k = "ident" /\ e.s = "gv"
GapsOfExpr(e) ==
  UncheckedComparison(e) \/ FailingConstants(e) \/ NegatedNumber(e) \/ UnconvertedArgument(e)
  \/ UnbuiltValue(e) \/ GenericCall(e) \/ PackageVariable(e)

(* Of statements:                                                           *)
\* The value nil without a type, several values of one call.
BadValue(st) ==
  /\ st.k \in {"return", "var", "assign"}
  /\ \E e \in SeqOf(st.y) : IsNil(e.info.t) \/ e.info.t.k = "tuple"
\* A constant that is none, has no default value or is not of its type.
BadConstant(st) ==
  /\ st.k = "const"
  /\ IF st.y = <<>> THEN IsOfBasics(KindInfo("const", st.t), StringBasics)
     ELSE ~IsConstant(st.y[1].info)
          \/ (st.y[1].info.v.k = "bool" /\ IsOfBasics(KindInfo("const", st.t), IntegerBasics))
\* An object that gets no type ends the checker when it is used.
UntypedObject(st) ==
  \/ st.k \in {"const", "var"} /\ st.t = NoType /\ st.y = <<>>
  \/ st.s = ":=" /\ \E e \in SeqOf(st.y) : ~IsValue(e.info)
\* The operators of assignments are not checked, nor is the operand of ++.
UncheckedOperator(st) ==
  \/ st.k = "assign" /\ st.s \notin {"=", ":="} /\ ~IsIntegerExpr(st.x[1].info)
  \/ st.k = "incdec" /\ ~IsAddressable(st.x[1].info)
\* A return without values leaves out those of named results, too.
BareReturn(st) == st.k = "return" /\ st.y = <<>> /\ program.results # <<>>

RECURSIVE Ends1(_)
EndOf(ss) == ss # <<>> /\ Ends1(ss[Len(ss)])
\* Nothing follows a statement that ends its block.
Ends1(st) ==
  \/ st.k \in {"return", "branch"}
  \/ st.k \in {"block", "labeled"} /\ EndOf(st.body)
  \/ st.k = "if" /\ EndOf(st.body) /\ EndOf(st.els)
DeadCode(ss) == \E i \in 1..(Len(ss) - 1) : Ends1(ss[i])
Lists(ss) == {ss} \cup {st.body : st \in StmtsOf(ss)}
\* The block of the post statement is reached from nowhere.
LoopNeverContinues(st) ==
  /\ st.k = "for" /\ EndOf(st.body)
  /\ \A b \in StmtsOf(st.body) : ~(b.k = "branch" /\ b.s = "continue")
\* What an else-if declares is deleted where the whole statement's block ends.
ElseIfInit(st) == st.k = "if" /\ \E e \in SeqOf(st.els) : e.k = "if" /\ e.init # <<>>
NamesIn(st) ==
  IF st.k = "var" \/ (st.k = "assign" /\ st.s = ":=") THEN {e.s : e \in SeqOf(st.x)} ELSE {}
Redeclared(ss) == \E i, j \in DOMAIN ss : i < j /\ NamesIn(ss[i]) \cap NamesIn(ss[j]) # {}
\* There is no default value, or no type of the IR.
BuiltKinds == {"basic", "pointer", "signature"}
UnbuiltVariable(st) == st.k = "var" /\ st.t # NoType /\ st.t.k \notin BuiltKinds
UnbuiltParameter == \E i \in DOMAIN program.params : program.params[i].t.k \notin BuiltKinds
GapsOfStmt(st) ==
  UnbuiltVariable(st) \/ BadValue(st) \/ BadConstant(st) \/ UntypedObject(st) \/ UncheckedOperator(st)
  \/ BareReturn(st) \/ LoopNeverContinues(st) \/ ElseIfInit(st)
\* Whether a function with results returns them is not checked.
MissingReturn == program.results # <<>> /\ ~EndOf(program.body)

KnownGap ==
  \/ MissingReturn \/ UnbuiltParameter
  \/ \E st \in StmtsOf(checked.ss) : GapsOfStmt(st)
  \/ \E e \in Exprs(StmtsOf(checked.ss)) : GapsOfExpr(e)
  \/ \E ss \in Lists(checked.ss) : DeadCode(ss) \/ Redeclared(ss)

(* A function that the type checker accepts is built, and what is built has *)
(* no issue for the checker of the IR, which finds its dominators; but for  *)
(* the gaps above.                                                          *)
AcceptedIsBuilt ==
  stage \in {"checker ended", "builder ended", "malformed", "dominators not found"} => KnownGap

----------------------------------------------------------------------------
(* Where a built function is known to compute something else.               *)
\* A constant that a type of the function cannot hold is converted to it.
ConstantOutOfRange ==
  run.out = "failed" /\
    \E c, e \in Exprs(StmtsOf(checked.ss)) :
      /\ IsConstant(c.info) /\ c.info.v.k = "int"
      /\ IsOfBasics(e.info, IntegerBasics) /\ ~IsUntyped(e.info.t)
      /\ ~InRange(IntTypeOf(e.info.t.n), c.info.v.v)
\* Comparisons of constants are always false.
ConstantComparison ==
  \E st \in StmtsOf(checked.ss) : st.k = "const" /\ \E e \in Exprs({st}) : e.k = "compare"
SwitchIgnored == \E st \in StmtsOf(checked.ss) : st.k = "switch"
\* A variable without value is nil, and the copy made of nil is an access.
NilCopied ==
  run.out = "nil" /\
    \E st \in StmtsOf(checked.ss) : st.k = "var" /\ st.y = <<>> /\ st.t.k = "pointer"
\* A pointer that is read through a pointer is not copied.
UncopiedPointer ==
  \E e \in Exprs(StmtsOf(checked.ss)) : e.k = "unary" /\ e.s = "*" /\ e.info.t.k = "pointer"
Compares == \E e \in Exprs(StmtsOf(checked.ss)) : UncheckedComparison(e)

(* A run gives the results and makes the calls that the function's          *)
(* statements say; but for the cases above, operations the interpreter does *)
(* not know, shifts that are undefined, and runs that take too long.        *)
ComputesAsWritten ==
  stage = "ran" /\ run.out \notin {"unsupported", "undefined", "long"} =>
    \/ SameOutcome(Meaning)
    \/ ConstantOutOfRange \/ ConstantComparison \/ SwitchIgnored \/ NilCopied \/ UncopiedPointer
    \/ Compares

(* When a function returns, the objects of its variables are released: what *)
(* is left is owned once by each pointer that is returned.  No object is    *)
(* used after that.  But for pointers read through pointers, and those that *)
(* an expression statement drops.                                           *)
DroppedPointer ==
  \E st \in StmtsOf(checked.ss) : st.k = "expr" /\ st.x[1].info.t.k = "pointer"
ReturnedPointers == {i \in DOMAIN run.results : program.results[i].t.k = "pointer"}
OwnersAtEnd(p) == Cardinality({i \in ReturnedPointers : run.results[i] = p})
VariablesAreReleased ==
  stage = "ran" /\ ~UncopiedPointer /\ ~DroppedPointer =>
    /\ run.out # "freed"
    /\ run.out = "returned" => \A p \in DOMAIN run.objects : run.objects[p].owners = OwnersAtEnd(p)
=============================================================================
