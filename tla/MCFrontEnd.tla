----------------------------- MODULE MCFrontEnd -----------------------------
(* Functions for the front end: expressions of depth two that are returned, *)
(* and sequences of statements with variables, pointers, branches and loops.*)
EXTENDS FrontEnd

MCWidthOf == [s \in {"8", "16", "32", "64"} |->
                CASE s = "8" -> 3 [] s = "16" -> 4 [] s = "32" -> 5 [] s = "64" -> 6]

Expr(k, s, v, c, ops, ts) ==
  [k |-> k, s |-> s, v |-> v, c |-> c, ops |-> ops, ts |-> ts, info |-> Unknown]
Id(s)          == Expr("ident", s, 0, <<>>, <<>>, <<>>)
Lit(n)         == Expr("int", "", n, <<>>, <<>>, <<>>)
Unary(op, x)   == Expr("unary", op, 0, <<>>, <<x>>, <<>>)
Binary(op, x, y) == Expr("binary", op, 0, <<>>, <<x, y>>, <<>>)
Chain(ops, xs) == Expr("compare", "", 0, ops, xs, <<>>)
Comp(op, x, y) == Chain(<<op>>, <<x, y>>)
Call(s, xs)    == Expr("call", "", 0, <<>>, <<Id(s)>> \o xs, <<>>)
New(t)         == Expr("call", "", 0, <<>>, <<Id("new")>>, <<t>>)
Paren(x)       == Expr("paren", "", 0, <<>>, <<x>>, <<>>)

Stmt(k, s, x, y, t, init, post, body, els) ==
  [k |-> k, s |-> s, x |-> x, y |-> y, t |-> t, init |-> init, post |-> post, body |-> body,
   els |-> els, label |-> ""]
Simple(k, s, x, y) == Stmt(k, s, x, y, NoType, <<>>, <<>>, <<>>, <<>>)
Assignment(op, x, y) == Simple("assign", op, <<x>>, <<y>>)
Return(xs)     == Simple("return", "", <<>>, xs)
IncDecS(op, x) == Simple("incdec", op, <<x>>, <<>>)
ExprS(x)       == Simple("expr", "", <<x>>, <<>>)
Var(s, t, ys)  == Stmt("var", "", <<Id(s)>>, ys, t, <<>>, <<>>, <<>>, <<>>)
Block(ss)      == Stmt("block", "", <<>>, <<>>, NoType, <<>>, <<>>, ss, <<>>)
If(x, ss, els) == Stmt("if", "", <<x>>, <<>>, NoType, <<>>, <<>>, ss, els)
For(init, xs, post, ss) == Stmt("for", "", xs, <<>>, NoType, init, post, ss, <<>>)
Branch(s)      == Simple("branch", s, <<>>, <<>>)

Param(s, t) == [s |-> s, t |-> t]
Result1(t)  == <<Param("", t)>>
Func(ps, rs, body) == [params |-> ps, results |-> rs, body |-> body]

----------------------------------------------------------------------------
(* Expressions.                                                             *)
Uint8 == Basic("uint8")
PtrT  == Pointer("strong", Int8)
A == Id("a")
U == Id("u")
P == Id("p")
Q == Id("q")
ExprParams == <<Param("a", Int8), Param("u", Uint8), Param("p", Bool), Param("q", Bool)>>

Atoms  == {A, U, P, Lit(0), Lit(1), Lit(5), Id("true"), Id("nil")}
Level1 == {Unary(op, x) : op \in {"-", "!", "&"}, x \in Atoms}
          \cup {Binary(op, x, y) : op \in {"+", "/", "<<", "&&", "||"}, x \in Atoms, y \in Atoms}
          \cup {Comp(op, x, y) : op \in {"==", "<"}, x \in Atoms, y \in Atoms}
          \cup {Call(s, <<x>>) : s \in {"f", "g"}, x \in Atoms}
          \cup {Call("two", <<>>), Call("v", <<>>), Paren(A), New(Int8), Unary("*", New(Int8))}
Ints1  == {A, Lit(1), Unary("-", A), Unary("^", A), Binary("*", A, Lit(3)), Binary("/", A, Lit(2)),
           Binary("%", Lit(3), A), Binary("<<", A, U), Binary("&^", A, Lit(2)), Call("f", <<A>>),
           Paren(Binary("-", Lit(1), A)), Binary("|", Lit(1), Lit(2)), Unary("*", Unary("&", A))}
Bools1 == {P, Id("true"), Comp("<", A, Lit(1)), Comp("!=", U, Lit(3)), Call("g", <<P>>),
           Call("g", <<Comp(">", A, Call("f", <<Lit(1)>>))>>), Comp("<=", A, Call("f", <<A>>)),
           Chain(<<"<", "<=">>, <<Lit(0), A, Call("f", <<A>>)>>)}
Level2 == {Binary(op, x, y) : op \in {"+", "/", ">>"}, x \in Ints1, y \in Ints1}
Logic2 == {Comp(op, x, y) : op \in {"<", ">="}, x \in Ints1, y \in Ints1}
          \cup {Binary(op, x, y) : op \in {"&&", "||"}, x \in Bools1, y \in Bools1}
Ints0  == {A, U, Lit(1), Call("f", <<A>>)}
Chains == {Chain(<<o1, o2>>, <<x, y, z>>) : o1 \in {"<", ">="}, o2 \in {"<", "=="},
                                            x \in Ints0, y \in Ints0, z \in Ints0}
          \cup {Chain(<<"<", "<=", "<">>, <<x, y, A, z>>) : x \in Ints0, y \in Ints0, z \in Ints0}
Returning(t, es) == {Func(ExprParams, Result1(t), <<Return(<<e>>)>>) : e \in es}
ExprPrograms ==
  UNION {Returning(t, Atoms \cup Level1) : t \in {Int8, Bool, PtrT}}
  \cup Returning(Int8, Level2) \cup Returning(Bool, Logic2 \cup Chains)

----------------------------------------------------------------------------
(* Statements.  A name declared in a block is declared once in a function,  *)
(* and used in its block alone; s is the pointer the function is given.     *)
X == Id("x")
Y == Id("y")
S == Id("s")
B == Id("b")
StmtParams == <<Param("a", Int8), Param("u", Uint8), Param("p", Bool), Param("s", PtrT)>>
Star(e) == Unary("*", e)
Ref(e)  == Unary("&", e)
DeclareX == Assignment(":=", X, A)
Pointers ==
  {Assignment(":=", Y, Ref(X)), Assignment(":=", Y, S), Assignment("=", S, Ref(X)),
   Assignment("=", Star(S), A), Assignment("=", X, Star(S)), Assignment("+=", Star(Y), X),
   Assignment("=", Y, S), Simple("assign", "=", <<S, Y>>, <<Y, S>>), IncDecS("--", Star(S)),
   Assignment("=", S, New(Int8)), Var("y", PtrT, <<>>), Var("y", NoType, <<S>>),
   Return(<<Star(S)>>), Assignment("=", S, S)}
Ordinary ==
  {IncDecS("++", X), Assignment("-=", X, A), Assignment("=", X, Call("f", <<X>>)),
   Simple("assign", "=", <<X, A>>, <<A, X>>), ExprS(Call("f", <<X>>)), ExprS(Call("v", <<>>)),
   Assignment("<<=", X, U), Assignment(":=", Y, X), Return(<<X>>), Assignment("/=", X, A)}
Bodies ==
  {<<>>, <<IncDecS("++", X)>>, <<Assignment("=", X, Call("f", <<A>>))>>, <<Return(<<X>>)>>,
   <<Assignment(":=", B, Ref(X)), Assignment("=", Star(B), A)>>,
   <<Assignment(":=", B, S), Return(<<A>>)>>,
   <<If(P, <<Return(<<A>>)>>, <<>>), Assignment("*=", X, A)>>}
Conditions == {P, Comp("<", X, Lit(2)), Binary("&&", P, Comp("==", X, A)),
               Chain(<<"<=", "<">>, <<X, A, Call("f", <<A>>)>>)}
Ifs == {If(c, b, e) : c \in Conditions, b \in Bodies, e \in {<<>>}}
       \cup {If(c, b, <<Block(e)>>) : c \in {P, Comp("<", X, Lit(2))}, b \in Bodies,
                                      e \in {<<IncDecS("--", X)>>, <<Return(<<A>>)>>}}
       \cup {If(P, b, <<If(Comp("<", X, A), <<Return(<<X>>)>>, <<Block(<<IncDecS("++", X)>>)>>)>>) : b \in Bodies}
LoopBodies ==
  Bodies \cup {<<If(P, <<Branch("break")>>, <<>>), IncDecS("++", X)>>,
               <<Assignment(":=", B, Ref(X)), If(P, <<IncDecS("++", X), Branch("continue")>>, <<>>), IncDecS("++", X)>>,
               <<Assignment(":=", B, S), IncDecS("++", X), Branch("break")>>,
               <<If(P, <<Branch("break")>>, <<Block(<<Branch("continue")>>)>>)>>}
Fors == {For(<<>>, <<Comp("<", X, Lit(2))>>, <<>>, b) : b \in LoopBodies}
        \cup {For(<<Assignment(":=", Id("i"), Call("f", <<A>>))>>, <<Comp("<", Id("i"), Lit(2))>>,
                  <<IncDecS("++", Id("i"))>>, b) : b \in LoopBodies}
        \cup {For(<<>>, <<>>, <<>>, b) : b \in LoopBodies}
Compound == Ifs \cup Fors
RECURSIVE DeclaresB(_)
DeclaresB(st) == \/ st.k = "assign" /\ st.s = ":=" /\ st.x[1] = B
                 \/ \E i \in DOMAIN st.body : DeclaresB(st.body[i])
Sequences2 ==
  {<<s1, s2>> : s1 \in Pointers, s2 \in Pointers \cup Ordinary}
  \cup {<<s1, s2>> : s1 \in Ordinary, s2 \in Ordinary}
  \cup {<<s1, s2>> : s1 \in Compound, s2 \in {Assignment("-=", X, A), Return(<<Star(S)>>)}}
  \cup {<<s1, s2>> : s1 \in {IncDecS("++", X), Assignment(":=", Y, S)}, s2 \in Compound}
  \cup {<<s1, s2>> : s1 \in {If(P, b, <<>>) : b \in Bodies}, s2 \in Fors}
UniqueB(ss) == ~(DeclaresB(ss[1]) /\ DeclaresB(ss[2]))
StmtPrograms ==
  {Func(StmtParams, Result1(Int8), <<DeclareX>> \o ss \o <<Return(<<X>>)>>) : ss \in {t \in Sequences2 : UniqueB(t)}}
  \cup {Func(StmtParams, Result1(PtrT), <<DeclareX, s1, s2, Return(<<e>>)>>) :
          s1 \in Pointers, s2 \in Pointers, e \in {S, Y, Ref(X)}}
  \cup {Func(StmtParams, <<>>, <<DeclareX, c>>) : c \in Compound}

----------------------------------------------------------------------------
(* What is declared, written or joined in less common ways.                 *)
Char(n)   == Expr("char", "", n, <<>>, <<>>, <<>>)
Str(n)    == Expr("string", "", n, <<>>, <<>>, <<>>)
Index(x, y) == Expr("index", "", 0, <<>>, <<x, y>>, <<>>)
ConvertTo(s, x) == Expr("call", "", 0, <<>>, <<Id(s), x>>, <<>>)
Const(s, t, ys) == Stmt("const", s, <<>>, ys, t, <<>>, <<>>, <<>>, <<>>)
IfInit(init, x, ss, els) == Stmt("if", "", <<x>>, <<>>, NoType, init, <<>>, ss, els)
Case(xs, ss)  == Stmt("case", IF xs = <<>> THEN "default" ELSE "", xs, <<>>, NoType, <<>>, <<>>, ss, <<>>)
Switch(xs, cs) == Stmt("switch", "", xs, <<>>, NoType, <<>>, <<>>, cs, <<>>)
Labeled(st) == Stmt("labeled", "", <<>>, <<>>, NoType, <<>>, <<>>, <<st>>, <<>>)
Two == Call("two", <<>>)
RefB == Assignment(":=", B, Ref(X))
OddStatements ==
  {Const("c", NoType, <<Lit(1)>>), Const("c", Int8, <<Lit(2)>>), Const("c", Int8, <<>>),
   Const("c", NoType, <<Comp("<", Lit(1), Lit(2))>>), Const("c", NoType, <<X>>),
   Const("c", Basic("string"), <<>>), Const("c", NoType, <<>>), Const("c", Int8, <<Id("true")>>),
   Var("z", NoType, <<Two>>), Var("z", Int8, <<Two>>), Var("z", Int8, <<Lit(3)>>), Var("z", NoType, <<Id("nil")>>),
   Var("z", PtrT, <<Id("nil")>>), Var("z", Int8, <<>>), Var("z", NoType, <<>>), Assignment(":=", Id("z"), Two),
   Simple("assign", ":=", <<Id("z"), Id("w")>>, <<Two>>), Simple("assign", "=", <<X, A>>, <<Two>>),
   Assignment("=", S, Id("nil")), Assignment(":=", Id("z"), Id("nil")), Assignment("=", X, Lit(9)),
   Assignment("=", P, Comp("<", X, A)), Assignment("+=", P, P), Assignment("+=", X, U), Assignment("=", Lit(1), X),
   IncDecS("++", Lit(5)), IncDecS("++", Call("f", <<A>>)), IncDecS("++", P), IncDecS("--", U),
   ExprS(S), ExprS(New(Int8)), ExprS(X), ExprS(Two), ExprS(Comp("<", X, A)),
   Assignment("=", X, Binary("<<", X, Unary("-", Lit(1)))), Assignment("=", X, ConvertTo("int8", U)),
   Assignment("=", X, Binary("+", Char(1), Lit(1))), Assignment("=", X, Char(2)),
   Assignment(":=", Id("z"), Binary("+", P, Lit(1))), Assignment(":=", Id("z"), Call("v", <<>>)),
   Assignment(":=", Id("z"), Str(1)), Assignment(":=", Id("z"), Binary("+", Str(1), Str(2))),
   Assignment("=", P, Comp("<", Str(1), Str(2))), Assignment("=", U, Index(Str(1), Lit(0))),
   Labeled(IncDecS("++", X)), Labeled(Labeled(IncDecS("++", X))), Branch("break"), Block(<<Branch("continue")>>),
   Switch(<<X>>, <<Case(<<Lit(0)>>, <<IncDecS("++", X)>>), Case(<<>>, <<Return(<<A>>)>>)>>),
   Switch(<<X>>, <<Case(<<P>>, <<>>), Case(<<>>, <<>>), Case(<<>>, <<>>)>>),
   IfInit(<<RefB>>, P, <<Assignment("=", Star(B), A)>>, <<>>),
   IfInit(<<RefB>>, P, <<Return(<<X>>)>>, <<Block(<<IncDecS("++", Star(B))>>)>>),
   If(P, <<IncDecS("++", X)>>, <<IfInit(<<RefB>>, Comp("<", X, A), <<Return(<<Star(B)>>)>>, <<>>)>>),
   For(<<RefB>>, <<P>>, <<Assignment("=", P, Call("g", <<P>>))>>, <<Assignment("-=", Star(B), A)>>),
   For(<<RefB>>, <<P>>, <<>>, <<If(Comp("<", X, A), <<Branch("break")>>, <<>>), Return(<<A>>)>>)}
OddNext ==
  {Assignment("=", X, Id("c")), Assignment("+=", X, Id("c")), IncDecS("++", Id("z")), Assignment("=", X, Id("z")),
   Simple("return", "", <<>>, <<>>), ExprS(Id("z")), If(Id("c"), <<IncDecS("++", X)>>, <<>>)}
R == Id("r")
PtrToPtr ==
  {<<Assignment(":=", R, Ref(S)), st>> :
     st \in {Assignment("=", S, New(Int8)), Assignment("=", Star(R), Ref(X)), Assignment(":=", Y, Star(R)),
             Assignment("=", X, Star(Star(R))), Assignment("=", Star(Star(R)), X), Assignment("=", Star(R), S)}}
OddPrograms ==
  {Func(StmtParams, Result1(Int8), <<DeclareX, s1, Return(<<X>>)>>) : s1 \in OddStatements}
  \cup {Func(StmtParams, Result1(Int8), <<DeclareX, s1, s2, Return(<<X>>)>>) :
          s1 \in {st \in OddStatements : st.k \in {"const", "var", "assign"}}, s2 \in OddNext}
  \cup {Func(StmtParams, Result1(Int8), <<DeclareX>> \o ss \o <<Return(<<X>>)>>) : ss \in PtrToPtr}
  \cup {Func(StmtParams, rs, <<DeclareX, c>>) : rs \in {Result1(Int8), <<Param("r", Int8)>>}, c \in Compound}
  \cup {Func(StmtParams, <<Param("r", PtrT)>>, <<DeclareX, st>> \o e) :
          st \in {Assignment("=", R, S), Assignment("=", R, Ref(X))},
          e \in {<<>>, <<Simple("return", "", <<>>, <<>>)>>, <<Return(<<R>>)>>, <<Return(<<S>>)>>}}
  \cup {Func(StmtParams, Result1(Int8) \o Result1(PtrT), <<DeclareX, Return(<<X, e>>)>>) : e \in {S, Ref(X), Id("nil")}}
  \cup {Func(StmtParams, Result1(Int8) \o Result1(Int8), <<DeclareX, st>>) :
          st \in {Return(<<A, X>>), Return(<<Two>>), Return(<<Call("f", <<A>>), Call("f", <<X>>)>>), Return(<<A>>)}}
  \cup {Func(<<>>, <<>>, ss) : ss \in {<<>>, <<ExprS(Call("v", <<>>))>>, <<Return(<<Two>>)>>, <<Return(<<Lit(1)>>)>>}}

\* Variables of other types, functions as values, generic functions.
Interface  == LangType("interface", "", <<>>, <<>>, <<>>)
Reader     == LangType("interface", "Read", <<Signature(<<>>, <<>>, <<Int8>>)>>, <<>>, <<>>)
Generic    == LangType("named", "G", <<TypeParamT>>, <<>>, <<TypeParamT>>)
FuncType   == Signature(<<>>, <<Int8>>, <<Int8>>)
OtherTypes ==
  {Named("N", Int8), LangType("alias", "M", <<Int8>>, <<>>, <<>>), Interface, Reader, Slice(Int8),
   LangType("array", "2", <<Int8>>, <<>>, <<>>), LangType("instance", "", <<Int8>>, <<Generic>>, <<>>), FuncType}
AssertExpr(x, t) == Expr("assert", "", 0, <<>>, <<x>>, <<t>>)
Complit(t)   == Expr("complit", "", 0, <<>>, <<>>, <<t>>)
Instance(s, t, xs) == Expr("call", "", 0, <<>>, <<Id(s)>> \o xs, <<t>>)
Z == Id("z")
Uses ==
  {Assignment("=", Z, X), Assignment("=", X, Z), Assignment("=", X, Index(Z, Lit(1))), Assignment("=", Z, Id("nil")),
   Assignment("=", X, AssertExpr(Z, Int8)), Assignment("=", Z, Id("f")), Assignment("=", X, Call("z", <<X>>)),
   ExprS(Call("len", <<Z>>)), ExprS(Instance("make", Interface, <<Lit(2)>>)), ExprS(Instance("make", Slice(Int8), <<Lit(2)>>)),
   Simple("assign", ":=", <<Id("w"), Id("b")>>, <<AssertExpr(Z, Int8)>>), ExprS(Complit(Slice(Int8)))}
UsePrograms ==
  {Func(StmtParams, Result1(Int8), <<DeclareX, Var("z", t, ys), use, Return(<<X>>)>>) :
     t \in OtherTypes, ys \in {<<>>, <<X>>, <<Id("f")>>}, use \in Uses}
  \cup {Func(StmtParams, Result1(Int8), <<DeclareX, use, Return(<<X>>)>>) :
          use \in {ExprS(e) : e \in {Instance("id", Int8, <<A>>), Call("id", <<A>>), Instance("f", Int8, <<A>>), Id("gv"),
                                   Instance("make", Interface, <<Lit(2)>>), Complit(Slice(Int8)), Call("len", <<Str(1)>>)}}}
  \cup {Func(<<Param("q", t)>>, <<>>, <<>>) : t \in OtherTypes \cup {Basic("string")}}

MCPrograms == ExprPrograms \cup StmtPrograms \cup OddPrograms \cup UsePrograms
MCEnvironments ==
  {[a |-> n, u |-> k, p |-> IF k = 0 THEN 0 ELSE 1, q |-> IF k = 0 THEN 1 ELSE 0, s |-> 1] :
     n \in {-4, 0, 3}, k \in {0, 2}}
=============================================================================
