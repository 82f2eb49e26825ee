------------------------------- MODULE MCParser -------------------------------
(***************************************************************************)
(* The files to parse.  Programs are written as trees, with the grouping   *)
(* the language gives them, and printed to characters; Scraps are short    *)
(* sequences of arbitrary characters at every place where a construct may  *)
(* begin.                                                                  *)
(***************************************************************************)
EXTENDS Parser

CONSTANTS
    ScrapLength,         \* the number of arbitrary characters among declarations,
                         \* statements and expressions,
    ShortScrap           \* and inside switches, interfaces and type declarations
\* What they are taken from.
ScrapChars == {"a", "(", ")", "{", "}", "<", ">", "=", ";", ":", ",", "case", "return",
               "*", "[", ".", "\n", "if"}

Tok(x) == Node(x, <<>>)
Id(x) == Node("Ident", <<Tok(x)>>)
Lit(x) == Node("BasicLit", <<Tok(x)>>)
Commas(ns) == FlattenSeq([i \in DOMAIN ns |-> IF i = 1 THEN <<ns[i]>> ELSE <<Tok(","), ns[i]>>])
List(ns) == Node("list", Commas(ns))
Paren(c) == <<Tok("(")>> \o c \o <<Tok(")")>>

(***************************************************************************)
(* Spelling: a blank between two tokens, none where type arguments open or *)
(* close, and a newline for a statement's semicolon.                       *)
(***************************************************************************)
\* The characters of a token's text; a word is one character.
Chars(text) == IF text \in Words THEN <<text>>
               ELSE [i \in 1..Len(text) |-> SubSeq(text, i, i)]
RECURSIVE SpellAll(_, _), Spell(_)
Touches(n) == n.k = "TypeInstance" \/ (n.k = "CallExpr" /\ n.c[2].k = "<")
SpellAll(ns, blank) ==
    IF ns = <<>> THEN <<>> ELSE blank \o Spell(Head(ns)) \o SpellAll(Tail(ns), blank)
Spell(n) ==
    IF n.k = ";" THEN <<"\n">>
    ELSE IF n.c = <<>> THEN IF n.k \in EmptyKinds THEN <<>> ELSE Chars(n.k)
    ELSE IF Touches(n) THEN SpellAll(n.c, <<>>)
    ELSE Spell(n.c[1]) \o SpellAll(Tail(n.c), <<" ">>)

(***************************************************************************)
(* Expressions.                                                            *)
(***************************************************************************)
\* a op b op c ...: the weakest operator splits it, the last of several; the
\* comparisons split it together.
Levels == <<{"||"}, {"&&"}, {"==", "<"}, {"+"}, {"*", "&^"}>>
Strength(op) == CHOOSE i \in DOMAIN Levels : op \in Levels[i]
RECURSIVE Grouped(_, _)
Grouped(xs, ops) ==
    IF ops = <<>> THEN xs[1] ELSE
    LET weakest == Min({Strength(ops[i]) : i \in DOMAIN ops})
        at == {i \in DOMAIN ops : Strength(ops[i]) = weakest}
        cuts == IF weakest = 3 THEN SetToSortSeq(at, <) ELSE <<Max(at)>>
        From(j) == IF j = 1 THEN 1 ELSE cuts[j - 1] + 1
        To(j) == IF j > Len(cuts) THEN Len(ops) ELSE cuts[j] - 1
        Part(j) == Grouped(SubSeq(xs, From(j), To(j) + 1), SubSeq(ops, From(j), To(j)))
    IN Node(IF weakest = 3 THEN "CompareExpr" ELSE "BinaryExpr",
            FlattenSeq([j \in 1..(Len(cuts) + 1) |->
                IF j = 1 THEN <<Part(1)>> ELSE <<Tok(ops[cuts[j - 1]]), Part(j)>>]))
Operands == <<Id("a"), Lit("1"), Node("UnaryExpr", <<Tok("-"), Id("b")>>), Id("c")>>
Operations == {Grouped(Operands, ops) : ops \in [1..3 -> {"*", "&^", "+", "==", "<", "&&", "||"}]}

Types0 == {Id("T"), Node("SelectionExpr", <<Id("a"), Tok("."), Id("T")>>)}
Inst(x, args) == Node("TypeInstance", <<x, Tok("<")>> \o Commas(args) \o <<Tok(">")>>)
Field(c) == Node("Field", c)
Fields(fs) == Node("FieldList", Paren(IF fs = <<>> THEN <<>> ELSE <<List(fs)>>))
Params == {Fields(<<>>), Fields(<<Field(<<Id("T")>>)>>), Fields(<<Field(<<Id("a"), Id("T")>>)>>),
           Fields(<<Field(<<Id("a"), Tok(","), Id("b"), Id("T")>>), Field(<<Id("c"), Id("T")>>)>>),
           Fields(<<Field(<<Id("T")>>), Field(<<Node("UnaryExpr", <<Tok("*"), Id("T")>>)>>)>>),
           Fields(<<Field(<<Id("a"), Node("ArrayType", <<Tok("["), Tok("]"), Id("T")>>)>>)>>)}
Results == {<<>>, <<Node("FieldList", <<List(<<Field(<<Id("T")>>)>>)>>)>>,
            <<Fields(<<Field(<<Id("T")>>), Field(<<Id("T")>>)>>)>>}
Struct(fs) == Node("StructType", <<Tok("struct"), Tok("{"),
    Node("FieldList", FlattenSeq([i \in DOMAIN fs |-> <<fs[i], Tok(";")>>])), Tok("}")>>)
Method(l, r, x, ps, rs) == Node("MethodSpec", <<Tok(l)>> \o x \o <<Tok(r), Id("m"), ps>> \o rs)
Interface(ms) == Node("InterfaceType", <<Tok("interface"), Tok("{")>>
    \o FlattenSeq([i \in DOMAIN ms |-> <<ms[i], Tok(";")>>]) \o <<Tok("}")>>)
NestedInst == Inst(Id("T"), <<Inst(Id("T"), <<Id("T")>>)>>)
FuncTypes == {Node("FuncType", <<Tok("func"), ps>> \o rs) : ps \in Params, rs \in Results}
Types ==
    Types0 \cup FuncTypes
    \cup {Node("UnaryExpr", <<Tok(op), x>>) : op \in {"*", "%"}, x \in Types0}
    \cup {Node("ArrayType", <<Tok("[")>> \o len \o <<Tok("]"), x>>) :
            len \in {<<>>, <<Lit("1")>>}, x \in Types0}
    \cup {Inst(Id("T"), <<Id("T"), Id("a")>>), NestedInst, Inst(Id("T"), <<NestedInst>>),
          Struct(<<>>), Struct(<<Field(<<Id("T")>>), Field(<<Id("a"), Id("T")>>)>>),
          Struct(<<Field(<<Id("a"), Tok(","), Id("b"), NestedInst>>)>>), Interface(<<>>),
          Interface(<<Id("T"), Method("(", ")", <<>>, Fields(<<>>), <<>>),
                      Method("<", ">", <<Id("a")>>, Fields(<<>>), <<Fields(<<>>)>>)>>)}

Call1(x, args) == Node("CallExpr", (IF x.k = "TypeInstance" THEN x.c ELSE <<x>>) \o Paren(IF args = <<>> THEN <<Node("nothing", <<>>)>>
                                                  ELSE <<List(args)>>))
Block(stmts) == Node("BlockStmt", <<Tok("{"), Node("StmtList", stmts), Tok("}")>>)
Elements(es) == Node("Elements", <<Tok("{")>> \o Commas(es) \o <<Tok("}")>>)
Extensions(x) ==
    {Node("SelectionExpr", <<x, Tok("."), Id("b")>>), Call1(x, <<>>),
     Call1(x, <<Id("a"), Lit("1")>>), Node("IndexExpr", <<x, Tok("["), Lit("1"), Tok("]")>>),
     Node("TypeAssertExpr", <<x, Tok("."), Tok("<"), Id("T"), Tok(">")>>),
     Node("CompositeLit", <<x, Elements(<<Lit("1"), Elements(<<>>)>>)>>),
     Node("CompositeLit", <<x, Elements(<<Node("KeyValueExpr", <<Id("a"), Tok(":"), Lit("1")>>)>>)>>)}
    \cup (IF x.k \in {"Ident", "SelectionExpr"}
          THEN {Inst(x, <<Id("T")>>), Node("CallExpr", Inst(x, <<Id("T")>>).c \o Paren(<<List(<<Id("a")>>)>>))}
          ELSE {})
Primaries0 == {Id("a"), Lit("1"), Lit("'a'"), Lit("\"a\""), Lit("\"\\a\""), Node("ParenExpr", Paren(<<Id("a")>>)),
               Node("FuncLit", <<Node("FuncType", <<Tok("func"), Fields(<<>>)>>), Block(<<>>)>>),
               Node("CompositeLit", <<Node("ArrayType", <<Tok("["), Tok("]"), Id("T")>>), Elements(<<>>)>>)}
Primaries1 == UNION {Extensions(x) : x \in Primaries0}
Primaries == Primaries0 \cup Primaries1 \cup UNION {Extensions(x) : x \in {y \in Primaries1 : y.c[1].k = "Ident"}}

(***************************************************************************)
(* Statements.                                                             *)
(***************************************************************************)
Stmts(ss) == Block(FlattenSeq([i \in DOMAIN ss |-> <<ss[i], Tok(";")>>]))
Assign(ls, op, rs) == Node("AssignStmt", <<List(ls), Tok(op), List(rs)>>)
ExprStmt(x) == Node("ExprStmt", <<x>>)
F == ExprStmt(Call1(Id("f"), <<>>))
Inc == Node("IncDecStmt", <<Id("a"), Tok("++")>>)
Compare == Node("CompareExpr", <<Id("a"), Tok("<"), Lit("1")>>)
TypeOf == Node("TypeAssertExpr", <<Id("a"), Tok("."), Tok("<"), Tok("type"), Tok(">")>>)
Bodies == {Block(<<>>), Stmts(<<F, Inc>>), Block(<<F>>)}
Value(tok, names, rest) == Node("GenDecl", <<Tok(tok), Node("ValueSpec", <<List(names)>> \o rest)>>)
SimpleStmts == {Assign(<<Id("a")>>, ":=", <<Lit("1")>>), Assign(<<Id("a"), Id("b")>>, "=", <<Id("b"), Id("a")>>),
                Assign(<<Id("a")>>, "<<=", <<Lit("1")>>), Inc, F,
                Assign(<<Id("a")>>, ":=", <<TypeOf>>)}
Header(h) == IF h = <<>> THEN <<>> ELSE <<h[1], Tok(";")>>
Ifs == {Node("IfStmt", <<Tok("if")>> \o Header(h) \o <<Compare, b>> \o e) :
          h \in {<<>>} \cup {<<s>> : s \in SimpleStmts}, b \in Bodies,
          e \in {<<>>, <<Tok("else"), Block(<<>>)>>,
                 <<Tok("else"), Node("IfStmt", <<Tok("if"), Id("a"), Block(<<>>)>>)>>}}
Fors == {Node("ForStmt", <<Tok("for")>> \o h \o <<b>>) : b \in Bodies,
           h \in {<<>>, <<Compare>>} \cup {<<s, Tok(";"), Compare, Tok(";")>> \o post :
                     s \in SimpleStmts, post \in {<<>>, <<Inc>>, <<F>>}}}
Case(head, stmts) == Node("CaseClause", head \o <<Tok(":"),
    Node("StmtList", FlattenSeq([i \in DOMAIN stmts |-> <<stmts[i], Tok(";")>>]))>>)
SwitchBodies == {Node("BlockStmt", <<Tok("{"), Tok("}")>>),
    Node("BlockStmt", <<Tok("{"), Case(<<Tok("case"), List(<<Lit("1"), Lit("2")>>)>>, <<F>>),
                        Case(<<Tok("case"), List(<<Id("a")>>)>>, <<>>), Tok("}")>>),
    Node("BlockStmt", <<Tok("{"), Case(<<Tok("case"), List(<<Lit("1")>>)>>,
                          <<F, Node("BranchStmt", <<Tok("fallthrough")>>)>>), Tok("}")>>),
    Node("BlockStmt", <<Tok("{"), Case(<<Tok("default")>>, <<F>>), Tok("}")>>),
    Node("BlockStmt", <<Tok("{"), Case(<<Tok("case"), List(<<Id("a")>>)>>, <<>>),
                        Case(<<Tok("default")>>, <<F>>), Tok("}")>>)}
Switches ==
    {Node(IF Len(h) > 0 /\ h[1] = TypeOf THEN "TypeSwitchStmt" ELSE "ExprSwitchStmt",
          <<Tok("switch")>> \o h \o <<b>>) : b \in SwitchBodies,
       h \in {<<>>, <<Id("a")>>, <<TypeOf>>, <<F, Tok(";")>>, <<F, Tok(";"), Id("a")>>}}
    \cup {Node("TypeSwitchStmt", <<Tok("switch"), Assign(<<Id("a")>>, ":=", <<TypeOf>>), Tok(";"), b>>)
            : b \in SwitchBodies}
OtherStmts ==
    {Node("ReturnStmt", <<Tok("return")>>), Node("ReturnStmt", <<Tok("return"), List(<<Id("a"), Lit("1")>>)>>),
     Node("DeclStmt", <<Value("var", <<Id("a")>>, <<Id("T")>>)>>),
     Node("LabeledStmt", <<Id("a"), Tok(":"), Node("ForStmt", <<Tok("for"), Block(<<>>)>>)>>),
     Node("BranchStmt", <<Tok("break"), Id("a")>>), Node("BranchStmt", <<Tok("continue")>>), Stmts(<<>>)}
Statements == SimpleStmts \cup Ifs \cup Fors \cup Switches \cup OtherStmts

(***************************************************************************)
(* Declarations and files.                                                 *)
(***************************************************************************)
Func(receiver, params, ps, rs, b) ==
    Node("FuncDecl", <<Tok("func")>> \o receiver \o <<Id("f")>> \o params \o <<ps>> \o rs \o <<b>>)
Receivers == {<<>>} \cup {<<Node("ExprReceiver", Paren(c))>> :
                 c \in {<<Id("T")>>, <<Id("a"), Id("T")>>, <<Id("a"), Tok("*"), Id("T")>>,
                        <<Tok("%"), Id("T"), Tok("<"), List(<<Id("b")>>), Tok(">")>>}}
    \cup {<<Node("TypeReceiver", <<Tok("<"), Id("T"), Tok(">")>>)>>}
TypeParams == {<<>>, <<Node("TypeParamList", <<Tok("<"), Node("TypeParam", <<Id("a")>>), Tok(","),
                                              Node("TypeParam", <<Id("b"), Id("T")>>), Tok(">")>>)>>}
Group(tok, specs) == Node("GenDecl", <<Tok(tok), Tok("(")>>
    \o FlattenSeq([i \in DOMAIN specs |-> <<specs[i], Tok(";")>>]) \o <<Tok(")")>>)
Import(c) == Node("ImportSpec", c)
TypeDecl(c) == Node("GenDecl", <<Tok("type"), Node("TypeSpec", c)>>)
Decls ==
    {Value("var", <<Id("a")>>, <<Tok("="), List(<<x>>)>>) : x \in Operations \cup Primaries}
    \cup {Value("const", <<Id("a"), Id("b")>>, <<x>>) : x \in Types}
    \cup {TypeDecl(<<Id("T")>> \o ps \o eq \o <<x>>) :
            ps \in TypeParams, eq \in {<<>>, <<Tok("=")>>}, x \in Types0}
    \cup {Func(r, tp, ps, rs, Block(<<>>)) : r \in Receivers, tp \in TypeParams, ps \in Params, rs \in Results}
    \cup {Func(<<>>, <<>>, Fields(<<>>), <<>>, Stmts(<<s>>)) : s \in Statements}
    \cup {Group("var", <<>>), Group("const", <<Node("ValueSpec", <<List(<<Id("a")>>), Tok("="), List(<<Lit("1")>>)>>)>>)}
Import1 == Node("GenDecl", <<Tok("import"), Import(<<Lit("\"a\"")>>)>>)
Import2 == Group("import", <<Import(<<Id("b"), Lit("\"a\"")>>), Import(<<Lit("\"b\"")>>)>>)
Trees == {<<d>> : d \in Decls} \cup {<<Import1, Import2, F1>> : F1 \in {Value("var", <<Id("a")>>, <<Id("T")>>)}}

File(decls) == <<Tok("package"), Id("a"), Tok(";")>>
    \o FlattenSeq([i \in DOMAIN decls |-> <<decls[i], Tok(";")>>])
Programs == {[src |-> SpellAll(File(ds), <<" ">>), tree |-> File(ds)] : ds \in Trees}

Scrap(n, before, after) ==
    {[src |-> <<"package", " ", "a", "\n">> \o before \o s \o after, tree |-> <<>>] :
        s \in UNION {[1..i -> ScrapChars] : i \in 0..n}}
InFunc == <<"func", " ", "f", "(", ")", "{", "\n">>
Scraps ==
    Scrap(ScrapLength, <<>>, <<"\n">>)
    \cup Scrap(ScrapLength, InFunc, <<"\n", "}", "\n">>)
    \cup Scrap(ScrapLength, <<"var", " ", "a", "=">>, <<"\n", ";", "\n">>)
    \cup Scrap(ShortScrap, InFunc \o <<"switch", " ", "a", "{", "\n">>, <<"\n", "}", "\n", "}", "\n">>)
    \cup Scrap(ScrapLength, InFunc \o <<"switch", " ", "a", "{">>, <<"}", "\n", "}", "\n">>)
    \cup Scrap(ShortScrap, <<"type", " ", "a", "interface", "{">>, <<"\n", "}", "\n">>)
    \cup Scrap(ShortScrap, <<"type", " ", "a">>, <<"\n", "var", " ", "b", "=", "1", "\n">>)

MCFiles == Programs \cup Scraps
=============================================================================
