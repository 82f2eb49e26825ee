-------------------------------- MODULE Parser --------------------------------
(***************************************************************************)
(* The recursive descent parser, src/lang/processors/parser/parser.cc.     *)
(* Every parse function of the code is a sequence of steps here (Grammar); *)
(* Run carries the steps out the way the C++ does: what a failed step      *)
(* reports, whether it skips the line, and that the function then returns  *)
(* null.  The state p of a parse is the scanner's state, the children      *)
(* collected by the function that is running (kids), its expression option *)
(* (nolit), and whether an issue was reported, the function returned null  *)
(* (ok is FALSE) or a loop repeats without a change for ever (hang).       *)
(* A node has a kind and children; a token of the text is a node without   *)
(* children.                                                               *)
(***************************************************************************)
EXTENDS Scanner, SequencesExt

Node(k, c) == [k |-> k, c |-> c]
Joined(chars) == FoldRight(LAMBDA x, y : x \o y, chars, "")
Leaf(p) == Node(IF p.t = ";" THEN ";"
                ELSE Joined(SubSeq(p.src, p.s, p.e)), <<>>)

Begin(src) == [src |-> src, pos |-> 1, t |-> "illegal", s |-> 0, e |-> 0, last |-> 0,
               kids |-> <<>>, nolit |-> FALSE, issue |-> FALSE, ok |-> TRUE, hang |-> FALSE]

Advance(p, split) ==
    [ScanNext(p, split) EXCEPT
        !.kids = Append(@, Leaf(p)), !.last = p.e]
Null(p) == [p EXCEPT !.ok = FALSE]
Report(p) == [p EXCEPT !.issue = TRUE]
Skipped(p) == IF p.hang THEN p ELSE SkipPastLine(p)

(***************************************************************************)
(* Steps.                                                                  *)
(***************************************************************************)
\* scanner_.Next() and Consume(t), both also with split_shift_ops.
Next1 == [op |-> "next", split |-> FALSE]
NextSplit == [op |-> "next", split |-> TRUE]
Take(t) == [op |-> "take", t |-> t, split |-> FALSE]
TakeSplit(t) == [op |-> "take", t |-> t, split |-> TRUE]
\* An issue, with or without skipping the line, and null.
Fail == [op |-> "fail", skip |-> FALSE]
FailLine == [op |-> "fail", skip |-> TRUE]
\* A parse function: null is passed on (Call), or an empty list (Try); with the
\* last child as argument (With); in place of the function itself (Goto).
Call(f) == [op |-> "call", f |-> f, nolit |-> FALSE]
CallNoLit(f) == [op |-> "call", f |-> f, nolit |-> TRUE]
Same(f) == [op |-> "same", f |-> f]
Try(s) == [op |-> "try", s |-> s]
With(f) == [op |-> "with", f |-> f, nolit |-> FALSE]
WithNoLit(f) == [op |-> "with", f |-> f, nolit |-> TRUE]
Goto(f) == [op |-> "goto", f |-> f]
\* When the step returns null, skip the line and return null.
OrSkip(s) == [op |-> "orskip", s |-> s]
\* A test of the token, of the last child's shape, or of the option.
If(ts, a, b) == [op |-> "if", ts |-> ts, a |-> a, b |-> b]
IfLast(shapes, a, b) == [op |-> "iflast", ts |-> shapes, a |-> a, b |-> b]
Until(ts, body) == [op |-> "until", ts |-> ts, body |-> body, seen |-> <<0, "">>]
Repeat(ts, body) == [op |-> "while", ts |-> ts, body |-> body]
\* The children become one node.
Make(k) == [op |-> "make", k |-> k]
\* Other: a step with its own meaning.
Do(what) == [op |-> what]
Return == Do("return")

Want(ts) == If(ts, <<Next1>>, <<FailLine>>)
When(ts, a) == If(ts, a, <<>>)

(***************************************************************************)
(* Files and declarations.                                                 *)
(***************************************************************************)
CanStartType == {"[", "func", "interface", "struct", "*", "%", "ident"}
AssignOps == {"=", ":="} \cup {op \o "=" : op \in Arithmetic}

ParsePackage == <<If({"package"}, <<Next1>>, <<Fail>>), Try(Call("Ident")), Take(";")>>
ParseDecl == <<When({"import", "const", "var", "type"}, <<Goto("GenDecl")>>),
               If({"func"}, <<Goto("FuncDecl")>>, <<FailLine>>)>>
ParseSpec == <<When({"import"}, <<Goto("ImportDecl")>>),
               If({"type"}, <<Goto("TypeDecl")>>, <<Goto("ValueDecl")>>)>>
ParseGenDecl(spec) ==
    <<Next1,
      If({"("}, <<Next1, Until({")"}, <<Try(Call(spec)), Take(";")>>), Take(")")>>,
                <<Call(spec)>>),
      Make("GenDecl")>>
ParseImportSpec == <<When({"ident"}, <<Call("Ident")>>),
                     If({"string"}, <<Call("BasicLit")>>, <<Fail>>), Make("ImportSpec")>>
ParseValueSpec ==
    <<OrSkip(Call("IdentList")),
      If({"=", ";"}, <<>>, <<OrSkip(Call("Type"))>>),
      When({"="}, <<Next1, OrSkip(Call("ExprList"))>>),
      Make("ValueSpec")>>
ParseTypeSpec ==
    <<OrSkip(Call("Ident")), When({"<"}, <<Call("TypeParamList")>>), When({"="}, <<Next1>>),
      OrSkip(Call("Type")), Make("TypeSpec")>>
ParseFuncDecl ==
    <<Next1,
      If({"("}, <<Call("ExprReceiver")>>, <<When({"<"}, <<Call("TypeReceiver")>>)>>),
      Call("Ident"), When({"<"}, <<Call("TypeParamList")>>),
      Call("Params"),
      If({"{"}, <<>>, <<OrSkip(Call("FuncFieldList"))>>),
      Call("BlockStmt"), Make("FuncDecl")>>

(***************************************************************************)
(* Statements.                                                             *)
(***************************************************************************)
\* A statement that is null is dropped.  A brace or a case right behind a
\* statement, with no semicolon between them, is skipped here.
ParseStmtList ==
    <<Until({"}", "case"},
        <<Try(Call("Stmt")),
          IfLast({"nothing"}, <<>>,
            <<If({"}", "case"}, <<Next1, Make("StmtList"), Return>>, <<Try(Take(";"))>>)>>)>>),
      Make("StmtList")>>
ParseStmt ==
    <<If({"{"}, <<Goto("BlockStmt")>>, <<>>),
      When({"const", "var", "type"}, <<Goto("DeclStmt")>>),
      When({"return"}, <<Goto("ReturnStmt")>>), When({"if"}, <<Goto("IfStmt")>>),
      When({"switch"}, <<Goto("SwitchStmt")>>), When({"for"}, <<Goto("ForStmt")>>),
      When({"fallthrough", "continue", "break"}, <<Goto("BranchStmt")>>),
      Call("Expr"),
      If({":"}, <<IfLast({"Ident"}, <<With("LabeledStmt")>>, <<FailLine>>)>>,
                <<With("SimpleStmt")>>)>>
ParseSimpleStmt ==
    <<If({"++", "--"}, <<Goto("IncDecStmt")>>,
         <<If({","} \cup AssignOps, <<Goto("AssignStmt")>>, <<Goto("ExprStmt")>>)>>)>>
ParseBlockStmt == <<Take("{"), Call("StmtList"), Take("}"), Make("BlockStmt")>>
ParseDeclStmt == <<Call("GenDecl"), Make("DeclStmt")>>
ParseReturnStmt == <<Want({"return"}), If({";"}, <<>>, <<Call("ExprList")>>),
                     Make("ReturnStmt")>>
ParseIfStmt ==
    <<Want({"if"}), CallNoLit("Expr"),
      If({"{"}, <<>>, <<WithNoLit("SimpleStmt"), Take(";"), CallNoLit("Expr")>>),
      Call("BlockStmt"),
      When({"else"}, <<Next1, If({"if", "{"}, <<Call("Stmt")>>, <<FailLine>>)>>),
      Make("IfStmt")>>
\* The switch over a type is told from the shape of its only header.
ParseSwitchStmt ==
    <<Want({"switch"}),
      If({"{"}, <<Goto("ExprSwitch")>>, <<CallNoLit("Expr")>>),
      When({"{"}, <<IfLast({"x.<type>"}, <<Goto("TypeSwitch")>>, <<Goto("ExprSwitch")>>)>>),
      WithNoLit("SimpleStmt"),
      IfLast({"v := x.<type>"},
             <<Take(";"), When({"{"}, <<Goto("TypeSwitch")>>)>>, <<Take(";")>>),
      If({"{"}, <<>>, <<CallNoLit("Expr")>>),
      Goto("ExprSwitch")>>
ProcessExprSwitch == <<Call("SwitchStmtBody"), Make("ExprSwitchStmt")>>
ProcessTypeSwitch == <<Call("SwitchStmtBody"), Make("TypeSwitchStmt")>>
ParseSwitchStmtBody == <<Take("{"), Until({"}"}, <<Call("CaseClause")>>), Next1,
                         Make("BlockStmt")>>
ParseCaseClause ==
    <<If({"case"}, <<Next1, OrSkip(Call("ExprList"))>>, <<Want({"default"})>>),
      Take(":"), Call("StmtList"), Make("CaseClause")>>
ParseForStmt ==
    <<Want({"for"}),
      If({"{"}, <<>>,
        <<CallNoLit("Expr"),
          If({"{"}, <<>>,
            <<WithNoLit("SimpleStmt"), Take(";"), CallNoLit("Expr"), Take(";"),
              If({"{"}, <<>>,
                <<CallNoLit("PostStmt"),
                  IfLast({"definition", "v := x.<type>"}, <<Fail>>, <<>>)>>)>>)>>),
      Call("BlockStmt"), Make("ForStmt")>>
ParsePostStmt == <<Same("Expr"), Goto("SimpleStmt")>>
ParseBranchStmt ==
    <<If({"continue", "break"}, <<Next1, When({"ident"}, <<Call("Ident")>>)>>,
                                <<Want({"fallthrough"})>>),
      Make("BranchStmt")>>
ParseExprStmtQuietly == <<IfLast({"CallExpr"}, <<Make("ExprStmt")>>, <<Do("null")>>)>>
ParseExprStmt == <<IfLast({"CallExpr"}, <<Make("ExprStmt")>>, <<Fail>>)>>
ParseLabeledStmt == <<Take(":"), Call("Stmt"), Make("LabeledStmt")>>
ParseAssignStmt == <<Try(With("MoreExprs")), Want(AssignOps), Same("ExprList"),
                     Make("AssignStmt")>>
ParseIncDecStmt == <<Want({"++", "--"}), Make("IncDecStmt")>>

(***************************************************************************)
(* Expressions.                                                            *)
(***************************************************************************)
\* An empty list and a failure are the same to the callers.
ParseExprList == <<When({":", ")", ";"}, <<Do("null")>>), Same("Expr"), Goto("MoreExprs")>>
ParseMoreExprs == <<Repeat({","}, <<Next1, Same("Expr")>>), Make("list")>>
ParseUnaryExpr ==
    <<If({"+", "-", "!", "^", "*", "%", "&"},
         <<Next1, Same("UnaryExpr"), Make("UnaryExpr")>>, <<Goto("PrimaryStart")>>)>>
ParsePrimaryStartStays ==
    <<If({"int", "char", "string"}, <<Call("BasicLit")>>,
       <<If({"[", "func", "interface", "struct"}, <<Call("Type")>>,
          <<If({"ident"}, <<Call("Ident")>>,
             <<If({"("}, <<Call("ParenExpr")>>, <<Fail>>)>>)>>)>>),
      Goto("PrimaryExpr")>>
ParsePrimaryStart ==
    <<If({"int", "char", "string"}, <<Call("BasicLit")>>,
       <<If({"[", "func", "interface", "struct"}, <<Call("Type")>>,
          <<If({"ident"}, <<Call("Ident")>>,
             <<If({"("}, <<Call("ParenExpr")>>, <<FailLine>>)>>)>>)>>),
      Goto("PrimaryExpr")>>
\* The loop over what extends a primary expression.  A "<" only opens type
\* arguments when it touches a name.
ParsePrimaryExpr ==
    <<When({"."}, <<Next1,
        If({"ident"}, <<Goto("SelectionExpr")>>,
          <<If({"<"}, <<Goto("TypeAssertExpr")>>, <<FailLine>>)>>)>>),
      When({"["}, <<Goto("IndexExpr")>>),
      When({"("}, <<Goto("CallExpr")>>),
      When({"{"}, <<IfLast({"FuncType"}, <<Goto("FuncLit")>>, <<Do("nolit")>>),
                    Goto("CompositeLit")>>),
      When({"<"}, <<IfLast({"Ident", "SelectionExpr"}, <<Do("adjacent")>>, <<Return>>),
                    NextSplit,
                    If({">"}, <<>>, <<Call("Type"), Repeat({","}, <<Next1, Call("Type")>>)>>),
                    OrSkip(TakeSplit(">")),
                    If({"("}, <<Goto("CallExpr")>>, <<Make("TypeInstance"),
                                                      Goto("PrimaryExpr")>>)>>)>>
ParseParenExpr == <<Take("("), Call("Expr"), Take(")"), Make("ParenExpr")>>
ParseSelectionExpr == <<Call("Ident"), Make("SelectionExpr"), Goto("PrimaryExpr")>>
ParseTypeAssertExpr ==
    <<Take("<"), If({"type"}, <<Next1>>, <<Call("Type")>>), Take(">"),
      Make("TypeAssertExpr"), Goto("PrimaryExpr")>>
ParseIndexExpr == <<Take("["), Call("Expr"), Take("]"), Make("IndexExpr"), Goto("PrimaryExpr")>>
ParseCallExpr == <<Take("("), Try(Call("ExprList")), Take(")"), Make("CallExpr"),
                   Goto("PrimaryExpr")>>
ParseFuncLit == <<Call("BlockStmt"), Make("FuncLit"), Goto("PrimaryExpr")>>
ParseCompositeLit == <<Call("Elements"), Make("CompositeLit"), Goto("PrimaryExpr")>>
ParseElements ==
    <<Take("{"),
      Until({"}"},
        <<Call("Element"), If({"}"}, <<>>, <<If({","}, <<Next1>>, <<FailLine>>)>>)>>),
      Next1, Make("Elements")>>
ParseElement ==
    <<If({"{"}, <<Call("Elements"), Return>>, <<Call("Expr")>>),
      If({":"}, <<Next1, If({"{"}, <<Call("Elements")>>, <<Call("Expr")>>),
                  Make("KeyValueExpr")>>, <<>>)>>

(***************************************************************************)
(* Types, fields and parameters.                                           *)
(***************************************************************************)
ParseType ==
    <<When({"["}, <<Goto("ArrayType")>>), When({"func"}, <<Goto("FuncType")>>),
      When({"interface"}, <<Goto("InterfaceType")>>), When({"struct"}, <<Goto("StructType")>>),
      When({"*", "%"}, <<Goto("PointerType")>>),
      If({"ident"}, <<Call("IdentSplit"), Goto("NamedType")>>, <<FailLine>>)>>
ParseNamedType == <<When({"."}, <<Next1, Call("IdentSplit"), Make("SelectionExpr")>>),
                    When({"<"}, <<Goto("TypeInstance")>>)>>
ParseArrayType == <<Take("["), If({"]"}, <<>>, <<Call("Expr")>>), Take("]"), Call("Type"),
                    Make("ArrayType")>>
ParseFuncType == <<Want({"func"}), Call("Params"),
                   When({"("} \cup CanStartType, <<Call("FuncFieldList")>>), Make("FuncType")>>
ParseInterfaceType ==
    <<Want({"interface"}), Take("{"),
      Until({"}"},
        <<If({"ident"}, <<Call("EmbeddedInterface")>>,
            <<If({"(", "<"}, <<Call("MethodSpec")>>, <<FailLine>>)>>), Take(";")>>),
      NextSplit, Make("InterfaceType")>>
ParseEmbeddedInterface == <<Call("Ident"), Goto("NamedType")>>
ParseMethodSpec ==
    <<If({"("}, <<Next1, When({"ident"}, <<Call("Ident")>>), OrSkip(Take(")"))>>,
                <<Want({"<"}), When({"ident"}, <<Call("Ident")>>), OrSkip(Take(">"))>>),
      Call("Ident"), Call("Params"),
      When({"("} \cup CanStartType, <<Call("FuncFieldList")>>), Make("MethodSpec")>>
ParseStructType == <<Want({"struct"}), Take("{"), Call("StructFieldList"), TakeSplit("}"),
                     Make("StructType")>>
ParsePointerType == <<Want({"*", "%"}), Call("Type"), Make("UnaryExpr")>>
ParseTypeInstance ==
    <<OrSkip(Take("<")), Call("Type"), Repeat({","}, <<Next1, Call("Type")>>),
      OrSkip(Take(">")), Make("TypeInstance")>>
ReceiverTypeParams(list) ==
    When({"<"}, <<Next1, OrSkip(Call(list)), OrSkip(Take(">"))>>)
ParseExprReceiver ==
    <<OrSkip(Take("(")),
      If({"ident"},
         <<Call("Ident"),
           If({"*", "%"}, <<Next1, Call("Ident")>>, <<When({"ident"}, <<Call("Ident")>>)>>)>>,
         <<Want({"*", "%"}), Call("Ident")>>),
      ReceiverTypeParams("IdentList"), OrSkip(Take(")")), Make("ExprReceiver")>>
ParseTypeReceiver ==
    <<OrSkip(Take("<")), Call("Ident"), ReceiverTypeParams("IdentListSplit"),
      OrSkip(Take(">")), Make("TypeReceiver")>>
ParseParams == <<If({"("}, <<Goto("FuncFieldList")>>, <<FailLine>>)>>
ParseFuncFieldList ==
    <<If({"("},
         <<Next1, If({")"}, <<Next1>>,
             <<Call("FuncFields"), If({")"}, <<NextSplit>>, <<FailLine>>)>>)>>,
         <<Call("FuncFields")>>),
      Make("FieldList")>>
\* Names before a type are named fields; without a type they are types themselves.
ParseFuncFields ==
    <<If({"ident"}, <<Call("Ident")>>, <<Do("unnamed"), Goto("UnnamedFields")>>),
      When({","}, <<Next1, Goto("FuncFields")>>),
      If(CanStartType, <<Call("Type"), Do("named"),
                         If({","}, <<Next1, Goto("FuncFields")>>, <<Make("list")>>)>>,
         <<Do("unnamed"), With("NamedType"), Do("fields"),
           If({","}, <<Next1, Goto("UnnamedFields")>>, <<Make("list")>>)>>)>>
ParseUnnamedFields == <<Call("Type"), Do("fields"),
                        If({","}, <<Next1, Goto("UnnamedFields")>>, <<Make("list")>>)>>
ParseStructFieldList == <<Until({"}"}, <<Call("StructField"), Take(";")>>), Make("FieldList")>>
ParseStructField ==
    <<If({"ident"}, <<Call("Ident")>>, <<Call("Type"), Make("Field"), Return>>),
      If(CanStartType, <<Call("Type")>>,
         <<If({","}, <<Repeat({","}, <<Next1, Call("Ident")>>), Call("Type")>>,
                     <<With("NamedType")>>)>>),
      Make("Field")>>
ParseTypeParamList ==
    <<OrSkip(TakeSplit("<")),
      If({">"}, <<>>, <<Call("TypeParam"), Repeat({","}, <<Next1, Call("TypeParam")>>)>>),
      OrSkip(TakeSplit(">")), Make("TypeParamList")>>
ParseTypeParam == <<Call("Ident"), When(CanStartType, <<Call("Type")>>), Make("TypeParam")>>
ParseBasicLit == <<Want({"int", "char", "string"}), Make("BasicLit")>>
\* The first identifier of a list is never split.
ParseIdentList(ident) ==
    <<Call("Ident"), Repeat({","}, <<Next1, Call(ident)>>), Make("list")>>
ParseIdent(next) == <<If({"ident"}, <<next>>, <<FailLine>>), Make("Ident")>>

Grammar == [
    Package |-> ParsePackage, Decl |-> ParseDecl, GenDecl |-> ParseSpec,
    ImportDecl |-> ParseGenDecl("ImportSpec"), ValueDecl |-> ParseGenDecl("ValueSpec"),
    TypeDecl |-> ParseGenDecl("TypeSpec"), ImportSpec |-> ParseImportSpec,
    ValueSpec |-> ParseValueSpec, TypeSpec |-> ParseTypeSpec, FuncDecl |-> ParseFuncDecl,
    StmtList |-> ParseStmtList, Stmt |-> ParseStmt, SimpleStmt |-> ParseSimpleStmt,
    BlockStmt |-> ParseBlockStmt, DeclStmt |-> ParseDeclStmt, ReturnStmt |-> ParseReturnStmt,
    IfStmt |-> ParseIfStmt, SwitchStmt |-> ParseSwitchStmt, ExprSwitch |-> ProcessExprSwitch,
    TypeSwitch |-> ProcessTypeSwitch, SwitchStmtBody |-> ParseSwitchStmtBody,
    CaseClause |-> ParseCaseClause, ForStmt |-> ParseForStmt, PostStmt |-> ParsePostStmt,
    BranchStmt |-> ParseBranchStmt, ExprStmt |-> ParseExprStmt,
    LabeledStmt |-> ParseLabeledStmt, AssignStmt |-> ParseAssignStmt,
    IncDecStmt |-> ParseIncDecStmt, ExprList |-> ParseExprList, MoreExprs |-> ParseMoreExprs,
    UnaryExpr |-> ParseUnaryExpr, PrimaryStart |-> ParsePrimaryStart,
    PrimaryExpr |-> ParsePrimaryExpr, ParenExpr |-> ParseParenExpr,
    SelectionExpr |-> ParseSelectionExpr, TypeAssertExpr |-> ParseTypeAssertExpr,
    IndexExpr |-> ParseIndexExpr, CallExpr |-> ParseCallExpr, FuncLit |-> ParseFuncLit,
    CompositeLit |-> ParseCompositeLit, Elements |-> ParseElements, Element |-> ParseElement,
    Type |-> ParseType, NamedType |-> ParseNamedType, ArrayType |-> ParseArrayType,
    FuncType |-> ParseFuncType, InterfaceType |-> ParseInterfaceType,
    EmbeddedInterface |-> ParseEmbeddedInterface, MethodSpec |-> ParseMethodSpec,
    StructType |-> ParseStructType, PointerType |-> ParsePointerType,
    TypeInstance |-> ParseTypeInstance, ExprReceiver |-> ParseExprReceiver,
    TypeReceiver |-> ParseTypeReceiver, Params |-> ParseParams,
    FuncFieldList |-> ParseFuncFieldList, FuncFields |-> ParseFuncFields,
    UnnamedFields |-> ParseUnnamedFields, StructFieldList |-> ParseStructFieldList,
    StructField |-> ParseStructField, TypeParamList |-> ParseTypeParamList,
    TypeParam |-> ParseTypeParam, BasicLit |-> ParseBasicLit,
    IdentList |-> ParseIdentList("Ident"), IdentListSplit |-> ParseIdentList("IdentSplit"),
    Ident |-> ParseIdent(Next1), IdentSplit |-> ParseIdent(NextSplit)]

(***************************************************************************)
(* Running the steps.                                                      *)
(***************************************************************************)
CompareOps == {"==", "!=", "<", "<=", ">", ">="}
PrecedenceFlat(op) == IF op \in {"&&", "||"} THEN 1 ELSE IF op \in CompareOps THEN 3
                      ELSE IF op \in {"+", "-", "|", "^"} THEN 4
                      ELSE IF op \in Arithmetic THEN 5 ELSE 0
Precedence(op) ==
    CASE op \in {"*", "/", "%", "<<", ">>", "&", "&^"} -> 5
      [] op \in {"+", "-", "|", "^"} -> 4
      [] op \in CompareOps -> 3
      [] op = "&&" -> 2
      [] op = "||" -> 1
      [] OTHER -> 0

Wrap(p, k) == [p EXCEPT !.kids = <<Node(k, @)>>]
\* What the parser looks at of an expression or statement it has just parsed.
Shape(n) ==
    IF n.k = "TypeAssertExpr" /\ n.c[4].k = "type" THEN "x.<type>"
    ELSE IF n.k # "AssignStmt" \/ n.c[2].k # ":=" THEN n.k
    ELSE IF /\ Len(n.c[1].c) = 1 /\ n.c[1].c[1].k = "Ident"
            /\ Len(n.c[3].c) = 1 /\ n.c[3].c[1].k = "TypeAssertExpr"
            /\ n.c[3].c[1].c[4].k = "type"
         THEN "v := x.<type>"
         ELSE "definition"

\* The fields of a parameter list: names of one type, or types alone.
NamedField(kids) ==
    LET fields == {i \in DOMAIN kids : kids[i].k = "Field"}
        from == IF fields = {} THEN 1 ELSE Max(fields) + 2
    IN SubSeq(kids, 1, from - 1) \o <<Node("Field", SubSeq(kids, from, Len(kids)))>>
UnnamedFields(kids) ==
    [i \in DOMAIN kids |-> IF kids[i].k \in {",", "Field"} THEN kids[i]
                           ELSE Node("Field", <<kids[i]>>)]

RECURSIVE Run(_, _), CallFunc(_, _, _), BinaryExpr(_, _, _)

\* What follows an operand: operators of at least the given precedence, each with
\* an operand of a higher one; comparisons make a chain.
BinaryExpr(prec, p, chain) ==
    LET op == p.t
        compares == op \in CompareOps
        x == IF chain /\ ~compares THEN Wrap(p, "CompareExpr") ELSE p
        y == CallFunc([f |-> "Expr", prec |-> Precedence(op) + 1], Advance(x, FALSE), p.nolit)
    IN IF ~p.ok THEN p
       ELSE IF Precedence(op) = 0 \/ Precedence(op) < prec
       THEN IF chain THEN Wrap(p, "CompareExpr") ELSE p
       ELSE IF ~y.ok THEN y
       ELSE BinaryExpr(prec, IF compares THEN y ELSE Wrap(y, "BinaryExpr"), compares)

CallFunc(c, p, nolit) ==
    LET q == [p EXCEPT !.kids = <<>>, !.nolit = nolit]
        r == IF c.f = "Expr" THEN BinaryExpr(c.prec, Run(<<Same("UnaryExpr")>>, q), FALSE)
             ELSE Run(Grammar[c.f], q)
    IN IF r.ok THEN [r EXCEPT !.kids = p.kids \o @, !.nolit = p.nolit] ELSE r

Run(steps, p) ==
    IF steps = <<>> \/ ~p.ok THEN p ELSE
    LET s == Head(steps)
        rest == Tail(steps)
        last == p.kids[Len(p.kids)]
        F(f) == [f |-> f, prec |-> 0]
    IN CASE s.op = "next" -> Run(rest, Advance(p, s.split))
         [] s.op = "take" ->
              IF p.t = s.t THEN Run(rest, Advance(p, s.split))
              ELSE Null(Report(IF s.t \in {"{", "}", ";"} THEN SkipPastLine(p) ELSE p))
         [] s.op = "fail" -> Null(Report(IF s.skip THEN SkipPastLine(p) ELSE p))
         [] s.op = "null" -> Null(p)
         [] s.op = "return" -> p
         [] s.op = "nolit" -> IF p.nolit THEN p ELSE Run(rest, p)
         [] s.op = "adjacent" -> IF p.last + 1 # p.s THEN p ELSE Run(rest, p)
         [] s.op = "call" -> Run(rest, CallFunc(F(s.f), p, s.nolit))
         [] s.op = "same" -> Run(rest, CallFunc(F(s.f), p, p.nolit))
         [] s.op = "goto" -> Run(Grammar[s.f], p)
         [] s.op = "with" ->
              LET r == Run(Grammar[s.f], [p EXCEPT !.kids = <<last>>, !.nolit = @ \/ s.nolit])
              IN IF r.ok THEN Run(rest, [r EXCEPT !.kids = Front(p.kids) \o @,
                                                  !.nolit = p.nolit])
                 ELSE r
         [] s.op = "try" ->
              LET r == Run(<<s.s>>, p)
              IN IF r.ok \/ r.hang THEN Run(rest, r)
                 ELSE Run(rest, [r EXCEPT !.ok = TRUE, !.nolit = p.nolit,
                                          !.kids = Append(p.kids, Node("nothing", <<>>))])
         [] s.op = "orskip" ->
              LET r == Run(<<s.s>>, p) IN IF r.ok THEN Run(rest, r) ELSE Skipped(r)
         [] s.op = "if" -> Run((IF p.t \in s.ts THEN s.a ELSE s.b) \o rest, p)
         [] s.op = "iflast" -> Run((IF Shape(last) \in s.ts THEN s.a ELSE s.b) \o rest, p)
         [] s.op = "while" ->
              Run(IF p.t \in s.ts THEN s.body \o steps ELSE rest, p)
         [] s.op = "until" ->
              IF p.t \in s.ts THEN Run(rest, p)
              ELSE IF s.seen = <<p.pos, p.t>> THEN [p EXCEPT !.ok = FALSE, !.hang = TRUE]
              ELSE Run(s.body \o <<[s EXCEPT !.seen = <<p.pos, p.t>>]>> \o rest, p)
         [] s.op = "make" -> Run(rest, Wrap(p, s.k))
         [] s.op = "named" -> Run(rest, [p EXCEPT !.kids = NamedField(@)])
         [] s.op = "fields" -> Run(rest, [p EXCEPT !.kids = UnnamedFields(@)])
         [] s.op = "unnamed" ->
              IF \E n \in Range(p.kids) : n.k = "Field"
              THEN Null(Report(SkipPastLine(p))) ELSE Run(rest, p)

(***************************************************************************)
(* Parsing a file: one declaration after the other up to the end.          *)
(***************************************************************************)
CONSTANT Files    \* what is parsed: the characters (src) and, when the file is a
                  \* program of the language, its declarations (tree), else <<>>
VARIABLES stage, parse, finished_imports, written
vars == <<stage, parse, finished_imports, written>>

Init == /\ \E file \in Files :
              /\ parse = ScanNext(Begin(file.src), FALSE)
              /\ written = file.tree
        /\ stage = "package"
        /\ finished_imports = FALSE

PackageClause ==
    /\ stage = "package"
    /\ parse' = Run(ParsePackage, parse)
    /\ stage' = IF parse'.ok THEN "decls" ELSE "null"
    /\ UNCHANGED <<finished_imports, written>>

NextDecl ==
    /\ stage = "decls" /\ parse.t # "EOF"
    /\ finished_imports' = (finished_imports \/ parse.t # "import")
    /\ LET q == IF parse.t = "import" /\ finished_imports THEN Report(parse) ELSE parse
       IN parse' = Run(<<Try(Call("Decl")), Try(Take(";"))>>, q)
    /\ stage' = IF parse'.hang THEN "hangs" ELSE "decls"
    /\ UNCHANGED written

EndFile ==
    /\ stage = "decls" /\ parse.t = "EOF"
    /\ stage' = "file"
    /\ UNCHANGED <<parse, finished_imports, written>>

Next == PackageClause \/ NextDecl \/ EndFile
Spec == Init /\ [][Next]_vars

(***************************************************************************)
(* Properties.                                                             *)
(***************************************************************************)
Accepted == stage = "file" /\ ~parse.issue

EmptyKinds == {"nothing", "StmtList", "FieldList"}
RECURSIVE Text(_)
Text(kids) ==
    IF kids = <<>> THEN "" ELSE
    LET n == Head(kids)
    IN (IF n.c # <<>> THEN Text(n.c) ELSE IF n.k \in EmptyKinds \cup {";"} THEN "" ELSE n.k)
         \o Text(Tail(kids))
Matters(c) == c \notin Blanks \cup {"\n", ";"}

\* Known deviation: an expression list that is empty reports nothing.  var x = ; is
\* dropped when a semicolon or the end of the block follows the line, case : with the
\* rest of its line, whatever that holds, and the switch it is in.
DropsEmptyList == \E i \in 1..Len(parse.src) :
    /\ parse.src[i] \in {"=", "case"}
    /\ LET Solid(j) == parse.src[j] \notin Blanks \cup {"\n"}
       IN At(parse.src, FirstFrom(Len(parse.src), i + 1, Solid)) \in {";", ")", ":"}

\* A file is accepted only when all of it was understood: without an issue, every
\* character but blanks, newlines and semicolons stands in the tree, in order.
\* Skipped lines, null functions and dropped statements must all have reported.
NothingIsLost ==
    Accepted /\ ~DropsEmptyList =>
        Text(parse.kids) = Joined(SelectSeq(parse.src, Matters))

\* No loop of the parser repeats without taking a token, except that over the
\* statements of a block that the end of the file cuts off: it never ends.
LoopsMakeProgress == stage = "hangs" => parse.t = "EOF"

\* Known deviations, each of which rejects or misreads a program: a block whose last
\* statement stands on the line of its brace, fallthrough, a literal with an escape,
\* a default clause behind a case, type arguments nested three deep that close in >>>
\* without a space.
RECURSIVE Nodes(_)
Nodes(n) == {n} \cup UNION {Nodes(n.c[i]) : i \in DOMAIN n.c}
EndsOnLine(n) == n.k = "StmtList" /\ n.c # <<>> /\ n.c[Len(n.c)].k # ";"
Escapes(n) == n.k = "BasicLit" /\ n.c[1].k = "\"\\a\""
DefaultLast(n) ==
    n.k = "BlockStmt" /\ \E i \in 3..Len(n.c) : n.c[i].k = "CaseClause" /\ n.c[i].c[1].k = "default"
AngleDepth(src) ==
    \E i \in 1..(Len(src) - 2) : src[i] = ">" /\ src[i + 1] = ">" /\ src[i + 2] = ">"
KnownDeviation ==
    \/ AngleDepth(parse.src)
    \/ \E i \in DOMAIN written : \E n \in Nodes(written[i]) :
          n.k = "fallthrough" \/ EndsOnLine(n) \/ Escapes(n)
            \/ DefaultLast(n)

\* Every program of the language is accepted, and its tree has the operators, chains,
\* type arguments and statements grouped as the language says.
ProgramsAreUnderstood ==
    stage \in {"file", "null", "hangs"} /\ written # <<>> /\ ~KnownDeviation =>
        Accepted /\ parse.kids = written
===============================================================================
