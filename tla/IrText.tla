------------------------------- MODULE IrText -------------------------------
(***************************************************************************)
(* The text format of the IR, written by src/src/ir/serialization/print.cc *)
(* and read by func_parser.cc, constant_parser.cc, type_parser.cc and      *)
(* parse.h beside it, with the types, constants and instructions that      *)
(* src/src/lang/processors/ir/serialization adds to them.                  *)
(*                                                                         *)
(* A text is a sequence of tokens: what src/src/ir/serialization/          *)
(* scanner.cc makes of it, one token per number, name or string. A         *)
(* function is a record of what its Func object holds; an instruction      *)
(* holds the values it defines (results), the values it uses (args) and    *)
(* the blocks it names (blocks: the destinations of a jump, the origins    *)
(* of a phi). Positions in the text are left out.                          *)
(***************************************************************************)
EXTENDS Integers, Sequences, SequencesExt, FiniteSets

Scanner == INSTANCE IrScanner

Tok(k) == [k |-> k, v |-> ""]       \* punctuation, "NL" and "EoF"
Id(name) == [k |-> "id", v |-> name]
Num(n) == [k |-> "num", v |-> n]
Addr(n) == [k |-> "addr", v |-> n]
Str(s) == [k |-> "str", v |-> s]
EoF == Tok("EoF")

NoNum == -1
Null == [k |-> "null"] \* the null pointer, as a type or as a value

Basic(name) == [k |-> name]
Int64 == Basic("i64")
IntWidth == [i8 |-> 8, i16 |-> 16, u8 |-> 8, u16 |-> 16, i64 |-> 0] \* 0: no value here exceeds it
BasicNames == {"b", "i8", "i16", "u8", "u16", "i64", "ptr", "func", "lstr", "ltypeid"}
IsIntType(t) == t.k \in DOMAIN IntWidth
IsStructured(t) == t.k \notin BasicNames

\* Types are compared by address: a structured type equals itself only, and
\* here never another one that was read.
IsSameType(t, u) == t = u /\ ~IsStructured(t)

Computed(n, t) == [k |-> "computed", n |-> n, type |-> t]
Constant(kind, v, t) == [k |-> kind, v |-> v, type |-> t]
IsConstant(value) == value.k \notin {"computed", "null"}

(***************************************************************************)
(* Printing                                                                *)
(***************************************************************************)

RECURSIVE Separated(_)
Separated(parts) ==
  IF parts = <<>> THEN <<>>
  ELSE IF Len(parts) = 1 THEN parts[1]
  ELSE parts[1] \o <<Tok(",")>> \o Separated(Tail(parts))

RECURSIVE TypeText(_)
TypeText(t) ==
  LET Types(ts) == Separated([i \in DOMAIN ts |-> TypeText(ts[i])])
      Angled(name, body) == <<Id(name), Tok("<")>> \o body \o <<Tok(">")>>
  IN CASE t.k = "null" -> <<Id("NULL")>>
     [] t.k = "lshared_ptr" ->
          Angled(t.k, TypeText(t.of) \o <<Tok(","), Id(IF t.strong THEN "s" ELSE "w")>>)
     [] t.k = "lunique_ptr" -> Angled(t.k, TypeText(t.of))
     [] t.k = "larray" -> Angled(t.k, TypeText(t.of) \o <<Tok(","), Num(t.count)>>)
     [] t.k = "lstruct" /\ t.fields # <<>> ->
          Angled(t.k, Separated([i \in DOMAIN t.fields |->
            <<Id(t.fields[i].name), Tok(":")>> \o TypeText(t.fields[i].type)]))
     [] t.k = "linterface" /\ t.methods # <<>> ->
          Angled(t.k, Separated([i \in DOMAIN t.methods |->
            <<Id(t.methods[i].name), Tok(":"), Tok("(")>> \o Types(t.methods[i].params)
              \o <<Tok(")"), Tok("=>"), Tok("(")>> \o Types(t.methods[i].results) \o <<Tok(")")>>]))
     [] OTHER -> <<Id(t.k)>>

\* WriteRefString of a type dereferences the types it is made of, which the
\* parser leaves null where it could not read them. Its loops over the
\* parameters and results of a method do not compare their index with the
\* number of them: they end at once or past the last one.
RECURSIVE RefStringFails(_)
RefStringFails(t) ==
  CASE t.k = "null" -> TRUE
    [] t.k \in {"lshared_ptr", "lunique_ptr", "larray"} -> RefStringFails(t.of)
    [] t.k = "lstruct" -> \E i \in DOMAIN t.fields : RefStringFails(t.fields[i].type)
    [] t.k = "linterface" -> \E i \in DOMAIN t.methods :
         t.methods[i].params # <<>> \/ t.methods[i].results # <<>>
    [] OTHER -> FALSE

\* Scanner::token_string: a backslash stands for the character behind it.
RECURSIVE Unescaped(_)
Unescaped(chars) ==
  LET skip == IF Scanner!At(chars, 1) = "\\" THEN 1 ELSE 0 IN
  IF chars = "" THEN ""
  ELSE Scanner!At(chars, 1 + skip) \o Unescaped(SubSeq(chars, 2 + skip, Len(chars)))

\* A string between quotes, with nothing escaped: what the scanner makes of it.
\* It is one token unless there are quotes or backslashes in the string; the
\* last token is "open" where the string has no end, and takes the rest of
\* the text along.
StringText(s) ==
  LET chars == "\"" \o (IF Len(s) > 3 THEN "..." ELSE s) \o "\""
      tokens == Scanner!Tokens(chars)
      Contents(t) == SubSeq(chars, t.first + 1, t.last - 1)
      Read(t) == CASE t.kind = "string" -> Str(Unescaped(Contents(t)))
                   [] t.kind = "unknown" /\ t.issue -> Tok("open")
                   [] t.kind = "identifier" -> Id(SubSeq(chars, t.first, t.last))
                   [] OTHER -> Tok(t.kind)
  IN [n \in DOMAIN tokens |-> Read(tokens[n])]

RefString(value) ==
  CASE value.k = "computed" -> <<Tok("%"), Num(value.n)>>
    [] value.k = "bool" -> <<Tok("#"), Id(IF value.v THEN "t" ELSE "f")>>
    [] value.k = "int" -> <<Tok("#"), Num(value.v)>>
    [] value.k = "pointer" -> <<Addr(value.v)>>
    [] value.k = "func" -> <<Tok("@"), Num(value.v)>>
    [] value.k = "string" -> StringText(value.v)
    [] value.k = "null" -> <<Id("NULL")>>

RefStringWithType(value) ==
  IF value.k \in {"computed", "int"}
  THEN RefString(value) \o <<Tok(":")>> \o TypeText(value.type)
  ELSE RefString(value)

PrintUsedValue(value) == IF IsConstant(value) THEN RefStringWithType(value) ELSE RefString(value)
PrintBlockValue(b) == <<Tok("{"), Num(b), Tok("}")>>

\* The values of a phi go without the blocks they come from, a panic without its reason.
UsedValues(i) ==
  IF i.op = "panic" THEN <<>> ELSE [j \in DOMAIN i.args |-> PrintUsedValue(i.args[j])]

PrintOperands(i) ==
  IF i.op \in {"jmp", "jcc"}
  THEN UsedValues(i) \o [j \in DOMAIN i.blocks |-> PrintBlockValue(i.blocks[j])]
  ELSE UsedValues(i)

PrintInstr(i, operands) ==
  (IF i.results = <<>> THEN <<>>
   ELSE Separated([j \in DOMAIN i.results |-> RefStringWithType(i.results[j])]) \o <<Tok("=")>>)
  \o <<Id(i.op)>> \o Separated(operands)

Named(name) == IF name = "" THEN <<>> ELSE <<Id(name)>>

\* The operands' text of every instruction of a block, of every block.
OperandTexts(f, Operands(_)) ==
  [n \in {b.num : b \in Range(f.blocks)} |->
    LET b == CHOOSE b \in Range(f.blocks) : b.num = n IN
    [j \in DOMAIN b.instrs |-> Operands(b.instrs[j])]]

PrintBlock(b, operands) ==
  <<Tok("{"), Num(b.num), Tok("}")>> \o Named(b.name)
  \o FoldLeft(LAMBDA text, j : text \o <<Tok("NL")>> \o PrintInstr(b.instrs[j], operands[j]),
              <<>>, [j \in DOMAIN b.instrs |-> j])

PrintFunc(f, operands) ==
  LET blocks == SortSeq(f.blocks, LAMBDA a, b : a.num < b.num) IN
  <<Tok("@"), Num(f.num)>> \o Named(f.name) \o <<Tok("(")>>
  \o Separated([i \in DOMAIN f.args |-> RefStringWithType(f.args[i])])
  \o <<Tok(")"), Tok("=>"), Tok("(")>>
  \o Separated([i \in DOMAIN f.results |-> TypeText(f.results[i])])
  \o <<Tok(")"), Tok("{")>>
  \o FoldLeft(LAMBDA text, b : text \o <<Tok("NL")>> \o PrintBlock(b, operands[b.num]), <<>>, blocks)
  \o <<Tok("NL"), Tok("}")>>

\* The text up to an open string. (No other string follows that would end it.)
UpToOpenString(text) ==
  LET open == {i \in DOMAIN text : text[i].k = "open"} IN
  IF open = {} THEN text ELSE SubSeq(text, 1, CHOOSE i \in open : \A j \in open : i <= j)

PrintProgram(f) ==
  UpToOpenString(PrintFunc(f, OperandTexts(f, PrintOperands)) \o <<Tok("NL"), Tok("NL")>>)

(***************************************************************************)
(* The parser's view of a text: the next token, the types of the computed  *)
(* values met so far, whether an issue was reported, whether it crashed.   *)
(***************************************************************************)

Reading(text) == [text |-> text, at |-> 1, known |-> <<>>, issue |-> FALSE, crash |-> FALSE]
Token(s) == IF s.at <= Len(s.text) THEN s.text[s.at] ELSE EoF
Is(s, k) == Token(s).k = k
Got(s, v) == [s |-> s, v |-> v]

Crash(s) == [s EXCEPT !.crash = TRUE]
Report(s) == [s EXCEPT !.issue = TRUE]
\* An issue whose message contains the RefString of the types
ReportTypes(s, types) == IF \E t \in types : RefStringFails(t) THEN Crash(s) ELSE Report(s)
NextIfPossible(s) == IF Is(s, "EoF") THEN s ELSE [s EXCEPT !.at = @ + 1]
\* Mutant: a token that was not expected is skipped.
ConsumeQuietly(s, k) == NextIfPossible(s)

Consume(s, k) == NextIfPossible(IF Is(s, k) THEN s ELSE Report(s))

ConsumeInt64(s) ==
  IF Is(s, "num") THEN Got(NextIfPossible(s), Token(s).v)
  ELSE Got(NextIfPossible(Report(s)), NoNum)

\* SkipPastTokenSequence
SkipPast(s, kinds) ==
  LET found == {i \in s.at..(Len(s.text) - Len(kinds) + 1) :
                  \A j \in DOMAIN kinds : s.text[i + j - 1].k = kinds[j]}
  IN [s EXCEPT !.at = IF found = {} THEN Len(s.text) + 1
                      ELSE (CHOOSE i \in found : \A j \in found : i <= j) + Len(kinds)]
SkipLine(s) == SkipPast(Report(s), <<"NL">>)

(***************************************************************************)
(* Types                                                                   *)
(***************************************************************************)

\* What was read, with one more token behind it
Closed(read, k) == Got(Consume(read.s, k), read.v)

RECURSIVE ParseType(_), MoreTypes(_), ParseFields(_, _), ParseMethods(_, _)

Prepend(v, rest) == Got(rest.s, <<v>> \o rest.v)

MoreTypes(first) ==
  IF Is(first.s, ",") THEN Prepend(first.v, MoreTypes(ParseType(Consume(first.s, ","))))
  ELSE Got(first.s, <<first.v>>)

ParseTypes(s) == MoreTypes(ParseType(s))

\* ParseTypes in parentheses that may be empty
ParseParenTypes(s) ==
  LET open == Consume(s, "(")
  IN Closed(IF Is(open, ")") THEN Got(open, <<>>) ELSE ParseTypes(open), ")")

\* Mutant: a pointer that is not strong is a failure.
ParseStrengthStrong(of) ==
  LET kind == Consume(of.s, ",")
      end == Consume(Consume(kind, "id"), ">")
      bad == Is(kind, "id") /\ Token(kind).v # "s"
  IN Got([end EXCEPT !.crash = end.crash \/ bad], [k |-> "lshared_ptr", of |-> of.v, strong |-> TRUE])

ParseStrength(of) ==
  LET kind == Consume(of.s, ",")
      strong == IF Is(kind, "id") THEN Token(kind).v # "w" ELSE TRUE
      bad == Is(kind, "id") /\ Token(kind).v \notin {"s", "w"}
      end == Consume(Consume(kind, "id"), ">")
  IN Got([end EXCEPT !.crash = end.crash \/ bad], [k |-> "lshared_ptr", of |-> of.v, strong |-> strong])

ParseSharedPointer(s) == ParseStrength(ParseType(Consume(s, "<")))

UniquePointerTo(of) == Got(Consume(of.s, ">"), [k |-> "lunique_ptr", of |-> of.v])
ParseUniquePointer(s) == UniquePointerTo(ParseType(Consume(s, "<")))

ParseCount(of) ==
  LET count == IF Is(of.s, ",") THEN ConsumeInt64(Consume(of.s, ",")) ELSE Got(of.s, -1)
      fixed == IF Is(of.s, ",") /\ ~Is(Consume(of.s, ","), "num") THEN 0 ELSE count.v
  IN Got(Consume(count.s, ">"), [k |-> "larray", of |-> of.v, count |-> fixed])

ParseArray(s) == ParseCount(ParseType(Consume(s, "<")))

StructWith(fields) == Got(Consume(fields.s, ">"), [k |-> "lstruct", fields |-> fields.v])
ParseStruct(s) ==
  IF Is(s, "<") THEN StructWith(ParseFields(Consume(s, "<"), <<>>))
  ELSE Got(s, [k |-> "lstruct", fields |-> <<>>])

MoreFields(read) == IF Is(read.s, ",") THEN ParseFields(Consume(read.s, ","), read.v) ELSE read
AddField(fields, name, type) == Got(type.s, Append(fields, [name |-> name, type |-> type.v]))
ParseFields(s, fields) ==
  MoreFields(IF Is(s, "id")
             THEN AddField(fields, Token(s).v, ParseType(Consume(NextIfPossible(s), ":")))
             ELSE Got(SkipPast(Report(s), <<",">>), fields))

InterfaceWith(methods) == Got(Consume(methods.s, ">"), [k |-> "linterface", methods |-> methods.v])
ParseInterface(s) ==
  IF Is(s, "<") THEN InterfaceWith(ParseMethods(Consume(s, "<"), <<>>))
  ELSE Got(s, [k |-> "linterface", methods |-> <<>>])

MoreMethods(read) == IF Is(read.s, ",") THEN ParseMethods(Consume(read.s, ","), read.v) ELSE read
AddMethod(methods, name, params, results) ==
  Got(results.s, Append(methods, [name |-> name, params |-> params, results |-> results.v]))
ParseMethodResults(methods, name, params) ==
  AddMethod(methods, name, params.v, ParseParenTypes(Consume(params.s, "=>")))
ParseMethods(s, methods) ==
  MoreMethods(IF Is(s, "id")
              THEN ParseMethodResults(methods, Token(s).v, ParseParenTypes(Consume(NextIfPossible(s), ":")))
              ELSE Got(SkipPast(Report(s), <<",">>), methods))

\* No type and no issue where there is no name. The names of the string and
\* the type ID type are looked at and left where they are.
ParseType(s) ==
  LET name == Token(s).v
      next == NextIfPossible(s)
  IN CASE ~Is(s, "id") -> Got(s, Null)
       [] name = "lshared_ptr" -> ParseSharedPointer(next)
       [] name = "lunique_ptr" -> ParseUniquePointer(next)
       [] name = "larray" -> ParseArray(next)
       [] name = "lstruct" -> ParseStruct(next)
       [] name = "linterface" -> ParseInterface(next)
       [] name \in {"lstr", "ltypeid"} -> Got(s, Basic(name))
       [] name \in BasicNames \ {"lstr", "ltypeid"} -> Got(next, Basic(name))
       [] OTHER -> Got(Report(next), Null)

(***************************************************************************)
(* Constants                                                               *)
(***************************************************************************)

Expects(expected, t) == expected = Null \/ IsSameType(expected, t)

ParsePointerConstant(s) == Got(NextIfPossible(s), Constant("pointer", Token(s).v, Basic("ptr")))

\* Mutant: functions keep their numbers.
ParseFuncConstantUnshifted(s, offset) ==
  LET number == ConsumeInt64(Consume(s, "@"))
  IN Got(number.s, Constant("func", number.v, Basic("func")))

\* Functions are numbered from offset on: the program may have some already.
ParseFuncConstant(s, offset) ==
  LET number == ConsumeInt64(Consume(s, "@"))
  IN Got(number.s, Constant("func", IF number.v = NoNum THEN NoNum ELSE number.v + offset,
                            Basic("func")))

ParseBoolConstant(s, expected) ==
  LET next == NextIfPossible(s) IN
  IF Token(s).v \notin {"t", "f"} THEN Got(Report(next), Null)
  ELSE IF ~Expects(expected, Basic("b")) THEN Got(ReportTypes(next, {expected}), Null)
  ELSE Got(next, Constant("bool", Token(s).v = "t", Basic("b")))

\* Int::ConvertTo keeps the low bits
ConvertTo(n, t) ==
  LET range == 2 ^ IntWidth[t.k]
      low == n % range
  IN IF IntWidth[t.k] = 0 THEN n
     ELSE IF t.k \in {"i8", "i16"} /\ low >= range \div 2 THEN low - range ELSE low

IntConstant(end, n, t) == Got(end, Constant("int", ConvertTo(n, t), t))
IntConstantOfType(n, type, expected) ==
  IF type.v = Null THEN Got(Crash(type.s), Null)
  ELSE IF ~IsIntType(type.v) THEN Got(ReportTypes(type.s, {type.v}), Null)
  ELSE IF ~Expects(expected, type.v) THEN Got(ReportTypes(type.s, {expected, type.v}), Null)
  ELSE IntConstant(type.s, n, type.v)

ParseIntConstant(s, expected) ==
  LET n == Token(s).v
      number == NextIfPossible(s)
  IN IF Is(number, ":") THEN IntConstantOfType(n, ParseType(Consume(number, ":")), expected)
     ELSE IF expected = Null THEN IntConstant(Report(number), n, Int64)
     ELSE IF ~IsIntType(expected) THEN IntConstant(ReportTypes(number, {expected}), n, Int64)
     ELSE IntConstant(number, n, expected)

ParseBoolOrIntConstant(s, expected) ==
  LET next == Consume(s, "#") IN
  CASE Is(next, "id") -> ParseBoolConstant(next, expected)
    [] Is(next, "num") -> ParseIntConstant(next, expected)
    [] OTHER -> Got(Report(next), Null)

ParseConstant(s, expected, offset) ==
  LET Unexpected == Got(NextIfPossible(Report(s)), Null) IN
  CASE Is(s, "str") -> Got(NextIfPossible(s), Constant("string", Token(s).v, Basic("lstr")))
    [] Is(s, "addr") -> IF Expects(expected, Basic("ptr")) THEN ParsePointerConstant(s)
                        ELSE Unexpected
    [] Is(s, "@") -> IF Expects(expected, Basic("func")) THEN ParseFuncConstant(s, offset)
                     ELSE Unexpected
    [] Is(s, "#") -> ParseBoolOrIntConstant(s, expected)
    [] OTHER -> Got(Report(s), Null)

(***************************************************************************)
(* Values                                                                  *)
(***************************************************************************)

\* A type given for a value is compared with the expected one
GivenType(type, expected) ==
  IF type.v # Null /\ expected # Null /\ ~IsSameType(expected, type.v)
  THEN Got(ReportTypes(type.s, {expected, type.v}), expected)
  ELSE Got(type.s, IF type.v = Null THEN expected ELSE type.v)

\* and never with the type of the value, which its first mention fixes.
AddValue(n, read) ==
  IF n \in DOMAIN read.s.known THEN Got(read.s, Computed(n, read.s.known[n]))
  ELSE Got([read.s EXCEPT !.known =
              [m \in DOMAIN read.s.known \cup {n} |-> IF m = n THEN read.v ELSE read.s.known[m]]],
           Computed(n, read.v))

ParseComputedValue(s, expected) ==
  LET number == ConsumeInt64(Consume(s, "%"))
      isUnknown == expected = Null /\ number.v \notin DOMAIN s.known
  IN AddValue(number.v,
       IF Is(number.s, ":") THEN GivenType(ParseType(Consume(number.s, ":")), expected)
       ELSE Got(IF isUnknown THEN Report(number.s) ELSE number.s, expected))

ParseValue(s, expected, offset) ==
  IF Is(s, "%") THEN ParseComputedValue(s, expected) ELSE ParseConstant(s, expected, offset)

ParseBlockValue(s) ==
  LET number == ConsumeInt64(Consume(s, "{")) IN Got(Consume(number.s, "}"), number.v)

RECURSIVE MoreValues(_, _, _), MoreComputedValues(_)

MoreValues(first, expected, offset) ==
  IF Is(first.s, ",")
  THEN Prepend(first.v, MoreValues(ParseValue(Consume(first.s, ","), expected, offset), expected, offset))
  ELSE Got(first.s, <<first.v>>)

ParseValues(s, expected, offset) == MoreValues(ParseValue(s, expected, offset), expected, offset)

MoreComputedValues(first) ==
  IF Is(first.s, ",")
  THEN Prepend(first.v, MoreComputedValues(ParseComputedValue(Consume(first.s, ","), Null)))
  ELSE Got(first.s, <<first.v>>)

ParseComputedValues(s) == MoreComputedValues(ParseComputedValue(s, Null))

(***************************************************************************)
(* Instructions: the operands each of them has, with the types they are    *)
(* expected to have: of the result, of the operand before, or any.         *)
(***************************************************************************)

V(type) == [how |-> "value", type |-> type]       \* ParseValue
C(type) == [how |-> "computed", type |-> type]    \* ParseComputedValue
B == [how |-> "block", type |-> "any"]            \* ParseBlockValue
More(type) == [how |-> "more", type |-> type]     \* a comma and ParseValues, or nothing
All(type) == [how |-> "all", type |-> type]       \* ParseValues
Inherited == [how |-> "inherited", type |-> "result"]

ParseMovInstr == <<V("result")>>
ParsePhiInstr == <<Inherited>>
ParseConversionInstr == <<V("any")>>
ParseBoolNotInstr == <<V("b")>>
ParseBoolBinaryInstr == <<V("result"), V("result")>>
ParseIntUnaryInstr == <<V("result")>>
ParseIntCompareInstr == <<V("any"), V("previous")>>
ParseIntBinaryInstr == <<V("result"), V("result")>>
ParseIntShiftInstr == <<V("any"), V("any")>>
ParsePointerOffsetInstr == <<C("ptr"), V("i64")>>
ParseNilTestInstr == <<V("any")>>
ParseMallocInstr == <<V("i64")>>
ParseLoadInstr == <<V("ptr")>>
ParseStoreInstr == <<V("ptr"), V("any")>>
ParseFreeInstr == <<V("ptr")>>
ParseJumpInstr == <<B>>
ParseJumpCondInstr == <<V("b"), B, B>>
ParseSyscallInstr == <<V("i64"), More("i64")>>
ParseCallInstr == <<V("func"), More("any")>>
ParseReturnInstr == <<All("any")>>
ParsePanicInstr == <<V("lstr")>>
ParseMakeSharedInstr == <<V("i64")>>
ParseCopySharedInstr == <<C("result"), V("i64")>>
ParseDeleteSharedInstr == <<C("any")>>
ParseMakeUniqueInstr == <<V("i64")>>
ParseDeleteUniqueInstr == <<C("any")>>
ParseStringIndexInstr == <<V("lstr"), V("i64")>>
ParseStringConcatInstr == <<All("lstr")>>

BoolBinaryOps == {"beq", "bneq", "band", "bor"}
IntUnaryOps == {"ineg", "inot"}
IntCompareOps == {"ieq", "ineq", "ilss", "ileq", "igeq", "igtr"}
IntBinaryOps == {"iadd", "isub", "imul", "idiv", "irem", "iand", "ior", "ixor", "iandnot"}
IntShiftOps == {"ishl", "ishr"}

NoResultOps == {"store", "free", "jmp", "jcc", "ret", "panic", "delete_shared", "delete_unique"}
OneResultOps ==
  BoolBinaryOps \cup IntUnaryOps \cup IntCompareOps \cup IntBinaryOps \cup IntShiftOps
  \cup {"mov", "phi", "conv", "bnot", "poff", "niltest", "malloc", "load", "syscall",
        "make_shared", "copy_shared", "make_unique", "str_index", "str_cat"}
Ops == NoResultOps \cup OneResultOps \cup {"call"}

AcceptsResults(op, n) ==
  /\ op \in NoResultOps => n = 0
  /\ op \in OneResultOps => n = 1

Operands(op) ==
  CASE op = "mov" -> ParseMovInstr               [] op = "phi" -> ParsePhiInstr
    [] op = "conv" -> ParseConversionInstr       [] op = "bnot" -> ParseBoolNotInstr
    [] op \in BoolBinaryOps -> ParseBoolBinaryInstr
    [] op \in IntUnaryOps -> ParseIntUnaryInstr
    [] op \in IntCompareOps -> ParseIntCompareInstr
    [] op \in IntBinaryOps -> ParseIntBinaryInstr
    [] op \in IntShiftOps -> ParseIntShiftInstr
    [] op = "poff" -> ParsePointerOffsetInstr    [] op = "niltest" -> ParseNilTestInstr
    [] op = "malloc" -> ParseMallocInstr         [] op = "load" -> ParseLoadInstr
    [] op = "store" -> ParseStoreInstr           [] op = "free" -> ParseFreeInstr
    [] op = "jmp" -> ParseJumpInstr              [] op = "jcc" -> ParseJumpCondInstr
    [] op = "syscall" -> ParseSyscallInstr       [] op = "call" -> ParseCallInstr
    [] op = "ret" -> ParseReturnInstr            [] op = "panic" -> ParsePanicInstr
    [] op = "make_shared" -> ParseMakeSharedInstr
    [] op = "copy_shared" -> ParseCopySharedInstr
    [] op = "delete_shared" -> ParseDeleteSharedInstr
    [] op = "make_unique" -> ParseMakeUniqueInstr
    [] op = "delete_unique" -> ParseDeleteUniqueInstr
    [] op = "str_index" -> ParseStringIndexInstr
    [] op = "str_cat" -> ParseStringConcatInstr

\* The type an operand is expected to have, given the instruction read so far
Expected(type, i) ==
  CASE type = "any" -> Null
    [] type = "result" -> i.results[1].type
    [] type = "previous" -> IF i.args[1] = Null THEN Null ELSE i.args[1].type
    [] OTHER -> Basic(type)

RECURSIVE ParseInherited(_, _, _), ParseOperands(_, _, _, _)

InheritedFrom(value, i) ==
  LET origin == ParseBlockValue(value.s)
  IN Got(origin.s, [i EXCEPT !.args = Append(@, value.v), !.blocks = Append(@, origin.v)])

\* A phi: the end of the line is part of the list.
MoreInherited(read, offset) ==
  CASE Is(read.s, ",") -> ParseInherited(Consume(read.s, ","), read.v, offset)
    [] Is(read.s, "NL") ->
         Got(Consume(IF Len(read.v.args) < 2 THEN Report(read.s) ELSE read.s, "NL"), read.v)
    [] OTHER -> Got(SkipLine(read.s), Null)

ParseInherited(s, i, offset) ==
  MoreInherited(InheritedFrom(ParseValue(s, i.results[1].type, offset), i), offset)

\* An operand read, and the comma behind it unless it is the last one
MoreOperands(read, rest, offset) ==
  IF rest # <<>> /\ (Head(rest).how # "more" \/ Is(read.s, ","))
  THEN ParseOperands(Consume(read.s, ","), read.v, rest, offset)
  ELSE Got(Consume(read.s, "NL"), read.v)

AddArgs(i, read) == Got(read.s, [i EXCEPT !.args = @ \o read.v])
AddArg(i, read) == Got(read.s, [i EXCEPT !.args = Append(@, read.v)])
AddBlock(i, read) == Got(read.s, [i EXCEPT !.blocks = Append(@, read.v)])

ParseOperands(s, i, operands, offset) ==
  LET how == Head(operands).how
      type == Expected(Head(operands).type, i)
  IN CASE how = "inherited" -> ParseInherited(s, i, offset)
       [] how = "all" /\ i.op = "ret" /\ Is(s, "NL") -> Got(Consume(s, "NL"), i)
       [] how = "more" \/ (how = "all" /\ ~(i.op = "ret" /\ Is(s, "NL"))) ->
            Closed(AddArgs(i, ParseValues(s, type, offset)), "NL")
       [] OTHER ->
            MoreOperands(CASE how = "value" -> AddArg(i, ParseValue(s, type, offset))
                           [] how = "computed" -> AddArg(i, ParseComputedValue(s, type))
                           [] how = "block" -> AddBlock(i, ParseBlockValue(s)),
                         Tail(operands), offset)

ParseInstrWithResults(s, op, results, offset) ==
  IF op \in Ops /\ AcceptsResults(op, Len(results))
  THEN ParseOperands(s, [op |-> op, results |-> results, args |-> <<>>, blocks |-> <<>>],
                     Operands(op), offset)
  ELSE Got(SkipLine(s), Null)

ParseOp(results, offset) ==
  IF Is(results.s, "id")
  THEN ParseInstrWithResults(NextIfPossible(results.s), Token(results.s).v, results.v, offset)
  ELSE Got(SkipLine(results.s), Null)

ParseInstr(s, offset) ==
  ParseOp(IF Is(s, "%") THEN Closed(ParseComputedValues(s), "=") ELSE Got(s, <<>>), offset)

(***************************************************************************)
(* Blocks and functions                                                    *)
(***************************************************************************)

RECURSIVE ParseBlockBody(_, _, _), ParseFuncBody(_, _, _)

AddInstr(instrs, read) == Got(read.s, IF read.v = Null THEN instrs ELSE Append(instrs, read.v))
MoreInstrs(read, offset) == ParseBlockBody(read.s, read.v, offset)
ParseBlockBody(s, instrs, offset) ==
  CASE Is(s, "{") \/ Is(s, "}") -> Got(s, instrs)
    [] Is(s, "%") \/ Is(s, "id") -> MoreInstrs(AddInstr(instrs, ParseInstr(s, offset)), offset)
    [] OTHER -> Got(Report(s), instrs)

\* A name, if there is one
ParseName(s) == IF Is(s, "id") THEN Got(NextIfPossible(s), Token(s).v) ELSE Got(s, "")

BlockWith(blocks, num, name, body) ==
  Got(body.s, Append(blocks, [num |-> num, name |-> name, instrs |-> body.v]))

\* ParseBlock: no block where its number cannot be read or is used already
ParseBlock(s, blocks, offset) ==
  LET number == ConsumeInt64(Consume(s, "{"))
      closed == Consume(number.s, "}")
      isUsed == \E i \in DOMAIN blocks : blocks[i].num = number.v
      name == ParseName(closed)
  IN CASE number.v = NoNum -> Got(number.s, blocks)
       [] number.v # NoNum /\ isUsed -> Got(Report(closed), blocks)
       [] OTHER -> BlockWith(blocks, number.v, name.v, ParseBlockBody(Consume(name.s, "NL"), <<>>, offset))

MoreBlocks(read, offset) == ParseFuncBody(read.s, read.v, offset)
ParseFuncBody(s, blocks, offset) ==
  CASE Is(s, "}") -> Got(Consume(Consume(s, "}"), "NL"), blocks)
    [] Is(s, "NL") -> ParseFuncBody(Consume(s, "NL"), blocks, offset)
    [] Is(s, "{") -> MoreBlocks(ParseBlock(s, blocks, offset), offset)
    [] OTHER -> Got(Consume(Report(s), "NL"), blocks)

\* ConnectBlocks: the last instruction of each block must name blocks there are
ConnectBlocks(s, blocks) ==
  LET Destinations(b) ==
        IF b.instrs # <<>> /\ Last(b.instrs).op \in {"jmp", "jcc"} THEN ToSet(Last(b.instrs).blocks)
        ELSE {}
      numbers == {blocks[i].num : i \in DOMAIN blocks}
  IN IF \A i \in DOMAIN blocks : Destinations(blocks[i]) \subseteq numbers THEN s ELSE Report(s)

ParseFuncArgs(s) ==
  LET open == Consume(s, "(") IN
  CASE ~Is(s, "(") -> Got(open, <<>>)
    [] Is(s, "(") /\ Is(open, ")") -> Closed(Got(open, <<>>), ")")
    [] OTHER -> Closed(ParseComputedValues(open), ")")

ParseFuncResultTypes(s) ==
  IF Is(s, "(") THEN ParseParenTypes(s) ELSE Got(Consume(s, "("), <<>>)

\* The function, with more of it read
FuncWithBlocks(f, body) ==
  Got(ConnectBlocks(body.s, body.v),
      [f EXCEPT !.entry = IF body.v = <<>> THEN NoNum ELSE body.v[1].num, !.blocks = body.v])
FuncWithResults(f, results, offset) ==
  FuncWithBlocks([f EXCEPT !.results = results.v],
                 ParseFuncBody(Consume(Consume(results.s, "{"), "NL"), <<>>, offset))
FuncWithArgs(f, args, offset) ==
  FuncWithResults([f EXCEPT !.args = args.v], ParseFuncResultTypes(Consume(args.s, "=>")), offset)

NoFunc == [num |-> NoNum]

\* ParseFuncNumber: taken are the numbers of the program's functions
ParseFunc(s, taken, offset) ==
  LET number == ConsumeInt64(Consume(s, "@"))
      num == number.v + offset
      name == ParseName(number.s)
  IN CASE number.v = NoNum -> Got(number.s, NoFunc)
       [] number.v # NoNum /\ num \in taken -> Got(Report(number.s), NoFunc)
       [] OTHER -> FuncWithArgs([num |-> num, name |-> name.v, args |-> <<>>, results |-> <<>>,
                                 entry |-> NoNum, blocks |-> <<>>], ParseFuncArgs(name.s), offset)

RECURSIVE ParseFuncs(_, _, _)

\* ParseAdditionalFuncsForProgram: each function has computed values of its own
MoreFuncs(funcs, read, offset) ==
  ParseFuncs(read.s, IF read.v = NoFunc THEN funcs ELSE Append(funcs, read.v), offset)
ParseFuncs(s, funcs, offset) ==
  LET taken == (0..(offset - 1)) \cup {funcs[i].num : i \in DOMAIN funcs} IN
  CASE s.crash \/ Is(s, "EoF") -> Got(s, funcs)
    [] ~s.crash /\ Is(s, "NL") -> ParseFuncs(NextIfPossible(s), funcs, offset)
    [] ~s.crash /\ Is(s, "@") -> MoreFuncs(funcs, ParseFunc([s EXCEPT !.known = <<>>], taken, offset), offset)
    [] OTHER -> ParseFuncs(SkipLine(s), funcs, offset)

\* What reading a text gives: the functions, whether there were issues, whether it ended
ParseProgram(text, offset) ==
  LET read == ParseFuncs(Reading(text), <<>>, offset)
  IN [funcs |-> read.v, issue |-> read.s.issue, crash |-> read.s.crash]
=============================================================================
