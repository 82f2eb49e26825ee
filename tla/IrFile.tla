------------------------------- MODULE IrFile -------------------------------
(***************************************************************************)
(* A function on its way through a file: printed, possibly edited by hand, *)
(* and read into a program that may have functions already, as katara-ir   *)
(* and the lowering of shared pointers read theirs.                        *)
(***************************************************************************)
EXTENDS IrText

CONSTANTS
  Funcs,   \* functions that are printed
  Edited,  \* those whose text is edited
  Spares,  \* sequences of tokens an edit puts into the text
  Offsets, \* numbers of functions that the reading program has
  Scraps   \* texts, as characters, for the scanner alone

ASSUME FuncsAssumption == Edited \subseteq Funcs
ASSUME OffsetsAssumption == Offsets \subseteq Nat

VARIABLES
  stage,  \* "built", "printed", "edited", "read", "read_edited"; or "scrap", "scanned"
  func,   \* the function printed
  text,   \* the tokens in the file, or the characters of a scrap
  offset, \* the number of functions of the reading program
  result  \* what reading gave

vars == <<stage, func, text, offset, result>>

Unread == [funcs |-> <<>>, issue |-> FALSE, crash |-> FALSE]

Init ==
  /\ \/ stage = "built" /\ func \in Funcs /\ text = <<>>
     \/ stage = "scrap" /\ func = NoFunc /\ text \in Scraps
  /\ offset = 0 /\ result = Unread

Types(f) ==
  ToSet(f.results) \cup {f.args[i].type : i \in DOMAIN f.args}
  \cup UNION {UNION {{f.blocks[b].instrs[i].results[j].type :
                        j \in DOMAIN f.blocks[b].instrs[i].results} :
                       i \in DOMAIN f.blocks[b].instrs} : b \in DOMAIN f.blocks}

\* PrintProgram, which does not return where a type cannot be printed
WriteFile ==
  /\ stage = "built" /\ ~\E t \in Types(func) : RefStringFails(t)
  /\ stage' = "printed" /\ text' = PrintProgram(func)
  /\ UNCHANGED <<func, offset, result>>

\* One slip of a hand that edits the file: a token is lost, others are put in
\* its place or behind it, or the file ends with it.
Edit ==
  /\ stage = "printed" /\ func \in Edited
  /\ \E i \in 1..Len(text) : \E spare \in Spares :
       \/ text' = SubSeq(text, 1, i - 1) \o SubSeq(text, i + 1, Len(text))
       \/ text' = SubSeq(text, 1, i - 1) \o spare \o SubSeq(text, i + 1, Len(text))
       \/ text' = SubSeq(text, 1, i) \o spare \o SubSeq(text, i + 1, Len(text))
       \/ text' = SubSeq(text, 1, i)
  /\ stage' = "edited"
  /\ UNCHANGED <<func, offset, result>>

\* ParseProgram, ParseAdditionalFuncsForProgram
Read ==
  /\ stage \in {"printed", "edited"}
  /\ offset' \in (IF stage = "edited" THEN {0} ELSE Offsets)
  /\ result' = ParseProgram(text, offset')
  /\ stage' = IF stage = "edited" THEN "read_edited" ELSE "read"
  /\ UNCHANGED <<func, text>>

Scan ==
  /\ stage = "scrap"
  /\ stage' = "scanned" /\ result' = [result EXCEPT !.issue = \E n \in DOMAIN Scanner!Tokens(text) :
                                                              Scanner!Tokens(text)[n].issue]
  /\ UNCHANGED <<func, text, offset>>

Next == WriteFile \/ Edit \/ Read \/ Scan
Spec == Init /\ [][Next]_vars

(***************************************************************************)
(* What is printed means the same when it is read                          *)
(***************************************************************************)

Instrs(f) == FoldLeft(LAMBDA all, b : all \o b.instrs, <<>>, SortSeq(f.blocks, LAMBDA a, b : a.num < b.num))

\* f among other functions: what it calls is numbered from n on.
Shifted(value, n) == IF value.k = "func" THEN [value EXCEPT !.v = @ + n] ELSE value
Moved(f, n) ==
  [f EXCEPT !.num = @ + n,
            !.blocks = [b \in DOMAIN f.blocks |-> [f.blocks[b] EXCEPT
              !.instrs = [i \in DOMAIN @ |-> [@[i] EXCEPT
                !.args = [j \in DOMAIN @ |-> Shifted(@[j], n)]]]]]]

InNumberOrder(f) == [f EXCEPT !.blocks = SortSeq(@, LAMBDA a, b : a.num < b.num)]

\* The text of a phi does not say which block a value comes from.
PhiLosesOrigins(f) == \E i \in DOMAIN Instrs(f) : Instrs(f)[i].op = "phi"
\* The text of a panic does not say why.
PanicLosesReason(f) == \E i \in DOMAIN Instrs(f) : Instrs(f)[i].op = "panic"
Strings(f) == UNION {{a.v : a \in {b \in ToSet(i.args) : b.k = "string"}} : i \in ToSet(Instrs(f))}
\* A string of more than three characters is printed as "...".
LongString(f) == \E s \in Strings(f) : Len(s) > 3
\* Quotes and backslashes in a string are not escaped.
UnescapedString(f) ==
  \E s \in Strings(f) : \E i \in 1..Len(s) : Scanner!At(s, i) \in {"\"", "\\"}
\* The first block of the text is read as the entry block.
EntryNotFirst(f) == \E i \in DOMAIN f.blocks : f.blocks[i].num < f.entry
\* A block that uses a value comes before the block that defines it: the text
\* gives the type of a value only where it is defined.
UsedBeforeDefined(f) ==
  \E i, j \in DOMAIN Instrs(f) : i < j /\
    \E u \in ToSet(Instrs(f)[i].args), d \in ToSet(Instrs(f)[j].results) : u = d

Unfaithful(f) ==
  \/ PhiLosesOrigins(f) \/ PanicLosesReason(f) \/ LongString(f) \/ UnescapedString(f)
  \/ EntryNotFirst(f) \/ UsedBeforeDefined(f)

\* The type parser does not go past the name of the string or the type ID type:
\* a text with one of them is not read.
HasStringType(t) == \E i \in DOMAIN t : t[i] \in {Id("lstr"), Id("ltypeid")}

(***************************************************************************)
(* A printed function is read without an issue, as the function it was,    *)
(* with its calls to functions of the same file still going there after    *)
(* other functions, unless it is one that print.cc cannot write: this is   *)
(* about the agreement of print.cc with the parsers. The types they do not *)
(* agree about, strings and type IDs, are refused with an issue, and never *)
(* read as something else.                                                 *)
(***************************************************************************)
PrintedReadsBack ==
  stage = "read" =>
    \/ Unfaithful(func)
    \/ HasStringType(text) /\ result.issue
    \/ /\ ~result.issue /\ ~result.crash
       /\ result.funcs = <<Moved(InNumberOrder(func), offset)>>

(***************************************************************************)
(* What is read without an issue is what the text says                     *)
(***************************************************************************)

RECURSIVE TypeEnd(_, _, _), Split(_, _, _, _)

\* The index behind the type that begins at i, whose angles are open depth deep
TypeEnd(t, i, depth) ==
  LET next == IF i < Len(t) THEN t[i + 1].k ELSE "EoF" IN
  IF i > Len(t) THEN i
  ELSE CASE t[i].k = "<" -> TypeEnd(t, i + 1, depth + 1)
         [] t[i].k = ">" -> IF depth = 1 THEN i + 1 ELSE TypeEnd(t, i + 1, depth - 1)
         [] t[i].k = "id" /\ depth = 0 -> IF next = "<" THEN TypeEnd(t, i + 1, 0) ELSE i + 1
         [] OTHER -> IF depth = 0 THEN i ELSE TypeEnd(t, i + 1, depth)

\* The text without the types after values and without blank lines, and those
\* types, each with the place in that text that it is about
Split(t, i, plain, types) ==
  IF i > Len(t) THEN [plain |-> plain, types |-> types]
  ELSE LET end == TypeEnd(t, i + 1, 0) IN
       CASE t[i].k = ":" ->
              Split(t, end, plain, types \cup {[at |-> Len(plain), type |-> SubSeq(t, i + 1, end - 1)]})
         [] t[i].k = "NL" /\ plain # <<>> /\ Last(plain).k = "NL" -> Split(t, i + 1, plain, types)
         [] OTHER -> Split(t, i + 1, Append(plain, t[i]), types)

\* The text that loses nothing, of an instruction that may be a phi or a panic
FullOperands(i) ==
  LET args == [j \in DOMAIN i.args |-> PrintUsedValue(i.args[j])]
      blocks == [j \in DOMAIN i.blocks |-> PrintBlockValue(i.blocks[j])]
  IN IF i.op = "phi" THEN [j \in DOMAIN i.args |-> args[j] \o blocks[j]] ELSE args \o blocks

FullText(funcs) ==
  FoldLeft(LAMBDA t, f : t \o PrintFunc(f, OperandTexts(f, FullOperands)) \o <<Tok("NL")>>, <<>>, funcs)

\* Types that the text gives to one value, where it is read as having another type
Says(t) == Split(t, 1, <<>>, {})
Disagreements(t, funcs) ==
  LET said == Says(t)
      read == Says(FullText(funcs))
      IsAbout(a, b) == \/ a.at = b.at
                       \/ /\ said.plain[a.at - 1].k = "%"
                          /\ read.plain[b.at - 1].k = "%" /\ read.plain[b.at] = said.plain[a.at]
  IN {a \in said.types : \E b \in read.types : IsAbout(a, b) /\ a.type # b.type}

\* A type that is missing after a colon or between parentheses and commas is
\* no issue: the value or the result has no type.
MissingType(funcs) == \E i \in DOMAIN FullText(funcs) : FullText(funcs)[i] = Id("NULL")
\* A constant that its type cannot hold is cut to its width.
CutConstant(t) ==
  \E i \in 2..(Len(t) - 2) : /\ t[i - 1].k = "#" /\ t[i].k = "num" /\ t[i + 1].k = ":"
                             /\ t[i + 2].k = "id" /\ t[i + 2].v \in DOMAIN IntWidth
                             /\ ConvertTo(t[i].v, Basic(t[i + 2].v)) # t[i].v
\* The type that a later mention of a value gives it is not compared with its type.
IsLaterMention(plain, at) ==
  \E i \in 1..(at - 2) : plain[i].k = "%" /\ plain[at - 1].k = "%" /\ plain[i + 1] = plain[at]

(***************************************************************************)
(* A text that is read without an issue says what was read: every token    *)
(* of it is in the text of the functions read, and the type it gives to a  *)
(* value first is the type the value has. No slip changes the meaning of a *)
(* program unnoticed, but for the named ones.                              *)
(***************************************************************************)
AcceptedIsRead ==
  (stage = "read_edited" /\ ~result.issue /\ ~result.crash) =>
    \/ MissingType(result.funcs) \/ CutConstant(text)
    \/ /\ Says(text).plain = Says(FullText(result.funcs)).plain
       /\ \A a \in Disagreements(text, result.funcs) : IsLaterMention(Says(text).plain, a.at)

At(t, i) == [Reading(t) EXCEPT !.at = i]

\* ParseBoolOrIntConstant reads the kind of a type that there is not.
NoTypeOfConstant(t) ==
  \E i \in 3..Len(t) : /\ t[i].k = ":" /\ t[i - 1].k = "num" /\ t[i - 2].k = "#"
                       /\ ParseType(At(t, i + 1)).v = Null
\* ParseSharedPointer fails for a pointer that is neither strong nor weak.
NeitherStrongNorWeak(t) ==
  \E i \in DOMAIN t : t[i] = Id("lshared_ptr") /\
    LET element == ParseType(At(t, i + 2))
        strength == At(t, element.s.at + 1)
    IN Is(strength, "id") /\ Token(strength).v \notin {"s", "w"}

\* The message of an issue spells out a type with a part that could not be read.
UnreadablePart(t) ==
  \E i \in DOMAIN t :
    /\ t[i].k = "id" /\ t[i].v \in {"lshared_ptr", "lunique_ptr", "larray", "lstruct", "linterface"}
    /\ RefStringFails(ParseType(At(t, i)).v)

(***************************************************************************)
(* Whatever the text, reading it ends with functions or with issues: where *)
(* the parser crashes, whatever it reported before, it is over a constant  *)
(* whose type is missing, a shared pointer of an unknown strength, or the  *)
(* message about a type of which a part is missing or unknown.             *)
(***************************************************************************)
BadTextIsReported ==
  (stage = "read_edited" /\ result.crash) =>
    NoTypeOfConstant(text) \/ NeitherStrongNorWeak(text) \/ UnreadablePart(text)

(***************************************************************************)
(* The scanner leaves out blanks alone, and what is the last token of a    *)
(* file does not depend on a line ending behind it, but for the three      *)
(* exceptions that EndIsNoDifferent names.                                 *)
(***************************************************************************)
ScannerReadsAll ==
  stage = "scanned" => Scanner!OnlyBlanksSkipped(text) /\ Scanner!EndIsNoDifferent(text)
=============================================================================
