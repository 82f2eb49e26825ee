----------------------------- MODULE IrScanner -----------------------------
(***************************************************************************)
(* The scanner of the IR text format, src/src/ir/serialization/scanner.cc: *)
(* the tokens of a text, each with its kind and the characters of the text *)
(* it stands for. A text is a string of characters.                        *)
(***************************************************************************)
EXTENDS Integers, Sequences

At(text, i) == IF i \in 1..Len(text) THEN SubSeq(text, i, i) ELSE ""

Punctuation == {"\n", "#", "%", ":", "{", "}", "@", ",", "(", ")", "<", ">"}
Digits == {"0", "1", "2", "3", "4", "5", "6", "7", "8", "9"}
Letters == {"a", "b", "c", "i", "x", "X"} \* the letters that are told apart, and some others
Alnum == Digits \cup Letters
Blank == {" ", "\t", "\r"}

\* The first index from i on whose character is not in chars
RECURSIVE Past(_, _, _)
Past(text, i, chars) == IF At(text, i) \in chars THEN Past(text, i + 1, chars) ELSE i

Token(kind, first, last, issue) == [kind |-> kind, first |-> first, last |-> last, issue |-> issue]

\* The last character is never skipped.
SkipWhitespace(text, i) ==
  LET past == Past(text, i, Blank) IN
  IF past > i /\ past > Len(text) THEN Len(text) ELSE past

\* Mutant: the last character of the text is not compared.
NextIdentifierBeforeEnd(text, i) ==
  LET past == Past(text, i + 1, Alnum \cup {"_"}) IN
  Token("identifier", i, IF past > Len(text) /\ past > i + 1 THEN past - 2 ELSE past - 1, FALSE)

NextIdentifier(text, i) == Token("identifier", i, Past(text, i + 1, Alnum \cup {"_"}) - 1, FALSE)

NextNumberOrAddress(text, i) ==
  Token(IF At(text, i) = "0" /\ At(text, i + 1) \in {"x", "X"} THEN "address" ELSE "number",
        i, Past(text, i + 1, Alnum) - 1, FALSE)

\* A backslash takes the character behind it along, which is not to be the last one.
RECURSIVE NextString(_, _, _)
NextString(text, first, i) ==
  CASE i > Len(text) -> Token("unknown", first, i - 1, TRUE)
    [] At(text, i) = "\"" -> Token("string", first, i, FALSE)
    [] At(text, i) = "\\" ->
         IF i + 1 < Len(text) THEN NextString(text, first, i + 2) ELSE Token("unknown", first, i, TRUE)
    [] OTHER -> NextString(text, first, i + 1)

\* The token that begins at i; an arrow cannot be the end of the text.
TokenAt(text, i) ==
  LET c == At(text, i) IN
  CASE c \in Punctuation -> Token(c, i, i, FALSE)
    [] c = "=" -> IF i + 1 < Len(text) /\ At(text, i + 1) = ">" THEN Token("=>", i, i + 1, FALSE)
                  ELSE Token("=", i, i, FALSE)
    [] c = "\"" -> NextString(text, i, i + 1)
    [] c \in Letters -> NextIdentifier(text, i)
    [] c \in Digits \cup {"+", "-"} -> NextNumberOrAddress(text, i)
    [] OTHER -> Token("unknown", i, i, FALSE)

\* NextIfPossible until the end of the text
RECURSIVE TokensFrom(_, _)
TokensFrom(text, i) ==
  LET first == SkipWhitespace(text, i)
      token == TokenAt(text, first)
  IN IF first > Len(text) THEN <<>> ELSE <<token>> \o TokensFrom(text, token.last + 1)

Tokens(text) == TokensFrom(text, 1)

(***************************************************************************)
(* Nothing but blanks lies between the tokens.                             *)
(***************************************************************************)
OnlyBlanksSkipped(text) ==
  LET tokens == Tokens(text)
      InToken(i) == \E n \in DOMAIN tokens : i \in tokens[n].first..tokens[n].last
  IN \A i \in 1..Len(text) : InToken(i) \/ At(text, i) \in Blank

(***************************************************************************)
(* The last token is what it is with a new line behind it, which every     *)
(* editor writes, except for a blank, an arrow and an escape there.        *)
(***************************************************************************)
EndIsNoDifferent(text) ==
  \/ At(text, Len(text)) \in Blank
  \/ At(text, Len(text) - 1) = "=" /\ At(text, Len(text)) = ">"
  \/ \E n \in DOMAIN Tokens(text) : Tokens(text)[n].issue
  \/ Tokens(text \o "\n") = Append(Tokens(text), Token("\n", Len(text) + 1, Len(text) + 1, FALSE))
=============================================================================
