------------------------------- MODULE Scanner -------------------------------
(***************************************************************************)
(* The scanner of the language, src/lang/processors/scanner/scanner.cc.    *)
(* A source is a sequence of characters; a run of letters and digits that  *)
(* makes one word is written as one character, so that "var" and "a" are   *)
(* characters and "+" and "=" are two.  The scanner splits the source into *)
(* tokens on demand: whether a newline is a semicolon depends on the token *)
(* before it, and whether ">>" is one token on what the parser asks for.   *)
(***************************************************************************)
EXTENDS Integers, Sequences, FiniteSets

Keywords == {"const", "var", "type", "interface", "struct", "if", "else", "for", "switch",
             "case", "default", "fallthrough", "continue", "break", "return", "func",
             "import", "package"}
Digits == {"0", "1", "2"}
Letters == {"a", "b", "c", "f", "m", "T"}
Words == Keywords \cup Digits \cup Letters
Blanks == {" ", "\t"}

Punctuation == {"(", "[", "{", ",", ".", ")", "]", "}", ";"}
Arithmetic == {"+", "-", "*", "/", "%", "&", "|", "^", "<<", ">>", "&^"}
Doubled == {"++", "--", "&&", "||", "&^", "<<", "<=", ">>", ">=", "==", "!=", ":="}
OpStart == {"+", "-", "*", "/", "%", "&", "|", "^", "<", ">", "=", "!", ":"}

\* The tokens after which a newline is a semicolon.
EndsStatement == {"ident", "int", "char", "string", "fallthrough", "continue", "break",
                  "return", "++", "--", ">", ")", "]", "}"}

\* scan.src is the source, scan.pos the next character to look at; scan.t is the
\* token (the kind for identifiers and literals) with the characters scan.s to
\* scan.e.
At(src, i) == IF i \in 1..Len(src) THEN src[i] ELSE "NUL"
FirstFrom(n, i, P(_)) ==
    CHOOSE j \in i..(n + 1) : (j = n + 1 \/ P(j)) /\ \A k \in i..(j - 1) : ~P(k)

Token(scan, t, s, e) == [scan EXCEPT !.t = t, !.s = s, !.e = e, !.pos = e + 1]

\* The longest operator, but that of two angle brackets the first stands alone
\* when the parser reads type arguments.
Operator(src, s, split) ==
    LET two == src[s] \o At(src, s + 1)
        op  == IF two \in Doubled /\ ~(split /\ two \in {"<<", ">>"}) THEN two ELSE src[s]
        n   == IF op = two THEN 2 ELSE 1
    IN IF op \in Arithmetic /\ At(src, s + n) = "="
       THEN [t |-> op \o "=", n |-> n + 1]
       ELSE [t |-> op, n |-> n]

\* Comments become tokens; the parser has no use for them.
Comment(scan, s) ==
    LET src == scan.src
        Close(i) == src[i] = "*" /\ At(src, i + 1) = "/"
        Eol(i) == src[i] = "\n"
    IN IF src[s + 1] = "/"
       THEN Token(scan, "comment", s, FirstFrom(Len(src), s + 1, Eol) - 1)
       ELSE Token(scan, "comment", s, FirstFrom(Len(src), s + 1, Close) + 1)

\* The loop over a literal stops at the closing quote, but also right after the
\* first backslash.
Literal(scan, s) ==
    LET src == scan.src
        Stop(i) == src[i] = src[s] \/ (i > s + 1 /\ src[i - 1] = "\\")
        close == FirstFrom(Len(src), s + 1, Stop)
    IN IF close > Len(src)
       THEN [Token(scan, "illegal", s, Len(src)) EXCEPT !.pos = Len(src) + 1]
       ELSE Token(scan, IF src[s] = "'" THEN "char" ELSE "string", s, close)

\* A character that starts nothing else is taken for an identifier; the keyword
\* fallthrough becomes an else.
Word(scan, s) ==
    LET NoWord(i) == scan.src[i] \notin Words
        NoDigit(i) == scan.src[i] \notin Digits
        digits == scan.src[s] \in Digits
        e == (IF digits THEN FirstFrom(Len(scan.src), s + 1, NoDigit)
                        ELSE FirstFrom(Len(scan.src), s + 1, NoWord)) - 1
        kind == IF digits THEN "int"
                ELSE IF e > s \/ scan.src[s] \notin Keywords THEN "ident"
                ELSE IF scan.src[s] = "fallthrough" THEN "else" ELSE scan.src[s]
    IN Token(scan, kind, s, e)

ScanNext(scan, split) ==
    LET src == scan.src
        Solid(i) == /\ src[i] \notin Blanks
                    /\ (src[i] = "\n" => scan.t \in EndsStatement)
        s == IF scan.pos > Len(src) THEN scan.pos ELSE FirstFrom(Len(src), scan.pos, Solid)
        c == At(src, s)
    IN CASE s > Len(src) -> [scan EXCEPT !.t = "EOF", !.s = s, !.e = s, !.pos = s]
         [] c = "\n" -> Token(scan, ";", s, s)
         [] c \in {"'", "\""} -> Literal(scan, s)
         [] c = "/" /\ At(src, s + 1) \in {"/", "*"} -> Comment(scan, s)
         [] c \in OpStart -> LET op == Operator(src, s, split)
                             IN Token(scan, op.t, s, s + op.n - 1)
         [] c \in Punctuation -> Token(scan, c, s, s)
         [] OTHER -> Word(scan, s)

\* Error recovery: go on behind the next newline.  When the token is the newline's
\* semicolon already, that is behind the line that follows.
SkipPastLine(scan) ==
    LET Eol(i) == scan.src[i] = "\n"
        eol == IF scan.pos > Len(scan.src) THEN scan.pos
               ELSE FirstFrom(Len(scan.src), scan.pos, Eol)
    IN ScanNext([scan EXCEPT !.pos = eol], FALSE)

StartOf(src) ==
    ScanNext([src |-> src, pos |-> 1, t |-> "illegal", s |-> 0, e |-> 0], FALSE)
=============================================================================
