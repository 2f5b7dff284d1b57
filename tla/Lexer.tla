-------------------------------- MODULE Lexer --------------------------------
(***************************************************************************)
(* The lexer of recde/stuff (lexer.cpp, numberconv.cpp).  The nested tests *)
(* of a keyword, a character at each level, are the beginnings of the      *)
(* keywords; those of an operator are the beginnings of the operators.     *)
(* Lines and columns of the tokens are left out, and so is '\v'.           *)
(***************************************************************************)
EXTENDS Naturals, SequencesExt, FiniteSetsExt

CONSTANTS Texts   \* each a sequence of lines, and a line a sequence of [text, gap]; the last
                  \* line of a file that ends in a newline is empty

VARIABLES written,  \* what the file holds
          lexer,    \* lines not read yet, buffer from it on, st, store, curInput, readNext, eof
          tokens,   \* what nextToken() has returned
          lexed     \* "no" until Eoi, an exception, or a failed assert

lexerVars == <<written, lexer, tokens, lexed>>

Keywords == {"abstract", "alias", "align", "bool", "byte", "case", "cast", "const", "do", "dchar", "def",
             "default", "for", "foreach", "final", "float", "if", "is", "int", "ushort", "ubyte", "uint",
             "ulong", "return", "ref", "switch", "scope", "typeof", "void", "var", "while", "wchar"}
Operators == {"(", ")", "[", "]", "{", "}", ",", ";", ":", "?", ".", "+", "++", "-", "--", "!", "!=", "!is",
              "*", "*=", "/", "/=", "%", "%=", "|", "|=", "||", "&", "&=", "&&", "^", "^=", "^^", "<", "<=",
              "<<", "<<=", ">", ">=", ">>", ">>=", ">>>", ">>>=", "=", "==", "~", "~="}
Beginnings(words) == {SubSeq(w, 1, n) : <<w, n>> \in {<<w, n>> \in words \X (1 .. 8) : n <= Len(w)}}
OfKeyword == Beginnings(Keywords)
OfOperator == Beginnings(Operators)

TokenStops == {"(", ")", "[", "]", "{", "}", ",", ";", ":", ".", "+", "-", "*", "/", "%", "&", "|",
               "?", "<", ">", "=", " ", "\t", "\n", "!"}
WhiteSpace == {" ", "\t", "\n"}
DigitValue == [c \in {"0", "1", "2", "3", "4", "5", "6", "7", "8", "9"} |->
                  CHOOSE d \in 0 .. 9 : ToString(d) = c]
Digits == DOMAIN DigitValue
Escapes == {"a", "b", "t", "n", "v", "f", "r"}

Butlast(text) == SubSeq(text, 1, Len(text) - 1)
-----------------------------------------------------------------------------
(* Characters *)

\* getLine(): behind the last line the input is at its end; behind a newline there
\* is one more line, the empty one that getline() reads when it comes to the end.
GetLine(s) == IF s.lines = <<>> THEN [s EXCEPT !.eof = TRUE]
              ELSE [s EXCEPT !.buffer = Head(s.lines), !.lines = Tail(s.lines)]

\* getNextChar(): what was pushed back, the rest of the line, or the end of the
\* line in place of which the next one is read.
Read(s) ==
    LET n == IF s.st # "" THEN [s EXCEPT !.curInput = Head(s.st), !.st = Tail(s.st)]
             ELSE IF s.buffer = "" THEN [GetLine(s) EXCEPT !.curInput = "\n"]
             ELSE [s EXCEPT !.curInput = Head(s.buffer), !.buffer = Tail(s.buffer)]
    IN [n EXCEPT !.store = @ \o n.curInput]

RECURSIVE While(_, _), UntilStop(_)
While(s, chars) == IF s.curInput \in chars THEN While(Read(s), chars) ELSE s
UntilStop(s) == LET n == Read(s) IN IF n.curInput \in TokenStops THEN n ELSE UntilStop(n)

Returned(s, type, value) == [s EXCEPT !.token = [type |-> type, value |-> value]]
Unread(s) == [s EXCEPT !.readNext = FALSE]
Fails(s, how) == [s EXCEPT !.token = [type |-> how, value |-> ""]]
-----------------------------------------------------------------------------
(* numberconv.cpp *)

Maximum == [Byte |-> 127, Ubyte |-> 255, Short |-> 32767, Ushort |-> 65535]
valueTest(type, value) == type \in DOMAIN Maximum => value <= Maximum[type]

\* stringToIntegerImpl(): the letters of the suffix and blanks are passed over,
\* any other character but a digit, and a value out of range, is an exception.
stringToInteger(s, type, text, base) ==
    LET skipped == {"_", "b", "s", "l", "u", " "}
        chars == {SubSeq(text, i, i) : i \in 1 .. Len(text)}
        value == FoldLeft(LAMBDA v, i : LET c == SubSeq(text, i, i)
                                        IN IF c \in Digits THEN base * v + DigitValue[c] ELSE v,
                          0, [i \in 1 .. Len(text) |-> i])
    IN IF chars \subseteq skipped \cup Digits /\ valueTest(type, value)
       THEN Returned(s, type, value) ELSE Fails(s, "throws")
-----------------------------------------------------------------------------
(* Tokens *)

\* Mutant: the stop stays in the name.
MutIdentifier(s) == LET n == UntilStop(s) IN Unread(Returned(n, "Identifier", n.store))

\* identifier: characters up to the next stop, at least one.
Identifier(s) == LET n == UntilStop(s) IN Unread(Returned(n, "Identifier", Butlast(n.store)))

\* A keyword ends at a stop; a character that continues none makes it an
\* identifier.
RECURSIVE Keyword(_, _)
Keyword(s, word) ==
    LET n == Read(s)
    IN IF word \in Keywords /\ n.curInput \in TokenStops THEN Unread(Returned(n, word, ""))
       ELSE IF word \o n.curInput \in OfKeyword THEN Keyword(n, word \o n.curInput)
       ELSE Identifier(n)

\* The longest operator; '^' alone is called Logicalor, and an 'i' behind '!'
\* that does not go on with 's' is pushed back with what follows it.
RECURSIVE Operator(_, _)
Operator(s, op) ==
    LET n == Read(s)
        Ends == ~ \E c \in OfOperator : Len(c) = Len(op) + 1 /\ IsPrefix(op, c)
    IN IF Ends THEN Returned(s, op, "")
       ELSE IF op \o n.curInput \in OfOperator THEN Operator(n, op \o n.curInput)
       ELSE IF op = "!i" THEN [Returned(n, "!", "") EXCEPT !.st = ("i" \o n.curInput) \o @, !.store = ""]
       ELSE Unread(Returned(n, IF op = "^" THEN "||" ELSE op, ""))

\* A character literal; the one behind the quote is looked at and passed over,
\* an escape is not followed by a quote.
CharLiteral(s) ==
    LET n == Read(s)
        c == Read(n)
        close == Read(c)
    IN IF n.curInput = "\\"
       THEN IF c.curInput \in Escapes THEN Returned(c, "Char", c.curInput) ELSE Fails(c, "aborts")
       ELSE IF close.curInput = "'" THEN Returned(close, "Char", c.curInput) ELSE Fails(close, "aborts")

\* parseFloat().
ParseFloat(s) ==
    LET n == While(s, Digits \cup {"e", "E", "-", "+", "."})
        Is(type) == Returned(n, type, Butlast(n.store))
    IN IF n.curInput \in {"f", "F"} THEN Is("Float")
       ELSE IF n.curInput \in {"r", "R"} THEN Is("Real")
       ELSE IF n.curInput \in {"d", "D"} THEN Is("Double")
       ELSE Unread(Is("Double"))

\* The suffix of a number; none of these leaves the token at [type |-> ""].
Suffix(c) == CASE c = "b" -> "Byte" [] c = "s" -> "Short" [] c = "l" -> "Long"
USuffix(c) == CASE c = "b" -> "Ubyte" [] c = "s" -> "Ushort" [] c = "l" -> "Ulong"
Unsigned(s, text(_), base, type) ==
    LET u == Read(s)
    IN IF u.curInput \in {"b", "s", "l"} THEN stringToInteger(u, USuffix(u.curInput), text(u), base)
       ELSE IF u.curInput \in TokenStops THEN stringToInteger(Unread(u), type, text(u), base)
       ELSE u

\* nonDecimalBaseNumber; a 'u' that no suffix and no stop follows falls through
\* to the white space.
Decimal(s) ==
    LET n == While(s, Digits \cup {"_"})
    IN IF n.curInput \in {".", "e", "E"} THEN ParseFloat(n)
       ELSE IF n.curInput = "u" THEN Unsigned(n, LAMBDA u : u.store, 10, "Uint")
       ELSE IF n.curInput \in {"b", "s", "l"} THEN stringToInteger(n, Suffix(n.curInput), n.store, 10)
       ELSE stringToInteger([Unread(n) EXCEPT !.store = ""], "Int", Butlast(n.store), 10)

\* 0o: what is no number falls through to the decimal ones.
Octal(s) ==
    LET n == While(Read(s), Digits \cup {"_"})
        text == SubSeq(n.store, 3, Len(n.store))
        u == Unsigned(n, LAMBDA v : text, 8, "Int")
    IN IF n.curInput = "u" THEN IF u.token.type = "" THEN Decimal(u) ELSE u
       ELSE IF n.curInput \in {"b", "s", "l"} THEN stringToInteger(n, Suffix(n.curInput), text, 8)
       ELSE IF n.curInput \in TokenStops THEN stringToInteger(Unread(n), "Int", text, 8)
       ELSE Decimal(n)

\* 0b stops at its own letter, which is taken for the suffix of a byte; 0x is
\* left to the decimal numbers.
Zero(s) ==
    LET n == Read(s)
    IN IF n.curInput = "b" THEN stringToInteger(n, "Byte", n.store, 2)
       ELSE IF n.curInput = "o" THEN Octal(n)
       ELSE IF n.curInput \in Digits \cup {"x"} THEN Decimal(n)
       ELSE stringToInteger(Unread(n), "Int", Butlast(n.store), 10)

\* White space up to the next character or the end of the input.
RECURSIVE Spaces(_)
Spaces(s) == LET n == Read(s)
             IN IF s.curInput \notin WhiteSpace THEN [Unread(s) EXCEPT !.store = ""]
                ELSE IF n.eof THEN Returned(n, "Eoi", "") ELSE Spaces(n)

\* The loop of nextToken().
RECURSIVE Loop(_)
Loop(s) ==
    LET n == IF s.readNext THEN Read(s) ELSE [s EXCEPT !.readNext = TRUE, !.store = @ \o s.curInput]
        c == n.curInput
        done == CASE c \in OfOperator -> Operator(n, c)
                  [] c = "'" -> CharLiteral(n)
                  [] c = "0" -> Zero(n)
                  [] c \in Digits \ {"0"} -> Decimal(n)
                  [] c \in WhiteSpace -> Spaces(n)
                  [] c \in OfKeyword -> Keyword(n, c)
                  [] OTHER -> Identifier(n)
    IN IF s.eof THEN Returned(s, "Eoi", "")
       ELSE IF done.token.type # "" THEN done ELSE Loop(Spaces(done))
-----------------------------------------------------------------------------
LexerInit ==
    /\ written \in Texts
    /\ LET line(l) == FoldLeft(LAMBDA text, p : text \o (p.text \o p.gap), "", l)
           all == [i \in DOMAIN written |-> line(written[i])]
       IN lexer = GetLine([lines |-> all, buffer |-> "", st |-> "", store |-> "", curInput |-> "",
                           readNext |-> TRUE, eof |-> FALSE, token |-> [type |-> "", value |-> ""]])
    /\ tokens = <<>> /\ lexed = "no"

\* nextToken().
NextToken ==
    /\ lexed = "no"
    /\ LET s == Loop([lexer EXCEPT !.store = "", !.token = [type |-> "", value |-> ""]])
       IN /\ lexer' = s
          /\ tokens' = IF s.token.type \in {"throws", "aborts", "Eoi"} THEN tokens ELSE Append(tokens, s.token)
          /\ lexed' = IF s.token.type \in {"throws", "aborts", "Eoi"} THEN s.token.type ELSE "no"
    /\ UNCHANGED written
-----------------------------------------------------------------------------
LexerTypeOK == /\ lexed \in {"no", "Eoi", "throws", "aborts"}
               /\ lexer.st # "" => Head(lexer.st) = "i"
               /\ lexer.eof => lexer.lines = <<>> /\ lexer.buffer = ""
               /\ \A i \in DOMAIN tokens : tokens[i].type # ""

\* What a lexeme means.
NumberTypes == [s \in {"", "b", "s", "l", "ub", "us", "ul"} |->
                   CASE s = "" -> "Int" [] s = "b" -> "Byte" [] s = "s" -> "Short" [] s = "l" -> "Long"
                     [] s = "ub" -> "Ubyte" [] s = "us" -> "Ushort" [] s = "ul" -> "Ulong"]
Meaning(text) ==
    CASE text \in Keywords \cup Operators -> [type |-> text, value |-> ""]
      [] Head(text) \in Digits -> [type |-> NumberTypes[Tail(text)], value |-> DigitValue[Head(text)]]
      [] OTHER -> [type |-> "Identifier", value |-> text]

\* Two lexemes with nothing between them that are not one longer lexeme.
IsWord(text) == Head(text) \notin OfOperator
Apart(p, q) == IF IsWord(p) THEN Head(q) \in TokenStops /\ (Head(p) \in Digits => Head(q) # ".")
               ELSE p \o Head(q) \notin OfOperator
Fragile(text) == \/ text \in OfKeyword \ Keywords \/ text = "^" \/ Head(text) = "'"
                 \/ Head(text) \in Digits /\ Tail(text) \notin DOMAIN NumberTypes

\* A file of numbers, operators, keywords and identifiers that are not the
\* beginning of a keyword is read as it was written, whatever is between the
\* lexemes and wherever the lines end (lexer.cpp 142-876).  Not so: identifiers
\* as short as 'i', which take the next character with them, '^' alone, literals
\* of characters, and numbers of another base or with nothing behind their 'u'.
ReadAsWritten ==
    LET all == FlattenSeq(written)
        Plain == \A i \in DOMAIN written : \A j \in DOMAIN written[i] :
                     /\ ~Fragile(written[i][j].text)
                     /\ j < Len(written[i]) /\ written[i][j].gap = ""
                            => Apart(written[i][j].text, written[i][j + 1].text)
        Meant == [i \in DOMAIN all |-> Meaning(all[i].text)]
    IN Plain => /\ IsPrefix(tokens, Meant)
                /\ lexed # "no" => lexed = "Eoi" /\ tokens = Meant
=============================================================================
