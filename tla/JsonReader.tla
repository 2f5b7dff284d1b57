----------------------------- MODULE JsonReader -----------------------------
(***************************************************************************)
(* jsonparser of sjson.hpp: reads a file line by line into a tree of       *)
(* values, prints the tree, and finds values in it by a path.  The         *)
(* recursion of parseObject(), parseValue() and parseArray() is a stack of *)
(* the objects and arrays that are open; an action is one round of their   *)
(* loops.  A line is a string; the lines of the file are what getline()    *)
(* returns.                                                                *)
(***************************************************************************)
EXTENDS Naturals, Sequences, SequencesExt

CONSTANTS Files,    \* what the files may hold: [lines, newline, means, plain, commented, printed]
          MaxItems  \* an array, or a nesting, that grows beyond is taken to grow for ever

VARIABLES file,     \* what is read
          reader,   \* lines not read yet, newline, curLine, idx, eof, and whether a goto repeats for ever
          open,     \* the objects and arrays that are parsed, the innermost last
          value,    \* the value that has just been parsed, or NoValue
          parsed    \* "no", then "yes", "throws" or "endless"

jsonVars == <<file, reader, open, value, parsed>>

NoValue == [type |-> "none"]
Scalar(type, str) == [type |-> type, str |-> str]
Object(members) == [type |-> "object", members |-> members]
Array(items) == [type |-> "array", items |-> items]
-----------------------------------------------------------------------------
(* Characters *)
DigitChars == {"0", "1", "2", "3", "4", "5", "6", "7", "8", "9"}
LowerOrUpper == LET letters == "abcdefghijklmnopqrstuvwxyzABCDEFGHIJKLMNOPQRSTUVWXYZ"
                IN {SubSeq(letters, i, i) : i \in 1 .. Len(letters)}
Signs == {"+", "-"}
Breaks == {":", "}", "{", "[", "]", ","}

\* s[i], which for the size of s is the character 0.
At(s, i) == IF i < Len(s) THEN SubSeq(s, i + 1, i + 1) ELSE ""
cur(r) == At(r.curLine, r.idx)
Span(s, i, chars) == CHOOSE f \in i .. Len(s) : /\ \A k \in i .. f - 1 : At(s, k) \in chars
                                                /\ At(s, f) \notin chars
Found(s, word, i) == \E k \in i .. Len(s) - Len(word) : SubSeq(s, k + 1, k + Len(word)) = word

\* convertsToInt(), convertsToFloat(): no digit is needed for either.
AfterSign(s, i) == IF At(s, i) \in Signs THEN i + 1 ELSE i
convertsToInt(s) == Span(s, AfterSign(s, 0), DigitChars) = Len(s)
convertsToFloat(s) ==
    LET i == Span(s, AfterSign(s, 0), DigitChars)
        f == IF At(s, i) = "." THEN Span(s, i + 1, DigitChars) ELSE i
        e == IF At(s, f) \in {"e", "E"} THEN Span(s, AfterSign(s, f + 1), DigitChars) ELSE f
    IN e = Len(s)

\* value(s): the type is told from the text, whether it was quoted or not.
ValueOf(s) ==
    Scalar(CASE s \in {"true", "false"} -> "boolean" [] s = "null" -> "null"
             [] s \notin {"true", "false", "null"} /\ convertsToInt(s) -> "int"
             [] s \notin {"true", "false", "null"} /\ ~convertsToInt(s) /\ convertsToFloat(s) -> "float"
             [] OTHER -> "string", s)
-----------------------------------------------------------------------------
(* Reading *)

\* Mutant: the next line is read from where the last one ended.
MutReadline(r) ==
    IF r.lines # <<>> THEN [r EXCEPT !.curLine = Head(r.lines), !.lines = Tail(r.lines)]
    ELSE [r EXCEPT !.eof = TRUE, !.idx = 0, !.curLine = IF r.newline THEN "" ELSE @]

\* getline() at the end: behind a last line that ends in a newline there is an
\* empty one; when the stream is at its end already the line stays as it was.
Readline(r) ==
    IF r.lines # <<>> THEN [r EXCEPT !.curLine = Head(r.lines), !.lines = Tail(r.lines), !.idx = 0]
    ELSE [r EXCEPT !.eof = TRUE, !.idx = 0, !.curLine = IF r.newline THEN "" ELSE @]

RECURSIVE Blanks(_), Comment(_), EatWhitespace(_)
Blanks(r) == IF ~r.eof /\ (r.curLine = "" \/ cur(r) \in {" ", "\t"})
             THEN LET n == [r EXCEPT !.idx = @ + 1]
                  IN Blanks(IF n.idx >= Len(n.curLine) THEN Readline(n) ELSE n)
             ELSE r
\* eatStartStopComment(): stays on the '%' that ends the comment.
Comment(r) == IF cur(r) = "%" THEN r
              ELSE LET n == [r EXCEPT !.idx = @ + 1]
                       next == Readline(n)
                   IN IF n.idx < Len(n.curLine) THEN Comment(n)
                      ELSE IF next.eof THEN next ELSE Comment(next)
\* eatWhitespace(): when the last line begins with '#' it is that line again.
EatWhitespace(r) ==
    LET n == Blanks(IF r.idx >= Len(r.curLine) THEN Readline(r) ELSE r)
        c == IF n.idx < Len(n.curLine) THEN cur(n) ELSE ""
    IN IF c = "#" THEN IF Readline(n) = n THEN [n EXCEPT !.repeats = TRUE] ELSE EatWhitespace(Readline(n))
       ELSE IF c = "%" THEN Comment([n EXCEPT !.idx = @ + 1]) ELSE n

\* parseString(): up to a blank or a separator, or to a quote that has no
\* backslash before and none behind; a quote with one behind goes on at the
\* next quote.
RECURSIVE UpToQuote(_, _)
UpToQuote(r, str) ==
    LET s == r.curLine
        on == EatWhitespace([r EXCEPT !.idx = @ + 2])
    IN IF r.idx >= Len(s) THEN [reader |-> r, str |-> str, ok |-> TRUE]
       ELSE IF cur(r) = "\"" /\ At(s, r.idx - 1) # "\\" /\ ~(r.idx + 1 < Len(s) /\ At(s, r.idx + 1) = "\\")
       THEN [reader |-> r, str |-> str, ok |-> TRUE]
       ELSE IF cur(r) = "\"" /\ r.idx + 1 < Len(s)
       THEN IF cur(on) = "\"" THEN UpToQuote([on EXCEPT !.idx = @ + 1], str)
            ELSE [reader |-> on, str |-> str, ok |-> FALSE]
       ELSE UpToQuote([r EXCEPT !.idx = @ + 1], str \o cur(r))
ParseString(r) ==
    LET s == r.curLine
        end == CHOOSE f \in r.idx .. Len(s) :
                   /\ f = Len(s) \/ At(s, f) \in Breaks \cup {" ", "\t"}
                   /\ \A k \in r.idx .. f - 1 : At(s, k) \notin Breaks \cup {" ", "\t"}
        quoted == UpToQuote([r EXCEPT !.idx = @ + 1], "")
    IN IF cur(r) = "\"" THEN [quoted EXCEPT !.reader.idx = @ + 1]
       ELSE [reader |-> [r EXCEPT !.idx = end], str |-> SubSeq(s, r.idx + 1, end), ok |-> TRUE]

\* The scalars of parseValue(): "false" and "true" are looked for in all that is
\* left of the line, and one character behind a word is passed over.
ParseScalar(r) ==
    LET s == r.curLine
        quoted == ParseString(r)
        number == Span(s, r.idx, DigitChars \cup Signs \cup {"."})
        word == Span(s, r.idx, DigitChars \cup LowerOrUpper)
        Is(v, i) == [reader |-> [r EXCEPT !.idx = i], value |-> v, ok |-> TRUE]
    IN CASE cur(r) = "\"" -> [reader |-> quoted.reader, value |-> ValueOf(quoted.str), ok |-> quoted.ok]
         [] cur(r) \in DigitChars \cup Signs -> Is(ValueOf(SubSeq(s, r.idx + 1, number)), number)
         [] OTHER ->
            IF Found(s, "false", r.idx) THEN Is(ValueOf("false"), r.idx + 5)
            ELSE IF Found(s, "true", r.idx) THEN Is(ValueOf("true"), r.idx + 4)
            ELSE IF cur(r) = "]" THEN Is([type |-> "no object"], r.idx + 1)
            ELSE IF cur(r) \in LowerOrUpper
            THEN Is(IF SubSeq(s, r.idx + 1, word) = "null" THEN Scalar("null", "")
                    ELSE ValueOf(SubSeq(s, r.idx + 1, word)), word + 1)
            ELSE [reader |-> r, value |-> NoValue, ok |-> FALSE]
-----------------------------------------------------------------------------
Innermost == Last(open)
Stops(how) == parsed' = how /\ UNCHANGED <<file, reader, open, value>>
\* A step that has come to the reader r goes on with P, unless it got stuck.
Steps(r, P) == IF r.repeats THEN Stops("endless")
               ELSE P /\ reader' = r /\ UNCHANGED file

\* parseValue(), with the stack that is open around the value: an object and an
\* array are opened, a scalar is there at once.
ParseValue(r, around) ==
    LET n == EatWhitespace(r)
        scalar == ParseScalar(n)
        Deeper(kind) == Append(around, [kind |-> kind, name |-> "", object |-> <<>>, array |-> <<>>])
        Opens == cur(n) \in {"{", "["}
    IN CASE Opens /\ Len(around) = MaxItems -> Stops("endless")
         [] cur(n) = "{" /\ Len(around) < MaxItems -> Steps([n EXCEPT !.idx = @ + 1],
                                  open' = Deeper("object") /\ UNCHANGED <<value, parsed>>)
         [] cur(n) = "[" /\ Len(around) < MaxItems -> Steps([n EXCEPT !.idx = @ + 1],
                                  open' = Deeper("array") /\ UNCHANGED <<value, parsed>>)
         [] OTHER -> IF scalar.ok THEN Steps(scalar.reader, open' = around /\ value' = scalar.value
                                                               /\ UNCHANGED parsed)
                     ELSE Stops("throws")

\* parse(): the first object.
ParseRoot ==
    /\ parsed = "no" /\ open = <<>>
    /\ LET r == EatWhitespace(Readline(reader))
       IN IF cur(r) = "{" THEN ParseValue(r, <<>>) ELSE IF r.repeats THEN Stops("endless") ELSE Stops("throws")

\* parseObject(): the name and the value of a member.
Member ==
    /\ parsed = "no" /\ open # <<>> /\ Innermost.kind = "object" /\ value = NoValue
    /\ LET name == ParseString(EatWhitespace(reader))
           colon == EatWhitespace(name.reader)
       IN IF name.ok /\ cur(colon) = ":"
          THEN ParseValue([colon EXCEPT !.idx = @ + 1], [open EXCEPT ![Len(open)].name = name.str])
          ELSE Stops("throws")

\* What is complete is a value of what it is in; the root is the file's.
Completes(v, rest) == /\ open' = rest
                      /\ value' = v
                      /\ parsed' = IF rest = <<>> THEN "yes" ELSE "no"

\* The value goes into the map, where a name that is there already keeps its
\* value; the comma behind it may be missing.
AfterMember ==
    /\ parsed = "no" /\ open # <<>> /\ Innermost.kind = "object" /\ value # NoValue
    /\ LET o == Innermost.object
           members == IF Innermost.name \in DOMAIN o THEN o
                      ELSE [n \in DOMAIN o \cup {Innermost.name} |-> IF n \in DOMAIN o THEN o[n] ELSE value]
           comma == EatWhitespace(reader)
           r == EatWhitespace(IF cur(comma) = "," THEN [comma EXCEPT !.idx = @ + 1] ELSE comma)
       IN IF cur(r) = "}"
          THEN Steps(EatWhitespace([r EXCEPT !.idx = @ + 1]), Completes(Object(members), Front(open)))
          ELSE Steps(r, /\ open' = [open EXCEPT ![Len(open)].object = members]
                        /\ value' = NoValue /\ UNCHANGED parsed)

\* parseArray(): the end, or one more value.
Element ==
    /\ parsed = "no" /\ open # <<>> /\ Innermost.kind = "array" /\ value = NoValue
    /\ LET r == EatWhitespace(reader)
       IN IF cur(r) = "]"
          THEN Steps([r EXCEPT !.idx = @ + 1], Completes(Array(Innermost.array), Front(open)))
          ELSE IF Len(Innermost.array) = MaxItems THEN Stops("endless") ELSE ParseValue(r, open)

\* The loop's condition is tested behind the comma, too.
AfterElement ==
    /\ parsed = "no" /\ open # <<>> /\ Innermost.kind = "array" /\ value # NoValue
    /\ LET array == Append(Innermost.array, value)
           r == EatWhitespace(reader)
           n == IF cur(r) = "," THEN [r EXCEPT !.idx = @ + 1] ELSE r
       IN IF cur(n) = "]"
          THEN Steps(EatWhitespace([n EXCEPT !.idx = @ + 1]), Completes(Array(array), Front(open)))
          ELSE Steps(n, /\ open' = [open EXCEPT ![Len(open)].array = array]
                        /\ value' = NoValue /\ UNCHANGED parsed)
-----------------------------------------------------------------------------
(* The tree *)

\* access(), pathExists(): the value at a path of names.
RECURSIVE accessImpl(_, _)
accessImpl(object, path) ==
    IF Head(path) \notin DOMAIN object.members THEN NoValue
    ELSE LET v == object.members[Head(path)]
         IN IF Len(path) = 1 THEN v
            ELSE IF v.type # "object" THEN NoValue ELSE accessImpl(v, Tail(path))
pathExists(object, path) == accessImpl(object, path) # NoValue

\* get<T>(): the value when it is there and of the type, or notFound; a string
\* is taken from any.
Get(object, path, type, notFound) ==
    LET v == accessImpl(object, path)
    IN IF v = NoValue THEN notFound
       ELSE IF type = "string" \/ v.type = type THEN v ELSE "throws"

\* operator<<: a member and an element on a line of its own.
Join(x, y) == Front(x) \o <<Last(x) \o Head(y)>> \o Tail(y)
Endl == <<"", "">>
RECURSIVE Printed(_), PrintedObject(_)
Separated(texts) == FoldLeft(LAMBDA x, i : Join(Join(x, texts[i]), IF i = Len(texts) THEN Endl ELSE <<",", "">>),
                             <<"">>, [i \in DOMAIN texts |-> i])
PrintedObject(o) ==
    LET names == SetToSeq(DOMAIN o.members)
    IN Join(Join(<<"{", "">>, Separated([i \in DOMAIN names |-> Join(<<"    " \o (names[i] \o " : ")>>,
                                                                    Printed(o.members[names[i]]))])), <<"}", "">>)
Printed(v) ==
    CASE v.type = "array" -> Join(Join(<<"[", "">>, Separated([i \in DOMAIN v.items |-> Printed(v.items[i])])), <<"]", "">>)
      [] v.type = "object" -> Join(PrintedObject(v), Endl)
      [] v.type = "string" -> <<"\"" \o (v.str \o "\"")>>
      [] OTHER -> <<v.str>>

\* A null is printed as nothing.
RECURSIVE HasNull(_)
HasNull(v) == CASE v.type = "object" -> \E n \in DOMAIN v.members : HasNull(v.members[n])
                [] v.type = "array" -> \E i \in DOMAIN v.items : HasNull(v.items[i])
                [] OTHER -> v.type = "null"
-----------------------------------------------------------------------------
Reading(f) == [lines |-> f.lines, newline |-> f.newline, curLine |-> "", idx |-> 0, eof |-> FALSE, repeats |-> FALSE]
JsonInit == /\ file \in Files
            /\ reader = Reading(file)
            /\ open = <<>> /\ value = NoValue /\ parsed = "no"

\* A program that prints the tree to a file and reads that.
PrintAndRead ==
    /\ parsed = "yes" /\ file.plain /\ ~file.printed
    /\ file' = [file EXCEPT !.lines = Front(PrintedObject(value)), !.newline = TRUE, !.printed = TRUE,
                             !.plain = ~HasNull(value)]
    /\ reader' = Reading(file') /\ value' = NoValue /\ parsed' = "no"
    /\ UNCHANGED open

JsonNext == ParseRoot \/ Member \/ AfterMember \/ Element \/ AfterElement \/ PrintAndRead
-----------------------------------------------------------------------------
JsonTypeOK == /\ parsed \in {"no", "yes", "throws", "endless"}
              /\ \A i \in DOMAIN open : /\ open[i].kind \in {"object", "array"}
                                        /\ Len(open[i].array) <= MaxItems
              /\ parsed = "yes" => value.type = "object"
              /\ reader.idx <= Len(reader.curLine) + 1

\* Every value of the tree is found at its path, and nowhere else.
RECURSIVE PathsOf(_)
PathsOf(v) == IF v.type # "object" THEN {}
              ELSE {<<n>> : n \in DOMAIN v.members}
                   \cup UNION {{<<n>> \o p : p \in PathsOf(v.members[n])} : n \in DOMAIN v.members}
FoundByPath(v) == \A p \in PathsOf(v) : /\ pathExists(v, p)
                                        /\ Get(v, p, accessImpl(v, p).type, "not found") = accessImpl(v, p)

\* A file is read to the tree it was written for, without an error and without a
\* look behind its end before, if it is plain, and then only, unless it gets there by
\* reading its last line twice; and what the tree is printed as is read to that tree
\* if there is no null in it, and then only (sjson.hpp 301-520, 540-580).
ReadIffPlain ==
    LET AsMeant == parsed = "yes" /\ value = file.means /\ FoundByPath(value)
    IN /\ file.plain => AsMeant \/ (parsed = "no" /\ ~reader.eof)
       /\ ~file.plain /\ AsMeant => reader.eof

\* A file in which the comments are all that is not plain is read as it was meant.
CommentsAreRead == file.commented => parsed \in {"no", "yes"} /\ (parsed = "yes" => value = file.means)
=============================================================================
