------------------------------ MODULE MCLibrary ------------------------------
(***************************************************************************)
(* The sequential parts of the library for TLC: each behaviour is of one   *)
(* of MCSequential, of the JSON reader, or of one kind of number.          *)
(***************************************************************************)
EXTENDS MCSequential, Sequences, SequencesExt

CONSTANTS MaxItems,                         \* of the JSON reader
          W, Mantissa,                      \* of the 128 bit integers
          Shift,                            \* of the fixed point numbers
          fractionLength, MaxFixed          \* of the decimal numbers

VARIABLES file, reader, open, value, parsed,
          lhs, op, rhs, result,
          number, exact

jsonVars == <<file, reader, open, value, parsed>>
numberVars == <<lhs, op, rhs, result, number, exact>>
vars == <<sequentialVars, jsonVars, numberVars>>
-----------------------------------------------------------------------------
(* JSON files *)
Tree == INSTANCE JsonReader WITH Files <- {}

\* What is put between two tokens, as the lines it adds to a file.
Gaps == {"", " ", "newline", "#", "line of #", "%"}
LinesOf(gap) == CASE gap = "newline" -> <<"", "">>
                  [] gap = "#" -> <<"# c", "">>
                  [] gap = "line of #" -> <<"", "# c", "">>
                  [] gap = "%" -> <<"%c%">>
                  [] OTHER -> <<gap>>
Lines(texts, gap) ==
    LET L[n \in 0 .. Len(texts)] ==
            IF n = 0 THEN <<"">> ELSE Tree!Join(Tree!Join(L[n - 1], <<texts[n]>>), LinesOf(gap[n]))
    IN L[Len(texts)]

Word(s) == [text |-> s, means |-> Tree!ValueOf(s)]
Null == [text |-> "null", means |-> Tree!Scalar("null", "")]
Quoted == [text |-> "\"s\"", means |-> Tree!Scalar("string", "s")]
Words == {Word(s) : s \in {"1", "-2", "x", "true", "false"}} \cup {Null, Quoted}
Some == {Word("x"), Word("false"), Quoted}

One(v) == [x \in {"a"} |-> v]
Two(v, w) == [x \in {"a", "b"} |-> IF x = "a" THEN v ELSE w]
\* Objects of one and two members, arrays, one in the other, and a string in two
\* parts.
Shapes(v, w) ==
    {[texts |-> <<"{", "a", ":", v.text, "}">>, means |-> Tree!Object(One(v.means))],
     [texts |-> <<"{", "a", ":", v.text, ",", "b", ":", w.text, "}">>, means |-> Tree!Object(Two(v.means, w.means))],
     [texts |-> <<"{", "a", ":", "[", v.text, ",", w.text, "]", "}">>,
      means |-> Tree!Object(One(Tree!Array(<<v.means, w.means>>)))],
     [texts |-> <<"{", "a", ":", "{", "a", ":", v.text, "}", "}">>, means |-> Tree!Object(One(Tree!Object(One(v.means))))],
     [texts |-> <<"{", "a", ":", "[", "]", ",", "b", ":", v.text, "}">>,
      means |-> Tree!Object(Two(Tree!Array(<<>>), v.means))],
     [texts |-> <<"{", "a", ":", "\"s\"\\", "\"t\"", "}">>, means |-> Tree!Object(One(Tree!Scalar("string", "st")))]}

\* The reader stays on the '%' that closes a comment, and goes on from there only
\* when the object is complete.  It passes over the character behind a word without
\* quotes, which a '#' does not end, and reads "false" or "true" for a word when that
\* stands somewhere behind it in its line.  A last line that begins with '#' and is not
\* ended is read for ever.
CommentsAreOver(texts, gap) == \A i \in DOMAIN texts : gap[i] = "%" => i = Len(texts)
WordsAreEnded(texts, gap) ==
    \A i \in DOMAIN texts :
        /\ texts[i] \in {"a", "b", "x", "null"} => gap[i] # "#"
        /\ texts[i] \in {"x", "null"} /\ gap[i] = "" => texts[i + 1] = ","
        /\ \A j \in i + 1 .. Len(texts) :
              texts[i] \in {"x", "null", "true"} /\ (\A k \in i .. j - 1 : gap[k] \notin {"newline", "#", "line of #"})
                  => texts[j] # "false" /\ (texts[j] = "true" => texts[i] = "true")
File(s, gap, cut) ==
    LET lines == Lines(s.texts, gap)
        ended == Last(lines) = ""
        worded == WordsAreEnded(s.texts, gap) /\ (cut => gap[Len(s.texts)] # "line of #")
    IN [lines |-> IF ended THEN Front(lines) ELSE lines, newline |-> ended /\ ~cut, means |-> s.means,
        plain |-> worded /\ CommentsAreOver(s.texts, gap),
        commented |-> worded, printed |-> FALSE]
\* One gap throughout, and another one somewhere.
MCFiles == UNION {{File(s, [i \in DOMAIN s.texts |-> IF i = k THEN g ELSE b], cut) :
                      k \in {1, 2, 3, 4, 5, Len(s.texts)}, g \in Gaps, b \in {"", " "}, cut \in BOOLEAN} :
                  s \in UNION {Shapes(v, w) : v \in Words, w \in Some}}
-----------------------------------------------------------------------------
Json == INSTANCE JsonReader WITH Files <- MCFiles
\* At the ends of the halves and words.
IntOperands == {-128, -127, -100, -65, -64, -63, -17, -16, -15, -3, -2, -1, 0, 1, 2, 3, 7, 8, 15, 16, 17,
                43, 63, 64, 65, 100, 127}
Wide == INSTANCE Int128 WITH Operands <- IntOperands
Binary == INSTANCE Fixed
Parts == INSTANCE Decimal

IsJson == part = "JsonReader"
IsInt128 == part = "Int128"
IsFixed == part = "Fixed"
IsDecimal == part = "Decimal"

NoJson == file = 0 /\ reader = 0 /\ open = 0 /\ value = 0 /\ parsed = 0
NoInt128 == lhs = 0 /\ op = 0 /\ rhs = 0 /\ result = 0
NoNumber == NoInt128 /\ number = 0 /\ exact = 0

Init == \/ SequentialInit /\ NoJson /\ NoNumber
        \/ IsJson /\ Json!JsonInit /\ NoSequential /\ NoNumber
        \/ IsInt128 /\ Wide!Int128Init /\ number = 0 /\ exact = 0 /\ NoSequential /\ NoJson
        \/ IsFixed /\ Binary!FixedInit /\ NoInt128 /\ NoSequential /\ NoJson
        \/ IsDecimal /\ Parts!DecimalInit /\ NoInt128 /\ NoSequential /\ NoJson

Next == \/ SequentialNext /\ UNCHANGED <<jsonVars, numberVars>>
        \/ IsJson /\ Json!JsonNext /\ UNCHANGED <<sequentialVars, numberVars>>
        \/ IsInt128 /\ Wide!Int128Next /\ UNCHANGED <<sequentialVars, jsonVars, number, exact>>
        \/ /\ \/ IsFixed /\ Binary!FixedNext
              \/ IsDecimal /\ Parts!DecimalNext
           /\ UNCHANGED <<sequentialVars, jsonVars, lhs, op, rhs, result>>

Spec == Init /\ [][Next]_vars
-----------------------------------------------------------------------------
\* The type invariants of all (sjson.hpp 294-301, int128.hpp 73-76, fixed.hpp
\* 362, decimal.hpp 270-273).
TypeOK == /\ SequentialTypeOK
          /\ IsJson => Json!JsonTypeOK
          /\ IsInt128 => Wide!Int128TypeOK
          /\ IsFixed => Binary!FixedTypeOK
          /\ IsDecimal => Parts!DecimalTypeOK

\* A plain JSON file is read to the tree it was written for, and so is what a tree
\* without null is printed as; a file that is not plain is so read only by a
\* reader that had come to its end before (sjson.hpp 301-520, 540-580).
ReadIffPlain == IsJson => Json!ReadIffPlain

\* Comments are read over, wherever they stand between two tokens (src/README.md
\* 166-167; sjson.hpp 525-542).
CommentsAreRead == IsJson => Json!CommentsAreRead

\* The operators of the three kinds of numbers give what the numbers they stand
\* for give, as far as that fits and but for the cases Int128, Fixed and Decimal
\* name (int128.hpp 80-875, fixed.hpp 135-370, decimal.hpp 159-245).
NumbersAreExact == /\ IsInt128 => Wide!Int128IsExact
                   /\ IsFixed => Binary!FixedIsExact
                   /\ IsDecimal => Parts!DecimalIsExact
=============================================================================
