----------------------------- MODULE MCRecurDec -----------------------------
(***************************************************************************)
(* Small grammars for the generator of parsers, and short texts for the    *)
(* lexer beside it: each behaviour is of the one or of the other.          *)
(***************************************************************************)
EXTENDS GeneratedParser

VARIABLES part,                          \* "parser" or "lexer"
          written, lexer, tokens, lexed  \* of the lexer

lexerVars == <<written, lexer, tokens, lexed>>
MCVars == <<part, vars, lexerVars>>

\* Lexemes that begin like each other, and what can be between them.
Lexemes == {"do", "default", "d", "foo", "int", "i", "3", "0", "<<=", "=", ">", "!", "+", "'", "'a'", ";",
            "^", ".", "0o7", "0b1", "7us", "7u", "300ub"}
Piece == [text : Lexemes, gap : {"", " "}]
LinesOfPieces == {<<l>> : l \in UNION {[1 .. n -> Piece] : n \in 0 .. 2}}
                 \cup {<<l, k>> : l, k \in UNION {[1 .. n -> Piece] : n \in 0 .. 1}}
                 \cup {<<l>> : l \in [1 .. 3 -> [text : {"do", "foo", "=", ">", "3", "!"}, gap : {"", " "}]]}

\* A file may end in a newline: its last line is empty.
MCTexts == LinesOfPieces \cup {Append(l, <<>>) : l \in LinesOfPieces}

Text == INSTANCE Lexer WITH Texts <- MCTexts
NoText == INSTANCE Lexer WITH Texts <- {<<>>}

\* Rules and tokens take turns in the order of the names.
MCTokens == {1, 4}
MCRules == {2, 3}

Part(name, store) == [name |-> name, store |-> store]
Alt(id, parts) == [parts |-> parts, id |-> id]

\* The parts of the alternatives: 1 is a token that is not stored.
a == Part(1, "")
b == Part(4, "b")
b0 == Part(4, "")
X == Part(2, "x")
Y == Part(3, "y")

\* Alternatives as they come in the grammars of the repository: prefixes of one
\* another, lists, brackets.
BodiesX == {<<a>>, <<Y>>, <<Y, a, X>>, <<Y, X>>, <<a, X, b>>, <<X, b>>}
BodiesY == {<<a>>, <<b>>, <<b, a>>, <<b, X>>}
UpToTwo(bodies) == {<<Alt(1, s)>> : s \in bodies}
                   \cup {<<Alt(1, p[1]), Alt(2, p[2])>> : p \in {q \in bodies \X bodies : q[1] # q[2]}}
Languages == {g \in [MCRules -> UpToTwo(BodiesX) \cup UpToTwo(BodiesY)] :
                  g[2] \in UpToTwo(BodiesX) /\ g[3] \in UpToTwo(BodiesY)}

\* Store names: two alternatives of one rule over parts that are stored under
\* different names or not at all.
PartsOfTwo == {Part(n, s) : n \in {3, 4}, s \in {"u", "v"}} \cup {b0, a}
BodiesOfTwo == {<<p>> : p \in PartsOfTwo} \cup {<<p, q>> : p, q \in PartsOfTwo}
Naming == {(2 :> <<Alt(1, p[1]), Alt(2, p[2])>>) @@ (3 :> <<Alt(1, <<a>>)>>) :
               p \in {q \in BodiesOfTwo \X BodiesOfTwo : Len(q[1]) <= Len(q[2]) /\ q[1] # q[2]}}

OneGrammar == [r \in MCRules |-> <<Alt(1, <<a>>)>>]

MCInit == \/ /\ part = "parser" /\ NoText!LexerInit
             /\ grammar \in Languages \cup Naming
             /\ \E order \in {<<2, 3>>, <<3, 2>>} : entries = EntriesOf(order)
             /\ FirstInit /\ GenInit /\ ParserInit
          \/ /\ part = "lexer" /\ Text!LexerInit
             /\ grammar = OneGrammar /\ entries = EntriesOf(<<2, 3>>)
             /\ FirstInit /\ GenInit /\ ParserInit

MCNext == \/ /\ part = "parser" /\ UNCHANGED <<part, lexerVars>>
             /\ \/ ComputeFirstSet /\ UNCHANGED <<genVars, parserVars>>
                \/ Gen /\ UNCHANGED parserVars
                \/ ~LeftRecursive /\ Parse
          \/ /\ part = "lexer" /\ Text!NextToken /\ UNCHANGED <<part, vars>>

MCSpec == MCInit /\ [][MCNext]_MCVars

MCInputs == UNION {[1 .. n -> MCTokens] : n \in 0 .. 3}

\* The types of the parts (recdec.hpp 33-50; stuff/lexer.hpp 8-21).
TypeOK == /\ FirstTypeOK /\ GrammarOK /\ ParserTypeOK /\ Text!LexerTypeOK
          /\ phase = "parse" /\ start = 0 => DepthSuffices

\* A text of numbers, operators, keywords and identifiers is read as it was
\* written, but for the words Lexer names (stuff/lexer.cpp 142-876).
ReadAsWritten == Text!ReadAsWritten
=============================================================================
