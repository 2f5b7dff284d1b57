--------------------------- MODULE GeneratedParser ---------------------------
(***************************************************************************)
(* The parser that RecurDec writes, at work: walkTrie() (recde/recdec.cpp) *)
(* prints for each node of a trie one if/else chain over its children, so  *)
(* a running parse<Rule>() is at a node of the trie of its rule.           *)
(***************************************************************************)
EXTENDS RecurDec

CONSTANTS Starts,    \* the rules a user calls parse<Rule>() of
          Inputs,    \* the tokens the lexer delivers before Eof
          MaxDepth   \* as deep as derivations of the inputs go

ASSUME InputsAssumption == Starts \subseteq Rules /\ Inputs \subseteq Seq(Tokens) /\ MaxDepth \in Nat

VARIABLES start,       \* the rule that is parsed
          input, pos,  \* the lexer; curToken is the token at pos
          stack,       \* the functions that run, the innermost last
          result       \* what the first one returned or threw

parserVars == <<start, input, pos, stack, result>>
vars == <<firstVars, genVars, parserVars>>

Eof == 0
Running == [status |-> "running"]
curToken == IF pos <= Len(input) THEN input[pos] ELSE Eof

Frame(rule) == [rule |-> rule, path |-> <<>>, args |-> <<>>]
ParserInit == start = 0 /\ input = <<>> /\ pos = 1 /\ stack = <<>> /\ result = Running

Top == Last(stack)
TrieOfTop == code.parse[Top.rule].trie

\* The conditions of the chain: a rule is tested by its look ahead set.
Accepts(name) == IF name \in Rules THEN curToken \in code.lookAhead[name] ELSE curToken = name
Matching == {n \in Children(TrieOfTop, Top.path) : Accepts(n)}
AtTop(path, args) == [stack EXCEPT ![Len(stack)].path = path, ![Len(stack)].args = args]

\* Parser(lexer) and parse<Rule>().
CallParser ==
    /\ phase = "parse" /\ stack = <<>> /\ result = Running
    /\ \E rule \in Starts, tokens \in Inputs : stack' = <<Frame(rule)>> /\ start' = rule /\ input' = tokens
    /\ UNCHANGED <<firstVars, genVars, pos, result>>

\* Mutant: a part that is not stored is not taken.
MutBranch ==
    /\ stack # <<>> /\ Matching # {}
    /\ LET name == Min(Matching)
           next == Append(Top.path, name)
           store == TrieOfTop[next].store
       IN \/ /\ name \in Tokens /\ store # ""
             /\ stack' = AtTop(next, Append(Top.args, [name |-> name, store |-> store, value |-> [token |-> pos]]))
             /\ pos' = pos + 1
          \/ /\ name \in Rules /\ store # ""
             /\ stack' = Append(AtTop(next, Top.args), Frame(name))
             /\ pos' = pos
          \/ /\ store = ""
             /\ stack' = AtTop(next, Top.args)
             /\ pos' = pos
    /\ UNCHANGED <<firstVars, genVars, start, input, result>>

\* The first branch that matches: a stored token and a stored rule become
\* arguments, anything else is one token passed over.
Branch ==
    /\ stack # <<>> /\ Matching # {}
    /\ LET name == Min(Matching)
           next == Append(Top.path, name)
           store == TrieOfTop[next].store
       IN \/ /\ name \in Tokens /\ store # ""
             /\ stack' = AtTop(next, Append(Top.args, [name |-> name, store |-> store, value |-> [token |-> pos]]))
             /\ pos' = pos + 1
          \/ /\ name \in Rules /\ store # ""
             /\ stack' = Append(AtTop(next, Top.args), Frame(name))
             /\ pos' = pos
          \/ /\ store = ""
             /\ stack' = AtTop(next, Top.args)
             /\ pos' = pos + 1
    /\ UNCHANGED <<firstVars, genVars, start, input, result>>

\* make_shared<Rule>(...): the constructor with the types of the arguments sets
\* the members its own parameters are named for.
MakeShared(rule, args, id) ==
    LET ctors == code.class[rule].constructors
        ctor == CHOOSE c \in ToSet(ctors) : Signature(c) = Signature(args)
    IN [status |-> "accepted", rule |-> rule, id |-> id,
        members |-> [s \in {ctor[i].store : i \in IF args = <<>> THEN {} ELSE DOMAIN ctor} |->
                        args[CHOOSE i \in DOMAIN ctor : ctor[i].store = s].value],
        read |-> {<<args[i].store, args[i].value>> : i \in DOMAIN args}]

\* No branch matches behind a whole alternative.
Return ==
    /\ stack # <<>> /\ Matching = {} /\ Top.path \in Values(TrieOfTop)
    /\ LET node == MakeShared(Top.rule, Top.args, TrieOfTop[Top.path].value)
           callers == Front(stack)
       IN IF callers = <<>>
          THEN result' = node /\ stack' = callers
          ELSE LET caller == Last(callers)
                   store == code.parse[caller.rule].trie[caller.path].store
               IN /\ stack' = [callers EXCEPT ![Len(callers)].args =
                                  Append(@, [name |-> Top.rule, store |-> store, value |-> node])]
                  /\ result' = result
    /\ UNCHANGED <<firstVars, genVars, start, input, pos>>

\* No branch matches within an alternative: the exception leaves all functions.
Throw ==
    /\ stack # <<>> /\ Matching = {} /\ Top.path \notin Values(TrieOfTop)
    /\ result' = [status |-> "refused", error |-> code.parse[Top.rule].throws[Top.path], token |-> curToken, by |-> Top]
    /\ stack' = <<>>
    /\ UNCHANGED <<firstVars, genVars, start, input, pos>>

Parse == CallParser \/ Branch \/ Return \/ Throw

\* The sets are computed, the code is written, the parser runs.
Init == GrammarOK /\ entries \in Seq(Entry) /\ FirstInit /\ GenInit /\ ParserInit
Next == \/ ComputeFirstSet /\ UNCHANGED <<genVars, parserVars>>
        \/ Gen /\ UNCHANGED parserVars
        \/ Parse
Spec == Init /\ [][Next]_vars
-----------------------------------------------------------------------------
(* What a grammar means, apart from any parser. *)

\* What can be derived from a sequence of names, when F has the sentences of the
\* rules, as far as it is no longer than the inputs.
Cut(seqs) == {s \in seqs : \E w \in Inputs : Len(s) <= Len(w)}
Strings(F, name) == IF name \in Rules THEN F[name] ELSE {<<name>>}
Derivable(F, names) ==
    LET D[n \in 0 .. Len(names)] ==
            IF n = 0 THEN {<<>>} ELSE Cut({d[1] \o d[2] : d \in D[n - 1] \X Strings(F, names[n])})
    IN D[Len(names)]
Derived(F) == [r \in Rules |-> UNION {Derivable(F, NamesOf(grammar[r][i])) : i \in DOMAIN grammar[r]}]

\* The sentences of each rule, of derivations of some depth.
Language == LET L[d \in 0 .. MaxDepth] == IF d = 0 THEN [r \in Rules |-> {}] ELSE Derived(L[d - 1])
            IN L[MaxDepth]
DepthSuffices == Derived(Language) = Language

\* The tokens that can follow each rule in a sentence of the start rule: the
\* least sets that have what begins behind each occurrence of the rule.
Starting(name) == IF name \in Rules THEN first[name] ELSE {name}
FollowClosed(F) ==
    /\ Eof \in F[start]
    /\ \A q \in Rules : \A i \in DOMAIN grammar[q] : LET names == NamesOf(grammar[q][i]) IN
           \A k \in DOMAIN names : names[k] \in Rules =>
               (IF k < Len(names) THEN Starting(names[k + 1]) ELSE F[q]) \subseteq F[names[k]]
Follow == LET closed == {F \in [Rules -> SUBSET (Tokens \cup {Eof})] : FollowClosed(F)}
          IN [r \in Rules |-> {t \in Tokens \cup {Eof} : \A F \in closed : t \in F[r]}]

\* One token is enough to tell the branches of each node apart, and to tell
\* whether a whole alternative goes on.
LL1 ==
    \A r \in Rules : LET trie == code.parse[r].trie IN \A p \in DOMAIN trie :
        /\ \A m, n \in Children(trie, p) : m # n => Starting(m) \cap Starting(n) = {}
        /\ p \in Values(trie) => \A n \in Children(trie, p) : Starting(n) \cap Follow[r] = {}

\* A rule part that is not stored is passed over like a token.
RulesAreStored == \A r \in Rules : \A i \in DOMAIN grammar[r] : \A part \in ToSet(grammar[r][i].parts) :
                      part.name \in Rules => part.store # ""

\* No rule begins with itself: the parser of such a grammar calls itself for ever.
LeftRecursive ==
    LET Fronts(S) == UNION {{grammar[r][i].parts[1].name : i \in DOMAIN grammar[r]} : r \in S} \cap Rules
        Reach[d \in 0 .. Cardinality(Rules)] == [r \in Rules |->
            IF d = 0 THEN Fronts({r}) ELSE Reach[d - 1][r] \cup Fronts(Reach[d - 1][r])]
    IN \E r \in Rules : r \in Reach[Cardinality(Rules)][r]
-----------------------------------------------------------------------------
ParserTypeOK == /\ input \in Inputs \cup {<<>>}
                /\ pos \in 1 .. Len(input) + 1
                /\ \A i \in DOMAIN stack : /\ stack[i].rule \in Rules
                                           /\ stack[i].path \in DOMAIN code.parse[stack[i].rule].trie
                /\ Len(stack) <= MaxDepth

Accepted == result.status = "accepted"
Refused == result.status = "refused"
Consumed == SubSeq(input, 1, pos - 1)

\* What is accepted is a sentence of the alternative the tree names, and each
\* value is found under the name it was stored under, when no two alternatives
\* with the same types store under different names (recdec.cpp 523-601,
\* 911-949, 1003-1047).
SameNames(alts) ==
    \A i, j \in DOMAIN alts :
        LET s(k) == Stored(alts[k].parts)
        IN Signature(s(i)) = Signature(s(j)) => \A n \in DOMAIN s(i) : s(i)[n].store = s(j)[n].store
KeepsItsValues(node) == \A rv \in node.read : rv[1] \in DOMAIN node.members /\ node.members[rv[1]] = rv[2]
AcceptedIsDerived ==
    Accepted /\ RulesAreStored =>
        /\ \E alt \in ToSet(grammar[result.rule]) :
               alt.id = result.id /\ Consumed \in Derivable(Language, NamesOf(alt))
        /\ NamesAgree(grammar[result.rule]) /\ SameNames(grammar[result.rule]) => KeepsItsValues(result)

\* Of a grammar that one token of look ahead is enough for no sentence is
\* refused or cut short; a refusal names the rule and lists what would have
\* been accepted (recdec.cpp 523-601).
SentencesAreAccepted ==
    /\ Accepted \/ Refused =>
           (input \in Language[start] /\ RulesAreStored /\ LL1 => Accepted /\ Consumed = input)
    /\ Refused => LET error == code.errors[result.error]
                  IN /\ error.rule = result.by.rule
                     /\ error.depth = Len(result.by.path) + 1
                     /\ error.possible # {} /\ \A n \in error.possible : result.token \notin Starting(n)
=============================================================================
