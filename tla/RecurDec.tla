------------------------------ MODULE RecurDec ------------------------------
(***************************************************************************)
(* The generator of recursive descent parsers (recde/recdec.cpp): from the *)
(* grammar and its first sets it writes a parser, the classes of the trees *)
(* the parser builds, and visitors of the trees.                           *)
(*                                                                         *)
(* A name is a number, in the order of the strings.  The text of the       *)
(* output is abstracted to what it declares, defines and uses, and for     *)
(* the parser to the tries its nested branches are printed from.           *)
(***************************************************************************)
EXTENDS FirstSets, FiniteSets, SequencesExt

CONSTANTS NoValue   \* an inner node of a trie

ASSUME NumbersAssumption == Names \subseteq Nat \ {0} /\ NoValue \notin Nat

VARIABLES grammar,  \* for each rule its alternatives, in the order of equal_range
          code      \* what has been written

genVars == <<grammar, code>>

\* An alternative: its parts (the name, and the name it is stored under or "")
\* and the Id of the node it makes (endName of all its parts).
RulePart == [name : Names, store : STRING]
Alternative == [parts : Seq(RulePart) \ {<<>>}, id : Nat]
NamesOf(alt) == [i \in DOMAIN alt.parts |-> alt.parts[i].name]
EntriesOf(order) == FlattenSeq([i \in DOMAIN order |->
                        [j \in DOMAIN grammar[order[i]] |->
                            [name |-> order[i], front |-> grammar[order[i]][j].parts[1].name]]])

\* The grammar, and what of it is in the hash table in some order.
GrammarOK == /\ grammar \in [Rules -> Seq(Alternative) \ {<<>>}]
             /\ ToSet(entries) = UNION {{[name |-> r, front |-> grammar[r][i].parts[1].name] :
                                             i \in DOMAIN grammar[r]} : r \in Rules}

\* What a part is in C++: a Token, or a pointer to the class of its rule.
Token == 0
TypeOf(name) == IF name \in Rules THEN name ELSE Token
Signature(keys) == [i \in DOMAIN keys |-> TypeOf(keys[i].name)]
-----------------------------------------------------------------------------
(* Trie<RulePart,std::string>: two parts are the same key when they have the
   same name, and the first one inserted stays. *)
TrieOf(alts) ==
    LET With(p) == CHOOSE i \in DOMAIN alts :
                       /\ IsPrefix(p, NamesOf(alts[i]))
                       /\ \A j \in 1 .. i - 1 : ~IsPrefix(p, NamesOf(alts[j]))
        Whole(p) == {i \in DOMAIN alts : NamesOf(alts[i]) = p}
    IN [p \in UNION {Prefixes(NamesOf(alts[i])) : i \in DOMAIN alts} |->
           [store |-> IF p = <<>> THEN "" ELSE alts[With(p)].parts[Len(p)].store,
            value |-> IF Whole(p) = {} THEN NoValue
                      ELSE alts[CHOOSE i \in Whole(p) : \A j \in Whole(p) : i <= j].id]]

Children(trie, p) == {n \in Names : Append(p, n) \in DOMAIN trie}
Values(trie) == {p \in DOMAIN trie : trie[p].value # NoValue}

\* The parts that are stored, in their order.
Stored(parts) ==
    LET stored[n \in 0 .. Len(parts)] == IF n = 0 THEN <<>>
                                         ELSE IF parts[n].store = "" THEN stored[n - 1]
                                         ELSE Append(stored[n - 1], parts[n])
    IN stored[Len(parts)]

\* The stored parts on the way to a node: nameStack, and what
\* walkTrieConstructor collects.
StoredOn(trie, p) == Stored([n \in 1 .. Len(p) |-> [name |-> p[n], store |-> trie[SubSeq(p, 1, n)].store]])

\* The order in which a trie is walked: a node before its children, the
\* children by name; walkTrie writes a node's own error after its children.
Agree(p, q, n) == \A m \in 1 .. n - 1 : p[m] = q[m]
Less(p, q) == \E n \in 1 .. Len(q) : n <= Len(p) + 1 /\ Agree(p, q, n) /\ (n <= Len(p) => p[n] < q[n])
ChildrenFirst(p, q) ==
    \E n \in 1 .. Len(p) : n <= Len(q) + 1 /\ Agree(p, q, n) /\ (n <= Len(q) => p[n] < q[n])
InOrder(nodes, before) ==
    [i \in 1 .. Cardinality(nodes) |-> CHOOSE p \in nodes : Cardinality({q \in nodes : <<q, p>> \in before}) = i - 1]

\* The nodes of which walkTrie closes the branches with a throw.
Throwing(trie) ==
    LET nodes == {p \in DOMAIN trie : Children(trie, p) # {} /\ p \notin Values(trie)}
    IN InOrder(nodes, {e \in nodes \X nodes : ChildrenFirst(e[1], e[2])})

\* newErrorStuff(): the error of a node, with the names that could have come.
ErrorAt(rule, trie, p) == [rule |-> rule, part |-> IF p = <<>> THEN rule ELSE Last(p),
                           depth |-> Len(p) + 1, possible |-> Children(trie, p)]
NewErrors(rule, trie) == [i \in DOMAIN Throwing(trie) |-> ErrorAt(rule, trie, Throwing(trie)[i])]

\* Mutant: the last error comes first.
MutParseFunction(rule, trie) ==
    [trie |-> trie,
     throws |-> [p \in ToSet(Throwing(trie)) |->
                    IF Len(Throwing(trie)) < 2 THEN Len(code.errors) + 1
                    ELSE Len(code.errors) + (CHOOSE i \in DOMAIN Throwing(trie) : Throwing(trie)[i] # p)]]

\* parse<Rule>(): the nested branches of walkTrie, with the number of the error
\* at every throw.
ParseFunction(rule, trie) ==
    [trie |-> trie,
     throws |-> [p \in ToSet(Throwing(trie)) |->
                    Len(code.errors) + (CHOOSE i \in DOMAIN Throwing(trie) : Throwing(trie)[i] = p)]]
-----------------------------------------------------------------------------
(* The classes of the trees, genAst(). *)

\* The stored parts of each alternative of the trie.
ConstructorsOf(trie) == LET values == InOrder(Values(trie), {e \in Values(trie) \X Values(trie) : Less(e[1], e[2])})
                        IN [i \in DOMAIN values |-> StoredOn(trie, values[i])]

\* equal: one that agrees with all the others and has a token in common with
\* one of them.
Same(k, l) == TypeOf(k.name) = Token /\ TypeOf(l.name) = Token
Equal(it, others) ==
    /\ \A k \in ToSet(others) : /\ Len(it) = Len(k)
                                /\ \A i \in DOMAIN it : Same(it[i], k[i]) \/ it[i].name = k[i].name
    /\ \E k \in ToSet(others) : \E i \in DOMAIN it : Same(it[i], k[i])

\* The loop over the alternatives found leaves those out.
Minimized(store) ==
    LET kept[n \in 0 .. Len(store)] == IF n = 0 THEN <<>>
                                       ELSE IF store[n] = <<>> \/ Equal(store[n], kept[n - 1]) THEN kept[n - 1]
                                       ELSE Append(kept[n - 1], store[n])
    IN kept[Len(store)]

\* Mutant: constructors are told apart by the number of their parameters.
MutDistinct(minimized) ==
    LET written[n \in 0 .. Len(minimized)] ==
            IF n = 0 THEN <<>>
            ELSE IF \E w \in ToSet(written[n - 1]) : Len(w) = Len(minimized[n]) THEN written[n - 1]
            ELSE Append(written[n - 1], minimized[n])
    IN written[Len(minimized)]
\* dupCon: of the constructors with one signature only the first is written.
Distinct(minimized) ==
    LET written[n \in 0 .. Len(minimized)] ==
            IF n = 0 THEN <<>>
            ELSE IF \E w \in ToSet(written[n - 1]) : Signature(w) = Signature(minimized[n]) THEN written[n - 1]
            ELSE Append(written[n - 1], minimized[n])
    IN written[Len(minimized)]

\* allToStore: a std::set<RulePart>, in which a second part with the same name
\* finds no place; of the names they are stored under each is one member.
AllToStore(alts) ==
    LET places == {w \in UNION {{i} \X DOMAIN alts[i].parts : i \in DOMAIN alts} : alts[w[1]].parts[w[2]].store # ""}
        part(w) == alts[w[1]].parts[w[2]]
        Before(v, w) == v[1] < w[1] \/ (v[1] = w[1] /\ v[2] < w[2])
    IN {part(w) : w \in {x \in places : \A v \in places : Before(v, x) => part(v).name # part(x).name}}
MembersOf(alts) ==
    LET all == AllToStore(alts)
    IN [s \in {part.store : part \in all} |->
           TypeOf(Min({part.name : part \in {x \in all : x.store = s}}))]

\* moreEnumNames: the values of the enum of a rule.
EnumOf(alts) == {alts[i].id : i \in DOMAIN alts}

\* enumNames2: for each Id the stored parts of its alternative.
EnumNames2(alts) ==
    LET stored(i) == Stored(alts[i].parts)
    IN [id \in {alts[i].id : i \in {k \in DOMAIN alts : stored(k) # <<>>}} |->
           stored(CHOOSE i \in DOMAIN alts : alts[i].id = id)]

\* What the generated code takes from a node: the children acceptVisitor()
\* follows, the tokens the printing visitors show, and the children to which
\* DotVisitor draws an edge, which end at the first Id without one.
PartsOf(alts, kind, ids) == LET e == EnumNames2(alts)
                            IN {part \in UNION {ToSet(e[id]) : id \in ids} : part.name \in kind}
Ids2(alts) == DOMAIN EnumNames2(alts)
Followed(alts) == PartsOf(alts, Rules, Ids2(alts))
Shown(alts) == PartsOf(alts, Tokens, Ids2(alts))
Drawn(alts) == LET HasRule(id) == PartsOf(alts, Rules, {id}) # {}
               IN PartsOf(alts, Rules, {id \in Ids2(alts) :
                                            \A i \in Ids2(alts) : i <= id => HasRule(i)})
-----------------------------------------------------------------------------
(* What the headers declare and the sources define: class, member, rule and
   the overload. *)
Forms == {"", "const"}
Visits(class, rule) == {class} \X {"visit", "leave"} \X {rule} \X Forms

VisitorDecl(rule) == Visits("Visitor", rule)
VisitorDef(rule) == Visits("Visitor", rule)
LambdaDecl(rule) == Visits("LambdaVisitor", rule)
LambdaDef(rule) == Visits("LambdaVisitor", rule)
MultiDecl(rule) == Visits("MultiVisitor", rule)
MultiDef(rule) == Visits("MultiVisitor", rule)
OutDecl(rule) == Visits("StdOutVisitor", rule)
OutDef(rule) == Visits("StdOutVisitor", rule)
DotDecl(rule) == Visits("DotVisitor", rule)
DotVisitDef(rule) == {"DotVisitor"} \X {"visit"} \X {rule} \X Forms \cup {<<"DotVisitor", "leave", rule, "">>}
DotLeaveDef(rule) == {<<"DotVisitor", "leave", rule, "const">>}

\* Members that do not depend on the grammar.
Fixed(class, members) == {class} \X members \X {0} \X {""}
LambdaFixed == Fixed("LambdaVisitor", {"LambdaVisitor(f)", "LambdaVisitor(f,cf)"})
MultiFixed == Fixed("MultiVisitor", {"addVisitor", "getVisitor", "getVisitor const"})
OutFixed == Fixed("StdOutVisitor", {"StdOutVisitor", "makeIndent", "incrementIndent", "decrementIndent"})
DotFixed == Fixed("DotVisitor", {"DotVisitor", "~DotVisitor", "writeHeader"})
AstFixed == Fixed("AstNode", {"AstNode", "getId", "getParent", "getParent const", "setParent",
                              "getSymbolTable", "getSymbolTable const", "setSymbolTable"})
            \cup Fixed("", {"getNextAstId"})
AstFixedDef == AstFixed
ParserFixed == Fixed("Parser", {"Parser", "nextToken"})
ErrorFixed == Fixed("ParseException", {"ParseException", "what"}) \cup Fixed("ErrorType", {"ErrorType"})
GetError == Fixed("", {"getError"})

\* The constructors of a class, the one with nothing but the Id among them, the
\* getters, and what every class has.
ParserDecl(rule) == {<<"Parser", "lookAheadTest", rule, "Token">>, <<"Parser", "lookAheadTest", rule, "TokenType">>,
                     <<"Parser", "parse", rule, "">>}
ParserDef(rule) == ParserDecl(rule)
Constructors(rule, ctors) == {<<"Ast", "constructor", rule, Signature(c)>> : c \in ToSet(ctors) \cup {<<>>}}
ConstructorDecl(rule, ctors) == Constructors(rule, ctors)
ConstructorDef(rule, ctors) == Constructors(rule, ctors)
EnumOutput(rule) == {<<"", "operator<<", rule, "Enum">>, <<"Ast", "getRule", rule, "const">>}
Accept(rule) == {<<"Ast", "acceptVisitor", rule, form>> : form \in Forms}
Getters(rule, members) == {<<"Ast", "get", rule, <<m, form>>>> : m \in DOMAIN members, form \in Forms}
-----------------------------------------------------------------------------
GenInit == code = [declared |-> EmptyBag, defined |-> EmptyBag, errors |-> <<>>,
                   lookAhead |-> [r \in {} |-> {}], parse |-> [r \in {} |-> <<>>],
                   class |-> [r \in {} |-> <<>>]]

\* What is written ahead of the rules: for each its visitors, and what every
\* output begins with.
Ahead(r) == VisitorDecl(r) \cup LambdaDecl(r) \cup MultiDecl(r) \cup OutDecl(r) \cup DotDecl(r)
AheadDef(r) == VisitorDef(r) \cup LambdaDef(r)
AheadOf(rules) == UNION {Ahead(r) : r \in rules}
AheadDefOf(rules) == UNION {AheadDef(r) : r \in rules}
ForwardDecl(rules) == AheadOf(rules) \cup LambdaFixed \cup MultiFixed \cup OutFixed \cup DotFixed \cup AstFixed
ForwardDef(rules) == AheadDefOf(rules) \cup LambdaFixed \cup MultiFixed \cup OutFixed \cup DotFixed \cup AstFixedDef

\* genAstForwardDecl(): the headers and sources that need the names of the
\* rules only, each rule once.
GenAstForwardDecl ==
    /\ phase = "forward"
    /\ LET rules == {entries[i].name : i \in DOMAIN entries}
       IN code' = [code EXCEPT !.declared = @ (+) SetToBag(ForwardDecl(rules)) (+) SetToBag(ParserFixed),
                               !.defined = @ (+) SetToBag(ForwardDef(rules)) (+) SetToBag(ParserFixed)]
    /\ phase' = "rules"
    /\ UNCHANGED <<entries, first, changed, at, grammar>>

\* What has been written for each rule, and for one rule more.
WithRule(written, rule, new) == [r \in DOMAIN written \cup {rule} |-> IF r = rule THEN new ELSE written[r]]

\* genRules(start): look ahead test and parse function of a rule, the errors
\* its branches throw, and with genAst() its class.
GenRule(rule) ==
    LET alts == grammar[rule]
        trie == TrieOf(alts)
        ctors == Distinct(Minimized(ConstructorsOf(trie)))
        members == MembersOf(alts)
        shared == EnumOutput(rule) \cup Accept(rule) \cup Getters(rule, members)
    IN code' = [declared |-> code.declared (+) SetToBag(ParserDecl(rule) \cup shared
                                                            \cup ConstructorDecl(rule, ctors)),
                defined |-> code.defined (+) SetToBag(ParserDef(rule) \cup shared \cup ConstructorDef(rule, ctors)
                                                          \cup MultiDef(rule) \cup OutDef(rule)
                                                          \cup DotVisitDef(rule) \cup DotLeaveDef(rule)),
                errors |-> code.errors \o NewErrors(rule, trie),
                lookAhead |-> WithRule(code.lookAhead, rule, first[rule]),
                parse |-> WithRule(code.parse, rule, ParseFunction(rule, trie)),
                class |-> WithRule(code.class, rule,
                                   [constructors |-> ctors, members |-> members, enum |-> EnumOf(alts)])]

\* The loop of genRules(): a name that has been done is passed over.
GenRules ==
    /\ phase = "rules" /\ at <= Len(entries)
    /\ IF entries[at].name \in DOMAIN code.parse THEN code' = code ELSE GenRule(entries[at].name)
    /\ at' = at + 1
    /\ UNCHANGED <<entries, first, changed, phase, grammar>>

\* writeErrorStuff().
WriteErrorStuff ==
    /\ phase = "rules" /\ at > Len(entries)
    /\ code' = [code EXCEPT !.declared = @ (+) SetToBag(ErrorFixed \cup GetError),
                            !.defined = @ (+) SetToBag(ErrorFixed)]
    /\ phase' = "parse"
    /\ UNCHANGED <<entries, first, changed, at, grammar>>

Gen == GenAstForwardDecl \/ GenRules \/ WriteErrorStuff
-----------------------------------------------------------------------------
(* When the generated code is what the grammar means. *)

\* One rule's use of names: a part has one store name, a store name one type,
\* and parts that come after the same parts are stored alike.
StoredParts(alts) == {p \in UNION {ToSet(alts[i].parts) : i \in DOMAIN alts} : p.store # ""}
NamesAgree(alts) ==
    /\ \A p, q \in StoredParts(alts) : /\ p.name = q.name => p.store = q.store
                                       /\ p.store = q.store => TypeOf(p.name) = TypeOf(q.name)
    /\ \A i, j \in DOMAIN alts : \A n \in 1 .. Min({Len(alts[i].parts), Len(alts[j].parts)}) :
           SubSeq(NamesOf(alts[i]), 1, n) = SubSeq(NamesOf(alts[j]), 1, n)
               => alts[i].parts[n] = alts[j].parts[n]
    /\ \A i \in DOMAIN alts : \A m, n \in DOMAIN alts[i].parts :
           m # n /\ alts[i].parts[m].store # "" => alts[i].parts[m].store # alts[i].parts[n].store

\* Some token can begin the rule: of a rule that begins with itself in all its
\* alternatives the set stays empty, as that of a rule that begins with such a one.
SomeTokenBegins(rule) == \A F \in [Rules -> SUBSET Tokens] : Closed(F) => F[rule] # {}

\* The look ahead test of a rule returns something: of an empty set no more than
\* "return" is written, without a semicolon.  And its class: every node the parser
\* makes has its constructor, which sets members that are there, and the visitors
\* read members that are there.
Compiles(rule) ==
    LET class == code.class[rule]
        trie == code.parse[rule].trie
        Member(key) == key.store \in DOMAIN class.members /\ class.members[key.store] = TypeOf(key.name)
    IN /\ code.lookAhead[rule] # {}
       /\ \A p \in Values(trie) :
              /\ trie[p].value \in class.enum
              /\ StoredOn(trie, p) = <<>>
                     \/ \E c \in ToSet(class.constructors) : Signature(c) = Signature(StoredOn(trie, p))
       /\ \A c \in ToSet(class.constructors) :
              /\ \A i \in DOMAIN c : Member(c[i])
              /\ \A i, j \in DOMAIN c : c[i].store = c[j].store => i = j
       /\ \A part \in Followed(grammar[rule]) \cup Drawn(grammar[rule]) \cup Shown(grammar[rule]) : Member(part)

\* What is written of a rule compiles when its names agree and some token can
\* begin it, and the whole links: what a header declares a source defines, once,
\* but for getError() (recdec.cpp 491, 632-647, 847-1053).
GeneratedCodeFits ==
    phase = "parse" =>
        /\ \A r \in Rules : NamesAgree(grammar[r]) /\ SomeTokenBegins(r) => Compiles(r)
        /\ code.declared = code.defined (+) SetToBag(GetError)
        /\ \A member \in BagToSet(code.declared) : code.declared[member] = 1
=============================================================================
