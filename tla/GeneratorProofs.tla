--------------------------- MODULE GeneratorProofs ---------------------------
(***************************************************************************)
(* The generator of parsers and the parser it writes, for every grammar,   *)
(* every order in which the hash table hands out its alternatives and      *)
(* every input.                                                            *)
(*                                                                         *)
(* First sets.  The passes of computeFirstSet() compute the least closed   *)
(* family of sets.  That a set holds nothing it should not is kept by      *)
(* every round.  That it holds all it should is due to the last pass: no   *)
(* round of it has reported a change.  A round that adds a token to a set  *)
(* that exists reports none, so this needs a second fact: from the first   *)
(* pass on, which reports a change with its first set, every alternative's *)
(* own token is in.                                                        *)
(*                                                                         *)
(* Code.  What has been written of a rule is what its alternatives call    *)
(* for, and what is declared and defined are sets without a second copy,   *)
(* rule after rule.  A node of the trie of a rule begins an alternative;   *)
(* when the names agree what is stored on the way to it is what the        *)
(* alternative stores, whichever alternative that is.                      *)
(*                                                                         *)
(* What is accepted.  Each function that runs has taken a piece of the     *)
(* input, the pieces join to what has been taken, and a piece is derived   *)
(* from the names on the way to the function's node, without the last of   *)
(* them where it waits for the tree of another function.  Its arguments    *)
(* are those of the stored parts on that way.                              *)
(*                                                                         *)
(* What is not refused.  When the input is a sentence there is a place     *)
(* where each function will end, and up to it what is left of one of its   *)
(* alternatives: when one token tells the branches apart, the parser takes *)
(* the one that leads on.                                                  *)
(***************************************************************************)
EXTENDS GeneratedParser, Integers, FiniteSetTheorems, SequenceTheorems, WellFoundedInduction, TLAPS

\* The rest of the generator and the parser read the sets.
Generate == /\ phase # "first" /\ phase' \in {"forward", "rules", "parse"}
            /\ at' \in 1 .. Len(entries) + 1
            /\ UNCHANGED <<entries, first, changed>>

FirstSpec == /\ FirstInit /\ entries \in Seq(Entry)
             /\ [][ComputeFirstSet \/ Generate]_firstVars

Places == 1 .. Len(entries)

\* The rule of entry i has a set, with the token the entry begins with.
HasToken(i) == /\ entries[i].name \in Begun
               /\ entries[i].front \in Tokens => entries[i].front \in first[entries[i].name]

\* The set of the rule of entry i has what is known of the entry's first part.
HasKnown(i) == entries[i].name \in Begun /\ Known(entries[i].front) \subseteq first[entries[i].name]

Sound == \A F \in [Rules -> SUBSET Tokens] :
             Closed(F) => \A r \in Begun : first[r] \subseteq F[r]

Passed == phase = "first" =>
              /\ \A i \in 1 .. (at - 1) : HasToken(i)
              /\ Begun = {} \/ changed \/ \A i \in Places : HasToken(i)
              /\ ~changed => \A i \in 1 .. (at - 1) : HasKnown(i)

Ended == phase # "first" => \A i \in Places : HasToken(i) /\ HasKnown(i)

IInv == FirstTypeOK /\ Sound /\ Passed /\ Ended
-----------------------------------------------------------------------------
\* No set has been begun.
LEMMA InvInit == FirstInit /\ entries \in Seq(Entry) => IInv
  <1> SUFFICES ASSUME FirstInit, entries \in Seq(Entry) PROVE IInv
    OBVIOUS
  <1>1. Len(entries) \in Nat /\ DOMAIN first = {}
    BY DEF FirstInit
  <1>2. 1 \in 1 .. Len(entries) + 1 /\ 1 .. (1 - 1) = {}
    BY <1>1
  <1>3. FirstTypeOK
    BY <1>1, <1>2 DEF FirstInit, FirstTypeOK, Begun
  <1>4. Sound
    BY <1>1 DEF Sound, Begun
  <1>5. Passed /\ Ended
    BY <1>1, <1>2 DEF FirstInit, Passed, Ended, Begun
  <1> QED
    BY <1>3, <1>4, <1>5 DEF IInv

\* An entry is an alternative of a rule, and what is known of its first part
\* are tokens.
LEMMA EntryTyped ==
    ASSUME FirstTypeOK, NEW i \in Places
    PROVE  /\ entries[i].name \in Rules /\ entries[i].front \in Names
           /\ Known(entries[i].front) \subseteq Tokens
  <1>1. entries[i] \in Entry
    BY DEF FirstTypeOK, Places
  <1> QED
    BY <1>1 DEF FirstTypeOK, Entry, Names, Known, Begun

\* Whatever is known of an entry's first part is in every closed family.
LEMMA KnownIsSound ==
    ASSUME FirstTypeOK, Sound, NEW i \in Places,
           NEW F \in [Rules -> SUBSET Tokens], Closed(F)
    PROVE  Known(entries[i].front) \subseteq F[entries[i].name]
  <1>1. /\ entries[i].front \in Tokens => entries[i].front \in F[entries[i].name]
        /\ entries[i].front \notin Tokens => F[entries[i].front] \subseteq F[entries[i].name]
    BY DEF Closed, Places
  <1> QED
    BY <1>1 DEF Sound, Known

\* A round of a pass.
LEMMA RoundOK ==
    ASSUME IInv, VisitEntry
    PROVE  IInv'
  <1>1. PICK k \in Places : k = at
    BY DEF IInv, FirstTypeOK, VisitEntry, Places
  <1>2. /\ FirstTypeOK /\ Sound /\ Passed /\ phase = "first" /\ phase' = phase
        /\ entries' = entries /\ at' = k + 1
        /\ k \in Nat /\ Len(entries) \in Nat /\ Places' = Places
    BY <1>1 DEF IInv, FirstTypeOK, VisitEntry, Places
  <1> DEFINE name == entries[k].name
             front == entries[k].front
  <1>3. name \in Rules /\ front \in Names /\ Known(front) \subseteq Tokens
    BY <1>1, <1>2, EntryTyped
  <1>4. /\ Begun' = Begun \cup {name}
        /\ first' \in [Begun' -> SUBSET Tokens]
        /\ \A r \in Begun : r # name => first'[r] = first[r]
        /\ name \in Begun => first'[name] = first[name] \cup Known(front)
        /\ name \notin Begun => first'[name] = Known(front)
    <2>1. CASE name \in Begun
      BY <1>1, <1>2, <1>3, <2>1 DEF VisitEntry, Begun, FirstTypeOK
    <2>2. CASE name \notin Begun
      BY <1>1, <1>2, <1>3, <2>2 DEF VisitEntry, Begun, FirstTypeOK
    <2> QED
      BY <2>1, <2>2
  <1>5. /\ changed' \in BOOLEAN
        /\ changed => changed'
        /\ name \notin Begun => changed'
        /\ name \in Begun /\ front \in Rules /\ ~changed' => Known(front) \subseteq first[name]
    BY <1>1, <1>2 DEF VisitEntry, FirstTypeOK
  <1> HIDE DEF name, front
  <1>6. \A r \in Begun : r \in Begun' /\ first[r] \subseteq first'[r]
    BY <1>4
  <1>7. FirstTypeOK'
    <2>1. at' \in 1 .. Len(entries) + 1
      BY <1>1, <1>2 DEF Places
    <2>2. Begun' \subseteq Rules
      BY <1>1, <1>2, <1>3, <1>4 DEF FirstTypeOK
    <2>3. entries' \in Seq(Entry) /\ phase' \in {"first", "forward", "rules", "parse"}
      BY <1>2 DEF FirstTypeOK
    <2>4. first' \in [Begun' -> SUBSET Tokens] /\ at' \in 1 .. Len(entries') + 1
      BY <1>2, <1>4, <2>1
    <2>5. changed' \in BOOLEAN
      BY <1>5
    <2> QED
      BY <2>2, <2>3, <2>4, <2>5, Zenon DEF FirstTypeOK
  <1>8. Sound'
    <2> SUFFICES ASSUME NEW F \in [Rules -> SUBSET Tokens], Closed(F), NEW r \in Begun'
                 PROVE  first'[r] \subseteq F[r]
      BY <1>1, <1>2 DEF Sound, Closed
    <2>1. \A q \in Begun : first[q] \subseteq F[q]
      BY <1>1, <1>2 DEF Sound
    <2>2. Known(front) \subseteq F[name]
      BY <1>1, <1>2, KnownIsSound DEF name, front
    <2> QED
      BY <1>4, <2>1, <2>2
  <1>9. \A i \in Places : HasToken(i) => HasToken(i)'
    BY <1>1, <1>2, <1>6 DEF HasToken
  <1>10. HasToken(k)'
    BY <1>1, <1>2, <1>4 DEF HasToken, Known, name, front
  <1>11. \A i \in 1 .. k : i \in Places /\ (i \in 1 .. (k - 1) \/ i = k)
    BY <1>1, <1>2 DEF Places
  <1>12. \A i \in 1 .. k : HasToken(i)'
    BY <1>1, <1>2, <1>9, <1>10, <1>11 DEF Passed
  <1>13. changed' \/ \A i \in Places : HasToken(i)'
    <2>1. CASE name \notin Begun \/ changed
      BY <1>5, <2>1, Zenon
    <2>2. CASE name \in Begun /\ ~changed
      BY <1>2, <1>9, <2>2 DEF Passed
    <2> QED
      BY <2>1, <2>2, Zenon
  <1>14. ASSUME ~changed', NEW i \in 1 .. k PROVE HasKnown(i)'
    <2>1. ~changed /\ name \in Begun
      BY <1>5, <1>14, Zenon
    <2>2. ~changed /\ name \in Begun /\ HasToken(k)
      BY <1>1, <1>2, <2>1 DEF Passed
    <2>3. Known(front) \subseteq first[name]
      BY <1>1, <1>2, <1>3, <1>5, <1>14, <2>2 DEF HasToken, Known, Names, name, front
    <2>4. first' = first
      <3>1. first \in [Begun -> SUBSET Tokens] /\ Begun' = Begun
        BY <1>2, <1>4, <2>2 DEF FirstTypeOK
      <3>2. \A r \in Begun : first'[r] = first[r]
        BY <1>4, <2>2, <2>3
      <3> QED
        BY <1>4, <3>1, <3>2
    <2>5. HasKnown(k)
      BY <2>2, <2>3 DEF HasKnown, name, front
    <2>6. HasKnown(i)
      BY <1>1, <1>2, <1>11, <1>14, <2>2, <2>5 DEF Passed
    <2> QED
      BY <1>1, <1>2, <2>4, <2>6 DEF HasKnown, Known, Begun
  <1>15. Passed'
    <2>1. at' - 1 = k
      BY <1>2
    <2> QED
      BY <1>2, <1>12, <1>13, <1>14, <2>1 DEF Passed
  <1>16. Ended'
    BY <1>1, <1>2 DEF Ended
  <1> QED
    BY <1>7, <1>8, <1>15, <1>16 DEF IInv

\* The steps that leave the sets alone: the end of a pass, and the steps after
\* the last one.
LEMMA SameSetsOK ==
    ASSUME IInv, EndPass \/ Generate \/ UNCHANGED firstVars
    PROVE  IInv'
  <1>1. entries' = entries /\ first' = first /\ Begun' = Begun /\ Places' = Places
    BY DEF EndPass, Generate, firstVars, Begun, Places
  <1>2. Sound' /\ \A i : HasToken(i)' = HasToken(i) /\ HasKnown(i)' = HasKnown(i)
    BY <1>1 DEF IInv, Sound, Closed, HasToken, HasKnown, Known
  <1>3. Len(entries) \in Nat /\ at \in 1 .. Len(entries) + 1
    BY DEF IInv, FirstTypeOK
  <1>4. CASE EndPass
    <2>1. phase = "first" /\ 1 .. (at - 1) = Places /\ at' = 1 /\ ~changed'
      BY <1>3, <1>4 DEF EndPass, Places
    <2>2. /\ \A i \in Places : HasToken(i)
          /\ ~changed => \A i \in Places : HasKnown(i)
      BY <2>1 DEF IInv, Passed
    <2>3. phase' \in {"first", "forward"} /\ changed' \in BOOLEAN
      BY <1>4 DEF EndPass
    <2>4. FirstTypeOK'
      BY <1>1, <1>3, <2>1, <2>3 DEF IInv, FirstTypeOK
    <2>5. 1 .. (at' - 1) = {}
      BY <2>1
    <2>6. Passed'
      BY <1>1, <1>2, <2>2, <2>5 DEF Passed
    <2>7. Ended'
      BY <1>1, <1>2, <1>4, <2>2 DEF Ended, EndPass
    <2> QED
      BY <1>2, <2>4, <2>6, <2>7 DEF IInv
  <1>5. CASE Generate
    <2>1. FirstTypeOK'
      BY <1>1, <1>5 DEF Generate, IInv, FirstTypeOK
    <2>2. Passed' /\ Ended'
      BY <1>1, <1>2, <1>5 DEF Generate, IInv, Passed, Ended
    <2> QED
      BY <1>2, <2>1, <2>2 DEF IInv
  <1>6. CASE UNCHANGED firstVars
    <2>1. FirstTypeOK'
      BY <1>1, <1>6 DEF firstVars, IInv, FirstTypeOK
    <2>2. Passed' /\ Ended'
      BY <1>1, <1>2, <1>6 DEF firstVars, IInv, Passed, Ended
    <2> QED
      BY <1>2, <2>1, <2>2 DEF IInv
  <1> QED
    BY <1>4, <1>5, <1>6

\* The invariant of the passes.
LEMMA AlwaysInv == FirstSpec => []IInv
  <1>1. IInv /\ [ComputeFirstSet \/ Generate]_firstVars => IInv'
    BY RoundOK, SameSetsOK DEF ComputeFirstSet
  <1> QED
    BY <1>1, InvInit, PTL DEF FirstSpec

\* After the last pass the sets are closed.
LEMMA ClosedAtEnd ==
    ASSUME IInv, phase # "first"
    PROVE  Closed([r \in Rules |-> IF r \in Begun THEN first[r] ELSE {}])
  <1> DEFINE G == [r \in Rules |-> IF r \in Begun THEN first[r] ELSE {}]
  <1> SUFFICES ASSUME NEW i \in Places
               PROVE  IF entries[i].front \in Tokens THEN entries[i].front \in G[entries[i].name]
                      ELSE G[entries[i].front] \subseteq G[entries[i].name]
    BY DEF Closed, Places
  <1>1. /\ HasToken(i) /\ HasKnown(i) /\ entries[i].name \in Rules
        /\ entries[i].front \in Rules \cup Tokens
    BY EntryTyped DEF IInv, Ended, Names
  <1>2. G[entries[i].name] = first[entries[i].name]
    BY <1>1 DEF HasToken
  <1>3. CASE entries[i].front \in Tokens
    BY <1>1, <1>2, <1>3 DEF HasToken
  <1>4. CASE entries[i].front \notin Tokens
    <2>1. G[entries[i].front] = Known(entries[i].front)
      BY <1>1, <1>4 DEF Known
    <2> QED
      BY <1>1, <1>2, <1>4, <2>1 DEF HasKnown
  <1> QED
    BY <1>3, <1>4

\* The sets computed are the least that hold the first token of every
\* alternative, and at no time is there a token too many, for every grammar and
\* every order of its alternatives (recdec.cpp 15-61).
THEOREM LeastSets == FirstSpec => []FirstSetsAreLeast
  <1>1. IInv => FirstSetsAreLeast
    <2> SUFFICES ASSUME IInv PROVE FirstSetsAreLeast
      OBVIOUS
    <2>1. phase # "first" => \A i \in 1 .. Len(entries) : entries[i].name \in Begun
      BY DEF IInv, Ended, HasToken, Places
    <2> QED
      BY <2>1, ClosedAtEnd DEF IInv, Sound, FirstSetsAreLeast
  <1> QED
    BY <1>1, AlwaysInv, PTL
-----------------------------------------------------------------------------
\* A set of numbers has a least one.
LEMMA Least ==
    ASSUME NEW T \in SUBSET Nat, T # {}
    PROVE  \E n \in T : \A m \in T : n <= m
  <1>1. PICK n \in T : \A m \in T : ~(<<m, n>> \in OpToRel(<, Nat))
    BY WFMin, NatLessThanWellFounded
  <1>2. \A m \in T : ~(m < n)
    BY <1>1 DEF OpToRel
  <1> QED
    BY <1>2

\* A recursive function that goes along a sequence: h takes what has come
\* out of the sequence so far, and the next member.
FoldOf(f, h, base, s) ==
    f = [n \in 0 .. Len(s) |-> IF n = 0 THEN base ELSE h[<<f[n - 1], s[n]>>]]
Obeys(f, S, h, base, s, n) ==
    f[0] = base /\ \A m \in 1 .. n : f[m - 1] \in S => f[m] = h[<<f[m - 1], s[m]>>]
Step(h, S, X) == h \in [S \X X -> S]
Folded(h, base, s) == (CHOOSE f : FoldOf(f, h, base, s))[Len(s)]

\* The recursion has a solution, whatever the sequence.
LEMMA FoldExists ==
    ASSUME NEW S, NEW X, NEW base \in S, NEW h, Step(h, S, X), NEW s \in Seq(X)
    PROVE  \E f \in [0 .. Len(s) -> S] : FoldOf(f, h, base, s)
  <1> DEFINE Upto(k, f) == \A n \in 0 .. k : f[n] = IF n = 0 THEN base ELSE h[<<f[n - 1], s[n]>>]
             T == {k \in 0 .. Len(s) : ~\E f \in [0 .. Len(s) -> S] : Upto(k, f)}
  <1>1. Len(s) \in Nat /\ \A n \in 1 .. Len(s) : s[n] \in X
    OBVIOUS
  <1>0. T \in SUBSET Nat /\ T \subseteq 0 .. Len(s)
    BY <1>1
  <1>2. CASE T = {}
    <2>1. Len(s) \notin T /\ Len(s) \in 0 .. Len(s)
      BY <1>1, <1>2
    <2>2. PICK f \in [0 .. Len(s) -> S] : Upto(Len(s), f)
      BY <2>1
    <2>3. f = [n \in 0 .. Len(s) |-> IF n = 0 THEN base ELSE h[<<f[n - 1], s[n]>>]]
      BY <2>2
    <2> QED
      BY <2>3 DEF FoldOf
  <1>3. CASE T # {}
    <2>2. PICK k \in T : \A m \in T : k <= m
      BY <1>0, <1>3, Least
    <2>3. k # 0
      <3>1. Upto(0, [n \in 0 .. Len(s) |-> base])
        BY <1>1
      <3> QED
        BY <3>1
    <2>4. k \in 1 .. Len(s) /\ k - 1 \in 0 .. Len(s) /\ k - 1 \notin T
      <3> HIDE DEF T
      <3> QED
        BY <1>0, <1>1, <2>2, <2>3
    <2>5. PICK f \in [0 .. Len(s) -> S] : Upto(k - 1, f)
      BY <2>4
    <2> DEFINE g == [n \in 0 .. Len(s) |-> IF n = k THEN h[<<f[k - 1], s[k]>>] ELSE f[n]]
    <2>6. g \in [0 .. Len(s) -> S]
      <3>1. h[<<f[k - 1], s[k]>>] \in S
        BY <1>1, <2>4 DEF Step
      <3> QED
        BY <3>1
    <2>7. Upto(k, g)
      <3> SUFFICES ASSUME NEW n \in 0 .. k
                   PROVE  g[n] = IF n = 0 THEN base ELSE h[<<g[n - 1], s[n]>>]
        OBVIOUS
      <3>1. CASE n = k
        <4>1. k \in 0 .. Len(s) /\ k # 0 /\ k - 1 # k
          BY <1>1, <2>4
        <4>2. g[k] = h[<<f[k - 1], s[k]>>] /\ g[k - 1] = f[k - 1]
          BY <2>4, <4>1
        <4> QED
          BY <3>1, <4>1, <4>2
      <3>2. CASE n # k
        <4>1. n \in 0 .. (k - 1) /\ n \in 0 .. Len(s) /\ (n # 0 => n - 1 \in 0 .. Len(s) /\ n - 1 # k)
          BY <1>1, <2>4, <3>2
        <4>2. f[n] = IF n = 0 THEN base ELSE h[<<f[n - 1], s[n]>>]
          BY <2>5, <4>1
        <4> QED
          BY <3>2, <4>1, <4>2
      <3> QED
        BY <3>1, <3>2
    <2> QED
      BY <2>2, <2>6, <2>7
  <1> QED
    BY <1>2, <1>3

\* Whatever obeys the recursion is that function.
LEMMA FoldUnique ==
    ASSUME NEW S, NEW X, NEW base \in S, NEW h, Step(h, S, X), NEW s \in Seq(X),
           NEW f, FoldOf(f, h, base, s), NEW n \in Nat, n <= Len(s),
           NEW g, Obeys(g, S, h, base, s, n)
    PROVE  f[n] \in S /\ g[n] = f[n]
  <1> DEFINE T == {m \in 0 .. n : ~(f[m] \in S /\ g[m] = f[m])}
  <1>1. Len(s) \in Nat /\ \A m \in 1 .. Len(s) : s[m] \in X
    OBVIOUS
  <1>2. \A m \in 0 .. Len(s) : f[m] = IF m = 0 THEN base ELSE h[<<f[m - 1], s[m]>>]
    BY DEF FoldOf
  <1>10. 0 \in 0 .. Len(s)
    BY <1>1
  <1>11. f[0] = base
    BY <1>2, <1>10
  <1>3. SUFFICES ASSUME T # {} PROVE FALSE
    BY <1>1
  <1>4. T \in SUBSET Nat
    OBVIOUS
  <1>5. PICK k \in T : \A m \in T : k <= m
    BY <1>3, <1>4, Least
  <1>6. k # 0
    BY <1>11 DEF Obeys
  <1>7. k \in 1 .. n /\ k - 1 \in 0 .. n /\ k - 1 \notin T /\ k \in 1 .. Len(s) /\ k \in 0 .. Len(s)
    BY <1>1, <1>5, <1>6
  <1>8. f[k - 1] \in S /\ g[k - 1] = f[k - 1]
    BY <1>7
  <1>9. f[k] = h[<<f[k - 1], s[k]>>] /\ g[k] = h[<<f[k - 1], s[k]>>]
    BY <1>2, <1>6, <1>7, <1>8 DEF Obeys
  <1>12. h[<<f[k - 1], s[k]>>] \in S
    BY <1>1, <1>7, <1>8 DEF Step
  <1> QED
    BY <1>5, <1>9, <1>12

\* Its value at the end of the sequence is what CHOOSE denotes.
LEMMA FoldedIs ==
    ASSUME NEW S, NEW X, NEW base \in S, NEW h, Step(h, S, X), NEW s \in Seq(X),
           NEW f, FoldOf(f, h, base, s)
    PROVE  Folded(h, base, s) \in S /\ Folded(h, base, s) = f[Len(s)]
  <1> DEFINE g == CHOOSE e : FoldOf(e, h, base, s)
  <1>1. FoldOf(g, h, base, s) /\ Folded(h, base, s) = g[Len(s)] /\ Len(s) \in Nat
    BY DEF Folded
  <1> HIDE DEF g
  <1>2. \A m \in 0 .. Len(s) : g[m] = IF m = 0 THEN base ELSE h[<<g[m - 1], s[m]>>]
    BY <1>1 DEF FoldOf
  <1>5. 0 \in 0 .. Len(s) /\ \A m \in 1 .. Len(s) : m \in 0 .. Len(s) /\ m # 0
    BY <1>1
  <1>3. g[0] = base /\ \A m \in 1 .. Len(s) : g[m] = h[<<g[m - 1], s[m]>>]
    BY <1>2, <1>5
  <1>4. Obeys(g, S, h, base, s, Len(s)) /\ Len(s) <= Len(s)
    BY <1>1, <1>3 DEF Obeys
  <1>6. f[Len(s)] \in S /\ g[Len(s)] = f[Len(s)]
    BY <1>1, <1>4, FoldUnique
  <1> QED
    BY <1>1, <1>6

\* The law of a fold: nothing, and one member more.
Folds(h, base, S, X) ==
    /\ Folded(h, base, <<>>) = base
    /\ \A s \in Seq(X) : /\ Folded(h, base, s) \in S
                         /\ \A x \in X : Folded(h, base, Append(s, x)) = h[<<Folded(h, base, s), x>>]

\* A fold of the empty sequence, and of a sequence with one member more.
LEMMA FoldLaw ==
    ASSUME NEW S, NEW X, NEW base \in S, NEW h, Step(h, S, X)
    PROVE  Folds(h, base, S, X)
  <1>1. ASSUME NEW s \in Seq(X) PROVE Folded(h, base, s) \in S
    <2>1. PICK f \in [0 .. Len(s) -> S] : FoldOf(f, h, base, s)
      BY FoldExists
    <2> QED
      BY <2>1, FoldedIs
  <1>4. ASSUME NEW s \in Seq(X), Len(s) = 0 PROVE Folded(h, base, s) = base
    <2>1. PICK f \in [0 .. Len(s) -> S] : FoldOf(f, h, base, s)
      BY FoldExists
    <2>2. 0 \in 0 .. Len(s) /\ Folded(h, base, s) = f[0]
      BY <1>4, <2>1, FoldedIs
    <2>3. f[0] = base
      BY <2>1, <2>2 DEF FoldOf
    <2> QED
      BY <2>2, <2>3
  <1>2. Folded(h, base, <<>>) = base
    <2>1. <<>> \in Seq(X) /\ Len(<<>>) = 0
      OBVIOUS
    <2> QED
      BY <1>4, <2>1
  <1>3. ASSUME NEW s \in Seq(X), NEW x \in X
        PROVE  Folded(h, base, Append(s, x)) = h[<<Folded(h, base, s), x>>]
    <2> DEFINE t == Append(s, x)
    <2>1. /\ Len(s) \in Nat /\ t \in Seq(X) /\ Len(t) = Len(s) + 1 /\ t[Len(s) + 1] = x
          /\ \A m \in 1 .. Len(s) : t[m] = s[m]
      OBVIOUS
    <2> HIDE DEF t
    <2>2. PICK f \in [0 .. Len(s) -> S] : FoldOf(f, h, base, s)
      BY FoldExists
    <2>3. PICK g \in [0 .. Len(t) -> S] : FoldOf(g, h, base, t)
      BY <2>1, FoldExists
    <2>4. \A m \in 0 .. Len(t) : g[m] = IF m = 0 THEN base ELSE h[<<g[m - 1], t[m]>>]
      BY <2>3 DEF FoldOf
    <2>5. /\ 0 \in 0 .. Len(t)
          /\ \A m \in 1 .. Len(s) : m \in 0 .. Len(t) /\ m # 0 /\ t[m] = s[m]
      BY <2>1
    <2>6. g[0] = base /\ \A m \in 1 .. Len(s) : g[m] = h[<<g[m - 1], s[m]>>]
      BY <2>4, <2>5
    <2>7. Obeys(g, S, h, base, s, Len(s)) /\ Len(s) <= Len(s)
      BY <2>1, <2>6 DEF Obeys
    <2>8. g[Len(s)] = f[Len(s)]
      BY <2>1, <2>2, <2>7, FoldUnique
    <2>9. Len(t) \in 0 .. Len(t) /\ Len(t) # 0 /\ Len(t) - 1 = Len(s) /\ t[Len(t)] = x
      BY <2>1
    <2>10. g[Len(t)] = h[<<g[Len(s)], x>>]
      BY <2>4, <2>9
    <2>11. Folded(h, base, t) = g[Len(t)]
      BY <2>1, <2>3, FoldedIs
    <2>12. Folded(h, base, s) = f[Len(s)]
      BY <2>2, FoldedIs
    <2> QED
      BY <2>8, <2>10, <2>11, <2>12 DEF t
  <1> QED
    BY <1>1, <1>2, <1>3 DEF Folds
-----------------------------------------------------------------------------
\* Induction over numbers, of a set in place of a predicate.
LEMMA NatInduct ==
    ASSUME NEW T \in SUBSET Nat, 0 \in T, \A n \in T : n + 1 \in T
    PROVE  T = Nat
  <1> SUFFICES ASSUME Nat \ T # {} PROVE FALSE
    OBVIOUS
  <1>1. PICK n \in Nat \ T : \A m \in Nat \ T : n <= m
    BY Least
  <1>2. n # 0 /\ n - 1 \in Nat /\ n = (n - 1) + 1
    BY <1>1
  <1> QED
    BY <1>1, <1>2

\* Induction over sequences: the empty one, and one member more.
LEMMA SeqInduct ==
    ASSUME NEW X, NEW T \in SUBSET Seq(X), <<>> \in T, \A s \in T : \A x \in X : Append(s, x) \in T
    PROVE  T = Seq(X)
  <1> DEFINE N == {n \in Nat : \A s \in Seq(X) : Len(s) = n => s \in T}
  <1>1. 0 \in N
    BY EmptySeq
  <1>2. ASSUME NEW n \in N PROVE n + 1 \in N
    <2> SUFFICES ASSUME NEW s \in Seq(X), Len(s) = n + 1 PROVE s \in T
      OBVIOUS
    <2>1. s # <<>>
      BY EmptySeq
    <2>2. PICK r \in Seq(X), x \in X : s = Append(r, x)
      BY <2>1, SequenceEmptyOrAppend
    <2>3. Len(r) = n
      BY <2>2
    <2> QED
      BY <2>2, <2>3
  <1>3. N = Nat
    BY <1>1, <1>2, NatInduct
  <1>4. \A s \in Seq(X) : Len(s) \in Nat
    OBVIOUS
  <1> QED
    BY <1>3, <1>4
-----------------------------------------------------------------------------
StoredFun(f, parts) ==
    f = [n \in 0 .. Len(parts) |-> IF n = 0 THEN <<>>
                                   ELSE IF parts[n].store = "" THEN f[n - 1] ELSE Append(f[n - 1], parts[n])]

\* The parts that are stored, one part more (recdec.cpp 697-710).
LEMMA StoredLaw ==
    ASSUME NEW K
    PROVE  /\ Stored(<<>>) = <<>>
           /\ \A s \in Seq(K) : Stored(s) \in Seq(K)
           /\ \A s \in Seq(K) : \A x \in K :
                  Stored(Append(s, x)) = IF x.store = "" THEN Stored(s) ELSE Append(Stored(s), x)
  <1> DEFINE base == <<>>
             S == Seq(K)
             h == [w \in S \X K |-> IF w[2].store = "" THEN w[1] ELSE Append(w[1], w[2])]
  <1>1. base \in S
    OBVIOUS
  <1>2. \A v \in S, x \in K : (IF x.store = "" THEN v ELSE Append(v, x)) \in S
    <2>1. \A v \in S, x \in K : Append(v, x) \in S
      OBVIOUS
    <2> HIDE DEF S
    <2> QED
      BY <2>1
  <1>3. \A v \in S, x \in K : h[<<v, x>>] = IF x.store = "" THEN v ELSE Append(v, x)
    BY Zenon
  <1>4. Step(h, S, K)
    BY <1>2, Zenon DEF Step
  <1>5. base = <<>>
    OBVIOUS
  <1> HIDE DEF h, base, S
  <1>6. ASSUME NEW s \in Seq(K) PROVE Stored(s) = Folded(h, base, s)
    <2> DEFINE g == CHOOSE f : StoredFun(f, s)
    <2>1. Stored(s) = g[Len(s)]
      BY DEF Stored, StoredFun
    <2>2. PICK f \in [0 .. Len(s) -> S] : FoldOf(f, h, base, s)
      BY <1>1, <1>4, FoldExists
    <2>3. Len(s) \in Nat /\ \A n \in 1 .. Len(s) : s[n] \in K
      OBVIOUS
    <2>4. \A n \in 0 .. Len(s) : f[n] = IF n = 0 THEN base ELSE h[<<f[n - 1], s[n]>>]
      BY <2>2, Zenon DEF FoldOf
    <2>5. ASSUME NEW n \in 0 .. Len(s)
          PROVE  f[n] = IF n = 0 THEN base ELSE IF s[n].store = "" THEN f[n - 1] ELSE Append(f[n - 1], s[n])
      <3>1. CASE n = 0
        BY <2>4, <3>1, Zenon
      <3>2. CASE n # 0
        <4>1. n \in 1 .. Len(s) /\ n - 1 \in 0 .. Len(s)
          BY <2>3, <3>2
        <4>2. f[n] = h[<<f[n - 1], s[n]>>] /\ f[n - 1] \in S /\ s[n] \in K
          BY <2>2, <2>3, <2>4, <3>2, <4>1
        <4> QED
          BY <1>3, <3>2, <4>2, Zenon
      <3> QED
        BY <3>1, <3>2
    <2>6. StoredFun(f, s)
      BY <1>5, <2>2, <2>5, Zenon DEF StoredFun
    <2>7. StoredFun(g, s)
      BY <2>6, Zenon
    <2> HIDE DEF g
    <2>8. Obeys(g, S, h, base, s, Len(s)) /\ Len(s) <= Len(s)
      <3>1. \A n \in 0 .. Len(s) : g[n] = IF n = 0 THEN base ELSE IF s[n].store = "" THEN g[n - 1] ELSE Append(g[n - 1], s[n])
        BY <1>5, <2>7, Zenon DEF StoredFun
      <3>2. 0 \in 0 .. Len(s) /\ \A n \in 1 .. Len(s) : n \in 0 .. Len(s) /\ n # 0
        BY <2>3
      <3>3. g[0] = base
        BY <3>1, <3>2, Zenon
      <3>4. \A n \in 1 .. Len(s) : g[n - 1] \in S => g[n] = h[<<g[n - 1], s[n]>>]
        BY <1>3, <2>3, <3>1, <3>2, Zenon
      <3> QED
        BY <2>3, <3>3, <3>4 DEF Obeys
    <2>9. g[Len(s)] = f[Len(s)]
      BY <1>1, <1>4, <2>2, <2>3, <2>8, FoldUnique
    <2>10. Folded(h, base, s) = f[Len(s)]
      BY <1>1, <1>4, <2>2, FoldedIs
    <2> QED
      BY <2>1, <2>9, <2>10
  <1>7. Folds(h, base, S, K)
    BY <1>1, <1>4, FoldLaw
  <1>8. <<>> \in Seq(K) /\ \A s \in Seq(K) : \A x \in K : Append(s, x) \in Seq(K)
    OBVIOUS
  <1>9. Stored(<<>>) = base
    BY <1>6, <1>7, <1>8 DEF Folds
  <1>10. ASSUME NEW s \in Seq(K) PROVE Stored(s) \in S
    BY <1>6, <1>7 DEF Folds
  <1>11. ASSUME NEW s \in Seq(K), NEW x \in K
         PROVE  Stored(Append(s, x)) = IF x.store = "" THEN Stored(s) ELSE Append(Stored(s), x)
    <2>1. Stored(Append(s, x)) = h[<<Stored(s), x>>]
      BY <1>6, <1>7, <1>8 DEF Folds
    <2> QED
      BY <1>3, <1>10, <2>1, Zenon
  <1> QED
    BY <1>5, <1>9, <1>10, <1>11, Zenon DEF S

MinimizedFun(f, parts) ==
    f = [n \in 0 .. Len(parts) |-> IF n = 0 THEN <<>>
                                   ELSE IF parts[n] = <<>> \/ Equal(parts[n], f[n - 1]) THEN f[n - 1] ELSE Append(f[n - 1], parts[n])]

\* genAst()'s pass over the constructors found, one more (recdec.cpp 911-949).
LEMMA MinimizedLaw ==
    ASSUME NEW K
    PROVE  /\ Minimized(<<>>) = <<>>
           /\ \A s \in Seq(K) : Minimized(s) \in Seq(K)
           /\ \A s \in Seq(K) : \A x \in K :
                  Minimized(Append(s, x)) = IF x = <<>> \/ Equal(x, Minimized(s)) THEN Minimized(s) ELSE Append(Minimized(s), x)
  <1> DEFINE base == <<>>
             S == Seq(K)
             h == [w \in S \X K |-> IF w[2] = <<>> \/ Equal(w[2], w[1]) THEN w[1] ELSE Append(w[1], w[2])]
  <1>1. base \in S
    OBVIOUS
  <1>2. \A v \in S, x \in K : (IF x = <<>> \/ Equal(x, v) THEN v ELSE Append(v, x)) \in S
    <2>1. \A v \in S, x \in K : Append(v, x) \in S
      OBVIOUS
    <2> HIDE DEF S
    <2> QED
      BY <2>1
  <1>3. \A v \in S, x \in K : h[<<v, x>>] = IF x = <<>> \/ Equal(x, v) THEN v ELSE Append(v, x)
    BY Zenon
  <1>4. Step(h, S, K)
    BY <1>2, Zenon DEF Step
  <1>5. base = <<>>
    OBVIOUS
  <1> HIDE DEF h, base, S
  <1>6. ASSUME NEW s \in Seq(K) PROVE Minimized(s) = Folded(h, base, s)
    <2> DEFINE g == CHOOSE f : MinimizedFun(f, s)
    <2>1. Minimized(s) = g[Len(s)]
      BY DEF Minimized, MinimizedFun
    <2>2. PICK f \in [0 .. Len(s) -> S] : FoldOf(f, h, base, s)
      BY <1>1, <1>4, FoldExists
    <2>3. Len(s) \in Nat /\ \A n \in 1 .. Len(s) : s[n] \in K
      OBVIOUS
    <2>4. \A n \in 0 .. Len(s) : f[n] = IF n = 0 THEN base ELSE h[<<f[n - 1], s[n]>>]
      BY <2>2, Zenon DEF FoldOf
    <2>5. ASSUME NEW n \in 0 .. Len(s)
          PROVE  f[n] = IF n = 0 THEN base ELSE IF s[n] = <<>> \/ Equal(s[n], f[n - 1]) THEN f[n - 1] ELSE Append(f[n - 1], s[n])
      <3>1. CASE n = 0
        BY <2>4, <3>1, Zenon
      <3>2. CASE n # 0
        <4>1. n \in 1 .. Len(s) /\ n - 1 \in 0 .. Len(s)
          BY <2>3, <3>2
        <4>2. f[n] = h[<<f[n - 1], s[n]>>] /\ f[n - 1] \in S /\ s[n] \in K
          BY <2>2, <2>3, <2>4, <3>2, <4>1
        <4> QED
          BY <1>3, <3>2, <4>2, Zenon
      <3> QED
        BY <3>1, <3>2
    <2>6. MinimizedFun(f, s)
      BY <1>5, <2>2, <2>5, Zenon DEF MinimizedFun
    <2>7. MinimizedFun(g, s)
      BY <2>6, Zenon
    <2> HIDE DEF g
    <2>8. Obeys(g, S, h, base, s, Len(s)) /\ Len(s) <= Len(s)
      <3>1. \A n \in 0 .. Len(s) : g[n] = IF n = 0 THEN base ELSE IF s[n] = <<>> \/ Equal(s[n], g[n - 1]) THEN g[n - 1] ELSE Append(g[n - 1], s[n])
        BY <1>5, <2>7, Zenon DEF MinimizedFun
      <3>2. 0 \in 0 .. Len(s) /\ \A n \in 1 .. Len(s) : n \in 0 .. Len(s) /\ n # 0
        BY <2>3
      <3>3. g[0] = base
        BY <3>1, <3>2, Zenon
      <3>4. \A n \in 1 .. Len(s) : g[n - 1] \in S => g[n] = h[<<g[n - 1], s[n]>>]
        BY <1>3, <2>3, <3>1, <3>2, Zenon
      <3> QED
        BY <2>3, <3>3, <3>4 DEF Obeys
    <2>9. g[Len(s)] = f[Len(s)]
      BY <1>1, <1>4, <2>2, <2>3, <2>8, FoldUnique
    <2>10. Folded(h, base, s) = f[Len(s)]
      BY <1>1, <1>4, <2>2, FoldedIs
    <2> QED
      BY <2>1, <2>9, <2>10
  <1>7. Folds(h, base, S, K)
    BY <1>1, <1>4, FoldLaw
  <1>8. <<>> \in Seq(K) /\ \A s \in Seq(K) : \A x \in K : Append(s, x) \in Seq(K)
    OBVIOUS
  <1>9. Minimized(<<>>) = base
    BY <1>6, <1>7, <1>8 DEF Folds
  <1>10. ASSUME NEW s \in Seq(K) PROVE Minimized(s) \in S
    BY <1>6, <1>7 DEF Folds
  <1>11. ASSUME NEW s \in Seq(K), NEW x \in K
         PROVE  Minimized(Append(s, x)) = IF x = <<>> \/ Equal(x, Minimized(s)) THEN Minimized(s) ELSE Append(Minimized(s), x)
    <2>1. Minimized(Append(s, x)) = h[<<Minimized(s), x>>]
      BY <1>6, <1>7, <1>8 DEF Folds
    <2> QED
      BY <1>3, <1>10, <2>1, Zenon
  <1> QED
    BY <1>5, <1>9, <1>10, <1>11, Zenon DEF S

DistinctFun(f, parts) ==
    f = [n \in 0 .. Len(parts) |-> IF n = 0 THEN <<>>
                                   ELSE IF \E w \in ToSet(f[n - 1]) : Signature(w) = Signature(parts[n]) THEN f[n - 1] ELSE Append(f[n - 1], parts[n])]

\* Its second one (recdec.cpp 1000-1029).
LEMMA DistinctLaw ==
    ASSUME NEW K
    PROVE  /\ Distinct(<<>>) = <<>>
           /\ \A s \in Seq(K) : Distinct(s) \in Seq(K)
           /\ \A s \in Seq(K) : \A x \in K :
                  Distinct(Append(s, x)) = IF \E w \in ToSet(Distinct(s)) : Signature(w) = Signature(x) THEN Distinct(s) ELSE Append(Distinct(s), x)
  <1> DEFINE base == <<>>
             S == Seq(K)
             h == [e \in S \X K |-> IF \E w \in ToSet(e[1]) : Signature(w) = Signature(e[2]) THEN e[1] ELSE Append(e[1], e[2])]
  <1>1. base \in S
    OBVIOUS
  <1>2. \A v \in S, x \in K : (IF \E w \in ToSet(v) : Signature(w) = Signature(x) THEN v ELSE Append(v, x)) \in S
    <2>1. \A v \in S, x \in K : Append(v, x) \in S
      OBVIOUS
    <2> HIDE DEF S
    <2> QED
      BY <2>1
  <1>3. \A v \in S, x \in K : h[<<v, x>>] = IF \E w \in ToSet(v) : Signature(w) = Signature(x) THEN v ELSE Append(v, x)
    BY Zenon
  <1>4. Step(h, S, K)
    BY <1>2, Zenon DEF Step
  <1>5. base = <<>>
    OBVIOUS
  <1> HIDE DEF h, base, S
  <1>6. ASSUME NEW s \in Seq(K) PROVE Distinct(s) = Folded(h, base, s)
    <2> DEFINE g == CHOOSE f : DistinctFun(f, s)
    <2>1. Distinct(s) = g[Len(s)]
      BY DEF Distinct, DistinctFun
    <2>2. PICK f \in [0 .. Len(s) -> S] : FoldOf(f, h, base, s)
      BY <1>1, <1>4, FoldExists
    <2>3. Len(s) \in Nat /\ \A n \in 1 .. Len(s) : s[n] \in K
      OBVIOUS
    <2>4. \A n \in 0 .. Len(s) : f[n] = IF n = 0 THEN base ELSE h[<<f[n - 1], s[n]>>]
      BY <2>2, Zenon DEF FoldOf
    <2>5. ASSUME NEW n \in 0 .. Len(s)
          PROVE  f[n] = IF n = 0 THEN base ELSE IF \E w \in ToSet(f[n - 1]) : Signature(w) = Signature(s[n]) THEN f[n - 1] ELSE Append(f[n - 1], s[n])
      <3>1. CASE n = 0
        BY <2>4, <3>1, Zenon
      <3>2. CASE n # 0
        <4>1. n \in 1 .. Len(s) /\ n - 1 \in 0 .. Len(s)
          BY <2>3, <3>2
        <4>2. f[n] = h[<<f[n - 1], s[n]>>] /\ f[n - 1] \in S /\ s[n] \in K
          BY <2>2, <2>3, <2>4, <3>2, <4>1
        <4> QED
          BY <1>3, <3>2, <4>2, Zenon
      <3> QED
        BY <3>1, <3>2
    <2>6. DistinctFun(f, s)
      BY <1>5, <2>2, <2>5, Zenon DEF DistinctFun
    <2>7. DistinctFun(g, s)
      BY <2>6, Zenon
    <2> HIDE DEF g
    <2>8. Obeys(g, S, h, base, s, Len(s)) /\ Len(s) <= Len(s)
      <3>1. \A n \in 0 .. Len(s) : g[n] = IF n = 0 THEN base ELSE IF \E w \in ToSet(g[n - 1]) : Signature(w) = Signature(s[n]) THEN g[n - 1] ELSE Append(g[n - 1], s[n])
        BY <1>5, <2>7, Zenon DEF DistinctFun
      <3>2. 0 \in 0 .. Len(s) /\ \A n \in 1 .. Len(s) : n \in 0 .. Len(s) /\ n # 0
        BY <2>3
      <3>3. g[0] = base
        BY <3>1, <3>2, Zenon
      <3>4. \A n \in 1 .. Len(s) : g[n - 1] \in S => g[n] = h[<<g[n - 1], s[n]>>]
        BY <1>3, <2>3, <3>1, <3>2, Zenon
      <3> QED
        BY <2>3, <3>3, <3>4 DEF Obeys
    <2>9. g[Len(s)] = f[Len(s)]
      BY <1>1, <1>4, <2>2, <2>3, <2>8, FoldUnique
    <2>10. Folded(h, base, s) = f[Len(s)]
      BY <1>1, <1>4, <2>2, FoldedIs
    <2> QED
      BY <2>1, <2>9, <2>10
  <1>7. Folds(h, base, S, K)
    BY <1>1, <1>4, FoldLaw
  <1>8. <<>> \in Seq(K) /\ \A s \in Seq(K) : \A x \in K : Append(s, x) \in Seq(K)
    OBVIOUS
  <1>9. Distinct(<<>>) = base
    BY <1>6, <1>7, <1>8 DEF Folds
  <1>10. ASSUME NEW s \in Seq(K) PROVE Distinct(s) \in S
    BY <1>6, <1>7 DEF Folds
  <1>11. ASSUME NEW s \in Seq(K), NEW x \in K
         PROVE  Distinct(Append(s, x)) = IF \E w \in ToSet(Distinct(s)) : Signature(w) = Signature(x) THEN Distinct(s) ELSE Append(Distinct(s), x)
    <2>1. Distinct(Append(s, x)) = h[<<Distinct(s), x>>]
      BY <1>6, <1>7, <1>8 DEF Folds
    <2> QED
      BY <1>3, <1>10, <2>1, Zenon
  <1> QED
    BY <1>5, <1>9, <1>10, <1>11, Zenon DEF S

DerivableFun(f, F, parts) ==
    f = [n \in 0 .. Len(parts) |-> IF n = 0 THEN {<<>>}
                                   ELSE Cut({d[1] \o d[2] : d \in f[n - 1] \X Strings(F, parts[n])})]

\* What can be derived from no name, and from one name more.
LEMMA DerivableLaw ==
    ASSUME NEW F \in [Rules -> SUBSET Seq(Tokens)]
    PROVE  /\ Derivable(F, <<>>) = {<<>>}
           /\ \A s \in Seq(Names) : Derivable(F, s) \in SUBSET Seq(Tokens)
           /\ \A s \in Seq(Names) : \A x \in Names :
                  Derivable(F, Append(s, x)) = Cut({d[1] \o d[2] : d \in Derivable(F, s) \X Strings(F, x)})
  <1> DEFINE base == {<<>>}
             S == SUBSET Seq(Tokens)
             h == [w \in S \X Names |-> Cut({d[1] \o d[2] : d \in w[1] \X Strings(F, w[2])})]
  <1>1. base \in S
    OBVIOUS
  <1>2. \A v \in S, x \in Names : (Cut({d[1] \o d[2] : d \in v \X Strings(F, x)})) \in S
    <2>1. ASSUME NEW v \in S, NEW x \in Names
          PROVE  {d[1] \o d[2] : d \in v \X Strings(F, x)} \subseteq Seq(Tokens)
      <3>1. Strings(F, x) \subseteq Seq(Tokens)
        <4>1. CASE x \in Rules
          BY <4>1 DEF Strings
        <4>2. CASE x \notin Rules
          <5>1. x \in Tokens /\ Strings(F, x) = {<<x>>}
            BY <4>2 DEF Strings, Names
          <5> QED
            BY <5>1
        <4> QED
          BY <4>1, <4>2
      <3>2. \A a, b \in Seq(Tokens) : a \o b \in Seq(Tokens)
        OBVIOUS
      <3> QED
        BY <3>1, <3>2
    <2> QED
      BY <2>1 DEF Cut
  <1>3. \A v \in S, x \in Names : h[<<v, x>>] = Cut({d[1] \o d[2] : d \in v \X Strings(F, x)})
    BY Zenon
  <1>4. Step(h, S, Names)
    BY <1>2, Zenon DEF Step
  <1>5. base = {<<>>}
    OBVIOUS
  <1> HIDE DEF h, base, S
  <1>6. ASSUME NEW s \in Seq(Names) PROVE Derivable(F, s) = Folded(h, base, s)
    <2> DEFINE g == CHOOSE f : DerivableFun(f, F, s)
    <2>1. Derivable(F, s) = g[Len(s)]
      BY DEF Derivable, DerivableFun
    <2>2. PICK f \in [0 .. Len(s) -> S] : FoldOf(f, h, base, s)
      BY <1>1, <1>4, FoldExists
    <2>3. Len(s) \in Nat /\ \A n \in 1 .. Len(s) : s[n] \in Names
      OBVIOUS
    <2>4. \A n \in 0 .. Len(s) : f[n] = IF n = 0 THEN base ELSE h[<<f[n - 1], s[n]>>]
      BY <2>2, Zenon DEF FoldOf
    <2>5. ASSUME NEW n \in 0 .. Len(s)
          PROVE  f[n] = IF n = 0 THEN base ELSE Cut({d[1] \o d[2] : d \in f[n - 1] \X Strings(F, s[n])})
      <3>1. CASE n = 0
        BY <2>4, <3>1, Zenon
      <3>2. CASE n # 0
        <4>1. n \in 1 .. Len(s) /\ n - 1 \in 0 .. Len(s)
          BY <2>3, <3>2
        <4>2. f[n] = h[<<f[n - 1], s[n]>>] /\ f[n - 1] \in S /\ s[n] \in Names
          BY <2>2, <2>3, <2>4, <3>2, <4>1
        <4> QED
          BY <1>3, <3>2, <4>2, Zenon
      <3> QED
        BY <3>1, <3>2
    <2>6. DerivableFun(f, F, s)
      BY <1>5, <2>2, <2>5, Zenon DEF DerivableFun
    <2>7. DerivableFun(g, F, s)
      BY <2>6, Zenon
    <2> HIDE DEF g
    <2>8. Obeys(g, S, h, base, s, Len(s)) /\ Len(s) <= Len(s)
      <3>1. \A n \in 0 .. Len(s) : g[n] = IF n = 0 THEN base ELSE Cut({d[1] \o d[2] : d \in g[n - 1] \X Strings(F, s[n])})
        BY <1>5, <2>7, Zenon DEF DerivableFun
      <3>2. 0 \in 0 .. Len(s) /\ \A n \in 1 .. Len(s) : n \in 0 .. Len(s) /\ n # 0
        BY <2>3
      <3>3. g[0] = base
        BY <3>1, <3>2, Zenon
      <3>4. \A n \in 1 .. Len(s) : g[n - 1] \in S => g[n] = h[<<g[n - 1], s[n]>>]
        BY <1>3, <2>3, <3>1, <3>2, Zenon
      <3> QED
        BY <2>3, <3>3, <3>4 DEF Obeys
    <2>9. g[Len(s)] = f[Len(s)]
      BY <1>1, <1>4, <2>2, <2>3, <2>8, FoldUnique
    <2>10. Folded(h, base, s) = f[Len(s)]
      BY <1>1, <1>4, <2>2, FoldedIs
    <2> QED
      BY <2>1, <2>9, <2>10
  <1>7. Folds(h, base, S, Names)
    BY <1>1, <1>4, FoldLaw
  <1>8. <<>> \in Seq(Names) /\ \A s \in Seq(Names) : \A x \in Names : Append(s, x) \in Seq(Names)
    OBVIOUS
  <1>9. Derivable(F, <<>>) = base
    BY <1>6, <1>7, <1>8 DEF Folds
  <1>10. ASSUME NEW s \in Seq(Names) PROVE Derivable(F, s) \in S
    BY <1>6, <1>7 DEF Folds
  <1>11. ASSUME NEW s \in Seq(Names), NEW x \in Names
         PROVE  Derivable(F, Append(s, x)) = Cut({d[1] \o d[2] : d \in Derivable(F, s) \X Strings(F, x)})
    <2>1. Derivable(F, Append(s, x)) = h[<<Derivable(F, s), x>>]
      BY <1>6, <1>7, <1>8 DEF Folds
    <2> QED
      BY <1>3, <1>10, <2>1, Zenon
  <1> QED
    BY <1>5, <1>9, <1>10, <1>11, Zenon DEF S

LanguageFun(L) ==
    L = [d \in 0 .. MaxDepth |-> IF d = 0 THEN [r \in Rules |-> {}] ELSE Derived(L[d - 1])]

\* What holds when there are no sentences, and of what is derived from what it
\* holds of, holds of the sentences of the rules.
LEMMA LanguageInduct ==
    ASSUME NEW T, [r \in Rules |-> {}] \in T, \A F \in T : Derived(F) \in T
    PROVE  Language \in T
  <1> DEFINE base == [r \in Rules |-> {}]
             h == [w \in T \X Nat |-> Derived(w[1])]
             s == [d \in 1 .. MaxDepth |-> d]
             g == CHOOSE L : LanguageFun(L)
  <1>1. MaxDepth \in Nat
    BY InputsAssumption
  <1>2. base \in T /\ base = [r \in Rules |-> {}] /\ \A F \in T : Derived(F) \in T
    OBVIOUS
  <1>3. Step(h, T, Nat)
    BY <1>2, Zenon DEF Step
  <1>4. \A v \in T, x \in Nat : h[<<v, x>>] = Derived(v)
    BY Zenon
  <1>5. s \in Seq(Nat) /\ Len(s) = MaxDepth /\ \A d \in 1 .. MaxDepth : s[d] \in Nat
    BY <1>1
  <1> HIDE DEF h, base, s
  <1>6. Language = g[MaxDepth]
    BY DEF Language, LanguageFun
  <1>7. PICK f \in [0 .. Len(s) -> T] : FoldOf(f, h, base, s)
    BY <1>2, <1>3, <1>5, FoldExists
  <1>8. \A n \in 0 .. MaxDepth : f[n] = IF n = 0 THEN base ELSE h[<<f[n - 1], s[n]>>]
    BY <1>5, <1>7, Zenon DEF FoldOf
  <1>9. ASSUME NEW n \in 0 .. MaxDepth
        PROVE  f[n] = IF n = 0 THEN base ELSE Derived(f[n - 1])
    <2>1. CASE n = 0
      BY <1>8, <2>1, Zenon
    <2>2. CASE n # 0
      <3>1. n \in 1 .. MaxDepth /\ n - 1 \in 0 .. MaxDepth
        BY <1>1, <2>2
      <3>2. f[n] = h[<<f[n - 1], s[n]>>] /\ f[n - 1] \in T /\ s[n] \in Nat
        BY <1>5, <1>7, <1>8, <2>2, <3>1
      <3> QED
        BY <1>4, <2>2, <3>2, Zenon
    <2> QED
      BY <2>1, <2>2
  <1>10. LanguageFun(f)
    BY <1>2, <1>5, <1>7, <1>9, Zenon DEF LanguageFun
  <1>11. LanguageFun(g)
    BY <1>10, Zenon
  <1> HIDE DEF g
  <1>12. Obeys(g, T, h, base, s, Len(s)) /\ Len(s) <= Len(s)
    <2>1. \A n \in 0 .. MaxDepth : g[n] = IF n = 0 THEN base ELSE Derived(g[n - 1])
      BY <1>2, <1>11, Zenon DEF LanguageFun
    <2>2. 0 \in 0 .. MaxDepth /\ \A n \in 1 .. MaxDepth : n \in 0 .. MaxDepth /\ n # 0
      BY <1>1
    <2>3. g[0] = base
      BY <2>1, <2>2, Zenon
    <2>4. \A n \in 1 .. Len(s) : g[n - 1] \in T => g[n] = h[<<g[n - 1], s[n]>>]
      BY <1>4, <1>5, <2>1, <2>2, Zenon
    <2> QED
      BY <1>1, <1>5, <2>3, <2>4 DEF Obeys
  <1>13. f[Len(s)] \in T /\ g[Len(s)] = f[Len(s)]
    BY <1>1, <1>2, <1>3, <1>5, <1>7, <1>12, FoldUnique
  <1> QED
    BY <1>5, <1>6, <1>13
-----------------------------------------------------------------------------
\* The members of a sequence that has grown.
LEMMA AppendSet ==
    ASSUME NEW K, NEW s \in Seq(K), NEW x \in K
    PROVE  /\ ToSet(Append(s, x)) = ToSet(s) \cup {x} /\ ToSet(<<>>) = {}
           /\ ToSet(s) \subseteq K
  <1>1. /\ Len(s) \in Nat /\ Len(Append(s, x)) = Len(s) + 1 /\ DOMAIN s = 1 .. Len(s)
        /\ DOMAIN Append(s, x) = 1 .. (Len(s) + 1) /\ Append(s, x)[Len(s) + 1] = x
        /\ \A i \in 1 .. Len(s) : Append(s, x)[i] = s[i] /\ s[i] \in K
    OBVIOUS
  <1>2. DOMAIN <<>> = {}
    OBVIOUS
  <1> QED
    BY <1>1, <1>2 DEF ToSet

\* What is stored of a sequence of parts.
Apart(s) == \A m, n \in 1 .. Len(s) : m # n /\ s[m].store # "" => s[m].store # s[n].store
OnceEach(s) == \A m, n \in 1 .. Len(s) : s[m].store = s[n].store => m = n

\* Stored() keeps the parts with a store name, and no others.
LEMMA StoredSet ==
    ASSUME NEW K, NEW s \in Seq(K)
    PROVE  ToSet(Stored(s)) = {x \in ToSet(s) : x.store # ""}
  <1> DEFINE T == {q \in Seq(K) : ToSet(Stored(q)) = {x \in ToSet(q) : x.store # ""}}
  <1>1. <<>> \in T
    <2>1. ToSet(<<>>) = {}
      BY DEF ToSet
    <2> QED
      BY <2>1, StoredLaw, EmptySeq
  <1>3. T \in SUBSET Seq(K)
    OBVIOUS
  <1>4. \A q \in T : ToSet(Stored(q)) = {y \in ToSet(q) : y.store # ""}
    OBVIOUS
  <1>5. \A q \in Seq(K) : ToSet(Stored(q)) = {y \in ToSet(q) : y.store # ""} => q \in T
    OBVIOUS
  <1> HIDE DEF T
  <1>2. ASSUME NEW q \in T, NEW x \in K PROVE Append(q, x) \in T
    <2>1. q \in Seq(K) /\ Append(q, x) \in Seq(K)
      BY <1>3, AppendProperties
    <2>2. ToSet(Append(q, x)) = ToSet(q) \cup {x}
      BY <2>1, AppendSet
    <2>3. Stored(Append(q, x)) = (IF x.store = "" THEN Stored(q) ELSE Append(Stored(q), x)) /\ Stored(q) \in Seq(K)
      BY <2>1, StoredLaw
    <2>4. ToSet(Stored(q)) = {y \in ToSet(q) : y.store # ""}
      BY <1>4
    <2>5. ToSet(Append(Stored(q), x)) = ToSet(Stored(q)) \cup {x}
      <3> DEFINE v == Stored(q)
      <3>1. v \in Seq(K)
        BY <2>3
      <3> HIDE DEF v
      <3>2. ToSet(Append(v, x)) = ToSet(v) \cup {x}
        BY <3>1, AppendSet
      <3> QED
        BY <3>2 DEF v
    <2>6. ToSet(Stored(Append(q, x))) = {y \in ToSet(Append(q, x)) : y.store # ""}
      <3>1. CASE x.store = ""
        BY <2>2, <2>3, <2>4, <3>1
      <3>2. CASE x.store # ""
        BY <2>2, <2>3, <2>4, <2>5, <3>2
      <3> QED
        BY <3>1, <3>2
    <2> QED
      BY <1>5, <2>1, <2>6
  <1>6. T = Seq(K)
    BY <1>1, <1>2, <1>3, SeqInduct
  <1> QED
    BY <1>4, <1>6

\* Parts of different store names stay so.
LEMMA StoredApart ==
    ASSUME NEW K, NEW s \in Seq(K), Apart(s)
    PROVE  OnceEach(Stored(s))
  <1> DEFINE T == {q \in Seq(K) : Apart(q) => OnceEach(Stored(q))}
  <1>1. <<>> \in T
    <2>1. Stored(<<>>) = <<>>
      BY StoredLaw
    <2>3. 1 .. Len(<<>>) = {}
      OBVIOUS
    <2>2. OnceEach(Stored(<<>>))
      BY <2>1, <2>3 DEF OnceEach
    <2> QED
      BY <2>2
  <1>2. ASSUME NEW q \in T, NEW x \in K PROVE Append(q, x) \in T
    <2> DEFINE r == Append(q, x)
    <2>1. /\ q \in Seq(K) /\ r \in Seq(K) /\ Len(q) \in Nat /\ Len(r) = Len(q) + 1
          /\ r[Len(q) + 1] = x /\ \A i \in 1 .. Len(q) : r[i] = q[i]
      OBVIOUS
    <2>2. Stored(r) = (IF x.store = "" THEN Stored(q) ELSE Append(Stored(q), x)) /\ Stored(q) \in Seq(K)
      BY <2>1, StoredLaw
    <2>3. SUFFICES ASSUME Apart(r) PROVE OnceEach(Stored(r))
      BY <2>1
    <2> HIDE DEF r
    <2>4. Apart(q)
      <3>1. \A i \in 1 .. Len(q) : i \in 1 .. Len(r) /\ r[i] = q[i]
        BY <2>1
      <3> QED
        BY <2>3, <3>1, Zenon DEF Apart
    <2>5. OnceEach(Stored(q))
      BY <2>1, <2>4
    <2>6. CASE x.store = ""
      BY <2>2, <2>5, <2>6
    <2>7. CASE x.store # ""
      <3> DEFINE u == Stored(q)
      <3>5. u \in Seq(K)
        BY <2>2
      <3>6. Stored(r) = Append(u, x)
        BY <2>2, <2>7
      <3>4. ToSet(u) = {y \in ToSet(q) : y.store # ""}
        BY <2>1, StoredSet
      <3> HIDE DEF u
      <3>0. u \in Seq(K) /\ DOMAIN u = 1 .. Len(u) /\ Stored(r) = Append(u, x)
        BY <3>5, <3>6
      <3>1. ASSUME NEW m \in 1 .. Len(u) PROVE u[m].store # x.store
        <4>1. u[m] \in ToSet(u)
          BY <3>0 DEF ToSet
        <4>2. u[m] \in ToSet(q) /\ u[m].store # ""
          BY <3>4, <4>1
        <4>6. DOMAIN q = 1 .. Len(q)
          BY <2>1
        <4>3. PICK n \in 1 .. Len(q) : u[m] = q[n]
          BY <4>2, <4>6, Zenon DEF ToSet
        <4>4. n \in 1 .. Len(r) /\ Len(q) + 1 \in 1 .. Len(r) /\ n # Len(q) + 1
          BY <2>1, <4>3
        <4>5. r[n].store # r[Len(q) + 1].store
          BY <2>1, <2>3, <4>2, <4>3, <4>4 DEF Apart
        <4> QED
          BY <2>1, <4>3, <4>5
      <3>2. /\ Len(u) \in Nat /\ Stored(r) = Append(u, x) /\ Len(Append(u, x)) = Len(u) + 1
            /\ Append(u, x)[Len(u) + 1] = x /\ \A i \in 1 .. Len(u) : Append(u, x)[i] = u[i]
        BY <3>0
      <3>3. \A m, n \in 1 .. Len(u) : u[m].store = u[n].store => m = n
        BY <2>5 DEF OnceEach, u
      <3> QED
        BY <3>1, <3>2, <3>3 DEF OnceEach
    <2> QED
      BY <2>6, <2>7
  <1>3. T \in SUBSET Seq(K)
    OBVIOUS
  <1> HIDE DEF T
  <1>4. T = Seq(K)
    BY <1>1, <1>2, <1>3, SeqInduct
  <1> QED
    BY <1>4 DEF T
-----------------------------------------------------------------------------
Keys == Seq(RulePart)

\* Of the constructors found each that has parameters has one of its signature
\* among those that are written, and none is written that was not found.
LEMMA MinimizedSet ==
    ASSUME NEW s \in Seq(Keys)
    PROVE  /\ Minimized(s) \in Seq(Keys) /\ ToSet(Minimized(s)) \subseteq ToSet(s)
           /\ \A x \in ToSet(s) : x = <<>> \/ \E w \in ToSet(Minimized(s)) : Signature(w) = Signature(x)
  <1> DEFINE Good(q) == /\ ToSet(Minimized(q)) \subseteq ToSet(q)
                        /\ \A x \in ToSet(q) : x = <<>> \/ \E w \in ToSet(Minimized(q)) : Signature(w) = Signature(x)
             T == {q \in Seq(Keys) : Good(q)}
  <1>1. <<>> \in T
    <2>1. ToSet(<<>>) = {}
      BY DEF ToSet
    <2>2. <<>> \in Seq(Keys) /\ Minimized(<<>>) = <<>>
      BY MinimizedLaw
    <2> QED
      BY <2>1, <2>2
  <1>2. ASSUME NEW q \in T, NEW x \in Keys PROVE Append(q, x) \in T
    <2> DEFINE r == Append(q, x)
               u == Minimized(q)
    <2>1. q \in Seq(Keys) /\ r \in Seq(Keys) /\ Good(q)
      OBVIOUS
    <2>2. ToSet(r) = ToSet(q) \cup {x}
      BY <2>1, AppendSet
    <2>3. Minimized(r) = (IF x = <<>> \/ Equal(x, u) THEN u ELSE Append(u, x)) /\ u \in Seq(Keys)
      BY <2>1, MinimizedLaw
    <2>4. ToSet(u) \subseteq ToSet(Minimized(r)) /\ ToSet(Minimized(r)) \subseteq ToSet(u) \cup {x}
      <3>1. ToSet(Append(u, x)) = ToSet(u) \cup {x}
        BY <2>3, AppendSet
      <3> QED
        BY <2>3, <3>1
    <2>5. x = <<>> \/ \E w \in ToSet(Minimized(r)) : Signature(w) = Signature(x)
      <3>1. CASE x = <<>>
        BY <3>1
      <3>2. CASE x # <<>> /\ ~Equal(x, u)
        <4>1. x \in ToSet(Minimized(r))
          BY <2>3, <3>2, AppendSet
        <4> QED
          BY <4>1
      <3>3. CASE Equal(x, u)
        <4>1. PICK k \in ToSet(u) : Len(x) = Len(k) /\ \A i \in DOMAIN x : Same(x[i], k[i]) \/ x[i].name = k[i].name
          BY <3>3, Zenon DEF Equal
        <4>2. k \in Keys
          BY <2>3, <4>1 DEF ToSet
        <4>3. DOMAIN x = 1 .. Len(x) /\ DOMAIN k = 1 .. Len(k)
          BY <4>2 DEF Keys
        <4>4. \A i \in DOMAIN x : TypeOf(x[i].name) = TypeOf(k[i].name)
          BY <4>1, Zenon DEF Same
        <4>5. Signature(k) = Signature(x)
          BY <4>1, <4>3, <4>4 DEF Signature
        <4> QED
          BY <2>4, <4>1, <4>5
      <3> QED
        BY <3>1, <3>2, <3>3
    <2> HIDE DEF r, u
    <2>6. Good(r)
      BY <2>1, <2>2, <2>4, <2>5 DEF u
    <2> QED
      BY <2>1, <2>6 DEF r
  <1>3. T \in SUBSET Seq(Keys)
    OBVIOUS
  <1> HIDE DEF T
  <1>4. T = Seq(Keys)
    BY <1>1, <1>2, <1>3, SeqInduct
  <1>5. s \in T
    BY <1>4
  <1>6. Minimized(s) \in Seq(Keys)
    BY MinimizedLaw
  <1> QED
    BY <1>5, <1>6 DEF T

\* Neither does the second pass lose a signature.
LEMMA DistinctSet ==
    ASSUME NEW s \in Seq(Keys)
    PROVE  /\ Distinct(s) \in Seq(Keys) /\ ToSet(Distinct(s)) \subseteq ToSet(s)
           /\ \A x \in ToSet(s) : \E w \in ToSet(Distinct(s)) : Signature(w) = Signature(x)
  <1> DEFINE Good(q) == /\ ToSet(Distinct(q)) \subseteq ToSet(q)
                        /\ \A x \in ToSet(q) : \E w \in ToSet(Distinct(q)) : Signature(w) = Signature(x)
             T == {q \in Seq(Keys) : Good(q)}
  <1>1. <<>> \in T
    <2>1. ToSet(<<>>) = {}
      BY DEF ToSet
    <2>2. <<>> \in Seq(Keys) /\ Distinct(<<>>) = <<>>
      BY DistinctLaw
    <2> QED
      BY <2>1, <2>2
  <1>2. ASSUME NEW q \in T, NEW x \in Keys PROVE Append(q, x) \in T
    <2> DEFINE r == Append(q, x)
               u == Distinct(q)
    <2>1. q \in Seq(Keys) /\ r \in Seq(Keys) /\ Good(q)
      OBVIOUS
    <2>2. ToSet(r) = ToSet(q) \cup {x}
      BY <2>1, AppendSet
    <2>3. Distinct(r) = (IF \E w \in ToSet(u) : Signature(w) = Signature(x) THEN u ELSE Append(u, x)) /\ u \in Seq(Keys)
      BY <2>1, DistinctLaw
    <2>4. ToSet(Append(u, x)) = ToSet(u) \cup {x}
      BY <2>3, AppendSet
    <2>5. /\ ToSet(u) \subseteq ToSet(Distinct(r)) /\ ToSet(Distinct(r)) \subseteq ToSet(u) \cup {x}
          /\ \E w \in ToSet(Distinct(r)) : Signature(w) = Signature(x)
      <3>1. CASE \E w \in ToSet(u) : Signature(w) = Signature(x)
        BY <2>3, <3>1
      <3>2. CASE ~\E w \in ToSet(u) : Signature(w) = Signature(x)
        BY <2>3, <2>4, <3>2
      <3> QED
        BY <3>1, <3>2
    <2> HIDE DEF r, u
    <2>6. Good(r)
      BY <2>1, <2>2, <2>5 DEF u
    <2> QED
      BY <2>1, <2>6 DEF r
  <1>3. T \in SUBSET Seq(Keys)
    OBVIOUS
  <1> HIDE DEF T
  <1>4. T = Seq(Keys)
    BY <1>1, <1>2, <1>3, SeqInduct
  <1>5. s \in T
    BY <1>4
  <1>6. Distinct(s) \in Seq(Keys)
    BY DistinctLaw
  <1> QED
    BY <1>5, <1>6 DEF T
-----------------------------------------------------------------------------
\* p begins the alternative.
Begins(p, alt) == Len(p) <= Len(alt.parts) /\ \A n \in 1 .. Len(p) : alt.parts[n].name = p[n]

\* The names of an alternative, part by part (recdec.cpp 63-72).
LEMMA NamesOfAlternative ==
    ASSUME NEW alt \in Alternative
    PROVE  /\ alt.parts \in Seq(RulePart) /\ alt.parts # <<>> /\ alt.id \in Nat
           /\ Len(alt.parts) \in Nat \ {0} /\ \A n \in 1 .. Len(alt.parts) : alt.parts[n] \in RulePart
           /\ NamesOf(alt) \in Seq(Names) /\ Len(NamesOf(alt)) = Len(alt.parts)
           /\ \A n \in 1 .. Len(alt.parts) : NamesOf(alt)[n] = alt.parts[n].name
  <1>1. alt.parts \in Seq(RulePart) /\ alt.parts # <<>> /\ alt.id \in Nat
    BY DEF Alternative
  <1>2. Len(alt.parts) \in Nat \ {0} /\ \A n \in 1 .. Len(alt.parts) : alt.parts[n] \in RulePart
    BY <1>1, EmptySeq
  <1>3. NamesOf(alt) = [n \in 1 .. Len(alt.parts) |-> alt.parts[n].name]
    BY <1>1 DEF NamesOf
  <1>4. \A n \in 1 .. Len(alt.parts) : alt.parts[n].name \in Names
    BY <1>2 DEF RulePart
  <1>5. NamesOf(alt) \in Seq(Names) /\ Len(NamesOf(alt)) = Len(alt.parts)
    BY <1>2, <1>3, <1>4, IsASeq
  <1> QED
    BY <1>1, <1>2, <1>3, <1>5

\* Prefixes of those names, member by member.
LEMMA PrefixBegins ==
    ASSUME NEW alt \in Alternative
    PROVE  /\ Prefixes(NamesOf(alt)) = {p \in Seq(Names) : Begins(p, alt)}
           /\ \A p \in Seq(Names) : IsPrefix(p, NamesOf(alt)) <=> Begins(p, alt)
           /\ \A p \in Seq(Names) : NamesOf(alt) = p <=> Begins(p, alt) /\ Len(p) = Len(alt.parts)
  <1> DEFINE names == NamesOf(alt)
             L == Len(alt.parts)
  <1>1. /\ names \in Seq(Names) /\ Len(names) = L /\ L \in Nat \ {0}
        /\ \A n \in 1 .. L : names[n] = alt.parts[n].name
    BY NamesOfAlternative
  <1> HIDE DEF names, L
  <1>2. \A l \in 0 .. L : /\ SubSeq(names, 1, l) \in Seq(Names) /\ Len(SubSeq(names, 1, l)) = l
                          /\ \A n \in 1 .. l : SubSeq(names, 1, l)[n] = names[n]
    BY <1>1, SubSeqProperties
  <1>3. ASSUME NEW p \in Seq(Names), Begins(p, alt)
        PROVE  Len(p) \in 0 .. L /\ p = SubSeq(names, 1, Len(p))
    <2>1. Len(p) \in 0 .. L /\ \A n \in 1 .. Len(p) : n \in 1 .. L /\ names[n] = p[n]
      BY <1>1, <1>3 DEF Begins, L
    <2> QED
      BY <1>2, <2>1, SeqEqual
  <1>4. ASSUME NEW l \in 0 .. L PROVE SubSeq(names, 1, l) \in Seq(Names) /\ Begins(SubSeq(names, 1, l), alt)
    <2>1. \A n \in 1 .. l : n \in 1 .. L
      BY <1>1
    <2> QED
      BY <1>1, <1>2, <2>1 DEF Begins, L
  <1>5. Prefixes(names) = {p \in Seq(Names) : Begins(p, alt)}
    BY <1>1, <1>3, <1>4 DEF Prefixes
  <1>6. ASSUME NEW p \in Seq(Names) PROVE IsPrefix(p, names) <=> Begins(p, alt)
    <2>1. Len(p) \in Nat /\ SubSeq(p, 1, Len(p)) = p
      BY SubSeqFull
    <2>2. IsPrefix(p, names) <=> Len(p) <= L /\ p = SubSeq(names, 1, Len(p))
      BY <1>1, <2>1 DEF IsPrefix
    <2>3. ASSUME Begins(p, alt) PROVE IsPrefix(p, names)
      BY <1>1, <1>3, <2>1, <2>2, <2>3
    <2>4. ASSUME IsPrefix(p, names) PROVE Begins(p, alt)
      <3>1. Len(p) \in 0 .. L /\ p = SubSeq(names, 1, Len(p))
        BY <1>1, <2>1, <2>2, <2>4
      <3>2. Begins(SubSeq(names, 1, Len(p)), alt)
        BY <1>4, <3>1
      <3> QED
        BY <3>1, <3>2
    <2> QED
      BY <2>3, <2>4
  <1>7. ASSUME NEW p \in Seq(Names) PROVE names = p <=> Begins(p, alt) /\ Len(p) = L
    <2>1. ASSUME names = p PROVE Begins(p, alt) /\ Len(p) = L
      BY <1>1, <2>1 DEF Begins, L
    <2>2. ASSUME Begins(p, alt), Len(p) = L PROVE names = p
      BY <1>1, <1>3, <2>2, SubSeqFull
    <2> QED
      BY <2>1, <2>2
  <1> QED
    BY <1>5, <1>6, <1>7 DEF names, L
-----------------------------------------------------------------------------
(* The trie of a rule. *)
With(alts, p) == CHOOSE i \in DOMAIN alts : /\ IsPrefix(p, NamesOf(alts[i]))
                                            /\ \A j \in 1 .. i - 1 : ~IsPrefix(p, NamesOf(alts[j]))
Whole(alts, p) == {i \in DOMAIN alts : NamesOf(alts[i]) = p}

\* A trie, written out.
LEMMA TrieIs ==
    ASSUME NEW alts \in Seq(Alternative)
    PROVE  TrieOf(alts) = [p \in UNION {Prefixes(NamesOf(alts[i])) : i \in DOMAIN alts} |->
               [store |-> IF p = <<>> THEN "" ELSE alts[With(alts, p)].parts[Len(p)].store,
                value |-> IF Whole(alts, p) = {} THEN NoValue
                          ELSE alts[CHOOSE i \in Whole(alts, p) : \A j \in Whole(alts, p) : i <= j].id]]
  BY Zenon DEF TrieOf, With, Whole

\* The alternatives of a rule are alternatives.
LEMMA AltsTyped ==
    ASSUME NEW alts \in Seq(Alternative)
    PROVE  /\ Len(alts) \in Nat /\ DOMAIN alts = 1 .. Len(alts)
           /\ \A i \in DOMAIN alts : alts[i] \in Alternative
  OBVIOUS

\* Its nodes are what begins an alternative.
LEMMA TrieNodes ==
    ASSUME NEW alts \in Seq(Alternative), NEW p
    PROVE  p \in DOMAIN TrieOf(alts) <=> p \in Seq(Names) /\ \E i \in DOMAIN alts : Begins(p, alts[i])
  <1>1. DOMAIN TrieOf(alts) = UNION {Prefixes(NamesOf(alts[i])) : i \in DOMAIN alts}
    BY TrieIs
  <1>2. \A i \in DOMAIN alts : Prefixes(NamesOf(alts[i])) = {q \in Seq(Names) : Begins(q, alts[i])}
    BY AltsTyped, PrefixBegins
  <1> QED
    BY <1>1, <1>2

\* A node other than the root has the store name of one of those.
LEMMA TrieStore ==
    ASSUME NEW alts \in Seq(Alternative), NEW p \in DOMAIN TrieOf(alts), p # <<>>
    PROVE  \E i \in DOMAIN alts : Begins(p, alts[i]) /\ TrieOf(alts)[p].store = alts[i].parts[Len(p)].store
  <1> DEFINE T == {i \in DOMAIN alts : IsPrefix(p, NamesOf(alts[i]))}
             First(i) == /\ IsPrefix(p, NamesOf(alts[i]))
                         /\ \A j \in 1 .. i - 1 : ~IsPrefix(p, NamesOf(alts[j]))
  <1>1. p \in Seq(Names) /\ \A i \in DOMAIN alts : IsPrefix(p, NamesOf(alts[i])) <=> Begins(p, alts[i])
    BY TrieNodes, AltsTyped, PrefixBegins
  <1>2. T # {} /\ T \in SUBSET Nat
    BY <1>1, TrieNodes, AltsTyped
  <1>3. PICK i \in T : \A j \in T : i <= j
    BY <1>2, Least
  <1>4. i \in DOMAIN alts /\ First(i)
    <2>1. \A j \in 1 .. i - 1 : j \in DOMAIN alts /\ ~(i <= j)
      BY <1>2, <1>3, AltsTyped
    <2> QED
      BY <1>3, <2>1
  <1> HIDE DEF First
  <1>5. With(alts, p) = CHOOSE k \in DOMAIN alts : First(k)
    BY Zenon DEF With, First
  <1>6. With(alts, p) \in DOMAIN alts /\ First(With(alts, p))
    BY <1>4, <1>5, Zenon
  <1>7. Begins(p, alts[With(alts, p)])
    BY <1>1, <1>6, Zenon DEF First
  <1>8. TrieOf(alts)[p].store = alts[With(alts, p)].parts[Len(p)].store
    <2>1. DOMAIN TrieOf(alts) = UNION {Prefixes(NamesOf(alts[j])) : j \in DOMAIN alts}
      BY TrieIs
    <2>2. TrieOf(alts)[p] = [store |-> IF p = <<>> THEN "" ELSE alts[With(alts, p)].parts[Len(p)].store,
                value |-> IF Whole(alts, p) = {} THEN NoValue
                          ELSE alts[CHOOSE j \in Whole(alts, p) : \A k \in Whole(alts, p) : j <= k].id]
      BY <2>1, TrieIs, Zenon
    <2> QED
      BY <2>2
  <1> QED
    BY <1>6, <1>7, <1>8

\* The values are at the ends of the alternatives.
LEMMA TrieValues ==
    ASSUME NEW alts \in Seq(Alternative), NEW p \in DOMAIN TrieOf(alts)
    PROVE  /\ p \in Values(TrieOf(alts)) <=> \E i \in DOMAIN alts : NamesOf(alts[i]) = p
           /\ p \in Values(TrieOf(alts)) => \E i \in DOMAIN alts : NamesOf(alts[i]) = p /\ TrieOf(alts)[p].value = alts[i].id
  <1> DEFINE W == Whole(alts, p)
             least == CHOOSE j \in W : \A k \in W : j <= k
  <1>1. TrieOf(alts)[p].value = IF W = {} THEN NoValue ELSE alts[least].id
    <2>1. DOMAIN TrieOf(alts) = UNION {Prefixes(NamesOf(alts[j])) : j \in DOMAIN alts}
      BY TrieIs
    <2> DEFINE store == IF p = <<>> THEN "" ELSE alts[With(alts, p)].parts[Len(p)].store
               value == IF W = {} THEN NoValue ELSE alts[least].id
    <2>2. TrieOf(alts)[p] = [store |-> store, value |-> value]
      BY <2>1, TrieIs, Zenon
    <2> HIDE DEF store, value
    <2>3. TrieOf(alts)[p].value = value
      BY <2>2
    <2> QED
      BY <2>3 DEF value
  <1>2. W = {i \in DOMAIN alts : NamesOf(alts[i]) = p}
    BY DEF Whole
  <1> HIDE DEF W
  <1>3. ASSUME W # {} PROVE least \in W
    <2>1. W \in SUBSET Nat
      BY <1>2, AltsTyped
    <2>2. \E j \in W : \A k \in W : j <= k
      BY <1>3, <2>1, Least
    <2> QED
      BY <2>2, Zenon
  <1> HIDE DEF least
  <1>4. ASSUME W # {} PROVE TrieOf(alts)[p].value # NoValue
    <2>1. alts[least].id \in Nat
      BY <1>2, <1>3, <1>4, AltsTyped, NamesOfAlternative
    <2> QED
      BY <1>1, <1>4, <2>1, NumbersAssumption
  <1>5. p \in Values(TrieOf(alts)) <=> TrieOf(alts)[p].value # NoValue
    BY DEF Values
  <1>6. p \in Values(TrieOf(alts)) <=> W # {}
    BY <1>1, <1>4, <1>5
  <1>7. W # {} => least \in DOMAIN alts /\ NamesOf(alts[least]) = p /\ TrieOf(alts)[p].value = alts[least].id
    BY <1>1, <1>2, <1>3
  <1> QED
    BY <1>2, <1>6, <1>7

\* A node has the next part of each alternative it begins as a child.
LEMMA TrieChildren ==
    ASSUME NEW alts \in Seq(Alternative), NEW p \in DOMAIN TrieOf(alts)
    PROVE  /\ \A n : n \in Children(TrieOf(alts), p) <=> n \in Names /\ Append(p, n) \in DOMAIN TrieOf(alts)
           /\ \A i \in DOMAIN alts : Begins(p, alts[i]) /\ Len(p) # Len(alts[i].parts) =>
                  /\ Len(p) + 1 \in 1 .. Len(alts[i].parts)
                  /\ alts[i].parts[Len(p) + 1].name \in Children(TrieOf(alts), p)
                  /\ Begins(Append(p, alts[i].parts[Len(p) + 1].name), alts[i])
           /\ p \in Values(TrieOf(alts)) \/ Children(TrieOf(alts), p) # {}
  <1>1. \A n : n \in Children(TrieOf(alts), p) <=> n \in Names /\ Append(p, n) \in DOMAIN TrieOf(alts)
    BY DEF Children
  <1>2. p \in Seq(Names)
    BY TrieNodes
  <1>3. ASSUME NEW i \in DOMAIN alts, Begins(p, alts[i]), Len(p) # Len(alts[i].parts)
        PROVE  /\ Len(p) + 1 \in 1 .. Len(alts[i].parts)
               /\ alts[i].parts[Len(p) + 1].name \in Children(TrieOf(alts), p)
               /\ Begins(Append(p, alts[i].parts[Len(p) + 1].name), alts[i])
    <2> DEFINE alt == alts[i]
               n == alt.parts[Len(p) + 1].name
    <2>1. alt \in Alternative
      BY AltsTyped
    <2>2. Len(alt.parts) \in Nat /\ \A k \in 1 .. Len(alt.parts) : alt.parts[k] \in RulePart
      BY <2>1, NamesOfAlternative
    <2>3. Len(p) \in Nat /\ Len(p) <= Len(alt.parts) /\ \A k \in 1 .. Len(p) : alt.parts[k].name = p[k]
      BY <1>2, <1>3 DEF Begins
    <2>4. Len(p) + 1 \in 1 .. Len(alt.parts)
      BY <1>3, <2>2, <2>3
    <2>5. n \in Names
      BY <2>2, <2>4 DEF RulePart
    <2> HIDE DEF n
    <2>6. /\ Append(p, n) \in Seq(Names) /\ Len(Append(p, n)) = Len(p) + 1
          /\ Append(p, n)[Len(p) + 1] = n /\ \A k \in 1 .. Len(p) : Append(p, n)[k] = p[k]
      BY <1>2, <2>5, AppendProperties
    <2>7. Begins(Append(p, n), alt)
      <3>1. ASSUME NEW k \in 1 .. Len(Append(p, n)) PROVE alt.parts[k].name = Append(p, n)[k]
        <4>1. CASE k = Len(p) + 1
          BY <2>6, <4>1 DEF n
        <4>2. CASE k # Len(p) + 1
          <5>1. k \in 1 .. Len(p)
            BY <2>3, <2>6, <4>2
          <5> QED
            BY <2>3, <2>6, <5>1
        <4> QED
          BY <4>1, <4>2
      <3>2. Len(Append(p, n)) <= Len(alt.parts)
        BY <2>2, <2>3, <2>4, <2>6
      <3> QED
        BY <3>1, <3>2 DEF Begins
    <2>8. Append(p, n) \in DOMAIN TrieOf(alts)
      BY <2>6, <2>7, TrieNodes
    <2> QED
      BY <1>1, <2>4, <2>5, <2>7, <2>8 DEF n
  <1>4. p \in Values(TrieOf(alts)) \/ Children(TrieOf(alts), p) # {}
    <2>1. PICK i \in DOMAIN alts : Begins(p, alts[i])
      BY TrieNodes
    <2>2. CASE Len(p) = Len(alts[i].parts)
      <3>1. NamesOf(alts[i]) = p
        BY <1>2, <2>1, <2>2, AltsTyped, PrefixBegins
      <3> QED
        BY <3>1, TrieValues
    <2>3. CASE Len(p) # Len(alts[i].parts)
      BY <1>3, <2>1, <2>3
    <2> QED
      BY <2>2, <2>3
  <1> QED
    BY <1>1, <1>3, <1>4

\* The root is there, and with a node what it hangs on.
LEMMA TrieRoot ==
    ASSUME NEW alts \in Seq(Alternative), alts # <<>>
    PROVE  <<>> \in DOMAIN TrieOf(alts)
  <1>1. 1 \in DOMAIN alts
    BY EmptySeq
  <1>2. <<>> \in Seq(Names) /\ Len(<<>>) = 0 /\ 1 .. Len(<<>>) = {}
    OBVIOUS
  <1>3. Begins(<<>>, alts[1])
    BY <1>1, <1>2, AltsTyped, NamesOfAlternative DEF Begins
  <1> QED
    BY <1>1, <1>2, <1>3, TrieNodes

\* There are finitely many nodes.
LEMMA TrieFinite ==
    ASSUME NEW alts \in Seq(Alternative)
    PROVE  IsFiniteSet(DOMAIN TrieOf(alts))
  <1> DEFINE P == [i \in DOMAIN alts |-> Prefixes(NamesOf(alts[i]))]
             U == {Prefixes(NamesOf(alts[i])) : i \in DOMAIN alts}
  <1>1. DOMAIN TrieOf(alts) = UNION U
    BY TrieIs
  <1>2. IsFiniteSet(U)
    <2>1. IsFiniteSet(DOMAIN alts)
      BY AltsTyped, FS_Interval
    <2>2. P \in Surjection(DOMAIN alts, U)
      BY DEF Surjection
    <2> QED
      BY <2>1, <2>2, FS_Surjection
  <1>3. ASSUME NEW T \in U PROVE IsFiniteSet(T)
    <2>1. PICK i \in DOMAIN alts : T = Prefixes(NamesOf(alts[i]))
      OBVIOUS
    <2> DEFINE names == NamesOf(alts[i])
               f == [l \in 0 .. Len(names) |-> SubSeq(names, 1, l)]
    <2>2. Len(names) \in Nat
      BY AltsTyped, NamesOfAlternative
    <2> HIDE DEF names
    <2>3. f \in Surjection(0 .. Len(names), Prefixes(names))
      BY DEF Surjection, Prefixes
    <2>4. IsFiniteSet(0 .. Len(names))
      BY <2>2, FS_Interval
    <2> HIDE DEF f
    <2>5. IsFiniteSet(Prefixes(names))
      BY <2>3, <2>4, FS_Surjection
    <2> QED
      BY <2>1, <2>5 DEF names
  <1> HIDE DEF U
  <1> QED
    BY <1>1, <1>2, <1>3, FS_UNION
-----------------------------------------------------------------------------
(* An order of the nodes, and the sequence it makes of them. *)
StrictOrder(R, S) == /\ \A p \in S : <<p, p>> \notin R
                     /\ \A p, q, r \in S : <<p, q>> \in R /\ <<q, r>> \in R => <<p, r>> \in R
                     /\ \A p, q \in S : p # q => <<p, q>> \in R \/ <<q, p>> \in R

\* A walk comes to each node, and to nothing else.
LEMMA InOrderSet ==
    ASSUME NEW S, IsFiniteSet(S), NEW R, StrictOrder(R, S)
    PROVE  InOrder(S, R) \in Seq(S) /\ ToSet(InOrder(S, R)) = S
  <1> DEFINE N == Cardinality(S)
             Before(p) == {q \in S : <<q, p>> \in R}
             f == [p \in S |-> Cardinality(Before(p))]
  <1>1. N \in Nat
    BY FS_CardinalityType
  <1>2. ASSUME NEW p \in S
        PROVE  IsFiniteSet(Before(p)) /\ Cardinality(Before(p)) \in 0 .. N - 1
    <2>1. Before(p) \subseteq S /\ Before(p) # S
      BY DEF StrictOrder
    <2>2. IsFiniteSet(Before(p)) /\ Cardinality(Before(p)) <= N /\ Cardinality(Before(p)) # N
      BY <2>1, FS_Subset
    <2>3. Cardinality(Before(p)) \in Nat
      BY <2>2, FS_CardinalityType
    <2> QED
      BY <1>1, <2>2, <2>3
  <1>3. ASSUME NEW p \in S, NEW q \in S, <<p, q>> \in R
        PROVE  Cardinality(Before(p)) < Cardinality(Before(q))
    <2>1. Before(p) \subseteq Before(q) /\ p \in Before(q) /\ p \notin Before(p)
      BY <1>3 DEF StrictOrder
    <2>2. Cardinality(Before(p)) <= Cardinality(Before(q)) /\ Cardinality(Before(p)) # Cardinality(Before(q))
      BY <1>2, <2>1, FS_Subset
    <2>3. Cardinality(Before(p)) \in Nat /\ Cardinality(Before(q)) \in Nat
      BY <1>1, <1>2
    <2> QED
      BY <2>2, <2>3
  <1>4. ASSUME NEW p \in S, NEW q \in S, Cardinality(Before(p)) = Cardinality(Before(q))
        PROVE  p = q
    <2>1. Cardinality(Before(p)) \in Nat /\ Cardinality(Before(q)) \in Nat
      BY <1>1, <1>2
    <2>2. <<p, q>> \notin R /\ <<q, p>> \notin R
      BY <1>3, <1>4, <2>1
    <2> QED
      BY <2>2 DEF StrictOrder
  <1>5. f \in Injection(S, 0 .. N - 1)
    <2>1. f \in [S -> 0 .. N - 1]
      BY <1>2
    <2>2. \A p, q \in S : f[p] = f[q] => p = q
      BY <1>4
    <2> HIDE DEF f
    <2> QED
      BY <2>1, <2>2 DEF Injection, IsInjective
  <1>6. IsFiniteSet(0 .. N - 1) /\ Cardinality(0 .. N - 1) = N
    BY <1>1, FS_Interval
  <1>7. f \in Surjection(S, 0 .. N - 1)
    <2> HIDE DEF f
    <2> QED
      BY <1>5, <1>6, FS_Injection
  <1>8. \A k \in 0 .. N - 1 : \E p \in S : Cardinality(Before(p)) = k
    <2>1. \A k \in 0 .. N - 1 : \E p \in S : f[p] = k
      BY <1>7 DEF Surjection
    <2> QED
      BY <2>1
  <1> DEFINE s == InOrder(S, R)
  <1>9. s = [i \in 1 .. N |-> CHOOSE p \in S : Cardinality(Before(p)) = i - 1]
    BY DEF InOrder
  <1> HIDE DEF s, N, f, Before
  <1>10. ASSUME NEW i \in 1 .. N PROVE s[i] \in S /\ Cardinality(Before(s[i])) = i - 1
    <2>1. i - 1 \in 0 .. N - 1
      BY <1>1
    <2>2. \E p \in S : Cardinality(Before(p)) = i - 1
      BY <1>8, <2>1
    <2> QED
      BY <1>9, <2>2
  <1>11. s \in Seq(S) /\ DOMAIN s = 1 .. N
    <2>1. s \in [1 .. N -> S]
      BY <1>9, <1>10
    <2> QED
      BY <1>1, <2>1
  <1>12. ASSUME NEW p \in S PROVE p \in ToSet(s)
    <2> DEFINE i == Cardinality(Before(p)) + 1
    <2>1. i \in 1 .. N /\ i - 1 = Cardinality(Before(p))
      BY <1>1, <1>2
    <2>2. s[i] = p
      BY <1>4, <1>10, <2>1
    <2> QED
      BY <1>11, <2>1, <2>2 DEF ToSet
  <1>13. ToSet(s) \subseteq S
    BY <1>10, <1>11 DEF ToSet
  <1> QED
    BY <1>11, <1>12, <1>13 DEF s
-----------------------------------------------------------------------------
\* Names are compared as numbers.
LEMMA NamesAreNumbers ==
    ASSUME NEW p \in Seq(Names)
    PROVE  Len(p) \in Nat /\ \A n \in 1 .. Len(p) : p[n] \in Nat
  <1>1. Len(p) \in Nat /\ \A n \in 1 .. Len(p) : p[n] \in Names
    OBVIOUS
  <1> QED
    BY <1>1, NumbersAssumption

(* Two sequences of names: where they part. *)
LEMMA Parting ==
    ASSUME NEW p \in Seq(Names), NEW q \in Seq(Names), p # q
    PROVE  \E n \in Nat \ {0} : /\ n <= Len(p) + 1 /\ n <= Len(q) + 1 /\ Agree(p, q, n) /\ Agree(q, p, n)
                                /\ n <= Len(p) \/ n <= Len(q)
                                /\ n <= Len(p) /\ n <= Len(q) => p[n] # q[n]
  <1> DEFINE T == {n \in Nat \ {0} : n > Len(p) \/ n > Len(q) \/ p[n] # q[n]}
  <1>1. Len(p) \in Nat /\ Len(q) \in Nat
    OBVIOUS
  <1>2. Len(p) + 1 \in T /\ T \in SUBSET Nat
    BY <1>1
  <1>3. PICK n \in T : \A m \in T : n <= m
    BY <1>2, Least
  <1>4. n \in Nat \ {0}
    OBVIOUS
  <1>5. \A m \in 1 .. n - 1 : m <= Len(p) /\ m <= Len(q) /\ p[m] = q[m]
    BY <1>1, <1>3, <1>4
  <1>6. n <= Len(p) + 1 /\ n <= Len(q) + 1
    <2>1. CASE n = 1
      BY <1>1, <2>1
    <2>2. CASE n # 1
      <3>1. n - 1 \in 1 .. n - 1
        BY <1>4, <2>2
      <3> QED
        BY <1>1, <1>4, <1>5, <3>1
    <2> QED
      BY <2>1, <2>2
  <1>7. Agree(p, q, n) /\ Agree(q, p, n)
    BY <1>5 DEF Agree
  <1>8. n <= Len(p) /\ n <= Len(q) => p[n] # q[n]
    BY <1>1, <1>4
  <1>9. n <= Len(p) \/ n <= Len(q)
    <2> SUFFICES ASSUME n > Len(p), n > Len(q) PROVE FALSE
      BY <1>1, <1>4
    <2>1. Len(p) = n - 1 /\ Len(q) = n - 1
      BY <1>1, <1>4, <1>6
    <2>2. p = q
      BY <1>5, <2>1, SeqEqual
    <2> QED
      BY <2>2
  <1> QED
    BY <1>4, <1>6, <1>7, <1>8, <1>9

\* A node comes before its children, and they by name: a strict total order.
LEMMA LessOrder ==
    ASSUME NEW S \in SUBSET Seq(Names)
    PROVE  StrictOrder({e \in S \X S : Less(e[1], e[2])}, S)
  <1> DEFINE R == {e \in S \X S : Less(e[1], e[2])}
  <1>1. \A p, q \in S : <<p, q>> \in R <=> Less(p, q)
    OBVIOUS
  <1>2. \A p \in S : Len(p) \in Nat /\ \A n \in 1 .. Len(p) : p[n] \in Nat
    BY NamesAreNumbers
  <1>3. ASSUME NEW p \in S PROVE ~Less(p, p)
    BY <1>2 DEF Less
  <1>4. ASSUME NEW p \in S, NEW q \in S, NEW r \in S, Less(p, q), Less(q, r) PROVE Less(p, r)
    <2>1. PICK m \in 1 .. Len(q) : m <= Len(p) + 1 /\ Agree(p, q, m) /\ (m <= Len(p) => p[m] < q[m])
      BY <1>4 DEF Less
    <2>2. PICK n \in 1 .. Len(r) : n <= Len(q) + 1 /\ Agree(q, r, n) /\ (n <= Len(q) => q[n] < r[n])
      BY <1>4 DEF Less
    <2>3. Len(p) \in Nat /\ Len(q) \in Nat /\ Len(r) \in Nat /\ m \in Nat \ {0} /\ n \in Nat \ {0}
      BY <1>2
    <2>4. CASE m < n
      <3>1. m \in 1 .. Len(r) /\ q[m] = r[m]
        BY <2>2, <2>3, <2>4 DEF Agree
      <3>2. Agree(p, r, m)
        BY <2>1, <2>2, <2>3, <2>4 DEF Agree
      <3> QED
        BY <2>1, <3>1, <3>2 DEF Less
    <2>5. CASE n <= m
      <3>1. Agree(p, r, n)
        BY <2>1, <2>2, <2>3, <2>5 DEF Agree
      <3>2. n <= Len(p) + 1 /\ n <= Len(q)
        BY <2>1, <2>2, <2>3, <2>5
      <3>3. ASSUME n <= Len(p) PROVE p[n] < r[n]
        <4>1. q[n] < r[n] /\ p[n] \in Nat /\ q[n] \in Nat /\ r[n] \in Nat
          BY <1>2, <2>2, <2>3, <3>2, <3>3
        <4>2. CASE n = m
          BY <2>1, <3>3, <4>1, <4>2
        <4>3. CASE n # m
          <5>1. p[n] = q[n]
            BY <2>1, <2>3, <2>5, <4>3 DEF Agree
          <5> QED
            BY <4>1, <5>1
        <4> QED
          BY <4>2, <4>3
      <3> QED
        BY <3>1, <3>2, <3>3 DEF Less
    <2> QED
      BY <2>3, <2>4, <2>5
  <1>5. ASSUME NEW p \in S, NEW q \in S, p # q PROVE Less(p, q) \/ Less(q, p)
    <2>1. PICK n \in Nat \ {0} : /\ n <= Len(p) + 1 /\ n <= Len(q) + 1 /\ Agree(p, q, n) /\ Agree(q, p, n)
                                 /\ n <= Len(p) \/ n <= Len(q)
                                 /\ n <= Len(p) /\ n <= Len(q) => p[n] # q[n]
      BY <1>5, Parting
    <2>2. Len(p) \in Nat /\ Len(q) \in Nat
      BY <1>2
    <2>3. CASE n > Len(p)
      <3>1. n \in 1 .. Len(q) /\ ~(n <= Len(p))
        BY <2>1, <2>2, <2>3
      <3> QED
        BY <2>1, <3>1 DEF Less
    <2>4. CASE n > Len(q)
      <3>1. n \in 1 .. Len(p) /\ ~(n <= Len(q))
        BY <2>1, <2>2, <2>4
      <3> QED
        BY <2>1, <3>1 DEF Less
    <2>5. CASE n <= Len(p) /\ n <= Len(q)
      <3>1. n \in 1 .. Len(p) /\ n \in 1 .. Len(q) /\ p[n] \in Nat /\ q[n] \in Nat /\ p[n] # q[n]
        BY <1>2, <2>1, <2>2, <2>5
      <3>2. p[n] < q[n] \/ q[n] < p[n]
        BY <3>1
      <3> QED
        BY <2>1, <3>1, <3>2 DEF Less
    <2> QED
      BY <2>1, <2>2, <2>3, <2>4, <2>5
  <1> HIDE DEF R
  <1>6. StrictOrder(R, S)
    BY <1>1, <1>3, <1>4, <1>5 DEF StrictOrder
  <1> QED
    BY <1>6 DEF R

\* So is the order with the children first.
LEMMA ChildrenFirstOrder ==
    ASSUME NEW S \in SUBSET Seq(Names)
    PROVE  StrictOrder({e \in S \X S : ChildrenFirst(e[1], e[2])}, S)
  <1> DEFINE R == {e \in S \X S : ChildrenFirst(e[1], e[2])}
  <1>1. \A p, q \in S : <<p, q>> \in R <=> ChildrenFirst(p, q)
    OBVIOUS
  <1>2. \A p \in S : Len(p) \in Nat /\ \A n \in 1 .. Len(p) : p[n] \in Nat
    BY NamesAreNumbers
  <1>3. ASSUME NEW p \in S PROVE ~ChildrenFirst(p, p)
    BY <1>2 DEF ChildrenFirst
  <1>4. ASSUME NEW p \in S, NEW q \in S, NEW r \in S, ChildrenFirst(p, q), ChildrenFirst(q, r) PROVE ChildrenFirst(p, r)
    <2>1. PICK m \in 1 .. Len(p) : m <= Len(q) + 1 /\ Agree(p, q, m) /\ (m <= Len(q) => p[m] < q[m])
      BY <1>4 DEF ChildrenFirst
    <2>2. PICK n \in 1 .. Len(q) : n <= Len(r) + 1 /\ Agree(q, r, n) /\ (n <= Len(r) => q[n] < r[n])
      BY <1>4 DEF ChildrenFirst
    <2>3. Len(p) \in Nat /\ Len(q) \in Nat /\ Len(r) \in Nat /\ m \in Nat \ {0} /\ n \in Nat \ {0}
      BY <1>2
    <2>4. CASE m < n
      <3>1. m <= Len(q) /\ m <= Len(r) + 1 /\ (m <= Len(r) => q[m] = r[m])
        BY <2>2, <2>3, <2>4 DEF Agree
      <3>2. Agree(p, r, m)
        BY <2>1, <2>2, <2>3, <2>4 DEF Agree
      <3> QED
        BY <2>1, <3>1, <3>2 DEF ChildrenFirst
    <2>5. CASE n <= m
      <3>1. Agree(p, r, n)
        BY <2>1, <2>2, <2>3, <2>5 DEF Agree
      <3>2. n \in 1 .. Len(p) /\ n <= Len(r) + 1
        BY <2>1, <2>2, <2>3, <2>5
      <3>3. ASSUME n <= Len(r) PROVE p[n] < r[n]
        <4>1. q[n] < r[n] /\ p[n] \in Nat /\ q[n] \in Nat /\ r[n] \in Nat
          BY <1>2, <2>2, <2>3, <3>2, <3>3
        <4>2. CASE n = m
          BY <2>1, <2>2, <4>1, <4>2
        <4>3. CASE n # m
          <5>1. p[n] = q[n]
            BY <2>1, <2>3, <2>5, <4>3 DEF Agree
          <5> QED
            BY <4>1, <5>1
        <4> QED
          BY <4>2, <4>3
      <3> QED
        BY <3>1, <3>2, <3>3 DEF ChildrenFirst
    <2> QED
      BY <2>3, <2>4, <2>5
  <1>5. ASSUME NEW p \in S, NEW q \in S, p # q PROVE ChildrenFirst(p, q) \/ ChildrenFirst(q, p)
    <2>1. PICK n \in Nat \ {0} : /\ n <= Len(p) + 1 /\ n <= Len(q) + 1 /\ Agree(p, q, n) /\ Agree(q, p, n)
                                 /\ n <= Len(p) \/ n <= Len(q)
                                 /\ n <= Len(p) /\ n <= Len(q) => p[n] # q[n]
      BY <1>5, Parting
    <2>2. Len(p) \in Nat /\ Len(q) \in Nat
      BY <1>2
    <2>3. CASE n > Len(p)
      <3>1. n \in 1 .. Len(q) /\ ~(n <= Len(p))
        BY <2>1, <2>2, <2>3
      <3> QED
        BY <2>1, <3>1 DEF ChildrenFirst
    <2>4. CASE n > Len(q)
      <3>1. n \in 1 .. Len(p) /\ ~(n <= Len(q))
        BY <2>1, <2>2, <2>4
      <3> QED
        BY <2>1, <3>1 DEF ChildrenFirst
    <2>5. CASE n <= Len(p) /\ n <= Len(q)
      <3>1. n \in 1 .. Len(p) /\ n \in 1 .. Len(q) /\ p[n] \in Nat /\ q[n] \in Nat /\ p[n] # q[n]
        BY <1>2, <2>1, <2>2, <2>5
      <3>2. p[n] < q[n] \/ q[n] < p[n]
        BY <3>1
      <3> QED
        BY <2>1, <3>1, <3>2 DEF ChildrenFirst
    <2> QED
      BY <2>1, <2>2, <2>3, <2>4, <2>5
  <1> HIDE DEF R
  <1>6. StrictOrder(R, S)
    BY <1>1, <1>3, <1>4, <1>5 DEF StrictOrder
  <1> QED
    BY <1>6 DEF R
-----------------------------------------------------------------------------
\* A node is a sequence of names.
LEMMA NodesTyped ==
    ASSUME NEW alts \in Seq(Alternative)
    PROVE  DOMAIN TrieOf(alts) \in SUBSET Seq(Names)
  BY TrieNodes

\* What comes before a node is a node.
LEMMA TrieUp ==
    ASSUME NEW alts \in Seq(Alternative), NEW p \in Seq(Names), NEW x \in Names,
           Append(p, x) \in DOMAIN TrieOf(alts)
    PROVE  p \in DOMAIN TrieOf(alts)
  <1> DEFINE q == Append(p, x)
  <1>1. PICK i \in DOMAIN alts : Begins(q, alts[i])
    BY TrieNodes
  <1>2. Len(p) \in Nat /\ Len(q) = Len(p) + 1 /\ \A n \in 1 .. Len(p) : q[n] = p[n]
    BY AppendProperties
  <1> HIDE DEF q
  <1>3. Len(alts[i].parts) \in Nat
    BY AltsTyped, NamesOfAlternative
  <1>4. Begins(p, alts[i])
    BY <1>1, <1>2, <1>3 DEF Begins
  <1> QED
    BY <1>4, TrieNodes

\* A node has the store name of a part.
LEMMA StoreIsString ==
    ASSUME NEW alts \in Seq(Alternative), NEW p \in DOMAIN TrieOf(alts), p # <<>>
    PROVE  TrieOf(alts)[p].store \in STRING
  <1>1. PICK i \in DOMAIN alts : Begins(p, alts[i]) /\ TrieOf(alts)[p].store = alts[i].parts[Len(p)].store
    BY TrieStore
  <1>2. p \in Seq(Names) /\ Len(p) \in Nat /\ Len(p) # 0
    BY NodesTyped, EmptySeq
  <1>3. alts[i] \in Alternative
    BY AltsTyped
  <1>4. Len(p) \in 1 .. Len(alts[i].parts)
    BY <1>1, <1>2, <1>3, NamesOfAlternative DEF Begins
  <1>5. alts[i].parts[Len(p)] \in RulePart
    BY <1>3, <1>4, NamesOfAlternative
  <1> QED
    BY <1>1, <1>5 DEF RulePart

\* The parts on the way to a node.
Way(trie, p) == [n \in 1 .. Len(p) |-> [name |-> p[n], store |-> trie[SubSeq(p, 1, n)].store]]

\* The way to a node, part by part.
LEMMA WayIs ==
    ASSUME NEW alts \in Seq(Alternative), NEW p \in DOMAIN TrieOf(alts)
    PROVE  /\ Way(TrieOf(alts), p) \in Seq(RulePart)
           /\ StoredOn(TrieOf(alts), p) = Stored(Way(TrieOf(alts), p))
           /\ StoredOn(TrieOf(alts), p) \in Keys
           /\ \A n \in 1 .. Len(p) : SubSeq(p, 1, n) \in DOMAIN TrieOf(alts) /\ Len(SubSeq(p, 1, n)) = n
  <1> DEFINE trie == TrieOf(alts)
  <1>1. p \in Seq(Names) /\ Len(p) \in Nat /\ \A n \in 1 .. Len(p) : p[n] \in Names
    BY NodesTyped
  <1>2. PICK i \in DOMAIN alts : Begins(p, alts[i])
    BY TrieNodes
  <1>3. ASSUME NEW n \in 1 .. Len(p)
        PROVE  SubSeq(p, 1, n) \in DOMAIN trie /\ Len(SubSeq(p, 1, n)) = n /\ SubSeq(p, 1, n) # <<>>
    <2> DEFINE q == SubSeq(p, 1, n)
    <2>1. q \in Seq(Names) /\ Len(q) = n /\ \A m \in 1 .. n : q[m] = p[m]
      BY <1>1, SubSeqProperties
    <2> HIDE DEF q
    <2>2. Len(alts[i].parts) \in Nat
      BY AltsTyped, NamesOfAlternative
    <2>5. n <= Len(alts[i].parts) /\ \A m \in 1 .. n : m \in 1 .. Len(p)
      BY <1>1, <1>2, <2>2 DEF Begins
    <2>3. Begins(q, alts[i])
      BY <1>2, <2>1, <2>5 DEF Begins
    <2>4. q \in DOMAIN trie
      BY <2>1, <2>3, TrieNodes
    <2> QED
      BY <2>1, <2>4 DEF q
  <1>4. \A n \in 1 .. Len(p) : trie[SubSeq(p, 1, n)].store \in STRING
    BY <1>3, StoreIsString
  <1> HIDE DEF trie
  <1>5. Way(trie, p) \in Seq(RulePart)
    <2>1. \A n \in 1 .. Len(p) : [name |-> p[n], store |-> trie[SubSeq(p, 1, n)].store] \in RulePart
      BY <1>1, <1>4 DEF RulePart
    <2> QED
      BY <1>1, <2>1, IsASeq DEF Way
  <1>6. StoredOn(trie, p) = Stored(Way(trie, p))
    BY DEF StoredOn, Way
  <1>7. StoredOn(trie, p) \in Keys
    BY <1>5, <1>6, StoredLaw DEF Keys
  <1> QED
    BY <1>3, <1>5, <1>6, <1>7 DEF trie

\* One node further.
LEMMA StoredOnward ==
    ASSUME NEW alts \in Seq(Alternative), NEW p \in Seq(Names), NEW x \in Names,
           Append(p, x) \in DOMAIN TrieOf(alts)
    PROVE  LET store == TrieOf(alts)[Append(p, x)].store
           IN StoredOn(TrieOf(alts), Append(p, x)) =
                  IF store = "" THEN StoredOn(TrieOf(alts), p)
                  ELSE Append(StoredOn(TrieOf(alts), p), [name |-> x, store |-> store])
  <1> DEFINE q == Append(p, x)
             trie == TrieOf(alts)
             part == [name |-> x, store |-> trie[q].store]
  <1>1. /\ q \in Seq(Names) /\ Len(p) \in Nat /\ Len(q) = Len(p) + 1 /\ q[Len(p) + 1] = x
        /\ \A n \in 1 .. Len(p) : q[n] = p[n]
    BY AppendProperties
  <1>2. p \in DOMAIN trie
    BY TrieUp
  <1>3. Way(trie, p) \in Seq(RulePart) /\ StoredOn(trie, p) = Stored(Way(trie, p)) /\ StoredOn(trie, q) = Stored(Way(trie, q))
    BY <1>2, WayIs
  <1>5. SubSeq(q, 1, Len(p) + 1) = q
    BY <1>1, SubSeqFull
  <1>6. ASSUME NEW n \in 1 .. Len(p) PROVE SubSeq(q, 1, n) = SubSeq(p, 1, n)
    <2>1. /\ SubSeq(p, 1, n) \in Seq(Names) /\ Len(SubSeq(p, 1, n)) = n
          /\ \A m \in 1 .. n : SubSeq(p, 1, n)[m] = p[m]
      BY <1>1, SubSeqProperties
    <2>2. n <= Len(q) /\ n \in 1 .. Len(q)
      BY <1>1
    <2> HIDE DEF q
    <2>3. /\ SubSeq(q, 1, n) \in Seq(Names) /\ Len(SubSeq(q, 1, n)) = n
          /\ \A m \in 1 .. n : SubSeq(q, 1, n)[m] = q[m]
      BY <1>1, <2>2, SubSeqProperties
    <2>4. \A m \in 1 .. n : m \in 1 .. Len(p)
      BY <1>1
    <2> QED
      BY <1>1, <2>1, <2>3, <2>4, SeqEqual
  <1>7. trie[q].store \in STRING
    <2>1. q # <<>>
      BY <1>1, EmptySeq
    <2> QED
      BY <2>1, StoreIsString
  <1>8. part \in RulePart
    BY <1>7 DEF RulePart
  <1>9. Way(trie, q) = Append(Way(trie, p), part)
    <2> DEFINE u == Way(trie, p)
               v == Way(trie, q)
    <2>1. v \in Seq(RulePart)
      BY WayIs
    <2>2. Len(u) = Len(p) /\ Len(v) = Len(q)
      BY <1>1 DEF Way
    <2>3. /\ Append(u, part) \in Seq(RulePart) /\ Len(Append(u, part)) = Len(p) + 1
          /\ Append(u, part)[Len(p) + 1] = part /\ \A n \in 1 .. Len(p) : Append(u, part)[n] = u[n]
      BY <1>3, <1>8, <2>2, AppendProperties
    <2>4. \A n \in 1 .. Len(p) : v[n] = u[n]
      <3>1. \A n \in 1 .. Len(p) : n \in 1 .. Len(q)
        BY <1>1
      <3> HIDE DEF q, trie
      <3> QED
        BY <1>1, <1>6, <3>1 DEF Way
    <2>5. v[Len(p) + 1] = part
      <3>1. Len(p) + 1 \in 1 .. Len(q)
        BY <1>1
      <3> HIDE DEF q, trie
      <3>2. v[Len(p) + 1] = [name |-> q[Len(p) + 1], store |-> trie[SubSeq(q, 1, Len(p) + 1)].store]
        BY <3>1 DEF Way
      <3> QED
        BY <1>1, <1>5, <3>2
    <2> HIDE DEF u, v, part, q, trie
    <2>6. \A n \in 1 .. Len(q) : v[n] = Append(u, part)[n]
      <3> SUFFICES ASSUME NEW n \in 1 .. Len(q) PROVE v[n] = Append(u, part)[n]
        OBVIOUS
      <3>1. n \in 1 .. Len(p) \/ n = Len(p) + 1
        BY <1>1
      <3> QED
        BY <2>3, <2>4, <2>5, <3>1
    <2>7. v = Append(u, part)
      BY <1>1, <2>1, <2>2, <2>3, <2>6, SeqEqual
    <2> QED
      BY <2>7 DEF u, v
  <1> HIDE DEF part, trie, q
  <1>10. Stored(Append(Way(trie, p), part)) = IF part.store = "" THEN Stored(Way(trie, p)) ELSE Append(Stored(Way(trie, p)), part)
    BY <1>3, <1>8, StoredLaw
  <1>11. part = [name |-> x, store |-> trie[q].store] /\ part.store = trie[q].store
    BY DEF part
  <1>12. StoredOn(trie, q) = IF trie[q].store = "" THEN StoredOn(trie, p) ELSE Append(StoredOn(trie, p), [name |-> x, store |-> trie[q].store])
    BY <1>3, <1>9, <1>10, <1>11
  <1> QED
    BY <1>12 DEF trie, q

\* What is at most each of two numbers is at most the lesser.
LEMMA MinOfTwo ==
    ASSUME NEW a \in Nat, NEW b \in Nat, NEW n \in Nat \ {0}, n <= a, n <= b
    PROVE  n \in 1 .. Min({a, b})
  <1>1. \E x \in {a, b} : \A y \in {a, b} : x <= y
    OBVIOUS
  <1>2. Min({a, b}) \in {a, b}
    BY <1>1, Zenon DEF Min
  <1> QED
    BY <1>2

\* Min is a member.
LEMMA MinIn ==
    ASSUME NEW T \in SUBSET Nat, T # {}
    PROVE  Min(T) \in T /\ \A n \in T : Min(T) <= n
  <1>1. \E n \in T : \A m \in T : n <= m
    BY Least
  <1> QED
    BY <1>1, Zenon DEF Min

\* When the names agree the parts on the way to a value are those of the
\* alternative, stores and all.
LEMMA WayAgrees ==
    ASSUME NEW alts \in Seq(Alternative), NamesAgree(alts), NEW i \in DOMAIN alts
    PROVE  /\ NamesOf(alts[i]) \in DOMAIN TrieOf(alts)
           /\ Way(TrieOf(alts), NamesOf(alts[i])) = alts[i].parts
           /\ StoredOn(TrieOf(alts), NamesOf(alts[i])) = Stored(alts[i].parts)
  <1> DEFINE alt == alts[i]
             p == NamesOf(alts[i])
             trie == TrieOf(alts)
  <1>1. alt \in Alternative
    BY AltsTyped
  <1>2. /\ alt.parts \in Seq(RulePart) /\ Len(alt.parts) \in Nat /\ p \in Seq(Names) /\ Len(p) = Len(alt.parts)
        /\ \A n \in 1 .. Len(alt.parts) : p[n] = alt.parts[n].name /\ alt.parts[n] \in RulePart
    BY <1>1, NamesOfAlternative
  <1>3. Begins(p, alt)
    BY <1>2 DEF Begins
  <1>4. p \in DOMAIN trie
    BY <1>2, <1>3, TrieNodes
  <1>5. Way(trie, p) \in Seq(RulePart) /\ StoredOn(trie, p) = Stored(Way(trie, p)) /\ Len(Way(trie, p)) = Len(p)
    BY <1>2, <1>4, WayIs DEF Way
  <1>6. ASSUME NEW n \in 1 .. Len(p) PROVE Way(trie, p)[n] = alt.parts[n]
    <2> DEFINE q == SubSeq(p, 1, n)
    <2>1. q \in DOMAIN trie /\ Len(q) = n /\ q \in Seq(Names) /\ q # <<>>
      <3>1. q \in DOMAIN trie /\ Len(q) = n
        BY <1>4, WayIs
      <3> HIDE DEF q, p
      <3> QED
        BY <3>1, NodesTyped, EmptySeq
    <2>2. PICK j \in DOMAIN alts : Begins(q, alts[j]) /\ trie[q].store = alts[j].parts[n].store
      <3> HIDE DEF q
      <3> QED
        BY <2>1, TrieStore
    <2>3. alts[j] \in Alternative
      BY AltsTyped
    <2>4. /\ NamesOf(alts[j]) \in Seq(Names) /\ Len(NamesOf(alts[j])) = Len(alts[j].parts) /\ Len(alts[j].parts) \in Nat
          /\ \A m \in 1 .. Len(alts[j].parts) : NamesOf(alts[j])[m] = alts[j].parts[m].name
      BY <2>3, NamesOfAlternative
    <2>5. n <= Len(alts[j].parts) /\ \A m \in 1 .. n : alts[j].parts[m].name = q[m]
      BY <2>1, <2>2 DEF Begins
    <2>6. SubSeq(NamesOf(alts[j]), 1, n) = q
      <3> DEFINE w == SubSeq(NamesOf(alts[j]), 1, n)
      <3>1. w \in Seq(Names) /\ Len(w) = n /\ \A m \in 1 .. n : w[m] = NamesOf(alts[j])[m]
        BY <2>4, <2>5, SubSeqProperties
      <3>2. \A m \in 1 .. n : w[m] = q[m]
        BY <2>4, <2>5, <3>1
      <3> HIDE DEF w, q
      <3> QED
        BY <2>1, <3>1, <3>2, SeqEqual DEF w
    <2>7. n \in 1 .. Min({Len(alts[i].parts), Len(alts[j].parts)})
      <3>1. n \in Nat \ {0} /\ n <= Len(alts[i].parts) /\ Len(alts[i].parts) \in Nat
        BY <1>2
      <3> QED
        BY <2>4, <2>5, <3>1, MinOfTwo
    <2>8. alts[i].parts[n] = alts[j].parts[n]
      BY <2>6, <2>7 DEF NamesAgree
    <2>9. Way(trie, p)[n] = [name |-> p[n], store |-> trie[q].store]
      BY DEF Way
    <2>10. alt.parts[n] = [name |-> alt.parts[n].name, store |-> alt.parts[n].store]
      BY <1>2 DEF RulePart
    <2> QED
      BY <1>2, <2>2, <2>8, <2>9, <2>10
  <1>7. Way(trie, p) = alt.parts
    <2> DEFINE u == Way(trie, p)
               v == alt.parts
    <2>1. u \in Seq(RulePart) /\ v \in Seq(RulePart) /\ Len(u) = Len(p) /\ Len(v) = Len(p) /\ \A n \in 1 .. Len(p) : u[n] = v[n]
      BY <1>2, <1>5, <1>6
    <2> HIDE DEF u, v
    <2>2. u = v
      BY <2>1, SeqEqual
    <2> QED
      BY <2>2 DEF u, v
  <1> QED
    BY <1>4, <1>5, <1>7
-----------------------------------------------------------------------------
\* The constructors found, and the nodes that throw.
LEMMA ConstructorsFound ==
    ASSUME NEW alts \in Seq(Alternative)
    PROVE  LET trie == TrieOf(alts)
           IN /\ ConstructorsOf(trie) \in Seq(Keys)
              /\ ToSet(ConstructorsOf(trie)) = {StoredOn(trie, p) : p \in Values(trie)}
  <1> DEFINE trie == TrieOf(alts)
             S == Values(trie)
             R == {e \in S \X S : Less(e[1], e[2])}
             values == InOrder(S, R)
  <1>1. S \in SUBSET DOMAIN trie
    BY DEF Values
  <1>2. S \in SUBSET Seq(Names)
    BY <1>1, NodesTyped
  <1>3. IsFiniteSet(S)
    BY <1>1, TrieFinite, FS_Subset
  <1>4. StrictOrder(R, S)
    <2> HIDE DEF S
    <2> QED
      BY <1>2, LessOrder
  <1>5. ConstructorsOf(trie) = [i \in DOMAIN values |-> StoredOn(trie, values[i])]
    BY DEF ConstructorsOf
  <1> HIDE DEF R, S
  <1>6. values \in Seq(S) /\ ToSet(values) = S
    BY <1>3, <1>4, InOrderSet
  <1>7. \A p \in S : StoredOn(trie, p) \in Keys
    BY <1>1, WayIs
  <1> HIDE DEF trie, values
  <1>8. DOMAIN values = 1 .. Len(values) /\ Len(values) \in Nat /\ \A i \in 1 .. Len(values) : values[i] \in S
    BY <1>6
  <1>9. \A i \in 1 .. Len(values) : StoredOn(trie, values[i]) \in Keys
    BY <1>7, <1>8
  <1>10. ConstructorsOf(trie) \in Seq(Keys)
    BY <1>5, <1>8, <1>9, IsASeq
  <1>11. ToSet(ConstructorsOf(trie)) = {StoredOn(trie, p) : p \in S}
    <2>1. S = {values[i] : i \in DOMAIN values}
      BY <1>6 DEF ToSet
    <2>2. ToSet(ConstructorsOf(trie)) = {StoredOn(trie, values[i]) : i \in DOMAIN values}
      BY <1>5 DEF ToSet
    <2> QED
      BY <2>1, <2>2
  <1> QED
    BY <1>10, <1>11 DEF trie, S

Dead(trie) == {p \in DOMAIN trie : Children(trie, p) # {} /\ p \notin Values(trie)}

\* An error is written for each node with children and without a value
\* (recdec.cpp 587-600).
LEMMA ThrowingSet ==
    ASSUME NEW alts \in Seq(Alternative)
    PROVE  LET trie == TrieOf(alts)
           IN Throwing(trie) \in Seq(Dead(trie)) /\ ToSet(Throwing(trie)) = Dead(trie)
  <1> DEFINE trie == TrieOf(alts)
             S == Dead(trie)
             R == {e \in S \X S : ChildrenFirst(e[1], e[2])}
  <1>1. S \in SUBSET DOMAIN trie
    BY DEF Dead
  <1>2. S \in SUBSET Seq(Names)
    BY <1>1, NodesTyped
  <1>3. IsFiniteSet(S)
    BY <1>1, TrieFinite, FS_Subset
  <1>4. StrictOrder(R, S)
    <2> HIDE DEF S
    <2> QED
      BY <1>2, ChildrenFirstOrder
  <1>5. Throwing(trie) = InOrder(S, R)
    BY DEF Throwing, Dead
  <1> HIDE DEF R, S
  <1>6. InOrder(S, R) \in Seq(S) /\ ToSet(InOrder(S, R)) = S
    BY <1>3, <1>4, InOrderSet
  <1> QED
    BY <1>5, <1>6 DEF S

ErrorNumber(trie, p) == CHOOSE j \in DOMAIN Throwing(trie) : Throwing(trie)[j] = p

\* The errors of a rule: each node that throws finds its own at its number.
LEMMA ErrorsFound ==
    ASSUME NEW alts \in Seq(Alternative), NEW rule, NEW N \in Nat, NEW p \in Dead(TrieOf(alts))
    PROVE  LET trie == TrieOf(alts)
           IN /\ p \in ToSet(Throwing(trie))
              /\ ErrorNumber(trie, p) \in 1 .. Len(NewErrors(rule, trie))
              /\ NewErrors(rule, trie)[ErrorNumber(trie, p)] = ErrorAt(rule, trie, p)
              /\ Len(NewErrors(rule, trie)) \in Nat
  <1> DEFINE trie == TrieOf(alts)
             s == Throwing(trie)
             i == ErrorNumber(trie, p)
             new == NewErrors(rule, trie)
  <1>1. s \in Seq(Dead(trie)) /\ ToSet(s) = Dead(trie)
    BY ThrowingSet
  <1>2. \E j \in DOMAIN s : s[j] = p
    BY <1>1 DEF ToSet
  <1>3. i \in DOMAIN s /\ s[i] = p
    BY <1>2, Zenon DEF ErrorNumber
  <1>4. new = [j \in DOMAIN s |-> ErrorAt(rule, trie, s[j])]
    BY DEF NewErrors
  <1>5. DOMAIN s = 1 .. Len(s) /\ Len(s) \in Nat
    BY <1>1
  <1> HIDE DEF s, i, new, trie
  <1>6. Len(new) = Len(s)
    BY <1>4, <1>5
  <1>7. new[i] = ErrorAt(rule, trie, p)
    BY <1>3, <1>4
  <1>8. p \in ToSet(s)
    BY <1>1 DEF trie
  <1> QED
    BY <1>3, <1>5, <1>6, <1>7, <1>8 DEF s, i, new, trie

\* The members of a class.
LEMMA MembersFound ==
    ASSUME NEW alts \in Seq(Alternative), NamesAgree(alts), NEW part \in StoredParts(alts)
    PROVE  part.store \in DOMAIN MembersOf(alts) /\ MembersOf(alts)[part.store] = TypeOf(part.name)
  <1> DEFINE places == {w \in UNION {{i} \X DOMAIN alts[i].parts : i \in DOMAIN alts} : alts[w[1]].parts[w[2]].store # ""}
             At(w) == alts[w[1]].parts[w[2]]
             Before(v, w) == v[1] < w[1] \/ (v[1] = w[1] /\ v[2] < w[2])
             Firsts == {x \in places : \A v \in places : Before(v, x) => At(v).name # At(x).name}
             All == AllToStore(alts)
  <1>1. All = {At(w) : w \in Firsts}
    BY Zenon DEF AllToStore
  <1>2. \A i \in DOMAIN alts : DOMAIN alts[i].parts = 1 .. Len(alts[i].parts) /\ \A n \in DOMAIN alts[i].parts : alts[i].parts[n] \in RulePart
    BY AltsTyped, NamesOfAlternative
  <1>0. DOMAIN alts \in SUBSET Nat
    BY AltsTyped
  <1>3. \A w \in places : \E i \in DOMAIN alts : \E n \in DOMAIN alts[i].parts :
            w = <<i, n>> /\ alts[i].parts[n].store # "" /\ i \in Nat /\ n \in Nat
    <2> SUFFICES ASSUME NEW w \in places
                 PROVE  \E i \in DOMAIN alts : \E n \in DOMAIN alts[i].parts :
                            w = <<i, n>> /\ alts[i].parts[n].store # "" /\ i \in Nat /\ n \in Nat
      OBVIOUS
    <2>1. PICK i \in DOMAIN alts : w \in {i} \X DOMAIN alts[i].parts
      OBVIOUS
    <2>2. w = <<i, w[2]>> /\ w[2] \in DOMAIN alts[i].parts /\ w[1] = i
      <3> DEFINE D == DOMAIN alts[i].parts
      <3>1. w \in {i} \X D
        BY <2>1
      <3> HIDE DEF D, places
      <3>2. w = <<i, w[2]>> /\ w[2] \in D /\ w[1] = i
        BY <3>1
      <3> QED
        BY <3>2 DEF D
    <2>3. alts[w[1]].parts[w[2]].store # ""
      OBVIOUS
    <2>4. i \in Nat /\ w[2] \in Nat
      <3>1. DOMAIN alts[i].parts = 1 .. Len(alts[i].parts)
        BY <1>2
      <3> HIDE DEF places
      <3> QED
        BY <1>0, <2>2, <3>1
    <2> QED
      BY <2>2, <2>3, <2>4
  <1>30. \A i, n : <<i, n>>[1] = i /\ <<i, n>>[2] = n
    OBVIOUS
  <1>31. \A i, n : At(<<i, n>>) = alts[i].parts[n]
    BY <1>30, Zenon
  <1>32. \A i \in DOMAIN alts : \A n \in DOMAIN alts[i].parts : alts[i].parts[n].store # "" => <<i, n>> \in places
    <2> SUFFICES ASSUME NEW i \in DOMAIN alts, NEW n \in DOMAIN alts[i].parts, alts[i].parts[n].store # ""
                 PROVE  <<i, n>> \in places
      OBVIOUS
    <2>1. <<i, n>> \in {i} \X DOMAIN alts[i].parts
      OBVIOUS
    <2>2. <<i, n>> \in UNION {{j} \X DOMAIN alts[j].parts : j \in DOMAIN alts}
      BY <2>1, Zenon
    <2>3. At(<<i, n>>).store # ""
      BY <1>31, Zenon
    <2> QED
      BY <2>2, <2>3, Zenon
  <1>33. \A i, n, j, m : Before(<<i, n>>, <<j, m>>) <=> i < j \/ (i = j /\ n < m)
    BY <1>30, Zenon
  <1>34. Firsts = {x \in places : \A v \in places : Before(v, x) => At(v).name # At(x).name}
    OBVIOUS
  <1> HIDE DEF places, Firsts, At, Before
  <1>4. \A w \in places : At(w) \in StoredParts(alts) /\ At(w) \in RulePart
    <2> SUFFICES ASSUME NEW w \in places PROVE At(w) \in StoredParts(alts) /\ At(w) \in RulePart
      OBVIOUS
    <2>1. PICK i \in DOMAIN alts : \E n \in DOMAIN alts[i].parts : w = <<i, n>> /\ alts[i].parts[n].store # ""
      BY <1>3
    <2>2. PICK n \in DOMAIN alts[i].parts : w = <<i, n>> /\ alts[i].parts[n].store # ""
      BY <2>1
    <2>3. At(w) = alts[i].parts[n] /\ alts[i].parts[n] \in RulePart
      BY <1>2, <1>31, <2>2
    <2>4. At(w) \in UNION {ToSet(alts[j].parts) : j \in DOMAIN alts}
      BY <2>3 DEF ToSet
    <2> QED
      BY <2>2, <2>3, <2>4 DEF StoredParts
  <1>50. PICK i \in DOMAIN alts : \E n \in DOMAIN alts[i].parts : alts[i].parts[n] = part
    BY DEF StoredParts, ToSet
  <1>5. PICK n \in DOMAIN alts[i].parts : alts[i].parts[n] = part
    BY <1>50
  <1>6. part.store # ""
    BY DEF StoredParts
  <1>7. <<i, n>> \in places /\ At(<<i, n>>) = part
    BY <1>5, <1>6, <1>31, <1>32
  <1>8. \E x \in Firsts : At(x).name = part.name
    <2> DEFINE Named(k, m) == <<k, m>> \in places /\ At(<<k, m>>).name = part.name
               I == {k \in Nat : \E m \in Nat : Named(k, m)}
    <2>0. \A k, m : Named(k, m) => k \in Nat /\ m \in Nat
      BY <1>3, Zenon
    <2>1. i \in I /\ I \in SUBSET Nat
      BY <1>7, <2>0
    <2>2. PICK k \in I : \A l \in I : k <= l
      BY <2>1, Least
    <2> DEFINE J == {m \in Nat : Named(k, m)}
    <2>3. J # {} /\ J \in SUBSET Nat
      OBVIOUS
    <2>4. PICK m \in J : \A l \in J : m <= l
      BY <2>3, Least
    <2>5. Named(k, m) /\ k \in Nat /\ m \in Nat
      OBVIOUS
    <2>6. ASSUME NEW v \in places, Before(v, <<k, m>>), At(v).name = part.name PROVE FALSE
      <3>1. PICK j \in DOMAIN alts : \E l \in DOMAIN alts[j].parts : v = <<j, l>> /\ j \in Nat /\ l \in Nat
        BY <1>3
      <3>2. PICK l \in DOMAIN alts[j].parts : v = <<j, l>> /\ j \in Nat /\ l \in Nat
        BY <3>1
      <3>3. Named(j, l)
        BY <2>6, <3>2
      <3>4. j \in I
        BY <3>2, <3>3
      <3>5. k <= j /\ (j < k \/ (j = k /\ l < m))
        BY <1>33, <2>2, <2>6, <3>2, <3>4
      <3>6. j = k /\ l < m
        BY <2>5, <3>2, <3>5
      <3>7. l \in J
        BY <3>2, <3>3, <3>6
      <3>8. m <= l
        BY <2>4, <3>7
      <3> QED
        BY <2>5, <3>2, <3>6, <3>8
    <2>7. <<k, m>> \in Firsts
      BY <1>34, <2>5, <2>6
    <2> QED
      BY <2>5, <2>7
  <1>9. Firsts \subseteq places
    BY <1>34
  <1>10. PICK q \in All : q.name = part.name
    BY <1>1, <1>8
  <1>11. All \subseteq StoredParts(alts) /\ All \subseteq RulePart
    BY <1>1, <1>4, <1>9
  <1>12. q.store = part.store
    BY <1>10, <1>11 DEF NamesAgree
  <1> DEFINE T == {y.name : y \in {x \in All : x.store = part.store}}
  <1>13. MembersOf(alts) = [s \in {y.store : y \in All} |-> TypeOf(Min({y.name : y \in {x \in All : x.store = s}}))]
    BY DEF MembersOf
  <1>14. part.store \in {y.store : y \in All}
    BY <1>12
  <1>15. T # {} /\ T \in SUBSET Nat
    <2>1. \A y \in All : y.name \in Names
      BY <1>11 DEF RulePart
    <2> QED
      BY <1>12, <2>1, NumbersAssumption
  <1>16. MembersOf(alts)[part.store] = TypeOf(Min(T))
    BY <1>13, <1>14
  <1>17. PICK y \in All : y.store = part.store /\ y.name = Min(T)
    <2>1. Min(T) \in T
      <3> HIDE DEF T
      <3> QED
        BY <1>15, MinIn
    <2> QED
      BY <2>1
  <1>18. TypeOf(y.name) = TypeOf(part.name)
    BY <1>11, <1>17 DEF NamesAgree
  <1> QED
    BY <1>13, <1>14, <1>16, <1>17, <1>18
-----------------------------------------------------------------------------
\* What an alternative stores are stored parts of the rule, each name once.
LEMMA StoredIn ==
    ASSUME NEW alts \in Seq(Alternative), NEW i \in DOMAIN alts
    PROVE  /\ Stored(alts[i].parts) \in Keys
           /\ ToSet(Stored(alts[i].parts)) \subseteq StoredParts(alts)
           /\ NamesAgree(alts) => OnceEach(Stored(alts[i].parts))
  <1>1. alts[i].parts \in Seq(RulePart)
    BY AltsTyped, NamesOfAlternative
  <1>2. ToSet(Stored(alts[i].parts)) = {x \in ToSet(alts[i].parts) : x.store # ""} /\ Stored(alts[i].parts) \in Keys
    BY <1>1, StoredSet, StoredLaw DEF Keys
  <1>3. ASSUME NamesAgree(alts) PROVE OnceEach(Stored(alts[i].parts))
    <2>1. DOMAIN alts[i].parts = 1 .. Len(alts[i].parts)
      BY <1>1
    <2>2. Apart(alts[i].parts)
      <3>1. \A m, n \in DOMAIN alts[i].parts :
                m # n /\ alts[i].parts[m].store # "" => alts[i].parts[m].store # alts[i].parts[n].store
        BY <1>3, Zenon DEF NamesAgree
      <3> QED
        BY <2>1, <3>1 DEF Apart
    <2> QED
      BY <1>1, <2>2, StoredApart
  <1> QED
    BY <1>2, <1>3 DEF StoredParts

\* What the visitors read of a node are stored parts of its rule.
LEMMA ReadIn ==
    ASSUME NEW alts \in Seq(Alternative)
    PROVE  Followed(alts) \cup Drawn(alts) \cup Shown(alts) \subseteq StoredParts(alts)
  <1> DEFINE e == EnumNames2(alts)
             of(id) == CHOOSE i \in DOMAIN alts : alts[i].id = id
  <1>1. \A id \in DOMAIN e : of(id) \in DOMAIN alts /\ e[id] = Stored(alts[of(id)].parts)
    <2> SUFFICES ASSUME NEW id \in DOMAIN e PROVE of(id) \in DOMAIN alts /\ e[id] = Stored(alts[of(id)].parts)
      OBVIOUS
    <2>1. e = [k \in {alts[i].id : i \in {j \in DOMAIN alts : Stored(alts[j].parts) # <<>>}} |-> Stored(alts[of(k)].parts)]
      BY DEF EnumNames2
    <2>2. \E i \in DOMAIN alts : alts[i].id = id
      BY <2>1
    <2>3. of(id) \in DOMAIN alts
      BY <2>2, Zenon
    <2> QED
      BY <2>1, <2>3
  <1>2. \A id \in DOMAIN e : ToSet(e[id]) \subseteq StoredParts(alts)
    BY <1>1, StoredIn
  <1>3. ASSUME NEW kind, NEW ids \in SUBSET DOMAIN e PROVE PartsOf(alts, kind, ids) \subseteq StoredParts(alts)
    <2>1. PartsOf(alts, kind, ids) \subseteq UNION {ToSet(e[id]) : id \in ids}
      BY DEF PartsOf
    <2> QED
      BY <1>2, <2>1
  <1>4. Ids2(alts) = DOMAIN e
    BY DEF Ids2
  <1> HIDE DEF e
  <1> QED
    BY <1>3, <1>4 DEF Followed, Drawn, Shown
-----------------------------------------------------------------------------
(* Bags of one copy each. *)
LEMMA BagJoin ==
    ASSUME NEW S, NEW T, S \cap T = {}
    PROVE  SetToBag(S) (+) SetToBag(T) = SetToBag(S \cup T)
  <1>1. DOMAIN SetToBag(S) = S /\ DOMAIN SetToBag(T) = T
    BY DEF SetToBag
  <1>2. \A e \in S : SetToBag(S)[e] = 1
    BY DEF SetToBag
  <1>3. \A e \in T : SetToBag(T)[e] = 1
    BY DEF SetToBag
  <1>4. \A e \in S \cup T : (IF e \in S THEN SetToBag(S)[e] ELSE 0) + (IF e \in T THEN SetToBag(T)[e] ELSE 0) = 1
    BY <1>2, <1>3
  <1>5. SetToBag(S) (+) SetToBag(T) = [e \in S \cup T |-> (IF e \in S THEN SetToBag(S)[e] ELSE 0) + (IF e \in T THEN SetToBag(T)[e] ELSE 0)]
    BY <1>1 DEF (+)
  <1> QED
    BY <1>4, <1>5 DEF SetToBag
-----------------------------------------------------------------------------
(* What is written, rule by rule. *)
AlwaysAst == LambdaFixed \cup MultiFixed \cup OutFixed \cup DotFixed \cup AstFixed
Always == AlwaysAst \cup ParserFixed

CtorsOf(alts) == Distinct(Minimized(ConstructorsOf(TrieOf(alts))))
SharedOf(r) == EnumOutput(r) \cup Accept(r) \cup Getters(r, MembersOf(grammar[r]))
Own(r) == ParserDecl(r) \cup SharedOf(r) \cup ConstructorDecl(r, CtorsOf(grammar[r]))
OwnDef(r) == ParserDef(r) \cup SharedOf(r) \cup ConstructorDef(r, CtorsOf(grammar[r]))
                 \cup MultiDef(r) \cup OutDef(r) \cup DotVisitDef(r) \cup DotLeaveDef(r)

AllAhead == UNION {Ahead(r) : r \in Rules}
AllAheadDef == UNION {AheadDef(r) : r \in Rules}
AllOwn(done) == UNION {Own(r) : r \in done}
AllOwnDef(done) == UNION {OwnDef(r) : r \in done}
Decls(done) == Always \cup AllAhead \cup AllOwn(done)
Defs(done) == Always \cup AllAheadDef \cup AllOwnDef(done)

\* What the files hold when the code of some rules has been written.
LEMMA InFiles ==
    ASSUME NEW done, NEW e
    PROVE  /\ e \in Decls(done) <=> \/ e \in Always
                                    \/ \E r \in Rules : e \in Ahead(r)
                                    \/ \E r \in done : e \in Own(r)
           /\ e \in Defs(done) <=> \/ e \in Always
                                   \/ \E r \in Rules : e \in AheadDef(r)
                                   \/ \E r \in done : e \in OwnDef(r)
  <1>1. e \in AllAhead <=> \E r \in Rules : e \in Ahead(r)
    BY Zenon DEF AllAhead
  <1>2. e \in AllOwn(done) <=> \E r \in done : e \in Own(r)
    BY Zenon DEF AllOwn
  <1>3. e \in AllAheadDef <=> \E r \in Rules : e \in AheadDef(r)
    BY Zenon DEF AllAheadDef
  <1>4. e \in AllOwnDef(done) <=> \E r \in done : e \in OwnDef(r)
    BY Zenon DEF AllOwnDef
  <1> QED
    BY <1>1, <1>2, <1>3, <1>4 DEF Decls, Defs

\* A member function is written as a quadruple.
LEMMA Quadruple == \A a, b, c, d, e : e = <<a, b, c, d>> => e[1] = a /\ e[2] = b /\ e[3] = c
  OBVIOUS

\* A quadruple is in a product when its parts are in the factors.
LEMMA Product ==
    ASSUME NEW A, NEW B, NEW C, NEW D, NEW e \in A \X B \X C \X D
    PROVE  e[1] \in A /\ e[2] \in B /\ e[3] \in C /\ e[4] \in D /\ e = <<e[1], e[2], e[3], e[4]>>
  OBVIOUS

\* The third of a member is its rule, and the classes tell the rest apart.
LEMMA MembersTyped ==
    ASSUME NEW r
    PROVE  /\ \A e \in Ahead(r) : e[3] = r /\ e[1] \in {"Visitor", "LambdaVisitor", "MultiVisitor", "StdOutVisitor", "DotVisitor"}
           /\ \A e \in AheadDef(r) : e[3] = r /\ e[1] \in {"Visitor", "LambdaVisitor"}
           /\ \A e \in Own(r) : e[3] = r /\ e[1] \in {"Parser", "Ast", ""}
           /\ \A e \in OwnDef(r) : e[3] = r /\ e[1] \in {"Parser", "Ast", "", "MultiVisitor", "StdOutVisitor", "DotVisitor"}
  <1>1. \A c : \A e \in Visits(c, r) : e[3] = r /\ e[1] = c
    <2> SUFFICES ASSUME NEW c, NEW e \in Visits(c, r) PROVE e[3] = r /\ e[1] = c
      OBVIOUS
    <2>1. e \in {c} \X {"visit", "leave"} \X {r} \X Forms
      BY DEF Visits
    <2>2. e[1] \in {c} /\ e[3] \in {r}
      BY <2>1, Product
    <2> QED
      BY <2>2
  <1>2. \A e \in Ahead(r) : e[3] = r /\ e[1] \in {"Visitor", "LambdaVisitor", "MultiVisitor", "StdOutVisitor", "DotVisitor"}
    BY <1>1 DEF Ahead, VisitorDecl, LambdaDecl, MultiDecl, OutDecl, DotDecl
  <1>3. \A e \in AheadDef(r) : e[3] = r /\ e[1] \in {"Visitor", "LambdaVisitor"}
    BY <1>1 DEF AheadDef, VisitorDef, LambdaDef
  <1>4. \A e \in ParserDecl(r) : e[3] = r /\ e[1] = "Parser"
    <2> SUFFICES ASSUME NEW e \in ParserDecl(r) PROVE e[3] = r /\ e[1] = "Parser"
      OBVIOUS
    <2>1. \E m, o : e = <<"Parser", m, r, o>>
      BY DEF ParserDecl
    <2> QED
      BY <2>1, Quadruple
  <1>5. \A e \in SharedOf(r) : e[3] = r /\ e[1] \in {"Ast", ""}
    <2>1. \A e \in EnumOutput(r) : e[3] = r /\ e[1] \in {"Ast", ""}
      <3> SUFFICES ASSUME NEW e \in EnumOutput(r) PROVE e[3] = r /\ e[1] \in {"Ast", ""}
        OBVIOUS
      <3>1. \E c \in {"Ast", ""} : \E m, o : e = <<c, m, r, o>>
        BY DEF EnumOutput
      <3>2. PICK c \in {"Ast", ""} : \E m, o : e = <<c, m, r, o>>
        BY <3>1
      <3>3. PICK m, o : e = <<c, m, r, o>>
        BY <3>2
      <3>4. e[3] = r /\ e[1] = c
        BY <3>3, Quadruple
      <3> QED
        BY <3>4
    <2>2. \A ms : \A e \in Getters(r, ms) : e[3] = r /\ e[1] = "Ast"
      <3> SUFFICES ASSUME NEW ms, NEW e \in Getters(r, ms) PROVE e[3] = r /\ e[1] = "Ast"
        OBVIOUS
      <3>1. \E m, o : e = <<"Ast", m, r, o>>
        BY DEF Getters
      <3> QED
        BY <3>1, Quadruple
    <2>3. \A e \in Accept(r) : e[3] = r /\ e[1] = "Ast"
      <3> SUFFICES ASSUME NEW e \in Accept(r) PROVE e[3] = r /\ e[1] = "Ast"
        OBVIOUS
      <3>1. \E m, o : e = <<"Ast", m, r, o>>
        BY DEF Accept
      <3> QED
        BY <3>1, Quadruple
    <2> QED
      BY <2>1, <2>2, <2>3 DEF SharedOf
  <1>6. \A c : \A e \in Constructors(r, c) : e[3] = r /\ e[1] = "Ast"
    <2> SUFFICES ASSUME NEW c, NEW e \in Constructors(r, c) PROVE e[3] = r /\ e[1] = "Ast"
      OBVIOUS
    <2>1. \E m, o : e = <<"Ast", m, r, o>>
      BY DEF Constructors
    <2> QED
      BY <2>1, Quadruple
  <1>7. \A e \in DotVisitDef(r) \cup DotLeaveDef(r) : e[3] = r /\ e[1] = "DotVisitor"
    <2>1. \A e \in {"DotVisitor"} \X {"visit"} \X {r} \X Forms : e[1] \in {"DotVisitor"} /\ e[3] \in {r}
      BY Product
    <2>2. \A m, o : \A e \in {<<"DotVisitor", m, r, o>>} : e[3] = r /\ e[1] = "DotVisitor"
      BY Quadruple
    <2>3. DotVisitDef(r) \cup DotLeaveDef(r) = ({"DotVisitor"} \X {"visit"} \X {r} \X Forms)
              \cup {<<"DotVisitor", "leave", r, "">>} \cup {<<"DotVisitor", "leave", r, "const">>}
      BY DEF DotVisitDef, DotLeaveDef
    <2>4. \A e \in {"DotVisitor"} \X {"visit"} \X {r} \X Forms : e[1] = "DotVisitor" /\ e[3] = r
      BY <2>1
    <2>5. \A e \in {<<"DotVisitor", "leave", r, "">>} : e[3] = r /\ e[1] = "DotVisitor"
      BY <2>2, Zenon
    <2>6. \A e \in {<<"DotVisitor", "leave", r, "const">>} : e[3] = r /\ e[1] = "DotVisitor"
      BY <2>2, Zenon
    <2> QED
      BY <2>3, <2>4, <2>5, <2>6, Zenon
  <1>8. \A e \in Own(r) : e[3] = r /\ e[1] \in {"Parser", "Ast", ""}
    BY <1>4, <1>5, <1>6 DEF Own, ConstructorDecl
  <1>9. \A e \in OwnDef(r) : e[3] = r /\ e[1] \in {"Parser", "Ast", "", "MultiVisitor", "StdOutVisitor", "DotVisitor"}
    BY <1>1, <1>4, <1>5, <1>6, <1>7 DEF OwnDef, ParserDef, ConstructorDef, MultiDef, OutDef
  <1> QED
    BY <1>2, <1>3, <1>8, <1>9

\* What is written whatever the grammar.
LEMMA FixedTyped ==
    /\ \A e \in Always : e[3] = 0 /\ e[1] \in {"LambdaVisitor", "MultiVisitor", "StdOutVisitor", "DotVisitor", "AstNode", "", "Parser"}
    /\ \A e \in ParserFixed : e[3] = 0 /\ e[1] = "Parser"
    /\ \A e \in AlwaysAst : e[3] = 0 /\ e[1] # "Parser"
    /\ \A e \in ErrorFixed : e[3] = 0 /\ e[1] \in {"ParseException", "ErrorType"}
    /\ \A e \in GetError : e[3] = 0 /\ e[1] = "" /\ e[2] = "getError"
    /\ \A e \in Always : e[1] = "" => e[2] = "getNextAstId"
  <1>1. \A c, m : \A e \in Fixed(c, m) : e[3] = 0 /\ e[1] = c /\ e[2] \in m
    <2> SUFFICES ASSUME NEW c, NEW m, NEW e \in Fixed(c, m) PROVE e[3] = 0 /\ e[1] = c /\ e[2] \in m
      OBVIOUS
    <2>1. e \in {c} \X m \X {0} \X {""}
      BY DEF Fixed
    <2>2. e[1] \in {c} /\ e[2] \in m /\ e[3] \in {0}
      BY <2>1, Product
    <2> QED
      BY <2>2
  <1>2. /\ \A e \in LambdaFixed : e[3] = 0 /\ e[1] = "LambdaVisitor"
        /\ \A e \in MultiFixed : e[3] = 0 /\ e[1] = "MultiVisitor"
        /\ \A e \in OutFixed : e[3] = 0 /\ e[1] = "StdOutVisitor"
        /\ \A e \in DotFixed : e[3] = 0 /\ e[1] = "DotVisitor"
    <2>1. \A e \in LambdaFixed : e[3] = 0 /\ e[1] = "LambdaVisitor"
      <3> DEFINE M == {"LambdaVisitor(f)", "LambdaVisitor(f,cf)"}
      <3>1. \A e \in Fixed("LambdaVisitor", M) : e[3] = 0 /\ e[1] = "LambdaVisitor" /\ e[2] \in M
        BY <1>1
      <3> QED
        BY <3>1 DEF LambdaFixed
    <2>2. \A e \in MultiFixed : e[3] = 0 /\ e[1] = "MultiVisitor"
      <3> DEFINE M == {"addVisitor", "getVisitor", "getVisitor const"}
      <3>1. \A e \in Fixed("MultiVisitor", M) : e[3] = 0 /\ e[1] = "MultiVisitor" /\ e[2] \in M
        BY <1>1
      <3> QED
        BY <3>1 DEF MultiFixed
    <2>3. \A e \in OutFixed : e[3] = 0 /\ e[1] = "StdOutVisitor"
      <3> DEFINE M == {"StdOutVisitor", "makeIndent", "incrementIndent", "decrementIndent"}
      <3>1. \A e \in Fixed("StdOutVisitor", M) : e[3] = 0 /\ e[1] = "StdOutVisitor" /\ e[2] \in M
        BY <1>1
      <3> QED
        BY <3>1 DEF OutFixed
    <2>4. \A e \in DotFixed : e[3] = 0 /\ e[1] = "DotVisitor"
      <3> DEFINE M == {"DotVisitor", "~DotVisitor", "writeHeader"}
      <3>1. \A e \in Fixed("DotVisitor", M) : e[3] = 0 /\ e[1] = "DotVisitor" /\ e[2] \in M
        BY <1>1
      <3> QED
        BY <3>1 DEF DotFixed
    <2> QED
      BY <2>1, <2>2, <2>3, <2>4
  <1>3. \A e \in AstFixed : e[3] = 0 /\ e[1] \in {"AstNode", ""} /\ (e[1] = "" => e[2] = "getNextAstId")
    <2> SUFFICES ASSUME NEW e \in AstFixed
                 PROVE  e[3] = 0 /\ e[1] \in {"AstNode", ""} /\ (e[1] = "" => e[2] = "getNextAstId")
      OBVIOUS
    <2>1. \/ \E m : e \in Fixed("AstNode", m)
          \/ e \in Fixed("", {"getNextAstId"})
      BY DEF AstFixed
    <2>2. e[3] = 0 /\ (e[1] = "AstNode" \/ (e[1] = "" /\ e[2] \in {"getNextAstId"}))
      <3>1. CASE \E m : e \in Fixed("AstNode", m)
        <4>1. PICK m : e \in Fixed("AstNode", m)
          BY <3>1
        <4>2. e[3] = 0 /\ e[1] = "AstNode"
          <5>1. \A d \in Fixed("AstNode", m) : d[3] = 0 /\ d[1] = "AstNode" /\ d[2] \in m
            BY <1>1
          <5> QED
            BY <4>1, <5>1
        <4> QED
          BY <4>2
      <3>2. CASE e \in Fixed("", {"getNextAstId"})
        <4>1. e[3] = 0 /\ e[1] = "" /\ e[2] \in {"getNextAstId"}
          BY <1>1, <3>2
        <4> QED
          BY <4>1
      <3> QED
        BY <2>1, <3>1, <3>2
    <2>3. "AstNode" # ""
      OBVIOUS
    <2> QED
      BY <2>2, <2>3
  <1>4. \A e \in ParserFixed : e[3] = 0 /\ e[1] = "Parser"
    <2> DEFINE M == {"Parser", "nextToken"}
    <2>1. \A e \in Fixed("Parser", M) : e[3] = 0 /\ e[1] = "Parser" /\ e[2] \in M
      BY <1>1
    <2> QED
      BY <2>1 DEF ParserFixed
  <1>5. \A e \in ErrorFixed : e[3] = 0 /\ e[1] \in {"ParseException", "ErrorType"}
    BY <1>1 DEF ErrorFixed
  <1>6. \A e \in GetError : e[3] = 0 /\ e[1] = "" /\ e[2] = "getError"
    BY <1>1 DEF GetError
  <1>7. \A e \in AlwaysAst : e[3] = 0 /\ e[1] # "Parser"
    BY <1>2, <1>3 DEF AlwaysAst
  <1>8. \A e \in Always : e[3] = 0 /\ e[1] \in {"LambdaVisitor", "MultiVisitor", "StdOutVisitor", "DotVisitor", "AstNode", "", "Parser"}
    BY <1>2, <1>3, <1>4 DEF Always, AlwaysAst
  <1>9. \A e \in Always : e[1] = "" => e[2] = "getNextAstId"
    BY <1>2, <1>3, <1>4 DEF Always, AlwaysAst
  <1> QED
    BY <1>4, <1>5, <1>6, <1>7, <1>8, <1>9

\* No rule is the number of Token.
LEMMA NoRuleIsZero == \A r \in Rules : r # 0
  BY NumbersAssumption DEF Names

\* leave() is written of a rule in two forms.
LEMMA LeaveForms ==
    ASSUME NEW V, NEW r
    PROVE  {V} \X {"leave"} \X {r} \X Forms = {<<V, "leave", r, "">>} \cup {<<V, "leave", r, "const">>}
  <1> DEFINE P == {V} \X {"leave"} \X {r} \X Forms
             t == <<V, "leave", r, "">>
             c == <<V, "leave", r, "const">>
  <1>1. t \in P /\ c \in P
    BY DEF Forms
  <1>2. ASSUME NEW e \in P PROVE e = t \/ e = c
    <2>1. e[1] \in {V} /\ e[2] \in {"leave"} /\ e[3] \in {r} /\ e[4] \in Forms /\ e = <<e[1], e[2], e[3], e[4]>>
      BY Product
    <2>2. e[4] = "" \/ e[4] = "const"
      BY <2>1 DEF Forms
    <2>3. e = <<V, "leave", r, e[4]>>
      BY <2>1
    <2> QED
      BY <2>2, <2>3
  <1> HIDE DEF P, t, c
  <1>3. P = {t} \cup {c}
    BY <1>1, <1>2
  <1> QED
    BY <1>3 DEF P, t, c

\* Over all rules what is declared is what is defined.
LEMMA DeclsAreDefs == Decls(Rules) = Defs(Rules)
  <1>1. \A r : DotDecl(r) = DotVisitDef(r) \cup DotLeaveDef(r)
    <2> SUFFICES ASSUME NEW r PROVE DotDecl(r) = DotVisitDef(r) \cup DotLeaveDef(r)
      OBVIOUS
    <2>1. ASSUME NEW A, NEW B, NEW C
          PROVE  A \X {"visit", "leave"} \X B \X C = (A \X {"visit"} \X B \X C) \cup (A \X {"leave"} \X B \X C)
      OBVIOUS
    <2> DEFINE A == {"DotVisitor"}
               P == A \X {"visit"} \X {r} \X Forms
               Q == A \X {"leave"} \X {r} \X Forms
    <2>3. Q = {<<"DotVisitor", "leave", r, "">>} \cup {<<"DotVisitor", "leave", r, "const">>}
      BY LeaveForms
    <2>4. DotDecl(r) = P \cup Q
      BY <2>1, Zenon DEF DotDecl, Visits
    <2>5. DotVisitDef(r) = P \cup {<<"DotVisitor", "leave", r, "">>} /\ DotLeaveDef(r) = {<<"DotVisitor", "leave", r, "const">>}
      BY Zenon DEF DotVisitDef, DotLeaveDef
    <2> HIDE DEF P, Q
    <2> QED
      BY <2>3, <2>4, <2>5
  <1>2. \A r : Ahead(r) \cup Own(r) = AheadDef(r) \cup OwnDef(r)
    BY <1>1 DEF Ahead, Own, AheadDef, OwnDef, VisitorDecl, VisitorDef, LambdaDecl, LambdaDef, MultiDecl, MultiDef,
                OutDecl, OutDef, ParserDef, ConstructorDecl, ConstructorDef
  <1>3. \A e : e \in Decls(Rules) <=> e \in Always \/ \E r \in Rules : e \in Ahead(r) \cup Own(r)
    BY InFiles
  <1>4. \A e : e \in Defs(Rules) <=> e \in Always \/ \E r \in Rules : e \in AheadDef(r) \cup OwnDef(r)
    BY InFiles
  <1>5. \A e : e \in Decls(Rules) <=> e \in Defs(Rules)
    BY <1>2, <1>3, <1>4, Zenon
  <1> QED
    BY <1>5

\* One rule more.
LEMMA OneRuleMore ==
    ASSUME NEW done \in SUBSET Rules, NEW r \in Rules \ done
    PROVE  /\ SetToBag(Decls(done)) (+) SetToBag(Own(r)) = SetToBag(Decls(done \cup {r}))
           /\ SetToBag(Defs(done)) (+) SetToBag(OwnDef(r)) = SetToBag(Defs(done \cup {r}))
  <1>1. Decls(done) \cup Own(r) = Decls(done \cup {r})
    <2>1. \A e : e \in Decls(done \cup {r}) <=> e \in Decls(done) \/ e \in Own(r)
      BY InFiles
    <2> QED
      BY <2>1
  <1>2. Defs(done) \cup OwnDef(r) = Defs(done \cup {r})
    <2>1. \A e : e \in Defs(done \cup {r}) <=> e \in Defs(done) \/ e \in OwnDef(r)
      BY InFiles
    <2> QED
      BY <2>1
  <1>3. Decls(done) \cap Own(r) = {}
    <2> SUFFICES ASSUME NEW e \in Decls(done), e \in Own(r) PROVE FALSE
      OBVIOUS
    <2>1. e[3] = r /\ e[1] \in {"Parser", "Ast", ""}
      BY MembersTyped
    <2>2. CASE e \in Always
      BY <2>1, <2>2, FixedTyped, NoRuleIsZero
    <2>3. CASE \E q \in Rules : e \in Ahead(q)
      BY <2>1, <2>3, MembersTyped
    <2>4. CASE \E q \in done : e \in Own(q)
      <3>1. PICK q \in done : e \in Own(q)
        BY <2>4
      <3>2. e[3] = q
        BY <3>1, MembersTyped
      <3> QED
        BY <2>1, <3>2
    <2> QED
      BY <2>2, <2>3, <2>4, InFiles
  <1>4. Defs(done) \cap OwnDef(r) = {}
    <2> SUFFICES ASSUME NEW e \in Defs(done), e \in OwnDef(r) PROVE FALSE
      OBVIOUS
    <2>1. e[3] = r /\ e[1] \in {"Parser", "Ast", "", "MultiVisitor", "StdOutVisitor", "DotVisitor"}
      BY MembersTyped
    <2>2. CASE e \in Always
      BY <2>1, <2>2, FixedTyped, NoRuleIsZero
    <2>3. CASE \E q \in Rules : e \in AheadDef(q)
      BY <2>1, <2>3, MembersTyped
    <2>4. CASE \E q \in done : e \in OwnDef(q)
      <3>1. PICK q \in done : e \in OwnDef(q)
        BY <2>4
      <3>2. e[3] = q
        BY <3>1, MembersTyped
      <3> QED
        BY <2>1, <3>2
    <2> QED
      BY <2>2, <2>3, <2>4, InFiles
  <1> QED
    BY <1>1, <1>2, <1>3, <1>4, BagJoin

\* The first files, and the last.
LEMMA FirstFiles ==
    /\ EmptyBag (+) SetToBag(AllAhead \cup AlwaysAst) (+) SetToBag(ParserFixed) = SetToBag(Decls({}))
    /\ EmptyBag (+) SetToBag(AllAheadDef \cup AlwaysAst) (+) SetToBag(ParserFixed) = SetToBag(Defs({}))
  <1> DEFINE A == AllAhead \cup AlwaysAst
             B == AllAheadDef \cup AlwaysAst
  <1>1. A \cup ParserFixed = Decls({}) /\ B \cup ParserFixed = Defs({})
    <2>1. AllOwn({}) = {} /\ AllOwnDef({}) = {}
      BY DEF AllOwn, AllOwnDef
    <2> QED
      BY <2>1 DEF Decls, Defs, Always
  <1>2. A \cap ParserFixed = {} /\ B \cap ParserFixed = {}
    <2>1. \A e \in ParserFixed : e[3] = 0 /\ e[1] = "Parser"
      BY FixedTyped
    <2>2. \A e \in AlwaysAst : e[1] # "Parser"
      BY FixedTyped
    <2>3. ASSUME NEW r \in Rules, NEW e \in Ahead(r) \cup AheadDef(r) PROVE e[3] # 0
      <3>1. e[3] = r
        BY MembersTyped
      <3> QED
        BY <3>1, NoRuleIsZero
    <2>4. \A e \in AllAhead : e[3] # 0
      <3>1. \A e \in AllAhead : \E r \in Rules : e \in Ahead(r)
        BY Zenon DEF AllAhead
      <3> QED
        BY <2>3, <3>1
    <2>5. \A e \in AllAheadDef : e[3] # 0
      <3>1. \A e \in AllAheadDef : \E r \in Rules : e \in AheadDef(r)
        BY Zenon DEF AllAheadDef
      <3> QED
        BY <2>3, <3>1
    <2> QED
      BY <2>1, <2>2, <2>4, <2>5
  <1> HIDE DEF A, B
  <1>3. \A S : EmptyBag (+) SetToBag(S) = SetToBag(S)
    <2> SUFFICES ASSUME NEW S PROVE EmptyBag (+) SetToBag(S) = SetToBag(S)
      OBVIOUS
    <2>1. {} \cap S = {} /\ {} \cup S = S
      OBVIOUS
    <2> QED
      BY <2>1, BagJoin DEF EmptyBag
  <1>5. SetToBag(A) (+) SetToBag(ParserFixed) = SetToBag(Decls({})) /\ SetToBag(B) (+) SetToBag(ParserFixed) = SetToBag(Defs({}))
    BY <1>1, <1>2, BagJoin
  <1> QED
    BY <1>3, <1>5 DEF A, B

\* The error class comes last, and nothing of it was there before.
LEMMA LastFiles ==
    /\ SetToBag(Decls(Rules)) (+) SetToBag(ErrorFixed \cup GetError) = SetToBag(Decls(Rules) \cup ErrorFixed \cup GetError)
    /\ SetToBag(Defs(Rules)) (+) SetToBag(ErrorFixed) = SetToBag(Defs(Rules) \cup ErrorFixed)
    /\ SetToBag(Defs(Rules) \cup ErrorFixed) (+) SetToBag(GetError) = SetToBag(Defs(Rules) \cup ErrorFixed \cup GetError)
  <1>1. \A e \in Defs(Rules) : e[3] = 0 => e \in Always
    <2>1. ASSUME NEW r \in Rules, NEW e \in AheadDef(r) \cup OwnDef(r) PROVE e[3] # 0
      <3>1. e[3] = r
        BY MembersTyped
      <3> QED
        BY <3>1, NoRuleIsZero
    <2> QED
      BY <2>1, InFiles
  <1>2. Defs(Rules) \cap (ErrorFixed \cup GetError) = {}
    <2>1. Always \cap ErrorFixed = {}
      BY FixedTyped
    <2>2. Always \cap GetError = {}
      <3> SUFFICES ASSUME NEW e \in Always, e \in GetError PROVE FALSE
        OBVIOUS
      <3>1. e[1] = "" /\ e[2] = "getError"
        BY FixedTyped
      <3>2. e[2] = "getNextAstId"
        BY <3>1, FixedTyped
      <3> QED
        BY <3>1, <3>2
    <2>3. \A e \in ErrorFixed \cup GetError : e[3] = 0
      BY FixedTyped
    <2> QED
      BY <1>1, <2>1, <2>2, <2>3
  <1>3. ErrorFixed \cap GetError = {}
    BY FixedTyped
  <1> DEFINE D == Defs(Rules)
  <1>4. D \cap (ErrorFixed \cup GetError) = {} /\ D \cap ErrorFixed = {} /\ (D \cup ErrorFixed) \cap GetError = {}
    BY <1>2, <1>3
  <1> HIDE DEF D
  <1>5. /\ SetToBag(D) (+) SetToBag(ErrorFixed \cup GetError) = SetToBag(D \cup (ErrorFixed \cup GetError))
        /\ SetToBag(D) (+) SetToBag(ErrorFixed) = SetToBag(D \cup ErrorFixed)
        /\ SetToBag(D \cup ErrorFixed) (+) SetToBag(GetError) = SetToBag((D \cup ErrorFixed) \cup GetError)
    BY <1>4, BagJoin
  <1>6. D \cup (ErrorFixed \cup GetError) = D \cup ErrorFixed \cup GetError
    OBVIOUS
  <1>7. Decls(Rules) = D
    BY DeclsAreDefs DEF D
  <1> QED
    BY <1>5, <1>6, <1>7 DEF D
-----------------------------------------------------------------------------
(* What has been written of a rule. *)
Errors == [rule : Rules, part : Names, depth : Nat, possible : SUBSET Names]
Written(c, r) ==
    LET trie == TrieOf(grammar[r])
    IN /\ c.parse[r].trie = trie
       /\ c.class[r] = [constructors |-> CtorsOf(grammar[r]), members |-> MembersOf(grammar[r]), enum |-> EnumOf(grammar[r])]
       /\ c.lookAhead[r] = first[r]
       /\ \A p \in Dead(trie) : /\ c.parse[r].throws[p] \in 1 .. Len(c.errors)
                                /\ c.errors[c.parse[r].throws[p]] = ErrorAt(r, trie, p)

Code(c) == /\ c = [declared |-> c.declared, defined |-> c.defined, errors |-> c.errors,
                   lookAhead |-> c.lookAhead, parse |-> c.parse, class |-> c.class]
           /\ c.errors \in Seq(Errors)
           /\ DOMAIN c.parse \subseteq Rules
           /\ DOMAIN c.class = DOMAIN c.parse /\ DOMAIN c.lookAhead = DOMAIN c.parse
           /\ \A r \in DOMAIN c.parse : Written(c, r)

Complete(c) == /\ DOMAIN c.parse = Rules
               /\ c.declared = SetToBag(Decls(Rules) \cup ErrorFixed \cup GetError)
               /\ c.defined = SetToBag(Defs(Rules) \cup ErrorFixed)

CodeOK == /\ Code(code)
          /\ phase \in {"first", "forward"} => GenInit
          /\ phase = "forward" => at = 1
          /\ phase = "rules" => /\ DOMAIN code.parse = {entries[i].name : i \in 1 .. at - 1}
                                /\ code.declared = SetToBag(Decls(DOMAIN code.parse))
                                /\ code.defined = SetToBag(Defs(DOMAIN code.parse))
          /\ phase = "parse" => Complete(code)

\* A rule has alternatives.
LEMMA GrammarTyped ==
    ASSUME GrammarOK, NEW r \in Rules
    PROVE  grammar[r] \in Seq(Alternative) /\ grammar[r] # <<>>
  BY DEF GrammarOK

\* The hash table has an entry of each rule.
LEMMA EntriesAreRules ==
    ASSUME GrammarOK, FirstTypeOK
    PROVE  {entries[i].name : i \in 1 .. Len(entries)} = Rules
  <1>1. entries \in Seq(Entry)
    BY DEF FirstTypeOK
  <1>2. \A i \in 1 .. Len(entries) : entries[i].name \in Rules
    <2>1. \A i \in 1 .. Len(entries) : entries[i] \in Entry
      BY <1>1
    <2> QED
      BY <2>1 DEF Entry
  <1>3. ASSUME NEW r \in Rules PROVE \E i \in 1 .. Len(entries) : entries[i].name = r
    <2>1. 1 \in DOMAIN grammar[r]
      BY GrammarTyped, EmptySeq
    <2> DEFINE Of(q) == {[name |-> q, front |-> grammar[q][i].parts[1].name] : i \in DOMAIN grammar[q]}
               e == [name |-> r, front |-> grammar[r][1].parts[1].name]
    <2>2. e \in Of(r)
      BY <2>1
    <2>3. ToSet(entries) = UNION {Of(q) : q \in Rules}
      BY DEF GrammarOK
    <2>5. e.name = r
      OBVIOUS
    <2> HIDE DEF Of, e
    <2>6. e \in ToSet(entries)
      BY <2>2, <2>3
    <2>4. PICK i \in DOMAIN entries : entries[i] = e
      BY <2>6, Zenon DEF ToSet
    <2> QED
      BY <1>1, <2>4, <2>5
  <1> QED
    BY <1>2, <1>3

\* The code of one more rule.
LEMMA GenRuleOK ==
    ASSUME GrammarOK, Code(code), NEW r \in Rules, r \notin DOMAIN code.parse, GenRule(r)
    PROVE  LET d == code' IN
           /\ Code(d) /\ DOMAIN d.parse = DOMAIN code.parse \cup {r}
           /\ d.declared = code.declared (+) SetToBag(Own(r))
           /\ d.defined = code.defined (+) SetToBag(OwnDef(r))
  <1> DEFINE d == code'
             c == code
             alts == grammar[r]
             trie == TrieOf(alts)
             new == NewErrors(r, trie)
  <1>1. alts \in Seq(Alternative)
    BY GrammarTyped
  <1>2. /\ d = [declared |-> c.declared (+) SetToBag(Own(r)), defined |-> c.defined (+) SetToBag(OwnDef(r)),
                errors |-> c.errors \o new, lookAhead |-> WithRule(c.lookAhead, r, first[r]),
                parse |-> WithRule(c.parse, r, ParseFunction(r, trie)),
                class |-> WithRule(c.class, r, [constructors |-> CtorsOf(alts), members |-> MembersOf(alts), enum |-> EnumOf(alts)])]
    <2>1. ParserDecl(r) \cup (EnumOutput(r) \cup Accept(r) \cup Getters(r, MembersOf(alts))) \cup ConstructorDecl(r, CtorsOf(alts)) = Own(r)
      BY Zenon DEF Own, SharedOf
    <2>2. ParserDef(r) \cup (EnumOutput(r) \cup Accept(r) \cup Getters(r, MembersOf(alts))) \cup ConstructorDef(r, CtorsOf(alts))
              \cup MultiDef(r) \cup OutDef(r) \cup DotVisitDef(r) \cup DotLeaveDef(r) = OwnDef(r)
      BY Zenon DEF OwnDef, SharedOf
    <2> QED
      BY <2>1, <2>2, Zenon DEF GenRule, CtorsOf
  <1> HIDE DEF d, new, trie, alts
  <1>3. /\ d.declared = c.declared (+) SetToBag(Own(r)) /\ d.defined = c.defined (+) SetToBag(OwnDef(r))
        /\ d.errors = c.errors \o new /\ d.lookAhead = WithRule(c.lookAhead, r, first[r])
        /\ d.parse = WithRule(c.parse, r, ParseFunction(r, trie))
        /\ d.class = WithRule(c.class, r, [constructors |-> CtorsOf(alts), members |-> MembersOf(alts), enum |-> EnumOf(alts)])
        /\ d = [declared |-> d.declared, defined |-> d.defined, errors |-> d.errors,
                lookAhead |-> d.lookAhead, parse |-> d.parse, class |-> d.class]
    BY <1>2
  <1> DEFINE PF == ParseFunction(r, trie)
             CL == [constructors |-> CtorsOf(alts), members |-> MembersOf(alts), enum |-> EnumOf(alts)]
             LA == first[r]
  <1>4. d.parse = WithRule(c.parse, r, PF) /\ d.class = WithRule(c.class, r, CL) /\ d.lookAhead = WithRule(c.lookAhead, r, LA)
    BY <1>3
  <1> HIDE DEF PF, CL, LA
  <1>14. /\ DOMAIN d.parse = DOMAIN c.parse \cup {r} /\ d.parse[r] = PF /\ \A q \in DOMAIN c.parse : q # r => d.parse[q] = c.parse[q]
         /\ DOMAIN d.class = DOMAIN c.class \cup {r} /\ d.class[r] = CL /\ \A q \in DOMAIN c.class : q # r => d.class[q] = c.class[q]
         /\ DOMAIN d.lookAhead = DOMAIN c.lookAhead \cup {r} /\ d.lookAhead[r] = LA
         /\ \A q \in DOMAIN c.lookAhead : q # r => d.lookAhead[q] = c.lookAhead[q]
    <2> DEFINE dp == d.parse
               dc == d.class
               dl == d.lookAhead
               cp == c.parse
               cc == c.class
               cl == c.lookAhead
    <2>0. dp = WithRule(cp, r, PF) /\ dc = WithRule(cc, r, CL) /\ dl = WithRule(cl, r, LA)
      BY <1>4
    <2> HIDE DEF dp, dc, dl, cp, cc, cl
    <2>1. DOMAIN dp = DOMAIN cp \cup {r} /\ dp[r] = PF /\ \A q \in DOMAIN cp : q # r => dp[q] = cp[q]
      BY <2>0 DEF WithRule
    <2>2. DOMAIN dc = DOMAIN cc \cup {r} /\ dc[r] = CL /\ \A q \in DOMAIN cc : q # r => dc[q] = cc[q]
      BY <2>0 DEF WithRule
    <2>3. DOMAIN dl = DOMAIN cl \cup {r} /\ dl[r] = LA /\ \A q \in DOMAIN cl : q # r => dl[q] = cl[q]
      BY <2>0 DEF WithRule
    <2> QED
      BY <2>1, <2>2, <2>3 DEF dp, dc, dl, cp, cc, cl
  <1>5. /\ DOMAIN d.parse = {r} \cup DOMAIN c.parse /\ DOMAIN d.class = {r} \cup DOMAIN c.class /\ DOMAIN d.lookAhead = {r} \cup DOMAIN c.lookAhead
        /\ d.parse[r] = ParseFunction(r, trie) /\ d.lookAhead[r] = first[r]
        /\ d.class[r] = [constructors |-> CtorsOf(alts), members |-> MembersOf(alts), enum |-> EnumOf(alts)]
    BY <1>14 DEF PF, CL, LA
  <1>6. \A q \in DOMAIN c.parse : q # r /\ d.parse[q] = c.parse[q] /\ d.class[q] = c.class[q] /\ d.lookAhead[q] = c.lookAhead[q]
    BY <1>14 DEF Code
  <1>7. new \in Seq(Errors)
    <2>1. Throwing(trie) \in Seq(Dead(trie))
      BY <1>1, ThrowingSet DEF trie
    <2>2. \A p \in Dead(trie) : ErrorAt(r, trie, p) \in Errors
      <3> SUFFICES ASSUME NEW p \in Dead(trie) PROVE ErrorAt(r, trie, p) \in Errors
        OBVIOUS
      <3>1. p \in Seq(Names)
        BY <1>1, NodesTyped DEF Dead, trie
      <3>2. Len(p) + 1 \in Nat
        BY <3>1
      <3>3. (IF p = <<>> THEN r ELSE Last(p)) \in Names
        <4>1. CASE p = <<>>
          BY <4>1 DEF Names
        <4>2. CASE p # <<>>
          <5>1. Len(p) \in 1 .. Len(p)
            BY <3>1, <4>2, EmptySeq
          <5> QED
            BY <3>1, <4>2, <5>1 DEF Last
        <4> QED
          BY <4>1, <4>2
      <3>4. Children(trie, p) \in SUBSET Names
        BY DEF Children
      <3> QED
        BY <3>2, <3>3, <3>4 DEF ErrorAt, Errors
    <2>3. new = [i \in DOMAIN Throwing(trie) |-> ErrorAt(r, trie, Throwing(trie)[i])]
      BY DEF NewErrors, new
    <2> DEFINE s == Throwing(trie)
    <2> HIDE DEF s
    <2>4. DOMAIN s = 1 .. Len(s) /\ Len(s) \in Nat /\ \A i \in 1 .. Len(s) : s[i] \in Dead(trie)
      BY <2>1 DEF s
    <2> QED
      BY <2>2, <2>3, <2>4, IsASeq DEF s
  <1> DEFINE errors == c.errors
  <1>8. errors \in Seq(Errors)
    BY DEF Code
  <1> HIDE DEF errors
  <1>9. /\ errors \o new \in Seq(Errors) /\ Len(errors) \in Nat /\ Len(new) \in Nat
        /\ Len(errors \o new) = Len(errors) + Len(new)
        /\ \A i \in 1 .. Len(errors) : (errors \o new)[i] = errors[i]
        /\ \A i \in 1 .. Len(new) : (errors \o new)[Len(errors) + i] = new[i]
    BY <1>7, <1>8
  <1>10. d.errors = errors \o new /\ c.errors = errors
    BY <1>3 DEF errors
  <1>11. ASSUME NEW q \in DOMAIN c.parse PROVE Written(d, q)
    <2> DEFINE t == TrieOf(grammar[q])
    <2>1. Written(c, q)
      BY DEF Code
    <2>2. \A p \in Dead(t) : /\ c.parse[q].throws[p] \in 1 .. Len(errors)
                             /\ errors[c.parse[q].throws[p]] = ErrorAt(q, t, p)
      BY <1>10, <2>1 DEF Written
    <2>3. \A p \in Dead(t) : /\ d.parse[q].throws[p] \in 1 .. Len(d.errors)
                             /\ d.errors[d.parse[q].throws[p]] = ErrorAt(q, t, p)
      <3> SUFFICES ASSUME NEW p \in Dead(t)
                   PROVE  /\ d.parse[q].throws[p] \in 1 .. Len(d.errors)
                          /\ d.errors[d.parse[q].throws[p]] = ErrorAt(q, t, p)
        OBVIOUS
      <3>1. d.parse[q].throws[p] = c.parse[q].throws[p]
        BY <1>6
      <3> DEFINE n == c.parse[q].throws[p]
      <3>2. n \in 1 .. Len(errors) /\ errors[n] = ErrorAt(q, t, p)
        BY <2>2
      <3> HIDE DEF n, t
      <3>3. n \in 1 .. Len(errors \o new) /\ (errors \o new)[n] = ErrorAt(q, t, p)
        BY <1>9, <3>2
      <3> QED
        BY <1>10, <3>1, <3>3 DEF n
    <2> QED
      BY <1>6, <2>1, <2>3 DEF Written
  <1>12. Written(d, r)
    <2>1. ParseFunction(r, trie).trie = trie
      BY DEF ParseFunction
    <2>2. \A p \in ToSet(Throwing(trie)) : ParseFunction(r, trie).throws[p] = Len(errors) + ErrorNumber(trie, p)
      BY <1>10 DEF ParseFunction, ErrorNumber
    <2>3. \A p \in Dead(trie) : /\ d.parse[r].throws[p] \in 1 .. Len(d.errors)
                                /\ d.errors[d.parse[r].throws[p]] = ErrorAt(r, trie, p)
      <3> SUFFICES ASSUME NEW p \in Dead(trie)
                   PROVE  /\ d.parse[r].throws[p] \in 1 .. Len(d.errors)
                          /\ d.errors[d.parse[r].throws[p]] = ErrorAt(r, trie, p)
        OBVIOUS
      <3>1. /\ p \in ToSet(Throwing(trie)) /\ ErrorNumber(trie, p) \in 1 .. Len(new)
            /\ new[ErrorNumber(trie, p)] = ErrorAt(r, trie, p)
        BY <1>1, ErrorsFound DEF trie, new
      <3> DEFINE n == ErrorNumber(trie, p)
      <3>2. d.parse[r].throws[p] = Len(errors) + n
        BY <1>5, <2>2, <3>1
      <3> HIDE DEF n
      <3>3. Len(errors) + n \in 1 .. Len(errors \o new) /\ (errors \o new)[Len(errors) + n] = ErrorAt(r, trie, p)
        BY <1>9, <3>1 DEF n
      <3> QED
        BY <1>10, <3>2, <3>3
    <2> QED
      BY <1>5, <2>1, <2>3 DEF Written, trie, alts
  <1>13. Code(d)
    <2>1. \A q \in DOMAIN d.parse : Written(d, q)
      BY <1>5, <1>11, <1>12
    <2>2. DOMAIN d.parse \subseteq Rules /\ DOMAIN d.class = DOMAIN d.parse /\ DOMAIN d.lookAhead = DOMAIN d.parse
      BY <1>5 DEF Code
    <2> QED
      BY <1>3, <1>9, <1>10, <2>1, <2>2, Zenon DEF Code
  <1> QED
    BY <1>3, <1>5, <1>13 DEF d
-----------------------------------------------------------------------------
GeneratorInv == GrammarOK /\ IInv /\ CodeOK

\* The steps that write no code of a rule.
LEMMA SameCode ==
    ASSUME Code(code), UNCHANGED <<code, grammar, first>>
    PROVE  Code(code)'
  BY DEF Code, Written

\* The steps of the whole, as the first sets see them.
LEMMA FirstSteps ==
    ASSUME FirstTypeOK, [Next]_vars
    PROVE  [ComputeFirstSet \/ Generate]_firstVars
  <1>1. CASE ComputeFirstSet
    BY <1>1
  <1>2. CASE Gen
    <2>0. Len(entries) \in Nat /\ at \in 1 .. Len(entries) + 1
      BY DEF FirstTypeOK
    <2>1. CASE GenAstForwardDecl
      BY <2>0, <2>1 DEF GenAstForwardDecl, Generate
    <2>2. CASE GenRules
      <3>1. at' = at + 1 /\ at <= Len(entries) /\ phase' = phase /\ phase = "rules" /\ UNCHANGED <<entries, first, changed>>
        BY <2>2 DEF GenRules
      <3> QED
        BY <2>0, <3>1 DEF Generate
    <2>3. CASE WriteErrorStuff
      BY <2>0, <2>3 DEF WriteErrorStuff, Generate
    <2> QED
      BY <1>2, <2>1, <2>2, <2>3 DEF Gen
  <1>3. CASE Parse
    BY <1>3 DEF Parse, CallParser, Branch, Return, Throw, firstVars
  <1>4. CASE UNCHANGED vars
    BY <1>4 DEF vars, firstVars
  <1> QED
    BY <1>1, <1>2, <1>3, <1>4 DEF Next

\* The forward declarations are written (recdec.cpp 288-417).
LEMMA ForwardOK ==
    ASSUME GeneratorInv, GenAstForwardDecl
    PROVE  CodeOK'
  <1>1. /\ code = [declared |-> EmptyBag, defined |-> EmptyBag, errors |-> <<>>,
                   lookAhead |-> [r \in {} |-> {}], parse |-> [r \in {} |-> <<>>],
                   class |-> [r \in {} |-> <<>>]]
        /\ at = 1 /\ phase = "forward"
    BY DEF GeneratorInv, CodeOK, GenAstForwardDecl, GenInit
  <1>2. {entries[i].name : i \in DOMAIN entries} = Rules
    <2>1. DOMAIN entries = 1 .. Len(entries)
      BY DEF GeneratorInv, IInv, FirstTypeOK
    <2> QED
      BY <2>1, EntriesAreRules DEF GeneratorInv, IInv
  <1> DEFINE decls == ForwardDecl(Rules)
             defs == ForwardDef(Rules)
  <1>3. code' = [code EXCEPT !.declared = @ (+) SetToBag(decls) (+) SetToBag(ParserFixed),
                             !.defined = @ (+) SetToBag(defs) (+) SetToBag(ParserFixed)]
    BY <1>2, Zenon DEF GenAstForwardDecl
  <1>4. decls = AllAhead \cup AlwaysAst
    <2>1. AllAhead = AheadOf(Rules)
      BY Zenon DEF AllAhead, AheadOf
    <2> QED
      BY <2>1 DEF ForwardDecl, AlwaysAst
  <1>5. defs = AllAheadDef \cup AlwaysAst
    <2>1. AllAheadDef = AheadDefOf(Rules)
      BY Zenon DEF AllAheadDef, AheadDefOf
    <2> QED
      BY <2>1 DEF ForwardDef, AlwaysAst, AstFixedDef
  <1> HIDE DEF decls, defs
  <1>6. /\ code'.declared = EmptyBag (+) SetToBag(decls) (+) SetToBag(ParserFixed)
        /\ code'.defined = EmptyBag (+) SetToBag(defs) (+) SetToBag(ParserFixed)
        /\ code'.errors = <<>> /\ code'.parse = [r \in {} |-> <<>>] /\ code'.lookAhead = [r \in {} |-> {}]
        /\ code'.class = [r \in {} |-> <<>>]
        /\ code' = [declared |-> code'.declared, defined |-> code'.defined, errors |-> code'.errors,
                    lookAhead |-> code'.lookAhead, parse |-> code'.parse, class |-> code'.class]
    BY <1>1, <1>3
  <1>7. code'.declared = SetToBag(Decls({})) /\ code'.defined = SetToBag(Defs({}))
    BY <1>4, <1>5, <1>6, FirstFiles
  <1>8. DOMAIN code'.parse = {} /\ DOMAIN code'.class = {} /\ DOMAIN code'.lookAhead = {}
    BY <1>6
  <1>9. Code(code)'
    BY <1>6, <1>8 DEF Code
  <1>10. phase' = "rules" /\ at' = 1
    BY <1>1 DEF GenAstForwardDecl
  <1>11. 1 .. 1 - 1 = {}
    OBVIOUS
  <1>12. \A S : Decls(S)' = Decls(S) /\ Defs(S)' = Defs(S)
    BY DEF GenAstForwardDecl, Decls, Defs, AllAhead, AllAheadDef, AllOwn, AllOwnDef, Own, OwnDef, SharedOf
  <1> QED
    BY <1>7, <1>8, <1>9, <1>10, <1>11, <1>12 DEF CodeOK

\* The code of one more rule is written (recdec.cpp 100-136).
LEMMA RulesOK ==
    ASSUME GeneratorInv, GenRules
    PROVE  CodeOK'
  <1>1. /\ phase = "rules" /\ phase' = "rules" /\ at' = at + 1 /\ at \in 1 .. Len(entries) /\ UNCHANGED <<entries, first, grammar>>
        /\ at \in Nat /\ Len(entries) \in Nat
    BY DEF GeneratorInv, IInv, FirstTypeOK, GenRules
  <1> DEFINE r == entries[at].name
             done == DOMAIN code.parse
  <1>2. /\ Code(code) /\ done = {entries[i].name : i \in 1 .. at - 1}
        /\ code.declared = SetToBag(Decls(done)) /\ code.defined = SetToBag(Defs(done)) /\ GrammarOK
    BY <1>1 DEF GeneratorInv, CodeOK
  <1>3. r \in Rules
    BY <1>1, EntriesAreRules DEF GeneratorInv, IInv
  <1>4. done \cup {r} = {entries'[i].name : i \in 1 .. at' - 1}
    <2>1. 1 .. at' - 1 = (1 .. at - 1) \cup {at}
      BY <1>1
    <2> QED
      BY <1>1, <1>2, <2>1
  <1>5. \A S : Decls(S)' = Decls(S) /\ Defs(S)' = Defs(S)
    BY <1>1 DEF Decls, Defs, AllAhead, AllAheadDef, AllOwn, AllOwnDef, Own, OwnDef, SharedOf
  <1>6. CASE r \in done
    <2>1. code' = code /\ done \cup {r} = done
      BY <1>6 DEF GenRules
    <2>2. Code(code)'
      BY <1>1, <1>2, <2>1, SameCode
    <2> HIDE DEF r
    <2> QED
      BY <1>1, <1>2, <1>4, <1>5, <2>1, <2>2 DEF CodeOK
  <1>7. CASE r \notin done
    <2>1. GenRule(r)
      BY <1>7 DEF GenRules
    <2>2. /\ Code(code') /\ DOMAIN code'.parse = done \cup {r}
          /\ code'.declared = code.declared (+) SetToBag(Own(r))
          /\ code'.defined = code.defined (+) SetToBag(OwnDef(r))
      BY <1>2, <1>3, <1>7, <2>1, GenRuleOK
    <2>3. Code(code)'
      BY <1>1, <2>2 DEF Code, Written
    <2>4. done \subseteq Rules
      BY <1>2 DEF Code
    <2> HIDE DEF r, done
    <2>5. code'.declared = SetToBag(Decls(done \cup {r})) /\ code'.defined = SetToBag(Defs(done \cup {r}))
      BY <1>2, <1>3, <1>7, <2>2, <2>4, OneRuleMore
    <2> QED
      BY <1>1, <1>4, <1>5, <2>2, <2>3, <2>5 DEF CodeOK
  <1> QED
    BY <1>6, <1>7

\* The error class is written, and the code is complete (recdec.cpp 468-521).
LEMMA ErrorStuffOK ==
    ASSUME GeneratorInv, WriteErrorStuff
    PROVE  CodeOK'
  <1>1. /\ phase = "rules" /\ phase' = "parse" /\ at > Len(entries) /\ UNCHANGED <<entries, first, grammar>>
        /\ at \in 1 .. Len(entries) + 1 /\ Len(entries) \in Nat
    BY DEF GeneratorInv, IInv, FirstTypeOK, WriteErrorStuff
  <1>2. /\ Code(code) /\ DOMAIN code.parse = {entries[i].name : i \in 1 .. at - 1}
        /\ code.declared = SetToBag(Decls(DOMAIN code.parse)) /\ code.defined = SetToBag(Defs(DOMAIN code.parse))
    BY <1>1 DEF GeneratorInv, CodeOK
  <1>3. DOMAIN code.parse = Rules
    <2>1. at - 1 = Len(entries)
      BY <1>1
    <2> QED
      BY <1>2, <2>1, EntriesAreRules DEF GeneratorInv, IInv
  <1>4. code' = [code EXCEPT !.declared = @ (+) SetToBag(ErrorFixed \cup GetError), !.defined = @ (+) SetToBag(ErrorFixed)]
    BY DEF WriteErrorStuff
  <1>5. code = [declared |-> code.declared, defined |-> code.defined, errors |-> code.errors,
                lookAhead |-> code.lookAhead, parse |-> code.parse, class |-> code.class]
    BY <1>2 DEF Code
  <1>6. /\ code'.declared = code.declared (+) SetToBag(ErrorFixed \cup GetError)
        /\ code'.defined = code.defined (+) SetToBag(ErrorFixed)
        /\ code'.errors = code.errors /\ code'.parse = code.parse /\ code'.lookAhead = code.lookAhead /\ code'.class = code.class
        /\ code' = [declared |-> code'.declared, defined |-> code'.defined, errors |-> code'.errors,
                    lookAhead |-> code'.lookAhead, parse |-> code'.parse, class |-> code'.class]
    BY <1>4, <1>5
  <1>7. code'.declared = SetToBag(Decls(Rules) \cup ErrorFixed \cup GetError) /\ code'.defined = SetToBag(Defs(Rules) \cup ErrorFixed)
    BY <1>2, <1>3, <1>6, LastFiles
  <1>8. Code(code)'
    <2>1. \A r \in DOMAIN code.parse : Written(code, r)
      BY <1>2 DEF Code
    <2>2. \A r \in DOMAIN code.parse : Written(code, r)'
      BY <1>1, <1>6, <2>1 DEF Written
    <2>3. /\ code'.errors \in Seq(Errors) /\ DOMAIN code'.parse \subseteq Rules
          /\ DOMAIN code'.class = DOMAIN code'.parse /\ DOMAIN code'.lookAhead = DOMAIN code'.parse
      BY <1>2, <1>6 DEF Code
    <2> QED
      BY <1>6, <2>2, <2>3 DEF Code
  <1>9. Decls(Rules)' = Decls(Rules) /\ Defs(Rules)' = Defs(Rules)
    BY <1>1 DEF Decls, Defs, AllAhead, AllAheadDef, AllOwn, AllOwnDef, Own, OwnDef, SharedOf
  <1>10. Complete(code)'
    BY <1>3, <1>6, <1>7, <1>9 DEF Complete
  <1> QED
    BY <1>1, <1>8, <1>10 DEF CodeOK

\* Nothing has been written.
LEMMA GeneratorInit == Init => GeneratorInv
  <1> SUFFICES ASSUME Init PROVE GeneratorInv
    OBVIOUS
  <1>1. GrammarOK /\ IInv /\ GenInit /\ phase = "first"
    BY InvInit DEF Init, FirstInit
  <1>2. Code(code)
    <2>1. code = [declared |-> EmptyBag, defined |-> EmptyBag, errors |-> <<>>,
                  lookAhead |-> [r \in {} |-> {}], parse |-> [r \in {} |-> <<>>],
                  class |-> [r \in {} |-> <<>>]]
      BY <1>1 DEF GenInit
    <2>2. code.errors = <<>> /\ DOMAIN code.parse = {} /\ DOMAIN code.class = {} /\ DOMAIN code.lookAhead = {}
      BY <2>1
    <2>3. code = [declared |-> code.declared, defined |-> code.defined, errors |-> code.errors,
                   lookAhead |-> code.lookAhead, parse |-> code.parse, class |-> code.class]
      BY <2>1
    <2> QED
      BY <2>2, <2>3 DEF Code
  <1> QED
    BY <1>1, <1>2 DEF GeneratorInv, CodeOK

\* Each step keeps the invariant of the generator.
LEMMA GeneratorStep ==
    ASSUME GeneratorInv, [Next]_vars
    PROVE  GeneratorInv'
  <1>1. IInv'
    <2>1. [ComputeFirstSet \/ Generate]_firstVars
      BY FirstSteps DEF GeneratorInv, IInv
    <2> QED
      BY <2>1, RoundOK, SameSetsOK DEF GeneratorInv, ComputeFirstSet
  <1>2. grammar' = grammar /\ entries' = entries
    BY DEF Next, ComputeFirstSet, VisitEntry, EndPass, Gen, GenAstForwardDecl, GenRules, WriteErrorStuff,
           Parse, CallParser, Branch, Return, Throw, vars, firstVars, genVars
  <1>3. GrammarOK'
    BY <1>2 DEF GeneratorInv, GrammarOK
  <1>4. CodeOK'
    <2>1. CASE ComputeFirstSet /\ UNCHANGED <<genVars, parserVars>>
      <3>1. phase = "first" /\ phase' \in {"first", "forward"} /\ (phase' = "forward" => at' = 1) /\ code' = code
        BY <2>1 DEF ComputeFirstSet, VisitEntry, EndPass, genVars
      <3>2. GenInit /\ GenInit'
        BY <3>1 DEF GeneratorInv, CodeOK, GenInit
      <3>3. Code(code)'
        <4>1. DOMAIN code.parse = {}
          BY <3>2 DEF GenInit
        <4> QED
          BY <3>1, <4>1 DEF GeneratorInv, CodeOK, Code
      <3> QED
        BY <3>1, <3>2, <3>3 DEF CodeOK
    <2>2. CASE Gen
      BY <2>2, ForwardOK, RulesOK, ErrorStuffOK DEF Gen
    <2>3. CASE Parse \/ UNCHANGED vars
      <3>1. UNCHANGED <<firstVars, genVars>>
        BY <2>3 DEF Parse, CallParser, Branch, Return, Throw, vars
      <3>2. UNCHANGED <<entries, first, at, phase, grammar, code>>
        BY <3>1 DEF firstVars, genVars
      <3>3. Code(code)'
        BY <3>2, SameCode DEF GeneratorInv, CodeOK
      <3>4. \A S : Decls(S)' = Decls(S) /\ Defs(S)' = Defs(S)
        BY <3>2 DEF Decls, Defs, AllAhead, AllAheadDef, AllOwn, AllOwnDef, Own, OwnDef, SharedOf
      <3> QED
        BY <3>2, <3>3, <3>4 DEF GeneratorInv, CodeOK, GenInit, Complete
    <2> QED
      BY <2>1, <2>2, <2>3 DEF Next
  <1> QED
    BY <1>1, <1>3, <1>4 DEF GeneratorInv
-----------------------------------------------------------------------------
\* The constructors written: one for the signature of each node with a value and
\* something stored on the way to it, and no others.
LEMMA CtorsWritten ==
    ASSUME NEW alts \in Seq(Alternative)
    PROVE  LET trie == TrieOf(alts)
               ctors == CtorsOf(alts)
           IN /\ ctors \in Seq(Keys)
              /\ \A c \in ToSet(ctors) : \E p \in Values(trie) : c = StoredOn(trie, p)
              /\ \A p \in Values(trie) : \/ StoredOn(trie, p) = <<>>
                                         \/ \E c \in ToSet(ctors) : Signature(c) = Signature(StoredOn(trie, p))
  <1> DEFINE trie == TrieOf(alts)
             ctors == CtorsOf(alts)
             found == ConstructorsOf(trie)
  <1>1. found \in Seq(Keys) /\ ToSet(found) = {StoredOn(trie, p) : p \in Values(trie)}
    BY ConstructorsFound
  <1> DEFINE min == Minimized(found)
  <1>2. ctors = Distinct(min)
    BY DEF CtorsOf
  <1> HIDE DEF trie, found, ctors
  <1>3. /\ min \in Seq(Keys) /\ ToSet(min) \subseteq ToSet(found)
        /\ \A x \in ToSet(found) : x = <<>> \/ \E w \in ToSet(min) : Signature(w) = Signature(x)
    BY <1>1, MinimizedSet
  <1> HIDE DEF min
  <1>4. /\ Distinct(min) \in Seq(Keys) /\ ToSet(Distinct(min)) \subseteq ToSet(min)
        /\ \A x \in ToSet(min) : \E w \in ToSet(Distinct(min)) : Signature(w) = Signature(x)
    BY <1>3, DistinctSet
  <1>5. ASSUME NEW x \in ToSet(found) PROVE x = <<>> \/ \E w \in ToSet(ctors) : Signature(w) = Signature(x)
    <2>1. CASE x # <<>>
      <3>1. PICK w \in ToSet(min) : Signature(w) = Signature(x)
        BY <1>3, <2>1
      <3>2. PICK v \in ToSet(Distinct(min)) : Signature(v) = Signature(w)
        BY <1>4
      <3> QED
        BY <1>2, <3>1, <3>2
    <2> QED
      BY <2>1
  <1>6. ASSUME NEW p \in Values(trie)
        PROVE  StoredOn(trie, p) = <<>> \/ \E c \in ToSet(ctors) : Signature(c) = Signature(StoredOn(trie, p))
    <2>1. StoredOn(trie, p) \in ToSet(found)
      BY <1>1, Zenon
    <2> QED
      BY <1>5, <2>1
  <1>7. ASSUME NEW c \in ToSet(ctors) PROVE \E p \in Values(trie) : c = StoredOn(trie, p)
    <2>1. c \in ToSet(found)
      BY <1>2, <1>3, <1>4
    <2> QED
      BY <1>1, <2>1, Zenon
  <1> QED
    BY <1>2, <1>4, <1>6, <1>7 DEF trie, ctors

\* When a token can begin a rule the set computed for it has one.
LEMMA BegunIsNotEmpty ==
    ASSUME GeneratorInv, phase = "parse", NEW r \in Rules, SomeTokenBegins(r)
    PROVE  first[r] # {}
  <1> DEFINE G == [q \in Rules |-> IF q \in Begun THEN first[q] ELSE {}]
  <1>1. GrammarOK /\ IInv
    BY DEF GeneratorInv
  <1>2. r \in Begun
    <2>1. \A i \in 1 .. Len(entries) : entries[i].name \in Begun
      BY <1>1 DEF IInv, Ended, HasToken, Places
    <2> QED
      BY <1>1, <2>1, EntriesAreRules DEF IInv
  <1>3. Closed(G)
    BY <1>1, ClosedAtEnd
  <1>4. G \in [Rules -> SUBSET Tokens]
    BY <1>1 DEF IInv, FirstTypeOK
  <1>5. G[r] = first[r]
    BY <1>2
  <1> HIDE DEF G
  <1> QED
    BY <1>3, <1>4, <1>5 DEF SomeTokenBegins

\* What is written of a rule whose names agree and that a token can begin.
LEMMA ClassCompiles ==
    ASSUME GrammarOK, NEW r \in Rules, Written(code, r), NamesAgree(grammar[r]), first[r] # {}
    PROVE  Compiles(r)
  <1> DEFINE alts == grammar[r]
             trie == TrieOf(alts)
             ctors == CtorsOf(alts)
             class == code.class[r]
             Member(key) == key.store \in DOMAIN class.members /\ class.members[key.store] = TypeOf(key.name)
  <1>1. alts \in Seq(Alternative)
    BY GrammarTyped
  <1>2. /\ code.parse[r].trie = trie /\ class.constructors = ctors /\ class.members = MembersOf(alts)
        /\ class.enum = EnumOf(alts)
    BY DEF Written
  <1>3. /\ \A c \in ToSet(ctors) : \E p \in Values(trie) : c = StoredOn(trie, p)
        /\ \A p \in Values(trie) : \/ StoredOn(trie, p) = <<>>
                                   \/ \E c \in ToSet(ctors) : Signature(c) = Signature(StoredOn(trie, p))
    BY <1>1, CtorsWritten
  <1> HIDE DEF trie, class, ctors, alts
  <1>5. \A part \in StoredParts(alts) : Member(part)
    BY <1>1, <1>2, MembersFound DEF alts
  <1>6. ASSUME NEW p \in Values(trie)
        PROVE  /\ trie[p].value \in EnumOf(alts)
               /\ \E i \in DOMAIN alts : StoredOn(trie, p) = Stored(alts[i].parts)
    <2>1. p \in DOMAIN trie
      BY DEF Values
    <2>2. PICK i \in DOMAIN alts : NamesOf(alts[i]) = p /\ trie[p].value = alts[i].id
      BY <1>1, <2>1, TrieValues DEF trie
    <2>3. StoredOn(trie, p) = Stored(alts[i].parts)
      BY <1>1, <2>2, WayAgrees DEF trie, alts
    <2> QED
      BY <2>2, <2>3 DEF EnumOf
  <1>7. ASSUME NEW p \in Values(trie)
        PROVE  StoredOn(trie, p) = <<>> \/ \E c \in ToSet(ctors) : Signature(c) = Signature(StoredOn(trie, p))
    BY <1>3
  <1>8. ASSUME NEW c \in ToSet(ctors)
        PROVE  /\ \A i \in DOMAIN c : Member(c[i])
               /\ \A i, j \in DOMAIN c : c[i].store = c[j].store => i = j
    <2>1. PICK p \in Values(trie) : c = StoredOn(trie, p)
      BY <1>3
    <2>2. PICK i \in DOMAIN alts : c = Stored(alts[i].parts)
      BY <1>6, <2>1
    <2>3. c \in Keys /\ ToSet(c) \subseteq StoredParts(alts) /\ OnceEach(c)
      BY <1>1, <2>2, StoredIn DEF alts
    <2>4. DOMAIN c = 1 .. Len(c)
      BY <2>3 DEF Keys
    <2>5. \A k \in DOMAIN c : c[k] \in StoredParts(alts)
      BY <2>3 DEF ToSet
    <2> QED
      BY <1>5, <2>3, <2>4, <2>5 DEF OnceEach
  <1>9. \A part \in Followed(alts) \cup Drawn(alts) \cup Shown(alts) : Member(part)
    BY <1>1, <1>5, ReadIn
  <1>10. code.lookAhead[r] # {}
    BY DEF Written
  <1> QED
    BY <1>2, <1>6, <1>7, <1>8, <1>9, <1>10 DEF Compiles, alts, class

\* The code that is written fits together, for every grammar: what is declared is
\* defined, once, but for getError(); and of a rule whose parts of one store name
\* are of one type and that some token can begin, the look ahead test returns
\* something, every constructor call has a constructor, every member a visitor
\* reads is declared and the enumeration has every alternative (recdec.cpp 288-417,
\* 491, 603-680, 847-1053).
THEOREM CodeFits == Spec => []GeneratedCodeFits
  <1>1. GeneratorInv => GeneratedCodeFits
    <2> SUFFICES ASSUME GeneratorInv, phase = "parse" PROVE /\ \A r \in Rules : NamesAgree(grammar[r]) /\ SomeTokenBegins(r) => Compiles(r)
                                                            /\ code.declared = code.defined (+) SetToBag(GetError)
                                                            /\ \A member \in BagToSet(code.declared) : code.declared[member] = 1
      BY DEF GeneratedCodeFits
    <2>1. GrammarOK /\ Code(code) /\ Complete(code)
      BY DEF GeneratorInv, CodeOK
    <2>2. \A r \in Rules : NamesAgree(grammar[r]) /\ SomeTokenBegins(r) => Compiles(r)
      BY <2>1, ClassCompiles, BegunIsNotEmpty DEF Code, Complete
    <2>3. code.declared = code.defined (+) SetToBag(GetError)
      BY <2>1, LastFiles, DeclsAreDefs DEF Complete
    <2>4. \A member \in BagToSet(code.declared) : code.declared[member] = 1
      <3> DEFINE S == Decls(Rules) \cup ErrorFixed \cup GetError
      <3>1. code.declared = SetToBag(S)
        BY <2>1 DEF Complete
      <3> HIDE DEF S
      <3> QED
        BY <3>1 DEF SetToBag, BagToSet
    <2> QED
      BY <2>2, <2>3, <2>4
  <1>2. GeneratorInv /\ [Next]_vars => GeneratorInv'
    BY GeneratorStep
  <1> QED
    BY <1>1, <1>2, GeneratorInit, PTL DEF Spec
-----------------------------------------------------------------------------
(* Sequences of whatever it may be: the frames and the arguments. *)
IsSeq(s) == \E V : s \in Seq(V)

\* One member more.
LEMMA SeqGrows ==
    ASSUME NEW s, IsSeq(s), NEW x
    PROVE  /\ IsSeq(Append(s, x)) /\ Len(s) \in Nat /\ DOMAIN s = 1 .. Len(s)
           /\ Len(Append(s, x)) = Len(s) + 1 /\ Append(s, x)[Len(s) + 1] = x
           /\ \A i \in 1 .. Len(s) : Append(s, x)[i] = s[i]
           /\ Append(s, x) # <<>>
  <1>1. PICK V : s \in Seq(V)
    BY DEF IsSeq
  <1> DEFINE W == V \cup {x}
  <1>2. s \in Seq(W) /\ x \in W
    BY <1>1
  <1> HIDE DEF W
  <1>3. /\ Append(s, x) \in Seq(W) /\ Append(s, x) # <<>>
        /\ Len(Append(s, x)) = Len(s) + 1 /\ Append(s, x)[Len(s) + 1] = x
        /\ \A i \in 1 .. Len(s) : Append(s, x)[i] = s[i]
    BY <1>2, AppendProperties
  <1>4. Len(s) \in Nat /\ DOMAIN s = 1 .. Len(s)
    BY <1>1
  <1>5. IsSeq(Append(s, x))
    BY <1>3 DEF IsSeq
  <1> QED
    BY <1>3, <1>4, <1>5

\* No member.
LEMMA SeqEmpty == ASSUME NEW s, IsSeq(s) PROVE IsSeq(<<>>) /\ (s = <<>> <=> Len(s) = 0)
  BY EmptySeq DEF IsSeq

\* One member less.
LEMMA SeqShrinks ==
    ASSUME NEW s, IsSeq(s), s # <<>>
    PROVE  /\ IsSeq(Front(s)) /\ Len(Front(s)) = Len(s) - 1 /\ Len(s) \in Nat \ {0} /\ Last(s) = s[Len(s)]
           /\ \A i \in 1 .. Len(s) - 1 : Front(s)[i] = s[i]
  <1>1. PICK V : s \in Seq(V)
    BY DEF IsSeq
  <1>2. Len(s) \in Nat \ {0}
    BY <1>1, EmptySeq
  <1> DEFINE t == SubSeq(s, 1, Len(s) - 1)
  <1>3. t \in Seq(V) /\ Len(t) = Len(s) - 1 /\ \A i \in 1 .. Len(s) - 1 : t[i] = s[i]
    <2>1. 1 \in Int /\ Len(s) - 1 \in Int /\ \A i \in 1 .. Len(s) - 1 : s[i] \in V
      BY <1>1, <1>2
    <2>2. /\ t \in Seq(V)
          /\ Len(t) = IF 1 <= Len(s) - 1 THEN Len(s) - 1 - 1 + 1 ELSE 0
          /\ \A i \in 1 .. Len(s) - 1 - 1 + 1 : t[i] = s[1 + i - 1]
      BY <2>1, SubSeqProperties
    <2>3. Len(s) - 1 - 1 + 1 = Len(s) - 1 /\ (1 <= Len(s) - 1 \/ Len(s) - 1 = 0) /\ \A i \in 1 .. Len(s) - 1 : 1 + i - 1 = i
      BY <1>2
    <2> HIDE DEF t
    <2>4. Len(t) = Len(s) - 1
      BY <2>2, <2>3
    <2>5. \A i \in 1 .. Len(s) - 1 : t[i] = s[i]
      BY <2>2, <2>3, Zenon
    <2> QED
      BY <2>2, <2>4, <2>5
  <1>4. Front(s) = t /\ Last(s) = s[Len(s)]
    BY DEF Front, Last
  <1> HIDE DEF t
  <1>5. IsSeq(t)
    BY <1>3 DEF IsSeq
  <1> QED
    BY <1>2, <1>3, <1>4, <1>5

\* One member changes.
LEMMA SeqChanges ==
    ASSUME NEW s, IsSeq(s), NEW n \in 1 .. Len(s), NEW x, NEW t, t = [s EXCEPT ![n] = x]
    PROVE  /\ IsSeq(t) /\ Len(t) = Len(s) /\ t[n] = x
           /\ \A i \in 1 .. Len(s) : i # n => t[i] = s[i]
  <1>1. PICK V : s \in Seq(V)
    BY DEF IsSeq
  <1> DEFINE W == V \cup {x}
  <1>2. s \in Seq(W) /\ x \in W
    BY <1>1
  <1> HIDE DEF W
  <1>3. t \in Seq(W)
    BY <1>2
  <1> QED
    BY <1>2, <1>3 DEF IsSeq
-----------------------------------------------------------------------------
(* Texts and what can be derived. *)
Text(w, i, j) == SubSeq(w, i, j - 1)

\* Parts of a text and how they join.
LEMMA Texts ==
    ASSUME NEW w \in Seq(Tokens)
    PROVE  /\ Len(w) \in Nat
           /\ \A i \in 1 .. Len(w) + 1 : Text(w, i, i) = <<>>
           /\ \A i \in 1 .. Len(w) + 1 : \A j \in i .. Len(w) + 1 : \A k \in j .. Len(w) + 1 :
                  Text(w, i, j) \o Text(w, j, k) = Text(w, i, k)
           /\ \A i \in 1 .. Len(w) + 1 : \A j \in i .. Len(w) + 1 :
                  /\ Text(w, i, j) \in Seq(Tokens) /\ Len(Text(w, i, j)) = j - i
                  /\ \A n \in 1 .. j - i : Text(w, i, j)[n] = w[i + n - 1]
           /\ \A i \in 1 .. Len(w) : Text(w, i, i + 1) = <<w[i]>>
           /\ Text(w, 1, Len(w) + 1) = w
  <1>1. Len(w) \in Nat
    OBVIOUS
  <1>2. ASSUME NEW i \in 1 .. Len(w) + 1, NEW j \in i .. Len(w) + 1
        PROVE  /\ Text(w, i, j) \in Seq(Tokens) /\ Len(Text(w, i, j)) = j - i
               /\ \A n \in 1 .. j - i : Text(w, i, j)[n] = w[i + n - 1]
    <2> DEFINE t == SubSeq(w, i, j - 1)
    <2>1. i \in Int /\ j - 1 \in Int /\ \A n \in i .. j - 1 : w[n] \in Tokens
      BY <1>1
    <2>2. /\ t \in Seq(Tokens) /\ Len(t) = IF i <= j - 1 THEN j - 1 - i + 1 ELSE 0
          /\ \A n \in 1 .. j - 1 - i + 1 : t[n] = w[i + n - 1]
      BY <2>1, SubSeqProperties
    <2>3. j - 1 - i + 1 = j - i /\ (i <= j - 1 \/ j - i = 0) /\ j - i \in Nat
      BY <1>1
    <2>4. Text(w, i, j) = t
      BY DEF Text
    <2> HIDE DEF t
    <2> QED
      BY <2>2, <2>3, <2>4
  <1>3. ASSUME NEW i \in 1 .. Len(w) + 1 PROVE Text(w, i, i) = <<>>
    BY <1>1, SubSeqEmpty DEF Text
  <1>4. ASSUME NEW i \in 1 .. Len(w) + 1, NEW j \in i .. Len(w) + 1, NEW k \in j .. Len(w) + 1
        PROVE  Text(w, i, j) \o Text(w, j, k) = Text(w, i, k)
    <2>1. j - 1 \in i - 1 .. Len(w) /\ k - 1 \in j - 1 .. Len(w) /\ (j - 1) + 1 = j
      BY <1>1
    <2>2. SubSeq(w, i, j - 1) \o SubSeq(w, (j - 1) + 1, k - 1) = SubSeq(w, i, k - 1)
      BY <2>1, ConcatAdjacentSubSeq
    <2> QED
      BY <2>1, <2>2 DEF Text
  <1>5. ASSUME NEW i \in 1 .. Len(w) PROVE Text(w, i, i + 1) = <<w[i]>>
    <2> DEFINE u == Text(w, i, i + 1)
    <2>0. /\ i \in 1 .. Len(w) + 1 /\ i + 1 \in i .. Len(w) + 1 /\ i + 1 - i = 1 /\ i + 1 - 1 = i
          /\ 1 \in 1 .. 1
      BY <1>1
    <2>3. u \in Seq(Tokens) /\ Len(u) = (i + 1) - i /\ \A n \in 1 .. (i + 1) - i : u[n] = w[i + n - 1]
      BY <1>2, <2>0, Zenon
    <2>1. u \in Seq(Tokens) /\ Len(u) = 1 /\ u[1] = w[i]
      <3> HIDE DEF u
      <3> QED
        BY <2>0, <2>3
    <2> HIDE DEF u
    <2>2. u = <<w[i]>>
      BY <2>1
    <2> QED
      BY <2>2 DEF u
  <1>6. Text(w, 1, Len(w) + 1) = w
    BY <1>1, SubSeqFull DEF Text
  <1> QED
    BY <1>1, <1>2, <1>3, <1>4, <1>5, <1>6

Families == [Rules -> SUBSET Seq(Tokens)]

\* A token stands for itself, a rule for its sentences.
LEMMA StringsTyped ==
    ASSUME NEW F \in Families, NEW x \in Names
    PROVE  Strings(F, x) \in SUBSET Seq(Tokens)
  BY DEF Families, Strings, Names

\* One derivation more.
LEMMA DerivedTyped ==
    ASSUME GrammarOK, NEW F \in Families
    PROVE  Derived(F) \in Families
  <1>1. ASSUME NEW r \in Rules
        PROVE  UNION {Derivable(F, NamesOf(grammar[r][i])) : i \in DOMAIN grammar[r]} \in SUBSET Seq(Tokens)
    <2>1. ASSUME NEW i \in DOMAIN grammar[r] PROVE Derivable(F, NamesOf(grammar[r][i])) \in SUBSET Seq(Tokens)
      <3>1. NamesOf(grammar[r][i]) \in Seq(Names)
        BY GrammarTyped, AltsTyped, NamesOfAlternative
      <3> QED
        BY <3>1, DerivableLaw DEF Families
    <2> QED
      BY <2>1
  <1> QED
    BY <1>1, Zenon DEF Derived, Families

\* Sentences are sequences of tokens.
LEMMA LanguageTyped == ASSUME GrammarOK PROVE Language \in Families
  <1>1. [r \in Rules |-> {}] \in Families
    BY DEF Families
  <1> QED
    BY <1>1, DerivedTyped, LanguageInduct

\* One name more.
LEMMA DerivableStep ==
    ASSUME NEW F \in Families, NEW s \in Seq(Names), NEW x \in Names,
           NEW u \in Derivable(F, s), NEW v \in Strings(F, x), NEW w \in Inputs, Len(u \o v) <= Len(w)
    PROVE  u \o v \in Derivable(F, Append(s, x))
  <1> DEFINE D == {d[1] \o d[2] : d \in Derivable(F, s) \X Strings(F, x)}
  <1>1. Derivable(F, Append(s, x)) = Cut(D)
    BY DerivableLaw DEF Families
  <1>2. u \o v \in D
    <2>1. <<u, v>> \in Derivable(F, s) \X Strings(F, x) /\ <<u, v>>[1] = u /\ <<u, v>>[2] = v
      OBVIOUS
    <2> QED
      BY <2>1, Zenon
  <1> HIDE DEF D
  <1> QED
    BY <1>1, <1>2 DEF Cut

\* What is derived from an alternative is of the rule's language.
LEMMA AlternativeDerives ==
    ASSUME GrammarOK, DepthSuffices, NEW r \in Rules
    PROVE  \A u : u \in Language[r] <=> \E i \in DOMAIN grammar[r] : u \in Derivable(Language, NamesOf(grammar[r][i]))
  <1>1. Language[r] = UNION {Derivable(Language, NamesOf(grammar[r][i])) : i \in DOMAIN grammar[r]}
    BY Zenon DEF DepthSuffices, Derived
  <1> QED
    BY <1>1, Zenon
-----------------------------------------------------------------------------
(* The frames of a running parser. *)
Trie(r) == TrieOf(grammar[r])

\* The arguments so far are those of the parts on the way.
Match(args, keys) == /\ IsSeq(args) /\ Len(args) = Len(keys)
                     /\ \A i \in 1 .. Len(keys) : args[i].name = keys[i].name /\ args[i].store = keys[i].store

FrameOK(f) == /\ f = [rule |-> f.rule, path |-> f.path, args |-> f.args]
              /\ f.rule \in Rules /\ f.path \in DOMAIN Trie(f.rule)
TopOK(f) == FrameOK(f) /\ Match(f.args, StoredOn(Trie(f.rule), f.path))
\* A caller has taken the branch of the function it waits for, and not its
\* tree yet.
CallerOK(f, callee) == /\ FrameOK(f) /\ f.path # <<>> /\ Last(f.path) = callee.rule
                       /\ Trie(f.rule)[f.path].store # ""
                       /\ Match(f.args, StoredOn(Trie(f.rule), Front(f.path)))
StackOK(s) == /\ IsSeq(s)
              /\ \A k \in 1 .. Len(s) - 1 : CallerOK(s[k], s[k + 1])
              /\ s # <<>> => TopOK(s[Len(s)])

\* Where each function began.
Taken(s, k) == IF k = Len(s) THEN s[k].path ELSE Front(s[k].path)
Reached(s, p) ==
    \E b \in [1 .. Len(s) + 1 -> 1 .. Len(input) + 1] :
        /\ b[1] = 1 /\ b[Len(s) + 1] = p
        /\ \A k \in 1 .. Len(s) : b[k] <= b[k + 1] /\ Text(input, b[k], b[k + 1]) \in Derivable(Language, Taken(s, k))

WorkOK == /\ input \in Inputs \cup {<<>>} /\ pos \in 1 .. Len(input) + 1
          /\ StackOK(stack)
          /\ phase # "parse" => stack = <<>> /\ result = Running
          /\ stack = <<>> /\ result = Running => pos = 1
          /\ stack # <<>> => input \in Inputs /\ result = Running

\* What the code of a rule is when the parser runs.
LEMMA AtWork ==
    ASSUME GeneratorInv, phase = "parse"
    PROVE  /\ GrammarOK /\ first \in [Rules -> SUBSET Tokens]
           /\ \A r \in Rules : Written(code, r) /\ code.parse[r].trie = Trie(r) /\ code.lookAhead[r] = first[r]
           /\ Eof \notin Names /\ Names \subseteq Nat
  <1>1. GrammarOK /\ IInv /\ Code(code) /\ DOMAIN code.parse = Rules
    BY DEF GeneratorInv, CodeOK, Complete
  <1>2. \A r \in Rules : Written(code, r) /\ code.parse[r].trie = Trie(r) /\ code.lookAhead[r] = first[r]
    BY <1>1 DEF Code, Written, Trie
  <1>3. Begun = Rules
    <2>1. \A i \in 1 .. Len(entries) : entries[i].name \in Begun
      BY <1>1 DEF IInv, Ended, HasToken, Places
    <2>2. Rules \subseteq Begun
      BY <1>1, <2>1, EntriesAreRules DEF IInv
    <2> QED
      BY <1>1, <2>2 DEF IInv, FirstTypeOK
  <1>4. first \in [Rules -> SUBSET Tokens]
    BY <1>1, <1>3 DEF IInv, FirstTypeOK
  <1> QED
    BY <1>1, <1>2, <1>4, NumbersAssumption DEF Eof

\* Where the innermost function is, and what it looks at.
LEMMA AtTheTop ==
    ASSUME GeneratorInv, WorkOK, stack # <<>>
    PROVE  /\ phase = "parse" /\ input \in Inputs /\ input \in Seq(Tokens) /\ result = Running
           /\ IsSeq(stack) /\ Len(stack) \in Nat \ {0} /\ Top = stack[Len(stack)] /\ TopOK(Top)
           /\ Top.path \in Seq(Names) /\ TrieOfTop = Trie(Top.rule)
           /\ \A n \in Names : Accepts(n) <=> curToken \in Starting(n)
           /\ \A n \in Names : Starting(n) \subseteq Tokens
           /\ curToken \in Tokens => pos \in 1 .. Len(input) /\ curToken = input[pos]
  <1>1. /\ phase = "parse" /\ input \in Inputs /\ input \in Seq(Tokens) /\ result = Running
        /\ IsSeq(stack) /\ TopOK(stack[Len(stack)])
    BY InputsAssumption DEF WorkOK, StackOK
  <1>2. Len(stack) \in Nat \ {0} /\ Top = stack[Len(stack)]
    BY <1>1, SeqShrinks DEF Top
  <1>3. Top.rule \in Rules /\ Top.path \in DOMAIN Trie(Top.rule)
    BY <1>1, <1>2 DEF TopOK, FrameOK
  <1>4. Top.path \in Seq(Names)
    BY <1>1, <1>3, AtWork, GrammarTyped, NodesTyped DEF Trie
  <1>5. TrieOfTop = Trie(Top.rule)
    BY <1>1, <1>3, AtWork DEF TrieOfTop
  <1>6. ASSUME NEW n \in Names PROVE (Accepts(n) <=> curToken \in Starting(n)) /\ Starting(n) \subseteq Tokens
    <2>1. CASE n \in Rules
      BY <1>1, <2>1, AtWork DEF Accepts, Starting
    <2>2. CASE n \notin Rules
      BY <2>2 DEF Accepts, Starting, Names
    <2> QED
      BY <2>1, <2>2
  <1>7. curToken \in Tokens => pos \in 1 .. Len(input) /\ curToken = input[pos]
    <2>1. Eof \notin Tokens
      BY <1>1, AtWork DEF Names
    <2>2. Len(input) \in Nat /\ pos \in 1 .. Len(input) + 1
      BY <1>1 DEF WorkOK
    <2> QED
      BY <2>1, <2>2 DEF curToken
  <1> QED
    BY <1>1, <1>2, <1>4, <1>5, <1>6, <1>7

\* The steps of Branch at the innermost function.
Onward(n) == Append(Top.path, n)
StoreOf(n) == Trie(Top.rule)[Onward(n)].store
TakesToken(n) == /\ n \in Tokens /\ StoreOf(n) # "" /\ pos' = pos + 1
                 /\ stack' = AtTop(Onward(n), Append(Top.args, [name |-> n, store |-> StoreOf(n), value |-> [token |-> pos]]))
CallsRule(n) == /\ n \in Rules /\ StoreOf(n) # "" /\ pos' = pos
                /\ stack' = Append(AtTop(Onward(n), Top.args), Frame(n))
PassesOver(n) == /\ StoreOf(n) = "" /\ pos' = pos + 1
                 /\ stack' = AtTop(Onward(n), Top.args)

\* The branch that is taken: its child, its token and one of three ways on.
LEMMA BranchIs ==
    ASSUME GeneratorInv, WorkOK, Branch
    PROVE  \E n \in Names : /\ n = Min(Matching) /\ n \in Matching
                            /\ Onward(n) \in DOMAIN Trie(Top.rule) /\ curToken \in Starting(n) /\ curToken \in Tokens
                            /\ TakesToken(n) \/ CallsRule(n) \/ PassesOver(n)
  <1>1. stack # <<>> /\ Matching # {}
    BY DEF Branch
  <1>2. Matching \subseteq Names
    BY DEF Matching, Children
  <1> DEFINE n == Min(Matching)
  <1>3. n \in Matching
    BY <1>1, <1>2, MinIn, NumbersAssumption
  <1>4. TrieOfTop = Trie(Top.rule)
    BY <1>1, AtTheTop
  <1>5. n \in Names /\ Onward(n) \in DOMAIN Trie(Top.rule) /\ Accepts(n)
    BY <1>3, <1>4 DEF Matching, Children, Onward
  <1>6. curToken \in Starting(n) /\ curToken \in Tokens
    BY <1>1, <1>5, AtTheTop
  <1>7. TakesToken(n) \/ CallsRule(n) \/ PassesOver(n)
    BY <1>4 DEF Branch, TakesToken, CallsRule, PassesOver, Onward, StoreOf
  <1> QED
    BY <1>3, <1>5, <1>6, <1>7

\* Only the innermost function changes.
LEMMA TopChanges ==
    ASSUME IsSeq(stack), stack # <<>>, TopOK(Top), NEW path, NEW args
    PROVE  LET s == AtTop(path, args)
           IN /\ IsSeq(s) /\ Len(s) = Len(stack) /\ s # <<>>
              /\ s[Len(stack)] = [rule |-> Top.rule, path |-> path, args |-> args]
              /\ \A k \in 1 .. Len(stack) - 1 : s[k] = stack[k]
  <1>1. Len(stack) \in Nat \ {0} /\ Top = stack[Len(stack)] /\ DOMAIN stack = 1 .. Len(stack)
    BY SeqShrinks, SeqGrows DEF Top
  <1> DEFINE last == Len(stack)
             f == [rule |-> Top.rule, path |-> path, args |-> args]
  <1>2. Top = [rule |-> Top.rule, path |-> Top.path, args |-> Top.args]
    BY DEF TopOK, FrameOK
  <1> DEFINE t == AtTop(path, args)
  <1>3. t = [stack EXCEPT ![last] = f]
    <2> DEFINE r == Top.rule
               p == Top.path
               a == Top.args
               g == [rule |-> r, path |-> p, args |-> a]
    <2>2. Top = g
      BY <1>2
    <2> HIDE DEF r, p, a
    <2>3. [g EXCEPT !.path = path, !.args = args] = [rule |-> r, path |-> path, args |-> args]
      <3>1. [g EXCEPT !.path = path] = [rule |-> r, path |-> path, args |-> a]
        OBVIOUS
      <3>2. [[rule |-> r, path |-> path, args |-> a] EXCEPT !.args = args] = [rule |-> r, path |-> path, args |-> args]
        OBVIOUS
      <3> HIDE DEF g
      <3> QED
        BY <3>1, <3>2
    <2> HIDE DEF g
    <2>1. [Top EXCEPT !.path = path, !.args = args] = f
      BY <2>2, <2>3 DEF r
    <2> QED
      BY <1>1, <1>2, <2>1 DEF AtTop
  <1> HIDE DEF f
  <1> HIDE DEF t
  <1>4. IsSeq(t) /\ Len(t) = last /\ t[last] = f /\ \A i \in 1 .. last : i # last => t[i] = stack[i]
    <2>1. last \in 1 .. Len(stack) /\ last = Len(stack) /\ t = [stack EXCEPT ![last] = f] /\ IsSeq(stack)
      BY <1>1, <1>3
    <2> HIDE DEF last
    <2>2. IsSeq(t) /\ Len(t) = Len(stack) /\ t[last] = f /\ \A i \in 1 .. Len(stack) : i # last => t[i] = stack[i]
      <3>1. IsSeq(t)
        BY <2>1, SeqChanges, Zenon
      <3>2. Len(t) = Len(stack)
        BY <2>1, SeqChanges
      <3>3. t[last] = f
        BY <2>1, SeqChanges
      <3>4. \A i \in 1 .. Len(stack) : i # last => t[i] = stack[i]
        BY <2>1, SeqChanges
      <3> QED
        BY <3>1, <3>2, <3>3, <3>4
    <2> QED
      BY <2>1, <2>2
  <1>5. t # <<>>
    BY <1>1, <1>4, SeqEmpty
  <1>6. \A k \in 1 .. last - 1 : k \in 1 .. last /\ k # last
    <2>1. last \in Nat \ {0}
      BY <1>1
    <2> HIDE DEF last
    <2> QED
      BY <2>1
  <1> QED
    BY <1>4, <1>5, <1>6, Zenon DEF f, t
-----------------------------------------------------------------------------
\* A node and its child.
LEMMA PathEnds ==
    ASSUME NEW p \in Seq(Names), NEW x \in Names
    PROVE  /\ Append(p, x) \in Seq(Names) /\ Append(p, x) # <<>> /\ Last(Append(p, x)) = x /\ Front(Append(p, x)) = p
           /\ Len(Append(p, x)) = Len(p) + 1 /\ Len(p) \in Nat /\ Append(p, x)[Len(p) + 1] = x
           /\ \A n \in 1 .. Len(p) : Append(p, x)[n] = p[n]
  <1> DEFINE q == Append(p, x)
  <1>1. /\ q \in Seq(Names) /\ q # <<>> /\ Len(q) = Len(p) + 1 /\ q[Len(p) + 1] = x
        /\ Len(p) \in Nat /\ \A n \in 1 .. Len(p) : q[n] = p[n]
    BY AppendProperties
  <1> HIDE DEF q
  <1>2. /\ IsSeq(Front(q)) /\ Len(Front(q)) = Len(p) /\ Last(q) = x
        /\ \A i \in 1 .. Len(p) : Front(q)[i] = p[i]
    <2>1. IsSeq(q)
      BY <1>1 DEF IsSeq
    <2>2. /\ IsSeq(Front(q)) /\ Len(Front(q)) = Len(q) - 1 /\ Last(q) = q[Len(q)]
          /\ \A i \in 1 .. Len(q) - 1 : Front(q)[i] = q[i]
      BY <1>1, <2>1, SeqShrinks
    <2>3. Len(q) - 1 = Len(p)
      BY <1>1
    <2> QED
      BY <1>1, <2>2, <2>3
  <1>3. Front(q) = p
    <2>1. PICK V : Front(q) \in Seq(V)
      BY <1>2 DEF IsSeq
    <2>2. Front(q) \in Seq(V \cup Names) /\ p \in Seq(V \cup Names)
      BY <2>1
    <2> QED
      BY <1>2, <2>2, SeqEqual
  <1> QED
    BY <1>1, <1>2, <1>3 DEF q

\* A function is at a node of the trie of its rule.
LEMMA FrameTyped ==
    ASSUME GrammarOK, NEW f, FrameOK(f)
    PROVE  /\ f.rule \in Rules /\ grammar[f.rule] \in Seq(Alternative) /\ grammar[f.rule] # <<>>
           /\ f.path \in Seq(Names) /\ f.path \in DOMAIN Trie(f.rule)
           /\ StoredOn(Trie(f.rule), f.path) \in Keys
  <1>1. f.rule \in Rules /\ grammar[f.rule] \in Seq(Alternative) /\ grammar[f.rule] # <<>> /\ f.path \in DOMAIN Trie(f.rule)
    BY GrammarTyped DEF FrameOK
  <1> QED
    BY <1>1, NodesTyped, WayIs DEF Trie

\* A function that has just been called.
LEMMA Called ==
    ASSUME GrammarOK, NEW r \in Rules
    PROVE  TopOK(Frame(r))
  <1>1. /\ Frame(r).rule = r /\ Frame(r).path = <<>> /\ Frame(r).args = <<>>
        /\ Frame(r) = [rule |-> Frame(r).rule, path |-> Frame(r).path, args |-> Frame(r).args]
    BY DEF Frame
  <1>2. <<>> \in DOMAIN Trie(r)
    BY GrammarTyped, TrieRoot DEF Trie
  <1>3. StoredOn(Trie(r), <<>>) = <<>>
    <2>1. [n \in 1 .. Len(<<>>) |-> [name |-> <<>>[n], store |-> Trie(r)[SubSeq(<<>>, 1, n)].store]] = <<>>
      OBVIOUS
    <2>2. Stored(<<>>) = <<>>
      BY StoredLaw
    <2> QED
      BY <2>1, <2>2 DEF StoredOn
  <1>4. IsSeq(<<>>) /\ Len(<<>>) = 0
    BY EmptySeq DEF IsSeq
  <1> QED
    BY <1>1, <1>2, <1>3, <1>4 DEF TopOK, FrameOK, Match

\* One argument more.
LEMMA MatchOn ==
    ASSUME NEW args, NEW keys \in Keys, Match(args, keys), NEW y, NEW z \in RulePart, y.name = z.name, y.store = z.store
    PROVE  Match(Append(args, y), Append(keys, z))
  <1>1. /\ IsSeq(Append(args, y)) /\ Len(args) \in Nat
        /\ Len(Append(args, y)) = Len(args) + 1 /\ Append(args, y)[Len(args) + 1] = y
        /\ \A i \in 1 .. Len(args) : Append(args, y)[i] = args[i]
    BY SeqGrows DEF Match
  <1>2. /\ Len(Append(keys, z)) = Len(keys) + 1 /\ Append(keys, z)[Len(keys) + 1] = z /\ Len(keys) \in Nat
        /\ \A i \in 1 .. Len(keys) : Append(keys, z)[i] = keys[i]
    BY AppendProperties DEF Keys
  <1>3. Len(args) = Len(keys) /\ \A i \in 1 .. Len(keys) : args[i].name = keys[i].name /\ args[i].store = keys[i].store
    BY DEF Match
  <1> DEFINE a == Append(args, y)
             k == Append(keys, z)
  <1>4. ASSUME NEW i \in 1 .. Len(keys) + 1 PROVE a[i].name = k[i].name /\ a[i].store = k[i].store
    <2>1. i \in 1 .. Len(keys) \/ i = Len(keys) + 1
      BY <1>2
    <2> QED
      BY <1>1, <1>2, <1>3, <2>1
  <1> QED
    BY <1>1, <1>2, <1>3, <1>4 DEF Match

\* The arguments of the next node.
LEMMA StoredNext ==
    ASSUME GrammarOK, NEW f, FrameOK(f), NEW x \in Names, Append(f.path, x) \in DOMAIN Trie(f.rule)
    PROVE  LET store == Trie(f.rule)[Append(f.path, x)].store
               next == StoredOn(Trie(f.rule), Append(f.path, x))
               now == StoredOn(Trie(f.rule), f.path)
           IN /\ next = IF store = "" THEN now ELSE Append(now, [name |-> x, store |-> store])
              /\ [name |-> x, store |-> store] \in RulePart
  <1>1. grammar[f.rule] \in Seq(Alternative) /\ f.path \in Seq(Names)
    BY FrameTyped
  <1>2. Append(f.path, x) # <<>>
    BY <1>1, PathEnds
  <1>3. Trie(f.rule)[Append(f.path, x)].store \in STRING
    BY <1>1, <1>2, StoreIsString DEF Trie
  <1>4. [name |-> x, store |-> Trie(f.rule)[Append(f.path, x)].store] \in RulePart
    BY <1>3 DEF RulePart
  <1> QED
    BY <1>1, <1>4, StoredOnward DEF Trie

-----------------------------------------------------------------------------
(* The stack after each step. *)

\* The innermost function has come to another node.
LEMMA StackAtTop ==
    ASSUME StackOK(stack), stack # <<>>, NEW path, NEW args, TopOK([rule |-> Top.rule, path |-> path, args |-> args])
    PROVE  StackOK(AtTop(path, args)) /\ AtTop(path, args) # <<>>
  <1> DEFINE t == AtTop(path, args)
             f == [rule |-> Top.rule, path |-> path, args |-> args]
  <1>1. IsSeq(stack) /\ Len(stack) \in Nat \ {0} /\ Top = stack[Len(stack)] /\ TopOK(Top)
    BY SeqShrinks DEF StackOK, Top
  <1>2. /\ IsSeq(t) /\ Len(t) = Len(stack) /\ t # <<>> /\ t[Len(stack)] = f
        /\ \A k \in 1 .. Len(stack) - 1 : t[k] = stack[k]
    BY <1>1, TopChanges
  <1>3. f.rule = Top.rule
    OBVIOUS
  <1> HIDE DEF t, f
  <1>4. ASSUME NEW k \in 1 .. Len(stack) - 1 PROVE CallerOK(t[k], t[k + 1])
    <2>1. CallerOK(stack[k], stack[k + 1])
      BY DEF StackOK
    <2>2. t[k + 1].rule = stack[k + 1].rule
      <3>1. k + 1 \in 1 .. Len(stack) - 1 \/ k + 1 = Len(stack)
        BY <1>1
      <3> QED
        BY <1>1, <1>2, <1>3, <3>1
    <2> QED
      BY <1>2, <2>1, <2>2 DEF CallerOK
  <1>5. TopOK(f)
    BY DEF f
  <1> QED
    BY <1>2, <1>4, <1>5 DEF StackOK, t

\* It has called another one.
LEMMA StackCalls ==
    ASSUME GrammarOK, StackOK(stack), stack # <<>>, NEW path, NEW r \in Rules,
           CallerOK([rule |-> Top.rule, path |-> path, args |-> Top.args], Frame(r))
    PROVE  LET s == Append(AtTop(path, Top.args), Frame(r)) IN StackOK(s) /\ s # <<>>
  <1> DEFINE args == Top.args
             t == AtTop(path, args)
             f == [rule |-> Top.rule, path |-> path, args |-> args]
             s == Append(t, Frame(r))
  <1>1. IsSeq(stack) /\ Len(stack) \in Nat \ {0} /\ Top = stack[Len(stack)] /\ TopOK(Top)
    BY SeqShrinks DEF StackOK, Top
  <1>2. /\ IsSeq(t) /\ Len(t) = Len(stack) /\ t # <<>> /\ t[Len(stack)] = f
        /\ \A k \in 1 .. Len(stack) - 1 : t[k] = stack[k]
    BY <1>1, TopChanges
  <1>3. f.rule = Top.rule /\ CallerOK(f, Frame(r))
    OBVIOUS
  <1> HIDE DEF t, f
  <1>4. /\ IsSeq(s) /\ Len(s) = Len(stack) + 1 /\ s # <<>> /\ s[Len(stack) + 1] = Frame(r)
        /\ \A k \in 1 .. Len(stack) : s[k] = t[k]
    BY <1>2, SeqGrows
  <1> HIDE DEF s
  <1>5. ASSUME NEW k \in 1 .. Len(stack) PROVE CallerOK(s[k], s[k + 1])
    <2>1. CASE k = Len(stack)
      BY <1>1, <1>2, <1>3, <1>4, <2>1
    <2>2. CASE k # Len(stack)
      <3>1. k \in 1 .. Len(stack) - 1 /\ k + 1 \in 1 .. Len(stack) /\ (k + 1 \in 1 .. Len(stack) - 1 \/ k + 1 = Len(stack))
        BY <1>1, <2>2
      <3>2. CallerOK(stack[k], stack[k + 1])
        BY <3>1 DEF StackOK
      <3>3. s[k] = stack[k] /\ s[k + 1].rule = stack[k + 1].rule
        BY <1>1, <1>2, <1>3, <1>4, <3>1
      <3> QED
        BY <3>2, <3>3 DEF CallerOK
    <2> QED
      BY <2>1, <2>2
  <1>6. TopOK(Frame(r))
    BY Called
  <1>7. Len(s) - 1 = Len(stack)
    BY <1>1, <1>4
  <1>8. StackOK(s)
    BY <1>4, <1>5, <1>6, <1>7 DEF StackOK
  <1> QED
    BY <1>4, <1>8 DEF s, t
-----------------------------------------------------------------------------
\* A node that is not the root is the child of one.
LEMMA PathSplits ==
    ASSUME NEW q \in Seq(Names), q # <<>>
    PROVE  \E p \in Seq(Names), x \in Names : q = Append(p, x) /\ Front(q) = p /\ Last(q) = x
  <1>1. PICK p \in Seq(Names), x \in Names : q = Append(p, x)
    BY SequenceEmptyOrAppend
  <1> QED
    BY <1>1, PathEnds

\* It has returned to its caller.
Given(s, x) == [Front(s) EXCEPT ![Len(Front(s))].args = Append(@, x)]

\* Only the caller changes, by one argument.
LEMMA FrontChanges ==
    ASSUME StackOK(stack), Front(stack) # <<>>, stack # <<>>, NEW x
    PROVE  LET s == Given(stack, x)
               f == stack[Len(stack) - 1]
           IN /\ IsSeq(s) /\ Len(s) = Len(stack) - 1 /\ s # <<>> /\ Len(stack) - 1 \in Nat \ {0}
              /\ s[Len(stack) - 1] = [rule |-> f.rule, path |-> f.path, args |-> Append(f.args, x)]
              /\ \A k \in 1 .. Len(stack) - 2 : s[k] = stack[k]
              /\ CallerOK(f, Top) /\ Last(Front(stack)) = f
  <1> DEFINE u == Front(stack)
             last == Len(u)
             f == stack[Len(stack) - 1]
             g == [rule |-> f.rule, path |-> f.path, args |-> Append(f.args, x)]
             s == Given(stack, x)
  <1>1. /\ IsSeq(u) /\ Len(u) = Len(stack) - 1 /\ Len(stack) \in Nat \ {0} /\ Top = stack[Len(stack)]
        /\ \A i \in 1 .. Len(stack) - 1 : u[i] = stack[i]
    BY SeqShrinks DEF StackOK, Top
  <1>2. Len(stack) - 1 \in Nat \ {0} /\ last \in 1 .. Len(u) /\ DOMAIN u = 1 .. Len(u) /\ (Len(stack) - 1) + 1 = Len(stack)
    <2>1. Len(u) # 0
      BY <1>1, SeqEmpty
    <2> QED
      BY <1>1, <2>1, SeqGrows
  <1>3. CallerOK(f, Top)
    <2>1. Len(stack) - 1 \in 1 .. Len(stack) - 1
      BY <1>2
    <2> QED
      BY <1>1, <1>2, <2>1 DEF StackOK
  <1>4. u[last] = f
    BY <1>1, <1>2
  <1>5. s = [u EXCEPT ![last] = g]
    <2> DEFINE r == f.rule
               p == f.path
               a == f.args
               h == [rule |-> r, path |-> p, args |-> a]
    <2>1. f = h
      BY <1>3 DEF CallerOK, FrameOK
    <2> HIDE DEF r, p, a
    <2>2. [h EXCEPT !.args = Append(@, x)] = [rule |-> r, path |-> p, args |-> Append(a, x)]
      OBVIOUS
    <2> HIDE DEF h
    <2>3. [f EXCEPT !.args = Append(@, x)] = g
      <3>1. h.args = a
        BY DEF h
      <3>2. [h EXCEPT !.args = Append(h.args, x)] = [rule |-> r, path |-> p, args |-> Append(a, x)]
        BY <2>2
      <3> QED
        BY <2>1, <3>2 DEF r, p, a
    <2> QED
      BY <1>2, <1>4, <2>3 DEF Given
  <1> HIDE DEF s, g
  <1>6. IsSeq(s) /\ Len(s) = last /\ s[last] = g /\ \A i \in 1 .. last : i # last => s[i] = u[i]
    <2>1. last \in 1 .. Len(u) /\ last = Len(u) /\ s = [u EXCEPT ![last] = g] /\ IsSeq(u)
      BY <1>1, <1>2, <1>5
    <2> HIDE DEF last, u
    <2>2. IsSeq(s) /\ Len(s) = Len(u) /\ s[last] = g /\ \A i \in 1 .. Len(u) : i # last => s[i] = u[i]
      <3>1. IsSeq(s)
        BY <2>1, SeqChanges
      <3>2. Len(s) = Len(u)
        BY <2>1, SeqChanges
      <3>3. s[last] = g
        BY <2>1, SeqChanges
      <3>4. \A i \in 1 .. Len(u) : i # last => s[i] = u[i]
        BY <2>1, SeqChanges
      <3> QED
        BY <3>1, <3>2, <3>3, <3>4
    <2> QED
      BY <2>1, <2>2
  <1>7. s # <<>>
    <2>1. IsSeq(s) /\ Len(s) # 0
      BY <1>1, <1>2, <1>6
    <2> QED
      BY <2>1, SeqEmpty, Zenon
  <1>8. \A k \in 1 .. Len(stack) - 2 : s[k] = stack[k]
    <2>1. \A k \in 1 .. Len(stack) - 2 : k \in 1 .. Len(stack) - 1 /\ k # Len(stack) - 1
      BY <1>1, <1>2
    <2> QED
      BY <1>1, <1>6, <2>1
  <1>9. Last(u) = f
    BY <1>1, <1>4 DEF Last
  <1> QED
    BY <1>1, <1>2, <1>3, <1>6, <1>7, <1>8, <1>9 DEF s, g

\* The caller has the tree it waited for.
LEMMA StackReturns ==
    ASSUME GrammarOK, StackOK(stack), Front(stack) # <<>>, stack # <<>>, NEW x,
           x.name = Top.rule, x.store = Trie(Last(Front(stack)).rule)[Last(Front(stack)).path].store
    PROVE  StackOK(Given(stack, x)) /\ Given(stack, x) # <<>>
  <1> DEFINE s == Given(stack, x)
             f == stack[Len(stack) - 1]
             g == [rule |-> f.rule, path |-> f.path, args |-> Append(f.args, x)]
  <1>1. /\ IsSeq(s) /\ Len(s) = Len(stack) - 1 /\ s # <<>> /\ Len(stack) - 1 \in Nat \ {0}
        /\ s[Len(stack) - 1] = g /\ \A k \in 1 .. Len(stack) - 2 : s[k] = stack[k]
        /\ CallerOK(f, Top) /\ Last(Front(stack)) = f
    BY FrontChanges
  <1>2. g.rule = f.rule /\ g.path = f.path /\ g.args = Append(f.args, x)
    OBVIOUS
  <1>3. TopOK(g)
    <2>1. FrameOK(f) /\ f.path # <<>> /\ Last(f.path) = Top.rule /\ Trie(f.rule)[f.path].store # ""
          /\ Match(f.args, StoredOn(Trie(f.rule), Front(f.path)))
      BY <1>1 DEF CallerOK
    <2>2. f.rule \in Rules /\ grammar[f.rule] \in Seq(Alternative) /\ f.path \in Seq(Names) /\ f.path \in DOMAIN Trie(f.rule)
      BY <2>1, FrameTyped
    <2>3. PICK p \in Seq(Names), n \in Names : f.path = Append(p, n) /\ Front(f.path) = p /\ Last(f.path) = n
      <3> HIDE DEF f
      <3> QED
        BY <2>1, <2>2, PathSplits
    <2>4. Front(f.path) = p /\ Last(f.path) = n
      BY <2>3
    <2> DEFINE store == Trie(f.rule)[f.path].store
               key == [name |-> n, store |-> store]
    <2>5. store \in STRING
      BY <2>1, <2>2, StoreIsString DEF Trie
    <2>6. key \in RulePart /\ x.name = key.name /\ x.store = key.store
      BY <1>1, <2>1, <2>4, <2>5 DEF RulePart
    <2>7. StoredOn(Trie(f.rule), f.path) = Append(StoredOn(Trie(f.rule), p), key)
      BY <2>1, <2>2, <2>3, StoredOnward DEF Trie
    <2>8. StoredOn(Trie(f.rule), p) \in Keys
      BY <2>2, <2>3, TrieUp, WayIs DEF Trie
    <2> HIDE DEF key
    <2>9. Match(Append(f.args, x), StoredOn(Trie(f.rule), f.path))
      BY <2>1, <2>4, <2>6, <2>7, <2>8, MatchOn
    <2> HIDE DEF f
    <2>10. FrameOK(g)
      BY <2>1 DEF FrameOK
    <2> QED
      BY <2>9, <2>10 DEF TopOK
  <1> HIDE DEF s, f, g
  <1>4. ASSUME NEW k \in 1 .. Len(s) - 1 PROVE CallerOK(s[k], s[k + 1])
    <2>1. CallerOK(stack[k], stack[k + 1])
      BY <1>1 DEF StackOK
    <2>2. k \in 1 .. Len(stack) - 2 /\ (k + 1 \in 1 .. Len(stack) - 2 \/ k + 1 = Len(stack) - 1)
      BY <1>1
    <2>3. s[k] = stack[k] /\ s[k + 1].rule = stack[k + 1].rule
      <3>1. CASE k + 1 = Len(stack) - 1
        BY <1>1, <1>2, <2>2, <3>1 DEF f
      <3>2. CASE k + 1 \in 1 .. Len(stack) - 2
        BY <1>1, <2>2, <3>2
      <3> QED
        BY <2>2, <3>1, <3>2
    <2> QED
      BY <2>1, <2>3 DEF CallerOK
  <1> QED
    BY <1>1, <1>3, <1>4 DEF StackOK, s
-----------------------------------------------------------------------------
(* What the functions have taken of the input. *)

\* A text goes on with what a name derives.
LEMMA TextGoesOn ==
    ASSUME GrammarOK, input \in Inputs, NEW i \in 1 .. Len(input) + 1, NEW j \in i .. Len(input) + 1,
           NEW k \in j .. Len(input) + 1, NEW names \in Seq(Names), NEW x \in Names,
           Text(input, i, j) \in Derivable(Language, names), Text(input, j, k) \in Strings(Language, x)
    PROVE  Text(input, i, k) \in Derivable(Language, Append(names, x))
  <1> DEFINE u == Text(input, i, j)
             v == Text(input, j, k)
             w == Text(input, i, k)
  <1>1. input \in Seq(Tokens) /\ Len(input) \in Nat
    BY InputsAssumption
  <1>2. k \in i .. Len(input) + 1
    BY <1>1
  <1>3. u \o v = w /\ Len(w) = k - i
    BY <1>1, <1>2, Texts
  <1>4. Language \in Families
    BY LanguageTyped
  <1> HIDE DEF u, v, w
  <1>5. Len(u \o v) <= Len(input)
    BY <1>1, <1>2, <1>3
  <1>6. u \in Derivable(Language, names) /\ v \in Strings(Language, x)
    BY DEF u, v
  <1>7. u \o v \in Derivable(Language, Append(names, x))
    BY <1>4, <1>5, <1>6, DerivableStep
  <1> QED
    BY <1>3, <1>7 DEF w

\* A rule part that is stored nowhere is not there when all are stored.
LEMMA StoredIfRule ==
    ASSUME GrammarOK, RulesAreStored, NEW r \in Rules, NEW p \in Seq(Names), NEW x \in Rules,
           Append(p, x) \in DOMAIN Trie(r)
    PROVE  Trie(r)[Append(p, x)].store # ""
  <1>1. grammar[r] \in Seq(Alternative) /\ x \in Names
    BY GrammarTyped DEF Names
  <1> DEFINE q == Append(p, x)
             alts == grammar[r]
  <1>2. q # <<>> /\ Len(q) = Len(p) + 1 /\ Len(p) \in Nat /\ q[Len(p) + 1] = x
    BY <1>1, PathEnds
  <1>3. PICK i \in DOMAIN alts : Begins(q, alts[i]) /\ TrieOf(alts)[q].store = alts[i].parts[Len(q)].store
    BY <1>1, <1>2, TrieStore DEF Trie
  <1> HIDE DEF q
  <1>4. alts[i] \in Alternative
    BY <1>1, AltsTyped
  <1>5. Len(q) \in 1 .. Len(alts[i].parts) /\ alts[i].parts[Len(q)].name = x /\ DOMAIN alts[i].parts = 1 .. Len(alts[i].parts)
    BY <1>2, <1>3, <1>4, NamesOfAlternative DEF Begins
  <1>6. alts[i].parts[Len(q)] \in ToSet(alts[i].parts)
    BY <1>5 DEF ToSet
  <1>7. alts[i].parts[Len(q)].store # ""
    BY <1>5, <1>6 DEF RulesAreStored
  <1> QED
    BY <1>3, <1>7 DEF q, Trie

\* The innermost function has taken a token.
LEMMA ReachedByToken ==
    ASSUME GrammarOK, input \in Inputs, IsSeq(stack), stack # <<>>, Reached(stack, pos),
           NEW s, Len(s) = Len(stack), \A k \in 1 .. Len(stack) - 1 : s[k] = stack[k],
           stack[Len(stack)].path \in Seq(Names), NEW n \in Tokens,
           s[Len(stack)].path = Append(stack[Len(stack)].path, n), pos \in 1 .. Len(input), input[pos] = n
    PROVE  Reached(s, pos + 1)
  <1> DEFINE last == Len(stack)
             path == stack[last].path
  <1>1. last \in Nat \ {0} /\ input \in Seq(Tokens) /\ Len(input) \in Nat /\ n \in Names /\ n \notin Rules
    BY SeqShrinks, InputsAssumption, NamesAssumption DEF Names
  <1>2. PICK b \in [1 .. last + 1 -> 1 .. Len(input) + 1] :
            /\ b[1] = 1 /\ b[last + 1] = pos
            /\ \A k \in 1 .. last : b[k] <= b[k + 1] /\ Text(input, b[k], b[k + 1]) \in Derivable(Language, Taken(stack, k))
    BY DEF Reached
  <1> DEFINE c == [k \in 1 .. last + 1 |-> IF k = last + 1 THEN pos + 1 ELSE b[k]]
  <1>3. c \in [1 .. last + 1 -> 1 .. Len(input) + 1] /\ c[1] = 1 /\ c[last + 1] = pos + 1 /\ \A k \in 1 .. last : c[k] = b[k]
    BY <1>1, <1>2
  <1>4. last \in 1 .. last /\ last \in 1 .. last + 1
    BY <1>1
  <1>5. b[last] \in 1 .. Len(input) + 1 /\ pos \in b[last] .. Len(input) + 1 /\ pos + 1 \in pos .. Len(input) + 1
    BY <1>1, <1>2, <1>4
  <1>6. Text(input, b[last], pos) \in Derivable(Language, path)
    BY <1>2, <1>4 DEF Taken
  <1>7. Text(input, pos, pos + 1) \in Strings(Language, n)
    BY <1>1, Texts DEF Strings
  <1>8. Text(input, b[last], pos + 1) \in Derivable(Language, Append(path, n))
    BY <1>1, <1>5, <1>6, <1>7, TextGoesOn
  <1> HIDE DEF c, last
  <1>9. ASSUME NEW k \in 1 .. last
        PROVE  c[k] <= c[k + 1] /\ Text(input, c[k], c[k + 1]) \in Derivable(Language, Taken(s, k))
    <2>1. CASE k = last
      <3>1. Taken(s, k) = Append(path, n)
        BY <2>1 DEF Taken, last
      <3>2. b[last] <= pos + 1
        BY <1>5
      <3> QED
        BY <1>3, <1>4, <1>8, <2>1, <3>1, <3>2
    <2>2. CASE k # last
      <3>1. k \in 1 .. last - 1 /\ k + 1 \in 1 .. last
        BY <1>1, <2>2
      <3>2. Taken(s, k) = Taken(stack, k)
        BY <2>2, <3>1 DEF Taken, last
      <3> QED
        BY <1>2, <1>3, <3>1, <3>2
    <2> QED
      BY <2>1, <2>2
  <1> QED
    BY <1>3, <1>9 DEF Reached, last

\* It has called a function, which begins where it is.
LEMMA ReachedByCall ==
    ASSUME GrammarOK, input \in Inputs, IsSeq(stack), stack # <<>>, Reached(stack, pos), pos \in 1 .. Len(input) + 1,
           NEW s, Len(s) = Len(stack) + 1, \A k \in 1 .. Len(stack) - 1 : s[k] = stack[k],
           stack[Len(stack)].path \in Seq(Names), NEW n \in Names,
           s[Len(stack)].path = Append(stack[Len(stack)].path, n), s[Len(stack) + 1].path = <<>>
    PROVE  Reached(s, pos)
  <1> DEFINE last == Len(stack)
             path == stack[last].path
  <1>1. last \in Nat \ {0} /\ input \in Seq(Tokens) /\ Len(input) \in Nat
    BY SeqShrinks, InputsAssumption
  <1>2. PICK b \in [1 .. last + 1 -> 1 .. Len(input) + 1] :
            /\ b[1] = 1 /\ b[last + 1] = pos
            /\ \A k \in 1 .. last : b[k] <= b[k + 1] /\ Text(input, b[k], b[k + 1]) \in Derivable(Language, Taken(stack, k))
    BY DEF Reached
  <1> DEFINE c == [k \in 1 .. last + 2 |-> IF k = last + 2 THEN pos ELSE b[k]]
  <1>3. /\ c \in [1 .. last + 2 -> 1 .. Len(input) + 1] /\ c[1] = 1 /\ c[last + 2] = pos
        /\ \A k \in 1 .. last + 1 : c[k] = b[k]
    BY <1>1, <1>2
  <1>4. Text(input, pos, pos) \in Derivable(Language, <<>>)
    <2>1. Derivable(Language, <<>>) = {<<>>}
      BY LanguageTyped, DerivableLaw DEF Families
    <2> QED
      BY <1>1, <2>1, Texts
  <1>5. Front(Append(path, n)) = path
    BY PathEnds
  <1> HIDE DEF c, last
  <1>6. ASSUME NEW k \in 1 .. last + 1
        PROVE  c[k] <= c[k + 1] /\ Text(input, c[k], c[k + 1]) \in Derivable(Language, Taken(s, k))
    <2>1. CASE k = last + 1
      <3>1. Taken(s, k) = <<>>
        BY <2>1 DEF Taken, last
      <3>2. k + 1 = last + 2
        BY <1>1, <2>1
      <3>3. c[k] = pos /\ c[k + 1] = pos
        BY <1>2, <1>3, <2>1, <3>2
      <3> QED
        BY <1>4, <3>1, <3>3
    <2>2. CASE k = last
      <3>1. Taken(s, k) = path /\ Taken(stack, k) = path
        <4>1. s[k].path = Append(path, n) /\ k = Len(stack) /\ k # Len(s)
          BY <1>1, <2>2 DEF last
        <4> HIDE DEF path
        <4>2. Taken(s, k) = path
          BY <1>5, <4>1 DEF Taken
        <4>3. Taken(stack, k) = path
          BY <4>1 DEF Taken, path, last
        <4> QED
          BY <4>2, <4>3
      <3>2. k \in 1 .. last /\ k + 1 \in 1 .. last + 1
        BY <1>1, <2>2
      <3> QED
        BY <1>2, <1>3, <3>1, <3>2
    <2>3. CASE k # last /\ k # last + 1
      <3>1. k \in 1 .. last - 1 /\ k \in 1 .. last /\ k + 1 \in 1 .. last + 1
        BY <1>1, <2>3
      <3>2. Taken(s, k) = Taken(stack, k)
        BY <1>1, <2>3, <3>1 DEF Taken, last
      <3> QED
        BY <1>2, <1>3, <3>1, <3>2
    <2> QED
      BY <2>1, <2>2, <2>3
  <1>7. Len(s) + 1 = last + 2 /\ Len(s) = last + 1
    BY <1>1 DEF last
  <1> QED
    BY <1>3, <1>6, <1>7 DEF Reached

\* It has returned: what it took is a sentence of its rule.
LEMMA ReachedByReturn ==
    ASSUME GrammarOK, input \in Inputs, IsSeq(stack), Len(stack) - 1 \in Nat \ {0}, Reached(stack, pos), pos \in 1 .. Len(input) + 1,
           NEW s, Len(s) = Len(stack) - 1, \A k \in 1 .. Len(stack) - 2 : s[k] = stack[k],
           s[Len(stack) - 1].path = stack[Len(stack) - 1].path,
           NEW p \in Seq(Names), NEW r \in Rules, stack[Len(stack) - 1].path = Append(p, r),
           DepthSuffices, NEW i \in DOMAIN grammar[r], stack[Len(stack)].path = NamesOf(grammar[r][i])
    PROVE  Reached(s, pos)
  <1> DEFINE last == Len(stack)
  <1>1. last \in Nat \ {0, 1} /\ input \in Seq(Tokens) /\ Len(input) \in Nat /\ r \in Names /\ stack # <<>>
    BY SeqEmpty, SeqGrows, InputsAssumption DEF Names
  <1>2. PICK b \in [1 .. last + 1 -> 1 .. Len(input) + 1] :
            /\ b[1] = 1 /\ b[last + 1] = pos
            /\ \A k \in 1 .. last : b[k] <= b[k + 1] /\ Text(input, b[k], b[k + 1]) \in Derivable(Language, Taken(stack, k))
    BY DEF Reached
  <1> DEFINE c == [k \in 1 .. last |-> IF k = last THEN pos ELSE b[k]]
  <1>3. /\ c \in [1 .. last -> 1 .. Len(input) + 1] /\ c[1] = 1 /\ c[last] = pos
        /\ \A k \in 1 .. last - 1 : c[k] = b[k]
    BY <1>1, <1>2
  <1>4. /\ last \in 1 .. last /\ last \in 1 .. last + 1 /\ last - 1 \in 1 .. last /\ (last - 1) + 1 = last /\ last - 1 \in 1 .. last - 1
        /\ last - 1 # last /\ last - 1 \in 1 .. last + 1
    BY <1>1
  <1>5. Text(input, b[last], pos) \in Strings(Language, r)
    <2>1. Text(input, b[last], pos) \in Derivable(Language, NamesOf(grammar[r][i]))
      BY <1>2, <1>4 DEF Taken
    <2> QED
      BY <2>1, AlternativeDerives DEF Strings
  <1>6. Text(input, b[last - 1], b[last]) \in Derivable(Language, p)
    <2>1. Taken(stack, last - 1) = p
      BY <1>1, <1>4, PathEnds DEF Taken
    <2> QED
      BY <1>2, <1>4, <2>1
  <1>7. /\ b[last - 1] \in 1 .. Len(input) + 1 /\ b[last] \in b[last - 1] .. Len(input) + 1
        /\ pos \in b[last] .. Len(input) + 1
    <2>1. /\ b[last - 1] \in 1 .. Len(input) + 1 /\ b[last] \in 1 .. Len(input) + 1
          /\ b[last - 1] <= b[last] /\ b[last] <= pos
      BY <1>2, <1>4
    <2> QED
      BY <1>1, <2>1
  <1>8. Text(input, b[last - 1], pos) \in Derivable(Language, Append(p, r))
    BY <1>1, <1>5, <1>6, <1>7, TextGoesOn
  <1> HIDE DEF c, last
  <1>9. ASSUME NEW k \in 1 .. last - 1
        PROVE  c[k] <= c[k + 1] /\ Text(input, c[k], c[k + 1]) \in Derivable(Language, Taken(s, k))
    <2>1. CASE k = last - 1
      <3>1. Taken(s, k) = Append(p, r)
        BY <2>1 DEF Taken, last
      <3>2. c[k] = b[last - 1] /\ c[k + 1] = pos
        BY <1>3, <1>4, <2>1
      <3>3. b[last - 1] <= pos
        BY <1>1, <1>7
      <3> QED
        BY <1>8, <3>1, <3>2, <3>3
    <2>2. CASE k # last - 1
      <3>1. k \in 1 .. last - 2 /\ k + 1 \in 1 .. last - 1 /\ k \in 1 .. last /\ k # last
        BY <1>1, <2>2
      <3>2. Taken(s, k) = Taken(stack, k)
        BY <2>2, <3>1 DEF Taken, last
      <3> QED
        BY <1>2, <1>3, <3>1, <3>2
    <2> QED
      BY <2>1, <2>2
  <1>10. Len(s) + 1 = last /\ Len(s) = last - 1
    BY <1>1 DEF last
  <1> QED
    BY <1>3, <1>9, <1>10 DEF Reached
-----------------------------------------------------------------------------
(* The steps of the parser. *)

\* The alternative a node with a value ends.
LEMMA ValueIs ==
    ASSUME GeneratorInv, WorkOK, stack # <<>>, Top.path \in Values(TrieOfTop)
    PROVE  \E i \in DOMAIN grammar[Top.rule] : /\ NamesOf(grammar[Top.rule][i]) = Top.path
                                               /\ TrieOfTop[Top.path].value = grammar[Top.rule][i].id
  <1>1. GrammarOK /\ FrameOK(Top) /\ TrieOfTop = Trie(Top.rule)
    BY AtTheTop DEF GeneratorInv, TopOK
  <1>2. grammar[Top.rule] \in Seq(Alternative) /\ Top.path \in DOMAIN Trie(Top.rule)
    BY <1>1, FrameTyped
  <1> QED
    BY <1>1, <1>2, TrieValues DEF Trie

\* One branch, whichever way on.
LEMMA BranchWork ==
    ASSUME GeneratorInv, WorkOK, Branch
    PROVE  /\ StackOK(stack') /\ stack' # <<>> /\ pos' \in 1 .. Len(input) + 1
           /\ RulesAreStored /\ Reached(stack, pos) => Reached(stack', pos')
  <1>1. stack # <<>> /\ GrammarOK
    BY DEF Branch, GeneratorInv
  <1>2. /\ input \in Inputs /\ Len(input) \in Nat /\ IsSeq(stack) /\ Len(stack) \in Nat \ {0} /\ Top = stack[Len(stack)] /\ TopOK(Top)
        /\ Top.path \in Seq(Names) /\ StackOK(stack) /\ pos \in 1 .. Len(input) + 1
    BY <1>1, AtTheTop DEF WorkOK
  <1>3. PICK n \in Names : /\ Onward(n) \in DOMAIN Trie(Top.rule) /\ curToken \in Starting(n) /\ curToken \in Tokens
                           /\ TakesToken(n) \/ CallsRule(n) \/ PassesOver(n)
    BY BranchIs
  <1>4. pos \in 1 .. Len(input) /\ curToken = input[pos] /\ pos + 1 \in 1 .. Len(input) + 1
    BY <1>1, <1>2, <1>3, AtTheTop
  <1>5. n \notin Rules => n \in Tokens /\ input[pos] = n
    BY <1>3, <1>4 DEF Starting, Names
  <1>6. n \in Tokens => n \notin Rules
    BY NamesAssumption
  <1> DEFINE path == Append(Top.path, n)
             r == Top.rule
             store == Trie(r)[path].store
             now == StoredOn(Trie(r), Top.path)
             key == [name |-> n, store |-> store]
  <1>7. /\ r \in Rules /\ path \in DOMAIN Trie(r) /\ path # <<>> /\ Last(path) = n /\ Front(path) = Top.path
        /\ StoredOn(Trie(r), path) = (IF store = "" THEN now ELSE Append(now, key))
        /\ key \in RulePart /\ now \in Keys /\ Match(Top.args, now) /\ StoreOf(n) = store /\ Onward(n) = path
    <2>1. FrameOK(Top) /\ Match(Top.args, now)
      BY <1>2 DEF TopOK
    <2>2. r \in Rules /\ now \in Keys
      BY <1>1, <2>1, FrameTyped
    <2>3. path \in DOMAIN Trie(r) /\ path # <<>> /\ Last(path) = n /\ Front(path) = Top.path
      BY <1>2, <1>3, PathEnds DEF Onward
    <2>4. StoredOn(Trie(r), path) = (IF store = "" THEN now ELSE Append(now, key)) /\ key \in RulePart
      BY <1>1, <2>1, <2>3, StoredNext
    <2> QED
      BY <2>1, <2>2, <2>3, <2>4 DEF StoreOf, Onward
  <1> HIDE DEF path, r, store, now, key
  <1>8. CASE TakesToken(n)
    <2> DEFINE arg == [name |-> n, store |-> store, value |-> [token |-> pos]]
               args == Append(Top.args, arg)
               f == [rule |-> Top.rule, path |-> path, args |-> args]
    <2>1. n \in Tokens /\ store # "" /\ stack' = AtTop(path, args) /\ pos' = pos + 1
      BY <1>7, <1>8 DEF TakesToken
    <2>2. arg.name = key.name /\ arg.store = key.store
      BY DEF key
    <2> HIDE DEF arg
    <2>3. Match(args, StoredOn(Trie(r), path))
      BY <1>7, <2>1, <2>2, MatchOn
    <2> HIDE DEF args
    <2>4. TopOK(f)
      BY <1>7, <2>3 DEF TopOK, FrameOK, r
    <2>5. StackOK(stack') /\ stack' # <<>>
      BY <1>1, <1>2, <2>1, <2>4, StackAtTop
    <2>6. Reached(stack, pos) => Reached(stack', pos')
      <3>1. /\ Len(stack') = Len(stack) /\ stack'[Len(stack)] = f
            /\ \A k \in 1 .. Len(stack) - 1 : stack'[k] = stack[k]
        <4> DEFINE t == AtTop(path, args)
        <4>1. Len(t) = Len(stack) /\ t[Len(stack)] = f /\ \A k \in 1 .. Len(stack) - 1 : t[k] = stack[k]
          BY <1>1, <1>2, TopChanges
        <4> HIDE DEF t, f
        <4>2. stack' = t
          BY <2>1 DEF t
        <4> QED
          BY <4>1, <4>2
      <3>2. stack'[Len(stack)].path = Append(stack[Len(stack)].path, n)
        BY <1>2, <3>1 DEF path
      <3>3. input[pos] = n
        BY <1>5, <1>6, <2>1
      <3> QED
        BY <1>1, <1>2, <1>4, <2>1, <3>1, <3>2, <3>3, ReachedByToken
    <2> QED
      BY <1>4, <2>1, <2>5, <2>6
  <1>9. CASE CallsRule(n)
    <2> DEFINE args == Top.args
               f == [rule |-> Top.rule, path |-> path, args |-> args]
               s == Append(AtTop(path, args), Frame(n))
    <2>1. n \in Rules /\ store # "" /\ stack' = s /\ pos' = pos
      BY <1>7, <1>9 DEF CallsRule
    <2>2. Frame(n).rule = n /\ Frame(n).path = <<>>
      BY DEF Frame
    <2>3. CallerOK(f, Frame(n))
      <3>1. FrameOK(f)
        BY <1>7 DEF FrameOK, r
      <3>2. Trie(f.rule)[f.path].store # "" /\ Match(f.args, StoredOn(Trie(f.rule), Front(f.path)))
        BY <1>7, <2>1 DEF store, r, now
      <3> QED
        BY <1>7, <2>2, <3>1, <3>2 DEF CallerOK
    <2>4. StackOK(stack') /\ stack' # <<>>
      BY <1>1, <1>2, <2>1, <2>3, StackCalls
    <2>5. Reached(stack, pos) => Reached(stack', pos')
      <3> DEFINE t == AtTop(path, args)
      <3>1. IsSeq(t) /\ Len(t) = Len(stack) /\ t[Len(stack)] = f /\ \A k \in 1 .. Len(stack) - 1 : t[k] = stack[k]
        BY <1>1, <1>2, TopChanges
      <3> HIDE DEF t, f
      <3>2. /\ Len(stack') = Len(stack) + 1 /\ stack'[Len(stack) + 1] = Frame(n)
            /\ \A k \in 1 .. Len(stack) : stack'[k] = t[k]
        <4> DEFINE callee == Frame(n)
                   u == Append(t, callee)
        <4> HIDE DEF callee
        <4>1. Len(u) = Len(t) + 1 /\ u[Len(t) + 1] = callee /\ \A k \in 1 .. Len(t) : u[k] = t[k]
          BY <3>1, SeqGrows
        <4> HIDE DEF u
        <4>2. stack' = u
          BY <2>1 DEF u, t, callee
        <4> QED
          BY <3>1, <4>1, <4>2 DEF callee
      <3>3. stack'[Len(stack)] = f /\ \A k \in 1 .. Len(stack) - 1 : stack'[k] = stack[k]
        BY <1>2, <3>1, <3>2
      <3>4. stack'[Len(stack)].path = Append(stack[Len(stack)].path, n)
        BY <1>2, <3>3 DEF f, path
      <3>5. stack'[Len(stack) + 1].path = <<>>
        BY <2>2, <3>2
      <3> QED
        BY <1>1, <1>2, <2>1, <3>2, <3>3, <3>4, <3>5, ReachedByCall
    <2> QED
      BY <1>2, <2>1, <2>4, <2>5
  <1>10. CASE PassesOver(n)
    <2> DEFINE args == Top.args
               f == [rule |-> Top.rule, path |-> path, args |-> args]
    <2>1. store = "" /\ stack' = AtTop(path, args) /\ pos' = pos + 1
      BY <1>7, <1>10 DEF PassesOver
    <2>2. TopOK(f)
      BY <1>7, <2>1 DEF TopOK, FrameOK, r
    <2>3. StackOK(stack') /\ stack' # <<>>
      BY <1>1, <1>2, <2>1, <2>2, StackAtTop
    <2>4. ASSUME RulesAreStored, Reached(stack, pos) PROVE Reached(stack', pos')
      <3>1. /\ Len(stack') = Len(stack) /\ stack'[Len(stack)] = f
            /\ \A k \in 1 .. Len(stack) - 1 : stack'[k] = stack[k]
        <4> DEFINE t == AtTop(path, args)
        <4>1. Len(t) = Len(stack) /\ t[Len(stack)] = f /\ \A k \in 1 .. Len(stack) - 1 : t[k] = stack[k]
          BY <1>1, <1>2, TopChanges
        <4> HIDE DEF t, f
        <4>2. stack' = t
          BY <2>1 DEF t
        <4> QED
          BY <4>1, <4>2
      <3>2. stack'[Len(stack)].path = Append(stack[Len(stack)].path, n)
        BY <1>2, <3>1 DEF path
      <3>3. n \in Tokens /\ input[pos] = n
        <4>1. n \notin Rules
          BY <1>1, <1>2, <1>7, <2>1, <2>4, StoredIfRule DEF path, store, r
        <4> QED
          BY <1>5, <4>1
      <3> QED
        BY <1>1, <1>2, <1>4, <2>1, <2>4, <3>1, <3>2, <3>3, ReachedByToken
    <2> QED
      BY <1>4, <2>1, <2>3, <2>4
  <1> QED
    BY <1>3, <1>8, <1>9, <1>10

\* A function returns to its caller.
LEMMA ReturnWork ==
    ASSUME GeneratorInv, WorkOK, Return, Front(stack) # <<>>
    PROVE  /\ StackOK(stack') /\ stack' # <<>> /\ UNCHANGED result
           /\ RulesAreStored /\ DepthSuffices /\ Reached(stack, pos) => Reached(stack', pos)
           /\ \E x : stack' = Given(stack, x)
  <1>1. stack # <<>> /\ GrammarOK /\ Top.path \in Values(TrieOfTop)
    BY DEF Return, GeneratorInv
  <1>2. /\ phase = "parse" /\ input \in Inputs /\ IsSeq(stack) /\ Top = stack[Len(stack)] /\ TopOK(Top)
        /\ StackOK(stack) /\ pos \in 1 .. Len(input) + 1 /\ Top.rule \in Rules
    BY <1>1, AtTheTop DEF WorkOK, TopOK, FrameOK
  <1> DEFINE callers == Front(stack)
             caller == Last(callers)
             node == MakeShared(Top.rule, Top.args, TrieOfTop[Top.path].value)
             x == [name |-> Top.rule, store |-> code.parse[caller.rule].trie[caller.path].store, value |-> node]
  <1>3. result' = result /\ stack' = Given(stack, x)
    BY DEF Return, Given
  <1>4. /\ CallerOK(caller, Top) /\ caller = stack[Len(stack) - 1] /\ Len(stack) - 1 \in Nat \ {0}
        /\ Len(stack') = Len(stack) - 1 /\ stack'[Len(stack) - 1].path = caller.path
        /\ \A k \in 1 .. Len(stack) - 2 : stack'[k] = stack[k]
    <2> DEFINE f == stack[Len(stack) - 1]
               s == Given(stack, x)
    <2> HIDE DEF x
    <2>1. /\ Len(s) = Len(stack) - 1 /\ Len(stack) - 1 \in Nat \ {0}
          /\ s[Len(stack) - 1] = [rule |-> f.rule, path |-> f.path, args |-> Append(f.args, x)]
          /\ \A k \in 1 .. Len(stack) - 2 : s[k] = stack[k]
          /\ CallerOK(f, Top) /\ caller = f
      BY <1>1, <1>2, FrontChanges
    <2>2. stack' = s
      BY <1>3
    <2> HIDE DEF s, f, caller
    <2>3. s[Len(stack) - 1].path = f.path
      BY <2>1
    <2> QED
      BY <2>1, <2>2, <2>3 DEF f
  <1>5. caller.rule \in Rules /\ caller.path \in Seq(Names) /\ caller.path # <<>> /\ Last(caller.path) = Top.rule
    BY <1>1, <1>4, FrameTyped DEF CallerOK
  <1>6. x.name = Top.rule /\ x.store = Trie(caller.rule)[caller.path].store
    BY <1>2, <1>5, AtWork
  <1> HIDE DEF x, caller
  <1>7. StackOK(stack') /\ stack' # <<>>
    BY <1>1, <1>2, <1>3, <1>6, StackReturns DEF caller
  <1>8. ASSUME RulesAreStored, DepthSuffices, Reached(stack, pos) PROVE Reached(stack', pos)
    <2>1. PICK p \in Seq(Names), n \in Names : caller.path = Append(p, n) /\ Last(caller.path) = n
      BY <1>5, PathSplits
    <2>2. PICK i \in DOMAIN grammar[Top.rule] : NamesOf(grammar[Top.rule][i]) = Top.path
      BY <1>1, ValueIs
    <2>3. stack[Len(stack) - 1].path = Append(p, Top.rule) /\ stack[Len(stack)].path = NamesOf(grammar[Top.rule][i])
      BY <1>2, <1>4, <1>5, <2>1, <2>2
    <2> QED
      BY <1>1, <1>2, <1>4, <1>8, <2>2, <2>3, ReachedByReturn
  <1> QED
    BY <1>3, <1>7, <1>8
-----------------------------------------------------------------------------
(* What the parser answers. *)

\* The constructor that is called gives each member its value, when constructors of
\* one signature store under the same names (recdec.cpp 1003-1047).
LEMMA KeepsValues ==
    ASSUME GeneratorInv, phase = "parse", NEW r \in Rules, NEW p \in Values(Trie(r)), NEW id,
           NEW args, Match(args, StoredOn(Trie(r), p)), NamesAgree(grammar[r]), SameNames(grammar[r])
    PROVE  KeepsItsValues(MakeShared(r, args, id))
  <1> DEFINE alts == grammar[r]
             trie == Trie(r)
             keys == StoredOn(trie, p)
             ctors == CtorsOf(alts)
             ctor == CHOOSE c \in ToSet(ctors) : Signature(c) = Signature(args)
             node == MakeShared(r, args, id)
  <1>1. GrammarOK /\ code.class[r].constructors = ctors /\ alts \in Seq(Alternative)
    <2>1. GrammarOK /\ Written(code, r)
      BY AtWork
    <2>2. code.class[r].constructors = ctors
      BY <2>1 DEF Written
    <2> QED
      BY <2>1, <2>2, GrammarTyped
  <1>2. /\ \A q \in Values(trie) : \E i \in DOMAIN alts : StoredOn(trie, q) = Stored(alts[i].parts)
        /\ \A i \in DOMAIN alts : Stored(alts[i].parts) \in Keys /\ OnceEach(Stored(alts[i].parts))
    <2>1. ASSUME NEW q \in Values(trie) PROVE \E i \in DOMAIN alts : StoredOn(trie, q) = Stored(alts[i].parts)
      <3>1. q \in DOMAIN trie
        BY DEF Values
      <3>2. PICK i \in DOMAIN alts : NamesOf(alts[i]) = q
        BY <1>1, <3>1, TrieValues DEF Trie
      <3>3. StoredOn(trie, q) = Stored(alts[i].parts)
        BY <1>1, <3>2, WayAgrees DEF Trie
      <3> QED
        BY <3>3
    <2>2. \A i \in DOMAIN alts : Stored(alts[i].parts) \in Keys /\ OnceEach(Stored(alts[i].parts))
      BY <1>1, StoredIn
    <2> QED
      BY <2>1, <2>2
  <1>3. /\ \A c \in ToSet(ctors) : \E q \in Values(trie) : c = StoredOn(trie, q)
        /\ keys = <<>> \/ \E c \in ToSet(ctors) : Signature(c) = Signature(keys)
    BY <1>1, CtorsWritten DEF Trie
  <1>4. PICK i \in DOMAIN alts : keys = Stored(alts[i].parts)
    BY <1>2
  <1>5. /\ keys \in Keys /\ DOMAIN keys = 1 .. Len(keys) /\ Len(keys) \in Nat
        /\ IsSeq(args) /\ DOMAIN args = 1 .. Len(keys) /\ Len(args) = Len(keys)
        /\ \A n \in 1 .. Len(keys) : args[n].name = keys[n].name /\ args[n].store = keys[n].store
    <2>1. keys \in Seq(RulePart)
      BY <1>2, <1>4 DEF Keys
    <2> HIDE DEF keys
    <2>2. DOMAIN keys = 1 .. Len(keys) /\ Len(keys) \in Nat
      BY <2>1
    <2>3. Match(args, keys)
      BY DEF keys
    <2> QED
      BY <2>1, <2>2, <2>3, SeqGrows DEF Keys, Match
  <1>6. node.members = [s \in {ctor[k].store : k \in IF args = <<>> THEN {} ELSE DOMAIN ctor} |->
                           args[CHOOSE k \in DOMAIN ctor : ctor[k].store = s].value]
    BY <1>1 DEF MakeShared
  <1>7. node.read = {<<args[k].store, args[k].value>> : k \in DOMAIN args}
    BY DEF MakeShared
  <1> SUFFICES ASSUME NEW n \in DOMAIN args
               PROVE  args[n].store \in DOMAIN node.members /\ node.members[args[n].store] = args[n].value
    <2> SUFFICES ASSUME NEW rv \in node.read PROVE rv[1] \in DOMAIN node.members /\ node.members[rv[1]] = rv[2]
      BY DEF KeepsItsValues
    <2>1. PICK n \in DOMAIN args : rv = <<args[n].store, args[n].value>>
      BY <1>7, Zenon
    <2>2. rv[1] = args[n].store /\ rv[2] = args[n].value
      BY <2>1
    <2> HIDE DEF node
    <2> QED
      BY <2>2
  <1> HIDE DEF node, alts, trie, keys
  <1>8. args # <<>> /\ keys # <<>>
    BY <1>5
  <1>9. Signature(args) = Signature(keys)
    BY <1>5 DEF Signature
  <1>10. ctor \in ToSet(ctors) /\ Signature(ctor) = Signature(keys)
    BY <1>3, <1>8, <1>9
  <1> HIDE DEF ctor, ctors
  <1>11. PICK j \in DOMAIN alts : ctor = Stored(alts[j].parts)
    BY <1>2, <1>3, <1>10
  <1>12. /\ DOMAIN ctor = DOMAIN keys
         /\ \A k \in DOMAIN keys : keys[k].store = ctor[k].store
         /\ \A k, l \in DOMAIN keys : ctor[k].store = ctor[l].store => k = l
    <2>1. DOMAIN ctor = DOMAIN keys
      <3>1. DOMAIN Signature(ctor) = DOMAIN ctor /\ DOMAIN Signature(keys) = DOMAIN keys
        BY DEF Signature
      <3> QED
        BY <1>10, <3>1
    <2>2. \A k \in DOMAIN keys : keys[k].store = ctor[k].store
      BY <1>4, <1>10, <1>11 DEF SameNames, alts
    <2>3. OnceEach(ctor) /\ ctor \in Seq(RulePart)
      BY <1>2, <1>11 DEF Keys
    <2>4. DOMAIN ctor = 1 .. Len(ctor)
      BY <2>3
    <2> QED
      BY <2>1, <2>2, <2>3, <2>4 DEF OnceEach
  <1>13. n \in DOMAIN ctor /\ args[n].store = ctor[n].store
    BY <1>5, <1>12
  <1>14. (CHOOSE k \in DOMAIN ctor : ctor[k].store = args[n].store) = n
    BY <1>12, <1>13
  <1>15. args[n].store \in {ctor[k].store : k \in IF args = <<>> THEN {} ELSE DOMAIN ctor}
    BY <1>8, <1>13
  <1> DEFINE D == {ctor[k].store : k \in IF args = <<>> THEN {} ELSE DOMAIN ctor}
             m(s) == args[CHOOSE k \in DOMAIN ctor : ctor[k].store = s].value
  <1>16. node.members = [s \in D |-> m(s)] /\ args[n].store \in D /\ m(args[n].store) = args[n].value
    BY <1>6, <1>14, <1>15
  <1> HIDE DEF D, m
  <1> QED
    BY <1>16

\* The first function returns: its tree is the answer.
LEMMA ReturnAnswers ==
    ASSUME GeneratorInv, WorkOK, Return, Front(stack) = <<>>
    PROVE  /\ stack' = <<>> /\ UNCHANGED <<grammar, input, pos>> /\ Top.rule \in Rules /\ Top.path \in Values(Trie(Top.rule))
           /\ Len(stack) = 1 /\ phase = "parse" /\ input \in Inputs
           /\ result' = MakeShared(Top.rule, Top.args, Trie(Top.rule)[Top.path].value)
           /\ result'.status = "accepted" /\ result'.rule = Top.rule
           /\ Reached(stack, pos) => \E alt \in ToSet(grammar[Top.rule]) :
                                         alt.id = result'.id /\ Consumed \in Derivable(Language, NamesOf(alt))
           /\ NamesAgree(grammar[Top.rule]) /\ SameNames(grammar[Top.rule]) => KeepsItsValues(result')
  <1> DEFINE id == Trie(Top.rule)[Top.path].value
             r == Top.rule
             args == Top.args
             node == MakeShared(r, args, id)
  <1>1. stack # <<>> /\ GrammarOK /\ Top.path \in Values(TrieOfTop)
    BY DEF Return, GeneratorInv
  <1>2. /\ phase = "parse" /\ input \in Inputs /\ IsSeq(stack) /\ Top = stack[Len(stack)] /\ TopOK(Top) /\ r \in Rules
        /\ TrieOfTop = Trie(r) /\ Len(stack) \in Nat \ {0}
    BY <1>1, AtTheTop DEF TopOK, FrameOK
  <1>3. Len(stack) = 1
    <2>1. Len(Front(stack)) = Len(stack) - 1
      BY <1>1, <1>2, SeqShrinks
    <2> QED
      BY <1>2, <2>1
  <1>4. stack' = <<>> /\ UNCHANGED <<grammar, input, pos>> /\ result' = node
    BY <1>2 DEF Return, genVars
  <1>5. node.status = "accepted" /\ node.rule = r /\ node.id = id
    BY DEF MakeShared
  <1>6. NamesAgree(grammar[r]) /\ SameNames(grammar[r]) => KeepsItsValues(node)
    <2>1. Match(args, StoredOn(Trie(r), Top.path)) /\ Top.path \in Values(Trie(r))
      BY <1>1, <1>2 DEF TopOK
    <2> HIDE DEF args, r, id
    <2> QED
      BY <1>2, <2>1, KeepsValues
  <1> HIDE DEF node
  <1>7. ASSUME Reached(stack, pos)
        PROVE  \E alt \in ToSet(grammar[r]) : alt.id = node.id /\ Consumed \in Derivable(Language, NamesOf(alt))
    <2>1. PICK i \in DOMAIN grammar[r] : NamesOf(grammar[r][i]) = Top.path /\ id = grammar[r][i].id
      BY <1>1, <1>2, ValueIs
    <2>2. Text(input, 1, pos) \in Derivable(Language, Top.path)
      <3>1. PICK b \in [1 .. Len(stack) + 1 -> 1 .. Len(input) + 1] :
                /\ b[1] = 1 /\ b[Len(stack) + 1] = pos
                /\ \A k \in 1 .. Len(stack) : b[k] <= b[k + 1] /\ Text(input, b[k], b[k + 1]) \in Derivable(Language, Taken(stack, k))
        BY <1>7 DEF Reached
      <3>2. Len(stack) \in 1 .. Len(stack) /\ b[Len(stack)] = 1
        BY <1>3, <3>1
      <3> QED
        BY <1>2, <3>1, <3>2 DEF Taken
    <2>3. grammar[r][i] \in ToSet(grammar[r])
      BY DEF ToSet
    <2> QED
      BY <1>5, <2>1, <2>2, <2>3 DEF Consumed, Text
  <1>8. result'.status = "accepted" /\ result'.rule = r /\ result' = node
    BY <1>4, <1>5
  <1>9. Top.path \in Values(Trie(r))
    BY <1>1, <1>2
  <1>10. node = MakeShared(Top.rule, Top.args, Trie(Top.rule)[Top.path].value)
    BY DEF node
  <1> HIDE DEF id
  <1> QED
    BY <1>2, <1>3, <1>4, <1>6, <1>7, <1>8, <1>9, <1>10, Zenon

\* An exception is of the function that threw it: its error lists the names
\* that could have come, and the token is none of them.
LEMMA ThrowAnswers ==
    ASSUME GeneratorInv, WorkOK, Throw
    PROVE  LET error == code.errors[result'.error]
           IN /\ stack' = <<>> /\ phase = "parse"
              /\ result'.status = "refused"
              /\ error.rule = result'.by.rule /\ error.depth = Len(result'.by.path) + 1
              /\ error.possible # {} /\ \A n \in error.possible : result'.token \notin Starting(n)
  <1>1. stack # <<>> /\ GrammarOK /\ Matching = {} /\ Top.path \notin Values(TrieOfTop)
    BY DEF Throw, GeneratorInv
  <1>2. /\ phase = "parse" /\ FrameOK(Top) /\ Top.rule \in Rules /\ TrieOfTop = Trie(Top.rule)
        /\ \A n \in Names : Accepts(n) <=> curToken \in Starting(n)
    BY <1>1, AtTheTop DEF TopOK, FrameOK
  <1> DEFINE trie == Trie(Top.rule)
             path == Top.path
             number == code.parse[Top.rule].throws[path]
  <1>3. grammar[Top.rule] \in Seq(Alternative) /\ path \in DOMAIN trie
    BY <1>1, <1>2, FrameTyped
  <1>4. Children(trie, path) # {} /\ path \in Dead(trie)
    <2>1. Children(trie, path) # {}
      BY <1>1, <1>2, <1>3, TrieChildren DEF Trie
    <2> QED
      BY <1>1, <1>2, <1>3, <2>1 DEF Dead
  <1>5. code.errors[number] = ErrorAt(Top.rule, trie, path)
    BY <1>2, <1>4, AtWork DEF Written, Trie
  <1>6. /\ ErrorAt(Top.rule, trie, path).rule = Top.rule /\ ErrorAt(Top.rule, trie, path).depth = Len(path) + 1
        /\ ErrorAt(Top.rule, trie, path).possible = Children(trie, path)
    BY DEF ErrorAt
  <1>7. ASSUME NEW n \in Children(trie, path) PROVE curToken \notin Starting(n)
    <2>1. n \in Names /\ ~Accepts(n)
      BY <1>1, <1>2 DEF Matching, Children
    <2> QED
      BY <1>2, <2>1
  <1>8. /\ stack' = <<>> /\ result'.status = "refused" /\ result'.error = number /\ result'.by = Top
        /\ result'.token = curToken
    <2>1. result' = [status |-> "refused", error |-> number, token |-> curToken, by |-> Top] /\ stack' = <<>>
      BY DEF Throw
    <2> HIDE DEF number
    <2> QED
      BY <2>1
  <1> QED
    BY <1>2, <1>4, <1>5, <1>6, <1>7, <1>8
-----------------------------------------------------------------------------
(* How a sentence is cut into the parts of an alternative. *)

\* The names from the n-th on take the input from p to e.
Spans(names, n, p, e) ==
    \E t \in [n .. Len(names) -> 1 .. Len(input) + 1] :
        /\ t[n] = p /\ t[Len(names)] = e
        /\ \A m \in n + 1 .. Len(names) : t[m - 1] <= t[m] /\ Text(input, t[m - 1], t[m]) \in Strings(Language, names[m])

Make(u, v, t) == u \o v = t

\* A text that is joined of two is cut where the first ends.
LEMMA TextSplits ==
    ASSUME NEW w \in Seq(Tokens), NEW p \in 1 .. Len(w) + 1, NEW e \in p .. Len(w) + 1,
           NEW u \in Seq(Tokens), NEW v \in Seq(Tokens), Make(u, v, Text(w, p, e))
    PROVE  \E q \in p .. e : u = Text(w, p, q) /\ v = Text(w, q, e)
  <1> DEFINE q == p + Len(u)
             t == Text(w, p, e)
  <1>1. /\ Len(w) \in Nat /\ Len(u) \in Nat /\ Len(v) \in Nat
        /\ t \in Seq(Tokens) /\ Len(t) = e - p /\ \A n \in 1 .. e - p : t[n] = w[p + n - 1]
    BY Texts
  <1>2. /\ Len(u) + Len(v) = e - p
        /\ \A n \in 1 .. Len(u) + Len(v) : t[n] = IF n <= Len(u) THEN u[n] ELSE v[n - Len(u)]
    <2> DEFINE c == u \o v
    <2>1. /\ Len(c) = Len(u) + Len(v)
          /\ \A n \in 1 .. Len(u) + Len(v) : c[n] = IF n <= Len(u) THEN u[n] ELSE v[n - Len(u)]
      BY ConcatProperties
    <2>2. c = t
      BY DEF Make
    <2> HIDE DEF c, t
    <2> QED
      BY <1>1, <2>1, <2>2
  <1> HIDE DEF t
  <1>3. /\ q \in p .. e /\ q \in 1 .. Len(w) + 1 /\ q \in p .. Len(w) + 1 /\ e \in q .. Len(w) + 1
        /\ q - p = Len(u) /\ e - q = Len(v)
    BY <1>1, <1>2
  <1>4. /\ Text(w, p, q) \in Seq(Tokens) /\ Len(Text(w, p, q)) = q - p
        /\ \A n \in 1 .. q - p : Text(w, p, q)[n] = w[p + n - 1]
        /\ Text(w, q, e) \in Seq(Tokens) /\ Len(Text(w, q, e)) = e - q
        /\ \A n \in 1 .. e - q : Text(w, q, e)[n] = w[q + n - 1]
    BY <1>3, Texts, Zenon
  <1>5. u = Text(w, p, q)
    <2>1. ASSUME NEW n \in 1 .. Len(u) PROVE u[n] = Text(w, p, q)[n]
      <3>1. n \in 1 .. Len(u) + Len(v) /\ n <= Len(u) /\ n \in 1 .. e - p
        BY <1>1, <1>2
      <3> HIDE DEF q
      <3> QED
        BY <1>1, <1>2, <1>3, <1>4, <3>1
    <2> QED
      BY <1>3, <1>4, <2>1, SeqEqual
  <1>6. v = Text(w, q, e)
    <2>1. ASSUME NEW n \in 1 .. Len(v) PROVE v[n] = Text(w, q, e)[n]
      <3> DEFINE m == Len(u) + n
      <3>1. /\ m \in 1 .. Len(u) + Len(v) /\ ~(m <= Len(u)) /\ m \in 1 .. e - p /\ m - Len(u) = n
            /\ p + m - 1 = q + n - 1
        BY <1>1, <1>2
      <3> HIDE DEF q, m
      <3>2. t[m] = v[n] /\ t[m] = w[q + n - 1]
        BY <1>1, <1>2, <3>1
      <3> QED
        BY <1>3, <1>4, <3>2
    <2> QED
      BY <1>3, <1>4, <2>1, SeqEqual
  <1> QED
    BY <1>3, <1>5, <1>6

\* A text that is derived from names is cut into what each of them takes.
LEMMA SpansAll ==
    ASSUME GrammarOK, input \in Seq(Tokens), NEW names \in Seq(Names),
           NEW p \in 1 .. Len(input) + 1, NEW e \in p .. Len(input) + 1, Text(input, p, e) \in Derivable(Language, names)
    PROVE  Spans(names, 0, p, e)
  <1> DEFINE P(s) == \A a \in 1 .. Len(input) + 1 : \A z \in a .. Len(input) + 1 :
                         Text(input, a, z) \in Derivable(Language, s) => Spans(s, 0, a, z)
             T == {s \in Seq(Names) : P(s)}
  <1>1. Language \in Families /\ Len(input) \in Nat
    BY LanguageTyped
  <1>2. P(<<>>)
    <2> SUFFICES ASSUME NEW a \in 1 .. Len(input) + 1, NEW z \in a .. Len(input) + 1,
                        Text(input, a, z) \in Derivable(Language, <<>>)
                 PROVE  Spans(<<>>, 0, a, z)
      OBVIOUS
    <2>1. Derivable(Language, <<>>) = {<<>>}
      BY <1>1, DerivableLaw DEF Families
    <2>2. z = a
      <3> DEFINE g == Text(input, a, z)
      <3>1. g \in Seq(Tokens) /\ Len(g) = z - a
        BY Texts
      <3>2. g = <<>>
        BY <2>1
      <3> HIDE DEF g
      <3>3. Len(g) = 0
        BY <3>2
      <3> QED
        BY <1>1, <3>1, <3>3
    <2> DEFINE t == [m \in 0 .. 0 |-> a]
    <2>3. t \in [0 .. Len(<<>>) -> 1 .. Len(input) + 1] /\ t[0] = a /\ Len(<<>>) = 0
      OBVIOUS
    <2> HIDE DEF t
    <2> QED
      BY <2>2, <2>3 DEF Spans
  <1>3. ASSUME NEW s \in T, NEW x \in Names PROVE P(Append(s, x))
    <2> DEFINE r == Append(s, x)
    <2> SUFFICES ASSUME NEW a \in 1 .. Len(input) + 1, NEW z \in a .. Len(input) + 1,
                        Text(input, a, z) \in Derivable(Language, r)
                 PROVE  Spans(r, 0, a, z)
      OBVIOUS
    <2>1. /\ s \in Seq(Names) /\ Len(s) \in Nat /\ Len(r) = Len(s) + 1 /\ r[Len(s) + 1] = x
          /\ \A n \in 1 .. Len(s) : r[n] = s[n]
      BY AppendProperties
    <2>2. PICK u \in Derivable(Language, s), v \in Strings(Language, x) : u \o v = Text(input, a, z)
      <3>1. Derivable(Language, r) = Cut({d[1] \o d[2] : d \in Derivable(Language, s) \X Strings(Language, x)})
        BY <1>1, <2>1, DerivableLaw DEF Families
      <3>2. PICK d \in Derivable(Language, s) \X Strings(Language, x) : d[1] \o d[2] = Text(input, a, z)
        BY <3>1, Zenon DEF Cut
      <3>3. d[1] \in Derivable(Language, s) /\ d[2] \in Strings(Language, x)
        BY <3>2
      <3> QED
        BY <3>2, <3>3
    <2>3. u \in Seq(Tokens) /\ v \in Seq(Tokens)
      BY <1>1, <2>1, DerivableLaw, StringsTyped DEF Families
    <2>4. PICK q \in a .. z : u = Text(input, a, q) /\ v = Text(input, q, z)
      <3> DEFINE g == Text(input, a, z)
      <3>1. Make(u, v, g)
        BY <2>2 DEF Make
      <3> HIDE DEF r
      <3>2. \E q \in a .. z : u = Text(input, a, q) /\ v = Text(input, q, z)
        BY <2>3, <3>1, TextSplits
      <3> QED
        BY <3>2, Zenon
    <2>5. q \in a .. Len(input) + 1 /\ q <= z /\ Text(input, a, q) \in Derivable(Language, s) /\ Text(input, q, z) \in Strings(Language, x)
      BY <1>1, <2>2, <2>4
    <2>6. Spans(s, 0, a, q)
      BY <2>5
    <2>7. PICK t \in [0 .. Len(s) -> 1 .. Len(input) + 1] :
              /\ t[0] = a /\ t[Len(s)] = q
              /\ \A m \in 0 + 1 .. Len(s) : t[m - 1] <= t[m] /\ Text(input, t[m - 1], t[m]) \in Strings(Language, s[m])
      BY <2>6 DEF Spans
    <2> DEFINE c == [m \in 0 .. Len(r) |-> IF m = Len(r) THEN z ELSE t[m]]
    <2>8. /\ c \in [0 .. Len(r) -> 1 .. Len(input) + 1] /\ c[0] = a /\ c[Len(r)] = z
          /\ \A m \in 0 .. Len(s) : c[m] = t[m]
      BY <1>1, <2>1, <2>7
    <2> HIDE DEF c, r
    <2>9. ASSUME NEW m \in 0 + 1 .. Len(r)
          PROVE  c[m - 1] <= c[m] /\ Text(input, c[m - 1], c[m]) \in Strings(Language, r[m])
      <3>1. CASE m = Len(r)
        <4>1. m - 1 = Len(s) /\ Len(s) \in 0 .. Len(s)
          BY <2>1, <3>1
        <4>2. c[m - 1] = q /\ c[m] = z /\ r[m] = x
          BY <2>1, <2>7, <2>8, <3>1, <4>1
        <4> QED
          BY <2>5, <4>2
      <3>2. CASE m # Len(r)
        <4>1. m \in 1 .. Len(s) /\ m \in 0 + 1 .. Len(s) /\ m - 1 \in 0 .. Len(s) /\ m \in 0 .. Len(s)
          BY <2>1, <3>2
        <4> QED
          BY <2>1, <2>7, <2>8, <4>1
      <3> QED
        BY <3>1, <3>2
    <2> QED
      BY <2>8, <2>9 DEF Spans
  <1>4. \A s \in T : \A x \in Names : Append(s, x) \in T
    BY <1>3
  <1>5. <<>> \in T
    BY <1>2
  <1>6. T = Seq(Names)
    <2>1. T \in SUBSET Seq(Names)
      OBVIOUS
    <2> HIDE DEF T
    <2> QED
      BY <1>4, <1>5, <2>1, SeqInduct
  <1> QED
    BY <1>6

\* The first of the names left, and those behind it.
LEMMA SpansNext ==
    ASSUME NEW names \in Seq(Names), NEW n \in 0 .. Len(names), NEW p, NEW e, Spans(names, n, p, e), input \in Seq(Tokens)
    PROVE  /\ p \in 1 .. Len(input) + 1 /\ e \in 1 .. Len(input) + 1
           /\ n = Len(names) => p = e
           /\ n # Len(names) => \E q \in p .. Len(input) + 1 : /\ Text(input, p, q) \in Strings(Language, names[n + 1])
                                                               /\ Spans(names, n + 1, q, e)
  <1>1. PICK t \in [n .. Len(names) -> 1 .. Len(input) + 1] :
            /\ t[n] = p /\ t[Len(names)] = e
            /\ \A m \in n + 1 .. Len(names) : t[m - 1] <= t[m] /\ Text(input, t[m - 1], t[m]) \in Strings(Language, names[m])
    BY DEF Spans
  <1>2. n \in n .. Len(names) /\ Len(names) \in n .. Len(names) /\ Len(names) \in Nat /\ Len(input) \in Nat
    OBVIOUS
  <1>3. p \in 1 .. Len(input) + 1 /\ e \in 1 .. Len(input) + 1 /\ (n = Len(names) => p = e)
    BY <1>1, <1>2
  <1>4. ASSUME n # Len(names)
        PROVE  \E q \in p .. Len(input) + 1 : Text(input, p, q) \in Strings(Language, names[n + 1]) /\ Spans(names, n + 1, q, e)
    <2> DEFINE q == t[n + 1]
               c == [m \in n + 1 .. Len(names) |-> t[m]]
    <2>1. n + 1 \in n + 1 .. Len(names) /\ (n + 1) - 1 = n /\ n + 1 \in n .. Len(names) /\ Len(names) \in n + 1 .. Len(names)
      BY <1>2, <1>4
    <2>2. p <= q /\ Text(input, p, q) \in Strings(Language, names[n + 1]) /\ q \in 1 .. Len(input) + 1
      <3>1. t[(n + 1) - 1] <= t[n + 1] /\ Text(input, t[(n + 1) - 1], t[n + 1]) \in Strings(Language, names[n + 1])
        BY <1>1, <2>1
      <3> QED
        BY <1>1, <2>1, <3>1
    <2>3. q \in p .. Len(input) + 1
      BY <1>2, <1>3, <2>2
    <2>4. /\ c \in [n + 1 .. Len(names) -> 1 .. Len(input) + 1] /\ c[n + 1] = q /\ c[Len(names)] = e
          /\ \A m \in (n + 1) + 1 .. Len(names) : c[m] = t[m] /\ c[m - 1] = t[m - 1] /\ m \in n + 1 .. Len(names)
      <3>1. \A m \in n + 1 .. Len(names) : m \in n .. Len(names)
        BY <1>2
      <3>2. \A m \in (n + 1) + 1 .. Len(names) : m \in n + 1 .. Len(names) /\ m - 1 \in n + 1 .. Len(names)
        BY <1>2
      <3> QED
        BY <1>1, <2>1, <3>1, <3>2
    <2> HIDE DEF c
    <2>5. Spans(names, n + 1, q, e)
      BY <1>1, <2>4 DEF Spans
    <2> QED
      BY <2>2, <2>3, <2>5
  <1> QED
    BY <1>3, <1>4
-----------------------------------------------------------------------------
(* What a run keeps. *)

\* What is said of a grammar stays said when it stays.
LEMMA GrammarStays ==
    ASSUME UNCHANGED grammar
    PROVE  /\ Language' = Language /\ RulesAreStored' = RulesAreStored /\ DepthSuffices' = DepthSuffices
           /\ \A r : Trie(r)' = Trie(r)
  <1>1. Language' = Language
    BY DEF Language, Derived
  <1>2. RulesAreStored' = RulesAreStored
    BY DEF RulesAreStored
  <1>3. DepthSuffices' = DepthSuffices
    BY <1>1 DEF DepthSuffices, Derived
  <1>4. \A r : Trie(r)' = Trie(r)
    BY DEF Trie
  <1> QED
    BY <1>1, <1>2, <1>3, <1>4

\* The stack is in order after a step that leaves the grammar alone.
LEMMA StackStays ==
    ASSUME UNCHANGED grammar, StackOK(stack')
    PROVE  StackOK(stack)'
  BY DEF StackOK, CallerOK, TopOK, FrameOK, Trie

\* So is what the functions have taken.
LEMMA ReachedStays ==
    ASSUME UNCHANGED <<grammar, input>>, Reached(stack', pos')
    PROVE  Reached(stack, pos)'
  BY GrammarStays DEF Reached, Taken

\* And the answer.
LEMMA AnswerStays ==
    ASSUME UNCHANGED <<grammar, input, pos, result>>, AcceptedIsDerived
    PROVE  AcceptedIsDerived'
  BY GrammarStays DEF AcceptedIsDerived, Accepted, Consumed

\* A refusal names the rule and lists what would have been accepted.
RefusalOK ==
    Refused => LET error == code.errors[result.error]
               IN /\ error.rule = result.by.rule
                  /\ error.depth = Len(result.by.path) + 1
                  /\ error.possible # {} /\ \A n \in error.possible : result.token \notin Starting(n)

ParserInv == /\ WorkOK /\ RefusalOK
             /\ stack # <<>> /\ RulesAreStored /\ DepthSuffices => Reached(stack, pos)
             /\ DepthSuffices => AcceptedIsDerived

\* While the parser runs there is no answer.
LEMMA NoAnswer == ASSUME result = Running PROVE RefusalOK /\ AcceptedIsDerived
  <1>1. result.status = "running"
    BY DEF Running
  <1>2. ~Accepted /\ ~Refused
    BY <1>1 DEF Accepted, Refused
  <1> QED
    BY <1>2 DEF RefusalOK, AcceptedIsDerived

\* Nothing has been parsed.
LEMMA ParserStarts == Init => ParserInv
  <1> SUFFICES ASSUME Init PROVE ParserInv
    OBVIOUS
  <1>1. input = <<>> /\ pos = 1 /\ stack = <<>> /\ result = Running /\ phase = "first"
    BY DEF Init, ParserInit, FirstInit
  <1>2. StackOK(stack)
    BY <1>1, SeqEmpty, EmptySeq DEF StackOK, IsSeq
  <1>3. pos \in 1 .. Len(input) + 1
    BY <1>1
  <1> QED
    BY <1>1, <1>2, <1>3, NoAnswer DEF ParserInv, WorkOK

\* The steps before the parser is called.
LEMMA BeforeStep ==
    ASSUME ParserInv, phase # "parse", UNCHANGED <<parserVars, grammar>>
    PROVE  ParserInv'
  <1>1. UNCHANGED <<grammar, input, pos, stack, result>> /\ stack = <<>> /\ result = Running
    BY DEF parserVars, ParserInv, WorkOK
  <1>2. StackOK(stack')
    BY <1>1 DEF ParserInv, WorkOK
  <1>3. StackOK(stack)'
    BY <1>1, <1>2, StackStays
  <1>4. WorkOK'
    BY <1>1, <1>3 DEF ParserInv, WorkOK
  <1>5. (RefusalOK /\ AcceptedIsDerived)'
    <2>1. (result = Running)'
      BY <1>1 DEF Running
    <2>2. ((result = Running) => RefusalOK /\ AcceptedIsDerived)'
      BY NoAnswer, PTL
    <2> QED
      BY <2>1, <2>2
  <1> QED
    BY <1>1, <1>4, <1>5 DEF ParserInv

\* parse<Rule>() of the rule the user asks for.
LEMMA CallStep ==
    ASSUME GeneratorInv, ParserInv, CallParser
    PROVE  ParserInv'
  <1>1. PICK rule \in Starts, tokens \in Inputs : stack' = <<Frame(rule)>> /\ start' = rule /\ input' = tokens
    BY DEF CallParser
  <1>2. /\ phase = "parse" /\ phase' = phase /\ stack = <<>> /\ result = Running /\ result' = result /\ pos' = pos /\ pos = 1
        /\ grammar' = grammar /\ GrammarOK
    BY DEF CallParser, ParserInv, WorkOK, firstVars, genVars, GeneratorInv
  <1>3. rule \in Rules /\ tokens \in Seq(Tokens) /\ input' \in Inputs
    BY <1>1, InputsAssumption
  <1> DEFINE f == Frame(rule)
             s == <<f>>
  <1>4. IsSeq(s) /\ Len(s) = 1 /\ s[1] = f /\ s # <<>>
    <2>1. s \in Seq({f})
      OBVIOUS
    <2> QED
      BY <2>1 DEF IsSeq
  <1>5. TopOK(f) /\ f.path = <<>>
    BY <1>2, <1>3, Called DEF Frame
  <1> HIDE DEF s, f
  <1>6. StackOK(s)
    BY <1>4, <1>5 DEF StackOK
  <1>7. stack' = s
    BY <1>1 DEF s, f
  <1>8. StackOK(stack)'
    BY <1>2, <1>6, <1>7, StackStays
  <1>9. pos' \in 1 .. Len(input') + 1 /\ Len(input') \in Nat
    BY <1>1, <1>2, <1>3
  <1>10. WorkOK'
    BY <1>2, <1>3, <1>4, <1>7, <1>8, <1>9 DEF WorkOK
  <1>11. Reached(stack, pos)'
    <2> DEFINE b == [k \in 1 .. 2 |-> 1]
               w == input'
    <2>1. w \in Seq(Tokens) /\ 1 \in 1 .. Len(w) + 1 /\ Text(w, 1, 1) = <<>>
      <3>1. w \in Seq(Tokens) /\ Len(w) \in Nat
        BY <1>1, <1>3
      <3> HIDE DEF w
      <3>2. 1 \in 1 .. Len(w) + 1
        BY <3>1
      <3> QED
        BY <3>1, <3>2, Texts
    <2>2. Text(w, 1, 1) \in Derivable(Language', <<>>)
      <3>1. Language \in Families /\ Language' = Language
        BY <1>2, LanguageTyped, GrammarStays
      <3>2. Derivable(Language, <<>>) = {<<>>}
        BY <3>1, DerivableLaw DEF Families
      <3> QED
        BY <2>1, <3>1, <3>2
    <2>3. b \in [1 .. Len(s) + 1 -> 1 .. Len(w) + 1] /\ b[1] = 1 /\ b[Len(s) + 1] = pos' /\ b[1 + 1] = 1
      BY <1>2, <1>4, <2>1
    <2>4. Taken(s, 1) = <<>>
      BY <1>4, <1>5 DEF Taken
    <2> HIDE DEF b, w
    <2>5. \A k \in 1 .. Len(s) : b[k] <= b[k + 1] /\ Text(w, b[k], b[k + 1]) \in Derivable(Language', Taken(s, k))
      <3> SUFFICES ASSUME NEW k \in 1 .. Len(s)
                   PROVE  b[k] <= b[k + 1] /\ Text(w, b[k], b[k + 1]) \in Derivable(Language', Taken(s, k))
        OBVIOUS
      <3>1. k = 1
        BY <1>4
      <3>2. b[k] = 1 /\ b[k + 1] = 1 /\ Taken(s, k) = <<>>
        BY <2>3, <2>4, <3>1
      <3> QED
        BY <2>2, <3>2
    <2> QED
      BY <1>7, <2>3, <2>5 DEF Reached, Taken, w
  <1>12. (RefusalOK /\ AcceptedIsDerived)'
    <2>1. (result = Running)'
      BY <1>2 DEF Running
    <2>2. ((result = Running) => RefusalOK /\ AcceptedIsDerived)'
      BY NoAnswer, PTL
    <2> QED
      BY <2>1, <2>2
  <1> QED
    BY <1>10, <1>11, <1>12 DEF ParserInv

\* The parser goes on.
LEMMA GoesOn ==
    ASSUME ParserInv, phase = "parse", UNCHANGED <<grammar, phase, input, result>>, stack # <<>>,
           StackOK(stack'), stack' # <<>>, pos' \in 1 .. Len(input) + 1,
           RulesAreStored /\ DepthSuffices /\ Reached(stack, pos) => Reached(stack', pos')
    PROVE  ParserInv'
  <1>1. result = Running /\ input \in Inputs
    BY DEF ParserInv, WorkOK
  <1>2. StackOK(stack)'
    BY StackStays
  <1>3. WorkOK'
    BY <1>1, <1>2 DEF ParserInv, WorkOK
  <1>4. (RefusalOK /\ AcceptedIsDerived)'
    <2>1. (result = Running)'
      BY <1>1 DEF Running
    <2>2. ((result = Running) => RefusalOK /\ AcceptedIsDerived)'
      BY NoAnswer, PTL
    <2> QED
      BY <2>1, <2>2
  <1>5. RulesAreStored' /\ DepthSuffices' => Reached(stack, pos)'
    <2> SUFFICES ASSUME RulesAreStored', DepthSuffices' PROVE Reached(stack, pos)'
      OBVIOUS
    <2>1. RulesAreStored /\ DepthSuffices
      BY GrammarStays
    <2> QED
      BY <2>1, ReachedStays DEF ParserInv
  <1> QED
    BY <1>3, <1>4, <1>5 DEF ParserInv

\* The parser has answered.
LEMMA HasAnswered ==
    ASSUME ParserInv, phase = "parse", UNCHANGED <<grammar, phase, input, pos>>, stack' = <<>>, result'.status # "running",
           RefusalOK', DepthSuffices => AcceptedIsDerived'
    PROVE  ParserInv'
  <1>1. StackOK(<<>>)
    BY SeqEmpty, EmptySeq DEF StackOK, IsSeq
  <1>2. StackOK(stack)'
    BY <1>1, StackStays
  <1>3. result' # Running
    BY DEF Running
  <1>4. WorkOK'
    BY <1>2, <1>3 DEF ParserInv, WorkOK, Running
  <1>5. DepthSuffices' => AcceptedIsDerived'
    BY GrammarStays
  <1> QED
    BY <1>4, <1>5 DEF ParserInv

\* A branch is taken.
LEMMA BranchStep ==
    ASSUME GeneratorInv, ParserInv, Branch
    PROVE  ParserInv'
  <1>1. stack # <<>> /\ UNCHANGED <<grammar, phase, input, result>> /\ WorkOK
    BY DEF Branch, firstVars, genVars, ParserInv
  <1>2. phase = "parse"
    BY <1>1 DEF WorkOK
  <1>3. /\ StackOK(stack') /\ stack' # <<>> /\ pos' \in 1 .. Len(input) + 1
        /\ RulesAreStored /\ Reached(stack, pos) => Reached(stack', pos')
    BY <1>1, BranchWork
  <1> QED
    BY <1>1, <1>2, <1>3, GoesOn

\* A function returns, to its caller or to the user.
LEMMA ReturnStep ==
    ASSUME GeneratorInv, ParserInv, Return
    PROVE  ParserInv'
  <1>1. stack # <<>> /\ UNCHANGED <<grammar, phase, input, pos>> /\ WorkOK
    BY DEF Return, firstVars, genVars, ParserInv
  <1>2. phase = "parse" /\ pos' \in 1 .. Len(input) + 1
    BY <1>1 DEF WorkOK
  <1>3. CASE Front(stack) # <<>>
    <2>1. /\ StackOK(stack') /\ stack' # <<>> /\ UNCHANGED result
          /\ RulesAreStored /\ DepthSuffices /\ Reached(stack, pos) => Reached(stack', pos)
      BY <1>1, <1>3, ReturnWork
    <2>2. RulesAreStored /\ DepthSuffices /\ Reached(stack, pos) => Reached(stack', pos')
      BY <1>1, <2>1
    <2> QED
      BY <1>1, <1>2, <2>1, <2>2, GoesOn
  <1>4. CASE Front(stack) = <<>>
    <2>1. /\ stack' = <<>> /\ result'.status = "accepted" /\ result'.rule = Top.rule
          /\ Reached(stack, pos) => \E alt \in ToSet(grammar[Top.rule]) :
                                        alt.id = result'.id /\ Consumed \in Derivable(Language, NamesOf(alt))
          /\ NamesAgree(grammar[Top.rule]) /\ SameNames(grammar[Top.rule]) => KeepsItsValues(result')
      BY <1>1, <1>4, ReturnAnswers
    <2>2. RefusalOK'
      BY <2>1 DEF RefusalOK, Refused
    <2>3. ASSUME DepthSuffices PROVE AcceptedIsDerived'
      <3> DEFINE Derives == \E alt \in ToSet(grammar[result'.rule]) :
                                alt.id = result'.id /\ Consumed \in Derivable(Language, NamesOf(alt))
                 Keeps == NamesAgree(grammar[result'.rule]) /\ SameNames(grammar[result'.rule]) => KeepsItsValues(result')
      <3>1. RulesAreStored => Derives
        BY <1>1, <2>1, <2>3 DEF ParserInv
      <3>2. Keeps
        BY <2>1
      <3>3. Language' = Language /\ RulesAreStored' = RulesAreStored /\ Consumed' = Consumed
        BY <1>1, GrammarStays DEF Consumed
      <3> QED
        BY <1>1, <3>1, <3>2, <3>3 DEF AcceptedIsDerived
    <2> QED
      BY <1>1, <1>2, <2>1, <2>2, <2>3, HasAnswered
  <1> QED
    BY <1>3, <1>4

\* An exception leaves all functions.
LEMMA ThrowStep ==
    ASSUME GeneratorInv, ParserInv, Throw
    PROVE  ParserInv'
  <1>1. stack # <<>> /\ UNCHANGED <<grammar, phase, input, pos, code, first>> /\ WorkOK
    BY DEF Throw, firstVars, genVars, ParserInv
  <1>2. /\ stack' = <<>> /\ phase = "parse" /\ result'.status = "refused"
        /\ LET error == code.errors[result'.error]
           IN /\ error.rule = result'.by.rule /\ error.depth = Len(result'.by.path) + 1
              /\ error.possible # {} /\ \A n \in error.possible : result'.token \notin Starting(n)
    BY <1>1, ThrowAnswers
  <1>3. RefusalOK'
    BY <1>1, <1>2 DEF RefusalOK, Starting
  <1>4. AcceptedIsDerived'
    BY <1>2 DEF AcceptedIsDerived, Accepted
  <1> QED
    BY <1>1, <1>2, <1>3, <1>4, HasAnswered

\* Nothing happens, to the parser at least.
LEMMA NothingStep ==
    ASSUME ParserInv, UNCHANGED vars
    PROVE  ParserInv'
  <1>1. UNCHANGED <<grammar, phase, input, pos, result, stack, code, first>>
    BY DEF vars, firstVars, genVars, parserVars
  <1>2. /\ StackOK(stack)' /\ (stack # <<>> /\ RulesAreStored /\ DepthSuffices => Reached(stack, pos))'
    <2>1. StackOK(stack') /\ (stack # <<>> /\ RulesAreStored /\ DepthSuffices => Reached(stack', pos'))
      BY <1>1 DEF ParserInv, WorkOK
    <2> QED
      BY <1>1, <2>1, StackStays, ReachedStays, GrammarStays
  <1>3. RefusalOK' /\ (DepthSuffices => AcceptedIsDerived)'
    <2>1. RefusalOK'
      BY <1>1 DEF ParserInv, RefusalOK, Refused, Starting
    <2> QED
      BY <1>1, <2>1, AnswerStays, GrammarStays DEF ParserInv
  <1>4. WorkOK'
    BY <1>1, <1>2 DEF ParserInv, WorkOK
  <1> QED
    BY <1>2, <1>3, <1>4 DEF ParserInv

\* Each step keeps the invariant of the parser.
LEMMA ParserStep ==
    ASSUME GeneratorInv, ParserInv, [Next]_vars
    PROVE  ParserInv'
  <1>1. CASE ComputeFirstSet /\ UNCHANGED <<genVars, parserVars>>
    <2>1. phase # "parse" /\ UNCHANGED <<parserVars, grammar>>
      BY <1>1 DEF ComputeFirstSet, VisitEntry, EndPass, genVars
    <2> QED
      BY <2>1, BeforeStep
  <1>2. CASE Gen /\ UNCHANGED parserVars
    <2>1. phase # "parse" /\ UNCHANGED <<parserVars, grammar>>
      BY <1>2 DEF Gen, GenAstForwardDecl, GenRules, WriteErrorStuff
    <2> QED
      BY <2>1, BeforeStep
  <1>3. CASE Parse
    BY <1>3, CallStep, BranchStep, ReturnStep, ThrowStep DEF Parse
  <1>4. CASE UNCHANGED vars
    BY <1>4, NothingStep
  <1> QED
    BY <1>1, <1>2, <1>3, <1>4 DEF Next

\* A parser that is written accepts no more than its grammar: the tree names an
\* alternative the tokens taken are derived from, and keeps each value under the
\* name it was stored under (recdec.cpp 523-601, 911-949, 1003-1047).  Inputs and
\* derivations are as long and as deep as the constants say; DepthSuffices says that
\* no sentence of that length needs a deeper one.
THEOREM SentencesOnly == Spec => [](DepthSuffices => AcceptedIsDerived)
  <1>1. Init => GeneratorInv /\ ParserInv
    BY GeneratorInit, ParserStarts
  <1>2. GeneratorInv /\ ParserInv /\ [Next]_vars => (GeneratorInv /\ ParserInv)'
    BY GeneratorStep, ParserStep
  <1>3. ParserInv => (DepthSuffices => AcceptedIsDerived)
    BY DEF ParserInv
  <1> QED
    BY <1>1, <1>2, <1>3, PTL DEF Spec
-----------------------------------------------------------------------------
(* What a sentence begins with. *)
Leads(u, x) == u # <<>> /\ u[1] \in Starting(x)
AllLead(F) == \A r \in Rules : \A u \in F[r] : Leads(u, r)

\* The first token of a text that is joined of two.
LEMMA JoinedFront ==
    ASSUME NEW u \in Seq(Tokens), NEW v \in Seq(Tokens)
    PROVE  /\ u # <<>> => u \o v # <<>> /\ (u \o v)[1] = u[1]
           /\ u = <<>> => u \o v = v
  <1> DEFINE c == u \o v
  <1>1. /\ c \in Seq(Tokens) /\ Len(c) = Len(u) + Len(v) /\ Len(u) \in Nat /\ Len(v) \in Nat
        /\ \A n \in 1 .. Len(u) + Len(v) : c[n] = IF n <= Len(u) THEN u[n] ELSE v[n - Len(u)]
    BY ConcatProperties
  <1> HIDE DEF c
  <1>2. ASSUME u # <<>> PROVE c # <<>> /\ c[1] = u[1]
    <2>1. Len(u) # 0
      BY <1>2, EmptySeq
    <2>2. 1 \in 1 .. Len(u) + Len(v) /\ 1 <= Len(u) /\ Len(c) # 0
      BY <1>1, <2>1
    <2>3. c # <<>>
      BY <1>1, <2>2, EmptySeq
    <2> QED
      BY <1>1, <2>2, <2>3
  <1>3. u = <<>> => u \o v = v
    BY ConcatEmptySeq
  <1> QED
    BY <1>2, <1>3 DEF c

\* The set of a rule has what each of its alternatives begins with.
LEMMA FrontIn ==
    ASSUME GeneratorInv, phase = "parse", NEW r \in Rules, NEW i \in DOMAIN grammar[r]
    PROVE  /\ NamesOf(grammar[r][i]) \in Seq(Names) /\ NamesOf(grammar[r][i]) # <<>>
           /\ Starting(NamesOf(grammar[r][i])[1]) \subseteq first[r]
  <1> DEFINE alt == grammar[r][i]
             x == alt.parts[1].name
             e == [name |-> r, front |-> x]
  <1>1. GrammarOK /\ IInv /\ alt \in Alternative
    BY GrammarTyped, AltsTyped DEF GeneratorInv
  <1>2. NamesOf(alt) \in Seq(Names) /\ NamesOf(alt) # <<>> /\ NamesOf(alt)[1] = x /\ x \in Names
    <2>1. /\ NamesOf(alt) \in Seq(Names) /\ Len(NamesOf(alt)) = Len(alt.parts) /\ Len(alt.parts) \in Nat \ {0}
          /\ \A n \in 1 .. Len(alt.parts) : NamesOf(alt)[n] = alt.parts[n].name
      BY <1>1, NamesOfAlternative
    <2> HIDE DEF alt
    <2>2. 1 \in 1 .. Len(alt.parts) /\ Len(NamesOf(alt)) # 0
      BY <2>1
    <2> QED
      BY <2>1, <2>2, EmptySeq
  <1>3. e \in ToSet(entries)
    <2> DEFINE S(z) == {[name |-> z, front |-> grammar[z][j].parts[1].name] : j \in DOMAIN grammar[z]}
    <2>1. ToSet(entries) = UNION {S(z) : z \in Rules}
      BY <1>1, Zenon DEF GrammarOK
    <2>2. e \in S(r)
      BY Zenon
    <2> HIDE DEF S, e
    <2> QED
      BY <2>1, <2>2, Zenon
  <1> HIDE DEF alt
  <1>4. PICK k \in DOMAIN entries : entries[k] = e
    <2> HIDE DEF e
    <2> QED
      BY <1>3, Zenon DEF ToSet
  <1>5. k \in Places /\ entries[k].name = r /\ entries[k].front = x
    BY <1>1, <1>4 DEF IInv, FirstTypeOK, Places
  <1> HIDE DEF x, e
  <1>6. Known(x) \subseteq first[r]
    BY <1>1, <1>5 DEF IInv, Ended, HasKnown
  <1>7. Known(x) = Starting(x)
    <2>1. Begun = Rules
      BY <1>1, AtWork DEF Begun
    <2> QED
      BY <1>2, <2>1, NamesAssumption DEF Known, Starting, Names
  <1> QED
    BY <1>2, <1>6, <1>7 DEF alt

\* When all that F has of a rule begins with what can begin it, then so does all
\* that is derived from a sequence of names.
LEMMA DerivedBegins ==
    ASSUME NEW F \in Families, AllLead(F), NEW names \in Seq(Names)
    PROVE  names # <<>> => \A u \in Derivable(F, names) : Leads(u, names[1])
  <1> DEFINE P(s) == s # <<>> => \A u \in Derivable(F, s) : Leads(u, s[1])
             T == {s \in Seq(Names) : P(s)}
  <1>1. ASSUME NEW s \in T, NEW x \in Names PROVE P(Append(s, x))
    <2> DEFINE r == Append(s, x)
    <2>1. s \in Seq(Names) /\ Len(s) \in Nat /\ r[Len(s) + 1] = x /\ \A n \in 1 .. Len(s) : r[n] = s[n]
      BY AppendProperties
    <2> SUFFICES ASSUME NEW u \in Derivable(F, r) PROVE Leads(u, r[1])
      OBVIOUS
    <2>2. PICK d \in Derivable(F, s) \X Strings(F, x) : d[1] \o d[2] = u
      <3>1. Derivable(F, r) = Cut({d[1] \o d[2] : d \in Derivable(F, s) \X Strings(F, x)})
        BY <2>1, DerivableLaw DEF Families
      <3> QED
        BY <3>1, Zenon DEF Cut
    <2>3. d[1] \in Derivable(F, s) /\ d[2] \in Strings(F, x)
      BY <2>2
    <2>4. d[1] \in Seq(Tokens) /\ d[2] \in Seq(Tokens)
      BY <2>1, <2>3, DerivableLaw, StringsTyped DEF Families
    <2>5. CASE s = <<>>
      <3>1. d[1] = <<>> /\ r[1] = x
        <4>1. Derivable(F, <<>>) = {<<>>}
          BY DerivableLaw DEF Families
        <4>2. Len(s) + 1 = 1
          BY <2>5
        <4> QED
          BY <2>1, <2>3, <2>5, <4>1, <4>2
      <3>2. u = d[2]
        BY <2>2, <2>4, <3>1, JoinedFront
      <3>3. Leads(d[2], x)
        <4>1. CASE x \in Rules
          BY <2>3, <4>1 DEF AllLead, Strings
        <4>2. CASE x \notin Rules
          BY <2>3, <4>2 DEF Strings, Leads, Starting
        <4> QED
          BY <4>1, <4>2
      <3> QED
        BY <3>1, <3>2, <3>3
    <2>6. CASE s # <<>>
      <3>1. Leads(d[1], s[1])
        BY <2>3, <2>6
      <3>2. r[1] = s[1]
        <4>1. Len(s) # 0
          BY <2>1, <2>6, EmptySeq
        <4>2. 1 \in 1 .. Len(s)
          BY <2>1, <4>1
        <4> HIDE DEF r
        <4> QED
          BY <2>1, <4>2
      <3>3. u # <<>> /\ u[1] = d[1][1]
        BY <2>2, <2>4, <3>1, JoinedFront DEF Leads
      <3> QED
        BY <3>1, <3>2, <3>3 DEF Leads
    <2> QED
      BY <2>5, <2>6
  <1>2. \A s \in T : \A x \in Names : Append(s, x) \in T
    <2>1. ASSUME NEW s \in T, NEW x \in Names PROVE Append(s, x) \in Seq(Names)
      BY AppendProperties
    <2> HIDE DEF P
    <2> QED
      BY <1>1, <2>1
  <1>3. T \in SUBSET Seq(Names) /\ <<>> \in T
    OBVIOUS
  <1>4. T = Seq(Names)
    <2> HIDE DEF T
    <2> QED
      BY <1>2, <1>3, SeqInduct
  <1> QED
    BY <1>4

\* Every sentence of a rule begins with a token of its set, and is not empty.
LEMMA SentencesBegin ==
    ASSUME GeneratorInv, phase = "parse"
    PROVE  \A x \in Names : \A u \in Strings(Language, x) : Leads(u, x)
  <1> DEFINE T == {F \in Families : AllLead(F)}
  <1>1. GrammarOK
    BY DEF GeneratorInv
  <1>2. [r \in Rules |-> {}] \in T
    BY DEF AllLead, Families
  <1>3. ASSUME NEW F \in T PROVE Derived(F) \in T
    <2>1. Derived(F) \in Families
      BY <1>1, DerivedTyped
    <2>2. ASSUME NEW r \in Rules, NEW u \in Derived(F)[r] PROVE Leads(u, r)
      <3>1. Derived(F)[r] = UNION {Derivable(F, NamesOf(grammar[r][i])) : i \in DOMAIN grammar[r]}
        BY Zenon DEF Derived
      <3>2. PICK i \in DOMAIN grammar[r] : u \in Derivable(F, NamesOf(grammar[r][i]))
        BY <3>1, Zenon
      <3> DEFINE names == NamesOf(grammar[r][i])
      <3>3. names \in Seq(Names) /\ names # <<>> /\ Starting(names[1]) \subseteq first[r]
        BY FrontIn
      <3> HIDE DEF names
      <3>4. Leads(u, names[1])
        BY <3>2, <3>3, DerivedBegins DEF names
      <3> QED
        BY <3>3, <3>4 DEF Leads, Starting
    <2> QED
      BY <2>1, <2>2 DEF AllLead
  <1>4. Language \in T
    <2> HIDE DEF T
    <2> QED
      BY <1>2, <1>3, LanguageInduct
  <1>5. ASSUME NEW x \in Names, NEW u \in Strings(Language, x) PROVE Leads(u, x)
    <2>1. CASE x \in Rules
      BY <1>4, <1>5, <2>1 DEF AllLead, Strings
    <2>2. CASE x \notin Rules
      BY <1>5, <2>2 DEF Strings, Leads, Starting
    <2> QED
      BY <2>1, <2>2
  <1> QED
    BY <1>5

\* The token where a name's part of the input begins.
TokenAt(e) == IF e <= Len(input) THEN input[e] ELSE Eof

\* So does the part of the input a name takes.
LEMMA FrontToken ==
    ASSUME GeneratorInv, phase = "parse", input \in Seq(Tokens), NEW x \in Names,
           NEW p \in 1 .. Len(input) + 1, NEW q \in p .. Len(input) + 1, Text(input, p, q) \in Strings(Language, x)
    PROVE  /\ p \in 1 .. Len(input) /\ p < q /\ TokenAt(p) = input[p] /\ TokenAt(p) \in Starting(x)
           /\ x \in Tokens => q = p + 1
  <1> DEFINE t == Text(input, p, q)
  <1>1. t \in Seq(Tokens) /\ Len(t) = q - p /\ (\A n \in 1 .. q - p : t[n] = input[p + n - 1]) /\ Len(input) \in Nat
    BY Texts
  <1>2. t # <<>> /\ t[1] \in Starting(x)
    BY SentencesBegin DEF Leads
  <1>3. x \in Tokens => Len(t) = 1
    <2>1. x \in Tokens => x \notin Rules
      BY NamesAssumption
    <2> QED
      BY <2>1 DEF Strings
  <1> HIDE DEF t
  <1>4. Len(t) # 0
    BY <1>1, <1>2, EmptySeq
  <1>5. p \in 1 .. Len(input) /\ p < q /\ 1 \in 1 .. q - p /\ p + 1 - 1 = p
    BY <1>1, <1>4
  <1>6. t[1] = input[p]
    BY <1>1, <1>5
  <1>7. x \in Tokens => q = p + 1
    BY <1>1, <1>3
  <1> QED
    BY <1>2, <1>5, <1>6, <1>7 DEF TokenAt
-----------------------------------------------------------------------------
(* What may come behind a rule. *)
LEMMA FollowTyped ==
    \A r \in Rules : \A t : t \in Follow[r] <=> /\ t \in Tokens \cup {Eof}
                                                /\ \A F \in [Rules -> SUBSET (Tokens \cup {Eof})] : FollowClosed(F) => t \in F[r]
  <1> DEFINE closed == {F \in [Rules -> SUBSET (Tokens \cup {Eof})] : FollowClosed(F)}
             S(r) == {t \in Tokens \cup {Eof} : \A F \in closed : t \in F[r]}
  <1>1. Follow = [r \in Rules |-> S(r)]
    BY Zenon DEF Follow
  <1> SUFFICES ASSUME NEW r \in Rules, NEW t
               PROVE  t \in Follow[r] <=> /\ t \in Tokens \cup {Eof}
                                          /\ \A F \in [Rules -> SUBSET (Tokens \cup {Eof})] : FollowClosed(F) => t \in F[r]
    OBVIOUS
  <1>2. Follow[r] = S(r)
    <2> HIDE DEF S
    <2> QED
      BY <1>1
  <1>3. t \in S(r) <=> /\ t \in Tokens \cup {Eof}
                       /\ \A F \in [Rules -> SUBSET (Tokens \cup {Eof})] : FollowClosed(F) => t \in F[r]
    BY Zenon
  <1> QED
    BY <1>2, <1>3, Zenon

\* The end of the input may come behind the start rule.
LEMMA EofFollows == ASSUME start \in Rules PROVE Eof \in Follow[start]
  <1>1. \A F \in [Rules -> SUBSET (Tokens \cup {Eof})] : FollowClosed(F) => Eof \in F[start]
    BY Zenon DEF FollowClosed
  <1> QED
    BY <1>1, FollowTyped

\* What begins the next part of an alternative may come behind a rule in it.
LEMMA NextFollows ==
    ASSUME GeneratorInv, phase = "parse", NEW r \in Rules, NEW i \in DOMAIN grammar[r],
           NEW k \in DOMAIN NamesOf(grammar[r][i]), NamesOf(grammar[r][i])[k] \in Rules
    PROVE  (IF k < Len(NamesOf(grammar[r][i])) THEN Starting(NamesOf(grammar[r][i])[k + 1]) ELSE Follow[r])
               \subseteq Follow[NamesOf(grammar[r][i])[k]]
  <1> DEFINE names == NamesOf(grammar[r][i])
             x == names[k]
             Behind(G) == IF k < Len(names) THEN Starting(names[k + 1]) ELSE G
  <1>1. names \in Seq(Names) /\ names # <<>> /\ Len(names) \in Nat /\ k \in 1 .. Len(names)
    BY FrontIn
  <1>2. \A n \in Names : Starting(n) \subseteq Tokens
    BY AtWork DEF Starting, Names
  <1>3. \A F \in [Rules -> SUBSET (Tokens \cup {Eof})] : FollowClosed(F) => Behind(F[r]) \subseteq F[x]
    BY Zenon DEF FollowClosed
  <1> SUFFICES ASSUME NEW t \in Behind(Follow[r]) PROVE t \in Follow[x]
    BY Zenon
  <1> HIDE DEF names, x
  <1>4. x \in Rules
    BY DEF x, names
  <1>5. t \in Tokens \cup {Eof} /\ \A F \in [Rules -> SUBSET (Tokens \cup {Eof})] : FollowClosed(F) => t \in Behind(F[r])
    <2>1. CASE k < Len(names)
      <3>1. k + 1 \in 1 .. Len(names)
        BY <1>1, <2>1
      <3>2. names[k + 1] \in Names
        BY <1>1, <3>1
      <3> QED
        BY <1>2, <2>1, <3>2
    <2>2. CASE ~(k < Len(names))
      BY <2>2, FollowTyped
    <2> QED
      BY <2>1, <2>2
  <1>6. \A F \in [Rules -> SUBSET (Tokens \cup {Eof})] : FollowClosed(F) => t \in F[x]
    <2> HIDE DEF Behind
    <2> QED
      BY <1>3, <1>5
  <1> QED
    BY <1>4, <1>5, <1>6, FollowTyped
-----------------------------------------------------------------------------
(* What is left of a sentence. *)

\* From p on to e is what is left of an alternative of the rule behind the node,
\* and what comes at e may come behind the rule.
Expects(r, path, p, e) ==
    \E i \in DOMAIN grammar[r] : /\ Begins(path, grammar[r][i])
                                 /\ Spans(NamesOf(grammar[r][i]), Len(path), p, e)
                                 /\ TokenAt(e) \in Follow[r]

\* Where each function will end.
Ends(s, p, e) == /\ e \in [1 .. Len(s) + 1 -> 1 .. Len(input) + 1]
                 /\ e[1] = Len(input) + 1 /\ e[Len(s) + 1] = p
                 /\ \A k \in 1 .. Len(s) : Expects(s[k].rule, s[k].path, e[k + 1], e[k])
Completes(s, p) == \E e : Ends(s, p, e)

\* The innermost function has moved on within its alternative.
LEMMA EndsHere ==
    ASSUME IsSeq(stack), Len(stack) \in Nat \ {0}, NEW e, Ends(stack, pos, e), Len(input) \in Nat,
           NEW s, Len(s) = Len(stack), \A k \in 1 .. Len(stack) - 1 : s[k] = stack[k],
           NEW p \in 1 .. Len(input) + 1, Expects(s[Len(stack)].rule, s[Len(stack)].path, p, e[Len(stack)])
    PROVE  Completes(s, p)
  <1> DEFINE n == Len(stack)
             c == [k \in 1 .. n + 1 |-> IF k = n + 1 THEN p ELSE e[k]]
  <1>1. /\ e \in [1 .. n + 1 -> 1 .. Len(input) + 1] /\ e[1] = Len(input) + 1
        /\ \A k \in 1 .. n : Expects(stack[k].rule, stack[k].path, e[k + 1], e[k])
    BY DEF Ends
  <1> HIDE DEF n
  <1>2. n \in Nat \ {0} /\ n = Len(stack)
    BY DEF n
  <1>3. c \in [1 .. n + 1 -> 1 .. Len(input) + 1] /\ c[1] = Len(input) + 1 /\ c[n + 1] = p /\ \A k \in 1 .. n : c[k] = e[k]
    BY <1>1, <1>2
  <1> HIDE DEF c
  <1>4. ASSUME NEW k \in 1 .. n PROVE Expects(s[k].rule, s[k].path, c[k + 1], c[k])
    <2>1. CASE k = n
      BY <1>2, <1>3, <2>1
    <2>2. CASE k # n
      <3>1. k + 1 \in 1 .. n /\ k \in 1 .. n - 1
        BY <1>2, <2>2
      <3>2. c[k + 1] = e[k + 1] /\ c[k] = e[k] /\ s[k] = stack[k]
        BY <1>2, <1>3, <3>1
      <3> QED
        BY <1>1, <3>2
    <2> QED
      BY <2>1, <2>2
  <1> QED
    BY <1>2, <1>3, <1>4 DEF Ends, Completes

\* It has called a function, which ends where the part ends.
LEMMA EndsCall ==
    ASSUME IsSeq(stack), Len(stack) \in Nat \ {0}, NEW e, Ends(stack, pos, e), Len(input) \in Nat,
           NEW s, Len(s) = Len(stack) + 1, \A k \in 1 .. Len(stack) - 1 : s[k] = stack[k],
           NEW q \in 1 .. Len(input) + 1, Expects(s[Len(stack)].rule, s[Len(stack)].path, q, e[Len(stack)]),
           Expects(s[Len(stack) + 1].rule, s[Len(stack) + 1].path, pos, q)
    PROVE  Completes(s, pos)
  <1> DEFINE n == Len(stack)
             c == [k \in 1 .. n + 2 |-> IF k = n + 2 THEN pos ELSE IF k = n + 1 THEN q ELSE e[k]]
  <1>1. /\ e \in [1 .. n + 1 -> 1 .. Len(input) + 1] /\ e[1] = Len(input) + 1 /\ e[n + 1] = pos
        /\ \A k \in 1 .. n : Expects(stack[k].rule, stack[k].path, e[k + 1], e[k])
    BY DEF Ends
  <1> HIDE DEF n
  <1>2. n \in Nat \ {0} /\ n = Len(stack) /\ Len(s) = n + 1 /\ n + 1 \in 1 .. n + 1 /\ Len(s) + 1 = n + 2
    BY DEF n
  <1>3. pos \in 1 .. Len(input) + 1
    BY <1>1, <1>2
  <1>4. c \in [1 .. n + 2 -> 1 .. Len(input) + 1] /\ c[1] = Len(input) + 1 /\ c[n + 1] = q /\ c[n + 2] = pos /\ \A k \in 1 .. n : c[k] = e[k]
    BY <1>1, <1>2, <1>3
  <1> HIDE DEF c
  <1>5. ASSUME NEW k \in 1 .. n + 1 PROVE Expects(s[k].rule, s[k].path, c[k + 1], c[k])
    <2>1. CASE k = n
      <3>1. k + 1 = n + 1 /\ k \in 1 .. n
        BY <1>2, <2>1
      <3> QED
        BY <1>2, <1>4, <2>1, <3>1
    <2>2. CASE k = n + 1
      <3>1. k + 1 = n + 2
        BY <1>2, <2>2
      <3> QED
        BY <1>2, <1>4, <2>2, <3>1
    <2>3. CASE k # n /\ k # n + 1
      <3>1. k + 1 \in 1 .. n /\ k \in 1 .. n - 1 /\ k \in 1 .. n
        BY <1>2, <2>3
      <3>2. c[k + 1] = e[k + 1] /\ c[k] = e[k] /\ s[k] = stack[k]
        BY <1>2, <1>4, <3>1
      <3> QED
        BY <1>1, <3>1, <3>2
    <2> QED
      BY <2>1, <2>2, <2>3
  <1> QED
    BY <1>2, <1>4, <1>5 DEF Ends, Completes

\* It has returned from the end of its alternative.
LEMMA EndsReturn ==
    ASSUME IsSeq(stack), Len(stack) - 1 \in Nat \ {0}, NEW e, Ends(stack, pos, e), Len(input) \in Nat, pos = e[Len(stack)],
           NEW s, Len(s) = Len(stack) - 1, \A k \in 1 .. Len(s) : s[k].rule = stack[k].rule /\ s[k].path = stack[k].path
    PROVE  Completes(s, pos)
  <1> DEFINE n == Len(stack)
             c == [k \in 1 .. n |-> e[k]]
  <1>1. /\ e \in [1 .. n + 1 -> 1 .. Len(input) + 1] /\ e[1] = Len(input) + 1 /\ e[n + 1] = pos
        /\ \A k \in 1 .. n : Expects(stack[k].rule, stack[k].path, e[k + 1], e[k])
    BY DEF Ends
  <1>2. n - 1 \in Nat \ {0} /\ Len(s) = n - 1 /\ (n - 1) + 1 = n /\ n \in Nat
    <2>1. n \in Nat
      BY SeqGrows
    <2> HIDE DEF n
    <2> QED
      BY <2>1 DEF n
  <1>3. c \in [1 .. n -> 1 .. Len(input) + 1] /\ c[1] = Len(input) + 1 /\ c[n] = pos /\ \A k \in 1 .. n : c[k] = e[k]
    <2>1. \A k \in 1 .. n : k \in 1 .. n + 1
      BY <1>2
    <2>2. 1 \in 1 .. n /\ n \in 1 .. n
      BY <1>2
    <2> QED
      BY <1>1, <2>1, <2>2
  <1> HIDE DEF c
  <1>4. ASSUME NEW k \in 1 .. n - 1 PROVE Expects(s[k].rule, s[k].path, c[k + 1], c[k])
    <2>1. k \in 1 .. n /\ k + 1 \in 1 .. n /\ k \in 1 .. Len(s)
      BY <1>2
    <2> QED
      BY <1>1, <1>3, <2>1
  <1> HIDE DEF n
  <1> QED
    BY <1>2, <1>3, <1>4 DEF Ends, Completes
-----------------------------------------------------------------------------
(* The way of a sentence through the chain of branches. *)

\* The next part of the alternative is x, and it ends at q.
Comes(x, q, z) == /\ x \in Children(TrieOfTop, Top.path) /\ curToken \in Starting(x)
                  /\ Text(input, pos, q) \in Strings(Language, x) /\ (x \in Tokens => q = pos + 1)
                  /\ Expects(Top.rule, Onward(x), q, z)
                  /\ x \in Rules => TokenAt(q) \in Follow[x]

\* The innermost function is at the end of its alternative, or a part comes.
LEMMA NextOrEnd ==
    ASSUME GeneratorInv, WorkOK, stack # <<>>, NEW z, Expects(Top.rule, Top.path, pos, z)
    PROVE  \/ Top.path \in Values(TrieOfTop) /\ pos = z /\ curToken \in Follow[Top.rule]
           \/ \E x \in Names, q \in pos .. Len(input) + 1 : Comes(x, q, z)
  <1>1. /\ GrammarOK /\ phase = "parse" /\ input \in Seq(Tokens) /\ FrameOK(Top) /\ TrieOfTop = Trie(Top.rule)
        /\ pos \in 1 .. Len(input) + 1 /\ curToken = TokenAt(pos)
    BY AtTheTop DEF GeneratorInv, TopOK, WorkOK, curToken, TokenAt
  <1> DEFINE r == Top.rule
             path == Top.path
             alts == grammar[r]
             trie == Trie(r)
  <1>2. r \in Rules /\ alts \in Seq(Alternative) /\ path \in Seq(Names) /\ path \in DOMAIN trie /\ Len(path) \in Nat
    BY <1>1, FrameTyped
  <1>3. PICK i \in DOMAIN alts : Begins(path, alts[i]) /\ Spans(NamesOf(alts[i]), Len(path), pos, z) /\ TokenAt(z) \in Follow[r]
    BY DEF Expects
  <1> DEFINE alt == alts[i]
             names == NamesOf(alt)
             n == Len(path)
  <1>4. /\ alt \in Alternative /\ names \in Seq(Names) /\ Len(names) = Len(alt.parts) /\ Len(names) \in Nat /\ n \in 0 .. Len(names)
        /\ \A m \in 1 .. Len(alt.parts) : names[m] = alt.parts[m].name
    <2>1. alt \in Alternative
      BY <1>2, AltsTyped
    <2>2. /\ names \in Seq(Names) /\ Len(names) = Len(alt.parts) /\ Len(alt.parts) \in Nat \ {0}
          /\ \A m \in 1 .. Len(alt.parts) : names[m] = alt.parts[m].name
      BY <2>1, NamesOfAlternative
    <2>3. n <= Len(alt.parts)
      BY <1>3 DEF Begins
    <2> HIDE DEF alt, names
    <2> QED
      BY <1>2, <2>1, <2>2, <2>3
  <1>5. /\ n = Len(names) => pos = z
        /\ n # Len(names) => \E q \in pos .. Len(input) + 1 : /\ Text(input, pos, q) \in Strings(Language, names[n + 1])
                                                              /\ Spans(names, n + 1, q, z)
    <2>1. Spans(names, n, pos, z)
      BY <1>3
    <2> HIDE DEF names, n
    <2> QED
      BY <1>1, <1>4, <2>1, SpansNext
  <1>6. CASE n = Len(names)
    <2>1. names = path
      BY <1>2, <1>3, <1>4, <1>6, PrefixBegins
    <2>2. path \in Values(trie)
      BY <1>2, <2>1, TrieValues DEF Trie
    <2> QED
      BY <1>1, <1>3, <1>5, <1>6, <2>2
  <1>7. CASE n # Len(names)
    <2> DEFINE x == names[n + 1]
    <2>1. PICK q \in pos .. Len(input) + 1 : Text(input, pos, q) \in Strings(Language, x) /\ Spans(names, n + 1, q, z)
      BY <1>5, <1>7
    <2>2. n + 1 \in 1 .. Len(names) /\ n + 1 \in 1 .. Len(alt.parts) /\ n + 1 \in 0 .. Len(names)
      <3> HIDE DEF alt, names
      <3> QED
        BY <1>4, <1>7
    <2>3. x \in Names /\ x = alt.parts[n + 1].name
      <3> HIDE DEF alt, names
      <3> QED
        BY <1>4, <2>2
    <2>4. x \in Children(trie, path) /\ Begins(Append(path, x), alt)
      <3>1. Len(path) # Len(alt.parts)
        BY <1>4, <1>7
      <3>2. alt.parts[n + 1].name \in Children(trie, path) /\ Begins(Append(path, alt.parts[n + 1].name), alt)
        BY <1>2, <1>3, <3>1, TrieChildren DEF Trie
      <3> QED
        BY <2>3, <3>2
    <2> HIDE DEF x
    <2>5. Len(Append(path, x)) = n + 1
      BY <1>2, <2>3, PathEnds
    <2>6. Expects(r, Onward(x), q, z)
      BY <1>3, <2>1, <2>4, <2>5 DEF Expects, Onward
    <2>7. TokenAt(pos) \in Starting(x) /\ (x \in Tokens => q = pos + 1)
      BY <1>1, <2>1, <2>3, FrontToken
    <2>8. ASSUME x \in Rules PROVE TokenAt(q) \in Follow[x]
      <3>1. (IF n + 1 < Len(names) THEN Starting(names[n + 1 + 1]) ELSE Follow[r]) \subseteq Follow[x]
        <4>1. DOMAIN names = 1 .. Len(names)
          BY <1>4
        <4>2. n + 1 \in DOMAIN names
          BY <2>2, <4>1
        <4>3. names[n + 1] \in Rules
          BY <2>8 DEF x
        <4> QED
          BY <1>1, <1>2, <4>2, <4>3, NextFollows DEF x
      <3>2. /\ n + 1 = Len(names) => q = z
            /\ n + 1 # Len(names) => \E t \in q .. Len(input) + 1 : /\ Text(input, q, t) \in Strings(Language, names[n + 1 + 1])
                                                                    /\ Spans(names, n + 1 + 1, t, z)
        BY <1>1, <1>4, <2>1, <2>2, SpansNext
      <3>3. CASE n + 1 = Len(names)
        BY <1>3, <3>1, <3>2, <3>3
      <3>4. CASE n + 1 # Len(names)
        <4>1. n + 1 < Len(names) /\ n + 1 + 1 \in 1 .. Len(names)
          <5> HIDE DEF names
          <5> QED
            BY <1>4, <2>2, <3>4
        <4>2. PICK t \in q .. Len(input) + 1 : Text(input, q, t) \in Strings(Language, names[n + 1 + 1])
          BY <3>2, <3>4
        <4>3. names[n + 1 + 1] \in Names /\ q \in 1 .. Len(input) + 1
          <5>1. Len(input) \in Nat
            BY <1>1
          <5>2. q \in 1 .. Len(input) + 1
            BY <1>1, <5>1
          <5> HIDE DEF names
          <5> QED
            BY <1>4, <4>1, <5>2
        <4>4. TokenAt(q) \in Starting(names[n + 1 + 1])
          BY <1>1, <4>2, <4>3, FrontToken
        <4> QED
          BY <3>1, <4>1, <4>4
      <3> QED
        BY <3>3, <3>4
    <2>9. Comes(x, q, z)
      BY <1>1, <2>1, <2>4, <2>6, <2>7, <2>8 DEF Comes
    <2> QED
      BY <2>3, <2>9
  <1> QED
    BY <1>6, <1>7

\* A function of a rule that comes has its sentence before it.
LEMMA CalleeExpects ==
    ASSUME GeneratorInv, phase = "parse", DepthSuffices, input \in Seq(Tokens), NEW x \in Rules, NEW p \in 1 .. Len(input) + 1,
           NEW q \in p .. Len(input) + 1, Text(input, p, q) \in Language[x], TokenAt(q) \in Follow[x]
    PROVE  Expects(x, <<>>, p, q)
  <1>1. GrammarOK
    BY DEF GeneratorInv
  <1>2. PICK i \in DOMAIN grammar[x] : Text(input, p, q) \in Derivable(Language, NamesOf(grammar[x][i]))
    BY <1>1, AlternativeDerives
  <1>3. NamesOf(grammar[x][i]) \in Seq(Names)
    BY FrontIn
  <1>4. Spans(NamesOf(grammar[x][i]), 0, p, q)
    BY <1>1, <1>2, <1>3, SpansAll
  <1>5. Begins(<<>>, grammar[x][i]) /\ Len(<<>>) = 0
    <2>1. grammar[x] \in Seq(Alternative) /\ grammar[x][i] \in Alternative
      BY <1>1, GrammarTyped, AltsTyped
    <2>2. Len(grammar[x][i].parts) \in Nat \ {0}
      BY <2>1, NamesOfAlternative
    <2> QED
      BY <2>2 DEF Begins
  <1> QED
    BY <1>4, <1>5 DEF Expects
-----------------------------------------------------------------------------
\* What Branch makes of the functions that run.
Took(n) == /\ n \in Tokens \/ StoreOf(n) = ""
           /\ pos' = pos + 1 /\ Len(stack') = Len(stack)
Entered(n) == /\ n \in Rules /\ pos' = pos /\ Len(stack') = Len(stack) + 1 /\ stack'[Len(stack) + 1] = Frame(n)
MovedTo(n) == /\ stack'[Len(stack)].rule = Top.rule /\ stack'[Len(stack)].path = Onward(n)
              /\ \A k \in 1 .. Len(stack) - 1 : stack'[k] = stack[k]

\* The branch that is taken, and where it leads.
LEMMA BranchMoves ==
    ASSUME GeneratorInv, WorkOK, Branch
    PROVE  \E n \in Names : /\ n \in Children(TrieOfTop, Top.path) /\ curToken \in Starting(n) /\ Onward(n) \in DOMAIN Trie(Top.rule)
                            /\ MovedTo(n) /\ (Took(n) \/ Entered(n))
  <1>1. stack # <<>>
    BY DEF Branch
  <1>2. IsSeq(stack) /\ Len(stack) \in Nat \ {0} /\ TopOK(Top) /\ Top = stack[Len(stack)]
    BY <1>1, AtTheTop
  <1>3. PICK n \in Names : /\ n \in Matching /\ Onward(n) \in DOMAIN Trie(Top.rule) /\ curToken \in Starting(n)
                           /\ TakesToken(n) \/ CallsRule(n) \/ PassesOver(n)
    BY BranchIs
  <1>4. n \in Children(TrieOfTop, Top.path)
    BY <1>3 DEF Matching
  <1> DEFINE Here(args) == AtTop(Onward(n), args)
  <1>5. ASSUME NEW args
        PROVE  /\ IsSeq(Here(args)) /\ Len(Here(args)) = Len(stack)
               /\ Here(args)[Len(stack)].rule = Top.rule /\ Here(args)[Len(stack)].path = Onward(n)
               /\ \A k \in 1 .. Len(stack) - 1 : Here(args)[k] = stack[k]
    <2> DEFINE path == Onward(n)
               f == [rule |-> Top.rule, path |-> path, args |-> args]
               t == AtTop(path, args)
    <2> HIDE DEF path
    <2>1. IsSeq(t) /\ Len(t) = Len(stack) /\ t[Len(stack)] = f /\ \A k \in 1 .. Len(stack) - 1 : t[k] = stack[k]
      BY <1>1, <1>2, TopChanges
    <2>2. f.rule = Top.rule /\ f.path = path
      OBVIOUS
    <2> HIDE DEF f, t
    <2>3. IsSeq(t) /\ Len(t) = Len(stack) /\ t[Len(stack)].rule = Top.rule /\ t[Len(stack)].path = path
      BY <2>1, <2>2
    <2> QED
      BY <2>1, <2>3 DEF t, path
  <1> HIDE DEF Here
  <1>6. CASE TakesToken(n)
    <2> DEFINE args == Append(Top.args, [name |-> n, store |-> StoreOf(n), value |-> [token |-> pos]])
    <2>1. n \in Tokens /\ pos' = pos + 1 /\ stack' = Here(args)
      BY <1>6 DEF TakesToken, Here
    <2> HIDE DEF args
    <2> QED
      BY <1>3, <1>4, <1>5, <2>1 DEF MovedTo, Took
  <1>7. CASE PassesOver(n)
    <2> DEFINE args == Top.args
    <2>1. StoreOf(n) = "" /\ pos' = pos + 1 /\ stack' = Here(args)
      BY <1>7 DEF PassesOver, Here
    <2> HIDE DEF args
    <2> QED
      BY <1>3, <1>4, <1>5, <2>1 DEF MovedTo, Took
  <1>8. CASE CallsRule(n)
    <2> DEFINE t == Here(Top.args)
               callee == Frame(n)
               u == Append(t, callee)
    <2>1. n \in Rules /\ pos' = pos /\ stack' = u
      BY <1>8 DEF CallsRule, Here
    <2>2. /\ IsSeq(t) /\ Len(t) = Len(stack) /\ t[Len(stack)].rule = Top.rule /\ t[Len(stack)].path = Onward(n)
          /\ \A k \in 1 .. Len(stack) - 1 : t[k] = stack[k]
      BY <1>5
    <2> HIDE DEF t, callee
    <2>3. Len(u) = Len(t) + 1 /\ u[Len(t) + 1] = callee /\ \A k \in 1 .. Len(t) : u[k] = t[k]
      BY <2>2, SeqGrows
    <2> HIDE DEF u
    <2>4. Len(stack) \in 1 .. Len(t) /\ \A k \in 1 .. Len(stack) - 1 : k \in 1 .. Len(t)
      BY <1>2, <2>2
    <2>5. MovedTo(n)
      BY <2>1, <2>2, <2>3, <2>4 DEF MovedTo
    <2>6. Entered(n)
      BY <2>1, <2>2, <2>3 DEF Entered, callee
    <2> QED
      BY <1>3, <1>4, <2>5, <2>6
  <1> QED
    BY <1>3, <1>6, <1>7, <1>8

\* One branch at most takes the token, and none where an alternative may end.
LEMMA OnlyBranch ==
    ASSUME GeneratorInv, WorkOK, stack # <<>>, LL1
    PROVE  /\ \A m, n \in Children(TrieOfTop, Top.path) : curToken \in Starting(m) /\ curToken \in Starting(n) => m = n
           /\ Top.path \in Values(TrieOfTop) /\ curToken \in Follow[Top.rule] =>
                  \A n \in Children(TrieOfTop, Top.path) : curToken \notin Starting(n)
  <1>1. phase = "parse" /\ GrammarOK /\ FrameOK(Top) /\ TrieOfTop = Trie(Top.rule) /\ TrieOfTop = code.parse[Top.rule].trie
    BY AtTheTop DEF GeneratorInv, TopOK, TrieOfTop
  <1>2. Top.rule \in Rules /\ Top.path \in DOMAIN TrieOfTop
    BY <1>1, FrameTyped
  <1>3. /\ \A m, n \in Children(TrieOfTop, Top.path) : m # n => Starting(m) \cap Starting(n) = {}
        /\ Top.path \in Values(TrieOfTop) => \A n \in Children(TrieOfTop, Top.path) : Starting(n) \cap Follow[Top.rule] = {}
    BY <1>1, <1>2, Zenon DEF LL1
  <1> QED
    BY <1>3

\* A branch leads on through the sentence.
LEMMA BranchCompletes ==
    ASSUME GeneratorInv, WorkOK, Branch, LL1, RulesAreStored, DepthSuffices, Completes(stack, pos)
    PROVE  Completes(stack', pos')
  <1>1. stack # <<>> /\ GrammarOK
    BY DEF Branch, GeneratorInv
  <1>2. /\ phase = "parse" /\ input \in Seq(Tokens) /\ Len(input) \in Nat /\ IsSeq(stack) /\ Len(stack) \in Nat \ {0}
        /\ Top = stack[Len(stack)] /\ FrameOK(Top) /\ Top.path \in Seq(Names) /\ pos \in 1 .. Len(input) + 1
    BY <1>1, AtTheTop DEF WorkOK, TopOK
  <1>3. PICK e : Ends(stack, pos, e)
    BY DEF Completes
  <1> DEFINE n == Len(stack)
             z == e[n]
  <1>4. Expects(Top.rule, Top.path, pos, z)
    <2>1. n \in 1 .. Len(stack) /\ e[n + 1] = pos
      BY <1>2, <1>3 DEF Ends
    <2> QED
      BY <1>2, <1>3, <2>1 DEF Ends
  <1>5. PICK x \in Names : /\ x \in Children(TrieOfTop, Top.path) /\ curToken \in Starting(x) /\ Onward(x) \in DOMAIN Trie(Top.rule)
                           /\ MovedTo(x) /\ (Took(x) \/ Entered(x))
    BY BranchMoves
  <1>6. PICK q \in pos .. Len(input) + 1 : Comes(x, q, z)
    <2>1. ~(Top.path \in Values(TrieOfTop) /\ curToken \in Follow[Top.rule])
      BY <1>1, <1>5, OnlyBranch
    <2>2. PICK y \in Names, q \in pos .. Len(input) + 1 : Comes(y, q, z)
      BY <1>1, <1>4, <2>1, NextOrEnd
    <2>3. y = x
      BY <1>1, <1>5, <2>2, OnlyBranch DEF Comes
    <2> QED
      BY <2>2, <2>3
  <1>7. /\ (x \in Tokens => q = pos + 1) /\ Expects(Top.rule, Onward(x), q, z)
        /\ Text(input, pos, q) \in Strings(Language, x) /\ (x \in Rules => TokenAt(q) \in Follow[x])
    BY <1>6 DEF Comes
  <1>8. q \in 1 .. Len(input) + 1
    BY <1>2
  <1>9. Expects(stack'[n].rule, stack'[n].path, q, z) /\ \A k \in 1 .. n - 1 : stack'[k] = stack[k]
    BY <1>5, <1>7 DEF MovedTo
  <1>10. CASE Took(x)
    <2>1. x \in Tokens
      <3>1. StoreOf(x) = "" => x \notin Rules
        BY <1>1, <1>2, <1>5, StoredIfRule DEF FrameOK, StoreOf, Onward
      <3> QED
        BY <1>10, <3>1 DEF Took, Names
    <2>2. q = pos' /\ Len(stack') = Len(stack)
      BY <1>7, <1>10, <2>1 DEF Took
    <2> DEFINE s == stack'
    <2>3. Completes(s, q)
      <3> HIDE DEF s
      <3>1. /\ Len(s) = Len(stack) /\ \A k \in 1 .. Len(stack) - 1 : s[k] = stack[k]
        BY <1>9, <2>2 DEF s
      <3>2. Expects(s[Len(stack)].rule, s[Len(stack)].path, q, e[Len(stack)])
        BY <1>9 DEF s
      <3> QED
        BY <1>2, <1>3, <1>8, <3>1, <3>2, EndsHere
    <2> QED
      BY <2>2, <2>3
  <1>11. CASE Entered(x)
    <2> DEFINE s == stack'
    <2>1. x \in Rules /\ pos' = pos /\ Len(s) = Len(stack) + 1 /\ s[Len(stack) + 1] = Frame(x)
      BY <1>11 DEF Entered
    <2>2. Text(input, pos, q) \in Language[x] /\ TokenAt(q) \in Follow[x]
      BY <1>7, <2>1 DEF Strings
    <2>3. Expects(x, <<>>, pos, q)
      BY <1>2, <2>1, <2>2, CalleeExpects
    <2>4. Expects(s[Len(stack) + 1].rule, s[Len(stack) + 1].path, pos, q)
      BY <2>1, <2>3 DEF Frame
    <2>5. Completes(s, pos)
      <3> HIDE DEF s
      <3>1. \A k \in 1 .. Len(stack) - 1 : s[k] = stack[k]
        BY <1>9 DEF s
      <3>2. Expects(s[Len(stack)].rule, s[Len(stack)].path, q, e[Len(stack)])
        BY <1>9 DEF s
      <3> QED
        BY <1>2, <1>3, <1>8, <2>1, <2>4, <3>1, <3>2, EndsCall
    <2> QED
      BY <2>1, <2>5
  <1> QED
    BY <1>5, <1>10, <1>11

\* Where no branch matches the innermost function is at the end of its
\* alternative.
LEMMA AtAnEnd ==
    ASSUME GeneratorInv, WorkOK, stack # <<>>, Matching = {}, NEW e, Ends(stack, pos, e)
    PROVE  Top.path \in Values(TrieOfTop) /\ pos = e[Len(stack)]
  <1>1. /\ IsSeq(stack) /\ Len(stack) \in Nat \ {0} /\ Top = stack[Len(stack)]
        /\ \A x \in Names : Accepts(x) <=> curToken \in Starting(x)
    BY AtTheTop
  <1> DEFINE z == e[Len(stack)]
  <1>2. Expects(Top.rule, Top.path, pos, z)
    <2>1. Len(stack) \in 1 .. Len(stack) /\ e[Len(stack) + 1] = pos
      BY <1>1 DEF Ends
    <2> QED
      BY <1>1, <2>1 DEF Ends
  <1>3. ASSUME NEW x \in Names, NEW q, Comes(x, q, z) PROVE FALSE
    <2>1. x \in Matching
      BY <1>1, <1>3 DEF Comes, Matching
    <2> QED
      BY <2>1
  <1> QED
    BY <1>2, <1>3, NextOrEnd
-----------------------------------------------------------------------------
(* Sentences are taken. *)
Sentence == input \in Language[start] /\ RulesAreStored /\ LL1 /\ DepthSuffices
SentenceInv == /\ Sentence /\ stack # <<>> => Completes(stack, pos)
               /\ Sentence /\ (Accepted \/ Refused) => Accepted /\ Consumed = input

\* What is left of a sentence does not depend on the steps of the parser.
LEMMA SentenceStays ==
    ASSUME UNCHANGED <<grammar, input, start, code, first>>
    PROVE  /\ Sentence' = Sentence
           /\ Completes(stack', pos') => Completes(stack, pos)'
  <1>1. Language' = Language /\ RulesAreStored' = RulesAreStored /\ DepthSuffices' = DepthSuffices
    BY GrammarStays
  <1>2. Follow' = Follow
    BY DEF Follow, FollowClosed, Starting
  <1>3. LL1' = LL1
    BY <1>2 DEF LL1, Starting
  <1>4. Sentence' = Sentence
    BY <1>1, <1>3 DEF Sentence
  <1>5. ASSUME NEW r, NEW path, NEW p, NEW e, Expects(r, path, p, e) PROVE Expects(r, path, p, e)'
    BY <1>1, <1>2, <1>5 DEF Expects, Spans, TokenAt
  <1>6. ASSUME Completes(stack', pos') PROVE Completes(stack, pos)'
    <2>1. PICK e : Ends(stack', pos', e)
      BY <1>6 DEF Completes
    <2>2. Ends(stack, pos, e)'
      BY <1>5, <2>1 DEF Ends
    <2> QED
      BY <2>2 DEF Completes
  <1> QED
    BY <1>4, <1>6

\* The function that is called first has the whole input before it.
LEMMA StartCompletes ==
    ASSUME GeneratorInv, phase = "parse", start \in Rules, input \in Inputs, stack = <<Frame(start)>>, pos = 1, Sentence
    PROVE  Completes(stack, pos)
  <1> DEFINE z == Len(input) + 1
             f == Frame(start)
  <1>1. input \in Seq(Tokens) /\ Len(input) \in Nat
    BY InputsAssumption
  <1>2. 1 \in 1 .. Len(input) + 1 /\ z \in 1 .. Len(input) + 1 /\ ~(z <= Len(input))
    BY <1>1
  <1>3. Text(input, 1, z) = input
    BY <1>1, Texts
  <1>4. TokenAt(z) \in Follow[start]
    BY <1>2, EofFollows DEF TokenAt
  <1>5. Expects(start, <<>>, 1, z)
    BY <1>1, <1>2, <1>3, <1>4, CalleeExpects DEF Sentence
  <1>6. f.rule = start /\ f.path = <<>>
    BY DEF Frame
  <1> HIDE DEF f
  <1> DEFINE e == [k \in 1 .. 2 |-> IF k = 1 THEN z ELSE 1]
  <1>7. Len(stack) = 1 /\ stack[1] = f
    BY DEF f
  <1>8. e \in [1 .. Len(stack) + 1 -> 1 .. Len(input) + 1] /\ e[1] = z /\ e[Len(stack) + 1] = pos /\ e[1 + 1] = 1
    BY <1>2, <1>7
  <1> HIDE DEF e, z
  <1>9. ASSUME NEW k \in 1 .. Len(stack) PROVE Expects(stack[k].rule, stack[k].path, e[k + 1], e[k])
    <2>1. k = 1
      BY <1>7
    <2> QED
      BY <1>5, <1>6, <1>7, <1>8, <2>1
  <1> QED
    BY <1>8, <1>9 DEF Ends, Completes, z

\* Nothing has been parsed.
LEMMA SentenceStarts == Init => SentenceInv
  <1> SUFFICES ASSUME Init PROVE SentenceInv
    OBVIOUS
  <1>1. stack = <<>> /\ result.status = "running"
    BY DEF Init, ParserInit, Running
  <1> QED
    BY <1>1 DEF SentenceInv, Accepted, Refused

\* Each step leaves the functions on their way through the sentence.
LEMMA SentenceStep ==
    ASSUME GeneratorInv, GeneratorInv', ParserInv, SentenceInv, [Next]_vars
    PROVE  SentenceInv'
  <1>0. WorkOK
    BY DEF ParserInv
  <1>1. CASE phase # "parse" /\ UNCHANGED parserVars
    <2>1. stack' = <<>> /\ result'.status = "running"
      BY <1>0, <1>1 DEF WorkOK, parserVars, Running
    <2> QED
      BY <2>1 DEF SentenceInv, Accepted, Refused
  <1>2. CASE CallParser
    <2>1. PICK rule \in Starts, tokens \in Inputs : stack' = <<Frame(rule)>> /\ start' = rule /\ input' = tokens
      BY <1>2 DEF CallParser
    <2>2. phase' = "parse" /\ pos' = 1 /\ result'.status = "running"
      BY <1>0, <1>2 DEF CallParser, WorkOK, firstVars, Running
    <2>3. (phase = "parse" /\ start \in Rules /\ input \in Inputs /\ stack = <<Frame(start)>> /\ pos = 1)'
      BY <2>1, <2>2, InputsAssumption DEF Frame
    <2>4. (GeneratorInv /\ phase = "parse" /\ start \in Rules /\ input \in Inputs /\ stack = <<Frame(start)>> /\ pos = 1 /\ Sentence
               => Completes(stack, pos))'
      BY StartCompletes, PTL
    <2> QED
      BY <2>2, <2>3, <2>4 DEF SentenceInv, Accepted, Refused
  <1>3. CASE Branch
    <2>1. UNCHANGED <<grammar, input, start, code, first, result>> /\ stack # <<>> /\ result.status = "running"
      <3>1. UNCHANGED <<firstVars, genVars, start, input, result>> /\ stack # <<>>
        BY <1>3 DEF Branch
      <3>2. result.status = "running"
        BY <1>0, <3>1 DEF WorkOK, Running
      <3> QED
        BY <3>1, <3>2 DEF firstVars, genVars
    <2>2. ASSUME Sentence PROVE Completes(stack', pos')
      <3>1. Completes(stack, pos)
        BY <2>1, <2>2 DEF SentenceInv
      <3> QED
        BY <1>0, <1>3, <2>2, <3>1, BranchCompletes DEF Sentence
    <2> QED
      BY <2>1, <2>2, SentenceStays DEF SentenceInv, Accepted, Refused
  <1>4. CASE Return
    <2>1. UNCHANGED <<grammar, input, start, code, first, pos>> /\ stack # <<>> /\ Matching = {} /\ result.status = "running"
      BY <1>0, <1>4 DEF Return, firstVars, genVars, WorkOK, Running
    <2>2. IsSeq(stack) /\ Len(stack) \in Nat \ {0} /\ StackOK(stack) /\ input \in Seq(Tokens) /\ Len(input) \in Nat
      BY <1>0, <2>1, AtTheTop DEF WorkOK
    <2>3. CASE Front(stack) # <<>>
      <3>1. result' = result /\ \E x : stack' = Given(stack, x)
        BY <1>0, <1>4, <2>3, ReturnWork
      <3>2. ASSUME Sentence PROVE Completes(stack', pos')
        <4>1. PICK e : Ends(stack, pos, e)
          BY <2>1, <3>2 DEF SentenceInv, Completes
        <4>2. pos = e[Len(stack)]
          BY <1>0, <2>1, <4>1, AtAnEnd
        <4>3. PICK x : stack' = Given(stack, x)
          BY <3>1
        <4> DEFINE s == Given(stack, x)
                   f == stack[Len(stack) - 1]
                   g == [rule |-> f.rule, path |-> f.path, args |-> Append(f.args, x)]
        <4>4. /\ Len(s) = Len(stack) - 1 /\ Len(stack) - 1 \in Nat \ {0} /\ s[Len(stack) - 1] = g
              /\ \A k \in 1 .. Len(stack) - 2 : s[k] = stack[k]
          BY <2>1, <2>2, <2>3, FrontChanges
        <4>5. g.rule = f.rule /\ g.path = f.path
          OBVIOUS
        <4> HIDE DEF s, g
        <4>6. ASSUME NEW k \in 1 .. Len(s) PROVE s[k].rule = stack[k].rule /\ s[k].path = stack[k].path
          <5>1. k = Len(stack) - 1 \/ k \in 1 .. Len(stack) - 2
            BY <2>2, <4>4
          <5> QED
            BY <4>4, <4>5, <5>1
        <4>7. Completes(s, pos)
          BY <2>2, <4>1, <4>2, <4>4, <4>6, EndsReturn
        <4> QED
          BY <2>1, <4>3, <4>7 DEF s
      <3> QED
        BY <2>1, <3>1, <3>2, SentenceStays DEF SentenceInv, Accepted, Refused
    <2>4. CASE Front(stack) = <<>>
      <3>1. stack' = <<>> /\ result'.status = "accepted" /\ Len(stack) = 1
        BY <1>0, <1>4, <2>4, ReturnAnswers
      <3>2. ASSUME Sentence PROVE Consumed = input
        <4>1. PICK e : Ends(stack, pos, e)
          BY <2>1, <3>2 DEF SentenceInv, Completes
        <4>2. pos = e[1] /\ e[1] = Len(input) + 1
          BY <1>0, <2>1, <3>1, <4>1, AtAnEnd DEF Ends
        <4>3. Consumed = Text(input, 1, Len(input) + 1)
          BY <4>2 DEF Consumed, Text
        <4> QED
          BY <2>2, <4>3, Texts
      <3>3. Consumed' = Consumed
        BY <2>1 DEF Consumed
      <3> QED
        BY <2>1, <3>1, <3>2, <3>3, SentenceStays DEF SentenceInv, Accepted
    <2> QED
      BY <2>3, <2>4
  <1>5. CASE Throw
    <2>1. /\ UNCHANGED <<grammar, input, start, code, first, pos>> /\ stack # <<>> /\ Matching = {} /\ stack' = <<>>
          /\ Top.path \notin Values(TrieOfTop)
      BY <1>5 DEF Throw, firstVars, genVars
    <2>2. ~Sentence
      <3> SUFFICES ASSUME Sentence PROVE FALSE
        OBVIOUS
      <3>1. PICK e : Ends(stack, pos, e)
        BY <2>1 DEF SentenceInv, Completes
      <3> QED
        BY <1>0, <2>1, <3>1, AtAnEnd
    <2> QED
      BY <2>1, <2>2, SentenceStays DEF SentenceInv
  <1>6. CASE UNCHANGED vars
    <2>1. UNCHANGED <<grammar, input, start, code, first, pos, stack, result>>
      BY <1>6 DEF vars, firstVars, genVars, parserVars
    <2> QED
      BY <2>1, SentenceStays DEF SentenceInv, Accepted, Refused, Consumed
  <1>7. ASSUME Next PROVE \/ phase # "parse" /\ UNCHANGED parserVars
                          \/ CallParser \/ Branch \/ Return \/ Throw
    <2>1. CASE ComputeFirstSet /\ UNCHANGED <<genVars, parserVars>>
      BY <2>1 DEF ComputeFirstSet, VisitEntry, EndPass
    <2>2. CASE Gen /\ UNCHANGED parserVars
      BY <2>2 DEF Gen, GenAstForwardDecl, GenRules, WriteErrorStuff
    <2> QED
      BY <1>7, <2>1, <2>2 DEF Next, Parse
  <1> QED
    BY <1>1, <1>2, <1>3, <1>4, <1>5, <1>6, <1>7

\* It accepts no less, of a grammar one token of look ahead is enough for: every
\* sentence of the start rule is taken to its end, and a refusal lists what could
\* have come, of which the token is none (recdec.cpp 523-601).
THEOREM SentencesTaken == Spec => [](DepthSuffices => SentencesAreAccepted)
  <1>1. Init => GeneratorInv /\ ParserInv /\ SentenceInv
    BY GeneratorInit, ParserStarts, SentenceStarts
  <1>2. GeneratorInv /\ ParserInv /\ SentenceInv /\ [Next]_vars => (GeneratorInv /\ ParserInv /\ SentenceInv)'
    BY GeneratorStep, ParserStep, SentenceStep
  <1>3. ParserInv /\ SentenceInv => (DepthSuffices => SentencesAreAccepted)
    BY DEF ParserInv, RefusalOK, SentenceInv, Sentence, SentencesAreAccepted
  <1> QED
    BY <1>1, <1>2, <1>3, PTL DEF Spec
=============================================================================
