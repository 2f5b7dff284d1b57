------------------------------ MODULE FirstSets ------------------------------
(***************************************************************************)
(* RecurDec::computeFirstSet() (recde/recdec.cpp): which tokens can begin  *)
(* each rule of a grammar, computed in passes over all alternatives until  *)
(* a pass changes nothing.                                                 *)
(*                                                                         *)
(* rs.rules is a hash multimap: it hands out its entries in some order,    *)
(* those of one rule one after the other.  Of an entry only the name of    *)
(* its rule and the name of its first part are looked at.  A name that is  *)
(* not of a rule is one of a token.                                        *)
(***************************************************************************)
EXTENDS Naturals, Sequences

CONSTANTS Rules, Tokens

ASSUME NamesAssumption == Rules \cap Tokens = {}

VARIABLES entries,   \* rs.rules in the order of the hash table
          first,     \* rs.first: the sets found so far, by rule
          changed,   \* changed
          at,        \* the entry the pass has come to
          phase      \* "first" while the sets are computed

firstVars == <<entries, first, changed, at, phase>>

Names == Rules \cup Tokens
Entry == [name : Rules, front : Names]

Begun == DOMAIN first

\* Mutant: the passes begin one early.
MutFirstInit == /\ first = [r \in {} |-> {}]
                /\ changed = FALSE
                /\ at = 0
                /\ phase = "first"
FirstInit == /\ first = [r \in {} |-> {}]
             /\ changed = FALSE
             /\ at = 1
             /\ phase = "first"

\* What is known of the first part of an entry: the token, or the set of the
\* rule as far as it has one.
Known(front) == IF front \in Tokens THEN {front}
                ELSE IF front \in Begun THEN first[front] ELSE {}

\* One round of the inner loop: the first entry of a rule begins its set, a
\* later one adds to it.  Only what a rule brings in counts as a change there.
VisitEntry ==
    /\ phase = "first" /\ at <= Len(entries)
    /\ LET name == entries[at].name
           front == entries[at].front
       IN IF name \in Begun
          THEN /\ first' = [first EXCEPT ![name] = @ \cup Known(front)]
               /\ changed' = (changed \/ /\ front \in Rules
                                         /\ ~(Known(front) \subseteq first[name]))
          ELSE /\ first' = [r \in Begun \cup {name} |->
                               IF r = name THEN Known(front) ELSE first[r]]
               /\ changed' = TRUE
    /\ at' = at + 1
    /\ UNCHANGED <<entries, phase>>

\* Mutant: one pass is all there is.
MutEndPass ==
    /\ phase = "first" /\ at > Len(entries)
    /\ at' = 1
    /\ changed' = FALSE
    /\ phase' = "forward"
    /\ UNCHANGED <<entries, first>>

\* The end of a pass: while(changed).
EndPass ==
    /\ phase = "first" /\ at > Len(entries)
    /\ at' = 1
    /\ changed' = FALSE
    /\ phase' = IF changed THEN "first" ELSE "forward"
    /\ UNCHANGED <<entries, first>>

ComputeFirstSet == VisitEntry \/ EndPass
-----------------------------------------------------------------------------
\* The sets of a family are closed when they hold the first token of every
\* alternative and, for an alternative that begins with a rule, the set of that
\* rule.  The sets that can begin a rule are the least closed family.
Closed(F) == \A i \in 1 .. Len(entries) :
                 LET e == entries[i]
                 IN IF e.front \in Tokens THEN e.front \in F[e.name]
                    ELSE F[e.front] \subseteq F[e.name]

FirstTypeOK == /\ entries \in Seq(Entry)
               /\ Begun \subseteq Rules
               /\ first \in [Begun -> SUBSET Tokens]
               /\ changed \in BOOLEAN
               /\ at \in 1 .. Len(entries) + 1
               /\ phase \in {"first", "forward", "rules", "parse"}

\* At no time does a set hold a token that cannot begin its rule, and when the
\* passes have ended each holds all that can, in whatever order the hash table
\* hands out the rules (recdec.cpp 18-60).
FirstSetsAreLeast ==
    /\ \A F \in [Rules -> SUBSET Tokens] :
           Closed(F) => \A r \in Begun : first[r] \subseteq F[r]
    /\ phase # "first" => /\ \A i \in 1 .. Len(entries) : entries[i].name \in Begun
                          /\ Closed([r \in Rules |-> IF r \in Begun THEN first[r] ELSE {}])
=============================================================================
