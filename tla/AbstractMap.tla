---------------------------- MODULE AbstractMap ----------------------------
(***************************************************************************)
(* What the operations of a map of at most Size keys do, each under its    *)
(* name; keys are ordered.                                                 *)
(***************************************************************************)
EXTENDS Naturals, FiniteSets

CONSTANTS Keys, Vals, Size

VARIABLES map,      \* key |-> value, of the keys that are there
          threw,    \* did the last operation throw?
          outside   \* has a call been made of which nothing is promised?

vars == <<map, threw, outside>>

Init == map = <<>> /\ threw = FALSE /\ outside = FALSE

Becomes(m) == map' = m /\ threw' = FALSE /\ UNCHANGED outside

With(k, v) == [j \in DOMAIN map \cup {k} |-> IF j = k THEN v ELSE map[j]]
Without(k) == [j \in DOMAIN map \ {k} |-> map[j]]
Full == Cardinality(DOMAIN map) = Size

\* A key that is not there gets its value, one that is there keeps the one it
\* has.  Into a full map, a key larger than all is refused, and nothing is
\* promised of any other.
Insert(k, v) ==
    \/ k \in DOMAIN map /\ Becomes(map)
    \/ k \notin DOMAIN map /\ ~Full /\ Becomes(With(k, v))
    \/ /\ k \notin DOMAIN map /\ Full /\ \A j \in DOMAIN map : j < k
       /\ threw' = TRUE /\ UNCHANGED <<map, outside>>
    \/ /\ k \notin DOMAIN map /\ Full /\ \E j \in DOMAIN map : k < j
       /\ outside' = TRUE

\* A key that an iterator stands at.
EraseAt(k) == k \in DOMAIN map /\ Becomes(Without(k))

\* A key that is there goes; of one that is not there the next larger one does,
\* if there is one.
Erase(k) ==
    \/ (\A j \in DOMAIN map : j < k) /\ Becomes(map)
    \/ \E j \in DOMAIN map : /\ k <= j /\ \A i \in DOMAIN map : k <= i => j <= i
                             /\ Becomes(Without(j))

Next == /\ ~outside
        /\ \E k \in Keys : Erase(k) \/ EraseAt(k) \/ \E v \in Vals : Insert(k, v)

Spec == Init /\ [][Next]_vars
=============================================================================
