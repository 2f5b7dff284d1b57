--------------------------------- MODULE Fap ---------------------------------
(***************************************************************************)
(* Fap of fap.hpp, a map in a Fector of pairs, sorted by their keys.       *)
(***************************************************************************)
EXTENDS Naturals, FiniteSets

CONSTANTS Keys, Vals, Size,
          IdxRange   \* of the Fector

value_type == [first : Keys, second : Vals]

VARIABLES slots, idx, threw, outside   \* of the Fector

vars == <<slots, idx, threw, outside>>

Store == INSTANCE Fector WITH Capacity <- Size, Values <- value_type

Init == Store!Init

\* Where std::lower_bound ends: before the first element whose key is not less.
lower_bound(k) == Cardinality({p \in 0..(idx - 1) : slots[p].first < k})

\* Mutant: the value of a key that is there is replaced.
Mutinsert(v) ==
    LET it == lower_bound(v.first)
    IN  \/ it = idx /\ Store!PushBack(v)
        \/ it # idx /\ slots[it].first # v.first /\ Store!Insert(it, v)
        \/ /\ it # idx /\ slots[it].first = v.first
           /\ slots' = [slots EXCEPT ![it] = v]
           /\ UNCHANGED <<idx, threw, outside>>

\* A key that is there stays as it is.
insert(v) ==
    LET it == lower_bound(v.first)
    IN  \/ it = idx /\ Store!PushBack(v)
        \/ it # idx /\ slots[it].first # v.first /\ Store!Insert(it, v)
        \/ /\ it # idx /\ slots[it].first = v.first
           /\ threw' = FALSE /\ UNCHANGED <<slots, idx, outside>>

\* Mutant: the search ends one before.
Mutfind(k) == LET it == lower_bound(k)
              IN  IF it > 0 /\ ~(slots[it - 1].first < k) THEN it - 1 ELSE idx

\* The position find() gives, idx being end().  Its second test is no test for
\* the key: lower_bound has made sure that the pair it ends at is not less.
find(k) == LET it == lower_bound(k)
           IN  IF it # idx /\ ~(slots[it].first < k) THEN it ELSE idx

\* erase() with an iterator.
eraseAt(it) == it < idx /\ Store!Erase(it, 1)

\* erase() with a key: the pair find() gives.  The call in it (line 107) does not
\* compile, for its iterator has a constant key; eraseAt(find(k)), for which the
\* caller does, comes to the same.
erase(k) == \/ find(k) # idx /\ Store!Erase(find(k), 1)
            \/ find(k) = idx /\ threw' = FALSE /\ UNCHANGED <<slots, idx, outside>>

Next == /\ ~outside
        /\ \/ \E v \in value_type : insert(v)
           \/ \E it \in 0..(Size - 1) : eraseAt(it)
           \/ \E k \in Keys : erase(k)

Spec == Init /\ [][Next]_vars
-----------------------------------------------------------------------------
\* Types; the pairs are in the array unless one was inserted before another when
\* it was full (fap.hpp 161).
TypeOK == /\ slots \in [0..Size -> value_type]
          /\ idx \in 0..(Size + 1) /\ threw \in BOOLEAN /\ outside \in BOOLEAN
          /\ idx > Size => outside

Present == {slots[p].first : p \in 0..(idx - 1)}

\* The pairs are in the order of their keys and no key is there twice, which
\* the binary searches rely on (fap.hpp 50-66, 114-120).
Sorted == \A p, q \in 0..(idx - 1) : p < q => slots[p].first < slots[q].first

\* The pairs stay sorted; find() finds a key that is there, but of one that is
\* not it gives the next larger, and end() only if there is none (fap.hpp
\* 70-100).
FindsFrom ==
    /\ Sorted
    /\ \A k \in Keys :
          \/ find(k) = idx /\ \A j \in Present : j < k
          \/ /\ find(k) < idx /\ k <= slots[find(k)].first
             /\ \A j \in Present : k <= j => slots[find(k)].first <= j

\* The map the pairs make.
At(k) == CHOOSE p \in 0..(idx - 1) : slots[p].first = k
Contents == [k \in Present |-> slots[At(k)].second]
=============================================================================
