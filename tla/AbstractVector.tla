--------------------------- MODULE AbstractVector ---------------------------
(***************************************************************************)
(* What the operations of a vector of bounded capacity do to the sequence  *)
(* of its elements, each under its name.  Positions count from 0, as the   *)
(* iterators do.                                                           *)
(***************************************************************************)
EXTENDS Naturals, Sequences, SequencesExt

CONSTANTS Values, Capacity

VARIABLES elems,    \* the elements, from the first to the last
          threw,    \* did the last operation throw?
          outside   \* has a call been made of which nothing is promised?

vars == <<elems, threw, outside>>

Init == elems = <<>> /\ threw = FALSE /\ outside = FALSE

Becomes(s) == elems' = s /\ threw' = FALSE /\ UNCHANGED outside
Throws(s) == elems' = s /\ threw' = TRUE /\ UNCHANGED outside

\* At the end, or an exception and nothing is changed.
PushBack(v) == \/ Len(elems) < Capacity /\ Becomes(Append(elems, v))
               \/ Len(elems) = Capacity /\ Throws(elems)

\* n of the same at the end.
With(n, v) == elems \o [i \in 1..n |-> v]

\* Elements go from the end or come to it; with too many, there are as many as
\* there can be, and an exception.
Resize(n, v) ==
    \/ n <= Len(elems) /\ Becomes(SubSeq(elems, 1, n))
    \/ n > Len(elems) /\ n <= Capacity /\ Becomes(With(n - Len(elems), v))
    \/ n > Capacity /\ Throws(With(Capacity - Len(elems), v))

PopBack(n) == n <= Len(elems) /\ Becomes(SubSeq(elems, 1, Len(elems) - n))

Clear == Becomes(<<>>)

\* Before an element, while there is room.  Nothing is promised of insert() at
\* the end of what is not empty, nor when there is no room.
Insert(i, v) ==
    \/ elems = <<>> /\ PushBack(v)
    \/ /\ i < Len(elems) /\ Len(elems) < Capacity
       /\ Becomes(InsertAt(elems, i + 1, v))
    \/ /\ elems # <<>> /\ (i = Len(elems) \/ Len(elems) = Capacity)
       /\ outside' = TRUE

\* The n elements from position i on; the last n when fewer than that follow, so
\* that elements before i go too.
Erase(i, n) ==
    \/ /\ i + n <= Len(elems)
       /\ Becomes(SubSeq(elems, 1, i) \o SubSeq(elems, i + n + 1, Len(elems)))
    \/ /\ i + n > Len(elems) /\ n <= Len(elems)
       /\ Becomes(SubSeq(elems, 1, Len(elems) - n))

Next == /\ ~outside
        /\ \/ \E v \in Values : PushBack(v)
           \/ \E n \in 0..(Capacity + 1), v \in Values : Resize(n, v)
           \/ \E n \in 1..Capacity : PopBack(n)
           \/ Clear
           \/ \E i \in 0..Len(elems), v \in Values : Insert(i, v)
           \/ \E i, n \in 0..Len(elems) : Erase(i, n)

Spec == Init /\ [][Next]_vars
=============================================================================
