------------------------------- MODULE Fector -------------------------------
(***************************************************************************)
(* Fector of fector.hpp, a vector in an array of fixed size: positions     *)
(* 0..idx-1 of the array hold the elements.  The position Capacity is not  *)
(* in the array any more: what is written there is lost somewhere else.    *)
(* Elements are plain values, as in the tests: constructing and destroying *)
(* them has no effect.  The caller takes away no more than there is, and   *)
(* passes iterators of the elements or end().                              *)
(***************************************************************************)
EXTENDS Naturals, Sequences

CONSTANTS Capacity, Values,
          IdxRange   \* how many values idx has: 2^16, it is a uint16_t

VARIABLES slots,   \* position |-> value
          idx,     \* the number of elements
          threw,   \* did the last operation throw out_of_range?
          outside  \* has an operation written outside of the array?  What
                   \* the program does from then on is undefined

vars == <<slots, idx, threw, outside>>

Positions == 0..Capacity

Init == /\ slots \in [Positions -> Values] /\ idx = 0
        /\ threw = FALSE /\ outside = FALSE

\* ++idx
Incremented == (idx + 1) % IdxRange
-----------------------------------------------------------------------------
\* Mutant: the test lets one more in.
MutPushBack(v) ==
    \/ /\ idx <= Capacity
       /\ slots' = [slots EXCEPT ![idx] = v]
       /\ idx' = Incremented /\ threw' = FALSE /\ UNCHANGED outside
    \/ idx > Capacity /\ threw' = TRUE /\ UNCHANGED <<slots, idx, outside>>

\* push_back() of either kind, and emplace().
PushBack(v) ==
    \/ /\ idx < Capacity
       /\ slots' = [slots EXCEPT ![idx] = v]
       /\ idx' = Incremented /\ threw' = FALSE /\ UNCHANGED outside
    \/ idx >= Capacity /\ threw' = TRUE /\ UNCHANGED <<slots, idx, outside>>

\* resize(): elements go one by one, or come one by one until one is too many.
Resize(cnt, v) ==
    /\ slots' = [p \in Positions |-> IF p \in idx..(cnt - 1) /\ p < Capacity
                                     THEN v ELSE slots[p]]
    /\ \/ cnt <= Capacity /\ idx' = cnt /\ threw' = FALSE
       \/ cnt > Capacity /\ idx' = Capacity /\ threw' = TRUE
    /\ UNCHANGED outside

\* pop_back() of either kind.
PopBack(size) == /\ size <= idx
                 /\ idx' = idx - size /\ threw' = FALSE
                 /\ UNCHANGED <<slots, outside>>

Clear == idx' = 0 /\ threw' = FALSE /\ UNCHANGED <<slots, outside>>

\* Mutant: the elements are moved from the front to the back.
MutInsert(it, v) ==
    \/ idx = 0 /\ PushBack(v)
    \/ /\ it < idx
       /\ slots' = [p \in Positions |-> IF p = it THEN v
                                        ELSE IF it < p /\ p <= idx THEN slots[it]
                                        ELSE slots[p]]
       /\ idx' = Incremented /\ threw' = FALSE
       /\ \/ idx < Capacity /\ UNCHANGED outside
          \/ idx = Capacity /\ outside' = TRUE

\* insert() before the element at it: those from there on move back by one.
\* The test "idx <= Capacity" holds of a full array too, whose last element
\* goes behind it.  The loop starts below end(): that of insert(end()) never
\* meets it, and runs down through the memory in front of the array.
Insert(it, v) ==
    \/ idx = 0 /\ PushBack(v)
    \/ /\ it < idx
       /\ slots' = [p \in Positions |-> IF p = it THEN v
                                        ELSE IF it < p /\ p <= idx THEN slots[p - 1]
                                        ELSE slots[p]]
       /\ idx' = Incremented /\ threw' = FALSE
       /\ \/ idx < Capacity /\ UNCHANGED outside
          \/ idx = Capacity /\ outside' = TRUE
    \/ /\ it = idx /\ idx # 0
       /\ outside' = TRUE /\ UNCHANGED <<slots, idx, threw>>

\* Mutant: no more than the elements behind pos are removed.
MutErase(pos, size) ==
    /\ size <= idx /\ pos <= idx
    /\ slots' = [p \in Positions |-> IF pos <= p /\ p + size < idx
                                     THEN slots[p + size] ELSE slots[p]]
    /\ idx' = (IF pos + size <= idx THEN idx - size ELSE pos)
    /\ threw' = FALSE /\ UNCHANGED outside

\* erase(), and pop_front() with pos = 0: those behind move to the front by
\* size, and the last size elements go.
Erase(pos, size) ==
    /\ size <= idx /\ pos <= idx
    /\ slots' = [p \in Positions |-> IF pos <= p /\ p + size < idx
                                     THEN slots[p + size] ELSE slots[p]]
    /\ idx' = idx - size /\ threw' = FALSE /\ UNCHANGED outside

Next == /\ ~outside
        /\ \/ \E v \in Values : PushBack(v)
           \/ \E v \in Values, cnt \in 0..(Capacity + 1) : Resize(cnt, v)
           \/ \E size \in 1..Capacity : PopBack(size)
           \/ Clear
           \/ \E v \in Values, it \in 0..Capacity : it <= idx /\ Insert(it, v)
           \/ \E pos \in 0..Capacity, size \in 0..Capacity : Erase(pos, size)

Spec == Init /\ [][Next]_vars
-----------------------------------------------------------------------------
\* Types; the elements are in the array unless insert() was called with a full
\* array or with end() (fector.hpp 24-35).
TypeOK == /\ slots \in [Positions -> Values]
          /\ idx \in 0..(Capacity + 1) /\ threw \in BOOLEAN /\ outside \in BOOLEAN
          /\ idx > Capacity => outside

\* The elements are in the array: insert() throws "fector full can not insert"
\* (fector.hpp 242) rather than write behind it.
InBounds == idx <= Capacity

Elements == [i \in 1..idx |-> slots[i - 1]]
=============================================================================
