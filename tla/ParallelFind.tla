---------------------------- MODULE ParallelFind ----------------------------
(***************************************************************************)
(* find_if of parallelalgo.hpp: the caller starts threads, one a slice,    *)
(* that share the result found and the flag die, and joins them.           *)
(* The elements are 0..size-1, matches are those that satisfy pred, and    *)
(* size stands for the iterator end.                                       *)
(***************************************************************************)
EXTENDS Naturals

CONSTANTS MaxSize,     \* ranges of at most so many elements
          MaxThreads   \* at most so many threads

VARIABLES size, matches, numThreads,
          cur,         \* where the next slice begins
          started,     \* threads started so far: 0..started-1
          joined,      \* threads joined so far
          slice,       \* thread |-> [first, last] of its slice
          be,          \* thread |-> the element it looks at
          pc,          \* thread |-> "loop", "body", "found", "die" or "done"
          found,       \* the result
          die          \* has a thread found something?

input == <<size, matches, numThreads>>
caller == <<cur, started, joined, slice>>
vars == <<input, caller, be, pc, found, die>>

Threads == 0..(MaxThreads - 1)

advanceSize == IF size \div numThreads = 0 THEN 1 ELSE size \div numThreads

Init == /\ size \in 0..MaxSize /\ matches \in SUBSET (0..(size - 1))
        /\ numThreads \in 1..MaxThreads
        /\ cur = 0 /\ started = 0 /\ joined = 0
        /\ slice = [i \in Threads |-> [first |-> 0, last |-> 0]]
        /\ be = [i \in Threads |-> 0] /\ pc = [i \in Threads |-> "loop"]
        /\ found = size /\ die = FALSE
-----------------------------------------------------------------------------
StartsMore == started < numThreads /\ cur # size

StartThread ==
    /\ StartsMore
    /\ slice' = [slice EXCEPT ![started] = [first |-> cur, last |-> cur + advanceSize]]
    /\ be' = [be EXCEPT ![started] = cur]
    /\ cur' = cur + advanceSize
    /\ started' = started + 1
    /\ UNCHANGED <<input, joined, pc, found, die>>

Join == /\ ~StartsMore /\ joined < started
        /\ pc[joined] = "done"
        /\ joined' = joined + 1
        /\ UNCHANGED <<input, cur, started, slice, be, pc, found, die>>

\* Mutant: the last element of a slice is left out.
MutLoop(i) ==
    /\ i < started /\ pc[i] = "loop"
    /\ pc' = [pc EXCEPT ![i] = IF be[i] + 1 < slice[i].last /\ ~die THEN "body" ELSE "done"]
    /\ UNCHANGED <<input, caller, be, found, die>>

\* The loop's condition: is there an element left, and is die not set?
Loop(i) ==
    /\ i < started /\ pc[i] = "loop"
    /\ pc' = [pc EXCEPT ![i] = IF be[i] # slice[i].last /\ ~die THEN "body" ELSE "done"]
    /\ UNCHANGED <<input, caller, be, found, die>>

\* Mutant: the next element is not taken.
MutBody(i) ==
    /\ pc[i] = "body"
    /\ pc' = [pc EXCEPT ![i] = IF be[i] \in matches THEN "found" ELSE "loop"]
    /\ UNCHANGED <<input, caller, be, found, die>>

\* pred is called; the next element is taken when it says no.
Body(i) ==
    /\ pc[i] = "body"
    /\ \/ /\ be[i] \in matches
          /\ pc' = [pc EXCEPT ![i] = "found"]
          /\ UNCHANGED be
       \/ /\ be[i] \notin matches
          /\ pc' = [pc EXCEPT ![i] = "loop"]
          /\ be' = [be EXCEPT ![i] = @ + 1]
    /\ UNCHANGED <<input, caller, found, die>>

\* Mutant: the thread neither sets the flag nor leaves its loop.
MutGoesOn(i) ==
    /\ pc[i] = "found"
    /\ found' = be[i]
    /\ be' = [be EXCEPT ![i] = @ + 1]
    /\ pc' = [pc EXCEPT ![i] = "loop"]
    /\ UNCHANGED <<input, caller, die>>

\* found is no atomic variable: two threads may write it at once, and the
\* result is what either of them writes.
Found(i) ==
    /\ pc[i] = "found"
    /\ found' = be[i]
    /\ pc' = [pc EXCEPT ![i] = "die"]
    /\ UNCHANGED <<input, caller, be, die>>

Die(i) ==
    /\ pc[i] = "die"
    /\ die' = TRUE
    /\ pc' = [pc EXCEPT ![i] = "done"]
    /\ UNCHANGED <<input, caller, be, found>>

Thread(i) == Loop(i) \/ Body(i) \/ Found(i) \/ Die(i)

Next == StartThread \/ Join \/ \E i \in Threads : Thread(i)

\* Every thread of the process runs on.
Fairness == WF_vars(StartThread) /\ WF_vars(Join) /\ \A i \in Threads : WF_vars(Thread(i))

Spec == Init /\ [][Next]_vars /\ Fairness
-----------------------------------------------------------------------------
TypeOK == /\ size \in 0..MaxSize /\ matches \subseteq 0..(size - 1)
          /\ numThreads \in 1..MaxThreads
          /\ cur \in 0..size /\ started \in 0..numThreads /\ joined \in 0..started
          /\ slice \in [Threads -> [first : 0..size, last : 0..size]]
          /\ be \in [Threads -> 0..size]
          /\ pc \in [Threads -> {"loop", "body", "found", "die", "done"}]
          /\ found \in 0..size /\ die \in BOOLEAN

Returned == ~StartsMore /\ joined = started

\* When the call returns and there was a match, there is a result, unless all
\* matches are among the last elements, fewer than there are threads, for which
\* no thread is started (parallelalgo.hpp 185).  A thread that stops because
\* die is set relies on the other's result (190).
HitIsReported == Returned /\ matches \cap 0..(size - numThreads) # {} => found # size

\* The result is the first match of its slice; with one thread, of the range
\* (parallelalgo.hpp 190-196; algotest/algotest.cpp 30).
FirstOfItsSlice ==
    Returned /\ found # size =>
        \E i \in Threads :
            /\ i < started /\ found \in slice[i].first..(slice[i].last - 1)
            /\ \A p \in slice[i].first..(found - 1) : p \notin matches

\* The call returns (parallelalgo.hpp 201-205).
Returns == <>[]Returned
=============================================================================
