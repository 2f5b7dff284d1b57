--------------------------- MODULE ParallelForEach ---------------------------
(***************************************************************************)
(* for_each and transform of parallelalgo.hpp: the calling thread starts   *)
(* numThreads threads, each with a slice of the range, and joins them.     *)
(* The elements are 0..dist-1; a position of dist or more is past the end. *)
(***************************************************************************)
EXTENDS Naturals, FiniteSets

CONSTANTS MaxDist,     \* ranges of at most so many elements
          MaxThreads   \* at most so many threads

VARIABLES algo,        \* which of the two
          dist,        \* the length of the range
          numThreads,
          started,     \* threads started so far: 0..started-1
          joined,      \* threads joined so far
          at, last,    \* thread |-> its place, and the end of its slice
          visits       \* position |-> the threads that have been there

vars == <<algo, dist, numThreads, started, joined, at, last, visits>>

Threads == 0..(MaxThreads - 1)
Positions == 0..(MaxDist * MaxThreads + 1)

\* transform takes half of the range whatever the number of threads.
stepWidth == IF algo = "for_each" THEN dist \div numThreads ELSE dist \div 2

\* Mutant: every thread fills up.
MutfillUp(i) == IF dist % 2 # 0 THEN 1 ELSE 0

\* Mutant: the last thread takes what the division leaves.
MutRest(i) == IF i + 1 = numThreads THEN dist - numThreads * stepWidth ELSE 0

\* The last thread takes one more when the length is odd.
fillUp(i) == IF i + 1 = numThreads /\ dist % 2 # 0 THEN 1 ELSE 0

Init == /\ algo \in {"for_each", "transform"}
        /\ dist \in 0..MaxDist /\ numThreads \in 1..MaxThreads
        /\ started = 0 /\ joined = 0
        /\ at = [i \in Threads |-> 0] /\ last = [i \in Threads |-> 0]
        /\ visits = [p \in Positions |-> {}]

\* Mutant: one thread too many.
MutStartThread ==
    /\ started <= numThreads
    /\ at' = [at EXCEPT ![started] = started * stepWidth]
    /\ last' = [last EXCEPT ![started] = (started + 1) * stepWidth + fillUp(started)]
    /\ started' = started + 1
    /\ UNCHANGED <<algo, dist, numThreads, joined, visits>>

StartThread ==
    /\ started < numThreads
    /\ at' = [at EXCEPT ![started] = started * stepWidth]
    /\ last' = [last EXCEPT ![started] = (started + 1) * stepWidth + fillUp(started)]
    /\ started' = started + 1
    /\ UNCHANGED <<algo, dist, numThreads, joined, visits>>

\* f is called on the element, and the result stored in its place.
Visit(i) ==
    /\ i < started /\ at[i] # last[i]
    /\ visits' = [visits EXCEPT ![at[i]] = @ \cup {i}]
    /\ at' = [at EXCEPT ![i] = @ + 1]
    /\ UNCHANGED <<algo, dist, numThreads, started, joined, last>>

Join == /\ started = numThreads /\ joined < numThreads
        /\ at[joined] = last[joined]
        /\ joined' = joined + 1
        /\ UNCHANGED <<algo, dist, numThreads, started, at, last, visits>>

Next == StartThread \/ Join \/ \E i \in Threads : Visit(i)

\* Every thread of the process runs on.
Fairness == WF_vars(StartThread) /\ WF_vars(Join) /\ \A i \in Threads : WF_vars(Visit(i))

Spec == Init /\ [][Next]_vars /\ Fairness
-----------------------------------------------------------------------------
TypeOK == /\ algo \in {"for_each", "transform"}
          /\ dist \in 0..MaxDist /\ numThreads \in 1..MaxThreads
          /\ started \in 0..numThreads /\ joined \in 0..numThreads
          /\ at \in [Threads -> Positions] /\ last \in [Threads -> Positions]
          /\ visits \in [Positions -> SUBSET Threads]

\* No element is given to f by two threads, whatever the length and the number
\* of threads (parallelalgo.hpp 26-32, 58-67): f may change it without a lock.
NoSharedElement == \A p \in Positions : Cardinality(visits[p]) <= 1

Returned == joined = numThreads
Visited == {p \in Positions : visits[p] # {}}

\* When the call returns exactly the elements of the range have been visited
\* if, and only if, the threads share them evenly, up to the odd one.  In the
\* other cases elements are left out or positions past the end are visited.
Even == \/ algo = "for_each" /\ dist % numThreads = dist % 2
        \/ algo = "transform" /\ (numThreads = 2 \/ dist <= 1)
CoversWhenEven == Returned => (Visited = 0..(dist - 1) <=> Even)

\* The call returns (parallelalgo.hpp 34-38, 69-73).
Returns == <>Returned
=============================================================================
