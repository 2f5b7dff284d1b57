--------------------------- MODULE MCParallelalgo ---------------------------
(***************************************************************************)
(* The parallel algorithms for TLC: each behaviour is one call of one of   *)
(* them.  They share the variables that mean the same in all.              *)
(***************************************************************************)
EXTENDS Naturals

CONSTANTS MaxSize,      \* ranges of at most so many elements for find_if and
                        \* mapReduce
          MaxThreads,   \* at most so many threads for them
          MaxDist,      \* the same for for_each and transform
          MaxForEach

ASSUME BoundsAssumption ==
    /\ MaxSize \in Nat /\ MaxThreads \in Nat \ {0}
    /\ MaxDist \in Nat /\ MaxForEach \in Nat \ {0}

VARIABLES algo, numThreads, joined,
          started,                                  \* not of mapReduce
          size, cur, pc,                            \* not of for_each
          dist, at, last, visits,                   \* of for_each, transform
          matches, slice, be, found, die,           \* of find_if
          slices, tmpStore, joinMutex, length, out  \* of mapReduce

visitVars == <<dist, at, last, visits>>
findVars == <<matches, slice, be, found, die>>
reduceVars == <<slices, tmpStore, joinMutex, length, out>>
vars == <<algo, numThreads, joined, started, size, cur, pc,
          visitVars, findVars, reduceVars>>

ForEach == INSTANCE ParallelForEach WITH MaxThreads <- MaxForEach
Find == INSTANCE ParallelFind
Reduce == INSTANCE MapReduce

IsForEach == algo \in {"for_each", "transform"}
IsFind == algo = "find_if"
IsReduce == algo = "mapReduce"

NoVisits == dist = 0 /\ at = 0 /\ last = 0 /\ visits = 0
NoFind == matches = 0 /\ slice = 0 /\ be = 0 /\ found = 0 /\ die = 0
NoReduce == slices = 0 /\ tmpStore = 0 /\ joinMutex = 0 /\ length = 0 /\ out = 0

Init == \/ ForEach!Init /\ size = 0 /\ cur = 0 /\ pc = 0 /\ NoFind /\ NoReduce
        \/ IsFind /\ Find!Init /\ NoVisits /\ NoReduce
        \/ IsReduce /\ Reduce!Init /\ started = 0 /\ NoVisits /\ NoFind

OnlyForEach == UNCHANGED <<size, cur, pc, findVars, reduceVars>>
OnlyFind == UNCHANGED <<algo, visitVars, reduceVars>>
OnlyReduce == UNCHANGED <<algo, started, visitVars, findVars>>

Caller == \/ IsForEach /\ (ForEach!StartThread \/ ForEach!Join) /\ OnlyForEach
          \/ IsFind /\ (Find!StartThread \/ Find!Join) /\ OnlyFind
          \/ IsReduce /\ (Reduce!StartThread \/ Reduce!StartRest \/ Reduce!Join) /\ OnlyReduce

Threads == ForEach!Threads \cup Find!Threads \cup Reduce!Threads

Thread(i) ==
    \/ IsForEach /\ i \in ForEach!Threads /\ ForEach!Visit(i) /\ OnlyForEach
    \/ IsFind /\ i \in Find!Threads /\ Find!Thread(i) /\ OnlyFind
    \/ IsReduce /\ i \in Reduce!Threads /\ Reduce!Thread(i) /\ OnlyReduce

Next == Caller \/ \E i \in Threads : Thread(i)

\* Every thread of the process runs on.
Spec == Init /\ [][Next]_vars /\ WF_vars(Caller) /\ \A i \in Threads : WF_vars(Thread(i))
-----------------------------------------------------------------------------
\* The type invariants of the three (parallelalgo.hpp 18-213).
TypeOK == /\ IsForEach => ForEach!TypeOK
          /\ IsFind => Find!TypeOK
          /\ IsReduce => Reduce!TypeOK

\* for_each and transform give no element to two threads, and cover exactly the
\* range if, and only if, the threads share it evenly up to the odd element
\* (parallelalgo.hpp 23-32, 55-67).
EachElementOnce == IsForEach => ForEach!NoSharedElement /\ ForEach!CoversWhenEven

\* When find_if returns and there was a match before the last elements there is
\* a result, and it is the first match of its slice (parallelalgo.hpp 185-196;
\* algotest/algotest.cpp 30).
HitIsReported == IsFind => Find!HitIsReported /\ Find!FirstOfItsSlice

\* The output of mapReduce has every result, each once, and those of a slice
\* together (parallelalgo.hpp 121-123, 148-150).
SlicesTogether == IsReduce => Reduce!SlicesTogether

\* Each call returns (parallelalgo.hpp 34-38, 69-73, 152-156, 201-205).
Returned == \/ IsForEach /\ ForEach!Returned
            \/ IsFind /\ Find!Returned
            \/ IsReduce /\ Reduce!Returned
Returns == <>[]Returned
=============================================================================
