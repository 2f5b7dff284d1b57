------------------------------ MODULE MapReduce ------------------------------
(***************************************************************************)
(* mapReduce of parallelalgo.hpp: each thread puts what f says of the      *)
(* elements of its slice into a store of its own, and copies that to the   *)
(* common output with the mutex held.                                      *)
(*                                                                         *)
(* f gives one result an element, and the store keeps every one.  The      *)
(* output iterator appends to a sequence, as std::back_inserter's does;    *)
(* appending to it takes two steps, to read its length and to write behind *)
(* it, so that two threads without the mutex could overwrite each other.   *)
(***************************************************************************)
EXTENDS Naturals, Sequences, FiniteSets, SequencesExt

CONSTANTS MaxSize,     \* ranges of at most so many elements
          MaxThreads   \* at most so many threads asked for

VARIABLES size, numThreads,
          cur,         \* where the next slice begins
          slices,      \* [b, e] of the threads started
          joined,      \* threads joined so far
          pc,          \* thread |-> "map", "copy", "write", "unlock", "done"
          tmpStore,    \* thread |-> the results it has, in order
          joinMutex,   \* the thread that has it, or None
          length,      \* thread |-> the output's length as it has read it
          out          \* the output: results by their element

input == <<size, numThreads>>
caller == <<cur, slices, joined>>
vars == <<input, caller, pc, tmpStore, joinMutex, length, out>>

\* The slices the loop makes, and one for the rest.
Threads == 1..(MaxThreads + 1)
None == 0

advanceSize == IF size \div numThreads = 0 THEN 1 ELSE size \div numThreads

Init == /\ size \in 0..MaxSize /\ numThreads \in 1..MaxThreads
        /\ cur = 0 /\ slices = <<>> /\ joined = 0
        /\ pc = [i \in Threads |-> "map"] /\ tmpStore = [i \in Threads |-> <<>>]
        /\ joinMutex = None /\ length = [i \in Threads |-> 0] /\ out = <<>>
-----------------------------------------------------------------------------
Start(e) == /\ slices' = Append(slices, [b |-> cur, e |-> e])
            /\ cur' = e
            /\ UNCHANGED <<input, joined, pc, tmpStore, joinMutex, length, out>>

StartThread == /\ Len(slices) < numThreads /\ cur # size
               /\ Start(cur + advanceSize)

StartRest == /\ Len(slices) = numThreads /\ cur # size
             /\ Start(size)

Started == cur = size

Join == /\ Started /\ joined < Len(slices)
        /\ pc[joined + 1] = "done"
        /\ joined' = joined + 1
        /\ UNCHANGED <<input, cur, slices, pc, tmpStore, joinMutex, length, out>>

\* f is called on the slice's elements, one after the other.
Map(i) == /\ i <= Len(slices) /\ pc[i] = "map"
          /\ slices[i].b + Len(tmpStore[i]) # slices[i].e
          /\ tmpStore' = [tmpStore EXCEPT ![i] = Append(@, slices[i].b + Len(@))]
          /\ UNCHANGED <<input, caller, pc, joinMutex, length, out>>

\* Mutant: the mutex is the job's own.
MutLock(i) == /\ i <= Len(slices) /\ pc[i] = "map"
              /\ slices[i].b + Len(tmpStore[i]) = slices[i].e
              /\ pc' = [pc EXCEPT ![i] = "copy"]
              /\ UNCHANGED <<input, caller, tmpStore, joinMutex, length, out>>

Lock(i) == /\ i <= Len(slices) /\ pc[i] = "map"
           /\ slices[i].b + Len(tmpStore[i]) = slices[i].e
           /\ joinMutex = None
           /\ joinMutex' = i
           /\ pc' = [pc EXCEPT ![i] = "copy"]
           /\ UNCHANGED <<input, caller, tmpStore, length, out>>

\* std::copy: one result at a time.
Copy(i) == /\ pc[i] = "copy"
           /\ \/ /\ tmpStore[i] # <<>>
                 /\ length' = [length EXCEPT ![i] = Len(out)]
                 /\ pc' = [pc EXCEPT ![i] = "write"]
              \/ /\ tmpStore[i] = <<>>
                 /\ pc' = [pc EXCEPT ![i] = "unlock"]
                 /\ UNCHANGED length
           /\ UNCHANGED <<input, caller, tmpStore, joinMutex, out>>

Write(i) == /\ pc[i] = "write"
            /\ out' = Append(SubSeq(out, 1, length[i]), Head(tmpStore[i]))
            /\ tmpStore' = [tmpStore EXCEPT ![i] = Tail(@)]
            /\ pc' = [pc EXCEPT ![i] = "copy"]
            /\ UNCHANGED <<input, caller, joinMutex, length>>

Unlock(i) == /\ pc[i] = "unlock"
             /\ joinMutex' = None
             /\ pc' = [pc EXCEPT ![i] = "done"]
             /\ UNCHANGED <<input, caller, tmpStore, length, out>>

Thread(i) == Map(i) \/ Lock(i) \/ Copy(i) \/ Write(i) \/ Unlock(i)

Next == StartThread \/ StartRest \/ Join \/ \E i \in Threads : Thread(i)

\* Every thread runs on, and each locks the mutex only once: it is given to
\* each in the end.
Fairness == /\ WF_vars(StartThread) /\ WF_vars(StartRest) /\ WF_vars(Join)
            /\ \A i \in Threads : WF_vars(Thread(i))

Spec == Init /\ [][Next]_vars /\ Fairness
-----------------------------------------------------------------------------
TypeOK == /\ size \in 0..MaxSize /\ numThreads \in 1..MaxThreads
          /\ cur \in 0..size
          /\ slices \in Seq([b : 0..size, e : 0..size]) /\ Len(slices) <= numThreads + 1
          /\ joined \in 0..Len(slices)
          /\ pc \in [Threads -> {"map", "copy", "write", "unlock", "done"}]
          /\ tmpStore \in [Threads -> Seq(0..(size - 1))]
          /\ joinMutex \in Threads \cup {None}
          /\ length \in [Threads -> 0..size]
          /\ out \in Seq(0..(size - 1))

Returned == Started /\ joined = Len(slices)

\* The results of a slice stand together and in the slice's order: no other
\* thread's copy comes between (parallelalgo.hpp 121-123).  When the call
\* returns all are there, each once, with what the division left (148-150).
SlicesTogether ==
    /\ \A k \in 1..(Len(out) - 1) :
           \/ out[k + 1] = out[k] + 1
           \/ \E i, j \in DOMAIN slices : out[k] + 1 = slices[i].e /\ out[k + 1] = slices[j].b
    /\ Returned => Len(out) = size /\ ToSet(out) = 0..(size - 1)

\* The call returns (parallelalgo.hpp 152-156).
Returns == <>Returned
=============================================================================
