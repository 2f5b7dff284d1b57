------------------------------ MODULE Bllocator ------------------------------
(***************************************************************************)
(* The allocators of bllocator.hpp as they are put together in its tests:  *)
(* a StackAllocator or PoolAllocator, which hands out the bytes of one     *)
(* array from the front; a FreeDequeAllocator around it, which keeps what  *)
(* comes back for requests of the same size; and a FallbackAllocator that  *)
(* turns to malloc() when these have nothing.                              *)
(*                                                                         *)
(* An address in the array is its offset.  What malloc() returns is a      *)
(* region of its own, away from the array and from other such blocks.      *)
(***************************************************************************)
EXTENDS Naturals, Sequences, SequencesExt

CONSTANTS Size,        \* of the array
          Requests,    \* the sizes the client asks for
          SizeRange,   \* the numbers a size_t can be: 0 .. SizeRange - 1
          HeapRegions  \* what malloc() can give

VARIABLES freeDeque, \* is there a FreeDequeAllocator around the array?
          idx,    \* the array is in use up to here
          store,  \* of the FreeDequeAllocator: blocks that came back
          live    \* the blocks the client holds

vars == <<freeDeque, idx, store, live>>

Block(start, size) == [region |-> "array", start |-> start, size |-> size]

\* The blocks there can be.
Blocks == [region : HeapRegions \cup {"array"}, start : 0..Size, size : Requests]

Init == freeDeque \in BOOLEAN /\ idx = 0 /\ store = <<>> /\ live = {}
-----------------------------------------------------------------------------
\* The nodes of the store with a block of that size.
Fitting(s) == {i \in DOMAIN store : freeDeque /\ store[i].size = s}

\* Mutant: the node stays in the store.
MutReuseKeeps(s) ==
    \E i \in Fitting(s) :
        /\ \A j \in Fitting(s) : i <= j
        /\ live' = live \cup {store[i]}
        /\ UNCHANGED <<idx, store>>

\* Mutant: a smaller block will do.
MutReuse(s) ==
    \E i \in DOMAIN store :
        /\ freeDeque /\ store[i].size <= s
        /\ live' = live \cup {[store[i] EXCEPT !.size = s]}
        /\ store' = RemoveAt(store, i)
        /\ UNCHANGED idx

\* The first block of that size in the store goes to the client again.
Reuse(s) ==
    \E i \in Fitting(s) :
        /\ \A j \in Fitting(s) : i <= j
        /\ live' = live \cup {store[i]}
        /\ store' = RemoveAt(store, i)
        /\ UNCHANGED idx

\* The sum wraps when somebody asks for nearly all memory there can be.
NIdx(s) == (idx + s) % SizeRange

\* Mutant: the test lets one byte more in.
MutFits(s) == NIdx(s) <= Size + 1

Fits(s) == NIdx(s) <= Size

Bump(s) == /\ Fitting(s) = {} /\ Fits(s)
           /\ live' = live \cup {Block(idx, s)}
           /\ idx' = NIdx(s)
           /\ UNCHANGED store

\* The second allocator.  malloc() may have nothing: std::bad_alloc, and
\* nothing changes.
Malloc(s) == /\ Fitting(s) = {} /\ ~Fits(s)
             /\ \E r \in HeapRegions :
                   /\ \A b \in live : b.region # r
                   /\ live' = live \cup {[region |-> r, start |-> 0, size |-> s]}
             /\ UNCHANGED <<idx, store>>

Allocate(s) == Reuse(s) \/ Bump(s) \/ Malloc(s)

\* a1.allocated(ptr)
Allocated(b) == b.region = "array" /\ b.start <= idx

Keep(b) == /\ freeDeque /\ Allocated(b)
           /\ store' = Append(store, b)
           /\ live' = live \ {b}
           /\ UNCHANGED idx

\* Mutant: every block that comes back is taken off the end.
MutPop(b) == /\ ~freeDeque /\ Allocated(b)
             /\ idx' = idx - b.size
             /\ live' = live \ {b}
             /\ UNCHANGED store

\* The array takes back the last block only; others are lost to it.
Pop(b) == /\ ~freeDeque /\ Allocated(b)
          /\ idx' = IF b.start + b.size = idx THEN idx - b.size ELSE idx
          /\ live' = live \ {b}
          /\ UNCHANGED store

\* Mallocator says of every address that it has allocated it.
Free(b) == /\ ~Allocated(b)
           /\ live' = live \ {b}
           /\ UNCHANGED <<idx, store>>

Deallocate(b) == Keep(b) \/ Pop(b) \/ Free(b)

\* The client gives back what it holds, once and with its size.
Next == /\ UNCHANGED freeDeque
        /\ \/ \E s \in Requests : Allocate(s)
           \/ \E b \in live : Deallocate(b)

Spec == Init /\ [][Next]_vars
-----------------------------------------------------------------------------
\* Types; the array is never in use beyond its end (bllocator.hpp 160-169).
TypeOK == /\ freeDeque \in BOOLEAN
          /\ idx \in 0..Size
          /\ store \in Seq(Blocks)
          /\ live \subseteq Blocks

Apart(a, b) == \/ a.region # b.region
               \/ a.start + a.size <= b.start \/ b.start + b.size <= a.start

\* What the client holds and what is kept for it share no byte, whatever the
\* order in which blocks come back, and lie in the part of the array in use
\* (bllocator.hpp 123-140, 160-177).
NoSharedByte ==
    /\ \A b \in live : \A i \in DOMAIN store : Apart(b, store[i])
    /\ \A i, j \in DOMAIN store : i # j => Apart(store[i], store[j])
    /\ \A b \in live \cup ToSet(store) : b.region = "array" => b.start + b.size <= idx

\* Each block goes back where it comes from: free() gets no address of the
\* array, nor the array one of malloc() (bllocator.hpp 77-86, 183-185).
ReturnedToOwner == \A b \in live : Allocated(b) <=> b.region = "array"
=============================================================================
