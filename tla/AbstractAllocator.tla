-------------------------- MODULE AbstractAllocator --------------------------
(***************************************************************************)
(* What an allocator promises: the blocks its client holds do not overlap. *)
(* A block is a region of memory, and start and size within it.            *)
(***************************************************************************)
EXTENDS Naturals

CONSTANT Blocks

VARIABLE live   \* the blocks the client holds

Apart(a, b) == \/ a.region # b.region
               \/ a.start + a.size <= b.start
               \/ b.start + b.size <= a.start

Init == live = {}

Allocate == \E b \in Blocks \ live : /\ \A a \in live : Apart(a, b)
                                     /\ live' = live \cup {b}

Deallocate == \E b \in live : live' = live \ {b}

Spec == Init /\ [][Allocate \/ Deallocate]_live
=============================================================================
