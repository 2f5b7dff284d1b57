---------------------------- MODULE Combinations ----------------------------
(***************************************************************************)
(* Combinations of combinations.hpp: hands out the ascending sequences of  *)
(* R of the numbers 0..N-1, one a call of next(), until completed.         *)
(* The loop that counts up writes one number more than there are: curr has *)
(* the position R, behind the vector's end, for it.                        *)
(***************************************************************************)
EXTENDS Integers, FiniteSets, FiniteSetsExt

CONSTANTS MaxN, MaxR   \* sets and combinations of at most this size

VARIABLES N, R, curr, completed, generated,
          last,        \* the combination handed out last, or <<>>
          handed       \* all that have been handed out

vars == <<N, R, curr, completed, generated, last, handed>>

Init == /\ N \in 0..MaxN /\ R \in 0..MaxR
        /\ curr = [i \in 0..R |-> i]
        /\ completed = (N < 1 \/ R > N)
        /\ generated = 0 /\ last = <<>> /\ handed = {}

combination == [i \in 1..R |-> curr[i - 1]]

\* The positions whose number may still grow (from the last one down, 36-37).
Growing == {i \in 0..(R - 1) : curr[i] < N - R + i}

\* Mutant: the numbers are one too low.
MutCountUp(i) == [j \in 0..R |-> IF j < i THEN curr[j] ELSE curr[i] + (j - i)]

\* The number at i grows by one, those behind follow it.
CountUp(i) == [j \in 0..R |-> IF j < i THEN curr[j] ELSE curr[i] + 1 + (j - i)]

\* Mutant: the first that can grow does.
MutNext == /\ ~completed
           /\ last' = combination
           /\ handed' = handed \cup {combination}
           /\ \/ /\ Growing = {} /\ completed' = TRUE
                 /\ UNCHANGED <<curr, generated>>
              \/ /\ Growing # {} /\ curr' = CountUp(Min(Growing))
                 /\ generated' = generated + 1
                 /\ UNCHANGED completed
           /\ UNCHANGED <<N, R>>

\* next(), which the caller calls while ~completed.
Next == /\ ~completed
        /\ last' = combination
        /\ handed' = handed \cup {combination}
        /\ \/ /\ Growing = {} /\ completed' = TRUE
              /\ UNCHANGED <<curr, generated>>
           \/ /\ Growing # {} /\ curr' = CountUp(Max(Growing))
              /\ generated' = generated + 1
              /\ UNCHANGED completed
        /\ UNCHANGED <<N, R>>

Spec == Init /\ [][Next]_vars
-----------------------------------------------------------------------------
TypeOK == /\ N \in 0..MaxN /\ R \in 0..MaxR
          /\ curr \in [0..R -> 0..N] \/ R > N
          /\ completed \in BOOLEAN /\ generated \in Nat

Ascending == {c \in [1..R -> 0..(N - 1)] : \A i, j \in 1..R : i < j => c[i] < c[j]}

\* When the generator is completed every combination has been handed out, and
\* nothing else (combinations.hpp 31-49).
AllAreHandedOut == completed => handed = IF N < 1 \/ R > N THEN {} ELSE Ascending

\* Each is handed out once: it comes after the one before it in the order of
\* the first numbers that differ (combinations.hpp 31-49; combinationstest/
\* combitest.cpp 22-23).
Before(c, d) == \E i \in 1..R : c[i] < d[i] /\ \A j \in 1..(i - 1) : c[j] = d[j]
ComesLater == handed # {} => Before(last, last')
=============================================================================
