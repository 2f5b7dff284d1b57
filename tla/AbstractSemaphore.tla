-------------------------- MODULE AbstractSemaphore --------------------------
(***************************************************************************)
(* What sweet::Semaphore (src/semaphore.hpp) promises its callers: the     *)
(* classical counting semaphore.  A call of notify() takes effect at one   *)
(* instant between its call and its return and adds one permit; a call of  *)
(* wait() takes effect at one instant and removes one permit, which must   *)
(* be there.  No mutex, no condition variable and no wake-up is visible.   *)
(***************************************************************************)
EXTENDS Integers

CONSTANTS Threads,     \* the threads that use the semaphore
          InitCounts   \* the arguments the constructor may be given

VARIABLES permits,     \* the permits available
          request      \* request[t]: the call thread t is in, if any

absVars == <<permits, request>>

\* A thread is outside, in a notify() or wait() that has not taken effect,
\* or in a call that has taken effect and has only to return.
Requests == {"none", "notify", "wait", "return"}

AbsTypeOK == /\ permits \in Int
             /\ request \in [Threads -> Requests]

AbsInit == /\ permits \in InitCounts
           /\ request = [t \in Threads |-> "none"]

Call(t) == /\ request[t] = "none"
           /\ \E r \in {"notify", "wait"} :
                 request' = [request EXCEPT ![t] = r]
           /\ UNCHANGED permits

\* V: a notification adds a permit.
Post(t) == /\ request[t] = "notify"
           /\ permits' = permits + 1
           /\ request' = [request EXCEPT ![t] = "return"]

\* P: a wait removes a permit that is there.
Take(t) == /\ request[t] = "wait"
           /\ permits > 0
           /\ permits' = permits - 1
           /\ request' = [request EXCEPT ![t] = "return"]

Return(t) == /\ request[t] = "return"
             /\ request' = [request EXCEPT ![t] = "none"]
             /\ UNCHANGED permits

AbsNext == \E t \in Threads : Call(t) \/ Post(t) \/ Take(t) \/ Return(t)

\* Every notification takes effect and every finished call returns; and while
\* a permit is there and some thread waits for one, some waiting thread
\* (not any particular one) gets it.
AbsFairness == /\ \A t \in Threads : WF_absVars(Post(t)) /\ WF_absVars(Return(t))
               /\ WF_absVars(\E t \in Threads : Take(t))

AbsSafeSpec == AbsInit /\ [][AbsNext]_absVars
AbsSpec == AbsSafeSpec /\ AbsFairness
=============================================================================
