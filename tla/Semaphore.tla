------------------------------ MODULE Semaphore ------------------------------
(***************************************************************************)
(* sweet::Semaphore (src/semaphore.hpp): a counting semaphore made of a    *)
(* mutex, a condition variable and a count.  Any number of threads call    *)
(* notify() and wait() on one object, in any order and for ever.           *)
(***************************************************************************)
EXTENDS Integers, FiniteSets

CONSTANTS Threads,     \* the threads that use the semaphore
          InitCounts,  \* the arguments the constructor may be given
          MaxCount,    \* no notify() is called that could take count past this
          NoThread     \* what mtx holds when the mutex is free

ASSUME SemaphoreAssumption ==
    /\ IsFiniteSet(Threads)
    /\ InitCounts \subseteq Int
    /\ MaxCount \in Int
    /\ NoThread \notin Threads

VARIABLES mtx,    \* the thread that holds the mutex, or NoThread
          cv,     \* the threads blocked in the condition variable
          count,  \* int count
          pc      \* pc[t]: where thread t is

vars == <<mtx, cv, count, pc>>

NotifyPC == {"notify_lock", "notify_inc", "notify_cv", "notify_unlock"}
WaitPC == {"wait_lock", "wait_test", "wait_dec", "wait_blocked", "wait_unlock"}

\* The program points at which the thread holds the mutex.
HoldsPC == {"notify_inc", "notify_cv", "notify_unlock",
            "wait_test", "wait_dec", "wait_unlock"}

Init == /\ mtx = NoThread
        /\ cv = {}
        /\ count \in InitCounts
        /\ pc = [t \in Threads |-> "idle"]

Goto(t, label) == pc' = [pc EXCEPT ![t] = label]

\* std::unique_lock's constructor, and its destructor at the end of the block.
Acquire(t) == mtx = NoThread /\ mtx' = t
Release == mtx' = NoThread
-----------------------------------------------------------------------------
(***************************************************************************)
(* notify()                                                                *)
(***************************************************************************)
\* The notifications that have been called and not yet counted.
Notifying == {t \in Threads : pc[t] \in {"notify_lock", "notify_inc"}}

CallNotify(t) == /\ pc[t] = "idle"
                 /\ count + Cardinality(Notifying) < MaxCount
                 /\ Goto(t, "notify_lock")
                 /\ UNCHANGED <<mtx, cv, count>>

NotifyLock(t) == /\ pc[t] = "notify_lock"
                 /\ Acquire(t)
                 /\ Goto(t, "notify_inc")
                 /\ UNCHANGED <<cv, count>>

NotifyInc(t) == /\ pc[t] = "notify_inc"
                /\ count' = count + 1
                /\ Goto(t, "notify_cv")
                /\ UNCHANGED <<mtx, cv>>

\* A woken thread has left the condition variable and wants the mutex back.
WakeOne(t) == \E w \in cv :
                 /\ cv' = cv \ {w}
                 /\ pc' = [pc EXCEPT ![t] = "notify_unlock", ![w] = "wait_lock"]

\* Mutant: the notification is left out.
MutNotifyOne(t) == /\ pc[t] = "notify_cv"
                   /\ Goto(t, "notify_unlock")
                   /\ UNCHANGED <<mtx, count, cv>>

\* cv.notify_one(): which of the blocked threads is woken is not specified.
NotifyOne(t) == /\ pc[t] = "notify_cv"
                /\ \/ WakeOne(t)
                   \/ cv = {} /\ Goto(t, "notify_unlock") /\ UNCHANGED cv
                /\ UNCHANGED <<mtx, count>>

NotifyUnlock(t) == /\ pc[t] = "notify_unlock"
                   /\ Release
                   /\ Goto(t, "idle")
                   /\ UNCHANGED <<cv, count>>
-----------------------------------------------------------------------------
(***************************************************************************)
(* wait()                                                                  *)
(***************************************************************************)
CallWait(t) == /\ pc[t] = "idle"
               /\ Goto(t, "wait_lock")
               /\ UNCHANGED <<mtx, cv, count>>

\* The first lock, and the lock after a wake-up: in both cases the predicate
\* is tested next.
WaitLock(t) == /\ pc[t] = "wait_lock"
               /\ Acquire(t)
               /\ Goto(t, "wait_test")
               /\ UNCHANGED <<cv, count>>

\* Mutant: the predicate is off by one.
MutWaitPass(t) == /\ pc[t] = "wait_test"
                  /\ count >= 0
                  /\ Goto(t, "wait_dec")
                  /\ UNCHANGED <<mtx, cv, count>>

WaitPass(t) == /\ pc[t] = "wait_test"
               /\ count > 0
               /\ Goto(t, "wait_dec")
               /\ UNCHANGED <<mtx, cv, count>>

\* Mutant: the mutex is released before the thread is in the wait set, which
\* it joins only when a later notification happens to find it.
MutWaitBlock(t) == /\ pc[t] = "wait_test"
                   /\ count <= 0
                   /\ Release
                   /\ Goto(t, "wait_blocked")
                   /\ UNCHANGED <<cv, count>>

\* The predicate is false: release the mutex and block, in one step.
WaitBlock(t) == /\ pc[t] = "wait_test"
                /\ count <= 0
                /\ Release
                /\ cv' = cv \cup {t}
                /\ Goto(t, "wait_blocked")
                /\ UNCHANGED count

\* Mutant: if instead of while, so a spurious wake-up skips the test.
MutSpuriousWake(t) == /\ t \in cv
                      /\ mtx = NoThread
                      /\ mtx' = t
                      /\ cv' = cv \ {t}
                      /\ Goto(t, "wait_dec")
                      /\ UNCHANGED count

\* The standard lets a blocked thread wake without a notification.
SpuriousWake(t) == /\ t \in cv
                   /\ cv' = cv \ {t}
                   /\ Goto(t, "wait_lock")
                   /\ UNCHANGED <<mtx, count>>

WaitDec(t) == /\ pc[t] = "wait_dec"
              /\ count' = count - 1
              /\ Goto(t, "wait_unlock")
              /\ UNCHANGED <<mtx, cv>>

WaitUnlock(t) == /\ pc[t] = "wait_unlock"
                 /\ Release
                 /\ Goto(t, "idle")
                 /\ UNCHANGED <<cv, count>>
-----------------------------------------------------------------------------
\* The steps a thread takes by itself once it is running and holds the mutex.
Run(t) == \/ NotifyInc(t) \/ NotifyOne(t) \/ NotifyUnlock(t)
          \/ WaitPass(t) \/ WaitBlock(t) \/ WaitDec(t) \/ WaitUnlock(t)

Lock(t) == NotifyLock(t) \/ WaitLock(t)

Next == \E t \in Threads :
           CallNotify(t) \/ CallWait(t) \/ Lock(t) \/ Run(t) \/ SpuriousWake(t)

\* A running thread keeps running, and a thread that competes for the mutex
\* for ever gets it in the end.  No thread has to make a call, and no spurious
\* wake-up has to happen.
Fairness == \A t \in Threads : WF_vars(Run(t)) /\ SF_vars(Lock(t))

SafeSpec == Init /\ [][Next]_vars
Spec == SafeSpec /\ Fairness
-----------------------------------------------------------------------------
(***************************************************************************)
(* Properties                                                              *)
(***************************************************************************)
\* Types, and what ties the variables together: the mutex is held by exactly
\* the thread that is between its lock and unlock, and the wait set is exactly
\* the threads that block (semaphore.hpp 16-30).
TypeOK == /\ mtx \in Threads \cup {NoThread}
          /\ count \in Int
          /\ pc \in [Threads -> {"idle"} \cup NotifyPC \cup WaitPC]
          /\ \A t \in Threads : pc[t] \in HoldsPC <=> mtx = t
          /\ cv = {t \in Threads : pc[t] = "wait_blocked"}

\* The threads that will test the predicate again without being notified.
Awake == {t \in Threads : pc[t] \in {"wait_lock", "wait_test", "wait_dec"}}

\* The notifications that are counted and have not yet woken a thread.
Unsignalled == {t \in Threads : pc[t] = "notify_cv"}

\* No wake-up is lost (semaphore.hpp 16-30): while a thread is blocked, every
\* permit is accounted for by a thread that is awake and will look at the
\* count, or by a notification that is about to wake one.
NoLostWakeup == cv # {} => count <= Cardinality(Awake) + Cardinality(Unsignalled)

\* The decrement is guarded by the predicate, though other threads may have
\* taken the permit between the wake-up and the lock (semaphore.hpp 25-29):
\* a thread about to decrement finds a permit.
PermitInHand == \A t \in Threads : pc[t] = "wait_dec" => count > 0

\* The calls as the abstract semaphore sees them: notify() takes effect at
\* the increment, wait() at the decrement.
RequestOf(label) ==
    CASE label \in {"notify_lock", "notify_inc"} -> "notify"
      [] label \in {"wait_lock", "wait_test", "wait_dec", "wait_blocked"} -> "wait"
      [] label \in {"notify_cv", "notify_unlock", "wait_unlock"} -> "return"
      [] OTHER -> "none"

Abstract == INSTANCE AbstractSemaphore
                WITH permits <- count,
                     request <- [t \in Threads |-> RequestOf(pc[t])]

\* The class implements the counting semaphore, progress included
\* (semaphore.hpp 7-31).
ImplementsSemaphore == Abstract!AbsSpec
=============================================================================
