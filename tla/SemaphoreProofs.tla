--------------------------- MODULE SemaphoreProofs ---------------------------
(***************************************************************************)
(* What Semaphore guarantees for every finite set of threads, every        *)
(* initial count and every MaxCount.                                       *)
(***************************************************************************)
EXTENDS Semaphore, FiniteSetTheorems, TLAPS

\* The inductive invariant.  PermitInHand needs the mutex coherence of TypeOK
\* (no other thread decrements between the test and the decrement).
IInv == TypeOK /\ PermitInHand /\ NoLostWakeup

USE SemaphoreAssumption

\* The labels are different strings; every step's effect on pc follows.
LEMMA InitIInv == Init => IInv
  <1> SUFFICES ASSUME Init PROVE IInv
    OBVIOUS
  <1>1. TypeOK
    BY DEF Init, TypeOK, HoldsPC
  <1>2. PermitInHand
    BY DEF Init, PermitInHand
  <1>3. NoLostWakeup
    BY DEF Init, NoLostWakeup
  <1> QED
    BY <1>1, <1>2, <1>3 DEF IInv

\* Each step of a thread keeps the types, the mutex and the wait set coherent.
LEMMA TypeStep == TypeOK /\ [Next]_vars => TypeOK'
  <1> SUFFICES ASSUME TypeOK, [Next]_vars PROVE TypeOK'
    OBVIOUS
  <1> USE DEF TypeOK, HoldsPC, NotifyPC, WaitPC, Goto, Acquire, Release
  <1>1. ASSUME NEW t \in Threads, CallNotify(t) PROVE TypeOK'
    BY <1>1 DEF CallNotify
  <1>2. ASSUME NEW t \in Threads, CallWait(t) PROVE TypeOK'
    BY <1>2 DEF CallWait
  <1>3. ASSUME NEW t \in Threads, NotifyLock(t) PROVE TypeOK'
    BY <1>3 DEF NotifyLock
  <1>4. ASSUME NEW t \in Threads, WaitLock(t) PROVE TypeOK'
    BY <1>4 DEF WaitLock
  <1>5. ASSUME NEW t \in Threads, NotifyInc(t) PROVE TypeOK'
    BY <1>5 DEF NotifyInc
  <1>6. ASSUME NEW t \in Threads, NotifyOne(t) PROVE TypeOK'
    BY <1>6 DEF NotifyOne, WakeOne
  <1>7. ASSUME NEW t \in Threads, NotifyUnlock(t) PROVE TypeOK'
    BY <1>7 DEF NotifyUnlock
  <1>8. ASSUME NEW t \in Threads, WaitPass(t) PROVE TypeOK'
    BY <1>8 DEF WaitPass
  <1>9. ASSUME NEW t \in Threads, WaitBlock(t) PROVE TypeOK'
    BY <1>9 DEF WaitBlock
  <1>10. ASSUME NEW t \in Threads, WaitDec(t) PROVE TypeOK'
    BY <1>10 DEF WaitDec
  <1>11. ASSUME NEW t \in Threads, WaitUnlock(t) PROVE TypeOK'
    BY <1>11 DEF WaitUnlock
  <1>12. ASSUME NEW t \in Threads, SpuriousWake(t) PROVE TypeOK'
    BY <1>12 DEF SpuriousWake
  <1>13. CASE UNCHANGED vars
    BY <1>13 DEF vars
  <1> QED
    BY <1>1, <1>2, <1>3, <1>4, <1>5, <1>6, <1>7, <1>8, <1>9, <1>10, <1>11,
       <1>12, <1>13 DEF Next, Lock, Run

\* TypeOK holds in every state: the mutex is held by the one thread that is
\* between a lock and an unlock of it, and by no other (semaphore.hpp 16-30).
THEOREM TypeCorrect == SafeSpec => []TypeOK
  <1>1. Init => TypeOK
    BY InitIInv DEF IInv
  <1> QED
    BY <1>1, TypeStep, PTL DEF SafeSpec

\* Between a thread's test of the count and its decrement nobody else lowers
\* the count, because that thread holds the mutex.
LEMMA PermitStep == TypeOK /\ PermitInHand /\ [Next]_vars => PermitInHand'
  <1> SUFFICES ASSUME TypeOK, PermitInHand, [Next]_vars PROVE PermitInHand'
    OBVIOUS
  <1> USE DEF TypeOK, PermitInHand, HoldsPC, Goto, Acquire, Release
  <1>1. ASSUME NEW t \in Threads, CallNotify(t) \/ CallWait(t) PROVE PermitInHand'
    BY <1>1 DEF CallNotify, CallWait
  <1>2. ASSUME NEW t \in Threads, Lock(t) PROVE PermitInHand'
    BY <1>2 DEF Lock, NotifyLock, WaitLock
  <1>3. ASSUME NEW t \in Threads, NotifyInc(t) PROVE PermitInHand'
    BY <1>3 DEF NotifyInc
  <1>4. ASSUME NEW t \in Threads, NotifyOne(t) PROVE PermitInHand'
    BY <1>4 DEF NotifyOne, WakeOne
  <1>5. ASSUME NEW t \in Threads, NotifyUnlock(t) \/ WaitUnlock(t) PROVE PermitInHand'
    BY <1>5 DEF NotifyUnlock, WaitUnlock
  <1>6. ASSUME NEW t \in Threads, WaitPass(t) \/ WaitBlock(t) PROVE PermitInHand'
    BY <1>6 DEF WaitPass, WaitBlock
  <1>7. ASSUME NEW t \in Threads, WaitDec(t) PROVE PermitInHand'
    BY <1>7 DEF WaitDec
  <1>8. ASSUME NEW t \in Threads, SpuriousWake(t) PROVE PermitInHand'
    BY <1>8 DEF SpuriousWake
  <1>9. CASE UNCHANGED vars
    BY <1>9 DEF vars
  <1> QED
    BY <1>1, <1>2, <1>3, <1>4, <1>5, <1>6, <1>7, <1>8, <1>9 DEF Next, Run

\* The sets NoLostWakeup counts are finite.
LEMMA CountedFinite ==
    /\ IsFiniteSet(Awake) /\ Cardinality(Awake) \in Nat
    /\ IsFiniteSet(Unsignalled) /\ Cardinality(Unsignalled) \in Nat
  <1>1. Awake \subseteq Threads /\ Unsignalled \subseteq Threads
    BY DEF Awake, Unsignalled
  <1>2. IsFiniteSet(Awake) /\ IsFiniteSet(Unsignalled)
    BY <1>1, FS_Subset
  <1> QED
    BY <1>2, FS_CardinalityType

\* A step that moves no thread into or out of the two sets counted, adds no
\* permit and blocks no thread keeps NoLostWakeup.
LEMMA SameCounted ==
    ASSUME NoLostWakeup, Awake' = Awake, Unsignalled' = Unsignalled,
           count' = count, cv' = cv
    PROVE  NoLostWakeup'
  BY DEF NoLostWakeup

\* Every permit added is announced, every thread woken is counted, and a
\* thread stops being counted only by taking a permit or finding none.
LEMMA WakeupStep == TypeOK /\ PermitInHand /\ NoLostWakeup /\ [Next]_vars => NoLostWakeup'
  <1> SUFFICES ASSUME TypeOK, PermitInHand, NoLostWakeup, [Next]_vars
               PROVE NoLostWakeup'
    OBVIOUS
  <1> USE CountedFinite DEF TypeOK, Goto
  <1>1. ASSUME NEW t \in Threads,
               CallNotify(t) \/ NotifyLock(t) \/ NotifyUnlock(t) \/ WaitLock(t)
               \/ WaitPass(t) \/ WaitUnlock(t)
        PROVE  NoLostWakeup'
    <2>1. Awake' = Awake /\ Unsignalled' = Unsignalled
      BY <1>1 DEF Awake, Unsignalled, CallNotify, NotifyLock, NotifyUnlock,
                  WaitLock, WaitPass, WaitUnlock
    <2>2. count' = count /\ cv' = cv
      BY <1>1 DEF CallNotify, NotifyLock, NotifyUnlock, WaitLock, WaitPass, WaitUnlock
    <2> QED
      BY <2>1, <2>2, SameCounted
  <1>2. ASSUME NEW t \in Threads, CallWait(t) \/ SpuriousWake(t)
        PROVE  NoLostWakeup'
    <2>1. Awake' = Awake \cup {t} /\ Unsignalled' = Unsignalled
      BY <1>2 DEF Awake, Unsignalled, CallWait, SpuriousWake
    <2>2. count' = count /\ cv' \subseteq cv
      BY <1>2 DEF CallWait, SpuriousWake
    <2>3. \/ Cardinality(Awake \cup {t}) = Cardinality(Awake)
          \/ Cardinality(Awake \cup {t}) = Cardinality(Awake) + 1
      BY FS_AddElement
    <2>4. Cardinality(Awake') >= Cardinality(Awake) /\ Cardinality(Awake') \in Nat
      BY <2>1, <2>3
    <2> QED
      BY <2>1, <2>2, <2>3, <2>4 DEF NoLostWakeup
  <1>3. ASSUME NEW t \in Threads, NotifyInc(t) PROVE NoLostWakeup'
    <2>1. Awake' = Awake /\ Unsignalled' = Unsignalled \cup {t} /\ t \notin Unsignalled
      BY <1>3 DEF Awake, Unsignalled, NotifyInc
    <2>2. Cardinality(Unsignalled') = Cardinality(Unsignalled) + 1
      BY <2>1, FS_AddElement
    <2> QED
      BY <1>3, <2>1, <2>2 DEF NoLostWakeup, NotifyInc
  <1>4. ASSUME NEW t \in Threads, NotifyOne(t) PROVE NoLostWakeup'
    <2>1. CASE cv = {} /\ UNCHANGED cv
      BY <2>1 DEF NoLostWakeup
    <2>2. CASE WakeOne(t)
      <3>1. PICK w \in cv : /\ cv' = cv \ {w}
                            /\ pc' = [pc EXCEPT ![t] = "notify_unlock", ![w] = "wait_lock"]
        BY <2>2 DEF WakeOne
      <3>2. pc[t] = "notify_cv" /\ w # t /\ count' = count
        BY <1>4, <3>1 DEF NotifyOne
      <3>3. /\ Awake' = Awake \cup {w} /\ w \notin Awake
            /\ Unsignalled' = Unsignalled \ {t} /\ t \in Unsignalled
        BY <3>1, <3>2 DEF Awake, Unsignalled
      <3>4. /\ Cardinality(Awake') = Cardinality(Awake) + 1
            /\ Cardinality(Unsignalled') = Cardinality(Unsignalled) - 1
        BY <3>3, FS_AddElement, FS_RemoveElement
      <3> QED
        BY <3>1, <3>2, <3>4 DEF NoLostWakeup
    <2> QED
      BY <1>4, <2>1, <2>2 DEF NotifyOne
  <1>5. ASSUME NEW t \in Threads, WaitBlock(t) PROVE NoLostWakeup'
    <2>1. count' \in Int /\ count' <= 0
      BY <1>5 DEF WaitBlock
    <2>2. Awake' \subseteq Threads /\ Unsignalled' \subseteq Threads
      BY DEF Awake, Unsignalled
    <2>3. Cardinality(Awake') \in Nat /\ Cardinality(Unsignalled') \in Nat
      BY <2>2, FS_Subset, FS_CardinalityType
    <2> QED
      BY <2>1, <2>3 DEF NoLostWakeup
  <1>6. ASSUME NEW t \in Threads, WaitDec(t) PROVE NoLostWakeup'
    <2>1. Awake' = Awake \ {t} /\ t \in Awake /\ Unsignalled' = Unsignalled
      BY <1>6 DEF Awake, Unsignalled, WaitDec
    <2>2. Cardinality(Awake') = Cardinality(Awake) - 1
      BY <2>1, FS_RemoveElement
    <2> QED
      BY <1>6, <2>1, <2>2 DEF NoLostWakeup, WaitDec
  <1>7. CASE UNCHANGED vars
    <2>1. Awake' = Awake /\ Unsignalled' = Unsignalled /\ count' = count /\ cv' = cv
      BY <1>7 DEF vars, Awake, Unsignalled
    <2> QED
      BY <2>1, SameCounted
  <1> QED
    BY <1>1, <1>2, <1>3, <1>4, <1>5, <1>6, <1>7 DEF Next, Lock, Run

\* The conjunction is an invariant: what each run of Semaphore checks on a
\* handful of threads holds for every finite set of them.
THEOREM SemaphoreInvariant == SafeSpec => []IInv
  <1>1. IInv /\ [Next]_vars => IInv'
    BY TypeStep, PermitStep, WakeupStep DEF IInv
  <1> QED
    BY InitIInv, <1>1, PTL DEF SafeSpec

\* No wake-up is lost: while a thread is blocked in wait(), the permits never
\* outnumber the threads that are awake and about to look at the count plus
\* the notifications about to wake one (semaphore.hpp 16-30).
THEOREM NoWakeupIsLost == SafeSpec => []NoLostWakeup
  <1>1. IInv => NoLostWakeup
    BY DEF IInv
  <1> QED
    BY SemaphoreInvariant, <1>1, PTL

\* wait() never decrements a count that another thread has emptied between
\* the wake-up and the lock (semaphore.hpp 25-29).
THEOREM PermitIsInHand == SafeSpec => []PermitInHand
  <1>1. IInv => PermitInHand
    BY DEF IInv
  <1> QED
    BY SemaphoreInvariant, <1>1, PTL

\* Every step of the code is a step of the abstract semaphore or invisible.
LEMMA StepRefines == IInv /\ [Next]_vars => [Abstract!AbsNext]_(Abstract!absVars)
  <1> SUFFICES ASSUME IInv, [Next]_vars
               PROVE  Abstract!AbsNext \/ UNCHANGED Abstract!absVars
    OBVIOUS
  <1> DEFINE req == [t \in Threads |-> RequestOf(pc[t])]
  <1> USE DEF IInv, TypeOK, Goto, RequestOf, Abstract!absVars
  <1>1. ASSUME NEW t \in Threads, CallNotify(t) \/ CallWait(t)
        PROVE  Abstract!AbsNext
    <2>1. pc[t] = "idle" /\ count' = count
      BY <1>1 DEF CallNotify, CallWait
    <2>2. \E r \in {"notify", "wait"} : req' = [req EXCEPT ![t] = r]
      BY <1>1 DEF CallNotify, CallWait
    <2> QED
      BY <2>1, <2>2 DEF Abstract!AbsNext, Abstract!Call
  <1>2. ASSUME NEW t \in Threads, NotifyInc(t) PROVE Abstract!AbsNext
    <2>1. req[t] = "notify" /\ req' = [req EXCEPT ![t] = "return"]
      BY <1>2 DEF NotifyInc
    <2> QED
      BY <1>2, <2>1 DEF NotifyInc, Abstract!AbsNext, Abstract!Post
  <1>3. ASSUME NEW t \in Threads, WaitDec(t) PROVE Abstract!AbsNext
    <2>1. req[t] = "wait" /\ req' = [req EXCEPT ![t] = "return"]
      BY <1>3 DEF WaitDec
    <2>2. count > 0
      BY <1>3 DEF WaitDec, PermitInHand
    <2> QED
      BY <1>3, <2>1, <2>2 DEF WaitDec, Abstract!AbsNext, Abstract!Take
  <1>4. ASSUME NEW t \in Threads, NotifyUnlock(t) \/ WaitUnlock(t)
        PROVE  Abstract!AbsNext
    <2>1. req[t] = "return" /\ req' = [req EXCEPT ![t] = "none"] /\ count' = count
      BY <1>4 DEF NotifyUnlock, WaitUnlock
    <2> QED
      BY <2>1 DEF Abstract!AbsNext, Abstract!Return
  <1>5. ASSUME NEW t \in Threads,
               NotifyLock(t) \/ WaitLock(t) \/ WaitPass(t) \/ WaitBlock(t) \/ SpuriousWake(t)
        PROVE  UNCHANGED Abstract!absVars
    BY <1>5 DEF NotifyLock, WaitLock, WaitPass, WaitBlock, SpuriousWake
  <1>6. ASSUME NEW t \in Threads, NotifyOne(t) PROVE UNCHANGED Abstract!absVars
    BY <1>6 DEF NotifyOne, WakeOne
  <1>7. CASE UNCHANGED vars
    BY <1>7 DEF vars
  <1> QED
    BY <1>1, <1>2, <1>3, <1>4, <1>5, <1>6, <1>7 DEF Next, Lock, Run

\* The mutex, the condition variable and the count implement the counting
\* semaphore, as far as safety goes (semaphore.hpp 7-31).
THEOREM Refinement == SafeSpec => Abstract!AbsSafeSpec
  <1>1. Init => Abstract!AbsInit
    BY DEF Init, Abstract!AbsInit, RequestOf
  <1> QED
    BY <1>1, StepRefines, SemaphoreInvariant, PTL DEF SafeSpec, Abstract!AbsSafeSpec
=============================================================================
