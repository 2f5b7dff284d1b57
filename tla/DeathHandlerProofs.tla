-------------------------- MODULE DeathHandlerProofs --------------------------
(***************************************************************************)
(* What DeathHandler guarantees for any number of threads that crash.      *)
(***************************************************************************)
EXTENDS DeathHandler, TLAPS

\* Somebody is done printing, or there was nobody to print.
Given == Finished # {} \/ \E t \in Threads : child[t] = "no_child"

\* A handler that has got past the stop or the wait in a running process
\* has done so because a child was done.
PastTheChild ==
    proc # "stopped" /\ (\E t \in Threads : hpc[t] \in {"reap", "terminate"}) => Given

IInv == TypeOK /\ PastTheChild /\ TraceBeforeExit

LEMMA TypeInit == Init => TypeOK
  BY DEF Init, TypeOK

LEMMA TypeStep == TypeOK /\ [Next]_vars => TypeOK'
  <1> SUFFICES ASSUME TypeOK, [Next]_vars PROVE TypeOK'
    OBVIOUS
  <1> USE DEF TypeOK, Goto, Becomes, OwnBecomes, Continue, AfterFork
  <1>1. ASSUME NEW t \in Threads, Crash(t) PROVE TypeOK'
    BY <1>1 DEF Crash
  <1>2. ASSUME NEW t \in Threads, Fork(t) \/ ForkFails(t) PROVE TypeOK'
    BY <1>2 DEF Fork, ForkFails
  <1>3. ASSUME NEW t \in Threads, Stop(t) PROVE TypeOK'
    BY <1>3 DEF Stop
  <1>4. ASSUME NEW t \in Threads, Reap(t) PROVE TypeOK'
    BY <1>4 DEF Reap
  <1>5. ASSUME NEW t \in Threads, Wait(t) PROVE TypeOK'
    BY <1>5 DEF Wait
  <1>6. ASSUME NEW t \in Threads, Terminate(t) PROVE TypeOK'
    BY <1>6 DEF Terminate
  <1>7. ASSUME NEW t \in Threads, PrintTrace(t) PROVE TypeOK'
    BY <1>7 DEF PrintTrace
  <1>8. ASSUME NEW t \in Threads, SafeAbort(t) \/ ChildCrashes(t) PROVE TypeOK'
    BY <1>8 DEF SafeAbort, ChildCrashes
  <1>9. ASSUME NEW t \in Threads, ContinueParent(t) PROVE TypeOK'
    BY <1>9 DEF ContinueParent
  <1>10. ASSUME NEW t \in Threads, Exit(t) \/ InitReaps(t) PROVE TypeOK'
    BY <1>10 DEF Exit, InitReaps
  <1>11. ASSUME NEW p \in Own, OwnEnds(p) \/ OwnReaped(p) PROVE TypeOK'
    BY <1>11 DEF OwnEnds, OwnReaped
  <1>12. CASE UNCHANGED vars
    BY <1>12 DEF vars
  <1> QED
    BY <1>1, <1>2, <1>3, <1>4, <1>5, <1>6, <1>7, <1>8, <1>9, <1>10, <1>11, <1>12
       DEF Next, Handler, Child

\* Every handler is on the branch its option gives it, with a child or the
\* knowledge that there is none, however many threads crash and whatever fails
\* (death.hpp 397-431).
THEOREM TypeCorrect == SafeSpec => []TypeOK
  BY TypeInit, TypeStep, PTL DEF SafeSpec

\* A child that is done stays done, and a fork that failed stays failed.
LEMMA GivenStays == TypeOK /\ Given /\ [Next]_vars => Given'
  <1> SUFFICES ASSUME TypeOK, Given, [Next]_vars PROVE Given'
    OBVIOUS
  <1> USE DEF TypeOK, Given, Finished, Goto, Becomes, Continue
  <1>1. ASSUME NEW t \in Threads, Crash(t) \/ Stop(t) \/ Terminate(t) PROVE Given'
    BY <1>1 DEF Crash, Stop, Terminate
  <1>2. ASSUME NEW t \in Threads, Fork(t) \/ ForkFails(t) PROVE Given'
    BY <1>2 DEF Fork, ForkFails
  <1>3. ASSUME NEW t \in Threads, Reap(t) PROVE Given'
    BY <1>3 DEF Reap
  <1>4. ASSUME NEW t \in Threads, Wait(t) PROVE Given'
    BY <1>4 DEF Wait
  <1>5. ASSUME NEW t \in Threads, Child(t) \/ InitReaps(t) PROVE Given'
    BY <1>5 DEF Child, PrintTrace, SafeAbort, ChildCrashes, ContinueParent, Exit, InitReaps
  <1>6. ASSUME NEW p \in Own, OwnEnds(p) \/ OwnReaped(p) PROVE Given'
    BY <1>6 DEF OwnEnds, OwnReaped
  <1>7. CASE UNCHANGED vars
    BY <1>7 DEF vars
  <1> QED
    BY <1>1, <1>2, <1>3, <1>4, <1>5, <1>6, <1>7 DEF Next, Handler

\* The steps that let a handler pass need a child that is done.
LEMMA PastStep == TypeOK /\ PastTheChild /\ [Next]_vars => PastTheChild'
  <1> SUFFICES ASSUME TypeOK, PastTheChild, ~Given, [Next]_vars
               PROVE  PastTheChild' \/ Given'
    BY GivenStays DEF PastTheChild
  <1> USE DEF TypeOK, PastTheChild, Goto, Becomes
  <1>1. ASSUME NEW t \in Threads, Crash(t) \/ Terminate(t) PROVE PastTheChild'
    BY <1>1 DEF Crash, Terminate
  <1>2. ASSUME NEW t \in Threads, Fork(t) \/ ForkFails(t) PROVE PastTheChild'
    BY <1>2 DEF Fork, ForkFails, AfterFork
  <1>3. ASSUME NEW t \in Threads, Stop(t) PROVE PastTheChild'
    BY <1>3 DEF Stop
  <1>4. ASSUME NEW t \in Threads, Reap(t) PROVE FALSE
    BY <1>4 DEF Reap
  <1>5. ASSUME NEW t \in Threads, Wait(t) PROVE Given'
    <2>1. CASE \E u \in Threads : child[u] = "zombie" /\ Becomes(u, "reaped")
      BY <2>1 DEF Given, Finished
    <2>2. CASE child[t] \in {"none", "no_child", "reaped"} /\ UNCHANGED child
      BY <1>5, <2>2 DEF Wait, Given, Finished
    <2>3. CASE child[t] = "no_child" /\ UNCHANGED child
      BY <2>3 DEF Given
    <2> QED
      BY <1>5, <2>1, <2>2, <2>3 DEF Wait
  <1>6. ASSUME NEW t \in Threads, PrintTrace(t) \/ ChildCrashes(t) \/ SafeAbort(t) PROVE Given'
    BY <1>6 DEF PrintTrace, ChildCrashes, SafeAbort, Given, Finished
  <1>7. ASSUME NEW t \in Threads, ContinueParent(t) \/ Exit(t) \/ InitReaps(t) PROVE FALSE
    BY <1>7 DEF ContinueParent, Exit, InitReaps, Given, Finished
  <1>8. ASSUME NEW p \in Own, OwnEnds(p) \/ OwnReaped(p) PROVE PastTheChild'
    BY <1>8, GivenStays DEF OwnEnds, OwnReaped
  <1>9. CASE UNCHANGED vars
    BY <1>9 DEF vars
  <1> QED
    BY <1>1, <1>2, <1>3, <1>4, <1>5, <1>6, <1>7, <1>8, <1>9 DEF Next, Handler, Child

LEMMA ExitStep ==
    TypeOK /\ PastTheChild /\ TraceBeforeExit /\ [Next]_vars => TraceBeforeExit'
  <1> SUFFICES ASSUME TypeOK, PastTheChild, TraceBeforeExit, [Next]_vars, proc' = "gone"
               PROVE  Given'
    BY DEF TraceBeforeExit, Given
  <1>1. CASE proc = "gone"
    BY <1>1, GivenStays DEF TraceBeforeExit, Given
  <1>2. CASE proc # "gone"
    <2>1. PICK t \in Threads : Terminate(t)
      BY <1>2 DEF TypeOK, Next, Handler, Child, Continue, Crash, Fork, ForkFails, Stop,
                  Reap, Wait, PrintTrace, SafeAbort, ChildCrashes, ContinueParent, Exit,
                  InitReaps, OwnEnds, OwnReaped, vars
    <2>2. proc = "running" /\ hpc[t] = "terminate"
      BY <2>1 DEF Terminate
    <2>3. Given
      BY <2>2 DEF PastTheChild
    <2> QED
      BY <2>3, GivenStays
  <1> QED
    BY <1>1, <1>2

\* However many threads crash, the process does not go away before a stack
\* trace is finished or given up, or fork() has failed (death.hpp 397-431).
THEOREM TracePrecedesExit == SafeSpec => []TraceBeforeExit
  <1>1. Init => IInv
    BY TypeInit DEF Init, IInv, PastTheChild, TraceBeforeExit
  <1>2. IInv /\ [Next]_vars => IInv'
    BY TypeStep, PastStep, ExitStep DEF IInv
  <1>3. IInv => TraceBeforeExit
    BY DEF IInv
  <1> QED
    BY <1>1, <1>2, <1>3, PTL DEF SafeSpec
=============================================================================
