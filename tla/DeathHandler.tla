---------------------------- MODULE DeathHandler ----------------------------
(***************************************************************************)
(* Debug::DeathHandler (src/death.hpp): the handler of SIGSEGV and SIGABRT *)
(* forks.  The child prints the stack trace of the crashed thread; the     *)
(* parent stops itself until the child lets it continue (thread_safe), or  *)
(* waits for the child (not thread_safe), and then terminates.  Several    *)
(* threads may crash, each with a handler and a child of its own, and the  *)
(* program may have other children, which waitpid(-1) does not tell from   *)
(* them.                                                                   *)
(*                                                                         *)
(* SIGSTOP stops and SIGCONT resumes all threads of the process at once; a *)
(* SIGCONT that finds the process running has no effect and is not kept.   *)
(***************************************************************************)
EXTENDS FiniteSets

CONSTANTS Threads,   \* the threads of the program that may crash
          Own        \* the children it has forked itself

VARIABLES proc,         \* the original process: "running", "stopped" or "gone"
          hpc,          \* hpc[t]: where thread t is in the handler
          child,        \* child[t]: the process forked by thread t
          own,          \* own[p]: the child p of the program itself
          thread_safe,  \* the option, set before any crash
          faults        \* what may fail: "fork", or "child" when a signal kills it

vars == <<proc, hpc, child, own, thread_safe, faults>>

Init == /\ proc = "running"
        /\ hpc = [t \in Threads |-> "normal"]
        /\ child = [t \in Threads |-> "none"]
        /\ own \in [Own -> {"running", "reaped"}]
        /\ thread_safe \in BOOLEAN
        /\ faults \in SUBSET {"fork", "child"}

Goto(t, label) == hpc' = [hpc EXCEPT ![t] = label]
Becomes(t, state) == child' = [child EXCEPT ![t] = state]
OwnBecomes(p, state) == own' = [own EXCEPT ![p] = state]

\* kill(getppid(), SIGCONT)
Continue == proc' = IF proc = "stopped" THEN "running" ELSE proc
-----------------------------------------------------------------------------
(***************************************************************************)
(* The handler in the original process                                     *)
(***************************************************************************)
Crash(t) == /\ proc = "running" /\ hpc[t] = "normal"
            /\ Goto(t, "fork")
            /\ UNCHANGED <<proc, child, own, thread_safe, faults>>

AfterFork == IF thread_safe THEN "stop" ELSE "wait"

\* Mutant: the branch of the parent without the fork.
MutFork(t) == /\ proc = "running" /\ hpc[t] = "fork"
              /\ Goto(t, AfterFork)
              /\ UNCHANGED <<proc, child, own, thread_safe, faults>>

Fork(t) == /\ proc = "running" /\ hpc[t] = "fork"
           /\ Becomes(t, "print")
           /\ Goto(t, AfterFork)
           /\ UNCHANGED <<proc, own, thread_safe, faults>>

\* -1 is not 0 either: the handler goes on as if it had a child.
ForkFails(t) == /\ "fork" \in faults
                /\ proc = "running" /\ hpc[t] = "fork"
                /\ Becomes(t, "no_child")
                /\ Goto(t, AfterFork)
                /\ UNCHANGED <<proc, own, thread_safe, faults>>

\* Mutant: the process does not stop.
MutStop(t) == /\ proc = "running" /\ hpc[t] = "stop"
              /\ Goto(t, "reap")
              /\ UNCHANGED <<proc, child, own, thread_safe, faults>>

\* kill(getpid(), SIGSTOP)
Stop(t) == /\ proc = "running" /\ hpc[t] = "stop"
           /\ proc' = "stopped"
           /\ Goto(t, "reap")
           /\ UNCHANGED <<child, own, thread_safe, faults>>

\* waitpid(forkedPid, &status, WNOHANG)
Reap(t) == /\ proc = "running" /\ hpc[t] = "reap"
           /\ IF child[t] = "zombie" THEN Becomes(t, "reaped") ELSE UNCHANGED child
           /\ Goto(t, "terminate")
           /\ UNCHANGED <<proc, own, thread_safe, faults>>

\* Mutant: the call waits for its own child only and does not return when
\* there is none.
MutWaitForOwn(t) == /\ proc = "running" /\ hpc[t] = "wait"
                    /\ child[t] = "zombie" /\ Becomes(t, "reaped")
                    /\ Goto(t, "terminate")
                    /\ UNCHANGED <<proc, own, thread_safe, faults>>

\* waitpid(forkedPid, &status, 0).  With forkedPid = -1 any child will do, the
\* program's own as well; without one the call returns at once, as it does when
\* another thread's call has collected the child.
Wait(t) ==
    LET any == child[t] = "no_child"
        mine == IF any THEN Threads ELSE {t}
    IN  /\ proc = "running" /\ hpc[t] = "wait"
        /\ \/ (\E u \in mine : child[u] = "zombie" /\ Becomes(u, "reaped")) /\ UNCHANGED own
           \/ any /\ (\E p \in Own : own[p] = "zombie" /\ OwnBecomes(p, "reaped")) /\ UNCHANGED child
           \/ /\ \A u \in mine : child[u] \in {"none", "no_child", "reaped"}
              /\ any => \A p \in Own : own[p] = "reaped"
              /\ UNCHANGED <<child, own>>
        /\ Goto(t, "terminate")
        /\ UNCHANGED <<proc, thread_safe, faults>>

\* quick_exit(), abort(), exit() or _Exit(), by the options: each ends the
\* process with all its threads.
Terminate(t) == /\ proc = "running" /\ hpc[t] = "terminate"
                /\ proc' = "gone"
                /\ UNCHANGED <<hpc, child, own, thread_safe, faults>>
-----------------------------------------------------------------------------
(***************************************************************************)
(* The child forked by thread t                                            *)
(***************************************************************************)
\* All of the trace is printed.
PrintTrace(t) == /\ child[t] = "print"
                 /\ Becomes(t, IF thread_safe THEN "continue" ELSE "exit")
                 /\ UNCHANGED <<proc, hpc, own, thread_safe, faults>>

\* Mutant: safe_abort() without the SIGCONT.
MutSafeAbort(t) == /\ child[t] = "print"
                   /\ Becomes(t, "zombie")
                   /\ UNCHANGED <<proc, hpc, own, thread_safe, faults>>

\* safe_abort(), where a step of printing fails: no backtrace, no path of the
\* program, no working directory, no pipe, no answer of addr2line.
SafeAbort(t) == /\ child[t] = "print"
                /\ Continue
                /\ Becomes(t, "zombie")
                /\ UNCHANGED <<hpc, own, thread_safe, faults>>

\* A signal kills the child while it prints: SIGSEGV is blocked in its own
\* handler, so the child dies of it without another stack trace.
ChildCrashes(t) == /\ "child" \in faults
                   /\ child[t] = "print"
                   /\ Becomes(t, "zombie")
                   /\ UNCHANGED <<proc, hpc, own, thread_safe, faults>>

ContinueParent(t) == /\ child[t] = "continue"
                     /\ Continue
                     /\ Becomes(t, "exit")
                     /\ UNCHANGED <<hpc, own, thread_safe, faults>>

Exit(t) == /\ child[t] = "exit"
           /\ Becomes(t, "zombie")
           /\ UNCHANGED <<proc, hpc, own, thread_safe, faults>>

\* The children of a process that is gone are collected by init.
InitReaps(t) == /\ proc = "gone" /\ child[t] = "zombie"
                /\ Becomes(t, "reaped")
                /\ UNCHANGED <<proc, hpc, own, thread_safe, faults>>
-----------------------------------------------------------------------------
(***************************************************************************)
(* The program's own children                                              *)
(***************************************************************************)
OwnEnds(p) == /\ own[p] = "running"
              /\ OwnBecomes(p, "zombie")
              /\ UNCHANGED <<proc, hpc, child, thread_safe, faults>>

\* The program waits for it.
OwnReaped(p) == /\ proc = "running" /\ own[p] = "zombie"
                /\ OwnBecomes(p, "reaped")
                /\ UNCHANGED <<proc, hpc, child, thread_safe, faults>>
-----------------------------------------------------------------------------
Handler(t) == Fork(t) \/ ForkFails(t) \/ Stop(t) \/ Reap(t) \/ Wait(t) \/ Terminate(t)
Child(t) == PrintTrace(t) \/ SafeAbort(t) \/ ChildCrashes(t) \/ ContinueParent(t) \/ Exit(t)
Next == \/ \E t \in Threads : Crash(t) \/ Handler(t) \/ Child(t) \/ InitReaps(t)
        \/ \E p \in Own : OwnEnds(p) \/ OwnReaped(p)

\* The kernel runs every thread and process that is not stopped; no thread has
\* to crash, and no child of the program has to end.
Fairness == \A t \in Threads : WF_vars(Handler(t)) /\ WF_vars(Child(t))

SafeSpec == Init /\ [][Next]_vars
Spec == SafeSpec /\ Fairness
-----------------------------------------------------------------------------
(***************************************************************************)
(* Properties                                                              *)
(***************************************************************************)
\* Types, and which handler takes which branch with which child (death.hpp
\* 399-412).
TypeOK == /\ proc \in {"running", "stopped", "gone"}
          /\ hpc \in [Threads -> {"normal", "fork", "stop", "reap", "wait", "terminate"}]
          /\ child \in [Threads -> {"none", "no_child", "print", "continue", "exit",
                                    "zombie", "reaped"}]
          /\ own \in [Own -> {"running", "zombie", "reaped"}]
          /\ thread_safe \in BOOLEAN
          /\ \A t \in Threads :
                /\ child[t] = "none" <=> hpc[t] \in {"normal", "fork"}
                /\ hpc[t] \in {"stop", "reap"} => thread_safe
                /\ hpc[t] = "wait" => ~thread_safe

\* The children that have nothing more to print.
Finished == {t \in Threads : child[t] \in {"continue", "exit", "zombie", "reaped"}}

\* The process does not go away before a stack trace is finished or given up
\* (death.hpp 401-412), unless there was no process to print one: in
\* particular a process that froze is resumed by a child that is done, not by
\* one that is printing, however many threads crash at once.
TraceBeforeExit ==
    proc = "gone" => Finished # {} \/ \E t \in Threads : child[t] = "no_child"

\* A frozen process whose child still prints is resumed, also if printing
\* fails or another thread's fork does, as long as no signal kills a child
\* (death.hpp 93-100, 403-404, 639-642).
PrintingResumes ==
    LET Frozen == /\ proc = "stopped" /\ "child" \notin faults
                  /\ \E t \in Threads : child[t] \in {"print", "continue"}
    IN  Frozen ~> proc # "stopped"

\* Without thread_safe a crash ends the process (death.hpp 408-412), also when
\* fork() fails or the child is killed; only a handler whose fork failed may wait
\* for a child of the program's own that does not end.
WaitingEnds ==
    LET WaitsForOwn == \E t \in Threads : /\ hpc[t] = "wait" /\ child[t] = "no_child"
                                          /\ \E p \in Own : own[p] = "running"
    IN  ~thread_safe /\ (\E t \in Threads : hpc[t] = "fork") ~> (proc = "gone" \/ []WaitsForOwn)

\* "Freeze the original process, until it's child prints the stack trace"
\* (death.hpp 403): a frozen process does not stay frozen, even if
\* fork() works and no signal kills a child.
FreezeEnds == proc = "stopped" /\ faults = {} ~> proc # "stopped"
=============================================================================
