----------------------------- MODULE LoggerDrain -----------------------------
(***************************************************************************)
(* The asynchronous logger of src/log.hpp.  Producers build a LoggerSource *)
(* per message; its destructor hands the payload to the drain's deque.     *)
(* One writer thread takes payloads off the deque and writes them.  The    *)
(* owner (main) configures the drain, may end it, and destroys it.         *)
(*                                                                         *)
(* consumerSem is the counting semaphore that module Semaphore is shown to *)
(* implement: a notification adds a permit and a wait takes one, each in   *)
(* one step.                                                               *)
(***************************************************************************)
EXTENDS Integers, Sequences

CONSTANTS Producers,      \* the threads that log
          MaxLog,         \* MaxLog[p]: how many messages p logs
          Levels,         \* the log levels, of messages and of the drain
          Streams,        \* the streams the owner may hand to setOutput()
          Cerr,           \* the stream the drain starts with, never destroyed
          MaxEnd,         \* how often endLogger() is called before the destructor
          NoThread        \* what dequeMutex holds when it is free

ASSUME LoggerAssumption ==
    /\ MaxLog \in [Producers -> Nat] /\ MaxEnd \in Nat
    /\ Levels \subseteq Nat
    /\ Cerr \notin Streams
    /\ "writer" \notin Producers
    /\ NoThread \notin Producers /\ NoThread # "writer"

\* A LoggerPayload: who built it and as which of its messages (its place in
\* the file), its level, and whether any text was formatted into it.
Payloads == UNION {[from : {t}, n : 1..MaxLog[t], level : Levels, text : BOOLEAN] : t \in Producers}

VARIABLES
    payloads,    \* the deque
    dequeMutex,  \* the thread that holds it, or NoThread
    permits,     \* consumerSem
    terminate,
    logLevel,
    output,      \* the stream the raw pointer points to
    outputPtr,   \* the streams the drain owns (at most one)
    pc,          \* pc[p]: where producer p is
    logged,      \* logged[p]: how many messages p has built
    source,      \* source[p]: the payload of p's LoggerSource
    late,        \* (ghost) the messages pushed when terminate was set already
    wpc,         \* where the writer is
    p,           \* the writer's local payload
    written,     \* what was written, in order, and to which stream
    opc,         \* where the owner is
    ends,        \* calls of endLogger() so far
    lowered      \* (ghost) the messages that logLevel was lowered to while they were under way

drainVars == <<payloads, dequeMutex, permits, terminate, logLevel, output, outputPtr>>
producerVars == <<pc, logged, source, late>>
writerVars == <<wpc, p, written>>
ownerVars == <<opc, ends, lowered>>
vars == <<drainVars, producerVars, writerVars, ownerVars>>

\* source and p when there is no payload, or none any more.
Nothing == [from |-> NoThread, n |-> 0, level |-> 0, text |-> FALSE]

Init == /\ payloads = <<>> /\ dequeMutex = NoThread /\ permits = 0
        /\ terminate = FALSE
        /\ logLevel \in Levels
        /\ output = Cerr /\ outputPtr = {}
        /\ pc = [t \in Producers |-> "idle"]
        /\ logged = [t \in Producers |-> 0]
        /\ source = [t \in Producers |-> Nothing] /\ late = {}
        /\ wpc = "wait" /\ p = Nothing /\ written = <<>>
        /\ opc = "configure" /\ ends = 0 /\ lowered = {}

Goto(t, label) == pc' = [pc EXCEPT ![t] = label]
Acquire(t) == dequeMutex = NoThread /\ dequeMutex' = t
Release == dequeMutex' = NoThread

ProducersDone == \A t \in Producers : pc[t] = "idle" /\ logged[t] = MaxLog[t]
-----------------------------------------------------------------------------
(***************************************************************************)
(* A producer: LOG(level) << ...; builds a LoggerSource, formats the       *)
(* message if the level captured by the constructor lets it, and the       *)
(* destructor calls log().                                                 *)
(***************************************************************************)
\* Mutant: a message of exactly the drain's level is not formatted.
MutConstruct(t) ==
    /\ opc # "configure" /\ pc[t] = "idle" /\ logged[t] < MaxLog[t]
    /\ logged' = [logged EXCEPT ![t] = @ + 1]
    /\ \E level \in Levels :
         source' = [source EXCEPT ![t] =
                     [from |-> t, n |-> logged[t] + 1, level |-> level,
                      text |-> level > logLevel]]
    /\ Goto(t, "log_lock")
    /\ UNCHANGED <<late, drainVars, writerVars, ownerVars>>

\* The drain's level is read once, here, and used for every << that follows.
Construct(t) ==
    /\ opc # "configure" /\ pc[t] = "idle" /\ logged[t] < MaxLog[t]
    /\ logged' = [logged EXCEPT ![t] = @ + 1]
    /\ \E level \in Levels :
         source' = [source EXCEPT ![t] =
                     [from |-> t, n |-> logged[t] + 1, level |-> level,
                      text |-> level >= logLevel]]
    /\ Goto(t, "log_lock")
    /\ UNCHANGED <<late, drainVars, writerVars, ownerVars>>

LogLock(t) ==
    /\ pc[t] = "log_lock" /\ Acquire(t)
    /\ Goto(t, "log_push")
    /\ UNCHANGED <<payloads, permits, terminate, logLevel, output, outputPtr,
                   logged, source, late, writerVars, ownerVars>>

\* Mutant: the deque is filled at the wrong end.
MutLogPush(t) ==
    /\ pc[t] = "log_push"
    /\ payloads' = <<source[t]>> \o payloads
    /\ late' = IF terminate THEN late \cup {source[t]} ELSE late
    /\ source' = [source EXCEPT ![t] = Nothing]
    /\ Goto(t, "log_notify")
    /\ UNCHANGED <<dequeMutex, permits, terminate, logLevel, output, outputPtr,
                   logged, writerVars, ownerVars>>

LogPush(t) ==
    /\ pc[t] = "log_push"
    /\ payloads' = Append(payloads, source[t])
    /\ late' = IF terminate THEN late \cup {source[t]} ELSE late
    /\ source' = [source EXCEPT ![t] = Nothing]
    /\ Goto(t, "log_notify")
    /\ UNCHANGED <<dequeMutex, permits, terminate, logLevel, output, outputPtr,
                   logged, writerVars, ownerVars>>

LogNotify(t) ==
    /\ pc[t] = "log_notify"
    /\ permits' = permits + 1
    /\ Goto(t, "log_unlock")
    /\ UNCHANGED <<payloads, dequeMutex, terminate, logLevel, output, outputPtr,
                   logged, source, late, writerVars, ownerVars>>

\* Mutant: lock() without the guard that unlocks.
MutLogUnlock(t) ==
    /\ pc[t] = "log_unlock"
    /\ Goto(t, "idle")
    /\ UNCHANGED <<drainVars, logged, source, late, writerVars, ownerVars>>

LogUnlock(t) ==
    /\ pc[t] = "log_unlock" /\ Release
    /\ Goto(t, "idle")
    /\ UNCHANGED <<payloads, permits, terminate, logLevel, output, outputPtr,
                   logged, source, late, writerVars, ownerVars>>

Producer(t) == LogLock(t) \/ LogPush(t) \/ LogNotify(t) \/ LogUnlock(t)
-----------------------------------------------------------------------------
(***************************************************************************)
(* The writer thread: writeElement()                                       *)
(***************************************************************************)
WriterWait ==
    /\ wpc = "wait" /\ permits > 0
    /\ permits' = permits - 1
    /\ wpc' = "lock"
    /\ UNCHANGED <<payloads, dequeMutex, terminate, logLevel, output, outputPtr,
                   p, written, producerVars, ownerVars>>

WriterLock ==
    /\ wpc = "lock" /\ Acquire("writer")
    /\ wpc' = "test"
    /\ UNCHANGED <<payloads, permits, terminate, logLevel, output, outputPtr,
                   p, written, producerVars, ownerVars>>

\* Mutant: terminate alone ends the loop.
MutWriterTest ==
    /\ wpc = "test"
    /\ wpc' = IF terminate THEN "done" ELSE "pop"
    /\ UNCHANGED <<drainVars, p, written, producerVars, ownerVars>>

\* The first test: break out of the loop, with the mutex still locked.
WriterTest ==
    /\ wpc = "test"
    /\ wpc' = IF terminate /\ payloads = <<>> THEN "done" ELSE "pop"
    /\ UNCHANGED <<drainVars, p, written, producerVars, ownerVars>>

\* payloads.front() needs an element: NoEmptyFront.
WriterPop ==
    /\ wpc = "pop" /\ payloads # <<>>
    /\ p' = Head(payloads)
    /\ payloads' = Tail(payloads)
    /\ wpc' = "test_again"
    /\ UNCHANGED <<dequeMutex, permits, terminate, logLevel, output, outputPtr,
                   written, producerVars, ownerVars>>

\* The second test and the unlock on either branch.
WriterUnlock ==
    /\ wpc = "test_again" /\ Release
    /\ wpc' = IF terminate /\ payloads = <<>> THEN "write_last" ELSE "write"
    /\ UNCHANGED <<payloads, permits, terminate, logLevel, output, outputPtr,
                   p, written, producerVars, ownerVars>>

\* The level that filters is the drain's level now, not the captured one.
WriterWrite ==
    /\ wpc \in {"write", "write_last"}
    /\ written' = IF p.level >= logLevel
                  THEN Append(written, [msg |-> p, to |-> output])
                  ELSE written
    /\ wpc' = IF wpc = "write" THEN "wait" ELSE "done"
    /\ p' = Nothing
    /\ UNCHANGED <<drainVars, producerVars, ownerVars>>

Writer == WriterWait \/ WriterLock \/ WriterTest \/ WriterPop \/ WriterUnlock \/ WriterWrite
-----------------------------------------------------------------------------
(***************************************************************************)
(* The owner                                                               *)
(***************************************************************************)
\* Assigning the unique_ptr destroys the stream it owned before.  No lock is
\* taken; main calls it before it starts the producers (loggertest.cpp).
SetOutput(s) ==
    /\ opc = "configure"
    /\ s \notin outputPtr
    /\ outputPtr' = {s}
    /\ output' = s
    /\ UNCHANGED <<payloads, dequeMutex, permits, terminate, logLevel,
                   producerVars, writerVars, ownerVars>>

\* main has called setOutput() by then.
StartProducers ==
    /\ opc = "configure" /\ outputPtr # {}
    /\ opc' = "run"
    /\ UNCHANGED <<drainVars, producerVars, writerVars, ends, lowered>>

\* The messages that are built and not yet written or discarded.
InHand == IF wpc \in {"test_again", "write", "write_last"} THEN <<p>> ELSE <<>>
UnderWay == {source[t] : t \in {u \in Producers : pc[u] \in {"log_lock", "log_push"}}}
               \cup {payloads[i] : i \in DOMAIN payloads} \cup {InHand[i] : i \in DOMAIN InHand}

\* logLevel is a public member that nothing guards: it takes any value, at any time.
SetLogLevel(level) ==
    /\ opc \in {"configure", "run"}
    /\ level # logLevel
    /\ logLevel' = level
    /\ lowered' = lowered \cup {m \in UnderWay : level <= m.level /\ m.level < logLevel}
    /\ UNCHANGED <<payloads, dequeMutex, permits, terminate, output, outputPtr,
                   producerVars, writerVars, opc, ends>>

\* endLogger() called by the owner, who may do so while threads log: terminate
\* = true ...
EndLogger ==
    /\ opc = "run" /\ ends < MaxEnd
    /\ terminate' = TRUE
    /\ opc' = "end_notify"
    /\ ends' = ends + 1
    /\ UNCHANGED <<payloads, dequeMutex, permits, logLevel, output, outputPtr,
                   producerVars, writerVars, lowered>>

\* Mutant: the destructor only notifies.
MutDestroy ==
    /\ opc = "run" /\ ProducersDone
    /\ opc' = "destroy_notify"
    /\ UNCHANGED <<drainVars, producerVars, writerVars, ends, lowered>>

\* ... and by the destructor, when no thread uses the drain any more.
Destroy ==
    /\ opc = "run" /\ ProducersDone
    /\ terminate' = TRUE
    /\ opc' = "destroy_notify"
    /\ UNCHANGED <<payloads, dequeMutex, permits, logLevel, output, outputPtr,
                   producerVars, writerVars, ends, lowered>>

\* Mutant: nothing wakes the writer.
MutEndNotify ==
    /\ opc \in {"end_notify", "destroy_notify"}
    /\ opc' = IF opc = "end_notify" THEN "run" ELSE "join"
    /\ UNCHANGED <<drainVars, producerVars, writerVars, ends, lowered>>

\* consumerSem.notify()
EndNotify ==
    /\ opc \in {"end_notify", "destroy_notify"}
    /\ permits' = permits + 1
    /\ opc' = IF opc = "end_notify" THEN "run" ELSE "join"
    /\ UNCHANGED <<payloads, dequeMutex, terminate, logLevel, output, outputPtr,
                   producerVars, writerVars, ends, lowered>>

Join ==
    /\ opc = "join" /\ wpc = "done"
    /\ opc' = "gone"
    /\ UNCHANGED <<drainVars, producerVars, writerVars, ends, lowered>>

Owner == StartProducers \/ EndLogger \/ Destroy \/ EndNotify \/ Join
            \/ (\E s \in Streams : SetOutput(s))
            \/ (\E level \in Levels : SetLogLevel(level))
-----------------------------------------------------------------------------
Next == \/ \E t \in Producers : Construct(t) \/ Producer(t)
        \/ Writer
        \/ Owner

\* Every thread that can run does; each behaviour has finitely many calls, so
\* weak fairness is enough for the lock.  No call has to be made.
Fairness == /\ \A t \in Producers : WF_vars(Producer(t))
            /\ WF_vars(Writer)
            /\ WF_vars(EndNotify \/ Join)

SafeSpec == Init /\ [][Next]_vars
Spec == SafeSpec /\ Fairness
-----------------------------------------------------------------------------
(***************************************************************************)
(* Properties                                                              *)
(***************************************************************************)
WriterHolds == {"test", "pop", "test_again"}
ProducerHolds == {"log_push", "log_notify", "log_unlock"}

\* Types, and the mutex: a producer holds it exactly between lock and unlock,
\* and the writer also after it has left the loop by the first test
\* (log.hpp 90-126).
TypeOK ==
    /\ payloads \in Seq(Payloads)
    /\ permits \in Nat /\ logLevel \in Levels
    /\ terminate \in BOOLEAN
    /\ dequeMutex \in Producers \cup {"writer", NoThread}
    /\ output \in Streams \cup {Cerr}
    /\ outputPtr \in SUBSET Streams
    /\ pc \in [Producers -> {"idle", "log_lock"} \cup ProducerHolds]
    /\ logged \in [Producers -> Nat] /\ \A t \in Producers : logged[t] <= MaxLog[t]
    /\ source \in [Producers -> Payloads \cup {Nothing}]
    /\ wpc \in WriterHolds \cup {"wait", "lock", "write", "write_last", "done"}
    /\ p \in Payloads \cup {Nothing}
    /\ written \in Seq([msg : Payloads, to : Streams \cup {Cerr}])
    /\ opc \in {"configure", "run", "end_notify", "destroy_notify", "join", "gone"}
    /\ ends \in 0..MaxEnd
    /\ late \subseteq Payloads /\ lowered \subseteq Payloads
    /\ \A t \in Producers : pc[t] \in ProducerHolds <=> dequeMutex = t
    /\ wpc \in WriterHolds => dequeMutex = "writer"
    /\ dequeMutex = "writer" => wpc \in WriterHolds \cup {"done"}

\* The writer never takes the front of an empty deque (log.hpp 104): a permit
\* stands for a payload until terminate is set, and terminate is set before
\* the permit that stands for none is given.
NoEmptyFront == wpc = "pop" => payloads # <<>>

\* A line is written without its text only when logLevel was lowered past the
\* message while that was under way: the level captured at construction and the
\* level read by the writer are not the same then (log.hpp 149, 164, 110, 119).
NoBlankLines == \A i \in DOMAIN written : written[i].msg.text \/ written[i].msg \in lowered

\* When the destructor returns everything that was logged has been written or
\* discarded, but for what was pushed after endLogger() (log.hpp 74-77, 100-116).
NothingLostAtJoin == opc = "gone" => \A i \in DOMAIN payloads : payloads[i] \in late

\* The destructor returns (log.hpp 74-77): the writer gets the permit it
\* needs to see terminate, and leaves the loop.
DestructorReturns == opc = "destroy_notify" ~> opc = "gone"

\* What was pushed before endLogger() set terminate is written or discarded in
\* the end, even when other producers go on logging (log.hpp 85-126).
QueuedAtEndIsEmitted ==
    \A t \in Producers : \A i \in 1..MaxLog[t] :
        LET Queued == \E k \in DOMAIN payloads :
                         payloads[k].from = t /\ payloads[k].n = i
        IN  Queued /\ ~terminate ~> ~Queued

Abstract == INSTANCE AbstractLogger
                WITH Messages <- Payloads,
                     queue <- InHand \o payloads,
                     written <- [i \in DOMAIN written |-> written[i].msg]

\* Deque, mutex, semaphore and writer implement one queue: nothing is lost,
\* written twice or reordered, and all of it leaves that was not pushed after
\* endLogger() (log.hpp 85-126).
ImplementsLogger == Abstract!AbsSpec
=============================================================================
