-------------------------- MODULE LoggerDrainProofs --------------------------
(***************************************************************************)
(* What LoggerDrain guarantees for any set of producers, any number of     *)
(* messages each and any levels.                                           *)
(***************************************************************************)
EXTENDS LoggerDrain, SequenceTheorems, TLAPS

USE LoggerAssumption

ControlOK ==
    /\ dequeMutex \in Producers \cup {"writer", NoThread}
    /\ pc \in [Producers -> {"idle", "log_lock"} \cup ProducerHolds]
    /\ logged \in [Producers -> Nat] /\ \A t \in Producers : logged[t] <= MaxLog[t]
    /\ wpc \in WriterHolds \cup {"wait", "lock", "write", "write_last", "done"}
    /\ opc \in {"configure", "run", "end_notify", "destroy_notify", "join", "gone"}
    /\ ends \in 0..MaxEnd
    /\ terminate \in BOOLEAN
    /\ opc \in {"end_notify", "destroy_notify", "join", "gone"} => terminate
    /\ \A t \in Producers : pc[t] \in ProducerHolds <=> dequeMutex = t
    /\ wpc \in WriterHolds => dequeMutex = "writer"
    /\ dequeMutex = "writer" => wpc \in WriterHolds \cup {"done"}

DataOK ==
    /\ payloads \in Seq(Payloads)
    /\ permits \in Nat /\ logLevel \in Levels
    /\ output \in Streams \cup {Cerr}
    /\ outputPtr \in SUBSET Streams
    /\ source \in [Producers -> Payloads \cup {Nothing}]
    /\ \A t \in Producers : pc[t] \in {"log_lock", "log_push"} => source[t] \in Payloads
    /\ late \subseteq Payloads /\ lowered \subseteq Payloads
    /\ p \in Payloads \cup {Nothing}
    /\ wpc \in {"test_again", "write", "write_last"} => p \in Payloads
    /\ written \in Seq([msg : Payloads, to : Streams \cup {Cerr}])

\* TypeOK in two parts, and what DataOK adds: a source is a payload until
\* log() has moved it into the deque, and so is p while the writer has one in hand.
LEMMA TypeParts == ControlOK /\ DataOK => TypeOK
  BY DEF ControlOK, DataOK, TypeOK

LEMMA ControlInit == Init => ControlOK
  <1> SUFFICES ASSUME Init PROVE ControlOK
    OBVIOUS
  <1>1. (\A t \in Producers : 0 <= MaxLog[t]) /\ 0 \in 0..MaxEnd
    OBVIOUS
  <1>2. \A t \in Producers : pc[t] \in ProducerHolds <=> dequeMutex = t
    BY DEF Init, ProducerHolds
  <1> QED
    BY <1>1, <1>2 DEF Init, ControlOK, ProducerHolds, WriterHolds

\* The threads' program points and the mutex stay coherent.
LEMMA ControlStep == ControlOK /\ [Next]_vars => ControlOK'
  <1> SUFFICES ASSUME ControlOK, [Next]_vars PROVE ControlOK'
    OBVIOUS
  <1> USE DEF ControlOK, ProducerHolds, WriterHolds, Goto, Acquire, Release,
              drainVars, producerVars, writerVars, ownerVars
  <1>1. ASSUME NEW t \in Producers, Construct(t) PROVE ControlOK'
    BY <1>1 DEF Construct
  <1>2. ASSUME NEW t \in Producers, LogLock(t) PROVE ControlOK'
    BY <1>2 DEF LogLock
  <1>3. ASSUME NEW t \in Producers, LogPush(t) \/ LogNotify(t) PROVE ControlOK'
    BY <1>3 DEF LogPush, LogNotify
  <1>4. ASSUME NEW t \in Producers, LogUnlock(t) PROVE ControlOK'
    BY <1>4 DEF LogUnlock
  <1>5. CASE WriterWait \/ WriterWrite
    BY <1>5 DEF WriterWait, WriterWrite
  <1>6. CASE WriterLock
    BY <1>6 DEF WriterLock
  <1>7. CASE WriterTest \/ WriterPop
    BY <1>7 DEF WriterTest, WriterPop
  <1>8. CASE WriterUnlock
    BY <1>8 DEF WriterUnlock
  <1>9. CASE Owner
    <2>1. CASE StartProducers \/ Join
      BY <2>1 DEF StartProducers, Join
    <2>2. CASE EndLogger
      <3>1. ends' \in 0..MaxEnd
        BY <2>2 DEF EndLogger
      <3> QED
        BY <2>2, <3>1 DEF EndLogger
    <2>4. CASE Destroy
      BY <2>4 DEF Destroy
    <2>5. CASE EndNotify
      BY <2>5 DEF EndNotify
    <2>3. CASE \/ \E s \in Streams : SetOutput(s)
               \/ \E level \in Levels : SetLogLevel(level)
      BY <2>3 DEF SetOutput, SetLogLevel
    <2> QED
      BY <1>9, <2>1, <2>2, <2>3, <2>4, <2>5 DEF Owner
  <1>10. CASE UNCHANGED vars
    BY <1>10 DEF vars
  <1> QED
    BY <1>1, <1>2, <1>3, <1>4, <1>5, <1>6, <1>7, <1>8, <1>9, <1>10
       DEF Next, Producer, Writer

LEMMA DataInit == Init => DataOK
  BY DEF Init, DataOK

\* What is under way are payloads.
LEMMA UnderWayTyped == ASSUME ControlOK, DataOK PROVE UnderWay \subseteq Payloads
  <1>1. \A i \in DOMAIN InHand : InHand[i] \in Payloads
    BY DEF InHand, DataOK
  <1>2. \A i \in DOMAIN payloads : payloads[i] \in Payloads
    BY ElementOfSeq DEF DataOK
  <1>3. \A t \in Producers : pc[t] \in {"log_lock", "log_push"} => source[t] \in Payloads
    BY DEF DataOK
  <1> QED
    BY <1>1, <1>2, <1>3 DEF UnderWay

\* A payload is built whole, moved into the deque, and moved out of it.
LEMMA DataStep == ControlOK /\ DataOK /\ [Next]_vars => DataOK'
  <1> SUFFICES ASSUME ControlOK, DataOK, [Next]_vars PROVE DataOK'
    OBVIOUS
  <1> USE DEF DataOK, ControlOK, Goto, Acquire, Release,
              drainVars, producerVars, writerVars, ownerVars
  <1>1. ASSUME NEW t \in Producers, Construct(t) PROVE DataOK'
    <2>1. PICK level \in Levels :
             source' = [source EXCEPT ![t] =
                          [from |-> t, n |-> logged[t] + 1, level |-> level,
                           text |-> level >= logLevel]]
      BY <1>1 DEF Construct
    <2>2. logged[t] \in Nat /\ logged[t] < MaxLog[t] /\ MaxLog[t] \in Nat
      BY <1>1 DEF Construct
    <2>3. logged[t] + 1 \in 1..MaxLog[t] /\ (level >= logLevel) \in BOOLEAN
      BY <2>2
    <2>4. [from |-> t, n |-> logged[t] + 1, level |-> level,
           text |-> level >= logLevel] \in Payloads
      BY <2>3 DEF Payloads
    <2> QED
      BY <1>1, <2>1, <2>4 DEF Construct
  <1>2. ASSUME NEW t \in Producers, LogLock(t) \/ LogNotify(t) \/ LogUnlock(t)
        PROVE  DataOK'
    BY <1>2 DEF LogLock, LogNotify, LogUnlock
  <1>3. ASSUME NEW t \in Producers, LogPush(t) PROVE DataOK'
    <2>1. source[t] \in Payloads
      BY <1>3 DEF LogPush
    <2>2. payloads' \in Seq(Payloads)
      BY <1>3, <2>1 DEF LogPush
    <2> QED
      BY <1>3, <2>2 DEF LogPush
  <1>4. CASE WriterWait \/ WriterLock \/ WriterTest \/ WriterUnlock
    BY <1>4 DEF WriterWait, WriterLock, WriterTest, WriterUnlock
  <1>5. CASE WriterPop
    <2>1. p' \in Payloads /\ payloads' \in Seq(Payloads)
      BY <1>5 DEF WriterPop
    <2> QED
      BY <1>5, <2>1 DEF WriterPop
  <1>6. CASE WriterWrite
    <2>1. p \in Payloads
      BY <1>6 DEF WriterWrite
    <2>2. [msg |-> p, to |-> output] \in [msg : Payloads, to : Streams \cup {Cerr}]
      BY <2>1
    <2>3. Append(written, [msg |-> p, to |-> output])
             \in Seq([msg : Payloads, to : Streams \cup {Cerr}])
      BY <2>2, AppendProperties
    <2>4. \/ written' = written
          \/ written' = Append(written, [msg |-> p, to |-> output])
      BY <1>6 DEF WriterWrite
    <2> QED
      BY <1>6, <2>3, <2>4 DEF WriterWrite
  <1>7. CASE Owner
    <2>1. CASE StartProducers \/ Join \/ EndLogger \/ Destroy \/ EndNotify
      BY <2>1 DEF StartProducers, Join, EndLogger, Destroy, EndNotify
    <2>2. CASE \E s \in Streams : SetOutput(s)
      BY <2>2 DEF SetOutput
    <2>3. ASSUME NEW level \in Levels, SetLogLevel(level) PROVE DataOK'
      <3>1. lowered' \subseteq lowered \cup UnderWay
        BY <2>3 DEF SetLogLevel
      <3>2. lowered' \subseteq Payloads
        BY <3>1, UnderWayTyped
      <3> QED
        BY <2>3, <3>2 DEF SetLogLevel
    <2> QED
      BY <1>7, <2>1, <2>2, <2>3 DEF Owner
  <1>8. CASE UNCHANGED vars
    BY <1>8 DEF vars
  <1> QED
    BY <1>1, <1>2, <1>3, <1>4, <1>5, <1>6, <1>7, <1>8 DEF Next, Producer, Writer

\* TypeOK in every state: the mutex is held exactly where the code says, also
\* by a writer that left the loop by the first test (log.hpp 90-126).
THEOREM TypeCorrect == SafeSpec => []TypeOK
  <1>1. ControlOK /\ DataOK /\ [Next]_vars => (ControlOK /\ DataOK)'
    BY ControlStep, DataStep
  <1> QED
    BY ControlInit, DataInit, TypeParts, <1>1, PTL DEF SafeSpec
-----------------------------------------------------------------------------
\* The permits the writer holds, and the payloads pushed whose permit is still
\* to be given: with the writer out of the mutex at most one producer is there.
Taken == IF wpc \in {"lock", "test", "pop"} THEN 1 ELSE 0
Owed == IF \E t \in Producers : pc[t] = "log_notify" THEN 1 ELSE 0

\* As long as terminate is not set, permits and payloads are the same number.
PermitsMatch == ~terminate => permits + Taken = Len(payloads) - Owed

FrontInv == ControlOK /\ DataOK /\ PermitsMatch /\ NoEmptyFront

LEMMA FrontInit == Init => FrontInv
  <1> SUFFICES ASSUME Init PROVE PermitsMatch /\ NoEmptyFront
    BY ControlInit, DataInit DEF FrontInv
  <1> QED
    BY DEF Init, PermitsMatch, NoEmptyFront, Taken, Owed

\* Neither the deque nor the numbers of permits change: the step is one that
\* no conjunct of the invariant looks at.
LEMMA FrontSame ==
    ASSUME PermitsMatch, NoEmptyFront,
           payloads' = payloads, permits' = permits, terminate' = terminate,
           Taken' = Taken, Owed' = Owed, wpc' # "pop" \/ wpc = "pop"
    PROVE  PermitsMatch' /\ NoEmptyFront'
  BY DEF PermitsMatch, NoEmptyFront

\* Only one thread is inside the mutex, so Owed is what that thread says.
LEMMA OneInside ==
    ASSUME ControlOK, NEW t \in Producers, pc[t] \in ProducerHolds
    PROVE  \A u \in Producers \ {t} : pc[u] \notin ProducerHolds
  BY DEF ControlOK

\* The owner touches neither the deque nor another thread.
LEMMA OwnerKeeps == Owner => wpc' = wpc /\ pc' = pc /\ payloads' = payloads
  <1> SUFFICES ASSUME Owner PROVE wpc' = wpc /\ pc' = pc /\ payloads' = payloads
    OBVIOUS
  <1> USE DEF producerVars, writerVars, drainVars
  <1>1. CASE StartProducers \/ Join
    BY <1>1 DEF StartProducers, Join
  <1>2. CASE EndLogger \/ Destroy \/ EndNotify
    BY <1>2 DEF EndLogger, Destroy, EndNotify
  <1>3. CASE \/ \E s \in Streams : SetOutput(s)
             \/ \E level \in Levels : SetLogLevel(level)
    BY <1>3 DEF SetOutput, SetLogLevel
  <1> QED
    BY <1>1, <1>2, <1>3 DEF Owner

LEMMA FrontStep == FrontInv /\ [Next]_vars => PermitsMatch' /\ NoEmptyFront'
  <1> SUFFICES ASSUME FrontInv, [Next]_vars PROVE PermitsMatch' /\ NoEmptyFront'
    OBVIOUS
  <1> USE DEF FrontInv, ControlOK, DataOK, Goto, Acquire, Release,
              drainVars, producerVars, writerVars, ownerVars
  <1>0. Len(payloads) \in Nat /\ Taken \in {0, 1} /\ Owed \in {0, 1}
    BY DEF Taken, Owed
  <1>1. ASSUME NEW t \in Producers, Construct(t) \/ LogLock(t) \/ LogUnlock(t)
        PROVE  PermitsMatch' /\ NoEmptyFront'
    <2>1. /\ payloads' = payloads /\ permits' = permits /\ terminate' = terminate
          /\ wpc' = wpc
      BY <1>1 DEF Construct, LogLock, LogUnlock
    <2>2. Taken' = Taken /\ Owed' = Owed
      BY <1>1, <2>1 DEF Construct, LogLock, LogUnlock, Taken, Owed
    <2> QED
      BY <2>1, <2>2, FrontSame
  <1>2. ASSUME NEW t \in Producers, LogPush(t) PROVE PermitsMatch' /\ NoEmptyFront'
    <2>1. Owed = 0
      BY <1>2, OneInside DEF LogPush, Owed, ProducerHolds
    <2>2. Owed' = 1 /\ Taken' = Taken
      BY <1>2 DEF LogPush, Owed, Taken
    <2>3. source[t] \in Payloads
      BY <1>2 DEF LogPush
    <2>5. payloads' = Append(payloads, source[t]) /\ payloads \in Seq(Payloads)
      BY <1>2 DEF LogPush
    <2>4. Len(payloads') = Len(payloads) + 1 /\ payloads' # <<>>
      BY ONLY <2>3, <2>5, AppendProperties
    <2> QED
      BY <1>0, <1>2, <2>1, <2>2, <2>4 DEF LogPush, PermitsMatch, NoEmptyFront
  <1>3. ASSUME NEW t \in Producers, LogNotify(t) PROVE PermitsMatch' /\ NoEmptyFront'
    <2>1. Owed = 1 /\ Taken' = Taken
      BY <1>3 DEF LogNotify, Owed, Taken
    <2>2. Owed' = 0
      BY <1>3, OneInside DEF LogNotify, Owed, ProducerHolds
    <2> QED
      BY <1>0, <1>3, <2>1, <2>2 DEF LogNotify, PermitsMatch, NoEmptyFront
  <1>4. CASE WriterWait
    <2>1. Taken = 0 /\ Taken' = 1 /\ Owed' = Owed
      BY <1>4 DEF WriterWait, Taken, Owed
    <2> QED
      BY <1>0, <1>4, <2>1 DEF WriterWait, PermitsMatch, NoEmptyFront
  <1>5. CASE WriterLock \/ WriterUnlock \/ WriterWrite
    <2>1. /\ payloads' = payloads /\ permits' = permits /\ terminate' = terminate
          /\ wpc' # "pop" /\ pc' = pc
      BY <1>5 DEF WriterLock, WriterUnlock, WriterWrite
    <2>2. Taken' = Taken /\ Owed' = Owed
      BY <1>5, <2>1 DEF WriterLock, WriterUnlock, WriterWrite, Taken, Owed
    <2> QED
      BY <2>1, <2>2, FrontSame
  <1>6. CASE WriterTest
    <2>1. Owed = 0 /\ Taken = 1
      BY <1>6 DEF WriterTest, Owed, Taken, ProducerHolds, WriterHolds
    <2>2. ~terminate => payloads # <<>>
      BY <1>0, <2>1 DEF PermitsMatch
    <2>3. /\ payloads' = payloads /\ permits' = permits /\ terminate' = terminate
          /\ Owed' = Owed
      BY <1>6 DEF WriterTest, Owed
    <2>4. CASE terminate /\ payloads = <<>>
      BY <1>6, <2>3, <2>4 DEF WriterTest, PermitsMatch, NoEmptyFront
    <2>5. CASE ~(terminate /\ payloads = <<>>)
      <3>1. wpc' = "pop" /\ Taken' = 1
        BY <1>6, <2>5 DEF WriterTest, Taken
      <3> QED
        BY <2>1, <2>2, <2>3, <2>5, <3>1 DEF PermitsMatch, NoEmptyFront
    <2> QED
      BY <2>4, <2>5
  <1>7. CASE WriterPop
    <2>1. Taken = 1 /\ Taken' = 0 /\ Owed' = Owed
      BY <1>7 DEF WriterPop, Taken, Owed
    <2>2. Len(payloads') = Len(payloads) - 1
      BY <1>7 DEF WriterPop
    <2>3. permits' = permits /\ terminate' = terminate /\ wpc' = "test_again"
      BY <1>7 DEF WriterPop
    <2>4. ~terminate => permits + 1 = Len(payloads) - Owed
      BY <2>1 DEF PermitsMatch
    <2>5. ~terminate' => permits' + Taken' = Len(payloads') - Owed'
      BY <1>0, <2>1, <2>2, <2>3, <2>4
    <2> QED
      BY <2>3, <2>5 DEF PermitsMatch, NoEmptyFront
  <1>8. CASE Owner
    <2>1. wpc' = wpc /\ pc' = pc /\ payloads' = payloads
      BY <1>8, OwnerKeeps
    <2>2. Taken' = Taken /\ Owed' = Owed
      BY <2>1 DEF Taken, Owed
    <2>3. CASE EndLogger \/ Destroy
      BY <2>1, <2>3 DEF EndLogger, Destroy, PermitsMatch, NoEmptyFront
    <2>4. CASE EndNotify
      BY <2>1, <2>4 DEF EndNotify, PermitsMatch, NoEmptyFront
    <2>5. CASE \/ StartProducers \/ Join
               \/ \E s \in Streams : SetOutput(s)
               \/ \E level \in Levels : SetLogLevel(level)
      <3>1. permits' = permits /\ terminate' = terminate
        BY <2>5 DEF StartProducers, Join, SetOutput, SetLogLevel
      <3> QED
        BY <2>1, <2>2, <3>1, FrontSame
    <2> QED
      BY <1>8, <2>3, <2>4, <2>5 DEF Owner
  <1>9. CASE UNCHANGED vars
    <2>1. /\ payloads' = payloads /\ permits' = permits /\ terminate' = terminate
          /\ wpc' = wpc /\ Taken' = Taken /\ Owed' = Owed
      BY <1>9 DEF vars, Taken, Owed
    <2> QED
      BY <2>1, FrontSame
  <1> QED
    BY <1>1, <1>2, <1>3, <1>4, <1>5, <1>6, <1>7, <1>8, <1>9 DEF Next, Producer, Writer

\* The writer never takes the front of an empty deque, whenever the logger is
\* ended and whoever goes on logging (log.hpp 96-126).
THEOREM NoFrontOfEmpty == SafeSpec => []NoEmptyFront
  <1>1. FrontInv /\ [Next]_vars => FrontInv'
    BY ControlStep, DataStep, FrontStep DEF FrontInv
  <1>2. FrontInv => NoEmptyFront
    BY DEF FrontInv
  <1> QED
    BY FrontInit, <1>1, <1>2, PTL DEF SafeSpec
-----------------------------------------------------------------------------
\* A writer that leaves has found nothing, and what is pushed then is late.
Ended == /\ wpc \in {"write_last", "done"} =>
               terminate /\ \A i \in DOMAIN payloads : payloads[i] \in late
         /\ opc = "gone" => wpc = "done"

LEMMA EndedStep ==
    ASSUME ControlOK, DataOK, Ended, [Next]_vars
    PROVE  Ended'
  <1> USE DEF Ended, ControlOK, drainVars, producerVars, writerVars, ownerVars
  <1>1. ASSUME NEW t \in Producers,
               Construct(t) \/ LogLock(t) \/ LogNotify(t) \/ LogUnlock(t)
        PROVE  Ended'
    BY <1>1 DEF Construct, LogLock, LogNotify, LogUnlock
  <1>2. ASSUME NEW t \in Producers, LogPush(t) PROVE Ended'
    <2>1. source[t] \in Payloads /\ payloads \in Seq(Payloads)
      BY <1>2 DEF LogPush, DataOK
    <2>2. /\ payloads' = Append(payloads, source[t])
          /\ terminate' = terminate /\ wpc' = wpc /\ opc' = opc
          /\ late \subseteq late' /\ (terminate => source[t] \in late')
      BY <1>2 DEF LogPush
    <2>3. ASSUME wpc \in {"write_last", "done"}, NEW i \in DOMAIN payloads'
          PROVE  payloads'[i] \in late'
      BY <2>1, <2>2, <2>3
    <2> QED
      BY <2>2, <2>3
  <1>3. CASE WriterWait \/ WriterLock \/ WriterPop
    BY <1>3 DEF WriterWait, WriterLock, WriterPop
  <1>4. CASE WriterTest
    BY <1>4 DEF WriterTest
  <1>5. CASE WriterUnlock
    BY <1>5 DEF WriterUnlock
  <1>6. CASE WriterWrite
    BY <1>6 DEF WriterWrite
  <1>7. CASE Owner
    <2>1. wpc' = wpc /\ payloads' = payloads
      BY <1>7, OwnerKeeps
    <2>2. CASE EndLogger \/ Destroy
      BY <2>1, <2>2 DEF EndLogger, Destroy
    <2>3. CASE StartProducers \/ EndNotify \/ Join
      BY <2>1, <2>3 DEF StartProducers, EndNotify, Join
    <2>4. CASE \/ \E s \in Streams : SetOutput(s)
               \/ \E level \in Levels : SetLogLevel(level)
      BY <2>1, <2>4 DEF SetOutput, SetLogLevel
    <2> QED
      BY <1>7, <2>2, <2>3, <2>4 DEF Owner
  <1>8. CASE UNCHANGED vars
    BY <1>8 DEF vars
  <1> QED
    BY <1>1, <1>2, <1>3, <1>4, <1>5, <1>6, <1>7, <1>8 DEF Next, Producer, Writer

\* When the destructor returns nothing is left in the deque but what was pushed
\* after endLogger(), whenever that was called (log.hpp 74-77, 96-126).
THEOREM NothingIsLost == SafeSpec => []NothingLostAtJoin
  <1>1. Init => Ended
    BY DEF Init, Ended
  <1>2. ControlOK /\ DataOK /\ Ended /\ [Next]_vars => (ControlOK /\ DataOK /\ Ended)'
    BY ControlStep, DataStep, EndedStep
  <1>3. Ended => NothingLostAtJoin
    BY DEF Ended, NothingLostAtJoin
  <1> QED
    BY ControlInit, DataInit, <1>1, <1>2, <1>3, PTL DEF SafeSpec
-----------------------------------------------------------------------------
\* What the writer would write has its text, or the level was lowered to it.
MayBeWritten(m) == m.level >= logLevel => m.text \/ m \in lowered

TextInv == (\A m \in UnderWay : MayBeWritten(m)) /\ NoBlankLines

LEMMA TextInit == Init => TextInv
  <1> SUFFICES ASSUME Init PROVE TextInv
    OBVIOUS
  <1>1. UnderWay = {}
    BY DEF Init, UnderWay, InHand
  <1> QED
    BY <1>1 DEF Init, TextInv, NoBlankLines

\* Nothing new is under way, nothing is written and the level stays.
LEMMA TextSame ==
    ASSUME TextInv, UnderWay' \subseteq UnderWay, written' = written,
           logLevel' = logLevel, lowered' = lowered
    PROVE  TextInv'
  BY DEF TextInv, MayBeWritten, NoBlankLines

LEMMA TextStep ==
    ASSUME ControlOK, DataOK, TextInv, [Next]_vars
    PROVE  TextInv'
  <1> USE DEF ControlOK, DataOK, Goto, Acquire, Release,
              drainVars, producerVars, writerVars, ownerVars
  <1>1. ASSUME NEW t \in Producers, Construct(t) PROVE TextInv'
    <2>1. PICK level \in Levels :
             source' = [source EXCEPT ![t] =
                          [from |-> t, n |-> logged[t] + 1, level |-> level,
                           text |-> level >= logLevel]]
      BY <1>1 DEF Construct
    <2>2. /\ payloads' = payloads /\ p' = p /\ written' = written /\ wpc' = wpc
          /\ logLevel' = logLevel /\ lowered' = lowered
          /\ \A u \in Producers : u # t => pc'[u] = pc[u] /\ source'[u] = source[u]
      BY <1>1 DEF Construct
    <2>3. UnderWay' \subseteq UnderWay \cup {source'[t]} /\ InHand' = InHand
      BY <2>2 DEF UnderWay, InHand
    <2>4. MayBeWritten(source'[t])
      BY <2>1 DEF MayBeWritten
    <2> QED
      BY <2>2, <2>3, <2>4 DEF TextInv, MayBeWritten, NoBlankLines
  <1>2. ASSUME NEW t \in Producers, LogLock(t) \/ LogNotify(t) \/ LogUnlock(t)
        PROVE  TextInv'
    <2>1. /\ payloads' = payloads /\ p' = p /\ written' = written /\ wpc' = wpc
          /\ logLevel' = logLevel /\ lowered' = lowered /\ source' = source
          /\ \A u \in Producers : pc'[u] \in {"log_lock", "log_push"}
                                     => pc[u] \in {"log_lock", "log_push"}
      BY <1>2 DEF LogLock, LogNotify, LogUnlock
    <2>2. UnderWay' \subseteq UnderWay
      BY <2>1 DEF UnderWay, InHand
    <2> QED
      BY <2>1, <2>2, TextSame
  <1>3. ASSUME NEW t \in Producers, LogPush(t) PROVE TextInv'
    <2>1. /\ payloads' = Append(payloads, source[t]) /\ source[t] \in Payloads
          /\ p' = p /\ written' = written /\ wpc' = wpc
          /\ logLevel' = logLevel /\ lowered' = lowered
          /\ pc[t] = "log_push" /\ pc'[t] = "log_notify"
          /\ \A u \in Producers : u # t => pc'[u] = pc[u] /\ source'[u] = source[u]
      BY <1>3 DEF LogPush
    <2>2. source[t] \in UnderWay
      BY <2>1 DEF UnderWay
    <2>3. ASSUME NEW i \in DOMAIN payloads' PROVE payloads'[i] \in UnderWay
      <3>1. payloads'[i] = source[t] \/ (i \in DOMAIN payloads /\ payloads'[i] = payloads[i])
        BY <2>1
      <3> QED
        BY <2>2, <3>1 DEF UnderWay
    <2>4. ASSUME NEW u \in Producers, pc'[u] \in {"log_lock", "log_push"}
          PROVE  source'[u] \in UnderWay
      BY <2>1, <2>4 DEF UnderWay
    <2>6. InHand' = InHand /\ {InHand[i] : i \in DOMAIN InHand} \subseteq UnderWay
      BY <2>1 DEF UnderWay, InHand
    <2>5. UnderWay' \subseteq UnderWay
      <3>1. /\ {source'[u] : u \in {v \in Producers : pc'[v] \in {"log_lock", "log_push"}}} \subseteq UnderWay
            /\ {payloads'[i] : i \in DOMAIN payloads'} \subseteq UnderWay
            /\ {InHand'[i] : i \in DOMAIN InHand'} \subseteq UnderWay
        BY <2>3, <2>4, <2>6
      <3> QED
        BY <3>1 DEF UnderWay
    <2> QED
      BY <2>1, <2>5, TextSame
  <1>4. CASE WriterWait \/ WriterLock \/ WriterTest \/ WriterUnlock
    <2>1. /\ payloads' = payloads /\ p' = p /\ written' = written
          /\ logLevel' = logLevel /\ lowered' = lowered /\ source' = source /\ pc' = pc
      BY <1>4 DEF WriterWait, WriterLock, WriterTest, WriterUnlock
    <2>2. InHand' = InHand
      BY <1>4, <2>1 DEF WriterWait, WriterLock, WriterTest, WriterUnlock, InHand
    <2>3. UnderWay' = UnderWay
      BY <2>1, <2>2 DEF UnderWay
    <2> QED
      BY <2>1, <2>3, TextSame
  <1>5. CASE WriterPop
    <2>1. /\ p' = Head(payloads) /\ payloads' = Tail(payloads) /\ payloads # <<>>
          /\ wpc' = "test_again" /\ written' = written /\ pc' = pc
          /\ source' = source /\ logLevel' = logLevel /\ lowered' = lowered
      BY <1>5 DEF WriterPop
    <2>2. p' \in {payloads[i] : i \in DOMAIN payloads}
      BY <2>1
    <2>3. ASSUME NEW i \in DOMAIN payloads'
          PROVE  payloads'[i] \in {payloads[k] : k \in DOMAIN payloads}
      <3>1. i + 1 \in DOMAIN payloads /\ payloads'[i] = payloads[i + 1]
        BY <2>1, <2>3
      <3> QED
        BY <3>1
    <2>4. InHand' = <<p'>>
      BY <2>1 DEF InHand
    <2>5. UnderWay' \subseteq UnderWay
      BY <2>1, <2>2, <2>3, <2>4 DEF UnderWay
    <2> QED
      BY <2>1, <2>5, TextSame
  <1>6. CASE WriterWrite
    <2>1. InHand = <<p>> /\ InHand' = <<>>
      BY <1>6 DEF WriterWrite, InHand
    <2>2. /\ payloads' = payloads /\ pc' = pc /\ source' = source
          /\ logLevel' = logLevel /\ lowered' = lowered
          /\ wpc' \notin {"test_again", "write", "write_last"}
      BY <1>6 DEF WriterWrite
    <2>3. UnderWay' \subseteq UnderWay /\ p \in UnderWay
      BY <2>1, <2>2 DEF UnderWay
    <2>4. CASE p.level >= logLevel
      <3>1. p.text \/ p \in lowered
        BY <2>3, <2>4 DEF TextInv, MayBeWritten
      <3>2. written' = Append(written, [msg |-> p, to |-> output])
        BY <1>6, <2>4 DEF WriterWrite
      <3>3. ASSUME NEW i \in DOMAIN written'
            PROVE  written'[i].msg.text \/ written'[i].msg \in lowered
        BY <3>1, <3>2, <3>3 DEF TextInv, NoBlankLines
      <3> QED
        BY <2>2, <2>3, <3>3 DEF TextInv, MayBeWritten, NoBlankLines
    <2>5. CASE ~(p.level >= logLevel)
      <3>1. written' = written
        BY <1>6, <2>5 DEF WriterWrite
      <3> QED
        BY <2>2, <2>3, <3>1, TextSame
    <2> QED
      BY <2>4, <2>5
  <1>7. CASE Owner
    <2>1. /\ wpc' = wpc /\ pc' = pc /\ payloads' = payloads
          /\ p' = p /\ source' = source /\ written' = written
      BY <1>7, OwnerKeeps DEF Owner, StartProducers, EndLogger, Destroy, EndNotify, Join,
                              SetOutput, SetLogLevel
    <2>2. UnderWay' = UnderWay
      BY <2>1 DEF UnderWay, InHand
    <2>3. CASE \/ EndLogger \/ Destroy \/ EndNotify \/ StartProducers \/ Join
               \/ \E s \in Streams : SetOutput(s)
      <3>1. logLevel' = logLevel /\ lowered' = lowered
        BY <2>3 DEF EndLogger, Destroy, EndNotify, StartProducers, Join, SetOutput
      <3> QED
        BY <2>1, <2>2, <3>1, TextSame
    <2>4. ASSUME NEW level \in Levels, SetLogLevel(level) PROVE TextInv'
      <3>1. /\ logLevel' = level
            /\ lowered' = lowered \cup {m \in UnderWay : level <= m.level /\ m.level < logLevel}
        BY <2>4 DEF SetLogLevel
      <3>2. ASSUME NEW m \in UnderWay, m.level >= level PROVE m.text \/ m \in lowered'
        <4>0. m \in Payloads
          BY UnderWayTyped
        <4>1. m.level \in Nat /\ logLevel \in Nat /\ level \in Nat
          <5>1. PICK t \in Producers :
                   m \in [from : {t}, n : 1..MaxLog[t], level : Levels, text : BOOLEAN]
            BY <4>0 DEF Payloads
          <5> QED
            BY <5>1
        <4>2. CASE m.level >= logLevel
          BY <3>1, <4>2 DEF TextInv, MayBeWritten
        <4>3. CASE ~(m.level >= logLevel)
          BY <3>1, <3>2, <4>1, <4>3
        <4> QED
          BY <4>2, <4>3
      <3> QED
        BY <2>1, <2>2, <3>1, <3>2 DEF TextInv, MayBeWritten, NoBlankLines
    <2> QED
      BY <1>7, <2>3, <2>4 DEF Owner
  <1>8. CASE UNCHANGED vars
    <2>1. UnderWay' = UnderWay
      BY <1>8 DEF vars, UnderWay, InHand
    <2> QED
      BY <1>8, <2>1, TextSame DEF vars
  <1> QED
    BY <1>1, <1>2, <1>3, <1>4, <1>5, <1>6, <1>7, <1>8 DEF Next, Producer, Writer

\* A line that is written has its text unless the level was lowered to it on its
\* way, although the level is read once when the message is built and again when
\* it is written (log.hpp 52, 110, 119, 149, 164).
THEOREM WrittenHasText == SafeSpec => []NoBlankLines
  <1>1. /\ ControlOK /\ DataOK /\ TextInv /\ [Next]_vars
        => (ControlOK /\ DataOK /\ TextInv)'
    BY ControlStep, DataStep, TextStep
  <1>2. TextInv => NoBlankLines
    BY DEF TextInv
  <1> QED
    BY ControlInit, DataInit, TextInit, <1>1, <1>2, PTL DEF SafeSpec
-----------------------------------------------------------------------------
\* The abstract queue is what the writer has in hand and the deque.
AbsQueue == InHand \o payloads
Messages == [i \in DOMAIN written |-> written[i].msg]

LEMMA MessagesTyped == ASSUME DataOK PROVE Messages \in Seq(Payloads)
  <1>1. Len(written) \in Nat /\ DOMAIN written = 1..Len(written)
    BY DEF DataOK
  <1>2. ASSUME NEW i \in 1..Len(written) PROVE written[i].msg \in Payloads
    <2>1. written[i] \in [msg : Payloads, to : Streams \cup {Cerr}]
      BY <1>1, <1>2, ElementOfSeq DEF DataOK
    <2> QED
      BY <2>1
  <1>3. Messages \in [1..Len(written) -> Payloads]
    BY <1>1, <1>2 DEF Messages
  <1> QED
    BY <1>1, <1>3, SeqDef

\* Writing a line appends its message.
LEMMA MessagesAppend ==
    ASSUME DataOK, NEW m \in Payloads, NEW s \in Streams \cup {Cerr},
           written' = Append(written, [msg |-> m, to |-> s])
    PROVE  Messages' = Append(Messages, m)
  <1>1. DOMAIN written' = 1..(Len(written) + 1) /\ DOMAIN written = 1..Len(written)
    BY DEF DataOK
  <1>2. Messages' = [i \in 1..(Len(written) + 1) |-> written'[i].msg]
    BY <1>1 DEF Messages
  <1>3. Messages \in Seq(Payloads) /\ Len(Messages) = Len(written)
    BY <1>1, MessagesTyped DEF Messages, DataOK
  <1>4. Append(Messages, m) = [i \in 1..(Len(written) + 1) |->
                                 IF i <= Len(written) THEN written[i].msg ELSE m]
    BY <1>1, <1>3 DEF Messages
  <1>5. ASSUME NEW i \in 1..(Len(written) + 1)
        PROVE  written'[i].msg = IF i <= Len(written) THEN written[i].msg ELSE m
    BY <1>5 DEF DataOK
  <1> QED
    BY <1>2, <1>4, <1>5

LEMMA RefinesInit == Init => Abstract!AbsInit
  BY DEF Init, Abstract!AbsInit, InHand

\* Steps that neither move a payload nor write one.
LEMMA Stutters ==
    ASSUME UNCHANGED <<payloads, p, written, logLevel, late>>,
           InHand' = InHand
    PROVE  UNCHANGED Abstract!absVars
  BY DEF Abstract!absVars, Messages

LEMMA RefinesStep ==
    ASSUME ControlOK, DataOK, DataOK', [Next]_vars
    PROVE  [Abstract!AbsNext]_(Abstract!absVars)
  <1> USE DEF DataOK, ControlOK, drainVars, producerVars, writerVars, ownerVars
  <1>1. ASSUME NEW t \in Producers,
               Construct(t) \/ LogLock(t) \/ LogNotify(t) \/ LogUnlock(t)
        PROVE  UNCHANGED Abstract!absVars
    <2>1. UNCHANGED <<payloads, p, written, logLevel, late>> /\ wpc' = wpc
      BY <1>1 DEF Construct, LogLock, LogNotify, LogUnlock
    <2> QED
      BY <2>1, Stutters DEF InHand
  <1>2. ASSUME NEW t \in Producers, LogPush(t)
        PROVE  \E m \in Payloads : Abstract!Accept(m)
    <2>1. source[t] \in Payloads /\ payloads' = Append(payloads, source[t])
      BY <1>2 DEF LogPush
    <2>2. InHand' = InHand /\ InHand \in Seq(Payloads)
      BY <1>2 DEF LogPush, InHand
    <2>3. InHand \o Append(payloads, source[t]) = Append(InHand \o payloads, source[t])
      BY <2>1, <2>2, SMTT(30)
    <2>4. Abstract!Accept(source[t])
      BY <1>2, <2>1, <2>2, <2>3 DEF LogPush, Abstract!Accept
    <2> QED
      BY <2>1, <2>4
  <1>3. CASE WriterWait \/ WriterLock \/ WriterTest \/ WriterUnlock
    <2>1. UNCHANGED <<payloads, p, written, logLevel, late>>
      BY <1>3 DEF WriterWait, WriterLock, WriterTest, WriterUnlock
    <2>2. InHand' = InHand
      BY <1>3, <2>1 DEF WriterWait, WriterLock, WriterTest, WriterUnlock, InHand
    <2> QED
      BY <2>1, <2>2, Stutters
  <1>4. CASE WriterPop
    <2>1. InHand = <<>> /\ InHand' = <<Head(payloads)>>
      BY <1>4 DEF WriterPop, InHand
    <2>2. <<>> \o payloads = payloads /\ <<Head(payloads)>> \o Tail(payloads) = payloads
      BY <1>4 DEF WriterPop
    <2> QED
      BY <1>4, <2>1, <2>2 DEF WriterPop, Abstract!absVars
  <1>5. CASE WriterWrite
    <2>1. InHand = <<p>> /\ InHand' = <<>> /\ p \in Payloads
      BY <1>5 DEF WriterWrite, InHand
    <2>2. /\ <<p>> \o payloads # <<>>
          /\ Head(<<p>> \o payloads) = p
          /\ Tail(<<p>> \o payloads) = payloads
          /\ <<>> \o payloads = payloads
      BY <2>1
    <2>3. Messages' = IF p.level >= logLevel THEN Append(Messages, p) ELSE Messages
      <3>1. CASE p.level >= logLevel
        BY <1>5, <2>1, <3>1, MessagesAppend DEF WriterWrite
      <3>2. CASE ~(p.level >= logLevel)
        BY <1>5, <3>2 DEF WriterWrite, Messages
      <3> QED
        BY <3>1, <3>2
    <2>4. payloads' = payloads /\ logLevel' = logLevel /\ late' = late
      BY <1>5 DEF WriterWrite
    <2>5. Abstract!Emit
      BY <2>1, <2>2, <2>3, <2>4 DEF Abstract!Emit, Messages
    <2> QED
      BY <2>5 DEF Abstract!AbsNext
  <1>6. CASE Owner
    <2>1. /\ wpc' = wpc /\ payloads' = payloads
          /\ p' = p /\ written' = written /\ logLevel' \in Levels /\ late' = late
      BY <1>6, OwnerKeeps DEF Owner, StartProducers, EndLogger, Destroy, EndNotify,
                              Join, SetOutput, SetLogLevel
    <2>2. InHand' = InHand /\ Messages' = Messages
      BY <2>1 DEF InHand, Messages
    <2>3. Abstract!SetLevel
      BY <2>1, <2>2 DEF Abstract!SetLevel, Messages
    <2> QED
      BY <2>3 DEF Abstract!AbsNext
  <1>7. CASE UNCHANGED vars
    BY <1>7, Stutters DEF vars, InHand
  <1> QED
    BY <1>1, <1>2, <1>3, <1>4, <1>5, <1>6, <1>7
       DEF Next, Producer, Writer, Abstract!AbsNext

\* Deque, mutex, semaphore and writer implement one queue: what is logged is
\* written or discarded once and in the order of the pushes, for any number
\* of producers and whenever the logger is ended (log.hpp 85-126).
THEOREM Refinement == SafeSpec => Abstract!AbsSafeSpec
  <1>1. ControlOK /\ DataOK /\ [Next]_vars => (ControlOK /\ DataOK)'
    BY ControlStep, DataStep
  <1>2. ControlOK /\ DataOK /\ DataOK' /\ [Next]_vars
           => [Abstract!AbsNext]_(Abstract!absVars)
    BY RefinesStep
  <1> QED
    BY ControlInit, DataInit, RefinesInit, <1>1, <1>2, PTL
       DEF SafeSpec, Abstract!AbsSafeSpec
=============================================================================
