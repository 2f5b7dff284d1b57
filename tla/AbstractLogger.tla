--------------------------- MODULE AbstractLogger ---------------------------
(***************************************************************************)
(* What the asynchronous logger (src/log.hpp) promises: one queue between  *)
(* the threads that log and the stream.  A message enters the queue once,  *)
(* when it is accepted, leaves it in the order of acceptance, and on       *)
(* leaving it is written exactly if its level reaches the drain's level.   *)
(***************************************************************************)
EXTENDS Naturals, Sequences

CONSTANTS Messages,  \* the messages that may be logged
          Levels     \* the log levels

VARIABLES queue,     \* accepted, and not yet written or discarded
          written,   \* what the stream was given
          logLevel,  \* the drain's level
          late       \* accepted when the logger had been ended

absVars == <<queue, written, logLevel, late>>

AbsInit == queue = <<>> /\ written = <<>> /\ logLevel \in Levels /\ late = {}

Accept(m) == /\ queue' = Append(queue, m)
             /\ late' \in {late, late \cup {m}}
             /\ UNCHANGED <<written, logLevel>>

Emit == /\ queue # <<>>
        /\ queue' = Tail(queue)
        /\ written' = IF Head(queue).level >= logLevel
                      THEN Append(written, Head(queue))
                      ELSE written
        /\ UNCHANGED <<logLevel, late>>

SetLevel == /\ logLevel' \in Levels
            /\ UNCHANGED <<queue, written, late>>

AbsNext == (\E m \in Messages : Accept(m)) \/ Emit \/ SetLevel

AbsSafeSpec == AbsInit /\ [][AbsNext]_absVars

\* Nothing that was accepted before the end stays in the queue for ever.
AbsSpec == AbsSafeSpec /\ WF_absVars(Emit /\ Head(queue) \notin late)
=============================================================================
