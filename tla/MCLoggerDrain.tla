---------------------------- MODULE MCLoggerDrain ----------------------------
\* Instances of LoggerDrain for TLC.
EXTENDS LoggerDrain

MCLevels == {1, 2}
\* One producer logs two messages, the others log one.
MCMaxLog == [t \in Producers |-> IF t = CHOOSE u \in Producers : TRUE THEN 2 ELSE 1]
=============================================================================
