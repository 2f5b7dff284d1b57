----------------------------- MODULE MCSemaphore -----------------------------
\* Instance of Semaphore for TLC.
EXTENDS Semaphore

\* A semaphore made by default, one made with a permit and one made with a
\* debt (the constructor takes any int).
MCInitCounts == {-1, 0, 1}
=============================================================================
