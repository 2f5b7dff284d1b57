--------------------------- MODULE MCDeathHandler ---------------------------
\* Instances of DeathHandler for TLC.
EXTENDS DeathHandler
=============================================================================
