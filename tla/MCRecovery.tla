----------------------------- MODULE MCRecovery -----------------------------
EXTENDS Recovery

CONSTANTS o1, o2, o3

MCRoleNodes == <<o1, o2, o3>>

\* The certificate of o3 is not renewed.
MCValidRounds == [o \in Observers |-> IF o = o3 THEN {0, 1} ELSE Rounds]
=============================================================================
