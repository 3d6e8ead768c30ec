----------------------------- MODULE MCFinality -----------------------------
EXTENDS Finality, TLC

CONSTANTS o1, o2, o3, o4

\* The certificate of one honest observer ends before the last round.
MCValidRounds == [o \in Observers |-> IF o = o4 THEN {1, 2} ELSE Rounds]

Symmetry == Permutations(Observers \ (Faulty \cup {o4})) \cup Permutations(Candidates)
=============================================================================
