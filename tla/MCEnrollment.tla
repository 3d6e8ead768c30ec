---------------------------- MODULE MCEnrollment ----------------------------
EXTENDS Enrollment, TLC

Symmetry == Permutations(Credentials)
=============================================================================
