-------------------------------- MODULE Sums --------------------------------
(***************************************************************************)
(* The sum of the natural numbers a function takes, as the number of units *)
(* it counts.  It equals SumFunction of the community modules (MCLedger    *)
(* has TLC compare the two), but needs no induction to be reasoned about:  *)
(* see SumTheorems.                                                        *)
(***************************************************************************)
EXTENDS Integers, FiniteSets

\* One element per unit: the index it belongs to and its number there.
Units(f) == UNION {{x} \X (1..f[x]) : x \in DOMAIN f}

Total(f) == Cardinality(Units(f))
=============================================================================
