----------------------------- MODULE Membership -----------------------------
(***************************************************************************)
(* Validator memberships and the joint quorum of a transition between two  *)
(* of them (splitchain/membership.py).  The code is immutable data that no *)
(* node uses yet, so this module has operators and no state; their         *)
(* theorems are in FinalityProofs.                                         *)
(***************************************************************************)
EXTENDS Naturals, FiniteSets

\* The tuple of distinct names is a set.
IsMembership(m) ==
    /\ m.epoch \in Nat
    /\ IsFiniteSet(m.validators) /\ Cardinality(m.validators) >= 3

quorum(m) == (2 * Cardinality(m.validators) + 2) \div 3

approves(m, voters) == Cardinality(voters \cap m.validators) >= quorum(m)

IsJointMembership(previous, candidate) ==
    /\ IsMembership(previous) /\ IsMembership(candidate)
    /\ candidate.epoch = previous.epoch + 1
    /\ previous.validators \subseteq candidate.validators

joint_approves(previous, candidate, voters) == approves(previous, voters) /\ approves(candidate, voters)
=============================================================================
