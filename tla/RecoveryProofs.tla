-------------------------- MODULE RecoveryProofs --------------------------
(***************************************************************************)
(* Proofs about Recovery: for any observers, certificates and window a     *)
(* challenge is a quorum of claims about one round, ends exactly once, and *)
(* costs a role only after its window.                                     *)
(***************************************************************************)
EXTENDS Recovery, FiniteSetTheorems, TLAPS

\* The reporters accuse the active role and agree on a round in which each of them was certified.
ClaimsAgree ==
    /\ \A o \in Reporters : claims[o].role = active_role
    /\ claims = [o \in Reporters |-> claims[o]]
    /\ \A o, p \in Reporters : claims[o].round = claims[p].round
    /\ \A o \in Reporters : verified(o, claims[o].round)

\* The open challenge is the last one opened, against the active role.
OpenIsLast ==
    pending_deadline # None =>
        /\ pending_round \in Rounds
        /\ opened # <<>>
        /\ opened[Len(opened)].role = active_role /\ opened[Len(opened)].round = pending_round

Challenge == [role : 1..3, round : Rounds, at : Rounds]

Histories ==
    /\ opened \in Seq(Challenge)
    /\ disputed \in Seq([role : 1..3, round : Rounds, counterproof : Evidence])
    /\ aborted => pending_deadline = None

IInv == TypeOK /\ ClaimsAgree /\ ChallengeIsQuorum /\ OpenIsLast /\ Histories /\ ResolvedOnce
-----------------------------------------------------------------------------
LEMMA QuorumPositive == quorum_size \in Nat /\ quorum_size >= 1
BY RolesAssumption DEF quorum_size

LEMMA NoReporters == DOMAIN NoClaims = {} /\ Cardinality({}) = 0
BY FS_EmptySet DEF NoClaims

LEMMA ReportersCounted ==
    ASSUME TypeOK
    PROVE  IsFiniteSet(Reporters) /\ Cardinality(Reporters) \in Nat
<1>1. Reporters \subseteq Observers
  BY DEF TypeOK
<1>2. IsFiniteSet(Reporters)
  BY <1>1, FS_Subset, RolesAssumption
<1> QED BY <1>2, FS_CardinalityType

LEMMA Initially == Init => IInv
<1> SUFFICES ASSUME Init PROVE IInv
  OBVIOUS
<1>1. Reporters = {} /\ claims = NoClaims
  BY NoReporters DEF Init, Reporters
<1>2. TypeOK
  <2>1. now \in Rounds /\ active_role \in 1..3
    BY BoundsAssumption DEF Init, Rounds
  <2>2. aborted \in BOOLEAN
    BY DEF Init
  <2> QED BY <1>1, <2>1, <2>2 DEF Init, TypeOK
<1>3. ClaimsAgree
  BY <1>1 DEF ClaimsAgree, NoClaims
<1>4. ChallengeIsQuorum
  BY <1>1, QuorumPositive, NoReporters DEF ChallengeIsQuorum, Init
<1>5. OpenIsLast /\ Histories /\ ResolvedOnce
  BY DEF OpenIsLast, Histories, ResolvedOnce, Init
<1> QED BY <1>2, <1>3, <1>4, <1>5 DEF IInv

LEMMA TickKeeps == ASSUME IInv, Tick PROVE IInv'
<1>1. TypeOK'
  BY BoundsAssumption DEF IInv, TypeOK, Tick, Rounds, challenge, Reporters
<1>2. ClaimsAgree' /\ ChallengeIsQuorum' /\ OpenIsLast' /\ Histories' /\ ResolvedOnce'
  BY DEF IInv, Tick, challenge, ClaimsAgree, ChallengeIsQuorum, OpenIsLast, Histories,
         ResolvedOnce, Reporters, verified, quorum_size
<1> QED BY <1>1, <1>2 DEF IInv

LEMMA ConflictKeeps ==
    ASSUME IInv, NEW o \in Observers, NEW claim \in Claim, conflicting_claim(o, claim)
    PROVE  IInv'
<1>1. TypeOK'
  BY DEF IInv, TypeOK, conflicting_claim, challenge, Reporters
<1>2. ClaimsAgree' /\ ChallengeIsQuorum' /\ OpenIsLast' /\ Histories' /\ ResolvedOnce'
  BY DEF IInv, conflicting_claim, challenge, ClaimsAgree, ChallengeIsQuorum, OpenIsLast, Histories,
         ResolvedOnce, Reporters, verified, quorum_size
<1> QED BY <1>1, <1>2 DEF IInv

LEMMA ClaimKeeps ==
    ASSUME IInv, NEW o \in Observers, NEW claim \in Claim, submit_claim(o, claim)
    PROVE  IInv'
<1> DEFINE all == Reporters \cup {o}
<1>1. claims' = [p \in all |-> IF p = o THEN claim ELSE claims[p]] /\ Reporters' = all
  BY DEF submit_claim, Reporters
<1>2. /\ pending_deadline = None /\ ~aborted /\ o \notin Reporters
      /\ verified(o, claim.round) /\ claim.role = active_role
  BY DEF submit_claim, accepts
<1>3. IsFiniteSet(all) /\ Cardinality(all) \in Nat
  BY ReportersCounted, FS_AddElement, FS_CardinalityType DEF IInv
<1>4. claim.round \in Rounds /\ claim.round \in Nat
  BY BoundsAssumption DEF Claim, Rounds
<1>5. \A p \in all : claims'[p] \in Claim /\ claims'[p].round = claim.round
  BY <1>1 DEF IInv, TypeOK, submit_claim, same_round
<1>6. ClaimsAgree'
  <2>1. \A p \in all : verified(p, claims'[p].round) /\ claims'[p].role = active_role'
    BY <1>1, <1>2 DEF IInv, ClaimsAgree, submit_claim
  <2> QED BY <1>1, <1>5, <2>1 DEF ClaimsAgree, verified, Reporters
<1>7. all \subseteq Observers
  BY DEF IInv, TypeOK
<1>8. /\ active_role' = active_role /\ disputed' = disputed /\ aborted' = aborted
      /\ now' = now /\ quarantined' = quarantined
  BY DEF submit_claim
<1>9. CASE Cardinality(all) >= quorum_size
  <2>1. /\ pending_round' = claim.round
        /\ pending_deadline' = claim.round + counterproof_window
        /\ opened' = Append(opened, [role |-> active_role, round |-> claim.round, at |-> now])
    BY <1>9 DEF submit_claim
  <2>2. pending_deadline' \in Nat /\ pending_deadline' # None
    BY <1>4, <2>1, RolesAssumption, BoundsAssumption
  <2>3. TypeOK'
    BY <1>1, <1>4, <1>5, <1>7, <1>8, <2>1, <2>2 DEF IInv, TypeOK
  <2>4. ChallengeIsQuorum'
    <3>1. \A p \in all : claims'[p].round = pending_round' /\ verified(p, pending_round')
      BY <1>1, <1>2, <1>5, <2>1 DEF IInv, ClaimsAgree
    <3> QED BY <1>1, <1>9, <2>1, <2>2, <3>1 DEF ChallengeIsQuorum, quorum_size, verified
  <2>5. opened \in Seq(Challenge) /\ active_role \in 1..3 /\ now \in Rounds
    BY DEF IInv, Histories, TypeOK
  <2>6. /\ opened' \in Seq(Challenge)
        /\ Len(opened') = Len(opened) + 1 /\ opened' # <<>>
        /\ opened'[Len(opened')].role = active_role /\ opened'[Len(opened')].round = claim.round
    <3>1. PICK c \in Challenge : c = [role |-> active_role, round |-> claim.round, at |-> now]
      BY <1>4, <2>5 DEF Challenge
    <3>2. c.role = active_role /\ c.round = claim.round
      BY <3>1
    <3> QED BY <2>1, <2>5, <3>1, <3>2
  <2>7. OpenIsLast' /\ Histories'
    BY <1>2, <1>4, <1>8, <2>1, <2>6 DEF IInv, OpenIsLast, Histories
  <2>8. Len(opened) \in Nat /\ Len(disputed) \in Nat
    BY DEF IInv, Histories
  <2>9. ResolvedOnce'
    BY <1>2, <1>8, <2>2, <2>5, <2>6, <2>8 DEF IInv, ResolvedOnce
  <2> QED BY <1>6, <2>3, <2>4, <2>7, <2>9 DEF IInv
<1>10. CASE ~(Cardinality(all) >= quorum_size)
  <2>1. UNCHANGED <<pending_round, pending_deadline, opened>>
    BY <1>10 DEF submit_claim
  <2>2. TypeOK'
    BY <1>1, <1>5, <1>7, <1>8, <2>1 DEF IInv, TypeOK
  <2>3. ChallengeIsQuorum'
    BY <1>1, <1>2, <1>10, <2>1 DEF ChallengeIsQuorum, quorum_size
  <2>4. OpenIsLast' /\ Histories' /\ ResolvedOnce'
    BY <1>8, <2>1 DEF IInv, OpenIsLast, Histories, ResolvedOnce
  <2> QED BY <1>6, <2>2, <2>3, <2>4 DEF IInv
<1> QED BY <1>9, <1>10

\* A challenge that is over leaves nothing behind.
LEMMA ResolvedEmpty ==
    ASSUME Resolve
    PROVE  /\ ClaimsAgree' /\ ChallengeIsQuorum' /\ OpenIsLast'
           /\ Reporters' = {} /\ pending_deadline' = None /\ pending_round' = None
<1>1. Reporters' = {} /\ pending_deadline' = None /\ pending_round' = None /\ claims' = NoClaims
  BY NoReporters DEF Resolve, Reporters
<1>2. ClaimsAgree' /\ OpenIsLast'
  BY <1>1 DEF ClaimsAgree, OpenIsLast, NoClaims
<1>3. ChallengeIsQuorum'
  BY <1>1, QuorumPositive, NoReporters DEF ChallengeIsQuorum, quorum_size
<1> QED BY <1>1, <1>2, <1>3

LEMMA CounterproofKeeps ==
    ASSUME IInv, NEW evidence \in Evidence, submit_counterproof(evidence)
    PROVE  IInv'
<1>1. /\ ClaimsAgree' /\ ChallengeIsQuorum' /\ OpenIsLast'
      /\ Reporters' = {} /\ pending_deadline' = None /\ pending_round' = None
  BY ResolvedEmpty DEF submit_counterproof
<1>2. UNCHANGED <<now, active_role, quarantined, aborted, opened>> /\ pending_deadline # None
  BY DEF submit_counterproof
<1>3. TypeOK'
  BY <1>1, <1>2 DEF IInv, TypeOK
<1> DEFINE answer == [role |-> active_role, round |-> pending_round, counterproof |-> evidence]
<1>4. disputed' = Append(disputed, answer)
  BY DEF submit_counterproof
<1>5. answer \in [role : 1..3, round : Rounds, counterproof : Evidence]
  BY <1>2 DEF IInv, TypeOK, OpenIsLast
<1>6. Histories' /\ Len(disputed') = Len(disputed) + 1
  BY <1>1, <1>2, <1>4, <1>5 DEF IInv, Histories
<1>7. Len(disputed) \in Nat /\ Len(opened) \in Nat /\ active_role \in 1..3
  BY DEF IInv, Histories, TypeOK
<1>8. ResolvedOnce'
  BY <1>1, <1>2, <1>6, <1>7 DEF IInv, ResolvedOnce
<1> QED BY <1>1, <1>3, <1>6, <1>8 DEF IInv

LEMMA AdvanceKeeps == ASSUME IInv, advance PROVE IInv'
<1>1. /\ ClaimsAgree' /\ ChallengeIsQuorum' /\ OpenIsLast'
      /\ Reporters' = {} /\ pending_deadline' = None /\ pending_round' = None
  BY ResolvedEmpty DEF advance
<1>2. UNCHANGED <<now, quarantined, disputed, opened>> /\ pending_deadline # None
  BY DEF advance, expired
<1>3. ~aborted /\ active_role \in 1..3
  BY <1>2 DEF IInv, Histories, TypeOK
<1>4. \/ active_role = 3 /\ aborted' = TRUE /\ active_role' = active_role
      \/ active_role # 3 /\ aborted' = aborted /\ active_role' = active_role + 1
  <2>1. Len(ROLE_ORDER) = 3 BY DEF ROLE_ORDER
  <2> QED BY <2>1 DEF advance
<1>5. TypeOK'
  <2>1. active_role' \in 1..3
    BY <1>3, <1>4
  <2>2. aborted' \in BOOLEAN
    BY <1>3, <1>4 DEF IInv, TypeOK
  <2> QED BY <1>1, <1>2, <2>1, <2>2 DEF IInv, TypeOK
<1>6. Histories'
  BY <1>1, <1>2, <1>3, <1>4 DEF IInv, Histories
<1>7. Len(disputed) \in Nat /\ Len(opened) \in Nat
  BY DEF IInv, Histories
<1>8. ResolvedOnce'
  BY <1>1, <1>2, <1>3, <1>4, <1>7 DEF IInv, ResolvedOnce
<1> QED BY <1>1, <1>5, <1>6, <1>8 DEF IInv

LEMMA NextKeeps == IInv /\ [Next]_vars => IInv'
<1> SUFFICES ASSUME IInv, [Next]_vars PROVE IInv'
  OBVIOUS
<1>1. CASE UNCHANGED vars
  BY <1>1 DEF vars, challenge, IInv, TypeOK, ClaimsAgree, ChallengeIsQuorum, OpenIsLast, Histories,
              ResolvedOnce, Reporters, verified, quorum_size
<1> QED BY <1>1, TickKeeps, ConflictKeeps, ClaimKeeps, CounterproofKeeps, AdvanceKeeps DEF Next

\* The inductive invariant of the coordinator: see IInv.
THEOREM Invariance == Spec => []IInv
<1>1. Init => IInv BY Initially
<1>2. IInv /\ [Next]_vars => IInv' BY NextKeeps
<1> QED BY <1>1, <1>2, PTL DEF Spec

\* RecoveryCoordinator's attributes keep their types, the role above all: there is no fourth.
THEOREM TypeCorrect == Spec => []TypeOK
<1>1. IInv => TypeOK BY DEF IInv
<1> QED BY <1>1, Invariance, PTL

\* submit_claim opens a challenge exactly when a quorum of certified reporters agrees.
THEOREM QuorumOpens == Spec => []ChallengeIsQuorum
<1>1. IInv => ChallengeIsQuorum BY DEF IInv
<1> QED BY <1>1, Invariance, PTL

\* Every challenge is answered by submit_counterproof or paid for in advance, once.
THEOREM EndsOnce == Spec => []ResolvedOnce
<1>1. IInv => ResolvedOnce BY DEF IInv
<1> QED BY <1>1, Invariance, PTL

\* advance takes a role for the claims of a quorum against that role only, and gives the holder
\* the whole window from the opening of the challenge unless the claims name a past round.
THEOREM WindowRespected == Spec => RoleLostAfterWindow
<1> DEFINE Step == active_role' # active_role \/ aborted' # aborted =>
                       /\ Cardinality({o \in Reporters : claims[o].role = active_role}) >= quorum_size
                       /\ LET last == opened[Len(opened)] IN
                          last.round >= last.at => now > last.at + counterproof_window
<1>1. IInv /\ [Next]_vars => [Step]_vars
  <2> SUFFICES ASSUME IInv, Next PROVE Step
    BY DEF vars
  <2>1. CASE advance
    <3>1. pending_deadline # None /\ now > pending_deadline
      BY <2>1 DEF advance, expired
    <3>2. pending_deadline = pending_round + counterproof_window /\ Cardinality(Reporters) >= quorum_size
      BY <3>1 DEF IInv, ChallengeIsQuorum
    <3>3. {o \in Reporters : claims[o].role = active_role} = Reporters
      BY DEF IInv, ClaimsAgree
    <3>4. PICK last : last = opened[Len(opened)]
      OBVIOUS
    <3>5. opened \in Seq(Challenge) /\ opened # <<>> /\ last.round = pending_round
      BY <3>1, <3>4 DEF IInv, OpenIsLast, Histories
    <3>6. last \in Challenge
      BY <3>4, <3>5
    <3>7. last.at \in Nat /\ pending_round \in Nat /\ now \in Nat /\ counterproof_window \in Nat
      BY <3>5, <3>6, RolesAssumption, BoundsAssumption DEF Challenge, Rounds, IInv, TypeOK
    <3>8. last.round >= last.at => now > last.at + counterproof_window
      BY <3>1, <3>2, <3>5, <3>7
    <3> QED BY <3>2, <3>3, <3>4, <3>8
  <2>2. CASE Tick
    BY <2>2 DEF Tick
  <2>3. CASE \E o \in Observers, claim \in Claim : submit_claim(o, claim) \/ conflicting_claim(o, claim)
    BY <2>3 DEF submit_claim, conflicting_claim
  <2>4. CASE \E evidence \in Evidence : submit_counterproof(evidence)
    BY <2>4 DEF submit_counterproof
  <2> QED BY <2>1, <2>2, <2>3, <2>4 DEF Next
<1> QED BY <1>1, Invariance, PTL DEF Spec, RoleLostAfterWindow
=============================================================================
