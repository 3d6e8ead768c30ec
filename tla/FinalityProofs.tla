--------------------------- MODULE FinalityProofs ---------------------------
(***************************************************************************)
(* Proofs about Finality.  HonestVotes is the strengthening: an honest     *)
(* observer votes only at the object of the candidate it chose and only    *)
(* with its own key, whatever is forged in its name.  With the quorums of  *)
(* RoundsPassedByQuorum it yields agreement by counting: two quorums share *)
(* a third of the observers.  The same count carries over a change of the  *)
(* Membership.                                                             *)
(***************************************************************************)
EXTENDS Finality, Membership, FiniteSetTheorems, TLAPS

HonestVotes ==
    \A c \in Candidates, r \in Rounds : \A o \in Observers \ Faulty :
        votes[c][r][o] # NoVote => chosen[o] = c /\ votes[c][r][o] = OwnKey

\* A vote quarantines or is recorded, or has no effect.
LEMMA VoteEffects ==
    ASSUME Next
    PROVE  \E c \in Candidates, o \in Observers, r \in Rounds, k \in Keys :
               Quarantine(c, o) \/ acknowledge(c, o, r, k)
<1>1. PICK c \in Candidates, o \in Observers, r \in Rounds :
          \/ \E d \in Candidates : conflicting_vote(c, o, d, r)
          \/ \E k \in Keys : acknowledge(c, o, r, k) \/ equivocation(c, o, r, k)
    BY DEF Next
<1>2. CASE Quarantine(c, o)
    BY <1>2, KeysAssumption
<1>3. CASE \E k \in Keys : acknowledge(c, o, r, k)
    BY <1>3
<1> QED BY <1>1, <1>2, <1>3 DEF conflicting_vote, equivocation

LEMMA VotersFinite ==
    ASSUME NEW c, NEW r
    PROVE  voters(c, r) \subseteq Observers /\ IsFiniteSet(voters(c, r))
                /\ Cardinality(voters(c, r)) \in Nat
BY ObserversAssumption, FS_Subset, FS_CardinalityType DEF voters

LEMMA QuorumType == quorum_size \in Nat /\ Cardinality(Observers) \in Nat
                    /\ 3 * quorum_size >= 2 * Cardinality(Observers) /\ quorum_size >= 2
BY ObserversAssumption, FS_CardinalityType DEF quorum_size

-----------------------------------------------------------------------------
LEMMA TypeInit == Init => TypeOK
BY DEF Init, TypeOK, Rounds, ROUNDS

LEMMA TypeNext == TypeOK /\ [Next]_vars => TypeOK'
<1> SUFFICES ASSUME TypeOK, [Next]_vars PROVE TypeOK'
    OBVIOUS
<1>1. CASE UNCHANGED vars
    BY <1>1 DEF TypeOK, vars
<1>2. CASE Next
    <2>1. PICK c \in Candidates, o \in Observers, r \in Rounds, k \in Keys :
              Quarantine(c, o) \/ acknowledge(c, o, r, k)
        BY <1>2, VoteEffects
    <2>2. CASE Quarantine(c, o)
        BY <2>2 DEF TypeOK, Quarantine
    <2>3. CASE acknowledge(c, o, r, k)
        <3>1. after(r) \in Rounds
            BY DEF after, Rounds, ROUNDS
        <3>2. votes' \in [Candidates -> [Rounds -> [Observers -> Keys \cup {NoVote}]]]
            BY <2>3 DEF TypeOK, acknowledge
        <3>3. current_round' \in [Candidates -> Rounds] /\ finalized' \in [Candidates -> BOOLEAN]
            BY <2>3, <3>1 DEF TypeOK, acknowledge
        <3> QED BY <2>3, <3>2, <3>3 DEF TypeOK, acknowledge
    <2> QED BY <2>1, <2>2, <2>3
<1> QED BY <1>1, <1>2

\* Every variable of the finality objects keeps its type.
THEOREM TypeCorrect == Spec => []TypeOK
<1>1. Init => TypeOK
    BY TypeInit
<1>2. TypeOK /\ [Next]_vars => TypeOK'
    BY TypeNext
<1> QED BY <1>1, <1>2, PTL DEF Spec
-----------------------------------------------------------------------------
Inv == TypeOK /\ RoundsPassedByQuorum /\ HonestVotes

LEMMA InvInit == Init => Inv
<1> SUFFICES ASSUME Init PROVE RoundsPassedByQuorum /\ HonestVotes
    BY TypeInit DEF Inv
<1>1. \A c \in Candidates, r \in Rounds : voters(c, r) = {}
    BY DEF Init, voters
<1>2. \A c \in Candidates, r \in Rounds : ~(r < current_round[c]) /\ ~finalized[c]
    BY DEF Init, Rounds, ROUNDS
<1>3. RoundsPassedByQuorum
    BY <1>1, <1>2 DEF RoundsPassedByQuorum
<1>4. HonestVotes
    BY DEF Init, HonestVotes
<1> QED BY <1>3, <1>4

LEMMA InvNext == Inv /\ [Next]_vars => Inv'
<1> SUFFICES ASSUME Inv, [Next]_vars PROVE RoundsPassedByQuorum' /\ HonestVotes'
    BY TypeNext DEF Inv
<1> USE DEF Inv
<1>1. CASE UNCHANGED vars
    BY <1>1 DEF vars, RoundsPassedByQuorum, HonestVotes, voters, certified
<1>2. CASE Next
    <2>1. PICK c \in Candidates, o \in Observers, r \in Rounds, k \in Keys :
              Quarantine(c, o) \/ acknowledge(c, o, r, k)
        BY <1>2, VoteEffects
    <2>2. CASE Quarantine(c, o)
        <3>1. UNCHANGED <<chosen, current_round, votes, finalized>>
            BY <2>2 DEF Quarantine
        <3>2. \A b \in Candidates, q \in Rounds : voters(b, q)' = voters(b, q)
            BY <3>1 DEF voters
        <3>3. RoundsPassedByQuorum'
            BY <3>1, <3>2 DEF RoundsPassedByQuorum, certified, quorum_size
        <3> QED BY <3>1, <3>3 DEF HonestVotes
    <2>3. CASE acknowledge(c, o, r, k)
        <3>1. r = current_round[c] /\ ~finalized[c] /\ certified(o, r) /\ votes[c][r][o] = NoVote
            BY <2>3 DEF acknowledge, current
        <3>2. k # NoVote
            BY KeysAssumption
        <3>3. voters(c, r)' = voters(c, r) \cup {o}
            BY <2>3, <3>2 DEF acknowledge, voters, TypeOK
        <3>4. \A b \in Candidates, q \in Rounds : b # c \/ q # r => voters(b, q)' = voters(b, q)
            BY <2>3 DEF acknowledge, voters, TypeOK
        <3>5. ASSUME NEW b \in Candidates, NEW q \in Rounds
              PROVE  /\ q < current_round'[b] \/ finalized'[b]
                            => Cardinality(voters(b, q)') >= quorum_size
                     /\ q > current_round'[b] => voters(b, q)' = {}
                     /\ \A x \in voters(b, q)' : certified(x, q)
            <4>1. CASE b # c
                <5>1. current_round'[b] = current_round[b] /\ finalized'[b] = finalized[b]
                    BY <2>3, <4>1 DEF acknowledge, TypeOK
                <5> QED BY <3>4, <4>1, <5>1 DEF RoundsPassedByQuorum
            <4>2. CASE b = c
                <5> DEFINE closes == Cardinality(voters(c, r) \cup {o}) >= quorum_size
                <5>1. /\ current_round'[c] = IF closes THEN after(r) ELSE r
                      /\ finalized'[c] = (closes /\ r = ROUNDS)
                    BY <2>3, <3>1 DEF acknowledge, TypeOK
                <5>2. r \in 1..3 /\ q \in 1..3
                    BY DEF Rounds, ROUNDS
                <5>3. q < r => Cardinality(voters(c, q)) >= quorum_size
                    BY <3>1 DEF RoundsPassedByQuorum
                <5>4. q > r => voters(c, q) = {}
                    BY <3>1 DEF RoundsPassedByQuorum
                <5>5. \A x \in voters(c, q) : certified(x, q)
                    BY DEF RoundsPassedByQuorum
                <5>6. q < current_round'[c] \/ finalized'[c] => q < r \/ (q = r /\ closes)
                    <6> HIDE DEF closes
                    <6>1. ~finalized'[c] \/ (closes /\ r = ROUNDS)
                        BY <5>1
                    <6>2. q < current_round'[c] => q < r \/ (q = r /\ closes)
                        BY <5>1, <5>2 DEF after, ROUNDS
                    <6>3. r = ROUNDS => q < r \/ q = r
                        BY <5>2 DEF ROUNDS
                    <6> QED BY <6>1, <6>2, <6>3
                <5>7. q > current_round'[c] => q > r
                    BY <5>1, <5>2 DEF after, ROUNDS
                <5>8. CASE q = r
                    BY <3>1, <3>3, <4>2, <5>2, <5>5, <5>6, <5>7, <5>8
                <5>9. CASE q # r
                    BY <3>4, <4>2, <5>3, <5>4, <5>5, <5>6, <5>7, <5>9
                <5> QED BY <5>8, <5>9
            <4> QED BY <4>1, <4>2
        <3>6. RoundsPassedByQuorum'
            BY <3>5 DEF RoundsPassedByQuorum, certified, quorum_size
        <3>7. HonestVotes'
            BY <2>3 DEF Signs, acknowledge, HonestVotes, TypeOK
        <3> QED BY <3>6, <3>7
    <2> QED BY <2>1, <2>2, <2>3
<1> QED BY <1>1, <1>2

LEMMA AlwaysInv == Spec => []Inv
<1>1. Init => Inv
    BY InvInit
<1>2. Inv /\ [Next]_vars => Inv'
    BY InvNext
<1> QED BY <1>1, <1>2, PTL DEF Spec

\* Every round a candidate has passed was passed by a quorum of certified observers, for
\* any number of observers and any certificates.
THEOREM QuorumInEveryRound == Spec => []RoundsPassedByQuorum
<1>1. Inv => RoundsPassedByQuorum
    BY DEF Inv
<1> QED BY <1>1, AlwaysInv, PTL
-----------------------------------------------------------------------------
LEMMA QuorumsShareFaulty == Inv => NoConflictingFinality
<1> SUFFICES ASSUME Inv, NEW c \in Candidates, NEW d \in Candidates, c # d,
                    finalized[c], finalized[d]
             PROVE  3 * Cardinality(Faulty) >= Cardinality(Observers)
    BY DEF NoConflictingFinality
<1> DEFINE A == voters(c, 1)
           B == voters(d, 1)
<1>1. 1 \in Rounds
    BY DEF Rounds, ROUNDS
<1>2. Cardinality(A) >= quorum_size /\ Cardinality(B) >= quorum_size
    BY <1>1 DEF Inv, RoundsPassedByQuorum
<1>3. A \cap B \subseteq Faulty
    BY <1>1 DEF Inv, HonestVotes, voters
<1>4. /\ A \subseteq Observers /\ IsFiniteSet(A) /\ Cardinality(A) \in Nat
      /\ B \subseteq Observers /\ IsFiniteSet(B) /\ Cardinality(B) \in Nat
    BY VotersFinite
<1> HIDE DEF A, B
<1>5. Cardinality(A \cup B) = Cardinality(A) + Cardinality(B) - Cardinality(A \cap B)
    BY <1>4, FS_Union
<1>6. Cardinality(A \cup B) <= Cardinality(Observers) /\ Cardinality(A \cup B) \in Nat
    BY <1>4, ObserversAssumption, FS_Subset, FS_CardinalityType
<1>7. Cardinality(A \cap B) <= Cardinality(Faulty)
    BY <1>3, ObserversAssumption, FS_Subset
<1>8. IsFiniteSet(Faulty) /\ IsFiniteSet(A \cap B)
    BY <1>3, ObserversAssumption, FS_Subset
<1>9. Cardinality(Faulty) \in Nat /\ Cardinality(A \cap B) \in Nat
    BY <1>8, FS_CardinalityType
<1> QED BY <1>2, <1>4, <1>5, <1>6, <1>7, <1>9, QuorumType

\* Two candidates of a branch are never both final while fewer than a third of the
\* observers are faulty: the quorum (2n + 2) div 3 is large enough for every n.
THEOREM Agreement == Spec => []NoConflictingFinality
<1>1. Inv => NoConflictingFinality
    BY QuorumsShareFaulty
<1> QED BY <1>1, AlwaysInv, PTL
-----------------------------------------------------------------------------
\* The object's round is still open for want of voters.
OpenForQuorum ==
    \A c \in Candidates : ~finalized[c] => Cardinality(voters(c, current_round[c])) < quorum_size

LEMMA OpenInit == Init => OpenForQuorum
<1> SUFFICES ASSUME Init, NEW c \in Candidates
             PROVE  Cardinality(voters(c, current_round[c])) < quorum_size
    BY DEF OpenForQuorum
<1>1. voters(c, current_round[c]) = {}
    BY DEF Init, voters, Rounds, ROUNDS
<1> QED BY <1>1, FS_EmptySet, QuorumType

LEMMA OpenNext == Inv /\ OpenForQuorum /\ [Next]_vars => OpenForQuorum'
<1> SUFFICES ASSUME Inv, OpenForQuorum, [Next]_vars, NEW b \in Candidates, ~finalized'[b]
             PROVE  Cardinality(voters(b, current_round[b])') < quorum_size
    BY DEF OpenForQuorum, quorum_size
<1>1. CASE UNCHANGED <<current_round, votes, finalized>>
    BY <1>1 DEF OpenForQuorum, voters
<1>2. ASSUME NEW c \in Candidates, NEW o \in Observers, NEW r \in Rounds, NEW k \in Keys,
             acknowledge(c, o, r, k)
      PROVE  Cardinality(voters(b, current_round[b])') < quorum_size
    <2>1. r = current_round[c] /\ r \in 1..3 /\ current_round \in [Candidates -> 1..3]
        BY <1>2 DEF acknowledge, current, Inv, TypeOK, Rounds, ROUNDS
    <2>2. k # NoVote
        BY KeysAssumption
    <2>3. CASE b # c
        <3>1. current_round'[b] = current_round[b] /\ finalized'[b] = finalized[b]
            BY <1>2, <2>3 DEF acknowledge, Inv, TypeOK
        <3>2. voters(b, current_round[b])' = voters(b, current_round[b])
            BY <1>2, <2>3, <3>1 DEF acknowledge, voters, Inv, TypeOK
        <3> QED BY <3>1, <3>2 DEF OpenForQuorum
    <2>4. CASE b = c
        <3> DEFINE closes == Cardinality(voters(c, r) \cup {o}) >= quorum_size
        <3>1. /\ current_round'[c] = IF closes THEN after(r) ELSE r
              /\ finalized'[c] = (closes /\ r = ROUNDS)
            BY <1>2, <2>1 DEF acknowledge, Inv, TypeOK
        <3>2. CASE closes
            <4>1. r # ROUNDS /\ current_round'[c] = r + 1 /\ r + 1 \in Rounds
                <5>1. ~(closes /\ r = ROUNDS)
                    BY <2>4, <3>1
                <5>2. r # 3
                    BY <3>2, <5>1 DEF ROUNDS
                <5> HIDE DEF closes
                <5> QED BY <2>1, <3>1, <3>2, <5>2 DEF after, Rounds, ROUNDS
            <4>2. voters(c, r + 1) = {}
                BY <2>1, <4>1 DEF Inv, RoundsPassedByQuorum
            <4>3. voters(c, current_round[c])' = voters(c, r + 1)
                <5>1. \A x \in Observers : votes'[c][r + 1][x] = votes[c][r + 1][x]
                    BY <1>2, <2>1, <4>1 DEF acknowledge, Inv, TypeOK
                <5> QED BY <4>1, <5>1 DEF voters
            <4> QED BY <2>4, <4>2, <4>3, FS_EmptySet, QuorumType
        <3>3. CASE ~closes
            <4>1. current_round'[c] = r
                BY <3>1, <3>3
            <4>2. voters(c, current_round[c])' = voters(c, r) \cup {o}
                <5>1. \A x \in Observers : votes'[c][r][x] = IF x = o THEN k ELSE votes[c][r][x]
                    BY <1>2 DEF acknowledge, Inv, TypeOK
                <5> QED BY <2>2, <4>1, <5>1 DEF voters
            <4>3. Cardinality(voters(c, r) \cup {o}) \in Nat
                BY VotersFinite, FS_AddElement, FS_CardinalityType
            <4> QED BY <2>4, <3>3, <4>2, <4>3, QuorumType
        <3> QED BY <3>2, <3>3
    <2> QED BY <2>3, <2>4
<1>3. CASE Next
    <2>1. PICK c \in Candidates, o \in Observers, r \in Rounds, k \in Keys :
              Quarantine(c, o) \/ acknowledge(c, o, r, k)
        BY <1>3, VoteEffects
    <2> QED BY <1>1, <1>2, <2>1 DEF Quarantine
<1> QED BY <1>1, <1>3 DEF vars

\* Whatever is forged in its name, an honest observer's recorded votes are its own, and no
\* object waits in a round that has its quorum.
THEOREM HonestVotesStand == Spec => []HonestVotesCount
<1>1. Init => OpenForQuorum
    BY OpenInit
<1>2. Inv /\ OpenForQuorum /\ [Next]_vars => OpenForQuorum'
    BY OpenNext
<1>3. Inv /\ OpenForQuorum => HonestVotesCount
    BY DEF Inv, OpenForQuorum, HonestVotes, HonestVotesCount, voters
<1> QED BY <1>1, <1>2, <1>3, AlwaysInv, PTL DEF Spec
-----------------------------------------------------------------------------
(* Memberships.                                                            *)

LEMMA QuorumsShareThird ==
    ASSUME NEW m, IsMembership(m), NEW v, NEW w, approves(m, v), approves(m, w)
    PROVE  3 * Cardinality(v \cap w \cap m.validators) >= Cardinality(m.validators)
<1> DEFINE A == v \cap m.validators
           B == w \cap m.validators
<1>1. IsFiniteSet(m.validators) /\ IsFiniteSet(A) /\ IsFiniteSet(B)
    BY FS_Subset DEF IsMembership
<1>2. A \cap B = v \cap w \cap m.validators /\ A \cup B \subseteq m.validators
    OBVIOUS
<1>3. Cardinality(A) >= quorum(m) /\ Cardinality(B) >= quorum(m)
    BY DEF approves
<1> HIDE DEF A, B
<1>4. Cardinality(A \cup B) = Cardinality(A) + Cardinality(B) - Cardinality(A \cap B)
    BY <1>1, FS_Union
<1>5. Cardinality(A \cup B) <= Cardinality(m.validators) /\ IsFiniteSet(A \cap B) /\ IsFiniteSet(A \cup B)
    BY <1>1, <1>2, FS_Subset, FS_Intersection, FS_Union
<1>6. /\ Cardinality(A) \in Nat /\ Cardinality(B) \in Nat /\ Cardinality(A \cap B) \in Nat
      /\ Cardinality(A \cup B) \in Nat /\ Cardinality(m.validators) \in Nat
    BY <1>1, <1>5, FS_CardinalityType
<1>7. 3 * quorum(m) >= 2 * Cardinality(m.validators) /\ quorum(m) \in Nat
    BY <1>6 DEF quorum
<1>8. 3 * Cardinality(A \cap B) >= Cardinality(m.validators)
    BY <1>3, <1>4, <1>5, <1>6, <1>7
<1> QED BY <1>2, <1>8, Zenon

\* What a JointMembership approves shares a third of the validators with all that the previous
\* membership approves alone, and a third of its own with all that the candidate approves
\* alone (membership.py): no decision of before, during or after the transition is made behind
\* the back of another, unless a third of one membership approves both.  The two memberships
\* alone have no such bond: with three validators and six, two of the old and four of the new
\* are quorums without a common member.
THEOREM JointQuorumsIntersect ==
    ASSUME NEW previous, NEW candidate, IsJointMembership(previous, candidate),
           NEW v, NEW w, joint_approves(previous, candidate, v)
    PROVE  /\ approves(previous, w) =>
                  3 * Cardinality(v \cap w \cap previous.validators) >= Cardinality(previous.validators)
           /\ approves(candidate, w) =>
                  3 * Cardinality(v \cap w \cap candidate.validators) >= Cardinality(candidate.validators)
BY QuorumsShareThird DEF IsJointMembership, joint_approves
=============================================================================
