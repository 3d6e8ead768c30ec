------------------------------ MODULE Finality ------------------------------
(***************************************************************************)
(* Certified three-round finality (splitchain/finality.py).                *)
(*                                                                         *)
(* A ThreeRoundFinality object follows one candidate of one branch.  The   *)
(* module keeps one object per candidate, so that it can ask whether two   *)
(* candidates of the branch are ever both final.  Votes reach any object,  *)
(* in any order and any number of times, and a vote need not come from the *)
(* observer it names.  The signature is the last thing acknowledge checks: *)
(* before that, a vote for another candidate has quarantined the observer  *)
(* it names, whoever made it.  Past that check an honest observer's votes  *)
(* are for the candidate it chose and with its own key, for acknowledge    *)
(* takes the key to check with from its caller; a faulty one signs         *)
(* anything.  A vote for another branch or role is refused before it has   *)
(* any effect and is left out.                                             *)
(***************************************************************************)
EXTENDS Integers, FiniteSets

CONSTANTS
    Observers,   \* the assigned observers
    Faulty,      \* those that do not keep to one candidate and one key
    Candidates,  \* candidate digests of the branch
    Keys,        \* signing keys
    OwnKey,      \* the key of an honest observer
    NoVote,
    valid_rounds, \* observer -> the rounds in which its certificate is valid
    MaxQuarantined \* bound: observers that one object quarantines

ASSUME ObserversAssumption ==
    /\ IsFiniteSet(Observers) /\ Cardinality(Observers) >= 3
    /\ Faulty \subseteq Observers
    /\ valid_rounds \in [Observers -> SUBSET Nat]
ASSUME KeysAssumption == OwnKey \in Keys /\ NoVote \notin Keys

VARIABLES
    chosen,        \* observer -> the candidate an honest observer signs
    current_round, \* candidate -> round
    votes,         \* candidate -> round -> observer -> key of its vote
    quarantined,   \* candidate -> observers
    finalized      \* candidate -> BOOLEAN

vars == <<chosen, current_round, votes, quarantined, finalized>>

ROUNDS == 3

Rounds == 1..ROUNDS

\* Bug: a simple majority.
quorum_size_majority == Cardinality(Observers) \div 2

quorum_size == (2 * Cardinality(Observers) + 2) \div 3

voters(c, r) == {o \in Observers : votes[c][r][o] # NoVote}

\* CertificateAuthority.verify for the role "observer".
certified(o, r) == r \in valid_rounds[o]

\* Bug: a vote counts with any signature.
Signs_unchecked(o, d, k) == TRUE

\* The signature of the vote is one that FinalitySigner.vote made for this observer.
Signs(o, d, k) == o \in Faulty \/ (d = chosen[o] /\ k = OwnKey)

Init ==
    /\ chosen \in [Observers -> Candidates]
    /\ current_round = [c \in Candidates |-> 1]
    /\ votes = [c \in Candidates |-> [r \in Rounds |-> [o \in Observers |-> NoVote]]]
    /\ quarantined = [c \in Candidates |-> {}]
    /\ finalized = [c \in Candidates |-> FALSE]

\* Bug: a vote for a later round is taken as well.
current_or_later(c, r) == r >= current_round[c]

\* A candidate that is not final takes votes of its round only.
current(c, r) == r = current_round[c]

Quarantine(c, o) ==
    /\ Cardinality(quarantined[c] \cup {o}) <= MaxQuarantined
    /\ quarantined' = [quarantined EXCEPT ![c] = @ \cup {o}]
    /\ UNCHANGED <<chosen, current_round, votes, finalized>>

\* A vote for another candidate, by anyone: neither certificate nor signature is looked at yet.
conflicting_vote(c, o, d, r) ==
    /\ ~finalized[c] /\ current(c, r)
    /\ d # c
    /\ Quarantine(c, o)

\* The observer has voted in this round, and not with this vote.
equivocates(c, o, r, k) == votes[c][r][o] \notin {NoVote, k}

equivocation(c, o, r, k) ==
    /\ ~finalized[c] /\ current(c, r)
    /\ certified(o, r) /\ Signs(o, c, k)
    /\ equivocates(c, o, r, k)
    /\ Quarantine(c, o)

\* Bug: the last round is followed by another one.
after_unbounded(r) == r + 1
after(r) == IF r = ROUNDS THEN r ELSE r + 1

\* The first vote of an observer counts, quarantined or not; a quorum closes the round.
acknowledge(c, o, r, k) ==
    /\ ~finalized[c] /\ current(c, r)
    /\ certified(o, r) /\ Signs(o, c, k)
    /\ votes[c][r][o] = NoVote
    /\ votes' = [votes EXCEPT ![c][r][o] = k]
    /\ LET quorum == Cardinality(voters(c, r) \cup {o}) >= quorum_size IN
       /\ finalized' = [finalized EXCEPT ![c] = quorum /\ r = ROUNDS]
       /\ current_round' = [current_round EXCEPT ![c] = IF quorum THEN after(r) ELSE @]
    /\ UNCHANGED <<chosen, quarantined>>

Next ==
    \E c \in Candidates, o \in Observers, r \in Rounds :
        \/ \E d \in Candidates : conflicting_vote(c, o, d, r)
        \/ \E k \in Keys : acknowledge(c, o, r, k) \/ equivocation(c, o, r, k)

Spec == Init /\ [][Next]_vars
-----------------------------------------------------------------------------
(* Properties.                                                             *)

\* Every variable has its type.
TypeOK ==
    /\ chosen \in [Observers -> Candidates]
    /\ current_round \in [Candidates -> Rounds]
    /\ votes \in [Candidates -> [Rounds -> [Observers -> Keys \cup {NoVote}]]]
    /\ quarantined \in [Candidates -> SUBSET Observers]
    /\ finalized \in [Candidates -> BOOLEAN]

\* A candidate has passed a round only with a quorum of certified observers in it, and
\* a final one has passed all three; a vote counts in its own round or not at all.
RoundsPassedByQuorum ==
    \A c \in Candidates, r \in Rounds :
        /\ r < current_round[c] \/ finalized[c] => Cardinality(voters(c, r)) >= quorum_size
        /\ r > current_round[c] => voters(c, r) = {}
        /\ \A o \in voters(c, r) : certified(o, r)

\* Two candidates of one branch are never both final while fewer than a third of the
\* observers vote for both, although no object knows of the votes at the other.
NoConflictingFinality ==
    \A c, d \in Candidates :
        c # d /\ finalized[c] /\ finalized[d]
            => 3 * Cardinality(Faulty) >= Cardinality(Observers)

\* Votes forged in the name of an honest observer may quarantine it at any object, also at the
\* one of its own candidate, but they neither count for it nor stand in the way of its own:
\* wherever a vote of it is recorded, the candidate is the one it chose and the key its own.
\* And no vote is lost to the order of arrival: a round that is open has no quorum, though
\* a copy of a vote that is already there returns before the votes are counted.
HonestVotesCount ==
    \A c \in Candidates, r \in Rounds :
        /\ \A o \in voters(c, r) \ Faulty : chosen[o] = c /\ votes[c][r][o] = OwnKey
        /\ r = current_round[c] /\ ~finalized[c] => Cardinality(voters(c, r)) < quorum_size
=============================================================================
