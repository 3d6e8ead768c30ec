------------------------------ MODULE Recovery ------------------------------
(***************************************************************************)
(* Proof-gated role takeover (splitchain/recovery.py): a quorum of failure *)
(* claims opens a challenge against the active role; the holder of the     *)
(* role answers it with a counterproof within a window, or the next role   *)
(* takes over; after the last role recovery is aborted.                    *)
(*                                                                         *)
(* The coordinator has no clock: its callers pass the current round, which *)
(* is `now`.  Claims and counterproofs are signed messages that may arrive *)
(* late and again.  A message for another branch, from the wrong actor or  *)
(* with a bad signature is refused without a trace and left out.           *)
(***************************************************************************)
EXTENDS Integers, Sequences, FiniteSets

CONSTANTS
    Observers,           \* nodes with an observer certificate
    role_nodes,          \* role number -> the node that holds it
    observer_count, counterproof_window,
    Evidence,            \* evidence digests
    valid_rounds,        \* observer -> the rounds in which its certificate is valid
    None,
    MaxRound,            \* bound: the last round
    MaxChallenges        \* bound: challenges opened

ASSUME RolesAssumption ==
    /\ IsFiniteSet(Observers)
    /\ role_nodes \in [1..3 -> Observers]
    /\ valid_rounds \in [Observers -> SUBSET Nat]
    /\ observer_count \in Nat /\ observer_count >= 3
    /\ counterproof_window \in Nat /\ counterproof_window >= 1
ASSUME BoundsAssumption == MaxRound \in Nat /\ MaxChallenges \in Nat /\ None \notin Nat

VARIABLES
    now,              \* the round the callers pass
    active_role,      \* position in ROLE_ORDER
    claims,           \* reporter -> its claim against the active role
    pending_deadline, pending_round,
    quarantined,
    disputed,         \* answered challenges
    aborted,
    opened            \* history: the challenges opened, and the round it was then

challenge == <<claims, pending_deadline, pending_round>>
vars == <<now, active_role, challenge, quarantined, disputed, aborted, opened>>

ROLE_ORDER == <<"primary", "secondary", "tertiary">>
Rounds     == 0..MaxRound
Claim      == [role : 1..3, round : Rounds, evidence : Evidence]
NoClaims   == [o \in {} |-> None]
Reporters  == DOMAIN claims

quorum_size == (2 * observer_count + 2) \div 3

\* CertificateAuthority.verify for the role "observer", in the round it is asked for.
verified(o, round) == round \in valid_rounds[o]

Init ==
    /\ now = 0
    /\ active_role = 1
    /\ claims = NoClaims
    /\ pending_deadline = None /\ pending_round = None
    /\ quarantined = {}
    /\ disputed = <<>>
    /\ aborted = FALSE
    /\ opened = <<>>

\* The coordinator takes claims against the active role while no challenge is open.  A claim is
\* verified in the round it names, which nothing compares with the current one.
accepts(o, claim) ==
    /\ ~aborted /\ pending_deadline = None
    /\ claim.role = active_role
    /\ verified(o, claim.round)

\* A second, different claim of the same reporter.
conflicting_claim(o, claim) ==
    /\ accepts(o, claim)
    /\ o \in Reporters /\ claims[o] # claim
    /\ quarantined' = quarantined \cup {o}
    /\ UNCHANGED <<now, active_role, challenge, disputed, aborted, opened>>

\* Bug: claims about different rounds add up.
same_round_unchecked(claim) == TRUE

\* The claims collected so far name the same round.
same_round(claim) == \A p \in Reporters : claims[p].round = claim.round

submit_claim(o, claim) ==
    /\ accepts(o, claim)
    /\ o \notin Reporters /\ same_round(claim)
    /\ Len(opened) < MaxChallenges
    /\ claims' = [p \in Reporters \cup {o} |-> IF p = o THEN claim ELSE claims[p]]
    /\ IF Cardinality(Reporters \cup {o}) >= quorum_size
       THEN /\ pending_round' = claim.round
            /\ pending_deadline' = claim.round + counterproof_window
            /\ opened' = Append(opened, [role |-> active_role, round |-> claim.round, at |-> now])
       ELSE UNCHANGED <<pending_round, pending_deadline, opened>>
    /\ UNCHANGED <<now, active_role, quarantined, disputed, aborted>>

\* A challenge that is over leaves no claims.
Resolve ==
    /\ claims' = NoClaims
    /\ pending_deadline' = None /\ pending_round' = None

submit_counterproof(evidence) ==
    /\ pending_deadline # None
    /\ now <= pending_deadline
    /\ verified(role_nodes[active_role], now)
    /\ disputed' = Append(disputed, [role |-> active_role, round |-> pending_round,
                                     counterproof |-> evidence])
    /\ Resolve
    /\ UNCHANGED <<now, active_role, quarantined, aborted, opened>>

\* Bug: a takeover at the deadline itself.
expired_at_deadline == pending_deadline # None /\ now >= pending_deadline

expired == pending_deadline # None /\ now > pending_deadline

\* Bugs: the last role is followed by a fourth, or by itself.
advance_past_last ==
    /\ expired
    /\ Resolve
    /\ active_role' = active_role + 1
    /\ UNCHANGED <<now, quarantined, disputed, aborted, opened>>

advance_without_abort ==
    /\ expired
    /\ Resolve
    /\ active_role' = IF active_role = 3 THEN 3 ELSE active_role + 1
    /\ UNCHANGED <<now, quarantined, disputed, aborted, opened>>

advance ==
    /\ expired
    /\ Resolve
    /\ IF active_role = Len(ROLE_ORDER)
       THEN aborted' = TRUE /\ UNCHANGED active_role
       ELSE active_role' = active_role + 1 /\ UNCHANGED aborted
    /\ UNCHANGED <<now, quarantined, disputed, opened>>

Tick ==
    /\ now < MaxRound
    /\ now' = now + 1
    /\ UNCHANGED <<active_role, challenge, quarantined, disputed, aborted, opened>>

Next ==
    \/ Tick
    \/ \E o \in Observers, claim \in Claim :
           submit_claim(o, claim) \/ conflicting_claim(o, claim)
    \/ \E evidence \in Evidence : submit_counterproof(evidence)
    \/ advance

Spec == Init /\ [][Next]_vars
-----------------------------------------------------------------------------
(* Properties.                                                             *)

\* Every variable has its type.
TypeOK ==
    /\ now \in Rounds
    /\ active_role \in 1..3
    /\ Reporters \subseteq Observers /\ \A o \in Reporters : claims[o] \in Claim
    /\ pending_deadline \in Nat \cup {None} /\ pending_round \in Rounds \cup {None}
    /\ quarantined \subseteq Observers
    /\ aborted \in BOOLEAN

\* A challenge is open exactly while a quorum of certified reporters agrees on its round:
\* claims are neither lost once they suffice nor left over from an earlier challenge.
ChallengeIsQuorum ==
    /\ pending_deadline # None <=> Cardinality(Reporters) >= quorum_size
    /\ pending_deadline # None =>
           /\ pending_deadline = pending_round + counterproof_window
           /\ \A o \in Reporters : claims[o].round = pending_round /\ verified(o, pending_round)

\* Every challenge ends once: it was answered, or cost a role, or aborted recovery, or is
\* the open one.
ResolvedOnce ==
    Len(opened) = Len(disputed) + (active_role - 1) + (IF aborted THEN 1 ELSE 0)
                      + (IF pending_deadline # None THEN 1 ELSE 0)

\* A role is lost only to a quorum of claims against that very role, none of them left over from
\* the role before it, and after a window its holder could use: unless the claims name a round
\* that is past, all of counterproof_window has gone by since the challenge was opened.
RoleLostAfterWindow ==
    [][active_role' # active_role \/ aborted' # aborted =>
           /\ Cardinality({o \in Reporters : claims[o].role = active_role}) >= quorum_size
           /\ LET last == opened[Len(opened)] IN
              last.round >= last.at => now > last.at + counterproof_window]_vars

\* The accused holder receives a window: a challenge can still be answered in the round in which
\* it is opened.  This is what the protocol document says of the coordinator and the code does
\* not do, for it counts the window from the round that the reporters name.
HolderHasWindow ==
    \A i \in DOMAIN opened : opened[i].at <= opened[i].round + counterproof_window
=============================================================================
