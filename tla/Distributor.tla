----------------------------- MODULE Distributor -----------------------------
(***************************************************************************)
(* Batch funding (splitchain/distributor.py): the operator's program pays  *)
(* each recipient once from the faucet, over crashes, lost answers and     *)
(* nodes that lag behind, with a journal on disk.                          *)
(*                                                                         *)
(* The nodes are a service.  `branches` is the ledger of the leader, as    *)
(* far as this faucet and these recipients go.  A status request may be    *)
(* answered by any node, so it shows any ledger in `past`: one that was    *)
(* current once, or one that a leader reached alone before it was replaced.*)
(* Every outcome that the program does not learn stops it: it exits, and   *)
(* the operator runs it again.  A raised DistributionError, a crash and an *)
(* interrupt are the same to the journal, so they are one action, Stop.    *)
(*                                                                         *)
(* A branch id is the nonce of the offer that made the branch.  Every      *)
(* payment has the amount of the plan, so amounts are left out.            *)
(***************************************************************************)
EXTENDS Integers, Sequences

CONSTANTS
    Recipients,      \* the plan: a sequence of accounts
    SENDER,          \* the faucet
    None,
    MaxRequests,     \* bound: requests that the program signs
    MaxOthers,       \* bound: uses of the faucet's credential elsewhere
    MaxSkip,         \* bound: how far the clock is ahead of the last nonce
    MaxForks,        \* bound: what a leader did alone before it was replaced
    MaxSaveFailures  \* bound: saves that fail at the leader

VARIABLES
    branches, past, \* the leader's ledger; every ledger a node may show
    nonces,         \* actor -> last nonce the leader accepted
    agreed,         \* some replica has the leader's ledger
    wire,           \* requests on their way that nobody waits for
    last_nonces, known_branches, in_flight, \* the journal, state.json
    at,             \* what the running program does next; "off" when it does not run
    index, tries,   \* run: the recipient; fund_one: iterations left
    view,           \* the status it read
    request,        \* the request it waits for
    signed, others, forks, failures \* what has happened of the bounded events

service == <<branches, past, nonces, agreed>>
journal == <<last_nonces, known_branches, in_flight>>
program == <<at, index, tries, view, request>>
bounds  == <<signed, others, forks, failures>>
vars    == <<service, wire, journal, program, bounds>>

Payees   == {Recipients[i] : i \in DOMAIN Recipients}
Actors   == Payees \cup {SENDER}
States   == {"offered", "accepted", "committed", "final", "expired"}
Branches == [receiver : Payees, id : Nat, state : States]
Requests == [method : {"offer", "accept", "commit"}, receiver : Payees, actor : Actors,
             id : Nat, nonce : Nat]

Flights  == [recipient : Payees, method : {"offer", "accept", "commit"}, nonce : Nat]

ASSUME PlanAssumption ==
    /\ Recipients \in Seq(Payees) /\ Recipients # <<>>
    /\ SENDER \notin Payees

ASSUME NoneAssumption == None \notin Nat /\ None \notin Flights

ASSUME BoundsAssumption ==
    /\ MaxRequests \in Nat /\ MaxOthers \in Nat /\ MaxSkip \in Nat
    /\ MaxForks \in Nat /\ MaxSaveFailures \in Nat

\* At most one element.
Single(S) == \A x, y \in S : x = y

BranchesTo(ledger, r) == {b \in ledger : b.receiver = r}
-----------------------------------------------------------------------------
(* The service, from how the program uses it.                              *)

\* The state a branch is in before accept and commit.
Before(method) == IF method = "accept" THEN "offered" ELSE "accepted"
Behind(method) == IF method = "accept" THEN "accepted" ELSE "committed"

Target(q) == [receiver |-> q.receiver, id |-> q.id, state |-> Before(q.method)]

\* The authenticator refuses an old nonce, the ledger a branch in another state.
Applies(q) ==
    /\ q.nonce > nonces[q.actor]
    /\ q.method # "offer" => Target(q) \in branches

Effect(q) ==
    IF q.method = "offer"
    THEN branches \cup {[receiver |-> q.receiver, id |-> q.nonce, state |-> "offered"]}
    ELSE (branches \ {Target(q)}) \cup {[Target(q) EXCEPT !.state = Behind(q.method)]}

Apply(q) ==
    /\ Applies(q)
    /\ branches' = Effect(q)
    /\ past' = past \cup {branches'}
    /\ nonces' = [nonces EXCEPT ![q.actor] = q.nonce]

\* A request that the program no longer waits for is executed.
Deliver(q) ==
    /\ q \in wire
    /\ Apply(q)
    /\ agreed' \in BOOLEAN
    /\ wire' = wire \ {q}
    /\ UNCHANGED <<journal, program, bounds>>

\* The leader executed it alone and was replaced: a node shows what the ledger never has.
Fork(q) ==
    /\ forks < MaxForks
    /\ q \in wire
    /\ Applies(q)
    /\ past' = past \cup {Effect(q)}
    /\ wire' = wire \ {q}
    /\ forks' = forks + 1
    /\ UNCHANGED <<branches, nonces, agreed, journal, program, signed, others, failures>>

\* A round passes: the branch becomes final, or expires, or it does so only at a leader that
\* was replaced.
Later(b) == [b EXCEPT !.state = IF b.state = "committed" THEN "final" ELSE "expired"]

Settle(b) ==
    /\ b \in branches /\ b.state \in {"offered", "accepted", "committed"}
    /\ past' = past \cup {(branches \ {b}) \cup {Later(b)}}
    /\ \/ /\ branches' = (branches \ {b}) \cup {Later(b)}
          /\ UNCHANGED forks
       \/ /\ forks < MaxForks /\ forks' = forks + 1
          /\ UNCHANGED branches
    /\ UNCHANGED <<nonces, agreed, wire, journal, program, signed, others, failures>>

\* The faucet's credential is used elsewhere.
OtherUse ==
    /\ others < MaxOthers
    /\ nonces' = [nonces EXCEPT ![SENDER] = @ + 1]
    /\ others' = others + 1
    /\ UNCHANGED <<branches, past, agreed, wire, journal, program, signed, forks, failures>>

\* The next mutation, or cluster.sync, brings a replica up to the leader.
CatchUp ==
    /\ ~agreed /\ agreed' = TRUE
    /\ UNCHANGED <<branches, past, nonces, wire, journal, program, bounds>>
-----------------------------------------------------------------------------
(* The program.                                                            *)

recipient == Recipients[index]

\* fund: diagnose wants a leader and a replica that agree, be it a replaced leader and a replica
\* that still follows it; then run begins with the first recipient and four iterations of fund_one.
Start ==
    /\ at = "off"
    /\ agreed \/ forks > 0
    /\ at' = "status" /\ index' = 1 /\ tries' = 4
    /\ UNCHANGED <<service, wire, journal, view, request, bounds>>

\* fund --faucet-next-nonce, after a use elsewhere; it is saved before diagnose.
faucet_next_nonce ==
    /\ at = "off"
    /\ last_nonces[SENDER] < nonces[SENDER]
    /\ last_nonces' = [last_nonces EXCEPT ![SENDER] = nonces[SENDER]]
    /\ UNCHANGED <<service, wire, known_branches, in_flight, program, bounds>>

\* The process is gone, and its memory with it.
Exit == at' = "off" /\ index' = 1 /\ tries' = 0 /\ view' = {} /\ request' = None

\* It ends for whatever reason; a request it waited for may be on its way.
Stop ==
    /\ at # "off"
    /\ Exit
    /\ wire' \in {wire, wire \cup (IF at = "call" THEN {request} ELSE {})}
    /\ UNCHANGED <<service, journal, bounds>>

snapshot ==
    /\ at = "status" /\ tries > 0
    /\ view' \in past
    /\ at' = "reconcile"
    /\ UNCHANGED <<service, wire, journal, index, tries, request, bounds>>

\* Bug: a branch the journal knows may be missing.
Consistent_forgetful(ledger, r) == Single(BranchesTo(ledger, r))

\* branch(): one branch at most, and the one the journal knows.
Consistent(ledger, r) ==
    /\ Single(BranchesTo(ledger, r))
    /\ known_branches[r] # None => \E b \in BranchesTo(ledger, r) : b.id = known_branches[r]

\* The states that show that an operation was done.
DoneIn(method) ==
    CASE method = "offer"  -> States
      [] method = "accept" -> {"accepted", "committed", "final"}
      [] method = "commit" -> {"committed", "final"}

nothing_in_flight ==
    /\ at = "reconcile" /\ in_flight = None
    /\ at' = "decide"
    /\ UNCHANGED <<service, wire, journal, index, tries, view, request, bounds>>

\* An operation whose outcome was unknown is seen in the ledger.
reconcile(b) ==
    /\ at = "reconcile" /\ in_flight # None
    /\ in_flight.recipient = recipient
    /\ Consistent(view, recipient)
    /\ b \in BranchesTo(view, recipient) /\ b.state \in DoneIn(in_flight.method)
    /\ known_branches' = [known_branches EXCEPT ![recipient] = b.id]
    /\ in_flight' = None
    /\ at' = "decide"
    /\ UNCHANGED <<service, wire, last_nonces, index, tries, view, request, bounds>>

\* Bug: only the nonce is reserved.
mutate_unjournaled(method, id, actor) ==
    \E nonce \in (last_nonces[actor] + 1)..(last_nonces[actor] + MaxSkip) :
        /\ signed < MaxRequests /\ signed' = signed + 1
        /\ last_nonces' = [last_nonces EXCEPT ![actor] = nonce]
        /\ request' = [method |-> method, receiver |-> recipient, actor |-> actor,
                       id |-> id, nonce |-> nonce]
        /\ at' = "call" /\ view' = {}
        /\ UNCHANGED <<service, wire, known_branches, in_flight, index, tries, others, forks, failures>>

\* The nonce and the operation are on disk before anything is sent.
mutate(method, id, actor) ==
    \E nonce \in (last_nonces[actor] + 1)..(last_nonces[actor] + MaxSkip) :
        /\ signed < MaxRequests /\ signed' = signed + 1
        /\ last_nonces' = [last_nonces EXCEPT ![actor] = nonce]
        /\ in_flight' = [recipient |-> recipient, method |-> method, nonce |-> nonce]
        /\ request' = [method |-> method, receiver |-> recipient, actor |-> actor,
                       id |-> id, nonce |-> nonce]
        /\ at' = "call" /\ view' = {}
        /\ UNCHANGED <<service, wire, known_branches, index, tries, others, forks, failures>>

offer ==
    /\ at = "decide" /\ Consistent(view, recipient)
    /\ BranchesTo(view, recipient) = {}
    /\ mutate("offer", 0, SENDER)

accept(b) ==
    /\ at = "decide" /\ Consistent(view, recipient)
    /\ b \in BranchesTo(view, recipient) /\ b.state = "offered"
    /\ mutate("accept", b.id, recipient)

commit(b) ==
    /\ at = "decide" /\ Consistent(view, recipient)
    /\ b \in BranchesTo(view, recipient) /\ b.state = "accepted"
    /\ mutate("commit", b.id, SENDER)

\* Bug: the last recipient is followed by another one.
funded_past_last(b) ==
    /\ at = "decide" /\ Consistent(view, recipient)
    /\ b \in BranchesTo(view, recipient) /\ b.state \in {"committed", "final"}
    /\ view' = {}
    /\ index' = index + 1 /\ tries' = 4 /\ at' = "status"
    /\ UNCHANGED <<service, wire, journal, request, bounds>>

\* Bug: the progress of the loop is taken for the verification.
funded_unverified(b) ==
    /\ at = "decide" /\ Consistent(view, recipient)
    /\ b \in BranchesTo(view, recipient) /\ b.state \in {"committed", "final"}
    /\ view' = {}
    /\ IF index < Len(Recipients)
       THEN index' = index + 1 /\ tries' = 4 /\ at' = "status"
       ELSE at' = "verified" /\ UNCHANGED <<index, tries>>
    /\ UNCHANGED <<service, wire, journal, request, bounds>>

\* The recipient is funded; the next one, or the wait for finality.
funded(b) ==
    /\ at = "decide" /\ Consistent(view, recipient)
    /\ b \in BranchesTo(view, recipient) /\ b.state \in {"committed", "final"}
    /\ view' = {}
    /\ IF index < Len(Recipients)
       THEN index' = index + 1 /\ tries' = 4 /\ at' = "status"
       ELSE at' = "verify" /\ UNCHANGED <<index, tries>>
    /\ UNCHANGED <<service, wire, journal, request, bounds>>

\* The answer is a result.
answered ==
    /\ at = "call"
    /\ Apply(request)
    /\ known_branches' = IF request.method = "offer"
                         THEN [known_branches EXCEPT ![recipient] = request.nonce] ELSE known_branches
    /\ agreed' = TRUE
    /\ in_flight' = None
    /\ at' = "status" /\ tries' = tries - 1 /\ request' = None
    /\ UNCHANGED <<wire, last_nonces, index, view, bounds>>

\* The answer is INVALID_REQUEST, for any reason: the nonce stays reserved.
rejected ==
    /\ at = "call"
    /\ in_flight' = None
    /\ Exit
    /\ UNCHANGED <<service, wire, last_nonces, known_branches, bounds>>

\* The leader applied the request, could not save, and answers INVALID_REQUEST.
rejected_unsaved ==
    /\ at = "call" /\ failures < MaxSaveFailures
    /\ Apply(request)
    /\ agreed' = FALSE
    /\ in_flight' = None
    /\ Exit
    /\ failures' = failures + 1
    /\ UNCHANGED <<wire, last_nonces, known_branches, signed, others, forks>>

\* run --wait-finality: one status shows every recipient paid.
verified ==
    /\ at = "verify"
    /\ \E ledger \in past : \A r \in Payees :
           Consistent(ledger, r) /\ \E b \in BranchesTo(ledger, r) : b.state = "final"
    /\ at' = "verified"
    /\ UNCHANGED <<service, wire, journal, index, tries, view, request, bounds>>
-----------------------------------------------------------------------------
Init ==
    /\ branches = {} /\ past = {{}}
    /\ nonces = [a \in Actors |-> 0]
    /\ agreed = TRUE
    /\ wire = {}
    /\ last_nonces = [a \in Actors |-> 0]
    /\ known_branches = [r \in Payees |-> None]
    /\ in_flight = None
    /\ at = "off" /\ index = 1 /\ tries = 0 /\ view = {} /\ request = None
    /\ signed = 0 /\ others = 0 /\ forks = 0 /\ failures = 0

Service ==
    \/ \E q \in wire : Deliver(q) \/ Fork(q)
    \/ \E b \in branches : Settle(b)
    \/ OtherUse \/ CatchUp

Program ==
    \/ faucet_next_nonce \/ Start \/ Stop \/ snapshot \/ nothing_in_flight \/ offer
    \/ \E b \in view : reconcile(b) \/ accept(b) \/ commit(b) \/ funded(b)
    \/ answered \/ rejected \/ verified

Next == Service \/ Program

Spec == Init /\ [][Next]_vars

\* The same with a disk that fails at the leader.
SpecUnsaved == Init /\ [][Next \/ rejected_unsaved]_vars

\* "Rerun the same command": the operator does, no run goes on for ever, and sooner or later
\* a status shows the present ledger and the run survives the step that uses it.
FairSpec ==
    /\ Spec
    /\ WF_vars(CatchUp) /\ SF_vars(Start) /\ WF_vars(Stop)
    /\ SF_vars(snapshot /\ view' = branches)
    /\ SF_vars(nothing_in_flight)
    /\ SF_vars(\E b \in view : reconcile(b))
    /\ SF_vars(\E b \in view : funded(b))
-----------------------------------------------------------------------------
(* Properties.                                                             *)

\* Every variable has its type.
TypeOK ==
    /\ past \subseteq SUBSET Branches /\ {branches, view, {}} \subseteq past
    /\ nonces \in [Actors -> Nat] /\ last_nonces \in [Actors -> Nat]
    /\ agreed \in BOOLEAN
    /\ wire \subseteq Requests
    /\ known_branches \in [Payees -> Nat \cup {None}]
    /\ in_flight \in Flights \cup {None}
    /\ at \in {"off", "status", "reconcile", "decide", "call", "verify", "verified"}
    /\ index \in 1..Len(Recipients) /\ tries \in 0..4
    /\ request \in Requests \cup {None}
    /\ signed \in Nat /\ others \in Nat /\ forks \in Nat /\ failures \in Nat

\* docs/FRIENDS_DISTRIBUTION.md: the program stops rather than paying twice.  No ledger that
\* any node shows has two faucet branches for one recipient, however often the program was
\* stopped and started again and whichever nodes it read.
AtMostOnePayment ==
    \A ledger \in past, r \in Payees : Single(BranchesTo(ledger, r))

\* The offer that made a branch is in the journal, as the known branch of its recipient or
\* as the operation in flight.
Journaled(r, id) ==
    \/ known_branches[r] = id
    \/ in_flight = [recipient |-> r, method |-> "offer", nonce |-> id]

\* state.json explains every payment that exists or may still happen: a branch in any
\* node's ledger, and an offer that is still on its way.
JournalCoversPayments ==
    /\ \A ledger \in past : \A b \in ledger : Journaled(b.receiver, b.id)
    /\ \A q \in wire : q.method = "offer" => Journaled(q.receiver, q.nonce)

\* "Verified ... final balances": when the program says so, every recipient is paid or
\* about to be in the ledger that survives, even if a replaced leader answered the status.
VerifiedIsPaid ==
    at = "verified" =>
        \A r \in Payees : \E b \in branches : b.receiver = r /\ b.state \in {"committed", "final"}

\* The operation in flight is done, as the ledger shows.
LostAnswer ==
    /\ in_flight # None
    /\ \E b \in BranchesTo(branches, in_flight.recipient) : b.state \in DoneIn(in_flight.method)

\* docs/FRIENDS_DISTRIBUTION.md and the message of reconcile: rerunning the same plan
\* resolves an operation that was done and whose answer was lost.
RerunReconciles == LostAnswer ~> ~LostAnswer
=============================================================================
