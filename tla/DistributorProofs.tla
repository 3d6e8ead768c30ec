------------------------- MODULE DistributorProofs -------------------------
(***************************************************************************)
(* Proofs about Distributor: at most one payment, a journal that explains  *)
(* every payment, and a verification that can be believed, for any plan    *)
(* and any number of runs, requests and replaced leaders.                  *)
(***************************************************************************)
EXTENDS Distributor, TLAPS

\* An offer in flight is the first one for its recipient.
FirstOffer ==
    in_flight # None /\ in_flight.method = "offer" => known_branches[in_flight.recipient] = None

\* While the program waits, the journal holds what it sent; nobody has an offer before that.
Sent ==
    /\ request \in Requests
    /\ request.receiver = recipient
    /\ in_flight = [recipient |-> recipient, method |-> request.method, nonce |-> request.nonce]
    /\ request.method = "offer" =>
           /\ \A ledger \in past : BranchesTo(ledger, recipient) = {}
           /\ \A q \in wire : q.method = "offer" => q.receiver # recipient

Waiting == at = "call" => Sent

\* It decides only when the outcome of everything it sent is known.
Deciding == at = "decide" => in_flight = None

\* fund_one is in one of its iterations.
Iterating == at \in {"reconcile", "decide", "call"} => tries > 0

\* The faucet signs the offers, and a branch in the ledger used up its nonce.
NoncesUsed ==
    /\ \A q \in wire : q.method = "offer" => q.actor = SENDER
    /\ at = "call" /\ request.method = "offer" => request.actor = SENDER
    /\ \A b \in branches : b.id <= nonces[SENDER]

\* What is final anywhere was committed in the ledger that survives.
Paid(r) == \E b \in branches : b.receiver = r /\ b.state \in {"committed", "final"}

FinalIsPaid == \A ledger \in past : \A b \in ledger : b.state = "final" => Paid(b.receiver)

Journal == FirstOffer /\ Waiting /\ Deciding /\ Iterating /\ NoncesUsed
IInv == TypeOK /\ AtMostOnePayment /\ JournalCoversPayments /\ Journal /\ FinalIsPaid /\ VerifiedIsPaid

\* What a ledger that the service makes of the leader's ledger has to satisfy; only a
\* receiver in `fresh` may get its first branch.
Good(L, fresh) ==
    /\ L \subseteq Branches
    /\ \A r \in Payees : Single(BranchesTo(L, r))
    /\ \A b \in L : Journaled(b.receiver, b.id)
    /\ \A b \in L : b.receiver \in fresh \/ \E c \in branches : c.receiver = b.receiver
    /\ \A b \in L : b.state = "final" => Paid(b.receiver)
    /\ \A r \in Payees : Paid(r) => \E b \in L : b.receiver = r /\ b.state \in {"committed", "final"}
-----------------------------------------------------------------------------
\* The journal names one offer per recipient.
LEMMA OneOffer ==
    ASSUME IInv, NEW r \in Payees, NEW i \in Nat, NEW j \in Nat, Journaled(r, i), Journaled(r, j)
    PROVE  i = j
BY NoneAssumption DEF IInv, TypeOK, Journal, FirstOffer, Journaled, Flights

\* accept, commit, expiry and finality change the state of one branch.
LEMMA Replaced ==
    ASSUME IInv, NEW x \in branches, NEW y \in Branches, y.receiver = x.receiver, y.id = x.id,
           x.state \in {"committed", "final"} => y.state \in {"committed", "final"},
           y.state = "final" => x.state \in {"committed", "final"}
    PROVE  Good((branches \ {x}) \cup {y}, {})
<1> DEFINE L == (branches \ {x}) \cup {y}
<1>1. branches \in past /\ branches \subseteq Branches
  BY DEF IInv, TypeOK
<1>2. \A r \in Payees : Single(BranchesTo(L, r))
  BY <1>1 DEF IInv, AtMostOnePayment, Single, BranchesTo
<1>3. \A b \in L : Journaled(b.receiver, b.id)
  BY <1>1 DEF IInv, JournalCoversPayments
<1>4. \A b \in L : b.state = "final" => Paid(b.receiver)
  BY <1>1 DEF Paid
<1>5. ASSUME NEW r \in Payees, Paid(r)
      PROVE  \E b \in L : b.receiver = r /\ b.state \in {"committed", "final"}
  BY <1>5 DEF Paid
<1>6. \A b \in L : \E c \in branches : c.receiver = b.receiver
  OBVIOUS
<1> QED BY <1>1, <1>2, <1>3, <1>4, <1>5, <1>6 DEF Good

\* Every request that the leader executes leaves a good ledger: an offer, because its
\* nonce is newer than every branch there and the journal names one offer per recipient.
LEMMA Executed ==
    ASSUME IInv, NEW q \in Requests, Applies(q),
           q.method = "offer" => q.actor = SENDER /\ Journaled(q.receiver, q.nonce)
    PROVE  /\ Good(Effect(q), IF q.method = "offer" THEN {q.receiver} ELSE {})
           /\ \A b \in Effect(q) : b.id <= IF q.actor = SENDER THEN q.nonce ELSE nonces[SENDER]
<1>1. /\ branches \in past /\ branches \subseteq Branches
      /\ \A b \in branches : Journaled(b.receiver, b.id) /\ b.id <= nonces[SENDER]
      /\ nonces \in [Actors -> Nat]
  BY DEF IInv, TypeOK, JournalCoversPayments, Journal, NoncesUsed
<1>2. q.nonce > nonces[q.actor] /\ q.nonce \in Nat /\ q.id \in Nat /\ q.receiver \in Payees
      /\ q.actor \in Actors /\ SENDER \in Actors
  BY DEF Applies, Requests, Actors
<1>3. CASE q.method = "offer"
  <2> DEFINE n == [receiver |-> q.receiver, id |-> q.nonce, state |-> "offered"]
  <2>1. Effect(q) = branches \cup {n}
    BY <1>3 DEF Effect
  <2>2. n \in Branches
    BY <1>2 DEF Branches, States
  <2>3. \A b \in branches : b.receiver # q.receiver
    <3> SUFFICES ASSUME NEW b \in branches, b.receiver = q.receiver PROVE FALSE
      OBVIOUS
    <3>1. b.id \in Nat /\ b.id <= nonces[SENDER]
      BY <1>1 DEF Branches
    <3>2. Journaled(q.receiver, b.id) /\ Journaled(q.receiver, q.nonce)
      BY <1>1, <1>3
    <3>3. b.id = q.nonce
      BY <1>2, <3>1, <3>2, OneOffer
    <3> QED BY <1>1, <1>2, <1>3, <3>1, <3>3
  <2>4. \A r \in Payees : Single(BranchesTo(branches \cup {n}, r))
    BY <1>1, <2>3 DEF IInv, AtMostOnePayment, Single, BranchesTo
  <2>5. \A b \in branches \cup {n} : Journaled(b.receiver, b.id)
    BY <1>1, <1>3
  <2>6. \A b \in branches \cup {n} : b.state = "final" => Paid(b.receiver)
    BY <1>1 DEF Paid
  <2>7. \A r \in Payees : Paid(r) =>
            \E b \in branches \cup {n} : b.receiver = r /\ b.state \in {"committed", "final"}
    BY DEF Paid
  <2>8. \A b \in branches \cup {n} : b.id <= q.nonce
    BY <1>1, <1>2, <1>3 DEF Branches
  <2>9. \A b \in branches \cup {n} :
            b.receiver \in {q.receiver} \/ \E c \in branches : c.receiver = b.receiver
    OBVIOUS
  <2>10. Good(branches \cup {n}, {q.receiver})
    BY <1>1, <2>2, <2>4, <2>5, <2>6, <2>7, <2>9 DEF Good
  <2> QED BY <1>3, <2>1, <2>8, <2>10
<1>4. CASE q.method # "offer"
  <2> DEFINE y == [Target(q) EXCEPT !.state = Behind(q.method)]
  <2>1. Target(q) \in branches /\ Effect(q) = (branches \ {Target(q)}) \cup {y}
    BY <1>4 DEF Applies, Effect
  <2>2. /\ y \in Branches /\ y.receiver = Target(q).receiver /\ y.id = Target(q).id
        /\ Target(q).state \notin {"committed", "final"} /\ y.state # "final"
    BY <1>2 DEF Target, Before, Behind, Branches, States
  <2>3. Good(Effect(q), {})
    BY <2>1, <2>2, Replaced
  <2>4. \A b \in Effect(q) : b.id <= nonces[SENDER]
    BY <1>1, <2>1, <2>2
  <2>5. \A b \in Effect(q) : b.id <= IF q.actor = SENDER THEN q.nonce ELSE nonces[SENDER]
    BY <1>1, <1>2, <2>3, <2>4 DEF Good, Branches
  <2> QED BY <1>4, <2>3, <2>5
<1> QED BY <1>3, <1>4

\* A step of the service that shows a good ledger keeps the invariant.
LEMMA Shown ==
    ASSUME IInv, NEW L, NEW fresh, Good(L, fresh),
           past' = past \cup {L}, branches' = branches \/ branches' = L,
           wire' \subseteq wire, \A r \in fresh : \E q \in wire : q.method = "offer" /\ q.receiver = r,
           UNCHANGED <<journal, program>>,
           \A b \in branches' : b.id <= nonces'[SENDER]
    PROVE  /\ AtMostOnePayment' /\ JournalCoversPayments' /\ Journal'
           /\ FinalIsPaid' /\ VerifiedIsPaid'
<1>1. branches \in past /\ past \subseteq SUBSET Branches
  BY DEF IInv, TypeOK
<1>2. AtMostOnePayment'
  BY DEF IInv, AtMostOnePayment, Good
<1>3. JournalCoversPayments'
  BY DEF IInv, JournalCoversPayments, Good, Journaled, journal
<1>4. FirstOffer' /\ Deciding' /\ Iterating' /\ NoncesUsed'
  BY DEF IInv, Journal, FirstOffer, Deciding, Iterating, NoncesUsed, journal, program
<1>5. Waiting'
  <2> SUFFICES ASSUME at' = "call" PROVE Sent'
    BY DEF Waiting
  <2>1. at = "call" /\ request' = request /\ in_flight' = in_flight /\ recipient' = recipient
    BY DEF journal, program, recipient
  <2>2. ASSUME request.method = "offer", NEW b \in L PROVE b.receiver # recipient
    BY <1>1, <2>1, <2>2 DEF IInv, Journal, Waiting, Sent, Good, BranchesTo
  <2> QED BY <2>1, <2>2 DEF IInv, Journal, Waiting, Sent, BranchesTo
<1>6. \A r \in Payees : Paid(r) => Paid(r)'
  BY DEF Good, Paid
<1>7. FinalIsPaid'
  BY <1>1, <1>6 DEF IInv, FinalIsPaid, Good, Branches
<1>8. VerifiedIsPaid'
  BY <1>6 DEF IInv, VerifiedIsPaid, Paid, program
<1> QED BY <1>2, <1>3, <1>4, <1>5, <1>7, <1>8 DEF Journal

\* The next ledger of a round is a good one.
LEMMA Settled ==
    ASSUME IInv, NEW b \in branches, b.state \in {"offered", "accepted", "committed"}
    PROVE  Good((branches \ {b}) \cup {Later(b)}, {})
<1>1. b \in Branches
  BY DEF IInv, TypeOK
<1>2. /\ Later(b) \in Branches /\ Later(b).receiver = b.receiver /\ Later(b).id = b.id
      /\ b.state = "committed" => Later(b).state = "final"
      /\ Later(b).state = "final" => b.state = "committed"
  BY <1>1 DEF Later, Branches, States
<1> QED BY <1>2, Replaced

LEMMA ServiceKeeps == ASSUME IInv, Service PROVE IInv'
<1>1. ASSUME NEW q \in wire, Applies(q)
      PROVE  /\ q \in Requests
             /\ Good(Effect(q), IF q.method = "offer" THEN {q.receiver} ELSE {})
             /\ \A b \in Effect(q) : b.id <= IF q.actor = SENDER THEN q.nonce ELSE nonces[SENDER]
             /\ \A r \in IF q.method = "offer" THEN {q.receiver} ELSE {} :
                    \E p \in wire : p.method = "offer" /\ p.receiver = r
  <2>1. q \in Requests /\ (q.method = "offer" => q.actor = SENDER /\ Journaled(q.receiver, q.nonce))
    BY <1>1 DEF IInv, TypeOK, JournalCoversPayments, Journal, NoncesUsed
  <2> QED BY <1>1, <2>1, Executed
<1>2. ASSUME NEW q \in wire, Deliver(q) PROVE IInv'
  <2>1. Applies(q) /\ branches' = Effect(q) /\ past' = past \cup {Effect(q)}
        /\ nonces' = [nonces EXCEPT ![q.actor] = q.nonce]
    BY <1>2 DEF Deliver, Apply
  <2>2. q \in Requests /\ Effect(q) \subseteq Branches
    BY <1>1, <2>1 DEF Good
  <2>3. TypeOK'
    BY <1>2, <2>1, <2>2 DEF IInv, TypeOK, Deliver, journal, program, bounds, Requests
  <2>4. \A b \in branches' : b.id <= nonces'[SENDER]
    BY <1>1, <2>1, <2>2 DEF IInv, TypeOK, Actors, Requests
  <2>5. wire' \subseteq wire /\ UNCHANGED <<journal, program>>
    BY <1>2 DEF Deliver
  <2>6. /\ AtMostOnePayment' /\ JournalCoversPayments' /\ Journal'
        /\ FinalIsPaid' /\ VerifiedIsPaid'
    <3> DEFINE L == Effect(q)  fresh == IF q.method = "offer" THEN {q.receiver} ELSE {}
    <3>1. /\ Good(L, fresh) /\ past' = past \cup {L} /\ (branches' = branches \/ branches' = L)
          /\ \A r \in fresh : \E p \in wire : p.method = "offer" /\ p.receiver = r
      BY <1>1, <2>1
    <3> HIDE DEF L, fresh
    <3> QED BY <2>4, <2>5, <3>1, Shown
  <2> QED BY <2>3, <2>6 DEF IInv
<1>3. ASSUME NEW q \in wire, Fork(q) PROVE IInv'
  <2>1. Good(Effect(q), IF q.method = "offer" THEN {q.receiver} ELSE {}) /\ past' = past \cup {Effect(q)}
    BY <1>1, <1>3 DEF Fork
  <2>2. TypeOK'
    BY <1>3, <2>1 DEF IInv, TypeOK, Fork, journal, program, Good
  <2>3. \A b \in branches' : b.id <= nonces'[SENDER]
    BY <1>3 DEF IInv, Journal, NoncesUsed, Fork
  <2> QED BY <1>1, <1>3, <2>1, <2>2, <2>3, Shown DEF IInv, Fork
<1>4. ASSUME NEW b \in branches, Settle(b) PROVE IInv'
  <2> DEFINE L == (branches \ {b}) \cup {Later(b)}
  <2>1. Good(L, {}) /\ past' = past \cup {L} /\ (branches' = branches \/ branches' = L)
    BY <1>4, Settled DEF Settle
  <2>2. TypeOK'
    BY <1>4, <2>1 DEF IInv, TypeOK, Settle, journal, program, Good
  <2>3. \A c \in branches' : c.id <= nonces'[SENDER]
    <3>1. Later(b).id = b.id
      BY DEF IInv, TypeOK, Later, Branches
    <3> QED BY <1>4, <2>1, <3>1 DEF IInv, Journal, NoncesUsed, Settle
  <2>4. wire' \subseteq wire /\ UNCHANGED <<journal, program>>
    BY <1>4 DEF Settle
  <2>5. /\ AtMostOnePayment' /\ JournalCoversPayments' /\ Journal'
        /\ FinalIsPaid' /\ VerifiedIsPaid'
    <3>1. \A r \in {} : \E q \in wire : q.method = "offer" /\ q.receiver = r
      OBVIOUS
    <3> HIDE DEF L
    <3> QED BY <2>1, <2>3, <2>4, <3>1, Shown
  <2> QED BY <2>2, <2>5 DEF IInv
<1>5. CASE OtherUse \/ CatchUp
  <2>1. UNCHANGED <<branches, past, wire, journal, program>>
    BY <1>5 DEF OtherUse, CatchUp
  <2>2. /\ nonces \in [Actors -> Nat] /\ nonces' \in [Actors -> Nat]
        /\ nonces[SENDER] <= nonces'[SENDER]
    BY <1>5 DEF IInv, TypeOK, OtherUse, CatchUp, Actors
  <2>3. agreed' \in BOOLEAN
    BY <1>5, Zenon DEF IInv, TypeOK, OtherUse, CatchUp
  <2>4. others' \in Nat /\ UNCHANGED <<signed, forks, failures>>
    BY <1>5 DEF IInv, TypeOK, OtherUse, CatchUp, bounds
  <2>5. TypeOK'
    BY <2>1, <2>2, <2>3, <2>4 DEF IInv, TypeOK, journal, program
  <2>6. AtMostOnePayment' /\ JournalCoversPayments' /\ FinalIsPaid' /\ VerifiedIsPaid'
    BY <2>1 DEF IInv, AtMostOnePayment, JournalCoversPayments, Journaled, FinalIsPaid, Paid,
                VerifiedIsPaid, journal, program
  <2>7. FirstOffer' /\ Waiting' /\ Deciding' /\ Iterating'
    BY <2>1 DEF IInv, Journal, FirstOffer, Waiting, Sent, Deciding, Iterating, recipient, journal, program
  <2>8. NoncesUsed'
    BY <2>1, <2>2 DEF IInv, TypeOK, Journal, NoncesUsed, Branches, Actors, program
  <2> QED BY <2>5, <2>6, <2>7, <2>8 DEF IInv, Journal
<1> QED BY <1>2, <1>3, <1>4, <1>5 DEF Service

LEMMA RecipientPlanned == TypeOK => recipient \in Payees
BY PlanAssumption DEF TypeOK, recipient

\* The program itself shows no ledger.
LEMMA Held ==
    ASSUME IInv, UNCHANGED service, at' # "verified"
    PROVE  /\ AtMostOnePayment' /\ FinalIsPaid' /\ VerifiedIsPaid'
           /\ \A b \in branches' : b.id <= nonces'[SENDER]
<1>1. UNCHANGED <<branches, past, nonces>>
  BY DEF service
<1> QED BY <1>1 DEF IInv, AtMostOnePayment, FinalIsPaid, Paid, VerifiedIsPaid, Journal, NoncesUsed

\* Steps that leave the journal as it is.
LEMMA UnjournaledKeeps ==
    ASSUME IInv, Start \/ Stop \/ snapshot \/ nothing_in_flight \/ (\E b \in view : funded(b))
    PROVE  IInv'
<1>1. UNCHANGED service /\ UNCHANGED journal /\ UNCHANGED bounds
  BY DEF Start, Stop, snapshot, nothing_in_flight, funded
<1>2. at' \in {"off", "status", "reconcile", "decide", "verify"}
  BY DEF Start, Stop, snapshot, nothing_in_flight, funded, Exit
<1>3. wire' \subseteq wire \cup (IF at = "call" THEN {request} ELSE {})
  BY DEF Start, Stop, snapshot, nothing_in_flight, funded
<1>4. AtMostOnePayment' /\ FinalIsPaid' /\ VerifiedIsPaid' /\ \A b \in branches' : b.id <= nonces'[SENDER]
  BY <1>1, <1>2, Held
<1>5. \A q \in wire' :
         q \in Requests /\ (q.method = "offer" => q.actor = SENDER /\ Journaled(q.receiver, q.nonce))
  BY <1>3 DEF IInv, TypeOK, JournalCoversPayments, Journal, Waiting, Sent, NoncesUsed, Journaled
<1>6. JournalCoversPayments'
  BY <1>1, <1>5 DEF IInv, JournalCoversPayments, Journaled, service, journal
<1>7. FirstOffer' /\ Waiting'
  BY <1>1, <1>2 DEF IInv, Journal, FirstOffer, Waiting, journal
<1>8. Deciding' /\ Iterating'
  BY <1>1, <1>2 DEF IInv, Journal, Start, Stop, snapshot, nothing_in_flight, funded, Exit, Deciding,
                    Iterating, journal
<1>9. NoncesUsed'
  BY <1>2, <1>4, <1>5 DEF NoncesUsed
<1>10. view' \in past /\ request' \in Requests \cup {None}
  BY DEF IInv, TypeOK, Start, Stop, snapshot, nothing_in_flight, funded, Exit
<1>11. index' \in 1..Len(Recipients) /\ tries' \in 0..4
  BY PlanAssumption DEF IInv, TypeOK, Start, Stop, snapshot, nothing_in_flight, funded, Exit
<1>12. TypeOK'
  BY <1>1, <1>2, <1>5, <1>10, <1>11 DEF IInv, TypeOK, service, journal, bounds
<1> QED BY <1>4, <1>6, <1>7, <1>8, <1>9, <1>12 DEF IInv, Journal

LEMMA NextNonceKeeps == ASSUME IInv, faucet_next_nonce PROVE IInv'
<1>1. UNCHANGED service /\ UNCHANGED program /\ UNCHANGED bounds /\ UNCHANGED <<wire, known_branches, in_flight>>
  BY DEF faucet_next_nonce
<1>2. last_nonces' \in [Actors -> Nat]
  BY DEF IInv, TypeOK, faucet_next_nonce, Actors
<1>3. TypeOK'
  BY <1>1, <1>2 DEF IInv, TypeOK, service, program, bounds
<1>4. AtMostOnePayment' /\ JournalCoversPayments' /\ FinalIsPaid' /\ VerifiedIsPaid'
  BY <1>1 DEF IInv, AtMostOnePayment, JournalCoversPayments, Journaled, FinalIsPaid, Paid,
              VerifiedIsPaid, service, program
<1>5. Journal'
  BY <1>1 DEF IInv, Journal, FirstOffer, Waiting, Sent, Deciding, Iterating, NoncesUsed, recipient,
              service, program
<1> QED BY <1>3, <1>4, <1>5 DEF IInv

LEMMA ReconcileKeeps == ASSUME IInv, NEW b \in view, reconcile(b) PROVE IInv'
<1>1. /\ UNCHANGED <<branches, past, nonces, agreed, wire, last_nonces, index, tries, view, request>>
      /\ UNCHANGED bounds
      /\ at = "reconcile" /\ in_flight' = None /\ at' = "decide"
      /\ known_branches' = [known_branches EXCEPT ![recipient] = b.id]
      /\ in_flight.recipient = recipient
  BY DEF reconcile, service
<1>2. recipient \in Payees /\ b.id \in Nat /\ view \in past /\ b.receiver = recipient
  BY RecipientPlanned DEF IInv, TypeOK, Branches, reconcile, BranchesTo
<1>3. TypeOK'
  BY <1>1, <1>2 DEF IInv, TypeOK, bounds
<1>4. AtMostOnePayment' /\ FinalIsPaid' /\ VerifiedIsPaid' /\ \A c \in branches' : c.id <= nonces'[SENDER]
  BY <1>1, Held DEF service
<1>5. Journaled(recipient, b.id)
  BY <1>2 DEF IInv, JournalCoversPayments
<1>6. ASSUME NEW r \in Payees, NEW id \in Nat, Journaled(r, id) PROVE Journaled(r, id)'
  <2>1. CASE r = recipient
    BY <1>1, <1>2, <1>5, <1>6, <2>1, OneOffer DEF IInv, TypeOK, Journaled
  <2>2. CASE r # recipient
    BY <1>1, <1>2, <1>6, <2>2 DEF IInv, TypeOK, Journaled
  <2> QED BY <2>1, <2>2
<1>7. JournalCoversPayments'
  BY <1>1, <1>6 DEF IInv, TypeOK, JournalCoversPayments, Branches, Requests
<1>8. Journal'
  BY <1>1, <1>4 DEF IInv, Journal, FirstOffer, Waiting, Deciding, Iterating, NoncesUsed
<1> QED BY <1>3, <1>4, <1>7, <1>8 DEF IInv

\* A request is signed and journaled only when nothing is in flight, and an offer only when
\* the journal knows of none: that is the whole of the argument against paying twice.
LEMMA MutateKeeps ==
    ASSUME IInv, NEW method \in {"offer", "accept", "commit"}, NEW id \in Nat, NEW actor \in Actors,
           at = "decide", mutate(method, id, actor),
           method = "offer" => actor = SENDER /\ known_branches[recipient] = None
    PROVE  IInv'
<1>1. PICK nonce \in (last_nonces[actor] + 1)..(last_nonces[actor] + MaxSkip) :
          /\ last_nonces' = [last_nonces EXCEPT ![actor] = nonce]
          /\ in_flight' = [recipient |-> recipient, method |-> method, nonce |-> nonce]
          /\ request' = [method |-> method, receiver |-> recipient, actor |-> actor,
                         id |-> id, nonce |-> nonce]
          /\ signed' = signed + 1
          /\ at' = "call" /\ view' = {}
          /\ UNCHANGED service
          /\ UNCHANGED <<wire, known_branches, index, tries, others, forks, failures>>
  BY DEF mutate
<1>2. nonce \in Nat /\ recipient \in Payees /\ recipient' = recipient
  BY <1>1, BoundsAssumption, RecipientPlanned DEF IInv, TypeOK, recipient
<1>3. in_flight' \in Flights /\ request' \in Requests
  BY <1>1, <1>2 DEF Flights, Requests
<1>4. TypeOK'
  BY <1>1, <1>2, <1>3 DEF IInv, TypeOK, service
<1>5. AtMostOnePayment' /\ FinalIsPaid' /\ VerifiedIsPaid' /\ \A b \in branches' : b.id <= nonces'[SENDER]
  BY <1>1, Held
<1>6. in_flight = None
  BY DEF IInv, Journal, Deciding
<1>7. \A r \in Payees, i \in Nat : Journaled(r, i) => known_branches[r] = i
  BY <1>6, NoneAssumption DEF Journaled, Flights
<1>8. JournalCoversPayments'
  BY <1>1, <1>7 DEF IInv, TypeOK, JournalCoversPayments, Journaled, Branches, Requests, service
<1>9. ASSUME method = "offer"
      PROVE  /\ \A ledger \in past : BranchesTo(ledger, recipient) = {}
             /\ \A q \in wire : q.method = "offer" => q.receiver # recipient
  BY <1>2, <1>7, <1>9, NoneAssumption
     DEF IInv, TypeOK, JournalCoversPayments, BranchesTo, Branches, Requests
<1>10. Waiting'
  BY <1>1, <1>2, <1>3, <1>9 DEF Waiting, Sent, service, BranchesTo
<1>11. FirstOffer' /\ Deciding' /\ Iterating' /\ NoncesUsed'
  BY <1>1, <1>5 DEF IInv, Journal, FirstOffer, Deciding, Iterating, NoncesUsed
<1> QED BY <1>4, <1>5, <1>8, <1>10, <1>11 DEF IInv, Journal

LEMMA SigningKeeps ==
    ASSUME IInv, offer \/ (\E b \in view : accept(b) \/ commit(b)) PROVE IInv'
<1>1. recipient \in Payees /\ recipient \in Actors /\ SENDER \in Actors /\ 0 \in Nat
  BY RecipientPlanned DEF IInv, Actors
<1>2. \A b \in view : b.id \in Nat
  BY DEF IInv, TypeOK, Branches
<1>3. CASE offer
  <2>1. known_branches[recipient] = None
    BY <1>3 DEF offer, Consistent
  <2> QED BY <1>1, <1>3, <2>1, MutateKeeps DEF offer
<1>4. ASSUME NEW b \in view, accept(b) PROVE IInv'
  BY <1>1, <1>2, <1>4, MutateKeeps DEF accept
<1>5. ASSUME NEW b \in view, commit(b) PROVE IInv'
  BY <1>1, <1>2, <1>5, MutateKeeps DEF commit
<1> QED BY <1>3, <1>4, <1>5

\* The result of an offer is its branch.
LEMMA AnsweredKeeps == ASSUME IInv, answered PROVE IInv'
<1> DEFINE L == Effect(request)
<1>1. /\ Applies(request) /\ branches' = L /\ past' = past \cup {L}
      /\ nonces' = [nonces EXCEPT ![request.actor] = request.nonce]
      /\ UNCHANGED <<wire, last_nonces, index, view>> /\ UNCHANGED bounds
      /\ agreed' = TRUE /\ in_flight' = None /\ at' = "status" /\ tries' = tries - 1
      /\ request' = None
  BY DEF answered, Apply
<1>2. /\ Sent /\ request \in Requests /\ recipient \in Payees
      /\ request.method = "offer" => request.actor = SENDER /\ Journaled(request.receiver, request.nonce)
  BY RecipientPlanned DEF IInv, Journal, answered, Waiting, Sent, NoncesUsed, Journaled
<1>3. /\ Good(L, IF request.method = "offer" THEN {request.receiver} ELSE {})
      /\ \A b \in L : b.id <= IF request.actor = SENDER THEN request.nonce ELSE nonces[SENDER]
  BY <1>1, <1>2, Executed
<1>4. known_branches' = IF request.method = "offer"
                        THEN [known_branches EXCEPT ![recipient] = request.nonce] ELSE known_branches
  BY DEF answered
<1>5. request.nonce \in Nat /\ request.actor \in Actors
  BY <1>2 DEF Requests
<1>6. L \subseteq Branches
  BY <1>3 DEF Good
<1> HIDE DEF L
<1>7. tries' \in 0..4
  BY <1>1 DEF IInv, TypeOK, answered, Journal, Iterating
<1>8. TypeOK'
  BY <1>1, <1>2, <1>4, <1>5, <1>6, <1>7 DEF IInv, TypeOK, bounds
<1>9. ASSUME NEW r \in Payees, NEW id \in Nat, Journaled(r, id) PROVE Journaled(r, id)'
  <2>1. CASE request.method = "offer" /\ r = recipient
    BY <1>1, <1>2, <1>4, <1>5, <1>9, <2>1, OneOffer DEF IInv, TypeOK, Journaled, Sent
  <2>2. CASE ~(request.method = "offer" /\ r = recipient)
    BY <1>1, <1>2, <1>4, <1>9, <2>2 DEF IInv, TypeOK, Journaled, Sent
  <2> QED BY <2>1, <2>2
<1>10. \A ledger \in past' : \A b \in ledger : b \in Branches /\ Journaled(b.receiver, b.id)
  BY <1>1, <1>3, <1>6 DEF IInv, TypeOK, JournalCoversPayments, Good
<1>11. JournalCoversPayments'
  BY <1>1, <1>9, <1>10 DEF IInv, TypeOK, JournalCoversPayments, Branches, Requests
<1>12. AtMostOnePayment'
  BY <1>1, <1>3 DEF IInv, AtMostOnePayment, Good
<1>13. \A r \in Payees : Paid(r) => Paid(r)'
  BY <1>1, <1>3 DEF Good, Paid
<1>14. FinalIsPaid' /\ VerifiedIsPaid'
  BY <1>1, <1>3, <1>10, <1>13 DEF IInv, FinalIsPaid, VerifiedIsPaid, Good, Branches
<1>15. \A b \in branches' : b.id <= nonces'[SENDER]
  BY <1>1, <1>3, <1>5 DEF IInv, TypeOK, Actors
<1>16. Journal'
  BY <1>1, <1>15 DEF IInv, Journal, FirstOffer, Waiting, Deciding, Iterating, NoncesUsed
<1> QED BY <1>8, <1>11, <1>12, <1>14, <1>16 DEF IInv

\* A refused request is forgotten: it is in no ledger and on no wire.
LEMMA RejectedKeeps == ASSUME IInv, rejected PROVE IInv'
<1>1. /\ UNCHANGED service /\ UNCHANGED <<wire, last_nonces, known_branches>> /\ UNCHANGED bounds
      /\ in_flight' = None /\ at' = "off" /\ index' = 1 /\ tries' = 0 /\ view' = {} /\ request' = None
  BY DEF rejected, Exit
<1>2. TypeOK'
  BY <1>1, PlanAssumption DEF IInv, TypeOK, service, bounds
<1>3. AtMostOnePayment' /\ FinalIsPaid' /\ VerifiedIsPaid' /\ \A b \in branches' : b.id <= nonces'[SENDER]
  BY <1>1, Held
<1>4. Sent
  BY DEF IInv, Journal, Waiting, rejected
<1>5. JournalCoversPayments'
  <2>1. ASSUME NEW r \in Payees, NEW i \in Nat, Journaled(r, i), request.method # "offer" \/ r # recipient
        PROVE  Journaled(r, i)'
    BY <1>1, <1>4, <2>1 DEF Journaled, Sent
  <2>2. ASSUME NEW ledger \in past, NEW b \in ledger PROVE Journaled(b.receiver, b.id)'
    <3>1. b.receiver \in Payees /\ b.id \in Nat /\ Journaled(b.receiver, b.id)
      BY DEF IInv, TypeOK, Branches, JournalCoversPayments
    <3>2. request.method # "offer" \/ b.receiver # recipient
      BY <1>4 DEF Sent, BranchesTo
    <3> QED BY <2>1, <3>1, <3>2
  <2>3. ASSUME NEW q \in wire, q.method = "offer" PROVE Journaled(q.receiver, q.nonce)'
    <3>1. q.receiver \in Payees /\ q.nonce \in Nat /\ Journaled(q.receiver, q.nonce)
      BY <2>3 DEF IInv, TypeOK, Requests, JournalCoversPayments
    <3>2. request.method # "offer" \/ q.receiver # recipient
      BY <1>4, <2>3 DEF Sent
    <3> QED BY <2>1, <3>1, <3>2
  <2> QED BY <1>1, <2>2, <2>3 DEF JournalCoversPayments, service
<1>6. Journal'
  BY <1>1, <1>3 DEF IInv, Journal, FirstOffer, Waiting, Deciding, Iterating, NoncesUsed
<1> QED BY <1>2, <1>3, <1>5, <1>6 DEF IInv

LEMMA VerifiedKeeps == ASSUME IInv, verified PROVE IInv'
<1>1. /\ UNCHANGED service /\ UNCHANGED <<wire, index, tries, view, request>>
      /\ UNCHANGED journal /\ UNCHANGED bounds /\ at' = "verified"
  BY DEF verified
<1>2. \A r \in Payees : Paid(r)
  BY DEF verified, IInv, FinalIsPaid, BranchesTo
<1>3. VerifiedIsPaid'
  BY <1>1, <1>2 DEF VerifiedIsPaid, Paid, service
<1>4. TypeOK' /\ AtMostOnePayment' /\ JournalCoversPayments' /\ FinalIsPaid'
  BY <1>1 DEF IInv, TypeOK, AtMostOnePayment, JournalCoversPayments, Journaled, FinalIsPaid, Paid,
              service, journal, bounds
<1>5. Journal'
  BY <1>1 DEF IInv, Journal, FirstOffer, Waiting, Deciding, Iterating, NoncesUsed, service, journal
<1> QED BY <1>3, <1>4, <1>5 DEF IInv
-----------------------------------------------------------------------------
LEMMA Initially == Init => IInv
<1> SUFFICES ASSUME Init PROVE IInv
  OBVIOUS
<1>1. TypeOK
  BY PlanAssumption DEF Init, TypeOK
<1>2. AtMostOnePayment /\ JournalCoversPayments /\ FinalIsPaid /\ VerifiedIsPaid
  BY DEF Init, AtMostOnePayment, Single, BranchesTo, JournalCoversPayments, FinalIsPaid, VerifiedIsPaid
<1>3. Journal
  BY DEF Init, Journal, FirstOffer, Waiting, Deciding, Iterating, NoncesUsed
<1> QED BY <1>1, <1>2, <1>3 DEF IInv

\* The inductive invariant of the distributor: every step of the nodes and of the program
\* (distributor.py, run, fund_one, reconcile, mutate) keeps it.
THEOREM Invariance == Spec => []IInv
<1>1. IInv /\ [Next]_vars => IInv'
  <2> SUFFICES ASSUME IInv, [Next]_vars PROVE IInv'
    OBVIOUS
  <2>1. CASE Service
    BY <2>1, ServiceKeeps
  <2>2. CASE Program
    BY <2>2, NextNonceKeeps, UnjournaledKeeps, ReconcileKeeps, SigningKeeps, AnsweredKeeps,
       RejectedKeeps, VerifiedKeeps DEF Program
  <2>3. CASE UNCHANGED vars
    BY <2>3 DEF IInv, TypeOK, AtMostOnePayment, JournalCoversPayments, Journaled, Journal, FirstOffer,
                Waiting, Sent, Deciding, Iterating, NoncesUsed, FinalIsPaid, Paid, VerifiedIsPaid, recipient,
                vars, service, journal, program, bounds
  <2> QED BY <2>1, <2>2, <2>3 DEF Next
<1> QED BY <1>1, Initially, PTL DEF Spec

\* Every variable of the distributor has its type.
THEOREM TypeCorrect == Spec => []TypeOK
<1>1. IInv => TypeOK
  BY DEF IInv
<1> QED BY <1>1, Invariance, PTL

\* The program never pays a recipient twice (distributor.py, mutate and reconcile), whatever
\* is lost, whenever it stops and whichever nodes it reads, as long as INVALID_REQUEST means
\* that nothing was done.
THEOREM NeverPaysTwice == Spec => []AtMostOnePayment
<1>1. IInv => AtMostOnePayment
  BY DEF IInv
<1> QED BY <1>1, Invariance, PTL

\* state.json explains every payment that exists or may still happen.
THEOREM JournalComplete == Spec => []JournalCoversPayments
<1>1. IInv => JournalCoversPayments
  BY DEF IInv
<1> QED BY <1>1, Invariance, PTL

\* "Verified ... final balances" (distributor.py, run) can be believed.
THEOREM VerificationSound == Spec => []VerifiedIsPaid
<1>1. IInv => VerifiedIsPaid
  BY DEF IInv
<1> QED BY <1>1, Invariance, PTL
=============================================================================
