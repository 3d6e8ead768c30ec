------------------------------ MODULE Requests ------------------------------
(***************************************************************************)
(* Signed requests and the programs that send them: the round clock        *)
(* (splitchain/round_clock.py), wallets behind the public gateway          *)
(* (public_rpc.py, the nonce reservation of the Android wallet) and the    *)
(* activation of enrolled accounts (enrollment.py), against the replay     *)
(* protection of the nodes (auth.py, node.py).                             *)
(*                                                                         *)
(* Of the three nodes, which Cluster models in detail, the module keeps    *)
(* the certified leader and the ledger of each node that leads or led: the *)
(* requests it executed.  As in Service, a takeover may drop the latest    *)
(* ones that nobody was given a result for, and a replaced leader goes on  *)
(* to show them.  The clock and the activation sign as one actor, so that  *)
(* their nonces, both read from the time of day, compete.  A call that     *)
(* times out has run, never runs, or runs later (`late`).                  *)
(***************************************************************************)
EXTENDS Integers, Sequences, FiniteSets, FiniteSetsExt

CONSTANTS
    Accounts,  \* wallets
    MaxTime,   \* bound: the time of day
    MaxEvents  \* bound: signatures, late requests, crashes, takeovers, backward steps of the time

BACKENDS == <<"primary", "secondary", "tertiary">>
Operator == "testnet_operator"
Clients  == {"clock", "gateway", "enrollment"}

\* The message of a signed request; `id` tells two signatures apart.
Requests == [actor : Accounts \cup {Operator}, nonce : Nat, id : Nat,
             method : {"advance", "offer", "account.register"}, account : Accounts \cup {"none"}]

ASSUME RequestsAssumption ==
    /\ Operator \notin Accounts /\ "none" \notin Accounts
    /\ MaxTime \in Nat /\ MaxEvents \in Nat

VARIABLES
    now,        \* the time of day
    leader,     \* index of the certified leader
    ledger,     \* backend -> the requests it executed, if it leads or led
    acked,      \* executed requests whose client was given a result
    late,       \* requests on their way after their caller gave up
    call,       \* client -> the request it is sending, and the backend it tries
    signed,     \* every request that was signed, with its client
    clock_file, \* the round clock's nonce file
    next_nonce, \* wallet -> WalletStore's next_nonce
    registry,   \* account -> the credential in the account registry
    faults

nodes       == <<leader, ledger, acked>>
requestVars == <<now, nodes, late, call, signed, clock_file, next_nonce, registry, faults>>
-----------------------------------------------------------------------------
Leaders == 1..leader

\* Account a is in the balances of backend b.
registered(b, a) == \E k \in DOMAIN ledger[b] : ledger[b][k].method = "account.register"
                                              /\ ledger[b][k].account = a

\* It is in the ledger of the leader or of a leader that was replaced.
listed(a) == \E b \in Leaders : registered(b, a)

\* The highest nonce that a backend recorded for an actor.
nonces(b, actor) ==
    LET used == {k \in DOMAIN ledger[b] : ledger[b][k].actor = actor}
    IN  IF used = {} THEN -1 ELSE ledger[b][CHOOSE k \in used : \A j \in used : j <= k].nonce

\* Bug: the last nonce is accepted again.
verify_equal(b, r) ==
    /\ r.actor # Operator => registry[r.actor] # "none"
    /\ r.nonce >= nonces(b, r.actor)
    /\ r.method = "offer" <=> r.actor # Operator

\* RequestAuthenticator.verify and the rights of the actor; a new actor is looked up in the
\* registry.
verify(b, r) ==
    /\ r.actor # Operator => registry[r.actor] # "none"
    /\ r.nonce > nonces(b, r.actor)
    /\ r.method = "offer" <=> r.actor # Operator

\* The ledger takes the request: accounts are registered once and pay when registered.
accepts(b, r) ==
    /\ verify(b, r)
    /\ r.method = "account.register" => ~registered(b, r.account)
    /\ r.method = "offer" => registered(b, r.actor)

Execute(b, r) == ledger' = IF accepts(b, r) THEN [ledger EXCEPT ![b] = Append(@, r)] ELSE ledger

\* A replaced leader has executed what its successor has not.
forked(b) == \E k \in DOMAIN ledger[b] : k > Len(ledger[b + 1]) \/ ledger[b + 1][k] # ledger[b][k]

\* The leader executes, and once more a replaced leader that has not heard of its successor: a
\* request that a replica prepared before it voted.
executes(b) == b = leader \/ (b < leader /\ ~forked(b))

\* A backend that has the request executes it or does not, and its client gets no result.
Runs(b, r) == UNCHANGED ledger \/ (executes(b) /\ Execute(b, r))

\* The leader executes the request and gives a result.
Commits(b, r) == b = leader /\ accepts(b, r) /\ Execute(b, r) /\ acked' = acked \cup {r}
-----------------------------------------------------------------------------
NoCall == [request |-> "none", at |-> 0]

idle(c) == call[c].at = 0

Fault == Cardinality(signed) + faults < MaxEvents /\ faults' = faults + 1

Sign(c, actor, nonce, method, account) ==
    LET r == [actor |-> actor, nonce |-> nonce, id |-> Cardinality(signed),
              method |-> method, account |-> account] IN
    /\ Cardinality(signed) + faults < MaxEvents
    /\ signed' = signed \cup {[client |-> c, request |-> r]}
    /\ call' = [call EXCEPT ![c] = [request |-> r, at |-> 1]]

\* Bug: the nonce file is only written when the clock stops.
next_request_unsaved ==
    /\ idle("clock")
    /\ Sign("clock", Operator, now, "advance", "none")
    /\ UNCHANGED <<now, nodes, late, clock_file, next_nonce, registry, faults>>

\* RoundClock.next_request: the nonce is on disk before the request is sent.
next_request ==
    LET nonce == Max({now, clock_file + 1}) IN
    /\ idle("clock")
    /\ Sign("clock", Operator, nonce, "advance", "none")
    /\ clock_file' = nonce
    /\ UNCHANGED <<now, nodes, late, next_nonce, registry, faults>>

\* WalletStore.reserveNonce, and the request goes to the public gateway.
reserveNonce(a) ==
    LET nonce == Max({now, next_nonce[a]}) IN
    /\ idle("gateway")
    /\ Sign("gateway", a, nonce, "offer", "none")
    /\ next_nonce' = [next_nonce EXCEPT ![a] = nonce + 1]
    /\ UNCHANGED <<now, nodes, late, clock_file, registry, faults>>

\* The call ends, or moves on to the next backend; activation stops at a lost answer.
MoveOn(c) ==
    call' = [call EXCEPT ![c] = IF @.at = Len(BACKENDS) THEN NoCall
                                   ELSE [request |-> @.request, at |-> @.at + 1]]
Stop(c) == call' = [call EXCEPT ![c] = NoCall]

\* NOT_LEADER, also from a leader that has not recorded its certificate yet; or the backend is
\* not reached.
Refer(c) ==
    /\ ~idle(c)
    /\ c # "enrollment"
    /\ MoveOn(c)
    /\ UNCHANGED <<now, nodes, late, signed, clock_file, next_nonce, registry, faults>>

\* A backend answers: a result, CommitUncertain, or INVALID_REQUEST for a request that it refuses
\* or finds no quorum for.
Answered(c) ==
    /\ ~idle(c)
    /\ c # "enrollment"
    /\ \/ Commits(call[c].at, call[c].request)
       \/ Runs(call[c].at, call[c].request) /\ UNCHANGED acked
    /\ Stop(c)
    /\ UNCHANGED <<now, leader, late, signed, clock_file, next_nonce, registry, faults>>

\* What becomes of a request whose answer does not arrive in time.
TimedOut(b, r) ==
    \/ Runs(b, r) /\ UNCHANGED <<late, faults>>
    \/ Fault /\ late' = late \cup {[request |-> r, to |-> b]} /\ UNCHANGED ledger

\* The clock and the gateway send the same request to the next backend; the gateway may also
\* have run out of its own ten seconds.
NoAnswer(c) ==
    /\ ~idle(c)
    /\ c # "enrollment"
    /\ TimedOut(call[c].at, call[c].request)
    /\ MoveOn(c) \/ (c = "gateway" /\ Stop(c))
    /\ UNCHANGED <<now, leader, acked, signed, clock_file, next_nonce, registry>>

\* A request whose caller gave up reaches its backend.
DeliverLate ==
    \E x \in late :
        /\ Runs(x.to, x.request)
        /\ late' = late \ {x}
        /\ UNCHANGED <<now, leader, acked, call, signed, clock_file, next_nonce, registry, faults>>

\* The next node leads with the first k requests, all those with a result among them; the ledger
\* of the replaced leader stays as it is.
Takeover(k) ==
    /\ leader < Len(BACKENDS) /\ Fault
    /\ \A r \in acked : \E j \in 1..k : ledger[leader][j] = r
    /\ leader' = leader + 1
    /\ ledger' = [ledger EXCEPT ![leader + 1] = SubSeq(ledger[leader], 1, k)]
    /\ UNCHANGED <<now, acked, late, call, signed, clock_file, next_nonce, registry>>

\* The round clock or the gateway stops and starts again.
Restart(c) ==
    /\ c \in {"clock", "gateway"} /\ ~idle(c) /\ Fault
    /\ Runs(call[c].at, call[c].request)
    /\ Stop(c)
    /\ UNCHANGED <<now, leader, acked, late, signed, clock_file, next_nonce, registry>>

Tick ==
    /\ now < MaxTime
    /\ now' = now + 1
    /\ UNCHANGED <<nodes, late, call, signed, clock_file, next_nonce, registry, faults>>

\* The time of day is set back.
StepBack ==
    /\ now > 0 /\ Fault
    /\ now' = now - 1
    /\ UNCHANGED <<nodes, late, call, signed, clock_file, next_nonce, registry>>
-----------------------------------------------------------------------------
RequestInit ==
    /\ now = 0 /\ leader = 1
    /\ ledger = [b \in DOMAIN BACKENDS |-> <<>>]
    /\ acked = {} /\ late = {} /\ signed = {}
    /\ call = [c \in Clients |-> NoCall]
    /\ clock_file = -1
    /\ next_nonce = [a \in Accounts |-> 0]
    /\ faults = 0

RequestNext ==
    \/ next_request \/ \E a \in Accounts : reserveNonce(a)
    \/ \E c \in Clients : Refer(c) \/ Answered(c) \/ NoAnswer(c) \/ Restart(c)
    \/ \E k \in 0..Len(ledger[leader]) : Takeover(k)
    \/ DeliverLate \/ Tick \/ StepBack
-----------------------------------------------------------------------------
(* Properties.                                                             *)

\* No ledger holds a signed request twice, the leader's or one of a replaced leader, although the
\* request is sent to three backends in turn, to two leaders, and again by the network, and a
\* takeover may drop it with its nonce so that it is executed again.
ExecutedOnce ==
    \A b \in Leaders : \A j, k \in DOMAIN ledger[b] : ledger[b][j] = ledger[b][k] => j = k

\* The round clock never signs two requests with one nonce, and neither does a wallet, whatever
\* restarts they go through and wherever the time of day goes.  Left out: the owner of a wallet
\* sets its nonce by hand (setNextNonce), or stores the credential anew or clears it
\* (WalletStore.save and clear), which start the count of the wallet at 0 again.
NoNonceReused ==
    \A x, y \in signed :
        /\ x.client = y.client /\ x.client # "enrollment"
        /\ x.request.actor = y.request.actor /\ x.request.nonce = y.request.nonce
        => x = y
=============================================================================
