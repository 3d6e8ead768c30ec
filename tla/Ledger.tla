------------------------------- MODULE Ledger -------------------------------
(***************************************************************************)
(* The canonical ledger and its two-party branches (splitchain/model.py).  *)
(*                                                                         *)
(* One action per method of class Ledger that changes state.  A call the   *)
(* code rejects with ProtocolError changes nothing: its guard is false.    *)
(* `advance` is a loop over rounds and branches; it is modelled as that    *)
(* loop, one action per iteration, and every other method waits until the  *)
(* loop is over (the class has no threads and the node calls it under its  *)
(* lock), so to its callers `advance` is still one step.                   *)
(*                                                                         *)
(* Abstractions.  A branch id hashes the number of branches made so far    *)
(* (the nonce) and branches are never removed, so the id is the position   *)
(* in `branches`, which is also the iteration order of the dict.  A digest *)
(* is the content it hashes: the digest of the canonical head is the       *)
(* sequence of blocks chained below it.  Digests are free of collisions,   *)
(* the 64-bit truncation of the branch id included.                        *)
(***************************************************************************)
EXTENDS Integers, Sequences, FiniteSets, Sums

CONSTANTS
    Accounts,       \* every account name that may appear in a request
    GenesisAccounts,\* the accounts of the genesis allocation
    Allocation,     \* genesis: account -> opening balance
    LockedAccounts, \* genesis: accounts that may never offer
    Payloads,       \* transaction payload digests
    None,           \* Python's None
    Values, TTLs,   \* amounts and lifetimes that requests ask for
    MaxAdvance,     \* bound: rounds asked of one call of advance
    MaxBranches,    \* bound: branches ever offered
    LastOfferRound  \* bound: no offer is made after this round

ASSUME AccountsAssumption == IsFiniteSet(Accounts) /\ GenesisAccounts \subseteq Accounts
ASSUME GenesisAssumption ==
    /\ Allocation \in [Accounts -> Nat]
    /\ \A a \in Accounts \ GenesisAccounts : Allocation[a] = 0
    /\ LockedAccounts \subseteq GenesisAccounts
ASSUME NoneAssumption == None \notin Nat /\ None \notin Payloads
ASSUME BoundsAssumption ==
    /\ Values \subseteq Int /\ TTLs \subseteq Int
    /\ MaxAdvance \in Nat /\ MaxBranches \in Nat /\ LastOfferRound \in Nat

VARIABLES
    round,              \* the round clock
    registered,         \* DOMAIN of the dict balances
    balances,           \* account -> balance, 0 where unregistered
    locked,             \* account -> units held by its active branches
    branches,           \* sequence of branch records, oldest first
    finalized,          \* sequence of [branch_id, tx_digest]
    canonical_height, canonical_digest, canonical_history,
    cursor,             \* advance: the branch looked at next, 0 when not running
    rounds_left         \* advance: iterations of its outer loop to come

funds == <<registered, balances, locked>>
chain == <<canonical_height, canonical_digest, canonical_history>>
loop  == <<cursor, rounds_left>>
vars  == <<round, funds, branches, finalized, chain, loop>>

FINALITY_ROUNDS == 3

BranchState == {"offered", "accepted", "committed", "final", "cancelled", "expired"}
Open        == {"offered", "accepted"}
Active      == Open \cup {"committed"}
Terminal    == BranchState \ Active

\* Two kinds of block extend the canonical chain.
Blocks == [account : Accounts] \cup [branch_id : Nat, tx_digest : Payloads]

Branch ==
    [sender : Accounts, receiver : Accounts, value : Nat, stake : Nat,
     created_round : Nat, expires_round : Nat,
     origin_height : Nat, origin_digest : Seq(Blocks),
     state : BranchState,
     accepted_round : Nat \cup {None}, committed_round : Nat \cup {None},
     tx_digest : Payloads \cup {None}]

Ids == 1..Len(branches)

\* An open branch expires at most this late and a committed one is final
\* FINALITY_ROUNDS later, so the clock may stop here without cutting anything off.
Horizon == IF TTLs = {} THEN LastOfferRound
           ELSE LastOfferRound + (CHOOSE t \in TTLs : \A u \in TTLs : u <= t) + FINALITY_ROUNDS
-----------------------------------------------------------------------------
Init ==
    /\ round = 0
    /\ registered = GenesisAccounts
    /\ balances = Allocation
    /\ locked = [a \in Accounts |-> 0]
    /\ branches = <<>>
    /\ finalized = <<>>
    /\ canonical_height = 0
    /\ canonical_digest = <<>>
    /\ canonical_history = [h \in {0} |-> <<>>]
    /\ cursor = 0
    /\ rounds_left = 0

available(a) == balances[a] - locked[a]

\* No call of advance is under way.
Idle == cursor = 0

\* A block is chained to the head and the new head enters the history.
Extend(block) ==
    /\ canonical_height' = canonical_height + 1
    /\ canonical_digest' = Append(canonical_digest, block)
    /\ canonical_history' =
           [h \in DOMAIN canonical_history \cup {canonical_height'} |->
                IF h = canonical_height' THEN canonical_digest' ELSE canonical_history[h]]

\* Bug: the stake stays locked.
unlock_value_only(b) == locked' = [locked EXCEPT ![b.sender] = @ - b.value]

\* The value and the equal stake go back to the sender.
unlock(b) == locked' = [locked EXCEPT ![b.sender] = @ - (b.value + b.stake)]

ensure_live(b) == round < b.expires_round

register_account(a) ==
    /\ Idle
    /\ a \notin registered
    /\ registered' = registered \cup {a}
    /\ balances' = [balances EXCEPT ![a] = 0]
    /\ Extend([account |-> a])
    /\ UNCHANGED <<round, locked, branches, finalized, loop>>

offer(s, r, v, ttl) ==
    /\ Idle
    /\ s \notin LockedAccounts
    /\ v > 0 /\ ttl >= FINALITY_ROUNDS
    /\ s # r
    /\ r \in registered
    /\ available(s) >= 2 * v
    /\ branches' = Append(branches,
           [sender |-> s, receiver |-> r, value |-> v, stake |-> v,
            created_round |-> round, expires_round |-> round + ttl,
            origin_height |-> canonical_height, origin_digest |-> canonical_digest,
            state |-> "offered", accepted_round |-> None, committed_round |-> None,
            tx_digest |-> None])
    /\ locked' = [locked EXCEPT ![s] = @ + 2 * v]
    /\ UNCHANGED <<round, registered, balances, finalized, chain, loop>>

\* Bug: the lifetime starts again at acceptance.
accept_restarts_ttl(i, r) ==
    /\ Idle
    /\ branches[i].state = "offered"
    /\ ensure_live(branches[i])
    /\ r = branches[i].receiver
    /\ branches' = [branches EXCEPT ![i].state = "accepted", ![i].accepted_round = round,
                        ![i].expires_round = @ + (round - branches[i].created_round)]
    /\ UNCHANGED <<round, funds, finalized, chain, loop>>

accept(i, r) ==
    /\ Idle
    /\ branches[i].state = "offered"
    /\ ensure_live(branches[i])
    /\ r = branches[i].receiver
    /\ branches' = [branches EXCEPT ![i].state = "accepted", ![i].accepted_round = round]
    /\ UNCHANGED <<round, funds, finalized, chain, loop>>

\* Bug: the commitment is not stored.
commit_without_digest(i, s, payload) ==
    /\ Idle
    /\ branches[i].state = "accepted"
    /\ ensure_live(branches[i])
    /\ s = branches[i].sender
    /\ branches' = [branches EXCEPT ![i].state = "committed", ![i].committed_round = round]
    /\ UNCHANGED <<round, funds, finalized, chain, loop>>

commit(i, s, payload) ==
    /\ Idle
    /\ branches[i].state = "accepted"
    /\ ensure_live(branches[i])
    /\ s = branches[i].sender
    /\ branches' = [branches EXCEPT ![i].state = "committed",
                        ![i].tx_digest = payload, ![i].committed_round = round]
    /\ UNCHANGED <<round, funds, finalized, chain, loop>>

cancel(i, actor) ==
    /\ Idle
    /\ branches[i].state \in Open
    /\ actor \in {branches[i].sender, branches[i].receiver}
    /\ branches' = [branches EXCEPT ![i].state = "cancelled"]
    /\ unlock(branches[i])
    /\ UNCHANGED <<round, registered, balances, finalized, chain, loop>>
-----------------------------------------------------------------------------
(* advance(rounds): the outer loop counts rounds, the inner one walks the  *)
(* branches in insertion order.                                            *)

advance(rounds) ==
    /\ Idle
    /\ rounds >= 1
    /\ round' = round + 1
    /\ cursor' = 1
    /\ rounds_left' = rounds - 1
    /\ UNCHANGED <<funds, branches, finalized, chain>>

\* Bug: an accepted branch never expires.
Expires_offered_only(i) == branches[i].state = "offered" /\ round >= branches[i].expires_round

\* An open branch whose round has come.
Expires(i) == branches[i].state \in Open /\ round >= branches[i].expires_round

\* Bug: finality one round early.
Matures_early(i) == branches[i].state = "committed"
                    /\ round - branches[i].committed_round >= FINALITY_ROUNDS - 1

\* Bug: a branch that is final already is finalized again.
Matures_repeatedly(i) == branches[i].committed_round # None
                         /\ round - branches[i].committed_round >= FINALITY_ROUNDS

\* A committed branch that has waited long enough.
Matures(i) == branches[i].state = "committed"
              /\ round - branches[i].committed_round >= FINALITY_ROUNDS

expire(i) ==
    /\ cursor = i
    /\ Expires(i)
    /\ branches' = [branches EXCEPT ![i].state = "expired"]
    /\ unlock(branches[i])
    /\ cursor' = cursor + 1
    /\ UNCHANGED <<round, registered, balances, finalized, chain, rounds_left>>

finalize(i) ==
    LET b == branches[i] IN
    /\ cursor = i
    /\ Matures(i)
    /\ balances' = [balances EXCEPT ![b.sender] = @ - b.value, ![b.receiver] = @ + b.value]
    /\ unlock(b)
    /\ branches' = [branches EXCEPT ![i].state = "final"]
    /\ finalized' = Append(finalized, [branch_id |-> i, tx_digest |-> b.tx_digest])
    /\ Extend([branch_id |-> i, tx_digest |-> b.tx_digest])
    /\ cursor' = cursor + 1
    /\ UNCHANGED <<round, registered, rounds_left>>

skip(i) ==
    /\ cursor = i
    /\ ~Expires(i) /\ ~Matures(i)
    /\ cursor' = cursor + 1
    /\ UNCHANGED <<round, funds, branches, finalized, chain, rounds_left>>

\* Bug: only the first round of a call looks at the branches.
next_round_unscanned ==
    /\ cursor > Len(branches)
    /\ rounds_left > 0
    /\ round' = round + 1
    /\ cursor' = cursor
    /\ rounds_left' = rounds_left - 1
    /\ UNCHANGED <<funds, branches, finalized, chain>>

next_round ==
    /\ cursor > Len(branches)
    /\ rounds_left > 0
    /\ round' = round + 1
    /\ cursor' = 1
    /\ rounds_left' = rounds_left - 1
    /\ UNCHANGED <<funds, branches, finalized, chain>>

advance_returns ==
    /\ cursor > Len(branches)
    /\ rounds_left = 0
    /\ cursor' = 0
    /\ UNCHANGED <<round, funds, branches, finalized, chain, rounds_left>>
-----------------------------------------------------------------------------
Settle(i) == expire(i) \/ finalize(i) \/ skip(i)

Loop == (\E i \in Ids : Settle(i)) \/ next_round \/ advance_returns

\* The clock's caller: the bound keeps round below the horizon.
Tick == \E n \in 1..MaxAdvance : round + n <= Horizon /\ advance(n)

Client ==
    \/ \E a \in Accounts : register_account(a)
    \/ /\ Len(branches) < MaxBranches /\ round <= LastOfferRound
       /\ \E s, r \in Accounts, v \in Values, ttl \in TTLs : offer(s, r, v, ttl)
    \/ \E i \in Ids, a \in Accounts : accept(i, a) \/ cancel(i, a)
    \/ \E i \in Ids, a \in Accounts, p \in Payloads : commit(i, a, p)

Next == Client \/ Tick \/ Loop

Spec == Init /\ [][Next]_vars

\* A loop that is running runs on; the round clock (splitchain/round_clock.py)
\* calls advance for ever.  Clients owe nothing.
FairSpec == Spec /\ WF_vars(Loop) /\ WF_vars(Tick)
-----------------------------------------------------------------------------
(* Properties.                                                             *)

\* What account a has locked in branch i, paid through it, or got from it.
HeldBy(a) == [i \in Ids |-> IF branches[i].state \in Active /\ branches[i].sender = a
                            THEN branches[i].value + branches[i].stake ELSE 0]
PaidBy(a) == [i \in Ids |-> IF branches[i].state = "final" /\ branches[i].sender = a
                            THEN branches[i].value ELSE 0]
PaidTo(a) == [i \in Ids |-> IF branches[i].state = "final" /\ branches[i].receiver = a
                            THEN branches[i].value ELSE 0]

\* Every variable has its type.
TypeOK ==
    /\ round \in Nat
    /\ registered \subseteq Accounts
    /\ balances \in [Accounts -> Int]
    /\ locked \in [Accounts -> Int]
    /\ branches \in Seq(Branch)
    /\ finalized \in Seq([branch_id : Nat, tx_digest : Payloads])
    /\ canonical_height \in Nat
    /\ canonical_digest \in Seq(Blocks)
    /\ canonical_history \in [0..canonical_height -> Seq(Blocks)]
    /\ cursor \in 0..(Len(branches) + 1)
    /\ rounds_left \in Nat

\* _validate_restored_state, one operator per check it makes of a snapshot.
SupplyConserved     == Total(balances) = Total(Allocation)
ReserveIntact       == \A a \in LockedAccounts : balances[a] = Allocation[a]
NoLockedSender      == \A i \in Ids : branches[i].sender \notin LockedAccounts
HeadInHistory       == /\ canonical_history[0] = <<>>
                       /\ canonical_history[canonical_height] = canonical_digest
NoNegativeBalance   == \A a \in Accounts : balances[a] >= 0
EqualStake          == \A i \in Ids : branches[i].value > 0 /\ branches[i].stake = branches[i].value
OriginsCanonical    == \A i \in Ids : /\ branches[i].origin_height \in DOMAIN canonical_history
                                      /\ canonical_history[branches[i].origin_height]
                                             = branches[i].origin_digest
LockedMatchesActive == \A a \in Accounts : locked[a] = Total(HeldBy(a))
NotOverLocked       == \A a \in Accounts : available(a) >= 0

\* Every check but the one on the genesis reserve.
Sound ==
    /\ SupplyConserved /\ NoLockedSender /\ HeadInHistory /\ NoNegativeBalance
    /\ EqualStake /\ OriginsCanonical /\ LockedMatchesActive /\ NotOverLocked

\* Ledger.from_snapshot accepts the ledger's own snapshot: a node can always restart
\* from what it saved, and the trial copy that precedes every replicated mutation can
\* be made.  It carries the funds invariants: supply, locks and solvency.
Restorable == Sound /\ ReserveIntact

\* Balances are the genesis allocation plus exactly the final branches, each counted
\* once at both ends: _finalize moves `value` and nothing else moves anything.
BalancesExplained ==
    \A a \in Accounts :
        balances[a] + Total(PaidBy(a)) = Allocation[a] + Total(PaidTo(a))

IsTransfer(block) == "branch_id" \in DOMAIN block

\* Where the chain has its transfers, and how many of them it has up to block k.
Transfers        == {k \in DOMAIN canonical_digest : IsTransfer(canonical_digest[k])}
TransfersUpTo(k) == Cardinality({j \in Transfers : j <= k})

\* The list of finalized transactions names every final branch, no branch twice and
\* with the commitment its sender made, and it is the chain without its registrations.
FinalizedOnce ==
    /\ {finalized[k].branch_id : k \in DOMAIN finalized}
           = {i \in Ids : branches[i].state = "final"}
    /\ \A k, l \in DOMAIN finalized : finalized[k].branch_id = finalized[l].branch_id => k = l
    /\ \A k \in DOMAIN finalized : finalized[k].tx_digest = branches[finalized[k].branch_id].tx_digest
    /\ Len(finalized) = Cardinality(Transfers)
    /\ \A k \in Transfers : canonical_digest[k] = finalized[TransfersUpTo(k)]

\* Between calls no open branch is past its expiry and no committed one past its
\* finality round, whatever number of rounds each advance covered; so _ensure_live
\* never has a late request to refuse.
NothingOverdue == Idle => \A i \in Ids : ~Expires(i) /\ ~Matures(i)

\* A branch becomes final exactly FINALITY_ROUNDS after its commitment and expires
\* exactly at its declared round, neither earlier nor a round late.
SettlesOnTime ==
    [][\A i \in Ids :
         LET b == branches[i] IN
         /\ b.state # "final" /\ branches'[i].state = "final"
                => b.state = "committed" /\ round = b.committed_round + FINALITY_ROUNDS
         /\ b.state # "expired" /\ branches'[i].state = "expired"
                => b.committed_round = None /\ round = b.expires_round]_vars

\* A branch is never forgotten: its terms and its origin never change, a settled one
\* never changes again, a commitment is never replaced, and the canonical history it
\* split from is only ever extended.
BranchesKeepTheirWord ==
    [][/\ \A i \in Ids :
            LET b == branches[i]
                c == branches'[i] IN
            /\ <<b.sender, b.receiver, b.value, b.expires_round, b.origin_height>>
                   = <<c.sender, c.receiver, c.value, c.expires_round, c.origin_height>>
            /\ b.state \in Terminal => c = b
            /\ b.tx_digest # None => c.tx_digest = b.tx_digest
       /\ \A h \in DOMAIN canonical_history : canonical_history'[h] = canonical_history[h]]_vars

\* Every branch ends: by finalization, cancellation or expiry (docs/ADR-0001).
EveryBranchEnds ==
    \A i \in 1..MaxBranches :
        i \in Ids ~> (i \in Ids /\ branches[i].state \in Terminal)
=============================================================================
