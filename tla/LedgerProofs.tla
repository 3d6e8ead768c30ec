---------------------------- MODULE LedgerProofs ----------------------------
(***************************************************************************)
(* Theorems about Ledger, for every set of accounts, every genesis         *)
(* allocation and every bound.                                             *)
(***************************************************************************)
EXTENDS Ledger, SumTheorems

\* What the states of a branch say about its commitment.
Commitments ==
    \A i \in Ids :
        /\ branches[i].state \in Open =>
               branches[i].committed_round = None /\ branches[i].tx_digest = None
        /\ branches[i].state \in {"committed", "final"} =>
               branches[i].committed_round \in Nat /\ branches[i].tx_digest \in Payloads

Typed == TypeOK /\ Commitments

\* The initial state is well typed.
LEMMA InitTyped == Init => Typed
BY AccountsAssumption, GenesisAssumption DEF Init, Typed, TypeOK, Commitments, Ids

-----------------------------------------------------------------------------
(* What the two ways to change state do, whatever action does them.        *)

\* Branch b takes the place of branch i; the others stay as they are.
Becomes(i, b) == branches' = [branches EXCEPT ![i] = b]

\* Replacing one branch keeps the list a list of branches.
LEMMA BecomesTyped ==
    ASSUME TypeOK, NEW i \in Ids, NEW b \in Branch, Becomes(i, b)
    PROVE  /\ branches' \in Seq(Branch)
           /\ Len(branches') = Len(branches)
           /\ Ids' = Ids
           /\ branches'[i] = b
           /\ \A j \in Ids : j # i => branches'[j] = branches[j]
<1>1. branches \in Seq(Branch) /\ i \in 1..Len(branches)
  BY DEF TypeOK, Ids
<1>2. branches' \in Seq(Branch) /\ Len(branches') = Len(branches)
  BY <1>1 DEF Becomes
<1> QED
  BY <1>1, <1>2 DEF Becomes, Ids

\* Chaining a block extends the history by the new head and changes nothing below it.
LEMMA ExtendTyped ==
    ASSUME TypeOK, NEW block \in Blocks, Extend(block)
    PROVE  /\ canonical_height' = canonical_height + 1
           /\ canonical_digest' \in Seq(Blocks)
           /\ canonical_history' \in [0..canonical_height' -> Seq(Blocks)]
           /\ canonical_history'[canonical_height'] = canonical_digest'
           /\ \A h \in 0..canonical_height : canonical_history'[h] = canonical_history[h]
<1>1. /\ canonical_height \in Nat /\ DOMAIN canonical_history = 0..canonical_height
      /\ canonical_height' = canonical_height + 1 /\ canonical_digest \in Seq(Blocks)
  BY DEF TypeOK, Extend
<1>2. canonical_digest' \in Seq(Blocks)
  BY <1>1 DEF Extend
<1>3. DOMAIN canonical_history \cup {canonical_height'} = 0..canonical_height'
  BY <1>1
<1>4. \A h \in 0..canonical_height : canonical_history[h] \in Seq(Blocks)
  BY DEF TypeOK
<1>5. canonical_history' \in [0..canonical_height' -> Seq(Blocks)]
  BY <1>1, <1>2, <1>3, <1>4 DEF Extend
<1> QED
  BY <1>1, <1>2, <1>3, <1>5 DEF Extend

\* The record a branch becomes in each action that changes one.
AcceptedBranch(i)  == [branches[i] EXCEPT !.state = "accepted", !.accepted_round = round]
CommittedBranch(i, p) == [branches[i] EXCEPT !.state = "committed", !.tx_digest = p,
                                             !.committed_round = round]
InState(i, st) == [branches[i] EXCEPT !.state = st]

\* Those records are branches.
LEMMA BranchTypes ==
    ASSUME TypeOK, NEW i \in Ids
    PROVE  /\ branches[i] \in Branch
           /\ AcceptedBranch(i) \in Branch
           /\ \A p \in Payloads : CommittedBranch(i, p) \in Branch
           /\ \A st \in BranchState : InState(i, st) \in Branch
<1>1. branches[i] \in Branch /\ round \in Nat
  BY DEF TypeOK, Ids
<1> QED
  BY <1>1 DEF Branch, BranchState, AcceptedBranch, CommittedBranch, InState

\* The fields that the invariants look at.
LEMMA BranchFields ==
    ASSUME TypeOK, NEW i \in Ids
    PROVE  /\ branches[i].sender \in Accounts /\ branches[i].receiver \in Accounts
           /\ branches[i].value \in Nat /\ branches[i].stake \in Nat
           /\ branches[i].expires_round \in Nat /\ branches[i].origin_height \in Nat
           /\ branches[i].state \in BranchState
BY BranchTypes DEF Branch

\* A change of state alone keeps everything else.
LEMMA InStateFields ==
    ASSUME TypeOK, NEW i \in Ids, NEW st \in BranchState
    PROVE  /\ InState(i, st) \in Branch /\ InState(i, st).state = st
           /\ InState(i, st).sender = branches[i].sender
           /\ InState(i, st).receiver = branches[i].receiver
           /\ InState(i, st).value = branches[i].value
           /\ InState(i, st).stake = branches[i].stake
           /\ InState(i, st).expires_round = branches[i].expires_round
           /\ InState(i, st).committed_round = branches[i].committed_round
           /\ InState(i, st).tx_digest = branches[i].tx_digest
           /\ InState(i, st).origin_height = branches[i].origin_height
           /\ InState(i, st).origin_digest = branches[i].origin_digest
<1>1. InState(i, st) \in Branch /\ branches[i] \in Branch
  BY BranchTypes
<1> QED
  BY <1>1 DEF InState, Branch

\* Releasing a branch's funds keeps the locks a function to integers.
LEMMA UnlockTyped ==
    ASSUME TypeOK, NEW i \in Ids, unlock(branches[i])
    PROVE  locked' \in [Accounts -> Int]
<1>1. PICK s, v, w : /\ s = branches[i].sender /\ v = branches[i].value /\ w = branches[i].stake
                     /\ s \in Accounts /\ v \in Int /\ w \in Int
  BY BranchFields
<1>2. locked \in [Accounts -> Int] /\ locked' = [locked EXCEPT ![s] = @ - (v + w)]
  BY <1>1 DEF TypeOK, unlock
<1> QED
  BY <1>1, <1>2

\* Each action in terms of Becomes.
LEMMA ActionsBecome ==
    ASSUME TypeOK, NEW i \in Ids
    PROVE  /\ \A a \in Accounts : accept(i, a) => Becomes(i, AcceptedBranch(i))
           /\ \A a \in Accounts, p \in Payloads : commit(i, a, p) => Becomes(i, CommittedBranch(i, p))
           /\ \A a \in Accounts : cancel(i, a) => Becomes(i, InState(i, "cancelled"))
           /\ expire(i) => Becomes(i, InState(i, "expired"))
           /\ finalize(i) => Becomes(i, InState(i, "final"))
<1>1. branches \in Seq(Branch) /\ i \in 1..Len(branches) /\ branches[i] \in Branch
  BY DEF TypeOK, Ids
<1> QED
  BY <1>1 DEF accept, commit, cancel, expire, finalize, Becomes, AcceptedBranch,
              CommittedBranch, InState

\* A step changes a branch only through one of the actions on that very branch.
LEMMA OnlyItsActions ==
    ASSUME TypeOK, Next, NEW i \in Ids
    PROVE  \/ branches'[i] = branches[i]
           \/ \E a \in Accounts : accept(i, a)
           \/ \E a \in Accounts, p \in Payloads : commit(i, a, p)
           \/ \E a \in Accounts : cancel(i, a)
           \/ expire(i)
           \/ finalize(i)
<1> DEFINE Changes(j) == \/ \E a \in Accounts : accept(j, a)
                         \/ \E a \in Accounts, p \in Payloads : commit(j, a, p)
                         \/ \E a \in Accounts : cancel(j, a)
                         \/ expire(j)
                         \/ finalize(j)
<1>1. ASSUME NEW j \in Ids, j # i, Changes(j)
      PROVE  branches'[i] = branches[i]
  <2>1. PICK b \in Branch : Becomes(j, b)
    BY <1>1, ActionsBecome, BranchTypes DEF BranchState
  <2> QED
    BY <1>1, <2>1, BecomesTyped
<1>2. ASSUME NEW s \in Accounts, NEW r \in Accounts, NEW v \in Values, NEW ttl \in TTLs,
             offer(s, r, v, ttl)
      PROVE  branches'[i] = branches[i]
  BY <1>2 DEF offer, TypeOK, Ids
<1>3. \/ \E j \in Ids : Changes(j)
      \/ \E s, r \in Accounts, v \in Values, ttl \in TTLs : offer(s, r, v, ttl)
      \/ UNCHANGED branches
  BY DEF Next, Client, Tick, Loop, Settle, register_account, advance, skip, next_round,
         advance_returns
<1> QED
  BY <1>1, <1>2, <1>3
-----------------------------------------------------------------------------
(* Type correctness.                                                       *)

\* Every step preserves the types.
LEMMA NextTyped == Typed /\ [Next]_vars => Typed'
<1> SUFFICES ASSUME Typed, [Next]_vars
             PROVE  Typed'
  OBVIOUS
<1> USE DEF Typed
<1>1. ASSUME NEW a \in Accounts, register_account(a)
      PROVE  Typed'
  <2>1. [account |-> a] \in Blocks
    BY DEF Blocks
  <2>2. Extend([account |-> a])
    BY <1>1 DEF register_account
  <2>3. TypeOK'
    BY <1>1, <2>1, <2>2, ExtendTyped DEF register_account, TypeOK, loop
  <2> QED
    BY <1>1, <2>3 DEF register_account, Commitments, Ids
<1>2. ASSUME NEW s \in Accounts, NEW r \in Accounts, NEW v \in Values, NEW ttl \in TTLs,
             offer(s, r, v, ttl)
      PROVE  Typed'
  <2> DEFINE b == [sender |-> s, receiver |-> r, value |-> v, stake |-> v,
                   created_round |-> round, expires_round |-> round + ttl,
                   origin_height |-> canonical_height, origin_digest |-> canonical_digest,
                   state |-> "offered", accepted_round |-> None, committed_round |-> None,
                   tx_digest |-> None]
  <2>1. v \in Nat /\ ttl \in Nat
    BY <1>2, BoundsAssumption DEF offer, FINALITY_ROUNDS
  <2>2. b \in Branch
    BY <2>1 DEF TypeOK, Branch, BranchState, Open, Active
  <2>3. branches' = Append(branches, b)
    BY <1>2 DEF offer
  <2> HIDE DEF b
  <2>4. /\ branches' \in Seq(Branch) /\ Len(branches') = Len(branches) + 1
        /\ branches'[Len(branches) + 1] = b
        /\ \A j \in Ids : branches'[j] = branches[j]
    BY <2>2, <2>3 DEF TypeOK, Ids
  <2>5. locked' \in [Accounts -> Int]
    BY <1>2, <2>1 DEF offer, TypeOK
  <2>6. TypeOK'
    BY <1>2, <2>4, <2>5 DEF offer, TypeOK, chain, loop
  <2>7. Ids' = Ids \cup {Len(branches) + 1}
    BY <2>4 DEF TypeOK, Ids
  <2>8. b.state = "offered" /\ b.committed_round = None /\ b.tx_digest = None
    BY DEF b
  <2> QED
    BY <2>4, <2>6, <2>7, <2>8 DEF Commitments, Open
<1>3. ASSUME NEW i \in Ids, NEW a \in Accounts, accept(i, a)
      PROVE  Typed'
  <2>1. Becomes(i, AcceptedBranch(i)) /\ AcceptedBranch(i) \in Branch
    BY <1>3, ActionsBecome, BranchTypes
  <2>2. TypeOK'
    BY <1>3, <2>1, BecomesTyped DEF accept, TypeOK, funds, chain, loop
  <2>3. branches[i].state \in Open
    BY <1>3 DEF accept, Open
  <2>4. /\ AcceptedBranch(i).state = "accepted"
        /\ AcceptedBranch(i).committed_round = branches[i].committed_round
        /\ AcceptedBranch(i).tx_digest = branches[i].tx_digest
    BY BranchTypes DEF AcceptedBranch, Branch
  <2> QED
    BY <2>1, <2>2, <2>3, <2>4, BecomesTyped DEF Commitments, Open
<1>4. ASSUME NEW i \in Ids, NEW a \in Accounts, NEW p \in Payloads, commit(i, a, p)
      PROVE  Typed'
  <2>1. Becomes(i, CommittedBranch(i, p)) /\ CommittedBranch(i, p) \in Branch
    BY <1>4, ActionsBecome, BranchTypes
  <2>2. TypeOK'
    BY <1>4, <2>1, BecomesTyped DEF commit, TypeOK, funds, chain, loop
  <2>3. /\ CommittedBranch(i, p).state = "committed"
        /\ CommittedBranch(i, p).committed_round = round
        /\ CommittedBranch(i, p).tx_digest = p
    BY BranchTypes DEF CommittedBranch, Branch
  <2> QED
    BY <2>1, <2>2, <2>3, BecomesTyped DEF Commitments, Open, TypeOK
<1>5. ASSUME NEW i \in Ids, NEW a \in Accounts, cancel(i, a)
      PROVE  Typed'
  <2>1. Becomes(i, InState(i, "cancelled")) /\ InState(i, "cancelled") \in Branch
    BY <1>5, ActionsBecome, BranchTypes DEF BranchState
  <2>2. locked' \in [Accounts -> Int]
    BY <1>5, UnlockTyped DEF cancel
  <2>3. TypeOK'
    BY <1>5, <2>1, <2>2, BecomesTyped DEF cancel, TypeOK, chain, loop
  <2>4. InState(i, "cancelled").state = "cancelled"
    BY BranchTypes DEF InState, Branch
  <2> QED
    BY <2>1, <2>3, <2>4, BecomesTyped DEF Commitments, Open
<1>6. ASSUME NEW n \in 1..MaxAdvance, advance(n)
      PROVE  Typed'
  BY <1>6, BoundsAssumption DEF advance, TypeOK, Commitments, Ids, funds, chain
<1>7. ASSUME NEW i \in Ids, expire(i)
      PROVE  Typed'
  <2>1. Becomes(i, InState(i, "expired")) /\ InState(i, "expired") \in Branch
    BY <1>7, ActionsBecome, BranchTypes DEF BranchState
  <2>2. locked' \in [Accounts -> Int]
    BY <1>7, UnlockTyped DEF expire
  <2>3. cursor' \in 0..(Len(branches') + 1)
    BY <1>7, <2>1, BecomesTyped DEF expire, TypeOK, Ids
  <2>4. TypeOK'
    BY <1>7, <2>1, <2>2, <2>3, BecomesTyped DEF expire, TypeOK, chain
  <2>5. InState(i, "expired").state = "expired"
    BY BranchTypes DEF InState, Branch
  <2> QED
    BY <2>1, <2>4, <2>5, BecomesTyped DEF Commitments, Open
<1>8. ASSUME NEW i \in Ids, finalize(i)
      PROVE  Typed'
  <2> DEFINE entry == [branch_id |-> i, tx_digest |-> branches[i].tx_digest]
  <2>1. Becomes(i, InState(i, "final")) /\ InState(i, "final") \in Branch
    BY <1>8, ActionsBecome, BranchTypes DEF BranchState
  <2>2. branches[i].tx_digest \in Payloads /\ branches[i].committed_round \in Nat
    BY <1>8 DEF finalize, Matures, Commitments
  <2>3. entry \in Blocks /\ entry \in [branch_id : Nat, tx_digest : Payloads]
    BY <2>2 DEF Blocks, Ids
  <2>4. Extend(entry) /\ finalized' = Append(finalized, entry)
    BY <1>8 DEF finalize
  <2> HIDE DEF entry
  <2>5. finalized' \in Seq([branch_id : Nat, tx_digest : Payloads])
    BY <2>3, <2>4 DEF TypeOK
  <2>6. locked' \in [Accounts -> Int]
    BY <1>8, UnlockTyped DEF finalize
  <2>7. balances' \in [Accounts -> Int]
    <3>1. PICK s, r, v : /\ s = branches[i].sender /\ r = branches[i].receiver
                         /\ v = branches[i].value
                         /\ s \in Accounts /\ r \in Accounts /\ v \in Int
      BY BranchFields
    <3>2. /\ balances \in [Accounts -> Int]
          /\ balances' = [balances EXCEPT ![s] = @ - v, ![r] = @ + v]
      BY <1>8, <3>1 DEF TypeOK, finalize
    <3> QED
      BY <3>1, <3>2
  <2>8. cursor' \in 0..(Len(branches') + 1)
    BY <1>8, <2>1, BecomesTyped DEF finalize, TypeOK, Ids
  <2>9. branches' \in Seq(Branch)
    BY <2>1, BecomesTyped
  <2>10. round' = round /\ registered' = registered /\ rounds_left' = rounds_left
    BY <1>8 DEF finalize
  <2>11. TypeOK'
    BY <2>3, <2>4, <2>5, <2>6, <2>7, <2>8, <2>9, <2>10, ExtendTyped DEF TypeOK
  <2>12. /\ InState(i, "final").state = "final"
         /\ InState(i, "final").committed_round = branches[i].committed_round
         /\ InState(i, "final").tx_digest = branches[i].tx_digest
    BY BranchTypes DEF InState, Branch
  <2> QED
    BY <2>1, <2>2, <2>11, <2>12, BecomesTyped DEF Commitments, Open
<1>9. ASSUME NEW i \in Ids, skip(i)
      PROVE  Typed'
  BY <1>9 DEF skip, TypeOK, Commitments, Ids, funds, chain
<1>10. ASSUME next_round
       PROVE  Typed'
  BY <1>10 DEF next_round, TypeOK, Commitments, Ids, funds, chain
<1>11. ASSUME advance_returns
       PROVE  Typed'
  BY <1>11 DEF advance_returns, TypeOK, Commitments, Ids, funds, chain
<1>12. CASE UNCHANGED vars
  BY <1>12 DEF vars, TypeOK, Commitments, Ids, funds, chain, loop
<1> QED
  BY <1>1, <1>2, <1>3, <1>4, <1>5, <1>6, <1>7, <1>8, <1>9, <1>10, <1>11, <1>12
     DEF Next, Client, Tick, Loop, Settle

\* Every reachable state of the ledger is well typed, and a branch carries a commitment
\* digest and its round from commit on and never before.
THEOREM TypeCorrect == Spec => []TypeOK
<1>1. Spec => []Typed
  BY InitTyped, NextTyped, PTL DEF Spec
<1> QED
  BY <1>1, PTL DEF Typed
-----------------------------------------------------------------------------
(* Funds: the locks are what the active branches hold, and balances cover  *)
(* them.                                                                   *)

\* Positions are finitely many and the amounts held or paid through them natural.
LEMMA SummandsTyped ==
    ASSUME TypeOK, NEW a \in Accounts
    PROVE  /\ IsFiniteSet(Ids)
           /\ HeldBy(a) \in [Ids -> Nat]
           /\ PaidBy(a) \in [Ids -> Nat]
           /\ PaidTo(a) \in [Ids -> Nat]
<1>1. Len(branches) \in Nat
  BY DEF TypeOK
<1>2. IsFiniteSet(Ids)
  BY <1>1, FS_Interval DEF Ids
<1>3. \A i \in Ids : branches[i].value \in Nat /\ branches[i].value + branches[i].stake \in Nat
  BY BranchFields
<1> QED
  BY <1>2, <1>3 DEF HeldBy, PaidBy, PaidTo

\* When one branch is replaced, each sum changes by that branch's own summand.
LEMMA SumsOfReplaced ==
    ASSUME TypeOK, TypeOK', NEW i \in Ids, NEW b \in Branch, Becomes(i, b), NEW a \in Accounts
    PROVE  /\ Total(HeldBy(a)') = Total(HeldBy(a)) - HeldBy(a)[i] + HeldBy(a)'[i]
           /\ Total(PaidBy(a)') = Total(PaidBy(a)) - PaidBy(a)[i] + PaidBy(a)'[i]
           /\ Total(PaidTo(a)') = Total(PaidTo(a)) - PaidTo(a)[i] + PaidTo(a)'[i]
<1>1. Ids' = Ids /\ \A j \in Ids : j # i => branches'[j] = branches[j]
  BY BecomesTyped
<1>2. /\ IsFiniteSet(Ids) 
      /\ HeldBy(a) \in [Ids -> Nat] /\ PaidBy(a) \in [Ids -> Nat] /\ PaidTo(a) \in [Ids -> Nat]
  BY SummandsTyped
<1>3. \A j \in Ids : branches'[j].value \in Nat /\ branches'[j].value + branches'[j].stake \in Nat
  <2>1. \A j \in Ids : branches'[j] \in Branch
    <3>1. branches' \in Seq(Branch) /\ Len(branches') = Len(branches)
      BY BecomesTyped
    <3> QED
      BY <3>1 DEF Ids
  <2> QED
    BY <2>1 DEF Branch
<1>4. /\ HeldBy(a)' \in [Ids -> Nat] /\ PaidBy(a)' \in [Ids -> Nat] /\ PaidTo(a)' \in [Ids -> Nat]
  BY <1>1, <1>3 DEF HeldBy, PaidBy, PaidTo
<1>5. \A j \in Ids \ {i} : /\ HeldBy(a)'[j] = HeldBy(a)[j]
                           /\ PaidBy(a)'[j] = PaidBy(a)[j]
                           /\ PaidTo(a)'[j] = PaidTo(a)[j]
  BY <1>1 DEF HeldBy, PaidBy, PaidTo
<1> QED
  BY <1>2, <1>4, <1>5, TotalUpdate

\* The funds invariant.  Registration makes a balance, so an unregistered account has none;
\* only registered accounts take part in branches.
Funds ==
    /\ EqualStake /\ LockedMatchesActive /\ NotOverLocked /\ BalancesExplained
    /\ SupplyConserved
    /\ \A a \in Accounts \ registered : balances[a] = 0
    /\ \A i \in Ids : branches[i].receiver \in registered
    /\ \A i \in Ids : branches[i].sender # branches[i].receiver

\* A branch changes without funds moving.
LEMMA FundsKept ==
    ASSUME TypeOK, TypeOK', Funds, NEW i \in Ids, NEW b \in Branch, Becomes(i, b), UNCHANGED funds,
           branches[i].state \in Active, b.state \in Active,
           b.sender = branches[i].sender, b.receiver = branches[i].receiver,
           b.value = branches[i].value, b.stake = branches[i].stake
    PROVE  Funds'
<1>1. /\ Ids' = Ids /\ branches'[i] = b
      /\ \A j \in Ids : j # i => branches'[j] = branches[j]
  BY BecomesTyped
<1>2. ASSUME NEW a \in Accounts
      PROVE  /\ HeldBy(a)' = HeldBy(a)
             /\ PaidBy(a)' = PaidBy(a)
             /\ PaidTo(a)' = PaidTo(a)
  <2>1. "final" \notin Active
    BY DEF Active, Open
  <2> QED
    BY <1>1, <2>1 DEF HeldBy, PaidBy, PaidTo
<1>3. LockedMatchesActive' /\ BalancesExplained'
  BY <1>2 DEF Funds, LockedMatchesActive, BalancesExplained, funds
<1> QED
  BY <1>1, <1>3 DEF Funds, EqualStake, NotOverLocked, available, SupplyConserved, funds

\* A branch that leaves the active states unpaid gives its sender back what it held.
LEMMA FundsReleased ==
    ASSUME TypeOK, TypeOK', Funds, NEW i \in Ids, NEW st \in {"cancelled", "expired"},
           Becomes(i, InState(i, st)), unlock(branches[i]), UNCHANGED <<registered, balances>>,
           branches[i].state \in Active
    PROVE  Funds'
<1> DEFINE s == branches[i].sender
           h == branches[i].value + branches[i].stake
<1>1. /\ InState(i, st) \in Branch /\ InState(i, st).state = st
      /\ InState(i, st).sender = s /\ InState(i, st).receiver = branches[i].receiver
      /\ InState(i, st).value = branches[i].value /\ InState(i, st).stake = branches[i].stake
  BY InStateFields DEF BranchState
<1>2. /\ Ids' = Ids /\ branches'[i] = InState(i, st)
      /\ \A j \in Ids : j # i => branches'[j] = branches[j]
  BY <1>1, BecomesTyped
<1>3. s \in Accounts /\ h \in Nat
  BY BranchFields
<1>4. /\ locked \in [Accounts -> Int]
      /\ \A a \in Accounts : locked'[a] = IF a = s THEN locked[a] - h ELSE locked[a]
  BY <1>3 DEF TypeOK, unlock
<1>5. ASSUME NEW a \in Accounts
      PROVE  /\ HeldBy(a)[i] = IF a = s THEN h ELSE 0
             /\ HeldBy(a)'[i] = 0
             /\ PaidBy(a)' = PaidBy(a)
             /\ PaidTo(a)' = PaidTo(a)
  <2>1. st \notin Active /\ st # "final" /\ branches[i].state # "final"
    BY DEF Active, Open
  <2> QED
    BY <1>1, <1>2, <2>1 DEF HeldBy, PaidBy, PaidTo
<1>6. LockedMatchesActive'
  <2> SUFFICES ASSUME NEW a \in Accounts
               PROVE  locked'[a] = Total(HeldBy(a)')
    BY DEF LockedMatchesActive
  <2>1. locked[a] = Total(HeldBy(a))
    BY DEF Funds, LockedMatchesActive
  <2>2. Total(HeldBy(a)') = Total(HeldBy(a)) - HeldBy(a)[i] + HeldBy(a)'[i]
    BY <1>1, SumsOfReplaced
  <2>3. locked[a] \in Int
    BY <1>4
  <2> HIDE DEF s, h
  <2> QED
    BY <1>3, <1>4, <1>5, <2>1, <2>2, <2>3
<1>7. BalancesExplained'
  BY <1>5 DEF Funds, BalancesExplained
<1>8. NotOverLocked'
  <2> SUFFICES ASSUME NEW a \in Accounts
               PROVE  balances'[a] - locked'[a] >= 0
    BY DEF NotOverLocked, available
  <2>1. balances[a] - locked[a] >= 0 /\ balances[a] \in Int /\ locked[a] \in Int
    BY DEF Funds, NotOverLocked, available, TypeOK
  <2> HIDE DEF s, h
  <2> QED
    BY <1>3, <1>4, <2>1
<1>9. EqualStake'
  BY <1>1, <1>2 DEF Funds, EqualStake
<1> QED
  BY <1>1, <1>2, <1>6, <1>7, <1>8, <1>9 DEF Funds, SupplyConserved

\* Balances are natural numbers: they cover locks, and locks are sums.
LEMMA BalancesNatural ==
    ASSUME TypeOK, Funds
    PROVE  /\ balances \in [Accounts -> Nat]
           /\ \A a \in Accounts : 0 <= locked[a] /\ locked[a] <= balances[a]
<1>1. ASSUME NEW a \in Accounts
      PROVE  0 <= locked[a] /\ locked[a] <= balances[a] /\ balances[a] \in Nat
  <2>1. Total(HeldBy(a)) \in Nat
    BY SummandsTyped, TotalType
  <2>2. locked[a] = Total(HeldBy(a)) /\ balances[a] - locked[a] >= 0
    BY DEF Funds, LockedMatchesActive, NotOverLocked, available
  <2>3. balances[a] \in Int
    BY DEF TypeOK
  <2> QED
    BY <2>1, <2>2, <2>3
<1> QED
  BY <1>1 DEF TypeOK

\* A final branch moves its value once from sender to receiver and releases the stake.
LEMMA FundsMoved ==
    ASSUME TypeOK, TypeOK', Funds, NEW i \in Ids, finalize(i)
    PROVE  Funds'
<1> DEFINE s == branches[i].sender
           r == branches[i].receiver
           v == branches[i].value
           h == branches[i].value + branches[i].stake
           b == InState(i, "final")
<1>1. /\ Becomes(i, b) /\ b \in Branch /\ b.state = "final"
      /\ b.sender = s /\ b.receiver = r /\ b.value = v /\ b.stake = branches[i].stake
  BY ActionsBecome, InStateFields DEF BranchState
<1>2. /\ Ids' = Ids /\ branches'[i] = b
      /\ \A j \in Ids : j # i => branches'[j] = branches[j]
  BY <1>1, BecomesTyped
<1>3. /\ s \in Accounts /\ r \in Accounts /\ v \in Nat /\ h = 2 * v /\ s # r /\ r \in registered
      /\ branches[i].state = "committed"
  BY BranchFields DEF Funds, EqualStake, finalize, Matures
<1>4. /\ locked \in [Accounts -> Int]
      /\ \A a \in Accounts : locked'[a] = IF a = s THEN locked[a] - h ELSE locked[a]
  BY <1>3 DEF TypeOK, finalize, unlock
<1>5. balances' = [balances EXCEPT ![s] = @ - v, ![r] = @ + v]
  BY DEF finalize
<1>6. ASSUME NEW a \in Accounts
      PROVE  /\ HeldBy(a)[i] = IF a = s THEN h ELSE 0
             /\ HeldBy(a)'[i] = 0
             /\ PaidBy(a)[i] = 0
             /\ PaidBy(a)'[i] = IF a = s THEN v ELSE 0
             /\ PaidTo(a)[i] = 0
             /\ PaidTo(a)'[i] = IF a = r THEN v ELSE 0
  BY <1>1, <1>2, <1>3 DEF HeldBy, PaidBy, PaidTo, Active, Open
<1>7. EqualStake' /\ registered' = registered
  BY <1>1, <1>2 DEF Funds, EqualStake, finalize
<1>8. /\ \A j \in Ids' : branches'[j].receiver \in registered'
      /\ \A j \in Ids' : branches'[j].sender # branches'[j].receiver
  BY <1>1, <1>2, <1>7 DEF Funds
<1> HIDE DEF s, r, v, h, b
<1>9. balances \in [Accounts -> Nat] /\ v <= balances[s]
  <2>1. h <= Total(HeldBy(s))
    BY <1>3, <1>6, SummandsTyped, TotalBound
  <2>2. locked[s] = Total(HeldBy(s)) /\ locked[s] <= balances[s] /\ locked[s] \in Int
    BY <1>3, <1>4, BalancesNatural DEF Funds, LockedMatchesActive
  <2>3. balances \in [Accounts -> Nat]
    BY BalancesNatural
  <2> QED
    BY <1>3, <2>1, <2>2, <2>3
<1>10. \A a \in Accounts : balances'[a] = IF a = s THEN balances[a] - v
                                          ELSE IF a = r THEN balances[a] + v ELSE balances[a]
  BY <1>3, <1>5, <1>9
<1>11. LockedMatchesActive'
  <2> SUFFICES ASSUME NEW a \in Accounts
               PROVE  locked'[a] = Total(HeldBy(a)')
    BY DEF LockedMatchesActive
  <2>1. locked[a] = Total(HeldBy(a)) /\ locked[a] \in Int
    BY <1>4 DEF Funds, LockedMatchesActive
  <2>2. Total(HeldBy(a)') = Total(HeldBy(a)) - HeldBy(a)[i] + HeldBy(a)'[i]
    BY <1>1, SumsOfReplaced
  <2> QED
    BY <1>3, <1>4, <1>6, <2>1, <2>2
<1>12. BalancesExplained'
  <2> SUFFICES ASSUME NEW a \in Accounts
               PROVE  balances'[a] + Total(PaidBy(a)') = Allocation[a] + Total(PaidTo(a)')
    BY DEF BalancesExplained
  <2>1. balances[a] + Total(PaidBy(a)) = Allocation[a] + Total(PaidTo(a))
    BY DEF Funds, BalancesExplained
  <2>2. /\ Total(PaidBy(a)') = Total(PaidBy(a)) - PaidBy(a)[i] + PaidBy(a)'[i]
        /\ Total(PaidTo(a)') = Total(PaidTo(a)) - PaidTo(a)[i] + PaidTo(a)'[i]
    BY <1>1, SumsOfReplaced
  <2>3. Total(PaidBy(a)) \in Nat /\ Total(PaidTo(a)) \in Nat
    BY SummandsTyped, TotalType
  <2>4. balances[a] \in Nat /\ Allocation[a] \in Nat
    BY <1>9, GenesisAssumption
  <2> QED
    BY <1>3, <1>6, <1>10, <2>1, <2>2, <2>3, <2>4
<1>13. NotOverLocked'
  <2> SUFFICES ASSUME NEW a \in Accounts
               PROVE  balances'[a] - locked'[a] >= 0
    BY DEF NotOverLocked, available
  <2>1. balances[a] - locked[a] >= 0 /\ balances[a] \in Int /\ locked[a] \in Int
    BY DEF Funds, NotOverLocked, available, TypeOK
  <2> QED
    BY <1>3, <1>4, <1>10, <2>1
<1>14. SupplyConserved'
  <2> DEFINE mid == [balances EXCEPT ![s] = @ - v]
  <2>1. mid \in [Accounts -> Nat] /\ mid[s] = balances[s] - v
        /\ \A a \in Accounts \ {s} : mid[a] = balances[a]
    BY <1>3, <1>9
  <2> HIDE DEF mid
  <2>2. Total(mid) = Total(balances) - balances[s] + mid[s]
    BY <1>3, <1>9, <2>1, AccountsAssumption, TotalUpdate
  <2>3. /\ balances' \in [Accounts -> Nat] /\ balances'[r] = mid[r] + v
        /\ \A a \in Accounts \ {r} : balances'[a] = mid[a]
    <3>1. \A a \in Accounts : balances[a] \in Nat
      BY <1>9
    <3>2. \A a \in Accounts : balances'[a] \in Nat
      BY <1>3, <1>9, <1>10, <3>1
    <3>3. balances' \in [Accounts -> Nat]
      BY <3>2 DEF TypeOK
    <3> QED
      BY <1>3, <1>10, <2>1, <3>1, <3>3
  <2>4. Total(balances') = Total(mid) - mid[r] + balances'[r]
    BY <1>3, <2>1, <2>3, AccountsAssumption, TotalUpdate
  <2>5. Total(balances) \in Nat /\ Total(mid) \in Nat
    BY <1>9, <2>1, AccountsAssumption, TotalType
  <2>6. Total(balances') = Total(balances)
    BY <1>3, <1>9, <2>1, <2>2, <2>3, <2>4, <2>5
  <2> QED
    BY <2>6 DEF Funds, SupplyConserved
<1>15. \A a \in Accounts \ registered' : balances'[a] = 0
  <2>1. s \in registered
    BY <1>3, <1>9 DEF Funds, EqualStake, s, v
  <2> QED
    BY <1>3, <1>7, <1>10, <2>1 DEF Funds
<1> QED
  BY <1>7, <1>8, <1>11, <1>12, <1>13, <1>14, <1>15 DEF Funds

\* An offer adds one branch; its two amounts are what the sender had available.
LEMMA FundsOffered ==
    ASSUME TypeOK, TypeOK', Funds, NEW s \in Accounts, NEW r \in Accounts, NEW v \in Values,
           NEW ttl \in TTLs, offer(s, r, v, ttl)
    PROVE  Funds'
<1> DEFINE n == Len(branches) + 1
<1>1. /\ branches \in Seq(Branch) /\ Len(branches) \in Nat
      /\ v \in Nat /\ v > 0 /\ s # r /\ r \in registered
  BY BoundsAssumption DEF TypeOK, offer
<1>2. /\ Len(branches') = n /\ branches' \in Seq(Branch)
      /\ \A j \in Ids : branches'[j] = branches[j]
      /\ branches'[n].sender = s /\ branches'[n].receiver = r /\ branches'[n].state = "offered"
      /\ branches'[n].value = v /\ branches'[n].stake = v
  BY <1>1 DEF offer, Ids, TypeOK
<1>3. n \notin Ids /\ Ids' = Ids \cup {n}
  BY <1>1, <1>2 DEF Ids
<1>4. /\ locked \in [Accounts -> Int]
      /\ \A a \in Accounts : locked'[a] = IF a = s THEN locked[a] + 2 * v ELSE locked[a]
  BY <1>1 DEF TypeOK, offer
<1>5. registered' = registered /\ balances' = balances /\ balances[s] - locked[s] >= 2 * v
  BY DEF offer, available
<1> HIDE DEF n
<1>6. ASSUME NEW a \in Accounts
      PROVE  /\ Total(HeldBy(a)') = Total(HeldBy(a)) + (IF a = s THEN 2 * v ELSE 0)
             /\ Total(PaidBy(a)') = Total(PaidBy(a))
             /\ Total(PaidTo(a)') = Total(PaidTo(a))
             /\ Total(HeldBy(a)) \in Nat /\ Total(PaidBy(a)) \in Nat /\ Total(PaidTo(a)) \in Nat
  <2>1. /\ IsFiniteSet(Ids) /\ HeldBy(a) \in [Ids -> Nat]
        /\ PaidBy(a) \in [Ids -> Nat] /\ PaidTo(a) \in [Ids -> Nat]
    BY SummandsTyped
  <2>2. \A j \in Ids' : branches'[j].value \in Nat /\ branches'[j].value + branches'[j].stake \in Nat
    <3>1. \A j \in Ids : branches[j].value \in Nat /\ branches[j].value + branches[j].stake \in Nat
      BY BranchFields
    <3> QED
      BY <1>1, <1>2, <1>3, <3>1
  <2>3. /\ HeldBy(a)' \in [Ids \cup {n} -> Nat]
        /\ PaidBy(a)' \in [Ids \cup {n} -> Nat]
        /\ PaidTo(a)' \in [Ids \cup {n} -> Nat]
    BY <1>3, <2>2 DEF HeldBy, PaidBy, PaidTo
  <2>4. \A j \in Ids : /\ HeldBy(a)'[j] = HeldBy(a)[j]
                       /\ PaidBy(a)'[j] = PaidBy(a)[j]
                       /\ PaidTo(a)'[j] = PaidTo(a)[j]
    BY <1>2, <1>3 DEF HeldBy, PaidBy, PaidTo
  <2>5. /\ HeldBy(a)'[n] = IF a = s THEN 2 * v ELSE 0
        /\ PaidBy(a)'[n] = 0
        /\ PaidTo(a)'[n] = 0
    BY <1>1, <1>2, <1>3 DEF HeldBy, PaidBy, PaidTo, Active, Open
  <2>6. Total(HeldBy(a)) \in Nat /\ Total(PaidBy(a)) \in Nat /\ Total(PaidTo(a)) \in Nat
    BY <2>1, TotalType
  <2>7. Total(HeldBy(a)') = Total(HeldBy(a)) + HeldBy(a)'[n]
    BY <1>3, <2>1, <2>3, <2>4, TotalExtend
  <2>8. Total(PaidBy(a)') = Total(PaidBy(a)) + PaidBy(a)'[n]
    BY <1>3, <2>1, <2>3, <2>4, TotalExtend
  <2>9. Total(PaidTo(a)') = Total(PaidTo(a)) + PaidTo(a)'[n]
    BY <1>3, <2>1, <2>3, <2>4, TotalExtend
  <2> QED
    BY <1>1, <2>5, <2>6, <2>7, <2>8, <2>9
<1>7. LockedMatchesActive'
  <2> SUFFICES ASSUME NEW a \in Accounts
               PROVE  locked'[a] = Total(HeldBy(a)')
    BY DEF LockedMatchesActive
  <2>1. locked[a] = Total(HeldBy(a))
    BY DEF Funds, LockedMatchesActive
  <2> QED
    BY <1>1, <1>4, <1>6, <2>1
<1>8. BalancesExplained'
  BY <1>5, <1>6 DEF Funds, BalancesExplained
<1>9. NotOverLocked'
  <2> SUFFICES ASSUME NEW a \in Accounts
               PROVE  balances'[a] - locked'[a] >= 0
    BY DEF NotOverLocked, available
  <2>1. balances[a] - locked[a] >= 0 /\ balances[a] \in Int /\ locked[a] \in Int
    BY DEF Funds, NotOverLocked, available, TypeOK
  <2> QED
    BY <1>1, <1>4, <1>5, <2>1
<1>10. /\ EqualStake'
       /\ \A j \in Ids' : branches'[j].receiver \in registered'
       /\ \A j \in Ids' : branches'[j].sender # branches'[j].receiver
  BY <1>1, <1>2, <1>3, <1>5 DEF Funds, EqualStake
<1> QED
  BY <1>5, <1>7, <1>8, <1>9, <1>10 DEF Funds, SupplyConserved

\* The genesis state has the funds invariant.
LEMMA InitFunds == Init => Funds
<1> SUFFICES ASSUME Init
             PROVE  Funds
  OBVIOUS
<1>1. Ids = {}
  BY DEF Init, Ids
<1>2. \A a \in Accounts : /\ Total(HeldBy(a)) = 0
                          /\ Total(PaidBy(a)) = 0
                          /\ Total(PaidTo(a)) = 0
  BY <1>1, TotalZero DEF HeldBy, PaidBy, PaidTo
<1>3. \A a \in Accounts : balances[a] \in Nat /\ locked[a] = 0 /\ balances[a] = Allocation[a]
  BY GenesisAssumption DEF Init
<1> QED
  BY <1>1, <1>2, <1>3, GenesisAssumption
     DEF Init, Funds, EqualStake, LockedMatchesActive, NotOverLocked, available,
         BalancesExplained, SupplyConserved

\* Every step preserves the funds invariant.
LEMMA NextFunds == Typed /\ Funds /\ [Next]_vars => Funds'
<1> SUFFICES ASSUME Typed, Funds, [Next]_vars
             PROVE  Funds'
  OBVIOUS
<1>0. TypeOK /\ TypeOK' /\ Typed'
  BY NextTyped DEF Typed
<1>1. ASSUME UNCHANGED <<branches, balances, locked>>, registered \subseteq registered'
      PROVE  Funds'
  <2>1. /\ Ids' = Ids
        /\ \A a \in Accounts : /\ HeldBy(a)' = HeldBy(a)
                               /\ PaidBy(a)' = PaidBy(a)
                               /\ PaidTo(a)' = PaidTo(a)
    BY <1>1 DEF Ids, HeldBy, PaidBy, PaidTo
  <2>2. LockedMatchesActive' /\ BalancesExplained'
    BY <1>1, <2>1 DEF Funds, LockedMatchesActive, BalancesExplained
  <2> QED
    BY <1>1, <2>1, <2>2 DEF Funds, EqualStake, NotOverLocked, available, SupplyConserved
<1>2. ASSUME NEW a \in Accounts, register_account(a)
      PROVE  Funds'
  <2>1. balances' = balances
    BY <1>0, <1>2 DEF register_account, Funds, TypeOK
  <2> QED
    BY <1>1, <1>2, <2>1 DEF register_account
<1>3. ASSUME NEW s \in Accounts, NEW r \in Accounts, NEW v \in Values, NEW ttl \in TTLs,
             offer(s, r, v, ttl)
      PROVE  Funds'
  BY <1>0, <1>3, FundsOffered
<1>4. ASSUME NEW i \in Ids, NEW a \in Accounts, accept(i, a)
      PROVE  Funds'
  <2>1. Becomes(i, AcceptedBranch(i)) /\ AcceptedBranch(i) \in Branch
    BY <1>0, <1>4, ActionsBecome, BranchTypes
  <2>2. /\ AcceptedBranch(i).state = "accepted"
        /\ AcceptedBranch(i).sender = branches[i].sender
        /\ AcceptedBranch(i).receiver = branches[i].receiver
        /\ AcceptedBranch(i).value = branches[i].value
        /\ AcceptedBranch(i).stake = branches[i].stake
    BY <1>0, BranchTypes DEF AcceptedBranch, Branch
  <2>3. UNCHANGED funds /\ branches[i].state \in Active /\ "accepted" \in Active
    BY <1>4 DEF accept, Active, Open
  <2> QED
    BY <1>0, <2>1, <2>2, <2>3, FundsKept
<1>5. ASSUME NEW i \in Ids, NEW a \in Accounts, NEW p \in Payloads, commit(i, a, p)
      PROVE  Funds'
  <2>1. Becomes(i, CommittedBranch(i, p)) /\ CommittedBranch(i, p) \in Branch
    BY <1>0, <1>5, ActionsBecome, BranchTypes
  <2>2. /\ CommittedBranch(i, p).state = "committed"
        /\ CommittedBranch(i, p).sender = branches[i].sender
        /\ CommittedBranch(i, p).receiver = branches[i].receiver
        /\ CommittedBranch(i, p).value = branches[i].value
        /\ CommittedBranch(i, p).stake = branches[i].stake
    BY <1>0, BranchTypes DEF CommittedBranch, Branch
  <2>3. UNCHANGED funds /\ branches[i].state \in Active /\ "committed" \in Active
    BY <1>5 DEF commit, Active, Open
  <2> QED
    BY <1>0, <2>1, <2>2, <2>3, FundsKept
<1>6. ASSUME NEW i \in Ids, NEW a \in Accounts, cancel(i, a)
      PROVE  Funds'
  <2>1. Becomes(i, InState(i, "cancelled"))
    BY <1>0, <1>6, ActionsBecome
  <2>2. /\ unlock(branches[i]) /\ UNCHANGED <<registered, balances>>
        /\ branches[i].state \in Active
    BY <1>6 DEF cancel, Active
  <2> QED
    BY <1>0, <2>1, <2>2, FundsReleased
<1>7. ASSUME NEW i \in Ids, expire(i)
      PROVE  Funds'
  <2>1. Becomes(i, InState(i, "expired"))
    BY <1>0, <1>7, ActionsBecome
  <2>2. /\ unlock(branches[i]) /\ UNCHANGED <<registered, balances>>
        /\ branches[i].state \in Active
    BY <1>7 DEF expire, Expires, Active
  <2> QED
    BY <1>0, <2>1, <2>2, FundsReleased
<1>8. ASSUME NEW i \in Ids, finalize(i)
      PROVE  Funds'
  BY <1>0, <1>8, FundsMoved
<1>9. ASSUME \/ \E n \in 1..MaxAdvance : advance(n)
             \/ \E i \in Ids : skip(i)
             \/ next_round \/ advance_returns \/ UNCHANGED vars
      PROVE  Funds'
  BY <1>1, <1>9 DEF advance, skip, next_round, advance_returns, vars, funds
<1> QED
  BY <1>2, <1>3, <1>4, <1>5, <1>6, <1>7, <1>8, <1>9 DEF Next, Client, Tick, Loop, Settle
-----------------------------------------------------------------------------
(* History: the head is in it, the origin of every branch is in it, and no *)
(* genesis-locked account ever sent.                                       *)

History == HeadInHistory /\ OriginsCanonical /\ NoLockedSender

\* Chaining a block keeps the origins of unchanged branches canonical.
LEMMA HistoryExtended ==
    ASSUME TypeOK, History, NEW block \in Blocks, Extend(block)
    PROVE  /\ HeadInHistory'
           /\ \A i \in Ids : /\ branches[i].origin_height \in DOMAIN canonical_history'
                             /\ canonical_history'[branches[i].origin_height]
                                    = branches[i].origin_digest
<1>1. /\ canonical_height \in Nat /\ canonical_height' = canonical_height + 1
      /\ DOMAIN canonical_history' = 0..canonical_height'
      /\ DOMAIN canonical_history = 0..canonical_height
      /\ canonical_history'[canonical_height'] = canonical_digest'
      /\ \A h \in 0..canonical_height : canonical_history'[h] = canonical_history[h]
  BY ExtendTyped DEF TypeOK
<1> QED
  BY <1>1 DEF History, HeadInHistory, OriginsCanonical

\* A branch that changes keeps its origin and its sender.
LEMMA HistoryKept ==
    ASSUME TypeOK, History, NEW i \in Ids, NEW b \in Branch, Becomes(i, b),
           b.sender = branches[i].sender, b.origin_height = branches[i].origin_height,
           b.origin_digest = branches[i].origin_digest, UNCHANGED chain
    PROVE  History'
<1>1. /\ Ids' = Ids /\ branches'[i] = b
      /\ \A j \in Ids : j # i => branches'[j] = branches[j]
  BY BecomesTyped
<1> QED
  BY <1>1 DEF History, HeadInHistory, OriginsCanonical, NoLockedSender, chain

\* Every step preserves the history invariant.
LEMMA NextHistory == Typed /\ History /\ [Next]_vars => History'
<1> SUFFICES ASSUME Typed, History, [Next]_vars
             PROVE  History'
  OBVIOUS
<1>0. TypeOK /\ Typed'
  BY NextTyped DEF Typed
<1>1. ASSUME NEW a \in Accounts, register_account(a)
      PROVE  History'
  <2>1. [account |-> a] \in Blocks /\ Extend([account |-> a]) /\ branches' = branches
    BY <1>1 DEF Blocks, register_account
  <2> QED
    BY <1>0, <2>1, HistoryExtended DEF History, OriginsCanonical, NoLockedSender, Ids
<1>2. ASSUME NEW s \in Accounts, NEW r \in Accounts, NEW v \in Values, NEW ttl \in TTLs,
             offer(s, r, v, ttl)
      PROVE  History'
  <2> DEFINE n == Len(branches) + 1
  <2>1. /\ Ids' = Ids \cup {n} /\ \A j \in Ids : branches'[j] = branches[j]
        /\ branches'[n].sender = s /\ branches'[n].origin_height = canonical_height
        /\ branches'[n].origin_digest = canonical_digest
        /\ s \notin LockedAccounts /\ UNCHANGED chain
    BY <1>0, <1>2 DEF offer, Ids, TypeOK
  <2>2. canonical_height \in DOMAIN canonical_history
    BY <1>0 DEF TypeOK
  <2> HIDE DEF n
  <2> QED
    BY <2>1, <2>2 DEF History, HeadInHistory, OriginsCanonical, NoLockedSender, chain
<1>3. ASSUME NEW i \in Ids, NEW a \in Accounts, accept(i, a)
      PROVE  History'
  <2>1. Becomes(i, AcceptedBranch(i)) /\ AcceptedBranch(i) \in Branch /\ UNCHANGED chain
    BY <1>0, <1>3, ActionsBecome, BranchTypes DEF accept
  <2>2. /\ AcceptedBranch(i).sender = branches[i].sender
        /\ AcceptedBranch(i).origin_height = branches[i].origin_height
        /\ AcceptedBranch(i).origin_digest = branches[i].origin_digest
    BY <1>0, BranchTypes DEF AcceptedBranch, Branch
  <2> QED
    BY <1>0, <2>1, <2>2, HistoryKept
<1>4. ASSUME NEW i \in Ids, NEW a \in Accounts, NEW p \in Payloads, commit(i, a, p)
      PROVE  History'
  <2>1. Becomes(i, CommittedBranch(i, p)) /\ CommittedBranch(i, p) \in Branch /\ UNCHANGED chain
    BY <1>0, <1>4, ActionsBecome, BranchTypes DEF commit
  <2>2. /\ CommittedBranch(i, p).sender = branches[i].sender
        /\ CommittedBranch(i, p).origin_height = branches[i].origin_height
        /\ CommittedBranch(i, p).origin_digest = branches[i].origin_digest
    BY <1>0, BranchTypes DEF CommittedBranch, Branch
  <2> QED
    BY <1>0, <2>1, <2>2, HistoryKept
<1>5. ASSUME NEW i \in Ids, (\E a \in Accounts : cancel(i, a)) \/ expire(i)
      PROVE  History'
  <2>1. PICK st \in {"cancelled", "expired"} : Becomes(i, InState(i, st))
    BY <1>0, <1>5, ActionsBecome
  <2>2. UNCHANGED chain
    BY <1>5 DEF cancel, expire
  <2>3. st \in BranchState
    BY DEF BranchState
  <2> QED
    BY <1>0, <2>1, <2>2, <2>3, HistoryKept, InStateFields
<1>6. ASSUME NEW i \in Ids, finalize(i)
      PROVE  History'
  <2> DEFINE block == [branch_id |-> i, tx_digest |-> branches[i].tx_digest]
  <2>1. Becomes(i, InState(i, "final")) /\ "final" \in BranchState
    BY <1>0, <1>6, ActionsBecome DEF BranchState
  <2>2. block \in Blocks /\ Extend(block)
    <3>1. branches[i].tx_digest \in Payloads
      BY <1>6 DEF finalize, Matures, Typed, Commitments
    <3> QED
      BY <1>6, <3>1 DEF finalize, Blocks, Ids
  <2>3. /\ Ids' = Ids /\ branches'[i] = InState(i, "final")
        /\ \A j \in Ids : j # i => branches'[j] = branches[j]
        /\ InState(i, "final").sender = branches[i].sender
        /\ InState(i, "final").origin_height = branches[i].origin_height
        /\ InState(i, "final").origin_digest = branches[i].origin_digest
    BY <1>0, <2>1, BecomesTyped, InStateFields
  <2> HIDE DEF block
  <2> QED
    BY <1>0, <2>2, <2>3, HistoryExtended DEF History, OriginsCanonical, NoLockedSender
<1>7. ASSUME \/ \E n \in 1..MaxAdvance : advance(n)
             \/ \E i \in Ids : skip(i)
             \/ next_round \/ advance_returns \/ UNCHANGED vars
      PROVE  History'
  <2>1. UNCHANGED <<branches, chain>>
    BY <1>7 DEF advance, skip, next_round, advance_returns, vars
  <2> QED
    BY <2>1 DEF History, HeadInHistory, OriginsCanonical, NoLockedSender, chain, Ids
<1> QED
  BY <1>1, <1>2, <1>3, <1>4, <1>5, <1>6, <1>7 DEF Next, Client, Tick, Loop, Settle

\* Total supply, locks, stakes, solvency and the canonical history are intact in every
\* reachable state, whatever the genesis: every check of _validate_restored_state on the
\* ledger's own snapshot succeeds, the one on the locked reserve apart.
THEOREM LedgerSound == Spec => []Sound
<1>1. Init => Typed /\ Funds /\ History
  <2>1. Init => History
    BY DEF Init, History, HeadInHistory, OriginsCanonical, NoLockedSender, Ids
  <2> QED
    BY <2>1, InitTyped, InitFunds
<1>2. Typed /\ Funds /\ History /\ [Next]_vars => (Typed /\ Funds /\ History)'
  BY NextTyped, NextFunds, NextHistory
<1>3. Typed /\ Funds /\ History => Sound
  <2>1. ASSUME TypeOK, Funds PROVE NoNegativeBalance
    BY <2>1, BalancesNatural DEF NoNegativeBalance
  <2> QED
    BY <2>1 DEF Typed, Funds, History, Sound
<1> QED
  BY <1>1, <1>2, <1>3, PTL DEF Spec

\* Without a genesis-locked account a node can always restore the ledger it saved.
THEOREM AlwaysRestorable ==
    ASSUME LockedAccounts = {}
    PROVE  Spec => []Restorable
<1>1. Sound => Restorable
  BY DEF Restorable, ReserveIntact
<1> QED
  BY <1>1, LedgerSound, PTL

\* Each balance is its genesis allocation plus what final branches brought and less what
\* they took: no transition other than _finalize moves value, and none moves it twice.
THEOREM EveryUnitExplained == Spec => []BalancesExplained
<1>1. Typed /\ Funds => BalancesExplained
  BY DEF Funds
<1> QED
  BY <1>1, InitTyped, InitFunds, NextTyped, NextFunds, PTL DEF Spec
-----------------------------------------------------------------------------
(* The list of finalized transactions and the chain.                       *)

\* The counts of FinalizedOnce are counts of finite sets.
LEMMA TransfersCounted ==
    ASSUME TypeOK
    PROVE  /\ IsFiniteSet(Transfers)
           /\ \A k \in Transfers : TransfersUpTo(k) \in 1..Cardinality(Transfers)
<1>1. DOMAIN canonical_digest = 1..Len(canonical_digest) /\ Len(canonical_digest) \in Nat
  BY DEF TypeOK
<1>2. IsFiniteSet(Transfers)
  <2>1. Transfers \subseteq 1..Len(canonical_digest)
    BY <1>1 DEF Transfers
  <2>2. IsFiniteSet(1..Len(canonical_digest))
    BY <1>1, FS_Interval
  <2> QED
    BY <2>1, <2>2, FS_Subset
<1>3. ASSUME NEW k \in Transfers
      PROVE  TransfersUpTo(k) \in 1..Cardinality(Transfers)
  <2> DEFINE below == {j \in Transfers : j <= k}
  <2>1. below \subseteq Transfers /\ k \in below
    BY <1>1 DEF Transfers
  <2> HIDE DEF below
  <2>2. IsFiniteSet(below) /\ Cardinality(below) <= Cardinality(Transfers)
    BY <1>2, <2>1, FS_Subset
  <2>3. Cardinality(below) \in Nat /\ Cardinality(below) # 0 /\ Cardinality(Transfers) \in Nat
    BY <1>2, <2>1, <2>2, FS_CardinalityType, FS_EmptySet
  <2> QED
    BY <2>2, <2>3 DEF TransfersUpTo, below
<1> QED
  BY <1>2, <1>3

\* Every branch that is listed exists.
LEMMA ListedBranch ==
    ASSUME TypeOK, FinalizedOnce, NEW k \in DOMAIN finalized
    PROVE  finalized[k].branch_id \in Ids /\ branches[finalized[k].branch_id].state = "final"
BY DEF FinalizedOnce

\* A branch that changes without becoming or having been final, while the chain stands
\* still, leaves the list as it should be.
LEMMA ListKept ==
    ASSUME TypeOK, FinalizedOnce, UNCHANGED <<finalized, canonical_digest>>,
           Ids \subseteq Ids', \A i \in Ids' \ Ids : branches'[i].state # "final",
           \A i \in Ids : \/ branches'[i] = branches[i]
                          \/ branches[i].state # "final" /\ branches'[i].state # "final"
    PROVE  FinalizedOnce'
<1>1. {i \in Ids' : branches'[i].state = "final"} = {i \in Ids : branches[i].state = "final"}
  OBVIOUS
<1>2. \A k \in DOMAIN finalized :
          branches'[finalized[k].branch_id] = branches[finalized[k].branch_id]
  BY ListedBranch
<1>3. Transfers' = Transfers /\ \A k : TransfersUpTo(k)' = TransfersUpTo(k)
  BY DEF Transfers, TransfersUpTo
<1> QED
  BY <1>1, <1>2, <1>3 DEF FinalizedOnce

\* Chaining a block adds its position to the transfers if it is one, and changes no count
\* below it.
LEMMA TransfersExtended ==
    ASSUME TypeOK, NEW block \in Blocks, Extend(block), NEW n, n = Len(canonical_digest) + 1
    PROVE  /\ n \notin Transfers /\ canonical_digest'[n] = block
           /\ \A k \in Transfers : canonical_digest'[k] = canonical_digest[k]
           /\ Transfers' = IF IsTransfer(block) THEN Transfers \cup {n} ELSE Transfers
           /\ \A k \in Transfers : TransfersUpTo(k)' = TransfersUpTo(k)
           /\ IsTransfer(block) => TransfersUpTo(n)' = Cardinality(Transfers) + 1
<1>1. /\ canonical_digest \in Seq(Blocks) /\ Len(canonical_digest) \in Nat
      /\ canonical_digest' = Append(canonical_digest, block)
      /\ DOMAIN canonical_digest = 1..Len(canonical_digest)
  BY DEF TypeOK, Extend
<1>2. /\ DOMAIN canonical_digest' = 1..n
      /\ canonical_digest'[n] = block
      /\ \A k \in DOMAIN canonical_digest : canonical_digest'[k] = canonical_digest[k]
  BY <1>1
<1>3. n \notin Transfers /\ \A k \in Transfers : k \in 1..Len(canonical_digest)
  BY <1>1 DEF Transfers
<1>4. Transfers' = IF IsTransfer(block) THEN Transfers \cup {n} ELSE Transfers
  <2>1. 1..n = (DOMAIN canonical_digest) \cup {n}
    BY <1>1
  <2> QED
    BY <1>1, <1>2, <2>1 DEF Transfers, IsTransfer
<1>5. ASSUME NEW k \in Transfers PROVE TransfersUpTo(k)' = TransfersUpTo(k)
  <2>1. ~(n <= k)
    BY <1>1, <1>3
  <2>2. {j \in Transfers' : j <= k} = {j \in Transfers : j <= k}
    BY <1>4, <2>1
  <2> QED
    BY <2>2 DEF TransfersUpTo
<1>6. ASSUME IsTransfer(block) PROVE TransfersUpTo(n)' = Cardinality(Transfers) + 1
  <2>1. {j \in Transfers' : j <= n} = Transfers \cup {n}
    BY <1>1, <1>3, <1>4, <1>6
  <2>2. Cardinality(Transfers \cup {n}) = Cardinality(Transfers) + 1
    BY <1>3, TransfersCounted, FS_AddElement
  <2> QED
    BY <2>1, <2>2 DEF TransfersUpTo
<1>7. \A k \in Transfers : canonical_digest'[k] = canonical_digest[k]
  BY <1>2 DEF Transfers
<1> QED
  BY <1>2, <1>3, <1>4, <1>5, <1>6, <1>7

\* _finalize puts one block at the end of the list and of the chain.
LEMMA ListExtended ==
    ASSUME Typed, FinalizedOnce, NEW i \in Ids, finalize(i)
    PROVE  FinalizedOnce'
<1> DEFINE block == [branch_id |-> i, tx_digest |-> branches[i].tx_digest]
           m == Len(finalized) + 1
<1>0. TypeOK
  BY DEF Typed
<1>n. PICK n : n = Len(canonical_digest) + 1
  OBVIOUS
<1>1. /\ branches[i].state = "committed" /\ branches[i].tx_digest \in Payloads
      /\ finalized' = Append(finalized, block) /\ Extend(block)
  BY DEF finalize, Matures, Typed, Commitments
<1>2. block \in Blocks /\ IsTransfer(block)
  BY <1>1 DEF Blocks, Ids, IsTransfer
<1>3. block.branch_id = i /\ block.tx_digest = branches[i].tx_digest
  OBVIOUS
<1> HIDE DEF block
<1>4. /\ Ids' = Ids /\ branches'[i] = InState(i, "final")
      /\ branches'[i].state = "final" /\ branches'[i].tx_digest = branches[i].tx_digest
      /\ \A j \in Ids : j # i => branches'[j] = branches[j]
  <2>1. Becomes(i, InState(i, "final")) /\ "final" \in BranchState
    BY <1>0, ActionsBecome DEF BranchState
  <2> QED
    BY <1>0, <2>1, BecomesTyped, InStateFields
<1>5. /\ DOMAIN finalized = 1..Len(finalized) /\ Len(finalized) \in Nat
      /\ DOMAIN finalized' = DOMAIN finalized \cup {m} /\ m \notin DOMAIN finalized
      /\ Len(finalized') = m /\ finalized'[m] = block
      /\ \A k \in DOMAIN finalized : finalized'[k] = finalized[k]
  <2>1. finalized \in Seq([branch_id : Nat, tx_digest : Payloads])
    BY <1>0 DEF TypeOK
  <2> QED
    BY <1>1, <2>1
<1>6. \A k \in DOMAIN finalized : /\ finalized[k].branch_id \in Ids
                                  /\ finalized[k].branch_id # i
  BY <1>0, <1>1, ListedBranch
<1>7. {finalized'[k].branch_id : k \in DOMAIN finalized'}
          = {j \in Ids' : branches'[j].state = "final"}
  <2>1. {finalized'[k].branch_id : k \in DOMAIN finalized'}
            = {finalized[k].branch_id : k \in DOMAIN finalized} \cup {i}
    BY <1>3, <1>5
  <2>2. {j \in Ids' : branches'[j].state = "final"}
            = {j \in Ids : branches[j].state = "final"} \cup {i}
    BY <1>4
  <2> QED
    BY <2>1, <2>2 DEF FinalizedOnce
<1>8. \A k, l \in DOMAIN finalized' : finalized'[k].branch_id = finalized'[l].branch_id => k = l
  BY <1>3, <1>5, <1>6 DEF FinalizedOnce
<1>9. \A k \in DOMAIN finalized' :
          finalized'[k].tx_digest = branches'[finalized'[k].branch_id].tx_digest
  BY <1>3, <1>4, <1>5, <1>6 DEF FinalizedOnce
<1>10. /\ n \notin Transfers /\ canonical_digest'[n] = block
       /\ \A k \in Transfers : canonical_digest'[k] = canonical_digest[k]
       /\ Transfers' = Transfers \cup {n}
       /\ \A k \in Transfers : TransfersUpTo(k)' = TransfersUpTo(k)
       /\ TransfersUpTo(n)' = Cardinality(Transfers) + 1
  BY <1>0, <1>1, <1>2, <1>n, TransfersExtended
<1>11. Cardinality(Transfers) = Len(finalized) /\ IsFiniteSet(Transfers)
  BY <1>0, TransfersCounted DEF FinalizedOnce
<1>12. Len(finalized') = Cardinality(Transfers')
  BY <1>5, <1>10, <1>11, FS_AddElement
<1>13. \A k \in Transfers' : canonical_digest'[k] = finalized'[TransfersUpTo(k)']
  <2>1. ASSUME NEW k \in Transfers
        PROVE  canonical_digest'[k] = finalized'[TransfersUpTo(k)']
    <3>1. TransfersUpTo(k) \in DOMAIN finalized
      BY <1>0, <1>5, <1>11, TransfersCounted
    <3> QED
      BY <1>5, <1>10, <3>1 DEF FinalizedOnce
  <2>2. canonical_digest'[n] = finalized'[TransfersUpTo(n)']
    BY <1>5, <1>10, <1>11
  <2> QED
    BY <1>10, <2>1, <2>2
<1> QED
  BY <1>7, <1>8, <1>9, <1>12, <1>13 DEF FinalizedOnce

\* Every step keeps the list the chain without its registrations.
LEMMA NextListed == Typed /\ FinalizedOnce /\ [Next]_vars => FinalizedOnce'
<1> SUFFICES ASSUME Typed, FinalizedOnce, [Next]_vars
             PROVE  FinalizedOnce'
  OBVIOUS
<1>0. TypeOK
  BY DEF Typed
<1>1. ASSUME NEW a \in Accounts, register_account(a)
      PROVE  FinalizedOnce'
  <2>1. /\ [account |-> a] \in Blocks /\ Extend([account |-> a]) /\ UNCHANGED <<branches, finalized>>
        /\ ~IsTransfer([account |-> a])
    BY <1>1 DEF Blocks, register_account, IsTransfer
  <2>2. /\ Transfers' = Transfers
        /\ \A k \in Transfers : canonical_digest'[k] = canonical_digest[k]
        /\ \A k \in Transfers : TransfersUpTo(k)' = TransfersUpTo(k)
    BY <1>0, <2>1, TransfersExtended
  <2> QED
    BY <2>1, <2>2 DEF FinalizedOnce, Ids
<1>2. ASSUME NEW s \in Accounts, NEW r \in Accounts, NEW v \in Values, NEW ttl \in TTLs,
             offer(s, r, v, ttl)
      PROVE  FinalizedOnce'
  <2> DEFINE n == Len(branches) + 1
  <2>1. /\ Ids' = Ids \cup {n} /\ \A j \in Ids : branches'[j] = branches[j]
        /\ branches'[n].state = "offered" /\ UNCHANGED <<finalized, canonical_digest>>
    BY <1>0, <1>2 DEF offer, Ids, TypeOK, chain
  <2> HIDE DEF n
  <2> QED
    BY <1>0, <2>1, ListKept
<1>3. ASSUME NEW i \in Ids, NEW b \in Branch, Becomes(i, b), branches[i].state # "final",
             b.state # "final", UNCHANGED <<finalized, canonical_digest>>
      PROVE  FinalizedOnce'
  <2>1. /\ Ids' = Ids /\ branches'[i] = b
        /\ \A j \in Ids : j # i => branches'[j] = branches[j]
    BY <1>0, <1>3, BecomesTyped
  <2> QED
    BY <1>0, <1>3, <2>1, ListKept
<1>4. ASSUME NEW i \in Ids, NEW a \in Accounts, accept(i, a)
      PROVE  FinalizedOnce'
  <2>1. Becomes(i, AcceptedBranch(i)) /\ AcceptedBranch(i) \in Branch
    BY <1>0, <1>4, ActionsBecome, BranchTypes
  <2>2. AcceptedBranch(i).state = "accepted" /\ branches[i].state = "offered"
    BY <1>0, <1>4, BranchTypes DEF AcceptedBranch, Branch, accept
  <2> QED
    BY <1>3, <1>4, <2>1, <2>2 DEF accept, chain
<1>5. ASSUME NEW i \in Ids, NEW a \in Accounts, NEW p \in Payloads, commit(i, a, p)
      PROVE  FinalizedOnce'
  <2>1. Becomes(i, CommittedBranch(i, p)) /\ CommittedBranch(i, p) \in Branch
    BY <1>0, <1>5, ActionsBecome, BranchTypes
  <2>2. CommittedBranch(i, p).state = "committed" /\ branches[i].state = "accepted"
    BY <1>0, <1>5, BranchTypes DEF CommittedBranch, Branch, commit
  <2> QED
    BY <1>3, <1>5, <2>1, <2>2 DEF commit, chain
<1>6. ASSUME NEW i \in Ids, (\E a \in Accounts : cancel(i, a)) \/ expire(i)
      PROVE  FinalizedOnce'
  <2>1. PICK st \in {"cancelled", "expired"} : Becomes(i, InState(i, st))
    BY <1>0, <1>6, ActionsBecome
  <2>2. branches[i].state \in Open /\ UNCHANGED <<finalized, canonical_digest>>
    BY <1>6 DEF cancel, expire, Expires, chain
  <2>3. st \in BranchState /\ st # "final" /\ branches[i].state # "final"
    BY <2>2 DEF BranchState, Open
  <2>4. InState(i, st) \in Branch /\ InState(i, st).state = st
    BY <1>0, <2>3, InStateFields
  <2> QED
    BY <1>3, <2>1, <2>2, <2>3, <2>4
<1>7. ASSUME NEW i \in Ids, finalize(i)
      PROVE  FinalizedOnce'
  BY <1>7, ListExtended
<1>8. ASSUME \/ \E n \in 1..MaxAdvance : advance(n)
             \/ \E i \in Ids : skip(i)
             \/ next_round \/ advance_returns \/ UNCHANGED vars
      PROVE  FinalizedOnce'
  <2>1. UNCHANGED <<branches, finalized, canonical_digest>>
    BY <1>8 DEF advance, skip, next_round, advance_returns, vars, chain
  <2>2. Ids' = Ids
    BY <2>1 DEF Ids
  <2> QED
    BY <1>0, <2>1, <2>2, ListKept
<1> QED
  BY <1>1, <1>2, <1>4, <1>5, <1>6, <1>7, <1>8 DEF Next, Client, Tick, Loop, Settle

\* The list of finalized transactions names each final branch once and with the commitment of
\* its sender, and is the chain without its registrations: _finalize runs once per branch, and
\* appends to the list and to the chain in the same order.
THEOREM ListedOnce == Spec => []FinalizedOnce
<1>1. Init => FinalizedOnce
  <2> SUFFICES ASSUME Init PROVE FinalizedOnce
    OBVIOUS
  <2>1. finalized = <<>> /\ branches = <<>> /\ canonical_digest = <<>>
    BY DEF Init
  <2>2. Ids = {} /\ DOMAIN finalized = {} /\ Transfers = {} /\ Len(finalized) = 0
    BY <2>1 DEF Ids, Transfers
  <2>3. Cardinality(Transfers) = 0
    BY <2>2, FS_EmptySet
  <2> QED
    BY <2>2, <2>3 DEF FinalizedOnce
<1> QED
  BY <1>1, InitTyped, NextTyped, NextListed, PTL DEF Spec
-----------------------------------------------------------------------------
(* Time: the loop of advance sees every branch in every round, so a        *)
(* deadline is met in the round it falls in.                               *)

\* The loop has yet to look at branch i in this round.
Ahead(i) == cursor \in 1..i

OnSchedule ==
    \A i \in Ids :
        /\ branches[i].state \in Open =>
               /\ round <= branches[i].expires_round
               /\ round = branches[i].expires_round => Ahead(i)
        /\ branches[i].state = "committed" =>
               /\ round <= branches[i].committed_round + FINALITY_ROUNDS
               /\ round = branches[i].committed_round + FINALITY_ROUNDS => Ahead(i)

\* One branch changes while the clock stands still: the others stay on schedule.
LEMMA ScheduleKept ==
    ASSUME TypeOK, OnSchedule, NEW i \in Ids, NEW b \in Branch, Becomes(i, b),
           round' = round, cursor' = cursor \/ (cursor = i /\ cursor' = cursor + 1),
           \/ b.state \in Terminal
           \/ b.state \in Open /\ round < b.expires_round
           \/ b.state = "committed" /\ b.committed_round = round
    PROVE  OnSchedule'
<1>1. /\ Ids' = Ids /\ branches'[i] = b
      /\ \A j \in Ids : j # i => branches'[j] = branches[j]
  BY BecomesTyped
<1>2. round \in Nat /\ cursor \in Nat /\ \A j \in Ids : j \in Nat
  BY DEF TypeOK, Ids
<1>3. ASSUME NEW j \in Ids, j # i
      PROVE  Ahead(j) => Ahead(j)'
  BY <1>2, <1>3 DEF Ahead
<1>4. ASSUME NEW j \in Ids, j # i
      PROVE  /\ branches'[j].state \in Open =>
                    /\ round' <= branches'[j].expires_round
                    /\ round' = branches'[j].expires_round => Ahead(j)'
             /\ branches'[j].state = "committed" =>
                    /\ round' <= branches'[j].committed_round + FINALITY_ROUNDS
                    /\ round' = branches'[j].committed_round + FINALITY_ROUNDS => Ahead(j)'
  BY <1>1, <1>3, <1>4 DEF OnSchedule
<1>5. /\ branches'[i].state \in Open =>
             /\ round' <= branches'[i].expires_round
             /\ round' # branches'[i].expires_round
      /\ branches'[i].state = "committed" =>
             /\ round' <= branches'[i].committed_round + FINALITY_ROUNDS
             /\ round' # branches'[i].committed_round + FINALITY_ROUNDS
  <2>1. b.expires_round \in Nat
    BY DEF Branch
  <2> QED
    BY <1>1, <1>2, <2>1 DEF Terminal, BranchState, Active, Open, FINALITY_ROUNDS
<1> QED
  BY <1>1, <1>4, <1>5 DEF OnSchedule

\* The clock moves on when the loop has nothing left to look at.
LEMMA ScheduleTicks ==
    ASSUME Typed, OnSchedule, ~(\E i \in Ids : Ahead(i)), round' = round + 1, cursor' = 1,
           UNCHANGED branches
    PROVE  OnSchedule'
<1>1. Ids' = Ids /\ round \in Nat /\ \A i \in Ids : Ahead(i)'
  BY DEF Typed, TypeOK, Ids, Ahead
<1>2. \A i \in Ids : /\ branches[i].expires_round \in Nat
                     /\ branches[i].state = "committed" => branches[i].committed_round \in Nat
  BY BranchFields DEF Typed, Commitments
<1> QED
  BY <1>1, <1>2 DEF OnSchedule, FINALITY_ROUNDS

\* Every step keeps every branch on schedule.
LEMMA NextSchedule == Typed /\ OnSchedule /\ [Next]_vars => OnSchedule'
<1> SUFFICES ASSUME Typed, OnSchedule, [Next]_vars
             PROVE  OnSchedule'
  OBVIOUS
<1>0. TypeOK /\ round \in Nat /\ cursor \in Nat /\ Len(branches) \in Nat
  BY DEF Typed, TypeOK
<1>1. ASSUME UNCHANGED <<round, branches, cursor>>
      PROVE  OnSchedule'
  BY <1>1 DEF OnSchedule, Ids, Ahead
<1>2. ASSUME NEW s \in Accounts, NEW r \in Accounts, NEW v \in Values, NEW ttl \in TTLs,
             offer(s, r, v, ttl)
      PROVE  OnSchedule'
  <2> DEFINE n == Len(branches) + 1
  <2>1. /\ Ids' = Ids \cup {n} /\ \A j \in Ids : branches'[j] = branches[j]
        /\ branches'[n].state = "offered" /\ branches'[n].expires_round = round + ttl
        /\ ttl \in Int /\ ttl > 0
        /\ round' = round /\ cursor' = cursor
    <3>1. ttl \in Int /\ ttl > 0
      BY <1>2, BoundsAssumption DEF offer, FINALITY_ROUNDS
    <3>2. /\ Ids' = Ids \cup {n} /\ \A j \in Ids : branches'[j] = branches[j]
          /\ branches'[n].state = "offered" /\ branches'[n].expires_round = round + ttl
      BY <1>0, <1>2 DEF offer, Ids, TypeOK
    <3> QED
      BY <1>2, <3>1, <3>2 DEF offer, loop
  <2> HIDE DEF n
  <2>2. round' < branches'[n].expires_round
    BY <1>0, <2>1
  <2> QED
    BY <1>0, <2>1, <2>2 DEF OnSchedule, Ahead, Open
<1>3. ASSUME NEW i \in Ids, NEW a \in Accounts, accept(i, a)
      PROVE  OnSchedule'
  <2>1. Becomes(i, AcceptedBranch(i)) /\ AcceptedBranch(i) \in Branch
    BY <1>0, <1>3, ActionsBecome, BranchTypes
  <2>2. /\ AcceptedBranch(i).state = "accepted"
        /\ AcceptedBranch(i).expires_round = branches[i].expires_round
    BY <1>0, BranchTypes DEF AcceptedBranch, Branch
  <2>3. round' = round /\ cursor' = cursor /\ round < branches[i].expires_round
    BY <1>3 DEF accept, ensure_live, loop
  <2> QED
    BY <1>0, <2>1, <2>2, <2>3, ScheduleKept DEF Open
<1>4. ASSUME NEW i \in Ids, NEW a \in Accounts, NEW p \in Payloads, commit(i, a, p)
      PROVE  OnSchedule'
  <2>1. Becomes(i, CommittedBranch(i, p)) /\ CommittedBranch(i, p) \in Branch
    BY <1>0, <1>4, ActionsBecome, BranchTypes
  <2>2. /\ CommittedBranch(i, p).state = "committed"
        /\ CommittedBranch(i, p).committed_round = round
    BY <1>0, BranchTypes DEF CommittedBranch, Branch
  <2>3. round' = round /\ cursor' = cursor
    BY <1>4 DEF commit, loop
  <2> QED
    BY <1>0, <2>1, <2>2, <2>3, ScheduleKept
<1>5. ASSUME NEW i \in Ids, (\E a \in Accounts : cancel(i, a)) \/ expire(i) \/ finalize(i)
      PROVE  OnSchedule'
  <2>1. PICK st \in {"cancelled", "expired", "final"} : Becomes(i, InState(i, st))
    BY <1>0, <1>5, ActionsBecome
  <2>2. round' = round /\ (cursor' = cursor \/ (cursor = i /\ cursor' = cursor + 1))
    BY <1>5 DEF cancel, expire, finalize, loop
  <2>3. st \in BranchState /\ st \in Terminal
    BY DEF BranchState, Terminal, Active, Open
  <2>4. InState(i, st) \in Branch /\ InState(i, st).state = st
    BY <1>0, <2>3, InStateFields
  <2> QED
    BY <1>0, <2>1, <2>2, <2>3, <2>4, ScheduleKept
<1>6. ASSUME NEW i \in Ids, skip(i)
      PROVE  OnSchedule'
  <2>1. /\ Ids' = Ids /\ round' = round /\ branches' = branches /\ cursor = i /\ cursor' = i + 1
        /\ ~Expires(i) /\ ~Matures(i) /\ \A j \in Ids : j \in Nat
    BY <1>0, <1>6 DEF skip, Ids
  <2>2. \A j \in Ids : j # i /\ Ahead(j) => Ahead(j)'
    BY <2>1 DEF Ahead
  <2>3. /\ branches[i].state \in Open => round # branches[i].expires_round
        /\ branches[i].state = "committed" => round # branches[i].committed_round + FINALITY_ROUNDS
    BY <1>0, <2>1, BranchFields DEF Expires, Matures, FINALITY_ROUNDS, Typed, Commitments
  <2> QED
    BY <2>1, <2>2, <2>3 DEF OnSchedule
<1>7. ASSUME (\E n \in 1..MaxAdvance : advance(n)) \/ next_round
      PROVE  OnSchedule'
  <2>1. ~(\E i \in Ids : Ahead(i))
    BY <1>0, <1>7 DEF advance, next_round, Idle, Ahead, Ids
  <2> QED
    BY <1>7, <2>1, ScheduleTicks DEF advance, next_round
<1>8. ASSUME advance_returns
      PROVE  OnSchedule'
  <2>1. ~(\E i \in Ids : Ahead(i))
    BY <1>0, <1>8 DEF advance_returns, Ahead, Ids
  <2> QED
    BY <1>8, <2>1 DEF advance_returns, OnSchedule, Ids
<1>9. ASSUME (\E a \in Accounts : register_account(a)) \/ UNCHANGED vars
      PROVE  OnSchedule'
  BY <1>1, <1>9 DEF register_account, vars, loop
<1> QED
  BY <1>2, <1>3, <1>4, <1>5, <1>6, <1>7, <1>8, <1>9 DEF Next, Client, Tick, Loop, Settle

\* Types and schedule together are inductive.
LEMMA AlwaysOnSchedule == Spec => [](Typed /\ OnSchedule)
<1>1. Init => OnSchedule
  BY DEF Init, OnSchedule, Ids
<1> QED
  BY <1>1, InitTyped, NextTyped, NextSchedule, PTL DEF Spec

\* Between calls no branch is overdue, however many rounds each call of advance covers.
THEOREM NeverOverdue == Spec => []NothingOverdue
<1>1. Typed /\ OnSchedule => NothingOverdue
  <2> SUFFICES ASSUME Typed, OnSchedule, cursor = 0, NEW i \in Ids
               PROVE  ~Expires(i) /\ ~Matures(i)
    BY DEF NothingOverdue, Idle
  <2>1. ~Ahead(i)
    BY DEF Ahead, Typed, TypeOK, Ids
  <2>2. round \in Nat /\ branches[i].expires_round \in Nat
    BY BranchFields DEF Typed, TypeOK
  <2> QED
    BY <2>1, <2>2 DEF OnSchedule, Expires, Matures, Typed, Commitments, FINALITY_ROUNDS
<1> QED
  BY <1>1, AlwaysOnSchedule, PTL

\* Finality comes exactly FINALITY_ROUNDS after the commitment and expiry exactly at the
\* declared round.
THEOREM DeadlinesExact == Spec => SettlesOnTime
<1> DEFINE Step == \A i \in Ids :
         LET b == branches[i] IN
         /\ b.state # "final" /\ branches'[i].state = "final"
                => b.state = "committed" /\ round = b.committed_round + FINALITY_ROUNDS
         /\ b.state # "expired" /\ branches'[i].state = "expired"
                => b.committed_round = None /\ round = b.expires_round
<1>1. Typed /\ OnSchedule /\ [Next]_vars => [Step]_vars
  <2> SUFFICES ASSUME Typed, OnSchedule, Next, NEW i \in Ids
               PROVE  LET b == branches[i] IN
                      /\ b.state # "final" /\ branches'[i].state = "final"
                             => b.state = "committed" /\ round = b.committed_round + FINALITY_ROUNDS
                      /\ b.state # "expired" /\ branches'[i].state = "expired"
                             => b.committed_round = None /\ round = b.expires_round
    BY DEF Typed
  <2>0. TypeOK /\ round \in Nat /\ branches[i].expires_round \in Nat
    BY BranchFields DEF Typed, TypeOK
  <2>1. CASE finalize(i)
    <3>1. branches'[i].state = "final"
      BY <2>0, <2>1, ActionsBecome, InStateFields, BecomesTyped DEF BranchState
    <3> QED
      BY <2>0, <2>1, <3>1 DEF OnSchedule, finalize, Matures, FINALITY_ROUNDS, Typed, Commitments
  <2>2. CASE expire(i)
    <3>1. branches'[i].state = "expired"
      BY <2>0, <2>2, ActionsBecome, InStateFields, BecomesTyped DEF BranchState
    <3> QED
      BY <2>0, <2>2, <3>1 DEF OnSchedule, expire, Expires, Typed, Commitments
  <2>3. CASE \E a \in Accounts : accept(i, a)
    <3>1. AcceptedBranch(i) \in Branch /\ AcceptedBranch(i).state = "accepted"
      BY <2>0, BranchTypes DEF AcceptedBranch, Branch
    <3> QED
      BY <2>0, <2>3, <3>1, ActionsBecome, BecomesTyped
  <2>4. CASE \E a \in Accounts, p \in Payloads : commit(i, a, p)
    <3>1. \A p \in Payloads :
              CommittedBranch(i, p) \in Branch /\ CommittedBranch(i, p).state = "committed"
      BY <2>0, BranchTypes DEF CommittedBranch, Branch
    <3> QED
      BY <2>0, <2>4, <3>1, ActionsBecome, BecomesTyped
  <2>5. CASE \E a \in Accounts : cancel(i, a)
    <3>1. InState(i, "cancelled") \in Branch /\ InState(i, "cancelled").state = "cancelled"
      BY <2>0, InStateFields DEF BranchState
    <3> QED
      BY <2>0, <2>5, <3>1, ActionsBecome, BecomesTyped
  <2> QED
    BY <2>0, <2>1, <2>2, <2>3, <2>4, <2>5, OnlyItsActions
<1> QED
  BY <1>1, AlwaysOnSchedule, PTL DEF Spec, SettlesOnTime

\* A branch's terms and origin never change, a settled branch never changes again, a
\* commitment is never replaced and the canonical history is only ever extended.
THEOREM WordKept == Spec => BranchesKeepTheirWord
<1> DEFINE Kept(i) ==
              LET b == branches[i]
                  c == branches'[i] IN
              /\ <<b.sender, b.receiver, b.value, b.expires_round, b.origin_height>>
                     = <<c.sender, c.receiver, c.value, c.expires_round, c.origin_height>>
              /\ b.state \in Terminal => c = b
              /\ b.tx_digest # None => c.tx_digest = b.tx_digest
           HistoryKeeps ==
              \A h \in DOMAIN canonical_history : canonical_history'[h] = canonical_history[h]
<1>1. ASSUME Typed, Next, NEW i \in Ids
      PROVE  Kept(i)
  <2>0. TypeOK /\ branches[i] \in Branch
    BY <1>1, BranchTypes DEF Typed
  <2>1. CASE \E a \in Accounts : accept(i, a)
    <3>1. branches'[i] = AcceptedBranch(i)
      BY <2>0, <2>1, ActionsBecome, BranchTypes, BecomesTyped
    <3>2. branches[i].state \notin Terminal
      BY <2>1 DEF accept, Terminal, Active, Open
    <3> QED
      BY <2>0, <3>1, <3>2 DEF AcceptedBranch, Branch
  <2>2. CASE \E a \in Accounts, p \in Payloads : commit(i, a, p)
    <3>1. PICK p \in Payloads : branches'[i] = CommittedBranch(i, p)
      BY <2>0, <2>2, ActionsBecome, BranchTypes, BecomesTyped
    <3>2. branches[i].state \notin Terminal /\ branches[i].tx_digest = None
      BY <1>1, <2>2 DEF commit, Terminal, Active, Open, Typed, Commitments
    <3> QED
      BY <2>0, <3>1, <3>2 DEF CommittedBranch, Branch
  <2>3. CASE (\E a \in Accounts : cancel(i, a)) \/ expire(i) \/ finalize(i)
    <3>1. PICK st \in {"cancelled", "expired", "final"} : Becomes(i, InState(i, st))
      BY <2>0, <2>3, ActionsBecome
    <3>2. st \in BranchState
      BY DEF BranchState
    <3>3. branches'[i] = InState(i, st)
      BY <2>0, <3>1, <3>2, InStateFields, BecomesTyped
    <3>4. branches[i].state \notin Terminal
      BY <2>3 DEF cancel, expire, Expires, finalize, Matures, Terminal, Active, Open
    <3> QED
      BY <2>0, <3>2, <3>3, <3>4, InStateFields
  <2> QED
    BY <1>1, <2>0, <2>1, <2>2, <2>3, OnlyItsActions
<1>2. ASSUME Typed, Next
      PROVE  HistoryKeeps
  <2>0. TypeOK /\ DOMAIN canonical_history = 0..canonical_height
    BY <1>2 DEF Typed, TypeOK
  <2>1. ASSUME NEW block, Extend(block)
        PROVE  HistoryKeeps
    <3>1. canonical_height' \notin DOMAIN canonical_history
      BY <2>0, <2>1 DEF Extend, TypeOK
    <3> QED
      BY <2>1, <3>1 DEF Extend
  <2>2. ASSUME UNCHANGED chain
        PROVE  HistoryKeeps
    BY <2>2 DEF chain
  <2>3. (\E block : Extend(block)) \/ UNCHANGED chain
    BY <1>2 DEF Next, Client, Tick, Loop, Settle, register_account, offer, accept, commit, cancel,
                advance, expire, finalize, skip, next_round, advance_returns
  <2> QED
    BY <2>1, <2>2, <2>3
<1>3. Typed /\ [Next]_vars => [(\A i \in Ids : Kept(i)) /\ HistoryKeeps]_vars
  BY <1>1, <1>2
<1>4. Spec => [](Typed)
  BY InitTyped, NextTyped, PTL DEF Spec
<1> QED
  BY <1>3, <1>4, PTL DEF Spec, BranchesKeepTheirWord
=============================================================================
