# SplitChain in TLA+

A verification project for SplitChain, a research ledger in which two parties open a
temporary branch, agree on a transaction in it and have it settle on a canonical chain
after three rounds; the ledger is replicated over three nodes with ordered roles. The
modules model the Python package `splitchain/`; the configurations check them with TLC on
small instances; the `*Proofs` modules prove the main results with TLAPS for every value of
the constants. `PROJECT.json` lists components, runs, mutants, the line-by-line map from
definitions to code, the hazards and the findings.

The repository has two TLA+ models of its own under `formal/` (one branch and several
branches, without restart, replication, failure or proof). Nothing here depends on them.

## 1. The system

### Components

| Component | State | Operations | What is hard |
|---|---|---|---|
| Ledger (`model.py`) | round clock, balances, locked funds, branches, canonical chain and its history, list of finalized transactions | register_account, offer, accept, commit, cancel, advance, snapshot / from_snapshot | long legal sequences; several branches settled in one call; exact rounds; restorable snapshots |
| Reference node (`node.py`, `auth.py`) | ledger, nonce per actor, one lock | dispatch of signed requests, save after each | checks made before the lock is awaited; nonce recorded before the mutation |
| Replication (`node.py`, `replication.py`) | committed log, one pending record, nonces | replicate_mutation, prepare / commit / abort at a replica, history catch-up, cluster.sync | lost and late calls, crashes between two saves, partial quorums |
| Leadership (`failover.py`, `node.py`) | term, leader, certificates, last heartbeat | failover_step, timeout vote, certificate, heartbeat | two coroutines at each node; votes that leave no trace; state read before an await and used after |
| Persistence (`persistence.py`) | one JSON file | atomic save, load | a save that fails after the memory changed |
| Finality (`finality.py`) | votes per round, quarantine | acknowledge | any order and repetition of votes, faulty observers, objects that do not know of each other |
| Recovery (`recovery.py`) | claims, open challenge, active role | submit_claim, submit_counterproof, advance | late and repeated claims, deadlines named by the reporters |
| Identities (`identity.py`) | certificates with a role and valid rounds | issue, verify | expiry in the middle of a protocol |
| Round clock (`round_clock.py`), public RPC (`public_rpc.py`), wallet (`WalletStore.java`) | a nonce file / nothing / the next nonce | send `advance` for ever / forward a request to the first backend that answers / reserve a nonce | retry of a request that already ran; a time of day that is set back |
| Distributor (`distributor.py`) | plan, in-flight operation, known branches | offer, accept and commit a payment per recipient, reconcile after an unknown outcome | at most one payment over crashes and lost answers |
| OLC gateway, worker, verifiers, receipts (`olc_*.py`) | jobs with leases and attestations, in memory and in a file | enqueue, lease, result, attest, public_receipts | results after the lease, a failed save, an answer written after the lock, a faulty verifier |
| Enrollment (`enrollment*.py`) | request files, account registry, ledger account | submit, approve, activate | crash between two files, an answer that was lost, nonces shared with the round clock |
| Gossip (`network.py`), membership (`membership.py`) | sequence numbers / two member sets | send, receive / approves | reordering / quorum intersection across a change |
| DistOPS, runtime, services, TrueLies, ecosystem | capacities, leases, proofs | schedule, execute, prove | capacity and one-use leases |
| CLI, simulator, status page, wallets, scripts, TLS | - | presentation, one-shot preparation | nothing of their own |

### How they interact

A client sends a signed request to a node, directly or through the public RPC gateway, which
tries the three nodes in turn. The leader checks that it leads, waits for its lock, tries the
mutation on a copy of the ledger, saves it as pending, brings each replica up to its
position, asks it to prepare, applies the mutation itself once one of two replicas has
prepared, and then asks them to commit. When the heartbeats of the leader stop, the next
role reconciles its log with the remaining node (the witness), collects its vote, has it
record the certificate and records it itself; the certificate fences the former leader. The
round clock is a client that only calls `advance`. Finality and recovery are library objects
that their callers drive with signed messages and the current round.

Enrollment takes requests of wallets into a directory; an operator approves one, which writes
its credential to the registry that the nodes read, and registers the account in the ledger
with a request signed as `testnet_operator`, the actor of the round clock. The compute pilot
(OLC) is separate: a worker and three verifiers poll a gateway with a store of its own, and
anybody can check the receipts that it serves.

### What makes each part correct

* Ledger: supply is conserved; each unit is explained by a final branch; locks are exactly
  the open commitments; a settled branch is settled once, in its round; history is never
  rewritten; the ledger accepts its own snapshot; every branch ends.
* Cluster: what a client was told is done stays done across takeovers; what it was told
  failed never happens; nodes of one term never disagree; each term has one certificate;
  every node can restart from what it saved.
* Finality: no two candidates of a branch become final; a round is passed by a quorum only;
  whoever else sends votes, an honest observer counts for its own candidate only.
* Recovery: a role is lost only to a quorum of claims against it, after a window in which its
  holder could answer; every challenge ends once.
* Distributor: no recipient is paid twice; the journal explains every payment; what it calls
  verified is paid; running the plan again resolves what was done and not heard of.
* Requests: a signed request takes effect at most once in every ledger; a client never signs
  one nonce twice.
* Enrollment: what is shown as approved or active is so; an account of any ledger has the
  credential of the wallet that asked for it.
* OLC: a result is judged once and its votes are never withdrawn, over failed saves and
  restarts; one faulty verifier decides nothing; receipts verify; every job is decided.

## 2. Modules

| Module | Models | Used by |
|---|---|---|
| `Sums` | the sum of a function, as the number of units it counts | `Ledger` |
| `Ledger` | class `Ledger` | `MCLedger`, `LedgerProofs` |
| `Service` | what the cluster promises its clients: one ledger (abstract) | `Cluster` |
| `Cluster` | three nodes, replication and takeover | `MCCluster`, `ClusterProofs` |
| `Finality` | `ThreeRoundFinality`, one object per candidate | `MCFinality`, `FinalityProofs` |
| `Recovery` | `RecoveryCoordinator` | `MCRecovery`, `RecoveryProofs` |
| `Distributor` | `distributor.py fund` and its journal, over the nodes as a service | `MCDistributor`, `DistributorProofs` |
| `Requests` | signed requests: round clock, gateway, wallets and replay protection | `Enrollment` |
| `Enrollment` | request files, registry and activation, composed with `Requests` | `MCEnrollment`, `EnrollmentProofs` |
| `Verdict` | what the compute gateway promises of its jobs (abstract) | `OlcGateway` |
| `OlcGateway` | gateway, worker, verifiers and receipts of the compute pilot | `MCOlcGateway`, `OlcProofs` |
| `Membership` | the quorum rules of a membership change, without state | `FinalityProofs` |
| `SumTheorems`, `LedgerProofs`, `ClusterProofs`, `FinalityProofs`, `DistributorProofs`, `RecoveryProofs`, `OlcProofs`, `EnrollmentProofs` | theorems | |

Definitions keep the names of the code. An operator preceded by a comment that starts with
`Bug` is not part of any specification: it is the form a plausible mistake would give to the
definition below it, and PROJECT.json says which property finds it.

### Ledger

One action per method; a call that raises `ProtocolError` changes nothing and is a disabled
action. `advance(rounds)` is the loop the code runs: one action per branch and per round,
with `cursor` and `rounds_left` as its program counter. Every other method waits for
`cursor = 0`, so callers see `advance` as one step, while the proofs can speak of what the
loop has and has not looked at yet. Branch identifiers are positions, because the hashed
nonce is the number of branches made so far and none is ever removed. A digest is the
content it hashes: hashes do not collide.

`Restorable` has one conjunct per check of `_validate_restored_state`. The code runs those
checks on every start and on every trial copy, so a reachable state that fails them stops
the node.

### Cluster and Service

Each handler runs under the lock of its node and saves before it returns, so it is one
action on `log`, `pending` and `certs`. Two coroutines live across awaits and are processes
with a state of their own: `job`, which is `replicate_mutation` or `sync_replicas` and keeps
the lock; and `takeover`, which is `failover_step` and holds none, so its own node changes
while it waits. The waiting room for the lock holds one request (`queue`), enough for the
check-then-wait of `replicate_mutation` to go wrong.

A remote call that its caller gives up on may have run, may never run or may run at any
later moment (`late`). A crash loses coroutines and keeps what was saved. Time is
abstracted: a heartbeat may be found overdue at any moment, so nothing here depends on
clocks being right. Heartbeats are left out for the same reason; they never change a
position, because a node refuses a heartbeat that names another position than its own.
A mutation is an opaque signed request that applies once at each node
(`RequestAuthenticator` refuses a nonce twice); the digest of a ledger is the sequence of
mutations applied to it. Signatures are not forged. `Restartable` is what a node checks of its
saved certificates (`from_snapshot`) and log when it starts. It leaves out the ticks of the
certificates and the comparison with `committed_nonce` (`node.py:127`), which every save writes
together with the log it counts.

`Service` is the promise, one ledger without nodes: a request is applied at most once, after
it was asked for and never after it was refused; it is acknowledged only when it is in the
history; and a takeover may shorten the history, but keeps every acknowledged entry in its
place. `Cluster` implements it with the log of the chief for the history, the chief being the
node that leads the latest term that has a leader yet. While a takeover is under way the
witness has passed to the new term and its leader has not, and the old leader, though it can
no longer reach a quorum, is still the chief. A record that it commits then is the tail that
`TakeOver` drops, which is the fork of finding 2 as clients see it. `Distributor`, `Requests`
and `Enrollment` see the nodes as such a service.

### Finality

One object per candidate of one branch, so that agreement can be asked about. Honest
observers sign one candidate with one key; faulty ones sign anything. Every vote may arrive
at every object, at any time and again. Certificates are valid in given rounds only.

`acknowledge` looks at the candidate of a vote before it looks at certificate and signature, so
`conflicting_vote` takes a vote in anybody's name and quarantines the observer it names; only
votes that get past that check have to be signed (`Signs`). Quarantine is therefore no evidence
against an observer, and nothing is stated of it. What holds is `HonestVotesCount`: the
candidate and the key recorded for an honest observer are its own, and a round that is open has
no quorum.

### Recovery

The coordinator and the round its callers pass. Claims name any role and any round up to the
bound, because a claim for an earlier role may come late and nothing compares the round of a
claim with the current one. `opened` is a history variable with the round in which each
challenge was opened. The window of a challenge is asked about from there, not from the round
that the reporters name: `RoleLostAfterWindow` (all of the window has passed when a role is
lost, unless the claims name a past round) holds, `HolderHasWindow` (the window is never over
when the challenge opens) does not; that is finding 5. A refused claim leaves no trace, so the
module cannot say that a quorum spoke and was not heard; the hazard list names that case.

### Distributor

The program is one process (`exclusive` locks its directory): `at` is where it is, the
journal is what `state.json` holds, and everything else is lost when it stops. An exception,
a crash and an interrupt leave the same journal, so `Stop` is all three. A request whose
answer was not heard goes to `wire`, from where it may be executed at any later time, or
never. One request is journaled and saved in the same action (`mutate`), and sent, answered
or lost in another.

The three nodes appear as a service. `branches` is the ledger of the leader. A status may
come from any node, so it is any ledger in `past`: one that lags, or one that a leader
reached alone and lost with its leadership (`Fork`, and the second half of `Settle`; this is
the fork of finding 2). An answered mutation is in the leader's ledger and in a replica's,
which is `AckedSurvives` of `Cluster`; a refused one was not done, which is
`RefusedNeverApplied`. `rejected_unsaved` drops the second assumption. `diagnose` is the
guard of `Start`: a leader and a replica that agree, which after a fork may be the replaced leader
and a replica that still follows it. The amount of a payment is a constant of the plan and is left out,
and with it the checks of balances.

The lines that `run` prints for each recipient are not evidence: with a status from a
replaced leader a recipient may be reported as committed and be unpaid. The last line,
"Verified", is (`VerifiedIsPaid`); the difference is what one mutant of `funded` shows.

### Requests and Enrollment

The nodes are the certified leader and, for it and each leader it replaced, the ledger of the
requests that were executed there, as `Service` allows: a takeover keeps the requests whose
client was given a result (`acked`) and may drop later ones, with their nonces (`Takeover(k)`).
The ledger of a replaced leader stays as it is, and such a leader may execute one request more,
which a replica prepared before it voted; that is the fork of finding 2 (`forked`). A request is
executed when a leader has it, `verify` accepts its nonce and the ledger accepts its content. The
round clock, the gateway and the activation each have one call under way (`call`), which goes
through the three backends in the order of `BACKENDS`. A call that is not answered in time
had no effect, had its effect, or has it later (`late`): its caller cannot tell, and the clock
and the gateway send the same request to the next backend, while the activation gives up. A
leader that has not recorded its own certificate answers `NOT_LEADER`, so any backend may
(`Refer`). The clock and the activation sign as one actor with nonces from the time of day,
which may be set back; the clock's nonce file and the wallet's `next_nonce` keep theirs apart
from their own earlier ones, and only the order of execution keeps those of different programs
apart. The exceptions for wallets are left out: the owner sets a nonce by hand (`setNextNonce`),
or stores the credential anew or clears it (`save` and `clear` of `WalletStore`), after which the
count starts at 0 again.

A request that a takeover dropped may be executed again by the new leader, so `ExecutedOnce`
speaks of each ledger. A replaced leader that is brought into the new term and loses its tail is
not modelled: the code has no step for it.

In `Enrollment` each file operation of `approve` is an action, so that the program can stop
between any two (`Crash`), and the lock of the store is `unlocked`. The registry starts with
any content: other tools may have written there. Activation believes the first backend that
shows the account (`enrollment.py:70-80`), which may lag or be a replaced leader, so that
`active` may be true only of the ledger of a replaced leader. `StatusIsTrue` says as much, and
no more. The documentation does not rely on `active` alone: the owner is notified when "the
zero-balance account appears on all three node statuses" (`docs/WEB_WALLET_ENROLLMENT.md:49`).

### OlcGateway and Verdict

Every method of `Store` runs under its lock and is one action on `jobs`; its save is the same
action when it succeeds, and when it fails (`WriteFails`) the change stays in memory only. A
restart goes back to `saved`. The worker and each verifier are loops with the job in hand as
their state; what they send may be lost before or after it took effect, or arrive later. An
honest verifier compares the result with its own (`olc_verifier.py:53`); as the gateway puts only
expected results before the quorum, `Signed` has it say yes. The answer of `/receipts` is put together under the lock and written after it, with the live
dictionary of attestations, which is `reading`. Time matters only as the end of a lease.

`Verdict` is the promise: per job an outcome and ballots; a result is judged once, a rejected
one collects no ballots, ballots only grow, and not after a decision. `OlcGateway` implements
it with the outcomes and ballots of the state *file* (`SavedOutcomes`, `SavedBallots`), not the memory, so that failed
saves and restarts are stutters or larger steps and never steps back.

### Membership

`membership.py` is data that no node uses yet. Its quorums are operators; that joint quorums
intersect is a theorem.

## 3. Runs

| Run | Shows | States |
|---|---|---|
| `ledger` | `TypeOK`, `Restorable`, `BalancesExplained`, `FinalizedOnce`, `NothingOverdue`, `SettlesOnTime`, `BranchesKeepTheirWord`, and `EveryBranchEnds` under fairness | 516,940 |
| `ledger_reserve` | finding 1 (`Restorable` with a locked account) | |
| `cluster` | `TypeOK`, `Restartable`, `SameTermAgrees`, `OneCertificatePerTerm`, `AckedSurvives`, `RefusedNeverApplied`, `SyncedMeansCaughtUp` and the refinement `ImplementsService` with takeovers, crashes, late calls and syncs | 1,016,543 |
| `cluster_fork` | finding 2 (`LogsNeverFork`) | |
| `finality` | `TypeOK`, `RoundsPassedByQuorum`, `NoConflictingFinality`, `HonestVotesCount` | 403,590 |
| `recovery` | `TypeOK`, `ChallengeIsQuorum`, `ResolvedOnce`, `RoleLostAfterWindow` | 906,629 |
| `recovery_window` | finding 5 (`HolderHasWindow`) | |
| `distributor` | `TypeOK`, `AtMostOnePayment`, `JournalCoversPayments`, `VerifiedIsPaid` | 1,613,462 |
| `distributor_resume` | finding 3 (`RerunReconciles` under fairness) | |
| `distributor_unsaved` | finding 4 (`AtMostOnePayment` with a save that fails) | |
| `olc` | `TypeOK`, `ReceiptsVerify`, `ServedReceiptsProve`, `HonestVerdict`, the refinement `ImplementsVerdict`, and `EveryJobDecided` under fairness | 49,601 |
| `enrollment` | `TypeOK`, `ExecutedOnce`, `NoNonceReused`, `StatusIsTrue`, `RegisteredIsEnrolled` | 1,185,653 |

Deadlock is not checked: every model ends when its bounded inputs are used up, and the
system itself rests when no request comes.

### Bounds

* Ledger: two branches, three accounts (one registered late), values 0 and 1 and lifetimes 2
  and 3, so that the refused requests occur; calls of one or two rounds. `Horizon` is beyond
  the last round in which any branch can settle, so the clock's bound cuts nothing off. Two
  branches are what a lock, a balance or a chain position can be shared by; `LedgerProofs`
  removes the bounds for everything but `EveryBranchEnds`.
* Cluster: two mutations, because a fork or a gap needs one entry before the takeover and
  one in or after it. `MaxFaults` is two failures in any order, each a takeover attempt, a crash
  anywhere or a call of cluster.sync, so that two attempts (two certificates for one term, or the
  succession through all three roles), a takeover with a crash and one with a sync all occur;
  with it, one call at a time may be late (`MaxLate`). `ClusterProofs` removes the bounds on
  mutations, attempts, late calls, crashes and syncs.
* Finality: four observers is the smallest number that tolerates a faulty one; one honest
  certificate ends before the last round. An object quarantines at most two observers
  (`MaxQuarantined`): the set is never read.
* Recovery: three rounds with a window of one, and three challenges, enough to lose all
  three roles.
* Distributor: two recipients, because a journal with one operation in flight can only be
  wrong about another recipient; six requests pay both, or one of them after several
  refusals; one fork and one use of the credential elsewhere. Runs and stops are unbounded.
  `DistributorProofs` removes the bounds.
* OLC: one job of before the roster and one with it, three verifiers, one of them faulty, and
  two faults: a failed save and a restart, a lost call and an early end of a lease.
* Enrollment: one account with two credentials that ask for it, and four events
  (`MaxEvents`), each a signature, a late request, a crash, a takeover or a backward step of the
  time: a registration, one of the clock and two failures, or three signatures and one. A
  second account would add two accounts in one queue and one registry; `EnrollmentProofs`
  covers any number and removes the bounds, as `RecoveryProofs` and `OlcProofs` do for theirs.

### Fairness

`FairSpec` of `Ledger`: a running `advance` finishes (`WF_vars(Loop)`; the method has no
await), and the clock keeps calling it (`WF_vars(Tick)`; `round_clock.py` runs `step` in an
endless loop). Nothing is assumed of the parties of a branch.

`FairSpec` of `Distributor`: the operator runs the same command again, as the documentation
tells him to (`SF_vars(Start)`), every run ends (`WF_vars(Stop)`; the loops and timeouts are
bounded), replicas catch up, and sooner or later a status shows the present ledger and the
run survives the steps that use it (strong fairness of `snapshot`, `nothing_in_flight`,
`reconcile` and `funded`, because a run may be cut short any number of times before). Even so
the property fails; with a plan of one recipient it holds.

`FairSpec` of `OlcGateway`: the worker and each verifier that is not faulty take their next
step (their programs are endless loops started by the system), and a lease ends (time
passes). Nothing is assumed of a faulty verifier, of the operator or of readers. All but
`MaxFaults` calls succeed, which is the bound on faults and not a fairness condition.

## 4. Proofs

Assumptions are the named `ASSUME`s of `Ledger`, `Cluster`, `Finality`, `Recovery`, `Distributor`,
`OlcGateway`, `Requests` and `Enrollment`: finitely many accounts, observers or verifiers, a
genesis allocation of natural numbers on the registered accounts, `None`, `NoVote`, "none"
and "sync" different from real values, bounds that are natural numbers, and at least three observers as
the constructor demands. TLC evaluates them in every run.

`LedgerProofs`, for any accounts, allocation, values, lifetimes and number of branches:

* `Typed` is `TypeOK` with `Commitments`, what a branch state says about its commitment;
  without it `finalize` could subtract from `None`. From it: `TypeCorrect`.
* `Funds` adds to the fund checks that every unit is explained, that unregistered accounts
  are empty and that parties of a branch are distinct and registered; without the last, a
  transfer could create units. With `History` (head and origins): `LedgerSound`, hence
  `AlwaysRestorable` when no account is locked at genesis (finding 1 is what happens
  otherwise), and `EveryUnitExplained`.
* `OnSchedule`: a branch whose round has come is still ahead of the cursor, and none is past
  its round. It is what makes the deadlines exact in a loop over branches: `NeverOverdue`,
  `DeadlinesExact`. `WordKept` follows from `Typed` alone.
* `FinalizedOnce` is inductive with `Typed`: `_finalize` is the only operation that makes a
  branch final, lengthens the list and puts a transfer on the chain, and it does the three
  together, for a branch that is not final. That the list is the chain without its
  registrations is stated by counting: the transfer at block `k` is the entry whose number is
  that of the transfers up to `k`, which needs no recursive filter: `ListedOnce`.

The sums need care: sums over functions are recursive and induction over data is out of the
prover's reach. `Sums` therefore defines a total as the cardinality of a set of units, and
`SumTheorems` shows how it changes at one place from the library's theorems on cardinality.
`MCLedger` has TLC compare it with the fold of the community modules.

`ClusterProofs`, for any mutations and any number of takeover attempts, calls in flight,
crashes and syncs. None of the properties of `Cluster` is inductive, not even `Restartable`,
because what a handler accepts depends on what the other nodes have. The invariant `IInv`
(`Invariance`) has these parts:

* `Durable`, of the saved state. Each entry of a log is at its own nonce and is in the log of
  the leader that signed it (`Sourced`), so that two entries of one leader at one position are
  the same; the certificates of a node cut its log exactly where the signer changes
  (`LogOK`); a prepared record is at most the next one (`PendingOK`); certificates have no gap
  (`CertsOK`); and every certificate is recorded first by the witness, then by the
  successor, then by the node it replaces (`Succession`), which is why there is one per term
  and why a leader whose successor has taken over finds nobody to prepare its records.
* `Jobs`: what the coroutine that holds the lock of a leader knows about its peers. A replay
  is inside the leader's log and the peer has every entry below the next one; a peer that
  answered is level; a peer that confirmed a commit has the entry.
* `Takeovers`: what `failover_step` read before each await and still relies on after it.
  Answers stay true because logs only grow and certificates are only added.
* `LateOK`: a request on its way is one the node may be sent (`Legit`). A late commit is in
  its leader's log, and a late certificate was recorded by the node that comes before in the
  order of `Succession` and is never the one that makes its receiver leader (`Foreign`).
* `ClientOK`: an undecided request is in one place and applied nowhere, and `AckedOK`: an
  acknowledged one is in the log of a node that is not its leader.

From `Durable`: `TypeCorrect` (with `Jobs` and `Takeovers`), `RestartableAlways`,
`OneCertificateAlways` and `SameTermAlwaysAgrees`; with `Jobs` `SyncedAlwaysMeansCaughtUp`;
with `ClientOK` `RefusedIsNeverApplied`. For `AckedAlwaysSurvives`, take the replica of
`AckedOK` (`ChiefHolds`). An entry that the chief signed, the chief has (`Sourced`). Otherwise
the replica is neither the signer nor the chief, hence the witness of the takeover that ended
the signer's term, and recorded the certificate before the chief did: both passed that term
with one certificate, the entry is not beyond its cut, and up to the cut the two logs agree.
`ServiceImplemented` goes through the actions. Only a commit of the chief lengthens its
log; commits at other nodes, catch-up, votes and late calls are stutters; and the chief
changes only when a successor records its own certificate, where the log of the successor is a
prefix of the old chief's up to the position in the certificate.

`FinalityProofs`, for any number of observers and candidates: the invariant is `TypeOK`,
`RoundsPassedByQuorum` and `HonestVotes` (an honest observer appears only at the object of
its own candidate, with its own key). Two quorums of at least two thirds share at least a third of the
observers, and those that voted for both candidates are faulty: `Agreement`. `HonestVotesStand` and
`QuorumInEveryRound` come from the same invariant. No quarantine enters the argument, which is
why a forged vote does no harm to agreement.

`DistributorProofs`, for any plan and any number of runs, stops, requests and replaced
leaders. `AtMostOnePayment` is not inductive: it needs `JournalCoversPayments` (each branch
anywhere and each offer on its way is in the journal), `FirstOffer` (an offer is in flight
only if no branch is known), `Waiting` (while the program waits for an offer nobody has it,
so a refusal may forget it), `Deciding` (it decides only when nothing is in flight) and
`NoncesUsed` (a late offer is newer than every branch in the leader's ledger). Then the
journal names one offer per recipient (`OneOffer`), and every ledger that the service makes
has at most one branch per recipient (`Executed`, `Replaced`): `NeverPaysTwice` and
`JournalComplete`. `FinalIsPaid`, that what is final anywhere was committed in the surviving
ledger, gives `VerificationSound`. The theorems are about `Spec`, where a refused request was
not done; finding 4 is what happens otherwise.

`RecoveryProofs`, for any observers, certificates and window. `ResolvedOnce` counts, so it
needs that an aborted coordinator has no open challenge (`Histories`); `RoleLostAfterWindow`
needs that the open challenge is the last one opened, against the active role (`OpenIsLast`),
and `ChallengeIsQuorum` that the stored claims agree on one round (`ClaimsAgree`).

`OlcProofs`, for any number of jobs, verifiers, faults and restarts. The invariant relates
memory and file: both are `Sound` (the votes of a job prove its state, and only a faulty
verifier says no) and the memory is `Ahead` of the file by one step of `Verdict`. That relation
is transitive, so a save that carries what several failed saves left behind is still one
abstract step, and a restart is none: `Refinement`. Requests on their way keep what was true
when they were sent, because a decided job is frozen (`Keeps`). `ReceiptsSound`, `ServedSound`
and `OneFaultyDecidesNothing` follow; two different verifiers in a quorum of which at most one
is faulty give the last.

`EnrollmentProofs`, for any wallets, credentials, requests, crashes and steps of the time of
day. `Traffic`: whatever travels or was executed was signed. `Increasing`: the nonces of an
actor grow along every ledger, since `verify` compares with the last one, and a takeover passes on
the first part of a ledger; the largest position of an actor exists by well-founded induction on
the naturals. Hence `RunsOnce`. `Reserved`: the clock's file and the wallet's next nonce cover all that was signed;
hence `NoncesFresh`. `Registrations` and `Approval`: no registration is signed before the
registry has the credential of the request file, and neither changes afterwards; and an account
that was in the ledger of a leader stays listed there (`LedgersMove`). Hence `StatusTrue` and `LedgerAccountsEnrolled`, also for registrations that are executed long after
the approval was given up.

`FinalityProofs` also proves `JointQuorumsIntersect` about `Membership`, by the same count.

Model-checked only: `EveryBranchEnds`, `EveryJobDecided` and `RerunReconciles`. Liveness is
out of the prover's reach, as is `ENABLED`. Every other property of a passing run is a
theorem. That a total of `Sums` is the fold of the community modules is compared by TLC, too:
induction over data is also out of reach.

## 5. Findings

1. `ledger_reserve` - a payment *to* a genesis-locked account, once it is final, makes the
   ledger's own snapshot unacceptable. The holder of the reserve has to accept the offer.
2. `cluster_fork` - a takeover can fork the committed logs: the witness votes, then
   acknowledges a prepare of the old leader, then drops it with the certificate, and the old
   leader commits. Its client is told `CommitUncertain`, so no acknowledged mutation is lost.
3. `distributor_resume` - each run begins with the first recipient and refuses to go on while
   an operation of another one is in flight, so a lost answer for any recipient but the first
   is never reconciled by running the plan again.
4. `distributor_unsaved` - a leader that applied a mutation and could not save it answers
   `INVALID_REQUEST`, which the distributor takes for "definitively rejected"; with a status
   from a node that lags it offers again, and the recipient is paid twice.
5. `recovery_window` - claims that name a round long past open a challenge whose window is
   already over, so the accused loses the role without a round in which to answer. The protocol
   document promises a window; nothing in the code compares the named round with the current one.

Observations without a run, most of which no document contradicts:

* A request that waited for the lock of a leader starts a record after that node has recorded
  its own fencing (`node.py:532`); its peers refuse it, and `SameTermAgrees` holds.
* The claims of an answered challenge open it again (`recovery.py:205`); `ResolvedOnce` counts
  that as another challenge.
* A vote for another candidate quarantines the observer it names before certificate and
  signature are checked (`finality.py:109-111`), so one that the observer never sent does, at the
  object of its own candidate too. Its votes still count (`HonestVotesCount`).
* Approval may save a request as active for an account that only a replaced leader has
  (`enrollment.py:80`); approving it again then returns at once (`enrollment_web.py:86`).
* The gateway answers `UNAVAILABLE`, or a later backend `INVALID_REQUEST`, to a request that a
  backend executed after its timeout (`public_rpc.py:76`): neither answer means that nothing
  happened. `ExecutedOnce` is what remains.
* Activation signs with the bare time of day (`enrollment.py:83`), the clock with at least its
  last nonce plus one. After the time is set back, registrations are refused until it has
  caught up with the nonces of the clock.
* A stop after the temporary file of an approval was written leaves a `.wallet.json` file
  without a status, which `pending` cannot read and `MAX_PENDING` counts
  (`enrollment_web.py:90`). `MAX_PENDING` counts active requests, too.
* `approve` compares the registry with an earlier read and then replaces it
  (`enrollment.py:58-62`); another program that writes in between would be overwritten.
* `/receipts` may show a job as awaiting its quorum together with the votes that have decided
  it meanwhile (`olc_gateway.py:167`); an outside check then fails once, though the answer never
  claims more than it proves (`ServedReceiptsProve`).
* With one vote for, one against and a silent third verifier a job waits for ever; with one
  faulty verifier the other two decide (`EveryJobDecided`).

## 6. What is not modelled

* Cryptography (signatures, TLS, key files), JSON formats, presentation and command lines:
  input and output. Identities and transport, the status page, the simulator, the scripts
  and the example are of this kind.
* A disk that fails at a node. The distributor's view of it is finding 4; the compute gateway
  has it in full.
* `prepare` of the distributor, which writes the plan before anything is sent; the rate limit
  of the gateway; `setNextNonce`, `save` and `clear` of the wallet.
* Gossip, DistOPS, runtime, services and ecosystem: sequential library code that only tests and
  demonstrations call. They have no second actor, no messages in flight and nothing saved, so
  that a unit test reaches what a model would.
* Two stuck situations of `Cluster` (a replica that prepared a record its leader gave up; a
  witness and a candidate that cannot follow each other). The hazard list names them; the
  code promises no progress there.
* Clusters with other than three nodes do not exist in the code.

## 7. Plan

Built: `Ledger`, `Cluster` with its abstract specification `Service`, `Finality`, `Recovery`,
`Distributor`, `Requests`, `Enrollment`, `OlcGateway` with its abstract specification
`Verdict`, `Membership`, and the proofs of every safety property that a passing run checks.
What is left, in order of importance:

1. A save that fails at a node, with the recording of nonces in memory before it.
2. The nodes as `Requests` and `Distributor` see them, shown to be instances of `Service`.
