----------------------------- MODULE OlcGateway -----------------------------
(***************************************************************************)
(* The compute pilot: the gateway's job store, its worker and its three    *)
(* verifiers (splitchain/olc_gateway.py, olc_worker.py, olc_verifier.py),  *)
(* and the check of public receipts (olc_receipts.py).                     *)
(*                                                                         *)
(* Every method of Store runs under its lock, so it is one action.  It     *)
(* changes `jobs`, in memory, and then writes the whole store to `saved`;  *)
(* a write that fails leaves the change in memory and the caller without   *)
(* an answer.  Job ids are numbered in the order of their insertion, which *)
(* is the order in which the store looks at them.                          *)
(*                                                                         *)
(* Time only matters as the end of a lease: a lease is live until Expire.  *)
(* The roster of verifier keys is the one every job was given: the         *)
(* provisioning script refuses to replace it.  A signature is its author.  *)
(***************************************************************************)
EXTENDS Integers, FiniteSets, FiniteSetsExt

CONSTANTS
    Verifiers, \* VERIFIER_IDS
    Faulty,    \* verifiers that sign anything at any time
    Legacy,    \* jobs 1..Legacy were in the store before the roster
    Recent,    \* how many jobs the receipts cover (20)
    MaxJobs,   \* bound: jobs
    MaxFaults  \* bound: failed saves, lost or late calls, failed sandboxes and restarts

ASSUME OlcAssumption ==
    /\ Faulty \subseteq Verifiers
    /\ IsFiniteSet(Verifiers)
    /\ Legacy \in Nat /\ MaxJobs \in Nat /\ MaxFaults \in Nat /\ Recent \in Nat

Jobs == 1..MaxJobs

VARIABLES
    jobs,    \* Store.data["jobs"]
    saved,   \* the state file
    late,    \* requests on their way after their caller gave up
    worker,  \* the worker's process
    hand,    \* verifier -> the job it is about to attest, 0 for none
    reading, \* what a thread that answers /receipts copied under the lock
    faults

vars == <<jobs, saved, late, worker, hand, reading, faults>>
-----------------------------------------------------------------------------
NoReading == [job |-> 0, state |-> "absent", digest |-> "none"]

Votes   == {"none", "yes", "no"}
Digests == {"none", "EXPECTED", "other"}
States  == {"absent", "queued", "leased", "awaiting_quorum", "quorum_verified", "disputed",
            "verified", "rejected"}

quorum_required == 2

Count(b, vote) == Cardinality({v \in Verifiers : b[v] = vote})

NoVotes == [v \in Verifiers |-> "none"]
NewJob  == [state |-> "absent", digest |-> "none", votes |-> NoVotes, expired |-> FALSE]

\* The job was given verifier_keys.
keyed(j) == j > Legacy

Live(job) == job.state = "leased" /\ ~job.expired

\* Bug: an expired lease does not make the job available.
Available_queued(job) == job.state = "queued"

Available(job) == job.state = "queued" \/ (job.state = "leased" /\ job.expired)

\* lease: the job to hand out, 0 for none.
lease ==
    LET free == {j \in Jobs : Available(jobs[j])}
    IN  IF (\E j \in Jobs : Live(jobs[j])) \/ free = {} THEN 0 ELSE Min(free)

Leased(j) == [jobs EXCEPT ![j].state = "leased", ![j].expired = FALSE]

Completed == {"verified", "awaiting_quorum", "quorum_verified", "disputed", "rejected"}

\* Bug: an accepted result gets a state that no other method knows.
result_accepted(j, d) ==
    IF Live(jobs[j])
    THEN [jobs EXCEPT ![j].digest = d, ![j].state = IF d # "EXPECTED" THEN "rejected" ELSE "accepted"]
    ELSE jobs

\* Bug: a result replaces an earlier one.
result_again(j, d) ==
    IF Live(jobs[j]) \/ jobs[j].state \in Completed
    THEN [jobs EXCEPT ![j].digest = d,
                      ![j].state = IF d # "EXPECTED" THEN "rejected"
                                   ELSE IF keyed(j) THEN "awaiting_quorum" ELSE "verified"]
    ELSE jobs

\* result: the store after it; a result of a completed job changes nothing.
result(j, d) ==
    IF Live(jobs[j])
    THEN [jobs EXCEPT ![j].digest = d,
                      ![j].state = IF d # "EXPECTED" THEN "rejected"
                                   ELSE IF keyed(j) THEN "awaiting_quorum" ELSE "verified"]
    ELSE jobs

\* Bug: a single vote decides.
tally_single(votes) ==
    IF Count(votes, "yes") >= 1 THEN "quorum_verified"
    ELSE IF Count(votes, "no") >= 1 THEN "disputed"
    ELSE "awaiting_quorum"

\* Bug: the state is only looked at when every verifier has voted.
tally_late(votes) ==
    IF Count(votes, "none") > 0 THEN "awaiting_quorum"
    ELSE IF Count(votes, "yes") >= quorum_required THEN "quorum_verified" ELSE "disputed"

\* The state that the votes give a job.
tally(votes) ==
    IF Count(votes, "yes") >= quorum_required THEN "quorum_verified"
    ELSE IF Count(votes, "no") >= quorum_required THEN "disputed"
    ELSE "awaiting_quorum"

\* Bug: a verifier may vote again.
attests_again(v, j) ==
    keyed(j) /\ jobs[j].state \in {"awaiting_quorum", "quorum_verified", "disputed"}

\* attest: a vote counts once, and only while the quorum is awaited.
attests(v, j) == keyed(j) /\ jobs[j].state = "awaiting_quorum" /\ jobs[j].votes[v] = "none"

attest(v, j, vote) ==
    IF attests(v, j)
    THEN [jobs EXCEPT ![j].votes[v] = vote, ![j].state = tally([jobs[j].votes EXCEPT ![v] = vote])]
    ELSE jobs

\* The store after a request of the worker or of a verifier.
Handled(q) == IF q.kind = "result" THEN result(q.job, q.vote) ELSE attest(q.by, q.job, q.vote)

Result(j, d)       == [kind |-> "result", by |-> "worker", job |-> j, vote |-> d]
Attest(v, j, vote) == [kind |-> "attest", by |-> v, job |-> j, vote |-> vote]
-----------------------------------------------------------------------------
Fault == faults < MaxFaults /\ faults' = faults + 1

\* The store becomes `new` and is written.
Save(new) == jobs' = new /\ saved' = new

\* A handler that changes nothing writes nothing.
WriteChange(new) == jobs' = new /\ saved' = IF new = jobs THEN saved ELSE new

\* The write fails: the change stays in memory and the caller gets no answer.
WriteFails(new) == Fault /\ jobs' = new /\ UNCHANGED saved

\* The caller gets no answer: the call was handled, saved or not, or never arrives.
Unanswered(new) ==
    \/ WriteFails(new)
    \/ Fault /\ WriteChange(new)
    \/ Fault /\ UNCHANGED <<jobs, saved>>

\* As before, or the request runs later.
UnansweredRequest(q) ==
    \/ Unanswered(Handled(q)) /\ UNCHANGED late
    \/ Fault /\ late' = late \cup {q} /\ UNCHANGED <<jobs, saved>>
-----------------------------------------------------------------------------
(* The operator.                                                           *)

count == Cardinality({j \in Jobs : jobs[j].state # "absent"})

enqueue ==
    LET new == [jobs EXCEPT ![count + 1].state = "queued"] IN
    /\ count < MaxJobs
    /\ (Save(new) /\ UNCHANGED faults) \/ Unanswered(new)
    /\ UNCHANGED <<late, worker, hand, reading>>

(* The worker: it beats, polls, works and reports; after any error its     *)
(* process ends and the service starts it again.                           *)

Start == [at |-> "beat", job |-> 0, digest |-> "none"]

\* heartbeat writes the store, with whatever an earlier write failed to save.
Heartbeat ==
    /\ worker.at = "beat"
    /\ Save(jobs)
    /\ worker' = [worker EXCEPT !.at = "poll"]
    /\ UNCHANGED <<late, hand, reading, faults>>

Poll ==
    /\ worker.at = "poll"
    /\ WriteChange(IF lease = 0 THEN jobs ELSE Leased(lease))
    /\ worker' = IF lease = 0 THEN Start ELSE [at |-> "work", job |-> lease, digest |-> "none"]
    /\ UNCHANGED <<late, hand, reading, faults>>

sandbox_job ==
    /\ worker.at = "work"
    /\ \E d \in Digests \ {"none"} : worker' = [worker EXCEPT !.at = "report", !.digest = d]
    /\ UNCHANGED <<jobs, saved, late, hand, reading, faults>>

\* A refusal ends the process as well.
Report ==
    /\ worker.at = "report"
    /\ WriteChange(result(worker.job, worker.digest))
    /\ worker' = Start
    /\ UNCHANGED <<late, hand, reading, faults>>

WorkerFails ==
    /\ \/ worker.at = "beat" /\ Fault /\ saved' \in {saved, jobs} /\ UNCHANGED <<jobs, late>>
       \/ worker.at = "poll" /\ lease # 0 /\ Unanswered(Leased(lease)) /\ UNCHANGED late
       \/ worker.at = "work" /\ Fault /\ UNCHANGED <<jobs, saved, late>>
       \/ worker.at = "report" /\ UnansweredRequest(Result(worker.job, worker.digest))
    /\ worker' = Start
    /\ UNCHANGED <<hand, reading>>

(* The verifiers: verify_once, again and again.                            *)

verifier_job(v) ==
    LET open == {j \in Jobs : attests(v, j)} IN IF open = {} THEN 0 ELSE Min(open)

GetJob(v) ==
    /\ v \notin Faulty
    /\ hand[v] = 0 /\ verifier_job(v) # 0
    /\ hand' = [hand EXCEPT ![v] = verifier_job(v)]
    /\ UNCHANGED <<jobs, saved, late, worker, reading, faults>>

\* A job is handed to verifiers once its result is the expected one.
Signed(v) == Attest(v, hand[v], "yes")

verify_once(v) ==
    /\ hand[v] # 0
    /\ WriteChange(Handled(Signed(v)))
    /\ hand' = [hand EXCEPT ![v] = 0]
    /\ UNCHANGED <<late, worker, reading, faults>>

VerifierFails(v) ==
    /\ hand[v] # 0
    /\ UnansweredRequest(Signed(v))
    /\ hand' = [hand EXCEPT ![v] = 0]
    /\ UNCHANGED <<worker, reading>>

\* A faulty verifier signs what it likes.
FaultyAttest(v) ==
    /\ v \in Faulty
    /\ \E j \in Jobs, vote \in {"yes", "no"} :
           /\ attests(v, j)
           /\ LET new == attest(v, j, vote) IN (Save(new) /\ UNCHANGED faults) \/ WriteFails(new)
    /\ UNCHANGED <<late, worker, hand, reading>>
-----------------------------------------------------------------------------
DeliverLate ==
    \E q \in late :
        /\ (WriteChange(Handled(q)) /\ UNCHANGED faults) \/ WriteFails(Handled(q))
        /\ late' = late \ {q}
        /\ UNCHANGED <<worker, hand, reading>>

\* The time of a lease has passed; a lease on disk is no younger.
Expired(j) ==
    /\ Live(jobs[j])
    /\ jobs' = [jobs EXCEPT ![j].expired = TRUE]
    /\ saved' = [saved EXCEPT ![j].expired = (@ \/ saved[j].state = "leased")]
    /\ UNCHANGED <<late, worker, hand, reading>>

working(j) == worker.job = j

Expire(j) == Expired(j) /\ ~working(j) /\ UNCHANGED faults

\* The sandbox is stopped after 60 seconds, half of a lease: it takes a fault (a machine that
\* is suspended, a slow network) for a worker to be late with its result.
ExpireEarly(j) == Expired(j) /\ working(j) /\ Fault

\* The gateway stops and starts again from its file.
Restart ==
    /\ Fault
    /\ jobs' = saved
    /\ reading' = NoReading
    /\ UNCHANGED <<saved, late, worker, hand>>

\* public_receipts: a receipt has a copy of the job's state and the job's own attestations,
\* which are only read when the answer is written, after the lock is released.  One receipt
\* of the answer is followed: they do not depend on each other.
ReadReceipts(j) ==
    /\ reading.job = 0
    /\ j <= count /\ j + Recent > count
    /\ reading' = [job |-> j, state |-> jobs[j].state, digest |-> jobs[j].digest]
    /\ UNCHANGED <<jobs, saved, late, worker, hand, faults>>

SendReceipts ==
    /\ reading.job # 0
    /\ reading' = NoReading
    /\ UNCHANGED <<jobs, saved, late, worker, hand, faults>>
-----------------------------------------------------------------------------
Init ==
    /\ jobs = [j \in Jobs |-> IF j <= Legacy THEN [NewJob EXCEPT !.state = "queued"] ELSE NewJob]
    /\ saved = jobs
    /\ late = {}
    /\ worker = Start
    /\ hand = [v \in Verifiers |-> 0]
    /\ reading = NoReading
    /\ faults = 0

WorkerSteps == Heartbeat \/ Poll \/ sandbox_job \/ Report

Verify(v) == GetJob(v) \/ verify_once(v)

Next ==
    \/ enqueue \/ WorkerSteps \/ WorkerFails
    \/ \E v \in Verifiers : Verify(v) \/ VerifierFails(v) \/ FaultyAttest(v)
    \/ DeliverLate \/ Restart \/ SendReceipts
    \/ \E j \in Jobs : Expire(j) \/ ExpireEarly(j) \/ ReadReceipts(j)

Spec == Init /\ [][Next]_vars

\* The services run again and again, time passes, and all but MaxFaults calls succeed.
FairSpec ==
    /\ Spec
    /\ WF_vars(WorkerSteps)
    /\ \A v \in Verifiers \ Faulty : WF_vars(Verify(v))
    /\ \A j \in Jobs : WF_vars(Expire(j))
-----------------------------------------------------------------------------
(* Properties.                                                             *)

JobRecords == [state : States, digest : Digests, votes : [Verifiers -> Votes], expired : BOOLEAN]

Calls == [kind : {"result", "attest"}, by : Verifiers \cup {"worker"}, job : Jobs,
          vote : Votes \cup Digests]

\* Every variable has its type.
TypeOK ==
    /\ jobs \in [Jobs -> JobRecords]
    /\ saved \in [Jobs -> JobRecords]
    /\ late \subseteq Calls
    /\ worker \in [at : {"beat", "poll", "work", "report"}, job : Jobs \cup {0}, digest : Digests]
    /\ hand \in [Verifiers -> Jobs \cup {0}]
    /\ reading \in [job : Jobs \cup {0}, state : States, digest : Digests]
    /\ faults \in 0..MaxFaults

\* verify_document on one receipt.
verifies(j, state, digest, votes) ==
    keyed(j) =>
        /\ Count(votes, "yes") > 0 => digest = "EXPECTED"
        /\ state = "quorum_verified" => Count(votes, "yes") >= 2
        /\ state = "disputed" => Count(votes, "no") >= 2
        /\ state = "awaiting_quorum" => Count(votes, "yes") < 2 /\ Count(votes, "no") < 2
        /\ state \in {"queued", "leased", "rejected"} => votes = NoVotes
        /\ state # "verified"

\* The store, in memory and on disk, is one whose receipts an outsider can verify: the state
\* of every job is the one that its signed votes prove.
ReceiptsVerify ==
    \A j \in Jobs : \A s \in {jobs[j], saved[j]} : verifies(j, s.state, s.digest, s.votes)

\* A receipt that /receipts serves never claims more than it proves: whatever happened between
\* the copy of the state and the moment the answer is written, a decision in it comes with
\* the signed votes that made it.
ServedReceiptsProve ==
    LET votes == jobs[reading.job].votes IN
    reading.job # 0 /\ keyed(reading.job) =>
        /\ reading.state = "quorum_verified" =>
               reading.digest = "EXPECTED" /\ Count(votes, "yes") >= 2
        /\ reading.state = "disputed" => Count(votes, "no") >= 2

\* With at most one faulty verifier no job is ever disputed, and a job verified by the quorum
\* has the expected digest and the vote of a verifier that checked it.
HonestVerdict ==
    Cardinality(Faulty) <= 1 => \A j \in Jobs :
        /\ jobs[j].state # "disputed"
        /\ jobs[j].state = "quorum_verified" =>
               /\ jobs[j].digest = "EXPECTED"
               /\ \E v \in Verifiers \ Faulty : jobs[j].votes[v] = "yes"

\* What a job's state says of its result.
Outcome(s) == IF s.state \in {"absent", "queued", "leased"} THEN "open"
              ELSE IF s.state = "rejected" THEN "rejected" ELSE "accepted"

\* What the state file says of the results and of the ballots.
SavedOutcomes == [j \in Jobs |-> Outcome(saved[j])]
SavedBallots  == [j \in Jobs |-> saved[j].votes]

V == INSTANCE Verdict WITH outcome <- SavedOutcomes, ballots <- SavedBallots

\* The state file implements Verdict through failed saves, restarts and late requests.
ImplementsVerdict == V!Spec

\* Every job in the state file is decided there in the end: a lost lease runs out, a lost
\* result is computed again, and a silent or faulty verifier is not needed.
EveryJobDecided ==
    \A j \in Jobs : saved[j].state # "absent"
                        ~> saved[j].state \in {"quorum_verified", "disputed", "verified", "rejected"}
=============================================================================
