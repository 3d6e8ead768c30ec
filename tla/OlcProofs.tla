----------------------------- MODULE OlcProofs -----------------------------
(***************************************************************************)
(* Proofs about OlcGateway: for any number of jobs, verifiers and faults   *)
(* the state file implements Verdict, receipts verify, and one faulty      *)
(* verifier decides nothing.                                               *)
(***************************************************************************)
EXTENDS OlcGateway, FiniteSetTheorems, WellFoundedInduction, TLAPS

\* A job record of the store: its votes prove its state, and only a faulty verifier says no.
Sound(j, s) ==
    /\ s \in JobRecords
    /\ verifies(j, s.state, s.digest, s.votes)
    /\ s.state = "absent" => s.votes = NoVotes
    /\ s.state \in {"awaiting_quorum", "quorum_verified", "disputed"} =>
           keyed(j) /\ s.digest = "EXPECTED"
    /\ \A v \in Verifiers : s.votes[v] = "no" => v \in Faulty

\* The abstract step that leads from record s to record t.
Ahead(s, t) == V!Advances(Outcome(s), s.votes, Outcome(t), t.votes)

\* A decided job stays as it is.
Keeps(s, t) ==
    s.state \in {"quorum_verified", "disputed"} =>
        t.state = s.state /\ t.digest = s.digest /\ t.votes = s.votes

\* Jobs are numbered without gaps.
Contiguous(J) == \E n \in 0..MaxJobs : \A j \in Jobs : J[j].state = "absent" <=> j > n

\* What a method may make of the store in memory.
Store(new) ==
    /\ DOMAIN new = Jobs /\ new = [j \in Jobs |-> new[j]]
    /\ \A j \in Jobs : Sound(j, new[j]) /\ Ahead(jobs[j], new[j]) /\ Keeps(jobs[j], new[j])
    /\ Contiguous(new)

\* The file is a state that the store in memory has been in, or comes from.
StoreInv ==
    /\ jobs = [j \in Jobs |-> jobs[j]] /\ saved = [j \in Jobs |-> saved[j]]
    /\ \A j \in Jobs : Sound(j, jobs[j]) /\ Sound(j, saved[j]) /\ Ahead(saved[j], jobs[j])
    /\ Contiguous(jobs) /\ Contiguous(saved)

\* A request that the worker or a verifier may send.
Sendable(q) ==
    /\ q \in Calls
    /\ q.kind = "result" => q.vote \in Digests \ {"none"}
    /\ q.kind = "attest" => q.by \in Verifiers /\ (q.vote = "yes" \/ (q.vote = "no" /\ q.by \in Faulty))

\* A decided receipt was copied from a job that is still the same.
ReadingInv ==
    /\ reading \in [job : Jobs \cup {0}, state : States, digest : Digests]
    /\ reading.job # 0 /\ reading.state \in {"quorum_verified", "disputed"} =>
           jobs[reading.job].state = reading.state /\ jobs[reading.job].digest = reading.digest

ProcessInv ==
    /\ \A q \in late : Sendable(q)
    /\ worker \in [at : {"beat", "poll", "work", "report"}, job : Jobs \cup {0}, digest : Digests]
    /\ worker.at \in {"work", "report"} => worker.job \in Jobs
    /\ worker.at = "report" => worker.digest # "none"
    /\ hand \in [Verifiers -> Jobs \cup {0}]
    /\ faults \in 0..MaxFaults

IInv == StoreInv /\ ReadingInv /\ ProcessInv

\* The step of the state file is one of Verdict, or none.
Refines == [V!Next]_<<SavedOutcomes, SavedBallots>>
-----------------------------------------------------------------------------
LEMMA CountType ==
    ASSUME NEW b, NEW vote
    PROVE  Count(b, vote) \in Nat
<1> DEFINE S == {v \in Verifiers : b[v] = vote}
<1>1. IsFiniteSet(S) /\ Cardinality(S) <= Cardinality(Verifiers)
  BY FS_Subset, OlcAssumption
<1> QED BY <1>1, FS_CardinalityType DEF Count

LEMMA CountNone == Count(NoVotes, "yes") = 0 /\ Count(NoVotes, "no") = 0
<1>1. {v \in Verifiers : NoVotes[v] = "yes"} = {} /\ {v \in Verifiers : NoVotes[v] = "no"} = {}
  BY DEF NoVotes
<1> QED BY <1>1, FS_EmptySet DEF Count

\* Votes that do not reach the count decide nothing.
LEMMA Undecided ==
    ASSUME NEW b, Count(b, "yes") < 2, Count(b, "no") < 2
    PROVE  ~V!Decided(b)
<1>1. ASSUME NEW vote, NEW v \in Verifiers, NEW w \in Verifiers,
             v # w, b[v] = vote, b[w] = vote
      PROVE  Count(b, vote) >= 2
  <2> DEFINE S == {u \in Verifiers : b[u] = vote}
  <2>1. IsFiniteSet(S) BY FS_Subset, OlcAssumption
  <2>2. {v, w} \subseteq S BY <1>1
  <2>3. Cardinality({v, w}) = 2
    <3>1. IsFiniteSet({v}) /\ Cardinality({v}) = 1 BY FS_Singleton
    <3>2. Cardinality({v} \cup {w}) = 2 BY <1>1, <3>1, FS_AddElement
    <3>3. {v} \cup {w} = {v, w} OBVIOUS
    <3> QED BY <3>2, <3>3
  <2>4. Cardinality({v, w}) <= Cardinality(S) BY <2>1, <2>2, FS_Subset
  <2>5. Cardinality(S) \in Nat BY <2>1, FS_CardinalityType
  <2> QED BY <2>3, <2>4, <2>5 DEF Count
<1>2. Count(b, "yes") \in Nat /\ Count(b, "no") \in Nat BY CountType
<1> QED BY <1>1, <1>2 DEF V!Decided, V!Quorum

\* The job that a method looks for first exists.
LEMMA MinIn ==
    ASSUME NEW S \in SUBSET Jobs, S # {}
    PROVE  Min(S) \in S
<1>1. S \subseteq Nat
  BY OlcAssumption DEF Jobs
<1>2. PICK x \in S : \A y \in S : ~ (<<y, x>> \in OpToRel(<, Nat))
  BY <1>1, WFMin, NatLessThanWellFounded
<1>3. ASSUME NEW y \in S PROVE x <= y
  <2>1. x \in Nat /\ y \in Nat BY <1>1
  <2>2. <<y, x>> \in Nat \X Nat /\ <<y, x>>[1] = y /\ <<y, x>>[2] = x BY <2>1
  <2>3. ~(y < x) BY <1>2, <2>2, Zenon DEF OpToRel
  <2> QED BY <2>1, <2>3
<1> QED BY <1>3 DEF Min

LEMMA AheadReflexive ==
    ASSUME NEW s
    PROVE  Ahead(s, s)
BY DEF Ahead, V!Advances

LEMMA AheadTransitive ==
    ASSUME NEW s, NEW t, NEW u, Ahead(s, t), Ahead(t, u)
    PROVE  Ahead(s, u)
BY DEF Ahead, V!Advances, V!Extends

LEMMA StoreUnchanged == StoreInv => Store(jobs)
BY AheadReflexive DEF StoreInv, Store, Keeps

\* One job changes; it appears or is there already.
LEMMA StoreOne ==
    ASSUME StoreInv, NEW j \in Jobs, NEW s,
           Sound(j, s), Ahead(jobs[j], s), Keeps(jobs[j], s),
           jobs[j].state # "absent", s.state # "absent"
    PROVE  Store([jobs EXCEPT ![j] = s])
<1> DEFINE new == [jobs EXCEPT ![j] = s]
<1>1. \A k \in Jobs : new[k] = IF k = j THEN s ELSE jobs[k]
  BY DEF StoreInv
<1>2. DOMAIN new = Jobs /\ new = [k \in Jobs |-> new[k]]
  BY DEF StoreInv
<1>3. \A k \in Jobs : Sound(k, new[k]) /\ Ahead(jobs[k], new[k]) /\ Keeps(jobs[k], new[k])
  BY <1>1, AheadReflexive DEF StoreInv, Keeps
<1>4. Contiguous(new)
  BY <1>1 DEF StoreInv, Contiguous
<1> QED BY <1>2, <1>3, <1>4 DEF Store
-----------------------------------------------------------------------------
(* The methods of the store.                                               *)

LEMMA LeaseOpens ==
    ASSUME StoreInv, lease # 0
    PROVE  lease \in Jobs /\ Store(Leased(lease))
<1> DEFINE free == {j \in Jobs : Available(jobs[j])}
<1>1. free # {} /\ lease = Min(free)
  BY DEF lease
<1>2. lease \in free
  BY <1>1, MinIn
<1>3. lease \in Jobs /\ jobs[lease].state \in {"queued", "leased"}
  BY <1>2 DEF Available
<1> DEFINE s == [jobs[lease] EXCEPT !.state = "leased", !.expired = FALSE]
<1>4. Sound(lease, jobs[lease]) /\ jobs[lease] \in JobRecords
  BY <1>3 DEF StoreInv, Sound
<1>5. /\ s \in JobRecords /\ s.state = "leased"
      /\ s.votes = jobs[lease].votes /\ s.digest = jobs[lease].digest
  BY <1>4 DEF JobRecords, States
<1>6. Sound(lease, s)
  BY <1>3, <1>4, <1>5, CountNone DEF Sound, verifies
<1>7. Ahead(jobs[lease], s) /\ Keeps(jobs[lease], s)
  BY <1>3, <1>5 DEF Ahead, Keeps, Outcome, V!Advances
<1>8. Leased(lease) = [jobs EXCEPT ![lease] = s]
  BY DEF Leased, StoreInv
<1> HIDE DEF s
<1>9. Store([jobs EXCEPT ![lease] = s])
  BY <1>3, <1>5, <1>6, <1>7, StoreOne
<1> QED BY <1>3, <1>8, <1>9

LEMMA ResultStores ==
    ASSUME StoreInv, NEW j \in Jobs, NEW d \in Digests \ {"none"}
    PROVE  Store(result(j, d))
<1>1. CASE ~Live(jobs[j])
  BY <1>1, StoreUnchanged DEF result
<1>2. CASE Live(jobs[j])
  <2> DEFINE state == IF d # "EXPECTED" THEN "rejected"
                      ELSE IF keyed(j) THEN "awaiting_quorum" ELSE "verified"
  <2> DEFINE s == [jobs[j] EXCEPT !.digest = d, !.state = state]
  <2>1. Sound(j, jobs[j]) /\ jobs[j] \in JobRecords /\ jobs[j].state = "leased"
    BY <1>2 DEF StoreInv, Sound, Live
  <2>2. state \in States /\ state \notin {"absent", "queued", "leased"}
    BY DEF States
  <2>3. /\ s \in JobRecords /\ s.state = state
        /\ s.votes = jobs[j].votes /\ s.digest = d
    BY <2>1, <2>2 DEF JobRecords
  <2>4. Sound(j, s)
    BY <2>1, <2>3, CountNone DEF Sound, verifies
  <2>5. Ahead(jobs[j], s) /\ Keeps(jobs[j], s)
    BY <2>1, <2>3 DEF Ahead, Keeps, Outcome, V!Advances
  <2>6. result(j, d) = [jobs EXCEPT ![j] = s]
    BY <1>2 DEF result, StoreInv
  <2> HIDE DEF s
  <2>7. Store([jobs EXCEPT ![j] = s])
    BY <2>1, <2>2, <2>3, <2>4, <2>5, StoreOne
  <2> QED BY <2>6, <2>7
<1> QED BY <1>1, <1>2

\* The state that the tally gives is proved by the votes.
LEMMA TallyProved ==
    ASSUME NEW b
    PROVE  /\ tally(b) \in {"awaiting_quorum", "quorum_verified", "disputed"}
           /\ tally(b) = "quorum_verified" => Count(b, "yes") >= 2
           /\ tally(b) = "disputed" => Count(b, "no") >= 2
           /\ tally(b) = "awaiting_quorum" => Count(b, "yes") < 2 /\ Count(b, "no") < 2
<1>1. Count(b, "yes") \in Nat /\ Count(b, "no") \in Nat
  BY CountType
<1> QED BY <1>1 DEF tally, quorum_required

LEMMA AttestStores ==
    ASSUME StoreInv, NEW j \in Jobs, NEW v \in Verifiers, NEW vote \in {"yes", "no"},
           vote = "no" => v \in Faulty
    PROVE  Store(attest(v, j, vote))
<1>1. CASE ~attests(v, j)
  BY <1>1, StoreUnchanged DEF attest
<1>2. CASE attests(v, j)
  <2> DEFINE b == jobs[j].votes
  <2> DEFINE c == [b EXCEPT ![v] = vote]
  <2> DEFINE s == [jobs[j] EXCEPT !.votes = c, !.state = tally(c)]
  <2>1. /\ Sound(j, jobs[j]) /\ jobs[j] \in JobRecords /\ jobs[j].state = "awaiting_quorum"
        /\ keyed(j) /\ b[v] = "none"
    BY <1>2 DEF StoreInv, Sound, attests
  <2>2. b \in [Verifiers -> Votes] /\ c \in [Verifiers -> Votes]
    BY <2>1 DEF JobRecords, Votes
  <2>3. tally(c) \in {"awaiting_quorum", "quorum_verified", "disputed"}
    BY TallyProved
  <2>4. s \in JobRecords /\ s.state = tally(c) /\ s.votes = c /\ s.digest = jobs[j].digest
    BY <2>1, <2>2, <2>3 DEF JobRecords, States
  <2>5. jobs[j].digest = "EXPECTED" /\ Count(b, "yes") < 2 /\ Count(b, "no") < 2
    BY <2>1 DEF Sound, verifies
  <2>6. \A u \in Verifiers : c[u] = "no" => u \in Faulty
    BY <2>1, <2>2 DEF Sound
  <2>7. Sound(j, s)
    BY <2>1, <2>3, <2>4, <2>5, <2>6, TallyProved DEF Sound, verifies
  <2>8. ~V!Decided(b)
    BY <2>5, Undecided
  <2>9. V!Extends(c, b)
    BY <2>1, <2>2 DEF V!Extends
  <2>10. Outcome(jobs[j]) = "accepted" /\ Outcome(s) = "accepted"
    BY <2>1, <2>3, <2>4 DEF Outcome
  <2>11. Ahead(jobs[j], s) /\ Keeps(jobs[j], s)
    BY <2>1, <2>4, <2>8, <2>9, <2>10 DEF Ahead, Keeps, V!Advances
  <2>12. attest(v, j, vote) = [jobs EXCEPT ![j] = s]
    BY <1>2 DEF attest, StoreInv
  <2>13. jobs[j].state # "absent" /\ s.state # "absent"
    BY <2>1, <2>3, <2>4
  <2> HIDE DEF s
  <2>14. Store([jobs EXCEPT ![j] = s])
    BY <2>7, <2>11, <2>13, StoreOne
  <2> QED BY <2>12, <2>14
<1> QED BY <1>1, <1>2

LEMMA HandledStores ==
    ASSUME StoreInv, NEW q, Sendable(q)
    PROVE  Store(Handled(q))
<1>1. q.job \in Jobs /\ q.kind \in {"result", "attest"}
  BY DEF Sendable, Calls
<1> QED BY <1>1, ResultStores, AttestStores DEF Handled, Sendable

LEMMA EnqueueStores ==
    ASSUME StoreInv, count < MaxJobs
    PROVE  Store([jobs EXCEPT ![count + 1].state = "queued"])
<1> DEFINE new == [jobs EXCEPT ![count + 1].state = "queued"]
<1>1. PICK n \in 0..MaxJobs : \A j \in Jobs : jobs[j].state = "absent" <=> j > n
  BY DEF StoreInv, Contiguous
<1>2. {j \in Jobs : jobs[j].state # "absent"} = 1..n
  BY <1>1, OlcAssumption DEF Jobs
<1>3. count = n
  <2>1. n \in Nat BY OlcAssumption
  <2>2. Cardinality(1..n) = n BY <2>1, FS_Interval
  <2> QED BY <1>2, <2>2 DEF count
<1>4. n + 1 \in Jobs /\ jobs[n + 1].state = "absent" /\ n + 1 \in 0..MaxJobs
  BY <1>1, <1>3, OlcAssumption DEF Jobs
<1> DEFINE s == [jobs[n + 1] EXCEPT !.state = "queued"]
<1>5. Sound(n + 1, jobs[n + 1]) /\ jobs[n + 1] \in JobRecords
  BY <1>4 DEF StoreInv, Sound
<1>6. /\ s \in JobRecords /\ s.state = "queued"
      /\ s.votes = jobs[n + 1].votes /\ s.digest = jobs[n + 1].digest
  BY <1>5 DEF JobRecords, States
<1>7. Sound(n + 1, s)
  BY <1>4, <1>5, <1>6, CountNone DEF Sound, verifies
<1>8. Ahead(jobs[n + 1], s) /\ Keeps(jobs[n + 1], s)
  BY <1>4, <1>6 DEF Ahead, Keeps, Outcome, V!Advances
<1>9. DOMAIN new = Jobs /\ new = [k \in Jobs |-> new[k]]
  BY DEF StoreInv
<1>10. \A k \in Jobs : new[k] = IF k = n + 1 THEN s ELSE jobs[k]
  BY <1>3 DEF StoreInv
<1> HIDE DEF s, new
<1>11. \A k \in Jobs : Sound(k, new[k]) /\ Ahead(jobs[k], new[k]) /\ Keeps(jobs[k], new[k])
  BY <1>7, <1>8, <1>10, AheadReflexive DEF StoreInv, Keeps
<1>12. ASSUME NEW j \in Jobs PROVE new[j].state = "absent" <=> j > n + 1
  <2>1. j \in Nat /\ n \in Nat BY OlcAssumption DEF Jobs
  <2>2. CASE j = n + 1 BY <1>6, <1>10, <2>1, <2>2
  <2>3. CASE j # n + 1 BY <1>1, <1>10, <2>1, <2>3
  <2> QED BY <2>2, <2>3
<1>13. Contiguous(new)
  BY <1>4, <1>12 DEF Contiguous
<1>14. Store(new)
  BY <1>9, <1>11, <1>13 DEF Store
<1> QED BY <1>14 DEF new
-----------------------------------------------------------------------------
(* Steps.                                                                  *)

\* The store in memory becomes `new`, which is written or not.
Form(new) == jobs' = new /\ saved' \in {new, saved}

LEMMA StoreStep ==
    ASSUME StoreInv, ReadingInv, NEW new, Store(new), Form(new), reading' = reading
    PROVE  StoreInv' /\ ReadingInv' /\ Refines
<1>1. \A j \in Jobs : Ahead(saved[j], new[j])
  BY AheadTransitive DEF StoreInv, Store
<1>2. \A j \in Jobs : Sound(j, new[j]) /\ Ahead(new[j], new[j])
  BY AheadReflexive DEF Store
<1>3. StoreInv'
  <2>1. (\A j \in Jobs : Sound(j, jobs[j]) /\ Sound(j, saved[j]) /\ Ahead(saved[j], jobs[j]))'
    BY <1>1, <1>2 DEF StoreInv, Form, Sound, verifies, Ahead, Outcome
  <2>2. (Contiguous(jobs) /\ Contiguous(saved))'
    BY DEF Form, StoreInv, Store, Contiguous
  <2>3. (jobs = [j \in Jobs |-> jobs[j]] /\ saved = [j \in Jobs |-> saved[j]])'
    BY DEF Form, StoreInv, Store
  <2> QED BY <2>1, <2>2, <2>3 DEF StoreInv
<1>4. ReadingInv'
  BY DEF ReadingInv, Form, Store, Keeps
<1>5. Refines
  <2>1. CASE saved' = saved
    BY <2>1 DEF Refines, SavedOutcomes, SavedBallots
  <2>2. CASE saved' = new
    <3>1. SavedOutcomes' \in [Jobs -> {"open", "accepted", "rejected"}]
      BY DEF SavedOutcomes, Outcome
    <3>2. SavedBallots' \in [Jobs -> [Verifiers -> V!Votes]]
      BY <1>2, <2>2 DEF SavedBallots, Sound, JobRecords, Votes, V!Votes
    <3>3. ASSUME NEW j \in Jobs
          PROVE  V!Advances(SavedOutcomes[j], SavedBallots[j], SavedOutcomes'[j], SavedBallots'[j])
      <4>1. SavedOutcomes[j] = Outcome(saved[j]) /\ SavedBallots[j] = saved[j].votes
        BY DEF SavedOutcomes, SavedBallots
      <4>2. SavedOutcomes'[j] = Outcome(new[j]) /\ SavedBallots'[j] = new[j].votes
        BY <2>2 DEF SavedOutcomes, SavedBallots, Outcome
      <4> QED BY <1>1, <4>1, <4>2 DEF Ahead
    <3> QED BY <3>1, <3>2, <3>3 DEF Refines, V!Next
  <2> QED BY <2>1, <2>2 DEF Form
<1> QED BY <1>3, <1>4, <1>5

LEMMA Forms ==
    ASSUME NEW new, Save(new) \/ WriteChange(new) \/ Unanswered(new)
    PROVE  Form(new) \/ Form(jobs)
BY DEF Save, WriteChange, WriteFails, Unanswered, Form

LEMMA FaultCounted ==
    ASSUME ProcessInv, Fault \/ UNCHANGED faults
    PROVE  faults' \in 0..MaxFaults
BY OlcAssumption DEF ProcessInv, Fault

\* A step that only makes `new` of the store.
LEMMA StoreOnly ==
    ASSUME StoreInv, ReadingInv, NEW new, Store(new), reading' = reading,
           Save(new) \/ WriteChange(new) \/ Unanswered(new)
    PROVE  StoreInv' /\ ReadingInv' /\ Refines
BY Forms, StoreStep, StoreUnchanged

\* A request of a worker or a verifier that is not answered.
LEMMA RequestUnanswered ==
    ASSUME IInv, NEW q, Sendable(q), UnansweredRequest(q), reading' = reading
    PROVE  /\ StoreInv' /\ ReadingInv' /\ Refines
           /\ \A p \in late' : Sendable(p)
           /\ faults' \in 0..MaxFaults
<1>1. Store(Handled(q)) /\ Store(jobs)
  BY HandledStores, StoreUnchanged DEF IInv
<1>2. CASE Unanswered(Handled(q)) /\ UNCHANGED late
  <2>1. Fault BY <1>2 DEF Unanswered, WriteFails
  <2> QED BY <1>1, <1>2, <2>1, StoreOnly, FaultCounted DEF IInv, ProcessInv
<1>3. CASE Fault /\ late' = late \cup {q} /\ UNCHANGED <<jobs, saved>>
  <2>1. Form(jobs) BY <1>3 DEF Form
  <2> QED BY <1>1, <1>3, <2>1, StoreStep, FaultCounted DEF IInv, ProcessInv
<1> QED BY <1>2, <1>3 DEF UnansweredRequest

LEMMA WorkerSends ==
    ASSUME ProcessInv, worker.at = "report"
    PROVE  Sendable(Result(worker.job, worker.digest))
BY DEF ProcessInv, Sendable, Result, Calls

LEMMA VerifierSends ==
    ASSUME ProcessInv, NEW v \in Verifiers, hand[v] # 0
    PROVE  Sendable(Signed(v))
BY DEF ProcessInv, Sendable, Signed, Attest, Calls, Votes

LEMMA EnqueueKeeps == ASSUME IInv, enqueue PROVE IInv' /\ Refines
<1> DEFINE new == [jobs EXCEPT ![count + 1].state = "queued"]
<1>1. Store(new)
  BY EnqueueStores DEF IInv, enqueue
<1>2. reading' = reading /\ (Save(new) \/ WriteChange(new) \/ Unanswered(new))
  BY DEF enqueue
<1>3. StoreInv' /\ ReadingInv' /\ Refines
  BY <1>1, <1>2, StoreOnly DEF IInv
<1>4. Fault \/ UNCHANGED faults
  BY DEF enqueue, Unanswered, WriteFails
<1>5. ProcessInv'
  BY <1>4, FaultCounted DEF enqueue, IInv, ProcessInv
<1> QED BY <1>3, <1>5 DEF IInv

LEMMA WorkerKeeps == ASSUME IInv, WorkerSteps PROVE IInv' /\ Refines
<1> USE DEF IInv
<1>1. CASE Heartbeat
  <2>1. StoreInv' /\ ReadingInv' /\ Refines
    BY <1>1, StoreUnchanged, StoreOnly DEF Heartbeat
  <2>2. ProcessInv'
    BY <1>1 DEF Heartbeat, ProcessInv
  <2> QED BY <2>1, <2>2
<1>2. CASE Poll
  <2>1. Store(IF lease = 0 THEN jobs ELSE Leased(lease))
    BY LeaseOpens, StoreUnchanged
  <2>2. StoreInv' /\ ReadingInv' /\ Refines
    BY <1>2, <2>1, StoreOnly DEF Poll
  <2>3. ProcessInv'
    BY <1>2, LeaseOpens DEF Poll, Start, ProcessInv, Digests
  <2> QED BY <2>2, <2>3
<1>3. CASE sandbox_job
  <2>1. Form(jobs)
    BY <1>3 DEF sandbox_job, Form
  <2>2. StoreInv' /\ ReadingInv' /\ Refines
    BY <1>3, <2>1, StoreUnchanged, StoreStep DEF sandbox_job
  <2>3. ProcessInv'
    BY <1>3 DEF sandbox_job, ProcessInv, Digests
  <2> QED BY <2>2, <2>3
<1>4. CASE Report
  <2>1. worker.job \in Jobs /\ worker.digest \in Digests \ {"none"}
    BY <1>4 DEF Report, ProcessInv
  <2>2. Store(result(worker.job, worker.digest))
    BY <2>1, ResultStores
  <2>3. StoreInv' /\ ReadingInv' /\ Refines
    BY <1>4, <2>2, StoreOnly DEF Report
  <2>4. ProcessInv'
    BY <1>4 DEF Report, Start, ProcessInv, Digests
  <2> QED BY <2>3, <2>4
<1> QED BY <1>1, <1>2, <1>3, <1>4 DEF WorkerSteps

LEMMA WorkerFailsKeeps == ASSUME IInv, WorkerFails PROVE IInv' /\ Refines
<1> USE DEF IInv
<1>1. reading' = reading /\ hand' = hand /\ worker' = Start
  BY DEF WorkerFails
<1>2. /\ StoreInv' /\ ReadingInv' /\ Refines
      /\ \A p \in late' : Sendable(p)
      /\ faults' \in 0..MaxFaults
  <2>1. CASE Fault /\ saved' \in {saved, jobs} /\ UNCHANGED <<jobs, late>>
    <3>1. Form(jobs) BY <2>1 DEF Form
    <3> QED BY <1>1, <2>1, <3>1, StoreUnchanged, StoreStep, FaultCounted DEF ProcessInv
  <2>2. CASE lease # 0 /\ Unanswered(Leased(lease)) /\ UNCHANGED late
    <3>1. Fault BY <2>2 DEF Unanswered, WriteFails
    <3> QED BY <1>1, <2>2, <3>1, LeaseOpens, StoreOnly, FaultCounted DEF ProcessInv
  <2>3. CASE Fault /\ UNCHANGED <<jobs, saved, late>>
    <3>1. Form(jobs) BY <2>3 DEF Form
    <3> QED BY <1>1, <2>3, <3>1, StoreUnchanged, StoreStep, FaultCounted DEF ProcessInv
  <2>4. CASE worker.at = "report" /\ UnansweredRequest(Result(worker.job, worker.digest))
    BY <1>1, <2>4, WorkerSends, RequestUnanswered
  <2> QED BY <2>1, <2>2, <2>3, <2>4 DEF WorkerFails
<1>3. ProcessInv'
  BY <1>1, <1>2 DEF ProcessInv, Start, Digests
<1> QED BY <1>2, <1>3

LEMMA VerifierKeeps ==
    ASSUME IInv, NEW v \in Verifiers, Verify(v) \/ VerifierFails(v)
    PROVE  IInv' /\ Refines
<1> USE DEF IInv
<1>1. CASE GetJob(v)
  <2>1. Form(jobs)
    BY <1>1 DEF GetJob, Form
  <2>2. StoreInv' /\ ReadingInv' /\ Refines
    BY <1>1, <2>1, StoreUnchanged, StoreStep DEF GetJob
  <2>3. verifier_job(v) \in Jobs \cup {0}
    <3> DEFINE open == {j \in Jobs : attests(v, j)}
    <3>1. open # {} => Min(open) \in Jobs BY MinIn
    <3> QED BY <3>1 DEF verifier_job
  <2>4. ProcessInv'
    BY <1>1, <2>3 DEF GetJob, ProcessInv
  <2> QED BY <2>2, <2>4
<1>2. CASE verify_once(v)
  <2>1. Store(Handled(Signed(v)))
    BY <1>2, VerifierSends, HandledStores DEF verify_once
  <2>2. StoreInv' /\ ReadingInv' /\ Refines
    BY <1>2, <2>1, StoreOnly DEF verify_once
  <2>3. ProcessInv'
    BY <1>2 DEF verify_once, ProcessInv
  <2> QED BY <2>2, <2>3
<1>3. CASE VerifierFails(v)
  <2>1. /\ StoreInv' /\ ReadingInv' /\ Refines
        /\ \A p \in late' : Sendable(p)
        /\ faults' \in 0..MaxFaults
    BY <1>3, VerifierSends, RequestUnanswered DEF VerifierFails
  <2>2. ProcessInv'
    BY <1>3, <2>1 DEF VerifierFails, ProcessInv
  <2> QED BY <2>1, <2>2
<1> QED BY <1>1, <1>2, <1>3 DEF Verify

LEMMA FaultyKeeps ==
    ASSUME IInv, NEW v \in Verifiers, FaultyAttest(v)
    PROVE  IInv' /\ Refines
<1> USE DEF IInv
<1>1. PICK j \in Jobs, vote \in {"yes", "no"} :
          LET new == attest(v, j, vote) IN (Save(new) /\ UNCHANGED faults) \/ WriteFails(new)
  BY DEF FaultyAttest
<1>2. Store(attest(v, j, vote))
  BY AttestStores DEF FaultyAttest
<1>3. StoreInv' /\ ReadingInv' /\ Refines
  BY <1>1, <1>2, StoreOnly DEF FaultyAttest, Unanswered
<1>4. Fault \/ UNCHANGED faults
  BY <1>1 DEF WriteFails
<1>5. ProcessInv'
  BY <1>4, FaultCounted DEF FaultyAttest, ProcessInv
<1> QED BY <1>3, <1>5

LEMMA LateKeeps == ASSUME IInv, DeliverLate PROVE IInv' /\ Refines
<1> USE DEF IInv
<1>1. PICK q \in late :
          /\ (WriteChange(Handled(q)) /\ UNCHANGED faults) \/ WriteFails(Handled(q))
          /\ late' = late \ {q}
          /\ UNCHANGED <<worker, hand, reading>>
  BY DEF DeliverLate
<1>2. Store(Handled(q))
  BY HandledStores DEF ProcessInv
<1>3. StoreInv' /\ ReadingInv' /\ Refines
  BY <1>1, <1>2, StoreOnly DEF Unanswered
<1>4. Fault \/ UNCHANGED faults
  BY <1>1 DEF WriteFails
<1>5. ProcessInv'
  BY <1>1, <1>4, FaultCounted DEF ProcessInv
<1> QED BY <1>3, <1>5

\* Records that differ in `expired` only.
Same(s, t) ==
    /\ t \in JobRecords
    /\ t.state = s.state /\ t.digest = s.digest /\ t.votes = s.votes

LEMMA SameSound ==
    ASSUME NEW j, NEW s, NEW t, Same(s, t), Sound(j, s)
    PROVE  Sound(j, t)
BY DEF Same, Sound, verifies

LEMMA SameAhead ==
    ASSUME NEW s, NEW t, NEW u, NEW w, Same(s, t), Same(u, w), Ahead(s, u)
    PROVE  Ahead(t, w)
BY DEF Same, Ahead, Outcome

LEMMA ExpiredKeeps ==
    ASSUME IInv, NEW j \in Jobs, Expired(j), Fault \/ UNCHANGED faults
    PROVE  IInv' /\ Refines
<1> USE DEF IInv
<1>1. \A k \in Jobs : jobs[k] \in JobRecords /\ saved[k] \in JobRecords
  BY DEF StoreInv, Sound
<1>2. ASSUME NEW k \in Jobs PROVE Same(jobs[k], jobs'[k])
  <2>1. jobs'[k] = IF k = j THEN [jobs[k] EXCEPT !.expired = TRUE] ELSE jobs[k]
    BY DEF Expired, StoreInv
  <2> QED BY <1>1, <2>1 DEF Same, JobRecords
<1>3. ASSUME NEW k \in Jobs PROVE Same(saved[k], saved'[k])
  <2>1. saved'[k] = IF k = j THEN [saved[k] EXCEPT !.expired = (@ \/ saved[k].state = "leased")]
                    ELSE saved[k]
    BY DEF Expired, StoreInv
  <2>2. saved[k].expired \in BOOLEAN
    BY <1>1 DEF JobRecords
  <2>3. (saved[k].expired \/ saved[k].state = "leased") \in BOOLEAN
    OBVIOUS
  <2> QED BY <1>1, <2>1, <2>3 DEF Same, JobRecords
<1>4. StoreInv'
  <2>1. ASSUME NEW k \in Jobs
        PROVE  Sound(k, jobs'[k]) /\ Sound(k, saved'[k]) /\ Ahead(saved'[k], jobs'[k])
    BY <1>2, <1>3, SameSound, SameAhead DEF StoreInv
  <2>2. Contiguous(jobs') /\ Contiguous(saved')
    BY <1>2, <1>3 DEF StoreInv, Contiguous, Same
  <2>3. jobs' = [k \in Jobs |-> jobs'[k]] /\ saved' = [k \in Jobs |-> saved'[k]]
    BY DEF Expired, StoreInv
  <2> QED BY <2>1, <2>2, <2>3 DEF StoreInv, Sound, verifies, Ahead, Outcome, Contiguous
<1>5. ReadingInv'
  BY <1>2 DEF Expired, ReadingInv, Same
<1>6. ProcessInv'
  BY FaultCounted DEF Expired, ProcessInv
<1>7. Refines
  <2>1. \A k \in Jobs : Outcome(saved'[k]) = Outcome(saved[k]) /\ saved'[k].votes = saved[k].votes
    BY <1>3 DEF Same, Outcome
  <2>2. SavedOutcomes' = SavedOutcomes /\ SavedBallots' = SavedBallots
    BY <2>1 DEF SavedOutcomes, SavedBallots, Outcome
  <2> QED BY <2>2 DEF Refines
<1> QED BY <1>4, <1>5, <1>6, <1>7

LEMMA RestartKeeps == ASSUME IInv, Restart PROVE IInv' /\ Refines
<1> USE DEF IInv
<1>1. StoreInv'
  BY AheadReflexive DEF Restart, StoreInv, Sound, verifies, Ahead, Outcome, Contiguous
<1>2. ReadingInv'
  BY DEF Restart, NoReading, ReadingInv, States, Digests
<1>3. ProcessInv'
  BY FaultCounted DEF Restart, ProcessInv
<1>4. Refines
  BY DEF Restart, Refines, SavedOutcomes, SavedBallots
<1> QED BY <1>1, <1>2, <1>3, <1>4

LEMMA ReceiptsKeep ==
    ASSUME IInv, SendReceipts \/ \E j \in Jobs : ReadReceipts(j)
    PROVE  IInv' /\ Refines
<1> USE DEF IInv
<1>1. UNCHANGED <<jobs, saved, late, worker, hand, faults>>
  BY DEF SendReceipts, ReadReceipts
<1>2. StoreInv' /\ ProcessInv' /\ Refines
  BY <1>1 DEF StoreInv, Sound, verifies, Ahead, Outcome, Contiguous, ProcessInv, Refines, SavedOutcomes, SavedBallots
<1>3. CASE SendReceipts
  BY <1>2, <1>3 DEF SendReceipts, NoReading, ReadingInv, States, Digests
<1>4. ASSUME NEW j \in Jobs, ReadReceipts(j) PROVE ReadingInv'
  <2>1. jobs[j].state \in States /\ jobs[j].digest \in Digests
    BY DEF StoreInv, Sound, JobRecords
  <2> QED BY <1>1, <1>4, <2>1 DEF ReadReceipts, ReadingInv
<1> QED BY <1>2, <1>3, <1>4

LEMMA Initially == Init => IInv /\ V!Init
<1> SUFFICES ASSUME Init PROVE IInv /\ V!Init
  OBVIOUS
<1>1. NoVotes \in [Verifiers -> Votes]
  BY DEF NoVotes, Votes
<1>2. ASSUME NEW j \in Jobs
      PROVE  /\ jobs[j] \in JobRecords /\ jobs[j].votes = NoVotes
             /\ jobs[j].state = IF j <= Legacy THEN "queued" ELSE "absent"
  BY <1>1 DEF Init, NewJob, JobRecords, States, Digests
<1>3. ASSUME NEW j \in Jobs PROVE Sound(j, jobs[j])
  BY <1>2, CountNone DEF Sound, verifies, NoVotes
<1>4. Contiguous(jobs)
  <2> DEFINE n == IF Legacy <= MaxJobs THEN Legacy ELSE MaxJobs
  <2>1. n \in 0..MaxJobs BY OlcAssumption
  <2>2. \A j \in Jobs : jobs[j].state = "absent" <=> j > n
    BY <1>2, OlcAssumption DEF Jobs
  <2> QED BY <2>1, <2>2 DEF Contiguous
<1>5. StoreInv
  BY <1>3, <1>4, AheadReflexive DEF StoreInv, Init
<1>6. ReadingInv
  BY DEF Init, ReadingInv, NoReading, States, Digests
<1>7. ProcessInv
  BY OlcAssumption DEF Init, ProcessInv, Start, Digests
<1>8. V!Init
  BY <1>2 DEF Init, V!Init, SavedOutcomes, SavedBallots, Outcome, V!NoBallots, NoVotes
<1> QED BY <1>5, <1>6, <1>7, <1>8 DEF IInv

LEMMA NextKeeps == IInv /\ [Next]_vars => IInv' /\ Refines
<1> SUFFICES ASSUME IInv, [Next]_vars PROVE IInv' /\ Refines
  OBVIOUS
<1>1. CASE UNCHANGED vars
  BY <1>1 DEF vars, IInv, StoreInv, Sound, verifies, Ahead, Outcome, Contiguous, ReadingInv,
              ProcessInv, Refines, SavedOutcomes, SavedBallots
<1>2. CASE Next
  <2>1. CASE \E j \in Jobs : Expire(j) \/ ExpireEarly(j)
    BY <2>1, ExpiredKeeps DEF Expire, ExpireEarly
  <2>2. CASE \E v \in Verifiers : Verify(v) \/ VerifierFails(v) \/ FaultyAttest(v)
    BY <2>2, VerifierKeeps, FaultyKeeps
  <2> QED BY <1>2, <2>1, <2>2, EnqueueKeeps, WorkerKeeps, WorkerFailsKeeps, LateKeeps,
             RestartKeeps, ReceiptsKeep DEF Next
<1> QED BY <1>1, <1>2

\* The inductive invariant of the gateway: see IInv.
THEOREM Invariance == Spec => []IInv
<1>1. Init => IInv BY Initially
<1>2. IInv /\ [Next]_vars => IInv' BY NextKeeps
<1> QED BY <1>1, <1>2, PTL DEF Spec

\* olc_gateway.py keeps its store, its file and its callers within their types.
THEOREM TypeCorrect == Spec => []TypeOK
<1>1. IInv => TypeOK
  BY DEF IInv, StoreInv, Sound, ReadingInv, ProcessInv, Sendable, TypeOK
<1> QED BY <1>1, Invariance, PTL

\* Whatever save fails and whenever the gateway restarts, Store's jobs, in memory and on disk,
\* are proved by their signed votes: olc_receipts.verify_document accepts them.
THEOREM ReceiptsSound == Spec => []ReceiptsVerify
<1>1. IInv => ReceiptsVerify
  BY DEF IInv, StoreInv, Sound, ReceiptsVerify
<1> QED BY <1>1, Invariance, PTL

\* public_receipts serves no decision without the votes that made it, although it hands out the
\* live list of attestations and the answer is written after the lock is released.
THEOREM ServedSound == Spec => []ServedReceiptsProve
<1>1. IInv => ServedReceiptsProve
  <2> SUFFICES ASSUME IInv, reading.job # 0, keyed(reading.job)
               PROVE  LET votes == jobs[reading.job].votes IN
                      /\ reading.state = "quorum_verified" =>
                             reading.digest = "EXPECTED" /\ Count(votes, "yes") >= 2
                      /\ reading.state = "disputed" => Count(votes, "no") >= 2
    BY DEF ServedReceiptsProve
  <2>1. reading.job \in Jobs
    BY DEF IInv, ReadingInv
  <2>2. Sound(reading.job, jobs[reading.job])
    BY <2>1 DEF IInv, StoreInv
  <2> QED BY <2>2 DEF IInv, ReadingInv, Sound, verifies
<1> QED BY <1>1, Invariance, PTL

\* Store.attest needs two votes: with one faulty verifier no job is disputed, and a job that is
\* verified has the vote of a verifier that ran the check of olc_verifier.verify_once.
THEOREM OneFaultyDecidesNothing == Spec => []HonestVerdict
<1>1. IInv => HonestVerdict
  <2> SUFFICES ASSUME IInv, Cardinality(Faulty) <= 1, NEW j \in Jobs
               PROVE  /\ jobs[j].state # "disputed"
                      /\ jobs[j].state = "quorum_verified" =>
                             /\ jobs[j].digest = "EXPECTED"
                             /\ \E v \in Verifiers \ Faulty : jobs[j].votes[v] = "yes"
    BY DEF HonestVerdict
  <2> DEFINE of(vote) == {v \in Verifiers : jobs[j].votes[v] = vote}
  <2>0. IsFiniteSet(Faulty) BY OlcAssumption, FS_Subset
  <2>1. ASSUME NEW vote, of(vote) \subseteq Faulty PROVE Count(jobs[j].votes, vote) < 2
    <3>1. Cardinality(of(vote)) <= Cardinality(Faulty) /\ IsFiniteSet(of(vote))
      BY <2>0, <2>1, FS_Subset
    <3>2. Cardinality(of(vote)) \in Nat /\ Cardinality(Faulty) \in Nat
      BY <2>0, <3>1, FS_CardinalityType
    <3> QED BY <3>1, <3>2 DEF Count
  <2>2. Sound(j, jobs[j])
    BY DEF IInv, StoreInv
  <2>3. Count(jobs[j].votes, "yes") \in Nat /\ Count(jobs[j].votes, "no") \in Nat
    BY CountType
  <2>4. Count(jobs[j].votes, "no") < 2
    BY <2>1, <2>2 DEF Sound
  <2>5. (\A v \in Verifiers \ Faulty : jobs[j].votes[v] # "yes") => Count(jobs[j].votes, "yes") < 2
    BY <2>1
  <2>6. jobs[j].state \in {"quorum_verified", "disputed"} => keyed(j)
    BY <2>2 DEF Sound
  <2> QED BY <2>2, <2>3, <2>4, <2>5, <2>6 DEF Sound, verifies
<1> QED BY <1>1, Invariance, PTL

\* The state file of the gateway implements Verdict: no result is judged twice and no vote is
\* lost or changed once it is on disk, through failed saves, restarts and late requests.
THEOREM Refinement == Spec => ImplementsVerdict
<1>1. Init => V!Init BY Initially
<1>2. IInv /\ [Next]_vars => [V!Next]_<<SavedOutcomes, SavedBallots>> BY NextKeeps DEF Refines
<1> QED BY <1>1, <1>2, Invariance, PTL DEF Spec, ImplementsVerdict, V!Spec
=============================================================================
