------------------------------ MODULE Cluster ------------------------------
(***************************************************************************)
(* The three-node cluster: replication of mutations by the leader and the  *)
(* certified takeover by the next role (splitchain/node.py, failover.py,   *)
(* replication.py).                                                        *)
(*                                                                         *)
(* Every handler of a node runs under the node's lock and saves before it  *)
(* releases it, so a handler is one action on durable state.  The two      *)
(* coroutines that await remote calls are processes: `job`, the leader's   *)
(* replicate_mutation or sync_replicas, which keeps the lock of its node   *)
(* to the end, and `takeover`, the successor's failover_step, which holds  *)
(* no lock, so that its node changes under it while it waits.              *)
(*                                                                         *)
(* A remote call that times out has run, will never run, or is still on    *)
(* its way (`late`) and runs at any later moment.  Time is not modelled: a *)
(* successor may find the heartbeat overdue at any moment, a witness too.  *)
(*                                                                         *)
(* A mutation stands for one signed client request; the ledger of a node   *)
(* is the sequence of mutations in its log, and its digest that sequence.  *)
(***************************************************************************)
EXTENDS Integers, Sequences, FiniteSets, SequencesExt

CONSTANTS
    Mutations,  \* client requests, each submitted at most once
    None,
    MaxTerm,    \* bound: certified terms (the code allows 2)
    MaxLate,    \* bound: requests in flight that nobody waits for and cluster.sync under way
    MaxFaults   \* bound: takeover attempts, crashes and calls of cluster.sync

Sync == "sync"

ROLE_ORDER == <<"primary", "secondary", "tertiary">>
Nodes      == Range(ROLE_ORDER)
Peers(n)   == Nodes \ {n}

Envelopes    == [leader : Nodes, nonce : Nat, mutation : Mutations]
Certificates == [term : Nat, nonce : Nat, tick : Nat]

\* The absence of a record or of a request is not one, and no client asks for a sync.
ASSUME NoneAssumption == /\ None \notin Envelopes
                         /\ None \notin Mutations
                         /\ Sync \notin Mutations \cup {None}

VARIABLES
    log,      \* node -> replication_log
    pending,  \* node -> replication_pending
    certs,    \* node -> leadership.certificates; the term is their number
    queue,    \* node -> request that passed the leadership check and waits for the lock
    job,      \* node -> the coroutine that holds its lock
    takeover, \* node -> its failover_step
    late,     \* requests on their way after their caller gave up
    asked,    \* mutations submitted so far
    acked,    \* mutations whose client was given a result
    refused,  \* mutations whose client was told that there was no quorum
    faults    \* takeover attempts, crashes and calls of cluster.sync so far

durable == <<log, pending, certs>>
client  == <<asked, acked, refused>>
vars    == <<durable, queue, job, takeover, late, client, faults>>
-----------------------------------------------------------------------------
term(n)      == Len(certs[n])
leader(n)    == ROLE_ORDER[term(n) + 1]
exhausted(n) == term(n) = 2
successor(n) == ROLE_ORDER[term(n) + 2]
witness(n)   == CHOOSE w \in Nodes : w \notin {leader(n), successor(n)}

\* The highest nonce of any leader.
position(n) == IF log[n] = <<>> THEN 0 ELSE Last(log[n]).nonce

applied(n) == {log[n][k].mutation : k \in DOMAIN log[n]}
digest(n)  == [k \in DOMAIN log[n] |-> log[n][k].mutation]

\* _apply_mutation on the node's ledger: a signed request is applied at most once.
applies(n, m) == m \notin applied(n)

\* No handler waits: the lock of a node is only kept across steps by a job.
unlocked(n) == job[n].kind = "idle"

verify(n, e) ==
    /\ ~(leader(n) # "primary" /\ e.leader = "primary")
    /\ n # leader(n)
    /\ e.leader = leader(n)
    /\ e.nonce > position(n)

prepares(n, e) == /\ verify(n, e)
                  /\ \/ pending[n] = e
                     \/ pending[n] = None /\ applies(n, e.mutation)

\* Bug: a replica commits what it has not prepared.
commits_unprepared(n, e) == verify(n, e) /\ applies(n, e.mutation)

commits(n, e)  == verify(n, e) /\ pending[n] = e /\ applies(n, e.mutation)
aborts(n, e)   == verify(n, e) /\ pending[n] \in {None, e}

\* The certificate is the last one the node recorded.
holds(n, c) == certs[n] # <<>> /\ Last(certs[n]) = c

\* Bugs: a certificate is recorded at any position, or again for a term already passed.
records_anywhere(n, c) == holds(n, c) \/ c.term = term(n) + 1
records_any_term(n, c) == holds(n, c) \/ c.nonce = position(n)

\* record_leadership_certificate: the last certificate again, or the next term at this position.
records(n, c) == holds(n, c) \/ (c.term = term(n) + 1 /\ c.nonce = position(n))

Prepare(e)     == [method |-> "prepare", body |-> e]
Commit(e)      == [method |-> "commit", body |-> e]
Abort(e)       == [method |-> "abort", body |-> e]
Certificate(c) == [method |-> "certificate", body |-> c]

\* The handler of request q at node n succeeds.
succeeds(n, q) ==
    CASE q.method = "prepare"     -> prepares(n, q.body)
      [] q.method = "commit"      -> commits(n, q.body)
      [] q.method = "abort"       -> aborts(n, q.body)
      [] q.method = "certificate" -> records(n, q.body)

known(n, q) == q.method = "certificate" /\ holds(n, q.body)

\* The handler runs; one that fails raises before it changes anything.
Handle(n, q) ==
    IF succeeds(n, q)
    THEN /\ pending' = [pending EXCEPT ![n] = IF q.method = "prepare" THEN q.body
                                              ELSE IF known(n, q) THEN @ ELSE None]
         /\ log' = IF q.method = "commit" THEN [log EXCEPT ![n] = Append(@, q.body)] ELSE log
         /\ certs' = IF q.method = "certificate" /\ ~known(n, q)
                     THEN [certs EXCEPT ![n] = Append(@, q.body)] ELSE certs
    ELSE UNCHANGED durable

\* One more of what the bound counts; the operations of cluster.sync that wait or run.
Fault   == faults < MaxFaults /\ faults' = faults + 1
syncing == {n \in Nodes : Sync \in {queue[n], job[n].op}}

\* A call of q at node n as its caller sees it: ok when the result arrives.
Call(n, q, ok) ==
    \/ /\ unlocked(n)
       /\ ok => succeeds(n, q)
       /\ Handle(n, q)
       /\ UNCHANGED late
    \/ /\ ~ok
       /\ UNCHANGED durable
       /\ late' \in {late, late \cup {[to |-> n, request |-> q]}}
       /\ Cardinality(late') + Cardinality(syncing) <= MaxLate
-----------------------------------------------------------------------------
(* _sync_history: bring one peer up to this node's position.  A task is at *)
(* "position" until the peer has told its position, then at "prepare" and  *)
(* "commit" for the entry `next`, and ends "synced" or "failed".           *)

Tasks == [at : {"position", "prepare", "commit", "synced", "done", "failed"},
          next : Nat, upto : Nat, ok : BOOLEAN]

NewTask == [at |-> "position", next |-> 0, upto |-> 0, ok |-> TRUE]
Failed  == [NewTask EXCEPT !.at = "failed"]
Done    == [NewTask EXCEPT !.at = "done"]

\* Bug: the replay starts one entry too late.
Behind_off_by_one(n, nonce) ==
    IF nonce > position(n) \/ Len(log[n]) # position(n) THEN Failed
    ELSE IF nonce + 1 >= position(n) THEN [NewTask EXCEPT !.at = "synced"]
    ELSE [at |-> "prepare", next |-> nonce + 2, upto |-> position(n), ok |-> TRUE]

\* A node whose peer is at position `nonce` replays the entries above it.
Behind(n, nonce) ==
    IF nonce > position(n) \/ Len(log[n]) # position(n) THEN Failed
    ELSE IF nonce = position(n) THEN [NewTask EXCEPT !.at = "synced"]
    ELSE [at |-> "prepare", next |-> nonce + 1, upto |-> position(n), ok |-> TRUE]

\* replica.position is answered without the lock, but not by a leader; or not at all.
Located(n, p) == {Failed} \cup (IF leader(p) = p THEN {} ELSE {Behind(n, position(p))})

\* The call that a task makes next, and the task after its answer: both calls for an
\* entry are made, whatever the first one answers.
Due(n, t) == IF t.at = "prepare" THEN Prepare(log[n][t.next]) ELSE Commit(log[n][t.next])

After(t, ok) ==
    IF t.at = "prepare" THEN [t EXCEPT !.at = "commit", !.ok = ok]
    ELSE IF ~(ok /\ t.ok) THEN Failed
    ELSE IF t.next = t.upto THEN [NewTask EXCEPT !.at = "synced"]
    ELSE [t EXCEPT !.at = "prepare", !.next = @ + 1]
-----------------------------------------------------------------------------
(* The leader: replicate_mutation and sync_replicas.                       *)

Kinds == {"idle", "old", "prepare", "sync", "commit", "abort"}

Unstarted == [p \in Nodes |-> NewTask]

\* Bug: the request is taken for its envelope.
Doing_unsigned(kind, op, env) == [kind |-> kind, op |-> op, env |-> op, task |-> Unstarted]
Doing(kind, op, env) == [kind |-> kind, op |-> op, env |-> env, task |-> Unstarted]

Idle == Doing("idle", None, None)

\* The lock is taken.  A record left undecided is aborted at the peers first; then a mutation
\* is tried on a copy of the ledger, signed and saved as pending, or rejected.
Begin(n, op) ==
    LET e == [leader |-> n, nonce |-> position(n) + 1, mutation |-> op]
        clean == pending[n] = None \/ job[n].kind = "old" IN
    /\ job' = [job EXCEPT ![n] = IF ~clean THEN Doing("old", op, pending[n])
                                 ELSE IF op = Sync THEN Doing("sync", Sync, None)
                                 ELSE IF applies(n, op) THEN Doing("prepare", op, e)
                                 ELSE Idle]
    /\ pending' = [pending EXCEPT ![n] = IF ~clean THEN @
                                         ELSE IF op # Sync /\ applies(n, op) THEN e
                                         ELSE None]
    /\ UNCHANGED <<log, certs>>

\* An operation starts at once, or waits for the lock when another one holds it.
Enter(n, op) ==
    /\ leader(n) = n
    /\ queue[n] = None
    /\ IF unlocked(n)
       THEN Begin(n, op) /\ UNCHANGED queue
       ELSE queue' = [queue EXCEPT ![n] = op] /\ UNCHANGED <<durable, job>>
    /\ UNCHANGED <<takeover, late>>

\* dispatch and replicate_mutation: the leadership check comes before the lock.
Submit(n, m) ==
    /\ m \notin asked
    /\ Enter(n, m)
    /\ asked' = asked \cup {m}
    /\ UNCHANGED <<acked, refused, faults>>

\* sync_replicas: the same check before the same lock.
SubmitSync(n) ==
    /\ Fault /\ Cardinality(late) + Cardinality(syncing) < MaxLate
    /\ Enter(n, Sync)
    /\ UNCHANGED client

\* The operation that waited has the lock; the leadership is not checked again.
TakeLock(n) ==
    /\ unlocked(n)
    /\ queue[n] # None
    /\ Begin(n, queue[n])
    /\ queue' = [queue EXCEPT ![n] = None]
    /\ UNCHANGED <<takeover, late, client, faults>>

\* One of the gathered calls that abort or commit the record `env`.
Broadcast(n, p) ==
    /\ job[n].kind \in {"old", "abort", "commit"}
    /\ job[n].task[p].at = "position"
    /\ \E ok \in BOOLEAN :
           /\ Call(p, IF job[n].kind = "commit" THEN Commit(job[n].env) ELSE Abort(job[n].env), ok)
           /\ job' = [job EXCEPT ![n].task[p] = IF ok THEN Done ELSE Failed]
    /\ UNCHANGED <<queue, takeover, client, faults>>

Gathered(n) == \A p \in Peers(n) : job[n].task[p].at \in {"done", "failed"}

\* _abort_uncommitted_primary is over, whatever the peers answered.
OldAborted(n) ==
    /\ job[n].kind = "old" /\ Gathered(n)
    /\ Begin(n, job[n].op)
    /\ UNCHANGED <<queue, takeover, late, client, faults>>

\* _sync_and_prepare: the peer's history, then the new entry if there is one.
SyncAndPrepare(n, p) ==
    LET t == job[n].task[p]
        Becomes(u) == job' = [job EXCEPT ![n].task[p] = u] IN
    /\ job[n].kind \in {"prepare", "sync"}
    /\ \/ /\ t.at = "position"
          /\ \E u \in Located(n, p) : Becomes(u)
          /\ UNCHANGED <<durable, late>>
       \/ /\ t.at \in {"prepare", "commit"}
          /\ \E ok \in BOOLEAN : Call(p, Due(n, t), ok) /\ Becomes(After(t, ok))
       \/ /\ t.at = "synced" /\ job[n].kind = "prepare"
          /\ \E ok \in BOOLEAN :
                 /\ Call(p, Prepare(job[n].env), ok)
                 /\ Becomes(IF ok THEN Done ELSE Failed)
       \/ /\ t.at = "synced" /\ job[n].kind = "sync"
          /\ Becomes(Done)
          /\ UNCHANGED <<durable, late>>
    /\ UNCHANGED <<queue, takeover, client, faults>>

\* Bug: the leader is enough of a quorum.
Acknowledged_alone(n) == Gathered(n)
Acknowledged(n) == \E p \in Peers(n) : job[n].task[p].at = "done"

\* Two of three nodes hold the record: the leader applies it before anyone else commits.
Decide(n) ==
    /\ job[n].kind = "prepare" /\ Gathered(n) /\ Acknowledged(n)
    /\ log' = [log EXCEPT ![n] = Append(@, job[n].env)]
    /\ pending' = [pending EXCEPT ![n] = None]
    /\ job' = [job EXCEPT ![n] = Doing("commit", job[n].op, job[n].env)]
    /\ UNCHANGED <<certs, queue, takeover, late, client, faults>>

GiveUp(n) ==
    /\ job[n].kind = "prepare" /\ Gathered(n) /\ ~Acknowledged(n)
    /\ job' = [job EXCEPT ![n] = Doing("abort", job[n].op, job[n].env)]
    /\ UNCHANGED <<durable, queue, takeover, late, client, faults>>

\* Bug: a commit that nobody confirmed is reported as one without a quorum.
AnswerCommitted_as_refused(n) ==
    /\ job[n].kind = "commit" /\ Gathered(n)
    /\ acked' = IF Acknowledged(n) THEN acked \cup {job[n].op} ELSE acked
    /\ refused' = IF Acknowledged(n) THEN refused ELSE refused \cup {job[n].op}
    /\ job' = [job EXCEPT ![n] = Idle]
    /\ UNCHANGED <<durable, queue, takeover, late, asked, faults>>

\* The client has a result, or CommitUncertain when no peer confirmed.
AnswerCommitted(n) ==
    /\ job[n].kind = "commit" /\ Gathered(n)
    /\ acked' = IF Acknowledged(n) THEN acked \cup {job[n].op} ELSE acked
    /\ job' = [job EXCEPT ![n] = Idle]
    /\ UNCHANGED <<durable, queue, takeover, late, asked, refused, faults>>

AnswerRefused(n) ==
    /\ job[n].kind = "abort" /\ Gathered(n)
    /\ refused' = refused \cup {job[n].op}
    /\ pending' = [pending EXCEPT ![n] = None]
    /\ job' = [job EXCEPT ![n] = Idle]
    /\ UNCHANGED <<log, certs, queue, takeover, late, asked, acked, faults>>

AnswerSynced(n) ==
    /\ job[n].kind = "sync" /\ Gathered(n)
    /\ job' = [job EXCEPT ![n] = Idle]
    /\ UNCHANGED <<durable, queue, takeover, late, client, faults>>
-----------------------------------------------------------------------------
(* The successor: failover_step once the heartbeat is overdue.  It awaits  *)
(* the answer to the call `at` names until `got` holds that answer; the    *)
(* step that uses the answer reads its own node again.                     *)

Stages == {"idle", "position", "pull", "push", "confirm", "leadership", "vote", "certificate"}

\* `theirs` is the first position the witness told, `from` where a history request starts,
\* `vote` the vote this node signed, `task` its _sync_history.
Resting == [at |-> "idle", tick |-> 0, got |-> None, theirs |-> 0, from |-> 0,
            vote |-> None, task |-> NewTask]

Quit(c) == takeover' = [takeover EXCEPT ![c] = Resting]

Await(c, stage) == takeover' = [takeover EXCEPT ![c] = [@ EXCEPT !.at = stage, !.got = None]]

\* replica.history is asked from the position of the moment.
AwaitHistory(c, stage, from) ==
    takeover' = [takeover EXCEPT ![c] = [@ EXCEPT !.at = stage, !.got = None, !.from = from]]

\* receive_timeout_vote: a witness in the same term, clean and at the same state.
grants(w, c, v) ==
    /\ ~exhausted(w) /\ c = successor(w) /\ w = witness(w)
    /\ v.term = term(w) + 1
    /\ v.nonce = position(w)
    /\ pending[w] = None
    /\ Len(log[w]) = position(w)
    /\ v.digest = digest(w)

StartTakeover(c) ==
    /\ Fault /\ term(c) < MaxTerm
    /\ takeover[c].at = "idle"
    /\ ~exhausted(c) /\ c = successor(c)
    /\ takeover' = [takeover EXCEPT ![c] = [Resting EXCEPT !.at = "position", !.tick = faults']]
    /\ UNCHANGED <<durable, queue, job, late, client>>

\* The witness answers a call that changes nothing there.  A candidate that gets no answer to
\* cluster.leadership goes on as if the witness had no certificate.
Answer(c) ==
    LET w == witness(c)
        t == takeover[c]
        Got(x) == takeover' = [takeover EXCEPT ![c].got = x] IN
    /\ ~exhausted(c)
    /\ t.got = None
    /\ \/ t.at = "position" /\ leader(w) # w /\ Got(position(w))
       \/ /\ t.at \in {"pull", "confirm"} /\ unlocked(w)
          /\ t.from <= position(w) /\ Len(log[w]) = position(w)
          /\ Got([nonce |-> position(w), digest |-> digest(w),
                  entries |-> SubSeq(log[w], t.from + 1, position(w))])
       \/ t.at = "leadership" /\ (Got(certs[w]) \/ Got(<<>>))
       \/ t.at = "vote" /\ unlocked(w) /\ grants(w, c, t.vote) /\ Got(t.vote)
    /\ UNCHANGED <<durable, queue, job, late, client, faults>>

\* No answer in time, or an error, ends every other stage.
NoAnswer(c) ==
    /\ takeover[c].at \in {"position", "pull", "confirm", "vote"}
    /\ takeover[c].got = None
    /\ Quit(c)
    /\ UNCHANGED <<durable, queue, job, late, client, faults>>

\* Once nothing is left to pull, the witness is brought up to this node, then asked again.
PushOrConfirm(c, theirs) ==
    IF pending[c] # None \/ Len(log[c]) # position(c) THEN Quit(c)
    ELSE IF theirs < position(c) THEN Await(c, "push")
    ELSE AwaitHistory(c, "confirm", position(c))

\* _reconcile_with_witness, first answer.
Reconcile(c) ==
    LET theirs == takeover[c].got IN
    /\ takeover[c].at = "position" /\ takeover[c].got # None
    /\ IF theirs > position(c)
       THEN takeover' = [takeover EXCEPT ![c] = [@ EXCEPT !.at = "pull", !.got = None,
                                                          !.theirs = theirs, !.from = position(c)]]
       ELSE PushOrConfirm(c, theirs)
    /\ UNCHANGED <<durable, queue, job, late, client, faults>>

\* How many of the entries this node prepares and commits, in order, before one is refused.
Accepted(c, entries) ==
    LET fits(k) == /\ k = 1 => pending[c] \in {None, entries[1]}
                   /\ verify(c, entries[k]) /\ applies(c, entries[k].mutation)
    IN  CHOOSE k \in 0..Len(entries) :
            /\ \A j \in 1..k : fits(j)
            /\ k < Len(entries) => ~fits(k + 1)

\* _sync_from_peer: there is no await between the entries of one answer.
Pull(c) ==
    LET got == takeover[c].got
        k   == Accepted(c, got.entries) IN
    /\ takeover[c].at = "pull" /\ got # None
    /\ IF got.entries = <<>>
       THEN /\ IF got.digest = digest(c) /\ pending[c] = None
               THEN PushOrConfirm(c, takeover[c].theirs) ELSE Quit(c)
            /\ UNCHANGED durable
       ELSE /\ log' = [log EXCEPT ![c] = @ \o SubSeq(got.entries, 1, k)]
            /\ pending' = [pending EXCEPT ![c] = IF k > 0 THEN None ELSE @]
            /\ UNCHANGED certs
            /\ IF k = Len(got.entries) THEN AwaitHistory(c, "pull", Last(got.entries).nonce)
               ELSE Quit(c)
    /\ UNCHANGED <<queue, job, late, client, faults>>

\* _sync_history of the witness.
Push(c) ==
    LET w == witness(c)
        t == takeover[c].task
        Becomes(u) == takeover' = [takeover EXCEPT ![c].task = u] IN
    /\ takeover[c].at = "push" /\ ~exhausted(c)
    /\ \/ /\ t.at = "position"
          /\ \E u \in Located(c, w) : Becomes(u)
          /\ UNCHANGED <<durable, late>>
       \/ /\ t.at \in {"prepare", "commit"}
          /\ \E ok \in BOOLEAN : Call(w, Due(c, t), ok) /\ Becomes(After(t, ok))
       \/ /\ t.at = "synced"
          /\ AwaitHistory(c, "confirm", position(c))
          /\ UNCHANGED <<durable, late>>
       \/ /\ t.at = "failed"
          /\ Quit(c)
          /\ UNCHANGED <<durable, late>>
    /\ UNCHANGED <<queue, job, client, faults>>

Confirm(c) ==
    LET got == takeover[c].got IN
    /\ takeover[c].at = "confirm" /\ got # None
    /\ IF got.nonce = position(c) /\ got.digest = digest(c) THEN Await(c, "leadership") ELSE Quit(c)
    /\ UNCHANGED <<durable, queue, job, late, client, faults>>

\* A certificate that the witness holds already is adopted; otherwise this node votes.
RecoverOrVote(c) ==
    LET theirs == takeover[c].got IN
    /\ takeover[c].at = "leadership" /\ theirs # None
    /\ IF Len(theirs) = term(c) + 1
       THEN Handle(c, Certificate(Last(theirs))) /\ Quit(c)
       ELSE /\ ~exhausted(c)
            /\ takeover' = [takeover EXCEPT ![c] =
                   [@ EXCEPT !.at = "vote", !.got = None,
                             !.vote = [term |-> term(c) + 1, nonce |-> position(c),
                                       digest |-> digest(c)]]]
            /\ UNCHANGED durable
    /\ UNCHANGED <<queue, job, late, client, faults>>

\* Both votes are submitted to a copy of the leadership state of this moment.
Certify(c) ==
    LET v == takeover[c].vote IN
    /\ takeover[c].at = "vote" /\ takeover[c].got # None
    /\ IF v.term = term(c) + 1 /\ v.nonce = position(c) THEN Await(c, "certificate") ELSE Quit(c)
    /\ UNCHANGED <<durable, queue, job, late, client, faults>>

NewCertificate(c) == [term |-> takeover[c].vote.term, nonce |-> takeover[c].vote.nonce,
                      tick |-> takeover[c].tick]

\* The witness records the certificate first.
AskToRecord(c) ==
    /\ takeover[c].at = "certificate" /\ takeover[c].got = None /\ ~exhausted(c)
    /\ \E ok \in BOOLEAN :
           /\ Call(witness(c), Certificate(NewCertificate(c)), ok)
           /\ IF ok THEN takeover' = [takeover EXCEPT ![c].got = "recorded"] ELSE Quit(c)
    /\ UNCHANGED <<queue, job, client, faults>>

Record(c) ==
    /\ takeover[c].at = "certificate" /\ takeover[c].got # None
    /\ Handle(c, Certificate(NewCertificate(c)))
    /\ Quit(c)
    /\ UNCHANGED <<queue, job, late, client, faults>>
-----------------------------------------------------------------------------
\* failover_step of a leader: it sends its last certificate to its peers and does not look
\* at their answers.
ShareCertificate(n, p) ==
    /\ leader(n) = n /\ certs[n] # <<>> /\ unlocked(n)
    /\ ~holds(p, Last(certs[n]))
    /\ Call(p, Certificate(Last(certs[n])), FALSE)
    /\ UNCHANGED <<queue, job, takeover, client, faults>>

\* A request whose caller gave up runs after all.
DeliverLate ==
    \E x \in late :
        /\ unlocked(x.to)
        /\ Handle(x.to, x.request)
        /\ late' = late \ {x}
        /\ UNCHANGED <<queue, job, takeover, client, faults>>

\* A node stops and restarts from what it saved; its coroutines are gone.
Crash(n) ==
    /\ Fault
    /\ queue' = [queue EXCEPT ![n] = None]
    /\ job' = [job EXCEPT ![n] = Idle]
    /\ takeover' = [takeover EXCEPT ![n] = Resting]
    /\ UNCHANGED <<durable, late, client>>
-----------------------------------------------------------------------------
Init ==
    /\ log = [n \in Nodes |-> <<>>]
    /\ pending = [n \in Nodes |-> None]
    /\ certs = [n \in Nodes |-> <<>>]
    /\ queue = [n \in Nodes |-> None]
    /\ job = [n \in Nodes |-> Idle]
    /\ takeover = [n \in Nodes |-> Resting]
    /\ late = {}
    /\ asked = {} /\ acked = {} /\ refused = {}
    /\ faults = 0

Lead(n) ==
    \/ \E m \in Mutations : Submit(n, m)
    \/ SubmitSync(n)
    \/ TakeLock(n)
    \/ \E p \in Peers(n) : Broadcast(n, p) \/ SyncAndPrepare(n, p) \/ ShareCertificate(n, p)
    \/ OldAborted(n) \/ Decide(n) \/ GiveUp(n)
    \/ AnswerCommitted(n) \/ AnswerRefused(n) \/ AnswerSynced(n)

Succeed(c) ==
    \/ StartTakeover(c) \/ Answer(c) \/ NoAnswer(c) \/ Reconcile(c) \/ Pull(c) \/ Push(c)
    \/ Confirm(c) \/ RecoverOrVote(c) \/ Certify(c) \/ AskToRecord(c) \/ Record(c)

Next == (\E n \in Nodes : Lead(n) \/ Succeed(n) \/ Crash(n)) \/ DeliverLate

Spec == Init /\ [][Next]_vars
-----------------------------------------------------------------------------
(* Properties.                                                             *)

\* Every variable has its type.
TypeOK ==
    /\ log \in [Nodes -> Seq(Envelopes)]
    /\ pending \in [Nodes -> Envelopes \cup {None}]
    /\ certs \in [Nodes -> Seq(Certificates)]
    /\ queue \in [Nodes -> Mutations \cup {Sync, None}]
    /\ \A n \in Nodes : /\ job[n].kind \in Kinds
                        /\ job[n].env \in Envelopes \cup {None}
                        /\ job[n].task \in [Nodes -> Tasks]
    /\ \A n \in Nodes : takeover[n].at \in Stages /\ takeover[n].task \in Tasks
    /\ acked \subseteq asked /\ refused \subseteq asked /\ asked \subseteq Mutations

\* The leader that the node's own certificates name for the entry after position k.
expected(n, k) ==
    LET passed == {i \in DOMAIN certs[n] : k >= certs[n][i].nonce}
    IN  IF passed = {} THEN "primary" ELSE ROLE_ORDER[1 + CHOOSE i \in passed : \A j \in passed : j <= i]

\* LeadershipState.from_snapshot accepts the certificates that the node saved: one per term, in
\* order, at positions that never go back and that the node has reached.  Left out: the ticks,
\* and the position kept beside them, which is saved with the log in every save.
from_snapshot(n) ==
    /\ term(n) < Len(ROLE_ORDER)
    /\ \A i \in DOMAIN certs[n] :
           /\ certs[n][i].term = i /\ certs[n][i].nonce <= position(n)
           /\ \A j \in 1..i : certs[n][j].nonce <= certs[n][i].nonce

\* ReferenceNode.__init__ accepts what the node saved, at whatever moment it stopped: its
\* certificates, and a log in which every entry follows the one before it without a gap and is
\* signed by the leader of its term.  A replica itself only checks that a nonce is higher than
\* its position.
Restartable ==
    \A n \in Nodes :
        /\ from_snapshot(n)
        /\ \A k \in DOMAIN log[n] : log[n][k].nonce = k /\ log[n][k].leader = expected(n, k - 1)

Comparable(s, t) == IsPrefix(s, t) \/ IsPrefix(t, s)

\* Nodes of one term never disagree on an entry, whatever was lost, late or repeated.
SameTermAgrees == \A n, p \in Nodes : term(n) = term(p) => Comparable(log[n], log[p])

\* There is one certificate per term: two nodes that passed a term passed it with the
\* same certificate, although a candidate may have certified several times.
OneCertificatePerTerm == \A n, p \in Nodes : Comparable(certs[n], certs[p])

\* No mutation whose client got a result is ever missing at a leader of the latest term:
\* takeover keeps the committed prefix.
AckedSurvives ==
    \A n \in Nodes :
        leader(n) = n /\ (\A p \in Nodes : term(p) <= term(n)) => acked \subseteq applied(n)

\* A mutation that its client was told had no quorum is never applied anywhere, even if a
\* replica that prepared it did not hear of the abort.
RefusedNeverApplied == \A n \in Nodes : refused \cap applied(n) = {}

\* cluster.sync answers "synchronized" for a peer only if the peer then has the history of
\* this node, when both are in one term; the code compares positions and never digests.
SyncedMeansCaughtUp ==
    \A n \in Nodes : \A p \in Peers(n) :
        job[n].kind = "sync" /\ job[n].task[p].at = "done" /\ term(n) = term(p)
            => IsPrefix(log[n], log[p])

\* The node that leads the latest term that has a leader yet: the witness of a takeover may
\* have passed to a term whose leader has not recorded the certificate.
Chief == IF term("tertiary") >= 2 THEN "tertiary"
        ELSE IF term("secondary") >= 1 THEN "secondary" ELSE "primary"

Promise == INSTANCE Service WITH history <- digest(Chief)

\* To its clients the cluster is one ledger, the one of its chief: nothing acknowledged leaves
\* its place in it, and a takeover drops at most a tail without a result.
ImplementsService == Promise!Spec

\* security/THREAT_MODEL.md on takeover: the committed logs of the nodes never fork.
LogsNeverFork == \A n, p \in Nodes : Comparable(log[n], log[p])
=============================================================================
