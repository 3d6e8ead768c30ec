--------------------------- MODULE ClusterProofs ---------------------------
(***************************************************************************)
(* Proofs about the cluster: Invariance, which establishes the inductive   *)
(* invariant IInv, and from it the seven safety properties of Cluster and  *)
(* the refinement of Service.                                              *)
(*                                                                         *)
(* The argument rests on three facts about the saved state, none of which  *)
(* a single handler checks.  Every entry that a replica has is in the log  *)
(* of the leader that signed it (Sourced), so two entries of one leader    *)
(* at one position are the same.  Certificates are recorded in one order,  *)
(* witness, successor, replaced node (Succession), so there is one per     *)
(* term, and an old leader is fenced by every node it could ask.  And a    *)
(* certificate cuts a log exactly where the signer of its entries changes  *)
(* (LogOK), so the position a certificate names tells which entries the    *)
(* new leader has kept.                                                    *)
(*                                                                         *)
(* The rest of IInv says why coroutines that act on what they read before  *)
(* an await keep these facts: an answer stays true while logs only grow,   *)
(* a request may be delivered at any later moment, and the certificate     *)
(* that makes a node leader is recorded by its own failover_step only.     *)
(***************************************************************************)
EXTENDS Cluster, WellFoundedInduction, TLAPS

\* The place of a role in ROLE_ORDER, from 1; a node leads when its term is its rank - 1.
Rank(n) == IF n = "primary" THEN 1 ELSE IF n = "secondary" THEN 2 ELSE 3

-----------------------------------------------------------------------------
(* The inductive invariant.                                                *)

\* The durable state of every node has its type.
Types ==
    /\ log \in [Nodes -> Seq(Envelopes)]
    /\ pending \in [Nodes -> Envelopes \cup {None}]
    /\ certs \in [Nodes -> Seq(Certificates)]

\* The record is in the log of the leader that signed it, at its own nonce.
Sourced(e) == e.nonce \in 1..Len(log[e.leader]) /\ log[e.leader][e.nonce] = e

\* A log has no gap, holds only what its leaders hold, and its certificates cut it exactly
\* where the leader of the entries changes.
LogOK(n) ==
    \A k \in 1..Len(log[n]) :
        /\ log[n][k].nonce = k
        /\ Sourced(log[n][k])
        /\ Rank(log[n][k].leader) <= term(n) + 1
        /\ \A i \in 1..term(n) : certs[n][i].nonce < k <=> i < Rank(log[n][k].leader)

\* A prepared record is at most the next one: what a replica prepared late, behind a gap,
\* could otherwise be committed there.
PendingOK(n) == pending[n] # None => pending[n].nonce <= Len(log[n]) + 1

\* Certificates are numbered without a gap, and each was recorded at a position the log has
\* reached.
CertsOK(n) ==
    /\ term(n) <= 2
    /\ \A i \in 1..term(n) : certs[n][i].term = i /\ certs[n][i].nonce <= Len(log[n])

\* Node w recorded certificate c.
Passed(w, c) == c.term \in 1..term(w) /\ certs[w][c.term] = c

\* Node n passes term t only with the certificate that w passed it with.
Follows(n, w, t) == t <= term(n) => t <= term(w) /\ certs[n][t] = certs[w][t]

\* The order in which the nodes record a certificate: the witness of the takeover, then the
\* successor, then the node it replaced.
Succession ==
    /\ Follows("secondary", "tertiary", 1)
    /\ Follows("primary", "secondary", 1)
    /\ Follows("tertiary", "primary", 2)
    /\ Follows("secondary", "tertiary", 2)

\* What holds of the saved state alone.
Durable ==
    /\ Types
    /\ \A n \in Nodes : LogOK(n) /\ PendingOK(n) /\ CertsOK(n)
    /\ Succession

\* Node p may be asked to record c: the node that records it before p has done so.
MayRecord(p, c) ==
    /\ c.term \in {1, 2}
    /\ c.term = 1 /\ p = "secondary" => Passed("tertiary", c)
    /\ c.term = 1 /\ p = "primary"   => Passed("secondary", c)
    /\ c.term = 2 /\ p = "tertiary"  => Passed("primary", c)
    /\ c.term = 2 /\ p = "secondary" => Passed("tertiary", c)

\* The requests that a node is ever sent.
Legit(p, q) ==
    \/ q.method = "prepare" /\ q.body \in Envelopes /\ q.body.nonce <= Len(log[p]) + 1
    \/ q.method = "commit" /\ q.body \in Envelopes /\ Sourced(q.body)
    \/ q.method = "abort" /\ q.body \in Envelopes
    \/ q.method = "certificate" /\ q.body \in Certificates /\ MayRecord(p, q.body)

\* A certificate that a node is sent is not the one that makes it leader: that one it records
\* only in its own failover_step, never in a handler.
Foreign(p, q) == q.method = "certificate" => q.body.term # Rank(p) - 1

\* So are the requests that are still on their way.
LateOK == \A x \in late : x.to \in Nodes /\ Legit(x.to, x.request) /\ Foreign(x.to, x.request)

\* A replay is inside the log of its node, and the peer has every entry below the next one.
TaskOK(n, p, t) ==
    t.at \in {"prepare", "commit"} =>
        t.next \in 1..t.upto /\ t.upto <= Len(log[n]) /\ t.next <= Len(log[p]) + 1

\* Every job is a record of its type.
JobTypes == job \in [Nodes -> [kind : Kinds, op : Mutations \cup {Sync, None},
                               env : Envelopes \cup {None}, task : [Nodes -> Tasks]]]

\* The task of a job that prepares or syncs: it replays all of this node's log, which cannot
\* grow under it; at its end the peer is level, and one that acknowledged the new record is in
\* the term of this leader.
PreparingOK(n, p) ==
    /\ TaskOK(n, p, job[n].task[p])
    /\ job[n].task[p].at \in {"prepare", "commit"} => job[n].task[p].upto = Len(log[n])
    /\ job[n].task[p].at \in {"synced", "done"} => Len(log[n]) <= Len(log[p])
    /\ job[n].kind = "prepare" /\ job[n].task[p].at = "done" => term(n) = Rank(n) - 1

\* A node with a job has been leader.  The record it prepares is its own next one; the one it
\* commits is in its log, and in the log of each peer that confirmed it.
JobOK(n) ==
    /\ job[n].kind # "idle" => term(n) >= Rank(n) - 1 /\ job[n].op # None
    /\ job[n].kind = "old" => job[n].env \in Envelopes
    /\ job[n].kind \in {"prepare", "abort"} =>
        /\ job[n].op \in Mutations
        /\ job[n].env = [leader |-> n, nonce |-> Len(log[n]) + 1, mutation |-> job[n].op]
    /\ job[n].kind = "commit" =>
        /\ job[n].op \in Mutations
        /\ job[n].env \in Envelopes /\ Sourced(job[n].env)
        /\ job[n].env.leader = n /\ job[n].env.mutation = job[n].op
        /\ \A p \in Peers(n) : job[n].task[p].at = "done" =>
               /\ job[n].env.nonce \in 1..Len(log[p])
               /\ log[p][job[n].env.nonce] = job[n].env
    /\ job[n].kind \in {"prepare", "sync"} => \A p \in Peers(n) : PreparingOK(n, p)

\* What waits for the lock passed the leadership check, though the term may have passed since.
QueueOK(n) == queue[n] # None => term(n) >= Rank(n) - 1

\* The witness of the takeover by c.
Helper(c) == IF c = "secondary" THEN "tertiary" ELSE "primary"

\* The fields of a takeover.
Fields == {"at", "tick", "got", "theirs", "from", "vote", "task"}

\* The fields of a takeover that its steps calculate with have their types.
TakeoverTyped(t) ==
    DOMAIN t = Fields /\ t.at \in Stages /\ t.tick \in Nat /\ t.from \in Nat /\ t.task \in Tasks

\* Every takeover is such a record.
TakeoverTypes == DOMAIN takeover = Nodes /\ \A c \in Nodes : TakeoverTyped(takeover[c])

\* The certificate that the votes of takeover t make.
Certifies(t) == [term |-> t.vote.term, nonce |-> t.vote.nonce, tick |-> t.tick]

\* An answer stays true while the candidate waits: the entries are in the logs of their
\* leaders, the certificates are the witness's, and the certificate the witness confirmed is
\* recorded there.
AnswerOK(c, t) ==
    /\ t.at \in {"pull", "confirm"} =>
        /\ t.got.entries \in Seq(Envelopes)
        /\ \A j \in 1..Len(t.got.entries) :
               t.got.entries[j].nonce = t.from + j /\ Sourced(t.got.entries[j])
    /\ t.at = "leadership" =>
        /\ t.got \in Seq(Certificates)
        /\ \A j \in 1..Len(t.got) : j <= term(Helper(c)) /\ t.got[j] = certs[Helper(c)][j]
    /\ t.at = "certificate" => Passed(Helper(c), Certifies(t))

\* A candidate stays in the term that it takes over from: until its own failover_step records
\* the certificate no handler does, so its vote is for the next term.
TakeoverOK(c, t) ==
    /\ t.at # "idle" => /\ term(c) = Rank(c) - 2
                        /\ t.from <= Len(log[c])
                        /\ TaskOK(c, Helper(c), t.task)
    /\ t.at \in {"vote", "certificate"} => t.vote.term = term(c) + 1 /\ t.vote.nonce \in Nat
    /\ t.got # None => AnswerOK(c, t)

\* The mutation is in the ledger of some node.
Applied(m) == \E n \in Nodes : \E k \in 1..Len(log[n]) : log[n][k].mutation = m

\* The operation m waits for the lock of n, or holds it and is not decided.
Owns(n, where, m) ==
    IF where = "queue" THEN queue[n] = m
    ELSE job[n].kind \in {"old", "prepare", "abort"} /\ job[n].op = m

\* Where an undecided operation is.
Places == {"queue", "lock"}

\* An operation that is not decided is in one place only and nowhere applied; nothing is
\* applied that was refused or was never asked for.
ClientOK ==
    /\ asked \subseteq Mutations /\ acked \subseteq asked /\ refused \subseteq asked
    /\ queue \in [Nodes -> Mutations \cup {Sync, None}]
    /\ \A m \in Mutations : m \in refused \/ m \notin asked => ~Applied(m)
    /\ \A m \in Mutations : \A n \in Nodes, w \in Places :
           Owns(n, w, m) => m \in asked /\ m \notin refused /\ ~Applied(m)
    /\ \A m \in Mutations : \A n, p \in Nodes, v, w \in Places :
           Owns(n, v, m) /\ Owns(p, w, m) => n = p /\ v = w
    /\ \A n \in Nodes : job[n].kind = "commit" => job[n].op \in asked

\* A mutation that was acknowledged is in the log of a node other than its leader.
AckedOK == \A m \in acked : \E p \in Nodes : \E k \in 1..Len(log[p]) :
               log[p][k].mutation = m /\ log[p][k].leader # p

\* The leaders' coroutines.
Jobs      == JobTypes /\ (\A n \in Nodes : JobOK(n) /\ QueueOK(n))
\* The successors' coroutines.
Takeovers == TakeoverTypes /\ (\A c \in Nodes : TakeoverOK(c, takeover[c]))

\* The inductive invariant of the cluster.
IInv == Durable /\ Jobs /\ Takeovers /\ LateOK /\ ClientOK /\ AckedOK /\ faults \in Nat
-----------------------------------------------------------------------------
(* The saved state.                                                        *)

\* The cluster has these three roles.
LEMMA NodesAre == Nodes = {"primary", "secondary", "tertiary"}
BY DEF Nodes, Range, ROLE_ORDER

\* ROLE_ORDER lists the roles by rank.
LEMMA RoleAt == \A i \in 1..3 : ROLE_ORDER[i] \in Nodes /\ Rank(ROLE_ORDER[i]) = i
BY NodesAre DEF ROLE_ORDER, Rank

\* Ranks are 1 to 3 and tell the nodes apart.
LEMMA Ranks ==
    ASSUME NEW n \in Nodes, NEW p \in Nodes
    PROVE  Rank(n) \in 1..3 /\ (Rank(n) = Rank(p) => n = p)
BY NodesAre DEF Rank

\* The elements of the saved logs and certificates have their types.
LEMMA LogTyped ==
    ASSUME Types, NEW n \in Nodes
    PROVE  /\ log[n] \in Seq(Envelopes) /\ Len(log[n]) \in Nat
           /\ \A k \in 1..Len(log[n]) : /\ log[n][k] \in Envelopes
                                        /\ log[n][k].leader \in Nodes
                                        /\ log[n][k].nonce \in Nat
                                        /\ log[n][k].mutation \in Mutations
           /\ certs[n] \in Seq(Certificates) /\ term(n) \in Nat
           /\ \A i \in 1..term(n) : /\ certs[n][i] \in Certificates
                                    /\ certs[n][i].nonce \in Nat
<1>1. log[n] \in Seq(Envelopes) /\ certs[n] \in Seq(Certificates)
  BY DEF Types
<1>2. Len(log[n]) \in Nat /\ \A k \in 1..Len(log[n]) : log[n][k] \in Envelopes
  BY <1>1
<1>3. term(n) \in Nat /\ \A i \in 1..term(n) : certs[n][i] \in Certificates
  BY <1>1 DEF term
<1> QED
  BY <1>1, <1>2, <1>3 DEF Envelopes, Certificates

\* A node's term, at most 2, names the node whose rank is the next number.
LEMMA Leading ==
    ASSUME Durable, NEW n \in Nodes
    PROVE  term(n) \in 0..2 /\ leader(n) \in Nodes /\ Rank(leader(n)) = term(n) + 1
<1>1. term(n) \in 0..2
  BY LogTyped DEF Durable, CertsOK
<1> QED
  BY <1>1, RoleAt DEF leader

\* The last nonce, which the code calls the position, is the length of the log.
LEMMA PositionIsLength ==
    ASSUME Durable, NEW n \in Nodes
    PROVE  position(n) = Len(log[n])
<1>1. log[n] \in Seq(Envelopes) /\ LogOK(n)
  BY LogTyped DEF Durable
<1>2. CASE log[n] = <<>>
  BY <1>2 DEF position
<1>3. CASE log[n] # <<>>
  BY <1>1, <1>3 DEF position, Last, LogOK
<1> QED
  BY <1>2, <1>3

\* What _verify_envelope lets through is signed by the node's current leader, is not its own
\* and lies above its log.
LEMMA Verified ==
    ASSUME Durable, NEW n \in Nodes, NEW e \in Envelopes, verify(n, e)
    PROVE  /\ e.leader \in Nodes /\ e.nonce \in Nat
           /\ e.leader = leader(n) /\ e.leader # n
           /\ Rank(e.leader) = term(n) + 1
           /\ e.nonce > Len(log[n])
BY Leading, PositionIsLength DEF verify, Envelopes

\* A step: no node forgets an entry or a certificate.
Grown ==
    \A n \in Nodes :
        /\ Len(log[n]) <= Len(log'[n])
        /\ \A k \in 1..Len(log[n]) : log'[n][k] = log[n][k]
        /\ Len(certs[n]) <= Len(certs'[n])
        /\ \A i \in 1..Len(certs[n]) : certs'[n][i] = certs[n][i]

\* A record stays in the log of its leader.
LEMMA SourcedStays ==
    ASSUME Types, Types', Grown, NEW e \in Envelopes, Sourced(e)
    PROVE  Sourced(e)'
<1>1. e.leader \in Nodes
  BY DEF Envelopes
<1> QED
  BY <1>1, LogTyped DEF Sourced, Grown, Types

\* A recorded certificate stays recorded.
LEMMA PassedStays ==
    ASSUME Types, Types', Grown, NEW w \in Nodes, NEW c \in Certificates, Passed(w, c)
    PROVE  Passed(w, c)'
BY LogTyped DEF Passed, Grown, Types, term

\* A request that may be sent to a node may still be delivered to it later.
LEMMA LegitStays ==
    ASSUME Types, Types', Grown, NEW p \in Nodes, NEW q, Legit(p, q)
    PROVE  Legit(p, q)'
<1>1. CASE q.method = "prepare" /\ q.body \in Envelopes /\ q.body.nonce <= Len(log[p]) + 1
  <2>1. Len(log[p]) \in Nat /\ Len(log'[p]) \in Nat
    BY DEF Types
  <2>2. q.body.nonce \in Nat
    BY <1>1 DEF Envelopes
  <2> QED
    BY <1>1, <2>1, <2>2 DEF Legit, Grown
<1>2. CASE q.method = "commit" /\ q.body \in Envelopes /\ Sourced(q.body)
  BY <1>2, SourcedStays DEF Legit
<1>3. CASE q.method = "abort" /\ q.body \in Envelopes
  BY <1>3 DEF Legit
<1>4. CASE q.method = "certificate" /\ q.body \in Certificates /\ MayRecord(p, q.body)
  <2>1. \A w \in Nodes : Passed(w, q.body) => Passed(w, q.body)'
    BY <1>4, PassedStays
  <2>2. MayRecord(p, q.body)'
    BY <1>4, <2>1, NodesAre DEF MayRecord
  <2> QED
    BY <1>4, <2>2 DEF Legit
<1> QED
  BY <1>1, <1>2, <1>3, <1>4 DEF Legit

\* Entries that continue a log under the node's current leader keep the durable invariant.
LEMMA EntriesAdded ==
    ASSUME Durable, Types', NEW n \in Nodes,
           certs' = certs,
           \A p \in Nodes \ {n} : log'[p] = log[p],
           Len(log[n]) <= Len(log'[n]),
           \A k \in 1..Len(log[n]) : log'[n][k] = log[n][k],
           \A k \in (Len(log[n]) + 1)..Len(log'[n]) :
               /\ log'[n][k].nonce = k
               /\ Rank(log'[n][k].leader) = term(n) + 1
               /\ log'[n][k].leader = n \/ Sourced(log'[n][k]),
           \A p \in Nodes : PendingOK(p)'
    PROVE  Durable' /\ Grown
<1>1. \A p \in Nodes : Len(log[p]) \in Nat /\ Len(log'[p]) \in Nat
  BY LogTyped DEF Types, Durable
<1>2. Grown
  <2>1. \A p \in Nodes : Len(certs[p]) \in Nat
    BY LogTyped DEF Durable, term
  <2> QED
    BY <1>1, <2>1 DEF Grown
<1>3. ASSUME NEW p \in Nodes PROVE LogOK(p)'
  <2> SUFFICES ASSUME NEW k \in 1..Len(log'[p])
               PROVE  /\ log'[p][k].nonce = k
                      /\ Sourced(log[p][k])'
                      /\ Rank(log'[p][k].leader) <= term(p) + 1
                      /\ \A i \in 1..term(p) : certs[p][i].nonce < k <=> i < Rank(log'[p][k].leader)
    BY DEF LogOK, term
  <2>0. Len(log[p]) \in Nat /\ k \in Nat /\ LogOK(p) /\ CertsOK(p) /\ term(p) \in Nat
    BY <1>1, LogTyped DEF Durable
  <2>1. CASE k \in 1..Len(log[p])
    <3>1. log'[p][k] = log[p][k] /\ log[p][k] \in Envelopes
      BY <2>1, LogTyped DEF Durable
    <3>2. Sourced(log[p][k])'
      <4>1. PICK e \in Envelopes : e = log[p][k]
        BY <3>1
      <4>2. Sourced(e)
        BY <4>1, <2>0, <2>1 DEF LogOK
      <4>3. Sourced(e)'
        BY <1>2, <4>2, SourcedStays DEF Durable
      <4>4. log'[p][k] = e
        BY <3>1, <4>1
      <4> QED
        BY <4>1, <4>3, <4>4, <3>1 DEF Sourced
    <3> QED
      BY <2>0, <2>1, <3>1, <3>2 DEF LogOK, Sourced
  <2>2. CASE k \notin 1..Len(log[p])
    <3>1. p = n /\ k \in (Len(log[n]) + 1)..Len(log'[n])
      BY <2>2, <2>0
    <3>2. log'[n][k] \in Envelopes
      <4>1. log'[n] \in Seq(Envelopes)
        BY DEF Types
      <4> QED
        BY <4>1, <3>1
    <3>3. Sourced(log[p][k])'
      <4>1. CASE log'[n][k].leader = n
        BY <4>1, <3>1, <1>1 DEF Sourced
      <4>2. CASE log'[n][k].leader # n
        <5>1. PICK e \in Envelopes : e = log'[n][k]
          BY <3>2
        <5>2. Sourced(e)'
          BY <4>2, <5>1, <3>1, <1>2, SourcedStays DEF Durable
        <5> QED
          BY <5>1, <5>2, <3>1 DEF Sourced
      <4> QED
        BY <4>1, <4>2
    <3>4. \A i \in 1..term(p) : certs[p][i].nonce \in Nat /\ certs[p][i].nonce <= Len(log[p])
      BY <2>0, LogTyped DEF CertsOK, Durable
    <3> QED
      BY <3>1, <3>3, <3>4, <2>0
  <2> QED
    BY <2>1, <2>2
<1>4. ASSUME NEW p \in Nodes PROVE CertsOK(p)'
  <2>1. CertsOK(p) /\ Len(log[p]) <= Len(log'[p])
    BY <1>1 DEF Durable
  <2>2. \A i \in 1..term(p) : certs[p][i].nonce \in Nat
    BY LogTyped DEF Durable
  <2> QED
    BY <2>1, <2>2, <1>1 DEF CertsOK, term
<1>5. Succession'
  BY DEF Durable, Succession, Follows, term
<1> QED
  BY <1>2, <1>3, <1>4, <1>5 DEF Durable

\* So does the next certificate, recorded at the node's position in the order of succession.
LEMMA CertificateAdded ==
    ASSUME Durable, Types', NEW n \in Nodes, NEW c \in Certificates,
           log' = log,
           term(n)' = term(n) + 1 /\ certs'[n][term(n) + 1] = c,
           \A i \in 1..term(n) : certs'[n][i] = certs[n][i],
           \A p \in Nodes \ {n} : certs'[p] = certs[p] /\ term(p)' = term(p),
           c.term = term(n) + 1, c.nonce = Len(log[n]), MayRecord(n, c),
           \A p \in Nodes : PendingOK(p)'
    PROVE  Durable' /\ Grown
<1>1. \A p \in Nodes : certs[p] \in Seq(Certificates) /\ term(p) \in Nat /\ Len(log[p]) \in Nat
  BY LogTyped DEF Durable
<1>2. /\ term(n)' = term(n) + 1 /\ certs'[n][term(n) + 1] = c
      /\ \A i \in 1..term(n) : certs'[n][i] = certs[n][i]
  OBVIOUS
<1>3. \A p \in Nodes \ {n} : certs'[p] = certs[p] /\ term(p)' = term(p)
  OBVIOUS
<1>4. Grown
  <2>1. \A p \in Nodes : \A i \in 1..term(p) : certs'[p][i] = certs[p][i]
    BY <1>2, <1>3
  <2>2. \A p \in Nodes : term(p) <= term(p)'
    BY <1>1, <1>2, <1>3
  <2> QED
    BY <1>1, <2>1, <2>2 DEF Grown, term
<1>5. ASSUME NEW p \in Nodes PROVE LogOK(p)'
  <2> SUFFICES ASSUME NEW k \in 1..Len(log[p])
               PROVE  /\ log[p][k].nonce = k
                      /\ Sourced(log[p][k])
                      /\ Rank(log[p][k].leader) <= term(p)' + 1
                      /\ \A i \in 1..term(p)' : certs'[p][i].nonce < k <=> i < Rank(log[p][k].leader)
    BY DEF LogOK, Sourced
  <2>1. LogOK(p) /\ k \in Nat /\ Rank(log[p][k].leader) \in Nat
    <3>1. LogOK(p) /\ Types
      BY DEF Durable
    <3>2. k \in Nat /\ log[p][k].leader \in Nodes
      BY <3>1, LogTyped
    <3> QED
      BY <3>1, <3>2, Ranks
  <2>2. CASE p # n
    BY <1>3, <2>1, <2>2 DEF LogOK
  <2>3. CASE p = n
    <3>1. term(n)' = term(n) + 1 /\ c.nonce >= k
      BY <1>1, <1>2, <2>3
    <3>2. ASSUME NEW i \in 1..term(n)
          PROVE  certs'[p][i].nonce < k <=> i < Rank(log[p][k].leader)
      <4>1. certs'[p][i] = certs[p][i]
        BY <1>2, <2>3
      <4> QED
        BY <4>1, <2>1, <2>3 DEF LogOK
    <3>3. ~(c.nonce < k) /\ ~(term(n) + 1 < Rank(log[p][k].leader))
      BY <3>1, <2>1, <2>3, <1>1 DEF LogOK
    <3>4. \A i \in 1..(term(n) + 1) : i \in 1..term(n) \/ i = term(n) + 1
      BY <1>1
    <3>5. certs'[p][term(n) + 1].nonce < k <=> term(n) + 1 < Rank(log[p][k].leader)
      BY <1>2, <2>3, <3>3
    <3>6. \A i \in 1..term(p)' : certs'[p][i].nonce < k <=> i < Rank(log[p][k].leader)
      BY <2>3, <3>1, <3>2, <3>4, <3>5
    <3>7. Rank(log[p][k].leader) <= term(p)' + 1
      BY <1>1, <2>1, <2>3, <3>1 DEF LogOK
    <3> QED
      BY <2>1, <3>6, <3>7 DEF LogOK
  <2> QED
    BY <2>2, <2>3
<1>6. ASSUME NEW p \in Nodes PROVE CertsOK(p)'
  <2>1. CertsOK(p)
    BY DEF Durable
  <2>2. CASE p # n
    BY <1>3, <2>1, <2>2 DEF CertsOK
  <2>3. CASE p = n
    BY <1>1, <1>2, <2>1, <2>3 DEF CertsOK, MayRecord
  <2> QED
    BY <2>2, <2>3
<1>7. Succession'
  <2>1. Succession /\ \A p \in Nodes : term(p) \in 0..2
    BY <1>1 DEF Durable, CertsOK
  <2>2. c.term \in {1, 2}
    BY DEF MayRecord
  <2>3. CASE n = "primary"
    BY <1>2, <1>3, <2>1, <2>2, <2>3, NodesAre DEF Succession, Follows, MayRecord, Passed
  <2>4. CASE n = "secondary"
    BY <1>2, <1>3, <2>1, <2>2, <2>4, NodesAre DEF Succession, Follows, MayRecord, Passed
  <2>5. CASE n = "tertiary"
    BY <1>2, <1>3, <2>1, <2>2, <2>5, NodesAre DEF Succession, Follows, MayRecord, Passed
  <2> QED
    BY <2>3, <2>4, <2>5, NodesAre
<1> QED
  BY <1>4, <1>5, <1>6, <1>7 DEF Durable

\* A step: no other node's log and certificates change.
Elsewhere(n) == \A p \in Nodes \ {n} : /\ log'[p] = log[p]
                                       /\ certs'[p] = certs[p]
                                       /\ pending'[p] = pending[p]

\* A step: no mutation is applied that was applied nowhere before.
NothingNew == \A m : Applied(m)' => Applied(m)

\* Logs and certificates that stay the same have grown by nothing.
LEMMA GrownRefl ==
    ASSUME Durable, UNCHANGED <<log, certs>>
    PROVE  Grown /\ NothingNew
<1>1. \A p \in Nodes : Len(log[p]) \in Nat /\ Len(certs[p]) \in Nat
  BY LogTyped DEF Durable, term
<1> QED
  BY <1>1 DEF Grown, NothingNew, Applied

\* The durable invariant only looks at pending records through PendingOK.
LEMMA DurableFrame ==
    ASSUME Durable, UNCHANGED <<log, certs>>, Types', \A p \in Nodes : PendingOK(p)'
    PROVE  Durable'
<1>1. ASSUME NEW p \in Nodes PROVE LogOK(p)' /\ CertsOK(p)'
  <2>1. LogOK(p)'
    <3>1. LogOK(p)
      BY DEF Durable
    <3> QED
      BY <3>1 DEF LogOK, Sourced, term
  <2>2. CertsOK(p)'
    BY DEF CertsOK, term, Durable
  <2> QED
    BY <2>1, <2>2
<1>2. Succession'
  BY DEF Succession, Durable, Follows, term
<1> QED
  BY <1>1, <1>2 DEF Durable

\* A handler that only sets or clears the pending record keeps the durable invariant.
LEMMA PendingChanged ==
    ASSUME Durable, UNCHANGED <<log, certs>>, NEW n \in Nodes, NEW e \in Envelopes \cup {None},
           pending' = [pending EXCEPT ![n] = e],
           e # None => e.nonce <= Len(log[n]) + 1
    PROVE  Durable' /\ Grown /\ Elsewhere(n) /\ NothingNew
<1>1. Types'
  BY DEF Types, Durable
<1>2. ASSUME NEW p \in Nodes PROVE PendingOK(p)'
  <2>1. pending'[p] = IF p = n THEN e ELSE pending[p]
    BY DEF Durable, Types
  <2> QED
    BY <2>1 DEF PendingOK, Durable
<1>3. Durable'
  BY <1>1, <1>2, DurableFrame
<1> QED
  BY <1>3, GrownRefl DEF Durable, Elsewhere, Types

\* A node that appends the next record of its leader keeps the durable invariant; a replica
\* adds nothing that its leader had not applied.
LEMMA EntryAppended ==
    ASSUME Durable, NEW n \in Nodes, NEW e \in Envelopes,
           e.nonce = Len(log[n]) + 1,
           Rank(e.leader) = term(n) + 1,
           e.leader = n \/ Sourced(e),
           log' = [log EXCEPT ![n] = Append(@, e)],
           pending' = [pending EXCEPT ![n] = None],
           UNCHANGED certs
    PROVE  /\ Durable' /\ Grown /\ Elsewhere(n)
           /\ e.nonce \in 1..Len(log'[n]) /\ log'[n][e.nonce] = e
           /\ \A m : Applied(m)' => Applied(m) \/ m = e.mutation
           /\ Sourced(e) => NothingNew
<1>1. \A p \in Nodes : log[p] \in Seq(Envelopes) /\ Len(log[p]) \in Nat
  BY LogTyped DEF Durable
<1>2. /\ \A p \in Nodes \ {n} : log'[p] = log[p] /\ pending'[p] = pending[p]
      /\ log'[n] = Append(log[n], e) /\ pending'[n] = None
  BY DEF Durable, Types
<1>3. Types'
  <2>1. Append(log[n], e) \in Seq(Envelopes)
    BY <1>1
  <2> QED
    BY <2>1 DEF Durable, Types
<1>4. /\ Len(log'[n]) = Len(log[n]) + 1
      /\ log'[n][Len(log[n]) + 1] = e
      /\ \A k \in 1..Len(log[n]) : log'[n][k] = log[n][k]
  BY <1>1, <1>2
<1>5. \A p \in Nodes : PendingOK(p)'
  BY <1>2 DEF PendingOK, Durable
<1>6. Durable' /\ Grown
  <2>1. \A k \in (Len(log[n]) + 1)..Len(log'[n]) : k = Len(log[n]) + 1
    BY <1>1, <1>4
  <2>2. Len(log[n]) <= Len(log'[n])
    BY <1>1, <1>4
  <2>3. \A k \in (Len(log[n]) + 1)..Len(log'[n]) : log'[n][k] = e /\ k = e.nonce
    BY <2>1, <1>4
  <2>4. \A k \in (Len(log[n]) + 1)..Len(log'[n]) :
               /\ log'[n][k].nonce = k
               /\ Rank(log'[n][k].leader) = term(n) + 1
               /\ log'[n][k].leader = n \/ Sourced(log'[n][k])
    BY <2>3
  <2> QED
    BY <1>2, <1>3, <1>4, <1>5, <2>2, <2>4, EntriesAdded
<1>7. Elsewhere(n)
  BY <1>2 DEF Elsewhere
<1>8. \A m : Applied(m)' => Applied(m) \/ m = e.mutation
  <2> SUFFICES ASSUME NEW m, NEW p \in Nodes, NEW k \in 1..Len(log'[p]), log'[p][k].mutation = m
               PROVE  Applied(m) \/ m = e.mutation
    BY DEF Applied
  <2>1. CASE k \in 1..Len(log[p])
    <3>1. log'[p][k] = log[p][k]
      BY <2>1, <1>2, <1>4
    <3> QED
      BY <3>1, <2>1 DEF Applied
  <2>2. CASE k \notin 1..Len(log[p])
    <3>1. p = n /\ k = Len(log[n]) + 1
      BY <2>2, <1>1, <1>2, <1>4
    <3> QED
      BY <3>1, <1>4
  <2> QED
    BY <2>1, <2>2
<1>9. Sourced(e) => NothingNew
  <2> SUFFICES ASSUME Sourced(e) PROVE Applied(e.mutation)
    BY <1>8 DEF NothingNew
  <2>1. e.leader \in Nodes
    BY DEF Envelopes
  <2> QED
    BY <2>1 DEF Applied, Sourced
<1> QED
  BY <1>1, <1>4, <1>6, <1>7, <1>8, <1>9

-----------------------------------------------------------------------------
(* Handlers and calls.                                                     *)

\* A handler that succeeds passed the checks of its method.
LEMMA Outcome ==
    ASSUME NEW n, NEW q, succeeds(n, q)
    PROVE  /\ q.method = "prepare" => prepares(n, q.body)
           /\ q.method = "commit" => commits(n, q.body)
           /\ q.method = "abort" => aborts(n, q.body)
           /\ q.method = "certificate" => records(n, q.body)
BY DEF succeeds

\* Every handler, run on a request that may be sent, keeps the durable invariant and applies
\* nothing new.
LEMMA HandleStep ==
    ASSUME Durable, NEW n \in Nodes, NEW q, Legit(n, q), Handle(n, q)
    PROVE  Durable' /\ Grown /\ Elsewhere(n) /\ NothingNew
<1>1. CASE ~succeeds(n, q)
  <2>1. UNCHANGED durable
    BY <1>1 DEF Handle
  <2>2. Types' /\ \A p \in Nodes : PendingOK(p)'
    BY <2>1 DEF durable, Types, PendingOK, Durable
  <2> QED
    BY <2>1, <2>2, DurableFrame, GrownRefl DEF durable, Elsewhere
<1>2. CASE succeeds(n, q) /\ q.method = "prepare"
  <2>1. UNCHANGED <<log, certs>> /\ pending' = [pending EXCEPT ![n] = q.body]
    BY <1>2 DEF Handle
  <2>2. q.body \in Envelopes /\ q.body.nonce <= Len(log[n]) + 1
    BY <1>2 DEF Legit
  <2> QED
    BY <2>1, <2>2, PendingChanged
<1>3. CASE succeeds(n, q) /\ q.method = "commit"
  <2>1. q.body \in Envelopes /\ Sourced(q.body) /\ q.body # None
    BY <1>3, NoneAssumption DEF Legit
  <2>2. verify(n, q.body) /\ pending[n] = q.body
    BY <1>3, Outcome DEF commits
  <2>3. /\ Rank(q.body.leader) = term(n) + 1 /\ q.body.nonce \in Nat
        /\ q.body.nonce > Len(log[n])
    BY <2>1, <2>2, Verified
  <2>4. q.body.nonce = Len(log[n]) + 1
    BY <2>1, <2>2, <2>3, LogTyped DEF Durable, PendingOK
  <2>5. /\ log' = [log EXCEPT ![n] = Append(@, q.body)] /\ UNCHANGED certs
        /\ pending' = [pending EXCEPT ![n] = None]
    BY <1>3 DEF Handle, known
  <2> QED
    BY <2>1, <2>3, <2>4, <2>5, EntryAppended
<1>4. CASE succeeds(n, q) /\ q.method = "abort"
  <2>1. UNCHANGED <<log, certs>> /\ pending' = [pending EXCEPT ![n] = None]
    BY <1>4 DEF Handle, known
  <2> QED
    BY <2>1, PendingChanged
<1>5. CASE succeeds(n, q) /\ q.method = "certificate" /\ known(n, q)
  <2>1. UNCHANGED <<log, certs>> /\ pending' = [pending EXCEPT ![n] = pending[n]]
    BY <1>5 DEF Handle
  <2>2. pending[n] \in Envelopes \cup {None} /\ (pending[n] # None => pending[n].nonce <= Len(log[n]) + 1)
    BY DEF Durable, Types, PendingOK
  <2> QED
    BY <2>1, <2>2, PendingChanged
<1>6. CASE succeeds(n, q) /\ q.method = "certificate" /\ ~known(n, q)
  <2>1. PICK c \in Certificates : c = q.body
    BY <1>6 DEF Legit
  <2>2. /\ log' = log /\ certs' = [certs EXCEPT ![n] = Append(@, c)]
        /\ pending' = [pending EXCEPT ![n] = None]
    BY <1>6, <2>1 DEF Handle
  <2>3. c.term = term(n) + 1 /\ c.nonce = Len(log[n])
    BY <1>6, <2>1, Outcome, PositionIsLength DEF records, known
  <2>4. MayRecord(n, c)
    BY <1>6, <2>1 DEF Legit
  <2>5. /\ certs'[n] = Append(certs[n], c) /\ pending'[n] = None
        /\ \A p \in Nodes \ {n} : certs'[p] = certs[p] /\ pending'[p] = pending[p]
    BY <2>2 DEF Durable, Types
  <2>6. certs[n] \in Seq(Certificates)
    BY LogTyped DEF Durable
  <2>7. Types'
    <3>1. Append(certs[n], c) \in Seq(Certificates)
      BY <2>6
    <3> QED
      BY <3>1, <2>2 DEF Durable, Types
  <2>8. /\ term(n)' = term(n) + 1 /\ certs'[n][term(n) + 1] = c
        /\ \A i \in 1..term(n) : certs'[n][i] = certs[n][i]
    BY <2>5, <2>6 DEF term
  <2>9. \A p \in Nodes \ {n} : certs'[p] = certs[p] /\ term(p)' = term(p)
    BY <2>5 DEF term
  <2>10. \A p \in Nodes : PendingOK(p)'
    BY <2>5, <2>2 DEF PendingOK, Durable
  <2>11. Durable' /\ Grown
    BY <2>2, <2>3, <2>4, <2>7, <2>8, <2>9, <2>10, CertificateAdded
  <2> QED
    BY <2>2, <2>5, <2>11 DEF Elsewhere, NothingNew, Applied
<1> QED
  BY <1>1, <1>2, <1>3, <1>4, <1>5, <1>6 DEF Legit

\* A commit that succeeds leaves the record in the replica's log, at its nonce.
LEMMA CommitLands ==
    ASSUME Durable, NEW n \in Nodes, NEW e \in Envelopes, Sourced(e),
           succeeds(n, Commit(e)), Handle(n, Commit(e))
    PROVE  e.nonce \in 1..Len(log'[n]) /\ log'[n][e.nonce] = e
<1>1. Commit(e).method = "commit" /\ Commit(e).body = e
  BY DEF Commit
<1>2. commits(n, e)
  BY <1>1, Outcome
<1>3. Rank(e.leader) = term(n) + 1 /\ e.nonce \in Nat /\ e.nonce > Len(log[n])
  BY <1>2, Verified DEF commits
<1>4. e.nonce = Len(log[n]) + 1
  BY <1>2, <1>3, LogTyped, NoneAssumption DEF commits, Durable, PendingOK
<1>5. /\ log' = [log EXCEPT ![n] = Append(@, e)] /\ UNCHANGED certs
      /\ pending' = [pending EXCEPT ![n] = None]
  BY <1>1 DEF Handle, known
<1> QED
  BY <1>3, <1>4, <1>5, EntryAppended

\* A prepare that succeeds shows that the replica is in the term of the record's leader.
LEMMA PrepareHeeded ==
    ASSUME Durable, NEW n \in Nodes, NEW e \in Envelopes, succeeds(n, Prepare(e))
    PROVE  Rank(e.leader) = term(n) + 1
<1>1. prepares(n, e)
  BY Outcome DEF Prepare
<1> QED
  BY <1>1, Verified DEF prepares

\* A certificate call that succeeds leaves the certificate recorded.
LEMMA CertificateHeld ==
    ASSUME Durable, NEW n \in Nodes, NEW c \in Certificates,
           succeeds(n, Certificate(c)), Handle(n, Certificate(c))
    PROVE  Passed(n, c)'
<1> DEFINE q == Certificate(c)
<1>1. q.method = "certificate" /\ q.body = c
  BY DEF Certificate
<1>2. certs[n] \in Seq(Certificates) /\ CertsOK(n) /\ term(n) \in Nat
  BY LogTyped DEF Durable
<1>3. CASE holds(n, c)
  <2>1. known(n, q)
    BY <1>1, <1>3 DEF known
  <2>2. certs' = certs
    BY <1>1, <2>1 DEF Handle
  <2>3. c = certs[n][Len(certs[n])] /\ Len(certs[n]) >= 1
    BY <1>2, <1>3 DEF holds, Last
  <2> QED
    BY <1>2, <2>2, <2>3 DEF Passed, CertsOK, term
<1>4. CASE ~holds(n, c)
  <2>1. ~known(n, q) /\ c.term = term(n) + 1
    BY <1>1, <1>4, Outcome DEF known, records
  <2>2. certs'[n] = Append(certs[n], c)
    BY <1>1, <2>1 DEF Handle, Durable, Types
  <2> QED
    BY <1>2, <2>1, <2>2 DEF Passed, term
<1> QED
  BY <1>3, <1>4

\* No handler changes the certificates of a node that could be a candidate.
LEMMA ForeignKeeps ==
    ASSUME Durable, NEW n \in Nodes, NEW q, Legit(n, q), Foreign(n, q), Handle(n, q),
           term(n) = Rank(n) - 2
    PROVE  certs'[n] = certs[n]
<1>1. CASE succeeds(n, q) /\ q.method = "certificate" /\ ~known(n, q)
  <2>1. q.body.term = term(n) + 1
    BY <1>1, Outcome DEF records, known
  <2> QED
    BY <1>1, <2>1, Ranks DEF Foreign
<1> QED
  BY <1>1 DEF Handle, durable

\* A step: nodes with a job keep their log and certificates, for their lock is taken; nodes
\* that may be candidates keep their certificates.
Calm ==
    \A n \in Nodes :
        /\ job[n].kind # "idle" => log'[n] = log[n] /\ certs'[n] = certs[n]
        /\ term(n) = Rank(n) - 2 => certs'[n] = certs[n]

\* Requests on their way may still be delivered after the step.
LEMMA LateStays ==
    ASSUME Types, Types', Grown, LateOK, late' \subseteq late
    PROVE  LateOK'
BY LegitStays DEF LateOK, Foreign

\* A call, whether answered, lost or late, keeps the durable invariant; one that is answered
\* ran at the peer.
LEMMA CallStep ==
    ASSUME Durable, LateOK, NEW p \in Nodes, NEW q, NEW ok \in BOOLEAN,
           Legit(p, q), Foreign(p, q), Call(p, q, ok)
    PROVE  /\ Durable' /\ Grown /\ NothingNew /\ Calm /\ LateOK'
           /\ ok => succeeds(p, q) /\ Handle(p, q)
<1>1. CASE /\ unlocked(p) /\ (ok => succeeds(p, q)) /\ Handle(p, q) /\ UNCHANGED late
  <2>1. Durable' /\ Grown /\ Elsewhere(p) /\ NothingNew
    BY <1>1, HandleStep
  <2>2. Calm
    BY <1>1, <2>1, ForeignKeeps DEF Calm, Elsewhere, unlocked
  <2>3. LateOK'
    BY <1>1, <2>1, LateStays DEF Durable
  <2> QED
    BY <1>1, <2>1, <2>2, <2>3
<1>2. CASE /\ ~ok /\ UNCHANGED durable
           /\ late' \in {late, late \cup {[to |-> p, request |-> q]}}
  <2>1. Types' /\ \A n \in Nodes : PendingOK(n)'
    BY <1>2 DEF durable, Durable, Types, PendingOK
  <2>2. Durable' /\ Grown /\ NothingNew
    BY <1>2, <2>1, DurableFrame, GrownRefl DEF durable
  <2>3. Calm
    BY <1>2 DEF Calm, durable
  <2>4. Legit(p, q)'
    BY <2>1, <2>2, LegitStays DEF Durable
  <2>5. \A x \in late : x.to \in Nodes /\ Legit(x.to, x.request)' /\ Foreign(x.to, x.request)
    BY <2>1, <2>2, LegitStays DEF Durable, LateOK
  <2>6. \A x \in late' : x.to \in Nodes /\ Legit(x.to, x.request)' /\ Foreign(x.to, x.request)
    BY <1>2, <2>4, <2>5
  <2> QED
    BY <1>2, <2>2, <2>3, <2>6 DEF LateOK, Foreign
<1> QED
  BY <1>1, <1>2 DEF Call

-----------------------------------------------------------------------------
(* What a step at another node leaves true.                                *)

\* A replay stays within its log when logs grow.
LEMMA TaskStays ==
    ASSUME Durable, Durable', Grown, NEW n \in Nodes, NEW p \in Nodes, NEW t \in Tasks,
           TaskOK(n, p, t)
    PROVE  TaskOK(n, p, t)'
<1>1. \A r \in Nodes : Len(log[r]) \in Nat /\ Len(log'[r]) \in Nat /\ Len(log[r]) <= Len(log'[r])
  BY DEF Durable, Types, Grown
<1> QED
  BY <1>1 DEF TaskOK, Tasks

\* A job is not disturbed by a step that leaves the log and certificates of its node alone.
LEMMA JobStays ==
    ASSUME Durable, Durable', Grown, NEW n \in Nodes, JobOK(n), job'[n] = job[n],
           job[n].kind # "idle" => log'[n] = log[n] /\ certs'[n] = certs[n]
    PROVE  JobOK(n)'
<1>1. \A p \in Nodes : Len(log[p]) \in Nat /\ Len(log'[p]) \in Nat /\ Len(log[p]) <= Len(log'[p])
  BY DEF Durable, Types, Grown
<1>2. CASE job[n].kind = "idle"
  BY <1>2 DEF JobOK
<1>3. CASE job[n].kind = "commit"
  <2>1. PICK e \in Envelopes : e = job[n].env
    BY <1>3 DEF JobOK
  <2>2. Sourced(e)'
    BY <1>3, <2>1, SourcedStays DEF JobOK, Durable
  <2>3. Sourced(job[n].env)'
    BY <2>1, <2>2
  <2>4. ASSUME NEW p \in Peers(n), job[n].task[p].at = "done"
        PROVE  e.nonce \in 1..Len(log'[p]) /\ log'[p][e.nonce] = e
    <3>1. p \in Nodes /\ e.nonce \in 1..Len(log[p]) /\ log[p][e.nonce] = e
      BY <1>3, <2>1, <2>4 DEF JobOK, Peers
    <3> QED
      BY <3>1, <1>1 DEF Grown
  <2> QED
    BY <1>3, <2>1, <2>3, <2>4 DEF JobOK, term
<1>4. CASE job[n].kind \in {"prepare", "sync"}
  <2>1. ASSUME NEW p \in Peers(n) PROVE PreparingOK(n, p)'
    <3>1. PreparingOK(n, p) /\ p \in Nodes
      BY <1>4 DEF JobOK, Peers
    <3> QED
      BY <1>1, <1>4, <3>1 DEF PreparingOK, TaskOK, term
  <2> QED
    BY <1>4, <2>1 DEF JobOK, term
<1>5. CASE job[n].kind \in {"old", "abort"}
  BY <1>5 DEF JobOK, term
<1>6. CASE job[n].kind \notin {"idle", "commit", "prepare", "sync", "old", "abort"}
  BY <1>6 DEF JobOK, term
<1> QED
  BY <1>2, <1>3, <1>4, <1>5, <1>6

\* What waits for the lock goes on waiting, or leaves.
LEMMA QueueStays ==
    ASSUME Durable, Durable', Grown, NEW n \in Nodes, QueueOK(n),
           queue'[n] \in {queue[n], None}
    PROVE  QueueOK(n)'
<1>1. term(n) \in Nat /\ term(n)' \in Nat /\ term(n) <= term(n)' /\ Rank(n) \in Nat
  BY LogTyped, Ranks DEF Durable, Types, Grown, term
<1> QED
  BY <1>1 DEF QueueOK

\* The witness is a node.
LEMMA HelperIs ==
    ASSUME NEW c
    PROVE  Helper(c) \in Nodes
BY NodesAre DEF Helper

\* An answer stays true when logs and certificates grow.
LEMMA AnswerStays ==
    ASSUME Durable, Durable', Grown, NEW c \in Nodes, NEW t, TakeoverTyped(t),
           AnswerOK(c, t), t.at = "certificate" => Certifies(t) \in Certificates
    PROVE  AnswerOK(c, t)'
<1>1. ASSUME t.at \in {"pull", "confirm"}, NEW j \in 1..Len(t.got.entries)
      PROVE  Sourced(t.got.entries[j])'
  <2>1. t.got.entries[j] \in Envelopes /\ Sourced(t.got.entries[j])
    BY <1>1 DEF AnswerOK
  <2> QED
    BY <2>1, SourcedStays DEF Durable
<1>2. ASSUME t.at = "leadership", NEW j \in 1..Len(t.got)
      PROVE  j <= term(Helper(c))' /\ t.got[j] = certs'[Helper(c)][j]
  <2>1. PICK w \in Nodes : w = Helper(c)
    BY HelperIs
  <2>2. j \in Nat /\ 1 <= j /\ j <= term(w) /\ t.got[j] = certs[w][j]
    BY <1>2, <2>1 DEF AnswerOK
  <2>3. term(w) \in Nat /\ term(w)' \in Nat
    BY DEF term, Durable, Types
  <2>4. j <= term(w)' /\ certs'[w][j] = certs[w][j]
    BY <2>2, <2>3 DEF Grown, term
  <2>5. term(Helper(c))' = term(w)'
    BY <2>1 DEF term, Helper
  <2> QED
    BY <2>1, <2>2, <2>4, <2>5
<1>3. ASSUME t.at = "certificate" PROVE Passed(Helper(c), Certifies(t))'
  <2>1. PICK d \in Certificates : d = Certifies(t)
    BY <1>3
  <2>2. PICK w \in Nodes : w = Helper(c)
    BY HelperIs
  <2>3. Passed(w, d)'
    BY <1>3, <2>1, <2>2, PassedStays DEF AnswerOK, Durable
  <2> QED
    BY <2>1, <2>2, <2>3
<1> QED
  BY <1>1, <1>2, <1>3 DEF AnswerOK

\* A takeover that waits is not disturbed as long as its node's certificates stay.
LEMMA TakeoverStays ==
    ASSUME Durable, Durable', Grown, NEW c \in Nodes, NEW t, TakeoverTyped(t),
           TakeoverOK(c, t), t.at # "idle" => certs'[c] = certs[c]
    PROVE  TakeoverOK(c, t)'
<1>1. t.at = "certificate" => Certifies(t) \in Certificates
  BY LogTyped DEF Certifies, Certificates, TakeoverOK, TakeoverTyped, Durable
<1>2. t.got # None => AnswerOK(c, t)'
  BY <1>1, AnswerStays DEF TakeoverOK
<1>3. Len(log[c]) \in Nat /\ Len(log'[c]) \in Nat /\ Len(log[c]) <= Len(log'[c])
  BY DEF Durable, Types, Grown
<1>4. ASSUME t.at # "idle" PROVE TaskOK(c, Helper(c), t.task)'
  <2>1. PICK w \in Nodes : w = Helper(c)
    BY HelperIs
  <2>2. TaskOK(c, w, t.task)'
    BY <1>4, <2>1, TaskStays DEF TakeoverOK, TakeoverTyped
  <2> QED
    BY <2>1, <2>2
<1> QED
  BY <1>2, <1>3, <1>4 DEF TakeoverOK, TakeoverTyped, term

\* The clients' view stays true when no operation starts or is refused.
LEMMA ClientStays ==
    ASSUME ClientOK, NothingNew, UNCHANGED <<asked, refused>>, acked' \subseteq asked,
           \A m \in Mutations : \A n \in Nodes, w \in Places : Owns(n, w, m)' => Owns(n, w, m),
           \A n \in Nodes : job'[n].kind = "commit" => job[n].kind = "commit" /\ job'[n].op = job[n].op,
           queue' \in [Nodes -> Mutations \cup {Sync, None}]
    PROVE  ClientOK'
<1>1. asked' = asked /\ refused' = refused
  OBVIOUS
<1>2. \A m \in Mutations : m \in refused' \/ m \notin asked' => ~Applied(m)'
  BY <1>1 DEF ClientOK, NothingNew
<1>3. \A m \in Mutations : \A n \in Nodes, w \in Places :
           Owns(n, w, m)' => m \in asked' /\ m \notin refused' /\ ~Applied(m)'
  BY <1>1 DEF ClientOK, NothingNew
<1>4. \A m \in Mutations : \A n, p \in Nodes, v, w \in Places :
           Owns(n, v, m)' /\ Owns(p, w, m)' => n = p /\ v = w
  BY DEF ClientOK
<1>5. \A n \in Nodes : job'[n].kind = "commit" => job'[n].op \in asked'
  BY <1>1 DEF ClientOK
<1> QED
  BY <1>1, <1>2, <1>3, <1>4, <1>5 DEF ClientOK

\* What was acknowledged stays in the logs.
LEMMA AckedStays ==
    ASSUME Durable, Durable', Grown, AckedOK, UNCHANGED acked
    PROVE  AckedOK'
<1>1. \A p \in Nodes : Len(log[p]) \in Nat /\ Len(log'[p]) \in Nat
  BY DEF Durable, Types
<1> QED
  BY <1>1 DEF AckedOK, Grown

\* The clients' view stays true when one operation enters the lock or the queue of one node.
LEMMA ClientMoves ==
    ASSUME ClientOK, NothingNew, NEW m \in Mutations, NEW n \in Nodes, NEW w \in Places,
           asked' = asked \cup {m}, UNCHANGED <<acked, refused>>,
           m \notin refused, ~Applied(m),
           \A x \in Mutations : \A r \in Nodes, v \in Places :
               Owns(r, v, x)' => (Owns(r, v, x) /\ x # m) \/ (x = m /\ r = n /\ v = w),
           \A r \in Nodes : job'[r].kind = "commit" => job[r].kind = "commit" /\ job'[r].op = job[r].op,
           queue' \in [Nodes -> Mutations \cup {Sync, None}]
    PROVE  ClientOK'
<1>1. \A x \in Mutations : x \in refused' \/ x \notin asked' => ~Applied(x)'
  BY DEF ClientOK, NothingNew
<1>2. \A x \in Mutations : \A r \in Nodes, v \in Places :
           Owns(r, v, x)' => x \in asked' /\ x \notin refused' /\ ~Applied(x)'
  BY DEF ClientOK, NothingNew
<1>3. \A x \in Mutations : \A r, p \in Nodes, v, u \in Places :
           Owns(r, v, x)' /\ Owns(p, u, x)' => r = p /\ v = u
  BY DEF ClientOK
<1>4. \A r \in Nodes : job'[r].kind = "commit" => job'[r].op \in asked'
  BY DEF ClientOK
<1>5. asked' \subseteq Mutations /\ acked' \subseteq asked' /\ refused' \subseteq asked'
  BY DEF ClientOK
<1> QED
  BY <1>1, <1>2, <1>3, <1>4, <1>5 DEF ClientOK

\* Steps that leave the jobs and the clients alone keep what is said of them.
LEMMA LeadersStay ==
    ASSUME IInv, Durable', Grown, NothingNew, UNCHANGED <<queue, job, client>>,
           \A n \in Nodes : job[n].kind # "idle" => log'[n] = log[n] /\ certs'[n] = certs[n]
    PROVE  Jobs' /\ ClientOK' /\ AckedOK'
<1>1. \A n \in Nodes : JobOK(n)' /\ QueueOK(n)'
  BY JobStays, QueueStays DEF IInv, Jobs
<1>2. ClientOK'
  <2>1. \A m \in Mutations : \A n \in Nodes, w \in Places : Owns(n, w, m)' => Owns(n, w, m)
    BY DEF Owns
  <2> QED
    BY <2>1, ClientStays DEF IInv, ClientOK, client
<1> QED
  BY <1>1, <1>2, AckedStays DEF IInv, Jobs, JobTypes, client

\* Steps that leave the takeovers and the certificates of candidates alone keep what is said
\* of them.
LEMMA SuccessorsStay ==
    ASSUME IInv, Durable', Grown, UNCHANGED takeover,
           \A c \in Nodes : term(c) = Rank(c) - 2 => certs'[c] = certs[c]
    PROVE  Takeovers'
<1>1. ASSUME NEW c \in Nodes PROVE TakeoverOK(c, takeover[c])'
  <2>1. PICK t : t = takeover[c]
    OBVIOUS
  <2>2. TakeoverTyped(t) /\ TakeoverOK(c, t)
    BY <2>1 DEF IInv, Takeovers, TakeoverTypes
  <2>3. t.at # "idle" => certs'[c] = certs[c]
    BY <2>2 DEF TakeoverOK
  <2>4. TakeoverOK(c, t)'
    BY <2>2, <2>3, TakeoverStays DEF IInv
  <2>5. takeover'[c] = t
    BY <2>1
  <2> QED
    BY <2>4, <2>5
<1> QED
  BY <1>1 DEF IInv, Takeovers, TakeoverTypes

\* The jobs of the other nodes are not disturbed by a step at n.
LEMMA OthersStay ==
    ASSUME IInv, Durable', Grown, NEW n \in Nodes,
           \A p \in Nodes \ {n} : /\ job'[p] = job[p]
                                  /\ job[p].kind # "idle" => log'[p] = log[p] /\ certs'[p] = certs[p]
    PROVE  \A p \in Nodes \ {n} : JobOK(p)'
BY JobStays DEF IInv, Jobs

\* A new task is a task.
LEMMA NewTaskTyped == NewTask \in Tasks /\ NewTask.at = "position"
BY DEF NewTask, Tasks

-----------------------------------------------------------------------------
(* The leader.                                                             *)

\* Taking the lock: the undecided record is aborted, or the next one is signed and saved as
\* pending, or the operation is rejected; only that operation can then own the lock.
LEMMA BeginStep ==
    ASSUME IInv, NEW n \in Nodes, NEW op \in Mutations \cup {Sync}, Begin(n, op),
           term(n) >= Rank(n) - 1
    PROVE  /\ Durable' /\ Grown /\ NothingNew /\ UNCHANGED <<log, certs>>
           /\ JobTypes' /\ JobOK(n)' /\ (\A p \in Nodes \ {n} : job'[p] = job[p])
           /\ job'[n].kind # "commit"
           /\ \A m \in Mutations : Owns(n, "lock", m)' => m = op
<1> DEFINE e == [leader |-> n, nonce |-> position(n) + 1, mutation |-> op]
           clean == pending[n] = None \/ job[n].kind = "old"
<1>0. position(n) = Len(log[n]) /\ Len(log[n]) \in Nat
  BY PositionIsLength, LogTyped DEF IInv, Durable
<1>1. op # Sync => e \in Envelopes /\ e # None /\ e.nonce = Len(log[n]) + 1
  BY <1>0, NoneAssumption DEF Envelopes
<1>2. Durable' /\ Grown /\ NothingNew
  <2>1. UNCHANGED <<log, certs>>
    BY DEF Begin
  <2>2. CASE ~clean
    <3>1. pending' = [pending EXCEPT ![n] = pending[n]]
      BY <2>2 DEF Begin
    <3> QED
      BY <2>1, <3>1, PendingChanged DEF IInv, Durable, Types, PendingOK
  <2>3. CASE clean /\ op # Sync /\ applies(n, op)
    <3>1. pending' = [pending EXCEPT ![n] = e]
      BY <2>3 DEF Begin
    <3>2. e.nonce <= Len(log[n]) + 1
      BY <1>0, <1>1, <2>3
    <3> QED
      BY <2>1, <2>3, <3>1, <3>2, <1>1, PendingChanged DEF IInv
  <2>4. CASE clean /\ ~(op # Sync /\ applies(n, op))
    <3>1. pending' = [pending EXCEPT ![n] = None]
      BY <2>4 DEF Begin
    <3> QED
      BY <2>1, <3>1, PendingChanged DEF IInv
  <2> QED
    BY <2>2, <2>3, <2>4
<1>3. job \in [Nodes -> [kind : Kinds, op : Mutations \cup {Sync, None},
                               env : Envelopes \cup {None}, task : [Nodes -> Tasks]]]
  BY DEF IInv, Jobs, JobTypes
<1>4. Unstarted \in [Nodes -> Tasks] /\ \A p \in Nodes : Unstarted[p].at = "position"
  BY NewTaskTyped DEF Unstarted
<1>5. PICK j : /\ job' = [job EXCEPT ![n] = j]
               /\ \/ ~clean /\ j = Doing("old", op, pending[n])
                  \/ clean /\ op = Sync /\ j = Doing("sync", Sync, None)
                  \/ clean /\ op # Sync /\ applies(n, op) /\ j = Doing("prepare", op, e)
                  \/ j = Idle
  BY DEF Begin
<1>6. \/ /\ ~clean /\ j = [kind |-> "old", op |-> op, env |-> pending[n], task |-> Unstarted]
         /\ pending[n] \in Envelopes
      \/ op = Sync /\ j = [kind |-> "sync", op |-> op, env |-> None, task |-> Unstarted]
      \/ op # Sync /\ j = [kind |-> "prepare", op |-> op, env |-> e, task |-> Unstarted]
      \/ j = [kind |-> "idle", op |-> None, env |-> None, task |-> Unstarted]
  <2>1. pending[n] \in Envelopes \cup {None}
    BY DEF IInv, Durable, Types
  <2> QED
    BY <1>5, <2>1 DEF Idle, Doing
<1>7. j \in [kind : Kinds, op : Mutations \cup {Sync, None},
             env : Envelopes \cup {None}, task : [Nodes -> Tasks]]
  BY <1>1, <1>4, <1>6 DEF Kinds
<1>8. JobTypes' /\ job'[n] = j /\ \A p \in Nodes \ {n} : job'[p] = job[p]
  BY <1>3, <1>5, <1>7 DEF JobTypes
<1>9. JobOK(n)'
  <2>1. UNCHANGED <<log, certs>> /\ op # None
    BY NoneAssumption DEF Begin
  <2>2. \A p \in Peers(n) : PreparingOK(n, p)'
    <3>1. \A p \in Peers(n) : j.task[p].at = "position"
      BY <1>4, <1>6 DEF Peers
    <3> QED
      BY <1>8, <3>1 DEF PreparingOK, TaskOK
  <2>3. j.kind \in {"prepare", "abort"} =>
           op \in Mutations /\ j.op = op /\
           j.env = [leader |-> n, nonce |-> Len(log[n]) + 1, mutation |-> op]
    BY <1>0, <1>6
  <2>4. j.kind # "commit" /\ (j.kind = "old" => j.env \in Envelopes) /\ (j.kind # "idle" => j.op = op)
    BY <1>6
  <2>5. j.kind # "idle" => term(n)' >= Rank(n) - 1 /\ j.op # None
    BY <2>1, <2>4 DEF term
  <2> QED
    BY <1>8, <2>1, <2>2, <2>3, <2>4, <2>5 DEF JobOK
<1>10. j.kind # "commit" /\ (j.kind # "idle" => j.op = op)
  BY <1>6
<1> QED
  BY <1>2, <1>8, <1>9, <1>10 DEF Begin, Owns

\* A node that names itself leader has the term of its rank.
LEMMA LeaderHere ==
    ASSUME Durable, NEW n \in Nodes, leader(n) = n
    PROVE  term(n) = Rank(n) - 1
BY Leading

\* A step that changes no saved state.
LEMMA DurableStays ==
    ASSUME Durable, UNCHANGED durable
    PROVE  Durable' /\ Grown /\ NothingNew
<1>1. Types' /\ \A p \in Nodes : PendingOK(p)'
  BY DEF durable, Durable, Types, PendingOK
<1> QED
  BY <1>1, DurableFrame, GrownRefl DEF durable

\* An operation that passes the leadership check starts or waits; no other one moves.
LEMMA EnterStep ==
    ASSUME IInv, NEW n \in Nodes, NEW op \in Mutations \cup {Sync}, Enter(n, op)
    PROVE  /\ Durable' /\ Grown /\ NothingNew /\ Jobs' /\ Takeovers' /\ LateOK'
           /\ queue' \in [Nodes -> Mutations \cup {Sync, None}]
           /\ \A r \in Nodes : job'[r].kind = "commit" => job[r].kind = "commit" /\ job'[r].op = job[r].op
           /\ \E w \in Places : \A x \in Mutations : \A r \in Nodes, v \in Places :
                  Owns(r, v, x)' => Owns(r, v, x) \/ (x = op /\ r = n /\ v = w)
<1>1. term(n) = Rank(n) - 1 /\ term(n) \in Nat /\ Rank(n) \in Nat /\ queue[n] = None
  BY LeaderHere, Ranks, LogTyped DEF Enter, IInv, Durable
<1>2. queue \in [Nodes -> Mutations \cup {Sync, None}]
  BY DEF IInv, ClientOK
<1>3. CASE unlocked(n)
  <2>1. Begin(n, op) /\ UNCHANGED <<queue, takeover, late>>
    BY <1>3 DEF Enter
  <2>2. /\ Durable' /\ Grown /\ NothingNew /\ UNCHANGED <<log, certs>>
        /\ JobTypes' /\ JobOK(n)' /\ (\A p \in Nodes \ {n} : job'[p] = job[p])
        /\ job'[n].kind # "commit"
        /\ \A m \in Mutations : Owns(n, "lock", m)' => m = op
    BY <1>1, <2>1, BeginStep
  <2>3. \A p \in Nodes \ {n} : JobOK(p)'
    BY <2>2, OthersStay
  <2>4. \A p \in Nodes : QueueOK(p)'
    BY <2>1, <2>2, QueueStays DEF IInv, Jobs
  <2>5. Takeovers' /\ LateOK'
    BY <2>1, <2>2, SuccessorsStay, LateStays DEF IInv, Durable
  <2>6. \A x \in Mutations : \A r \in Nodes, v \in Places :
            Owns(r, v, x)' => Owns(r, v, x) \/ (x = op /\ r = n /\ v = "lock")
    BY <2>1, <2>2 DEF Owns, Places
  <2> QED
    BY <1>2, <2>1, <2>2, <2>3, <2>4, <2>5, <2>6 DEF Jobs, Places
<1>4. CASE ~unlocked(n)
  <2>1. UNCHANGED <<durable, job, takeover, late>> /\ queue' = [queue EXCEPT ![n] = op]
    BY <1>4 DEF Enter
  <2>2. Durable' /\ Grown /\ NothingNew
    BY <2>1, DurableStays DEF IInv
  <2>3. \A p \in Nodes : JobOK(p)'
    BY <2>1, <2>2, JobStays DEF IInv, Jobs, durable
  <2>4. \A p \in Nodes : QueueOK(p)'
    <3>1. \A p \in Nodes : term(p)' = term(p)
      BY <2>1 DEF durable, term
    <3>2. \A p \in Nodes \ {n} : queue'[p] = queue[p]
      BY <1>2, <2>1
    <3> QED
      BY <1>1, <3>1, <3>2 DEF QueueOK, IInv, Jobs
  <2>5. Takeovers' /\ LateOK'
    BY <2>1, <2>2, SuccessorsStay, LateStays DEF IInv, Durable, durable
  <2>6. \A x \in Mutations : \A r \in Nodes, v \in Places :
            Owns(r, v, x)' => Owns(r, v, x) \/ (x = op /\ r = n /\ v = "queue")
    BY <1>2, <2>1 DEF Owns, Places
  <2>7. JobTypes' /\ queue' \in [Nodes -> Mutations \cup {Sync, None}]
    BY <1>2, <2>1 DEF JobTypes, IInv, Jobs
  <2> QED
    BY <2>1, <2>2, <2>3, <2>4, <2>5, <2>6, <2>7 DEF Jobs, Places
<1> QED
  BY <1>3, <1>4

\* A client's request keeps the invariant: it was never asked before, so it is applied nowhere
\* and owned nowhere else.
LEMMA SubmitStep ==
    ASSUME IInv, NEW n \in Nodes, NEW m \in Mutations, Submit(n, m)
    PROVE  IInv'
<1>1. /\ Enter(n, m) /\ m \notin asked /\ asked' = asked \cup {m}
      /\ UNCHANGED <<acked, refused, faults>>
  BY DEF Submit
<1>2. /\ Durable' /\ Grown /\ NothingNew /\ Jobs' /\ Takeovers' /\ LateOK'
      /\ queue' \in [Nodes -> Mutations \cup {Sync, None}]
      /\ \A r \in Nodes : job'[r].kind = "commit" => job[r].kind = "commit" /\ job'[r].op = job[r].op
  BY <1>1, EnterStep
<1>3. PICK w \in Places : \A x \in Mutations : \A r \in Nodes, v \in Places :
          Owns(r, v, x)' => Owns(r, v, x) \/ (x = m /\ r = n /\ v = w)
  BY <1>1, EnterStep
<1>4. m \notin refused /\ ~Applied(m) /\ \A r \in Nodes, v \in Places : ~Owns(r, v, m)
  BY <1>1 DEF IInv, ClientOK
<1>5. ClientOK'
  BY <1>1, <1>2, <1>3, <1>4, ClientMoves DEF IInv
<1> QED
  BY <1>1, <1>2, <1>5, AckedStays DEF IInv

\* So does a request to sync.
LEMMA SubmitSyncStep ==
    ASSUME IInv, NEW n \in Nodes, SubmitSync(n)
    PROVE  IInv'
<1>1. Enter(n, Sync) /\ UNCHANGED client /\ faults' = faults + 1 /\ Sync \notin Mutations
  BY NoneAssumption DEF SubmitSync, Fault
<1>2. /\ Durable' /\ Grown /\ NothingNew /\ Jobs' /\ Takeovers' /\ LateOK'
      /\ queue' \in [Nodes -> Mutations \cup {Sync, None}]
      /\ \A r \in Nodes : job'[r].kind = "commit" => job[r].kind = "commit" /\ job'[r].op = job[r].op
      /\ \A x \in Mutations : \A r \in Nodes, v \in Places : Owns(r, v, x)' => Owns(r, v, x)
  BY <1>1, EnterStep
<1>3. ClientOK'
  BY <1>1, <1>2, ClientStays DEF IInv, ClientOK, client
<1> QED
  BY <1>1, <1>2, <1>3, AckedStays DEF IInv, client

\* The operation at the head of the queue, or the one that waited for an old record to be
\* aborted, goes on: it stays in one place.
LEMMA LockStep ==
    ASSUME IInv, NEW n \in Nodes, NEW op \in Mutations \cup {Sync}, Begin(n, op),
           \/ job[n].kind = "idle" /\ op = queue[n] /\ queue' = [queue EXCEPT ![n] = None]
           \/ job[n].kind = "old" /\ op = job[n].op /\ UNCHANGED queue,
           UNCHANGED <<takeover, late, client, faults>>
    PROVE  IInv'
<1>1. queue \in [Nodes -> Mutations \cup {Sync, None}]
  BY DEF IInv, ClientOK
<1>2. op # None /\ term(n) >= Rank(n) - 1
  BY NoneAssumption DEF IInv, Jobs, JobOK, QueueOK
<1>3. /\ Durable' /\ Grown /\ NothingNew /\ UNCHANGED <<log, certs>>
      /\ JobTypes' /\ JobOK(n)' /\ (\A p \in Nodes \ {n} : job'[p] = job[p])
      /\ job'[n].kind # "commit"
      /\ \A m \in Mutations : Owns(n, "lock", m)' => m = op
  BY <1>2, BeginStep
<1>4. \A p \in Nodes \ {n} : JobOK(p)'
  BY <1>3, OthersStay
<1>5. \A p \in Nodes : queue'[p] \in {queue[p], None} /\ QueueOK(p)'
  <2>1. \A p \in Nodes : queue'[p] \in {queue[p], None}
    BY <1>1
  <2> QED
    BY <2>1, <1>3, QueueStays DEF IInv, Jobs
<1>6. Takeovers' /\ LateOK'
  BY <1>3, SuccessorsStay, LateStays DEF IInv, Durable
<1>7. queue' \in [Nodes -> Mutations \cup {Sync, None}]
  BY <1>1
<1>8. \A r \in Nodes : job'[r].kind = "commit" => job[r].kind = "commit" /\ job'[r].op = job[r].op
  BY <1>3
<1>9. ClientOK'
  <2>1. \A x \in Mutations : \A r \in Nodes : Owns(r, "queue", x)' => Owns(r, "queue", x)
    BY <1>1, NoneAssumption DEF Owns
  <2>2. \A x \in Mutations : \A r \in Nodes \ {n} : Owns(r, "lock", x)' => Owns(r, "lock", x)
    BY <1>3 DEF Owns
  <2>3. CASE op = Sync
    <3>1. \A x \in Mutations : \A r \in Nodes, v \in Places : Owns(r, v, x)' => Owns(r, v, x)
      BY <2>1, <2>2, <2>3, <1>3, NoneAssumption DEF Places
    <3> QED
      BY <3>1, <1>3, <1>7, <1>8, ClientStays DEF IInv, ClientOK, client
  <2>4. CASE op # Sync
    <3>1. op \in Mutations /\ \E v \in Places : Owns(n, v, op)
      BY <2>4 DEF Owns, Places
    <3>2. op \in asked /\ op \notin refused /\ ~Applied(op)
      BY <3>1 DEF IInv, ClientOK
    <3>3. \A r \in Nodes \ {n}, v \in Places : ~Owns(r, v, op)
      BY <3>1 DEF IInv, ClientOK
    <3>4. ~Owns(n, "queue", op)'
      <4>1. CASE job[n].kind = "idle" /\ queue' = [queue EXCEPT ![n] = None]
        BY <4>1, <1>1, <1>2 DEF Owns
      <4>2. CASE job[n].kind = "old" /\ op = job[n].op /\ UNCHANGED queue
        <5>1. Owns(n, "lock", op)
          BY <4>2 DEF Owns
        <5>2. ~Owns(n, "queue", op)
          BY <5>1, <3>1 DEF IInv, ClientOK, Places
        <5> QED
          BY <4>2, <5>2 DEF Owns
      <4> QED
        BY <4>1, <4>2
    <3>5. \A x \in Mutations : \A r \in Nodes, v \in Places :
             Owns(r, v, x)' => (Owns(r, v, x) /\ x # op) \/ (x = op /\ r = n /\ v = "lock")
      BY <2>1, <2>2, <3>3, <3>4, <1>3 DEF Places
    <3>6. asked' = asked \cup {op} /\ UNCHANGED <<acked, refused>>
      BY <3>2 DEF client
    <3> QED
      BY <3>1, <3>2, <3>5, <3>6, <1>3, <1>7, <1>8, ClientMoves DEF IInv, Places
  <2> QED
    BY <2>3, <2>4
<1> QED
  BY <1>3, <1>4, <1>5, <1>6, <1>9, AckedStays DEF IInv, Jobs, client

\* TakeLock keeps the invariant although leadership is not checked again: a node that has
\* been leader in a term that passed cannot gather a quorum any more.
LEMMA TakeLockStep ==
    ASSUME IInv, NEW n \in Nodes, TakeLock(n)
    PROVE  IInv'
<1>1. queue[n] \in Mutations \cup {Sync}
  BY DEF TakeLock, IInv, ClientOK
<1> QED
  BY <1>1, LockStep DEF TakeLock, unlocked

\* OldAborted keeps the invariant.
LEMMA OldAbortedStep ==
    ASSUME IInv, NEW n \in Nodes, OldAborted(n)
    PROVE  IInv'
<1>1. job[n].op \in Mutations \cup {Sync}
  <2>1. job[n].op \in Mutations \cup {Sync, None}
    BY DEF IInv, Jobs, JobTypes
  <2>2. job[n].op # None
    BY DEF OldAborted, IInv, Jobs, JobOK
  <2> QED
    BY <2>1, <2>2
<1> QED
  BY <1>1, LockStep DEF OldAborted

\* The type of a job.
JobRecords == [kind : Kinds, op : Mutations \cup {Sync, None},
               env : Envelopes \cup {None}, task : [Nodes -> Tasks]]

\* A job that goes on to its next phase.
LEMMA JobReplaced ==
    ASSUME IInv, Durable', Grown, NEW n \in Nodes, NEW j \in JobRecords,
           job' = [job EXCEPT ![n] = j], JobOK(n)',
           UNCHANGED <<queue, takeover, late, certs>>,
           \A p \in Nodes \ {n} : log'[p] = log[p]
    PROVE  Jobs' /\ Takeovers' /\ LateOK' /\ job'[n] = j /\ \A p \in Nodes \ {n} : job'[p] = job[p]
<1>1. JobTypes' /\ job'[n] = j /\ \A p \in Nodes \ {n} : job'[p] = job[p]
  BY DEF IInv, Jobs, JobTypes, JobRecords
<1>2. \A p \in Nodes : JobOK(p)'
  BY <1>1, OthersStay
<1>3. \A p \in Nodes : QueueOK(p)'
  BY QueueStays DEF IInv, Jobs
<1>4. Takeovers' /\ LateOK'
  BY SuccessorsStay, LateStays DEF IInv, Durable
<1> QED
  BY <1>1, <1>2, <1>3, <1>4 DEF Jobs

\* What the invariant says of one node's job.
LEMMA JobHere ==
    ASSUME IInv, NEW n \in Nodes
    PROVE  job[n] \in JobRecords /\ JobOK(n)
BY DEF IInv, Jobs, JobTypes, JobRecords

\* A job that starts has its type, and no peer has answered it.
LEMMA FreshJob ==
    ASSUME NEW k \in Kinds, NEW op \in Mutations \cup {Sync, None}, NEW e \in Envelopes \cup {None}
    PROVE  /\ Doing(k, op, e) \in JobRecords
           /\ Doing(k, op, e).kind = k /\ Doing(k, op, e).op = op /\ Doing(k, op, e).env = e
           /\ \A p \in Nodes : Doing(k, op, e).task[p].at = "position"
<1>1. Unstarted \in [Nodes -> Tasks] /\ \A p \in Nodes : Unstarted[p].at = "position"
  BY NewTaskTyped DEF Unstarted
<1> QED
  BY <1>1 DEF Doing, JobRecords

\* An idle job is one.
LEMMA IdleIs ==
    Idle \in JobRecords /\ Idle.kind = "idle"
BY FreshJob DEF Idle, Kinds

\* GiveUp keeps the invariant: the record to abort is the one that was prepared.
LEMMA GiveUpStep ==
    ASSUME IInv, NEW n \in Nodes, GiveUp(n)
    PROVE  IInv'
<1>1. /\ job[n].kind = "prepare" /\ UNCHANGED <<durable, queue, takeover, late, client, faults>>
      /\ job' = [job EXCEPT ![n] = Doing("abort", job[n].op, job[n].env)]
  BY DEF GiveUp
<1>2. Durable' /\ Grown /\ NothingNew
  BY <1>1, DurableStays DEF IInv
<1>3. PICK op \in Mutations \cup {Sync, None}, e \in Envelopes \cup {None} : op = job[n].op /\ e = job[n].env
  BY JobHere DEF JobRecords
<1>4. PICK j \in JobRecords : /\ j = Doing("abort", op, e)
                              /\ j.kind = "abort" /\ j.op = op /\ j.env = e
  BY FreshJob DEF Kinds
<1>5. job' = [job EXCEPT ![n] = j] /\ job'[n] = j
  BY <1>1, <1>3, <1>4 DEF IInv, Jobs, JobTypes
<1>6. JobOK(n)'
  <2>1. JobOK(n) /\ log' = log /\ certs' = certs
    BY <1>1, JobHere DEF durable
  <2> QED
    BY <1>1, <1>3, <1>4, <1>5, <2>1 DEF JobOK, term
<1>7. Jobs' /\ Takeovers' /\ LateOK' /\ job'[n] = j /\ \A p \in Nodes \ {n} : job'[p] = job[p]
  BY <1>1, <1>2, <1>5, <1>6, JobReplaced DEF durable
<1>8. ClientOK'
  <2>1. \A x \in Mutations : \A r \in Nodes, v \in Places : Owns(r, v, x)' => Owns(r, v, x)
    BY <1>1, <1>3, <1>4, <1>7 DEF Owns
  <2>2. \A r \in Nodes : job'[r].kind = "commit" => job[r].kind = "commit" /\ job'[r].op = job[r].op
    BY <1>4, <1>7
  <2> QED
    BY <1>1, <1>2, <2>1, <2>2, ClientStays DEF IInv, ClientOK, client
<1> QED
  BY <1>1, <1>2, <1>7, <1>8, AckedStays DEF IInv, client

\* A job that ends owns nothing any more.
LEMMA FinishStep ==
    ASSUME IInv, NEW n \in Nodes, job' = [job EXCEPT ![n] = Idle],
           Durable', Grown, UNCHANGED <<log, certs, queue, takeover, late, faults>>
    PROVE  /\ Jobs' /\ Takeovers' /\ LateOK' /\ faults' \in Nat
           /\ \A x \in Mutations : \A r \in Nodes, v \in Places :
                  Owns(r, v, x)' => Owns(r, v, x) /\ ~(r = n /\ v = "lock")
           /\ \A r \in Nodes : job'[r].kind = "commit" => job[r].kind = "commit" /\ job'[r].op = job[r].op
<1>1. PICK j \in JobRecords : j = Idle /\ j.kind = "idle"
  BY IdleIs
<1>2. job' = [job EXCEPT ![n] = j] /\ job'[n] = j
  BY <1>1 DEF IInv, Jobs, JobTypes
<1>3. JobOK(n)'
  BY <1>1, <1>2 DEF JobOK
<1>4. Jobs' /\ Takeovers' /\ LateOK' /\ job'[n] = j /\ \A p \in Nodes \ {n} : job'[p] = job[p]
  BY <1>2, <1>3, JobReplaced
<1> QED
  BY <1>1, <1>4 DEF Owns, Places, IInv

\* AnswerSynced keeps the invariant.
LEMMA AnswerSyncedStep ==
    ASSUME IInv, NEW n \in Nodes, AnswerSynced(n)
    PROVE  IInv'
<1>1. /\ UNCHANGED <<durable, queue, takeover, late, client, faults>>
      /\ job' = [job EXCEPT ![n] = Idle]
  BY DEF AnswerSynced
<1>2. Durable' /\ Grown /\ NothingNew
  BY <1>1, DurableStays DEF IInv
<1>3. /\ Jobs' /\ Takeovers' /\ LateOK' /\ faults' \in Nat
      /\ \A x \in Mutations : \A r \in Nodes, v \in Places : Owns(r, v, x)' => Owns(r, v, x)
      /\ \A r \in Nodes : job'[r].kind = "commit" => job[r].kind = "commit" /\ job'[r].op = job[r].op
  BY <1>1, <1>2, FinishStep DEF durable
<1>4. ClientOK'
  BY <1>1, <1>2, <1>3, ClientStays DEF IInv, ClientOK, client
<1> QED
  BY <1>1, <1>2, <1>3, <1>4, AckedStays DEF IInv, client

\* AnswerCommitted keeps the invariant: a peer that confirmed the commit has the record in its
\* log, which is what the client's result promises.
LEMMA AnswerCommittedStep ==
    ASSUME IInv, NEW n \in Nodes, AnswerCommitted(n)
    PROVE  IInv'
<1>1. /\ UNCHANGED <<durable, queue, takeover, late, asked, refused, faults>>
      /\ job' = [job EXCEPT ![n] = Idle] /\ job[n].kind = "commit"
      /\ acked' = IF Acknowledged(n) THEN acked \cup {job[n].op} ELSE acked
  BY DEF AnswerCommitted
<1>2. Durable' /\ Grown /\ NothingNew
  BY <1>1, DurableStays DEF IInv
<1>3. /\ Jobs' /\ Takeovers' /\ LateOK' /\ faults' \in Nat
      /\ \A x \in Mutations : \A r \in Nodes, v \in Places : Owns(r, v, x)' => Owns(r, v, x)
      /\ \A r \in Nodes : job'[r].kind = "commit" => job[r].kind = "commit" /\ job'[r].op = job[r].op
  BY <1>1, <1>2, FinishStep DEF durable
<1>4. ClientOK'
  <2>1. acked' \subseteq asked
    BY <1>1 DEF IInv, ClientOK
  <2> QED
    BY <1>1, <1>2, <1>3, <2>1, ClientStays DEF IInv, ClientOK
<1>5. AckedOK'
  <2>1. log' = log
    BY <1>1 DEF durable
  <2>2. Acknowledged(n) => \E p \in Nodes : \E k \in 1..Len(log[p]) :
                               log[p][k].mutation = job[n].op /\ log[p][k].leader # p
    <3> SUFFICES ASSUME NEW p \in Peers(n), job[n].task[p].at = "done"
                 PROVE  \E k \in 1..Len(log[p]) : log[p][k].mutation = job[n].op /\ log[p][k].leader # p
      BY DEF Acknowledged, Peers
    <3>1. JobOK(n)
      BY JobHere
    <3>2. /\ job[n].env.nonce \in 1..Len(log[p]) /\ log[p][job[n].env.nonce] = job[n].env
          /\ job[n].env.leader = n /\ job[n].env.mutation = job[n].op
      BY <1>1, <3>1 DEF JobOK
    <3>3. n # p
      BY DEF Peers
    <3> QED
      BY <3>2, <3>3
  <2> QED
    BY <1>1, <2>1, <2>2 DEF IInv, AckedOK
<1> QED
  BY <1>2, <1>3, <1>4, <1>5 DEF IInv

\* AnswerRefused keeps the invariant: the mutation is applied nowhere, and its only owner is
\* gone, so nothing will apply it.
LEMMA AnswerRefusedStep ==
    ASSUME IInv, NEW n \in Nodes, AnswerRefused(n)
    PROVE  IInv'
<1>1. /\ UNCHANGED <<log, certs, queue, takeover, late, asked, acked, faults>>
      /\ job' = [job EXCEPT ![n] = Idle] /\ job[n].kind = "abort"
      /\ refused' = refused \cup {job[n].op}
      /\ pending' = [pending EXCEPT ![n] = None]
  BY DEF AnswerRefused
<1>2. Durable' /\ Grown /\ NothingNew
  BY <1>1, PendingChanged DEF IInv
<1>3. /\ Jobs' /\ Takeovers' /\ LateOK' /\ faults' \in Nat
      /\ \A x \in Mutations : \A r \in Nodes, v \in Places :
             Owns(r, v, x)' => Owns(r, v, x) /\ ~(r = n /\ v = "lock")
      /\ \A r \in Nodes : job'[r].kind = "commit" => job[r].kind = "commit" /\ job'[r].op = job[r].op
  BY <1>1, <1>2, FinishStep
<1>4. job[n].op \in Mutations /\ Owns(n, "lock", job[n].op)
  BY <1>1, JobHere DEF JobOK, Owns
<1>5. PICK m \in Mutations : m = job[n].op
  BY <1>4
<1>6. ~Applied(m) /\ m \in asked
  BY <1>4, <1>5 DEF IInv, ClientOK, Places
<1>7. \A x \in Mutations : \A r \in Nodes, v \in Places : Owns(r, v, x)' => Owns(r, v, x) /\ x # m
  BY <1>3, <1>4, <1>5 DEF IInv, ClientOK, Places
<1>8. ClientOK'
  <2>1. /\ asked' = asked /\ asked' \subseteq Mutations /\ acked' \subseteq asked'
        /\ refused' = refused \cup {m} /\ refused' \subseteq asked'
    BY <1>1, <1>5, <1>6 DEF IInv, ClientOK
  <2>2. \A x \in Mutations : x \in refused' \/ x \notin asked' => ~Applied(x)'
    BY <1>2, <1>6, <2>1 DEF IInv, ClientOK, NothingNew
  <2>3. \A x \in Mutations : \A r \in Nodes, v \in Places :
             Owns(r, v, x)' => x \in asked' /\ x \notin refused' /\ ~Applied(x)'
    BY <1>2, <1>7, <2>1 DEF IInv, ClientOK, NothingNew
  <2>4. \A x \in Mutations : \A r, p \in Nodes, v, u \in Places :
             Owns(r, v, x)' /\ Owns(p, u, x)' => r = p /\ v = u
    BY <1>7 DEF IInv, ClientOK
  <2>5. \A r \in Nodes : job'[r].kind = "commit" => job'[r].op \in asked'
    BY <1>3, <2>1 DEF IInv, ClientOK
  <2>6. queue' \in [Nodes -> Mutations \cup {Sync, None}]
    BY <1>1 DEF IInv, ClientOK
  <2> QED
    BY <2>1, <2>2, <2>3, <2>4, <2>5, <2>6 DEF ClientOK
<1> QED
  BY <1>1, <1>2, <1>3, <1>8, AckedStays DEF IInv

\* Decide keeps the invariant: a peer that acknowledged was in the leader's term, so the leader
\* was, and the new entry has its rank; the replies it waited for cannot have moved its log.
LEMMA DecideStep ==
    ASSUME IInv, NEW n \in Nodes, Decide(n)
    PROVE  IInv'
<1>1. /\ job[n].kind = "prepare" /\ Acknowledged(n)
      /\ log' = [log EXCEPT ![n] = Append(@, job[n].env)]
      /\ pending' = [pending EXCEPT ![n] = None]
      /\ job' = [job EXCEPT ![n] = Doing("commit", job[n].op, job[n].env)]
      /\ UNCHANGED <<certs, queue, takeover, late, client, faults>>
  BY DEF Decide
<1>2. PICK m \in Mutations : m = job[n].op
  BY <1>1, JobHere DEF JobOK
<1>3. PICK e \in Envelopes : /\ e = job[n].env
                             /\ e.leader = n /\ e.nonce = Len(log[n]) + 1 /\ e.mutation = m
  <2>1. job[n].env = [leader |-> n, nonce |-> Len(log[n]) + 1, mutation |-> m]
    BY <1>1, <1>2, JobHere DEF JobOK
  <2> QED
    BY <2>1, LogTyped DEF Envelopes, IInv, Durable
<1>4. Rank(n) = term(n) + 1
  <2>1. term(n) = Rank(n) - 1
    BY <1>1, JobHere DEF Acknowledged, JobOK, PreparingOK
  <2> QED
    BY <2>1, Ranks
<1>5. /\ Durable' /\ Grown /\ Elsewhere(n)
      /\ e.nonce \in 1..Len(log'[n]) /\ log'[n][e.nonce] = e
      /\ \A x : Applied(x)' => Applied(x) \/ x = m
  <2>1. log' = [log EXCEPT ![n] = Append(@, e)] /\ Rank(e.leader) = term(n) + 1
    BY <1>1, <1>3, <1>4
  <2>2. Durable /\ UNCHANGED certs
    BY <1>1 DEF IInv
  <2>3. /\ Durable' /\ Grown /\ Elsewhere(n)
        /\ e.nonce \in 1..Len(log'[n]) /\ log'[n][e.nonce] = e
        /\ \A x : Applied(x)' => Applied(x) \/ x = e.mutation
    BY <1>1, <1>3, <2>1, <2>2, EntryAppended
  <2> QED
    BY <1>3, <2>3
<1>6. PICK j \in JobRecords : /\ j = Doing("commit", m, e)
                              /\ j.kind = "commit" /\ j.op = m /\ j.env = e
                              /\ \A p \in Nodes : j.task[p].at = "position"
  BY FreshJob DEF Kinds
<1>7. job' = [job EXCEPT ![n] = j] /\ job'[n] = j
  BY <1>1, <1>2, <1>3, <1>6 DEF IInv, Jobs, JobTypes
<1>8. JobOK(n)'
  <2>1. Sourced(e)'
    BY <1>3, <1>5 DEF Sourced
  <2>2. m # None /\ term(n)' >= Rank(n) - 1
    BY <1>1, <1>4, NoneAssumption, Ranks DEF term
  <2>3. \A p \in Peers(n) : job'[n].task[p].at # "done"
    BY <1>6, <1>7 DEF Peers
  <2> QED
    BY <1>3, <1>6, <1>7, <2>1, <2>2, <2>3 DEF JobOK
<1>9. Jobs' /\ Takeovers' /\ LateOK' /\ job'[n] = j /\ \A p \in Nodes \ {n} : job'[p] = job[p]
  BY <1>1, <1>5, <1>7, <1>8, JobReplaced DEF Elsewhere
<1>10. Owns(n, "lock", m)
  BY <1>1, <1>2 DEF Owns
<1>11. \A x \in Mutations : \A r \in Nodes, v \in Places : Owns(r, v, x)' => Owns(r, v, x) /\ x # m
  <2>1. \A x \in Mutations : \A r \in Nodes, v \in Places :
            Owns(r, v, x)' => Owns(r, v, x) /\ ~(r = n /\ v = "lock")
    BY <1>1, <1>6, <1>9 DEF Owns, Places
  <2> QED
    BY <2>1, <1>10 DEF IInv, ClientOK, Places
<1>12. m \in asked /\ m \notin refused
  BY <1>10 DEF IInv, ClientOK, Places
<1>13. ClientOK'
  <2>1. /\ asked' = asked /\ refused' = refused /\ acked' = acked
        /\ queue' \in [Nodes -> Mutations \cup {Sync, None}]
    BY <1>1 DEF client, IInv, ClientOK
  <2>2. \A x \in Mutations : x \in refused' \/ x \notin asked' => ~Applied(x)'
    BY <1>5, <1>12, <2>1 DEF IInv, ClientOK
  <2>3. \A x \in Mutations : \A r \in Nodes, v \in Places :
             Owns(r, v, x)' => x \in asked' /\ x \notin refused' /\ ~Applied(x)'
    BY <1>5, <1>11, <2>1 DEF IInv, ClientOK
  <2>4. \A x \in Mutations : \A r, p \in Nodes, v, u \in Places :
             Owns(r, v, x)' /\ Owns(p, u, x)' => r = p /\ v = u
    BY <1>11 DEF IInv, ClientOK
  <2>5. \A r \in Nodes : job'[r].kind = "commit" => job'[r].op \in asked'
    BY <1>6, <1>9, <1>12, <2>1 DEF IInv, ClientOK
  <2> QED
    BY <2>1, <2>2, <2>3, <2>4, <2>5 DEF ClientOK, IInv
<1> QED
  BY <1>1, <1>5, <1>9, <1>13, AckedStays DEF IInv, client

\* One task of a job changes, and nothing else of it.
LEMMA TaskReplaced ==
    ASSUME IInv, NEW n \in Nodes, NEW p \in Peers(n), NEW u \in Tasks,
           job' = [job EXCEPT ![n].task[p] = u]
    PROVE  /\ JobTypes'
           /\ job'[n].kind = job[n].kind /\ job'[n].op = job[n].op /\ job'[n].env = job[n].env
           /\ job'[n].task[p] = u
           /\ \A r \in Nodes \ {p} : job'[n].task[r] = job[n].task[r]
           /\ \A r \in Nodes \ {n} : job'[r] = job[r]
<1>1. job \in [Nodes -> JobRecords] /\ p \in Nodes
  BY DEF IInv, Jobs, JobTypes, JobRecords, Peers
<1>2. PICK j \in JobRecords : j = job[n]
  BY <1>1
<1>3. PICK s \in [Nodes -> Tasks] : s = [j.task EXCEPT ![p] = u]
  BY <1>1, <1>2 DEF JobRecords
<1>4. PICK i \in JobRecords : /\ i = [j EXCEPT !.task = s]
                              /\ i.kind = j.kind /\ i.op = j.op /\ i.env = j.env /\ i.task = s
  <2>1. [j EXCEPT !.task = s] = [kind |-> j.kind, op |-> j.op, env |-> j.env, task |-> s]
    BY <1>2, <1>3 DEF JobRecords
  <2>2. [kind |-> j.kind, op |-> j.op, env |-> j.env, task |-> s] \in JobRecords
    BY <1>2, <1>3 DEF JobRecords
  <2> QED
    BY <2>1, <2>2
<1>5. job' = [job EXCEPT ![n] = i]
  BY <1>1, <1>2, <1>3, <1>4
<1>6. job'[n] = i /\ job' \in [Nodes -> JobRecords] /\ \A r \in Nodes \ {n} : job'[r] = job[r]
  BY <1>1, <1>5
<1>7. s[p] = u /\ \A r \in Nodes \ {p} : s[r] = j.task[r]
  BY <1>1, <1>2, <1>3 DEF JobRecords
<1> QED
  BY <1>2, <1>4, <1>6, <1>7 DEF JobTypes, JobRecords

\* A call that a job makes to one peer keeps the invariant when the new task of that peer does.
LEMMA WorkerStep ==
    ASSUME IInv, NEW n \in Nodes, NEW p \in Peers(n), NEW u \in Tasks,
           job' = [job EXCEPT ![n].task[p] = u], job[n].kind # "idle",
           Durable', Grown, NothingNew, Calm, LateOK',
           UNCHANGED <<queue, takeover, client, faults>>,
           job[n].kind = "commit" /\ u.at = "done" =>
               /\ job[n].env.nonce \in 1..Len(log'[p])
               /\ log'[p][job[n].env.nonce] = job[n].env,
           job[n].kind \in {"prepare", "sync"} => PreparingOK(n, p)'
    PROVE  IInv'
<1>1. /\ JobTypes'
      /\ job'[n].kind = job[n].kind /\ job'[n].op = job[n].op /\ job'[n].env = job[n].env
      /\ job'[n].task[p] = u
      /\ \A r \in Nodes \ {p} : job'[n].task[r] = job[n].task[r]
      /\ \A r \in Nodes \ {n} : job'[r] = job[r]
  BY TaskReplaced
<1>2. log'[n] = log[n] /\ certs'[n] = certs[n] /\ JobOK(n) /\ Durable
  BY JobHere DEF Calm, IInv
<1>3. \A r \in Nodes : Len(log[r]) \in Nat /\ Len(log'[r]) \in Nat /\ Len(log[r]) <= Len(log'[r])
  BY DEF IInv, Durable, Types, Grown
<1>4. JobOK(n)'
  <2>1. CASE job[n].kind = "commit"
    <3>1. PICK e \in Envelopes : e = job[n].env
      BY <1>2, <2>1 DEF JobOK
    <3>2. Sourced(e)'
      BY <1>2, <2>1, <3>1, SourcedStays DEF JobOK, Durable
    <3>3. Sourced(job[n].env)'
      BY <1>1, <3>1, <3>2 DEF Sourced
    <3>4. ASSUME NEW r \in Peers(n), job'[n].task[r].at = "done"
          PROVE  e.nonce \in 1..Len(log'[r]) /\ log'[r][e.nonce] = e
      <4>1. CASE r = p
        BY <1>1, <2>1, <3>1, <3>4, <4>1
      <4>2. CASE r # p
        <5>1. r \in Nodes /\ e.nonce \in 1..Len(log[r]) /\ log[r][e.nonce] = e
          BY <1>1, <1>2, <2>1, <3>1, <3>4, <4>2 DEF JobOK, Peers
        <5> QED
          BY <5>1, <1>3 DEF Grown
      <4> QED
        BY <4>1, <4>2
    <3> QED
      BY <1>1, <1>2, <2>1, <3>1, <3>3, <3>4 DEF JobOK, term
  <2>2. CASE job[n].kind \in {"prepare", "sync"}
    <3>1. ASSUME NEW r \in Peers(n) PROVE PreparingOK(n, r)'
      <4>1. CASE r = p
        BY <4>1, <2>2
      <4>2. CASE r # p
        <5>1. PreparingOK(n, r) /\ r \in Nodes /\ job'[n].task[r] = job[n].task[r]
          BY <1>1, <1>2, <2>2, <4>2 DEF JobOK, Peers
        <5>2. PICK t : t = job[n].task[r] /\ t = job'[n].task[r]
          BY <5>1
        <5>3. TaskOK(n, r, t) /\ Len(log'[n]) = Len(log[n]) /\ term(n)' = term(n)
          BY <1>2, <5>1, <5>2 DEF PreparingOK, term
        <5>4. TaskOK(n, r, t)'
          BY <1>3, <5>1, <5>2, <5>3 DEF TaskOK
        <5>5. TaskOK(n, r, job[n].task[r])'
          BY <5>2, <5>4
        <5>6. /\ t.at \in {"prepare", "commit"} => t.upto = Len(log'[n])
              /\ t.at \in {"synced", "done"} => Len(log'[n]) <= Len(log'[r])
              /\ job'[n].kind = "prepare" /\ t.at = "done" => term(n)' = Rank(n) - 1
          BY <1>1, <1>3, <5>1, <5>2, <5>3 DEF PreparingOK
        <5> QED
          BY <5>2, <5>5, <5>6 DEF PreparingOK
      <4> QED
        BY <4>1, <4>2
    <3> QED
      BY <1>1, <1>2, <2>2, <3>1 DEF JobOK, term
  <2>3. CASE job[n].kind \notin {"commit", "prepare", "sync"}
    BY <1>1, <1>2, <2>3 DEF JobOK, term
  <2> QED
    BY <2>1, <2>2, <2>3
<1>5. \A r \in Nodes : JobOK(r)' /\ QueueOK(r)'
  <2>1. \A r \in Nodes \ {n} : JobOK(r)'
    BY <1>1, OthersStay DEF Calm
  <2>2. \A r \in Nodes : QueueOK(r)'
    BY <1>2, QueueStays DEF IInv, Jobs
  <2> QED
    BY <1>4, <2>1, <2>2
<1>6. Takeovers'
  BY SuccessorsStay DEF Calm
<1>7. ClientOK'
  <2>1. \A x \in Mutations : \A r \in Nodes, v \in Places : Owns(r, v, x)' => Owns(r, v, x)
    <3>1. \A r \in Nodes : job'[r].kind = job[r].kind /\ job'[r].op = job[r].op
      BY <1>1
    <3> QED
      BY <3>1 DEF Owns
  <2>2. \A r \in Nodes : job'[r].kind = "commit" => job[r].kind = "commit" /\ job'[r].op = job[r].op
    BY <1>1
  <2> QED
    BY <2>1, <2>2, ClientStays DEF IInv, ClientOK, client
<1> QED
  BY <1>1, <1>5, <1>6, <1>7, AckedStays DEF IInv, Jobs, client

\* Tasks that ended are tasks.
LEMMA SpecialTasks ==
    /\ Failed \in Tasks /\ Failed.at = "failed"
    /\ Done \in Tasks /\ Done.at = "done"
    /\ [NewTask EXCEPT !.at = "synced"] \in Tasks /\ [NewTask EXCEPT !.at = "synced"].at = "synced"
BY DEF Failed, Done, NewTask, Tasks

\* Prepare, commit and abort carry no certificate.
LEMMA PlainRequest ==
    ASSUME NEW p, NEW e
    PROVE  Foreign(p, Prepare(e)) /\ Foreign(p, Commit(e)) /\ Foreign(p, Abort(e))
BY DEF Foreign, Prepare, Commit, Abort

\* Broadcast keeps the invariant: a peer that answers a commit has the record.
LEMMA BroadcastStep ==
    ASSUME IInv, NEW n \in Nodes, NEW p \in Peers(n), Broadcast(n, p)
    PROVE  IInv'
<1>1. job[n].kind \in {"old", "abort", "commit"} /\ UNCHANGED <<queue, takeover, client, faults>>
  BY DEF Broadcast
<1>2. JobOK(n) /\ p \in Nodes /\ Durable /\ LateOK
  BY JobHere DEF Peers, IInv
<1>3. PICK e \in Envelopes : e = job[n].env
  <2>1. job[n].kind = "abort" => job[n].env \in Envelopes
    BY <1>2, LogTyped DEF JobOK, Envelopes, Durable
  <2> QED
    BY <1>1, <1>2, <2>1 DEF JobOK
<1>4. PICK q : q = IF job[n].kind = "commit" THEN Commit(e) ELSE Abort(e)
  OBVIOUS
<1>5. Legit(p, q) /\ Foreign(p, q)
  <2>1. job[n].kind = "commit" => Sourced(e)
    BY <1>2, <1>3 DEF JobOK
  <2> QED
    BY <1>4, <2>1, PlainRequest DEF Legit, Commit, Abort
<1>6. PICK ok \in BOOLEAN : /\ Call(p, q, ok)
                            /\ job' = [job EXCEPT ![n].task[p] = IF ok THEN Done ELSE Failed]
  BY <1>3, <1>4 DEF Broadcast
<1>7. /\ Durable' /\ Grown /\ NothingNew /\ Calm /\ LateOK'
      /\ ok => succeeds(p, q) /\ Handle(p, q)
  BY <1>2, <1>5, <1>6, CallStep
<1>8. PICK u \in Tasks : u = (IF ok THEN Done ELSE Failed) /\ (u.at = "done" => ok)
  BY SpecialTasks
<1>9. job[n].kind = "commit" /\ u.at = "done" =>
          /\ job[n].env.nonce \in 1..Len(log'[p])
          /\ log'[p][job[n].env.nonce] = job[n].env
  <2> SUFFICES ASSUME job[n].kind = "commit", u.at = "done"
               PROVE  e.nonce \in 1..Len(log'[p]) /\ log'[p][e.nonce] = e
    BY <1>3
  <2>1. Sourced(e) /\ succeeds(p, Commit(e)) /\ Handle(p, Commit(e))
    BY <1>2, <1>3, <1>4, <1>7, <1>8 DEF JobOK
  <2> QED
    BY <1>2, <2>1, CommitLands
<1> QED
  BY <1>1, <1>6, <1>7, <1>8, <1>9, WorkerStep

\* The task that _sync_history makes of a peer's position replays what is above it.
LEMMA LocatedTask ==
    ASSUME Durable, NEW n \in Nodes, NEW p \in Nodes, NEW u \in Located(n, p)
    PROVE  /\ u \in Tasks /\ TaskOK(n, p, u) /\ u.at # "done"
           /\ u.at \in {"prepare", "commit"} => u.upto = Len(log[n])
           /\ u.at = "synced" => Len(log[n]) <= Len(log[p])
<1>1. /\ position(n) = Len(log[n]) /\ position(p) = Len(log[p])
      /\ Len(log[n]) \in Nat /\ Len(log[p]) \in Nat
  BY PositionIsLength, LogTyped DEF Durable
<1>2. \/ u = Failed
      \/ position(p) = position(n) /\ u = [NewTask EXCEPT !.at = "synced"]
      \/ /\ position(p) < position(n)
         /\ u = [at |-> "prepare", next |-> position(p) + 1, upto |-> position(n), ok |-> TRUE]
  BY <1>1 DEF Located, Behind
<1>3. CASE u = Failed
  BY <1>3, SpecialTasks DEF TaskOK
<1>4. CASE position(p) = position(n) /\ u = [NewTask EXCEPT !.at = "synced"]
  BY <1>1, <1>4, SpecialTasks DEF TaskOK
<1>5. CASE /\ position(p) < position(n)
           /\ u = [at |-> "prepare", next |-> position(p) + 1, upto |-> position(n), ok |-> TRUE]
  BY <1>1, <1>5 DEF TaskOK, Tasks
<1> QED
  BY <1>2, <1>3, <1>4, <1>5

\* The next call of a replay is for an entry that follows the peer's log.
LEMMA DueIsLegit ==
    ASSUME Durable, NEW n \in Nodes, NEW p \in Nodes, NEW t \in Tasks, TaskOK(n, p, t),
           t.at \in {"prepare", "commit"}
    PROVE  Legit(p, Due(n, t)) /\ Foreign(p, Due(n, t))
<1>1. PICK k \in 1..Len(log[n]) : k = t.next /\ k <= Len(log[p]) + 1
  BY LogTyped DEF TaskOK, Tasks, Durable
<1>2. PICK e \in Envelopes : e = log[n][k]
  BY LogTyped DEF Durable
<1>3. Sourced(e) /\ e.nonce = k
  BY <1>2 DEF Durable, LogOK
<1>4. Due(n, t) = IF t.at = "prepare" THEN Prepare(e) ELSE Commit(e)
  BY <1>1, <1>2 DEF Due
<1>5. Legit(p, Prepare(e)) /\ Legit(p, Commit(e))
  BY <1>1, <1>3 DEF Legit, Prepare, Commit
<1> QED
  BY <1>4, <1>5, PlainRequest

\* The task after the answer: a commit that succeeded put the entry into the peer's log, so the
\* next one follows it.
LEMMA AfterTask ==
    ASSUME Durable, Durable', Grown, NEW n \in Nodes, NEW p \in Nodes, NEW t \in Tasks,
           TaskOK(n, p, t), t.at \in {"prepare", "commit"}, NEW ok \in BOOLEAN,
           ok => succeeds(p, Due(n, t)) /\ Handle(p, Due(n, t))
    PROVE  /\ After(t, ok) \in Tasks /\ TaskOK(n, p, After(t, ok))'
           /\ After(t, ok).at # "done"
           /\ After(t, ok).at \in {"prepare", "commit"} => After(t, ok).upto = t.upto
           /\ After(t, ok).at = "synced" => t.upto <= Len(log'[p])
<1>1. /\ t.next \in Nat /\ t.upto \in Nat /\ t.next \in 1..t.upto
      /\ t.upto <= Len(log[n]) /\ t.next <= Len(log[p]) + 1
  BY DEF TaskOK, Tasks
<1>2. /\ Len(log[n]) \in Nat /\ Len(log'[n]) \in Nat /\ Len(log[n]) <= Len(log'[n])
      /\ Len(log[p]) \in Nat /\ Len(log'[p]) \in Nat /\ Len(log[p]) <= Len(log'[p])
  BY DEF Durable, Types, Grown
<1>3. t = [at |-> t.at, next |-> t.next, upto |-> t.upto, ok |-> t.ok]
  BY DEF Tasks
<1>4. CASE t.at = "prepare"
  <2>1. After(t, ok) = [at |-> "commit", next |-> t.next, upto |-> t.upto, ok |-> ok]
    BY <1>3, <1>4 DEF After
  <2> QED
    BY <1>1, <1>2, <2>1 DEF TaskOK, Tasks
<1>5. CASE t.at = "commit" /\ ~(ok /\ t.ok)
  <2>1. After(t, ok) = Failed
    BY <1>5 DEF After
  <2> QED
    BY <2>1, SpecialTasks DEF TaskOK
<1>6. CASE t.at = "commit" /\ ok /\ t.ok
  <2>1. PICK k \in 1..Len(log[n]) : k = t.next
    BY <1>1, <1>2
  <2>2. PICK e \in Envelopes : e = log[n][k]
    BY LogTyped DEF Durable
  <2>3. Sourced(e) /\ e.nonce = k
    BY <2>2 DEF Durable, LogOK
  <2>4. Due(n, t) = Commit(e)
    BY <1>6, <2>1, <2>2 DEF Due
  <2>5. k <= Len(log'[p])
    BY <1>2, <1>6, <2>3, <2>4, CommitLands
  <2>6. CASE t.next = t.upto
    <3>1. After(t, ok) = [NewTask EXCEPT !.at = "synced"]
      BY <1>6, <2>6 DEF After
    <3> QED
      BY <2>1, <2>5, <2>6, <3>1, SpecialTasks DEF TaskOK
  <2>7. CASE t.next # t.upto
    <3>1. After(t, ok) = [at |-> "prepare", next |-> t.next + 1, upto |-> t.upto, ok |-> t.ok]
      BY <1>3, <1>6, <2>7 DEF After
    <3>2. t.ok \in BOOLEAN
      BY DEF Tasks
    <3> QED
      BY <1>1, <1>2, <2>1, <2>5, <2>7, <3>1, <3>2 DEF TaskOK, Tasks
  <2> QED
    BY <2>6, <2>7
<1> QED
  BY <1>4, <1>5, <1>6

\* A leader whose term has passed is fenced: every node has passed it, so no prepare of its
\* records can succeed.
LEMMA Fenced ==
    ASSUME Durable, NEW n \in Nodes, NEW p \in Nodes, term(n) >= Rank(n)
    PROVE  term(p) >= Rank(n)
<1>1. \A r \in Nodes : term(r) \in 0..2
  BY Leading
<1> QED
  BY <1>1, NodesAre DEF Durable, Succession, Follows, Rank

\* SyncAndPrepare keeps the invariant: entry by entry in the replay, and for the new record
\* because the peer that takes it is in the leader's term, and then so is the leader.
LEMMA SyncAndPrepareStep ==
    ASSUME IInv, NEW n \in Nodes, NEW p \in Peers(n), SyncAndPrepare(n, p)
    PROVE  IInv'
<1>1. job[n].kind \in {"prepare", "sync"} /\ UNCHANGED <<queue, takeover, client, faults>>
  BY DEF SyncAndPrepare
<1>2. PreparingOK(n, p) /\ p \in Nodes /\ Durable /\ LateOK /\ JobOK(n)
  BY <1>1, JobHere DEF Peers, IInv, JobOK
<1>3. PICK t \in Tasks : t = job[n].task[p]
  BY <1>2, JobHere DEF JobRecords
<1>4. \A r \in Nodes : Len(log[r]) \in Nat
  BY <1>2, LogTyped DEF Durable
<1>5. ASSUME NEW u \in Tasks, job' = [job EXCEPT ![n].task[p] = u],
             Durable', Grown, NothingNew, Calm, LateOK',
             TaskOK(n, p, u)',
             u.at \in {"prepare", "commit"} => u.upto = Len(log[n]),
             u.at \in {"synced", "done"} => Len(log[n]) <= Len(log'[p]),
             job[n].kind = "prepare" /\ u.at = "done" => term(n) = Rank(n) - 1
      PROVE  IInv'
  <2>1. job'[n].task[p] = u /\ job'[n].kind = job[n].kind
    BY <1>5, TaskReplaced
  <2>2. log'[n] = log[n] /\ certs'[n] = certs[n]
    BY <1>1, <1>5 DEF Calm
  <2>3. PreparingOK(n, p)'
    BY <1>5, <2>1, <2>2 DEF PreparingOK, term
  <2> QED
    BY <1>1, <1>5, <2>3, WorkerStep
<1>6. CASE /\ t.at = "position" /\ UNCHANGED <<durable, late>>
           /\ \E u \in Located(n, p) : job' = [job EXCEPT ![n].task[p] = u]
  <2>1. PICK u \in Located(n, p) : job' = [job EXCEPT ![n].task[p] = u]
    BY <1>6
  <2>2. /\ u \in Tasks /\ TaskOK(n, p, u) /\ u.at # "done"
        /\ u.at \in {"prepare", "commit"} => u.upto = Len(log[n])
        /\ u.at = "synced" => Len(log[n]) <= Len(log[p])
    BY <1>2, LocatedTask
  <2>3. Durable' /\ Grown /\ NothingNew /\ Calm
    BY <1>2, <1>6, DurableStays DEF Calm, durable
  <2>4. LateOK' /\ TaskOK(n, p, u)'
    BY <1>2, <1>6, <2>2, <2>3, LateStays, TaskStays DEF Durable
  <2> QED
    BY <1>5, <1>6, <2>1, <2>2, <2>3, <2>4 DEF durable
<1>7. CASE /\ t.at \in {"prepare", "commit"}
           /\ \E ok \in BOOLEAN : /\ Call(p, Due(n, t), ok)
                                  /\ job' = [job EXCEPT ![n].task[p] = After(t, ok)]
  <2>1. PICK ok \in BOOLEAN : /\ Call(p, Due(n, t), ok)
                              /\ job' = [job EXCEPT ![n].task[p] = After(t, ok)]
    BY <1>7
  <2>2. TaskOK(n, p, t) /\ t.upto = Len(log[n])
    BY <1>2, <1>3, <1>7 DEF PreparingOK
  <2>3. PICK q : q = Due(n, t)
    OBVIOUS
  <2>4. Legit(p, q) /\ Foreign(p, q)
    BY <1>2, <1>7, <2>2, <2>3, DueIsLegit
  <2>5. /\ Durable' /\ Grown /\ NothingNew /\ Calm /\ LateOK'
        /\ ok => succeeds(p, q) /\ Handle(p, q)
    BY <1>2, <2>1, <2>3, <2>4, CallStep
  <2>6. PICK u : u = After(t, ok)
    OBVIOUS
  <2>7. /\ u \in Tasks /\ TaskOK(n, p, u)' /\ u.at # "done"
        /\ u.at \in {"prepare", "commit"} => u.upto = t.upto
        /\ u.at = "synced" => t.upto <= Len(log'[p])
    BY <1>2, <1>7, <2>2, <2>3, <2>5, <2>6, AfterTask
  <2> QED
    BY <1>5, <2>1, <2>2, <2>5, <2>6, <2>7
<1>8. CASE /\ t.at = "synced" /\ job[n].kind = "prepare"
           /\ \E ok \in BOOLEAN : /\ Call(p, Prepare(job[n].env), ok)
                                  /\ job' = [job EXCEPT ![n].task[p] = IF ok THEN Done ELSE Failed]
  <2>1. PICK ok \in BOOLEAN : /\ Call(p, Prepare(job[n].env), ok)
                              /\ job' = [job EXCEPT ![n].task[p] = IF ok THEN Done ELSE Failed]
    BY <1>8
  <2>2. PICK e \in Envelopes : e = job[n].env /\ e.leader = n /\ e.nonce = Len(log[n]) + 1
    BY <1>2, <1>4, <1>8 DEF JobOK, Envelopes
  <2>3. Len(log[n]) <= Len(log[p])
    BY <1>2, <1>3, <1>8 DEF PreparingOK
  <2>4. Legit(p, Prepare(e)) /\ Foreign(p, Prepare(e))
    BY <1>2, <1>4, <2>2, <2>3, PlainRequest DEF Legit, Prepare
  <2>5. PICK q : q = Prepare(e)
    OBVIOUS
  <2>6. /\ Durable' /\ Grown /\ NothingNew /\ Calm /\ LateOK'
        /\ ok => succeeds(p, q) /\ Handle(p, q)
    BY <1>2, <2>1, <2>2, <2>4, <2>5, CallStep
  <2>7. PICK u \in Tasks : /\ u = (IF ok THEN Done ELSE Failed)
                           /\ u.at \in {"done", "failed"} /\ (u.at = "done" => ok)
    BY SpecialTasks
  <2>8. u.at = "done" => term(n) = Rank(n) - 1
    <3>1. u.at = "done" => Rank(n) = term(p) + 1
      BY <1>2, <2>2, <2>5, <2>6, <2>7, PrepareHeeded
    <3>2. term(n) \in 0..2 /\ term(p) \in 0..2 /\ Rank(n) \in 1..3
      BY <1>2, Leading, Ranks
    <3>3. term(n) >= Rank(n) - 1
      BY <1>2, <1>8 DEF JobOK
    <3> QED
      BY <1>2, <3>1, <3>2, <3>3, Fenced
  <2>9. Len(log[n]) <= Len(log'[p])
    <3>1. Len(log'[p]) \in Nat /\ Len(log[p]) <= Len(log'[p])
      BY <1>2, <2>6 DEF Durable, Types, Grown
    <3> QED
      BY <1>2, <1>4, <2>3, <3>1
  <2>10. TaskOK(n, p, u)'
    BY <2>7 DEF TaskOK
  <2> QED
    BY <1>5, <2>1, <2>6, <2>7, <2>8, <2>9, <2>10
<1>9. CASE /\ t.at = "synced" /\ job[n].kind = "sync" /\ UNCHANGED <<durable, late>>
           /\ job' = [job EXCEPT ![n].task[p] = Done]
  <2>1. Durable' /\ Grown /\ NothingNew /\ Calm
    BY <1>2, <1>9, DurableStays DEF Calm, durable
  <2>2. LateOK'
    BY <1>2, <1>9, <2>1, LateStays DEF Durable
  <2>3. Len(log[n]) <= Len(log'[p])
    BY <1>2, <1>3, <1>9 DEF PreparingOK, durable
  <2>4. PICK u \in Tasks : u = Done /\ u.at = "done"
    BY SpecialTasks
  <2>5. TaskOK(n, p, u)'
    BY <2>4 DEF TaskOK
  <2> QED
    BY <1>5, <1>9, <2>1, <2>2, <2>3, <2>4, <2>5
<1> QED
  BY <1>3, <1>6, <1>7, <1>8, <1>9 DEF SyncAndPrepare

\* ShareCertificate keeps the invariant: the leader recorded its certificate after the witness.
LEMMA ShareCertificateStep ==
    ASSUME IInv, NEW n \in Nodes, NEW p \in Peers(n), ShareCertificate(n, p)
    PROVE  IInv'
<1>1. /\ leader(n) = n /\ certs[n] # <<>> /\ Call(p, Certificate(Last(certs[n])), FALSE)
      /\ UNCHANGED <<queue, job, takeover, client, faults>>
  BY DEF ShareCertificate
<1>2. Durable /\ LateOK /\ p \in Nodes /\ n # p
  BY DEF IInv, Peers
<1>3. term(n) = Rank(n) - 1 /\ term(n) \in 1..2
  <2>1. term(n) = Rank(n) - 1 /\ term(n) \in 0..2
    BY <1>1, <1>2, LeaderHere, Leading
  <2>2. term(n) # 0
    BY <1>1, <1>2, LogTyped DEF term, Durable
  <2> QED
    BY <2>1, <2>2
<1>4. PICK c \in Certificates : c = Last(certs[n]) /\ c = certs[n][term(n)] /\ c.term = term(n)
  BY <1>1, <1>2, <1>3, LogTyped DEF Last, term, Durable, CertsOK
<1>5. Passed(n, c)
  BY <1>3, <1>4 DEF Passed
<1>6. MayRecord(p, c)
  BY <1>2, <1>3, <1>4, <1>5, NodesAre DEF MayRecord, Rank
<1>7. PICK q : q = Certificate(c)
  OBVIOUS
<1>8. Legit(p, q) /\ Foreign(p, q)
  <2>1. c.term # Rank(p) - 1
    BY <1>2, <1>3, <1>4, Ranks
  <2> QED
    BY <1>6, <1>7, <2>1 DEF Legit, Foreign, Certificate
<1>9. Durable' /\ Grown /\ NothingNew /\ Calm /\ LateOK'
  BY <1>1, <1>2, <1>4, <1>7, <1>8, CallStep
<1> QED
  BY <1>1, <1>9, LeadersStay, SuccessorsStay DEF IInv, Calm

-----------------------------------------------------------------------------
(* The successor.                                                          *)

\* A candidate has no job, and the node it deals with is the same witness all along.
LEMMA TakingOver ==
    ASSUME IInv, NEW c \in Nodes, takeover[c].at # "idle"
    PROVE  /\ term(c) = Rank(c) - 2 /\ c \in {"secondary", "tertiary"} /\ ~exhausted(c)
           /\ job[c].kind = "idle"
           /\ witness(c) = Helper(c) /\ Helper(c) # c
<1>1. term(c) = Rank(c) - 2 /\ term(c) \in 0..2
  BY Leading DEF IInv, Takeovers, TakeoverOK
<1>2. \/ c = "secondary" /\ term(c) = 0
      \/ c = "tertiary" /\ term(c) = 1
  BY <1>1, NodesAre DEF Rank
<1>3. job[c].kind = "idle"
  <2>1. Rank(c) \in 1..3 /\ JobOK(c)
    BY Ranks, JobHere
  <2> QED
    BY <1>1, <2>1 DEF JobOK
<1>4. witness(c) = Helper(c)
  <2>1. CASE c = "secondary" /\ term(c) = 0
    <3>1. leader(c) = "primary" /\ successor(c) = "secondary"
      BY <2>1 DEF leader, successor, ROLE_ORDER
    <3>2. \A w \in Nodes : w \notin {leader(c), successor(c)} <=> w = "tertiary"
      BY <3>1, NodesAre
    <3> QED
      BY <2>1, <3>2, NodesAre DEF witness, Helper
  <2>2. CASE c = "tertiary" /\ term(c) = 1
    <3>1. leader(c) = "secondary" /\ successor(c) = "tertiary"
      BY <2>2 DEF leader, successor, ROLE_ORDER
    <3>2. \A w \in Nodes : w \notin {leader(c), successor(c)} <=> w = "primary"
      BY <3>1, NodesAre
    <3> QED
      BY <2>2, <3>2, NodesAre DEF witness, Helper
  <2> QED
    BY <1>2, <2>1, <2>2
<1> QED
  BY <1>1, <1>2, <1>3, <1>4 DEF exhausted, Helper

\* What the invariant says of one node's takeover.
LEMMA TakeoverHere ==
    ASSUME IInv, NEW c \in Nodes
    PROVE  TakeoverTyped(takeover[c]) /\ TakeoverOK(c, takeover[c]) /\ DOMAIN takeover = Nodes
BY DEF IInv, Takeovers, TakeoverTypes

\* A step of a takeover keeps the invariant when the new state of the takeover does.
LEMMA SuccessorStep ==
    ASSUME IInv, NEW c \in Nodes, NEW t, TakeoverTyped(t),
           takeover' = [takeover EXCEPT ![c] = t],
           Durable', Grown, NothingNew, LateOK', faults' \in Nat, UNCHANGED <<queue, job, client>>,
           \A n \in Nodes : job[n].kind # "idle" => log'[n] = log[n] /\ certs'[n] = certs[n],
           \A r \in Nodes \ {c} : term(r) = Rank(r) - 2 => certs'[r] = certs[r],
           TakeoverOK(c, t)'
    PROVE  IInv'
<1>1. takeover'[c] = t /\ DOMAIN takeover' = Nodes /\ \A r \in Nodes \ {c} : takeover'[r] = takeover[r]
  BY TakeoverHere
<1>2. ASSUME NEW r \in Nodes PROVE TakeoverTyped(takeover[r])' /\ TakeoverOK(r, takeover[r])'
  <2>1. CASE r = c
    <3>1. TakeoverOK(c, takeover[c])'
      BY <1>1
    <3> QED
      BY <1>1, <2>1, <3>1 DEF TakeoverTyped
  <2>2. CASE r # c
    <3>1. PICK u : u = takeover[r] /\ u = takeover'[r]
      BY <1>1, <2>2
    <3>2. TakeoverTyped(u) /\ TakeoverOK(r, u)
      BY <3>1, TakeoverHere
    <3>3. u.at # "idle" => certs'[r] = certs[r]
      BY <2>2, <3>2 DEF TakeoverOK
    <3>4. TakeoverOK(r, u)'
      BY <3>2, <3>3, TakeoverStays DEF IInv
    <3>5. TakeoverOK(r, takeover[r])'
      BY <3>1, <3>4
    <3> QED
      BY <3>1, <3>2, <3>5 DEF TakeoverTyped
  <2> QED
    BY <2>1, <2>2
<1>3. Jobs' /\ ClientOK' /\ AckedOK'
  BY LeadersStay
<1> QED
  BY <1>1, <1>2, <1>3 DEF IInv, Takeovers, TakeoverTypes

\* So does one that changes nothing but the takeover.
LEMMA QuietSuccessorStep ==
    ASSUME IInv, NEW c \in Nodes, NEW t, TakeoverTyped(t),
           takeover' = [takeover EXCEPT ![c] = t],
           UNCHANGED <<durable, queue, job, late, client>>, faults' \in Nat,
           TakeoverOK(c, t)
    PROVE  IInv'
<1>1. Durable' /\ Grown /\ NothingNew
  BY DurableStays DEF IInv
<1>2. log' = log /\ certs' = certs
  BY DEF durable
<1>3. TakeoverOK(c, t)' /\ LateOK'
  BY <1>1, <1>2, TakeoverStays, LateStays DEF IInv, Durable
<1> QED
  BY <1>1, <1>2, <1>3, SuccessorStep

\* A takeover at rest is one.
LEMMA RestingIs ==
    /\ TakeoverTyped(Resting) /\ Resting.at = "idle" /\ Resting.got = None /\ Resting.from = 0
    /\ Resting.task = NewTask
BY NewTaskTyped DEF TakeoverTyped, Resting, Fields, Stages

\* The invariant asks nothing of it.
LEMMA RestingOK ==
    ASSUME NEW c
    PROVE  TakeoverOK(c, Resting)
BY RestingIs DEF TakeoverOK

\* StartTakeover keeps the invariant: the successor of a term has that term.
LEMMA StartTakeoverStep ==
    ASSUME IInv, NEW c \in Nodes, StartTakeover(c)
    PROVE  IInv'
<1>1. /\ ~exhausted(c) /\ c = successor(c) /\ faults' = faults + 1
      /\ takeover' = [takeover EXCEPT ![c] = [Resting EXCEPT !.at = "position", !.tick = faults + 1]]
      /\ UNCHANGED <<durable, queue, job, late, client>>
  BY DEF StartTakeover, Fault
<1>2. faults \in Nat /\ Durable
  BY DEF IInv
<1>3. PICK t : t = [Resting EXCEPT !.at = "position", !.tick = faults + 1]
  OBVIOUS
<1>4. DOMAIN Resting = Fields
  BY DEF Resting, Fields
<1>5. /\ t.at = "position" /\ t.tick = faults + 1 /\ t.got = None /\ t.from = 0 /\ t.task = NewTask
      /\ DOMAIN t = Fields
  BY <1>3, <1>4, RestingIs DEF Fields
<1>6. TakeoverTyped(t)
  BY <1>2, <1>5, NewTaskTyped DEF TakeoverTyped, Stages
<1>7. term(c) = Rank(c) - 2
  <2>1. term(c) \in 0..1
    BY <1>1, <1>2, Leading DEF exhausted
  <2> QED
    BY <1>1, <2>1, RoleAt DEF successor
<1>8. TakeoverOK(c, t)
  BY <1>2, <1>5, <1>7, LogTyped, NewTaskTyped DEF TakeoverOK, TaskOK, Durable
<1>9. takeover' = [takeover EXCEPT ![c] = t] /\ faults' \in Nat
  BY <1>1, <1>2, <1>3
<1> QED
  BY <1>1, <1>6, <1>8, <1>9, QuietSuccessorStep

\* A takeover that is given up keeps the invariant.
LEMMA QuitStep ==
    ASSUME IInv, NEW c \in Nodes, Quit(c), UNCHANGED <<durable, queue, job, late, client, faults>>
    PROVE  IInv'
BY RestingIs, RestingOK, QuietSuccessorStep DEF Quit, IInv

\* So does one that makes its next call.
LEMMA AwaitStep ==
    ASSUME IInv, NEW c \in Nodes, takeover[c].at # "idle", NEW stage \in Stages, Await(c, stage),
           UNCHANGED <<durable, queue, job, late, client, faults>>,
           stage \in {"vote", "certificate"} => takeover[c].at \in {"vote", "certificate"}
    PROVE  IInv'
<1>1. PICK s : s = takeover[c] /\ TakeoverTyped(s) /\ TakeoverOK(c, s) /\ DOMAIN takeover = Nodes
  BY TakeoverHere
<1>2. PICK t : t = [s EXCEPT !.at = stage, !.got = None]
  OBVIOUS
<1>3. /\ t.at = stage /\ t.got = None /\ t.tick = s.tick /\ t.from = s.from /\ t.vote = s.vote
      /\ t.task = s.task /\ DOMAIN t = Fields
  BY <1>1, <1>2 DEF TakeoverTyped, Fields
<1>4. TakeoverTyped(t)
  BY <1>1, <1>3 DEF TakeoverTyped
<1>5. TakeoverOK(c, t)
  BY <1>1, <1>3 DEF TakeoverOK
<1>6. takeover' = [takeover EXCEPT ![c] = t] /\ faults' \in Nat
  BY <1>1, <1>2 DEF Await, IInv
<1> QED
  BY <1>4, <1>5, <1>6, QuietSuccessorStep

\* So does one that asks for the history above its own position.
LEMMA AwaitHistoryStep ==
    ASSUME IInv, NEW c \in Nodes, takeover[c].at # "idle", NEW stage \in {"pull", "confirm"},
           AwaitHistory(c, stage, Len(log[c])),
           UNCHANGED <<durable, queue, job, late, client, faults>>
    PROVE  IInv'
<1>1. PICK s : s = takeover[c] /\ TakeoverTyped(s) /\ TakeoverOK(c, s) /\ DOMAIN takeover = Nodes
  BY TakeoverHere
<1>2. PICK from \in Nat : from = Len(log[c])
  BY LogTyped DEF IInv, Durable
<1>3. PICK t : t = [s EXCEPT !.at = stage, !.got = None, !.from = from]
  OBVIOUS
<1>4. /\ t.at = stage /\ t.got = None /\ t.tick = s.tick /\ t.from = from
      /\ t.task = s.task /\ DOMAIN t = Fields
  BY <1>1, <1>3 DEF TakeoverTyped, Fields
<1>5. TakeoverTyped(t)
  BY <1>1, <1>4 DEF TakeoverTyped, Stages
<1>6. TakeoverOK(c, t)
  BY <1>1, <1>2, <1>4 DEF TakeoverOK
<1>7. takeover' = [takeover EXCEPT ![c] = t] /\ faults' \in Nat
  BY <1>1, <1>2, <1>3 DEF AwaitHistory, IInv
<1> QED
  BY <1>5, <1>6, <1>7, QuietSuccessorStep

\* So does one with nothing left to pull.
LEMMA PushOrConfirmStep ==
    ASSUME IInv, NEW c \in Nodes, takeover[c].at # "idle", NEW theirs, PushOrConfirm(c, theirs),
           UNCHANGED <<durable, queue, job, late, client, faults>>
    PROVE  IInv'
<1>1. position(c) = Len(log[c])
  BY PositionIsLength DEF IInv
<1>2. CASE Quit(c)
  BY <1>2, QuitStep
<1>3. CASE Await(c, "push")
  BY <1>3, AwaitStep DEF Stages
<1>4. CASE AwaitHistory(c, "confirm", position(c))
  BY <1>1, <1>4, AwaitHistoryStep
<1> QED
  BY <1>2, <1>3, <1>4 DEF PushOrConfirm

\* NoAnswer keeps the invariant.
LEMMA NoAnswerStep ==
    ASSUME IInv, NEW c \in Nodes, NoAnswer(c)
    PROVE  IInv'
BY QuitStep DEF NoAnswer

\* Reconcile keeps the invariant.
LEMMA ReconcileStep ==
    ASSUME IInv, NEW c \in Nodes, Reconcile(c)
    PROVE  IInv'
<1>1. takeover[c].at = "position" /\ UNCHANGED <<durable, queue, job, late, client, faults>>
  BY DEF Reconcile
<1>2. CASE takeover' = [takeover EXCEPT ![c] = [@ EXCEPT !.at = "pull", !.got = None,
                                                 !.theirs = takeover[c].got, !.from = position(c)]]
  <2>1. PICK s : s = takeover[c] /\ TakeoverTyped(s) /\ TakeoverOK(c, s) /\ DOMAIN takeover = Nodes
    BY TakeoverHere
  <2>2. PICK from \in Nat : from = position(c) /\ from = Len(log[c])
    BY LogTyped, PositionIsLength DEF IInv, Durable
  <2>3. PICK t : t = [s EXCEPT !.at = "pull", !.got = None, !.theirs = s.got, !.from = from]
    OBVIOUS
  <2>4. /\ t.at = "pull" /\ t.got = None /\ t.tick = s.tick /\ t.from = from
        /\ t.task = s.task /\ DOMAIN t = Fields
    BY <2>1, <2>3 DEF TakeoverTyped, Fields
  <2>5. TakeoverTyped(t)
    BY <2>1, <2>4 DEF TakeoverTyped, Stages
  <2>6. TakeoverOK(c, t)
    BY <1>1, <2>1, <2>2, <2>4 DEF TakeoverOK
  <2>7. takeover' = [takeover EXCEPT ![c] = t] /\ faults' \in Nat
    BY <1>1, <1>2, <2>1, <2>2, <2>3 DEF IInv
  <2> QED
    BY <1>1, <2>5, <2>6, <2>7, QuietSuccessorStep
<1>3. CASE PushOrConfirm(c, takeover[c].got)
  <2>1. PICK theirs : theirs = takeover[c].got
    OBVIOUS
  <2> QED
    BY <1>1, <1>3, <2>1, PushOrConfirmStep
<1> QED
  BY <1>2, <1>3 DEF Reconcile

\* Confirm keeps the invariant.
LEMMA ConfirmStep ==
    ASSUME IInv, NEW c \in Nodes, Confirm(c)
    PROVE  IInv'
<1>1. /\ takeover[c].at = "confirm" /\ UNCHANGED <<durable, queue, job, late, client, faults>>
      /\ Await(c, "leadership") \/ Quit(c)
  BY DEF Confirm
<1> QED
  BY <1>1, AwaitStep, QuitStep DEF Stages

\* Certify keeps the invariant.
LEMMA CertifyStep ==
    ASSUME IInv, NEW c \in Nodes, Certify(c)
    PROVE  IInv'
<1>1. /\ takeover[c].at = "vote" /\ UNCHANGED <<durable, queue, job, late, client, faults>>
      /\ Await(c, "certificate") \/ Quit(c)
  BY DEF Certify
<1> QED
  BY <1>1, AwaitStep, QuitStep DEF Stages

\* What a history request returns: the entries above a position.
LEMMA EntriesAbove ==
    ASSUME NEW S, NEW h \in Seq(S), NEW f \in Nat, f <= Len(h)
    PROVE  /\ SubSeq(h, f + 1, Len(h)) \in Seq(S)
           /\ Len(SubSeq(h, f + 1, Len(h))) = Len(h) - f
           /\ \A j \in 1..(Len(h) - f) : SubSeq(h, f + 1, Len(h))[j] = h[f + j]
<1>1. Len(h) \in Nat /\ \A k \in 1..Len(h) : h[k] \in S
  OBVIOUS
<1>2. \A j \in 1..(Len(h) - f) : f + j \in 1..Len(h) /\ f + 1 + j - 1 = f + j
  BY <1>1
<1> DEFINE above == SubSeq(h, f + 1, Len(h))
<1>3. Len(above) = Len(h) - f
  BY <1>1
<1>4. \A j \in 1..(Len(h) - f) : above[j] = h[f + j]
  BY <1>1, <1>2
<1>5. above \in Seq(S)
  BY <1>1
<1> QED
  BY <1>3, <1>4, <1>5

\* Answer keeps the invariant: the witness answers with entries of its log and with its own
\* certificates, or is taken to have none.
LEMMA AnswerStep ==
    ASSUME IInv, NEW c \in Nodes, Answer(c)
    PROVE  IInv'
<1>1. UNCHANGED <<durable, queue, job, late, client, faults>> /\ takeover[c].at # "idle"
  BY DEF Answer
<1>2. witness(c) = Helper(c) /\ Durable /\ faults' \in Nat
  BY <1>1, TakingOver DEF IInv
<1>3. PICK w \in Nodes : w = Helper(c)
  BY HelperIs
<1>4. PICK s : s = takeover[c] /\ TakeoverTyped(s) /\ TakeoverOK(c, s) /\ DOMAIN takeover = Nodes
  BY TakeoverHere
<1>5. ASSUME NEW x, takeover' = [takeover EXCEPT ![c].got = x],
             AnswerOK(c, [s EXCEPT !.got = x])
      PROVE  IInv'
  <2>1. PICK t : t = [s EXCEPT !.got = x]
    OBVIOUS
  <2>2. /\ t.at = s.at /\ t.got = x /\ t.tick = s.tick /\ t.from = s.from /\ t.vote = s.vote
        /\ t.task = s.task /\ DOMAIN t = Fields
    BY <1>4, <2>1 DEF TakeoverTyped, Fields
  <2>3. TakeoverTyped(t)
    BY <1>4, <2>2 DEF TakeoverTyped
  <2>4. TakeoverOK(c, t)
    BY <1>4, <1>5, <2>1, <2>2 DEF TakeoverOK
  <2>5. takeover' = [takeover EXCEPT ![c] = t]
    BY <1>4, <1>5, <2>1
  <2> QED
    BY <1>1, <1>2, <2>3, <2>4, <2>5, QuietSuccessorStep
<1>6. ASSUME NEW x
      PROVE  /\ [s EXCEPT !.got = x].at = s.at /\ [s EXCEPT !.got = x].got = x
             /\ [s EXCEPT !.got = x].from = s.from
  BY <1>4 DEF TakeoverTyped, Fields
<1>7. CASE s.at \in {"position", "vote"} /\ \E x : takeover' = [takeover EXCEPT ![c].got = x]
  <2>1. PICK x : takeover' = [takeover EXCEPT ![c].got = x]
    BY <1>7
  <2>2. AnswerOK(c, [s EXCEPT !.got = x])
    BY <1>6, <1>7 DEF AnswerOK
  <2> QED
    BY <1>5, <2>1, <2>2
<1>8. CASE /\ s.at \in {"pull", "confirm"} /\ s.from <= position(w)
           /\ takeover' = [takeover EXCEPT ![c].got =
                  [nonce |-> position(w), digest |-> digest(w),
                   entries |-> SubSeq(log[w], s.from + 1, position(w))]]
  <2>1. PICK x : x = [nonce |-> position(w), digest |-> digest(w),
                      entries |-> SubSeq(log[w], s.from + 1, position(w))]
    OBVIOUS
  <2>2. /\ position(w) = Len(log[w]) /\ Len(log[w]) \in Nat /\ log[w] \in Seq(Envelopes)
        /\ s.from \in Nat /\ LogOK(w)
    BY <1>2, <1>4, PositionIsLength, LogTyped DEF Durable, TakeoverTyped
  <2>3. PICK es : es = x.entries /\ es = SubSeq(log[w], s.from + 1, Len(log[w]))
    BY <2>1, <2>2
  <2>4. /\ es \in Seq(Envelopes) /\ Len(es) = Len(log[w]) - s.from
        /\ \A j \in 1..Len(es) : es[j] = log[w][s.from + j]
    <3>1. s.from <= Len(log[w])
      BY <1>8, <2>2
    <3> QED
      BY <2>2, <2>3, <3>1, EntriesAbove
  <2>5. \A j \in 1..Len(es) : es[j].nonce = s.from + j /\ Sourced(es[j])
    <3> SUFFICES ASSUME NEW j \in 1..Len(es) PROVE es[j].nonce = s.from + j /\ Sourced(es[j])
      OBVIOUS
    <3>1. s.from + j \in 1..Len(log[w])
      BY <1>8, <2>2, <2>4
    <3> QED
      BY <2>2, <2>4, <3>1 DEF LogOK
  <2>6. PICK t : t = [s EXCEPT !.got = x] /\ t.at = s.at /\ t.got = x /\ t.from = s.from
    BY <1>6
  <2>7. AnswerOK(c, t)
    BY <1>8, <2>3, <2>4, <2>5, <2>6 DEF AnswerOK
  <2> QED
    BY <1>5, <1>8, <2>1, <2>6, <2>7
<1>9. CASE s.at = "leadership" /\ \E x \in {certs[w], <<>>} : takeover' = [takeover EXCEPT ![c].got = x]
  <2>1. PICK x \in {certs[w], <<>>} : takeover' = [takeover EXCEPT ![c].got = x]
    BY <1>9
  <2>2. PICK t : t = [s EXCEPT !.got = x] /\ t.at = s.at /\ t.got = x
    BY <1>6
  <2>3. x \in Seq(Certificates)
    <3>1. certs[w] \in Seq(Certificates)
      BY <1>2, <1>3, LogTyped DEF Durable
    <3>2. <<>> \in Seq(Certificates)
      OBVIOUS
    <3> QED
      BY <2>1, <3>1, <3>2, Zenon
  <2>4. AnswerOK(c, t)
    BY <1>2, <1>3, <1>9, <2>1, <2>2, <2>3, LogTyped DEF AnswerOK, Durable, term
  <2> QED
    BY <1>5, <2>1, <2>2, <2>4
<1> QED
  BY <1>2, <1>3, <1>4, <1>7, <1>8, <1>9 DEF Answer

\* A set of numbers that is not empty has a least one.
LEMMA LeastNumber ==
    ASSUME NEW T, T \subseteq Nat, T # {}
    PROVE  \E x \in T : \A y \in T : x <= y
<1>1. PICK x \in T : \A y \in T : ~(<<y, x>> \in OpToRel(<, Nat))
  BY WFMin, NatLessThanWellFounded
<1>2. ASSUME NEW y \in T PROVE x <= y
  <2>1. x \in Nat /\ y \in Nat
    OBVIOUS
  <2>2. <<y, x>> \in Nat \X Nat /\ <<y, x>>[1] = y /\ <<y, x>>[2] = x
    BY <2>1
  <2>3. ~(y < x)
    BY <1>1, <2>2, Zenon DEF OpToRel
  <2> QED
    BY <2>1, <2>3
<1> QED
  BY <1>2

\* What _sync_from_peer requires of entry k of an answer.
Fits(c, entries, k) ==
    /\ k = 1 => pending[c] \in {None, entries[1]}
    /\ verify(c, entries[k])
    /\ applies(c, entries[k].mutation)

\* The number of entries accepted exists, and all of them fit.
LEMMA AcceptedIs ==
    ASSUME NEW c, NEW entries, Len(entries) \in Nat
    PROVE  /\ Accepted(c, entries) \in 0..Len(entries)
           /\ \A j \in 1..Accepted(c, entries) : Fits(c, entries, j)
<1> DEFINE P(k) == /\ \A j \in 1..k : Fits(c, entries, j)
                   /\ k < Len(entries) => ~Fits(c, entries, k + 1)
<1>1. \E k \in 0..Len(entries) : P(k)
  <2>1. CASE \A j \in 1..Len(entries) : Fits(c, entries, j)
    <3>1. P(Len(entries)) /\ Len(entries) \in 0..Len(entries)
      BY <2>1
    <3> QED
      BY <3>1
  <2>2. CASE \E j \in 1..Len(entries) : ~Fits(c, entries, j)
    <3> DEFINE T == {j \in 1..Len(entries) : ~Fits(c, entries, j)}
    <3>0. T \subseteq Nat /\ T # {}
      BY <2>2
    <3>1. PICK x \in T : \A y \in T : x <= y
      <4> HIDE DEF T
      <4> QED
        BY <3>0, LeastNumber
    <3>2. x - 1 \in 0..Len(entries) /\ x \in 1..Len(entries) /\ ~Fits(c, entries, x)
      BY <3>1
    <3>3. \A j \in 1..(x - 1) : Fits(c, entries, j)
      BY <3>1, <3>2
    <3>4. (x - 1) + 1 = x
      BY <3>2
    <3>5. P(x - 1)
      BY <3>2, <3>3, <3>4
    <3> QED
      BY <3>2, <3>5
  <2> QED
    BY <2>1, <2>2
<1>2. Accepted(c, entries) = CHOOSE k \in 0..Len(entries) : P(k)
  BY DEF Accepted, Fits
<1> HIDE DEF P
<1>3. Accepted(c, entries) \in 0..Len(entries) /\ P(Accepted(c, entries))
  BY <1>1, <1>2
<1> QED
  BY <1>3 DEF P

\* The entries that fit continue the log, although the node's log may have grown since it asked:
\* an entry it has by then is refused for its nonce, and stops the rest.
LEMMA EntriesPulled ==
    ASSUME Durable, NEW c \in Nodes, NEW entries \in Seq(Envelopes), NEW from \in Nat,
           from <= Len(log[c]), NEW k \in 0..Len(entries),
           \A j \in 1..Len(entries) : entries[j].nonce = from + j /\ Sourced(entries[j]),
           \A j \in 1..k : Fits(c, entries, j),
           log' = [log EXCEPT ![c] = @ \o SubSeq(entries, 1, k)],
           pending' = [pending EXCEPT ![c] = IF k > 0 THEN None ELSE @],
           UNCHANGED certs
    PROVE  /\ Durable' /\ Grown /\ Elsewhere(c) /\ NothingNew
           /\ k > 0 => Len(log'[c]) = from + k
<1>1. \A p \in Nodes : log[p] \in Seq(Envelopes) /\ Len(log[p]) \in Nat
  BY LogTyped DEF Durable
<1>2. PICK s \in Seq(Envelopes) : /\ s = SubSeq(entries, 1, k) /\ Len(s) = k
                                  /\ \A j \in 1..k : s[j] = entries[j]
  <2>1. k \in Nat /\ k <= Len(entries)
    OBVIOUS
  <2>2. SubSeq(entries, 1, k) \in Seq(Envelopes)
    BY <2>1
  <2>3. Len(SubSeq(entries, 1, k)) = k
    BY <2>1
  <2>4. \A j \in 1..k : SubSeq(entries, 1, k)[j] = entries[j]
    BY <2>1
  <2> QED
    BY <2>2, <2>3, <2>4
<1>3. /\ \A p \in Nodes \ {c} : log'[p] = log[p] /\ pending'[p] = pending[p]
      /\ log'[c] = log[c] \o s /\ pending'[c] = IF k > 0 THEN None ELSE pending[c]
  BY <1>2 DEF Durable, Types
<1>4. Types'
  <2>1. log[c] \o s \in Seq(Envelopes)
    BY <1>1, <1>2
  <2>2. log' = [log EXCEPT ![c] = log[c] \o s] /\ log \in [Nodes -> Seq(Envelopes)]
    BY <1>2 DEF Durable, Types
  <2>3. log' \in [Nodes -> Seq(Envelopes)]
    BY <2>1, <2>2
  <2>4. pending' \in [Nodes -> Envelopes \cup {None}]
    BY DEF Durable, Types
  <2> QED
    BY <2>3, <2>4 DEF Types, Durable
<1>5. /\ Len(log'[c]) = Len(log[c]) + k
      /\ \A i \in 1..Len(log[c]) : log'[c][i] = log[c][i]
      /\ \A j \in 1..k : log'[c][Len(log[c]) + j] = entries[j]
  <2>1. PICK l \in Seq(Envelopes) : l = log[c] /\ Len(l) \in Nat
    BY <1>1
  <2>2. /\ Len(l \o s) = Len(l) + Len(s)
        /\ \A i \in 1..Len(l) : (l \o s)[i] = l[i]
        /\ \A j \in 1..Len(s) : (l \o s)[Len(l) + j] = s[j]
    BY <2>1
  <2> QED
    BY <1>2, <1>3, <2>1, <2>2
<1>6. \A j \in 1..k : /\ entries[j] \in Envelopes
                      /\ entries[j].nonce > Len(log[c]) /\ Rank(entries[j].leader) = term(c) + 1
  BY Verified DEF Fits
<1>7. k > 0 => from = Len(log[c])
  <2> SUFFICES ASSUME k > 0 PROVE from = Len(log[c])
    OBVIOUS
  <2>1. 1 \in 1..k /\ 1 \in 1..Len(entries)
    OBVIOUS
  <2>2. entries[1].nonce = from + 1 /\ entries[1].nonce > Len(log[c])
    BY <1>6, <2>1
  <2> QED
    BY <1>1, <2>2
<1>8. \A i \in (Len(log[c]) + 1)..Len(log'[c]) :
          /\ log'[c][i].nonce = i
          /\ Rank(log'[c][i].leader) = term(c) + 1
          /\ Sourced(log'[c][i])
  <2> SUFFICES ASSUME NEW i \in (Len(log[c]) + 1)..Len(log'[c])
               PROVE  /\ log'[c][i].nonce = i
                      /\ Rank(log'[c][i].leader) = term(c) + 1
                      /\ Sourced(log'[c][i])
    OBVIOUS
  <2>1. PICK j \in 1..k : i = Len(log[c]) + j
    <3>1. i - Len(log[c]) \in 1..k /\ i = Len(log[c]) + (i - Len(log[c]))
      BY <1>1, <1>5
    <3> QED
      BY <3>1
  <2>2. log'[c][i] = entries[j] /\ j \in 1..Len(entries) /\ from = Len(log[c])
    BY <1>5, <1>7, <2>1
  <2> QED
    BY <1>6, <2>1, <2>2
<1>9. \A p \in Nodes : PendingOK(p)'
  <2>1. k = 0 => Len(log'[c]) = Len(log[c])
    BY <1>1, <1>5
  <2>2. PendingOK(c)'
    <3>1. CASE k = 0
      BY <1>3, <2>1, <3>1 DEF PendingOK, Durable
    <3>2. CASE k > 0
      BY <1>3, <3>2 DEF PendingOK
    <3> QED
      BY <3>1, <3>2
  <2>3. \A p \in Nodes \ {c} : PendingOK(p)'
    BY <1>3 DEF PendingOK, Durable
  <2> QED
    BY <2>2, <2>3
<1>10. Durable' /\ Grown
  <2>1. Len(log[c]) <= Len(log'[c])
    BY <1>1, <1>5
  <2>2. \A i \in (Len(log[c]) + 1)..Len(log'[c]) :
            /\ log'[c][i].nonce = i
            /\ Rank(log'[c][i].leader) = term(c) + 1
            /\ log'[c][i].leader = c \/ Sourced(log'[c][i])
    BY <1>8
  <2> QED
    BY <1>3, <1>4, <1>5, <1>9, <2>1, <2>2, EntriesAdded
<1>11. NothingNew
  <2> SUFFICES ASSUME NEW m, NEW p \in Nodes, NEW i \in 1..Len(log'[p]), log'[p][i].mutation = m
               PROVE  Applied(m)
    BY DEF NothingNew, Applied
  <2>1. CASE i \in 1..Len(log[p])
    <3>1. log'[p][i] = log[p][i]
      BY <2>1, <1>3, <1>5
    <3> QED
      BY <3>1, <2>1 DEF Applied
  <2>2. CASE i \notin 1..Len(log[p])
    <3>1. p = c /\ i \in (Len(log[c]) + 1)..Len(log'[c])
      <4>1. p = c
        BY <2>2, <1>3
      <4>2. Len(log'[c]) \in Nat /\ Len(log[c]) \in Nat
        BY <1>1, <1>5
      <4> QED
        BY <2>2, <4>1, <4>2
    <3>2. PICK e \in Envelopes : e = log'[c][i]
      <4>1. log'[c] \in Seq(Envelopes)
        BY <1>4 DEF Types
      <4> QED
        BY <4>1, <3>1
    <3>3. Sourced(e) /\ e.leader \in Nodes /\ e.mutation = m
      BY <1>8, <3>1, <3>2 DEF Envelopes
    <3> QED
      BY <3>3 DEF Applied, Sourced
  <2> QED
    BY <2>1, <2>2
<1> QED
  BY <1>3, <1>5, <1>7, <1>10, <1>11 DEF Elsewhere

\* Pull keeps the invariant.
LEMMA PullStep ==
    ASSUME IInv, NEW c \in Nodes, Pull(c)
    PROVE  IInv'
<1>1. takeover[c].at = "pull" /\ takeover[c].got # None /\ UNCHANGED <<queue, job, late, client, faults>>
  BY DEF Pull
<1>2. PICK s : s = takeover[c] /\ TakeoverTyped(s) /\ TakeoverOK(c, s) /\ DOMAIN takeover = Nodes
  BY TakeoverHere
<1>3. PICK entries \in Seq(Envelopes) :
          /\ entries = s.got.entries
          /\ \A j \in 1..Len(entries) : entries[j].nonce = s.from + j /\ Sourced(entries[j])
  BY <1>1, <1>2 DEF TakeoverOK, AnswerOK
<1>4. CASE entries = <<>>
  <2>1. UNCHANGED durable /\ (PushOrConfirm(c, s.theirs) \/ Quit(c))
    BY <1>2, <1>3, <1>4 DEF Pull
  <2>2. CASE Quit(c)
    BY <1>1, <2>1, <2>2, QuitStep
  <2>3. CASE PushOrConfirm(c, s.theirs)
    BY <1>1, <2>1, <2>3, PushOrConfirmStep
  <2> QED
    BY <2>1, <2>2, <2>3
<1>5. CASE entries # <<>>
  <2>1. PICK k \in 0..Len(entries) : k = Accepted(c, entries) /\ \A j \in 1..k : Fits(c, entries, j)
    BY AcceptedIs
  <2>2. /\ log' = [log EXCEPT ![c] = @ \o SubSeq(entries, 1, k)]
        /\ pending' = [pending EXCEPT ![c] = IF k > 0 THEN None ELSE @]
        /\ UNCHANGED certs
        /\ IF k = Len(entries) THEN AwaitHistory(c, "pull", Last(entries).nonce) ELSE Quit(c)
    BY <1>2, <1>3, <1>5, <2>1 DEF Pull
  <2>3. Durable /\ s.from \in Nat /\ s.from <= Len(log[c])
    BY <1>1, <1>2 DEF IInv, TakeoverTyped, TakeoverOK
  <2>4. PICK from \in Nat : from = s.from
    BY <2>3
  <2>5. /\ Durable' /\ Grown /\ Elsewhere(c) /\ NothingNew
        /\ k > 0 => Len(log'[c]) = from + k
    BY <1>3, <2>1, <2>2, <2>3, <2>4, EntriesPulled
  <2>6. /\ job[c].kind = "idle" /\ LateOK' /\ faults' \in Nat
        /\ \A n \in Nodes : job[n].kind # "idle" => log'[n] = log[n] /\ certs'[n] = certs[n]
    BY <1>1, <2>2, <2>5, TakingOver, LateStays DEF IInv, Durable, Elsewhere
  <2>7. ASSUME NEW t, TakeoverTyped(t), takeover' = [takeover EXCEPT ![c] = t], TakeoverOK(c, t)'
        PROVE  IInv'
    BY <1>1, <2>2, <2>5, <2>6, <2>7, SuccessorStep
  <2>8. CASE Quit(c)
    <3>1. PICK t : t = Resting /\ takeover' = [takeover EXCEPT ![c] = t] /\ TakeoverTyped(t)
                   /\ t.at = "idle" /\ t.got = None
      BY <2>8, RestingIs DEF Quit
    <3>2. TakeoverOK(c, t)'
      BY <3>1 DEF TakeoverOK
    <3> QED
      BY <2>7, <3>1, <3>2
  <2>9. CASE k = Len(entries) /\ AwaitHistory(c, "pull", Last(entries).nonce)
    <3>1. Last(entries).nonce = from + k /\ k > 0
      BY <1>3, <1>5, <2>4, <2>9 DEF Last
    <3>2. PICK t : t = [s EXCEPT !.at = "pull", !.got = None, !.from = from + k]
      OBVIOUS
    <3>3. /\ t.at = "pull" /\ t.got = None /\ t.tick = s.tick /\ t.from = from + k
          /\ t.task = s.task /\ DOMAIN t = Fields
      BY <1>2, <3>2 DEF TakeoverTyped, Fields
    <3>4. TakeoverTyped(t)
      BY <1>2, <3>3 DEF TakeoverTyped, Stages
    <3>5. takeover' = [takeover EXCEPT ![c] = t]
      BY <1>2, <2>9, <3>1, <3>2 DEF AwaitHistory
    <3>6. TakeoverOK(c, s)'
      BY <1>2, <2>2, <2>3, <2>5, TakeoverStays
    <3>7. TakeoverOK(c, t)'
      <4>1. from + k <= Len(log'[c])
        BY <2>5, <3>1
      <4> QED
        BY <1>1, <1>2, <3>3, <3>6, <4>1 DEF TakeoverOK
    <3> QED
      BY <2>7, <3>4, <3>5, <3>7
  <2> QED
    BY <2>2, <2>8, <2>9
<1> QED
  BY <1>4, <1>5

\* Push keeps the invariant.
LEMMA PushStep ==
    ASSUME IInv, NEW c \in Nodes, Push(c)
    PROVE  IInv'
<1>1. takeover[c].at = "push" /\ UNCHANGED <<queue, job, client, faults>>
  BY DEF Push
<1>2. PICK s : s = takeover[c] /\ TakeoverTyped(s) /\ TakeoverOK(c, s) /\ DOMAIN takeover = Nodes
  BY TakeoverHere
<1>3. PICK w \in Nodes : w = witness(c) /\ w = Helper(c)
  BY <1>1, TakingOver, HelperIs
<1>4. PICK r \in Tasks : r = s.task /\ TaskOK(c, w, r)
  BY <1>1, <1>2, <1>3 DEF TakeoverTyped, TakeoverOK
<1>5. Durable /\ LateOK /\ faults' \in Nat /\ term(c) = Rank(c) - 2
  BY <1>1, TakingOver DEF IInv
<1>6. ASSUME NEW u \in Tasks, takeover' = [takeover EXCEPT ![c].task = u],
             Durable', Grown, NothingNew, Calm, LateOK', TaskOK(c, w, u)'
      PROVE  IInv'
  <2>1. PICK t : t = [s EXCEPT !.task = u]
    OBVIOUS
  <2>2. /\ t.at = s.at /\ t.got = s.got /\ t.tick = s.tick /\ t.from = s.from /\ t.vote = s.vote
        /\ t.task = u /\ DOMAIN t = Fields
    BY <1>2, <2>1 DEF TakeoverTyped, Fields
  <2>3. TakeoverTyped(t)
    BY <1>2, <2>2 DEF TakeoverTyped
  <2>4. takeover' = [takeover EXCEPT ![c] = t]
    BY <1>2, <1>6, <2>1
  <2>5. TakeoverOK(c, s)'
    BY <1>2, <1>5, <1>6, TakeoverStays DEF Calm
  <2>6. TaskOK(c, Helper(c), t.task)'
    BY <1>3, <1>6, <2>2
  <2>7. TakeoverOK(c, t)'
    <3>1. t.at = "push"
      BY <1>1, <1>2, <2>2
    <3> QED
      BY <2>2, <2>5, <2>6, <3>1 DEF TakeoverOK, AnswerOK
  <2> QED
    BY <1>1, <1>5, <1>6, <2>3, <2>4, <2>7, SuccessorStep DEF Calm
<1>7. CASE /\ r.at = "position" /\ UNCHANGED <<durable, late>>
           /\ \E u \in Located(c, w) : takeover' = [takeover EXCEPT ![c].task = u]
  <2>1. PICK u \in Located(c, w) : takeover' = [takeover EXCEPT ![c].task = u]
    BY <1>7
  <2>2. u \in Tasks /\ TaskOK(c, w, u)
    BY <1>5, LocatedTask
  <2>3. Durable' /\ Grown /\ NothingNew /\ Calm
    BY <1>5, <1>7, DurableStays DEF Calm, durable
  <2>4. LateOK' /\ TaskOK(c, w, u)'
    BY <1>5, <1>7, <2>2, <2>3, LateStays, TaskStays DEF Durable
  <2> QED
    BY <1>6, <2>1, <2>2, <2>3, <2>4
<1>8. CASE /\ r.at \in {"prepare", "commit"}
           /\ \E ok \in BOOLEAN : /\ Call(w, Due(c, r), ok)
                                  /\ takeover' = [takeover EXCEPT ![c].task = After(r, ok)]
  <2>1. PICK ok \in BOOLEAN : /\ Call(w, Due(c, r), ok)
                              /\ takeover' = [takeover EXCEPT ![c].task = After(r, ok)]
    BY <1>8
  <2>2. PICK q : q = Due(c, r)
    OBVIOUS
  <2>3. Legit(w, q) /\ Foreign(w, q)
    BY <1>4, <1>5, <1>8, <2>2, DueIsLegit
  <2>4. /\ Durable' /\ Grown /\ NothingNew /\ Calm /\ LateOK'
        /\ ok => succeeds(w, q) /\ Handle(w, q)
    BY <1>5, <2>1, <2>2, <2>3, CallStep
  <2>5. PICK u : u = After(r, ok)
    OBVIOUS
  <2>6. u \in Tasks /\ TaskOK(c, w, u)'
    BY <1>4, <1>5, <1>8, <2>2, <2>4, <2>5, AfterTask
  <2> QED
    BY <1>6, <2>1, <2>4, <2>5, <2>6
<1>9. CASE AwaitHistory(c, "confirm", position(c)) /\ UNCHANGED <<durable, late>>
  <2>1. position(c) = Len(log[c])
    BY <1>5, PositionIsLength
  <2> QED
    BY <1>1, <1>9, <2>1, AwaitHistoryStep
<1>10. CASE Quit(c) /\ UNCHANGED <<durable, late>>
  BY <1>1, <1>10, QuitStep
<1> QED
  BY <1>2, <1>3, <1>4, <1>7, <1>8, <1>9, <1>10 DEF Push

\* A candidate that records the certificate the witness holds keeps the invariant; its takeover
\* ends in the same step.
LEMMA OwnCertificateStep ==
    ASSUME IInv, NEW c \in Nodes, takeover[c].at # "idle", NEW d \in Certificates,
           d.term = term(c) + 1, Passed(Helper(c), d),
           Handle(c, Certificate(d)), Quit(c), UNCHANGED <<queue, job, late, client, faults>>
    PROVE  IInv'
<1>1. /\ Durable /\ term(c) = Rank(c) - 2 /\ c \in {"secondary", "tertiary"} /\ job[c].kind = "idle"
      /\ faults' \in Nat
  BY TakingOver DEF IInv
<1>2. MayRecord(c, d)
  BY <1>1 DEF MayRecord, Helper, Rank
<1>3. PICK q : q = Certificate(d)
  OBVIOUS
<1>4. Legit(c, q)
  BY <1>2, <1>3 DEF Legit, Certificate
<1>5. Durable' /\ Grown /\ Elsewhere(c) /\ NothingNew
  BY <1>1, <1>3, <1>4, HandleStep
<1>6. LateOK'
  BY <1>5, LateStays DEF IInv, Durable
<1>7. PICK t : t = Resting /\ takeover' = [takeover EXCEPT ![c] = t] /\ TakeoverTyped(t)
               /\ t.at = "idle" /\ t.got = None
  BY RestingIs DEF Quit
<1>8. TakeoverOK(c, t)'
  BY <1>7 DEF TakeoverOK
<1> QED
  BY <1>1, <1>5, <1>6, <1>7, <1>8, SuccessorStep DEF Elsewhere

\* RecoverOrVote keeps the invariant.
LEMMA RecoverOrVoteStep ==
    ASSUME IInv, NEW c \in Nodes, RecoverOrVote(c)
    PROVE  IInv'
<1>1. /\ takeover[c].at = "leadership" /\ takeover[c].got # None
      /\ UNCHANGED <<queue, job, late, client, faults>>
  BY DEF RecoverOrVote
<1>2. PICK s : s = takeover[c] /\ TakeoverTyped(s) /\ TakeoverOK(c, s) /\ DOMAIN takeover = Nodes
  BY TakeoverHere
<1>3. PICK w \in Nodes : w = Helper(c)
  BY HelperIs
<1>4. Durable /\ faults' \in Nat /\ term(c) \in Nat
  BY <1>1, LogTyped DEF IInv, Durable
<1>5. PICK theirs \in Seq(Certificates) :
          theirs = s.got /\ \A j \in 1..Len(theirs) : j <= term(w) /\ theirs[j] = certs[w][j]
  BY <1>1, <1>2, <1>3 DEF TakeoverOK, AnswerOK
<1>6. CASE Len(theirs) = term(c) + 1
  <2>1. PICK k \in 1..Len(theirs) : k = term(c) + 1 /\ k = Len(theirs)
    BY <1>4, <1>6
  <2>2. PICK d \in Certificates : d = Last(theirs) /\ d = certs[w][k]
    BY <1>5, <2>1 DEF Last
  <2>3. d.term = k /\ Passed(w, d)
    BY <1>4, <1>5, <2>1, <2>2, LogTyped DEF Durable, CertsOK, Passed
  <2>4. Handle(c, Certificate(d)) /\ Quit(c)
    BY <1>2, <1>5, <1>6, <2>2 DEF RecoverOrVote
  <2> QED
    BY <1>1, <1>3, <2>1, <2>3, <2>4, OwnCertificateStep
<1>7. CASE Len(theirs) # term(c) + 1
  <2>1. PICK v : v = [term |-> term(c) + 1, nonce |-> position(c), digest |-> digest(c)]
    OBVIOUS
  <2>2. PICK t : t = [s EXCEPT !.at = "vote", !.got = None, !.vote = v]
    OBVIOUS
  <2>3. /\ t.at = "vote" /\ t.got = None /\ t.tick = s.tick /\ t.from = s.from /\ t.vote = v
        /\ t.task = s.task /\ DOMAIN t = Fields
    BY <1>2, <2>2 DEF TakeoverTyped, Fields
  <2>4. TakeoverTyped(t)
    BY <1>2, <2>3 DEF TakeoverTyped, Stages
  <2>5. TakeoverOK(c, t)
    <3>1. v.term = term(c) + 1 /\ v.nonce \in Nat
      BY <1>4, <2>1, PositionIsLength, LogTyped DEF Durable
    <3> QED
      BY <1>1, <1>2, <2>3, <3>1 DEF TakeoverOK
  <2>6. takeover' = [takeover EXCEPT ![c] = t] /\ UNCHANGED durable
    BY <1>2, <1>5, <1>7, <2>1, <2>2 DEF RecoverOrVote
  <2> QED
    BY <1>1, <1>4, <2>4, <2>5, <2>6, QuietSuccessorStep
<1> QED
  BY <1>6, <1>7

\* The certificate of a takeover is for the next term.
LEMMA CertificateMade ==
    ASSUME IInv, NEW c \in Nodes, takeover[c].at = "certificate"
    PROVE  /\ NewCertificate(c) = Certifies(takeover[c])
           /\ NewCertificate(c) \in Certificates /\ NewCertificate(c).term = term(c) + 1
<1>1. NewCertificate(c) = Certifies(takeover[c])
  BY DEF NewCertificate, Certifies
<1>2. /\ takeover[c].vote.term = term(c) + 1 /\ takeover[c].vote.nonce \in Nat
      /\ takeover[c].tick \in Nat /\ term(c) \in Nat
  BY TakeoverHere, LogTyped DEF TakeoverOK, TakeoverTyped, IInv, Durable
<1> QED
  BY <1>1, <1>2 DEF NewCertificate, Certificates

\* AskToRecord keeps the invariant, late calls included: the witness records first, in
\* any order of the attempts.
LEMMA AskToRecordStep ==
    ASSUME IInv, NEW c \in Nodes, AskToRecord(c)
    PROVE  IInv'
<1>1. takeover[c].at = "certificate" /\ UNCHANGED <<queue, job, client, faults>>
  BY DEF AskToRecord
<1>2. PICK s : s = takeover[c] /\ TakeoverTyped(s) /\ TakeoverOK(c, s) /\ DOMAIN takeover = Nodes
  BY TakeoverHere
<1>3. PICK w \in Nodes : w = witness(c) /\ w = Helper(c)
  BY <1>1, TakingOver, HelperIs
<1>4. PICK d \in Certificates : d = NewCertificate(c) /\ d = Certifies(s) /\ d.term = term(c) + 1
  BY <1>1, <1>2, CertificateMade
<1>5. Durable /\ LateOK /\ faults' \in Nat /\ term(c) = Rank(c) - 2 /\ c \in {"secondary", "tertiary"}
  BY <1>1, TakingOver DEF IInv
<1>6. PICK q : q = Certificate(d)
  OBVIOUS
<1>7. Legit(w, q) /\ Foreign(w, q)
  <2>1. MayRecord(w, d) /\ d.term # Rank(w) - 1
    BY <1>3, <1>4, <1>5 DEF MayRecord, Helper, Rank
  <2> QED
    BY <1>6, <2>1 DEF Legit, Foreign, Certificate
<1>8. PICK ok \in BOOLEAN :
          /\ Call(w, q, ok)
          /\ IF ok THEN takeover' = [takeover EXCEPT ![c].got = "recorded"] ELSE Quit(c)
  BY <1>3, <1>4, <1>6 DEF AskToRecord
<1>9. /\ Durable' /\ Grown /\ NothingNew /\ Calm /\ LateOK'
      /\ ok => succeeds(w, q) /\ Handle(w, q)
  BY <1>5, <1>7, <1>8, CallStep
<1>10. ASSUME NEW t, TakeoverTyped(t), takeover' = [takeover EXCEPT ![c] = t], TakeoverOK(c, t)'
       PROVE  IInv'
  BY <1>1, <1>5, <1>9, <1>10, SuccessorStep DEF Calm
<1>11. CASE ok
  <2>1. PICK t : t = [s EXCEPT !.got = "recorded"]
    OBVIOUS
  <2>2. /\ t.at = s.at /\ t.got = "recorded" /\ t.tick = s.tick /\ t.from = s.from /\ t.vote = s.vote
        /\ t.task = s.task /\ DOMAIN t = Fields
    BY <1>2, <2>1 DEF TakeoverTyped, Fields
  <2>3. TakeoverTyped(t)
    BY <1>2, <2>2 DEF TakeoverTyped
  <2>4. takeover' = [takeover EXCEPT ![c] = t]
    BY <1>2, <1>8, <1>11, <2>1
  <2>5. Passed(w, d)'
    BY <1>5, <1>6, <1>9, <1>11, CertificateHeld
  <2>6. AnswerOK(c, t)'
    <3>1. Certifies(t) = d /\ t.at = "certificate"
      BY <1>1, <1>2, <1>4, <2>2 DEF Certifies
    <3>2. Passed(Helper(c), Certifies(t))'
      BY <1>3, <2>5, <3>1
    <3> QED
      BY <3>1, <3>2 DEF AnswerOK
  <2>7. TakeoverOK(c, s)'
    BY <1>2, <1>5, <1>9, TakeoverStays DEF Calm
  <2>8. TakeoverOK(c, t)'
    BY <2>2, <2>6, <2>7 DEF TakeoverOK
  <2> QED
    BY <1>10, <2>3, <2>4, <2>8
<1>12. CASE ~ok
  <2>1. PICK t : t = Resting /\ takeover' = [takeover EXCEPT ![c] = t] /\ TakeoverTyped(t)
                 /\ t.at = "idle" /\ t.got = None
    BY <1>8, <1>12, RestingIs DEF Quit
  <2>2. TakeoverOK(c, t)'
    BY <2>1 DEF TakeoverOK
  <2> QED
    BY <1>10, <2>1, <2>2
<1> QED
  BY <1>11, <1>12

\* Record keeps the invariant.
LEMMA RecordStep ==
    ASSUME IInv, NEW c \in Nodes, Record(c)
    PROVE  IInv'
<1>1. /\ takeover[c].at = "certificate" /\ takeover[c].got # None
      /\ Handle(c, Certificate(NewCertificate(c))) /\ Quit(c)
      /\ UNCHANGED <<queue, job, late, client, faults>>
  BY DEF Record
<1>2. PICK d \in Certificates : /\ d = NewCertificate(c) /\ d = Certifies(takeover[c])
                                /\ d.term = term(c) + 1
  BY <1>1, CertificateMade
<1>3. Passed(Helper(c), d)
  BY <1>1, <1>2, TakeoverHere DEF TakeoverOK, AnswerOK
<1> QED
  BY <1>1, <1>2, <1>3, OwnCertificateStep

-----------------------------------------------------------------------------
(* Late calls and crashes.                                                 *)

\* DeliverLate keeps the invariant: what may be sent may be delivered at any later moment.
LEMMA DeliverLateStep ==
    ASSUME IInv, DeliverLate
    PROVE  IInv'
<1>1. PICK x \in late : /\ unlocked(x.to) /\ Handle(x.to, x.request) /\ late' = late \ {x}
                        /\ UNCHANGED <<queue, job, takeover, client, faults>>
  BY DEF DeliverLate
<1>2. PICK p \in Nodes, q \in {x.request} : p = x.to
  BY DEF IInv, LateOK
<1>3. Durable /\ Legit(p, q) /\ Foreign(p, q) /\ Handle(p, q) /\ unlocked(p)
  BY <1>1, <1>2 DEF IInv, LateOK
<1>4. Durable' /\ Grown /\ Elsewhere(p) /\ NothingNew
  BY <1>3, HandleStep
<1>5. Calm
  BY <1>3, <1>4, ForeignKeeps DEF Calm, Elsewhere, unlocked
<1>6. LateOK'
  BY <1>1, <1>4, LateStays DEF IInv, Durable
<1> QED
  BY <1>1, <1>4, <1>5, <1>6, LeadersStay, SuccessorsStay DEF IInv, Calm

\* Crash keeps the invariant: the saved state is untouched and the coroutines own nothing.
LEMMA CrashStep ==
    ASSUME IInv, NEW n \in Nodes, Crash(n)
    PROVE  IInv'
<1>1. /\ queue' = [queue EXCEPT ![n] = None] /\ job' = [job EXCEPT ![n] = Idle]
      /\ takeover' = [takeover EXCEPT ![n] = Resting]
      /\ UNCHANGED <<durable, late, client>> /\ faults' = faults + 1
  BY DEF Crash, Fault
<1>2. Durable' /\ Grown /\ NothingNew /\ log' = log /\ certs' = certs
  BY <1>1, DurableStays DEF IInv, durable
<1>3. PICK j \in JobRecords : j = Idle /\ j.kind = "idle"
  BY IdleIs
<1>4. JobTypes' /\ job'[n] = j /\ \A p \in Nodes \ {n} : job'[p] = job[p]
  BY <1>1, <1>3 DEF IInv, Jobs, JobTypes, JobRecords
<1>5. JobOK(n)'
  BY <1>3, <1>4 DEF JobOK
<1>6. \A p \in Nodes \ {n} : JobOK(p)'
  BY <1>2, <1>4, OthersStay
<1>7. queue \in [Nodes -> Mutations \cup {Sync, None}]
  BY DEF IInv, ClientOK
<1>8. \A p \in Nodes : QueueOK(p)'
  <2>1. \A p \in Nodes : queue'[p] \in {queue[p], None}
    BY <1>1, <1>7
  <2> QED
    BY <1>2, <2>1, QueueStays DEF IInv, Jobs
<1>9. Takeovers'
  <2>1. PICK t : t = Resting /\ takeover' = [takeover EXCEPT ![n] = t] /\ TakeoverTyped(t)
                 /\ t.at = "idle" /\ t.got = None
    BY <1>1, RestingIs
  <2>2. TakeoverOK(n, t)'
    BY <2>1 DEF TakeoverOK
  <2>3. takeover'[n] = t /\ DOMAIN takeover' = Nodes /\ \A r \in Nodes \ {n} : takeover'[r] = takeover[r]
    BY <2>1, TakeoverHere
  <2>4. ASSUME NEW r \in Nodes PROVE TakeoverTyped(takeover[r])' /\ TakeoverOK(r, takeover[r])'
    <3>1. CASE r = n
      <4>1. TakeoverOK(n, takeover[n])'
        BY <2>2, <2>3
      <4> QED
        BY <2>1, <2>3, <3>1, <4>1 DEF TakeoverTyped
    <3>2. CASE r # n
      <4>1. PICK u : u = takeover[r] /\ u = takeover'[r]
        BY <2>3, <3>2
      <4>2. TakeoverTyped(u) /\ TakeoverOK(r, u)
        BY <4>1, TakeoverHere
      <4>3. TakeoverOK(r, u)'
        BY <1>2, <4>2, TakeoverStays DEF IInv
      <4>4. TakeoverOK(r, takeover[r])'
        BY <4>1, <4>3
      <4> QED
        BY <4>1, <4>2, <4>4 DEF TakeoverTyped
    <3> QED
      BY <3>1, <3>2
  <2> QED
    BY <2>3, <2>4 DEF Takeovers, TakeoverTypes
<1>10. ClientOK'
  <2>1. \A x \in Mutations : \A r \in Nodes, v \in Places : Owns(r, v, x)' => Owns(r, v, x)
    BY <1>1, <1>3, <1>4, <1>7, NoneAssumption DEF Owns, Places
  <2>2. \A r \in Nodes : job'[r].kind = "commit" => job[r].kind = "commit" /\ job'[r].op = job[r].op
    BY <1>3, <1>4
  <2>3. queue' \in [Nodes -> Mutations \cup {Sync, None}]
    BY <1>1, <1>7
  <2> QED
    BY <1>1, <1>2, <2>1, <2>2, <2>3, ClientStays DEF IInv, ClientOK, client
<1>11. LateOK'
  BY <1>1, <1>2, LateStays DEF IInv, Durable
<1> QED
  BY <1>1, <1>2, <1>4, <1>5, <1>6, <1>8, <1>9, <1>10, <1>11, AckedStays DEF IInv, Jobs, client

-----------------------------------------------------------------------------
(* The theorems.                                                           *)

\* The inductive invariant holds in every reachable state: for any set of mutations, any number
\* of takeover attempts, calls in flight, crashes and syncs, and whatever the order of the
\* handlers of node.py at the three nodes.
THEOREM Invariance == Spec => []IInv
<1>1. Init => IInv
  <2> SUFFICES ASSUME Init PROVE IInv
    OBVIOUS
  <2>1. /\ \A n \in Nodes : /\ log[n] = <<>> /\ certs[n] = <<>> /\ pending[n] = None /\ queue[n] = None
                            /\ job[n] = Idle /\ takeover[n] = Resting
        /\ DOMAIN takeover = Nodes /\ late = {} /\ asked = {} /\ acked = {} /\ refused = {} /\ faults = 0
    BY DEF Init
  <2>2. \A n \in Nodes : Len(log[n]) = 0 /\ term(n) = 0
    BY <2>1 DEF term
  <2>3. Durable
    <3>1. Types
      BY DEF Init, Types
    <3>2. \A n \in Nodes : LogOK(n) /\ PendingOK(n) /\ CertsOK(n)
      BY <2>1, <2>2 DEF LogOK, PendingOK, CertsOK
    <3>3. Succession
      BY <2>2, NodesAre DEF Succession, Follows
    <3> QED
      BY <3>1, <3>2, <3>3 DEF Durable
  <2>4. Jobs
    <3>1. JobTypes
      BY IdleIs DEF Init, JobTypes, JobRecords
    <3>2. \A n \in Nodes : JobOK(n) /\ QueueOK(n)
      BY <2>1, IdleIs DEF JobOK, QueueOK
    <3> QED
      BY <3>1, <3>2 DEF Jobs
  <2>5. Takeovers
    BY <2>1, RestingIs, RestingOK DEF Takeovers, TakeoverTypes
  <2>6. ClientOK
    <3>1. \A m : ~Applied(m)
      BY <2>2 DEF Applied
    <3>2. \A m \in Mutations : \A n \in Nodes, w \in Places : ~Owns(n, w, m)
      BY <2>1, IdleIs, NoneAssumption DEF Owns, Places
    <3>3. queue \in [Nodes -> Mutations \cup {Sync, None}]
      BY DEF Init
    <3>4. \A n \in Nodes : job[n].kind # "commit"
      BY <2>1, IdleIs
    <3> QED
      BY <2>1, <3>1, <3>2, <3>3, <3>4 DEF ClientOK
  <2> QED
    BY <2>1, <2>3, <2>4, <2>5, <2>6 DEF IInv, LateOK, AckedOK
<1>2. IInv /\ [Next]_vars => IInv'
  <2> SUFFICES ASSUME IInv, [Next]_vars PROVE IInv'
    OBVIOUS
  <2>1. ASSUME NEW n \in Nodes, Lead(n) PROVE IInv'
    <3>1. ASSUME NEW m \in Mutations, Submit(n, m) PROVE IInv'
      BY <3>1, SubmitStep
    <3>2. ASSUME NEW p \in Peers(n), Broadcast(n, p) \/ SyncAndPrepare(n, p) \/ ShareCertificate(n, p)
          PROVE  IInv'
      BY <3>2, BroadcastStep, SyncAndPrepareStep, ShareCertificateStep
    <3> QED
      BY <2>1, <3>1, <3>2, SubmitSyncStep, TakeLockStep, OldAbortedStep, DecideStep, GiveUpStep,
         AnswerCommittedStep, AnswerRefusedStep, AnswerSyncedStep DEF Lead
  <2>2. ASSUME NEW c \in Nodes, Succeed(c) PROVE IInv'
    BY <2>2, StartTakeoverStep, AnswerStep, NoAnswerStep, ReconcileStep, PullStep, PushStep,
       ConfirmStep, RecoverOrVoteStep, CertifyStep, AskToRecordStep, RecordStep DEF Succeed
  <2>3. ASSUME NEW n \in Nodes, Crash(n) PROVE IInv'
    BY <2>3, CrashStep
  <2>4. CASE DeliverLate
    BY <2>4, DeliverLateStep
  <2>5. CASE UNCHANGED vars
    <3>1. /\ UNCHANGED durable /\ UNCHANGED <<queue, job, takeover, late>>
          /\ UNCHANGED client /\ UNCHANGED faults
      BY <2>5 DEF vars
    <3>2. Durable' /\ Grown /\ NothingNew /\ log' = log /\ certs' = certs
      BY <3>1, DurableStays DEF IInv, durable
    <3>3. LateOK'
      BY <3>1, <3>2, LateStays DEF IInv, Durable
    <3> QED
      BY <3>1, <3>2, <3>3, LeadersStay, SuccessorsStay DEF IInv
  <2> QED
    BY <2>1, <2>2, <2>3, <2>4, <2>5 DEF Next
<1> QED
  BY <1>1, <1>2, PTL DEF Spec

\* The state of the three nodes, of their coroutines and of the clients keeps its type.
THEOREM TypeCorrect == Spec => []TypeOK
<1>1. IInv => TypeOK
  <2> SUFFICES ASSUME IInv PROVE TypeOK
    OBVIOUS
  <2>1. /\ log \in [Nodes -> Seq(Envelopes)]
        /\ pending \in [Nodes -> Envelopes \cup {None}]
        /\ certs \in [Nodes -> Seq(Certificates)]
    BY DEF IInv, Durable, Types
  <2>2. /\ queue \in [Nodes -> Mutations \cup {Sync, None}]
        /\ acked \subseteq asked /\ refused \subseteq asked /\ asked \subseteq Mutations
    BY DEF IInv, ClientOK
  <2>3. \A n \in Nodes : /\ job[n].kind \in Kinds
                         /\ job[n].env \in Envelopes \cup {None}
                         /\ job[n].task \in [Nodes -> Tasks]
    BY JobHere DEF JobRecords
  <2>4. \A n \in Nodes : takeover[n].at \in Stages /\ takeover[n].task \in Tasks
    BY TakeoverHere DEF TakeoverTyped
  <2> QED
    BY <2>1, <2>2, <2>3, <2>4 DEF TypeOK
<1> QED
  BY <1>1, Invariance, PTL

\* The certificates of a node name, for each entry of its log, the leader that signed it.
LEMMA ExpectedIs ==
    ASSUME Durable, NEW n \in Nodes, NEW k \in 1..Len(log[n])
    PROVE  expected(n, k - 1) = log[n][k].leader
<1>1. PICK r \in 1..3 : r = Rank(log[n][k].leader) /\ log[n][k].leader \in Nodes
  BY LogTyped, Ranks DEF Durable
<1>2. /\ r <= term(n) + 1 /\ term(n) \in Nat /\ k \in Nat
      /\ \A i \in 1..term(n) : certs[n][i].nonce \in Nat /\ (certs[n][i].nonce < k <=> i < r)
  BY <1>1, LogTyped DEF Durable, LogOK
<1> DEFINE passed == {i \in DOMAIN certs[n] : k - 1 >= certs[n][i].nonce}
<1>3. DOMAIN certs[n] = 1..term(n)
  BY LogTyped DEF Durable, term
<1>4. passed = 1..(r - 1)
  BY <1>1, <1>2, <1>3
<1>5. log[n][k].leader = ROLE_ORDER[r]
  BY <1>1, RoleAt, Ranks
<1>6. CASE r = 1
  <2>1. passed = {}
    BY <1>4, <1>6
  <2> QED
    BY <1>5, <1>6, <2>1 DEF expected, ROLE_ORDER
<1>7. CASE r # 1
  <2>1. passed # {} /\ r - 1 \in passed /\ \A i \in passed : i <= r - 1
    BY <1>1, <1>4, <1>7
  <2> HIDE DEF passed
  <2>2. (CHOOSE i \in passed : \A j \in passed : j <= i) = r - 1
    <3>1. PICK x : x = CHOOSE i \in passed : \A j \in passed : j <= i
      OBVIOUS
    <3>2. x \in passed /\ \A j \in passed : j <= x
      BY <2>1, <3>1
    <3>3. x \in Int /\ x <= r - 1 /\ r - 1 <= x
      BY <1>4, <2>1, <3>2
    <3> QED
      BY <1>1, <3>1, <3>3
  <2>3. expected(n, k - 1) = ROLE_ORDER[1 + (r - 1)]
    BY <2>1, <2>2 DEF expected, passed
  <2> QED
    BY <1>1, <1>5, <2>3
<1> QED
  BY <1>6, <1>7

\* A node can always restart: ReferenceNode.__init__ accepts the log and the certificates it
\* saved, at whatever moment it stopped.
THEOREM RestartableAlways == Spec => []Restartable
<1>1. ASSUME IInv, NEW n \in Nodes, NEW k \in DOMAIN log[n]
      PROVE  log[n][k].nonce = k /\ log[n][k].leader = expected(n, k - 1)
  <2>1. k \in 1..Len(log[n])
    BY <1>1, LogTyped DEF IInv, Durable
  <2> QED
    BY <1>1, <2>1, ExpectedIs DEF IInv, Durable, LogOK
<1>2. ASSUME IInv, NEW n \in Nodes PROVE from_snapshot(n)
  <2>1. /\ term(n) \in Nat /\ DOMAIN certs[n] = 1..term(n) /\ Len(log[n]) \in Nat
        /\ \A i \in 1..term(n) : certs[n][i].nonce \in Nat
    BY <1>2, LogTyped DEF IInv, Durable, term
  <2>2. position(n) = Len(log[n]) /\ CertsOK(n) /\ LogOK(n)
    BY <1>2, PositionIsLength DEF IInv, Durable
  <2>3. ASSUME NEW i \in 1..term(n), NEW j \in 1..i PROVE certs[n][j].nonce <= certs[n][i].nonce
    <3>1. j \in 1..term(n) /\ j <= i /\ i \in Nat
      BY <2>1
    <3>2. SUFFICES ASSUME certs[n][i].nonce < certs[n][j].nonce PROVE FALSE
      BY <2>1, <3>1
    <3>3. PICK k \in 1..Len(log[n]) : k = certs[n][j].nonce
      BY <2>1, <2>2, <3>1, <3>2 DEF CertsOK
    <3>4. log[n][k].leader \in Nodes
      BY <1>2, LogTyped DEF IInv, Durable
    <3>5. Rank(log[n][k].leader) \in Nat
      BY <3>4, Ranks
    <3>6. \A l \in 1..term(n) : certs[n][l].nonce < k <=> l < Rank(log[n][k].leader)
      BY <2>2 DEF LogOK
    <3>7. i < Rank(log[n][k].leader)
      BY <3>2, <3>3, <3>6
    <3>8. ~(j < Rank(log[n][k].leader))
      BY <2>1, <3>1, <3>3, <3>6
    <3> QED BY <3>1, <3>5, <3>7, <3>8
  <2> QED
    BY <2>1, <2>2, <2>3 DEF from_snapshot, CertsOK, ROLE_ORDER
<1>3. IInv => Restartable
  BY <1>1, <1>2 DEF Restartable
<1> QED
  BY <1>3, Invariance, PTL

\* A sequence that agrees with a longer one is its prefix.
LEMMA PrefixOf ==
    ASSUME NEW S, NEW s \in Seq(S), NEW t \in Seq(S), Len(s) <= Len(t),
           \A k \in 1..Len(s) : s[k] = t[k]
    PROVE  IsPrefix(s, t)
BY DEF IsPrefix

\* Of two sequences that agree where both are defined one is a prefix of the other.
LEMMA ComparableIf ==
    ASSUME NEW S, NEW s \in Seq(S), NEW t \in Seq(S),
           \A k \in 1..Len(s) : k \in 1..Len(t) => s[k] = t[k]
    PROVE  Comparable(s, t)
<1>1. Len(s) \in Nat /\ Len(t) \in Nat
  OBVIOUS
<1>2. CASE Len(s) <= Len(t)
  BY <1>1, <1>2, PrefixOf DEF Comparable
<1>3. CASE Len(t) <= Len(s)
  BY <1>1, <1>3, PrefixOf DEF Comparable
<1> QED
  BY <1>1, <1>2, <1>3

\* Two nodes that passed a term passed it with the same certificate.
LEMMA SameCertificate ==
    ASSUME Durable, NEW n \in Nodes, NEW p \in Nodes, NEW i \in 1..term(n), i \in 1..term(p)
    PROVE  certs[n][i] = certs[p][i]
<1>1. \A r \in Nodes : term(r) \in 0..2
  BY Leading
<1>2. i \in {1, 2}
  BY <1>1
<1> QED
  BY <1>1, <1>2, NodesAre DEF Durable, Succession, Follows

\* There is never more than one certificate of a term in use, although a candidate that retried
\* has certified the term several times: record_leadership_certificate refuses a second one.
THEOREM OneCertificateAlways == Spec => []OneCertificatePerTerm
<1>1. IInv => OneCertificatePerTerm
  <2> SUFFICES ASSUME IInv, NEW n \in Nodes, NEW p \in Nodes PROVE Comparable(certs[n], certs[p])
    BY DEF OneCertificatePerTerm
  <2>1. certs[n] \in Seq(Certificates) /\ certs[p] \in Seq(Certificates)
    BY LogTyped DEF IInv, Durable
  <2>2. \A i \in 1..Len(certs[n]) : i \in 1..Len(certs[p]) => certs[n][i] = certs[p][i]
    BY SameCertificate DEF IInv, term
  <2> QED
    BY <2>1, <2>2, ComparableIf
<1> QED
  BY <1>1, Invariance, PTL

\* Two entries of one leader at one position are the same.
LEMMA SameEntry ==
    ASSUME Durable, NEW n \in Nodes, NEW p \in Nodes, NEW k \in 1..Len(log[n]), k \in 1..Len(log[p]),
           Rank(log[n][k].leader) = Rank(log[p][k].leader)
    PROVE  log[n][k] = log[p][k]
<1>1. log[n][k].leader = log[p][k].leader
  BY LogTyped, Ranks DEF Durable
<1>2. log[n][k].nonce = k /\ Sourced(log[n][k])
  BY DEF Durable, LogOK
<1>3. log[p][k].nonce = k /\ Sourced(log[p][k])
  BY DEF Durable, LogOK
<1>4. log[log[n][k].leader][k] = log[n][k]
  BY <1>2 DEF Sourced
<1>5. log[log[p][k].leader][k] = log[p][k]
  BY <1>3 DEF Sourced
<1> QED
  BY <1>1, <1>4, <1>5

\* Nodes of one term have the same entry wherever both have one.
LEMMA SameTermSameEntry ==
    ASSUME Durable, NEW n \in Nodes, NEW p \in Nodes, NEW k \in 1..Len(log[n]), k \in 1..Len(log[p]),
           term(n) = term(p)
    PROVE  log[n][k] = log[p][k]
<1>1. PICK r \in 1..3 : r = Rank(log[n][k].leader)
  BY LogTyped, Ranks DEF Durable
<1>2. PICK q \in 1..3 : q = Rank(log[p][k].leader)
  BY LogTyped, Ranks DEF Durable
<1>3. /\ term(n) \in Nat /\ r <= term(n) + 1 /\ q <= term(n) + 1
      /\ \A i \in 1..term(n) : certs[n][i].nonce < k <=> i < r
      /\ \A i \in 1..term(n) : certs[p][i].nonce < k <=> i < q
  BY <1>1, <1>2, LogTyped DEF Durable, LogOK
<1>4. \A i \in 1..term(n) : certs[n][i] = certs[p][i]
  BY SameCertificate
<1>5. \A i \in 1..term(n) : i < r <=> i < q
  BY <1>3, <1>4
<1>6. r = q
  <2>1. ~(r < q)
    BY <1>3, <1>5
  <2>2. ~(q < r)
    BY <1>3, <1>5
  <2> QED
    BY <2>1, <2>2
<1> QED
  BY <1>1, <1>2, <1>6, SameEntry

\* The logs of two nodes of the same term never disagree, whatever call was lost, late or
\* repeated and whoever crashed.
THEOREM SameTermAlwaysAgrees == Spec => []SameTermAgrees
<1>1. IInv => SameTermAgrees
  <2> SUFFICES ASSUME IInv, NEW n \in Nodes, NEW p \in Nodes, term(n) = term(p)
               PROVE  Comparable(log[n], log[p])
    BY DEF SameTermAgrees
  <2>1. log[n] \in Seq(Envelopes) /\ log[p] \in Seq(Envelopes)
    BY LogTyped DEF IInv, Durable
  <2>2. \A k \in 1..Len(log[n]) : k \in 1..Len(log[p]) => log[n][k] = log[p][k]
    BY SameTermSameEntry DEF IInv
  <2> QED
    BY <2>1, <2>2, ComparableIf
<1> QED
  BY <1>1, Invariance, PTL

\* A peer that sync_replicas counts as synchronized has the whole log of the leader, if both are
\* in one term; the code compares positions only.
THEOREM SyncedAlwaysMeansCaughtUp == Spec => []SyncedMeansCaughtUp
<1>1. IInv => SyncedMeansCaughtUp
  <2> SUFFICES ASSUME IInv, NEW n \in Nodes, NEW p \in Peers(n),
                      job[n].kind = "sync", job[n].task[p].at = "done", term(n) = term(p)
               PROVE  IsPrefix(log[n], log[p])
    BY DEF SyncedMeansCaughtUp
  <2>1. p \in Nodes /\ Len(log[n]) <= Len(log[p])
    BY JobHere DEF JobOK, PreparingOK, Peers
  <2>2. log[n] \in Seq(Envelopes) /\ log[p] \in Seq(Envelopes) /\ Len(log[n]) \in Nat /\ Len(log[p]) \in Nat
    BY <2>1, LogTyped DEF IInv, Durable
  <2>3. \A k \in 1..Len(log[n]) : k \in 1..Len(log[p])
    BY <2>1, <2>2
  <2>4. \A k \in 1..Len(log[n]) : log[n][k] = log[p][k]
    BY <2>1, <2>3, SameTermSameEntry DEF IInv
  <2> QED
    BY <2>1, <2>2, <2>4, PrefixOf
<1> QED
  BY <1>1, Invariance, PTL

\* A mutation whose client was told that it had no quorum is never applied at any node, also if
\* a replica prepared it and never heard of the abort.
THEOREM RefusedIsNeverApplied == Spec => []RefusedNeverApplied
<1>1. IInv => RefusedNeverApplied
  <2> SUFFICES ASSUME IInv, NEW n \in Nodes, NEW k \in DOMAIN log[n], log[n][k].mutation \in refused
               PROVE  FALSE
    BY DEF RefusedNeverApplied, applied
  <2>1. k \in 1..Len(log[n]) /\ log[n][k].mutation \in Mutations
    BY LogTyped DEF IInv, Durable
  <2> QED
    BY <2>1 DEF IInv, ClientOK, Applied
<1> QED
  BY <1>1, Invariance, PTL

\* A node that passed the term of an entry has an entry there, of that term or an earlier one.
LEMMA CertifiedBelow ==
    ASSUME Durable, NEW n \in Nodes, NEW p \in Nodes, NEW k \in 1..Len(log[p]),
           NEW i \in 1..term(p), i \in 1..term(n), Rank(log[p][k].leader) = i
    PROVE  k \in 1..Len(log[n]) /\ Rank(log[n][k].leader) <= i
<1>1. /\ k \in Nat /\ Len(log[n]) \in Nat /\ i \in Nat
      /\ certs[p][i].nonce \in Nat /\ ~(certs[p][i].nonce < k)
  BY LogTyped DEF Durable, LogOK
<1>2. certs[n][i] = certs[p][i] /\ certs[n][i].nonce <= Len(log[n])
  BY SameCertificate DEF Durable, CertsOK
<1>3. k \in 1..Len(log[n])
  BY <1>1, <1>2
<1>4. Rank(log[n][k].leader) \in 1..3 /\ ~(i < Rank(log[n][k].leader))
  BY <1>1, <1>2, <1>3, LogTyped, Ranks DEF Durable, LogOK
<1> QED
  BY <1>3, <1>4

\* A node that passed the term of an entry of another node, which passed it too, has that entry.
LEMMA CertifiedHere ==
    ASSUME Durable, NEW n \in Nodes, NEW p \in Nodes, NEW k \in 1..Len(log[p]),
           NEW i \in 1..term(p), i \in 1..term(n), Rank(log[p][k].leader) = i
    PROVE  k \in 1..Len(log[n]) /\ log[n][k] = log[p][k]
<1>1. /\ k \in 1..Len(log[n]) /\ Rank(log[n][k].leader) <= i /\ Rank(log[n][k].leader) \in 1..3
  BY CertifiedBelow, LogTyped, Ranks DEF Durable
<1>2. /\ term(n) \in 0..2 /\ term(p) \in 0..2 /\ i \in 1..2
  BY Leading
<1>3. ASSUME Rank(log[n][k].leader) < i PROVE FALSE
  <2>1. Rank(log[n][k].leader) \in 1..term(n) /\ Rank(log[n][k].leader) \in 1..term(p)
    BY <1>1, <1>2, <1>3
  <2>2. Rank(log[p][k].leader) <= Rank(log[n][k].leader)
    BY <1>1, <2>1, CertifiedBelow
  <2> QED
    BY <1>1, <1>2, <1>3, <2>2
<1>4. Rank(log[n][k].leader) = i
  BY <1>1, <1>2, <1>3
<1> QED
  BY <1>1, <1>4, SameEntry

\* The chief leads its term, and no other node has led a later one.
LEMMA ChiefLeads ==
    ASSUME Durable
    PROVE  /\ Chief \in Nodes /\ term(Chief) = Rank(Chief) - 1 /\ leader(Chief) = Chief
           /\ \A n \in Nodes : term(n) >= Rank(n) - 1 => Rank(n) <= Rank(Chief)
<1>1. /\ term("primary") \in 0..2 /\ term("secondary") \in 0..2 /\ term("tertiary") \in 0..2
  BY Leading, NodesAre
<1>2. /\ 1 <= term("secondary") => 1 <= term("tertiary")
      /\ 1 <= term("primary") => 1 <= term("secondary")
      /\ 2 <= term("tertiary") => 2 <= term("primary")
      /\ 2 <= term("secondary") => 2 <= term("tertiary")
  BY DEF Durable, Succession, Follows
<1>3. Chief \in Nodes /\ term(Chief) = Rank(Chief) - 1
  <2>1. CASE term("tertiary") >= 2
    BY <1>1, <2>1, NodesAre DEF Chief, Rank
  <2>2. CASE ~(term("tertiary") >= 2) /\ term("secondary") >= 1
    BY <1>1, <1>2, <2>2, NodesAre DEF Chief, Rank
  <2>3. CASE ~(term("tertiary") >= 2) /\ ~(term("secondary") >= 1)
    BY <1>1, <1>2, <2>3, NodesAre DEF Chief, Rank
  <2> QED
    BY <2>1, <2>2, <2>3
<1>4. leader(Chief) = Chief
  BY <1>3, Leading, Ranks
<1>5. \A n \in Nodes : term(n) >= Rank(n) - 1 => Rank(n) <= Rank(Chief)
  BY <1>1, NodesAre DEF Chief, Rank
<1> QED
  BY <1>3, <1>4, <1>5

\* A leader of the latest term is the chief.
LEMMA LatestLeader ==
    ASSUME Durable, NEW n \in Nodes, leader(n) = n, \A p \in Nodes : term(p) <= term(n)
    PROVE  n = Chief
<1>1. /\ Chief \in Nodes /\ term(Chief) = Rank(Chief) - 1 /\ term(n) = Rank(n) - 1
      /\ Rank(n) <= Rank(Chief)
  BY ChiefLeads, LeaderHere, Leading
<1>2. Rank(n) = Rank(Chief)
  BY <1>1, Ranks
<1> QED
  BY <1>1, <1>2, Ranks

\* The chief has every entry that a node has of another leader: what two nodes committed
\* survives every takeover.
LEMMA ChiefHolds ==
    ASSUME Durable, NEW p \in Nodes, NEW k \in 1..Len(log[p]), log[p][k].leader # p
    PROVE  k \in 1..Len(log[Chief]) /\ log[Chief][k] = log[p][k]
<1>0. PICK n \in Nodes : n = Chief /\ term(n) = Rank(n) - 1
  BY ChiefLeads
<1>1. PICK r \in 1..3 : r = Rank(log[p][k].leader) /\ log[p][k].leader \in Nodes
  BY LogTyped, Ranks DEF Durable
<1>2. log[p][k].nonce = k /\ Sourced(log[p][k])
  BY DEF Durable, LogOK
<1>3. r <= Rank(n)
  <2>1. PICK l \in Nodes : l = log[p][k].leader /\ k \in 1..Len(log[l]) /\ log[l][k] = log[p][k]
    BY <1>1, <1>2 DEF Sourced
  <2>2. r <= term(l) + 1
    BY <1>1, <2>1 DEF Durable, LogOK
  <2>3. term(l) \in 0..2 /\ Rank(l) = r
    BY <1>1, <2>1, Leading
  <2>4. term(l) >= Rank(l) - 1
    BY <2>2, <2>3
  <2> QED
    BY <1>0, <2>3, <2>4, ChiefLeads
<1>4. /\ term(n) \in 0..2 /\ term(p) \in 0..2 /\ Rank(n) \in 1..3 /\ Rank(p) \in 1..3
  BY Leading, Ranks
<1>5. CASE r = Rank(n)
  <2>1. log[p][k].leader = n
    BY <1>1, <1>5, Ranks
  <2> QED
    BY <1>0, <1>2, <2>1 DEF Sourced
<1>6. CASE r # Rank(n) /\ p # n
  <2>1. r # Rank(p) /\ Rank(p) # Rank(n) /\ r \in 1..term(n)
    BY <1>0, <1>1, <1>3, <1>4, <1>6, Ranks
  <2>2. /\ 1 <= term("secondary") => 1 <= term("tertiary")
        /\ 1 <= term("primary") => 1 <= term("secondary")
        /\ 2 <= term("tertiary") => 2 <= term("primary")
    BY DEF Durable, Succession, Follows
  <2>3. r <= term(p)
    <3>1. CASE n = "secondary"
      <4>1. r = 1 /\ p = "tertiary"
        BY <1>0, <1>1, <2>1, <3>1, NodesAre DEF Rank
      <4> QED
        BY <1>0, <2>2, <3>1, <4>1 DEF Rank
    <3>2. CASE n = "tertiary"
      <4>1. term("tertiary") = 2 /\ term("primary") >= 2 /\ r \in {1, 2}
        BY <1>0, <1>1, <2>1, <2>2, <3>2 DEF Rank
      <4>2. term("secondary") >= 1
        BY <2>2, <4>1, Leading, NodesAre
      <4>3. (r = 1 /\ p = "secondary") \/ (r = 2 /\ p = "primary")
        BY <2>1, <3>2, <4>1, NodesAre DEF Rank
      <4> QED
        BY <4>1, <4>2, <4>3
    <3>3. n # "primary"
      BY <1>0, <2>1 DEF Rank
    <3> QED
      BY <3>1, <3>2, <3>3, NodesAre
  <2>4. r \in 1..term(p)
    BY <1>1, <1>4, <2>3
  <2> QED
    BY <1>0, <1>1, <2>1, <2>4, CertifiedHere
<1>7. CASE p = n
  BY <1>0, <1>7
<1> QED
  BY <1>5, <1>6, <1>7

\* Every acknowledged mutation is in the chief's ledger.
ChiefComplete == \A m \in acked : \E k \in 1..Len(log[Chief]) : log[Chief][k].mutation = m

\* It is: a peer that confirmed the commit had the entry, and the chief has what two nodes have.
LEMMA AckedListed == IInv => ChiefComplete
<1> SUFFICES ASSUME IInv, NEW m \in acked
             PROVE  \E k \in 1..Len(log[Chief]) : log[Chief][k].mutation = m
  BY DEF ChiefComplete
<1>1. PICK p \in Nodes : \E k \in 1..Len(log[p]) : log[p][k].mutation = m /\ log[p][k].leader # p
  BY DEF IInv, AckedOK
<1>2. PICK k \in 1..Len(log[p]) : log[p][k].mutation = m /\ log[p][k].leader # p
  BY <1>1
<1>3. k \in 1..Len(log[Chief]) /\ log[Chief][k] = log[p][k]
  BY <1>2, ChiefHolds DEF IInv
<1> QED
  BY <1>2, <1>3

\* The same after a step.
LEMMA AckedListedThen == IInv' => ChiefComplete'
BY AckedListed, PTL

\* No takeover loses a mutation whose client got a result: it is in the ledger of every leader of
\* the latest term.
THEOREM AckedAlwaysSurvives == Spec => []AckedSurvives
<1>1. IInv => AckedSurvives
  <2> SUFFICES ASSUME IInv, NEW n \in Nodes, leader(n) = n,
                      \A p \in Nodes : term(p) <= term(n), NEW m \in acked
               PROVE  m \in applied(n)
    BY DEF AckedSurvives
  <2>1. n = Chief
    BY LatestLeader DEF IInv
  <2>2. PICK k \in 1..Len(log[n]) : log[n][k].mutation = m
    BY <2>1, AckedListed DEF ChiefComplete
  <2>3. k \in DOMAIN log[n]
    BY <2>2, LogTyped DEF IInv, Durable
  <2> QED
    BY <2>2, <2>3 DEF applied
<1> QED
  BY <1>1, Invariance, PTL
-----------------------------------------------------------------------------
(* The cluster implements Service.                                         *)

\* A sequence with one more element.
LEMMA AppendIs ==
    ASSUME NEW S, NEW h \in Seq(S), NEW m \in S
    PROVE  Append(h, m) = [k \in 1..(Len(h) + 1) |-> IF k = Len(h) + 1 THEN m ELSE h[k]]
<1>0. Append(h, m) \in Seq(S)
  OBVIOUS
<1>1. PICK g \in Seq(S) : g = Append(h, m)
  BY <1>0
<1>2. /\ Len(h) \in Nat /\ Len(g) = Len(h) + 1
      /\ \A k \in 1..(Len(h) + 1) : g[k] = IF k = Len(h) + 1 THEN m ELSE h[k]
  BY <1>1
<1>3. g \in [1..(Len(h) + 1) -> S]
  BY <1>2
<1> QED
  BY <1>1, <1>2, <1>3

\* The first elements of a sequence.
LEMMA PrefixIs ==
    ASSUME NEW S, NEW h \in Seq(S), NEW k \in 0..Len(h)
    PROVE  SubSeq(h, 1, k) = [j \in 1..k |-> h[j]]
<1>0. SubSeq(h, 1, k) \in Seq(S)
  OBVIOUS
<1>1. PICK g \in Seq(S) : g = SubSeq(h, 1, k)
  BY <1>0
<1>2. Len(h) \in Nat /\ Len(g) = k /\ \A j \in 1..k : g[j] = h[j]
  BY <1>1
<1>3. g \in [1..k -> S]
  BY <1>2
<1> QED
  BY <1>1, <1>2, <1>3

\* A step: the same node is chief, and its log is the same.
ChiefUntouched == Chief' = Chief /\ log'[Chief] = log[Chief]

\* A handler, run on any request other than the certificate that makes its node leader, does
\* not touch the chief: a leader takes no entry from anyone.
LEMMA HandledElsewhere ==
    ASSUME Durable, NEW p \in Nodes, NEW q, Foreign(p, q), Handle(p, q)
    PROVE  ChiefUntouched
<1>1. log \in [Nodes -> Seq(Envelopes)] /\ certs \in [Nodes -> Seq(Certificates)]
  BY DEF Durable, Types
<1>2. CASE ~succeeds(p, q)
  BY <1>2 DEF Handle, durable, ChiefUntouched, Chief, term
<1>3. CASE succeeds(p, q)
  <2>1. Chief \in Nodes /\ leader(Chief) = Chief
    BY ChiefLeads
  <2>2. log'[Chief] = log[Chief]
    <3>1. CASE q.method = "commit"
      <4>1. p # Chief
        BY <1>3, <2>1, <3>1, Outcome DEF commits, verify
      <4> QED
        BY <1>1, <1>3, <2>1, <3>1, <4>1 DEF Handle
    <3>2. CASE q.method # "commit"
      BY <1>3, <3>2 DEF Handle
    <3> QED
      BY <3>1, <3>2
  <2>3. Chief' = Chief
    <3>1. CASE q.method = "certificate" /\ ~known(p, q)
      <4>1. q.body.term = term(p) + 1 /\ q.body.term # Rank(p) - 1
        BY <1>3, <3>1, Outcome DEF records, known, Foreign
      <4>2. certs' = [certs EXCEPT ![p] = Append(@, q.body)]
        BY <1>3, <3>1 DEF Handle
      <4>3. /\ term(p)' = term(p) + 1 /\ term(p) \in Nat
            /\ \A r \in Nodes \ {p} : term(r)' = term(r)
        BY <1>1, <4>2 DEF term
      <4>4. p = "secondary" => term(p) # 0
        BY <4>1 DEF Rank
      <4>5. p = "tertiary" => term(p) # 1
        BY <4>1 DEF Rank
      <4>6. (term("tertiary") >= 2)' = (term("tertiary") >= 2)
        BY <4>3, <4>5, NodesAre
      <4>7. (term("secondary") >= 1)' = (term("secondary") >= 1)
        BY <4>3, <4>4, NodesAre
      <4> QED
        BY <4>6, <4>7 DEF Chief
    <3>2. CASE ~(q.method = "certificate" /\ ~known(p, q))
      BY <1>3, <3>2 DEF Handle, Chief, term
    <3> QED
      BY <3>1, <3>2
  <2> QED
    BY <2>2, <2>3 DEF ChiefUntouched
<1> QED
  BY <1>2, <1>3

\* Neither does a call of one.
LEMMA CalledElsewhere ==
    ASSUME Durable, NEW p \in Nodes, NEW q, NEW ok, Foreign(p, q), Call(p, q, ok)
    PROVE  ChiefUntouched
<1>1. CASE Handle(p, q)
  BY <1>1, HandledElsewhere
<1>2. CASE UNCHANGED durable
  BY <1>2 DEF durable, ChiefUntouched, Chief, term
<1> QED
  BY <1>1, <1>2 DEF Call

\* Nor a step that leaves all logs and certificates alone.
LEMMA NothingSaved ==
    ASSUME UNCHANGED <<log, certs>>
    PROVE  ChiefUntouched
BY DEF ChiefUntouched, Chief, term

\* What the clients see: a step of Service, or none.
Keeps == [Promise!Next]_<<digest(Chief), asked, acked, refused>>

\* A step that touches neither the chief nor the clients is no step of Service.
LEMMA Unseen ==
    ASSUME ChiefUntouched, UNCHANGED client
    PROVE  Keeps
<1>1. digest(Chief)' = digest(Chief)
  BY DEF ChiefUntouched, digest
<1> QED
  BY <1>1 DEF Keeps, client

\* The mutations of the chief's ledger are mutations applied somewhere.
LEMMA ListedIs ==
    ASSUME IInv
    PROVE  /\ digest(Chief) \in Seq(Mutations) /\ Len(digest(Chief)) = Len(log[Chief])
           /\ \A k \in 1..Len(log[Chief]) : digest(Chief)[k] = log[Chief][k].mutation
           /\ \A m \in Promise!Listed : Applied(m)
           /\ \A k \in 1..Len(log[Chief]) : log[Chief][k].mutation \in Promise!Listed
<1>1. PICK c \in Nodes : c = Chief
  BY ChiefLeads DEF IInv
<1>2. /\ log[c] \in Seq(Envelopes) /\ DOMAIN log[c] = 1..Len(log[c]) /\ Len(log[c]) \in Nat
      /\ \A k \in 1..Len(log[c]) : log[c][k].mutation \in Mutations
  BY LogTyped DEF IInv, Durable
<1>3. PICK h : h = digest(c) /\ h = [k \in 1..Len(log[c]) |-> log[c][k].mutation]
  BY <1>2 DEF digest
<1>4. h \in Seq(Mutations) /\ Len(h) = Len(log[c]) /\ DOMAIN h = 1..Len(log[c])
  BY <1>2, <1>3
<1>5. Promise!Listed = {h[k] : k \in 1..Len(log[c])}
  BY <1>1, <1>3, <1>4 DEF Promise!Listed
<1>6. \A k \in 1..Len(log[c]) : h[k] = log[c][k].mutation
  BY <1>3
<1> QED
  BY <1>1, <1>3, <1>4, <1>5, <1>6 DEF Applied

\* A client's request, whether it starts or waits, is a step of Service.
LEMMA SubmitSeen ==
    ASSUME IInv, NEW n \in Nodes, NEW m \in Mutations, Submit(n, m)
    PROVE  Keeps
<1>1. /\ m \notin asked /\ asked' = asked \cup {m} /\ UNCHANGED <<acked, refused, log, certs>>
  BY DEF Submit, Enter, Begin, durable
<1>2. digest(Chief)' = digest(Chief)
  BY <1>1, NothingSaved DEF ChiefUntouched, digest
<1>3. Promise!Ask(m)
  BY <1>1, <1>2 DEF Promise!Ask
<1> QED
  BY <1>3 DEF Keeps, Promise!Next

\* A leader that decides applies the mutation if it is the chief.  One that is not, because a
\* successor has taken over since its peers prepared, writes to a log that nobody follows.
LEMMA DecideSeen ==
    ASSUME IInv, IInv', NEW n \in Nodes, Decide(n)
    PROVE  Keeps
<1>1. /\ job[n].kind = "prepare" /\ log' = [log EXCEPT ![n] = Append(@, job[n].env)]
      /\ UNCHANGED <<certs, asked, acked, refused>>
  BY DEF Decide, client
<1>2. PICK m \in Mutations : m = job[n].op /\ job[n].env.mutation = m
  <2>1. /\ job[n].op \in Mutations
        /\ job[n].env = [leader |-> n, nonce |-> Len(log[n]) + 1, mutation |-> job[n].op]
    BY <1>1, JobHere DEF JobOK
  <2>2. job[n].env.mutation = job[n].op
    BY <2>1
  <2> QED
    BY <2>1, <2>2
<1>3. PICK c \in Nodes : c = Chief
  BY ChiefLeads DEF IInv
<1>4. Chief' = Chief
  BY <1>1 DEF Chief, term
<1>5. CASE n # c
  <2>1. log'[c] = log[c]
    BY <1>1, <1>3, <1>5 DEF IInv, Durable, Types
  <2> QED
    BY <1>1, <1>3, <1>4, <2>1, Unseen DEF ChiefUntouched, client
<1>6. CASE n = c
  <2>1. m \in asked /\ m \notin refused /\ ~Applied(m)
    <3>1. Owns(n, "lock", m)
      BY <1>1, <1>2 DEF Owns
    <3> QED
      BY <3>1 DEF IInv, ClientOK, Places
  <2>2. /\ log[c] \in Seq(Envelopes) /\ log'[c] = Append(log[c], job[n].env)
    BY <1>1, <1>6 DEF IInv, Durable, Types
  <2>3. /\ DOMAIN log[c] = 1..Len(log[c]) /\ Len(log[c]) \in Nat
        /\ DOMAIN log'[c] = 1..(Len(log[c]) + 1)
        /\ \A k \in 1..Len(log[c]) : log'[c][k] = log[c][k]
        /\ log'[c][Len(log[c]) + 1] = job[n].env
    BY <2>2
  <2>4. PICK h \in Seq(Mutations) : /\ h = digest(c) /\ Len(h) = Len(log[c])
                                    /\ \A k \in 1..Len(h) : h[k] = log[c][k].mutation
    BY <1>3, ListedIs
  <2>5. digest(c)' = [k \in 1..(Len(h) + 1) |-> IF k = Len(h) + 1 THEN m ELSE h[k]]
    <3>1. \A k \in 1..(Len(h) + 1) :
              log'[c][k].mutation = IF k = Len(h) + 1 THEN m ELSE h[k]
      BY <1>2, <2>3, <2>4
    <3> QED
      BY <2>3, <2>4, <3>1 DEF digest
  <2>6. Append(h, m) = [k \in 1..(Len(h) + 1) |-> IF k = Len(h) + 1 THEN m ELSE h[k]]
    BY AppendIs
  <2>7. digest(Chief)' = Append(digest(Chief), m)
    BY <1>3, <1>4, <2>4, <2>5, <2>6 DEF digest
  <2>8. Promise!Apply(m)
    BY <1>1, <2>1, <2>7, ListedIs DEF Promise!Apply
  <2> QED
    BY <2>8 DEF Keeps, Promise!Next
<1> QED
  BY <1>5, <1>6

\* The answers to a client are those of Service: a result only for what the chief has, a
\* refusal only for what nobody applied.
LEMMA AnswersSeen ==
    ASSUME IInv, IInv', NEW n \in Nodes, AnswerCommitted(n) \/ AnswerRefused(n)
    PROVE  Keeps
<1>1. UNCHANGED <<log, certs, asked>>
  BY DEF AnswerCommitted, AnswerRefused, durable
<1>2. /\ ChiefUntouched /\ digest(Chief)' = digest(Chief)
  BY <1>1, NothingSaved DEF ChiefUntouched, digest
<1>3. PICK m \in Mutations : m = job[n].op
  BY JobHere DEF JobOK, AnswerCommitted, AnswerRefused
<1>4. CASE AnswerCommitted(n) /\ acked' = acked
  BY <1>1, <1>2, <1>4, Unseen DEF AnswerCommitted, client
<1>5. CASE AnswerCommitted(n) /\ acked' # acked
  <2>1. acked' = acked \cup {m} /\ UNCHANGED refused
    BY <1>3, <1>5 DEF AnswerCommitted
  <2>2. PICK k \in 1..Len(log'[Chief']) : log'[Chief'][k].mutation = m
    BY <2>1, AckedListedThen DEF ChiefComplete
  <2>3. m \in Promise!Listed
    BY <1>2, <2>2, ListedIs DEF ChiefUntouched
  <2>4. Promise!Acknowledge(m)
    BY <1>1, <1>2, <2>1, <2>3 DEF Promise!Acknowledge
  <2> QED
    BY <2>4 DEF Keeps, Promise!Next
<1>6. CASE AnswerRefused(n)
  <2>1. refused' = refused \cup {m} /\ UNCHANGED acked /\ job[n].kind = "abort"
    BY <1>3, <1>6 DEF AnswerRefused
  <2>2. m \in asked /\ ~Applied(m)
    <3>1. Owns(n, "lock", m)
      BY <1>3, <2>1 DEF Owns
    <3> QED
      BY <3>1 DEF IInv, ClientOK, Places
  <2>3. Promise!Refuse(m)
    BY <1>1, <1>2, <2>1, <2>2, ListedIs DEF Promise!Refuse
  <2> QED
    BY <2>3 DEF Keeps, Promise!Next
<1> QED
  BY <1>4, <1>5, <1>6

\* A successor that records its certificate becomes chief.  Its log is a prefix of the log it
\* takes over, for it has entries of earlier leaders only, and has what was acknowledged.
LEMMA TakeoverSeen ==
    ASSUME IInv, IInv', NEW c \in Nodes, takeover[c].at # "idle", NEW d \in Certificates,
           d.term = term(c) + 1, Handle(c, Certificate(d)), UNCHANGED client
    PROVE  Keeps
<1>1. /\ Durable /\ term(c) = Rank(c) - 2 /\ c \in {"secondary", "tertiary"}
      /\ log \in [Nodes -> Seq(Envelopes)] /\ certs \in [Nodes -> Seq(Certificates)]
  BY TakingOver DEF IInv, Durable, Types
<1>2. log' = log
  BY DEF Handle, Certificate, durable
<1>3. CASE certs' = certs
  BY <1>2, <1>3, NothingSaved, Unseen
<1>4. CASE certs' # certs
  <2>1. certs' = [certs EXCEPT ![c] = Append(@, d)]
    BY <1>4 DEF Handle, Certificate, durable
  <2>2. /\ term(c)' = Rank(c) - 1 /\ \A p \in Nodes \ {c} : term(p)' = term(p)
    BY <1>1, <2>1, Ranks DEF term
  <2>3. Chief' = c
    <3>1. CASE c = "tertiary"
      BY <2>2, <3>1 DEF Chief, Rank
    <3>2. CASE c = "secondary"
      <4>1. term("secondary") = 0 /\ term("secondary")' = 1
        BY <1>1, <2>2, <3>2 DEF Rank
      <4>2. term("tertiary")' = term("tertiary")
        BY <2>2, <3>2, NodesAre
      <4>3. ~(2 <= term("tertiary"))
        <5>1. /\ 1 <= term("primary") => 1 <= term("secondary")
              /\ 2 <= term("tertiary") => 2 <= term("primary")
              /\ term("primary") \in 0..2
          BY <1>1, Leading, NodesAre DEF Durable, Succession, Follows
        <5> QED
          BY <4>1, <5>1
      <4>4. term("tertiary") \in 0..2
        BY <1>1, Leading, NodesAre
      <4> QED
        BY <3>2, <4>1, <4>2, <4>3, <4>4 DEF Chief
    <3> QED
      BY <1>1, <3>1, <3>2
  <2>4. PICK n \in Nodes : n = Chief
    BY <1>1, ChiefLeads
  <2>5. ASSUME NEW k \in 1..Len(log[c])
        PROVE  k \in 1..Len(log[n]) /\ log[n][k] = log[c][k]
    <3>1. log[c][k].leader # c
      <4>1. Rank(log[c][k].leader) <= term(c) + 1
        BY <1>1 DEF Durable, LogOK
      <4>2. Rank(c) \in 1..3 /\ term(c) + 1 = Rank(c) - 1
        BY <1>1, Ranks
      <4>3. ~(Rank(c) <= Rank(c) - 1)
        BY <4>2
      <4> QED
        BY <4>1, <4>2, <4>3
    <3> QED
      BY <1>1, <2>4, <3>1, ChiefHolds
  <2>6. Len(log[c]) \in Nat /\ Len(log[n]) \in Nat /\ Len(log[c]) <= Len(log[n])
    <3>1. Len(log[c]) \in Nat /\ Len(log[n]) \in Nat
      BY <1>1, LogTyped DEF Durable
    <3>2. Len(log[c]) # 0 => Len(log[c]) \in 1..Len(log[n])
      BY <2>5, <3>1
    <3> QED
      BY <3>1, <3>2
  <2>7. PICK h \in Seq(Mutations) : /\ h = digest(n) /\ Len(h) = Len(log[n])
                                    /\ \A k \in 1..Len(h) : h[k] = log[n][k].mutation
    BY <2>4, ListedIs
  <2>8. digest(c)' = [k \in 1..Len(log[c]) |-> h[k]]
    <3>1. DOMAIN log[c] = 1..Len(log[c])
      BY <1>1
    <3>2. \A k \in 1..Len(log[c]) : log[c][k].mutation = h[k]
      BY <2>5, <2>7
    <3> QED
      BY <1>2, <3>1, <3>2 DEF digest
  <2>9. SubSeq(h, 1, Len(log[c])) = [k \in 1..Len(log[c]) |-> h[k]]
    BY <2>6, <2>7, PrefixIs
  <2>10. digest(Chief)' = SubSeq(digest(Chief), 1, Len(log[c]))
    BY <2>3, <2>4, <2>7, <2>8, <2>9 DEF digest
  <2>11. ASSUME NEW m \in acked
         PROVE  \E j \in 1..Len(log[c]) : digest(Chief)[j] = m
    <3>1. PICK j \in 1..Len(log[c]) : log[c][j].mutation = m
      BY <1>2, <2>3, <2>11, AckedListedThen DEF ChiefComplete, client
    <3>2. h[j] = log[c][j].mutation
      BY <2>5, <2>7
    <3> QED
      BY <2>4, <2>7, <3>1, <3>2
  <2>12. Promise!TakeOver(Len(log[c]))
    BY <2>10, <2>11 DEF Promise!TakeOver, client
  <2>13. Len(log[c]) \in 0..Len(digest(Chief))
    BY <2>4, <2>6, <2>7
  <2> QED
    BY <2>12, <2>13 DEF Keeps, Promise!Next
<1> QED
  BY <1>3, <1>4

\* Every step of the leader is a step of Service or unseen by its clients.
LEMMA LeadSeen ==
    ASSUME IInv, IInv', NEW n \in Nodes, Lead(n)
    PROVE  Keeps
<1>0. Durable
  BY DEF IInv
<1>1. CASE \E m \in Mutations : Submit(n, m)
  BY <1>1, SubmitSeen
<1>2. CASE SubmitSync(n) \/ TakeLock(n) \/ OldAborted(n) \/ GiveUp(n) \/ AnswerSynced(n)
  <2>1. UNCHANGED <<log, certs>> /\ UNCHANGED client
    BY <1>2 DEF SubmitSync, Enter, TakeLock, OldAborted, Begin, GiveUp, AnswerSynced, durable
  <2> QED
    BY <2>1, NothingSaved, Unseen
<1>3. CASE AnswerCommitted(n) \/ AnswerRefused(n)
  BY <1>3, AnswersSeen
<1>4. CASE Decide(n)
  BY <1>4, DecideSeen
<1>5. ASSUME NEW p \in Peers(n), Broadcast(n, p)
      PROVE  Keeps
  <2>1. PICK ok \in BOOLEAN, q \in {Commit(job[n].env), Abort(job[n].env)} : Call(p, q, ok)
    BY <1>5 DEF Broadcast
  <2>2. p \in Nodes /\ Foreign(p, q) /\ UNCHANGED client
    BY <1>5, PlainRequest DEF Peers, Broadcast
  <2> QED
    BY <1>0, <2>1, <2>2, CalledElsewhere, Unseen
<1>6. ASSUME NEW p \in Peers(n), SyncAndPrepare(n, p)
      PROVE  Keeps
  <2>1. p \in Nodes /\ UNCHANGED client
    BY <1>6 DEF SyncAndPrepare, Peers
  <2>2. CASE UNCHANGED durable
    BY <2>1, <2>2, NothingSaved, Unseen DEF durable
  <2>3. ASSUME NEW ok \in BOOLEAN, NEW q, Call(p, q, ok),
               q = Due(n, job[n].task[p]) \/ q = Prepare(job[n].env)
        PROVE  Keeps
    <3>1. Foreign(p, q)
      BY <2>3, PlainRequest DEF Due
    <3> QED
      BY <1>0, <2>1, <2>3, <3>1, CalledElsewhere, Unseen
  <2> QED
    BY <1>6, <2>2, <2>3 DEF SyncAndPrepare
<1>7. ASSUME NEW p \in Peers(n), ShareCertificate(n, p)
      PROVE  Keeps
  <2>1. /\ p \in Nodes /\ n # p /\ leader(n) = n /\ certs[n] # <<>>
        /\ Call(p, Certificate(Last(certs[n])), FALSE) /\ UNCHANGED client
    BY <1>7 DEF ShareCertificate, Peers
  <2>2. term(n) = Rank(n) - 1 /\ term(n) \in 1..2
    <3>1. term(n) = Rank(n) - 1 /\ term(n) \in 0..2
      BY <1>0, <2>1, LeaderHere, Leading
    <3>2. term(n) # 0
      BY <1>0, <2>1, LogTyped DEF term, Durable
    <3> QED
      BY <3>1, <3>2
  <2>3. Last(certs[n]).term = Rank(n) - 1
    BY <1>0, <2>2, LogTyped DEF Last, term, Durable, CertsOK
  <2>4. PICK q : q = Certificate(Last(certs[n])) /\ Foreign(p, q)
    BY <2>1, <2>3, Ranks DEF Foreign, Certificate
  <2> QED
    BY <1>0, <2>1, <2>4, CalledElsewhere, Unseen
<1> QED
  BY <1>1, <1>2, <1>3, <1>4, <1>5, <1>6, <1>7 DEF Lead

\* So is every step of the successor.
LEMMA SucceedSeen ==
    ASSUME IInv, IInv', NEW c \in Nodes, Succeed(c)
    PROVE  Keeps
<1>0. Durable
  BY DEF IInv
<1>1. CASE \/ StartTakeover(c) \/ Answer(c) \/ NoAnswer(c) \/ Reconcile(c) \/ Confirm(c) \/ Certify(c)
  <2>1. UNCHANGED durable /\ UNCHANGED client
    BY <1>1 DEF StartTakeover, Answer, NoAnswer, Reconcile, Confirm, Certify
  <2> QED
    BY <2>1, NothingSaved, Unseen DEF durable
<1>2. CASE Pull(c)
  <2>1. /\ UNCHANGED client /\ certs' = certs /\ takeover[c].at # "idle"
        /\ log' = log \/ \E x : log' = [log EXCEPT ![c] = x]
    BY <1>2 DEF Pull, durable
  <2>2. Chief \in Nodes /\ Chief # c /\ Chief' = Chief
    <3>1. term(c) = Rank(c) - 2 /\ Rank(c) \in 1..3
      BY <2>1, TakingOver, Ranks
    <3>2. Chief \in Nodes /\ term(Chief) = Rank(Chief) - 1
      BY <1>0, ChiefLeads
    <3>3. Chief # c
      BY <3>1, <3>2
    <3> QED
      BY <2>1, <3>2, <3>3 DEF Chief, term
  <2>3. log'[Chief] = log[Chief]
    BY <2>1, <2>2 DEF IInv, Durable, Types
  <2> QED
    BY <2>1, <2>2, <2>3, Unseen DEF ChiefUntouched
<1>3. CASE Push(c)
  <2>1. takeover[c].at # "idle" /\ UNCHANGED client
    BY <1>3 DEF Push
  <2>2. witness(c) \in Nodes
    BY <2>1, TakingOver, HelperIs
  <2>3. CASE UNCHANGED durable
    BY <2>1, <2>3, NothingSaved, Unseen DEF durable
  <2>4. ASSUME NEW ok \in BOOLEAN, NEW q, q = Due(c, takeover[c].task), Call(witness(c), q, ok)
        PROVE  Keeps
    <3>1. Foreign(witness(c), q)
      BY <2>4, PlainRequest DEF Due
    <3> QED
      BY <1>0, <2>1, <2>2, <2>4, <3>1, CalledElsewhere, Unseen
  <2> QED
    BY <1>3, <2>3, <2>4 DEF Push
<1>4. CASE AskToRecord(c)
  <2>1. takeover[c].at = "certificate" /\ UNCHANGED client
    BY <1>4 DEF AskToRecord
  <2>2. /\ witness(c) \in Nodes /\ witness(c) # c
        /\ term(c) = Rank(c) - 2 /\ NewCertificate(c).term = term(c) + 1
    BY <2>1, TakingOver, HelperIs, CertificateMade
  <2>3. PICK q, ok : /\ q = Certificate(NewCertificate(c)) /\ q.method = "certificate"
                     /\ q.body = NewCertificate(c) /\ Call(witness(c), q, ok)
    BY <1>4 DEF AskToRecord, Certificate
  <2>4. Foreign(witness(c), q)
    BY <2>2, <2>3, Ranks DEF Foreign
  <2> QED
    BY <1>0, <2>1, <2>2, <2>3, <2>4, CalledElsewhere, Unseen
<1>5. CASE Record(c)
  <2>1. /\ takeover[c].at = "certificate" /\ Handle(c, Certificate(NewCertificate(c)))
        /\ UNCHANGED client
    BY <1>5 DEF Record
  <2> QED
    BY <2>1, CertificateMade, TakeoverSeen
<1>6. CASE RecoverOrVote(c)
  <2>1. takeover[c].at = "leadership" /\ takeover[c].got # None /\ UNCHANGED client
    BY <1>6 DEF RecoverOrVote
  <2>2. PICK theirs \in Seq(Certificates), w \in Nodes :
            /\ theirs = takeover[c].got
            /\ \A j \in 1..Len(theirs) : j <= term(w) /\ theirs[j] = certs[w][j]
    BY <2>1, TakeoverHere, HelperIs DEF TakeoverOK, AnswerOK
  <2>3. CASE Len(theirs) = term(c) + 1
    <3>1. PICK k \in 1..Len(theirs) : k = term(c) + 1 /\ k = Len(theirs)
      BY <1>0, <2>3, LogTyped DEF Durable
    <3>2. PICK d \in Certificates : d = Last(theirs) /\ d = certs[w][k]
      BY <2>2, <3>1 DEF Last
    <3>3. d.term = term(c) + 1
      BY <1>0, <2>2, <3>1, <3>2, LogTyped DEF Durable, CertsOK
    <3>4. Handle(c, Certificate(d))
      BY <1>6, <2>2, <2>3, <3>2 DEF RecoverOrVote
    <3> QED
      BY <2>1, <3>3, <3>4, TakeoverSeen
  <2>4. CASE Len(theirs) # term(c) + 1
    <3>1. UNCHANGED durable
      BY <1>6, <2>2, <2>4 DEF RecoverOrVote
    <3> QED
      BY <2>1, <3>1, NothingSaved, Unseen DEF durable
  <2> QED
    BY <2>3, <2>4
<1> QED
  BY <1>1, <1>2, <1>3, <1>4, <1>5, <1>6 DEF Succeed

\* To its clients the cluster is one ledger.  Replication, catch-up, lost, late and repeated
\* calls, crashes and two takeovers implement Service, with the log of the chief for its
\* history: a mutation is applied at most once and never after a refusal, and what was
\* acknowledged keeps its place.
THEOREM ServiceImplemented == Spec => ImplementsService
<1>1. Init => Promise!Init
  <2> SUFFICES ASSUME Init PROVE Promise!Init
    OBVIOUS
  <2>1. Chief \in Nodes
    BY NodesAre DEF Chief
  <2>2. log[Chief] = <<>>
    BY <2>1 DEF Init
  <2>3. digest(Chief) = <<>>
    BY <2>2 DEF digest
  <2> QED
    BY <2>3 DEF Init, Promise!Init
<1>2. IInv /\ IInv' /\ [Next]_vars => Keeps
  <2> SUFFICES ASSUME IInv, IInv', [Next]_vars PROVE Keeps
    OBVIOUS
  <2>1. ASSUME NEW n \in Nodes, Lead(n) PROVE Keeps
    BY <2>1, LeadSeen
  <2>2. ASSUME NEW n \in Nodes, Succeed(n) PROVE Keeps
    BY <2>2, SucceedSeen
  <2>3. CASE (\E n \in Nodes : Crash(n)) \/ UNCHANGED vars
    <3>1. UNCHANGED durable /\ UNCHANGED client
      BY <2>3 DEF Crash, vars
    <3> QED
      BY <3>1, NothingSaved, Unseen DEF durable
  <2>4. CASE DeliverLate
    <3>1. PICK x \in late : Handle(x.to, x.request) /\ UNCHANGED client
      BY <2>4 DEF DeliverLate
    <3>2. x.to \in Nodes /\ Foreign(x.to, x.request)
      BY DEF IInv, LateOK
    <3> QED
      BY <3>1, <3>2, HandledElsewhere, Unseen DEF IInv
  <2> QED
    BY <2>1, <2>2, <2>3, <2>4 DEF Next
<1>3. IInv /\ IInv' /\ [Next]_vars => [Promise!Next]_<<digest(Chief), asked, acked, refused>>
  BY <1>2 DEF Keeps
<1> QED
  BY <1>1, <1>3, Invariance, PTL DEF Spec, ImplementsService, Promise!Spec
=============================================================================
